-------------------------------- MODULE Auth ---------------------------------
(***************************************************************************)
(* The authentication window of shk_run: mask the signals, read at most    *)
(* MaxAttempts passwords with the terminal's echo off, try each with       *)
(* unix_chkpwd and, only when that helper is unusable, with su, restore    *)
(* the signals, then record the failure or go on to refresh the ticket.    *)
(*                                                                         *)
(* Processes of one pipeline share a terminal and its ECHO flag; those     *)
(* whose stdin is not the terminal (b in shakti a | shakti b) leave the    *)
(* flag alone.  Every buffer is a process's own.                           *)
(***************************************************************************)
EXTENDS Naturals, FiniteSets

CONSTANTS
    Proc,          \* shakti processes in their authentication window
    OnTty,         \* those whose stdin is the terminal
    MaxAttempts,   \* MAX_AUTH_ATTEMPTS
    Signal,        \* signals the surroundings send
    PamMayFail     \* may unix_chkpwd be missing or fail to start?

Fatal == {"INT", "QUIT", "TERM", "HUP"}

ASSUME AuthAssumption ==
    /\ OnTty \subseteq Proc
    /\ MaxAttempts \in Nat \ {0}
    /\ Signal \subseteq Fatal \cup {"TSTP"}
    /\ PamMayFail \in BOOLEAN

VARIABLES
    echo,      \* the terminal's ECHO flag
    stuck,     \* history: a call that should have restored ECHO failed
    apc,       \* what each process does next
    attempt,   \* the number of its current attempt
    saved,     \* ECHO in the termios it saved
    muted,     \* has it turned ECHO off, and not yet tried to restore it?
    pbuf,      \* its password buffer: zeroed, or what was typed
    blocked,   \* its signal mask
    pending,   \* signals raised while blocked
    stopped,   \* stopped by SIGTSTP
    trail,     \* what audit_log wrote for it
    backend    \* history: the answer of its last backend, and its calls

procVars == <<attempt, saved, muted, pbuf, blocked, pending, stopped, trail, backend>>
authVars == <<echo, stuck, apc, procVars>>

(* "unreadecho", "unread" and "gone" are places of the original program    *)
(* (module OldAuth).                                                       *)
Running == {"mask", "tcgets", "echooff", "read", "echoon", "decide", "pam", "su",
            "accept", "reject", "auditfail", "ticket", "unreadecho", "unread"}
Over == {"granted", "denied", "dead", "gone"}
Line == {"empty", "right", "wrong"}
Answer == {"none", "yes", "no", "unusable"}

AuthInit ==
    /\ echo = TRUE /\ stuck = FALSE
    /\ apc = [p \in Proc |-> "mask"]
    /\ attempt = [p \in Proc |-> 1]
    /\ saved = [p \in Proc |-> FALSE]
    /\ muted = [p \in Proc |-> FALSE]
    /\ pbuf = [p \in Proc |-> "clear"]
    /\ blocked = [p \in Proc |-> {}]
    /\ pending = [p \in Proc |-> {}]
    /\ stopped = [p \in Proc |-> FALSE]
    /\ trail = [p \in Proc |-> "nothing"]
    /\ backend = [p \in Proc |-> [said |-> "none", pam |-> 0, su |-> 0]]

Step(p, from, to) ==
    /\ apc[p] = from
    /\ ~stopped[p]
    /\ apc' = [apc EXCEPT ![p] = to]

------------------------------------------------------------------------------
(* _mask_auth_signals                                                      *)
AuthSigmask == {"INT", "QUIT", "TSTP"}

MaskSignals(p) ==
    /\ Step(p, "mask", "tcgets")
    /\ blocked' = [blocked EXCEPT ![p] = AuthSigmask]
    /\ UNCHANGED <<echo, stuck, attempt, saved, muted, pbuf, pending, stopped, trail, backend>>

(* _read_password_into: TCGETS, TCSETS without ECHO, the line, TCSETS of   *)
(* what was saved.  TCGETS fails when stdin is not a terminal.  Nobody     *)
(* looks at what the two TCSETS answer: when one fails the flag is as it   *)
(* was.                                                                    *)
TcGets(p) ==
    /\ Step(p, "tcgets", IF p \in OnTty THEN "echooff" ELSE "read")
    /\ saved' = [saved EXCEPT ![p] = IF p \in OnTty THEN echo ELSE @]
    /\ muted' = [muted EXCEPT ![p] = FALSE]
    /\ UNCHANGED <<echo, stuck, attempt, pbuf, blocked, pending, stopped, trail, backend>>

TcSetNoEchoOnce(p, done) ==
    /\ echo' = (echo /\ (~done \/ attempt[p] > 1))
    /\ muted' = [muted EXCEPT ![p] = done]
    /\ UNCHANGED <<stuck, attempt, saved, pbuf, blocked, pending, stopped, trail, backend>>
TcSetNoEcho(p, done) ==
    /\ echo' = (echo /\ ~done)
    /\ muted' = [muted EXCEPT ![p] = done]
    /\ UNCHANGED <<stuck, attempt, saved, pbuf, blocked, pending, stopped, trail, backend>>

TcSetSaved(p, done) ==
    /\ echo' = (IF done THEN saved[p] ELSE echo)
    /\ stuck' = (stuck \/ (~done /\ ~echo))
    /\ muted' = [muted EXCEPT ![p] = FALSE]
    /\ UNCHANGED <<attempt, saved, pbuf, blocked, pending, stopped, trail, backend>>

EchoOff(p) == Step(p, "echooff", "read") /\ \E done \in BOOLEAN : TcSetNoEcho(p, done)

(* A newline or the end of the input ends the line, also in its middle;    *)
(* without a byte before either the buffer is empty.                       *)
Typed(p, lines) ==
    /\ \E line \in lines : pbuf' = [pbuf EXCEPT ![p] = line]
    /\ UNCHANGED <<echo, stuck, attempt, saved, muted, blocked, pending, stopped, trail, backend>>

ReadLine(p) == Step(p, "read", IF p \in OnTty THEN "echoon" ELSE "decide") /\ Typed(p, Line)

EchoOn(p) == Step(p, "echoon", "decide") /\ \E done \in BOOLEAN : TcSetSaved(p, done)

------------------------------------------------------------------------------
(* _prompt_and_authenticate: after an attempt that did not succeed the     *)
(* buffer is zeroed and the next attempt, or the failure, follows.         *)
MoreAttemptsOneTooMany(n) == n <= MaxAttempts
MoreAttempts(n) == n < MaxAttempts

ScrubLate(p) == UNCHANGED pbuf
Scrub(p) == pbuf' = [pbuf EXCEPT ![p] = "clear"]

NextAttempt(p, from) ==
    /\ Step(p, from, IF MoreAttempts(attempt[p]) THEN "tcgets" ELSE "reject")
    /\ attempt' = [attempt EXCEPT ![p] = IF MoreAttempts(@) THEN @ + 1 ELSE @]
    /\ Scrub(p)
    /\ UNCHANGED <<echo, stuck, saved, muted, blocked, pending, stopped, trail>>

Accept(p, from) ==
    /\ Step(p, from, "accept")
    /\ Scrub(p)
    /\ UNCHANGED <<echo, stuck, attempt, saved, muted, blocked, pending, stopped, trail>>

(* An empty password uses up an attempt and never reaches a backend.       *)
EmptyLineFree(p) ==
    /\ pbuf[p] = "empty"
    /\ Step(p, "decide", "tcgets")
    /\ Scrub(p)
    /\ UNCHANGED <<echo, stuck, attempt, saved, muted, blocked, pending, stopped, trail, backend>>
EmptyLine(p) ==
    /\ pbuf[p] = "empty"
    /\ NextAttempt(p, "decide")
    /\ UNCHANGED backend

CallBackend(p) ==
    /\ pbuf[p] # "empty"
    /\ Step(p, "decide", "pam")
    /\ UNCHANGED <<echo, stuck, procVars>>

------------------------------------------------------------------------------
Heard(p, which, answer) ==
    backend' = [backend EXCEPT ![p] = [
        said |-> answer,
        pam |-> IF which = "pam" THEN @.pam + 1 ELSE @.pam,
        su |-> IF which = "su" THEN @.su + 1 ELSE @.su]]

(* pam_authenticate: unix_chkpwd accepts, rejects, or cannot be used.      *)
PamAnswersSuOnReject(p) ==
    \/ pbuf[p] = "right" /\ Accept(p, "pam") /\ Heard(p, "pam", "yes")
    \/ /\ pbuf[p] # "right"
       /\ Step(p, "pam", "su")
       /\ Heard(p, "pam", "no")
       /\ UNCHANGED <<echo, stuck, attempt, saved, muted, pbuf, blocked, pending, stopped, trail>>
PamAnswers(p) ==
    \/ pbuf[p] = "right" /\ Accept(p, "pam") /\ Heard(p, "pam", "yes")
    \/ pbuf[p] # "right" /\ NextAttempt(p, "pam") /\ Heard(p, "pam", "no")

PamUnavailable(p) ==
    /\ PamMayFail
    /\ Step(p, "pam", "su")
    /\ Heard(p, "pam", "unusable")
    /\ UNCHANGED <<echo, stuck, attempt, saved, muted, pbuf, blocked, pending, stopped, trail>>

(* su_authenticate: exit status 0 accepts; another status, death by a      *)
(* signal, or a failed pipe, fork or wait does not, even if the password   *)
(* was right.                                                              *)
SuAnswers(p) ==
    \/ pbuf[p] = "right" /\ Accept(p, "su") /\ Heard(p, "su", "yes")
    \/ NextAttempt(p, "su") /\ Heard(p, "su", "no")

(* When the su child has died (its exec failed) before the password is     *)
(* written, the write raises SIGPIPE, which nothing blocks or ignores.     *)
SuBrokenPipe(p) ==
    /\ Step(p, "su", "dead")
    /\ Heard(p, "su", "unusable")
    /\ UNCHANGED <<echo, stuck, attempt, saved, muted, pbuf, blocked, pending, stopped, trail>>

------------------------------------------------------------------------------
(* _restore_signals: what is pending takes effect before anything else.    *)
RestoreSignals(p) ==
    /\ \E next \in {"accept", "reject"} :
          Step(p, next, CASE pending[p] \cap Fatal # {} -> "dead"
                          [] next = "accept" -> "ticket"
                          [] next = "reject" -> "auditfail")
    /\ blocked' = [blocked EXCEPT ![p] = {}]
    /\ pending' = [pending EXCEPT ![p] = {}]
    /\ stopped' = [stopped EXCEPT ![p] = pending[p] = {"TSTP"}]
    /\ UNCHANGED <<echo, stuck, attempt, saved, muted, pbuf, trail, backend>>

AuditFailure(p) ==
    /\ Step(p, "auditfail", "denied")
    /\ trail' = [trail EXCEPT ![p] = "AUTH_FAILURE"]
    /\ UNCHANGED <<echo, stuck, attempt, saved, muted, pbuf, blocked, pending, stopped, backend>>

(* update_timestamp, whose result is not looked at (module Timestamp).     *)
RefreshTicket(p) ==
    /\ Step(p, "ticket", "granted")
    /\ UNCHANGED <<echo, stuck, procVars>>

ProcStep(p) ==
    \/ MaskSignals(p) \/ TcGets(p) \/ EchoOff(p) \/ ReadLine(p) \/ EchoOn(p)
    \/ EmptyLine(p) \/ CallBackend(p)
    \/ PamAnswers(p) \/ PamUnavailable(p) \/ SuAnswers(p) \/ SuBrokenPipe(p)
    \/ RestoreSignals(p) \/ AuditFailure(p) \/ RefreshTicket(p)

------------------------------------------------------------------------------
(* The surroundings: a blocked signal stays pending; else SIGTSTP stops    *)
(* the process and any other ends it where it stands.                      *)
Pend(p, s) ==
    /\ s \in blocked[p]
    /\ pending' = [pending EXCEPT ![p] = @ \cup {s}]
    /\ UNCHANGED <<apc, stopped>>

Stop(p, s) ==
    /\ s = "TSTP" /\ s \notin blocked[p]
    /\ stopped' = [stopped EXCEPT ![p] = TRUE]
    /\ UNCHANGED <<apc, pending>>

Kill(p, s) ==
    /\ s \in Fatal \ blocked[p]
    /\ apc' = [apc EXCEPT ![p] = "dead"]
    /\ stopped' = [stopped EXCEPT ![p] = FALSE]
    /\ UNCHANGED pending

Signalled(p) ==
    /\ apc[p] \in Running
    /\ \E s \in Signal : Pend(p, s) \/ Stop(p, s) \/ Kill(p, s)
    /\ UNCHANGED <<echo, stuck, attempt, saved, muted, pbuf, blocked, trail, backend>>

Continued(p) ==
    /\ stopped[p]
    /\ stopped' = [stopped EXCEPT ![p] = FALSE]
    /\ UNCHANGED <<echo, stuck, apc, attempt, saved, muted, pbuf, blocked, pending, trail, backend>>

AuthNext == \E p \in Proc : ProcStep(p) \/ Signalled(p) \/ Continued(p)

AuthSpec == AuthInit /\ [][AuthNext]_authVars

------------------------------------------------------------------------------
(* Every variable stays in its range; in particular no attempt is made     *)
(* after the last one (_prompt_and_authenticate).                          *)
AuthTypeOK ==
    /\ echo \in BOOLEAN /\ stuck \in BOOLEAN
    /\ apc \in [Proc -> Running \cup Over]
    /\ attempt \in [Proc -> 1..MaxAttempts]
    /\ saved \in [Proc -> BOOLEAN] /\ muted \in [Proc -> BOOLEAN]
    /\ pbuf \in [Proc -> Line \cup {"clear"}]
    /\ blocked \in [Proc -> SUBSET AuthSigmask]
    /\ pending \in [Proc -> SUBSET AuthSigmask]
    /\ stopped \in [Proc -> BOOLEAN]
    /\ trail \in [Proc -> {"nothing", "AUTH_FAILURE"}]
    /\ backend \in [Proc -> [said : Answer, pam : 0..MaxAttempts, su : 0..MaxAttempts]]

(* One invocation asks its backends at most MaxAttempts times, su only     *)
(* after unix_chkpwd proved unusable (a rejected password gets no second   *)
(* opinion), and goes on to the command only on an explicit yes.           *)
BackendDiscipline ==
    \A p \in Proc :
        /\ backend[p].pam <= MaxAttempts /\ backend[p].su <= backend[p].pam
        /\ apc[p] = "su" => backend[p].said = "unusable"
        /\ apc[p] \in {"accept", "ticket", "granted"} => backend[p].said = "yes"

(* While a password is being read from the terminal its echo is off, in    *)
(* every attempt, unless the call that turns it off failed: neither        *)
(* program refuses to read then (main.rs: "fall back to plain read").      *)
EchoOffWhileReading ==
    \A p \in OnTty : apc[p] = "read" /\ muted[p] => ~echo

(* Once every process of the terminal is over or stopped, the terminal     *)
(* echoes again, unless a call that restores it failed: Ctrl-C, Ctrl-\ and *)
(* Ctrl-Z leave no partial state.                                          *)
TerminalLeftUsable ==
    (\A p \in Proc : apc[p] \in Over \/ stopped[p]) => echo \/ stuck

(* An invocation that ends after its backends were asked and did not say   *)
(* yes has left its AUTH_FAILURE record (README: "All attempts are         *)
(* audit-logged").                                                         *)
RefusalAudited ==
    \A p \in Proc :
        apc[p] \in {"denied", "dead"} /\ backend[p].pam > 0 /\ backend[p].said # "yes"
            => trail[p] = "AUTH_FAILURE"

(* No authentication window lasts for ever: it ends or Ctrl-Z stops it.    *)
AuthEnds == \A p \in Proc : []<>(apc[p] \in Over \/ stopped[p])
==============================================================================
