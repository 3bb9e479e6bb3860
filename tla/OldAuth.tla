------------------------------- MODULE OldAuth -------------------------------
(***************************************************************************)
(* The authentication window of the original program (main.rs, auth.rs),   *)
(* beside the port's: prompts of either program run on one terminal while  *)
(* a machine is upgraded.  The original asks Linux-PAM in its own process, *)
(* ignores SIGPIPE, and gives up when it cannot read a line.               *)
(***************************************************************************)
EXTENDS Auth

CONSTANT Mixes      \* which processes may be the original's

ASSUME OldAuthAssumption == Mixes \subseteq SUBSET Proc

VARIABLE old        \* the processes that run the original

mixedAuthVars == <<authVars, old>>

------------------------------------------------------------------------------
(* mask_auth_signals: SIGINT, SIGTSTP and SIGQUIT, as in the port.         *)
OldMaskSignals(p) == MaskSignals(p)

(* read_password: tcgetattr, tcsetattr without ECHO when stdin is a        *)
(* terminal, one line.  Only when tcsetattr succeeded is there a guard,    *)
(* which sets the saved attributes on every way out, also when the line    *)
(* cannot be read (an error of the terminal, bytes that are no UTF-8); how *)
(* that call went nobody looks at.  The end of the input is an empty line. *)
(* A failed read leaves part of the line where it was stored; as nothing   *)
(* uses it, it counts as wrong.                                            *)
OldEchoOff(p) == TcGets(p) \/ EchoOff(p)

OldReadLine(p) == Step(p, "read", IF muted[p] THEN "echoon" ELSE "decide") /\ Typed(p, Line)

Part == {"empty", "wrong"}
OldReadFailsLeavingEcho(p) == Step(p, "read", "unread") /\ Typed(p, Part)
OldReadFails(p) == Step(p, "read", IF muted[p] THEN "unreadecho" ELSE "unread") /\ Typed(p, Part)

EchoGuardDrop(p) ==
    \/ EchoOn(p)
    \/ Step(p, "unreadecho", "unread") /\ \E done \in BOOLEAN : TcSetSaved(p, done)

------------------------------------------------------------------------------
(* authenticate_user: an empty line uses up an attempt; an error of both   *)
(* backends counts as a refusal.                                           *)
OldAttempt(p) == EmptyLine(p) \/ CallBackend(p)

(* pam_authenticate: PAM accepts the right password or, the account locked *)
(* or a module failing, refuses it; a service that cannot be opened leaves *)
(* the question to su.                                                     *)
OldPamAnswers(p) ==
    \/ pbuf[p] = "right" /\ Accept(p, "pam") /\ Heard(p, "pam", "yes")
    \/ NextAttempt(p, "pam") /\ Heard(p, "pam", "no")

OldPamUnavailable(p) == PamUnavailable(p)

(* su_authenticate: a write to a su that has died already fails and is not *)
(* looked at; su's exit status decides.                                    *)
OldSuAnswersOrDies(p) == SuAnswers(p) \/ SuBrokenPipe(p)
OldSuAnswers(p) == SuAnswers(p)

------------------------------------------------------------------------------
(* restore_signals, then what authenticate_user returned: an error ends    *)
(* the program without a record, a refusal with one, and a permission goes *)
(* on to the ticket.                                                       *)
OldRestoreSignals(p) ==
    \/ RestoreSignals(p)
    \/ /\ Step(p, "unread", IF pending[p] \cap Fatal # {} THEN "dead" ELSE "gone")
       /\ blocked' = [blocked EXCEPT ![p] = {}]
       /\ pending' = [pending EXCEPT ![p] = {}]
       /\ UNCHANGED <<echo, stuck, attempt, saved, muted, pbuf, stopped, trail, backend>>

OldVerdict(p) == AuditFailure(p) \/ RefreshTicket(p)

OldProcStep(p) ==
    \/ OldMaskSignals(p) \/ OldEchoOff(p) \/ OldReadLine(p) \/ OldReadFails(p)
    \/ EchoGuardDrop(p) \/ OldAttempt(p)
    \/ OldPamAnswers(p) \/ OldPamUnavailable(p) \/ OldSuAnswers(p)
    \/ OldRestoreSignals(p) \/ OldVerdict(p)

MixedAuthInit == AuthInit /\ old \in Mixes

MixedProcStep(p) ==
    /\ \/ p \notin old /\ ProcStep(p)
       \/ p \in old /\ OldProcStep(p)
    /\ UNCHANGED old

MixedAuthNext ==
    \E p \in Proc :
        \/ MixedProcStep(p)
        \/ (Signalled(p) \/ Continued(p)) /\ UNCHANGED old

MixedAuthSpec == MixedAuthInit /\ [][MixedAuthNext]_mixedAuthVars

(* Each process runs on, and its user ends a line or closes the input.     *)
FairMixedAuthSpec ==
    MixedAuthSpec /\ \A p \in Proc : WF_mixedAuthVars(MixedProcStep(p))

------------------------------------------------------------------------------
Window == {"tcgets", "echooff", "read", "echoon", "unreadecho", "decide", "pam", "su"}

(* Nothing from the keyboard ends the original between its mask and the    *)
(* end of its last attempt, a broken pipe to su included, so a password is *)
(* never left half checked; what was pending takes effect after it.        *)
KeepsWindow == \A p \in old : apc[p] \in Window => apc'[p] # "dead"
WindowUninterrupted == [][KeepsWindow]_mixedAuthVars

(* No living process keeps a password it is done with: outside the read    *)
(* and the backend call its buffer is zeroed, whatever ended the attempt   *)
(* (main.rs: "Password buffers are zeroized after use").  The exception is *)
(* the original after a read that failed: it returns before the zeroize.   *)
(* The copy in the buffer of Rust's stdin is not this buffer.              *)
PasswordScrubbed ==
    \A p \in Proc :
        pbuf[p] # "clear" =>
            \/ apc[p] \in {"echoon", "decide", "pam", "su", "dead"}
            \/ p \in old /\ apc[p] \in {"unreadecho", "unread", "gone"}

(* For the signals of the keyboard, and one prompt per terminal: the       *)
(* terminal is silent only between the two tcsetattr calls of that prompt, *)
(* or for ever when the second failed.                                     *)
KeyboardOnly == Signal \subseteq AuthSigmask
OnePrompt == \A p, q \in OnTty : p = q

Silenced == {"read", "echoon", "unreadecho"}

EchoFollows ==
    /\ OnTty = {} => echo
    /\ \A p \in OnTty :
          /\ echo <=> ~stuck /\ ~(apc[p] \in Silenced /\ muted[p])
          /\ apc[p] \in Silenced \cup {"echooff"} => saved[p] = ~stuck

(* Through the window the signals stay blocked.                            *)
Blocking == Window \cup {"accept", "reject", "unread"}

SignalsBlocked ==
    \A p \in Proc :
        /\ apc[p] \in Blocking => blocked[p] = AuthSigmask /\ ~stopped[p]
        /\ apc[p] \in {"echooff", "echoon", "unreadecho"} \/ muted[p] => p \in OnTty

(* A backend is asked at most once in an attempt, unix_chkpwd first.       *)
BeforeBackend == (Window \ {"su"}) \cup {"mask"}
Counted ==
    \A p \in Proc :
        /\ backend[p].pam <= attempt[p]
        /\ apc[p] \in BeforeBackend => backend[p].pam < attempt[p]
        /\ backend[p].su <= backend[p].pam
        /\ apc[p] = "su" => backend[p].su < backend[p].pam

(* The inductive invariant.  What it says of the mask it says for signals  *)
(* of the keyboard, and what it says of the echo also for one prompt per   *)
(* terminal only; the rest holds whatever signals come.                    *)
AuthIInv ==
    /\ AuthTypeOK /\ old \subseteq Proc
    /\ Counted /\ BackendDiscipline /\ PasswordScrubbed
    /\ KeyboardOnly => SignalsBlocked
    /\ KeyboardOnly /\ OnePrompt => EchoFollows
==============================================================================
