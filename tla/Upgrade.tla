------------------------------- MODULE Upgrade -------------------------------
(***************************************************************************)
(* A machine on which the port replaces the original program (main.rs), or *)
(* is rolled back to it, while invocations are under way and tickets are   *)
(* on disk, and on which another program calls the library's evaluate()    *)
(* (api.rs and its port).  A process runs the program that was installed   *)
(* when it started: the port takes the steps of module Shakti, the         *)
(* original those below; both use the credential cache of OldTimestamp.    *)
(***************************************************************************)
EXTENDS Shakti, OldTimestamp

upVars == <<vars, binary>>

UpInit == ShInit /\ binary \in [Proc -> Binary]

(* main and shk_run, or the other program, start.                          *)
UpBegin(p, r) ==
    /\ Begin(p, r)
    /\ \E b \in Binary : binary' = [binary EXCEPT ![p] = b]

------------------------------------------------------------------------------
(* audit_log: an event goes to the journal, then, as far as the file can   *)
(* be written, to the file; neither failure is noticed.                    *)
AuditAction == {"COMMAND", "AUTH_FAILURE"}
Audited(action, success) ==
    IF action = "AUTH_FAILURE" THEN action ELSE IF success THEN "ALLOWED" ELSE "DENIED"
OldAudit(p, action, success) == action \in AuditAction /\ Audit(p, Audited(action, success))

OldRefuse(p, from, action) ==
    /\ OldAudit(p, action, FALSE)
    /\ Exit(p, from, "1")
    /\ UNCHANGED <<req, how, child, proved, tsVars>>

(* run: -k ends without an audit record.                                   *)
OldStartInvalidate(p) == StartInvalidateAt(p, old_timestamp_path(req[p].session))

OldFinishInvalidate(p) ==
    /\ Exit(p, "invalidating", IF ret[p] = "ok" THEN "0" ELSE "1")
    /\ Return(p)
    /\ UNCHANGED <<req, how, child, trail, proved>>

OldLoadPolicy(p) == req[p].mode = "run" /\ Pass(p, "start", "evaluate")

(* validate_command and resolve_command: an error ends the run at once.    *)
OldReject(p) == req[p].verdict = "invalid" /\ Fail(p, "evaluate", "1")

(* check_authorization, then check_timestamp where the rule asks for a     *)
(* password; capabilities and transcripts are unknown to the original.     *)
OldDeny(p) == req[p].verdict = "denied" /\ OldRefuse(p, "evaluate", "COMMAND")

OldCheckTicket(p) == CheckTicketAt(p, old_timestamp_path(req[p].session))

OldNoPassword(p) == Allowed(p) /\ ~req[p].auth /\ Pass(p, "evaluate", "oldadmit")

OldTicketAnswer(p) ==
    /\ Move(p, "checking", IF ret[p] = "valid" THEN "oldadmit" ELSE "oldprompt")
    /\ how' = [how EXCEPT ![p] = IF ret[p] = "valid" THEN "ticket" ELSE "none"]
    /\ Return(p)
    /\ UNCHANGED <<req, fds, child, rc, trail, proved>>

(* authenticate_user; an error of the terminal ends the run once the       *)
(* signals are restored.                                                   *)
OldPasswordAccepted(p) ==
    /\ Move(p, "oldprompt", "oldticket")
    /\ how' = [how EXCEPT ![p] = "password"]
    /\ proved' = proved \cup {Seat(req[p].session)}
    /\ UNCHANGED <<req, fds, child, rc, trail, tsVars>>

OldPasswordRefused(p) == OldRefuse(p, "oldprompt", "AUTH_FAILURE")

OldNoPasswordRead(p) == Pass(p, "oldprompt", "oldunread")

OldUnread(p) == Fail(p, "oldunread", "1")

(* update_timestamp; a failure is only warned of.                          *)
OldRefreshTicket(p) ==
    /\ Move(p, "oldticket", "oldrefreshing")
    /\ CallUpdate(p, old_timestamp_path(req[p].session))
    /\ UNCHANGED <<req, how, fds, child, rc, trail, proved>>

OldTicketRefreshed(p) ==
    /\ Move(p, "oldrefreshing", "oldadmit")
    /\ Return(p)
    /\ UNCHANGED <<req, how, fds, child, rc, trail, proved>>

(* The ALLOWED record comes before the target is looked up.                *)
OldAdmitUnrecorded(p) == Pass(p, "oldadmit", "oldtarget")
OldAdmit(p) ==
    /\ Move(p, "oldadmit", "oldtarget")
    /\ OldAudit(p, "COMMAND", TRUE)
    /\ UNCHANGED <<req, how, fds, child, rc, proved, tsVars>>

OldTarget(p) ==
    \/ req[p].target = "missing" /\ Fail(p, "oldtarget", "1")
    \/ req[p].target # "missing" /\ Pass(p, "oldtarget", "oldexec")

(* cmd.exec with its pre_exec hook: initgroups, setgid, setuid, execve.    *)
OldExec(p) == Pass(p, "oldexec", "oldrunning") \/ Fail(p, "oldexec", "1")

OldStep(p) ==
    \/ Inform(p) \/ LookupFails(p) \/ OldStartInvalidate(p) \/ OldFinishInvalidate(p)
    \/ OldLoadPolicy(p) \/ OldReject(p) \/ OldDeny(p)
    \/ OldCheckTicket(p) \/ OldNoPassword(p) \/ OldTicketAnswer(p)
    \/ OldPasswordAccepted(p) \/ OldPasswordRefused(p)
    \/ OldNoPasswordRead(p) \/ OldUnread(p)
    \/ OldRefreshTicket(p) \/ OldTicketRefreshed(p)
    \/ OldAdmit(p) \/ OldTarget(p) \/ OldExec(p)

------------------------------------------------------------------------------
(* evaluate_with_policy as another program calls it, in either version:    *)
(* Interactive leaves the prompt to the caller, TimestampOnly ("cached")   *)
(* wants a ticket, Skip looks at none.  rc is "0" for an Evaluation that   *)
(* is authorized and carries no error, "expired" for the port's that is    *)
(* authorized and carries SHK_ERR_TIMESTAMP_EXPIRED, and "1" for one that  *)
(* is not authorized, or the original's Err.                               *)
EvaluateStart(p) ==
    /\ req[p].mode \in LibMode
    /\ Pass(p, "start", "libevaluate") \/ Fail(p, "start", "1")

EvaluateDeny(p) == ~Allowed(p) /\ Fail(p, "libevaluate", "1")

EffectiveRequireAuth(r) == r.auth /\ r.mode # "skip"

EvaluateNoTicket(p) ==
    /\ Allowed(p) /\ ~EffectiveRequireAuth(req[p])
    /\ Fail(p, "libevaluate", "0")

TicketPath(p) ==
    IF binary[p] = "port" THEN timestamp_path(req[p].session)
    ELSE old_timestamp_path(req[p].session)

EvaluateTicket(p) ==
    /\ Allowed(p) /\ EffectiveRequireAuth(req[p])
    /\ Move(p, "libevaluate", "libchecking")
    /\ CallCheck(p, TicketPath(p))
    /\ UNCHANGED <<req, how, fds, child, rc, trail, proved>>

TimestampOnlyFailsOpen(p) == FALSE
TimestampOnlyFails(p) == req[p].mode = "cached" /\ ret[p] # "valid"

Evaluation(p) ==
    IF ~TimestampOnlyFails(p) THEN "0" ELSE IF binary[p] = "port" THEN "expired" ELSE "1"

EvaluateAnswer(p) ==
    /\ Exit(p, "libchecking", Evaluation(p))
    /\ how' = [how EXCEPT ![p] = IF ret[p] = "valid" THEN "ticket" ELSE "none"]
    /\ Return(p)
    /\ UNCHANGED <<req, child, trail, proved>>

EvaluateStep(p) ==
    \/ EvaluateStart(p) \/ EvaluateDeny(p) \/ EvaluateNoTicket(p)
    \/ EvaluateTicket(p) \/ EvaluateAnswer(p)

------------------------------------------------------------------------------
UpStep(p) ==
    /\ \/ binary[p] = "port" /\ ShStep(p)
       \/ binary[p] = "original" /\ OldStep(p)
       \/ EvaluateStep(p)
    /\ UNCHANGED binary

UpLibrary(p) == MixedStep(p) /\ UNCHANGED <<shVars, binary>>

(* The original's command replaces it, as a command without a pty does.    *)
OldCommandEnds(p) == \E code \in {"0", "1"} : Fail(p, "oldrunning", code)

UpKill(p) == pc[p] # "oldrunning" /\ ShKill(p)

UpEnds(p) ==
    \/ RelayGivesUp(p) \/ CommandEnds(p) \/ ChildEnds(p) \/ Buried(p)
    \/ OldCommandEnds(p) \/ UpKill(p)

UpNext ==
    \/ \E p \in Proc :
          \/ \E r \in Requests : UpBegin(p, r)
          \/ UpStep(p) \/ UpLibrary(p)
          \/ UpEnds(p) /\ UNCHANGED binary
    \/ (Clock \/ ShReboot) /\ UNCHANGED binary

UpSpec == UpInit /\ [][UpNext]_upVars

(* Every process keeps running, and its user answers the prompt.           *)
FairUpSpec ==
    UpSpec /\ \A p \in Proc : WF_upVars(UpStep(p)) /\ WF_upVars(UpLibrary(p))

------------------------------------------------------------------------------
UpRunning(p) == Running(p) \/ pc[p] = "oldrunning"

(* Whichever program runs a command, and whichever wrote the ticket it     *)
(* relied on: the policy allows it and the target exists; where a password *)
(* is asked for, one was accepted of the same user on the same terminal,   *)
(* or of the same user without one, since boot, unless a directory may     *)
(* stand for a ticket; the ALLOWED record is there and no refusal.  The    *)
(* port also knows the rule's capabilities.                                *)
UpExecJustified ==
    \A p \in Proc : UpRunning(p) =>
        /\ req[p].mode = "run" /\ Allowed(p) /\ req[p].target # "missing"
        /\ binary[p] = "port" => req[p].named
        /\ req[p].auth =>
              how[p] # "none" /\ (NoDirs => Seat(req[p].session) \in proved)
        /\ "ALLOWED" \in trail[p] /\ trail[p] \cap Refusal = {}

(* An evaluate() that comes back authorized stands for a permission of the *)
(* policy, and what it reports as a valid timestamp was earned at the same *)
(* seat.  In the mode TimestampOnly it comes back authorized without a     *)
(* ticket where the rule asks for a password only in the port, and then    *)
(* always with the error: eval_authorized alone does not mean that nobody  *)
(* has to be asked.                                                        *)
EvaluationBacked ==
    \A p \in Proc :
        pc[p] = "over" /\ req[p].mode \in LibMode /\ rc[p] \in {"0", "expired"} =>
            /\ Allowed(p)
            /\ req[p].mode = "cached" /\ req[p].auth => rc[p] = "0" <=> how[p] = "ticket"
            /\ rc[p] = "expired" =>
                  binary[p] = "port" /\ req[p].mode = "cached" /\ req[p].auth
            /\ NoDirs /\ how[p] = "ticket" => Seat(req[p].session) \in proved

(* An invocation that was to run a command and ends by itself leaves a     *)
(* verdict ("All attempts are audit-logged") in both programs, but for     *)
(* these exits, which write none: the caller has no name or the policy     *)
(* cannot be loaded; in the port the target is unknown; in the original    *)
(* the command is invalid or names no program, or the password could not   *)
(* be read.                                                                *)
SilentExit(p) ==
    \/ pc[p] = "start"
    \/ pc[p] = "target" /\ req[p].target = "missing"
    \/ pc[p] = "evaluate" /\ binary[p] = "original" /\ req[p].verdict = "invalid"
    \/ pc[p] = "oldunread"

Concludes(p) ==
    /\ req[p].mode = "run" /\ pc[p] # "over"
    /\ pc'[p] = "over" /\ rc'[p] \in {"0", "1", "127"}

UpAttemptRecorded ==
    [][\A p \in Proc :
          Concludes(p) => trail'[p] \cap (Refusal \cup {"ALLOWED"}) # {} \/ SilentExit(p)]_upVars

(* Every invocation of either program, and every evaluate(), ends or comes *)
(* to run its command.                                                     *)
UpInvocationDecided ==
    \A p \in Proc : pc[p] = "start" ~> pc[p] \in {"over", "dead"} \/ UpRunning(p)

------------------------------------------------------------------------------
(* What is settled along the original's run and along evaluate().          *)
OldAfterAuth == {"oldadmit"} \cup OldAdmitted
OldAfterVerdict ==
    OldAfterAuth \cup {"oldprompt", "oldunread", "oldticket", "oldrefreshing"}

OldSettled(p) ==
    /\ pc[p] \in OldAfterVerdict =>
          binary[p] = "original" /\ req[p].mode = "run" /\ Allowed(p)
    /\ pc[p] \in OldAfterAuth => (req[p].auth => how[p] # "none")
    /\ pc[p] \in {"oldexec", "oldrunning"} => req[p].target # "missing"
    /\ pc[p] \in AfterCaps \cup {"caps"} => binary[p] = "port"
    /\ pc[p] = "invalidating" => req[p].mode = "invalidate"
    /\ pc[p] \in LibPc => req[p].mode \in LibMode
    /\ pc[p] = "libchecking" => Allowed(p) /\ EffectiveRequireAuth(req[p])
    /\ pc[p] = "over" /\ req[p].mode \in LibMode /\ rc[p] \in {"0", "expired"} =>
          /\ Allowed(p)
          /\ req[p].mode = "cached" /\ req[p].auth => rc[p] = "0" <=> how[p] = "ticket"
          /\ rc[p] = "expired" =>
                binary[p] = "port" /\ req[p].mode = "cached" /\ req[p].auth
    /\ pc[p] = "dead" => rc[p] = "killed"

UpIInv ==
    /\ FlowInv
    /\ binary \in [Proc -> Binary]
    /\ TicketDirSafe
    /\ \A p \in Proc : OldSettled(p)
    /\ NoDirs => MixedIInv /\ TicketsProved

------------------------------------------------------------------------------
(* The promise of module Escalation, for both programs: the original has   *)
(* no capabilities to look up and admits before it looks the target up;    *)
(* nothing is promised while a directory stands for a ticket.              *)
UpToRun == ToRun \X Binary
UpMayRun(j) == j[1].verdict = "allowed" /\ (j[2] = "port" => MayRun(j[1]))
UpAsks(j) == Asks(j[1])
UpAsker(j) == Asker(j[1])

UpUnasked(p) == Unasked(p) \/ ~NoDirs

UpStageBar(p) ==
    IF UpRunning(p) THEN "running"
    ELSE IF "ALLOWED" \in trail[p] THEN "admitted" ELSE "asking"

upJobBar ==
    [p \in Proc |-> IF UpUnasked(p) THEN [stage |-> "idle"]
                    ELSE [stage |-> UpStageBar(p), request |-> <<req[p], binary[p]>>]]

upProvenBar == IF NoDirs THEN proved ELSE {}

UpPromise == INSTANCE Escalation WITH
    Requests <- UpToRun, Permitted <- UpMayRun, NeedsPassword <- UpAsks,
    SeatOf <- UpAsker, job <- upJobBar, proven <- upProvenBar

(* Every run of either program, and of both at once, is one Escalation     *)
(* allows.                                                                 *)
UpEscalationKept == UpPromise!EscSpec
==============================================================================
