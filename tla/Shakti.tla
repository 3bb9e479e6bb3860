------------------------------- MODULE Shakti --------------------------------
(***************************************************************************)
(* One invocation of shakti from shk_run to the command it starts, and as  *)
(* many of them at once as Proc has members, over one timestamp directory. *)
(*                                                                         *)
(* The module composes with Timestamp: a process enters check_timestamp,   *)
(* update_timestamp and invalidate_timestamp by their entry actions and    *)
(* waits for their answer.  What the policy says of a request is part of   *)
(* the request (module Policy); the password prompt is one answer (module  *)
(* Auth); the privilege drop succeeds or fails (module PrivDrop).          *)
(***************************************************************************)
EXTENDS Timestamp

CONSTANTS
    Requests,          \* the command lines, with what the policy says of them
    NssGroups,         \* [defaults] nss_groups
    SigchldIgnored     \* did the caller leave SIGCHLD ignored?

(* verdict: the command is no valid one or names no program, or what       *)
(* check_authorization says of it; named: every capability the rule names  *)
(* exists; auth, log, input: its effective require_auth and log switches.  *)
(* mode: a command line, or a call of evaluate() by another program in one *)
(* of its three modes (module Upgrade).                                    *)
LibMode == {"interactive", "cached", "skip"}
Request == [session : Session, mode : {"run", "invalidate", "inform"} \cup LibMode,
            verdict : {"invalid", "denied", "allowed"}, named : BOOLEAN,
            auth : BOOLEAN, log : BOOLEAN, input : BOOLEAN,
            target : {"root", "caller", "other", "missing"}]

ASSUME ShAssumption ==
    /\ Requests \subseteq Request
    /\ Requests # {}
    /\ NssGroups \in BOOLEAN
    /\ SigchldIgnored \in BOOLEAN

VARIABLES
    pc,       \* where each process is in shk_run
    req,      \* its request
    how,      \* what stands for the password: none, password or ticket
    fds,      \* the transcripts it has open
    child,    \* the process it forked to run the command on a pty
    rc,       \* exit status
    trail,    \* the records audit_log wrote for the invocation
    proved    \* history: the seats at which a password was accepted

procVars == <<pc, req, how, fds, child, rc, trail>>
shVars == <<pc, req, how, fds, child, rc, trail, proved>>
vars == <<tsVars, shVars>>

(* Places of the original program and of a library call (module Upgrade).  *)
OldAdmitted == {"oldtarget", "oldexec", "oldrunning"}
OldPc == {"oldprompt", "oldunread", "oldticket", "oldrefreshing", "oldadmit"} \cup OldAdmitted
LibPc == {"libevaluate", "libchecking"}
ShPc == {"over", "start", "invalidating", "evaluate", "checking", "caps",
         "prompt", "ticket", "refreshing", "target", "log", "inputlog",
         "admit", "pty", "fork", "relay", "wait", "exec", "running", "dead"}
        \cup OldPc \cup LibPc
Transcript == {"log", "input"}
Record == {"NSS_BACKEND", "TIMESTAMP_INVALIDATED", "DENIED", "AUTH_FAILURE", "ALLOWED"}
Refusal == {"DENIED", "AUTH_FAILURE"}

(* A seat is a user and the terminal, or no terminal, that user sits at:   *)
(* what a session, or the path of a ticket, stands for.                    *)
Seat(k) == IF k[2] \in Tty THEN k ELSE <<k[1], NoTty>>
ChildAlive == {"setup", "running"}
ChildGone == {"aborted", "ok", "ko"}
NoRequest == CHOOSE r \in Requests : TRUE

Quiet(pcs, rqs, hw, fd, ch, code, tr) ==
    /\ pcs = [p \in Proc |-> "over"]
    /\ rqs = [p \in Proc |-> NoRequest]
    /\ hw = [p \in Proc |-> "none"]
    /\ fd = [p \in Proc |-> {}]
    /\ ch = [p \in Proc |-> "none"]
    /\ code = [p \in Proc |-> "none"]
    /\ tr = [p \in Proc |-> {}]

ShInit ==
    /\ TsInit
    /\ Quiet(pc, req, how, fds, child, rc, trail)
    /\ proved = {}

Move(p, from, to) == pc[p] = from /\ pc' = [pc EXCEPT ![p] = to]

Exit(p, from, code) ==
    /\ Move(p, from, "over")
    /\ rc' = [rc EXCEPT ![p] = code]
    /\ fds' = [fds EXCEPT ![p] = {}]

Audit(p, record) == trail' = [trail EXCEPT ![p] = @ \cup {record}]

(* audit_log of a refusal, then exit status 1.                             *)
Refuse(p, from, record) ==
    /\ Audit(p, record)
    /\ Exit(p, from, "1")
    /\ UNCHANGED <<req, how, child, proved, tsVars>>

Fail(p, from, code) ==
    /\ Exit(p, from, code)
    /\ UNCHANGED <<req, how, child, trail, proved, tsVars>>

Pass(p, from, to) ==
    /\ Move(p, from, to)
    /\ UNCHANGED <<req, how, fds, child, rc, trail, proved, tsVars>>

------------------------------------------------------------------------------
(* A user starts shakti; a slot whose invocation is over is used again.    *)
Begin(p, r) ==
    /\ Move(p, "over", "start")
    /\ req' = [req EXCEPT ![p] = r]
    /\ how' = [how EXCEPT ![p] = "none"]
    /\ rc' = [rc EXCEPT ![p] = "none"]
    /\ child' = [child EXCEPT ![p] = "none"]
    /\ trail' = [trail EXCEPT ![p] = {}]
    /\ UNCHANGED <<fds, proved, tsVars>>

(* Help, version, usage, --list and --check change nothing.                *)
Inform(p) ==
    /\ req[p].mode = "inform"
    /\ \E code \in {"0", "1"} : Fail(p, "start", code)

(* The caller's uid has no name, or a command comes with a policy that     *)
(* cannot be loaded: nothing is recorded.                                  *)
LookupFails(p) ==
    /\ req[p].mode \in {"run", "invalidate"}
    /\ Fail(p, "start", "1")

(* invalidate_timestamp, of the file at path k.                            *)
StartInvalidateAt(p, k) ==
    /\ req[p].mode = "invalidate"
    /\ Move(p, "start", "invalidating")
    /\ CallInvalidate(p, k)
    /\ UNCHANGED <<req, how, fds, child, rc, trail, proved>>

StartInvalidate(p) == StartInvalidateAt(p, timestamp_path(req[p].session))

FinishInvalidate(p) ==
    /\ Exit(p, "invalidating", IF ret[p] = "ok" THEN "0" ELSE "1")
    /\ Return(p)
    /\ IF ret[p] = "ok" THEN Audit(p, "TIMESTAMP_INVALIDATED") ELSE UNCHANGED trail
    /\ UNCHANGED <<req, how, child, proved>>

(* The policy is loaded and the groups are looked up.                      *)
LoadPolicy(p) ==
    /\ req[p].mode = "run"
    /\ Move(p, "start", "evaluate")
    /\ IF NssGroups THEN Audit(p, "NSS_BACKEND") ELSE UNCHANGED trail
    /\ UNCHANGED <<req, how, fds, child, rc, proved, tsVars>>

------------------------------------------------------------------------------
(* evaluate_with_policy: the verdict, then check_timestamp when the rule   *)
(* asks for a password.                                                    *)
Allowed(p) == req[p].verdict = "allowed"

Deny(p) == ~Allowed(p) /\ Refuse(p, "evaluate", "DENIED")

CheckTicketAt(p, k) ==
    /\ Allowed(p) /\ req[p].auth
    /\ Move(p, "evaluate", "checking")
    /\ CallCheck(p, k)
    /\ UNCHANGED <<req, how, fds, child, rc, trail, proved>>

CheckTicket(p) == CheckTicketAt(p, timestamp_path(req[p].session))

NoPassword(p) == Allowed(p) /\ ~req[p].auth /\ Pass(p, "evaluate", "caps")

TicketAnswer(p) ==
    /\ Move(p, "checking", "caps")
    /\ how' = [how EXCEPT ![p] = IF ret[p] = "valid" THEN "ticket" ELSE "none"]
    /\ Return(p)
    /\ UNCHANGED <<req, fds, child, rc, trail, proved>>

------------------------------------------------------------------------------
(* caps_parse_set, before anybody is asked for a password.                 *)
Prompting(p) == req[p].auth /\ how[p] # "ticket"

UnknownCapability(p) == ~req[p].named /\ Refuse(p, "caps", "DENIED")

KnownCapabilities(p) ==
    /\ req[p].named
    /\ Pass(p, "caps", IF Prompting(p) THEN "prompt" ELSE "target")

PasswordAccepted(p) ==
    /\ Move(p, "prompt", "ticket")
    /\ how' = [how EXCEPT ![p] = "password"]
    /\ proved' = proved \cup {Seat(req[p].session)}
    /\ UNCHANGED <<req, fds, child, rc, trail, tsVars>>

PasswordRefusedIgnored(p) == Pass(p, "prompt", "ticket")
PasswordRefused(p) == Refuse(p, "prompt", "AUTH_FAILURE")

(* update_timestamp; nobody looks at its answer.                           *)
RefreshTicket(p) ==
    /\ Move(p, "ticket", "refreshing")
    /\ CallUpdate(p, timestamp_path(req[p].session))
    /\ UNCHANGED <<req, how, fds, child, rc, trail, proved>>

TicketRefreshed(p) ==
    /\ Move(p, "refreshing", "target")
    /\ Return(p)
    /\ UNCHANGED <<req, how, fds, child, rc, trail, proved>>

------------------------------------------------------------------------------
(* identity_lookup_user of the target.                                     *)
UnknownTarget(p) == req[p].target = "missing" /\ Fail(p, "target", "1")

KnownTarget(p) ==
    /\ req[p].target # "missing"
    /\ Pass(p, "target", IF req[p].log THEN "log" ELSE "admit")

(* _open_session_log of the transcript and of the keystroke log; without   *)
(* them a command whose rule asks for them is refused.                     *)
OpenLog(p, from, which, next) ==
    /\ Move(p, from, next)
    /\ fds' = [fds EXCEPT ![p] = @ \cup {which}]
    /\ UNCHANGED <<req, how, child, rc, trail, proved, tsVars>>

NoLogSilent(p, from) == Fail(p, from, "1")
NoLog(p, from) == Refuse(p, from, "DENIED")

SessionLog(p) ==
    \/ OpenLog(p, "log", "log", IF req[p].input THEN "inputlog" ELSE "admit")
    \/ NoLog(p, "log")

InputLog(p) == OpenLog(p, "inputlog", "input", "admit") \/ NoLog(p, "inputlog")

(* session_needs_pty                                                       *)
NeedsPtyOnlyToLog(r) == r.log
NeedsPty(r) == r.log \/ r.target = "other"

(* The ALLOWED record precedes every way of starting the command.          *)
AdmitCommand(p) ==
    /\ Move(p, "admit", IF NeedsPty(req[p]) THEN "pty" ELSE "exec")
    /\ Audit(p, "ALLOWED")
    /\ UNCHANGED <<req, how, fds, child, rc, proved, tsVars>>

------------------------------------------------------------------------------
(* _exec_target: the privilege drop, the LSM context or execve may fail.   *)
ExecDirect(p) ==
    \/ Pass(p, "exec", "running")
    \/ \E code \in {"1", "127"} : Fail(p, "exec", code)

(* _exec_target_pty, parent: master and slave, fork, relay, waitpid.       *)
AllocPty(p) == Pass(p, "pty", "fork") \/ Fail(p, "pty", "1")

Fork(p) ==
    \/ /\ Move(p, "fork", "relay")
       /\ child' = [child EXCEPT ![p] = "setup"]
       /\ UNCHANGED <<req, how, fds, rc, trail, proved, tsVars>>
    \/ Fail(p, "fork", "1")

(* The parent opened the slave before the fork, so the master hangs up     *)
(* when the child is gone, even before it reached its execve.  The relay   *)
(* may also give up earlier (no memory, a failed poll).                    *)
HangUpAfterExec(p) == child[p] \in {"ok", "ko"}
HangUp(p) == child[p] \in ChildGone

RelayEnds(p) == HangUp(p) /\ Pass(p, "relay", "wait")
RelayGivesUp(p) == Pass(p, "relay", "wait")

(* With SIGCHLD ignored waitpid fails and the status stays 0.              *)
Reap(p) ==
    /\ child[p] \in ChildGone
    /\ Exit(p, "wait", IF child[p] = "ok" \/ SigchldIgnored THEN "0" ELSE "1")
    /\ UNCHANGED <<req, how, child, trail, proved, tsVars>>

(* _exec_target_pty, child: the slave as its descriptors, privilege drop,  *)
(* LSM context, execve.                                                    *)
ChildBecomes(p, state) ==
    /\ child' = [child EXCEPT ![p] = state]
    /\ UNCHANGED <<pc, req, how, fds, rc, trail, proved, tsVars>>

ChildSetup(p) ==
    /\ child[p] = "setup"
    /\ ChildBecomes(p, "running") \/ ChildBecomes(p, "aborted")

ShStep(p) ==
    \/ Inform(p) \/ LookupFails(p) \/ StartInvalidate(p) \/ FinishInvalidate(p) \/ LoadPolicy(p)
    \/ Deny(p) \/ CheckTicket(p) \/ NoPassword(p) \/ TicketAnswer(p)
    \/ UnknownCapability(p) \/ KnownCapabilities(p)
    \/ PasswordAccepted(p) \/ PasswordRefused(p) \/ RefreshTicket(p) \/ TicketRefreshed(p)
    \/ UnknownTarget(p) \/ KnownTarget(p) \/ SessionLog(p) \/ InputLog(p)
    \/ AdmitCommand(p) \/ ExecDirect(p)
    \/ AllocPty(p) \/ Fork(p) \/ RelayEnds(p) \/ Reap(p) \/ ChildSetup(p)

------------------------------------------------------------------------------
(* The command ends as it likes; shakti is killed; the machine reboots.    *)
CommandEnds(p) == \E code \in {"0", "1"} : Fail(p, "running", code)

ChildEnds(p) ==
    /\ child[p] = "running"
    /\ \E state \in {"ok", "ko"} : ChildBecomes(p, state)

(* The command outlives a relay that is killed.                            *)
ShKill(p) ==
    /\ pc[p] \notin {"over", "running", "dead"}
    /\ pc' = [pc EXCEPT ![p] = IF child[p] \in ChildAlive THEN "dead" ELSE "over"]
    /\ rc' = [rc EXCEPT ![p] = "killed"]
    /\ fds' = [fds EXCEPT ![p] = {}]
    /\ IF tpc[p] = "idle" THEN UNCHANGED tsVars ELSE Kill(p)
    /\ UNCHANGED <<req, how, child, trail, proved>>

Buried(p) == child[p] \in ChildGone /\ Pass(p, "dead", "over")

ShReboot ==
    /\ Reboot
    /\ Quiet(pc', req', how', fds', child', rc', trail')
    /\ proved' = {}

Library(p) == TsStep(p) /\ UNCHANGED shVars
Clock == Tick /\ UNCHANGED shVars

ShNext ==
    \/ \E p \in Proc :
          \/ \E r \in Requests : Begin(p, r)
          \/ ShStep(p) \/ Library(p) \/ RelayGivesUp(p)
          \/ CommandEnds(p) \/ ChildEnds(p) \/ ShKill(p) \/ Buried(p)
    \/ Clock \/ ShReboot

ShSpec == ShInit /\ [][ShNext]_vars

------------------------------------------------------------------------------
Running(p) == pc[p] = "running" \/ child[p] = "running"

(* Every variable stays in its range (shk_run).                            *)
ShTypeOK ==
    /\ TsTypeOK
    /\ pc \in [Proc -> ShPc]
    /\ req \in [Proc -> Requests]
    /\ how \in [Proc -> {"none", "password", "ticket"}]
    /\ fds \in [Proc -> SUBSET Transcript]
    /\ child \in [Proc -> {"none"} \cup ChildAlive \cup ChildGone]
    /\ rc \in [Proc -> {"none", "0", "1", "127", "expired", "killed"}]
    /\ trail \in [Proc -> SUBSET Record]
    /\ proved \in SUBSET Path

(* A command runs only when the policy allows it with capabilities that    *)
(* exist and a target that exists; where a password is asked for, only     *)
(* after this invocation or one of the same user on the same terminal had  *)
(* it accepted since boot; only after the ALLOWED record and never beside  *)
(* a refusal.                                                              *)
ExecJustified ==
    \A p \in Proc : Running(p) =>
        /\ req[p].mode = "run" /\ Allowed(p) /\ req[p].named
        /\ req[p].target # "missing"
        /\ req[p].auth => how[p] # "none" /\ Seat(req[p].session) \in proved
        /\ "ALLOWED" \in trail[p] /\ trail[p] \cap Refusal = {}

(* A command whose rule asks for a transcript, or whose target is neither  *)
(* the caller nor root, runs on a terminal of its own, and as long as its  *)
(* relay lives the relay has the transcripts the rule asks for open.       *)
OwnTerminal ==
    \A p \in Proc : Running(p) /\ (req[p].log \/ req[p].target \notin {"root", "caller"}) =>
        /\ child[p] = "running"
        /\ pc[p] \in {"relay", "wait"} /\ req[p].log =>
              "log" \in fds[p] /\ (req[p].input => "input" \in fds[p])

(* shakti exits 0 after a relay only if the command did ("Propagate the    *)
(* child's exit status faithfully").                                       *)
ExitFaithful ==
    [][\A p \in Proc : pc[p] = "wait" /\ rc'[p] = "0" => child[p] = "ok"]_vars

------------------------------------------------------------------------------
(* The inductive invariant: what is settled by the time a process has come *)
(* this far in shk_run.                                                    *)
AfterAdmit == {"pty", "fork", "relay", "wait", "exec", "running", "dead"}
AfterTarget == AfterAdmit \cup {"log", "inputlog", "admit"}
AfterAuth == AfterTarget \cup {"target"}
AfterCaps == AfterAuth \cup {"prompt", "ticket", "refreshing"}
AfterVerdict == AfterCaps \cup {"checking", "caps"}
AfterPolicy == AfterVerdict \cup {"evaluate"}

Settled(p) ==
    /\ pc[p] \in AfterPolicy => req[p].mode = "run"
    /\ pc[p] \in AfterVerdict => Allowed(p)
    /\ pc[p] \in AfterCaps => req[p].named
    /\ pc[p] \in {"ticket", "refreshing", "oldticket", "oldrefreshing"} => how[p] = "password"
    /\ pc[p] \in AfterAuth => (req[p].auth => how[p] # "none")
    /\ pc[p] \in AfterTarget => req[p].target # "missing"
    /\ pc[p] # "over" => /\ trail[p] \cap Refusal = {}
                         /\ "ALLOWED" \in trail[p] <=>
                               pc[p] \in AfterAdmit \cup OldAdmitted

Attended(p) ==
    /\ child[p] \in ChildAlive => pc[p] \in {"relay", "wait", "dead"}
    /\ child[p] # "none" => pc[p] \in {"relay", "wait", "dead", "over"}
    /\ pc[p] \in {"relay", "wait"} => child[p] # "none"
    /\ pc[p] \in {"pty", "fork", "relay", "wait", "dead"} => NeedsPty(req[p])
    /\ pc[p] \in {"exec", "running"} => ~NeedsPty(req[p])
    /\ pc[p] = "inputlog" => "log" \in fds[p]
    /\ pc[p] \in {"admit", "pty", "fork", "relay", "wait"} /\ req[p].log =>
          "log" \in fds[p] /\ (req[p].input => "input" \in fds[p])

(* The library call a process is in is the one it made, on a ticket of     *)
(* its own seat.                                                           *)
Calling == {"checking", "libchecking", "refreshing", "oldrefreshing", "invalidating"}
InCall(p) ==
    /\ pc[p] \in Calling => Seat(path[p]) = Seat(req[p].session)
    /\ pc[p] \in {"checking", "libchecking"} => tpc[p] \in {"lstat", "clock", "done"}
    /\ pc[p] \in {"refreshing", "oldrefreshing"} =>
          tpc[p] \in {"ensure", "mkdir", "chmod", "open", "done"}
    /\ pc[p] = "invalidating" => tpc[p] \in {"klstat", "kunlink", "done"}
    /\ pc[p] \notin Calling =>
          tpc[p] = "idle" /\ basis[p] = 0

FlowInv == ShTypeOK /\ \A p \in Proc : Settled(p) /\ Attended(p) /\ InCall(p)

(* A ticket, what a check saw of one, and what stands for the password in  *)
(* an invocation were earned with a password.                              *)
TicketsProved ==
    /\ \A k \in Path : granted[k] # 0 => Seat(k) \in proved
    /\ \A p \in Proc : basis[p] # 0 => Seat(path[p]) \in proved
    /\ \A p \in Proc : how[p] # "none" => Seat(req[p].session) \in proved

ShIInv == FlowInv /\ TicketsProved

------------------------------------------------------------------------------
(* What Shakti implements: module Escalation.                              *)
MayRun(r) == r.verdict = "allowed" /\ r.named /\ r.target # "missing"
Asks(r) == r.auth
Asker(r) == Seat(r.session)
ToRun == {r \in Requests : r.mode = "run"}

(* A process is idle for the promise before its request counts and once    *)
(* its command is gone; it is admitted by the record, not by its place.    *)
Unasked(p) ==
    \/ req[p].mode # "run"
    \/ pc[p] \in {"start", "over"}
    \/ child[p] \in ChildGone

StageBar(p) ==
    IF Running(p) THEN "running"
    ELSE IF "ALLOWED" \in trail[p] THEN "admitted" ELSE "asking"

JobOf(p) == IF Unasked(p) THEN [stage |-> "idle"]
            ELSE [stage |-> StageBar(p), request |-> req[p]]

jobBar == [p \in Proc |-> JobOf(p)]

Promise == INSTANCE Escalation WITH
    Requests <- ToRun, Permitted <- MayRun, NeedsPassword <- Asks,
    SeatOf <- Asker, job <- jobBar, proven <- proved

(* Every run of shk_run is one Escalation allows.                          *)
EscalationKept == Promise!EscSpec
==============================================================================
