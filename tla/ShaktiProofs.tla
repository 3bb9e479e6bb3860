---------------------------- MODULE ShaktiProofs -----------------------------
(***************************************************************************)
(* Proofs about Shakti for any number of processes and any set of          *)
(* requests: it uses the credential cache as module Timestamp allows, it   *)
(* runs a command only when that is justified, and it implements module    *)
(* Escalation.                                                             *)
(***************************************************************************)
EXTENDS Shakti, TimestampProofs

LEMMA RequestTyped ==
    ASSUME ShTypeOK, NEW p \in Proc
    PROVE  req[p] \in Request /\ req[p] \in Requests /\ req[p].session \in Session
BY ShAssumption DEF ShTypeOK, Request

(* A session and its ticket are of one seat, and a seat has a path.        *)
LEMMA SeatOfPath ==
    ASSUME NEW s \in Session
    PROVE  /\ Seat(s) \in Path
           /\ timestamp_path(s) \in Path
           /\ Seat(timestamp_path(s)) = Seat(s)
<1>1. s[1] \in User /\ s[2] \in Tty \cup Device \cup Elsewhere /\ s = <<s[1], s[2]>>
  BY DEF Session
<1>2. CASE s[2] \in Tty
  BY <1>1, <1>2 DEF Path, Seat, timestamp_path, _shk_tty_session
<1>3. CASE s[2] \notin Tty
  BY <1>1, <1>3, TsAssumption DEF Path, Seat, timestamp_path, _shk_tty_session
<1> QED BY <1>2, <1>3

LEMMA NoRequestTyped == NoRequest \in Requests
<1>1. PICK r \in Requests : TRUE
  BY ShAssumption
<1> QED BY <1>1, Zenon DEF NoRequest

------------------------------------------------------------------------------
(* A step of shk_run enters the cache, leaves it or has nothing to do with *)
(* it.                                                                     *)
LEMMA FlowCalls ==
    ASSUME ShTypeOK, NEW p \in Proc, ShStep(p)
    PROVE  TsCall(p) \/ UNCHANGED tsVars
<1>1. CASE StartInvalidate(p)
  BY <1>1, RequestTyped, PathIsPath DEF StartInvalidate, StartInvalidateAt, TsCall
<1>2. CASE CheckTicket(p)
  BY <1>2, RequestTyped, PathIsPath DEF CheckTicket, CheckTicketAt, TsCall
<1>3. CASE RefreshTicket(p)
  BY <1>3, RequestTyped, PathIsPath DEF RefreshTicket, TsCall
<1>4. CASE FinishInvalidate(p) \/ TicketAnswer(p) \/ TicketRefreshed(p)
  BY <1>4 DEF FinishInvalidate, TicketAnswer, TicketRefreshed, TsCall
<1>5. CASE Inform(p) \/ LookupFails(p) \/ LoadPolicy(p) \/ Deny(p) \/ NoPassword(p)
           \/ UnknownCapability(p) \/ KnownCapabilities(p)
  BY <1>5 DEF Inform, LookupFails, LoadPolicy, Deny, NoPassword, UnknownCapability,
              KnownCapabilities, Refuse, Fail, Pass
<1>6. CASE PasswordAccepted(p) \/ PasswordRefused(p)
           \/ UnknownTarget(p) \/ KnownTarget(p) \/ SessionLog(p) \/ InputLog(p)
  BY <1>6 DEF PasswordAccepted, PasswordRefused, UnknownTarget, KnownTarget,
              SessionLog, InputLog, OpenLog, NoLog, Refuse, Fail, Pass
<1>7. CASE AdmitCommand(p) \/ ExecDirect(p) \/ AllocPty(p) \/ Fork(p)
           \/ RelayEnds(p) \/ Reap(p) \/ ChildSetup(p)
  BY <1>7 DEF AdmitCommand, ExecDirect, AllocPty, Fork, RelayEnds, Reap,
              ChildSetup, ChildBecomes, Fail, Pass
<1> QED BY <1>1, <1>2, <1>3, <1>4, <1>5, <1>6, <1>7 DEF ShStep

(* What begins or ends an invocation only ever leaves the cache.           *)
EndsOf(p) == RelayGivesUp(p) \/ CommandEnds(p) \/ ChildEnds(p) \/ ShKill(p) \/ Buried(p)

LEMMA EndsCalls ==
    ASSUME NEW p \in Proc, (\E r \in Requests : Begin(p, r)) \/ EndsOf(p)
    PROVE  Kill(p) \/ UNCHANGED tsVars
BY DEF Begin, EndsOf, RelayGivesUp, CommandEnds, ChildEnds, ShKill, Buried, ChildBecomes,
       Fail, Pass

(* For the cache all that is its most general client.                      *)
LEMMA ClientStep ==
    ASSUME ShTypeOK, [ShNext]_vars
    PROVE  [TsNext]_tsVars
<1>1. ASSUME NEW p \in Proc, ShStep(p) PROVE [TsNext]_tsVars
  BY <1>1, FlowCalls DEF TsNext
<1>2. ASSUME NEW p \in Proc, Library(p) PROVE [TsNext]_tsVars
  BY <1>2 DEF Library, TsNext
<1>3. ASSUME NEW p \in Proc, (\E r \in Requests : Begin(p, r)) \/ EndsOf(p)
      PROVE  [TsNext]_tsVars
  BY <1>3, EndsCalls DEF TsNext
<1>4. CASE Clock \/ ShReboot
  BY <1>4 DEF Clock, ShReboot, TsNext
<1>5. CASE UNCHANGED vars
  BY <1>5 DEF vars
<1> QED BY <1>1, <1>2, <1>3, <1>4, <1>5 DEF ShNext, EndsOf

LEMMA ShTypeInit == ShInit => ShTypeOK
BY TypeInit, NoRequestTyped DEF ShInit, ShTypeOK, Quiet, ShPc

LEMMA ShTypeStep ==
    ASSUME ShTypeOK, [ShNext]_vars
    PROVE  ShTypeOK'
<1>0. TsTypeOK'
  BY ClientStep, TypeStep DEF ShTypeOK
<1> USE <1>0 DEF ShTypeOK, ShPc, OldPc, LibPc, OldAdmitted, ChildAlive, ChildGone, Transcript, Record
<1>1. ASSUME NEW p \in Proc, ShStep(p) PROVE ShTypeOK'
  <2>1. CASE StartInvalidate(p) \/ CheckTicket(p) \/ RefreshTicket(p)
    BY <2>1 DEF StartInvalidate, StartInvalidateAt, CheckTicket, CheckTicketAt, RefreshTicket, Move
  <2>2. CASE FinishInvalidate(p) \/ TicketAnswer(p) \/ TicketRefreshed(p)
    BY <2>2 DEF FinishInvalidate, TicketAnswer, TicketRefreshed, Exit, Audit, Move
  <2>3. CASE Inform(p) \/ LookupFails(p) \/ LoadPolicy(p) \/ Deny(p) \/ NoPassword(p)
    BY <2>3 DEF Inform, LookupFails, LoadPolicy, Deny, NoPassword, Refuse, Fail, Pass, Exit, Audit, Move
  <2>4. CASE UnknownCapability(p) \/ KnownCapabilities(p)
    BY <2>4 DEF UnknownCapability, KnownCapabilities, Refuse, Pass, Exit, Audit, Move
  <2>5. CASE PasswordAccepted(p)
    BY <2>5, RequestTyped, SeatOfPath DEF PasswordAccepted, Move
  <2>6. CASE PasswordRefused(p) \/ UnknownTarget(p) \/ KnownTarget(p)
    BY <2>6 DEF PasswordRefused, UnknownTarget, KnownTarget, Refuse, Fail, Pass, Exit, Audit, Move
  <2>7. CASE SessionLog(p) \/ InputLog(p)
    BY <2>7 DEF SessionLog, InputLog, OpenLog, NoLog, Refuse, Exit, Audit, Move
  <2>8. CASE AdmitCommand(p) \/ ExecDirect(p) \/ AllocPty(p)
    BY <2>8 DEF AdmitCommand, ExecDirect, AllocPty, Fail, Pass, Exit, Audit, Move
  <2>9. CASE Fork(p) \/ RelayEnds(p) \/ Reap(p) \/ ChildSetup(p)
    BY <2>9 DEF Fork, RelayEnds, Reap, ChildSetup, ChildBecomes, Fail, Pass, Exit, Move
  <2> QED BY <1>1, <2>1, <2>2, <2>3, <2>4, <2>5, <2>6, <2>7, <2>8, <2>9 DEF ShStep
<1>2. CASE UNCHANGED shVars
  BY <1>2 DEF shVars
<1>3. ASSUME NEW p \in Proc, NEW r \in Requests, Begin(p, r) PROVE ShTypeOK'
  BY <1>3 DEF Begin, Move
<1>4. ASSUME NEW p \in Proc, RelayGivesUp(p) \/ CommandEnds(p) \/ ChildEnds(p)
                             \/ ShKill(p) \/ Buried(p)
      PROVE  ShTypeOK'
  BY <1>4 DEF RelayGivesUp, CommandEnds, ChildEnds, ShKill, Buried, ChildBecomes,
              Fail, Pass, Exit, Move
<1>5. CASE ShReboot
  BY <1>5, NoRequestTyped DEF ShReboot, Quiet
<1> QED
  BY <1>1, <1>2, <1>3, <1>4, <1>5 DEF ShNext, Library, Clock, vars

(* Every variable of an invocation stays in its range.                     *)
THEOREM ShTypeCorrect == ShSpec => []ShTypeOK
BY ShTypeInit, ShTypeStep, PTL DEF ShSpec

(* shk_run uses the cache only through its three functions: every theorem  *)
(* of TimestampProofs holds of it.                                         *)
THEOREM ClientOfTheCache == ShSpec => TsSpec
<1>1. ShInit => TsInit
  BY DEF ShInit
<1>2. ShTypeOK /\ [ShNext]_vars => [TsNext]_tsVars
  BY ClientStep
<1> QED BY <1>1, <1>2, ShTypeCorrect, PTL DEF ShSpec, TsSpec

------------------------------------------------------------------------------
(* The inductive invariant, part by part.                                  *)
LEMMA ShIInvInit == ShInit => ShIInv
<1> SUFFICES ASSUME ShInit PROVE ShIInv
  OBVIOUS
<1>1. TicketsProved
  BY DEF ShInit, TsInit, NoCalls, Quiet, TicketsProved
<1>2. ASSUME NEW p \in Proc PROVE Settled(p) /\ Attended(p) /\ InCall(p)
  BY DEF ShInit, TsInit, NoCalls, Quiet, Settled, Attended, InCall, Calling, AfterAdmit, OldAdmitted,
         AfterTarget, AfterAuth, AfterCaps, AfterVerdict, AfterPolicy, ChildAlive
<1> QED BY <1>1, <1>2, ShTypeInit DEF ShIInv, FlowInv

(* Only the process in a call moves its call.                              *)
LEMMA InCallStep ==
    ASSUME ShTypeOK, \A p \in Proc : InCall(p), [ShNext]_vars, NEW q \in Proc
    PROVE  InCall(q)'
<1> USE DEF ShTypeOK, TsTypeOK, InCall, Calling
<1>1. ASSUME NEW p \in Proc, Library(p) PROVE InCall(q)'
  <2>1. CASE CheckLstat(p)
    BY <1>1, <2>1 DEF Library, shVars, CheckLstat, Goto, Done
  <2>2. CASE CheckClock(p)
    <3>1. tpc' = [tpc EXCEPT ![p] = "done"] /\ UNCHANGED <<path, basis>>
      BY <2>2, Zenon DEF CheckClock, Done
    <3>2. tpc[p] = "clock" /\ pc[p] \in {"checking", "libchecking"}
      BY <2>2 DEF CheckClock
    <3> QED BY <1>1, <3>1, <3>2 DEF Library, shVars
  <2>3. CASE EnsureLstat(p)
    BY <1>1, <2>3 DEF Library, shVars, EnsureLstat, DirState, Goto, Done, ghostVars
  <2>4. CASE Mkdir(p)
    BY <1>1, <2>4 DEF Library, shVars, Mkdir, Goto, Done, ghostVars
  <2>5. CASE OpenTs(p)
    BY <1>1, <2>5 DEF Library, shVars, OpenTs, Goto, Done
  <2>6. CASE InvalidateLstat(p)
    <3>1. /\ tpc' = [tpc EXCEPT ![p] = "done"] \/ tpc' = [tpc EXCEPT ![p] = "kunlink"]
          /\ UNCHANGED <<path, basis>> /\ tpc[p] = "klstat"
      BY <2>6 DEF InvalidateLstat, Goto, Done, ghostVars
    <3> QED BY <1>1, <3>1 DEF Library, shVars
  <2>7. CASE InvalidateUnlink(p)
    BY <1>1, <2>7 DEF Library, shVars, InvalidateUnlink, Goto, Done
  <2> QED BY <1>1, <2>1, <2>2, <2>3, <2>4, <2>5, <2>6, <2>7 DEF Library, TsStep
<1>2. ASSUME NEW p \in Proc, ShStep(p) PROVE InCall(q)'
  <2>1. CASE StartInvalidate(p) \/ CheckTicket(p) \/ RefreshTicket(p)
    <3> DEFINE k == timestamp_path(req[p].session)
    <3>1. Seat(k) = Seat(req[p].session)
      BY RequestTyped, SeatOfPath
    <3>2. /\ tpc[p] = "idle" /\ path' = [path EXCEPT ![p] = k]
          /\ UNCHANGED <<req, basis>>
      BY <2>1 DEF StartInvalidate, StartInvalidateAt, CheckTicket, CheckTicketAt,
                  RefreshTicket, CallCheck, CallUpdate, CallInvalidate, Call, ghostVars
    <3>3. \/ pc' = [pc EXCEPT ![p] = "invalidating"] /\ tpc' = [tpc EXCEPT ![p] = "klstat"]
          \/ pc' = [pc EXCEPT ![p] = "checking"] /\ tpc' = [tpc EXCEPT ![p] = "lstat"]
          \/ pc' = [pc EXCEPT ![p] = "refreshing"] /\ tpc' = [tpc EXCEPT ![p] = "ensure"]
      BY <2>1 DEF StartInvalidate, StartInvalidateAt, CheckTicket, CheckTicketAt,
                  RefreshTicket, Move, CallCheck, CallUpdate, CallInvalidate, Call, Goto
    <3> HIDE DEF k
    <3> QED BY <3>1, <3>2, <3>3
  <2>2. CASE FinishInvalidate(p) \/ TicketAnswer(p) \/ TicketRefreshed(p)
    BY <2>2 DEF FinishInvalidate, TicketAnswer, TicketRefreshed, Exit, Move, Return, Leave
  <2> USE DEF tsVars, ghostVars
  <2>3. CASE Inform(p) \/ LookupFails(p) \/ LoadPolicy(p) \/ Deny(p) \/ NoPassword(p)
    BY <2>3 DEF Inform, LookupFails, LoadPolicy, Deny, NoPassword, Refuse, Fail, Pass, Exit, Move
  <2>4. CASE UnknownCapability(p) \/ KnownCapabilities(p)
    BY <2>4 DEF UnknownCapability, KnownCapabilities, Refuse, Pass, Exit, Move
  <2>5. CASE PasswordAccepted(p) \/ PasswordRefused(p) \/ UnknownTarget(p) \/ KnownTarget(p)
    BY <2>5 DEF PasswordAccepted, PasswordRefused, UnknownTarget, KnownTarget, Refuse, Fail,
                Pass, Exit, Move
  <2>6. CASE SessionLog(p) \/ InputLog(p)
    BY <2>6 DEF SessionLog, InputLog, OpenLog, NoLog, Refuse, Exit, Move
  <2>7. CASE AdmitCommand(p) \/ ExecDirect(p) \/ AllocPty(p)
    BY <2>7 DEF AdmitCommand, ExecDirect, AllocPty, Fail, Pass, Exit, Move
  <2>8. CASE Fork(p) \/ RelayEnds(p) \/ Reap(p) \/ ChildSetup(p)
    BY <2>8 DEF Fork, RelayEnds, Reap, ChildSetup, ChildBecomes, Fail, Pass, Exit, Move
  <2> QED BY <1>2, <2>1, <2>2, <2>3, <2>4, <2>5, <2>6, <2>7, <2>8 DEF ShStep
<1>3. ASSUME NEW p \in Proc, ShKill(p) PROVE InCall(q)'
  BY <1>3 DEF ShKill, Kill, Leave, tsVars, ghostVars
<1>4. ASSUME NEW p \in Proc, NEW r \in Requests, Begin(p, r) PROVE InCall(q)'
  BY <1>4 DEF Begin, Move, tsVars, ghostVars
<1>5. ASSUME NEW p \in Proc, RelayGivesUp(p) \/ CommandEnds(p) \/ ChildEnds(p) \/ Buried(p)
      PROVE  InCall(q)'
  BY <1>5 DEF RelayGivesUp, CommandEnds, ChildEnds, Buried, ChildBecomes, Fail, Pass, Exit,
              Move, tsVars, ghostVars
<1>6. CASE ShReboot
  BY <1>6 DEF ShReboot, Reboot, Quiet, NoCalls
<1>7. CASE Clock \/ UNCHANGED vars
  BY <1>7 DEF Clock, Tick, vars, shVars, tsVars, ghostVars
<1> QED BY <1>1, <1>2, <1>3, <1>4, <1>5, <1>6, <1>7 DEF ShNext

(* A ticket is written only by a process whose password was accepted, and  *)
(* a check sees only what was written.                                     *)
LEMMA TicketsProvedStep ==
    ASSUME ShIInv, CheckSound, [ShNext]_vars
    PROVE  TicketsProved'
<1> USE RequestTyped DEF ShIInv, FlowInv, ShTypeOK, TsTypeOK, TicketsProved
<1>1. ASSUME NEW p \in Proc, Library(p) PROVE TicketsProved'
  <2>1. CASE CheckLstat(p)
    BY <1>1, <2>1 DEF Library, shVars, CheckLstat
  <2>2. CASE CheckClock(p) \/ EnsureLstat(p) \/ Mkdir(p)
    BY <1>1, <2>2 DEF Library, shVars, CheckClock, EnsureLstat, Mkdir, ghostVars
  <2>3. CASE OpenTs(p)
    <3>1. Seat(path[p]) \in proved
      BY <2>3 DEF OpenTs, InCall, Calling, Settled
    <3> QED BY <1>1, <2>3, <3>1 DEF Library, shVars, OpenTs
  <2>4. CASE InvalidateLstat(p)
    BY <1>1, <2>4 DEF Library, shVars, InvalidateLstat, ghostVars
  <2>5. CASE InvalidateUnlink(p)
    BY <1>1, <2>5 DEF Library, shVars, InvalidateUnlink
  <2> QED BY <1>1, <2>1, <2>2, <2>3, <2>4, <2>5 DEF Library, TsStep
<1>2. ASSUME NEW p \in Proc, ShStep(p) PROVE TicketsProved'
  <2>1. CASE StartInvalidate(p) \/ CheckTicket(p) \/ RefreshTicket(p)
    <3>1. basis[p] = 0
      BY <2>1 DEF StartInvalidate, StartInvalidateAt, CheckTicket, CheckTicketAt, RefreshTicket, Move, InCall, Calling
    <3> QED BY <2>1, <3>1 DEF StartInvalidate, StartInvalidateAt, CheckTicket, CheckTicketAt, RefreshTicket, CallCheck,
                CallUpdate, CallInvalidate, Call, ghostVars
  <2>2. CASE FinishInvalidate(p) \/ TicketRefreshed(p)
    BY <2>2 DEF FinishInvalidate, TicketRefreshed, Return, Leave
  <2>0. CASE TicketAnswer(p)
    <3>1. ret[p] = "valid" => Seat(req[p].session) \in proved
      BY <2>0 DEF TicketAnswer, Move, CheckSound, InCall, Calling
    <3> QED BY <2>0, <3>1 DEF TicketAnswer, Return, Leave
  <2> USE DEF tsVars, ghostVars
  <2>3. CASE Inform(p) \/ LookupFails(p) \/ LoadPolicy(p) \/ Deny(p) \/ NoPassword(p)
             \/ UnknownCapability(p) \/ KnownCapabilities(p)
    BY <2>3 DEF Inform, LookupFails, LoadPolicy, Deny, NoPassword, UnknownCapability, KnownCapabilities,
                Refuse, Fail, Pass
  <2>4. CASE PasswordAccepted(p) \/ PasswordRefused(p) \/ UnknownTarget(p) \/ KnownTarget(p)
             \/ SessionLog(p) \/ InputLog(p)
    BY <2>4 DEF PasswordAccepted, PasswordRefused, UnknownTarget, KnownTarget, SessionLog,
                InputLog, OpenLog, NoLog, Refuse, Fail, Pass
  <2>5. CASE AdmitCommand(p) \/ ExecDirect(p) \/ AllocPty(p) \/ Fork(p)
             \/ RelayEnds(p) \/ Reap(p) \/ ChildSetup(p)
    BY <2>5 DEF AdmitCommand, ExecDirect, AllocPty, Fork, RelayEnds, Reap, ChildSetup,
                ChildBecomes, Fail, Pass
  <2> QED BY <1>2, <2>0, <2>1, <2>2, <2>3, <2>4, <2>5 DEF ShStep
<1>3. ASSUME NEW p \in Proc, ShKill(p) PROVE TicketsProved'
  BY <1>3 DEF ShKill, Kill, Leave, tsVars, ghostVars
<1>4. ASSUME NEW p \in Proc,
             (\E r \in Requests : Begin(p, r)) \/ RelayGivesUp(p) \/ CommandEnds(p)
             \/ ChildEnds(p) \/ Buried(p)
      PROVE  TicketsProved'
  BY <1>4 DEF Begin, RelayGivesUp, CommandEnds, ChildEnds, Buried, ChildBecomes, Fail, Pass,
              tsVars, ghostVars
<1>5. CASE ShReboot
  BY <1>5 DEF ShReboot, Reboot, NoCalls, Quiet
<1>6. CASE Clock \/ UNCHANGED vars
  BY <1>6 DEF Clock, Tick, vars, shVars, tsVars, ghostVars
<1> QED BY <1>1, <1>2, <1>3, <1>4, <1>5, <1>6 DEF ShNext

(* What is settled stays settled until the invocation is over.             *)
LEMMA SettledStep ==
    ASSUME FlowInv, [ShNext]_vars, NEW q \in Proc
    PROVE  Settled(q)'
<1> USE DEF FlowInv, ShTypeOK, Settled, Allowed, AfterAdmit, OldAdmitted, AfterTarget, AfterAuth,
        AfterCaps, AfterVerdict, AfterPolicy, Refusal
<1>1. ASSUME NEW p \in Proc, ShStep(p) PROVE Settled(q)'
  <2>1. CASE StartInvalidate(p) \/ CheckTicket(p) \/ RefreshTicket(p)
    BY <2>1 DEF StartInvalidate, StartInvalidateAt, CheckTicket, CheckTicketAt, RefreshTicket, Move
  <2>2. CASE FinishInvalidate(p)
    BY <2>2 DEF FinishInvalidate, Exit, Audit, Move
  <2>3. CASE TicketAnswer(p)
    BY <2>3 DEF TicketAnswer, Move
  <2>4. CASE TicketRefreshed(p)
    BY <2>4 DEF TicketRefreshed, Move
  <2>5. CASE Inform(p) \/ LookupFails(p) \/ LoadPolicy(p)
    BY <2>5 DEF Inform, LookupFails, LoadPolicy, Fail, Exit, Audit, Move
  <2>6. CASE Deny(p) \/ NoPassword(p)
    BY <2>6 DEF Deny, NoPassword, Refuse, Pass, Exit, Audit, Move
  <2>7. CASE UnknownCapability(p) \/ KnownCapabilities(p)
    BY <2>7 DEF UnknownCapability, KnownCapabilities, Prompting, Refuse, Pass, Exit, Audit, Move
  <2>8. CASE PasswordAccepted(p)
    BY <2>8 DEF PasswordAccepted, Move
  <2>9. CASE PasswordRefused(p)
    BY <2>9 DEF PasswordRefused, Refuse, Exit, Audit, Move
  <2>10. CASE UnknownTarget(p) \/ KnownTarget(p)
    BY <2>10 DEF UnknownTarget, KnownTarget, Fail, Pass, Exit, Move
  <2>11. CASE SessionLog(p)
    BY <2>11 DEF SessionLog, OpenLog, NoLog, Refuse, Exit, Audit, Move
  <2>12. CASE InputLog(p)
    BY <2>12 DEF InputLog, OpenLog, NoLog, Refuse, Exit, Audit, Move
  <2>13. CASE AdmitCommand(p)
    BY <2>13 DEF AdmitCommand, Audit, Move
  <2>14. CASE ExecDirect(p) \/ AllocPty(p)
    BY <2>14 DEF ExecDirect, AllocPty, Fail, Pass, Exit, Move
  <2>15. CASE Fork(p)
    BY <2>15 DEF Fork, Fail, Exit, Move
  <2>16. CASE RelayEnds(p) \/ Reap(p)
    BY <2>16 DEF RelayEnds, HangUp, Reap, Pass, Exit, Move
  <2>17. CASE ChildSetup(p)
    BY <2>17 DEF ChildSetup, ChildBecomes
  <2> QED
    BY <1>1, <2>1, <2>2, <2>3, <2>4, <2>5, <2>6, <2>7, <2>8, <2>9, <2>10, <2>11, <2>12,
       <2>13, <2>14, <2>15, <2>16, <2>17 DEF ShStep
<1>2. ASSUME NEW p \in Proc, NEW r \in Requests, Begin(p, r) PROVE Settled(q)'
  BY <1>2 DEF Begin, Move
<1>3. ASSUME NEW p \in Proc, ShKill(p) PROVE Settled(q)'
  BY <1>3 DEF ShKill, Attended
<1>4. ASSUME NEW p \in Proc, RelayGivesUp(p) \/ CommandEnds(p) \/ ChildEnds(p) \/ Buried(p)
      PROVE  Settled(q)'
  BY <1>4 DEF RelayGivesUp, CommandEnds, ChildEnds, Buried, ChildBecomes, Fail, Pass, Exit, Move
<1>5. CASE ShReboot
  BY <1>5 DEF ShReboot, Quiet
<1>6. CASE UNCHANGED shVars
  BY <1>6 DEF shVars
<1> QED BY <1>1, <1>2, <1>3, <1>4, <1>5, <1>6 DEF ShNext, Library, Clock, vars

(* A command on a pty has its relay, and the relay its transcripts.        *)
LEMMA AttendedStep ==
    ASSUME FlowInv, [ShNext]_vars, NEW q \in Proc
    PROVE  Attended(q)'
<1> USE DEF FlowInv, ShTypeOK, Attended, NeedsPty, ChildAlive, ChildGone
<1>1. ASSUME NEW p \in Proc, ShStep(p) PROVE Attended(q)'
  <2>1. CASE StartInvalidate(p) \/ CheckTicket(p) \/ RefreshTicket(p)
    BY <2>1 DEF StartInvalidate, StartInvalidateAt, CheckTicket, CheckTicketAt, RefreshTicket, Move
  <2>2. CASE FinishInvalidate(p)
    BY <2>2 DEF FinishInvalidate, Exit, Audit, Move
  <2>3. CASE TicketAnswer(p)
    BY <2>3 DEF TicketAnswer, Move
  <2>4. CASE TicketRefreshed(p)
    BY <2>4 DEF TicketRefreshed, Move
  <2>5. CASE Inform(p) \/ LookupFails(p) \/ LoadPolicy(p)
    BY <2>5 DEF Inform, LookupFails, LoadPolicy, Fail, Exit, Audit, Move
  <2>6. CASE Deny(p) \/ NoPassword(p)
    BY <2>6 DEF Deny, NoPassword, Refuse, Pass, Exit, Audit, Move
  <2>7. CASE UnknownCapability(p) \/ KnownCapabilities(p)
    BY <2>7 DEF UnknownCapability, KnownCapabilities, Refuse, Pass, Exit, Audit, Move
  <2>8. CASE PasswordAccepted(p)
    BY <2>8 DEF PasswordAccepted, Move
  <2>9. CASE PasswordRefused(p)
    BY <2>9 DEF PasswordRefused, Refuse, Exit, Audit, Move
  <2>10. CASE UnknownTarget(p) \/ KnownTarget(p)
    BY <2>10 DEF UnknownTarget, KnownTarget, Fail, Pass, Exit, Move
  <2>11. CASE SessionLog(p)
    BY <2>11 DEF SessionLog, OpenLog, NoLog, Refuse, Exit, Audit, Move
  <2>12. CASE InputLog(p)
    BY <2>12 DEF InputLog, OpenLog, NoLog, Refuse, Exit, Audit, Move
  <2>13. CASE AdmitCommand(p)
    BY <2>13 DEF AdmitCommand, Audit, Move
  <2>14. CASE ExecDirect(p) \/ AllocPty(p)
    BY <2>14 DEF ExecDirect, AllocPty, Fail, Pass, Exit, Move
  <2>15. CASE Fork(p)
    BY <2>15 DEF Fork, Fail, Exit, Move
  <2>16. CASE RelayEnds(p) \/ Reap(p)
    BY <2>16 DEF RelayEnds, HangUp, Reap, Pass, Exit, Move
  <2>17. CASE ChildSetup(p)
    BY <2>17 DEF ChildSetup, ChildBecomes
  <2> QED
    BY <1>1, <2>1, <2>2, <2>3, <2>4, <2>5, <2>6, <2>7, <2>8, <2>9, <2>10, <2>11, <2>12,
       <2>13, <2>14, <2>15, <2>16, <2>17 DEF ShStep
<1>2. ASSUME NEW p \in Proc, NEW r \in Requests, Begin(p, r) PROVE Attended(q)'
  BY <1>2 DEF Begin, Move
<1>3. ASSUME NEW p \in Proc, ShKill(p) PROVE Attended(q)'
  BY <1>3 DEF ShKill
<1>4. ASSUME NEW p \in Proc, RelayGivesUp(p) \/ CommandEnds(p) \/ ChildEnds(p) \/ Buried(p)
      PROVE  Attended(q)'
  BY <1>4 DEF RelayGivesUp, CommandEnds, ChildEnds, Buried, ChildBecomes, Fail, Pass, Exit, Move
<1>5. CASE ShReboot
  BY <1>5 DEF ShReboot, Quiet
<1>6. CASE UNCHANGED shVars
  BY <1>6 DEF shVars
<1> QED BY <1>1, <1>2, <1>3, <1>4, <1>5, <1>6 DEF ShNext, Library, Clock, vars

------------------------------------------------------------------------------
(* The inductive invariant holds; CheckSound is a theorem about the cache. *)
THEOREM ShInductive == ShSpec => [](ShIInv /\ CheckSound)
<1>1. ShSpec => []CheckSound
  BY ClientOfTheCache, CheckIsSound, PTL
<1>2. ShIInv /\ CheckSound /\ [ShNext]_vars => ShIInv'
  <2> SUFFICES ASSUME ShIInv, CheckSound, [ShNext]_vars PROVE ShIInv'
    OBVIOUS
  <2>1. ShTypeOK'
    BY ShTypeStep DEF ShIInv, FlowInv
  <2>2. \A q \in Proc : Settled(q)' /\ Attended(q)' /\ InCall(q)'
    BY SettledStep, AttendedStep, InCallStep DEF ShIInv, FlowInv
  <2> QED BY <2>1, <2>2, TicketsProvedStep DEF ShIInv, FlowInv
<1> QED BY <1>1, <1>2, ShIInvInit, PTL DEF ShSpec

(* A command runs only when policy, password and record justify it,        *)
(* whatever the other invocations do between its steps.                    *)
THEOREM ExecIsJustified == ShSpec => []ExecJustified
<1>1. ShIInv => ExecJustified
  <2> SUFFICES ASSUME ShIInv, NEW p \in Proc, Running(p)
               PROVE  /\ req[p].mode = "run" /\ Allowed(p) /\ req[p].named
                      /\ req[p].target # "missing"
                      /\ req[p].auth => how[p] # "none" /\ Seat(req[p].session) \in proved
                      /\ "ALLOWED" \in trail[p] /\ trail[p] \cap Refusal = {}
    BY DEF ExecJustified
  <2>1. pc[p] \in AfterAdmit
    BY DEF ShIInv, FlowInv, Attended, Running, ChildAlive, AfterAdmit, OldAdmitted
  <2> QED BY <2>1 DEF ShIInv, FlowInv, TicketsProved, Settled, AfterAdmit, OldAdmitted, AfterTarget,
                      AfterAuth, AfterCaps, AfterVerdict, AfterPolicy
<1> QED BY <1>1, ShInductive, PTL

(* What the pty of an invocation depends on is settled before it forks.    *)
LEMMA TerminalOwned == FlowInv => OwnTerminal
<1> SUFFICES ASSUME FlowInv, NEW p \in Proc, Running(p),
                    req[p].log \/ req[p].target \notin {"root", "caller"}
             PROVE  /\ child[p] = "running"
                    /\ pc[p] \in {"relay", "wait"} /\ req[p].log =>
                          "log" \in fds[p] /\ (req[p].input => "input" \in fds[p])
  BY DEF OwnTerminal
<1>1. pc[p] \in AfterAdmit
  BY DEF FlowInv, Attended, Running, ChildAlive, AfterAdmit, OldAdmitted
<1>2. NeedsPty(req[p])
  BY <1>1, RequestTyped DEF FlowInv, Settled, AfterTarget, AfterAdmit, OldAdmitted, NeedsPty, Request
<1> QED BY <1>2 DEF FlowInv, Attended, Running, NeedsPty

(* A command that must not share the caller's terminal does not, and one   *)
(* that must be transcribed is.                                            *)
THEOREM TerminalIsOwn == ShSpec => []OwnTerminal
BY TerminalOwned, ShInductive, PTL DEF ShIInv

------------------------------------------------------------------------------
(* Shakti implements Escalation: every step of an invocation is a step of  *)
(* the promise or none at all.                                             *)

(* A step of one invocation leaves the jobs of the others alone.           *)
LEMMA OneJob ==
    ASSUME NEW p \in Proc, ShTypeOK,
           \A q \in Proc \ {p} : /\ pc'[q] = pc[q] /\ req'[q] = req[q]
                                 /\ child'[q] = child[q] /\ trail'[q] = trail[q]
    PROVE  jobBar' = [jobBar EXCEPT ![p] = JobOf(p)']
<1>1. \A q \in Proc \ {p} : JobOf(q)' = JobOf(q)
  BY DEF JobOf, Unasked, StageBar, Running
<1> QED BY <1>1 DEF jobBar

(* The steps of an invocation, by what they are for the promise.           *)
Silent(p) ==
    \/ Begin(p, req'[p]) \/ Inform(p) \/ LookupFails(p) \/ StartInvalidate(p)
    \/ NoPassword(p) \/ CheckTicket(p) \/ TicketAnswer(p) \/ KnownCapabilities(p)
    \/ RefreshTicket(p) \/ TicketRefreshed(p) \/ KnownTarget(p)
    \/ RelayEnds(p) \/ RelayGivesUp(p)

Ending(p) ==
    \/ FinishInvalidate(p) \/ Deny(p) \/ UnknownCapability(p) \/ PasswordRefused(p)
    \/ UnknownTarget(p) \/ Reap(p) \/ CommandEnds(p) \/ ChildEnds(p) \/ Buried(p)

LEMMA SilentStep ==
    ASSUME ShIInv, NEW p \in Proc, Silent(p)
    PROVE  jobBar' = jobBar /\ proved' = proved
<1> USE DEF ShIInv, FlowInv, ShTypeOK
<1>1. \A q \in Proc \ {p} : /\ pc'[q] = pc[q] /\ req'[q] = req[q]
                            /\ child'[q] = child[q] /\ trail'[q] = trail[q]
  BY DEF Silent, Begin, Inform, LookupFails, StartInvalidate, StartInvalidateAt, NoPassword, CheckTicket, CheckTicketAt, TicketAnswer,
         KnownCapabilities, RefreshTicket, TicketRefreshed, KnownTarget, RelayEnds,
         RelayGivesUp, Fail, Pass, Exit, Move
<1>2. proved' = proved
  BY DEF Silent, Begin, Inform, LookupFails, StartInvalidate, StartInvalidateAt, NoPassword, CheckTicket, CheckTicketAt, TicketAnswer,
         KnownCapabilities, RefreshTicket, TicketRefreshed, KnownTarget, RelayEnds,
         RelayGivesUp, Fail, Pass
<1>3. JobOf(p)' = JobOf(p)
  <2> USE DEF JobOf, Unasked, StageBar, Running, Move
  <2>1. CASE Begin(p, req'[p])
    BY <2>1 DEF Begin
  <2>2. CASE Inform(p) \/ LookupFails(p) \/ StartInvalidate(p)
    BY <2>2 DEF Inform, LookupFails, StartInvalidate, StartInvalidateAt, Fail, Exit
  <2>3. CASE NoPassword(p) \/ CheckTicket(p) \/ TicketAnswer(p) \/ KnownCapabilities(p)
             \/ RefreshTicket(p) \/ TicketRefreshed(p) \/ KnownTarget(p)
    BY <2>3 DEF NoPassword, CheckTicket, CheckTicketAt, TicketAnswer, KnownCapabilities, RefreshTicket,
                TicketRefreshed, KnownTarget, Pass
  <2>4. CASE RelayEnds(p) \/ RelayGivesUp(p)
    BY <2>4 DEF RelayEnds, RelayGivesUp, Pass
  <2> QED BY <2>1, <2>2, <2>3, <2>4 DEF Silent
<1>4. jobBar' = [jobBar EXCEPT ![p] = JobOf(p)']
  BY <1>1, OneJob
<1> QED BY <1>2, <1>3, <1>4 DEF jobBar

LEMMA EndingStep ==
    ASSUME ShIInv, NEW p \in Proc, Ending(p)
    PROVE  jobBar' = [jobBar EXCEPT ![p] = [stage |-> "idle"]] /\ proved' = proved
<1> USE DEF ShIInv, FlowInv, ShTypeOK
<1>1. \A q \in Proc \ {p} : /\ pc'[q] = pc[q] /\ req'[q] = req[q]
                            /\ child'[q] = child[q] /\ trail'[q] = trail[q]
  BY DEF Ending, FinishInvalidate, Deny, UnknownCapability, PasswordRefused, UnknownTarget,
         Reap, CommandEnds, ChildEnds, Buried, ChildBecomes, Refuse, Fail, Pass, Exit, Audit, Move
<1>2. proved' = proved
  BY DEF Ending, FinishInvalidate, Deny, UnknownCapability, PasswordRefused, UnknownTarget,
         Reap, CommandEnds, ChildEnds, Buried, ChildBecomes, Refuse, Fail, Pass
<1>3. pc'[p] = "over" \/ child'[p] \in ChildGone
  BY DEF Ending, FinishInvalidate, Deny, UnknownCapability, PasswordRefused, UnknownTarget,
         Reap, CommandEnds, ChildEnds, Buried, ChildBecomes, ChildGone, Refuse, Fail, Pass,
         Exit, Move
<1>4. JobOf(p)' = [stage |-> "idle"]
  BY <1>3 DEF JobOf, Unasked
<1> QED BY <1>1, <1>2, <1>4, OneJob

(* The steps that count for the promise, or that may end the invocation.   *)
LEMMA AskStep ==
    ASSUME ShIInv, NEW p \in Proc, LoadPolicy(p)
    PROVE  Promise!Ask(p)
<1> USE DEF ShIInv, FlowInv, ShTypeOK
<1>1. jobBar' = [jobBar EXCEPT ![p] = JobOf(p)']
  BY OneJob DEF LoadPolicy, Audit, Move
<1>2. jobBar[p] = [stage |-> "idle"]
  BY DEF LoadPolicy, Move, jobBar, JobOf, Unasked
<1>3. child[p] = "none" /\ "ALLOWED" \notin trail[p] /\ pc[p] = "start"
  BY DEF LoadPolicy, Move, Attended, Settled, AfterAdmit, OldAdmitted
<1>4. JobOf(p)' = [stage |-> "asking", request |-> req[p]]
  BY <1>3 DEF LoadPolicy, Audit, Move, JobOf, Unasked, StageBar, Running, ChildGone
<1>5. req[p] \in ToRun
  BY RequestTyped DEF LoadPolicy, ToRun
<1> QED BY <1>1, <1>2, <1>4, <1>5 DEF LoadPolicy, Promise!Ask, Promise!Enter, Promise!At, Promise!Idle

LEMMA ProveStep ==
    ASSUME ShIInv, NEW p \in Proc, PasswordAccepted(p)
    PROVE  Promise!Prove(p)
<1> USE DEF ShIInv, FlowInv, ShTypeOK, PasswordAccepted, Move
<1>1. jobBar' = [jobBar EXCEPT ![p] = JobOf(p)']
  BY OneJob
<1>2. child[p] = "none" /\ "ALLOWED" \notin trail[p] /\ req[p].mode = "run"
  BY DEF Attended, Settled, AfterPolicy, AfterVerdict, AfterCaps, AfterAuth, AfterTarget, AfterAdmit, OldAdmitted
<1>3. /\ JobOf(p) = [stage |-> "asking", request |-> req[p]]
      /\ JobOf(p)' = JobOf(p)
  BY <1>2 DEF JobOf, Unasked, StageBar, Running, ChildGone
<1>4. jobBar[p] = JobOf(p)
  BY DEF jobBar
<1>5. jobBar' = jobBar
  BY <1>1, <1>3, <1>4 DEF jobBar
<1>6. jobBar[p].stage = "asking" /\ jobBar[p].request = req[p]
  BY <1>3, <1>4
<1> QED BY <1>5, <1>6 DEF Promise!Prove, Asker

LEMMA AdmitStep ==
    ASSUME ShIInv, NEW p \in Proc, AdmitCommand(p)
    PROVE  Promise!Admit(p)
<1> USE DEF ShIInv, FlowInv, TicketsProved, ShTypeOK, AdmitCommand, Move
<1>1. jobBar' = [jobBar EXCEPT ![p] = JobOf(p)']
  BY OneJob DEF Audit
<1>2. child[p] = "none" /\ "ALLOWED" \notin trail[p]
  BY DEF Attended, Settled, AfterAdmit, OldAdmitted
<1>3. MayRun(req[p]) /\ req[p].mode = "run" /\ (Asks(req[p]) => Asker(req[p]) \in proved)
  BY DEF Settled, AfterPolicy, AfterVerdict, AfterCaps, AfterAuth, AfterTarget, AfterAdmit, OldAdmitted,
         Allowed, MayRun, Asks, Asker
<1>4. /\ JobOf(p) = [stage |-> "asking", request |-> req[p]]
      /\ JobOf(p)' = [stage |-> "admitted", request |-> req[p]]
  BY <1>2, <1>3 DEF Audit, JobOf, Unasked, StageBar, Running, ChildGone
<1>5. jobBar[p] = JobOf(p)
  BY DEF jobBar
<1>6. jobBar[p].stage = "asking" /\ jobBar[p].request = req[p]
  BY <1>4, <1>5
<1>7. proved' = proved
  OBVIOUS
<1>8. Promise!Enter(p, "admitted", jobBar[p].request)
  BY <1>1, <1>4, <1>6 DEF Promise!Enter, Promise!At
<1>9. MayRun(jobBar[p].request)
      /\ (Asks(jobBar[p].request) => Asker(jobBar[p].request) \in proved)
  BY <1>3, <1>6
<1> QED BY <1>6, <1>7, <1>8, <1>9 DEF Promise!Admit

(* Once admitted, the invocation waits, runs its command or ends.          *)
LEMMA StartStep ==
    ASSUME ShIInv, NEW p \in Proc, ExecDirect(p) \/ AllocPty(p) \/ Fork(p) \/ ChildSetup(p)
    PROVE  Promise!Run(p) \/ Promise!Finish(p) \/ UNCHANGED <<jobBar, proved>>
<1> USE DEF ShIInv, FlowInv, ShTypeOK
<1>1. jobBar' = [jobBar EXCEPT ![p] = JobOf(p)'] /\ proved' = proved
  BY OneJob DEF ExecDirect, AllocPty, Fork, ChildSetup, ChildBecomes, Fail, Pass, Exit, Move
<1>2. "ALLOWED" \in trail[p] /\ req[p].mode = "run" /\ ~Running(p) /\ ~Unasked(p)
  BY DEF ExecDirect, AllocPty, Fork, ChildSetup, Fail, Pass, Exit, Move, Attended, Settled,
         AfterPolicy, AfterVerdict, AfterCaps, AfterAuth, AfterTarget, AfterAdmit, OldAdmitted, ChildAlive,
         ChildGone, Running, Unasked
<1>3. jobBar[p] = JobOf(p) /\ JobOf(p) = [stage |-> "admitted", request |-> req[p]]
  BY <1>2 DEF jobBar, JobOf, StageBar
<1>4. trail'[p] = trail[p] /\ req'[p] = req[p] /\ pc'[p] # "start"
  BY <1>2 DEF Unasked, ExecDirect, AllocPty, Fork, ChildSetup, ChildBecomes, Fail, Pass, Exit, Move
<1>5. \/ pc'[p] = "over" \/ child'[p] \in ChildGone
      \/ ~Unasked(p)'
  BY <1>2, <1>4 DEF Unasked
<1>6. \/ JobOf(p)' = [stage |-> "idle"]
      \/ JobOf(p)' = [stage |-> "running", request |-> req[p]]
      \/ JobOf(p)' = JobOf(p)
  BY <1>2, <1>3, <1>4, <1>5 DEF JobOf, StageBar, Unasked
<1>7. jobBar' = jobBar \/ jobBar' = [jobBar EXCEPT ![p] = [stage |-> "idle"]]
        \/ jobBar' = [jobBar EXCEPT ![p] = [stage |-> "running", request |-> req[p]]]
  BY <1>1, <1>3, <1>6 DEF jobBar
<1> QED BY <1>1, <1>3, <1>7 DEF Promise!Run, Promise!Finish, Promise!Enter, Promise!At, Promise!Idle

LEMMA LogStep ==
    ASSUME ShIInv, NEW p \in Proc, SessionLog(p) \/ InputLog(p)
    PROVE  Promise!Finish(p) \/ UNCHANGED <<jobBar, proved>>
<1> USE DEF ShIInv, FlowInv, ShTypeOK, SessionLog, InputLog, OpenLog, NoLog, Refuse, Exit, Audit, Move
<1>1. jobBar' = [jobBar EXCEPT ![p] = JobOf(p)'] /\ proved' = proved
  BY OneJob
<1>2. JobOf(p)' = JobOf(p) \/ JobOf(p)' = [stage |-> "idle"]
  <2>1. CASE pc'[p] = "over"
    BY <2>1 DEF JobOf, Unasked
  <2>2. CASE pc'[p] # "over"
    BY <2>2 DEF JobOf, Unasked, StageBar, Running
  <2> QED BY <2>1, <2>2
<1>3. jobBar[p] = JobOf(p)
  BY DEF jobBar
<1>4. CASE JobOf(p)' = JobOf(p)
  <2>1. jobBar' = jobBar
    BY <1>1, <1>3, <1>4 DEF jobBar
  <2> QED BY <1>1, <2>1
<1>5. CASE JobOf(p)' = [stage |-> "idle"]
  <2>1. jobBar' = [jobBar EXCEPT ![p] = [stage |-> "idle"]]
    BY <1>1, <1>5
  <2> QED BY <1>1, <2>1 DEF Promise!Finish, Promise!Idle
<1> QED BY <1>2, <1>4, <1>5

LEMMA KillStep ==
    ASSUME ShIInv, NEW p \in Proc, ShKill(p)
    PROVE  Promise!Finish(p) \/ UNCHANGED <<jobBar, proved>>
<1> USE DEF ShIInv, FlowInv, ShTypeOK, ShKill
<1>1. jobBar' = [jobBar EXCEPT ![p] = JobOf(p)'] /\ proved' = proved
  BY OneJob
<1>2. JobOf(p)' = JobOf(p) \/ JobOf(p)' = [stage |-> "idle"]
  <2>1. CASE child[p] \in ChildAlive
    BY <2>1 DEF JobOf, Unasked, StageBar, Running, ChildAlive, ChildGone, Attended
  <2>2. CASE child[p] \notin ChildAlive
    BY <2>2 DEF JobOf, Unasked
  <2> QED BY <2>1, <2>2
<1>3. jobBar[p] = JobOf(p)
  BY DEF jobBar
<1> QED BY <1>1, <1>2, <1>3 DEF Promise!Finish, Promise!Idle, jobBar

------------------------------------------------------------------------------
LEMMA PromiseStep ==
    ASSUME ShIInv, [ShNext]_vars
    PROVE  [Promise!EscNext]_<<jobBar, proved>>
<1> USE DEF Promise!EscNext
<1>1. ASSUME NEW p \in Proc, Silent(p) PROVE UNCHANGED <<jobBar, proved>>
  BY <1>1, SilentStep
<1>2. ASSUME NEW p \in Proc, Ending(p) PROVE Promise!Finish(p)
  BY <1>2, EndingStep DEF Promise!Finish, Promise!Idle
<1>3. ASSUME NEW p \in Proc, ShStep(p) PROVE [Promise!EscNext]_<<jobBar, proved>>
  BY <1>1, <1>2, <1>3, AskStep, ProveStep, AdmitStep, StartStep, LogStep
     DEF ShStep, Silent, Ending
<1>4. ASSUME NEW p \in Proc, NEW r \in Requests, Begin(p, r)
      PROVE  UNCHANGED <<jobBar, proved>>
  <2>1. req'[p] = r
    BY <1>4 DEF Begin, ShIInv, FlowInv, ShTypeOK
  <2> QED BY <1>1, <1>4, <2>1 DEF Silent
<1>5. ASSUME NEW p \in Proc, RelayGivesUp(p) PROVE UNCHANGED <<jobBar, proved>>
  BY <1>1, <1>5 DEF Silent
<1>6. ASSUME NEW p \in Proc, CommandEnds(p) \/ ChildEnds(p) \/ Buried(p)
      PROVE  Promise!Finish(p)
  BY <1>2, <1>6 DEF Ending
<1>7. CASE ShReboot
  <2>1. jobBar' = [p \in Proc |-> [stage |-> "idle"]]
    BY <1>7 DEF ShReboot, Quiet, jobBar, JobOf, Unasked
  <2>2. Promise!Restart
    BY <1>7, <2>1 DEF ShReboot, Promise!Restart, Promise!Idle
  <2> QED BY <2>2
<1>8. CASE UNCHANGED shVars
  BY <1>8 DEF shVars, jobBar, JobOf, Unasked, StageBar, Running
<1> QED
  BY <1>3, <1>4, <1>5, <1>6, <1>7, <1>8, KillStep DEF ShNext, Library, Clock, vars

(* Every behaviour of any number of invocations is one Escalation allows:  *)
(* asked, proven where a password is due, admitted on the record, run.     *)
THEOREM ImplementsEscalation == ShSpec => EscalationKept
<1>1. ShInit => Promise!EscInit
  BY DEF ShInit, Quiet, Promise!EscInit, Promise!Idle, jobBar, JobOf, Unasked
<1>2. ShIInv /\ [ShNext]_vars => [Promise!EscNext]_<<jobBar, proved>>
  BY PromiseStep
<1>3. ShSpec => []ShIInv
  BY ShInductive, PTL
<1> QED BY <1>1, <1>2, <1>3, PTL DEF ShSpec, EscalationKept, Promise!EscSpec, Promise!escVars
==============================================================================
