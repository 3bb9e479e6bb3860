---------------------------- MODULE UpgradeProofs -----------------------------
(***************************************************************************)
(* Proofs about Upgrade for any number of processes of either program and  *)
(* any requests: tickets mean the same whichever program wrote or reads    *)
(* them, a command runs only when that is justified, and an evaluate()     *)
(* without an error stands for a permission.                               *)
(***************************************************************************)
EXTENDS Upgrade, ShaktiProofs

(* The steps of the original's cache that are not the port's.              *)
OldCacheStep(p) ==
    OldCheckLstat(p) \/ OldCheckClock(p) \/ OldEnsure(p) \/ OldMkdir(p) \/ OldChmod(p)

(* A step of the cache is one of the port's kind or one of those.          *)
LEMMA MixedSplit ==
    ASSUME [MixedNext]_mixedVars
    PROVE  \/ [TsNext]_tsVars
           \/ \E p \in Proc : binary[p] = "original" /\ OldCacheStep(p)
<1>1. ASSUME NEW p \in Proc, MixedStep(p)
      PROVE  TsStep(p) \/ (binary[p] = "original" /\ OldCacheStep(p))
  BY <1>1 DEF MixedStep, OldTsStep, OldCacheStep, OldOpen, OldInvalidate, TsStep
<1>2. ASSUME NEW p \in Proc, Exchange(p) PROVE UNCHANGED tsVars
  BY <1>2 DEF Exchange
<1> QED BY <1>1, <1>2 DEF MixedNext, MixedTsNext, TsNext, mixedVars

LEMMA MixedTypeStep ==
    ASSUME TsTypeOK, [MixedNext]_mixedVars
    PROVE  TsTypeOK'
<1>1. CASE [TsNext]_tsVars
  BY <1>1, TypeStep
<1>2. ASSUME NEW p \in Proc, OldCacheStep(p) PROVE TsTypeOK'
  <2> USE PathTyped DEF TsTypeOK, TsPc, Code
  <2>1. CASE OldCheckLstat(p)
    BY <2>1 DEF OldCheckLstat, Goto, Done
  <2>2. CASE OldCheckClock(p)
    BY <2>2, TsAssumption DEF OldCheckClock, Done, Time
  <2>3. CASE OldEnsure(p)
    BY <2>3 DEF OldEnsure, Goto, Done, DirState, ghostVars
  <2>4. CASE OldMkdir(p) \/ OldChmod(p)
    BY <2>4 DEF OldMkdir, OldChmod, Goto, Done, DirState, ghostVars
  <2> QED BY <1>2, <2>1, <2>2, <2>3, <2>4 DEF OldCacheStep
<1> QED BY <1>1, <1>2, MixedSplit

(* No step of the cache removes a directory that stands at a ticket's path.*)
LEMMA DirsStay ==
    ASSUME TsTypeOK, NEW p \in Proc, TsStep(p) \/ OldCacheStep(p), NoDirs'
    PROVE  NoDirs
<1> USE DEF TsTypeOK, NoDirs
<1>1. CASE UNCHANGED file
  BY <1>1
<1>2. CASE OpenTs(p)
  <2>1. UNCHANGED file \/ (/\ file[path[p]].kind # "other"
                           /\ file' = [file EXCEPT ![path[p]] = file'[path[p]]])
    BY <1>2, PathTyped, OpenCodes DEF OpenTs
  <2> QED BY <2>1, PathTyped
<1>3. CASE InvalidateUnlink(p)
  <2>1. UNCHANGED file \/ (/\ file[path[p]].kind # "other"
                           /\ file' = [file EXCEPT ![path[p]] = Absent])
    BY <1>3 DEF InvalidateUnlink
  <2> QED BY <2>1, PathTyped
<1> QED
  BY <1>1, <1>2, <1>3
     DEF TsStep, CheckLstat, CheckClock, EnsureLstat, Mkdir, InvalidateLstat, OldCacheStep,
         OldCheckLstat, OldCheckClock, OldEnsure, OldMkdir, OldChmod

(* Only a reboot does.                                                     *)
LEMMA MixedDirsStay ==
    ASSUME TsTypeOK, [MixedNext]_mixedVars, NoDirs'
    PROVE  NoDirs \/ Reboot
<1>1. ASSUME NEW p \in Proc, TsStep(p) \/ OldCacheStep(p) PROVE NoDirs
  BY <1>1, DirsStay
<1>2. CASE UNCHANGED file
  BY <1>2 DEF NoDirs
<1> QED
  BY <1>1, <1>2, MixedSplit
     DEF TsNext, TsCall, CallCheck, CallUpdate, CallInvalidate, Call, Return, Kill, Leave,
         Tick, tsVars, ghostVars

(* As long as no directory is taken for a ticket the original's check sees *)
(* what the port's would.                                                  *)
LEMMA BackedStep ==
    ASSUME MixedIInv, NoDirs, [MixedNext]_mixedVars
    PROVE  TicketBacked' /\ SnapshotBacked' /\ CheckSound'
<1>0. TsTypeOK /\ TicketBacked /\ SnapshotBacked /\ CheckSound
  BY DEF MixedIInv
<1>1. CASE [TsNext]_tsVars
  BY <1>0, <1>1, TicketStep, SnapshotStep DEF TsIInv
<1>2. ASSUME NEW p \in Proc, OldCacheStep(p)
      PROVE  TicketBacked' /\ SnapshotBacked' /\ CheckSound'
  <2>1. TicketBacked'
    BY <1>0, <1>2 DEF OldCacheStep, OldCheckLstat, OldCheckClock, OldEnsure, OldMkdir, OldChmod,
                ghostVars, TicketBacked
  <2> USE DEF TsTypeOK, SnapshotBacked, CheckSound
  <2>2. CASE OldCheckLstat(p)
    <3>1. ASSUME NEW f \in Lstat(path[p]), OldUsable(f)
          PROVE  f.mtime = granted[path[p]] /\ granted[path[p]] # 0
      <4>1. f = file[path[p]] /\ f.kind = "regular" /\ f.root
        BY <1>0, <3>1, PathTyped DEF Lstat, Absent, OldUsable, NoDirs, FileState
      <4> QED BY <1>0, <4>1, PathTyped DEF Usable, TicketBacked
    <3> QED BY <1>0, <2>1, <2>2, <3>1 DEF OldCheckLstat, Goto, Done
  <2>3. CASE OldCheckClock(p)
    BY <1>0, <2>1, <2>3, TsAssumption DEF OldCheckClock, Done, OldUnexpired, Time
  <2>4. CASE OldEnsure(p) \/ OldMkdir(p) \/ OldChmod(p)
    BY <1>0, <2>1, <2>4 DEF OldEnsure, OldMkdir, OldChmod, Goto, Done, DirState, ghostVars
  <2> QED BY <1>2, <2>1, <2>2, <2>3, <2>4 DEF OldCacheStep
<1> QED BY <1>1, <1>2, MixedSplit

LEMMA MixedIInvInit ==
    ASSUME TsInit, binary \in [Proc -> Binary]
    PROVE  MixedIInv
BY BackedInit DEF TsIInv, MixedIInv

LEMMA RebootBacked ==
    ASSUME Reboot
    PROVE  TicketBacked' /\ SnapshotBacked' /\ CheckSound'
<1>1. \A k \in Path : ~Usable(file'[k])
  BY AbsentIsState DEF Reboot
<1> QED BY <1>1, NoPathIsPath DEF Reboot, NoCalls, TicketBacked, SnapshotBacked, CheckSound

LEMMA MixedIInvStep ==
    ASSUME MixedIInv, [MixedNext]_mixedVars
    PROVE  MixedIInv'
<1>1. TsTypeOK'
  BY MixedTypeStep DEF MixedIInv
<1>2. (binary \in [Proc -> Binary])'
  BY DEF MixedIInv, MixedNext, Exchange, mixedVars
<1>3. ASSUME NoDirs' PROVE TicketBacked' /\ SnapshotBacked' /\ CheckSound'
  BY <1>3, MixedDirsStay, BackedStep, RebootBacked DEF MixedIInv
<1> QED BY <1>1, <1>2, <1>3 DEF MixedIInv

(* Whichever program wrote a ticket and whichever reads it, the file that  *)
(* is looked at is backed by an update of that very path.                  *)
THEOREM MixedInductive == MixedSpec => []MixedIInv
<1>1. MixedInit => MixedIInv
  BY MixedIInvInit DEF MixedInit
<1> QED BY <1>1, MixedIInvStep, PTL DEF MixedSpec

------------------------------------------------------------------------------
(* Freshness: on a clock that is never set back for every check, and on    *)
(* any clock for the original's.                                           *)
MixedFresh == NoDirs => NothingFromTheFuture /\ CheckFresh

LEMMA MixedFreshStep ==
    ASSUME ~ClockStepsBack, MixedIInv, MixedFresh, [MixedNext]_mixedVars
    PROVE  MixedFresh'
<1>1. CASE Reboot
  BY <1>1 DEF Reboot, NoCalls, MixedFresh, NothingFromTheFuture, CheckFresh, Time, MixedIInv,
              TsTypeOK
<1> SUFFICES ASSUME NoDirs, ~Reboot PROVE NothingFromTheFuture' /\ CheckFresh'
  BY <1>1, MixedDirsStay DEF MixedIInv, MixedFresh
<1>2. TsIInv /\ NothingFromTheFuture /\ CheckFresh
  BY DEF MixedIInv, MixedFresh, TsIInv
<1>3. CASE [TsNext]_tsVars
  BY <1>2, <1>3, FutureStep
<1>4. ASSUME NEW p \in Proc, OldCacheStep(p) PROVE NothingFromTheFuture' /\ CheckFresh'
  <2> USE <1>2 DEF TsIInv, TsTypeOK, NothingFromTheFuture, CheckFresh
  <2>1. CASE OldCheckLstat(p)
    BY <2>1 DEF OldCheckLstat, Goto, Done, SnapshotBacked, Time
  <2>2. CASE OldCheckClock(p)
    <3>1. ret'[p] = "valid" => readAt'[p] - basis'[p] \in 0..(TTL - 1)
      BY <2>2, TsAssumption DEF OldCheckClock, Done, OldUnexpired, SnapshotBacked, Time
    <3>2. /\ UNCHANGED <<now, granted, basis>>
          /\ \A q \in Proc \ {p} : ret'[q] = ret[q] /\ readAt'[q] = readAt[q]
      BY <2>2 DEF OldCheckClock, Done
    <3> QED BY <3>1, <3>2
  <2>3. CASE OldEnsure(p) \/ OldMkdir(p) \/ OldChmod(p)
    BY <2>3 DEF OldEnsure, OldMkdir, OldChmod, Goto, Done, DirState, ghostVars
  <2> QED BY <1>4, <2>1, <2>2, <2>3 DEF OldCacheStep
<1> QED BY <1>3, <1>4, MixedSplit

LEMMA OldFreshStep ==
    ASSUME MixedIInv, OldCheckFresh, [MixedNext]_mixedVars
    PROVE  OldCheckFresh'
<1>1. CASE Reboot
  BY <1>1 DEF Reboot, NoCalls, OldCheckFresh
<1> SUFFICES ASSUME NoDirs, ~Reboot, NEW q \in Proc,
                    binary'[q] = "original", ret'[q] = "valid"
             PROVE  readAt'[q] - basis'[q] \in 0..(TTL - 1)
  BY <1>1, MixedDirsStay DEF MixedIInv, OldCheckFresh
<1>2. /\ TsTypeOK /\ SnapshotBacked /\ binary \in [Proc -> Binary]
      /\ binary[q] = "original" /\ ret[q] = "valid" => readAt[q] - basis[q] \in 0..(TTL - 1)
  BY DEF MixedIInv, OldCheckFresh
<1> USE <1>2 DEF TsTypeOK, SnapshotBacked
<1>3. ASSUME NEW p \in Proc, Exchange(p) PROVE readAt'[q] - basis'[q] \in 0..(TTL - 1)
  BY <1>3 DEF Exchange, tsVars
<1>4. ASSUME NEW p \in Proc, OldCacheStep(p), UNCHANGED binary
      PROVE  readAt'[q] - basis'[q] \in 0..(TTL - 1)
  <2>1. CASE OldCheckLstat(p)
    BY <1>4, <2>1 DEF OldCheckLstat, Goto, Done
  <2>2. CASE OldCheckClock(p)
    BY <1>4, <2>2, TsAssumption DEF OldCheckClock, Done, OldUnexpired, Time
  <2>3. CASE OldEnsure(p) \/ OldMkdir(p) \/ OldChmod(p)
    BY <1>4, <2>3 DEF OldEnsure, OldMkdir, OldChmod, Goto, Done, DirState, ghostVars
  <2> QED BY <1>4, <2>1, <2>2, <2>3 DEF OldCacheStep
<1>5. ASSUME NEW p \in Proc, TsStep(p), UNCHANGED binary, CheckClock(p) => p # q
      PROVE  readAt'[q] - basis'[q] \in 0..(TTL - 1)
  <2>1. CASE CheckLstat(p)
    BY <1>5, <2>1 DEF CheckLstat, Goto, Done
  <2>2. CASE CheckClock(p)
    BY <1>5, <2>2 DEF CheckClock, Done
  <2>3. CASE EnsureLstat(p) \/ Mkdir(p)
    BY <1>5, <2>3 DEF EnsureLstat, Mkdir, Goto, Done, DirState, ghostVars
  <2>4. CASE OpenTs(p)
    <3>1. PICK c \in OpenAnswers(file[path[p]]) : Done(p, c)
      BY <2>4 DEF OpenTs
    <3>2. c # "valid"
      BY PathTyped, OpenCodes
    <3> QED BY <1>5, <2>4, <3>1, <3>2 DEF OpenTs, Done
  <2>5. CASE InvalidateLstat(p) \/ InvalidateUnlink(p)
    <3>1. UNCHANGED <<basis, readAt>>
      BY <2>5 DEF InvalidateLstat, InvalidateUnlink, ghostVars
    <3>2. ret' = ret \/ \E c \in {"ok", "io", "symlink"} : ret' = [ret EXCEPT ![p] = c]
      BY <2>5 DEF InvalidateLstat, InvalidateUnlink, Goto, Done
    <3> QED BY <1>5, <3>1, <3>2
  <2> QED BY <1>5, <2>1, <2>2, <2>3, <2>4, <2>5 DEF TsStep
<1>6. ASSUME NEW p \in Proc, MixedStep(p), UNCHANGED binary
      PROVE  readAt'[q] - basis'[q] \in 0..(TTL - 1)
  <2>1. CASE binary[p] = "port" /\ TsStep(p)
    BY <1>5, <1>6, <2>1
  <2>2. CASE OldTsStep(p)
    <3>1. OldCacheStep(p) \/ OpenTs(p) \/ InvalidateLstat(p) \/ InvalidateUnlink(p)
      BY <2>2 DEF OldTsStep, OldCacheStep, OldOpen, OldInvalidate
    <3>2. OpenTs(p) \/ InvalidateLstat(p) \/ InvalidateUnlink(p) => ~CheckClock(p) /\ TsStep(p)
      BY DEF OpenTs, InvalidateLstat, InvalidateUnlink, CheckClock, TsStep
    <3> QED BY <1>4, <1>5, <1>6, <3>1, <3>2
  <2> QED BY <1>6, <2>1, <2>2 DEF MixedStep
<1>7. ASSUME NEW p \in Proc, TsCall(p) \/ Kill(p), UNCHANGED binary
      PROVE  readAt'[q] - basis'[q] \in 0..(TTL - 1)
  BY <1>7 DEF TsCall, CallCheck, CallUpdate, CallInvalidate, Call, Return, Kill, Leave, Goto,
              ghostVars
<1>8. CASE Tick /\ UNCHANGED binary
  BY <1>8 DEF Tick, ghostVars
<1>9. CASE UNCHANGED mixedVars
  BY <1>9 DEF mixedVars, tsVars
<1> QED BY <1>3, <1>6, <1>7, <1>8, <1>9 DEF MixedNext, MixedTsNext

------------------------------------------------------------------------------
(* Where a ticket is written: the directory changes only where there was   *)
(* none, or to what both programs take for safe.                           *)
LEMMA DirSafeStep ==
    ASSUME TsTypeOK, binary \in [Proc -> Binary], TicketDirSafe, [MixedNext]_mixedVars
    PROVE  TicketDirSafe'
<1> USE DEF TsTypeOK, TicketDirSafe
<1>1. ASSUME NEW p \in Proc, Exchange(p) PROVE TicketDirSafe'
  BY <1>1 DEF Exchange, tsVars
<1>2. ASSUME NEW p \in Proc, MixedStep(p), UNCHANGED binary PROVE TicketDirSafe'
  <2>1. CASE CheckLstat(p) \/ CheckClock(p) \/ OldCheckLstat(p) \/ OldCheckClock(p)
    BY <1>2, <2>1 DEF CheckLstat, CheckClock, OldCheckLstat, OldCheckClock, Goto, Done
  <2>2. CASE EnsureLstat(p)
    BY <1>2, <2>2 DEF EnsureLstat, Goto, Done
  <2>3. CASE Mkdir(p)
    BY <1>2, <2>3 DEF Mkdir, Goto, Done
  <2>4. CASE binary[p] = "original" /\ OldEnsure(p)
    BY <1>2, <2>4 DEF OldEnsure, Goto, Done
  <2>5. CASE OldMkdir(p)
    BY <1>2, <2>5 DEF OldMkdir, Goto, Done
  <2>6. CASE OldChmod(p)
    BY <1>2, <2>6 DEF OldChmod, Goto, Done
  <2>7. CASE OpenTs(p)
    BY <1>2, <2>7 DEF OpenTs, Done
  <2>8. CASE InvalidateLstat(p) \/ InvalidateUnlink(p)
    BY <1>2, <2>8 DEF InvalidateLstat, InvalidateUnlink, Goto, Done
  <2> QED BY <1>2, <2>1, <2>2, <2>3, <2>4, <2>5, <2>6, <2>7, <2>8
          DEF MixedStep, TsStep, OldTsStep, OldOpen, OldInvalidate
<1>3. ASSUME NEW p \in Proc, TsCall(p) \/ Kill(p), UNCHANGED binary PROVE TicketDirSafe'
  BY <1>3 DEF TsCall, CallCheck, CallUpdate, CallInvalidate, Call, Return, Kill, Leave, Goto
<1>4. CASE Tick /\ UNCHANGED binary
  BY <1>4 DEF Tick
<1>5. CASE Reboot
  BY <1>5 DEF Reboot, NoCalls
<1>6. CASE UNCHANGED mixedVars
  BY <1>6 DEF mixedVars, tsVars
<1> QED BY <1>1, <1>2, <1>3, <1>4, <1>5, <1>6 DEF MixedNext, MixedTsNext

------------------------------------------------------------------------------
(* The original's path of a session is of the session's seat, too.         *)
LEMMA SeatOfOldPath ==
    ASSUME NEW s \in Session
    PROVE  /\ old_timestamp_path(s) \in Path
           /\ Seat(old_timestamp_path(s)) = Seat(s)
<1>1. s[1] \in User /\ s[2] \in Tty \cup Device \cup Elsewhere /\ s = <<s[1], s[2]>>
  BY DEF Session
<1>2. CASE s[2] \in Tty
  BY <1>1, <1>2 DEF Path, Seat, old_timestamp_path, tty_session_id
<1>3. CASE s[2] \notin Tty
  BY <1>1, <1>3, TsAssumption DEF Path, Seat, old_timestamp_path, tty_session_id
<1> QED BY <1>2, <1>3

LEMMA SeatOfTicket ==
    ASSUME ShTypeOK, NEW p \in Proc
    PROVE  TicketPath(p) \in Path /\ Seat(TicketPath(p)) = Seat(req[p].session)
BY RequestTyped, SeatOfPath, SeatOfOldPath DEF TicketPath

(* What the original records, in the words of the port.                    *)
LEMMA OldRefuseIsRefuse ==
    ASSUME NEW p, NEW from, NEW action \in AuditAction
    PROVE  OldRefuse(p, from, action) <=>
              Refuse(p, from, IF action = "AUTH_FAILURE" THEN action ELSE "DENIED")
BY DEF OldRefuse, OldAudit, Refuse, Audited

LEMMA OldRecords ==
    ASSUME NEW p
    PROVE  /\ OldDeny(p) => Deny(p)
           /\ OldPasswordRefused(p) <=> Refuse(p, "oldprompt", "AUTH_FAILURE")
           /\ OldAudit(p, "COMMAND", TRUE) <=> Audit(p, "ALLOWED")
<1>1. OldDeny(p) => Deny(p)
  BY OldRefuseIsRefuse DEF OldDeny, Deny, Allowed, AuditAction
<1>2. OldPasswordRefused(p) <=> Refuse(p, "oldprompt", "AUTH_FAILURE")
  BY OldRefuseIsRefuse DEF OldPasswordRefused, AuditAction
<1>3. OldAudit(p, "COMMAND", TRUE) <=> Audit(p, "ALLOWED")
  BY DEF OldAudit, Audited, AuditAction
<1> QED BY <1>1, <1>2, <1>3

(* The steps of the original and of evaluate() that are not shk_run's.     *)
OldFlow(p) ==
    \/ OldStartInvalidate(p) \/ OldFinishInvalidate(p) \/ OldLoadPolicy(p) \/ OldReject(p)
    \/ OldCheckTicket(p) \/ OldNoPassword(p) \/ OldTicketAnswer(p)
    \/ OldPasswordAccepted(p) \/ OldPasswordRefused(p) \/ OldNoPasswordRead(p) \/ OldUnread(p)
    \/ OldRefreshTicket(p) \/ OldTicketRefreshed(p) \/ OldAdmit(p) \/ OldTarget(p)
    \/ OldExec(p) \/ OldCommandEnds(p) \/ EvaluateStep(p)

LEMMA UpSplit ==
    ASSUME [UpNext]_upVars
    PROVE  \/ [ShNext]_vars
           \/ \E p \in Proc : OldCacheStep(p) /\ UNCHANGED shVars
           \/ \E p \in Proc : OldFlow(p)
<1>1. ASSUME NEW p \in Proc, UpStep(p) PROVE ShStep(p) \/ OldFlow(p)
  BY <1>1, OldRecords DEF UpStep, OldStep, OldFlow, ShStep
<1>2. ASSUME NEW p \in Proc, UpLibrary(p)
      PROVE  Library(p) \/ (OldCacheStep(p) /\ UNCHANGED shVars)
  BY <1>2 DEF UpLibrary, MixedStep, OldTsStep, OldCacheStep, OldOpen, OldInvalidate,
              Library, TsStep
<1>3. ASSUME NEW p \in Proc, UpEnds(p) PROVE EndsOf(p) \/ OldFlow(p)
  BY <1>3 DEF UpEnds, UpKill, EndsOf, OldFlow
<1> QED BY <1>1, <1>2, <1>3 DEF UpNext, UpBegin, ShNext, EndsOf, upVars

LEMMA OldFlowCalls ==
    ASSUME ShTypeOK, NEW p \in Proc, OldFlow(p)
    PROVE  TsCall(p) \/ UNCHANGED tsVars
<1> USE RequestTyped, SeatOfOldPath
<1>1. CASE OldStartInvalidate(p) \/ OldCheckTicket(p) \/ OldRefreshTicket(p)
  BY <1>1 DEF OldStartInvalidate, StartInvalidateAt, OldCheckTicket, CheckTicketAt,
              OldRefreshTicket, TsCall
<1>2. CASE OldFinishInvalidate(p) \/ OldTicketAnswer(p) \/ OldTicketRefreshed(p)
  BY <1>2 DEF OldFinishInvalidate, OldTicketAnswer, OldTicketRefreshed, TsCall
<1>3. CASE OldLoadPolicy(p) \/ OldReject(p) \/ OldNoPassword(p) \/ OldPasswordAccepted(p)
           \/ OldPasswordRefused(p) \/ OldNoPasswordRead(p) \/ OldUnread(p)
  BY <1>3, OldRecords DEF OldLoadPolicy, OldReject, OldNoPassword, OldPasswordAccepted,
              OldPasswordRefused, OldNoPasswordRead, OldUnread, Refuse, Fail, Pass
<1>4. CASE OldAdmit(p) \/ OldTarget(p) \/ OldExec(p) \/ OldCommandEnds(p)
  BY <1>4, OldRecords DEF OldAdmit, OldTarget, OldExec, OldCommandEnds, Fail, Pass
<1>5. CASE EvaluateStart(p) \/ EvaluateDeny(p) \/ EvaluateNoTicket(p)
  BY <1>5 DEF EvaluateStart, EvaluateDeny, EvaluateNoTicket, Fail, Pass
<1>6. CASE EvaluateTicket(p)
  BY <1>6, SeatOfTicket DEF EvaluateTicket, TsCall
<1>7. CASE EvaluateAnswer(p)
  BY <1>7 DEF EvaluateAnswer, TsCall
<1> QED BY <1>1, <1>2, <1>3, <1>4, <1>5, <1>6, <1>7 DEF OldFlow, EvaluateStep

(* For the cache, too, an invocation of either program is a client.        *)
LEMMA UpClientStep ==
    ASSUME ShTypeOK, binary \in [Proc -> Binary], \A p \in Proc : InCall(p), [UpNext]_upVars
    PROVE  [MixedNext]_mixedVars
<1>1. ASSUME NEW p \in Proc, UpStep(p) PROVE [MixedNext]_mixedVars
  <2>1. (ShStep(p) \/ OldFlow(p)) /\ UNCHANGED binary
    BY <1>1, OldRecords DEF UpStep, OldStep, OldFlow, ShStep
  <2>2. TsCall(p) \/ UNCHANGED tsVars
    BY <2>1, FlowCalls, OldFlowCalls
  <2> QED BY <2>1, <2>2 DEF MixedNext, MixedTsNext, mixedVars
<1>2. ASSUME NEW p \in Proc, UpLibrary(p) PROVE [MixedNext]_mixedVars
  BY <1>2 DEF UpLibrary, MixedNext, MixedTsNext
<1>3. ASSUME NEW p \in Proc, UpEnds(p), UNCHANGED binary PROVE [MixedNext]_mixedVars
  <2>1. CASE OldCommandEnds(p)
    BY <1>3, <2>1 DEF OldCommandEnds, Fail, mixedVars
  <2>2. CASE EndsOf(p)
    BY <1>3, <2>2, EndsCalls DEF MixedNext, MixedTsNext, mixedVars
  <2> QED BY <1>3, <2>1, <2>2 DEF UpEnds, UpKill, EndsOf
<1>4. ASSUME NEW p \in Proc, NEW r \in Requests, UpBegin(p, r) PROVE [MixedNext]_mixedVars
  <2>1. tpc[p] = "idle" /\ UNCHANGED tsVars
    BY <1>4 DEF UpBegin, Begin, Move, InCall, Calling
  <2> QED BY <1>4, <2>1 DEF UpBegin, Exchange, MixedNext
<1>5. CASE (Clock \/ ShReboot) /\ UNCHANGED binary
  BY <1>5 DEF Clock, ShReboot, MixedNext, MixedTsNext
<1>6. CASE UNCHANGED upVars
  BY <1>6 DEF upVars, vars, mixedVars
<1> QED BY <1>1, <1>2, <1>3, <1>4, <1>5, <1>6 DEF UpNext

LEMMA UpTypeStep ==
    ASSUME ShTypeOK, binary \in [Proc -> Binary], \A p \in Proc : InCall(p), [UpNext]_upVars
    PROVE  ShTypeOK' /\ binary' \in [Proc -> Binary]
<1>1. binary' \in [Proc -> Binary]
  BY UpClientStep DEF MixedNext, Exchange, mixedVars
<1>2. TsTypeOK'
  BY UpClientStep, MixedTypeStep DEF ShTypeOK
<1>3. ASSUME NEW p \in Proc, OldFlow(p) PROVE ShTypeOK'
  <2> USE <1>2 DEF ShTypeOK, ShPc, OldPc, LibPc, OldAdmitted, Record
  <2>1. CASE OldFinishInvalidate(p) \/ OldTicketAnswer(p) \/ OldTicketRefreshed(p)
    BY <2>1 DEF OldFinishInvalidate, OldTicketAnswer, OldTicketRefreshed, Exit, Move
  <2>2. CASE OldLoadPolicy(p) \/ OldReject(p) \/ OldNoPassword(p) \/ OldUnread(p)
    BY <2>2 DEF OldLoadPolicy, OldReject, OldNoPassword, OldUnread, Fail, Exit, Pass, Move
  <2>9. CASE OldStartInvalidate(p) \/ OldCheckTicket(p) \/ OldRefreshTicket(p)
    BY <2>9 DEF OldStartInvalidate, StartInvalidateAt, OldCheckTicket, CheckTicketAt,
                OldRefreshTicket, Move
  <2>3. CASE OldPasswordAccepted(p)
    BY <2>3, RequestTyped, SeatOfPath DEF OldPasswordAccepted, Move
  <2>4. CASE OldPasswordRefused(p) \/ OldNoPasswordRead(p)
    BY <2>4 DEF OldPasswordRefused, OldNoPasswordRead, OldRefuse, OldAudit, Audited, Pass,
                Exit, Audit, Move
  <2>5. CASE OldAdmit(p) \/ OldTarget(p)
    BY <2>5 DEF OldAdmit, OldTarget, OldAudit, Audited, Fail, Pass, Exit, Audit, Move
  <2>6. CASE OldExec(p) \/ OldCommandEnds(p)
    BY <2>6 DEF OldExec, OldCommandEnds, Fail, Pass, Exit, Move
  <2>7. CASE EvaluateStart(p) \/ EvaluateDeny(p) \/ EvaluateNoTicket(p)
    BY <2>7 DEF EvaluateStart, EvaluateDeny, EvaluateNoTicket, Fail, Pass, Exit, Move
  <2>8. CASE EvaluateTicket(p) \/ EvaluateAnswer(p)
    BY <2>8 DEF EvaluateTicket, EvaluateAnswer, Evaluation, Exit, Move
  <2> QED BY <1>3, <2>1, <2>2, <2>3, <2>4, <2>5, <2>6, <2>7, <2>8, <2>9
          DEF OldFlow, EvaluateStep
<1>4. CASE UNCHANGED shVars
  BY <1>1, <1>2, <1>4 DEF ShTypeOK, shVars
<1> QED BY <1>1, <1>3, <1>4, ShTypeStep, UpSplit

LEMMA UpInCallStep ==
    ASSUME ShTypeOK, \A p \in Proc : InCall(p), [UpNext]_upVars, NEW q \in Proc
    PROVE  InCall(q)'
<1> USE DEF ShTypeOK, TsTypeOK, InCall, Calling
<1>1. ASSUME NEW p \in Proc, OldCacheStep(p), UNCHANGED shVars PROVE InCall(q)'
  <2>1. CASE OldCheckLstat(p)
    BY <1>1, <2>1 DEF shVars, OldCheckLstat, Goto, Done
  <2>2. CASE OldCheckClock(p)
    <3>1. tpc' = [tpc EXCEPT ![p] = "done"] /\ UNCHANGED <<path, basis>>
      BY <2>2, Zenon DEF OldCheckClock, Done
    <3>2. tpc[p] = "clock" /\ pc[p] \in {"checking", "libchecking"}
      BY <2>2 DEF OldCheckClock
    <3> QED BY <1>1, <3>1, <3>2 DEF shVars
  <2>3. CASE OldEnsure(p)
    BY <1>1, <2>3, ZenonT(30) DEF shVars, OldEnsure, DirState, Goto, Done, ghostVars
  <2>4. CASE OldMkdir(p) \/ OldChmod(p)
    BY <1>1, <2>4 DEF shVars, OldMkdir, OldChmod, Goto, Done, ghostVars
  <2> QED BY <1>1, <2>1, <2>2, <2>3, <2>4 DEF OldCacheStep
<1>2. ASSUME NEW p \in Proc, OldFlow(p) PROVE InCall(q)'
  <2>1. CASE OldFinishInvalidate(p) \/ OldTicketAnswer(p) \/ OldTicketRefreshed(p)
             \/ EvaluateAnswer(p)
    BY <2>1 DEF OldFinishInvalidate, OldTicketAnswer, OldTicketRefreshed, EvaluateAnswer,
                Exit, Move, Return, Leave
  <2>7. CASE OldStartInvalidate(p) \/ OldCheckTicket(p) \/ OldRefreshTicket(p)
    <3> DEFINE k == old_timestamp_path(req[p].session)
    <3>1. Seat(k) = Seat(req[p].session)
      BY RequestTyped, SeatOfOldPath
    <3>2. /\ tpc[p] = "idle" /\ path' = [path EXCEPT ![p] = k]
          /\ UNCHANGED <<req, basis>>
      BY <2>7 DEF OldStartInvalidate, StartInvalidateAt, OldCheckTicket, CheckTicketAt,
                  OldRefreshTicket, CallCheck, CallUpdate, CallInvalidate, Call, ghostVars
    <3>3. \/ pc' = [pc EXCEPT ![p] = "invalidating"] /\ tpc' = [tpc EXCEPT ![p] = "klstat"]
          \/ pc' = [pc EXCEPT ![p] = "checking"] /\ tpc' = [tpc EXCEPT ![p] = "lstat"]
          \/ pc' = [pc EXCEPT ![p] = "oldrefreshing"] /\ tpc' = [tpc EXCEPT ![p] = "ensure"]
      BY <2>7 DEF OldStartInvalidate, StartInvalidateAt, OldCheckTicket, CheckTicketAt,
                  OldRefreshTicket, Move, CallCheck, CallUpdate, CallInvalidate, Call, Goto
    <3> HIDE DEF k
    <3> QED BY <3>1, <3>2, <3>3
  <2>2. CASE EvaluateTicket(p)
    <3> DEFINE k == TicketPath(p)
    <3>1. Seat(k) = Seat(req[p].session)
      BY SeatOfTicket
    <3>2. /\ tpc[p] = "idle" /\ path' = [path EXCEPT ![p] = k]
          /\ pc' = [pc EXCEPT ![p] = "libchecking"] /\ tpc' = [tpc EXCEPT ![p] = "lstat"]
          /\ UNCHANGED <<req, basis>>
      BY <2>2 DEF EvaluateTicket, Move, CallCheck, Call, Goto, ghostVars
    <3> HIDE DEF k
    <3> QED BY <3>1, <3>2
  <2> USE DEF tsVars, ghostVars
  <2>3. CASE OldLoadPolicy(p) \/ OldReject(p) \/ OldNoPassword(p) \/ OldUnread(p)
    BY <2>3 DEF OldLoadPolicy, OldReject, OldNoPassword, OldUnread, Fail, Exit, Pass, Move
  <2>4. CASE OldPasswordAccepted(p) \/ OldPasswordRefused(p) \/ OldNoPasswordRead(p)
    BY <2>4 DEF OldPasswordAccepted, OldPasswordRefused, OldNoPasswordRead, OldRefuse,
                OldAudit, Audited, Audit, Pass, Exit, Move
  <2>5. CASE OldAdmit(p) \/ OldTarget(p) \/ OldExec(p) \/ OldCommandEnds(p)
    BY <2>5 DEF OldAdmit, OldAudit, Audited, Audit, OldTarget, OldExec, OldCommandEnds, Fail, Pass,
                Exit, Move
  <2>6. CASE EvaluateStart(p) \/ EvaluateDeny(p) \/ EvaluateNoTicket(p)
    BY <2>6 DEF EvaluateStart, EvaluateDeny, EvaluateNoTicket, Fail, Pass, Exit, Move
  <2> QED BY <1>2, <2>1, <2>2, <2>3, <2>4, <2>5, <2>6, <2>7 DEF OldFlow, EvaluateStep
<1> QED BY <1>1, <1>2, InCallStep, UpSplit

(* Both programs use the cache only through its three functions.           *)
UpTyped == ShTypeOK /\ binary \in [Proc -> Binary] /\ \A p \in Proc : InCall(p)

LEMMA UpTypedStep ==
    ASSUME UpTyped, [UpNext]_upVars
    PROVE  UpTyped'
BY UpTypeStep, UpInCallStep DEF UpTyped

LEMMA UpTypedInit == UpInit => UpTyped
BY ShIInvInit DEF UpInit, UpTyped, ShIInv, FlowInv

LEMMA UpClient == UpSpec => MixedSpec /\ []UpTyped
<1>1. UpInit => MixedInit
  BY DEF UpInit, ShInit, MixedInit
<1>2. UpTyped /\ [UpNext]_upVars => [MixedNext]_mixedVars
  BY UpClientStep DEF UpTyped
<1>3. UpTyped /\ [UpNext]_upVars => UpTyped'
  BY UpTypedStep
<1> QED BY <1>1, <1>2, <1>3, UpTypedInit, PTL DEF UpSpec, MixedSpec

(* Whichever program wrote a ticket and whichever reads it, valid means an *)
(* unrevoked, unexpired update of the path that was looked at: the two     *)
(* name different ones where stdin is a device that is no terminal.        *)
THEOREM MixedChecksAreSound == UpSpec => []MixedCheckSound
<1>1. MixedIInv => MixedCheckSound
  BY DEF MixedIInv, MixedCheckSound
<1> QED BY <1>1, UpClient, MixedInductive, PTL

(* On a clock that is never set back every positive check is less than TTL *)
(* seconds old.                                                            *)
THEOREM MixedChecksAreFresh ==
    ASSUME ~ClockStepsBack
    PROVE  UpSpec => []MixedCheckFresh
<1>1. MixedInit => MixedFresh
  BY DEF MixedInit, TsInit, NoCalls, MixedFresh, NothingFromTheFuture, CheckFresh
<1>2. MixedIInv /\ MixedFresh /\ [MixedNext]_mixedVars => MixedFresh'
  BY MixedFreshStep
<1>3. MixedFresh => MixedCheckFresh
  BY DEF MixedFresh, MixedCheckFresh
<1> QED BY <1>1, <1>2, <1>3, UpClient, MixedInductive, PTL DEF MixedSpec

(* The original's is even on a clock that is set back.                     *)
THEOREM OldChecksAreFresh == UpSpec => []OldCheckFresh
<1>1. MixedInit => OldCheckFresh
  BY DEF MixedInit, TsInit, NoCalls, OldCheckFresh
<1>2. MixedIInv /\ OldCheckFresh /\ [MixedNext]_mixedVars => OldCheckFresh'
  BY OldFreshStep
<1> QED BY <1>1, <1>2, UpClient, MixedInductive, PTL DEF MixedSpec

(* A ticket is written only into a directory of root's that nobody else    *)
(* may write, whatever the two programs make of the directory meanwhile.   *)
THEOREM TicketsAreKeptSafe == UpSpec => []TicketDirSafe
<1>1. MixedInit => TicketDirSafe
  BY DEF MixedInit, TsInit, NoCalls, TicketDirSafe
<1>2. MixedIInv /\ TicketDirSafe /\ [MixedNext]_mixedVars => TicketDirSafe'
  BY DirSafeStep DEF MixedIInv
<1> QED BY <1>1, <1>2, UpClient, MixedInductive, PTL DEF MixedSpec

------------------------------------------------------------------------------
(* The rest of the inductive invariant: what is settled along the          *)
(* original's run and along evaluate().                                    *)
LEMMA UpDirsStay ==
    ASSUME UpTyped, [UpNext]_upVars, NoDirs'
    PROVE  NoDirs \/ ShReboot
<1>1. ASSUME NEW p \in Proc, TsCall(p) \/ Kill(p) \/ UNCHANGED tsVars PROVE NoDirs
  BY <1>1 DEF NoDirs, TsCall, CallCheck, CallUpdate, CallInvalidate, Call, Return, Kill, Leave,
              tsVars, ghostVars
<1>2. ASSUME NEW p \in Proc, UpStep(p) PROVE NoDirs
  <2>1. ShStep(p) \/ OldFlow(p)
    BY <1>2, OldRecords DEF UpStep, OldStep, OldFlow, ShStep
  <2> QED BY <1>1, <2>1, FlowCalls, OldFlowCalls DEF UpTyped
<1>3. ASSUME NEW p \in Proc, UpLibrary(p) PROVE NoDirs
  <2>1. TsStep(p) \/ OldCacheStep(p)
    BY <1>3 DEF UpLibrary, MixedStep, OldTsStep, OldCacheStep, OldOpen, OldInvalidate, TsStep
  <2> QED BY <2>1, DirsStay DEF UpTyped, ShTypeOK
<1>4. ASSUME NEW p \in Proc, UpEnds(p) \/ \E r \in Requests : UpBegin(p, r) PROVE NoDirs
  <2>1. CASE OldCommandEnds(p)
    BY <1>1, <2>1 DEF OldCommandEnds, Fail
  <2>2. CASE EndsOf(p) \/ \E r \in Requests : Begin(p, r)
    BY <1>1, <2>2, EndsCalls
  <2> QED BY <1>4, <2>1, <2>2 DEF UpEnds, UpKill, EndsOf, UpBegin
<1>5. CASE Clock \/ UNCHANGED upVars
  BY <1>5 DEF Clock, Tick, upVars, vars, tsVars, NoDirs
<1> QED BY <1>2, <1>3, <1>4, <1>5 DEF UpNext

LEMMA UpTicketsProvedStep ==
    ASSUME ShIInv, CheckSound, [UpNext]_upVars
    PROVE  TicketsProved'
<1> USE RequestTyped DEF ShIInv, FlowInv, ShTypeOK, TsTypeOK, TicketsProved
<1>1. ASSUME NEW p \in Proc, OldCacheStep(p), UNCHANGED shVars PROVE TicketsProved'
  <2>1. CASE OldCheckLstat(p)
    BY <1>1, <2>1 DEF shVars, OldCheckLstat
  <2>2. CASE OldCheckClock(p) \/ OldEnsure(p) \/ OldMkdir(p) \/ OldChmod(p)
    BY <1>1, <2>2 DEF shVars, OldCheckClock, OldEnsure, OldMkdir, OldChmod, ghostVars
  <2> QED BY <1>1, <2>1, <2>2 DEF OldCacheStep
<1>2. ASSUME NEW p \in Proc, OldFlow(p) PROVE TicketsProved'
  <2>1. CASE \/ OldStartInvalidate(p) \/ OldCheckTicket(p) \/ OldRefreshTicket(p)
             \/ EvaluateTicket(p)
    <3>1. basis[p] = 0
      BY <2>1 DEF OldStartInvalidate, StartInvalidateAt, OldCheckTicket, CheckTicketAt,
                  OldRefreshTicket, EvaluateTicket, Move, InCall, Calling
    <3>2. \A q \in Proc \ {p} : path'[q] = path[q]
      BY <2>1 DEF OldStartInvalidate, StartInvalidateAt, OldCheckTicket, CheckTicketAt,
                  OldRefreshTicket, EvaluateTicket, CallCheck, CallUpdate, CallInvalidate, Call
    <3>3. UNCHANGED <<granted, basis, req, how, proved>>
      BY <2>1 DEF OldStartInvalidate, StartInvalidateAt, OldCheckTicket, CheckTicketAt,
                  OldRefreshTicket, EvaluateTicket, CallCheck, CallUpdate, CallInvalidate, Call,
                  ghostVars
    <3> QED BY <3>1, <3>2, <3>3
  <2>2. CASE OldFinishInvalidate(p) \/ OldTicketRefreshed(p)
    BY <2>2 DEF OldFinishInvalidate, OldTicketRefreshed, Return, Leave
  <2>6. CASE OldTicketAnswer(p) \/ EvaluateAnswer(p)
    <3>1. ret[p] = "valid" => Seat(req[p].session) \in proved
      BY <2>6 DEF OldTicketAnswer, EvaluateAnswer, Exit, Move, CheckSound, InCall, Calling
    <3> QED BY <2>6, <3>1 DEF OldTicketAnswer, EvaluateAnswer, Return, Leave
  <2> USE DEF tsVars, ghostVars
  <2>3. CASE OldLoadPolicy(p) \/ OldReject(p) \/ OldNoPassword(p) \/ OldPasswordAccepted(p)
             \/ OldPasswordRefused(p) \/ OldNoPasswordRead(p) \/ OldUnread(p)
    BY <2>3, OldRecords DEF OldLoadPolicy, OldReject, OldNoPassword, OldPasswordAccepted,
                OldPasswordRefused, OldNoPasswordRead, OldUnread, Refuse, Fail, Pass
  <2>4. CASE OldAdmit(p) \/ OldTarget(p) \/ OldExec(p) \/ OldCommandEnds(p)
    BY <2>4 DEF OldAdmit, OldTarget, OldExec, OldCommandEnds, Fail, Pass
  <2>5. CASE EvaluateStart(p) \/ EvaluateDeny(p) \/ EvaluateNoTicket(p)
    BY <2>5 DEF EvaluateStart, EvaluateDeny, EvaluateNoTicket, Fail, Pass
  <2> QED BY <1>2, <2>1, <2>2, <2>3, <2>4, <2>5, <2>6 DEF OldFlow, EvaluateStep
<1> QED BY <1>1, <1>2, TicketsProvedStep, UpSplit

LEMMA UpSettledStep ==
    ASSUME FlowInv, [UpNext]_upVars, NEW q \in Proc
    PROVE  Settled(q)' /\ Attended(q)'
<1> USE DEF FlowInv, ShTypeOK, Settled, Attended, Allowed, AfterAdmit, OldAdmitted,
        AfterTarget, AfterAuth, AfterCaps, AfterVerdict, AfterPolicy, Refusal, ChildAlive
<1>1. ASSUME NEW p \in Proc, OldFlow(p) PROVE Settled(q)' /\ Attended(q)'
  <2>1. CASE OldFinishInvalidate(p)
    BY <2>1 DEF OldFinishInvalidate, Exit, Move
  <2>2. CASE OldTicketAnswer(p) \/ EvaluateAnswer(p)
    BY <2>2 DEF OldTicketAnswer, EvaluateAnswer, Exit, Move
  <2>3. CASE OldTicketRefreshed(p) \/ OldRefreshTicket(p)
    BY <2>3 DEF OldTicketRefreshed, OldRefreshTicket, Move
  <2>13. CASE OldStartInvalidate(p) \/ OldCheckTicket(p)
    BY <2>13 DEF OldStartInvalidate, StartInvalidateAt, OldCheckTicket, CheckTicketAt, Move
  <2>4. CASE OldLoadPolicy(p) \/ OldNoPassword(p)
    BY <2>4 DEF OldLoadPolicy, OldNoPassword, Pass, Move
  <2>5. CASE OldPasswordAccepted(p)
    BY <2>5 DEF OldPasswordAccepted, Move
  <2>6. CASE OldPasswordRefused(p) \/ OldNoPasswordRead(p)
    BY <2>6 DEF OldPasswordRefused, OldNoPasswordRead, OldRefuse, OldAudit, Audited, Pass,
                Exit, Audit, Move
  <2>14. CASE OldReject(p) \/ OldUnread(p)
    BY <2>14 DEF OldReject, OldUnread, Fail, Exit, Move
  <2>7. CASE OldAdmit(p)
    BY <2>7 DEF OldAdmit, OldAudit, Audited, Audit, Move
  <2>8. CASE OldTarget(p)
    BY <2>8 DEF OldTarget, Fail, Pass, Exit, Move
  <2>9. CASE OldExec(p) \/ OldCommandEnds(p)
    BY <2>9 DEF OldExec, OldCommandEnds, Fail, Pass, Exit, Move
  <2>10. CASE EvaluateStart(p)
    BY <2>10 DEF EvaluateStart, Fail, Pass, Exit, Move
  <2>11. CASE EvaluateDeny(p) \/ EvaluateNoTicket(p)
    BY <2>11 DEF EvaluateDeny, EvaluateNoTicket, Fail, Exit, Move
  <2>12. CASE EvaluateTicket(p)
    BY <2>12 DEF EvaluateTicket, Move
  <2> QED BY <1>1, <2>1, <2>2, <2>3, <2>4, <2>5, <2>6, <2>7, <2>8, <2>9, <2>10, <2>11, <2>12,
          <2>13, <2>14 DEF OldFlow, EvaluateStep
<1>2. CASE UNCHANGED shVars
  BY <1>2 DEF shVars
<1> QED BY <1>1, <1>2, SettledStep, AttendedStep, UpSplit

LEMMA OldSettledStep ==
    ASSUME UpIInv, [UpNext]_upVars, NEW q \in Proc
    PROVE  OldSettled(q)'
<1>0. /\ ShTypeOK /\ binary \in [Proc -> Binary]
      /\ \A p \in Proc : OldSettled(p) /\ Settled(p) /\ Attended(p)
  BY DEF UpIInv, FlowInv
<1> USE <1>0, RequestTyped DEF ShTypeOK, OldSettled, Settled, Allowed, OldAfterVerdict, OldAfterAuth,
        OldAdmitted, AfterAdmit, AfterTarget, AfterAuth, AfterCaps, AfterVerdict, AfterPolicy,
        LibPc, LibMode
<1>1. ASSUME NEW p \in Proc, UNCHANGED binary,
             \/ StartInvalidate(p) \/ OldStartInvalidate(p)
             \/ CheckTicket(p) \/ OldCheckTicket(p)
             \/ Inform(p) \/ LookupFails(p) \/ Deny(p)
      PROVE  OldSettled(q)'
  <2>1. ASSUME NEW k, StartInvalidateAt(p, k) \/ CheckTicketAt(p, k) PROVE OldSettled(q)'
    BY <1>1, <2>1 DEF StartInvalidateAt, CheckTicketAt, Move
  <2>2. CASE Inform(p) \/ LookupFails(p) \/ Deny(p)
    BY <1>1, <2>2 DEF Inform, LookupFails, Deny, Refuse, Fail, Exit, Move
  <2> QED BY <1>1, <2>1, <2>2 DEF StartInvalidate, OldStartInvalidate, CheckTicket, OldCheckTicket
<1>2. ASSUME NEW p \in Proc, ShStep(p), binary[p] = "port", UNCHANGED binary
      PROVE  OldSettled(q)'
  <2>1. CASE FinishInvalidate(p)
    BY <1>2, <2>1 DEF FinishInvalidate, Exit, Move
  <2>2. CASE LoadPolicy(p) \/ NoPassword(p)
    BY <1>2, <2>2 DEF LoadPolicy, NoPassword, Pass, Move
  <2>3. CASE TicketAnswer(p) \/ TicketRefreshed(p) \/ RefreshTicket(p)
    BY <1>2, <2>3 DEF TicketAnswer, TicketRefreshed, RefreshTicket, Move
  <2>4. CASE UnknownCapability(p) \/ KnownCapabilities(p)
    BY <1>2, <2>4 DEF UnknownCapability, KnownCapabilities, Refuse, Pass, Exit, Move
  <2>5. CASE PasswordAccepted(p) \/ PasswordRefused(p)
    BY <1>2, <2>5 DEF PasswordAccepted, PasswordRefused, Refuse, Exit, Move
  <2>6. CASE UnknownTarget(p) \/ KnownTarget(p)
    BY <1>2, <2>6 DEF UnknownTarget, KnownTarget, Fail, Pass, Exit, Move
  <2>7. CASE SessionLog(p) \/ InputLog(p)
    BY <1>2, <2>7 DEF SessionLog, InputLog, OpenLog, NoLog, Refuse, Exit, Move
  <2>8. CASE AdmitCommand(p) \/ ExecDirect(p) \/ AllocPty(p)
    BY <1>2, <2>8 DEF AdmitCommand, ExecDirect, AllocPty, Fail, Pass, Exit, Move
  <2>9. CASE Fork(p) \/ RelayEnds(p) \/ Reap(p)
    BY <1>2, <2>9 DEF Fork, RelayEnds, Reap, Fail, Pass, Exit, Move
  <2>10. CASE ChildSetup(p)
    BY <1>2, <2>10 DEF ChildSetup, ChildBecomes
  <2> QED BY <1>1, <1>2, <2>1, <2>2, <2>3, <2>4, <2>5, <2>6, <2>7, <2>8, <2>9, <2>10 DEF ShStep
<1>3. ASSUME NEW p \in Proc, OldStep(p), binary[p] = "original", UNCHANGED binary
      PROVE  OldSettled(q)'
  <2>1. CASE OldFinishInvalidate(p)
    BY <1>3, <2>1 DEF OldFinishInvalidate, Exit, Move
  <2>2. CASE OldLoadPolicy(p) \/ OldNoPassword(p)
    BY <1>3, <2>2 DEF OldLoadPolicy, OldNoPassword, Pass, Move
  <2>3. CASE OldTicketAnswer(p)
    BY <1>3, <2>3 DEF OldTicketAnswer, Move
  <2>4. CASE OldTicketRefreshed(p) \/ OldRefreshTicket(p)
    BY <1>3, <2>4 DEF OldTicketRefreshed, OldRefreshTicket, Move
  <2>5. CASE OldPasswordAccepted(p)
    BY <1>3, <2>5 DEF OldPasswordAccepted, Move
  <2>6. CASE OldPasswordRefused(p) \/ OldNoPasswordRead(p)
    BY <1>3, <2>6 DEF OldPasswordRefused, OldNoPasswordRead, OldRefuse, OldAudit, Audited,
                Audit, Pass, Exit, Move
  <2>8. CASE OldReject(p) \/ OldUnread(p)
    BY <1>3, <2>8 DEF OldReject, OldUnread, Fail, Exit, Move
  <2>7. CASE OldAdmit(p) \/ OldTarget(p) \/ OldExec(p)
    BY <1>3, <2>7 DEF OldAdmit, OldAudit, Audited, Audit, OldTarget, OldExec, Fail, Pass, Exit, Move
  <2> QED BY <1>1, <1>3, <2>1, <2>2, <2>3, <2>4, <2>5, <2>6, <2>7, <2>8, OldRecords
          DEF OldStep
<1>4. ASSUME NEW p \in Proc, EvaluateStep(p), UNCHANGED binary PROVE OldSettled(q)'
  <2>1. CASE EvaluateStart(p)
    BY <1>4, <2>1 DEF EvaluateStart, Fail, Pass, Exit, Move
  <2>2. CASE EvaluateDeny(p) \/ EvaluateNoTicket(p)
    BY <1>4, <2>2 DEF EvaluateDeny, EvaluateNoTicket, EffectiveRequireAuth, Fail, Exit, Move
  <2>3. CASE EvaluateTicket(p)
    BY <1>4, <2>3 DEF EvaluateTicket, Move
  <2>4. CASE EvaluateAnswer(p)
    BY <1>4, <2>4 DEF EvaluateAnswer, Evaluation, TimestampOnlyFails, EffectiveRequireAuth,
                Exit, Move
  <2> QED BY <1>4, <2>1, <2>2, <2>3, <2>4 DEF EvaluateStep
<1>5. ASSUME NEW p \in Proc, NEW r \in Requests, UpBegin(p, r) PROVE OldSettled(q)'
  BY <1>5 DEF UpBegin, Begin, Move
<1>6. ASSUME NEW p \in Proc, UpEnds(p), UNCHANGED binary PROVE OldSettled(q)'
  <2>1. CASE RelayGivesUp(p) \/ CommandEnds(p) \/ Buried(p) \/ OldCommandEnds(p)
    BY <1>6, <2>1 DEF RelayGivesUp, CommandEnds, Buried, OldCommandEnds, Fail, Pass, Exit, Move
  <2>2. CASE ChildEnds(p)
    BY <1>6, <2>2 DEF ChildEnds, ChildBecomes
  <2>3. CASE ShKill(p)
    BY <1>6, <2>3 DEF ShKill, Attended
  <2> QED BY <1>6, <2>1, <2>2, <2>3 DEF UpEnds, UpKill
<1>7. CASE UNCHANGED <<shVars, binary>>
  BY <1>7 DEF shVars
<1>8. CASE ShReboot /\ UNCHANGED binary
  BY <1>8 DEF ShReboot, Quiet
<1> QED
  BY <1>2, <1>3, <1>4, <1>5, <1>6, <1>7, <1>8
     DEF UpNext, UpStep, UpLibrary, Clock, upVars, vars

(* A step of one invocation leaves the others alone.                       *)
SameFlow(q) ==
    /\ pc'[q] = pc[q] /\ req'[q] = req[q] /\ how'[q] = how[q] /\ child'[q] = child[q]
    /\ rc'[q] = rc[q] /\ trail'[q] = trail[q]

LEMMA OthersStay ==
    ASSUME ShTypeOK, NEW p \in Proc, NEW q \in Proc \ {p},
           \/ ShStep(p) \/ OldFlow(p) \/ EndsOf(p)
           \/ \E r \in Requests : Begin(p, r)
    PROVE  SameFlow(q)
<1> USE DEF ShTypeOK, SameFlow
<1>1. CASE ShStep(p)
  <2> USE DEF Exit, Audit, Move, Refuse, Fail, Pass
  <2>1. CASE \/ Inform(p) \/ LookupFails(p) \/ StartInvalidate(p) \/ FinishInvalidate(p)
             \/ LoadPolicy(p)
    BY <2>1 DEF Inform, LookupFails, StartInvalidate, StartInvalidateAt, FinishInvalidate,
                LoadPolicy
  <2>2. CASE Deny(p) \/ CheckTicket(p) \/ NoPassword(p) \/ TicketAnswer(p)
    BY <2>2 DEF Deny, CheckTicket, CheckTicketAt, NoPassword, TicketAnswer
  <2>3. CASE UnknownCapability(p) \/ KnownCapabilities(p) \/ PasswordAccepted(p)
             \/ PasswordRefused(p)
    BY <2>3 DEF UnknownCapability, KnownCapabilities, PasswordAccepted, PasswordRefused
  <2>4. CASE RefreshTicket(p) \/ TicketRefreshed(p) \/ UnknownTarget(p) \/ KnownTarget(p)
    BY <2>4 DEF RefreshTicket, TicketRefreshed, UnknownTarget, KnownTarget
  <2>5. CASE SessionLog(p) \/ InputLog(p)
    BY <2>5 DEF SessionLog, InputLog, OpenLog, NoLog
  <2>6. CASE AdmitCommand(p) \/ ExecDirect(p) \/ AllocPty(p)
    BY <2>6 DEF AdmitCommand, ExecDirect, AllocPty
  <2>7. CASE Fork(p) \/ RelayEnds(p) \/ Reap(p) \/ ChildSetup(p)
    BY <2>7 DEF Fork, RelayEnds, Reap, ChildSetup, ChildBecomes
  <2> QED BY <1>1, <2>1, <2>2, <2>3, <2>4, <2>5, <2>6, <2>7 DEF ShStep
<1>2. CASE OldFlow(p)
  <2> USE DEF Exit, Audit, Move, Refuse, Fail, Pass
  <2>1. CASE OldFinishInvalidate(p) \/ OldLoadPolicy(p) \/ OldNoPassword(p) \/ OldTicketAnswer(p)
    BY <2>1 DEF OldFinishInvalidate, OldLoadPolicy, OldNoPassword, OldTicketAnswer
  <2>2. CASE OldPasswordAccepted(p) \/ OldPasswordRefused(p) \/ OldNoPasswordRead(p)
    BY <2>2 DEF OldPasswordAccepted, OldPasswordRefused, OldNoPasswordRead, OldRefuse, OldAudit
  <2>6. CASE OldStartInvalidate(p) \/ OldReject(p) \/ OldCheckTicket(p) \/ OldUnread(p)
    BY <2>6 DEF OldStartInvalidate, StartInvalidateAt, OldReject, OldCheckTicket, CheckTicketAt,
                OldUnread
  <2>3. CASE OldRefreshTicket(p) \/ OldTicketRefreshed(p) \/ OldAdmit(p)
    BY <2>3 DEF OldRefreshTicket, OldTicketRefreshed, OldAdmit, OldAudit
  <2>4. CASE OldTarget(p) \/ OldExec(p) \/ OldCommandEnds(p)
    BY <2>4 DEF OldTarget, OldExec, OldCommandEnds
  <2>5. CASE EvaluateStep(p)
    BY <2>5 DEF EvaluateStep, EvaluateStart, EvaluateDeny, EvaluateNoTicket, EvaluateTicket,
                EvaluateAnswer
  <2> QED BY <1>2, <2>1, <2>2, <2>3, <2>4, <2>5, <2>6 DEF OldFlow
<1>3. CASE EndsOf(p)
  BY <1>3 DEF EndsOf, RelayGivesUp, CommandEnds, ChildEnds, ShKill, Buried, ChildBecomes, Exit,
              Move, Fail, Pass
<1>4. CASE \E r \in Requests : Begin(p, r)
  BY <1>4 DEF Begin, Move
<1> QED BY <1>1, <1>2, <1>3, <1>4

(* The steps that do not end an invocation.                                *)
GoesOn(p) ==
    \/ StartInvalidate(p) \/ LoadPolicy(p) \/ CheckTicket(p) \/ NoPassword(p)
    \/ TicketAnswer(p) \/ KnownCapabilities(p) \/ PasswordAccepted(p) \/ RefreshTicket(p)
    \/ TicketRefreshed(p) \/ KnownTarget(p) \/ AdmitCommand(p)
    \/ RelayEnds(p) \/ RelayGivesUp(p)
    \/ OldStartInvalidate(p) \/ OldLoadPolicy(p) \/ OldCheckTicket(p) \/ OldNoPassword(p)
    \/ OldTicketAnswer(p) \/ OldPasswordAccepted(p) \/ OldNoPasswordRead(p)
    \/ OldRefreshTicket(p) \/ OldTicketRefreshed(p) \/ OldAdmit(p) \/ EvaluateTicket(p)
    \/ \E r \in Requests : Begin(p, r)

LEMMA GoesOnStep ==
    ASSUME ShTypeOK, NEW p \in Proc, GoesOn(p)
    PROVE  ~Concludes(p)
BY DEF ShTypeOK, GoesOn, Concludes, StartInvalidate, StartInvalidateAt, LoadPolicy, CheckTicket,
       CheckTicketAt, NoPassword, TicketAnswer, KnownCapabilities, PasswordAccepted,
       RefreshTicket, TicketRefreshed, KnownTarget, AdmitCommand, RelayEnds, RelayGivesUp,
       OldStartInvalidate, OldLoadPolicy, OldCheckTicket, OldNoPassword, OldTicketAnswer,
       OldPasswordAccepted, OldNoPasswordRead, OldRefreshTicket, OldTicketRefreshed, OldAdmit,
       EvaluateTicket, Begin, Pass, Move

(* The exit of an invocation that was to run a command follows a verdict   *)
(* in its trail or is one of the silent ones.                              *)
VerdictLeft(p) == trail'[p] \cap (Refusal \cup {"ALLOWED"}) # {}

LEMMA ConcludesSelf ==
    ASSUME UpIInv, NEW p \in Proc, UNCHANGED binary, Concludes(p),
           \/ binary[p] = "port" /\ ShStep(p)
           \/ binary[p] = "original" /\ OldStep(p)
           \/ EvaluateStep(p)
           \/ UpEnds(p)
    PROVE  VerdictLeft(p) \/ SilentExit(p)
<1>0. /\ ShTypeOK /\ OldSettled(p) /\ Settled(p) /\ Attended(p)
      /\ req[p].mode = "run" /\ pc'[p] = "over" /\ rc'[p] \in {"0", "1", "127"}
  BY DEF UpIInv, FlowInv, Concludes
<1> USE <1>0, RequestTyped DEF ShTypeOK
<1>1. ~GoesOn(p)
  BY GoesOnStep
<1>2. ASSUME NEW from, NEW record \in Refusal, Refuse(p, from, record) PROVE VerdictLeft(p)
  BY <1>2 DEF Refuse, Audit, VerdictLeft
<1>3. CASE \/ Deny(p) \/ UnknownCapability(p) \/ PasswordRefused(p)
           \/ SessionLog(p) \/ InputLog(p) \/ OldPasswordRefused(p)
  <2>1. ~OpenLog(p, "log", "log", IF req[p].input THEN "inputlog" ELSE "admit")
        /\ ~OpenLog(p, "inputlog", "input", "admit")
    BY DEF OpenLog, Move
  <2> QED BY <1>2, <1>3, <2>1, OldRecords
          DEF Deny, UnknownCapability, PasswordRefused, SessionLog, InputLog, NoLog, Refusal
<1>4. CASE \/ ExecDirect(p) \/ AllocPty(p) \/ Fork(p) \/ Reap(p) \/ CommandEnds(p)
           \/ OldTarget(p) \/ OldExec(p) \/ OldCommandEnds(p)
  <2>1. pc[p] \in AfterAdmit \cup OldAdmitted /\ UNCHANGED trail
    BY <1>4 DEF ExecDirect, AllocPty, Fork, Reap, CommandEnds, OldTarget, OldExec,
                OldCommandEnds, Fail, Pass, Exit, Move, AfterAdmit, OldAdmitted
  <2>2. "ALLOWED" \in trail[p]
    BY <2>1 DEF Settled, AfterAdmit, OldAdmitted
  <2> QED BY <2>1, <2>2 DEF VerdictLeft
<1>5. ~ChildSetup(p) /\ ~ChildEnds(p)
  BY DEF ChildSetup, ChildEnds, ChildBecomes, Concludes
<1>6. ~Buried(p) /\ ~ShKill(p)
  BY DEF Buried, ShKill, Pass, Move, OldSettled
<1>7. ~Inform(p) /\ ~EvaluateStep(p)
  BY DEF Inform, EvaluateStep, EvaluateStart, EvaluateDeny, EvaluateNoTicket, EvaluateTicket,
         EvaluateAnswer, Fail, Pass, Exit, Move, OldSettled, LibPc, LibMode
<1>8. ~FinishInvalidate(p) /\ ~OldFinishInvalidate(p)
  BY DEF FinishInvalidate, OldFinishInvalidate, Exit, Move, OldSettled
<1>9. LookupFails(p) \/ UnknownTarget(p) \/ OldUnread(p) => SilentExit(p)
  BY DEF LookupFails, UnknownTarget, OldUnread, Fail, Exit, Move, SilentExit
<1>10. binary[p] = "original" /\ OldReject(p) => SilentExit(p)
  BY DEF OldReject, Fail, Exit, Move, SilentExit
<1>11. ShStep(p) => VerdictLeft(p) \/ SilentExit(p)
  BY <1>1, <1>3, <1>4, <1>5, <1>7, <1>8, <1>9 DEF ShStep, GoesOn
<1>12. binary[p] = "original" /\ OldStep(p) => VerdictLeft(p) \/ SilentExit(p)
  BY <1>1, <1>3, <1>4, <1>7, <1>8, <1>9, <1>10, OldRecords DEF OldStep, GoesOn
<1>13. UpEnds(p) => VerdictLeft(p) \/ SilentExit(p)
  BY <1>1, <1>4, <1>5, <1>6 DEF UpEnds, UpKill, GoesOn
<1> QED BY <1>7, <1>11, <1>12, <1>13

LEMMA ConcludesStep ==
    ASSUME UpIInv, [UpNext]_upVars, NEW q \in Proc, Concludes(q)
    PROVE  VerdictLeft(q) \/ SilentExit(q)
<1>0. ShTypeOK
  BY DEF UpIInv, FlowInv
<1>1. ~SameFlow(q)
  BY DEF SameFlow, Concludes
<1>2. ASSUME NEW p \in Proc, UpStep(p) \/ (UpEnds(p) /\ UNCHANGED binary)
      PROVE  VerdictLeft(q) \/ SilentExit(q)
  <2>1. ShStep(p) \/ OldFlow(p) \/ EndsOf(p)
    BY <1>2, OldRecords DEF UpStep, OldStep, OldFlow, ShStep, UpEnds, UpKill, EndsOf
  <2>2. p = q
    BY <1>0, <1>1, <2>1, OthersStay
  <2> QED BY <1>2, <2>2, ConcludesSelf DEF UpStep
<1>3. ASSUME NEW p \in Proc, NEW r \in Requests, UpBegin(p, r)
      PROVE  VerdictLeft(q) \/ SilentExit(q)
  <2>1. Begin(p, r) /\ p = q
    BY <1>0, <1>1, <1>3, OthersStay DEF UpBegin
  <2> QED BY <1>0, <2>1, GoesOnStep DEF GoesOn
<1>4. CASE UNCHANGED shVars
  BY <1>1, <1>4 DEF shVars, SameFlow
<1>5. CASE ShReboot
  BY <1>5 DEF ShReboot, Quiet, Concludes
<1> QED
  BY <1>2, <1>3, <1>4, <1>5 DEF UpNext, UpLibrary, Clock, upVars, vars

(* After a reboot nothing is left of a directory at a ticket's path, nor   *)
(* of a password accepted before.                                          *)
LEMMA UpRebootBacked ==
    ASSUME ShReboot, ShTypeOK', binary' \in [Proc -> Binary]
    PROVE  MixedIInv' /\ TicketsProved'
<1>1. MixedIInv'
  BY RebootBacked DEF ShTypeOK, ShReboot, MixedIInv
<1>2. TicketsProved'
  BY DEF ShReboot, Reboot, NoCalls, Quiet, TicketsProved
<1> QED BY <1>1, <1>2

LEMMA UpIInvStep ==
    ASSUME UpIInv, [UpNext]_upVars
    PROVE  UpIInv'
<1>1. UpTyped /\ FlowInv
  BY DEF UpIInv, UpTyped, FlowInv
<1>2. UpTyped'
  BY <1>1, UpTypedStep
<1>3. FlowInv'
  BY <1>1, <1>2, UpSettledStep DEF UpTyped, FlowInv
<1>4. \A q \in Proc : OldSettled(q)'
  BY OldSettledStep
<1>6. TicketDirSafe'
  BY <1>1, UpClientStep, DirSafeStep DEF UpTyped, ShTypeOK, UpIInv
<1>5. ASSUME NoDirs' PROVE MixedIInv' /\ TicketsProved'
  <2>1. CASE ShReboot
    BY <1>2, <2>1, UpRebootBacked DEF UpTyped
  <2>2. CASE NoDirs
    <3>1. ShIInv /\ MixedIInv /\ CheckSound
      BY <2>2 DEF UpIInv, ShIInv, MixedIInv
    <3> QED BY <1>1, <3>1, UpClientStep, MixedIInvStep, UpTicketsProvedStep DEF UpTyped
  <2> QED BY <1>1, <1>5, <2>1, <2>2, UpDirsStay
<1> QED BY <1>2, <1>3, <1>4, <1>5, <1>6 DEF UpTyped, UpIInv

(* What is settled at each step of either program, where tickets are       *)
(* written, and, as long as no directory stands for a ticket, that         *)
(* whatever stands for a password was earned with one.                     *)
THEOREM UpInductive == UpSpec => []UpIInv
<1>1. UpInit => UpIInv
  <2> SUFFICES ASSUME UpInit PROVE UpIInv
    OBVIOUS
  <2>1. ShIInv /\ MixedIInv
    BY ShIInvInit, MixedIInvInit DEF UpInit, ShInit
  <2>2. ASSUME NEW p \in Proc PROVE OldSettled(p)
    BY DEF UpInit, ShInit, Quiet, OldSettled, OldAfterVerdict, OldAfterAuth, OldAdmitted,
           AfterAdmit, AfterTarget, AfterAuth, AfterCaps, LibPc
  <2>3. TicketDirSafe
    BY DEF UpInit, ShInit, TsInit, NoCalls, TicketDirSafe
  <2> QED BY <2>1, <2>2, <2>3 DEF UpInit, UpIInv, ShIInv
<1> QED BY <1>1, UpIInvStep, PTL DEF UpSpec

(* A command runs only when policy, password and record justify it,        *)
(* whichever programs are installed while it gets there.                   *)
THEOREM UpExecIsJustified == UpSpec => []UpExecJustified
<1>1. UpIInv => UpExecJustified
  <2> SUFFICES ASSUME UpIInv, NEW p \in Proc, UpRunning(p)
               PROVE  /\ req[p].mode = "run" /\ Allowed(p) /\ req[p].target # "missing"
                      /\ binary[p] = "port" => req[p].named
                      /\ req[p].auth =>
                            how[p] # "none" /\ (NoDirs => Seat(req[p].session) \in proved)
                      /\ "ALLOWED" \in trail[p] /\ trail[p] \cap Refusal = {}
    BY DEF UpExecJustified
  <2>1. /\ Settled(p) /\ Attended(p) /\ OldSettled(p)
        /\ NoDirs /\ how[p] # "none" => Seat(req[p].session) \in proved
    BY DEF UpIInv, FlowInv, TicketsProved
  <2>2. CASE pc[p] = "oldrunning"
    BY <2>1, <2>2 DEF Settled, OldSettled, OldAfterVerdict, OldAfterAuth, OldAdmitted
  <2>3. CASE Running(p)
    <3>1. pc[p] \in AfterAdmit
      BY <2>1, <2>3 DEF Attended, Running, ChildAlive, AfterAdmit
    <3> QED BY <2>1, <3>1 DEF Settled, AfterAdmit, OldAdmitted, AfterTarget, AfterAuth,
                              AfterCaps, AfterVerdict, AfterPolicy
  <2> QED BY <2>2, <2>3 DEF UpRunning
<1> QED BY <1>1, UpInductive, PTL

(* An evaluate() that comes back authorized stands for a permission, a     *)
(* ticket it reports for one earned at that seat, and only the port's      *)
(* error tells a caller that no ticket was found.                          *)
THEOREM EvaluationIsBacked == UpSpec => []EvaluationBacked
<1>1. UpIInv => EvaluationBacked
  <2> SUFFICES ASSUME UpIInv, NEW p \in Proc,
                      pc[p] = "over", req[p].mode \in LibMode, rc[p] \in {"0", "expired"}
               PROVE  /\ Allowed(p)
                      /\ req[p].mode = "cached" /\ req[p].auth =>
                            rc[p] = "0" <=> how[p] = "ticket"
                      /\ rc[p] = "expired" =>
                            binary[p] = "port" /\ req[p].mode = "cached" /\ req[p].auth
                      /\ NoDirs /\ how[p] = "ticket" => Seat(req[p].session) \in proved
    BY DEF EvaluationBacked
  <2>1. /\ OldSettled(p)
        /\ NoDirs /\ how[p] # "none" => Seat(req[p].session) \in proved
    BY DEF UpIInv, TicketsProved
  <2> QED BY <2>1 DEF OldSettled
<1> QED BY <1>1, UpInductive, PTL

(* Every invocation that was to run a command and ends by itself has left  *)
(* its verdict in the record, but for the silent exits by name.            *)
THEOREM AttemptIsRecorded == UpSpec => UpAttemptRecorded
<1>1. UpIInv /\ [UpNext]_upVars =>
         [\A p \in Proc : Concludes(p) => VerdictLeft(p) \/ SilentExit(p)]_upVars
  BY ConcludesStep
<1>2. (\A p \in Proc : Concludes(p) => VerdictLeft(p) \/ SilentExit(p))
        => \A p \in Proc :
              Concludes(p) => trail'[p] \cap (Refusal \cup {"ALLOWED"}) # {} \/ SilentExit(p)
  BY DEF VerdictLeft
<1> QED BY <1>1, <1>2, UpInductive, PTL DEF UpSpec, UpAttemptRecorded

(* The port keeps a command that must not share the caller's terminal off  *)
(* it also among invocations of the original and calls of evaluate().      *)
THEOREM UpTerminalIsOwn == UpSpec => []OwnTerminal
<1>1. UpIInv => OwnTerminal
  BY TerminalOwned DEF UpIInv
<1> QED BY <1>1, UpInductive, PTL

------------------------------------------------------------------------------
(* Both programs implement Escalation: a step of one invocation ends its   *)
(* job, leaves it as it is, or is the step of the promise it stands for.   *)
UpJobOf(p) ==
    IF UpUnasked(p) THEN [stage |-> "idle"]
    ELSE [stage |-> UpStageBar(p), request |-> <<req[p], binary[p]>>]

JobIs(p, stage) ==
    ~UpUnasked(p) /\ UpJobOf(p) = [stage |-> stage, request |-> <<req[p], binary[p]>>]

JobEnds(p) == UpUnasked(p)' /\ UNCHANGED proved
JobStays(p) == UpJobOf(p)' = UpJobOf(p) /\ UNCHANGED proved
JobAsked(p) ==
    /\ UpUnasked(p) /\ JobIs(p, "asking")'
    /\ req'[p].mode = "run" /\ UNCHANGED proved
JobProven(p) ==
    /\ JobIs(p, "asking") /\ UpJobOf(p)' = UpJobOf(p)
    /\ proved' = proved \cup {Seat(req[p].session)}
JobAdmitted(p) ==
    /\ JobIs(p, "asking") /\ JobIs(p, "admitted")' /\ UNCHANGED <<req, binary, proved>>
    /\ UpMayRun(<<req[p], binary[p]>>)
    /\ req[p].auth => Seat(req[p].session) \in proved
JobRuns(p) ==
    JobIs(p, "admitted") /\ JobIs(p, "running")' /\ UNCHANGED <<req, binary, proved>>

JobStep(p) ==
    JobEnds(p) \/ JobStays(p) \/ JobAsked(p) \/ JobProven(p) \/ JobAdmitted(p) \/ JobRuns(p)

(* Before it is admitted, and from then until it runs its command.         *)
Places == {"evaluate", "checking", "caps", "prompt", "ticket", "refreshing", "target", "log",
           "inputlog", "admit", "oldprompt", "oldunread", "oldticket", "oldrefreshing", "oldadmit"}
AdmittedPlaces == {"pty", "fork", "exec", "oldtarget", "oldexec"}

LEMMA PlacesOfJob ==
    ASSUME UpIInv, NoDirs, NEW p \in Proc
    PROVE  /\ pc[p] \in Places /\ req[p].mode = "run" => JobIs(p, "asking")
           /\ pc[p] \in AdmittedPlaces => JobIs(p, "admitted") /\ req[p].mode = "run"
           /\ pc[p] \in Places \cup AdmittedPlaces => child[p] = "none"
<1>1. ShTypeOK /\ Settled(p) /\ Attended(p) /\ OldSettled(p)
  BY DEF UpIInv, FlowInv
<1>2. ASSUME pc[p] \in Places \cup AdmittedPlaces
      PROVE  /\ child[p] = "none" /\ ~UpRunning(p) /\ "over" # pc[p] /\ "start" # pc[p]
             /\ "ALLOWED" \in trail[p] <=> pc[p] \in AdmittedPlaces
  BY <1>1, <1>2 DEF ShTypeOK, Places, AdmittedPlaces, Settled, Attended, ChildAlive, UpRunning,
                    Running, AfterAdmit, OldAdmitted
<1>3. pc[p] \in AdmittedPlaces => req[p].mode = "run"
  BY <1>1 DEF AdmittedPlaces, Settled, OldSettled, AfterAdmit, AfterTarget, AfterAuth, AfterCaps,
              AfterVerdict, AfterPolicy, OldAdmitted, OldAfterAuth, OldAfterVerdict
<1>4. AdmittedPlaces \cap Places = {}
  BY DEF AdmittedPlaces, Places
<1> QED BY <1>2, <1>3, <1>4 DEF JobIs, UpJobOf, UpUnasked, Unasked, UpStageBar, ChildGone

(* The places a process passes through without a word to anybody.          *)
LEMMA JobPasses ==
    ASSUME UpIInv, NoDirs, NoDirs', NEW p \in Proc, UNCHANGED binary,
           pc[p] \in Places, pc'[p] \in Places, req[p].mode = "run",
           req'[p] = req[p], child'[p] = child[p], trail'[p] = trail[p]
    PROVE  JobIs(p, "asking") /\ UpJobOf(p)' = UpJobOf(p)
<1>1. JobIs(p, "asking") /\ child[p] = "none"
  BY PlacesOfJob
<1> QED BY <1>1 DEF JobIs, UpJobOf, UpUnasked, Unasked, UpStageBar, UpRunning, Running, ChildGone,
                    Places

LEMMA JobPassesStep ==
    ASSUME UpIInv, NoDirs, NoDirs', NEW p \in Proc, UNCHANGED binary,
           \/ NoPassword(p) \/ CheckTicket(p) \/ TicketAnswer(p) \/ KnownCapabilities(p)
           \/ OldCheckTicket(p) \/ OldNoPasswordRead(p)
           \/ RefreshTicket(p) \/ TicketRefreshed(p) \/ KnownTarget(p)
           \/ OpenLog(p, "log", "log", IF req[p].input THEN "inputlog" ELSE "admit")
           \/ OpenLog(p, "inputlog", "input", "admit")
           \/ OldNoPassword(p) \/ OldTicketAnswer(p) \/ OldRefreshTicket(p)
           \/ OldTicketRefreshed(p)
    PROVE  JobStays(p)
<1>1. ShTypeOK /\ Settled(p) /\ OldSettled(p)
  BY DEF UpIInv, FlowInv
<1>2. /\ pc[p] \in Places \ {"oldadmit"} /\ pc'[p] \in Places
      /\ req'[p] = req[p] /\ child'[p] = child[p] /\ trail'[p] = trail[p] /\ UNCHANGED proved
  BY <1>1 DEF ShTypeOK, Places, NoPassword, CheckTicket, CheckTicketAt, OldCheckTicket,
              OldNoPasswordRead, TicketAnswer, KnownCapabilities,
              RefreshTicket, TicketRefreshed, KnownTarget, OpenLog, OldNoPassword,
              OldTicketAnswer, OldRefreshTicket, OldTicketRefreshed, Pass, Move
<1>3. req[p].mode = "run"
  BY <1>1, <1>2 DEF Places, Settled, OldSettled, AfterAdmit, AfterTarget, AfterAuth, AfterCaps,
                    AfterVerdict, AfterPolicy, OldAfterAuth, OldAfterVerdict, OldAdmitted
<1> QED BY <1>2, <1>3, JobPasses DEF JobStays

LEMMA JobAskedStep ==
    ASSUME UpIInv, NoDirs, NoDirs', NEW p \in Proc, UNCHANGED binary,
           LoadPolicy(p) \/ OldLoadPolicy(p)
    PROVE  JobAsked(p)
<1>1. ShTypeOK /\ Settled(p) /\ Attended(p)
  BY DEF UpIInv, FlowInv
<1>2. /\ pc[p] = "start" /\ pc'[p] = "evaluate" /\ req'[p] = req[p] /\ req[p].mode = "run"
      /\ child'[p] = child[p] /\ trail'[p] \in {trail[p], trail[p] \cup {"NSS_BACKEND"}}
      /\ UNCHANGED proved
  BY <1>1 DEF ShTypeOK, LoadPolicy, OldLoadPolicy, Audit, Pass, Move
<1>3. child[p] = "none" /\ "ALLOWED" \notin trail'[p]
  BY <1>1, <1>2 DEF Attended, Settled, AfterAdmit, OldAdmitted
<1> QED BY <1>2, <1>3 DEF JobAsked, JobIs, UpJobOf, UpUnasked, Unasked, UpStageBar, UpRunning,
                          Running, ChildGone

LEMMA JobProvenStep ==
    ASSUME UpIInv, NoDirs, NoDirs', NEW p \in Proc, UNCHANGED binary,
           PasswordAccepted(p) \/ OldPasswordAccepted(p)
    PROVE  JobProven(p)
<1>1. ShTypeOK /\ Settled(p) /\ OldSettled(p)
  BY DEF UpIInv, FlowInv
<1>2. /\ pc[p] \in {"prompt", "oldprompt"} /\ pc'[p] \in {"ticket", "oldticket"}
      /\ req'[p] = req[p] /\ child'[p] = child[p] /\ trail'[p] = trail[p]
      /\ proved' = proved \cup {Seat(req[p].session)}
  BY <1>1 DEF ShTypeOK, PasswordAccepted, OldPasswordAccepted, Move
<1>3. req[p].mode = "run"
  BY <1>1, <1>2 DEF Settled, OldSettled, AfterCaps, AfterVerdict, AfterPolicy, OldAfterVerdict
<1> QED BY <1>2, <1>3, JobPasses DEF JobProven, Places

LEMMA JobAdmittedStep ==
    ASSUME UpIInv, NoDirs, NoDirs', NEW p \in Proc, UNCHANGED binary,
           \/ binary[p] = "port" /\ AdmitCommand(p)
           \/ binary[p] = "original" /\ OldAdmit(p)
    PROVE  JobAdmitted(p)
<1>1. /\ ShTypeOK /\ Settled(p) /\ OldSettled(p) /\ binary \in [Proc -> Binary]
      /\ how[p] # "none" => Seat(req[p].session) \in proved
  BY DEF UpIInv, FlowInv, TicketsProved
<1>2. /\ pc[p] = (IF binary[p] = "port" THEN "admit" ELSE "oldadmit")
      /\ pc'[p] \in AdmittedPlaces /\ UNCHANGED <<req, proved>>
  BY <1>1 DEF ShTypeOK, AdmittedPlaces, AdmitCommand, OldAdmit, Move
<1>3. /\ req[p].mode = "run" /\ req[p].verdict = "allowed"
      /\ req[p].auth => how[p] # "none"
      /\ binary[p] = "port" => req[p].named /\ req[p].target # "missing"
  BY <1>1, <1>2 DEF Settled, OldSettled, Allowed, AfterTarget, AfterAuth, AfterCaps,
                    AfterVerdict, AfterPolicy, OldAfterAuth, OldAfterVerdict
<1>4. JobIs(p, "asking")
  BY <1>2, <1>3, PlacesOfJob DEF Places
<1>5. JobIs(p, "admitted")'
  <2>1. child[p] = "none" /\ "ALLOWED" \in trail'[p] /\ UNCHANGED child
    BY <1>1, <1>2, PlacesOfJob DEF Places, AdmitCommand, OldAdmit, OldAudit, Audited, Audit, ShTypeOK
  <2> QED BY <1>2, <1>3, <2>1 DEF JobIs, UpJobOf, UpUnasked, Unasked, UpStageBar, UpRunning,
                                  Running, ChildGone, AdmittedPlaces
<1> QED BY <1>1, <1>2, <1>3, <1>4, <1>5 DEF JobAdmitted, UpMayRun, MayRun

LEMMA JobRunsStep ==
    ASSUME UpIInv, NoDirs, NoDirs', NEW p \in Proc, UNCHANGED binary,
           ExecDirect(p) \/ ChildSetup(p) \/ OldExec(p)
    PROVE  JobRuns(p) \/ JobEnds(p)
<1>1. ShTypeOK /\ Settled(p) /\ Attended(p) /\ OldSettled(p)
  BY DEF UpIInv, FlowInv
<1>2. CASE ExecDirect(p) \/ OldExec(p)
  <2>1. /\ pc[p] \in AdmittedPlaces /\ pc'[p] \in {"running", "oldrunning", "over"}
        /\ UNCHANGED <<req, child, proved>>
    BY <1>1, <1>2 DEF AdmittedPlaces, ExecDirect, OldExec, Pass, Fail, Exit, Move, ShTypeOK
  <2>2. JobIs(p, "admitted") /\ req[p].mode = "run" /\ child[p] = "none"
    BY <2>1, PlacesOfJob
  <2> QED BY <2>1, <2>2 DEF JobRuns, JobEnds, JobIs, UpJobOf, UpUnasked, Unasked, UpStageBar,
                            UpRunning, Running, ChildGone
<1>3. CASE ChildSetup(p)
  <2>1. /\ child[p] = "setup" /\ pc[p] \in {"relay", "wait", "dead"} /\ UNCHANGED <<pc, req, trail, proved>>
        /\ child'[p] \in {"running", "aborted"}
    BY <1>1, <1>3 DEF ChildSetup, ChildBecomes, Attended, ChildAlive, ShTypeOK
  <2>2. req[p].mode = "run" /\ "ALLOWED" \in trail[p]
    BY <1>1, <2>1 DEF Settled, AfterAdmit, AfterTarget, AfterAuth, AfterCaps, AfterVerdict,
                      AfterPolicy, OldAdmitted
  <2> QED BY <2>1, <2>2 DEF JobRuns, JobEnds, JobIs, UpJobOf, UpUnasked, Unasked, UpStageBar,
                            UpRunning, Running, ChildGone
<1> QED BY <1>2, <1>3

(* Admitted or running, a job stays what it is when its relay moves on or  *)
(* is killed.                                                              *)
LEMMA JobWaitsStep ==
    ASSUME UpIInv, NoDirs, NoDirs', NEW p \in Proc, UNCHANGED binary,
           \/ AllocPty(p) \/ OldTarget(p) \/ Fork(p) \/ RelayEnds(p) \/ RelayGivesUp(p)
           \/ UpKill(p)
    PROVE  JobStays(p) \/ JobEnds(p)
<1>1. ShTypeOK /\ Settled(p) /\ Attended(p) /\ OldSettled(p)
  BY DEF UpIInv, FlowInv
<1>2. CASE AllocPty(p) \/ OldTarget(p) \/ Fork(p)
  <2>1. /\ pc[p] \in AdmittedPlaces /\ pc'[p] \in AdmittedPlaces \cup {"relay", "over"}
        /\ child'[p] \in {child[p], "setup"} /\ UNCHANGED <<req, trail, proved>>
    BY <1>1, <1>2 DEF AdmittedPlaces, AllocPty, OldTarget, Fork, Pass, Fail, Exit, Move, ShTypeOK
  <2>2. JobIs(p, "admitted") /\ req[p].mode = "run" /\ child[p] = "none"
    BY <2>1, PlacesOfJob
  <2> QED BY <2>1, <2>2 DEF JobStays, JobEnds, JobIs, UpJobOf, UpUnasked, Unasked, UpStageBar,
                            UpRunning, Running, ChildGone, AdmittedPlaces
<1>3. CASE RelayEnds(p) \/ RelayGivesUp(p)
  <2>1. pc[p] = "relay" /\ pc'[p] = "wait" /\ UNCHANGED <<req, child, trail, proved>>
    BY <1>1, <1>3 DEF RelayEnds, RelayGivesUp, Pass, Move, ShTypeOK
  <2> QED BY <2>1 DEF JobStays, UpJobOf, UpUnasked, Unasked, UpStageBar, UpRunning, Running
<1>4. CASE UpKill(p)
  <2>1. /\ pc'[p] = (IF child[p] \in ChildAlive THEN "dead" ELSE "over")
        /\ UNCHANGED <<req, child, trail, proved>>
    BY <1>1, <1>4 DEF UpKill, ShKill, ShTypeOK
  <2>2. child[p] \in ChildAlive => pc[p] \in {"relay", "wait", "dead"}
    BY <1>1 DEF Attended
  <2> QED BY <2>1, <2>2 DEF JobStays, JobEnds, UpJobOf, UpUnasked, Unasked, UpStageBar, UpRunning,
                            Running, ChildAlive, ChildGone
<1> QED BY <1>2, <1>3, <1>4

LEMMA JobEndsStep ==
    ASSUME UpIInv, NEW p \in Proc,
           \/ Inform(p) \/ LookupFails(p) \/ StartInvalidate(p) \/ OldStartInvalidate(p)
           \/ FinishInvalidate(p) \/ OldReject(p) \/ Deny(p)
           \/ UnknownCapability(p) \/ PasswordRefused(p) \/ UnknownTarget(p)
           \/ NoLog(p, "log") \/ NoLog(p, "inputlog") \/ Reap(p) \/ CommandEnds(p)
           \/ ChildEnds(p) \/ Buried(p) \/ OldFinishInvalidate(p) \/ OldPasswordRefused(p)
           \/ OldUnread(p) \/ OldCommandEnds(p) \/ EvaluateStep(p)
    PROVE  JobEnds(p)
<1>1. ShTypeOK /\ OldSettled(p)
  BY DEF UpIInv, FlowInv
<1> USE <1>1 DEF ShTypeOK, JobEnds, UpUnasked, Unasked
<1>2. CASE Inform(p) \/ LookupFails(p) \/ StartInvalidate(p) \/ OldStartInvalidate(p)
  BY <1>2 DEF Inform, LookupFails, StartInvalidate, OldStartInvalidate, StartInvalidateAt, Fail,
              Exit, Move
<1>3. CASE EvaluateStep(p)
  <2>1. req[p].mode \in LibMode /\ UNCHANGED <<req, proved>>
    BY <1>3 DEF EvaluateStep, EvaluateStart, EvaluateDeny, EvaluateNoTicket, EvaluateTicket,
                EvaluateAnswer, Pass, Fail, Exit, Move, OldSettled, LibPc
  <2> QED BY <2>1 DEF LibMode
<1>4. CASE FinishInvalidate(p) \/ UnknownTarget(p) \/ Reap(p) \/ CommandEnds(p) \/ ChildEnds(p)
           \/ Buried(p) \/ OldFinishInvalidate(p) \/ OldReject(p) \/ OldUnread(p)
           \/ OldCommandEnds(p)
  BY <1>4 DEF FinishInvalidate, UnknownTarget, Reap, CommandEnds, ChildEnds, Buried, ChildBecomes,
              ChildGone, OldFinishInvalidate, OldReject, OldUnread, OldCommandEnds, Fail, Pass, Exit, Move
<1>5. CASE Deny(p) \/ UnknownCapability(p) \/ PasswordRefused(p) \/ NoLog(p, "log")
           \/ NoLog(p, "inputlog") \/ OldPasswordRefused(p)
  <2>1. ASSUME NEW from, NEW record, Refuse(p, from, record) PROVE JobEnds(p)
    BY <2>1 DEF Refuse, Exit, Move
  <2> QED BY <1>5, <2>1, OldRecords DEF Deny, UnknownCapability, PasswordRefused, NoLog
<1> QED BY <1>2, <1>3, <1>4, <1>5

LEMMA JobStepOf ==
    ASSUME UpIInv, NoDirs, NoDirs', NEW p \in Proc, UpStep(p) \/ (UpEnds(p) /\ UNCHANGED binary)
    PROVE  JobStep(p)
<1>1. SessionLog(p) \/ InputLog(p) => JobStays(p) \/ JobEnds(p)
  BY JobPassesStep, JobEndsStep DEF SessionLog, InputLog, UpStep
<1>2. ASSUME binary[p] = "port", ShStep(p), UNCHANGED binary PROVE JobStep(p)
  BY <1>1, <1>2, JobPassesStep, JobAskedStep, JobProvenStep, JobAdmittedStep, JobRunsStep,
     JobWaitsStep, JobEndsStep
     DEF ShStep, JobStep
<1>3. ASSUME binary[p] = "original", OldStep(p), UNCHANGED binary PROVE JobStep(p)
  BY <1>3, OldRecords, JobPassesStep, JobAskedStep, JobProvenStep, JobAdmittedStep, JobRunsStep,
     JobWaitsStep, JobEndsStep
     DEF OldStep, JobStep
<1>4. ASSUME EvaluateStep(p) PROVE JobStep(p)
  BY <1>4, JobEndsStep DEF JobStep
<1>5. ASSUME UpEnds(p), UNCHANGED binary PROVE JobStep(p)
  BY <1>5, JobWaitsStep, JobEndsStep DEF UpEnds, JobStep
<1> QED BY <1>2, <1>3, <1>4, <1>5 DEF UpStep

(* A step of one invocation leaves the jobs of the others alone.           *)
LEMMA UpOneJob ==
    ASSUME NEW p \in Proc, NoDirs, NoDirs',
           \A q \in Proc \ {p} : SameFlow(q) /\ binary'[q] = binary[q]
    PROVE  upJobBar' = [upJobBar EXCEPT ![p] = UpJobOf(p)']
<1>1. \A q \in Proc \ {p} : UpJobOf(q)' = UpJobOf(q)
  BY DEF SameFlow, UpJobOf, UpUnasked, Unasked, UpStageBar, UpRunning, Running
<1>2. upJobBar = [q \in Proc |-> UpJobOf(q)] /\ upJobBar' = [q \in Proc |-> UpJobOf(q)']
  BY DEF upJobBar, UpJobOf
<1> QED BY <1>1, <1>2

LEMMA UpProcStep ==
    ASSUME UpIInv, NoDirs, NoDirs', NEW p \in Proc,
           \/ UpStep(p) \/ (UpEnds(p) /\ UNCHANGED binary)
           \/ \E r \in Requests : UpBegin(p, r)
    PROVE  [UpPromise!EscNext]_<<upJobBar, upProvenBar>>
<1>0. ShTypeOK /\ binary \in [Proc -> Binary]
  BY DEF UpIInv, FlowInv
<1>1. upJobBar' = [upJobBar EXCEPT ![p] = UpJobOf(p)']
  <2>1. \A q \in Proc \ {p} : binary'[q] = binary[q]
    BY <1>0 DEF UpStep, UpBegin
  <2>2. \/ ShStep(p) \/ OldFlow(p) \/ EndsOf(p)
        \/ \E r \in Requests : Begin(p, r)
    BY OldRecords DEF UpStep, OldStep, OldFlow, ShStep, UpEnds, UpKill, EndsOf,
                      UpBegin
  <2> QED BY <1>0, <2>1, <2>2, OthersStay, UpOneJob
<1>2. JobStep(p)
  <2>1. ASSUME NEW r \in Requests, UpBegin(p, r) PROVE JobEnds(p)
    BY <1>0, <2>1 DEF UpBegin, Begin, Move, JobEnds, UpUnasked, Unasked, ShTypeOK
  <2> QED BY <2>1, JobStepOf DEF JobStep
<1>3. upJobBar[p] = UpJobOf(p) /\ upProvenBar = proved /\ upProvenBar' = proved'
  BY DEF upJobBar, UpJobOf, upProvenBar
<1> USE <1>1, <1>3 DEF UpPromise!EscNext, UpPromise!Enter, UpPromise!At, UpPromise!Idle
<1>4. CASE JobEnds(p)
  BY <1>4 DEF JobEnds, UpJobOf, UpPromise!Finish
<1>5. CASE JobStays(p)
  BY <1>5 DEF JobStays, upJobBar
<1>6. CASE JobAsked(p)
  <2>1. UpTyped'
    BY UpTypedStep DEF UpNext, UpIInv, FlowInv, UpTyped
  <2>2. <<req'[p], binary'[p]>> \in UpToRun
    BY <1>6, <2>1 DEF JobAsked, UpToRun, ToRun, UpTyped, ShTypeOK
  <2> QED BY <1>6, <2>2 DEF JobAsked, JobIs, UpJobOf, UpPromise!Ask
<1>7. CASE JobProven(p)
  <2>1. upJobBar[p].stage = "asking" /\ upJobBar[p].request = <<req[p], binary[p]>>
    BY <1>7 DEF JobProven, JobIs
  <2>2. upJobBar' = upJobBar
    BY <1>7 DEF JobProven, upJobBar
  <2>3. upProvenBar' = upProvenBar \cup {UpAsker(upJobBar[p].request)}
    BY <1>7, <2>1 DEF JobProven, UpAsker, Asker
  <2> QED BY <2>1, <2>2, <2>3 DEF UpPromise!Prove
<1>8. CASE JobAdmitted(p)
  <2>1. upJobBar[p].stage = "asking" /\ upJobBar[p].request = <<req[p], binary[p]>>
    BY <1>8 DEF JobAdmitted, JobIs
  <2>2. upJobBar' = [upJobBar EXCEPT ![p] = [stage |-> "admitted", request |-> upJobBar[p].request]]
    BY <1>8, <2>1 DEF JobAdmitted, JobIs
  <2>3. /\ UpMayRun(upJobBar[p].request) /\ upProvenBar' = upProvenBar
        /\ UpAsks(upJobBar[p].request) => UpAsker(upJobBar[p].request) \in upProvenBar
    BY <1>8, <2>1 DEF JobAdmitted, UpAsker, Asker, UpAsks, Asks
  <2> QED BY <2>1, <2>2, <2>3 DEF UpPromise!Admit
<1>9. CASE JobRuns(p)
  <2>1. upJobBar[p].stage = "admitted" /\ upJobBar[p].request = <<req[p], binary[p]>>
    BY <1>9 DEF JobRuns, JobIs
  <2>2. upJobBar' = [upJobBar EXCEPT ![p] = [stage |-> "running", request |-> upJobBar[p].request]]
    BY <1>9, <2>1 DEF JobRuns, JobIs
  <2> QED BY <1>9, <2>1, <2>2 DEF JobRuns, UpPromise!Run
<1> QED BY <1>2, <1>4, <1>5, <1>6, <1>7, <1>8, <1>9 DEF JobStep

(* Every behaviour of invocations of both programs, with library callers   *)
(* among them, is one Escalation allows.                                   *)
THEOREM UpImplementsEscalation == UpSpec => UpEscalationKept
<1>1. UpInit => UpPromise!EscInit
  BY DEF UpInit, ShInit, Quiet, UpPromise!EscInit, UpPromise!Idle, upJobBar, UpUnasked, Unasked,
         upProvenBar
<1>2. ASSUME UpIInv, [UpNext]_upVars
      PROVE  [UpPromise!EscNext]_<<upJobBar, upProvenBar>>
  <2>1. ASSUME \A p \in Proc : UpUnasked(p)', upProvenBar' = {} PROVE UpPromise!Restart
    BY <2>1 DEF UpPromise!Restart, UpPromise!Idle, upJobBar
  <2>2. CASE ~NoDirs'
    BY <2>1, <2>2 DEF UpUnasked, upProvenBar, UpPromise!EscNext
  <2>3. CASE ShReboot
    BY <2>1, <2>3 DEF ShReboot, Quiet, UpUnasked, Unasked, upProvenBar, UpPromise!EscNext
  <2>4. CASE UNCHANGED <<shVars, binary>> /\ NoDirs /\ NoDirs'
    BY <2>4 DEF shVars, upJobBar, upProvenBar, UpUnasked, Unasked, UpStageBar, UpRunning, Running
  <2>5. CASE NoDirs /\ NoDirs' /\ ~ShReboot
    BY <1>2, <2>4, <2>5, UpProcStep DEF UpNext, UpLibrary, Clock, upVars, vars
  <2>6. NoDirs' => NoDirs \/ ShReboot
    BY <1>2, UpDirsStay DEF UpIInv, FlowInv, UpTyped
  <2> QED BY <2>2, <2>3, <2>5, <2>6
<1>3. UpIInv /\ [UpNext]_upVars => [UpPromise!EscNext]_<<upJobBar, upProvenBar>>
  BY <1>2
<1> QED BY <1>1, <1>3, UpInductive, PTL
        DEF UpSpec, UpEscalationKept, UpPromise!EscSpec, UpPromise!escVars

(* No call of either program writes through a symlink at a ticket's path   *)
(* or removes it.                                                          *)
THEOREM NoSymlinkFollowed == UpSpec => SymlinkUntouched
<1>1. MixedInit => UnlinksNoSymlink
  BY DEF MixedInit, TsInit, NoCalls, UnlinksNoSymlink
<1>2. ASSUME MixedIInv, UnlinksNoSymlink, [MixedNext]_mixedVars
      PROVE  UnlinksNoSymlink' /\ [KeepsSymlinks]_tsVars
  <2>1. CASE [TsNext]_tsVars
    BY <1>2, <2>1, SymlinkStep DEF MixedIInv
  <2>2. ASSUME NEW p \in Proc, OldCacheStep(p)
        PROVE  UnlinksNoSymlink' /\ [KeepsSymlinks]_tsVars
    BY <1>2, <2>2 DEF MixedIInv, TsTypeOK, OldCacheStep, OldCheckLstat, OldCheckClock, OldEnsure,
                      OldMkdir, OldChmod, Goto, Done, DirState, ghostVars,
                      UnlinksNoSymlink, KeepsSymlinks
  <2> QED BY <1>2, <2>1, <2>2, MixedSplit
<1>3. MixedIInv /\ UnlinksNoSymlink /\ [MixedNext]_mixedVars
        => UnlinksNoSymlink' /\ [KeepsSymlinks]_tsVars
  BY <1>2
<1> QED BY <1>1, <1>3, UpClient, MixedInductive, PTL DEF MixedSpec, SymlinkUntouched

==============================================================================
