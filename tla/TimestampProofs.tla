--------------------------- MODULE TimestampProofs ---------------------------
(***************************************************************************)
(* Proofs about Timestamp for any number of processes, users and           *)
(* terminals and any ttl.                                                  *)
(***************************************************************************)
EXTENDS Timestamp, TLAPS

LEMMA SessionPair ==
    ASSUME NEW s \in Session
    PROVE  s[1] \in User /\ s[2] \in Tty \cup Device \cup Elsewhere
BY DEF Session

LEMMA NoPathIsPath == NoPath \in Path
<1>1. PICK u \in User : TRUE
  BY TsAssumption
<1>2. <<u, NoTty>> \in Path
  BY DEF Path
<1> QED BY <1>2, Zenon DEF NoPath

(* A session's ticket is a file of the directory.                          *)
LEMMA PathIsPath ==
    ASSUME NEW s \in Session
    PROVE  timestamp_path(s) \in Path
BY SessionPair DEF Path, timestamp_path, _shk_tty_session

LEMMA AbsentIsState == Absent \in FileState /\ ~Usable(Absent)
BY TsAssumption DEF Absent, FileState, Usable, Time
------------------------------------------------------------------------------
(* Every variable of the cache stays in its range.                         *)
LEMMA TypeInit == TsInit => TsTypeOK
<1> SUFFICES ASSUME TsInit PROVE TsTypeOK
  OBVIOUS
<1>1. now \in Time \ {0} /\ dir \in DirState
  BY TsAssumption DEF TsInit, Time
<1>2. file \in [Path -> FileState]
  BY AbsentIsState DEF TsInit, Leftover
<1>3. granted \in [Path -> Time] /\ basis \in [Proc -> Time] /\ readAt \in [Proc -> Time]
  BY TsAssumption DEF TsInit, Time, NoCalls
<1>4. tpc \in [Proc -> TsPc] /\ ret \in [Proc -> Code]
  BY DEF TsInit, NoCalls, TsPc, Code
<1>5. path \in [Proc -> Path] /\ st \in [Proc -> FileState]
  BY AbsentIsState, NoPathIsPath DEF TsInit, NoCalls
<1> QED BY <1>1, <1>2, <1>3, <1>4, <1>5 DEF TsTypeOK

LEMMA PathTyped ==
    ASSUME TsTypeOK, NEW p \in Proc
    PROVE  /\ path[p] \in Path
           /\ file[path[p]] \in FileState
           /\ \A f \in Lstat(path[p]) : f \in FileState
BY AbsentIsState DEF TsTypeOK, Lstat

(* What the open of update_timestamp may answer.                           *)
LEMMA OpenCodes ==
    ASSUME NEW f \in FileState, NEW c \in OpenAnswers(f)
    PROVE  /\ c \in {"ok", "io", "symlink"}
           /\ c = "ok" => f.kind \in {"absent", "regular"}
<1>1. f.kind \in {"absent", "regular", "symlink", "other"}
  BY DEF FileState
<1> QED BY <1>1 DEF OpenAnswers

LEMMA TouchedIsState ==
    ASSUME TsTypeOK, NEW f \in FileState
    PROVE  /\ Touched(f) \in FileState
           /\ Touched(f).kind = "regular" /\ Touched(f).mtime = now
BY DEF TsTypeOK, Touched, FileState

LEMMA TypeStep ==
    ASSUME TsTypeOK, [TsNext]_tsVars
    PROVE  TsTypeOK'
<1> USE DEF TsTypeOK
<1>1. ASSUME NEW p \in Proc, TsStep(p) PROVE TsTypeOK'
  <2> USE PathTyped
  <2>1. CASE CheckLstat(p)
    BY <2>1 DEF CheckLstat, Goto, Done, TsPc, Code
  <2>2. CASE CheckClock(p)
    BY <2>2, TsAssumption DEF CheckClock, Done, TsPc, Code, Time
  <2>3. CASE EnsureLstat(p)
    BY <2>3 DEF EnsureLstat, Goto, Done, TsPc, Code, ghostVars
  <2>4. CASE Mkdir(p)
    BY <2>4 DEF Mkdir, Goto, Done, TsPc, Code, DirState, ghostVars
  <2>5. CASE OpenTs(p)
    <3>1. PICK c \in OpenAnswers(file[path[p]]) :
             /\ Done(p, c)
             /\ \/ UNCHANGED <<file, granted>>
                \/ /\ file' = [file EXCEPT ![path[p]] = Touched(@)]
                   /\ granted' = [granted EXCEPT ![path[p]] = now]
      BY <2>5 DEF OpenTs
    <3>2. c \in Code
      BY OpenCodes DEF Code
    <3>3. file' \in [Path -> FileState] /\ granted' \in [Path -> Time]
      BY <3>1, TouchedIsState
    <3> QED BY <2>5, <3>1, <3>2, <3>3 DEF OpenTs, Done, TsPc
  <2>6. CASE InvalidateLstat(p)
    BY <2>6 DEF InvalidateLstat, Goto, Done, TsPc, Code, ghostVars
  <2>7. CASE InvalidateUnlink(p)
    BY <2>7, AbsentIsState, TsAssumption DEF InvalidateUnlink, Done, TsPc, Code, Time
  <2> QED BY <1>1, <2>1, <2>2, <2>3, <2>4, <2>5, <2>6, <2>7 DEF TsStep
<1>2. ASSUME NEW p \in Proc, Leave(p) PROVE TsTypeOK'
  BY <1>2, AbsentIsState, NoPathIsPath, TsAssumption DEF Leave, TsPc, Code, Time
<1>3. ASSUME NEW p \in Proc, NEW k \in Path, NEW e \in {"lstat", "ensure", "klstat"},
             Call(p, k, e)
      PROVE  TsTypeOK'
  BY <1>3 DEF Call, Goto, TsPc, ghostVars
<1>4. CASE Tick
  BY <1>4, TsAssumption DEF Tick, Time, ghostVars
<1>5. CASE Reboot
  <2>1. dir' \in DirState /\ now' \in Time \ {0}
    BY <1>5, TsAssumption DEF Reboot
  <2>2. file' \in [Path -> FileState] /\ st' \in [Proc -> FileState]
    BY <1>5, AbsentIsState DEF Reboot, NoCalls
  <2>3. path' \in [Proc -> Path] /\ tpc' \in [Proc -> TsPc] /\ ret' \in [Proc -> Code]
    BY <1>5, NoPathIsPath DEF Reboot, NoCalls, TsPc, Code
  <2>4. granted' \in [Path -> Time] /\ basis' \in [Proc -> Time] /\ readAt' \in [Proc -> Time]
    BY <1>5, TsAssumption DEF Reboot, NoCalls, Time
  <2> QED BY <2>1, <2>2, <2>3, <2>4
<1>6. CASE UNCHANGED tsVars
  BY <1>6 DEF tsVars
<1> QED
  BY <1>1, <1>2, <1>3, <1>4, <1>5, <1>6
     DEF TsNext, TsCall, CallCheck, CallUpdate, CallInvalidate, Return, Kill

(* Type correctness of the credential cache, for every instance.           *)
THEOREM TsTypeCorrect == TsSpec => []TsTypeOK
BY TypeInit, TypeStep, PTL DEF TsSpec

------------------------------------------------------------------------------
LEMMA BackedInit == TsInit => TsIInv
<1> SUFFICES ASSUME TsInit PROVE TsIInv
  OBVIOUS
<1>1. \A k \in Path : ~Usable(file[k])
  BY AbsentIsState DEF TsInit, Leftover, Usable
<1>2. TicketBacked
  BY <1>1 DEF TicketBacked
<1>3. SnapshotBacked /\ CheckSound
  BY DEF TsInit, NoCalls, SnapshotBacked, CheckSound
<1> QED BY <1>2, <1>3, TypeInit DEF TsIInv

(* What a step does to the tickets: it leaves them alone, it refreshes the *)
(* caller's, it removes the caller's, or the machine reboots.              *)
LEMMA TicketStep ==
    ASSUME TsTypeOK, TicketBacked, [TsNext]_tsVars
    PROVE  TicketBacked'
<1> USE DEF TsTypeOK
<1>1. CASE UNCHANGED <<file, granted>>
  BY <1>1 DEF TicketBacked
<1>2. ASSUME NEW p \in Proc, OpenTs(p), ~UNCHANGED <<file, granted>>
      PROVE  TicketBacked'
  <2>1. /\ file' = [file EXCEPT ![path[p]] = Touched(file[path[p]])]
        /\ granted' = [granted EXCEPT ![path[p]] = now]
    BY <1>2 DEF OpenTs
  <2>2. SUFFICES ASSUME NEW k \in Path
                 PROVE  Usable(file'[k]) => file'[k].mtime = granted'[k] /\ granted'[k] # 0
    BY DEF TicketBacked
  <2>3. CASE k = path[p]
    BY <2>1, <2>3, PathTyped, TouchedIsState
  <2>4. CASE k # path[p]
    BY <2>1, <2>4, PathTyped DEF TicketBacked
  <2> QED BY <2>3, <2>4
<1>3. ASSUME NEW p \in Proc, InvalidateUnlink(p), ~UNCHANGED <<file, granted>>
      PROVE  TicketBacked'
  <2>1. /\ granted' = [granted EXCEPT ![path[p]] = 0]
        /\ file' = [file EXCEPT ![path[p]] = Absent]
    BY <1>3 DEF InvalidateUnlink
  <2> QED BY <2>1, AbsentIsState, PathTyped DEF TicketBacked
<1>4. CASE Reboot
  <2>1. \A k \in Path : ~Usable(file'[k])
    BY <1>4, AbsentIsState DEF Reboot
  <2> QED BY <2>1 DEF TicketBacked
<1> QED
  BY <1>1, <1>2, <1>3, <1>4
     DEF TsNext, TsStep, TsCall, CallCheck, CallUpdate, CallInvalidate, Call, Return, Kill,
         Leave, CheckLstat, CheckClock, EnsureLstat, Mkdir, InvalidateLstat, Tick, tsVars,
         ghostVars

LEMMA SnapshotStep ==
    ASSUME TsIInv, [TsNext]_tsVars
    PROVE  SnapshotBacked' /\ CheckSound'
<1> USE DEF TsTypeOK, TsIInv, SnapshotBacked, CheckSound
<1>1. ASSUME NEW p \in Proc, CheckLstat(p) PROVE SnapshotBacked' /\ CheckSound'
  <2>1. \A f \in Lstat(path[p]) :
           Usable(f) => f.mtime = granted[path[p]] /\ granted[path[p]] # 0
    BY PathTyped, AbsentIsState DEF TicketBacked, Lstat
  <2> QED BY <1>1, <2>1 DEF CheckLstat, Goto, Done
<1>2. ASSUME NEW p \in Proc, CheckClock(p) PROVE SnapshotBacked' /\ CheckSound'
  BY <1>2, TsAssumption DEF CheckClock, Done, Unexpired, Time
<1>3. ASSUME NEW p \in Proc,
             \/ EnsureLstat(p) \/ Mkdir(p) \/ OpenTs(p)
             \/ InvalidateLstat(p) \/ InvalidateUnlink(p)
      PROVE  SnapshotBacked' /\ CheckSound'
  <2>1. \A c \in OpenAnswers(file[path[p]]) : c \in {"ok", "io", "symlink"}
    BY PathTyped, OpenCodes
  <2> QED
    BY <1>3, <2>1 DEF EnsureLstat, Mkdir, OpenTs, InvalidateLstat, InvalidateUnlink,
                      Goto, Done, ghostVars
<1>4. ASSUME NEW p \in Proc, NEW k \in Path, NEW e \in {"lstat", "ensure", "klstat"},
             Call(p, k, e)
      PROVE  SnapshotBacked' /\ CheckSound'
  BY <1>4 DEF Call, Goto, ghostVars
<1>5. ASSUME NEW p \in Proc, Leave(p) PROVE SnapshotBacked' /\ CheckSound'
  BY <1>5 DEF Leave
<1>6. CASE Reboot
  BY <1>6 DEF Reboot, NoCalls
<1>7. CASE Tick \/ UNCHANGED tsVars
  BY <1>7 DEF Tick, tsVars, ghostVars
<1> QED
  BY <1>1, <1>2, <1>3, <1>4, <1>5, <1>6, <1>7
     DEF TsNext, TsStep, TsCall, CallCheck, CallUpdate, CallInvalidate, Return, Kill

THEOREM Inductive == TsSpec => []TsIInv
<1>1. TsIInv /\ [TsNext]_tsVars => TsIInv'
  BY TypeStep, TicketStep, SnapshotStep DEF TsIInv
<1> QED BY <1>1, BackedInit, PTL DEF TsSpec

(* A positive check_timestamp is backed by an unrevoked, unexpired update  *)
(* of the same path, however the calls of any number of processes          *)
(* interleave and whatever the clock does.                                 *)
THEOREM CheckIsSound == TsSpec => []CheckSound
<1>1. TsIInv => CheckSound
  BY DEF TsIInv
<1> QED BY <1>1, Inductive, PTL

------------------------------------------------------------------------------
LEMMA FutureStep ==
    ASSUME ~ClockStepsBack, TsIInv, NothingFromTheFuture, CheckFresh, [TsNext]_tsVars
    PROVE  NothingFromTheFuture' /\ CheckFresh'
<1> USE DEF TsIInv, TsTypeOK, NothingFromTheFuture, CheckFresh
<1>1. ASSUME NEW p \in Proc, CheckLstat(p) PROVE NothingFromTheFuture' /\ CheckFresh'
  BY <1>1, PathTyped DEF CheckLstat, Goto, Done, Time, SnapshotBacked
<1>2. ASSUME NEW p \in Proc, CheckClock(p) PROVE NothingFromTheFuture' /\ CheckFresh'
  <2>1. NothingFromTheFuture'
    BY <1>2 DEF CheckClock
  <2>2. ret'[p] = "valid" => readAt'[p] - basis'[p] \in 0..(TTL - 1)
    BY <1>2, TsAssumption DEF CheckClock, Done, Unexpired, SnapshotBacked, Time
  <2>3. \A q \in Proc \ {p} : ret'[q] = ret[q] /\ readAt'[q] = readAt[q] /\ basis'[q] = basis[q]
    BY <1>2 DEF CheckClock, Done
  <2> QED BY <2>1, <2>2, <2>3
<1>3. ASSUME NEW p \in Proc, EnsureLstat(p) \/ Mkdir(p)
      PROVE  NothingFromTheFuture' /\ CheckFresh'
  BY <1>3 DEF EnsureLstat, Mkdir, Goto, Done, DirState, ghostVars
<1>4. ASSUME NEW p \in Proc, OpenTs(p) \/ InvalidateLstat(p) \/ InvalidateUnlink(p)
      PROVE  NothingFromTheFuture' /\ CheckFresh'
  <2>1. \A c \in OpenAnswers(file[path[p]]) : c \in {"ok", "io", "symlink"}
    BY PathTyped, OpenCodes
  <2>2. CheckFresh'
    BY <1>4, <2>1 DEF OpenTs, InvalidateLstat, InvalidateUnlink, Goto, Done, ghostVars
  <2>3. NothingFromTheFuture'
    BY <1>4, PathTyped DEF OpenTs, InvalidateLstat, InvalidateUnlink, Time, ghostVars
  <2> QED BY <2>2, <2>3
<1>5. ASSUME NEW p \in Proc, NEW k \in Path, NEW e \in {"lstat", "ensure", "klstat"},
             Call(p, k, e)
      PROVE  NothingFromTheFuture' /\ CheckFresh'
  BY <1>5 DEF Call, Goto, ghostVars
<1>6. ASSUME NEW p \in Proc, Leave(p) PROVE NothingFromTheFuture' /\ CheckFresh'
  BY <1>6 DEF Leave, Time
<1>7. CASE Tick
  BY <1>7 DEF Tick, Time, ghostVars
<1>8. CASE Reboot
  BY <1>8 DEF Reboot, NoCalls, Time
<1>9. CASE UNCHANGED tsVars
  BY <1>9 DEF tsVars
<1> QED
  BY <1>1, <1>2, <1>3, <1>4, <1>5, <1>6, <1>7, <1>8, <1>9
     DEF TsNext, TsStep, TsCall, CallCheck, CallUpdate, CallInvalidate, Return, Kill

(* On a clock that never steps back, a positive check_timestamp means that *)
(* fewer than timestamp_ttl seconds have passed since the password.        *)
THEOREM CheckIsFresh ==
    ASSUME ~ClockStepsBack
    PROVE  TsSpec => []CheckFresh
<1>1. TsInit => NothingFromTheFuture /\ CheckFresh
  BY DEF TsInit, NoCalls, NothingFromTheFuture, CheckFresh
<1>2. TsIInv /\ NothingFromTheFuture /\ CheckFresh /\ [TsNext]_tsVars
        => (NothingFromTheFuture /\ CheckFresh)'
  BY FutureStep
<1> QED BY <1>1, <1>2, Inductive, PTL DEF TsSpec

LEMMA SymlinkStep ==
    ASSUME TsTypeOK, UnlinksNoSymlink, [TsNext]_tsVars
    PROVE  KeepsSymlinks /\ UnlinksNoSymlink'
<1> USE DEF TsTypeOK, UnlinksNoSymlink, KeepsSymlinks
<1>1. ASSUME NEW p \in Proc, OpenTs(p) PROVE KeepsSymlinks /\ UnlinksNoSymlink'
  <2>1. /\ UNCHANGED path
        /\ \A q \in Proc : tpc'[q] = "kunlink" => tpc[q] = "kunlink"
        /\ \/ file' = file
           \/ /\ file[path[p]].kind # "symlink"
              /\ file' = [file EXCEPT ![path[p]] = file'[path[p]]]
              /\ file'[path[p]].kind = "regular"
    <3>1. PICK c \in OpenAnswers(file[path[p]]) :
             /\ Done(p, c)
             /\ UNCHANGED path
             /\ IF c = "ok" THEN file' = [file EXCEPT ![path[p]] = Touched(@)]
                ELSE UNCHANGED file
      BY <1>1 DEF OpenTs
    <3> QED BY <3>1, PathTyped, OpenCodes, TouchedIsState DEF Done
  <2>2. \A k \in Path : file'[k] = file[k] \/ (file[k].kind # "symlink" /\ file'[k].kind = "regular")
    BY <2>1, PathTyped
  <2> QED BY <2>1, <2>2, PathTyped 
<1>2. ASSUME NEW p \in Proc, InvalidateLstat(p) PROVE KeepsSymlinks /\ UnlinksNoSymlink'
  <2>1. UNCHANGED <<file, path>>
    BY <1>2 DEF InvalidateLstat
  <2>2. \A q \in Proc \ {p} : tpc'[q] = tpc[q]
    BY <1>2 DEF InvalidateLstat, Goto, Done
  <2>3. tpc'[p] = "kunlink" => file[path[p]].kind # "symlink"
    BY <1>2 DEF InvalidateLstat, Lstat, Absent, Goto, Done
  <2> QED BY <2>1, <2>2, <2>3
<1>3. ASSUME NEW p \in Proc, InvalidateUnlink(p) PROVE KeepsSymlinks /\ UnlinksNoSymlink'
  <2>1. /\ UNCHANGED path
        /\ \A q \in Proc : tpc'[q] = "kunlink" => tpc[q] = "kunlink"
        /\ file[path[p]].kind # "symlink"
        /\ file' = file \/ file' = [file EXCEPT ![path[p]] = Absent]
    BY <1>3 DEF InvalidateUnlink, Done
  <2>2. \A k \in Path : file'[k] = file[k] \/ (file[k].kind # "symlink" /\ file'[k].kind = "absent")
    BY <2>1, PathTyped DEF Absent
  <2> QED BY <2>1, <2>2, PathTyped 
<1>4. CASE Reboot
  BY <1>4 DEF Reboot, NoCalls
<1>5. ASSUME NEW p \in Proc,
             CheckLstat(p) \/ CheckClock(p) \/ EnsureLstat(p) \/ Mkdir(p) \/ Leave(p)
      PROVE  KeepsSymlinks /\ UnlinksNoSymlink'
  BY <1>5 DEF CheckLstat, CheckClock, EnsureLstat, Mkdir, Leave, Goto, Done, DirState,
              ghostVars
<1>6. ASSUME NEW p \in Proc, NEW k \in Path, NEW e \in {"lstat", "ensure", "klstat"},
             Call(p, k, e)
      PROVE  KeepsSymlinks /\ UnlinksNoSymlink'
  BY <1>6 DEF Call, Goto, ghostVars
<1>7. CASE Tick \/ UNCHANGED tsVars
  BY <1>7 DEF Tick, tsVars, ghostVars
<1> QED
  BY <1>1, <1>2, <1>3, <1>4, <1>5, <1>6, <1>7
     DEF TsNext, TsStep, TsCall, CallCheck, CallUpdate, CallInvalidate, Return, Kill

(* No call writes through a symlink at a ticket's path or removes it.      *)
THEOREM SymlinksKept == TsSpec => SymlinkUntouched
<1>1. TsInit => UnlinksNoSymlink
  BY DEF TsInit, NoCalls, UnlinksNoSymlink
<1>2. TsTypeOK /\ UnlinksNoSymlink /\ [TsNext]_tsVars => UnlinksNoSymlink' /\ KeepsSymlinks
  BY SymlinkStep
<1> QED BY <1>1, <1>2, TsTypeCorrect, PTL DEF TsSpec, SymlinkUntouched

==============================================================================
