------------------------------ MODULE Timestamp ------------------------------
(***************************************************************************)
(* The credential cache of src/timestamp.cyr: one file per user and        *)
(* terminal below /var/run/agnos/sudo, whose mtime says when that user     *)
(* last gave a password on that terminal.                                  *)
(*                                                                         *)
(* The module is the library and the file system it works on.  Every       *)
(* system call is an action of its own, so the calls of several shakti     *)
(* processes interleave between an lstat and the open, unlink, mkdir or    *)
(* clock read that follows it.  TsSpec closes the library with the most    *)
(* general client; module Shakti calls it the way shk_run does.            *)
(***************************************************************************)
EXTENDS Integers, FiniteSets

CONSTANTS
    Proc,            \* shakti processes
    User,            \* users that call shakti
    Tty,             \* terminals stdin may be (the "pts-3" of /dev/pts/3)
    Device,          \* what else below /dev it may be (the "null" of /dev/null)
    Elsewhere,       \* stdin that is nothing below /dev: a pipe, a file
    NoTty,           \* the name of no terminal
    TTL,             \* [defaults] timestamp_ttl
    MaxNow,          \* bound on the clock, for TLC
    DirAtBoot,       \* what may stand at /var/run/agnos/sudo after a boot
    ClockStepsBack   \* may CLOCK_REALTIME be set back?

DirState == {"orphan", "absent", "safe", "unsafe", "linked"}

ASSUME TsAssumption ==
    /\ User # {} /\ Tty \cup Device \cup Elsewhere # {}
    /\ Tty \cap Device = {} /\ Tty \cap Elsewhere = {} /\ Device \cap Elsewhere = {}
    /\ NoTty \notin Tty \cup Device
    /\ TTL \in Nat
    /\ MaxNow \in Nat \ {0}
    /\ DirAtBoot \subseteq DirState
    /\ ClockStepsBack \in BOOLEAN

VARIABLES
    now,      \* CLOCK_REALTIME in seconds
    dir,      \* the timestamp directory
    file,     \* the files in it, by path
    tpc,      \* the system call each process is about to make
    path,     \* the path its call works on
    st,       \* the stat buffer of its call
    ret       \* what its call returned

(* History, read by the properties only.                                   *)
VARIABLES
    granted,  \* time of the last update of a path not revoked since, or 0
    basis,    \* granted[path[p]] at the instant p's check did its lstat
    readAt    \* the time p's check read

ghostVars == <<granted, basis, readAt>>
tsVars == <<now, dir, file, tpc, path, st, ret, granted, basis, readAt>>

(* A caller is a user with something as stdin.                             *)
Session == User \X (Tty \cup Device \cup Elsewhere)
Time == 0..MaxNow

(* "orphan": neither /var/run/agnos/sudo nor its parent exists; "linked":  *)
(* a symlink to a safe directory; "unsafe": any other symlink, not a       *)
(* directory, not owned by root, or world-writable.                        *)
FileState == [kind : {"absent", "regular", "symlink", "other"},
              root : BOOLEAN, mtime : Time]
Absent == [kind |-> "absent", root |-> FALSE, mtime |-> 0]

(* "chmod" is a step of the original program only (module OldTimestamp).   *)
TsPc == {"idle", "lstat", "clock", "ensure", "mkdir", "chmod", "open",
         "klstat", "kunlink", "done"}
Code == {"none", "valid", "invalid", "ok", "io", "symlink"}

------------------------------------------------------------------------------
(* The name stdin's link in /proc has below /dev, terminal or not.         *)
_shk_tty_session(i) == IF i \in Tty \cup Device THEN i ELSE NoTty

(* timestamp_path: <dir>/<user>, with :<name> when there is a name.        *)
timestamp_path(s) == <<s[1], _shk_tty_session(s[2])>>
Path == User \X (Tty \cup Device \cup {NoTty})
NoPath == CHOOSE k \in Path : TRUE

(* The tests check_timestamp makes on the stat buffer.                     *)
UsableAnyOwner(f) == f.kind = "regular"
Usable(f) == f.kind = "regular" /\ f.root

(* The time test of check_timestamp; a clock that reads 0 failed.          *)
UnexpiredInclusive(m, t) == t # 0 /\ m + TTL >= t
Unexpired(m, t) == t # 0 /\ m + TTL > t

(* Process p finishes its call with code c.                                *)
Done(p, c) ==
    /\ tpc' = [tpc EXCEPT ![p] = "done"]
    /\ ret' = [ret EXCEPT ![p] = c]

Goto(p, l) == tpc' = [tpc EXCEPT ![p] = l] /\ UNCHANGED ret

------------------------------------------------------------------------------
(* Entry of the three library functions, which work on path k.             *)
Call(p, k, entry) ==
    /\ tpc[p] = "idle"
    /\ path' = [path EXCEPT ![p] = k]
    /\ Goto(p, entry)
    /\ UNCHANGED <<now, dir, file, st, ghostVars>>

CallCheck(p, k) == Call(p, k, "lstat")
CallUpdate(p, k) == Call(p, k, "ensure")
CallInvalidate(p, k) == Call(p, k, "klstat")

(* The call's frame is gone: by its return, or because the process died.   *)
Leave(p) ==
    /\ tpc' = [tpc EXCEPT ![p] = "idle"]
    /\ path' = [path EXCEPT ![p] = NoPath]
    /\ st' = [st EXCEPT ![p] = Absent]
    /\ ret' = [ret EXCEPT ![p] = "none"]
    /\ basis' = [basis EXCEPT ![p] = 0]
    /\ readAt' = [readAt EXCEPT ![p] = 0]
    /\ UNCHANGED <<now, dir, file, granted>>

Return(p) == tpc[p] = "done" /\ Leave(p)

------------------------------------------------------------------------------
(* What lstat shows of path k; where it fails, for whatever reason, the    *)
(* code goes on as if the file were not there.                             *)
Lstat(k) == {file[k], Absent}

(* check_timestamp: lstat, then the clock.                                 *)
CheckLstat(p) ==
    /\ tpc[p] = "lstat"
    /\ \E f \in Lstat(path[p]) :
          /\ st' = [st EXCEPT ![p] = f]
          /\ IF Usable(f) THEN Goto(p, "clock") ELSE Done(p, "invalid")
    /\ basis' = [basis EXCEPT ![p] = granted[path[p]]]
    /\ UNCHANGED <<now, dir, file, path, granted, readAt>>

(* clock_gettime may fail, which _shk_now_secs reports as 0.               *)
CheckClock(p) ==
    /\ tpc[p] = "clock"
    /\ \E t \in {now, 0} :
          /\ readAt' = [readAt EXCEPT ![p] = t]
          /\ Done(p, IF Unexpired(st[p].mtime, t) THEN "valid" ELSE "invalid")
    /\ UNCHANGED <<now, dir, file, path, st, granted, basis>>

------------------------------------------------------------------------------
(* update_timestamp: _shk_ensure_ts_dir (lstat, mkdir), then open.         *)
EnsureLstat(p) ==
    /\ tpc[p] = "ensure"
    /\ \/ Goto(p, "mkdir")        \* not there, or a failed lstat
       \/ dir = "safe" /\ Goto(p, "open")
       \/ dir \in {"unsafe", "linked"} /\ Done(p, "io")
    /\ UNCHANGED <<now, dir, file, path, st, ghostVars>>

(* mkdir fails with ENOENT below a missing parent, with EEXIST when        *)
(* another process made the directory first, and for want of space or      *)
(* memory; all are SHK_ERR_IO.                                             *)
Mkdir(p) ==
    /\ tpc[p] = "mkdir"
    /\ \/ dir = "absent" /\ dir' = "safe" /\ Goto(p, "open")
       \/ UNCHANGED dir /\ Done(p, "io")
    /\ UNCHANGED <<now, file, path, st, ghostVars>>

(* What open(O_WRONLY|O_CREAT|O_TRUNC|O_NOFOLLOW) may answer for f: ELOOP  *)
(* for a symlink, and for whatever it meets any other error (EMFILE,       *)
(* ENOSPC, EROFS), which is SHK_ERR_IO.                                    *)
OpenAnswersFollowing(f) == IF f.kind = "other" THEN {"io"} ELSE {"ok", "io"}
OpenAnswers(f) ==
    CASE f.kind = "symlink"             -> {"symlink", "io"}
      [] f.kind = "other"               -> {"io"}
      [] f.kind \in {"absent", "regular"} -> {"ok", "io"}

(* The file update_timestamp leaves where f was.                           *)
Touched(f) == [kind  |-> "regular",
               root  |-> f.kind = "absent" \/ f.root,
               mtime |-> now]

OpenTs(p) ==
    /\ tpc[p] = "open"
    /\ \E c \in OpenAnswers(file[path[p]]) :
          /\ Done(p, c)
          /\ IF c = "ok"
             THEN /\ file' = [file EXCEPT ![path[p]] = Touched(@)]
                  /\ granted' = [granted EXCEPT ![path[p]] = now]
             ELSE UNCHANGED <<file, granted>>
    /\ UNCHANGED <<now, dir, path, st, basis, readAt>>

------------------------------------------------------------------------------
(* invalidate_timestamp: lstat, then unlink.                               *)
InvalidateLstat(p) ==
    /\ tpc[p] = "klstat"
    /\ \E f \in Lstat(path[p]) :
          /\ st' = [st EXCEPT ![p] = f]
          /\ CASE f.kind = "absent"  -> Done(p, "ok")
               [] f.kind = "symlink" -> Done(p, "symlink")
               [] OTHER              -> Goto(p, "kunlink")
    /\ UNCHANGED <<now, dir, file, path, ghostVars>>

(* unlink fails on a directory, with ENOENT when another process removed   *)
(* the file first, and otherwise; all are SHK_ERR_IO.                      *)
InvalidateUnlink(p) ==
    /\ tpc[p] = "kunlink"
    /\ \/ Done(p, "io") /\ UNCHANGED <<file, granted>>
       \/ /\ file[path[p]].kind \notin {"absent", "other"}
          /\ file' = [file EXCEPT ![path[p]] = Absent]
          /\ granted' = [granted EXCEPT ![path[p]] = 0]
          /\ Done(p, "ok")
    /\ UNCHANGED <<now, dir, path, st, basis, readAt>>

------------------------------------------------------------------------------
(* The surroundings: time passes, the clock is set back, a process dies    *)
(* between any two system calls, the machine reboots and the tmpfs below   *)
(* /var/run is empty again.                                                *)
Tick ==
    /\ \E t \in 1..MaxNow :
          /\ t = now + 1 \/ (ClockStepsBack /\ t < now)
          /\ now' = t
    /\ UNCHANGED <<dir, file, tpc, path, st, ret, ghostVars>>

Kill(p) == tpc[p] # "idle" /\ Leave(p)

NoCalls(pc, s, b, r, g, t) ==
    /\ pc = [p \in Proc |-> "idle"]
    /\ s = [p \in Proc |-> NoPath]
    /\ b = [p \in Proc |-> Absent]
    /\ r = [p \in Proc |-> "none"]
    /\ g = [p \in Proc |-> 0]
    /\ t = [p \in Proc |-> 0]

Reboot ==
    /\ dir' \in DirAtBoot
    /\ file' = [k \in Path |-> Absent]
    /\ granted' = [k \in Path |-> 0]
    /\ NoCalls(tpc', path', st', ret', basis', readAt')
    /\ UNCHANGED now

------------------------------------------------------------------------------
(* A file found at the start is a leftover that no update made: a symlink, *)
(* a directory, or a regular file of another owner.                        *)
Leftover == {f \in FileState : f.kind # "absent" /\ f.mtime = 1
                                /\ f.root = (f.kind # "regular")}

TsInit ==
    /\ now = 1
    /\ dir \in DirAtBoot
    /\ file \in [Path -> Leftover \cup {Absent}]
    /\ (dir \in {"orphan", "absent"} => \A k \in Path : file[k] = Absent)
    /\ granted = [k \in Path |-> 0]
    /\ NoCalls(tpc, path, st, ret, basis, readAt)

(* The steps of a call in progress; its entry and return are the client's. *)
TsStep(p) ==
    \/ CheckLstat(p) \/ CheckClock(p)
    \/ EnsureLstat(p) \/ Mkdir(p) \/ OpenTs(p)
    \/ InvalidateLstat(p) \/ InvalidateUnlink(p)

TsCall(p) ==
    \/ \E k \in Path : CallCheck(p, k) \/ CallUpdate(p, k) \/ CallInvalidate(p, k)
    \/ Return(p)

TsNext ==
    \/ \E p \in Proc : TsStep(p) \/ TsCall(p) \/ Kill(p)
    \/ Tick \/ Reboot

TsSpec == TsInit /\ [][TsNext]_tsVars

------------------------------------------------------------------------------
(* Every variable stays in its range (all of src/timestamp.cyr).           *)
TsTypeOK ==
    /\ now \in Time \ {0}
    /\ dir \in DirState
    /\ file \in [Path -> FileState]
    /\ tpc \in [Proc -> TsPc]
    /\ path \in [Proc -> Path]
    /\ st \in [Proc -> FileState]
    /\ ret \in [Proc -> Code]
    /\ granted \in [Path -> Time]
    /\ basis \in [Proc -> Time]
    /\ readAt \in [Proc -> Time]

(* check_timestamp says valid only when update_timestamp ran for the same  *)
(* path, its ticket was not revoked before the check began to look, and    *)
(* the clock the check read is before the ticket's end, whatever updates,  *)
(* revocations and deaths interleave.                                      *)
CheckSound ==
    \A p \in Proc :
        ret[p] = "valid" => basis[p] # 0 /\ readAt[p] < basis[p] + TTL

(* The inductive invariant behind CheckSound: a file that check_timestamp  *)
(* would accept carries the time of its path's last unrevoked update, and  *)
(* a check that has seen such a file keeps that time in its buffer.        *)
TicketBacked ==
    \A k \in Path : Usable(file[k]) => file[k].mtime = granted[k] /\ granted[k] # 0

SnapshotBacked ==
    \A p \in Proc :
        /\ tpc[p] = "clock" => st[p].mtime = basis[p] /\ basis[p] # 0
        /\ ret[p] # "none" => tpc[p] = "done"

TsIInv == TsTypeOK /\ TicketBacked /\ SnapshotBacked /\ CheckSound

(* On a clock that never steps back the ticket is also not from the        *)
(* future, so a positive check means less than TTL seconds have passed     *)
(* since the password, and timestamp_ttl = 0 always asks.                  *)
CheckFresh ==
    \A p \in Proc :
        ret[p] = "valid" => readAt[p] - basis[p] \in 0..(TTL - 1)

(* Its inductive form.                                                     *)
NothingFromTheFuture ==
    /\ \A k \in Path : granted[k] <= now
    /\ \A p \in Proc : basis[p] <= now

(* Nothing but a reboot changes a symlink found at a ticket's path: no     *)
(* update writes through it and no invalidation removes it.                *)
KeepsSymlinks ==
    \A k \in Path : file[k].kind = "symlink" =>
        file'[k] = file[k] \/ file' = [j \in Path |-> Absent]

SymlinkUntouched == [][KeepsSymlinks]_tsVars

(* What it rests on: a process that is about to unlink saw no symlink, and *)
(* none appears later.                                                     *)
UnlinksNoSymlink ==
    \A p \in Proc : tpc[p] = "kunlink" => file[path[p]].kind # "symlink"
==============================================================================
