----------------------------- MODULE OldTimestamp ----------------------------
(***************************************************************************)
(* The credential cache of the original program (timestamp.rs), on the     *)
(* same directory as the port's.  A machine that is upgraded or rolled     *)
(* back runs both: tickets of one are read by the other, and invocations   *)
(* begun before the exchange of the binary finish after it.  Each process  *)
(* is one of the two; a call of the original takes the steps below, a call *)
(* of the port those of module Timestamp.                                  *)
(***************************************************************************)
EXTENDS Timestamp

VARIABLE binary    \* the program each process runs

Binary == {"port", "original"}
mixedVars == <<tsVars, binary>>

(* Below the same directory, and under the port's names where stdin is a   *)
(* terminal; ttyname knows no other device.                                *)
tty_session_id(i) == IF i \in Tty THEN i ELSE NoTty
old_timestamp_path(s) == <<s[1], tty_session_id(s[2])>>

------------------------------------------------------------------------------
(* check_timestamp: anything of root's that is no symlink, a directory     *)
(* too, and a modification time that lies in the past by less than TTL.    *)
OldUsableFollowing(f) == f.kind # "absent"
OldUsable(f) == f.kind \notin {"absent", "symlink"} /\ f.root

OldUnexpiredFuture(m, t) == t - m < TTL
OldUnexpired(m, t) == m <= t /\ t - m < TTL

OldCheckLstat(p) ==
    /\ tpc[p] = "lstat"
    /\ \E f \in Lstat(path[p]) :
          /\ st' = [st EXCEPT ![p] = f]
          /\ IF OldUsable(f) THEN Goto(p, "clock") ELSE Done(p, "invalid")
    /\ basis' = [basis EXCEPT ![p] = granted[path[p]]]
    /\ UNCHANGED <<now, dir, file, path, granted, readAt>>

OldCheckClock(p) ==
    /\ tpc[p] = "clock"
    /\ readAt' = [readAt EXCEPT ![p] = now]
    /\ Done(p, IF OldUnexpired(st[p].mtime, now) THEN "valid" ELSE "invalid")
    /\ UNCHANGED <<now, dir, file, path, st, granted, basis>>

------------------------------------------------------------------------------
(* ensure_timestamp_dir: exists() and metadata() follow a symlink; the     *)
(* latter may fail.  What is unsafe fails here or, a plain file of root's, *)
(* in the open; neither changes anything.                                  *)
OldEnsure(p) ==
    /\ tpc[p] = "ensure"
    /\ \/ dir \in {"orphan", "absent"} /\ Goto(p, "mkdir")
       \/ dir \in {"safe", "linked"} /\ Goto(p, "open")
       \/ dir \in {"safe", "linked", "unsafe"} /\ Done(p, "io")
    /\ UNCHANGED <<now, dir, file, path, st, ghostVars>>

(* create_dir_all makes the parents too, perhaps only them, and is content *)
(* with a directory another process made; the mode is what the caller's    *)
(* umask leaves of 0777, until set_permissions.                            *)
OldMkdirTrusting(p) ==
    /\ tpc[p] = "mkdir"
    /\ IF dir \in {"orphan", "absent"}
       THEN dir' \in {"safe", "unsafe"} /\ Goto(p, "chmod")
       ELSE UNCHANGED dir /\ Goto(p, "open")
    /\ UNCHANGED <<now, file, path, st, ghostVars>>
OldMkdir(p) ==
    /\ tpc[p] = "mkdir"
    /\ \/ dir \in {"orphan", "absent"} /\ dir' \in {"safe", "unsafe"} /\ Goto(p, "chmod")
       \/ dir \in {"orphan", "absent"} /\ dir' \in {dir, "absent"} /\ Done(p, "io")
       \/ dir \notin {"orphan", "absent"} /\ UNCHANGED dir /\ Goto(p, "chmod")
    /\ UNCHANGED <<now, file, path, st, ghostVars>>

OldChmod(p) ==
    /\ tpc[p] = "chmod"
    /\ \/ dir' = "safe" /\ Goto(p, "open")
       \/ UNCHANGED dir /\ Done(p, "io")
    /\ UNCHANGED <<now, file, path, st, ghostVars>>

(* update_timestamp then opens with the port's flags, and                  *)
(* invalidate_timestamp makes the port's two calls.                        *)
OldOpen(p) == OpenTs(p)
OldInvalidate(p) == InvalidateLstat(p) \/ InvalidateUnlink(p)

OldTsStep(p) ==
    \/ OldCheckLstat(p) \/ OldCheckClock(p)
    \/ OldEnsure(p) \/ OldMkdir(p) \/ OldChmod(p) \/ OldOpen(p)
    \/ OldInvalidate(p)

------------------------------------------------------------------------------
(* The step of a call in progress, by the program the process runs.        *)
MixedStep(p) ==
    \/ binary[p] = "port" /\ TsStep(p)
    \/ binary[p] = "original" /\ OldTsStep(p)

(* The most general client; a process that is not in a call may become one *)
(* of either program.                                                      *)
Exchange(p) ==
    /\ tpc[p] = "idle"
    /\ \E b \in Binary : binary' = [binary EXCEPT ![p] = b]
    /\ UNCHANGED tsVars

MixedInit == TsInit /\ binary \in [Proc -> Binary]

MixedTsNext ==
    \/ \E p \in Proc : MixedStep(p) \/ TsCall(p) \/ Kill(p)
    \/ Tick \/ Reboot

MixedNext ==
    \/ MixedTsNext /\ UNCHANGED binary
    \/ \E p \in Proc : Exchange(p)

MixedSpec == MixedInit /\ [][MixedNext]_mixedVars

------------------------------------------------------------------------------
(* The original takes a directory of root's for a ticket, so what follows  *)
(* is claimed as long as none stands at a ticket's path.                   *)
NoDirs == \A k \in Path : file[k].kind # "other"

(* Whichever program wrote the ticket and whichever reads it: valid means  *)
(* an update for the path that was looked at, not revoked before the check *)
(* began to look, whose end the clock has not reached.                     *)
MixedCheckSound == NoDirs => CheckSound

(* On a clock that is never set back it also means less than TTL seconds   *)
(* since the password.                                                     *)
MixedCheckFresh == NoDirs => CheckFresh

(* The original accepts no ticket from the future, so even on a clock that *)
(* is set back its answer means less than TTL seconds since the password.  *)
OldCheckFresh ==
    NoDirs => \A p \in Proc :
        binary[p] = "original" /\ ret[p] = "valid" => readAt[p] - basis[p] \in 0..(TTL - 1)

(* A ticket is written only into a directory of root's that nobody else    *)
(* may write, the original's perhaps through a symlink to one; a directory *)
(* an original has made and not yet set to 0700 holds back both programs.  *)
TicketDirSafe ==
    \A p \in Proc : tpc[p] = "open" =>
        dir = "safe" \/ (binary[p] = "original" /\ dir = "linked")

(* The inductive invariant behind them.                                    *)
MixedIInv ==
    /\ TsTypeOK
    /\ binary \in [Proc -> Binary]
    /\ NoDirs => TicketBacked /\ SnapshotBacked /\ CheckSound
==============================================================================
