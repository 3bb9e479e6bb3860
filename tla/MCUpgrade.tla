------------------------------ MODULE MCUpgrade ------------------------------
(* Instances of Upgrade for TLC.                                           *)
EXTENDS Upgrade, TLC

One == {"p1"}
Alice == {"alice"}
NoTtys == {}
Pts == {"pts"}
NoDevices == {}
Null == {"null"}
Pipe == {"pipe"}
(* An unsafe directory comes of an umask that protects nothing.            *)
AnyDirButUnsafe == DirState \ {"unsafe"}
MissingOrSafe == {"absent", "safe"}
MadeByTmpfiles == {"safe"}
Interchangeable == Permutations(Proc)

(* A permitted run that needs a password, with a pipe as stdin.            *)
Plain == [session |-> <<"alice", "pipe">>, mode |-> "run", verdict |-> "allowed",
          named |-> TRUE, auth |-> TRUE, log |-> FALSE, input |-> FALSE,
          target |-> "root"]

(* Whatever one user may ask for: every switch of a permitted rule, a      *)
(* denial, an invalid command, a rule with an unknown capability, the      *)
(* other modes, and evaluate() in its three modes; and, what matters to a  *)
(* ticket, from a terminal.                                                *)
AnyRequest ==
    {[Plain EXCEPT !.target = t] : t \in {"root", "missing"}}
    \cup {[Plain EXCEPT !.auth = FALSE, !.target = t] :
              t \in {"root", "caller", "other", "missing"}}
    \cup {[Plain EXCEPT !.auth = FALSE, !.log = TRUE, !.input = i, !.target = t] :
              i \in BOOLEAN, t \in {"root", "other"}}
    \cup {[Plain EXCEPT !.verdict = v] : v \in {"denied", "invalid"}}
    \cup {[Plain EXCEPT !.named = FALSE]}
    \cup {[Plain EXCEPT !.mode = m] : m \in {"invalidate", "inform"} \cup LibMode}
    \cup {[Plain EXCEPT !.mode = "cached", !.verdict = "denied"],
          [Plain EXCEPT !.mode = "cached", !.auth = FALSE]}
    \cup {[Plain EXCEPT !.mode = m, !.session = <<"alice", "pts">>] :
              m \in {"run", "cached"}}

(* A run, the revocation of its ticket, and a run of the same user whose   *)
(* stdin is /dev/null.                                                     *)
Competing ==
    {Plain, [Plain EXCEPT !.mode = "invalidate"],
     [Plain EXCEPT !.session = <<"alice", "null">>]}

(* Of what may be left at a ticket's path, all that matters to a race may  *)
(* be found at the path that both programs use.                            *)
TwoInit == UpInit /\ \A k \in Path : k[2] \in Device => file[k] = Absent
TwoSpec == TwoInit /\ [][UpNext]_upVars
==============================================================================
