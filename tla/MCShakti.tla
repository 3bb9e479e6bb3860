------------------------------ MODULE MCShakti -------------------------------
(* Instance of Shakti for TLC.                                             *)
EXTENDS Shakti

One == {"p1"}
Alice == {"alice"}
NoTtys == {}
Null == {"null"}
Pipe == {"pipe"}
MadeByTmpfiles == {"safe"}

(* A transcribed run that needs no password.                               *)
Transcribed == [session |-> <<"alice", "pipe">>, mode |-> "run", verdict |-> "allowed",
                named |-> TRUE, auth |-> FALSE, log |-> TRUE, input |-> TRUE,
                target |-> "root"]
Logged == {Transcribed}
==============================================================================
