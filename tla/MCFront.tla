------------------------------- MODULE MCFront -------------------------------
(* Instance of Front for TLC, over that of Policy: every command line of at *)
(* most three arguments and those of four that begin with -u or -p, every   *)
(* way a command can be written, and every environment of at most three     *)
(* entries.                                                                 *)
EXTENDS MCPolicy, Front, TLC

Spelled(kind, dir, name, length) ==
    [kind |-> kind, dir |-> dir, name |-> name, meta |-> FALSE, length |-> length]
Spellings ==
    ("ls" :> Spelled("bare", NoDir, "ls", 2)) @@
    ("ctl" :> Spelled("bare", NoDir, "ctl", 3)) @@
    ("/bin//ctl" :> Spelled("absolute", "/bin/", "ctl", 9)) @@
    ("./ls" :> Spelled("relative", ".", "ls", 4)) @@
    ("a;b" :> [Spelled("bare", NoDir, "a;b", 3) EXCEPT !.meta = TRUE]) @@
    ("" :> Spelled("empty", NoDir, "", 0)) @@
    [a \in {"start", "stop"} \cup Options |-> Spelled("bare", NoDir, a, 5)]
Said == {"ls", "ctl", "/bin//ctl", "./ls", "a;b", "", "start", "stop"}
Accounts == People \cup Arguments
Upto(n) == UNION {[1..k -> Arguments] : k \in 0..n}
FourArguments == Upto(3) \cup {<<o>> \o l : o \in {"-u", "-p"}, l \in [1..3 -> Arguments]}

TwoLimits == {9, 64}
Installed == {{<<"/bin", "ls">>, <<"/bin", "ctl">>}, {<<"/bin", "ls">>, <<"/usr/bin", "ctl">>}}
SearchPath2 == <<"/usr/bin", "/bin">>

Entry(n, v) == [name |-> n, value |-> v]
SomeNames == {"PATH", "TERM", "LD_PRELOAD", "BASH_FUNC_x", "IFS", "EDITOR", "="}
ThreeEntries == UNION {[1..n -> {Entry(x, v) : x \in SomeNames, v \in {"a", "b"}}] : n \in 0..3}
KeepAnything == SUBSET {"PATH", "LD_PRELOAD", "BASH_FUNC_x", "IFS", "EDITOR"}
Prefixes == {"LD_PRELOAD", "BASH_FUNC_x"}
==============================================================================
