------------------------------ MODULE MCPolicy -------------------------------
(* Instance of Policy for TLC: two commands in one directory, every kind   *)
(* of pattern, two groups of which one does not fit the name buffer.        *)
EXTENDS OldPolicy

Text(d, n, w) == [dir |-> d, name |-> n, words |-> w]
Ls == Text("/bin", "ls", <<>>)
Start == Text("/bin", "ctl", <<"start">>)
Stop == Text("/bin", "ctl", <<"stop">>)
All == Text("nodir", "ALL", <<>>)
Ctl == Text("nodir", "ctl", <<>>)
CtlAny == Text("/bin", "ctl", <<"*">>)
Bin == Text("/bin", "*", <<>>)
(* "/bin//ctl start"                                                       *)
Doubled == Text("/bin/", "ctl", <<"start">>)
AllTexts == {Ls, Start, Stop, All, Ctl, CtlAny, Bin, Doubled}
PlainDirs == [d \in Dirs |-> IF d = "/bin/" THEN "/bin" ELSE d]

People == {"alice", "root"}
Teams == {"ops", "guests"}
Oversized == {"guests"}
AnyDefaults == {[require_auth |-> a, log_session |-> FALSE, nss_groups |-> n,
                 timestamp_ttl |-> IF n THEN 0 ELSE 5] : a \in BOOLEAN, n \in BOOLEAN}

Asked == {[caller |-> "alice", target |-> "root", command |-> c] : c \in {Ls, Start, Stop, Doubled}}

Base == [user |-> "*", group |-> "none", run_as |-> "root", commands |-> {},
         deny |-> {}, require_auth |-> TRUE, log |-> "inherit"]

Whoever == {<<"*", "none">>, <<"alice", "none">>, <<"none", "ops">>, <<"none", "none">>}
For(w, t, c, d, a, l) ==
    [user |-> w[1], group |-> w[2], run_as |-> t, commands |-> c, deny |-> d,
     require_auth |-> a, log |-> l]

Rules ==
    {For(w, "root", c, {}, a, "inherit") :
        w \in Whoever, c \in {{}, {Start}, {Bin}}, a \in BOOLEAN}
    \cup {For(w, "root", c, {Ctl}, TRUE, "inherit") : w \in Whoever, c \in {{}, {Start}, {Bin}}}
    \cup {[Base EXCEPT !.log = "on"], [Base EXCEPT !.deny = {Bin}], [Base EXCEPT !.run_as = "*", !.commands = {CtlAny, Ls}],
          [Base EXCEPT !.run_as = "alice", !.deny = {All}],
          [Base EXCEPT !.user = "none", !.group = "guests"]}

AnyTwo == {<<>>} \cup {<<r>> : r \in Rules} \cup {<<r, s>> : r \in Rules, s \in Rules}

Few == {r \in Rules : r.require_auth /\ r.log = "inherit"}
FewTwo == {<<r, s>> : r \in Few, s \in Few}
==============================================================================
