----------------------------- MODULE OldPolicy -------------------------------
(***************************************************************************)
(* check_authorization, lint_policy, -l and --check of the original        *)
(* program (rust-old/src), read beside the port's on the same policy.      *)
(*                                                                         *)
(* The two read a directory differently.  The original compares paths by   *)
(* their components, so that "/bin//ls" and "/bin/./ls" lie in "/bin"; the *)
(* port compares the bytes before the last slash.  Plain gives each        *)
(* directory the one it stands for.                                        *)
(***************************************************************************)
EXTENDS Policy

CONSTANT Plain

Dirs == {t.dir : t \in Texts}

ASSUME OldPolicyAssumption ==
    /\ Plain \in [Dirs -> Dirs]
    /\ \A d \in Dirs : Plain[Plain[d]] = Plain[d] /\ (Plain[d] = NoDir <=> d = NoDir)

------------------------------------------------------------------------------
(* command_matches                                                         *)
OldDirectoryPattern(c, p) ==
    /\ p.words = <<>> /\ p.name = "*" /\ p.dir # NoDir
    /\ Plain[c.dir] = Plain[p.dir]

old_command_matches(c, p) ==
    \/ p \in Everything \/ c = p
    \/ ArgumentPattern(c, p) \/ OldDirectoryPattern(c, p) \/ NamePattern(c, p)

------------------------------------------------------------------------------
(* check_authorization: a rule with a deny pattern for the command ends    *)
(* the scan, and so does the first rule that lists it.                     *)
OldUserMatches(r) == r.user # None /\ r.user \in {Anyone, asked.caller}
OldConcerns(r, gs) ==
    /\ OldUserMatches(r) \/ (r.group # None /\ r.group \in gs)
    /\ r.run_as = Anyone \/ r.run_as = asked.target
OldDenies(r, gs) ==
    OldConcerns(r, gs) /\ \E p \in r.deny : old_command_matches(asked.command, p)
OldMatched(r, gs) ==
    /\ OldConcerns(r, gs) /\ ~OldDenies(r, gs)
    /\ r.commands = {} \/ \E p \in r.commands : old_command_matches(asked.command, p)

OldFirst(k, gs) ==
    /\ k \in DOMAIN rules /\ OldMatched(rules[k], gs)
    /\ \A j \in 1..(k - 1) : ~OldMatched(rules[j], gs) /\ ~OldDenies(rules[j], gs)
OldAllowed(gs) == \E k \in DOMAIN rules :
    OldMatched(rules[k], gs) /\ \A j \in 1..(k - 1) : ~OldDenies(rules[j], gs)
OldAuth(r) == r.require_auth /\ defaults.require_auth

(* get_user_groups always asks the directory service, without a limit; a   *)
(* group whose record it cannot get is left out.                           *)
get_user_groups(unread) == member \ unread

------------------------------------------------------------------------------
(* lint_policy.  A pattern that allows loses its trailing " *"; what is    *)
(* left opens the deny pattern when the text does (no word here is the     *)
(* beginning of another).                                                  *)
Stripped(words) ==
    LET IsLast(n) == /\ n > 0 => words[n] # "*"
                     /\ \A k \in (n + 1)..Len(words) : words[k] = "*"
    IN  SubSeq(words, 1, CHOOSE n \in 0..Len(words) : IsLast(n))
OldOverlap(d, c) ==
    \/ c \in Everything
    \/ d.dir = c.dir /\ d.name = c.name /\ Opens(Stripped(c.words), d.words)
    \/ old_command_matches(d, c)
OldIdleDenies == {w \in (DOMAIN rules) \X Texts :
    LET r == rules[w[1]] IN
    w[2] \in r.deny /\ r.commands # {} /\ ~ \E c \in r.commands : OldOverlap(w[2], c)}

OldRepeated == {w \in (DOMAIN rules) \X (DOMAIN rules) : w[1] < w[2] /\ Repeats(rules[w[1]], rules[w[2]])}

DeniesOfAll(r) == r.deny # {} /\ r.commands = {}

old_lint_policy == [
    for_nobody |-> Places(ForNobody), given_away |-> Places(GivenAway),
    no_rules |-> Len(rules) = 0,
    always_asks |-> defaults.timestamp_ttl = 0 /\ defaults.require_auth,
    never_asks |-> ~defaults.require_auth,
    open |-> Places(OpenToAll), as_anybody |-> Places(AsAnybody),
    repeated |-> OldRepeated, idle |-> OldIdleDenies, denies_of_all |-> Places(DeniesOfAll)]

OldCheckFails(lint) == lint.for_nobody # {} \/ lint.given_away # {}

(* list_permissions: the rules shown.                                      *)
OldShown(gs) == {k \in DOMAIN rules :
    OldUserMatches(rules[k]) \/ (rules[k].group # None /\ rules[k].group \in gs)}

------------------------------------------------------------------------------
PatternDirs == UNION {{p.dir : p \in rules[k].commands \cup rules[k].deny} : k \in DOMAIN rules}
PlainlyAsked == \A d \in PatternDirs \cup {asked.command.dir} : Plain[d] = d

(* Where the paths are written plainly, a question about the same policy   *)
(* and the same groups is answered alike: the same verdict, by the same    *)
(* rule, with or without a password.                                       *)
PortAgrees ==
    ppc = "done" /\ PlainlyAsked =>
        /\ answer.status = "allowed" <=> OldAllowed(groups)
        /\ answer.status = "allowed" =>
              OldFirst(answer.by, groups) /\ answer.auth = OldAuth(rules[answer.by])

(* However they are written, the port allows nothing the original refused  *)
(* as long as no deny list names a whole directory; and what it allows     *)
(* after losing groups the original, having found at least those, allowed  *)
(* too, as long as no rule for a group denies anything.                    *)
DirectoryDenied == \E k \in DOMAIN rules : \E p \in rules[k].deny :
    p.words = <<>> /\ p.name = "*" /\ p.dir # NoDir
PortNeverWider ==
    answer.status = "allowed" /\ ~DirectoryDenied =>
        /\ OldAllowed(groups)
        /\ GroupRulesOnlyAllow =>
              \A unread \in SUBSET (Groups \ groups) : OldAllowed(get_user_groups(unread))

(* --check ends alike in both; what the port warns of, the original does,  *)
(* and the port warns of every deny pattern the original holds for idle.   *)
(* -l shows the same rules, the one that answered among them.              *)
CheckAgrees ==
    ppc = "done" =>
    LET new == lint_policy old == old_lint_policy IN
    /\ CheckExit(new) = 1 <=> OldCheckFails(old)
    /\ new.open \subseteq old.open
    /\ new.repeated = {w[1] : w \in old.repeated}
    /\ old.idle \subseteq new.idle
    /\ Shown(groups) = OldShown(groups) /\ ListingShowsGrants
==============================================================================
