------------------------------- MODULE Policy --------------------------------
(***************************************************************************)
(* Who may run what: the group lookup of src/identity.cyr, the rule scan   *)
(* of check_authorization, and the two other readers of a policy, lint and *)
(* the listing of -l.                                                      *)
(*                                                                         *)
(* A command and a pattern are one kind of text, taken apart at its last   *)
(* slash and its spaces: the directory (NoDir without a slash), the name,  *)
(* and the words that follow.                                              *)
(***************************************************************************)
EXTENDS Naturals, Sequences, FiniteSets

CONSTANTS
    None,          \* a rule's user or group that is not given
    Anyone,        \* "*" as user or run_as
    Names,         \* users and run_as targets
    Groups,        \* group names
    NoDir,         \* a text without a slash
    Texts,         \* commands and patterns
    Policies,      \* the rule lists load_policy may return
    Questions,     \* who asks to run what as whom
    OversizedGroups, \* groups whose record exceeds the name buffer
    MaxGroups,     \* gid_buf_max
    Defaults       \* the [defaults] it may return

Rule == [user : Names \cup {Anyone, None}, group : Groups \cup {None},
         run_as : Names \cup {Anyone}, commands : SUBSET Texts,
         deny : SUBSET Texts, require_auth : BOOLEAN,
         log : {"inherit", "on", "off"}]

Question == [caller : Names, target : Names, command : Texts]

ASSUME PolicyAssumption ==
    /\ None \notin Groups \cup Names \cup {Anyone} /\ Anyone \notin Names
    /\ Policies \subseteq Seq(Rule)
    /\ Questions \subseteq Question
    /\ MaxGroups \in Nat
    /\ Defaults \subseteq [require_auth : BOOLEAN, log_session : BOOLEAN, nss_groups : BOOLEAN,
                           timestamp_ttl : Nat]

VARIABLES
    rules,     \* input: the rules, in the order they are tried
    defaults,  \* input: the switches of [defaults]
    asked,     \* input: the question
    listed,    \* input: the caller's groups in /etc/group
    member,    \* input: the caller's groups in the directory service
    ppc,       \* the next step
    groups,    \* what identity_lookup_groups returned
    i,         \* the rule under the scan
    answer     \* the AuthzResult

given == <<rules, defaults, asked, listed, member>>
polVars == <<rules, defaults, asked, listed, member,
             ppc, groups, i, answer>>

------------------------------------------------------------------------------
(* command_matches                                                         *)
Everything == {t \in Texts : t.dir = NoDir /\ t.name \in {"ALL", "*"} /\ t.words = <<>>}

Opens(prefix, words) ==
    /\ Len(prefix) <= Len(words)
    /\ \A k \in 1..Len(prefix) : prefix[k] = words[k]
EndsInStar(words) == words # <<>> /\ words[Len(words)] = "*"
ButLast(words) == SubSeq(words, 1, Len(words) - 1)

(* "/usr/bin/systemctl restart *", "/usr/bin/*" and "systemctl".           *)
ArgumentPattern(c, p) ==
    /\ EndsInStar(p.words)
    /\ c.dir = p.dir /\ c.name = p.name
    /\ Opens(ButLast(p.words), c.words)
DirectoryPattern(c, p) ==
    p.words = <<>> /\ p.name = "*" /\ p.dir # NoDir /\ c.dir = p.dir
NamePattern(c, p) == p.dir = NoDir /\ p.words = <<>> /\ c.name = p.name

command_matches(c, p) ==
    \/ p \in Everything \/ c = p
    \/ ArgumentPattern(c, p) \/ DirectoryPattern(c, p) \/ NamePattern(c, p)

------------------------------------------------------------------------------
(* How a rule and a question meet, when the caller is in the groups gs.    *)
UserMatchesUnset(r) == r.user \in {Anyone, None, asked.caller}
UserMatches(r) == r.user = Anyone \/ r.user = asked.caller
GroupMatchesUnknown(r, gs) == r.group # None /\ (gs = {} \/ r.group \in gs)
GroupMatches(r, gs) == r.group \in gs

Concerns(r, gs) ==
    /\ UserMatches(r) \/ GroupMatches(r, gs)
    /\ r.run_as \in {Anyone, asked.target}

Denied(r) == \E p \in r.deny : command_matches(asked.command, p)
Listed(r) == r.commands = {} \/ \E p \in r.commands : command_matches(asked.command, p)

(* A rule gives the answer when its deny list or its command list names    *)
(* the command; the deny list is read first.                               *)
Denies(r, gs) == Concerns(r, gs) /\ Denied(r)
Grants(r, gs) == Concerns(r, gs) /\ ~Denied(r) /\ Listed(r)

(* Both the rule and the defaults must ask for a password; a rule that     *)
(* says nothing of the transcript takes the default.                       *)
EffectiveAuthRuleOnly(r) == r.require_auth
EffectiveAuth(r) == r.require_auth /\ defaults.require_auth
EffectiveLog(r) == IF r.log = "inherit" THEN defaults.log_session ELSE r.log = "on"

NoAnswer == [status |-> "none", by |-> 0, auth |-> TRUE, log |-> FALSE]
Answered(status, k) == [NoAnswer EXCEPT !.status = status, !.by = k]

------------------------------------------------------------------------------
PolInit ==
    /\ rules \in Policies
    /\ defaults \in Defaults
    /\ asked \in Questions
    /\ member \in SUBSET Groups /\ listed \in SUBSET member
    /\ ppc = "lookup" /\ groups = {} /\ i = 1 /\ answer = NoAnswer

(* At most MaxGroups gids fit the buffer; the rest are not looked at.      *)
Fitting(gs) == IF Cardinality(gs) <= MaxGroups THEN {gs}
               ELSE {s \in SUBSET gs : Cardinality(s) = MaxGroups}

(* identity_lookup_groups: the directory service when it is wanted and its *)
(* trusted helper starts, else /etc/group, which may be unreadable.  A     *)
(* group whose record cannot be held has no name; a local record may be    *)
(* the shorter one.                                                        *)
FromService == {s \ OversizedGroups : s \in Fitting(member)}
FromFiles == {s \ big : s \in Fitting(listed), big \in SUBSET OversizedGroups} \cup {{}}

LookupGroups ==
    /\ ppc = "lookup"
    /\ \/ defaults.nss_groups /\ groups' \in FromService
       \/ groups' \in FromFiles
    /\ ppc' = "scan"
    /\ UNCHANGED <<given, i, answer>>

(* check_authorization, one rule at a time.                                *)
Answer(a) == ppc' = "done" /\ answer' = a /\ UNCHANGED <<given, groups, i>>
AtRule == ppc = "scan" /\ i <= Len(rules)

DenyByRule ==
    /\ AtRule /\ Denies(rules[i], groups)
    /\ Answer(Answered("denied", i))

GrantByRule ==
    /\ AtRule /\ Grants(rules[i], groups)
    /\ Answer([Answered("allowed", i) EXCEPT !.auth = EffectiveAuth(rules[i]),
                                             !.log = EffectiveLog(rules[i])])

SkipSilent(r) == ~Concerns(r, groups) \/ ~Listed(r)
SkipConcerned(r) == ~Denies(r, groups) /\ ~Grants(r, groups)
SkipRule ==
    /\ AtRule /\ SkipConcerned(rules[i])
    /\ i' = i + 1
    /\ UNCHANGED <<given, ppc, groups, answer>>

NoMatchingRule ==
    /\ ppc = "scan" /\ i > Len(rules)
    /\ Answer(Answered("denied", 0))

PolNext == LookupGroups \/ DenyByRule \/ GrantByRule \/ SkipRule \/ NoMatchingRule

PolSpec == PolInit /\ [][PolNext]_polVars

------------------------------------------------------------------------------
(* lint_policy: what it finds, the first two being errors, on which        *)
(* --check ends with 1.  Rules are named by their place.                   *)
Places(R(_)) == {k \in DOMAIN rules : R(rules[k])}
ForNobody(r) == r.user = None /\ r.group = None
OpenToAll(r) == r.user = Anyone /\ ~r.require_auth
OpenToAllUnlisted(r) == OpenToAll(r) /\ r.commands # {}
GivenAway(r) == OpenToAll(r) /\ r.commands = {}
AsAnybody(r) == r.run_as = Anyone /\ r.commands = {}

Repeats(r, s) == r.user = s.user /\ r.group = s.group /\ r.run_as = s.run_as
Repeated == {k \in DOMAIN rules : \E j \in DOMAIN rules : j > k /\ Repeats(rules[k], rules[j])}

OverlapSwapped(d, c) == c \in Everything \/ command_matches(c, d)
Overlap(d, c) == c \in Everything \/ command_matches(d, c)
IdleDenies == {w \in (DOMAIN rules) \X Texts :
    LET r == rules[w[1]] IN
    w[2] \in r.deny /\ r.commands # {} /\ ~ \E c \in r.commands : Overlap(w[2], c)}

lint_policy == [
    for_nobody |-> Places(ForNobody), given_away |-> Places(GivenAway),
    no_rules |-> rules = <<>>,
    always_asks |-> defaults.timestamp_ttl = 0 /\ defaults.require_auth,
    never_asks |-> ~defaults.require_auth,
    open |-> Places(OpenToAllUnlisted), as_anybody |-> Places(AsAnybody),
    repeated |-> Repeated, idle |-> IdleDenies]

CheckExit(lint) == IF lint.for_nobody \cup lint.given_away = {} THEN 0 ELSE 1

(* _list_permissions: who the rule is for is decided once more.            *)
ListConcerns(r, gs) == UserMatches(r) \/ (r.group # None /\ GroupMatches(r, gs))
Shown(gs) == {k \in DOMAIN rules : ListConcerns(rules[k], gs)}

------------------------------------------------------------------------------
(* Every variable stays in its range.                                      *)
PolTypeOK ==
    /\ rules \in Seq(Rule) /\ asked \in Question
    /\ defaults \in Defaults
    /\ member \in SUBSET Groups /\ listed \in SUBSET member
    /\ ppc \in {"lookup", "scan", "done"}
    /\ groups \in SUBSET Groups
    /\ i \in 1..(Len(rules) + 1)
    /\ answer \in [status : {"none", "allowed", "denied"}, by : 0..Len(rules),
                   auth : BOOLEAN, log : BOOLEAN]

(* What the scan computes, said without it: with the groups gs a question  *)
(* is allowed iff some rule grants it and no earlier rule denies it.       *)
Allowed(gs) ==
    \E k \in DOMAIN rules :
        /\ Grants(rules[k], gs)
        /\ \A j \in 1..(k - 1) : ~Denies(rules[j], gs)

(* The scan allows exactly what it should, by the first rule that grants   *)
(* it, with that rule's switches and none of an earlier rule's.            *)
ScanIsFirstMatch ==
    ppc = "done" =>
        /\ answer.status = "allowed" <=> Allowed(groups)
        /\ answer.status = "allowed" =>
              LET k == answer.by IN
              /\ k \in DOMAIN rules /\ Grants(rules[k], groups)
              /\ answer.auth = (rules[k].require_auth /\ defaults.require_auth)
              /\ answer.log = EffectiveLog(rules[k])
              /\ \A j \in 1..(k - 1) :
                    ~Grants(rules[j], groups) /\ ~Denies(rules[j], groups)

(* A group the lookup lost costs the caller a permission and never gives   *)
(* one, as long as no rule for a group denies anything (ADR-010).          *)
GroupRulesOnlyAllow == \A k \in DOMAIN rules : rules[k].group # None => rules[k].deny = {}
LostGroupsOnlyDeny ==
    GroupRulesOnlyAllow /\ answer.status = "allowed" => Allowed(member)

(* "so a fallback can only deny an escalation, never grant one that NSS    *)
(* wouldn't" (identity.cyr), whatever the rules.                           *)
FallbackOnlyDenies == answer.status = "allowed" => Allowed(member)

(* -l shows the caller the rule that lets it run what it may run.          *)
ListingShowsGrants == answer.status = "allowed" => answer.by \in Shown(groups)

(* What lint says of the scan is true: a rule for nobody answers nothing,  *)
(* without rules all is denied, without the global switch nothing asks for *)
(* a password, of two rules for the same caller and target only the first  *)
(* answers (as long as it names no commands: else the scan goes on to the  *)
(* second, whatever the message says).  And no command that everybody may  *)
(* run without a password gets past lint in silence.                       *)
OnlyTheFirstAnswers(k) ==
    \A j \in DOMAIN rules : j > k /\ Repeats(rules[k], rules[j]) => answer.by # j

LintIsRight ==
    /\ answer.by \notin lint_policy.for_nobody
    /\ lint_policy.no_rules => answer.status # "allowed"
    /\ answer.status = "allowed" /\ lint_policy.never_asks => ~answer.auth
    /\ \A k \in lint_policy.repeated : rules[k].commands = {} => OnlyTheFirstAnswers(k)
    /\ answer.status = "allowed" /\ ~answer.auth =>
          \/ lint_policy.never_asks
          \/ rules[answer.by].user # Anyone
          \/ answer.by \in lint_policy.open \cup lint_policy.given_away

------------------------------------------------------------------------------
(* The inductive invariant: no rule before i has anything to say.          *)
Undecided(k) == ~Grants(rules[k], groups) /\ ~Denies(rules[k], groups)
Scanned == \A k \in 1..(i - 1) : Undecided(k)
Decided ==
    ppc = "done" =>
        \/ /\ answer.status = "allowed" /\ answer.by = i /\ i \in DOMAIN rules
           /\ Grants(rules[i], groups)
           /\ answer.auth = EffectiveAuth(rules[i]) /\ answer.log = EffectiveLog(rules[i])
        \/ /\ answer.status = "denied" /\ answer.by = i /\ i \in DOMAIN rules
           /\ Denies(rules[i], groups)
        \/ answer.status = "denied" /\ answer.by = 0 /\ i = Len(rules) + 1

PolIInv ==
    /\ PolTypeOK /\ Scanned /\ Decided
    /\ answer.status # "none" <=> ppc = "done"
    /\ ppc # "done" => answer = NoAnswer
    /\ ppc = "lookup" => i = 1
    /\ groups \subseteq member
==============================================================================
