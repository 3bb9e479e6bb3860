---------------------------- MODULE PolicyProofs -----------------------------
(***************************************************************************)
(* Proofs about Policy for every rule list and every question: the scan    *)
(* computes the first match, the group fallback is safe under the          *)
(* condition ADR-010 leaves out, and the port answers as the original.     *)
(* And about Front, the way there and on: for every command line and every *)
(* environment the port does what the original did.                        *)
(***************************************************************************)
EXTENDS Front, SequenceTheorems, WellFoundedInduction, TLAPS

LEMMA PolInvInit == PolInit => PolIInv
BY PolicyAssumption
   DEF PolInit, PolIInv, PolTypeOK, Scanned, Decided, NoAnswer

(* What a lookup returns is among the groups it was given.                 *)
LEMMA LookupBounded ==
    ASSUME NEW gs, NEW s \in Fitting(gs)
    PROVE  s \subseteq gs
BY DEF Fitting

(* A rule means the same as long as the question and the groups stay.      *)
LEMMA SameMeaning ==
    ASSUME UNCHANGED <<given, groups>>
    PROVE  \A k : /\ Undecided(k)' <=> Undecided(k)
                  /\ Grants(rules[k], groups)' <=> Grants(rules[k], groups)
                  /\ Denies(rules[k], groups)' <=> Denies(rules[k], groups)
                  /\ EffectiveAuth(rules[k])' = EffectiveAuth(rules[k])
                  /\ EffectiveLog(rules[k])' = EffectiveLog(rules[k])
BY DEF given, Undecided, Grants, Denies, Concerns, UserMatches, GroupMatches,
       Denied, Listed, EffectiveAuth, EffectiveLog

LEMMA SwitchTypes ==
    ASSUME PolTypeOK, NEW k \in DOMAIN rules
    PROVE  EffectiveAuth(rules[k]) \in BOOLEAN /\ EffectiveLog(rules[k]) \in BOOLEAN
BY PolicyAssumption DEF PolTypeOK, Rule, EffectiveAuth, EffectiveLog

LEMMA PolInvStep ==
    ASSUME PolIInv, [PolNext]_polVars
    PROVE  PolIInv'
<1> USE DEF PolIInv, PolTypeOK
<1>1. CASE LookupGroups
  <2>1. groups' \subseteq member
    <3>1. \A s \in Fitting(member) : s \subseteq member
      BY LookupBounded
    <3>2. \A s \in Fitting(listed) : s \subseteq member
      BY LookupBounded
    <3> QED BY <1>1, <3>1, <3>2 DEF LookupGroups, FromService, FromFiles
  <2>2. i = 1
    BY <1>1 DEF LookupGroups
  <2> QED BY <1>1, <2>1, <2>2 DEF LookupGroups, Scanned, Decided, given
<1>2. CASE DenyByRule
  <2>1. UNCHANGED <<given, groups, i>> /\ ppc' = "done" /\ i \in DOMAIN rules
    BY <1>2 DEF DenyByRule, AtRule, Answer
  <2>2. answer' = [status |-> "denied", by |-> i, auth |-> TRUE, log |-> FALSE]
    BY <1>2 DEF DenyByRule, Answer, Answered, NoAnswer
  <2>3. Denies(rules[i], groups)
    BY <1>2 DEF DenyByRule
  <2>4. Scanned' /\ Decided'
    BY <2>1, <2>2, <2>3, SameMeaning DEF Scanned, Decided, given
  <2> QED BY <1>2, <2>1, <2>2, <2>4 DEF given, DenyByRule, AtRule
<1>3. CASE GrantByRule
  <2>1. UNCHANGED <<given, groups, i>> /\ ppc' = "done" /\ i \in DOMAIN rules
    BY <1>3 DEF GrantByRule, AtRule, Answer
  <2>2. answer' = [status |-> "allowed", by |-> i, auth |-> EffectiveAuth(rules[i]),
                   log |-> EffectiveLog(rules[i])]
    BY <1>3 DEF GrantByRule, Answer, Answered, NoAnswer
  <2>3. Grants(rules[i], groups)
    BY <1>3 DEF GrantByRule
  <2>4. Scanned' /\ Decided'
    BY <2>1, <2>2, <2>3, SameMeaning DEF Scanned, Decided, given
  <2> QED BY <1>3, <2>1, <2>2, <2>4, SwitchTypes DEF given, GrantByRule, AtRule
<1>4. CASE SkipRule
  <2>1. UNCHANGED <<given, ppc, groups, answer>> /\ i' = i + 1 /\ i \in DOMAIN rules
    BY <1>4 DEF SkipRule, AtRule
  <2>2. Undecided(i) /\ ppc = "scan"
    BY <1>4 DEF SkipRule, AtRule, SkipConcerned, Undecided
  <2>3. Scanned' /\ Decided'
    BY <2>1, <2>2, SameMeaning DEF Scanned, Decided, given
  <2> QED BY <2>1, <2>2, <2>3 DEF given
<1>5. CASE NoMatchingRule
  <2>1. UNCHANGED <<given, groups, i>> /\ ppc' = "done" /\ i = Len(rules) + 1
    BY <1>5 DEF NoMatchingRule, Answer
  <2>2. answer' = [status |-> "denied", by |-> 0, auth |-> TRUE, log |-> FALSE]
    BY <1>5 DEF NoMatchingRule, Answer, Answered, NoAnswer
  <2>3. Scanned' /\ Decided'
    BY <2>1, <2>2, SameMeaning DEF Scanned, Decided, given
  <2> QED BY <1>5, <2>1, <2>2, <2>3 DEF given, NoMatchingRule
<1>6. CASE UNCHANGED polVars
  <2>1. Scanned' /\ Decided'
    BY <1>6, SameMeaning DEF polVars, given, Scanned, Decided
  <2> QED BY <1>6, <2>1 DEF polVars
<1> QED BY <1>1, <1>2, <1>3, <1>4, <1>5, <1>6 DEF PolNext

(* What the scan has established at every point.                           *)
THEOREM PolInductive == PolSpec => []PolIInv
BY PolInvInit, PolInvStep, PTL DEF PolSpec

------------------------------------------------------------------------------
LEMMA FirstMatchHere == PolIInv => ScanIsFirstMatch
<1> SUFFICES ASSUME PolIInv, ppc = "done" PROVE ScanIsFirstMatch
  BY DEF ScanIsFirstMatch
<1> USE DEF PolIInv, PolTypeOK
<1>1. \A k \in 1..(i - 1) : ~Grants(rules[k], groups) /\ ~Denies(rules[k], groups)
  BY DEF Scanned, Undecided
<1>2. CASE answer.status = "allowed"
  <2>1. /\ answer.by = i /\ i \in DOMAIN rules /\ Grants(rules[i], groups)
        /\ answer.auth = EffectiveAuth(rules[i]) /\ answer.log = EffectiveLog(rules[i])
    BY <1>2 DEF Decided
  <2>2. Allowed(groups)
    BY <1>1, <2>1 DEF Allowed
  <2> QED BY <1>1, <1>2, <2>1, <2>2 DEF ScanIsFirstMatch, EffectiveAuth
<1>3. CASE answer.status = "denied"
  <2>1. \/ i \in DOMAIN rules /\ Denies(rules[i], groups)
        \/ i = Len(rules) + 1
    BY <1>3 DEF Decided
  <2>2. Denies(rules[i], groups) => ~Grants(rules[i], groups)
    BY DEF Denies, Grants
  <2>3. ~Allowed(groups)
    <3> SUFFICES ASSUME NEW k \in DOMAIN rules, Grants(rules[k], groups),
                        \A j \in 1..(k - 1) : ~Denies(rules[j], groups)
                 PROVE  FALSE
      BY DEF Allowed
    <3>1. k \in 1..Len(rules) /\ i \in Nat
      OBVIOUS
    <3>2. ~(k < i)
      BY <1>1, <3>1
    <3> QED BY <2>1, <2>2, <3>1, <3>2
  <2> QED BY <1>3, <2>3 DEF ScanIsFirstMatch
<1> QED BY <1>2, <1>3

(* The scan returns the first rule that has anything to say, and so allows *)
(* a question iff some rule grants it and no earlier one denies it.        *)
THEOREM ScanIsCorrect == PolSpec => []ScanIsFirstMatch
BY FirstMatchHere, PolInductive, PTL

LEMMA LostGroupsHere == PolIInv => LostGroupsOnlyDeny
<1> SUFFICES ASSUME PolIInv, GroupRulesOnlyAllow, answer.status = "allowed"
             PROVE  Allowed(member)
  BY DEF LostGroupsOnlyDeny
<1> USE DEF PolIInv, PolTypeOK
<1>1. /\ i \in DOMAIN rules /\ Grants(rules[i], groups)
      /\ \A j \in 1..(i - 1) : ~Denies(rules[j], groups)
  BY DEF Scanned, Undecided, Decided
<1>2. Grants(rules[i], member)
  BY <1>1 DEF Grants, Concerns, GroupMatches
<1>3. ASSUME NEW j \in 1..(i - 1), Denies(rules[j], member)
      PROVE  FALSE
  <2>1. j \in DOMAIN rules /\ rules[j] \in Rule
    BY <1>1
  <2>2. rules[j].deny # {}
    BY <1>3 DEF Denies, Denied
  <2>3. rules[j].group = None
    BY <2>1, <2>2 DEF GroupRulesOnlyAllow
  <2>4. rules[j].group \notin member
    BY <2>3, PolicyAssumption
  <2>5. Denies(rules[j], groups)
    BY <1>3, <2>4 DEF Denies, Concerns, GroupMatches
  <2> QED BY <1>1, <2>5
<1> QED BY <1>1, <1>2, <1>3 DEF Allowed

(* Where no rule for a group denies anything, whatever groups the lookup   *)
(* loses, it gives no permission that the complete list would not.         *)
THEOREM LostGroupsAreSafe == PolSpec => []LostGroupsOnlyDeny
BY LostGroupsHere, PolInductive, PTL

------------------------------------------------------------------------------
(* The two readings of a policy, rule by rule.  The original's patterns    *)
(* match at least what the port's do.                                      *)
LEMMA OldMatchesMore ==
    ASSUME NEW c, NEW p, command_matches(c, p)
    PROVE  old_command_matches(c, p)
BY DEF command_matches, old_command_matches, DirectoryPattern, OldDirectoryPattern

LEMMA PlainMatchesSame ==
    ASSUME NEW c, NEW p, Plain[c.dir] = c.dir, Plain[p.dir] = p.dir
    PROVE  old_command_matches(c, p) <=> command_matches(c, p)
BY DEF command_matches, old_command_matches, DirectoryPattern, OldDirectoryPattern

(* A directory pattern aside, they match the same.                         *)
LEMMA UndirectedMatchesSame ==
    ASSUME NEW c, NEW p, ~(p.words = <<>> /\ p.name = "*" /\ p.dir # NoDir)
    PROVE  old_command_matches(c, p) <=> command_matches(c, p)
BY DEF command_matches, old_command_matches, DirectoryPattern, OldDirectoryPattern

LEMMA ConcernsSame ==
    ASSUME PolIInv, NEW k \in DOMAIN rules
    PROVE  OldConcerns(rules[k], groups) <=> Concerns(rules[k], groups)
<1>1. rules[k] \in Rule /\ asked \in Question
  BY DEF PolIInv, PolTypeOK
<1>2. rules[k].group # None \/ rules[k].group \notin groups
  BY PolicyAssumption DEF PolIInv, PolTypeOK
<1>3. Anyone # None /\ asked.caller # None
  BY <1>1, PolicyAssumption DEF Question
<1> QED BY <1>1, <1>2, <1>3 DEF OldConcerns, Concerns, OldUserMatches, UserMatches, GroupMatches

LEMMA AnsweredByFirst ==
    ASSUME PolIInv, ppc = "done"
    PROVE  /\ answer.status = "allowed" =>
                /\ answer.by \in DOMAIN rules /\ Grants(rules[answer.by], groups)
                /\ answer.auth = EffectiveAuth(rules[answer.by])
                /\ \A j \in 1..(answer.by - 1) : Undecided(j)
           /\ answer.status = "denied" =>
                \/ \A j \in DOMAIN rules : Undecided(j)
                \/ \E k \in DOMAIN rules :
                      Denies(rules[k], groups) /\ \A j \in 1..(k - 1) : Undecided(j)
           /\ answer.status \in {"allowed", "denied"}
BY DEF PolIInv, PolTypeOK, Scanned, Decided

LEMMA PortAgreesHere == PolIInv => PortAgrees
<1> SUFFICES ASSUME PolIInv, ppc = "done", PlainlyAsked
             PROVE  /\ answer.status = "allowed" <=> OldAllowed(groups)
                    /\ answer.status = "allowed" =>
                         OldFirst(answer.by, groups) /\ answer.auth = OldAuth(rules[answer.by])
  BY DEF PortAgrees
<1>1. ASSUME NEW k \in DOMAIN rules
      PROVE  /\ OldMatched(rules[k], groups) <=> Grants(rules[k], groups)
             /\ OldDenies(rules[k], groups) <=> Denies(rules[k], groups)
  <2>1. \A p \in rules[k].commands \cup rules[k].deny :
            old_command_matches(asked.command, p) <=> command_matches(asked.command, p)
    BY PlainMatchesSame DEF PlainlyAsked, PatternDirs
  <2>2. OldConcerns(rules[k], groups) <=> Concerns(rules[k], groups)
    BY ConcernsSame
  <2> QED BY <2>1, <2>2 DEF OldMatched, OldDenies, Grants, Denies, Denied, Listed
<1>2. DOMAIN rules = 1..Len(rules) /\ Len(rules) \in Nat
  BY DEF PolIInv, PolTypeOK
<1>3. ASSUME answer.status = "allowed"
      PROVE  OldFirst(answer.by, groups) /\ answer.auth = OldAuth(rules[answer.by])
  BY <1>1, <1>2, <1>3, AnsweredByFirst DEF OldFirst, Undecided, EffectiveAuth, OldAuth
<1>4. ASSUME answer.status = "denied", NEW k \in DOMAIN rules,
             OldMatched(rules[k], groups), \A j \in 1..(k - 1) : ~OldDenies(rules[j], groups)
      PROVE  FALSE
  <2>1. Grants(rules[k], groups) /\ \A j \in 1..(k - 1) : ~Denies(rules[j], groups)
    BY <1>1, <1>2, <1>4
  <2>2. PICK m \in DOMAIN rules :
            Denies(rules[m], groups) /\ \A j \in 1..(m - 1) : Undecided(j)
    BY <1>4, <2>1, AnsweredByFirst DEF Undecided
  <2>3. ~(m < k) /\ ~(k < m)
    BY <1>2, <2>1, <2>2 DEF Undecided
  <2>4. m = k
    BY <1>2, <2>3
  <2> QED BY <2>1, <2>2, <2>4 DEF Grants, Denies
<1> QED BY <1>3, <1>4, AnsweredByFirst DEF OldAllowed, OldFirst

(* Written plainly, a question has one answer in both programs.            *)
THEOREM PortAnswersAlike == PolSpec => []PortAgrees
BY PortAgreesHere, PolInductive, PTL

(* Where rules for groups deny nothing, more groups mean more permissions. *)
LEMMA MoreGroupsAllowMore ==
    ASSUME PolTypeOK, GroupRulesOnlyAllow, NEW gs, groups \subseteq gs, NEW k \in DOMAIN rules
    PROVE  /\ OldDenies(rules[k], gs) => OldDenies(rules[k], groups)
           /\ OldMatched(rules[k], groups) => OldMatched(rules[k], gs)
<1>1. CASE rules[k].group = None
  BY <1>1 DEF OldDenies, OldMatched, OldConcerns, OldUserMatches
<1>2. CASE rules[k].group # None
  <2>1. ~OldDenies(rules[k], gs)
    BY <1>2 DEF GroupRulesOnlyAllow, OldDenies
  <2>2. OldConcerns(rules[k], groups) => OldConcerns(rules[k], gs)
    BY DEF OldConcerns
  <2> QED BY <2>1, <2>2 DEF OldMatched
<1> QED BY <1>1, <1>2

LEMMA NeverWiderHere == PolIInv => PortNeverWider
<1> SUFFICES ASSUME PolIInv, answer.status = "allowed", ~DirectoryDenied
             PROVE  /\ OldAllowed(groups)
                    /\ GroupRulesOnlyAllow => \A unread \in SUBSET (Groups \ groups) :
                          OldAllowed(get_user_groups(unread))
  BY DEF PortNeverWider
<1> DEFINE by == answer.by
<1>1. /\ by \in DOMAIN rules /\ Grants(rules[by], groups)
      /\ \A j \in 1..(by - 1) : Undecided(j)
  BY AnsweredByFirst DEF PolIInv
<1>2. DOMAIN rules = 1..Len(rules) /\ Len(rules) \in Nat
  BY DEF PolIInv, PolTypeOK
<1>3. ASSUME NEW k \in DOMAIN rules
      PROVE  /\ OldDenies(rules[k], groups) <=> Denies(rules[k], groups)
             /\ Grants(rules[k], groups) => OldMatched(rules[k], groups)
  <2>1. \A p \in rules[k].deny :
            old_command_matches(asked.command, p) <=> command_matches(asked.command, p)
    BY UndirectedMatchesSame DEF DirectoryDenied
  <2>2. \A p \in rules[k].commands :
            command_matches(asked.command, p) => old_command_matches(asked.command, p)
    BY OldMatchesMore
  <2>3. OldConcerns(rules[k], groups) <=> Concerns(rules[k], groups)
    BY ConcernsSame
  <2> QED BY <2>1, <2>2, <2>3 DEF OldMatched, OldDenies, Grants, Denies, Denied, Listed
<1>4. OldMatched(rules[by], groups) /\ \A j \in 1..(by - 1) : ~OldDenies(rules[j], groups)
  BY <1>1, <1>2, <1>3 DEF Undecided
<1>5. ASSUME GroupRulesOnlyAllow, NEW unread \in SUBSET (Groups \ groups)
      PROVE  OldAllowed(get_user_groups(unread))
  <2>1. groups \subseteq get_user_groups(unread) /\ PolTypeOK
    BY <1>5 DEF PolIInv, get_user_groups
  <2>2. \A k \in DOMAIN rules :
            /\ OldDenies(rules[k], get_user_groups(unread)) => OldDenies(rules[k], groups)
            /\ OldMatched(rules[k], groups) => OldMatched(rules[k], get_user_groups(unread))
    BY <1>5, <2>1, MoreGroupsAllowMore
  <2> QED BY <1>1, <1>2, <1>4, <2>2 DEF OldAllowed
<1> QED BY <1>1, <1>4, <1>5 DEF OldAllowed

(* Whatever the spelling and whichever groups were lost, the port gives no *)
(* permission the original did not.                                        *)
THEOREM PortIsNeverWider == PolSpec => []PortNeverWider
BY NeverWiderHere, PolInductive, PTL

------------------------------------------------------------------------------
LEMMA AnswersSomebody ==
    ASSUME PolIInv, NEW k \in DOMAIN rules, Grants(rules[k], groups) \/ Denies(rules[k], groups)
    PROVE  k \in Shown(groups) /\ ~ForNobody(rules[k])
<1>1. rules[k] \in Rule /\ asked \in Question /\ groups \subseteq Groups
  BY DEF PolIInv, PolTypeOK
<1>2. UserMatches(rules[k]) \/ (GroupMatches(rules[k], groups) /\ rules[k].group # None)
  BY <1>1, PolicyAssumption DEF Grants, Denies, Concerns, GroupMatches
<1>3. UserMatches(rules[k]) => rules[k].user # None
  BY <1>1, PolicyAssumption DEF UserMatches, Question
<1> QED BY <1>2, <1>3 DEF Shown, ListConcerns, ForNobody

LEMMA ListingHere == PolIInv => ListingShowsGrants
<1> SUFFICES ASSUME PolIInv, answer.status = "allowed" PROVE answer.by \in Shown(groups)
  BY DEF ListingShowsGrants
<1> QED BY AnsweredByFirst, AnswersSomebody DEF PolIInv

(* Whoever may run a command is shown the rule by -l.                      *)
THEOREM ListingIsComplete == PolSpec => []ListingShowsGrants
BY ListingHere, PolInductive, PTL

(* A rule without commands leaves nothing for a later one that is for the  *)
(* same caller and target.                                                 *)
LEMMA FirstLeavesNothing ==
    ASSUME PolIInv, NEW k \in DOMAIN rules, NEW j \in DOMAIN rules, j > k,
           Repeats(rules[k], rules[j]), rules[k].commands = {}, answer.by = j
    PROVE  FALSE
<1>1. /\ answer.by \in 0..Len(rules) /\ DOMAIN rules = 1..Len(rules) /\ i \in 1..(Len(rules) + 1)
  BY DEF PolIInv, PolTypeOK
<1>2. ppc = "done"
  BY <1>1 DEF PolIInv, NoAnswer
<1>3. j = i /\ (Grants(rules[j], groups) \/ Denies(rules[j], groups))
  BY <1>1, <1>2 DEF PolIInv, Decided
<1>4. Concerns(rules[k], groups)
  BY <1>3 DEF Grants, Denies, Concerns, UserMatches, GroupMatches, Repeats
<1>5. Grants(rules[k], groups) \/ Denies(rules[k], groups)
  BY <1>4 DEF Grants, Denies, Listed
<1>6. Undecided(k)
  BY <1>1, <1>3 DEF PolIInv, Scanned
<1> QED BY <1>5, <1>6 DEF Undecided

LEMMA LintHere == PolIInv => LintIsRight
<1> SUFFICES ASSUME PolIInv PROVE LintIsRight
  OBVIOUS
<1>1. /\ lint_policy.for_nobody = Places(ForNobody)
      /\ lint_policy.no_rules = (rules = <<>>)
      /\ lint_policy.never_asks = ~defaults.require_auth
      /\ lint_policy.open = Places(OpenToAllUnlisted)
      /\ lint_policy.given_away = Places(GivenAway)
      /\ lint_policy.repeated = Repeated
  BY DEF lint_policy
<1>0. \A k \in lint_policy.repeated : rules[k].commands = {} => OnlyTheFirstAnswers(k)
  BY <1>1, FirstLeavesNothing DEF Repeated, OnlyTheFirstAnswers
<1>2. CASE answer.status = "allowed"
  <2>1. /\ ppc = "done" /\ answer.by \in DOMAIN rules
        /\ Grants(rules[answer.by], groups)
        /\ answer.auth = EffectiveAuth(rules[answer.by])
    BY <1>2, AnsweredByFirst DEF PolIInv
  <2>2. answer.by \notin Places(ForNobody)
    BY <2>1, AnswersSomebody DEF Places
  <2>3. rules # <<>>
    BY <2>1
  <2>4. ASSUME ~answer.auth, defaults.require_auth, rules[answer.by].user = Anyone
        PROVE  answer.by \in Places(OpenToAllUnlisted) \cup Places(GivenAway)
    BY <2>1, <2>4 DEF EffectiveAuth, Places, OpenToAllUnlisted, GivenAway, OpenToAll
  <2>5. ~defaults.require_auth => ~answer.auth
    BY <2>1 DEF EffectiveAuth
  <2> QED BY <1>0, <1>1, <2>2, <2>3, <2>4, <2>5 DEF LintIsRight
<1>3. CASE answer.status # "allowed"
  <2>1. \/ answer.by = 0
        \/ answer.by \in DOMAIN rules /\ Denies(rules[answer.by], groups)
    BY <1>3 DEF PolIInv, PolTypeOK, Decided, NoAnswer
  <2>2. 0 \notin DOMAIN rules
    BY DEF PolIInv, PolTypeOK
  <2>3. answer.by \notin Places(ForNobody)
    BY <2>1, <2>2, AnswersSomebody DEF Places
  <2> QED BY <1>0, <1>1, <1>3, <2>3 DEF LintIsRight
<1> QED BY <1>2, <1>3

(* What lint says of rules for nobody, of missing rules, of the global     *)
(* switch and of a rule that repeats one without commands is true of the   *)
(* scan, and no open door is passed over.                                  *)
THEOREM LintSpeaksTrue == PolSpec => []LintIsRight
BY LintHere, PolInductive, PTL

LEMMA CheckHere == PolIInv => CheckAgrees
<1> SUFFICES ASSUME PolIInv, ppc = "done" PROVE CheckAgrees
  BY DEF CheckAgrees
<1>1. /\ lint_policy.for_nobody = old_lint_policy.for_nobody
      /\ lint_policy.given_away = old_lint_policy.given_away
      /\ lint_policy.open = Places(OpenToAllUnlisted)
      /\ old_lint_policy.open = Places(OpenToAll)
      /\ lint_policy.repeated = Repeated /\ old_lint_policy.repeated = OldRepeated
      /\ lint_policy.idle = IdleDenies /\ old_lint_policy.idle = OldIdleDenies
  BY DEF lint_policy, old_lint_policy
<1>2. CheckExit(lint_policy) = 1 <=> OldCheckFails(old_lint_policy)
  BY <1>1 DEF CheckExit, OldCheckFails
<1>3. lint_policy.open \subseteq old_lint_policy.open
  BY <1>1 DEF Places, OpenToAllUnlisted
<1>4. lint_policy.repeated = {w[1] : w \in old_lint_policy.repeated}
  <2>1. DOMAIN rules \subseteq Nat
    BY DEF PolIInv, PolTypeOK
  <2>2. ASSUME NEW k \in Repeated
        PROVE  \E w \in OldRepeated : k = w[1]
    <3>1. PICK j \in DOMAIN rules : j > k /\ Repeats(rules[k], rules[j])
      BY DEF Repeated
    <3>2. k \in DOMAIN rules /\ k < j
      BY <2>1, <3>1 DEF Repeated
    <3>3. <<k, j>> \in OldRepeated
      BY <3>1, <3>2 DEF OldRepeated
    <3> QED BY <3>3
  <2>3. ASSUME NEW w \in OldRepeated
        PROVE  w[1] \in Repeated
    <3>1. /\ w[1] \in DOMAIN rules /\ w[2] \in DOMAIN rules /\ w[1] < w[2]
          /\ Repeats(rules[w[1]], rules[w[2]])
      BY DEF OldRepeated
    <3>2. w[2] > w[1]
      BY <2>1, <3>1
    <3> QED BY <3>1, <3>2 DEF Repeated
  <2> QED BY <1>1, <2>2, <2>3
<1>5. old_lint_policy.idle \subseteq lint_policy.idle
  <2>1. \A d, c : Overlap(d, c) => OldOverlap(d, c)
    BY OldMatchesMore DEF Overlap, OldOverlap
  <2> QED BY <1>1, <2>1 DEF IdleDenies, OldIdleDenies
<1>6. Shown(groups) = OldShown(groups)
  <2>1. asked.caller # None /\ Anyone # None
    BY PolicyAssumption DEF PolIInv, PolTypeOK, Question
  <2> QED BY <2>1 DEF Shown, OldShown, ListConcerns, OldUserMatches, UserMatches, GroupMatches
<1>7. ListingShowsGrants
  <2> SUFFICES ASSUME answer.status = "allowed" PROVE answer.by \in Shown(groups)
    BY DEF ListingShowsGrants
  <2> QED BY AnsweredByFirst, AnswersSomebody
<1> QED BY <1>2, <1>3, <1>4, <1>5, <1>6, <1>7 DEF CheckAgrees

(* --check and -l say the same in both programs, apart from what is listed *)
(* in CheckAgrees.                                                         *)
THEOREM CheckReadsAlike == PolSpec => []CheckAgrees
BY CheckHere, PolInductive, PTL
------------------------------------------------------------------------------
(* The scan on its place between the command line and the environment.  An *)
(* invariant of Policy at rest asks only for the types.                    *)
LEMMA AnyTyped == AnyQuestion \in Question /\ AnyDefault \in Defaults
BY FrontAssumption, PolicyAssumption DEF AnyQuestion, AnyDefault

LEMMA RestIsFine ==
    ASSUME rules' \in Seq(Rule), asked' \in Question, defaults' \in Defaults,
           member' \in SUBSET Groups, listed' \in SUBSET member',
           ppc' = "lookup", groups' = {}, i' = 1, answer' = NoAnswer
    PROVE  PolIInv'
BY DEF PolIInv, PolTypeOK, Scanned, Decided, NoAnswer

LEMMA FrontInvInit == FrontInit => FrontIInv
<1> SUFFICES ASSUME FrontInit PROVE FrontIInv
  OBVIOUS
<1>1. PolIInv
  <2>1. /\ rules \in Seq(Rule) /\ asked \in Question /\ defaults \in Defaults
        /\ member \in SUBSET Groups /\ listed \in SUBSET member
    BY AnyTyped DEF FrontInit
  <2> QED BY <2>1 DEF FrontInit, PolIInv, PolTypeOK, Scanned, Decided, NoAnswer
<1> QED BY <1>1 DEF FrontInit, FrontIInv, AtRest, Copied

(* The steps that leave the scan and the environment alone.                *)
LEMMA LineKeeps ==
    ASSUME FrontIInv, UNCHANGED <<polVars, envVars>>,
           stage \in {"parse", "validate", "resolve"},
           stage' \in {"parse", "validate", "resolve", "settled"}
    PROVE  FrontIInv'
<1>1. PolIInv'
  BY PolInvStep DEF FrontIInv
<1> QED BY <1>1 DEF FrontIInv, AtRest, Copied, polVars

LEMMA LineSteps ==
    ASSUME FrontIInv,
           \/ ParseStep \/ Validate \/ ResolveAbsolute \/ RejectRelative \/ SearchPath
    PROVE  FrontIInv'
<1>1. /\ UNCHANGED <<polVars, envVars>>
      /\ stage \in {"parse", "validate", "resolve"}
      /\ stage' \in {"parse", "validate", "resolve", "settled"}
  <2>1. CASE ParseStep
    BY <2>1 DEF ParseStep, Operand, Flag, UnknownOption, CommandWord, NoOperand, Decide,
                Wants, AtOption, HasNext, LineEnds, Read, Settle
  <2>2. CASE Validate
    BY <2>2 DEF Validate, Settle, lineVars
  <2>3. CASE ResolveAbsolute \/ RejectRelative \/ SearchPath
    BY <2>3 DEF ResolveAbsolute, RejectRelative, SearchPath, Resolving, Found, Settle
  <2> QED BY <2>1, <2>2, <2>3
<1> QED BY <1>1, LineKeeps

(* The steps from the question to the scan, and those that leave it.       *)
LEMMA ScanSteps ==
    ASSUME FrontIInv, Ask \/ LoadPolicy \/ Decision \/ Permitted
    PROVE  FrontIInv'
<1> USE DEF FrontIInv, AtRest
<1>1. PolTypeOK
  BY DEF PolIInv
<1>2. stage' \notin {"environment", "ready"}
  BY DEF Ask, LoadPolicy, Decision, Permitted
<1>3. CASE Ask
  <2>1. answer = NoAnswer
    BY <1>3 DEF Ask, PolIInv
  <2>2. PolIInv'
    <3>1. asked' \in Question
      BY <1>3, PolicyAssumption DEF Ask
    <3>2. /\ rules' \in Seq(Rule) /\ defaults' \in Defaults
          /\ member' \in SUBSET Groups /\ listed' \in SUBSET member'
          /\ ppc' = "lookup" /\ groups' = {} /\ i' = 1 /\ answer' = NoAnswer
      BY <1>1, <1>3, <2>1 DEF Ask, PolTypeOK
    <3> QED BY <3>1, <3>2, RestIsFine
  <2> QED BY <1>2, <1>3, <2>2 DEF Ask, Copied
<1>4. CASE LoadPolicy
  <2>1. answer = NoAnswer
    BY <1>4 DEF LoadPolicy, PolIInv
  <2>2. PolIInv'
    <3>1. /\ rules' \in Seq(Rule) /\ asked' \in Question /\ defaults' \in Defaults
          /\ member' \in SUBSET Groups /\ listed' \in SUBSET member'
          /\ ppc' = "lookup" /\ groups' = {} /\ i' = 1 /\ answer' = NoAnswer
      BY <1>1, <1>4, <2>1, PolicyAssumption DEF LoadPolicy, PolTypeOK
    <3> QED BY <3>1, RestIsFine
  <2> QED BY <1>2, <1>4, <2>2 DEF LoadPolicy, Copied
<1>5. CASE Decision
  <2>1. PolIInv'
    BY <1>5, PolInvStep DEF Decision
  <2> QED BY <1>2, <1>5, <2>1 DEF Decision, Copied
<1>6. CASE Permitted
  <2>1. PolIInv'
    <3>1. /\ rules' \in Seq(Rule) /\ asked' \in Question /\ defaults' \in Defaults
          /\ member' \in SUBSET Groups /\ listed' \in SUBSET member'
          /\ ppc' = "lookup" /\ groups' = {} /\ i' = 1 /\ answer' = NoAnswer
      BY <1>6, AnyTyped DEF Permitted
    <3> QED BY <3>1, RestIsFine
  <2> QED BY <1>2, <1>6, <2>1 DEF Permitted, Copied
<1> QED BY <1>3, <1>4, <1>5, <1>6

LEMMA EightLong ==
    ASSUME NEW S, NEW s \in [1..8 -> S]
    PROVE  s \in Seq(S) /\ Len(s) = 8
<1>1. s \in Seq(S)
  BY SeqDef
<1>2. Len(s) = 8
  OBVIOUS
<1> QED BY <1>1, <1>2

LEMMA FixedTyped == DOMAIN Fixed = 1..8 /\ Fixed \in Seq(Sources) /\ Len(Fixed) = 8
<1>1. DOMAIN Fixed = 1..8
  BY DEF Fixed, FixedVars
<1>2. Fixed \in [1..8 -> Sources]
  BY <1>1 DEF Fixed, Sources
<1> QED BY <1>1, <1>2, EightLong, Zenon

(* What is left to show of a step that reads the entry at.                 *)
LEMMA CopiedNext ==
    ASSUME UNCHANGED <<environ, keep>>, at' - 1 = at,
           environ \in Seq(EnvEntry), envp' \in Seq(Sources),
           at' \in 1..(Len(environ) + 1), Len(envp') >= Len(Fixed),
           \A k \in 1..Len(Fixed) : envp'[k] = Fixed[k],
           \A k \in (Len(Fixed) + 1)..Len(envp') :
               \E j \in 1..at : Passes(environ[j]) /\ envp'[k] = environ[j],
           \A j \in 1..at : Passes(environ[j]) =>
               \E k \in (Len(Fixed) + 1)..Len(envp') : envp'[k] = environ[j],
           \A j, m \in 1..at :
               j < m /\ Passes(environ[j]) /\ Passes(environ[m]) =>
               \E k, l \in (Len(Fixed) + 1)..Len(envp') :
                   k < l /\ envp'[k] = environ[j] /\ envp'[l] = environ[m]
    PROVE  Copied'
<1> DEFINE Holds(j) == Passes(environ[j])
<1>1. \A j : Passes(environ[j])' <=> Holds(j)
  BY DEF Passes
<1>2. Sources' = Sources /\ environ' = environ /\ Fixed' = Fixed
  BY DEF Sources, Fixed, Variable, FixedVars
<1>3. at' - 1 = at /\ 1..(at' - 1) = 1..at
  OBVIOUS
<1>4. ASSUME NEW k \in (Len(Fixed) + 1)..Len(envp')
      PROVE  \E j \in 1..(at' - 1) : Holds(j) /\ envp'[k] = environ[j]
  BY <1>3, ZenonT(30)
<1>5. ASSUME NEW j \in 1..(at' - 1), Holds(j)
      PROVE  \E k \in (Len(Fixed) + 1)..Len(envp') : envp'[k] = environ[j]
  BY <1>3, <1>5
<1>6. ASSUME NEW j \in 1..(at' - 1), NEW m \in 1..(at' - 1), j < m, Holds(j), Holds(m)
      PROVE  \E k, l \in (Len(Fixed) + 1)..Len(envp') :
                 k < l /\ envp'[k] = environ[j] /\ envp'[l] = environ[m]
  <2>1. j \in 1..at /\ m \in 1..at
    BY <1>3
  <2> QED BY <1>6, <2>1, Zenon
<1> HIDE DEF Holds
<1>7. ASSUME NEW k \in (Len(Fixed') + 1)..Len(envp')
      PROVE  \E j \in 1..(at' - 1) : Passes(environ[j])' /\ envp'[k] = environ'[j]
  <2>1. k \in (Len(Fixed) + 1)..Len(envp')
    BY <1>2
  <2>2. PICK j \in 1..(at' - 1) : Holds(j) /\ envp'[k] = environ[j]
    BY <1>4, <2>1, Zenon
  <2>3. Passes(environ[j])' /\ envp'[k] = environ'[j]
    BY <1>1, <1>2, <2>2
  <2> QED BY <2>3
<1>8. ASSUME NEW j \in 1..(at' - 1), Passes(environ[j])'
      PROVE  \E k \in (Len(Fixed') + 1)..Len(envp') : envp'[k] = environ'[j]
  <2>1. Holds(j)
    BY <1>1, <1>8
  <2>2. \E k \in (Len(Fixed) + 1)..Len(envp') : envp'[k] = environ[j]
    BY <1>5, <2>1, Zenon
  <2> QED BY <1>2, <2>2, Zenon
<1>9. ASSUME NEW j \in 1..(at' - 1), NEW m \in 1..(at' - 1), j < m,
             Passes(environ[j])', Passes(environ[m])'
      PROVE  \E k, l \in (Len(Fixed') + 1)..Len(envp') :
                 k < l /\ envp'[k] = environ'[j] /\ envp'[l] = environ'[m]
  <2>1. Holds(j) /\ Holds(m)
    BY <1>1, <1>9
  <2>2. PICK k \in (Len(Fixed) + 1)..Len(envp') : \E l \in (Len(Fixed) + 1)..Len(envp') :
            k < l /\ envp'[k] = environ[j] /\ envp'[l] = environ[m]
    BY <1>6, <1>9, <2>1, ZenonT(30)
  <2>3. PICK l \in (Len(Fixed) + 1)..Len(envp') :
            k < l /\ envp'[k] = environ[j] /\ envp'[l] = environ[m]
    BY <2>2, Zenon
  <2>4. envp'[k] = environ'[j] /\ envp'[l] = environ'[m]
    BY <1>2, <2>3
  <2> QED BY <2>3, <2>4, Zenon
<1>10. /\ environ' \in Seq(EnvEntry) /\ envp' \in Seq(Sources')
       /\ at' \in 1..(Len(environ') + 1) /\ Len(envp') >= Len(Fixed')
       /\ \A k \in 1..Len(Fixed') : envp'[k] = Fixed'[k]
  BY <1>2
<1>11. \A k \in (Len(Fixed') + 1)..Len(envp') :
           \E j \in 1..(at' - 1) : Passes(environ[j])' /\ envp'[k] = environ'[j]
  BY <1>7, Zenon
<1>12. \A j \in 1..(at' - 1) : Passes(environ[j])' =>
           \E k \in (Len(Fixed') + 1)..Len(envp') : envp'[k] = environ'[j]
  BY <1>8, Zenon
<1>13. \A j, m \in 1..(at' - 1) : j < m /\ Passes(environ[j])' /\ Passes(environ[m])' =>
           \E k, l \in (Len(Fixed') + 1)..Len(envp') :
               k < l /\ envp'[k] = environ'[j] /\ envp'[l] = environ'[m]
  BY <1>9, Zenon
<1> QED BY <1>10, <1>11, <1>12, <1>13, Zenon DEF Copied

(* The copying of the environment, entry by entry.                         *)
LEMMA EnvironmentSteps ==
    ASSUME FrontIInv, ReadEnvironment \/ PassVariable \/ EnvironmentReady
    PROVE  FrontIInv'
<1> USE DEF FrontIInv, AtRest
<1>1. PolIInv' /\ stage # "policy" /\ stage' \in {"environment", "ready"}
      /\ ppc' = "lookup" /\ groups' = {} /\ i' = 1
  <2>1. UNCHANGED polVars
    BY DEF ReadEnvironment, PassVariable, EnvironmentReady
  <2> QED BY <2>1, PolInvStep DEF ReadEnvironment, PassVariable, EnvironmentReady, polVars
<1>2. CASE ReadEnvironment
  <2>1. /\ environ' \in Seq(EnvEntry) /\ envp' = Fixed /\ at' = 1 /\ stage' = "environment"
    BY <1>2, EnvironmentAssumption DEF ReadEnvironment
  <2>2. Fixed \in Seq(Sources')
    <3>1. Fixed \in [1..8 -> Sources']
      BY FixedTyped DEF Sources, Fixed
    <3> QED BY <3>1, EightLong
  <2>3. Copied'
    BY <2>1, <2>2, FixedTyped DEF Copied
  <2> QED BY <1>1, <2>1, <2>3
<1>3. CASE EnvironmentReady
  <2>1. /\ UNCHANGED <<environ, keep, envp, at>> /\ stage = "environment" /\ stage' = "ready"
        /\ at > Len(environ)
    BY <1>3 DEF EnvironmentReady, envVars
  <2>2. Copied
    OBVIOUS
  <2>3. Copied'
    BY <2>1, <2>2 DEF Copied, Passes, Sources
  <2>4. at' = Len(environ') + 1
    BY <2>1, <2>2 DEF Copied
  <2> QED BY <1>1, <2>1, <2>3, <2>4
<1>4. CASE PassVariable
  <2> DEFINE v == environ[at]
             fixed == Len(Fixed)
  <2>1. /\ UNCHANGED <<environ, keep>> /\ stage = "environment" /\ stage' = "environment"
        /\ at <= Len(environ) /\ at' = at + 1
        /\ envp' = IF Passes(v) THEN Append(envp, v) ELSE envp
    BY <1>4 DEF PassVariable
  <2>2. /\ environ \in Seq(EnvEntry) /\ envp \in Seq(Sources)
        /\ at \in 1..(Len(environ) + 1) /\ Len(envp) >= fixed
        /\ \A k \in 1..fixed : envp[k] = Fixed[k]
        /\ \A k \in (fixed + 1)..Len(envp) :
              \E j \in 1..(at - 1) : Passes(environ[j]) /\ envp[k] = environ[j]
        /\ \A j \in 1..(at - 1) : Passes(environ[j]) =>
              \E k \in (fixed + 1)..Len(envp) : envp[k] = environ[j]
        /\ \A j, m \in 1..(at - 1) :
              j < m /\ Passes(environ[j]) /\ Passes(environ[m]) =>
              \E k, l \in (fixed + 1)..Len(envp) :
                  k < l /\ envp[k] = environ[j] /\ envp[l] = environ[m]
    BY <2>1 DEF Copied
  <2>3. fixed \in Nat /\ v \in Sources /\ at \in Nat \ {0} /\ Len(envp) \in Nat
    BY <2>1, <2>2, FixedTyped, SMTT(20) DEF Sources
  <2>4. \A w : Passes(w)' <=> Passes(w)
    BY <2>1 DEF Passes
  <2>5. CASE Passes(v)
    <3>1. /\ envp' = Append(envp, v) /\ envp' \in Seq(Sources)
          /\ Len(envp') = Len(envp) + 1 /\ envp'[Len(envp) + 1] = v
          /\ \A k \in 1..Len(envp) : envp'[k] = envp[k]
      BY <2>1, <2>2, <2>3, <2>5
    <3>2. \A k \in 1..fixed : envp'[k] = Fixed[k]
      BY <2>2, <2>3, <3>1
    <3>3. ASSUME NEW k \in (fixed + 1)..Len(envp')
          PROVE  \E j \in 1..at : Passes(environ[j]) /\ envp'[k] = environ[j]
      <4>1. CASE k = Len(envp) + 1
        BY <2>3, <2>5, <3>1, <4>1
      <4>2. CASE k # Len(envp) + 1
        <5>1. k \in (fixed + 1)..Len(envp) /\ k \in 1..Len(envp)
          BY <2>3, <3>1, <4>2
        <5>2. PICK j \in 1..(at - 1) : Passes(environ[j]) /\ envp[k] = environ[j]
          BY <2>2, <5>1
        <5> QED BY <2>3, <3>1, <5>1, <5>2
      <4> QED BY <4>1, <4>2
    <3>4. ASSUME NEW j \in 1..at, Passes(environ[j])
          PROVE  \E k \in (fixed + 1)..Len(envp') : envp'[k] = environ[j]
      <4>1. CASE j = at
        <5>1. Len(envp) + 1 \in (fixed + 1)..Len(envp')
          BY <2>2, <2>3, <3>1
        <5> QED BY <3>1, <4>1, <5>1
      <4>2. CASE j # at
        <5>1. PICK k \in (fixed + 1)..Len(envp) : envp[k] = environ[j]
          BY <2>2, <2>3, <3>4, <4>2
        <5>2. k \in 1..Len(envp) /\ k \in (fixed + 1)..Len(envp')
          BY <2>3, <3>1
        <5> QED BY <3>1, <5>1, <5>2
      <4> QED BY <4>1, <4>2
    <3>5. ASSUME NEW j \in 1..at, NEW m \in 1..at, j < m, Passes(environ[j]), Passes(environ[m])
          PROVE  \E k, l \in (fixed + 1)..Len(envp') :
                     k < l /\ envp'[k] = environ[j] /\ envp'[l] = environ[m]
      <4>1. j \in 1..(at - 1)
        BY <2>3, <3>5
      <4>2. CASE m = at
        <5>1. PICK k \in (fixed + 1)..Len(envp) : envp[k] = environ[j]
          BY <2>2, <3>5, <4>1
        <5>2. /\ k \in 1..Len(envp) /\ k \in (fixed + 1)..Len(envp')
              /\ Len(envp) + 1 \in (fixed + 1)..Len(envp') /\ k < Len(envp) + 1
          BY <2>2, <2>3, <3>1, SMTT(20)
        <5> QED BY <3>1, <4>2, <5>1, <5>2
      <4>3. CASE m # at
        <5>1. m \in 1..(at - 1)
          BY <2>3, <4>3
        <5>2. PICK k \in (fixed + 1)..Len(envp) : \E l \in (fixed + 1)..Len(envp) :
                  k < l /\ envp[k] = environ[j] /\ envp[l] = environ[m]
          BY <2>2, <3>5, <4>1, <5>1
        <5>3. PICK l \in (fixed + 1)..Len(envp) :
                  k < l /\ envp[k] = environ[j] /\ envp[l] = environ[m]
          BY <5>2
        <5>4. /\ k \in 1..Len(envp) /\ k \in (fixed + 1)..Len(envp')
              /\ l \in 1..Len(envp) /\ l \in (fixed + 1)..Len(envp')
          BY <2>3, <3>1
        <5> QED BY <3>1, <5>3, <5>4
      <4> QED BY <4>2, <4>3
    <3>6. /\ environ' = environ /\ at' - 1 = at /\ at' \in 1..(Len(environ) + 1)
          /\ Len(envp') >= fixed
      BY <2>1, <2>2, <2>3, <3>1
    <3> QED BY <1>1, <2>1, <2>2, <2>4, <3>1, <3>2, <3>3, <3>4, <3>5, <3>6, CopiedNext, ZenonT(30)
  <2>6. CASE ~Passes(v)
    <3>1. \A j \in 1..at : Passes(environ[j]) => j \in 1..(at - 1)
      BY <2>3, <2>6
    <3>2. envp' = envp /\ at' - 1 = at /\ at' \in 1..(Len(environ) + 1)
          /\ 1..(at - 1) \subseteq 1..at
      BY <2>1, <2>2, <2>3, <2>6
    <3>3. ASSUME NEW k \in (fixed + 1)..Len(envp')
          PROVE  \E j \in 1..at : Passes(environ[j]) /\ envp'[k] = environ[j]
      BY <2>2, <3>2, SMTT(20)
    <3>4. ASSUME NEW j \in 1..at, Passes(environ[j])
          PROVE  \E k \in (fixed + 1)..Len(envp') : envp'[k] = environ[j]
      BY <2>2, <3>1, <3>2, <3>4
    <3>5. ASSUME NEW j \in 1..at, NEW m \in 1..at, j < m, Passes(environ[j]), Passes(environ[m])
          PROVE  \E k, l \in (fixed + 1)..Len(envp') :
                     k < l /\ envp'[k] = environ[j] /\ envp'[l] = environ[m]
      BY <2>2, <3>1, <3>2, <3>5
    <3>6. Len(envp') >= fixed /\ \A k \in 1..fixed : envp'[k] = Fixed[k]
      BY <2>2, <3>2
    <3> QED BY <1>1, <2>1, <2>2, <2>4, <3>2, <3>3, <3>4, <3>5, <3>6, CopiedNext, ZenonT(30)
  <2> QED BY <2>5, <2>6
<1> QED BY <1>2, <1>3, <1>4

LEMMA FrontInvStep ==
    ASSUME FrontIInv, [FrontNext]_frontVars
    PROVE  FrontIInv'
<1>1. CASE ParseStep \/ Validate \/ ResolveAbsolute \/ RejectRelative \/ SearchPath
  BY <1>1, LineSteps
<1>2. CASE Ask \/ LoadPolicy \/ Decision \/ Permitted
  BY <1>2, ScanSteps
<1>3. CASE ReadEnvironment \/ PassVariable \/ EnvironmentReady
  BY <1>3, EnvironmentSteps
<1>4. CASE UNCHANGED frontVars
  <2>1. PolIInv'
    BY <1>4, PolInvStep DEF frontVars, FrontIInv
  <2> QED BY <1>4, <2>1
          DEF FrontIInv, AtRest, Copied, Passes, Sources, frontVars, polVars, envVars
<1> QED BY <1>1, <1>2, <1>3, <1>4 DEF FrontNext

(* From the command line to the environment: what holds at every step.     *)
THEOREM FrontInductive == FrontSpec => []FrontIInv
BY FrontInvInit, FrontInvStep, PTL DEF FrontSpec

(* The scan keeps its promises, and lint and the original speak as above,  *)
(* wherever a command line leads to.                                       *)
THEOREM FrontDecidesRight ==
    FrontSpec => [](/\ ScanIsFirstMatch /\ LostGroupsOnlyDeny /\ LintIsRight
                    /\ PortAgrees /\ PortNeverWider /\ CheckAgrees)
<1>1. FrontIInv => /\ ScanIsFirstMatch /\ LostGroupsOnlyDeny /\ LintIsRight
                   /\ PortAgrees /\ PortNeverWider /\ CheckAgrees
  BY FirstMatchHere, LostGroupsHere, LintHere, PortAgreesHere, NeverWiderHere, CheckHere
     DEF FrontIInv
<1> QED BY <1>1, FrontInductive, PTL
------------------------------------------------------------------------------
(* The command's environment.  Both programs let the same entries through, *)
(* and shakti's own have eight names, none of them unsafe.                 *)
LEMMA PassesAlike == \A v : Passes(v) <=> OldPasses(v)
BY DEF Passes, OldPasses, is_unsafe_env, shk_unsafe_env_vars, UNSAFE_ENV_VARS,
       shk_safe_env_vars, SAFE_ENV_VARS

LEMMA EightPlaces == \A k \in 1..8 : k \in {1, 2, 3, 4, 5, 6, 7, 8}
OBVIOUS

LEMMA FixedNames ==
    /\ DOMAIN Fixed = 1..8 /\ Len(Fixed) = 8
    /\ \A k \in 1..8 : Fixed[k].name = FixedVars[k] /\ Fixed[k].value = "shakti"
    /\ \A k \in 1..8 : FixedVars[k] \notin Prefixed \cup UNSAFE_ENV_VARS
    /\ \A j, k \in 1..8 : FixedVars[j] = FixedVars[k] => j = k
<1>1. DOMAIN FixedVars = 1..8
  BY DEF FixedVars
<1>2. \A k \in 1..8 : Fixed[k].name = FixedVars[k] /\ Fixed[k].value = "shakti"
  BY <1>1 DEF Fixed, Variable
<1>3. \A k \in 1..8 : FixedVars[k] \notin UNSAFE_ENV_VARS
  BY EightPlaces DEF FixedVars, UNSAFE_ENV_VARS
<1>4. \A j, k \in 1..8 : FixedVars[j] = FixedVars[k] => j = k
  BY EightPlaces DEF FixedVars
<1> QED BY <1>1, <1>2, <1>3, <1>4, FixedTyped, EnvironmentAssumption

LEMMA EnvironmentHere == FrontIInv => EnvironmentAgrees
<1> SUFFICES ASSUME FrontIInv, stage = "ready" PROVE EnvironmentAgrees
  BY DEF EnvironmentAgrees
<1> DEFINE old == old_sanitize_environment(environ)
           passed == {k \in DOMAIN environ : OldPasses(environ[k])}
           of(name) == {k \in passed : environ[k].name = name}
           last(name) == CHOOSE k \in of(name) : \A j \in of(name) : j <= k
           own == 1..8
           copied == 9..Len(envp)
<1>1. /\ DOMAIN environ = 1..Len(environ) /\ Len(envp) \in Nat /\ Len(envp) >= 8
      /\ DOMAIN envp = own \cup copied
      /\ \A k \in own : envp[k] = Fixed[k]
      /\ \A k \in copied : \E j \in passed : envp[k] = environ[j]
      /\ \A j \in passed : \E k \in copied : envp[k] = environ[j]
      /\ \A j, m \in passed : j < m =>
            \E k, l \in copied : k < l /\ envp[k] = environ[j] /\ envp[l] = environ[m]
  <2>1. Copied /\ environ \in Seq(EnvEntry) /\ envp \in Seq(Sources)
    BY DEF FrontIInv, Copied
  <2>2. /\ DOMAIN environ = 1..Len(environ) /\ DOMAIN envp = 1..Len(envp)
        /\ Len(envp) \in Nat /\ at - 1 = Len(environ)
    <3>1. DOMAIN environ = 1..Len(environ) /\ Len(environ) \in Nat
      <4> HIDE DEF passed, copied
      <4>1. environ \in Seq(EnvEntry)
        BY <2>1
      <4> QED BY <4>1
    <3>2. DOMAIN envp = 1..Len(envp) /\ Len(envp) \in Nat
      <4> HIDE DEF passed, copied
      <4>1. envp \in Seq(Sources)
        BY <2>1
      <4> QED BY <4>1
    <3>3. at = Len(environ) + 1
      BY DEF FrontIInv, AtRest
    <3> QED BY <3>1, <3>2, <3>3
  <2>3. passed = {j \in 1..(at - 1) : Passes(environ[j])}
    BY <2>1, <2>2, PassesAlike
  <2>4. Len(Fixed) = 8 /\ Len(Fixed) + 1 = 9
    BY FixedNames
  <2>5. Len(envp) >= 8 /\ \A k \in own : envp[k] = Fixed[k]
    BY <2>1, <2>4 DEF Copied
  <2>6. /\ \A k \in copied : \E j \in 1..(at - 1) : Passes(environ[j]) /\ envp[k] = environ[j]
        /\ \A j \in 1..(at - 1) : Passes(environ[j]) => \E k \in copied : envp[k] = environ[j]
    BY <2>1, <2>4 DEF Copied
  <2>7. \A j, m \in 1..(at - 1) : j < m /\ Passes(environ[j]) /\ Passes(environ[m]) =>
            \E k, l \in copied : k < l /\ envp[k] = environ[j] /\ envp[l] = environ[m]
    BY <2>1, <2>4 DEF Copied
  <2>8. \A k \in copied : \E j \in passed : envp[k] = environ[j]
    BY <2>3, <2>6
  <2>9. \A j \in passed : \E k \in copied : envp[k] = environ[j]
    BY <2>3, <2>6
  <2>10. ASSUME NEW j \in passed, NEW m \in passed, j < m
         PROVE  \E k, l \in copied : k < l /\ envp[k] = environ[j] /\ envp[l] = environ[m]
    <3>1. j \in 1..(at - 1) /\ m \in 1..(at - 1) /\ Passes(environ[j]) /\ Passes(environ[m])
      BY <2>3
    <3> QED BY <2>7, <2>10, <3>1, Zenon
  <2>11. DOMAIN envp = own \cup copied
    BY <2>2, <2>5
  <2> QED BY <2>2, <2>5, <2>8, <2>9, <2>10, <2>11
<1>2. /\ DOMAIN old = NamesIn(Fixed) \cup {environ[k].name : k \in passed}
      /\ \A n \in DOMAIN old :
            old[n] = IF of(n) = {} THEN "shakti" ELSE environ[last(n)].value
  BY DEF old_sanitize_environment
<1>3. NamesIn(Fixed) = {FixedVars[k] : k \in own}
  BY FixedNames DEF NamesIn
<1>4. passed \subseteq Nat
  <2>1. Len(environ) \in Nat
    BY DEF FrontIInv, Copied
  <2> QED BY <1>1, <2>1
<1> HIDE DEF old, last
<1>5. NamesIn(envp) = DOMAIN old
  <2>1. ASSUME NEW k \in DOMAIN envp PROVE envp[k].name \in DOMAIN old
    <3>1. CASE k \in own
      BY <1>1, <1>2, <1>3, <3>1, FixedNames, SMTT(20)
    <3>2. CASE k \in copied
      BY <1>1, <1>2, <3>2, SMTT(20)
    <3> QED BY <1>1, <3>1, <3>2
  <2>2. ASSUME NEW n \in DOMAIN old PROVE \E k \in DOMAIN envp : envp[k].name = n
    <3>1. CASE n \in NamesIn(Fixed)
      BY <1>1, <1>3, <3>1, FixedNames
    <3>2. CASE n \notin NamesIn(Fixed)
      <4>1. PICK j \in passed : n = environ[j].name
        BY <1>2, <3>2
      <4> QED BY <1>1, <4>1
    <3> QED BY <3>1, <3>2
  <2> QED BY <2>1, <2>2 DEF NamesIn
<1>6. DOMAIN old \cap (Prefixed \cup UNSAFE_ENV_VARS) = {}
  <2>1. \A k \in passed : environ[k].name \notin Prefixed \cup UNSAFE_ENV_VARS
    BY DEF OldPasses
  <2> QED BY <1>2, <1>3, <2>1, FixedNames
<1>7. ASSUME NEW k \in DOMAIN envp, envp[k].name \in NamesIn(Fixed), IsFirst(envp, k)
      PROVE  envp[k].value = "shakti"
  <2>1. PICK m \in own : FixedVars[m] = envp[k].name
    BY <1>3, <1>7
  <2>2. k <= m
    BY <1>1, <1>7, <2>1, FixedNames DEF IsFirst
  <2>3. k \in own
    BY <1>1, <2>2, SMTT(20)
  <2> QED BY <1>1, <2>3, FixedNames
<1>8. ASSUME NEW k \in DOMAIN envp, ComesOnce(envp, k)
      PROVE  envp[k].value = old[envp[k].name]
  <2> DEFINE n == envp[k].name
  <2>1. n \in DOMAIN old
    BY <1>5 DEF NamesIn
  <2>2. \A j \in DOMAIN envp : envp[j].name = n => j = k
    BY <1>8 DEF ComesOnce
  <2>3. CASE k \in own
    <3>1. ASSUME NEW j \in of(n) PROVE FALSE
      <4>1. PICK l \in copied : envp[l] = environ[j]
        BY <1>1
      <4>2. environ[j].name = n
        OBVIOUS
      <4>3. l = k
        BY <1>1, <2>2, <4>1, <4>2
      <4> QED BY <2>3, <4>3
    <3>2. of(n) = {}
      BY <3>1
    <3>3. old[n] = "shakti"
      <4> HIDE DEF of, n
      <4> QED BY <1>2, <2>1, <3>2
    <3>4. envp[k] = Fixed[k]
      BY <1>1, <2>3
    <3>5. Fixed[k].value = "shakti"
      BY <2>3, FixedNames
    <3> QED BY <3>3, <3>4, <3>5
  <2>4. CASE k \in copied
    <3>1. PICK j \in passed : envp[k] = environ[j]
      BY <1>1, <2>4
    <3>2. ASSUME NEW m \in of(n) PROVE m = j
      <4>1. j \in Nat /\ m \in Nat /\ m \in passed /\ environ[m].name = n
        BY <1>4
      <4>2. CASE m < j
        <5>1. PICK a \in copied, b \in copied :
                  a < b /\ envp[a] = environ[m] /\ envp[b] = environ[j]
          BY <1>1, <4>1, <4>2
        <5>2. a = k /\ b = k
          BY <1>1, <2>2, <3>1, <5>1
        <5> QED BY <5>1, <5>2
      <4>3. CASE j < m
        <5>1. PICK a \in copied, b \in copied :
                  a < b /\ envp[a] = environ[j] /\ envp[b] = environ[m]
          BY <1>1, <4>1, <4>3
        <5>2. a = k /\ b = k
          BY <1>1, <2>2, <3>1, <5>1
        <5> QED BY <5>1, <5>2
      <4> QED BY <4>1, <4>2, <4>3
    <3>3. of(n) = {j} /\ j <= j
      <4>1. j \in of(n) /\ j \in Nat
        BY <1>4, <3>1
      <4> DEFINE these == of(n)
      <4>2. j \in these /\ \A m \in these : m = j
        BY <3>2, <4>1
      <4> HIDE DEF these
      <4>3. these = {j}
        BY <4>2
      <4> QED BY <4>1, <4>3 DEF these
    <3>4. last(n) = j
      BY <3>3 DEF last
    <3> QED BY <1>2, <2>1, <3>1, <3>3, <3>4
  <2> QED BY <1>1, <2>3, <2>4
<1> QED BY <1>5, <1>6, <1>7, <1>8 DEF EnvironmentAgrees, old

(* What the port hands the command is what the original left it, for any   *)
(* environment of the caller and any env_keep, shakti's own entries first  *)
(* and nothing unsafe among the rest.                                      *)
THEOREM EnvironmentIsTheSame == FrontSpec => []EnvironmentAgrees
BY EnvironmentHere, FrontInductive, PTL
------------------------------------------------------------------------------
(* The command line, read in steps by the port and in one pass by the      *)
(* original, whose recursive definitions come first.                       *)

(* Induction over the naturals, said of a set.                             *)
LEMMA SetInduction ==
    ASSUME NEW S, 0 \in S, \A n \in Nat : n \in S => n + 1 \in S
    PROVE  Nat \subseteq S
<1> DEFINE R == OpToRel(<, Nat)
           out == Nat \ S
<1> SUFFICES ASSUME out # {} PROVE FALSE
  OBVIOUS
<1>1. R = {ss \in Nat \X Nat : ss[1] < ss[2]}
  BY DEF OpToRel
<1>2. IsWellFoundedOn(R, Nat) /\ out \subseteq Nat
  BY NatLessThanWellFounded, Zenon
<1>3. \A m, n \in Nat : m < n => <<m, n>> \in R
  BY <1>1
<1> HIDE DEF R, out
<1>4. PICK n \in out : \A m \in out : <<m, n>> \notin R
  BY <1>2, WFMin, Zenon
<1>5. n \in Nat /\ n \notin S
  BY <1>4 DEF out
<1>6. n # 0 /\ n - 1 \in Nat /\ n - 1 + 1 = n
  BY <1>5
<1>7. n - 1 \notin S
  BY <1>5, <1>6
<1>8. n - 1 \in out /\ n - 1 < n
  BY <1>6, <1>7 DEF out
<1> QED BY <1>3, <1>4, <1>5, <1>6, <1>8

(* The parser of the original, as the recursion its definition asks for.   *)
LEMMA OldReadsIs ==
    ASSUME NEW args \in Seq(Arguments)
    PROVE  /\ OldReads(args)[0] = OldCli
           /\ \A n \in 1..Len(args) :
                 OldReads(args)[n] = OldTake(OldReads(args)[n - 1], args[n])
<1> DEFINE Upto(g, N) ==
               g = [n \in 0..N |-> IF n = 0 THEN OldCli ELSE OldTake(g[n - 1], args[n])]
           S == {N \in Nat : \E g : Upto(g, N)}
<1>1. 0 \in S
  <2>1. Upto([n \in 0..0 |-> OldCli], 0)
    OBVIOUS
  <2> QED BY <2>1
<1>2. ASSUME NEW N \in Nat, N \in S PROVE N + 1 \in S
  <2>1. PICK g : Upto(g, N)
    BY <1>2
  <2> DEFINE h == [n \in 0..(N + 1) |-> IF n = N + 1 THEN OldTake(g[N], args[n]) ELSE g[n]]
  <2>2. ASSUME NEW n \in 0..(N + 1)
        PROVE  h[n] = IF n = 0 THEN OldCli ELSE OldTake(h[n - 1], args[n])
    <3>1. CASE n = N + 1
      <4>1. n # 0 /\ n - 1 = N /\ N \in 0..(N + 1) /\ N # N + 1
        BY <3>1
      <4>2. h[n] = OldTake(g[N], args[n]) /\ h[n - 1] = g[N]
        BY <3>1, <4>1
      <4> QED BY <4>1, <4>2
    <3>2. CASE n # N + 1
      <4>1. n \in 0..N /\ h[n] = g[n]
        BY <3>2
      <4>2. n # 0 => n - 1 \in 0..(N + 1) /\ n - 1 # N + 1
        BY <4>1
      <4>3. n # 0 => h[n - 1] = g[n - 1]
        BY <4>2
      <4>4. g[n] = IF n = 0 THEN OldCli ELSE OldTake(g[n - 1], args[n])
        BY <2>1, <4>1
      <4> QED BY <4>1, <4>3, <4>4
    <3> QED BY <3>1, <3>2
  <2>3. Upto(h, N + 1)
    BY <2>2
  <2>4. N + 1 \in Nat /\ \E k : Upto(k, N + 1)
    <3> HIDE DEF h, Upto
    <3> QED BY <2>3
  <2> QED BY <2>4, Zenon
<1>3. Len(args) \in S
  <2>1. Len(args) \in Nat
    OBVIOUS
  <2> HIDE DEF S
  <2> QED BY <1>1, <1>2, <2>1, SetInduction
<1>4. Upto(OldReads(args), Len(args))
  <2>1. \E g : Upto(g, Len(args))
    BY <1>3
  <2>2. OldReads(args) = CHOOSE g : Upto(g, Len(args))
    BY DEF OldReads
  <2> HIDE DEF Upto
  <2> QED BY <2>1, <2>2, Zenon
<1>5. Len(args) \in Nat
  OBVIOUS
<1>6. ASSUME NEW n \in 0..Len(args)
      PROVE  OldReads(args)[n] =
                 IF n = 0 THEN OldCli ELSE OldTake(OldReads(args)[n - 1], args[n])
  BY <1>4, <1>5
<1> QED BY <1>5, <1>6

(* The sizes that validate_command adds up, likewise.                      *)
LEMMA SizesIs ==
    ASSUME NEW start, NEW command \in Seq(Arguments)
    PROVE  /\ Sizes(start, command)[0] = start
           /\ \A n \in 1..Len(command) :
                 Sizes(start, command)[n] =
                     Sizes(start, command)[n - 1] + Spelling[command[n]].length
<1> DEFINE Upto(g, N) ==
               g = [n \in 0..N |-> IF n = 0 THEN start
                                   ELSE g[n - 1] + Spelling[command[n]].length]
           S == {N \in Nat : \E g : Upto(g, N)}
<1>1. 0 \in S
  <2>1. Upto([n \in 0..0 |-> start], 0)
    OBVIOUS
  <2> QED BY <2>1
<1>2. ASSUME NEW N \in Nat, N \in S PROVE N + 1 \in S
  <2>1. PICK g : Upto(g, N)
    BY <1>2
  <2> DEFINE h == [n \in 0..(N + 1) |->
                       IF n = N + 1 THEN g[N] + Spelling[command[n]].length ELSE g[n]]
  <2>2. ASSUME NEW n \in 0..(N + 1)
        PROVE  h[n] = IF n = 0 THEN start ELSE h[n - 1] + Spelling[command[n]].length
    <3>1. CASE n = N + 1
      <4>1. n # 0 /\ n - 1 = N /\ N \in 0..(N + 1) /\ N # N + 1
        BY <3>1
      <4>2. h[n] = g[N] + Spelling[command[n]].length /\ h[n - 1] = g[N]
        BY <3>1, <4>1
      <4> QED BY <4>1, <4>2
    <3>2. CASE n # N + 1
      <4>1. n \in 0..N /\ h[n] = g[n]
        BY <3>2
      <4>2. n # 0 => n - 1 \in 0..(N + 1) /\ n - 1 # N + 1
        BY <4>1
      <4>3. n # 0 => h[n - 1] = g[n - 1]
        BY <4>2
      <4>4. g[n] = IF n = 0 THEN start ELSE g[n - 1] + Spelling[command[n]].length
        BY <2>1, <4>1
      <4> QED BY <4>1, <4>3, <4>4
    <3> QED BY <3>1, <3>2
  <2>3. Upto(h, N + 1)
    BY <2>2
  <2>4. N + 1 \in Nat /\ \E k : Upto(k, N + 1)
    <3> HIDE DEF h, Upto
    <3> QED BY <2>3
  <2> QED BY <2>4, Zenon
<1>3. Len(command) \in S
  <2>1. Len(command) \in Nat
    OBVIOUS
  <2> HIDE DEF S
  <2> QED BY <1>1, <1>2, <2>1, SetInduction
<1>4. Upto(Sizes(start, command), Len(command))
  <2>1. \E g : Upto(g, Len(command))
    BY <1>3
  <2>2. Sizes(start, command) = CHOOSE g : Upto(g, Len(command))
    BY DEF Sizes
  <2> HIDE DEF Upto
  <2> QED BY <2>1, <2>2, Zenon
<1>5. Len(command) \in Nat
  OBVIOUS
<1>6. ASSUME NEW n \in 0..Len(command)
      PROVE  Sizes(start, command)[n] =
                 IF n = 0 THEN start
                 ELSE Sizes(start, command)[n - 1] + Spelling[command[n]].length
  BY <1>4, <1>5
<1> QED BY <1>5, <1>6

(* The byte for every argument may be counted before or after the others:  *)
(* the two validators take a command for equally long.                     *)
LEMMA LengthsAgree ==
    ASSUME NEW command \in Seq(Arguments)
    PROVE  LengthOf(command) = Sizes(0, command)[Len(command)] + Len(command)
<1> DEFINE L == Len(command)
           A == Sizes(0, command)
           B == Sizes(L, command)
           S == {n \in Nat : n <= L => A[n] \in Nat /\ B[n] = A[n] + L}
<1>1. L \in Nat
  OBVIOUS
<1>2. /\ A[0] = 0 /\ B[0] = L
      /\ \A n \in 1..L : A[n] = A[n - 1] + Spelling[command[n]].length
      /\ \A n \in 1..L : B[n] = B[n - 1] + Spelling[command[n]].length
  BY SizesIs
<1>3. \A n \in 1..L : Spelling[command[n]].length \in Nat
  BY FrontAssumption
<1>4. 0 \in S
  BY <1>1, <1>2
<1>5. ASSUME NEW n \in Nat, n \in S PROVE n + 1 \in S
  <2> HIDE DEF A, B, L
  <2>1. CASE n + 1 <= L
    <3>1. n <= L /\ n + 1 \in 1..L /\ n + 1 - 1 = n
      BY <1>1, <2>1
    <3>2. A[n] \in Nat /\ B[n] = A[n] + L
      BY <1>5, <3>1
    <3>3. A[n + 1] = A[n] + Spelling[command[n + 1]].length
      BY <1>2, <3>1
    <3>4. B[n + 1] = B[n] + Spelling[command[n + 1]].length
      BY <1>2, <3>1
    <3>5. Spelling[command[n + 1]].length \in Nat
      BY <1>3, <3>1
    <3> QED BY <1>1, <3>2, <3>3, <3>4, <3>5
  <2>2. CASE ~(n + 1 <= L)
    BY <2>2
  <2> QED BY <2>1, <2>2
<1>6. L \in S
  <2> HIDE DEF S, L
  <2> QED BY <1>1, <1>4, <1>5, SetInduction
<1>7. B[L] = A[L] + L
  <2> HIDE DEF A, B, L
  <2> QED BY <1>1, <1>6
<1> QED BY <1>7 DEF LengthOf

(* Once parse_args has settled what the line is for, it reads no further.  *)
LEMMA ReaderStops ==
    ASSUME NEW args \in Seq(Arguments), NEW m \in 0..Len(args),
           OldReads(args)[m].does # "none"
    PROVE  parse_args(args) = OldReads(args)[m]
<1> DEFINE L == Len(args)
           o == OldReads(args)
           S == {n \in Nat : m + n <= L => o[m + n] = o[m]}
<1>1. L \in Nat /\ m \in 0..L
  OBVIOUS
<1>2. \A n \in 1..L : o[n] = OldTake(o[n - 1], args[n])
  BY OldReadsIs
<1> HIDE DEF o, L
<1>3. 0 \in S
  BY <1>1
<1>4. ASSUME NEW n \in Nat, n \in S PROVE n + 1 \in S
  <2>1. CASE m + n + 1 <= L
    <3>1. m + n <= L /\ m + n + 1 \in 1..L /\ m + n + 1 - 1 = m + n
      BY <1>1, <2>1
    <3>2. o[m + n] = o[m]
      BY <1>4, <3>1
    <3>3. o[m + n + 1] = OldTake(o[m + n], args[m + n + 1])
      BY <1>2, <3>1
    <3>4. o[m].does # "none"
      BY DEF o
    <3>5. o[m + n + 1] = o[m]
      BY <3>2, <3>3, <3>4 DEF OldTake
    <3>6. m + n + 1 = m + (n + 1)
      BY <1>1
    <3> QED BY <3>5, <3>6
  <2>2. CASE ~(m + n + 1 <= L)
    BY <1>1, <2>2
  <2> QED BY <2>1, <2>2
<1>5. L - m \in Nat /\ m + (L - m) = L
  BY <1>1
<1>6. L - m \in S
  <2> HIDE DEF S
  <2> QED BY <1>3, <1>4, <1>5, SetInduction
<1>7. o[L] = o[m]
  BY <1>5, <1>6
<1> QED BY <1>7 DEF parse_args, o, L

(* Of the flags given, the first in the order counts.                      *)
LEMMA FirstIs ==
    ASSUME NEW order, NEW flags, DOMAIN order \subseteq Int,
           NEW k \in DOMAIN order, order[k] \in flags,
           \A j \in DOMAIN order : order[j] \in flags => k <= j
    PROVE  FirstOf(order, flags) = order[k]
<1> DEFINE places == {j \in DOMAIN order : order[j] \in flags}
<1>1. k \in places /\ \A j \in places : k <= j
  OBVIOUS
<1>2. First(places) \in places /\ \A j \in places : First(places) <= j
  <2> HIDE DEF places
  <2> QED BY <1>1 DEF First
<1>3. First(places) = k
  BY <1>1, <1>2
<1> QED BY <1>3 DEF FirstOf

LEMMA PurposeAlike ==
    ASSUME NEW c, NEW old, c.flags \subseteq Flags, c.flags \cap {"-h", "-V"} = {},
           c.wants \notin {"user", "policy"}, old.does = "none",
           old.wants = c.wants, old.flags = c.flags, old.command = c.command
    PROVE  /\ Purpose(c) = OldPurpose(old)
           /\ Purpose(c) \in {"-k", "-c", "-l", "refuse", "run"}
           /\ Purpose(c) = "run" => c.command # <<>>
<1> DEFINE port == <<"-h", "-V", "-k", "-c", "-l">>
           orig == <<"-k", "-c", "-l">>
<1>1. /\ DOMAIN port = 1..5 /\ DOMAIN orig = 1..3
      /\ port[1] = "-h" /\ port[2] = "-V" /\ port[3] = "-k" /\ port[4] = "-c" /\ port[5] = "-l"
      /\ orig[1] = "-k" /\ orig[2] = "-c" /\ orig[3] = "-l"
  OBVIOUS
<1>2. "-h" \notin c.flags /\ "-V" \notin c.flags
  OBVIOUS
<1> HIDE DEF port, orig
<1>3. CASE c.flags = {}
  BY <1>3 DEF Purpose, OldPurpose
<1>4. ASSUME NEW d \in {0, 1, 2}, orig[d + 1] \in c.flags,
             \A j \in 1..3 : orig[j] \in c.flags => d + 1 <= j
      PROVE  FirstOf(port, c.flags) = FirstOf(orig, c.flags)
             /\ FirstOf(port, c.flags) \in {"-k", "-c", "-l"}
  <2>1. FirstOf(orig, c.flags) = orig[d + 1]
    BY <1>1, <1>4, FirstIs
  <2>2. port[d + 3] = orig[d + 1] /\ d + 3 \in 1..5
    BY <1>1
  <2>3. \A j \in 1..5 : port[j] \in c.flags => d + 3 <= j
    <3>1. \A j \in 1..5 : j = 1 \/ j = 2 \/ (j - 2 \in 1..3 /\ port[j] = orig[j - 2])
      BY <1>1
    <3> QED BY <1>1, <1>2, <1>4, <3>1
  <2>4. FirstOf(port, c.flags) = port[d + 3]
    BY <1>1, <1>4, <2>2, <2>3, FirstIs
  <2> QED BY <1>1, <2>1, <2>2, <2>4
<1>5. CASE c.flags # {}
  <2>1. "-k" \in c.flags \/ "-c" \in c.flags \/ "-l" \in c.flags
    BY <1>2, <1>5 DEF Flags
  <2>2. FirstOf(port, c.flags) = FirstOf(orig, c.flags)
        /\ FirstOf(port, c.flags) \in {"-k", "-c", "-l"}
    <3>1. CASE "-k" \in c.flags
      BY <1>1, <1>4, <3>1
    <3>2. CASE "-k" \notin c.flags /\ "-c" \in c.flags
      BY <1>1, <1>4, <3>2
    <3>3. CASE "-k" \notin c.flags /\ "-c" \notin c.flags /\ "-l" \in c.flags
      BY <1>1, <1>4, <3>3
    <3> QED BY <2>1, <3>1, <3>2, <3>3
  <2> QED BY <1>5, <2>2 DEF Purpose, OldPurpose, port, orig
<1> QED BY <1>3, <1>5

LEMMA HelpComesFirst ==
    ASSUME NEW c, c.flags \cap {"-h", "-V"} # {}
    PROVE  Purpose(c) \in {"-h", "-V"}
<1> DEFINE port == <<"-h", "-V", "-k", "-c", "-l">>
<1>1. DOMAIN port = 1..5 /\ port[1] = "-h" /\ port[2] = "-V"
  OBVIOUS
<1> HIDE DEF port
<1>2. CASE "-h" \in c.flags
  <2>1. FirstOf(port, c.flags) = port[1]
    BY <1>1, <1>2, FirstIs
  <2> QED BY <1>1, <1>2, <2>1 DEF Purpose, port
<1>3. CASE "-h" \notin c.flags /\ "-V" \in c.flags
  <2>1. \A j \in 1..5 : port[j] \in c.flags => 2 <= j
    BY <1>1, <1>3
  <2>2. FirstOf(port, c.flags) = port[2]
    BY <1>1, <1>3, <2>1, FirstIs
  <2> QED BY <1>1, <1>3, <2>2 DEF Purpose, port
<1> QED BY <1>2, <1>3

LEMMA ParsedInit == FrontInit => LineIInv
<1> SUFFICES ASSUME FrontInit PROVE LineIInv
  OBVIOUS
<1> USE DEF FrontInit, LineIInv
<1>1. line \in Seq(Arguments)
  BY FrontAssumption
<1>2. OldReads(line)[at - 1] = OldCli
  BY <1>1, OldReadsIs
<1>3. NoCli \in CliArgs
  BY DEF NoCli, CliArgs
<1>4. ReadAlike(NoCli, OldCli)
  BY <1>3 DEF ReadAlike, Fields, NoCli, OldCli
<1> QED BY <1>1, <1>2, <1>4 DEF ParsedAlike, CommandLineAgrees

(* After a -h or a -V the original reads no further, and the port does not *)
(* forget it.                                                              *)
LEMMA HelpStays ==
    ASSUME NEW c, NEW d \in CliArgs, NEW old, NEW a,
           ReadAlike(c, old), old.does # "none", c.flags \subseteq d.flags
    PROVE  ReadAlike(d, OldTake(old, a))
BY DEF ReadAlike, OldTake

(* An argument that only moves one field on does so in both.               *)
LEMMA OperandAlike ==
    ASSUME NEW c, NEW old, NEW a \in Arguments, ReadAlike(c, old),
           c.wants \in {"user", "policy"}
    PROVE  ReadAlike([c EXCEPT ![c.wants] = a, !.wants = "option"], OldTake(old, a))
<1> DEFINE d == [c EXCEPT ![c.wants] = a, !.wants = "option"]
<1>1. d \in CliArgs /\ d.flags = c.flags
  <2>1. CASE c.wants = "user"
    BY <2>1 DEF ReadAlike, CliArgs
  <2>2. CASE c.wants = "policy"
    BY <2>2 DEF ReadAlike, CliArgs
  <2> QED BY <2>1, <2>2
<1>2. CASE old.does # "none"
  BY <1>1, <1>2, HelpStays
<1>3. CASE old.does = "none"
  <2>1. /\ old.wants = c.wants /\ \A f \in Fields : c[f] = old[f]
        /\ DOMAIN c = Fields /\ DOMAIN old = Fields \cup {"does"}
        /\ c.flags \cap {"-h", "-V"} = {}
    BY <1>3 DEF ReadAlike, Fields, CliArgs
  <2> DEFINE e == [old EXCEPT ![c.wants] = a, !.wants = "option"]
  <2>2. OldTake(old, a) = e
    BY <1>3, <2>1 DEF OldTake
  <2>3. DOMAIN e = Fields \cup {"does"} /\ e.does = "none" /\ \A f \in Fields : d[f] = e[f]
    BY <1>3, <2>1 DEF Fields
  <2>4. ReadAlike(d, e)
    <3> HIDE DEF d, e
    <3> QED BY <1>1, <2>1, <2>3 DEF ReadAlike
  <2> QED BY <2>2, <2>4
<1> QED BY <1>2, <1>3

LEMMA WantsAlike ==
    ASSUME NEW c, NEW old, ReadAlike(c, old), c.wants = "option",
           NEW what, NEW a,
           <<a, what>> \in {<<"-u", "user">>, <<"-p", "policy">>, <<"--", "command">>}
    PROVE  ReadAlike([c EXCEPT !.wants = what], OldTake(old, a))
<1> DEFINE d == [c EXCEPT !.wants = what]
<1>1. d \in CliArgs /\ d.flags = c.flags
  BY DEF ReadAlike, CliArgs
<1>2. CASE old.does # "none"
  BY <1>1, <1>2, HelpStays
<1>3. CASE old.does = "none"
  <2>1. /\ old.wants = c.wants /\ \A f \in Fields : c[f] = old[f]
        /\ DOMAIN c = Fields /\ DOMAIN old = Fields \cup {"does"}
        /\ c.flags \cap {"-h", "-V"} = {}
    BY <1>3 DEF ReadAlike, Fields, CliArgs
  <2> DEFINE e == [old EXCEPT !.wants = what]
  <2>2. a \notin Words
    BY FrontAssumption DEF Options
  <2>3. OldTake(old, a) = e
    BY <1>3, <2>1, <2>2 DEF OldTake, Flags
  <2>4. DOMAIN e = Fields \cup {"does"} /\ e.does = "none" /\ \A f \in Fields : d[f] = e[f]
    BY <1>3, <2>1 DEF Fields
  <2>5. ReadAlike(d, e)
    <3> HIDE DEF d, e
    <3> QED BY <1>1, <2>1, <2>4 DEF ReadAlike
  <2> QED BY <2>3, <2>5
<1> QED BY <1>2, <1>3

LEMMA FlagAlike ==
    ASSUME NEW c, NEW old, ReadAlike(c, old), c.wants = "option", NEW a \in Flags
    PROVE  ReadAlike([c EXCEPT !.flags = @ \cup {a}], OldTake(old, a))
<1> DEFINE d == [c EXCEPT !.flags = @ \cup {a}]
<1>1. d \in CliArgs /\ d.flags = c.flags \cup {a}
  BY DEF ReadAlike, CliArgs
<1>2. CASE old.does # "none"
  <2>1. c.flags \subseteq d.flags
    BY <1>1
  <2>2. ReadAlike(d, OldTake(old, a))
    <3> HIDE DEF d
    <3> QED BY <1>1, <1>2, <2>1, HelpStays
  <2> QED BY <2>2
<1>3. CASE old.does = "none"
  <2>1. /\ old.wants = c.wants /\ \A f \in Fields : c[f] = old[f]
        /\ DOMAIN c = Fields /\ DOMAIN old = Fields \cup {"does"}
        /\ c.flags \cap {"-h", "-V"} = {}
    BY <1>3 DEF ReadAlike, Fields, CliArgs
  <2>2. a \notin Words
    BY FrontAssumption DEF Options
  <2>3. CASE a \in {"-h", "-V"}
    <3> DEFINE e == [old EXCEPT !.does = a]
    <3>1. OldTake(old, a) = e
      BY <1>3, <2>1, <2>2, <2>3 DEF OldTake
    <3>2. DOMAIN e = Fields \cup {"does"} /\ e.does = a
      BY <2>1
    <3>3. ReadAlike(d, e)
      <4> HIDE DEF d, e
      <4> QED BY <1>1, <2>3, <3>2 DEF ReadAlike
    <3> QED BY <3>1, <3>3
  <2>4. CASE a \notin {"-h", "-V"}
    <3> DEFINE e == [old EXCEPT !.flags = @ \cup {a}]
    <3>1. OldTake(old, a) = e
      BY <1>3, <2>1, <2>2, <2>4 DEF OldTake, Flags
    <3>2. DOMAIN e = Fields \cup {"does"} /\ e.does = "none" /\ \A f \in Fields : d[f] = e[f]
      BY <1>3, <2>1 DEF Fields
    <3>3. ReadAlike(d, e)
      <4> HIDE DEF d, e
      <4> QED BY <1>1, <2>1, <2>4, <3>2 DEF ReadAlike
    <3> QED BY <3>1, <3>3
  <2> QED BY <2>3, <2>4
<1> QED BY <1>2, <1>3

LEMMA WordAlike ==
    ASSUME NEW c, NEW old, ReadAlike(c, old), NEW a \in Arguments,
           c.wants = "command" \/ (c.wants = "option" /\ a \in Words)
    PROVE  ReadAlike([c EXCEPT !.wants = "command", !.command = Append(@, a)], OldTake(old, a))
<1> DEFINE d == [c EXCEPT !.wants = "command", !.command = Append(@, a)]
<1>1. d \in CliArgs /\ d.flags = c.flags
  <2>1. c \in CliArgs /\ Append(c.command, a) \in Seq(Arguments)
    BY DEF ReadAlike, CliArgs
  <2> QED BY <2>1 DEF CliArgs
<1>2. CASE old.does # "none"
  <2>1. c.flags \subseteq d.flags
    BY <1>1
  <2>2. ReadAlike(d, OldTake(old, a))
    <3> HIDE DEF d
    <3> QED BY <1>1, <1>2, <2>1, HelpStays
  <2> QED BY <2>2
<1>3. CASE old.does = "none"
  <2>1. /\ old.wants = c.wants /\ \A f \in Fields : c[f] = old[f]
        /\ DOMAIN c = Fields /\ DOMAIN old = Fields \cup {"does"}
        /\ c.flags \cap {"-h", "-V"} = {}
    BY <1>3 DEF ReadAlike, Fields, CliArgs
  <2> DEFINE e == [old EXCEPT !.wants = "command", !.command = Append(@, a)]
  <2>2. OldTake(old, a) = e
    BY <1>3, <2>1 DEF OldTake
  <2>3. DOMAIN e = Fields \cup {"does"} /\ e.does = "none" /\ \A f \in Fields : d[f] = e[f]
    BY <1>3, <2>1 DEF Fields
  <2>4. ReadAlike(d, e)
    <3> HIDE DEF d, e
    <3> QED BY <1>1, <2>1, <2>3 DEF ReadAlike
  <2> QED BY <2>2, <2>4
<1> QED BY <1>2, <1>3

(* Both readers take an argument alike.                                    *)
LEMMA ReadSteps ==
    ASSUME ParsedAlike, HasNext, NEW d, Read(d),
           \A old : ReadAlike(cli, old) => ReadAlike(d, OldTake(old, line[at]))
    PROVE  ParsedAlike' /\ CommandLineAgrees'
<1>1. /\ stage = "parse" /\ stage' = "parse" /\ line' = line /\ at' = at + 1 /\ cli' = d
      /\ line \in Seq(Arguments) /\ at \in 1..Len(line) /\ Len(line) \in Nat
      /\ ReadAlike(cli, OldReads(line)[at - 1])
  BY DEF ParsedAlike, HasNext, Read
<1>2. OldReads(line)[at] = OldTake(OldReads(line)[at - 1], line[at])
  BY <1>1, OldReadsIs
<1>3. ReadAlike(d, OldReads(line)[at])
  BY <1>1, <1>2
<1>4. at' - 1 = at /\ at' \in 1..(Len(line) + 1)
  BY <1>1
<1>5. ReadAlike(cli', OldReads(line')[at' - 1])
  BY <1>1, <1>3, <1>4
<1> QED BY <1>1, <1>4, <1>5 DEF ParsedAlike, CommandLineAgrees

LEMMA ParseSteps ==
    ASSUME ParsedAlike, ParseStep
    PROVE  ParsedAlike' /\ CommandLineAgrees'
<1>0. stage = "parse" /\ line \in Seq(Arguments) /\ at \in 1..(Len(line) + 1)
  BY DEF ParsedAlike, ParseStep, Operand, Flag, UnknownOption, CommandWord, NoOperand,
         Decide, Wants, AtOption, HasNext, LineEnds
<1> DEFINE o == OldReads(line)[at - 1]
<1>a. ReadAlike(cli, o)
  BY <1>0 DEF ParsedAlike
<1>b. HasNext => at \in 1..Len(line) /\ line[at] \in Arguments
  BY <1>0 DEF HasNext
<1>1. CASE Operand
  BY <1>1, <1>b, OperandAlike, ReadSteps DEF Operand
<1>2. CASE Flag
  BY <1>2, FlagAlike, ReadSteps DEF Flag, AtOption
<1>3. CASE Wants("-u", "user") \/ Wants("-p", "policy") \/ Wants("--", "command")
  <2>1. PICK w \in {<<"-u", "user">>, <<"-p", "policy">>, <<"--", "command">>} :
            AtOption /\ line[at] = w[1] /\ Read([cli EXCEPT !.wants = w[2]])
    BY <1>3 DEF Wants
  <2>2. <<line[at], w[2]>> \in {<<"-u", "user">>, <<"-p", "policy">>, <<"--", "command">>}
    BY <2>1
  <2> QED BY <2>1, <2>2, WantsAlike, ReadSteps DEF AtOption
<1>4. CASE CommandWord
  BY <1>4, <1>b, WordAlike, ReadSteps DEF CommandWord
<1>5. CASE UnknownOption
  <2>1. /\ at \in 1..Len(line) /\ line[at] = "-x" /\ cli.wants = "option"
        /\ stage' = "settled" /\ does' = "refuse" /\ line' = line
    BY <1>5, <1>b DEF UnknownOption, AtOption, HasNext, Settle
  <2>2. CASE o.does # "none"
    <3>1. parse_args(line) = o /\ o.does \in {"-h", "-V"}
      BY <1>0, <1>a, <2>2, ReaderStops DEF ReadAlike
    <3>2. OldDoes(parse_args(line))' \in {"-h", "-V"}
      BY <2>1, <3>1 DEF OldDoes, OldPurpose
    <3> QED BY <2>1, <3>2 DEF ParsedAlike, CommandLineAgrees
  <2>3. CASE o.does = "none"
    <3>1. OldReads(line)[at] = OldTake(o, "-x")
      BY <1>0, <2>1, OldReadsIs
    <3>2. o.wants = "option" /\ "-x" \notin Words /\ "does" \in DOMAIN o
      BY <1>a, <2>1, <2>3, FrontAssumption DEF ReadAlike, Fields, Options
    <3>3. OldTake(o, "-x").does = "refuse"
      BY <2>3, <3>2 DEF OldTake, Flags
    <3>4. parse_args(line).does = "refuse"
      BY <1>0, <2>1, <3>1, <3>3, ReaderStops
    <3>5. OldDoes(parse_args(line))' = "refuse"
      BY <2>1, <3>4 DEF OldDoes, OldPurpose
    <3> QED BY <2>1, <3>5 DEF ParsedAlike, CommandLineAgrees
  <2> QED BY <2>2, <2>3
<1>6. ASSUME LineEnds PROVE o = parse_args(line)
  <2>1. at - 1 = Len(line)
    BY <1>0, <1>6 DEF LineEnds
  <2> QED BY <2>1 DEF parse_args
<1>7. CASE NoOperand
  <2>1. /\ LineEnds /\ cli.wants \in {"user", "policy"}
        /\ stage' = "settled" /\ does' = "refuse" /\ line' = line
    BY <1>7 DEF NoOperand, Settle
  <2>2. OldPurpose(o) \in {"-h", "-V", "refuse"}
    BY <1>a, <2>1 DEF ReadAlike, OldPurpose, Fields
  <2>3. OldDoes(parse_args(line))' \in {"-h", "-V", "refuse"}
    BY <1>6, <2>1, <2>2 DEF OldDoes
  <2> QED BY <2>1, <2>3 DEF ParsedAlike, CommandLineAgrees
<1>8. CASE Decide
  <2>1. LineEnds /\ cli.wants \notin {"user", "policy"} /\ o = parse_args(line)
    BY <1>6, <1>8 DEF Decide
  <2>2. CASE o.does # "none"
    <3>1. o.does \in {"-h", "-V"} /\ cli.flags \cap {"-h", "-V"} # {}
      BY <1>a, <2>2 DEF ReadAlike
    <3>2. Purpose(cli) \in {"-h", "-V"}
      BY <3>1, HelpComesFirst
    <3>3. stage' = "settled" /\ does' = Purpose(cli) /\ line' = line
      BY <1>8, <3>2 DEF Decide, Settle
    <3>4. OldDoes(parse_args(line))' \in {"-h", "-V"}
      BY <2>1, <3>1, <3>3 DEF OldDoes, OldPurpose
    <3> QED BY <3>2, <3>3, <3>4 DEF ParsedAlike, CommandLineAgrees
  <2>3. CASE o.does = "none"
    <3>1. /\ cli \in CliArgs /\ cli.flags \subseteq Flags /\ cli.flags \cap {"-h", "-V"} = {}
          /\ o.wants = cli.wants /\ o.user = cli.user /\ o.policy = cli.policy
          /\ o.flags = cli.flags /\ o.command = cli.command
      BY <1>a, <2>3 DEF ReadAlike, Fields, CliArgs
    <3> HIDE DEF o
    <3>2. Purpose(cli) = OldPurpose(o)
      BY <2>1, <2>3, <3>1, PurposeAlike
    <3>3. CASE Purpose(cli) # "run"
      <4>1. stage' = "settled" /\ does' = Purpose(cli) /\ line' = line /\ cli' = cli
        BY <1>8, <3>3 DEF Decide, Settle
      <4>2. OldDoes(parse_args(line))' = does'
        BY <2>1, <3>2, <3>3, <4>1 DEF OldDoes
      <4>3. does' \notin {"-h", "-V", "ask"}
        BY <2>1, <2>3, <3>1, <3>3, <4>1, PurposeAlike
      <4> QED BY <2>1, <3>1, <4>1, <4>2, <4>3 DEF ParsedAlike, CommandLineAgrees
    <3>4. CASE Purpose(cli) = "run"
      <4>1. stage' = "validate" /\ UNCHANGED <<line, cli>>
        BY <1>8, <3>4 DEF Decide
      <4>2. cli.command # <<>>
        BY <2>1, <2>3, <3>1, <3>2, <3>4, PurposeAlike
      <4>3. TakenAlike(cli, parse_args(line))
        BY <2>1, <3>1, <3>2, <3>4, <4>2 DEF TakenAlike
      <4> QED BY <4>1, <4>3 DEF ParsedAlike, CommandLineAgrees
    <3> QED BY <3>3, <3>4
  <2> QED BY <2>2, <2>3
<1> QED BY <1>1, <1>2, <1>3, <1>4, <1>5, <1>7, <1>8 DEF ParseStep

(* Validation refuses in both, or the search begins in both.               *)
LEMMA ValidateStep ==
    ASSUME ParsedAlike, Validate
    PROVE  ParsedAlike' /\ CommandLineAgrees'
<1> DEFINE old == parse_args(line)
<1>1. stage = "validate" /\ TakenAlike(cli, old)
  BY DEF ParsedAlike, Validate
<1>2. cli.command \in Seq(Arguments) /\ cli.command = old.command /\ OldPurpose(old) = "run"
  BY <1>1 DEF TakenAlike, CliArgs
<1>3. validate_command(cli.command, limit) <=> old_validate_command(cli.command, limit)
  BY <1>2, LengthsAgree DEF validate_command, old_validate_command
<1>4. CASE validate_command(cli.command, limit)
  <2>1. stage' = "resolve" /\ at' = 1 /\ UNCHANGED <<line, cli, limit, disk>>
    BY <1>4 DEF Validate, lineVars
  <2>2. old_validate_command(cli.command, limit)
    BY <1>3, <1>4
  <2>3. 1 \in 1..(Len(PATH) + 1)
    BY FrontAssumption
  <2>4. SoughtAlike'
    BY <2>1, <2>2, <2>3 DEF SoughtAlike
  <2> QED BY <1>1, <2>1, <2>4 DEF ParsedAlike, CommandLineAgrees
<1>5. CASE ~validate_command(cli.command, limit)
  <2>1. stage' = "settled" /\ does' = "refuse" /\ UNCHANGED <<line, cli, limit, disk>>
    BY <1>5 DEF Validate, Settle
  <2>2. ~old_validate_command(old.command, limit)
    BY <1>2, <1>3, <1>5
  <2>3. OldDoes(old)' = "refuse"
    BY <1>2, <2>1, <2>2 DEF OldDoes, OldFound
  <2> QED BY <2>1, <2>3 DEF ParsedAlike, CommandLineAgrees
<1> QED BY <1>4, <1>5

(* What the original finds depends on nothing else that moves.             *)
LEMMA SameDisk ==
    ASSUME UNCHANGED <<limit, disk>>
    PROVE  \A c : /\ old_resolve_command(c)' = old_resolve_command(c)
                  /\ OldFound(c)' = OldFound(c) /\ OldDoes(c)' = OldDoes(c)
<1>1. \A c : old_resolve_command(c)' = old_resolve_command(c)
  BY DEF old_resolve_command, Executable
<1>2. \A c : OldFound(c)' = OldFound(c)
  BY <1>1 DEF OldFound
<1> QED BY <1>1, <1>2 DEF OldDoes

(* The search ends where the original has found the command.               *)
LEMMA SearchEnds ==
    ASSUME ParsedAlike, stage = "resolve", NEW dir,
           old_resolve_command(Command) = {dir}, Found(dir)
    PROVE  ParsedAlike' /\ CommandLineAgrees'
<1> DEFINE old == parse_args(line)
           what == [dir |-> dir, name |-> Spelling[Command].name, words |-> Tail(cli.command)]
<1>1. /\ cli.user = old.user /\ cli.policy = old.policy /\ cli.command = old.command
      /\ OldPurpose(old) = "run" /\ old_validate_command(old.command, limit)
  BY DEF ParsedAlike, TakenAlike, SoughtAlike
<1>2. /\ stage' = "settled" /\ does' = "ask" /\ found' = what
      /\ UNCHANGED <<line, cli, limit, disk>>
  BY DEF Found
<1>3. OldFound(old) = {what}
  BY <1>1 DEF OldFound, Command
<1>4. OldFound(old)' = {what}
  BY <1>2, <1>3, SameDisk
<1>5. OldDoes(old)' = "ask"
  BY <1>1, <1>2, <1>4 DEF OldDoes
<1> QED BY <1>1, <1>2, <1>4, <1>5 DEF ParsedAlike, CommandLineAgrees

LEMMA SearchFails ==
    ASSUME ParsedAlike, stage = "resolve",
           old_resolve_command(Command) = {}, Settle("refuse")
    PROVE  ParsedAlike' /\ CommandLineAgrees'
<1> DEFINE old == parse_args(line)
<1>1. cli.command = old.command /\ OldPurpose(old) = "run"
  BY DEF ParsedAlike, TakenAlike
<1>2. /\ stage' = "settled" /\ does' = "refuse"
      /\ UNCHANGED <<line, cli, limit, disk>>
  BY DEF Settle
<1>3. OldFound(old) = {}
  BY <1>1 DEF OldFound, Command
<1>4. OldFound(old)' = {}
  BY <1>2, <1>3, SameDisk
<1>5. OldDoes(old)' = "refuse"
  BY <1>1, <1>2, <1>4 DEF OldDoes
<1> QED BY <1>2, <1>5 DEF ParsedAlike, CommandLineAgrees

LEMMA ResolveSteps ==
    ASSUME ParsedAlike, ResolveAbsolute \/ RejectRelative \/ SearchPath
    PROVE  ParsedAlike' /\ CommandLineAgrees'
<1>0. stage = "resolve" /\ SoughtAlike
  BY DEF ResolveAbsolute, RejectRelative, SearchPath, Resolving, ParsedAlike
<1> USE DEF Resolving
<1>1. CASE ResolveAbsolute
  <2> DEFINE dir == Spelling[Command].dir
  <2>1. CASE Executable(Plain[dir], Command)
    <3>1. old_resolve_command(Command) = {dir}
      BY <1>1, <2>1 DEF ResolveAbsolute, old_resolve_command
    <3> QED BY <1>0, <1>1, <2>1, <3>1, SearchEnds DEF ResolveAbsolute
  <2>2. CASE ~Executable(Plain[dir], Command)
    <3>1. old_resolve_command(Command) = {}
      BY <1>1, <2>2 DEF ResolveAbsolute, old_resolve_command
    <3> QED BY <1>0, <1>1, <2>2, <3>1, SearchFails DEF ResolveAbsolute
  <2> QED BY <2>1, <2>2
<1>2. CASE RejectRelative
  <2>1. old_resolve_command(Command) = {}
    BY <1>2 DEF RejectRelative, old_resolve_command
  <2> QED BY <1>0, <1>2, <2>1, SearchFails DEF RejectRelative
<1>3. CASE SearchPath
  <2> DEFINE hits == {k \in DOMAIN PATH : Executable(PATH[k], Command)}
  <2>1. /\ DOMAIN PATH = 1..Len(PATH) /\ Len(PATH) \in Nat /\ at \in 1..(Len(PATH) + 1)
        /\ \A k \in 1..(at - 1) : ~Executable(PATH[k], Command)
        /\ Spelling[Command].kind = "bare"
    BY <1>0, <1>3, FrontAssumption DEF SoughtAlike, SearchPath
  <2>2. old_resolve_command(Command) = IF hits = {} THEN {} ELSE {PATH[First(hits)]}
    BY <2>1 DEF old_resolve_command
  <2>3. CASE at > Len(PATH)
    <3>1. hits = {}
      BY <2>1, <2>3
    <3> QED BY <1>0, <1>3, <2>2, <2>3, <3>1, SearchFails DEF SearchPath
  <2>4. CASE at <= Len(PATH) /\ Executable(PATH[at], Command)
    <3>1. at \in hits /\ \A k \in hits : at <= k
      BY <2>1, <2>4
    <3>2. hits \subseteq Int
      BY <2>1
    <3>3. First(hits) = at
      <4> HIDE DEF hits
      <4>1. First(hits) \in hits /\ \A k \in hits : First(hits) <= k
        BY <3>1 DEF First
      <4>2. First(hits) \in Int /\ at \in Int /\ at <= First(hits) /\ First(hits) <= at
        BY <3>1, <3>2, <4>1
      <4> QED BY <4>2
    <3>4. old_resolve_command(Command) = {PATH[at]}
      BY <2>2, <3>1, <3>3
    <3>5. Found(PATH[at])
      BY <1>3, <2>1, <2>4 DEF SearchPath
    <3> QED BY <1>0, <3>4, <3>5, SearchEnds
  <2>5. CASE at <= Len(PATH) /\ ~Executable(PATH[at], Command)
    <3>1. at' = at + 1 /\ UNCHANGED <<stage, lineVars>>
      BY <1>3, <2>1, <2>5 DEF SearchPath
    <3>2. at + 1 \in 1..(Len(PATH) + 1) /\ \A k \in 1..at : k = at \/ k \in 1..(at - 1)
      BY <2>1, <2>5
    <3>3. \A k \in 1..(at + 1 - 1) : ~Executable(PATH[k], Command)
      BY <2>1, <2>5, <3>2
    <3>4. SoughtAlike'
      BY <1>0, <3>1, <3>2, <3>3 DEF SoughtAlike, Command, Executable, lineVars
    <3> QED BY <1>0, <3>1, <3>4 DEF ParsedAlike, CommandLineAgrees, lineVars
  <2> QED BY <2>1, <2>3, <2>4, <2>5
<1> QED BY <1>1, <1>2, <1>3

(* The rest of the way is not about the line.                              *)
LEMMA LineIsRead ==
    ASSUME LineIInv, [FrontNext]_frontVars
    PROVE  LineIInv'
<1> USE DEF LineIInv
<1>1. CASE ParseStep
  BY <1>1, ParseSteps
<1>2. CASE Validate
  BY <1>2, ValidateStep
<1>3. CASE ResolveAbsolute \/ RejectRelative \/ SearchPath
  BY <1>3, ResolveSteps
<1>4. CASE \/ Ask \/ LoadPolicy \/ Decision
           \/ Permitted \/ ReadEnvironment \/ PassVariable \/ EnvironmentReady
  <2>1. stage' \notin {"parse", "validate", "resolve", "settled"}
    BY <1>4 DEF Ask, LoadPolicy, Decision, Permitted, ReadEnvironment, PassVariable,
                EnvironmentReady
  <2> QED BY <2>1 DEF ParsedAlike, CommandLineAgrees
<1>5. CASE UNCHANGED frontVars
  <2>1. UNCHANGED <<stage, at, line, cli, does, limit, disk, found>>
    BY <1>5 DEF frontVars, lineVars
  <2>2. SoughtAlike' <=> SoughtAlike
    BY <2>1 DEF SoughtAlike, Command, Executable
  <2>3. ParsedAlike'
    BY <2>1, <2>2 DEF ParsedAlike
  <2>4. CommandLineAgrees'
    BY <2>1, SameDisk DEF CommandLineAgrees
  <2> QED BY <2>3, <2>4
<1> QED BY <1>1, <1>2, <1>3, <1>4, <1>5 DEF FrontNext

(* For a line of any length, the port is where the original has been.      *)
THEOREM LineInductive == FrontSpec => []LineIInv
BY ParsedInit, LineIsRead, PTL DEF FrontSpec

(* What a command line leads to is what it led to before the port: the     *)
(* purpose, the policy file, the target, the command and where it lies.    *)
THEOREM CommandLineIsTheSame == FrontSpec => []CommandLineAgrees
<1>1. LineIInv => CommandLineAgrees
  BY DEF LineIInv
<1> QED BY <1>1, LineInductive, PTL
==============================================================================
