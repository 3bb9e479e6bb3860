----------------------------- MODULE AuthProofs ------------------------------
(***************************************************************************)
(* Proofs about the authentication window of both programs, for any number *)
(* of processes and attempts.  What concerns the signal mask assumes that  *)
(* signals come from the keyboard (KeyboardOnly), and what concerns the    *)
(* echo also that a terminal has one prompt (OnePrompt).                   *)
(***************************************************************************)
EXTENDS OldAuth, TLAPS

LEMMA AuthInvInit == MixedAuthInit => AuthIInv
<1> SUFFICES ASSUME MixedAuthInit
             PROVE  AuthIInv
  OBVIOUS
<1> USE AuthAssumption DEF MixedAuthInit, AuthInit
<1>1. AuthTypeOK /\ old \subseteq Proc
  <2>1. old \subseteq Proc
    BY OldAuthAssumption
  <2>2. attempt \in [Proc -> 1..MaxAttempts]
    OBVIOUS
  <2>3. [said |-> "none", pam |-> 0, su |-> 0]
          \in [said : Answer, pam : 0..MaxAttempts, su : 0..MaxAttempts]
    BY DEF Answer
  <2> QED BY <2>1, <2>2, <2>3 DEF AuthTypeOK, Running, Line, AuthSigmask
<1>2. Counted /\ BackendDiscipline /\ PasswordScrubbed
  BY DEF Counted, BackendDiscipline, PasswordScrubbed
<1>3. SignalsBlocked /\ EchoFollows
  BY DEF SignalsBlocked, EchoFollows, Silenced, Blocking, Window
<1> QED BY <1>1, <1>2, <1>3 DEF AuthIInv

(* What a backend's answer changes.                                        *)
LEMMA HeardCounts ==
    ASSUME AuthTypeOK, NEW p \in Proc, NEW which, NEW a, Heard(p, which, a)
    PROVE  /\ backend'[p].said = a
           /\ backend'[p].pam = IF which = "pam" THEN backend[p].pam + 1 ELSE backend[p].pam
           /\ backend'[p].su = IF which = "su" THEN backend[p].su + 1 ELSE backend[p].su
           /\ \A q \in Proc \ {p} : backend'[q] = backend[q]
BY DEF AuthTypeOK, Heard

LEMMA HeardTyped ==
    ASSUME AuthTypeOK, Counted, NEW p \in Proc, NEW which \in {"pam", "su"}, NEW a \in Answer,
           apc[p] = which, Heard(p, which, a)
    PROVE  backend' \in [Proc -> [said : Answer, pam : 0..MaxAttempts, su : 0..MaxAttempts]]
<1>1. attempt[p] \in 1..MaxAttempts /\ MaxAttempts \in Nat
  BY AuthAssumption DEF AuthTypeOK
<1>2. backend[p] \in [said : Answer, pam : 0..MaxAttempts, su : 0..MaxAttempts]
  BY DEF AuthTypeOK
<1>3. /\ which = "pam" => backend[p].pam + 1 \in 0..MaxAttempts
      /\ which = "su" => backend[p].su + 1 \in 0..MaxAttempts
  BY <1>1, <1>2 DEF Counted, BeforeBackend, Window
<1>4. [said |-> a, pam |-> IF which = "pam" THEN backend[p].pam + 1 ELSE backend[p].pam,
                   su |-> IF which = "su" THEN backend[p].su + 1 ELSE backend[p].su]
        \in [said : Answer, pam : 0..MaxAttempts, su : 0..MaxAttempts]
  BY <1>2, <1>3
<1> QED BY <1>4 DEF AuthTypeOK, Heard

------------------------------------------------------------------------------
(* Each step keeps the invariant.                                          *)
LEMMA EchoApart ==
    ASSUME AuthTypeOK, EchoFollows, NEW p \in Proc, NEW to, UNCHANGED <<echo, stuck, saved, muted>>,
           apc' = [apc EXCEPT ![p] = to],
           apc[p] \notin Silenced, to \notin Silenced \cup {"echooff"}
    PROVE  EchoFollows'
BY DEF AuthTypeOK, EchoFollows, Silenced

LEMMA YesKeeps ==
    ASSUME AuthIInv, NEW p \in Proc, NEW which \in {"pam", "su"}, UNCHANGED old,
           Accept(p, which), Heard(p, which, "yes")
    PROVE  AuthIInv'
<1> USE DEF AuthIInv, Accept, Step, Scrub
<1>0. backend' \in [Proc -> [said : Answer, pam : 0..MaxAttempts, su : 0..MaxAttempts]]
  BY HeardTyped DEF Answer
<1>1. AuthTypeOK'
  BY <1>0 DEF AuthTypeOK, Running, Over, Line
<1>2. ASSUME KeyboardOnly, OnePrompt
      PROVE  EchoFollows'
  BY <1>2, EchoApart DEF Silenced
<1>3. ASSUME KeyboardOnly
      PROVE  SignalsBlocked'
  BY <1>3 DEF AuthTypeOK, SignalsBlocked, Blocking, Window
<1>4. Counted' /\ BackendDiscipline'
  <2>1. \A q \in Proc \ {p} : backend'[q] = backend[q] /\ apc'[q] = apc[q]
    BY HeardCounts DEF AuthTypeOK
  <2>2. /\ backend'[p].said = "yes" /\ apc'[p] = "accept" /\ attempt' = attempt
        /\ backend'[p].pam = IF which = "pam" THEN backend[p].pam + 1 ELSE backend[p].pam
        /\ backend'[p].su = IF which = "su" THEN backend[p].su + 1 ELSE backend[p].su
    BY HeardCounts DEF AuthTypeOK
  <2>3. /\ backend'[p].pam <= attempt[p] /\ backend'[p].su <= backend'[p].pam
        /\ backend'[p].pam <= MaxAttempts
    BY <1>0, <2>2, AuthAssumption DEF AuthTypeOK, Counted, BeforeBackend, Window
  <2> QED BY <2>1, <2>2, <2>3 DEF Counted, BackendDiscipline, BeforeBackend, Window
<1>5. PasswordScrubbed'
  BY DEF AuthTypeOK, PasswordScrubbed
<1> QED BY <1>1, <1>2, <1>3, <1>4, <1>5

LEMMA NoKeeps ==
    ASSUME AuthIInv, NEW p \in Proc, NEW which \in {"pam", "su"}, UNCHANGED old,
           NextAttempt(p, which), Heard(p, which, "no")
    PROVE  AuthIInv'
<1> DEFINE to == IF MoreAttempts(attempt[p]) THEN "tcgets" ELSE "reject"
<1> USE DEF AuthIInv, NextAttempt, Step, Scrub
<1>0. backend' \in [Proc -> [said : Answer, pam : 0..MaxAttempts, su : 0..MaxAttempts]]
  BY HeardTyped DEF Answer
<1>1. AuthTypeOK'
  <2>1. attempt' \in [Proc -> 1..MaxAttempts]
    BY AuthAssumption DEF AuthTypeOK, MoreAttempts
  <2> QED BY <1>0, <2>1 DEF AuthTypeOK, Running, Over, Line
<1>2. ASSUME KeyboardOnly, OnePrompt
      PROVE  EchoFollows'
  <2>1. to \notin Silenced \cup {"echooff"} /\ apc[p] \notin Silenced
    BY DEF Silenced
  <2> QED BY <1>2, <2>1, EchoApart
<1>3. ASSUME KeyboardOnly
      PROVE  SignalsBlocked'
  BY <1>3 DEF AuthTypeOK, SignalsBlocked, Blocking, Window
<1>4. Counted' /\ BackendDiscipline'
  <2>1. \A q \in Proc \ {p} :
            backend'[q] = backend[q] /\ apc'[q] = apc[q] /\ attempt'[q] = attempt[q]
    BY HeardCounts DEF AuthTypeOK
  <2>2. /\ backend'[p].pam = IF which = "pam" THEN backend[p].pam + 1 ELSE backend[p].pam
        /\ backend'[p].su = IF which = "su" THEN backend[p].su + 1 ELSE backend[p].su
        /\ apc'[p] = to
        /\ attempt'[p] = IF MoreAttempts(attempt[p]) THEN attempt[p] + 1 ELSE attempt[p]
    BY HeardCounts DEF AuthTypeOK
  <2>3. /\ backend'[p].pam <= attempt[p] /\ backend'[p].su <= backend'[p].pam
        /\ backend'[p].pam <= MaxAttempts
    BY <1>0, <2>2, AuthAssumption DEF AuthTypeOK, Counted, BeforeBackend, Window
  <2>4. /\ backend'[p].pam <= attempt'[p]
        /\ apc'[p] \in BeforeBackend => backend'[p].pam < attempt'[p]
        /\ apc'[p] \notin {"su", "accept", "ticket", "granted"}
    BY <1>0, <2>2, <2>3, AuthAssumption DEF AuthTypeOK, BeforeBackend, Window
  <2> QED BY <2>1, <2>3, <2>4 DEF Counted, BackendDiscipline
<1>5. PasswordScrubbed'
  BY DEF AuthTypeOK, PasswordScrubbed
<1> QED BY <1>1, <1>2, <1>3, <1>4, <1>5

LEMMA AnswersKeep ==
    ASSUME AuthIInv, NEW p \in Proc, UNCHANGED old,
           PamAnswers(p) \/ OldPamAnswers(p) \/ SuAnswers(p)
    PROVE  AuthIInv'
BY YesKeeps, NoKeeps DEF PamAnswers, OldPamAnswers, SuAnswers

LEMMA MaskSignalsKeeps ==
    ASSUME AuthIInv, NEW p \in Proc, MaskSignals(p), UNCHANGED old
    PROVE  AuthIInv'
<1> USE DEF AuthIInv, MaskSignals, Step
<1>1. AuthTypeOK'
  BY AuthAssumption DEF AuthTypeOK, AuthSigmask, Running, Over, Line
<1>2. ASSUME KeyboardOnly, OnePrompt
      PROVE  EchoFollows'
  BY <1>2 DEF AuthTypeOK, EchoFollows, Silenced, SignalsBlocked, Blocking, Window, OnePrompt
<1>3. ASSUME KeyboardOnly
      PROVE  SignalsBlocked'
  BY <1>3 DEF AuthTypeOK, SignalsBlocked, Blocking, Window
<1>4. Counted' /\ BackendDiscipline'
  BY AuthAssumption DEF AuthTypeOK, Counted, BackendDiscipline, BeforeBackend, Window
<1>5. PasswordScrubbed'
  BY DEF AuthTypeOK, PasswordScrubbed
<1> QED BY <1>1, <1>2, <1>3, <1>4, <1>5

LEMMA TcGetsKeeps ==
    ASSUME AuthIInv, NEW p \in Proc, TcGets(p), UNCHANGED old
    PROVE  AuthIInv'
<1> USE DEF AuthIInv, TcGets, Step
<1>1. AuthTypeOK'
  BY AuthAssumption DEF AuthTypeOK, AuthSigmask, Running, Over, Line
<1>2. ASSUME KeyboardOnly, OnePrompt
      PROVE  EchoFollows'
  BY <1>2 DEF AuthTypeOK, EchoFollows, Silenced, SignalsBlocked, Blocking, Window, OnePrompt
<1>3. ASSUME KeyboardOnly
      PROVE  SignalsBlocked'
  BY <1>3 DEF AuthTypeOK, SignalsBlocked, Blocking, Window
<1>4. Counted' /\ BackendDiscipline'
  BY AuthAssumption DEF AuthTypeOK, Counted, BackendDiscipline, BeforeBackend, Window
<1>5. PasswordScrubbed'
  BY DEF AuthTypeOK, PasswordScrubbed
<1> QED BY <1>1, <1>2, <1>3, <1>4, <1>5

LEMMA EchoOffKeeps ==
    ASSUME AuthIInv, NEW p \in Proc, EchoOff(p), UNCHANGED old
    PROVE  AuthIInv'
<1> USE DEF AuthIInv, EchoOff, TcSetNoEcho, Step
<1>1. AuthTypeOK'
  BY AuthAssumption DEF AuthTypeOK, AuthSigmask, Running, Over, Line
<1>2. ASSUME KeyboardOnly, OnePrompt
      PROVE  EchoFollows'
  BY <1>2 DEF AuthTypeOK, EchoFollows, Silenced, SignalsBlocked, Blocking, Window, OnePrompt
<1>3. ASSUME KeyboardOnly
      PROVE  SignalsBlocked'
  BY <1>3 DEF AuthTypeOK, SignalsBlocked, Blocking, Window
<1>4. Counted' /\ BackendDiscipline'
  BY AuthAssumption DEF AuthTypeOK, Counted, BackendDiscipline, BeforeBackend, Window
<1>5. PasswordScrubbed'
  BY DEF AuthTypeOK, PasswordScrubbed
<1> QED BY <1>1, <1>2, <1>3, <1>4, <1>5

LEMMA ReadLineKeeps ==
    ASSUME AuthIInv, NEW p \in Proc, ReadLine(p), UNCHANGED old
    PROVE  AuthIInv'
<1> USE DEF AuthIInv, ReadLine, Typed, Step
<1>1. AuthTypeOK'
  BY AuthAssumption DEF AuthTypeOK, AuthSigmask, Running, Over, Line
<1>2. ASSUME KeyboardOnly, OnePrompt
      PROVE  EchoFollows'
  BY <1>2 DEF AuthTypeOK, EchoFollows, Silenced, SignalsBlocked, Blocking, Window, OnePrompt
<1>3. ASSUME KeyboardOnly
      PROVE  SignalsBlocked'
  BY <1>3 DEF AuthTypeOK, SignalsBlocked, Blocking, Window
<1>4. Counted' /\ BackendDiscipline'
  BY AuthAssumption DEF AuthTypeOK, Counted, BackendDiscipline, BeforeBackend, Window
<1>5. PasswordScrubbed'
  BY DEF AuthTypeOK, PasswordScrubbed
<1> QED BY <1>1, <1>2, <1>3, <1>4, <1>5

LEMMA EchoOnKeeps ==
    ASSUME AuthIInv, NEW p \in Proc, EchoOn(p), UNCHANGED old
    PROVE  AuthIInv'
<1> USE DEF AuthIInv, EchoOn, TcSetSaved, Step
<1>1. AuthTypeOK'
  BY AuthAssumption DEF AuthTypeOK, AuthSigmask, Running, Over, Line
<1>2. ASSUME KeyboardOnly, OnePrompt
      PROVE  EchoFollows'
  BY <1>2 DEF AuthTypeOK, EchoFollows, Silenced, SignalsBlocked, Blocking, Window, OnePrompt
<1>3. ASSUME KeyboardOnly
      PROVE  SignalsBlocked'
  BY <1>3 DEF AuthTypeOK, SignalsBlocked, Blocking, Window
<1>4. Counted' /\ BackendDiscipline'
  BY AuthAssumption DEF AuthTypeOK, Counted, BackendDiscipline, BeforeBackend, Window
<1>5. PasswordScrubbed'
  BY DEF AuthTypeOK, PasswordScrubbed
<1> QED BY <1>1, <1>2, <1>3, <1>4, <1>5

LEMMA EmptyLineKeeps ==
    ASSUME AuthIInv, NEW p \in Proc, EmptyLine(p), UNCHANGED old
    PROVE  AuthIInv'
<1> USE DEF AuthIInv, EmptyLine, NextAttempt, MoreAttempts, Scrub, Step
<1>1. AuthTypeOK'
  BY AuthAssumption DEF AuthTypeOK, AuthSigmask, Running, Over, Line
<1>2. ASSUME KeyboardOnly, OnePrompt
      PROVE  EchoFollows'
  BY <1>2 DEF AuthTypeOK, EchoFollows, Silenced, SignalsBlocked, Blocking, Window, OnePrompt
<1>3. ASSUME KeyboardOnly
      PROVE  SignalsBlocked'
  BY <1>3 DEF AuthTypeOK, SignalsBlocked, Blocking, Window
<1>4. Counted' /\ BackendDiscipline'
  BY AuthAssumption DEF AuthTypeOK, Counted, BackendDiscipline, BeforeBackend, Window
<1>5. PasswordScrubbed'
  BY DEF AuthTypeOK, PasswordScrubbed
<1> QED BY <1>1, <1>2, <1>3, <1>4, <1>5

LEMMA CallBackendKeeps ==
    ASSUME AuthIInv, NEW p \in Proc, CallBackend(p), UNCHANGED old
    PROVE  AuthIInv'
<1> USE DEF AuthIInv, CallBackend, procVars, Step
<1>1. AuthTypeOK'
  BY AuthAssumption DEF AuthTypeOK, AuthSigmask, Running, Over, Line
<1>2. ASSUME KeyboardOnly, OnePrompt
      PROVE  EchoFollows'
  BY <1>2 DEF AuthTypeOK, EchoFollows, Silenced, SignalsBlocked, Blocking, Window, OnePrompt
<1>3. ASSUME KeyboardOnly
      PROVE  SignalsBlocked'
  BY <1>3 DEF AuthTypeOK, SignalsBlocked, Blocking, Window
<1>4. Counted' /\ BackendDiscipline'
  BY AuthAssumption DEF AuthTypeOK, Counted, BackendDiscipline, BeforeBackend, Window
<1>5. PasswordScrubbed'
  BY DEF AuthTypeOK, PasswordScrubbed
<1> QED BY <1>1, <1>2, <1>3, <1>4, <1>5

LEMMA RestoreSignalsKeeps ==
    ASSUME AuthIInv, NEW p \in Proc, RestoreSignals(p), UNCHANGED old
    PROVE  AuthIInv'
<1> USE DEF AuthIInv, RestoreSignals, Fatal, Step
<1>1. AuthTypeOK'
  BY AuthAssumption DEF AuthTypeOK, AuthSigmask, Running, Over, Line
<1>2. ASSUME KeyboardOnly, OnePrompt
      PROVE  EchoFollows'
  BY <1>2 DEF AuthTypeOK, EchoFollows, Silenced, SignalsBlocked, Blocking, Window, OnePrompt
<1>3. ASSUME KeyboardOnly
      PROVE  SignalsBlocked'
  BY <1>3 DEF AuthTypeOK, SignalsBlocked, Blocking, Window
<1>4. Counted' /\ BackendDiscipline'
  BY AuthAssumption DEF AuthTypeOK, Counted, BackendDiscipline, BeforeBackend, Window
<1>5. PasswordScrubbed'
  BY DEF AuthTypeOK, PasswordScrubbed
<1> QED BY <1>1, <1>2, <1>3, <1>4, <1>5

LEMMA AuditFailureKeeps ==
    ASSUME AuthIInv, NEW p \in Proc, AuditFailure(p), UNCHANGED old
    PROVE  AuthIInv'
<1> USE DEF AuthIInv, AuditFailure, Step
<1>1. AuthTypeOK'
  BY AuthAssumption DEF AuthTypeOK, AuthSigmask, Running, Over, Line
<1>2. ASSUME KeyboardOnly, OnePrompt
      PROVE  EchoFollows'
  BY <1>2 DEF AuthTypeOK, EchoFollows, Silenced, SignalsBlocked, Blocking, Window, OnePrompt
<1>3. ASSUME KeyboardOnly
      PROVE  SignalsBlocked'
  BY <1>3 DEF AuthTypeOK, SignalsBlocked, Blocking, Window
<1>4. Counted' /\ BackendDiscipline'
  BY AuthAssumption DEF AuthTypeOK, Counted, BackendDiscipline, BeforeBackend, Window
<1>5. PasswordScrubbed'
  BY DEF AuthTypeOK, PasswordScrubbed
<1> QED BY <1>1, <1>2, <1>3, <1>4, <1>5

LEMMA RefreshTicketKeeps ==
    ASSUME AuthIInv, NEW p \in Proc, RefreshTicket(p), UNCHANGED old
    PROVE  AuthIInv'
<1> USE DEF AuthIInv, RefreshTicket, procVars, Step
<1>1. AuthTypeOK'
  BY AuthAssumption DEF AuthTypeOK, AuthSigmask, Running, Over, Line
<1>2. ASSUME KeyboardOnly, OnePrompt
      PROVE  EchoFollows'
  BY <1>2 DEF AuthTypeOK, EchoFollows, Silenced, SignalsBlocked, Blocking, Window, OnePrompt
<1>3. ASSUME KeyboardOnly
      PROVE  SignalsBlocked'
  BY <1>3 DEF AuthTypeOK, SignalsBlocked, Blocking, Window
<1>4. Counted' /\ BackendDiscipline'
  BY AuthAssumption DEF AuthTypeOK, Counted, BackendDiscipline, BeforeBackend, Window
<1>5. PasswordScrubbed'
  BY DEF AuthTypeOK, PasswordScrubbed
<1> QED BY <1>1, <1>2, <1>3, <1>4, <1>5

LEMMA OldReadLineKeeps ==
    ASSUME AuthIInv, NEW p \in Proc, OldReadLine(p), UNCHANGED old
    PROVE  AuthIInv'
<1> USE DEF AuthIInv, OldReadLine, Typed, Step
<1>1. AuthTypeOK'
  BY AuthAssumption DEF AuthTypeOK, AuthSigmask, Running, Over, Line
<1>2. ASSUME KeyboardOnly, OnePrompt
      PROVE  EchoFollows'
  BY <1>2 DEF AuthTypeOK, EchoFollows, Silenced, SignalsBlocked, Blocking, Window, OnePrompt
<1>3. ASSUME KeyboardOnly
      PROVE  SignalsBlocked'
  BY <1>3 DEF AuthTypeOK, SignalsBlocked, Blocking, Window
<1>4. Counted' /\ BackendDiscipline'
  BY AuthAssumption DEF AuthTypeOK, Counted, BackendDiscipline, BeforeBackend, Window
<1>5. PasswordScrubbed'
  BY DEF AuthTypeOK, PasswordScrubbed
<1> QED BY <1>1, <1>2, <1>3, <1>4, <1>5

LEMMA OldReadFailsKeeps ==
    ASSUME AuthIInv, NEW p \in Proc, p \in old, OldReadFails(p), UNCHANGED old
    PROVE  AuthIInv'
<1> USE DEF AuthIInv, OldReadFails, Typed, Part, Step
<1>1. AuthTypeOK'
  BY AuthAssumption DEF AuthTypeOK, AuthSigmask, Running, Over, Line
<1>2. ASSUME KeyboardOnly, OnePrompt
      PROVE  EchoFollows'
  BY <1>2 DEF AuthTypeOK, EchoFollows, Silenced, SignalsBlocked, Blocking, Window, OnePrompt
<1>3. ASSUME KeyboardOnly
      PROVE  SignalsBlocked'
  BY <1>3 DEF AuthTypeOK, SignalsBlocked, Blocking, Window
<1>4. Counted' /\ BackendDiscipline'
  BY AuthAssumption DEF AuthTypeOK, Counted, BackendDiscipline, BeforeBackend, Window
<1>5. PasswordScrubbed'
  BY DEF AuthTypeOK, PasswordScrubbed
<1> QED BY <1>1, <1>2, <1>3, <1>4, <1>5

LEMMA EchoGuardDropKeeps ==
    ASSUME AuthIInv, NEW p \in Proc, EchoGuardDrop(p), UNCHANGED old
    PROVE  AuthIInv'
<1> USE DEF AuthIInv, EchoGuardDrop, EchoOn, TcSetSaved, Step
<1>1. AuthTypeOK'
  <2>1. CASE EchoOn(p)
    BY <2>1, AuthAssumption DEF AuthTypeOK, AuthSigmask, Running, Over, Line
  <2>2. CASE ~EchoOn(p)
    BY <2>2, AuthAssumption DEF AuthTypeOK, AuthSigmask, Running, Over, Line
  <2> QED BY <2>1, <2>2
<1>2. ASSUME KeyboardOnly, OnePrompt
      PROVE  EchoFollows'
  BY <1>2 DEF AuthTypeOK, EchoFollows, Silenced, SignalsBlocked, Blocking, Window, OnePrompt
<1>3. ASSUME KeyboardOnly
      PROVE  SignalsBlocked'
  BY <1>3 DEF AuthTypeOK, SignalsBlocked, Blocking, Window
<1>4. Counted' /\ BackendDiscipline'
  BY AuthAssumption DEF AuthTypeOK, Counted, BackendDiscipline, BeforeBackend, Window
<1>5. PasswordScrubbed'
  BY DEF AuthTypeOK, PasswordScrubbed
<1> QED BY <1>1, <1>2, <1>3, <1>4, <1>5

LEMMA OldRestoreSignalsKeeps ==
    ASSUME AuthIInv, NEW p \in Proc, OldRestoreSignals(p), UNCHANGED old
    PROVE  AuthIInv'
<1>1. CASE RestoreSignals(p)
  BY <1>1, RestoreSignalsKeeps
<1>2. CASE ~RestoreSignals(p)
  <2> DEFINE to == IF pending[p] \cap Fatal # {} THEN "dead" ELSE "gone"
  <2> USE DEF AuthIInv
  <2>1. /\ Step(p, "unread", to)
        /\ blocked' = [blocked EXCEPT ![p] = {}] /\ pending' = [pending EXCEPT ![p] = {}]
        /\ UNCHANGED <<echo, stuck, attempt, saved, muted, pbuf, stopped, trail, backend>>
    BY <1>2 DEF OldRestoreSignals
  <2>2. to \in {"dead", "gone"}
    OBVIOUS
  <2> HIDE DEF to
  <2>3. AuthTypeOK'
    BY <2>1, <2>2 DEF Step, AuthTypeOK, Running, Over
  <2>4. ASSUME KeyboardOnly, OnePrompt
        PROVE  EchoFollows'
    BY <2>4, <2>1, <2>2, EchoApart DEF Step, Silenced
  <2>5. ASSUME KeyboardOnly
        PROVE  SignalsBlocked'
    BY <2>5, <2>1, <2>2 DEF Step, AuthTypeOK, SignalsBlocked, Blocking, Window
  <2>6. Counted' /\ BackendDiscipline'
    BY <2>1, <2>2 DEF Step, AuthTypeOK, Counted, BackendDiscipline, BeforeBackend, Window
  <2>7. PasswordScrubbed'
    BY <2>1, <2>2 DEF Step, AuthTypeOK, PasswordScrubbed
  <2> QED BY <2>3, <2>4, <2>5, <2>6, <2>7
<1> QED BY <1>1, <1>2

LEMMA SignalledKeeps ==
    ASSUME AuthIInv, NEW p \in Proc, Signalled(p), UNCHANGED old
    PROVE  AuthIInv'
<1> USE DEF AuthIInv, Signalled, Pend, Stop, Kill, Step
<1>1. AuthTypeOK'
  <2>1. PICK s \in Signal : Pend(p, s) \/ Stop(p, s) \/ Kill(p, s)
    OBVIOUS
  <2>2. pending' \in [Proc -> SUBSET AuthSigmask]
    BY <2>1 DEF AuthTypeOK
  <2> QED BY <2>1, <2>2 DEF AuthTypeOK, Running, Over, Line
<1>2. ASSUME KeyboardOnly, OnePrompt
      PROVE  EchoFollows'
  <2>1. UNCHANGED apc \/ (apc[p] \notin Silenced /\ apc' = [apc EXCEPT ![p] = "dead"])
    BY <1>2 DEF SignalsBlocked, Blocking, Window, Silenced, KeyboardOnly
  <2>2. CASE UNCHANGED apc
    BY <1>2, <2>2 DEF EchoFollows
  <2>3. CASE apc[p] \notin Silenced /\ apc' = [apc EXCEPT ![p] = "dead"]
    BY <1>2, <2>3, EchoApart DEF Silenced
  <2> QED BY <2>1, <2>2, <2>3
<1>3. ASSUME KeyboardOnly
      PROVE  SignalsBlocked'
  BY <1>3 DEF AuthTypeOK, SignalsBlocked, Blocking, Window, KeyboardOnly
<1>4. Counted' /\ BackendDiscipline'
  BY AuthAssumption DEF AuthTypeOK, Counted, BackendDiscipline, BeforeBackend, Window
<1>5. PasswordScrubbed'
  BY DEF AuthTypeOK, PasswordScrubbed
<1> QED BY <1>1, <1>2, <1>3, <1>4, <1>5

LEMMA ContinuedKeeps ==
    ASSUME AuthIInv, NEW p \in Proc, Continued(p), UNCHANGED old
    PROVE  AuthIInv'
<1> USE DEF AuthIInv, Continued, Step
<1>1. AuthTypeOK'
  BY AuthAssumption DEF AuthTypeOK, AuthSigmask, Running, Over, Line
<1>2. ASSUME KeyboardOnly, OnePrompt
      PROVE  EchoFollows'
  BY <1>2 DEF AuthTypeOK, EchoFollows, Silenced, SignalsBlocked, Blocking, Window, OnePrompt
<1>3. ASSUME KeyboardOnly
      PROVE  SignalsBlocked'
  BY <1>3 DEF AuthTypeOK, SignalsBlocked, Blocking, Window
<1>4. Counted' /\ BackendDiscipline'
  BY AuthAssumption DEF AuthTypeOK, Counted, BackendDiscipline, BeforeBackend, Window
<1>5. PasswordScrubbed'
  BY DEF AuthTypeOK, PasswordScrubbed
<1> QED BY <1>1, <1>2, <1>3, <1>4, <1>5

LEMMA PamUnavailableKeeps ==
    ASSUME AuthIInv, NEW p \in Proc, PamUnavailable(p), UNCHANGED old
    PROVE  AuthIInv'
<1> USE DEF AuthIInv, PamUnavailable, Scrub, Step
<1>0. backend' \in [Proc -> [said : Answer, pam : 0..MaxAttempts, su : 0..MaxAttempts]]
  BY HeardTyped DEF Answer
<1>1. AuthTypeOK'
  BY <1>0, AuthAssumption DEF AuthTypeOK, Running, Over, Line
<1>2. ASSUME KeyboardOnly, OnePrompt
      PROVE  EchoFollows'
  BY <1>2 DEF AuthTypeOK, EchoFollows, Silenced, SignalsBlocked, Blocking, Window, OnePrompt
<1>3. ASSUME KeyboardOnly
      PROVE  SignalsBlocked'
  BY <1>3 DEF AuthTypeOK, SignalsBlocked, Blocking, Window
<1>4. Counted' /\ BackendDiscipline'
  BY <1>0, HeardCounts, AuthAssumption DEF AuthTypeOK, Counted, BackendDiscipline, BeforeBackend, Window
<1>5. PasswordScrubbed'
  BY DEF AuthTypeOK, PasswordScrubbed
<1> QED BY <1>1, <1>2, <1>3, <1>4, <1>5

LEMMA SuBrokenPipeKeeps ==
    ASSUME AuthIInv, NEW p \in Proc, SuBrokenPipe(p), UNCHANGED old
    PROVE  AuthIInv'
<1> USE DEF AuthIInv, SuBrokenPipe, Step
<1>0. backend' \in [Proc -> [said : Answer, pam : 0..MaxAttempts, su : 0..MaxAttempts]]
  BY HeardTyped DEF Answer
<1>1. AuthTypeOK'
  BY <1>0, AuthAssumption DEF AuthTypeOK, Running, Over, Line
<1>2. ASSUME KeyboardOnly, OnePrompt
      PROVE  EchoFollows'
  BY <1>2 DEF AuthTypeOK, EchoFollows, Silenced, SignalsBlocked, Blocking, Window, OnePrompt
<1>3. ASSUME KeyboardOnly
      PROVE  SignalsBlocked'
  BY <1>3 DEF AuthTypeOK, SignalsBlocked, Blocking, Window
<1>4. Counted' /\ BackendDiscipline'
  BY <1>0, HeardCounts, AuthAssumption DEF AuthTypeOK, Counted, BackendDiscipline, BeforeBackend, Window
<1>5. PasswordScrubbed'
  BY DEF AuthTypeOK, PasswordScrubbed
<1> QED BY <1>1, <1>2, <1>3, <1>4, <1>5

LEMMA AuthInvStep ==
    ASSUME AuthIInv, [MixedAuthNext]_mixedAuthVars
    PROVE  AuthIInv'
<1>1. ASSUME NEW p \in Proc, MixedProcStep(p)
      PROVE  AuthIInv'
  <2>1. UNCHANGED old
    BY <1>1 DEF MixedProcStep
  <2>2. ASSUME p \notin old, ProcStep(p)
        PROVE  AuthIInv'
    BY <2>1, <2>2, MaskSignalsKeeps, TcGetsKeeps, EchoOffKeeps, ReadLineKeeps, EchoOnKeeps,
       EmptyLineKeeps, CallBackendKeeps, AnswersKeep, PamUnavailableKeeps,
       SuBrokenPipeKeeps, RestoreSignalsKeeps, AuditFailureKeeps, RefreshTicketKeeps
       DEF ProcStep
  <2>3. ASSUME p \in old, OldProcStep(p)
        PROVE  AuthIInv'
    BY <2>1, <2>3, MaskSignalsKeeps, TcGetsKeeps, EchoOffKeeps, OldReadLineKeeps, OldReadFailsKeeps,
       EchoGuardDropKeeps, EmptyLineKeeps, CallBackendKeeps, AnswersKeep,
       PamUnavailableKeeps, OldRestoreSignalsKeeps, AuditFailureKeeps,
       RefreshTicketKeeps
       DEF OldProcStep, OldMaskSignals, OldEchoOff, OldAttempt, OldPamUnavailable,
           OldSuAnswers, OldVerdict
  <2> QED BY <1>1, <2>2, <2>3 DEF MixedProcStep
<1>2. ASSUME NEW p \in Proc, Signalled(p) \/ Continued(p), UNCHANGED old
      PROVE  AuthIInv'
  BY <1>2, SignalledKeeps, ContinuedKeeps
<1>3. CASE UNCHANGED mixedAuthVars
  BY <1>3 DEF mixedAuthVars, authVars, procVars, AuthIInv, AuthTypeOK, EchoFollows, SignalsBlocked,
              Counted, BackendDiscipline, PasswordScrubbed
<1> QED BY <1>1, <1>2, <1>3 DEF MixedAuthNext

(* What holds throughout the windows of any number of prompts, whatever    *)
(* signals come; the parts about the mask and the echo are for signals of  *)
(* the keyboard and one prompt per terminal.                               *)
THEOREM AuthInductive == MixedAuthSpec => []AuthIInv
BY AuthInvInit, AuthInvStep, PTL DEF MixedAuthSpec

------------------------------------------------------------------------------
(* At most MaxAttempts attempts, su only after an unusable first backend,  *)
(* and the command only on a yes, in both programs, whatever signals come. *)
THEOREM BackendsAreDisciplined == MixedAuthSpec => []BackendDiscipline
<1>1. AuthIInv => BackendDiscipline
  BY DEF AuthIInv
<1> QED BY <1>1, AuthInductive, PTL

(* No living process keeps a password it is done with, the original's      *)
(* failed read apart, whatever signals come.                               *)
THEOREM PasswordIsScrubbed == MixedAuthSpec => []PasswordScrubbed
<1>1. AuthIInv => PasswordScrubbed
  BY DEF AuthIInv
<1> QED BY <1>1, AuthInductive, PTL

(* Under the keyboard's signals the echo is off while the one prompt of    *)
(* the terminal reads, unless turning it off failed.                       *)
THEOREM EchoIsOff ==
    ASSUME KeyboardOnly, OnePrompt
    PROVE  MixedAuthSpec => []EchoOffWhileReading
<1>1. AuthIInv => EchoOffWhileReading
  BY DEF AuthIInv, EchoFollows, Silenced, EchoOffWhileReading
<1> QED BY <1>1, AuthInductive, PTL

(* Under the keyboard's signals the terminal of one prompt echoes in the   *)
(* end, unless restoring it failed.                                        *)
THEOREM TerminalIsUsable ==
    ASSUME KeyboardOnly, OnePrompt
    PROVE  MixedAuthSpec => []TerminalLeftUsable
<1>1. AuthIInv => TerminalLeftUsable
  <2> SUFFICES ASSUME AuthIInv, \A p \in Proc : apc[p] \in Over \/ stopped[p]
               PROVE  echo \/ stuck
    BY DEF TerminalLeftUsable
  <2>1. CASE OnTty = {}
    BY <2>1 DEF AuthIInv, EchoFollows
  <2>2. ASSUME NEW p \in OnTty
        PROVE  apc[p] \notin Silenced
    <3>1. p \in Proc
      BY AuthAssumption
    <3>2. CASE apc[p] \in Over
      BY <3>2 DEF Over, Silenced
    <3>3. CASE stopped[p]
      BY <3>1, <3>3 DEF AuthIInv, SignalsBlocked, Blocking, Window, Silenced
    <3> QED BY <3>1, <3>2, <3>3
  <2> QED BY <2>1, <2>2 DEF AuthIInv, EchoFollows
<1> QED BY <1>1, AuthInductive, PTL

(* Between its mask and its last answer no key ends the original, with any *)
(* number of prompts.                                                      *)
THEOREM WindowIsUninterrupted ==
    ASSUME KeyboardOnly
    PROVE  MixedAuthSpec => WindowUninterrupted
<1>1. ASSUME AuthIInv, [MixedAuthNext]_mixedAuthVars, NEW q \in old, apc[q] \in Window
      PROVE  apc'[q] # "dead"
  <2> USE DEF AuthIInv, AuthTypeOK
  <2>1. q \in Proc /\ apc[q] # "dead"
    BY <1>1 DEF Window
  <2>2. ASSUME NEW p \in Proc, MixedProcStep(p)
        PROVE  apc'[q] # "dead"
    <3>1. CASE p = q
      <4>1. OldProcStep(q)
        BY <1>1, <2>2, <3>1 DEF MixedProcStep
      <4> QED BY <1>1, <2>1, <4>1
          DEF OldProcStep, OldMaskSignals, OldEchoOff, OldReadLine, OldReadFails, EchoGuardDrop,
              OldAttempt, OldPamAnswers, OldPamUnavailable, OldSuAnswers, OldRestoreSignals,
              OldVerdict, MaskSignals, TcGets, EchoOff, ReadLine, EchoOn, EmptyLine, CallBackend,
              PamUnavailable, SuAnswers, RestoreSignals, AuditFailure, RefreshTicket, NextAttempt,
              Accept, Step, Window
    <3>2. CASE p # q
      <4>1. PICK from, to : Step(p, from, to)
        BY <2>2 DEF MixedProcStep, ProcStep, SuBrokenPipe, PamAnswers,
              OldProcStep, OldMaskSignals, OldEchoOff, OldReadLine, OldReadFails, EchoGuardDrop,
              OldAttempt, OldPamAnswers, OldPamUnavailable, OldSuAnswers, OldRestoreSignals,
              OldVerdict, MaskSignals, TcGets, EchoOff, ReadLine, EchoOn, EmptyLine, CallBackend,
              PamUnavailable, SuAnswers, RestoreSignals, AuditFailure, RefreshTicket, NextAttempt,
              Accept
      <4> QED BY <2>1, <3>2, <4>1 DEF Step
    <3> QED BY <3>1, <3>2
  <2>3. ASSUME NEW p \in Proc, Signalled(p)
        PROVE  apc'[q] # "dead"
    BY <1>1, <2>1, <2>3 DEF Signalled, Pend, Stop, Kill, SignalsBlocked, Blocking, KeyboardOnly
  <2>4. ASSUME NEW p \in Proc, Continued(p)
        PROVE  apc'[q] # "dead"
    BY <2>1, <2>4 DEF Continued
  <2>5. CASE UNCHANGED mixedAuthVars
    BY <2>1, <2>5 DEF mixedAuthVars, authVars
  <2> QED BY <1>1, <2>2, <2>3, <2>4, <2>5 DEF MixedAuthNext
<1>2. AuthIInv /\ [MixedAuthNext]_mixedAuthVars => KeepsWindow
  BY <1>1 DEF KeepsWindow
<1> QED BY <1>2, AuthInductive, PTL DEF MixedAuthSpec, WindowUninterrupted
==============================================================================
