--------------------------- MODULE PrivDropProofs ----------------------------
(***************************************************************************)
(* Proofs about PrivDrop for every uid, group and capability set: the      *)
(* command has the target's identity and exactly the rule's capabilities,  *)
(* whichever call fails; and when calls lie, the identity checks are       *)
(* enough unless the target is the caller.                                 *)
(***************************************************************************)
EXTENDS PrivDrop, TLAPS

LEMMA PdTypeInit == PdInit => PdTypeOK
BY PdAssumption DEF PdInit, PdTypeOK, Cred, Uid, Gid, Steps

(* What the kernel does to the capabilities at a change of uid.            *)
LEMMA EmulatedType ==
    ASSUME NEW c \in Cred
    PROVE  Emulated(c) \in Cred
BY DEF Emulated, Cred

LEMMA PdTypeStep ==
    ASSUME PdTypeOK, [PdNext]_pdVars
    PROVE  PdTypeOK'
<1> USE DEF PdTypeOK, inputs, Proceed, At, Abort, AfterStep, Steps, Ends, Failed, Lied
<1>1. CASE BsetDrop
  BY <1>1 DEF BsetDrop, Call, Cred
<1>2. CASE KeepCaps
  BY <1>2 DEF KeepCaps, Call, Cred
<1>3. CASE SetGroups
  BY <1>3 DEF SetGroups, LookedUp, Call, Cred, Gid
<1>4. CASE SetGid
  BY <1>4 DEF SetGid, Call, Cred, Gid
<1>5. CASE SetUid
  <2>1. Emulated(Uids) \in Cred
    <3>1. Uids \in Cred
      BY DEF Uids, Cred, Uid
    <3> QED BY <3>1, EmulatedType
  <2> QED BY <1>5, <2>1 DEF SetUid, Call
<1>6. CASE GetUid \/ GetGid \/ CapGet
  BY <1>6 DEF GetUid, GetGid, CapGet, Check
<1>7. CASE CapSet
  BY <1>7, ZenonT(30) DEF CapSet, Call, Cred, Known
<1>8. CASE AmbientRaise
  BY <1>8 DEF AmbientRaise, Call, Cred
<1>9. CASE LsmApply
  BY <1>9 DEF LsmApply, Applicable
<1>10. CASE Execve
  <2>1. OnExec(cred) \in Cred
    BY DEF OnExec, Cred
  <2> QED BY <1>10, <2>1 DEF Execve
<1>11. CASE UNCHANGED pdVars
  BY <1>11 DEF pdVars
<1> QED
  BY <1>1, <1>2, <1>3, <1>4, <1>5, <1>6, <1>7, <1>8, <1>9, <1>10, <1>11 DEF PdNext

(* Every variable of the drop stays in its range.                          *)
THEOREM PdTypeCorrect == PdSpec => []PdTypeOK
BY PdTypeInit, PdTypeStep, PTL DEF PdSpec

------------------------------------------------------------------------------
(* The table knows every capability of the kernel, as caps.cyr takes for   *)
(* granted.                                                                *)
TableComplete == KernelCaps \subseteq TableCaps

(* A lie is never forgotten.                                               *)
LEMMA HonestBefore ==
    ASSUME PdTypeOK, [PdNext]_pdVars, Honest'
    PROVE  Honest
BY DEF PdTypeOK, Honest, PdNext, pdVars, BsetDrop, KeepCaps, SetGroups, SetGid, SetUid,
       GetUid, GetGid, CapSet, AmbientRaise, CapGet, LsmApply, Execve, Call, Check,
       Abort, Failed, Lied

LEMMA PdInvInit == PdInit => PdIInv
<1> SUFFICES ASSUME PdInit PROVE PdIInv
  OBVIOUS
<1>1. PdTypeOK
  BY PdTypeInit
<1>2. IdsSettled /\ CapsSettled
  BY DEF PdInit, IdsSettled, CapsSettled, BeforeUid, AfterUid
<1>3. RunsAsTarget /\ ExactCapabilities
  BY DEF PdInit, RunsAsTarget, ExactCapabilities
<1> QED BY <1>1, <1>2, <1>3 DEF PdIInv

(* Every step keeps what is known of the ids.                              *)
LEMMA IdsStep ==
    ASSUME TableComplete, PdIInv, Honest', [PdNext]_pdVars
    PROVE  IdsSettled'
<1>0. Honest
  BY HonestBefore DEF PdIInv
<1> USE <1>0 DEF TableComplete, Honest, Lied, PdIInv, PdTypeOK, IdsSettled, BeforeUid,
            AfterUid, inputs, Proceed, At, Abort, AfterStep, Call, Check, Cred
<1>1. CASE BsetDrop \/ KeepCaps
  BY <1>1 DEF BsetDrop, KeepCaps
<1>2. CASE SetGroups
  BY <1>2 DEF SetGroups, LookedUp
<1>3. CASE SetGid
  BY <1>3 DEF SetGid
<1>4. CASE SetUid
  <2>1. dpc = "setuid" /\ (dpc' = "aborted" \/ (dpc' = "getuid" /\ cred' = Emulated(Uids)))
    BY <1>4 DEF SetUid
  <2>2. /\ Emulated(Uids).euid = target
        /\ Emulated(Uids).gid = cred.gid /\ Emulated(Uids).groups = cred.groups
    <3> HIDE DEF PdIInv, IdsSettled, inputs, Proceed, At, Abort, AfterStep, Call
    <3>1. CASE "SETUID" \in cred.eff
      BY <3>1 DEF Emulated, Uids
    <3>2. CASE "SETUID" \notin cred.eff
      BY <3>2 DEF Emulated, Uids
    <3> QED BY <3>1, <3>2
  <2>3. UNCHANGED inputs
    BY <1>4 DEF SetUid
  <2> QED BY <2>1, <2>2, <2>3
<1>5. CASE GetUid
  BY <1>5 DEF GetUid
<1>6. CASE GetGid
  BY <1>6 DEF GetGid
<1>7. CASE CapSet \/ AmbientRaise \/ CapGet
  BY <1>7, ZenonT(30) DEF CapSet, AmbientRaise, CapGet
<1>8. CASE LsmApply
  BY <1>8 DEF LsmApply
<1>9. CASE Execve
  BY <1>9 DEF Execve, OnExec
<1>10. CASE UNCHANGED pdVars
  BY <1>10 DEF pdVars
<1> QED
  BY <1>1, <1>2, <1>3, <1>4, <1>5, <1>6, <1>7, <1>8, <1>9, <1>10 DEF PdNext

(* Every step keeps what is known of the capabilities.                     *)
LEMMA CapsStep ==
    ASSUME TableComplete, PdIInv, Honest', [PdNext]_pdVars
    PROVE  CapsSettled'
<1>0. Honest
  BY HonestBefore DEF PdIInv
<1> USE <1>0 DEF TableComplete, Honest, Lied, PdIInv, PdTypeOK, CapsSettled, BeforeUid,
            AfterUid, inputs, Proceed, At, Abort, AfterStep, Call, Check, Cred
<1>1. CASE BsetDrop
  BY <1>1 DEF BsetDrop, Dropped
<1>2. CASE KeepCaps
  BY <1>2 DEF KeepCaps
<1>3. CASE SetGroups
  BY <1>3 DEF SetGroups, LookedUp
<1>4. CASE SetGid
  BY <1>4 DEF SetGid
<1>5. CASE SetUid
  <2>1. CASE "SETUID" \in cred.eff
    BY <1>5, <2>1 DEF SetUid, Emulated, Uids
  <2>2. CASE "SETUID" \notin cred.eff
    BY <1>5, <2>2 DEF SetUid, Emulated, Uids, IdsSettled
  <2> QED BY <2>1, <2>2
<1>6. CASE GetUid \/ GetGid
  BY <1>6 DEF GetUid, GetGid
<1>7. CASE CapSet
  <2>1. CASE dpc' = "ambient"
    <3>1. /\ cred' = [cred EXCEPT !.eff = Known, !.prm = Known, !.inh = Known,
                                  !.amb = @ \cap Known]
          /\ Known' = Known /\ mask' = mask /\ mask # {}
      BY <1>7, <2>1 DEF CapSet, Known
    <3>2. cred'.bset = cred.bset /\ cred.bset \subseteq mask
      BY <1>7, <3>1 DEF CapSet
    <3> HIDE DEF Cred
    <3>3. /\ cred'.prm = Known /\ cred'.eff = Known /\ cred'.inh = Known
          /\ cred'.amb \subseteq Known
      BY <3>1 DEF Cred
    <3> QED BY <2>1, <3>1, <3>2, <3>3
  <2>2. CASE dpc' # "ambient"
    BY <1>7, <2>2 DEF CapSet
  <2> QED BY <2>1, <2>2
<1>8. CASE AmbientRaise
  BY <1>8 DEF AmbientRaise, Known
<1>9. CASE CapGet
  BY <1>9 DEF CapGet
<1>10. CASE LsmApply
  BY <1>10 DEF LsmApply
<1>11. CASE Execve
  BY <1>11 DEF Execve
<1>12. CASE UNCHANGED pdVars
  BY <1>12 DEF pdVars, Known
<1> QED
  BY <1>1, <1>2, <1>3, <1>4, <1>5, <1>6, <1>7, <1>8, <1>9, <1>10, <1>11, <1>12 DEF PdNext

(* The command starts in no other step than execve, from settled ids and   *)
(* capabilities.                                                           *)
LEMMA CommandStep ==
    ASSUME TableComplete, PdIInv, [PdNext]_pdVars
    PROVE  RunsAsTarget' /\ ExactCapabilities'
<1>1. CASE Execve
  <2> USE <1>1 DEF Execve, OnExec, PdIInv, PdTypeOK, Cred, inputs, At, Proceed,
                   Honest, BeforeUid, AfterUid
  <2>1. RunsAsTarget'
    BY ZenonT(30) DEF RunsAsTarget, IdsSettled
  <2>2. ExactCapabilities'
    <3> SUFFICES ASSUME dpc' = "command", Honest PROVE ExactCapabilities'
      BY DEF ExactCapabilities
    <3>1. cred' = OnExec(cred) /\ mask' = mask /\ target' = target
      OBVIOUS
    <3>2. CASE mask # {}
      <4>1. /\ cred.bset \cup cred.inh = mask /\ cred.amb = mask
            /\ cred.bset \subseteq mask
        BY <3>2 DEF CapsSettled
      <4>2. /\ cred'.prm = mask /\ cred'.eff = mask /\ cred'.amb = mask
            /\ cred'.bset \subseteq mask
        BY <3>1, <4>1
      <4> QED BY <3>1, <3>2, <4>2 DEF ExactCapabilities
    <3>3. CASE mask = {}
      BY <3>1, <3>3 DEF ExactCapabilities, IdsSettled, CapsSettled
    <3> QED BY <3>2, <3>3
  <2> QED BY <2>1, <2>2
<1>2. CASE UNCHANGED pdVars
  BY <1>2 DEF pdVars, PdIInv, RunsAsTarget, ExactCapabilities, Honest
<1>3. CASE PdNext /\ ~Execve
  <2>1. dpc' # "command"
    BY <1>3 DEF PdNext, BsetDrop, KeepCaps, SetGroups, SetGid, SetUid, GetUid, GetGid,
                CapSet, AmbientRaise, CapGet, LsmApply, Call, Check, Proceed, Abort,
                At, AfterStep
  <2> QED BY <2>1 DEF RunsAsTarget, ExactCapabilities
<1> QED BY <1>1, <1>2, <1>3

(* The inductive invariant of the drop.                                    *)
THEOREM PdInductive == ASSUME TableComplete PROVE PdSpec => []PdIInv
<1>1. PdInit => PdIInv
  BY PdInvInit
<1>2. PdIInv /\ [PdNext]_pdVars => PdIInv'
  <2> SUFFICES ASSUME PdIInv, [PdNext]_pdVars PROVE PdIInv'
    OBVIOUS
  <2>1. PdTypeOK'
    BY PdTypeStep DEF PdIInv
  <2>2. Honest' => IdsSettled' /\ CapsSettled'
    BY IdsStep, CapsStep
  <2> QED BY <2>1, <2>2, CommandStep DEF PdIInv
<1> QED BY <1>1, <1>2, PTL DEF PdSpec

(* Whatever call fails, a command that starts has the target's identity.   *)
THEOREM RunsAsTheTarget == ASSUME TableComplete PROVE PdSpec => []RunsAsTarget
<1>1. PdIInv => RunsAsTarget
  BY DEF PdIInv
<1> QED BY <1>1, PdInductive, PTL

(* Whatever call fails, a command that starts has exactly the capabilities *)
(* of its rule.                                                            *)
THEOREM CapabilitiesAreExact == ASSUME TableComplete PROVE PdSpec => []ExactCapabilities
<1>1. PdIInv => ExactCapabilities
  BY DEF PdIInv
<1> QED BY <1>1, PdInductive, PTL

------------------------------------------------------------------------------
(* When calls lie: what the two identity checks still establish, unless    *)
(* the target is the caller.                                               *)
IdsChecked ==
    /\ dpc \in BeforeUid => cred.ruid = caller
    /\ dpc \in AfterUid => cred.ruid = caller \/ (cred.ruid = target /\ cred.euid = target)
    /\ dpc \in AfterUid \ {"getuid"} => cred.ruid = target
    /\ dpc \in AfterUid \ {"getuid", "getgid"} => cred.gid = TargetGid

Checked == PdTypeOK /\ IdsChecked /\ LiesNoticed

LEMMA CheckedStep ==
    ASSUME Checked, [PdNext]_pdVars
    PROVE  IdsChecked' /\ LiesNoticed'
<1> USE DEF Checked, PdTypeOK, IdsChecked, LiesNoticed, BeforeUid, AfterUid, inputs,
            Proceed, At, Abort, AfterStep, Call, Check, Cred
<1>1. CASE BsetDrop \/ KeepCaps
  BY <1>1 DEF BsetDrop, KeepCaps
<1>2. CASE SetGroups
  BY <1>2 DEF SetGroups, LookedUp
<1>3. CASE SetGid
  BY <1>3 DEF SetGid
<1>4. CASE SetUid
  <2>1. CASE dpc' = "getuid" /\ cred' = cred
    BY <1>4, <2>1 DEF SetUid
  <2>2. CASE cred' # cred
    <3>1. /\ cred' = Emulated(Uids) /\ dpc' = "getuid" /\ dpc = "setuid"
          /\ UNCHANGED inputs
          /\ "SETUID" \in cred.eff \/ target \in {cred.ruid, cred.suid}
      BY <1>4, <2>2 DEF SetUid
    <3>2. CASE "SETUID" \in cred.eff
      <4>1. cred'.ruid = target /\ cred'.euid = target
        BY <3>1, <3>2 DEF Emulated, Uids
      <4> QED BY <3>1, <4>1
    <3>3. CASE "SETUID" \notin cred.eff
      <4>1. cred'.ruid = cred.ruid /\ cred'.euid = target
        BY <3>1, <3>3 DEF Emulated, Uids
      <4> QED BY <3>1, <4>1
    <3> QED BY <3>2, <3>3
  <2>3. CASE cred' = cred /\ dpc' # "getuid"
    BY <1>4, <2>3 DEF SetUid
  <2> QED BY <2>1, <2>2, <2>3
<1>5. CASE GetUid
  BY <1>5 DEF GetUid
<1>6. CASE GetGid
  BY <1>6 DEF GetGid
<1>7. CASE CapSet \/ AmbientRaise \/ CapGet
  BY <1>7 DEF CapSet, AmbientRaise, CapGet
<1>8. CASE LsmApply
  BY <1>8 DEF LsmApply
<1>9. CASE Execve
  BY <1>9 DEF Execve, OnExec
<1>10. CASE UNCHANGED pdVars
  BY <1>10 DEF pdVars
<1> QED
  BY <1>1, <1>2, <1>3, <1>4, <1>5, <1>6, <1>7, <1>8, <1>9, <1>10 DEF PdNext

(* A set*id call that did nothing never gets as far as the command, unless *)
(* the caller asked to run it as itself.                                   *)
THEOREM LiesAreNoticed == PdSpec => []LiesNoticed
<1>1. PdInit => Checked
  <2> SUFFICES ASSUME PdInit PROVE Checked
    OBVIOUS
  <2>1. PdTypeOK
    BY PdTypeInit
  <2>2. IdsChecked /\ LiesNoticed
    BY DEF PdInit, IdsChecked, LiesNoticed, BeforeUid, AfterUid
  <2> QED BY <2>1, <2>2 DEF Checked
<1>2. Checked /\ [PdNext]_pdVars => Checked'
  <2> SUFFICES ASSUME Checked, [PdNext]_pdVars PROVE Checked'
    OBVIOUS
  <2>1. PdTypeOK'
    BY PdTypeStep DEF Checked
  <2> QED BY <2>1, CheckedStep DEF Checked
<1>3. Checked => LiesNoticed
  BY DEF Checked
<1> QED BY <1>1, <1>2, <1>3, PTL DEF PdSpec

------------------------------------------------------------------------------
(* The contexts are staged by the last step before the execve.             *)
Staged ==
    dpc \in {"execve", "command"} => staged = Applicable /\ (want # {} => staged # {})

LEMMA StagedStep ==
    ASSUME PdTypeOK, Staged, [PdNext]_pdVars
    PROVE  Staged'
<1> USE DEF PdTypeOK, Staged, Applicable, Steps, Ends, inputs, Proceed, At, Abort, AfterStep
<1>1. CASE BsetDrop \/ KeepCaps \/ SetGroups \/ SetGid \/ SetUid \/ CapSet \/ AmbientRaise
  BY <1>1 DEF BsetDrop, KeepCaps, SetGroups, SetGid, SetUid, CapSet, AmbientRaise, Call
<1>2. CASE GetUid \/ GetGid \/ CapGet
  BY <1>2 DEF GetUid, GetGid, CapGet, Check
<1>3. CASE LsmApply
  BY <1>3 DEF LsmApply
<1>4. CASE Execve
  BY <1>4 DEF Execve
<1>5. CASE UNCHANGED pdVars
  BY <1>5 DEF pdVars
<1> QED BY <1>1, <1>2, <1>3, <1>4, <1>5 DEF PdNext

(* A command whose rule names a context starts under every active one of   *)
(* them, and under one at least, whichever call fails or lies.             *)
THEOREM CommandsAreConfined == PdSpec => []Confined
<1>1. PdInit => PdTypeOK /\ Staged
  BY PdTypeInit DEF PdInit, Staged
<1>2. PdTypeOK /\ Staged /\ [PdNext]_pdVars => (PdTypeOK /\ Staged)'
  BY PdTypeStep, StagedStep
<1>3. Staged => Confined
  BY DEF Staged, Confined, Applicable
<1> QED BY <1>1, <1>2, <1>3, PTL DEF PdSpec

------------------------------------------------------------------------------
(* What the change of uid leaves to a process that keeps its capabilities. *)
LEMMA UidsChanged ==
    ASSUME cred \in Cred, "SETUID" \in cred.eff
    PROVE  /\ Emulated(Uids).ruid = target /\ Emulated(Uids).gid = cred.gid
           /\ Emulated(Uids).bset = cred.bset
           /\ cred.keep => Emulated(Uids).prm = cred.prm
BY DEF Emulated, Uids, Cred

LEMMA CapableStep ==
    ASSUME PdTypeOK, CapableWhenAble, [PdNext]_pdVars
    PROVE  CapableWhenAble'
<1> SUFFICES ASSUME Able', fault' = {} PROVE Capable'
  BY DEF CapableWhenAble
<1>1. /\ UNCHANGED inputs /\ fault = {} /\ Able
  <2>1. UNCHANGED inputs /\ fault = {}
    BY DEF PdNext, pdVars, inputs, BsetDrop, KeepCaps, SetGroups, SetGid, SetUid, GetUid, GetGid,
           CapSet, AmbientRaise, CapGet, LsmApply, Execve, Call, Check, Abort, Failed, Lied
  <2> QED BY <2>1 DEF Able, Needed, inputs
<1>2. Capable
  BY <1>1 DEF CapableWhenAble
<1>3. /\ {"SETUID", "SETGID"} \subseteq bound /\ bound \subseteq KernelCaps
      /\ mask # {} => "SETPCAP" \in bound /\ mask \subseteq bound /\ Dropped \subseteq KernelCaps
                      /\ Known = mask
  BY <1>1, PdAssumption DEF Able, Needed, PdTypeOK, Dropped, Known
<1> USE <1>1, <1>2, <1>3 DEF PdTypeOK, Capable, BeforeUid, AfterUid, inputs, Proceed, At, Abort,
        AfterStep, Steps, Call, Check, Failed, Lied
<1>4. CASE BsetDrop
  <2>1. dpc = "bset" /\ dpc' = "keepcaps" /\ cred' = [cred EXCEPT !.bset = @ \ Dropped]
    BY <1>4 DEF BsetDrop
  <2>2. cred'.prm = cred.prm /\ cred'.eff = cred.eff /\ cred'.bset = cred.bset \ Dropped
    BY <2>1 DEF Cred
  <2> QED BY <2>1, <2>2 DEF Dropped
<1>5. CASE KeepCaps
  <2>1. dpc = "keepcaps" /\ dpc' = "setgroups" /\ cred' = [cred EXCEPT !.keep = TRUE]
    BY <1>5 DEF KeepCaps
  <2>2. /\ cred'.prm = cred.prm /\ cred'.eff = cred.eff /\ cred'.bset = cred.bset
        /\ cred'.keep
    BY <2>1 DEF Cred
  <2> QED BY <2>1, <2>2
<1>6. CASE SetGroups
  <2>1. PICK g \in LookedUp : /\ dpc = "setgroups" /\ dpc' = "setgid"
                              /\ cred' = [cred EXCEPT !.groups = g]
    BY <1>6 DEF SetGroups
  <2>2. /\ cred'.prm = cred.prm /\ cred'.eff = cred.eff /\ cred'.bset = cred.bset
        /\ cred'.keep = cred.keep
    BY <2>1 DEF Cred
  <2> QED BY <2>1, <2>2
<1>7. CASE SetGid
  <2>1. /\ dpc = "setgid" /\ dpc' = "setuid"
        /\ cred' = [cred EXCEPT !.gid = TargetGid]
    BY <1>7 DEF SetGid
  <2>2. /\ cred'.prm = cred.prm /\ cred'.eff = cred.eff /\ cred'.bset = cred.bset
        /\ cred'.keep = cred.keep /\ cred'.gid = TargetGid
    BY <2>1 DEF Cred
  <2> QED BY <2>1, <2>2
<1>8. CASE SetUid
  <2>1. /\ dpc = "setuid" /\ dpc' = "getuid" /\ cred' = Emulated(Uids)
    BY <1>8 DEF SetUid
  <2> QED BY <2>1, UidsChanged
<1>9. CASE GetUid \/ GetGid
  BY <1>9 DEF GetUid, GetGid
<1>10. CASE CapSet
  <2>1. /\ dpc = "capset" /\ dpc' = "ambient"
        /\ cred' = [cred EXCEPT !.eff = Known, !.prm = Known, !.inh = Known, !.amb = @ \cap Known]
    BY <1>10 DEF CapSet
  <2>2. /\ cred'.prm = mask /\ cred'.eff = mask /\ cred'.inh = mask /\ cred'.bset = cred.bset
        /\ cred'.ruid = cred.ruid /\ cred'.gid = cred.gid
    BY <2>1 DEF Cred
  <2> QED BY <2>1, <2>2
<1>11. CASE AmbientRaise
  <2>1. /\ dpc = "ambient" /\ dpc' = "capget" /\ cred' = [cred EXCEPT !.amb = @ \cup mask]
    BY <1>11 DEF AmbientRaise
  <2>2. /\ cred'.eff = cred.eff /\ cred'.bset = cred.bset
        /\ cred'.ruid = cred.ruid /\ cred'.gid = cred.gid
    BY <2>1 DEF Cred
  <2> QED BY <2>1, <2>2
<1>12. CASE CapGet
  BY <1>12 DEF CapGet
<1>13. CASE LsmApply
  BY <1>13 DEF LsmApply
<1>14. CASE Execve
  BY <1>14 DEF Execve
<1>15. CASE UNCHANGED pdVars
  BY <1>15 DEF pdVars
<1> QED
  BY <1>4, <1>5, <1>6, <1>7, <1>8, <1>9, <1>10, <1>11, <1>12, <1>13, <1>14, <1>15 DEF PdNext

(* Where shakti starts with the capabilities it uses and hands on, on a    *)
(* kernel that knows the table, only a call that failed or lied makes the  *)
(* drop abort: each call finds the privilege it needs.                     *)
THEOREM DropFindsItsPrivileges == PdSpec => []DropWorks
<1>1. PdInit => PdTypeOK /\ CapableWhenAble
  <2> SUFFICES ASSUME PdInit, Able PROVE Capable
    BY PdTypeInit DEF CapableWhenAble
  <2>1. /\ cred.prm = bound /\ cred.eff = bound /\ cred.bset = bound
        /\ dpc = (IF mask = {} THEN "setgroups" ELSE "bset")
    BY DEF PdInit
  <2>2. mask # {} => mask \subseteq bound
    BY DEF Able, Needed
  <2> QED BY <2>1, <2>2 DEF Capable, BeforeUid, AfterUid
<1>2. PdTypeOK /\ CapableWhenAble /\ [PdNext]_pdVars => (PdTypeOK /\ CapableWhenAble)'
  BY PdTypeStep, CapableStep
<1>3. CapableWhenAble => DropWorks
  BY DEF CapableWhenAble, Capable, DropWorks
<1> QED BY <1>1, <1>2, <1>3, PTL DEF PdSpec
==============================================================================
