------------------------------ MODULE PrivDrop -------------------------------
(***************************************************************************)
(* From the record "authorized" to the command's first instruction:        *)
(* _drop_privileges, _apply_lsm_or_die and execve, over the credentials    *)
(* the Linux kernel keeps for the process.                                 *)
(*                                                                         *)
(* Each step is one checked call.  It may be refused by the kernel for     *)
(* want of a capability, fail for another reason, or report success        *)
(* without any effect (a lie), which the code's post-checks are there for. *)
(* The first call that fails ends the process.                             *)
(***************************************************************************)
EXTENDS FiniteSets

CONSTANTS
    Root,          \* uid 0
    Callers,       \* uids that may have started shakti
    Targets,       \* uids a rule may run a command as
    CallerGroups,  \* the caller's group ids, the primary one among them
    TargetGid,     \* the target's primary group
    TargetGroups,  \* the groups that list the target as a member
    TableCaps,     \* capabilities of the table, bits 0 to CAP_LAST_CAP
    KernelCaps,    \* capabilities the running kernel knows
    Inherited,     \* bounding sets shakti may be started with
    Lsm            \* the security modules a rule may name a context for

ASSUME PdAssumption ==
    /\ {"SETUID", "SETGID", "SETPCAP"} \subseteq TableCaps \cap KernelCaps
    /\ Inherited \subseteq SUBSET KernelCaps

VARIABLES
    dpc,      \* the next call
    cred,     \* the process's credentials
    caller,   \* input: the real uid shakti was started with
    target,   \* input: the target uid
    mask,     \* input: the rule's capability set, {} when it names none
    want,     \* input: the modules the rule names a context for
    active,   \* the modules active on this host
    bound,    \* input: the bounding set shakti was started with
    staged,   \* the contexts that take effect at execve
    fault     \* history: did a call fail or lie without a reason?

inputs == <<caller, target, mask, want, active, bound>>
pdVars == <<dpc, cred, caller, target, mask, want, active, bound, staged, fault>>

Steps == {"bset", "keepcaps", "setgroups", "setgid", "setuid", "getuid", "getgid",
          "capset", "ambient", "capget", "lsm", "execve"}
Ends == {"command", "aborted", "refused", "notrun"}
Uid == {Root} \cup Callers \cup Targets
Gid == CallerGroups \cup {TargetGid} \cup TargetGroups
Cred == [ruid : Uid, euid : Uid, suid : Uid, gid : Gid, groups : SUBSET Gid,
         prm : SUBSET KernelCaps, eff : SUBSET KernelCaps, inh : SUBSET KernelCaps,
         amb : SUBSET KernelCaps, bset : SUBSET KernelCaps, keep : BOOLEAN]

(* The setuid-root execve that started shakti: every capability of the     *)
(* bounding set, and ambient ones only for a caller that was root.         *)
PdInit ==
    /\ caller \in Callers /\ target \in Targets /\ mask \in SUBSET TableCaps
    /\ want \in SUBSET Lsm /\ active \in SUBSET Lsm
    /\ bound \in Inherited
    /\ staged = {} /\ fault = {}
    /\ dpc = IF mask = {} THEN "setgroups" ELSE "bset"
    /\ \E i \in SUBSET bound, g \in CallerGroups :
          \E a \in IF caller = Root THEN SUBSET i ELSE {{}} :
             cred = [ruid |-> caller, euid |-> Root, suid |-> Root,
                     gid |-> g, groups |-> CallerGroups,
                     prm |-> bound, eff |-> bound, inh |-> i, amb |-> a,
                     bset |-> bound, keep |-> FALSE]

(* The order of the calls; the capability calls only for a rule with a set.*)
AfterStepUidFirst(l) ==
    CASE l = "bset"      -> "keepcaps"
      [] l = "keepcaps"  -> "setuid"
      [] l = "setuid"    -> "setgroups"
      [] l = "setgroups" -> "setgid"
      [] l = "setgid"    -> "getuid"
      [] l = "getuid"    -> "getgid"
      [] l = "getgid"    -> IF mask = {} THEN "lsm" ELSE "capset"
      [] l = "capset"    -> "ambient"
      [] l = "ambient"   -> "capget"
      [] l = "capget"    -> "lsm"
      [] l = "lsm"       -> "execve"
      [] l = "execve"    -> "command"
AfterStep(l) ==
    CASE l = "bset"      -> "keepcaps"
      [] l = "keepcaps"  -> "setgroups"
      [] l = "setgroups" -> "setgid"
      [] l = "setgid"    -> "setuid"
      [] l = "setuid"    -> "getuid"
      [] l = "getuid"    -> "getgid"
      [] l = "getgid"    -> IF mask = {} THEN "lsm" ELSE "capset"
      [] l = "capset"    -> "ambient"
      [] l = "ambient"   -> "capget"
      [] l = "capget"    -> "lsm"
      [] l = "lsm"       -> "execve"
      [] l = "execve"    -> "command"

At(l) == dpc = l
Proceed(l) == At(l) /\ dpc' = AfterStep(l)
Abort(l) == At(l) /\ dpc' = "aborted" /\ UNCHANGED <<cred, staged, inputs>>

(* A call the kernel permits if ok, after which the credentials are c.     *)
Failed == fault' = fault \cup {"failed"}
Lied == fault' = fault \cup {"lied"}
Call(l, ok, c) ==
    \/ ok /\ Proceed(l) /\ cred' = c /\ UNCHANGED <<staged, inputs, fault>>
    \/ ~ok /\ Abort(l) /\ UNCHANGED fault
    \/ ok /\ Abort(l) /\ Failed
    \/ Proceed(l) /\ UNCHANGED <<cred, staged, inputs>> /\ Lied

------------------------------------------------------------------------------
(* caps_bset_drop_complement: PR_CAPBSET_DROP of every bit of the table    *)
(* outside the mask; a bit the kernel does not know is an error.           *)
DroppedButSetpcap == TableCaps \ (mask \cup {"SETPCAP"})
Dropped == TableCaps \ mask

BsetDrop ==
    Call("bset", "SETPCAP" \in cred.eff /\ Dropped \subseteq KernelCaps,
         [cred EXCEPT !.bset = @ \ Dropped])

KeepCaps == Call("keepcaps", TRUE, [cred EXCEPT !.keep = TRUE])

(* identity_lookup_gids: the primary group first, then the groups that     *)
(* list the target, as many as can be read and fit the array.              *)
LookedUp == {{TargetGid} \cup gs : gs \in SUBSET TargetGroups}

SetGroupsAppending ==
    \E g \in LookedUp :
        Call("setgroups", "SETGID" \in cred.eff, [cred EXCEPT !.groups = @ \cup g])
SetGroups ==
    \E g \in LookedUp :
        Call("setgroups", "SETGID" \in cred.eff, [cred EXCEPT !.groups = g])

SetGid ==
    Call("setgid", "SETGID" \in cred.eff \/ TargetGid = cred.gid,
         [cred EXCEPT !.gid = TargetGid])

(* The kernel's setuid: with CAP_SETUID all three uids, else only the      *)
(* effective one, to the real or the saved; leaving uid 0 for good clears  *)
(* the ambient set, and unless kept the permitted one; an effective uid    *)
(* other than 0 has no effective capability left.                          *)
Uids == IF "SETUID" \in cred.eff
    THEN [cred EXCEPT !.ruid = target, !.euid = target, !.suid = target]
    ELSE [cred EXCEPT !.euid = target]

Emulated(c) ==
    LET left == Root \notin {c.ruid, c.euid, c.suid}
    IN  [c EXCEPT !.prm = IF left /\ ~c.keep THEN {} ELSE @,
                  !.amb = IF left THEN {} ELSE @,
                  !.eff = IF c.euid # Root THEN {} ELSE @]

SetUid ==
    Call("setuid", "SETUID" \in cred.eff \/ target \in {cred.ruid, cred.suid},
         Emulated(Uids))

(* getuid and getgid: the real ids.                                        *)
Check(l, ok) ==
    /\ \/ ok /\ Proceed(l) /\ UNCHANGED <<cred, staged, inputs>>
       \/ ~ok /\ Abort(l)
    /\ UNCHANGED fault

GetUidUnchecked == Check("getuid", TRUE)
GetUid == Check("getuid", cred.ruid = target)
GetGid == Check("getgid", cred.gid = TargetGid)

------------------------------------------------------------------------------
(* caps_capset: effective, permitted and inheritable become the mask, of   *)
(* which the kernel ignores what it does not know.                         *)
Known == mask \cap KernelCaps

CapSet ==
    Call("capset",
         /\ Known \subseteq cred.prm
         /\ Known \subseteq cred.inh \cup cred.bset,
         [cred EXCEPT !.eff = Known, !.prm = Known, !.inh = Known,
                      !.amb = @ \cap Known])

AmbientRaise ==
    Call("ambient", mask \subseteq cred.prm \cap cred.inh, [cred EXCEPT !.amb = @ \cup mask])

CapGet == Check("capget", cred.eff = mask)

(* lsm_apply_exec: each active module the rule names a context for gets    *)
(* it, and at least one must.                                              *)
Applicable == want \cap active
LsmApplyLenient ==
    Proceed("lsm") /\ staged' = Applicable /\ UNCHANGED <<cred, inputs, fault>>
LsmApply ==
    /\ \/ /\ want = {} \/ Applicable # {}
          /\ Proceed("lsm")
          /\ staged' = Applicable
       \/ /\ want # {}
          /\ At("lsm") /\ dpc' = "refused"
          /\ UNCHANGED staged
    /\ UNCHANGED <<cred, inputs, fault>>

(* The kernel's execve of an ordinary file: root gets the bounding and the *)
(* inheritable set, any other uid the ambient one.                         *)
OnExec(c) ==
    LET gain == IF Root \in {c.ruid, c.euid} THEN c.bset \cup c.inh ELSE c.amb
    IN  [c EXCEPT !.suid = c.euid, !.prm = gain,
                  !.eff = IF c.euid = Root THEN gain ELSE c.amb,
                  !.keep = FALSE]

Execve ==
    /\ \/ Proceed("execve") /\ cred' = OnExec(cred)
       \/ At("execve") /\ dpc' = "notrun" /\ UNCHANGED cred
    /\ UNCHANGED <<staged, inputs, fault>>

PdNext ==
    \/ BsetDrop \/ KeepCaps \/ SetGroups \/ SetGid \/ SetUid \/ GetUid \/ GetGid
    \/ CapSet \/ AmbientRaise \/ CapGet \/ LsmApply \/ Execve

PdSpec == PdInit /\ [][PdNext]_pdVars

------------------------------------------------------------------------------
(* Every variable stays in its range (_drop_privileges).                   *)
PdTypeOK ==
    /\ dpc \in Steps \cup Ends
    /\ cred \in Cred
    /\ caller \in Callers /\ target \in Targets /\ mask \in SUBSET TableCaps
    /\ want \in SUBSET Lsm /\ active \in SUBSET Lsm /\ staged \in SUBSET Lsm
    /\ bound \in Inherited /\ fault \in SUBSET {"failed", "lied"}

(* Whichever call fails, a command that starts has the target's ids and no *)
(* group of the caller's, if every call did what it reported.              *)
Honest == "lied" \notin fault
RunsAsTarget ==
    dpc = "command" /\ Honest =>
        /\ cred.ruid = target /\ cred.euid = target /\ cred.suid = target
        /\ cred.gid = TargetGid
        /\ TargetGid \in cred.groups /\ cred.groups \subseteq {TargetGid} \cup TargetGroups

(* Under a rule that names capabilities the command has exactly those,     *)
(* even as root, and can gain no other; under one that names none, a       *)
(* command that is not run as root has none (ADR-007, step 6).             *)
ExactCapabilities ==
    dpc = "command" /\ Honest =>
        /\ mask # {} => /\ cred.prm = mask /\ cred.eff = mask /\ cred.amb = mask
                        /\ cred.bset \subseteq mask
        /\ mask = {} /\ target # Root => cred.prm = {} /\ cred.eff = {}

(* A command whose rule names a context runs under one, and under that of  *)
(* every active module it names.                                           *)
Confined ==
    dpc = "command" => staged = want \cap active /\ (want # {} => staged # {})

(* Started with the capabilities it uses and those it hands on, on a       *)
(* kernel that knows the whole table (a bit it does not know fails the     *)
(* drop of the bounding set), the drop aborts only for a call that failed  *)
(* or lied: no step takes from a later one the privilege it needs.         *)
Needed == {"SETUID", "SETGID"} \cup (IF mask = {} THEN {} ELSE mask \cup {"SETPCAP"})
Able == Needed \subseteq bound /\ (mask # {} => TableCaps \subseteq KernelCaps)
DropWorks == dpc = "aborted" /\ Able => fault # {}

(* A setuid or setgid that reported success without effect is noticed      *)
(* before the execve, when the target is not the caller ("defence against  *)
(* kernel states where the drop returns 0 but the uid/gid didn't actually  *)
(* change").                                                               *)
LiesNoticed ==
    dpc = "command" /\ target # caller =>
        cred.ruid = target /\ cred.euid = target /\ cred.gid = TargetGid
------------------------------------------------------------------------------
(* The inductive invariant behind RunsAsTarget and ExactCapabilities: what *)
(* each honest call has established by the time the next one is made.      *)
BeforeUid == {"bset", "keepcaps", "setgroups", "setgid", "setuid"}
AfterUid == {"getuid", "getgid", "capset", "ambient", "capget", "lsm", "execve"}

IdsSettled ==
    /\ dpc \in BeforeUid =>
          /\ cred.ruid = caller /\ cred.euid = Root /\ cred.suid = Root
          /\ caller # Root => cred.amb = {}
    /\ dpc \in {"setgid", "setuid"} \cup AfterUid =>
          TargetGid \in cred.groups /\ cred.groups \subseteq {TargetGid} \cup TargetGroups
    /\ dpc \in {"setuid"} \cup AfterUid => cred.gid = TargetGid
    /\ dpc \in AfterUid => cred.euid = target
    /\ dpc \in AfterUid \ {"getuid"} => cred.ruid = target

CapsSettled ==
    /\ dpc \in {"bset", "keepcaps", "capset", "ambient", "capget"} => mask # {}
    /\ mask # {} /\ dpc \in (BeforeUid \ {"bset"}) \cup AfterUid => cred.bset \subseteq mask
    /\ dpc = "ambient" => /\ cred.prm = Known /\ cred.eff = Known
                          /\ cred.inh = Known /\ cred.amb \subseteq Known
    /\ mask # {} /\ dpc \in {"capget", "lsm", "execve"} =>
          cred.prm = mask /\ cred.eff = mask /\ cred.inh = mask /\ cred.amb = mask
    /\ mask = {} /\ target # Root /\ dpc \in AfterUid => cred.amb = {}

(* The one behind DropWorks: what each call has left to the next ones, as  *)
(* long as none failed or lied.                                            *)
Capable ==
    /\ dpc # "aborted"
    /\ dpc \in BeforeUid =>
          /\ cred.prm = bound /\ cred.eff = bound
          /\ mask # {} /\ dpc \notin {"bset", "keepcaps"} => cred.keep
    /\ dpc \in {"setuid"} \cup AfterUid => cred.gid = TargetGid
    /\ dpc \in AfterUid => cred.ruid = target
    /\ dpc \in {"bset", "keepcaps", "capset", "ambient", "capget"} => mask # {}
    /\ mask # {} /\ dpc \in Steps => mask \subseteq cred.bset
    /\ mask # {} /\ dpc \in {"getuid", "getgid", "capset"} => cred.prm = bound
    /\ dpc = "ambient" => cred.prm = mask /\ cred.inh = mask
    /\ dpc \in {"ambient", "capget"} => cred.eff = mask

CapableWhenAble == Able /\ fault = {} => Capable

PdIInv ==
    /\ PdTypeOK /\ RunsAsTarget /\ ExactCapabilities
    /\ Honest => IdsSettled /\ CapsSettled
==============================================================================
