------------------------------ MODULE Loading --------------------------------
(***************************************************************************)
(* load_policy and the fragments of include_dir, call by call, in the port *)
(* (src/policy.cyr) and in the original (rust-old/src/policy.rs), while    *)
(* the files change under them.  Every file is judged by its name and read *)
(* by its name again.                                                      *)
(*                                                                         *)
(* Fragments are numbered in the order of their names.  A text has the     *)
(* rules a parser finds in it, which are each parser's own: the original   *)
(* takes TOML or fails, the port's small parser never fails, reads what it *)
(* can line by line, and at most the head of a text that is longer than    *)
(* its buffer.                                                             *)
(***************************************************************************)
EXTENDS Naturals, Sequences, Functions

CONSTANTS
    Fragments,     \* the number of fragment names
    Text,          \* what a file may hold
    MainFiles,     \* what the policy file may be at first
    FragmentFiles, \* what a fragment may be at first
    MaxChanges     \* how often a file is changed during a load

Main == 0
FileNames == Main..Fragments
Dir == Fragments + 1

(* toml: TOML that both parsers read alike, TOML that the port's reads     *)
(* otherwise (a comment in an array, a string of several lines, an inline  *)
(* table), or no TOML.  bytes: none, at most the port's buffer, or more.   *)
(* include: which program's parser finds a directory of fragments in it.   *)
TextType == [toml : {"plain", "other", "not"}, bytes : {"none", "some", "many"},
             include : SUBSET {"port", "old"}]

(* regular: a file, and not a directory of that name.                      *)
File == [there : BOOLEAN, regular : BOOLEAN, safe : BOOLEAN, text : Text]
DirState == {"missing", "file", "unsafe", "safe"}
Disk == [file : [FileNames -> File], dir : DirState]

ASSUME LoadingAssumption ==
    /\ Fragments \in Nat /\ MaxChanges \in Nat
    /\ Text \subseteq TextType
    /\ \A t \in Text : t.toml = "plain" /\ t.bytes = "some"
                        => t.include \in {{}, {"port", "old"}}
    /\ MainFiles \subseteq File /\ FragmentFiles \subseteq File

VARIABLES
    loader,   \* which program loads
    disk,     \* the files now
    began,    \* the files when the load began
    changes,  \* how often something was changed since
    touched,  \* and what
    lpc,      \* the next call
    left,     \* fragments listed and not read yet, read in name order
    got       \* the rules collected

lvars == <<loader, disk, began, changes, touched, lpc, left, got>>
files == <<loader, disk, began, changes, touched>>

------------------------------------------------------------------------------
(* The rules a program finds in the text t of the file n, named by how it  *)
(* was read: as TOML, what there is of it in the head, or line by line.    *)
Block(n, t, as) == IF t.bytes = "none" THEN <<>> ELSE <<[from |-> n, text |-> t, as |-> as]>>
TomlRules(n, t) == Block(n, t, "toml")
PortRules(n, t) ==
    Block(n, t, IF t.bytes = "many" THEN "head"
                ELSE IF t.toml = "plain" THEN "toml" ELSE "lines")

Trusted(f) == f.there /\ f.safe
OldReads(f) == f.there /\ f.regular /\ f.text.toml # "not"
PortReads(f) == f.there /\ f.regular /\ f.text.bytes # "none"

Names == {n \in 1..Fragments : disk.file[n].there}
InReverse(ns) == CHOOSE n \in ns : \A m \in ns : n >= m
InNameOrder(ns) == CHOOSE n \in ns : \A m \in ns : n <= m
Upcoming == InNameOrder(left)

Then(next) == lpc' = next /\ UNCHANGED <<files, left, got>>
Fail == lpc' = "failed" /\ got' = <<>> /\ UNCHANGED <<files, left>>
At(program, call) == loader = program /\ lpc = call
Take(rules, next) ==
    got' = got \o rules /\ lpc' = next /\ UNCHANGED files
AfterMain(t) == IF loader \in t.include THEN "dir" ELSE "done"

LoadInit ==
    /\ loader \in {"port", "old"}
    /\ \E main \in MainFiles, fragment \in [1..Fragments -> FragmentFiles], dir \in DirState :
          disk = [file |-> [n \in FileNames |-> IF n = Main THEN main ELSE fragment[n]],
                  dir |-> dir]
    /\ began = disk /\ changes = 0 /\ touched = {}
    /\ lpc = (IF loader = "port" THEN "stat" ELSE "exists")
    /\ left = {} /\ got = <<>>

------------------------------------------------------------------------------
(* The port: a main file it cannot trust or read fails the load, a         *)
(* directory or a fragment is passed over.                                 *)
StatMain ==
    /\ At("port", "stat")
    /\ LET f == disk.file[Main] IN
       IF Trusted(f) /\ f.regular THEN Then("read") ELSE Fail

ReadMain ==
    /\ At("port", "read")
    /\ LET f == disk.file[Main] IN
       IF PortReads(f) THEN Take(PortRules(Main, f.text), AfterMain(f.text)) /\ UNCHANGED left
       ELSE Fail

StatDir ==
    /\ At("port", "dir")
    /\ IF disk.dir = "safe" THEN Then("list") ELSE Then("done")

Listing == IF disk.dir \in {"safe", "unsafe"} THEN Names ELSE {}
ListDir ==
    /\ At("port", "list")
    /\ left' = Listing /\ lpc' = "fragment"
    /\ UNCHANGED <<files, got>>

NextFragment == left' = left \ {Upcoming} /\ lpc' = "fragment"
StatFragmentUnjudged ==
    /\ At("port", "fragment") /\ left # {}
    /\ \/ disk.file[Upcoming].there /\ lpc' = "contents" /\ UNCHANGED left
       \/ ~disk.file[Upcoming].there /\ NextFragment
    /\ UNCHANGED <<files, got>>
StatFragment ==
    /\ At("port", "fragment") /\ left # {}
    /\ \/ Trusted(disk.file[Upcoming]) /\ lpc' = "contents" /\ UNCHANGED left
       \/ ~Trusted(disk.file[Upcoming]) /\ NextFragment
    /\ UNCHANGED <<files, got>>

ReadFragmentOrStop ==
    /\ At("port", "contents")
    /\ LET f == disk.file[Upcoming] IN
       \/ PortReads(f) /\ got' = got \o PortRules(Upcoming, f.text) /\ NextFragment
       \/ ~PortReads(f) /\ lpc' = "done" /\ UNCHANGED <<left, got>>
    /\ UNCHANGED files
ReadFragment ==
    /\ At("port", "contents")
    /\ LET f == disk.file[Upcoming] IN
       got' = got \o (IF PortReads(f) THEN PortRules(Upcoming, f.text) ELSE <<>>)
    /\ NextFragment
    /\ UNCHANGED files

PortStep == StatMain \/ ReadMain \/ StatDir \/ ListDir \/ StatFragment \/ ReadFragment

------------------------------------------------------------------------------
(* The original: whatever it cannot trust, read or parse fails the load;   *)
(* only a directory that is missing at first is passed over.               *)
OldExists ==
    /\ At("old", "exists")
    /\ IF disk.file[Main].there THEN Then("stat") ELSE Fail

OldStatMain ==
    /\ At("old", "stat")
    /\ IF Trusted(disk.file[Main]) THEN Then("read") ELSE Fail

OldReadMain ==
    /\ At("old", "read")
    /\ LET f == disk.file[Main] IN
       IF OldReads(f) THEN Take(TomlRules(Main, f.text), AfterMain(f.text)) /\ UNCHANGED left
       ELSE Fail

OldDirExists ==
    /\ At("old", "dir")
    /\ IF disk.dir = "missing" THEN Then("done") ELSE Then("is_dir")

OldIsDir ==
    /\ At("old", "is_dir")
    /\ IF disk.dir \in {"safe", "unsafe"} THEN Then("stat_dir") ELSE Fail

OldStatDir ==
    /\ At("old", "stat_dir")
    /\ IF disk.dir \in {"safe", "file"} THEN Then("list") ELSE Fail

OldListDir ==
    /\ At("old", "list")
    /\ IF disk.dir \in {"safe", "unsafe"}
       THEN left' = Names /\ lpc' = "fragment" /\ UNCHANGED <<files, got>>
       ELSE Fail

OldStatFragment ==
    /\ At("old", "fragment") /\ left # {}
    /\ IF Trusted(disk.file[Upcoming]) THEN Then("contents") ELSE Fail

OldReadFragment ==
    /\ At("old", "contents")
    /\ LET f == disk.file[Upcoming] IN
       IF OldReads(f) THEN Take(TomlRules(Upcoming, f.text), "fragment") /\ left' = left \ {Upcoming}
       ELSE Fail

OldLoadStep ==
    \/ OldExists \/ OldStatMain \/ OldReadMain \/ OldDirExists \/ OldIsDir \/ OldStatDir
    \/ OldListDir \/ OldStatFragment \/ OldReadFragment

(* Either program: no fragment is left.                                    *)
Loaded == lpc = "fragment" /\ left = {} /\ Then("done")

------------------------------------------------------------------------------
(* What may happen to a file at one time: another is renamed over it, with *)
(* a text, an owner and a mode of its own; it is written, so that only the *)
(* text changes; it is removed, or given another owner or mode.            *)
Anew == [there : {TRUE}, regular : {TRUE}, safe : BOOLEAN, text : Text]
Changed(f) ==
    IF ~f.there THEN Anew
    ELSE {[f EXCEPT !.there = FALSE], [f EXCEPT !.safe = ~f.safe]}
         \cup (IF f.regular THEN Anew ELSE {})

ChangesDir ==
    \/ disk.dir = "missing" /\ \E dir \in DirState : disk' = [disk EXCEPT !.dir = dir]
    \/ disk.dir # "missing" /\ disk' = [disk EXCEPT !.dir = "missing"]
    \/ disk.dir = "safe" /\ disk' = [disk EXCEPT !.dir = "unsafe"]
    \/ disk.dir = "unsafe" /\ disk' = [disk EXCEPT !.dir = "safe"]

Administrate ==
    /\ lpc \notin {"done", "failed"} /\ changes < MaxChanges
    /\ \/ \E n \in FileNames : \E f \in Changed(disk.file[n]) :
             disk' = [disk EXCEPT !.file[n] = f] /\ touched' = touched \cup {n}
       \/ ChangesDir /\ touched' = touched \cup {Dir}
    /\ changes' = changes + 1
    /\ UNCHANGED <<loader, began, lpc, left, got>>

LoadNext == PortStep \/ OldLoadStep \/ Loaded \/ Administrate

LoadSpec == LoadInit /\ [][LoadNext]_lvars

------------------------------------------------------------------------------
(* What a load of the files d gives, all at once: whether there is a       *)
(* policy, and if so the rules it has from each file.                      *)
Reads(p, f) == IF p = "port" THEN PortReads(f) ELSE OldReads(f)
Rules(p, n, t) == Range(IF p = "port" THEN PortRules(n, t) ELSE TomlRules(n, t))
Sound(p, f) == Trusted(f) /\ Reads(p, f)
Part(p, d, n) == IF Sound(p, d.file[n]) THEN Rules(p, n, d.file[n].text) ELSE {}

Opens(p, d) == IF p = "port" THEN d.dir = "safe" ELSE d.dir # "missing"
Includes(p, d) == p \in d.file[Main].text.include /\ Opens(p, d)
Accepts(p, d) ==
    /\ Sound(p, d.file[Main])
    /\ p = "old" /\ Includes(p, d) =>
          /\ d.dir = "safe"
          /\ \A n \in 1..Fragments : d.file[n].there => Sound(p, d.file[n])
NoPolicy == <<>>
Loads(p, d) ==
    IF Accepts(p, d)
    THEN [n \in FileNames |-> IF n = Main \/ Includes(p, d) THEN Part(p, d, n) ELSE {}]
    ELSE NoPolicy

Finished == lpc \in {"done", "failed"}
Taken(n) == {b \in Range(got) : b.from = n}
Outcome == IF lpc = "done" THEN [n \in FileNames |-> Taken(n)] ELSE NoPolicy
InOrder == \A j, k \in DOMAIN got : j < k => got[j].from < got[k].from

(* The files new, each taken for trusted where it was so among the old.    *)
Trusting(old, new) ==
    [new EXCEPT !.file = [n \in FileNames |->
        [new.file[n] EXCEPT !.safe = new.file[n].safe \/ old.file[n].safe]]]
Believed == Trusting(began, disk)

(* A load during which nothing changes, or one thing does, never mixes two *)
(* policies: it gives the policy as it was before or as it was after,      *)
(* whatever call the change falls between, its rules in the order of the   *)
(* names, or the original refuses.  But a file that is renamed over one    *)
(* already judged is read for the one that was judged: then the policy is  *)
(* that of the files after, the new file believed to be trusted.           *)
LoadIsSnapshot ==
    Finished /\ changes <= 1 =>
        /\ InOrder
        /\ \/ Outcome \in {Loads(loader, d) : d \in {began, disk, Believed}}
           \/ changes = 1 /\ loader = "old" /\ lpc = "failed"

(* What the original loads of ordinary files (TOML that both parsers read  *)
(* alike, neither empty nor longer than the port's buffer), the port loads *)
(* with the same rules in the same order.                                  *)
Ordinary(d) ==
    \A n \in FileNames : d.file[n].there =>
        d.file[n].text.bytes = "some" /\ d.file[n].text.toml = "plain"
PortLoadsAsOriginal ==
    loader = "port" /\ Finished /\ changes = 0 /\ Ordinary(disk) /\ Accepts("old", disk)
        => InOrder /\ Outcome = Loads("old", disk)

(* However many files change under the load, those that do not are read    *)
(* right: the rules come in the order of the names; what counts of a       *)
(* fragment is all it has for this program, and only if it can be trusted  *)
(* and read; and then it does count, if the directory stayed as well.      *)
UntouchedReadRight ==
    lpc = "done" =>
        /\ InOrder
        /\ \A n \in (1..Fragments) \ touched :
              /\ Taken(n) \in {{}, Part(loader, disk, n)}
              /\ touched \cap {Main, Dir} = {} /\ Includes(loader, disk)
                    => Taken(n) = Part(loader, disk, n)
------------------------------------------------------------------------------
(* The inductive invariant behind the three.  Ahead: the load comes to the *)
(* file n, if the files are d from now on.  Judged: it has been found      *)
(* trustworthy, and is about to be read.                                   *)
BeforeMain == {"exists", "stat", "read"}
BeforeListing == {"dir", "is_dir", "stat_dir", "list"}
InListing == {"fragment", "contents"}
Ahead(d, n) ==
    \/ lpc \in BeforeMain /\ (n = Main \/ Includes(loader, d))
    \/ lpc = "dir" /\ n # Main /\ Opens(loader, d)
    \/ lpc \in {"is_dir", "stat_dir"} /\ n # Main
    \/ lpc = "list" /\ n # Main /\ d.dir \in {"safe", "unsafe"}
    \/ lpc \in InListing /\ n \in left
Judged(n) ==
    \/ n = Main /\ lpc = "read"
    \/ lpc = "contents" /\ n = Upcoming

(* What the load will come to, if the files are d from now on.             *)
WillTake(d, n) ==
    Ahead(d, n) /\ Reads(loader, d.file[n]) /\ (Judged(n) \/ Trusted(d.file[n]))
WillAccept(d) ==
    /\ lpc # "failed"
    /\ lpc \in BeforeMain => WillTake(d, Main)
    /\ loader = "old" =>
          /\ \/ lpc \in BeforeMain /\ Includes("old", d)
             \/ lpc = "dir" /\ Opens("old", d)
             \/ lpc \in {"is_dir", "stat_dir"}
             => d.dir = "safe"
          /\ lpc = "list" => d.dir \in {"safe", "unsafe"}
          /\ \A n \in 1..Fragments :
                Ahead(d, n) /\ (lpc \in InListing \/ d.file[n].there) => WillTake(d, n)
WillHave(d, n) ==
    Taken(n) \cup (IF WillTake(d, n) THEN Rules(loader, n, d.file[n].text) ELSE {})
Forecast(d) ==
    IF WillAccept(d) THEN [n \in FileNames |-> WillHave(d, n)] ELSE NoPolicy

Blocks == [from : FileNames, text : Text, as : {"toml", "head", "lines"}]
LoadTypeOK ==
    /\ loader \in {"port", "old"}
    /\ disk \in Disk /\ began \in Disk
    /\ changes \in 0..MaxChanges /\ touched \subseteq FileNames \cup {Dir}
    /\ lpc \in BeforeMain \cup BeforeListing \cup InListing \cup {"done", "failed"}
    /\ loader = "port" => lpc \notin {"exists", "is_dir", "stat_dir"}
    /\ left \subseteq 1..Fragments /\ (lpc = "contents" => left # {})
    /\ got \in Seq(Blocks)

(* What was taken so far came in order, and everything ahead comes later.  *)
TakenInOrder ==
    /\ InOrder
    /\ lpc \in BeforeMain \cup {"failed"} => got = <<>>
    /\ lpc \in BeforeListing => \A n \in 1..Fragments : Taken(n) = {}
    /\ lpc \in InListing => \A n \in left : \A k \in DOMAIN got : got[k].from < n

(* What the calls have seen of the files that are still as they were.      *)
SeenOfMain ==
    Main \notin touched =>
        /\ lpc = "read" => Trusted(disk.file[Main])
        /\ lpc \in BeforeListing \cup InListing =>
              /\ Sound(loader, disk.file[Main]) /\ loader \in disk.file[Main].text.include
              /\ Taken(Main) = Part(loader, disk, Main)
        /\ lpc = "done" => Taken(Main) = Part(loader, disk, Main)
SeenOfDir ==
    Dir \notin touched =>
        /\ lpc \in InListing \cup {"list"} => disk.dir = "safe"
        /\ lpc = "is_dir" => disk.dir # "missing"
        /\ lpc = "stat_dir" => disk.dir \in {"safe", "unsafe"}
SeenOf(n) ==
    n \notin touched =>
        /\ Taken(n) \in {{}, Part(loader, disk, n)}
        /\ lpc = "contents" /\ n = Upcoming => Trusted(disk.file[n])
        /\ loader = "old" /\ lpc \in InListing =>
              (n \in left => disk.file[n].there)
        /\ Dir \notin touched /\ lpc \in InListing /\ n \notin left =>
              /\ Taken(n) = Part(loader, disk, n)
              /\ loader = "old" /\ disk.file[n].there => Sound("old", disk.file[n])
        /\ lpc = "done" /\ touched \cap {Main, Dir} = {} /\ Includes(loader, disk)
              => Taken(n) = Part(loader, disk, n)

Foreseen ==
    /\ changes = 0 => touched = {} /\ disk = began
    /\ changes <= 1 =>
          \/ Forecast(disk) \in {Loads(loader, d) : d \in {began, disk, Believed}}
          \/ changes = 1 /\ loader = "old" /\ ~WillAccept(disk)

LoadIInv ==
    /\ LoadTypeOK /\ TakenInOrder
    /\ SeenOfMain /\ SeenOfDir /\ (\A n \in 1..Fragments : SeenOf(n))
    /\ Foreseen
==============================================================================
