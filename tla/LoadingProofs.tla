--------------------------- MODULE LoadingProofs -----------------------------
(***************************************************************************)
(* Proofs about Loading, for any number of fragments, any texts and any    *)
(* number of changes during the load: what it takes of the files that do   *)
(* not change, that one change never mixes two policies, and that the port *)
(* loads what the original loads.                                          *)
(*                                                                         *)
(* The argument is a forecast: what the load would come to if nothing      *)
(* changed any more.  No call of either program changes the forecast, and  *)
(* the first change of a file leaves it as it was or makes it that of the  *)
(* files as they are now, or as the load believes them to be.              *)
(***************************************************************************)
EXTENDS Loading, SequenceTheorems, WellFoundedInduction, TLAPS

LEMMA Numbers ==
    /\ Fragments \in Nat /\ Main \in FileNames /\ FileNames \subseteq Nat
    /\ 1..Fragments \subseteq FileNames /\ Main \notin 1..Fragments
    /\ \A n \in FileNames : n # Main => n \in 1..Fragments
    /\ Dir \notin FileNames
<1>1. Fragments \in Nat
  BY LoadingAssumption
<1> QED BY <1>1 DEF FileNames, Main, Dir

(* A set of numbers that is not empty has a least one.                      *)
LEMMA LeastOfNats ==
    ASSUME NEW S, S \subseteq Nat, S # {}
    PROVE  \E n \in S : \A m \in S : n <= m
<1> DEFINE R == OpToRel(<, Nat)
<1>1. IsWellFoundedOn(R, Nat) 
  BY NatLessThanWellFounded, Zenon
<1>2. R = {ss \in Nat \X Nat : ss[1] < ss[2]}
  BY DEF OpToRel
<1> HIDE DEF R
<1>3. \A m, n \in Nat : m < n => <<m, n>> \in R
  BY <1>2
<1>4. PICK n \in S : \A m \in S : <<m, n>> \notin R
  BY <1>1, WFMin, Zenon
<1>5. ASSUME NEW m \in S PROVE n <= m
  <2>1. m \in Nat /\ n \in Nat
    OBVIOUS
  <2>2. <<m, n>> \notin R
    BY <1>4, Zenon
  <2>3. ~(m < n)
    BY <1>3, <2>1, <2>2, Zenon
  <2> QED BY <2>1, <2>3
<1> QED BY <1>4, <1>5

LEMMA AtMostOne == ASSUME NEW x \in Nat, x <= 1 PROVE x \in {0, 1}
OBVIOUS

LEMMA UpcomingIsFirst ==
    ASSUME left \subseteq 1..Fragments, left # {}
    PROVE  Upcoming \in left /\ \A m \in left : Upcoming <= m
<1>1. left \subseteq Nat
  BY Numbers
<1>2. \E n \in left : \A m \in left : n <= m
  BY <1>1, LeastOfNats
<1> QED BY <1>2 DEF Upcoming, InNameOrder

(* The rules found in one text are at most one block, of that file.        *)
LEMMA RulesTyped ==
    ASSUME NEW n \in FileNames, NEW t \in Text
    PROVE  \A s \in {TomlRules(n, t), PortRules(n, t)} :
              /\ s \in Seq(Blocks) /\ Len(s) <= 1
              /\ \A k \in DOMAIN s : s[k].from = n
              /\ \A b \in Range(s) : b.from = n
<1>1. /\ <<>> \in Seq(Blocks) /\ Len(<<>>) = 0 /\ Range(<<>>) = {}
  BY DEF Range
<1>2. ASSUME NEW c \in {"toml", "head", "lines"}
      PROVE  LET b == [from |-> n, text |-> t, as |-> c] IN
             <<b>> \in Seq(Blocks) /\ Len(<<b>>) = 1 /\ Range(<<b>>) = {b} /\ DOMAIN <<b>> = {1}
  BY DEF Blocks, Range
<1>3. ASSUME NEW s, NEW c \in {"toml", "head", "lines"},
             \/ s = <<>>
             \/ s = <<[from |-> n, text |-> t, as |-> c]>>
      PROVE  /\ s \in Seq(Blocks) /\ Len(s) <= 1
             /\ \A k \in DOMAIN s : s[k].from = n
             /\ \A b \in Range(s) : b.from = n
  <2>1. CASE s = <<>>
    BY <2>1, <1>1
  <2>2. CASE s = <<[from |-> n, text |-> t, as |-> c]>>
    BY <2>2, <1>2
  <2> QED BY <1>3, <2>1, <2>2
<1> QED BY <1>3 DEF TomlRules, PortRules, Block

(* What was taken after rules of the file m are appended to it.            *)
LEMMA TakenAppended ==
    ASSUME NEW m \in FileNames, NEW s \in Seq(Blocks), got \in Seq(Blocks),
           \A b \in Range(s) : b.from = m, got' = got \o s
    PROVE  \A n : Taken(n)' = IF n = m THEN Taken(m) \cup Range(s) ELSE Taken(n)
<1>1. Range(got') = Range(got) \cup Range(s)
  BY RangeConcatenation
<1> QED BY <1>1 DEF Taken

(* Rules of a file later than all those taken so far come in order.        *)
LEMMA OrderAppended ==
    ASSUME NEW m \in FileNames, NEW s \in Seq(Blocks), got \in Seq(Blocks),
           Len(s) <= 1, \A k \in DOMAIN s : s[k].from = m,
           InOrder, \A k \in DOMAIN got : got[k].from < m, got' = got \o s
    PROVE  /\ got' \in Seq(Blocks) /\ InOrder'
           /\ \A k \in DOMAIN got' : got'[k].from <= m
<1>1. /\ got' \in Seq(Blocks) /\ Len(got') = Len(got) + Len(s)
      /\ \A i \in 1..(Len(got) + Len(s)) :
            got'[i] = IF i <= Len(got) THEN got[i] ELSE s[i - Len(got)]
  BY ConcatProperties
<1>2. ASSUME NEW k \in DOMAIN got PROVE got[k].from \in Nat
  <2>1. got[k] \in Blocks
    OBVIOUS
  <2> QED BY <2>1, Numbers DEF Blocks
<1>3. m \in Int /\ Len(s) \in {0, 1} /\ Len(got) \in Nat
  <2>1. m \in Int
    BY Numbers
  <2>2. Len(s) \in Nat /\ Len(got) \in Nat
    BY LenProperties
  <2> QED BY <2>1, <2>2, AtMostOne
<1>4. \A i \in DOMAIN got' : IF i <= Len(got) THEN i \in DOMAIN got /\ got'[i] = got[i]
                                              ELSE i = Len(got) + 1 /\ got'[i].from = m
  BY <1>1, <1>3
<1>5. \A k \in DOMAIN got' : got'[k].from <= m
  BY <1>2, <1>3, <1>4
<1>6. ASSUME NEW j \in DOMAIN got', NEW k \in DOMAIN got', j < k
      PROVE  got'[j].from < got'[k].from
  <2>1. j \in DOMAIN got /\ got'[j] = got[j]
    <3>1. j \in 1..(Len(got) + Len(s)) /\ k \in 1..(Len(got) + Len(s))
      BY <1>1
    <3>2. j <= Len(got)
      BY <1>3, <1>6, <3>1
    <3> QED BY <1>4, <3>2
  <2>2. CASE k <= Len(got)
    BY <1>4, <1>6, <2>1, <2>2 DEF InOrder
  <2>3. CASE ~(k <= Len(got))
    BY <1>4, <2>1, <2>3
  <2> QED BY <2>2, <2>3
<1>7. InOrder'
  BY <1>6 DEF InOrder
<1> QED BY <1>1, <1>5, <1>7

------------------------------------------------------------------------------
(* Types of the files, and what a change makes of one.                     *)
LEMMA FilesTyped ==
    ASSUME disk \in Disk
    PROVE  \A n \in FileNames : disk.file[n] \in File /\ disk.file[n].text \in Text
BY DEF Disk, File

LEMMA ChangedTyped ==
    ASSUME NEW f \in File, NEW g \in Changed(f)
    PROVE  g \in File
<1>1. CASE g \in Anew
  BY <1>1 DEF Anew, File
<1>2. CASE f.there /\ g = [f EXCEPT !.there = FALSE]
  BY <1>2 DEF File
<1>3. CASE f.there /\ g = [f EXCEPT !.safe = ~f.safe]
  <2>1. (~f.safe) \in BOOLEAN
    OBVIOUS
  <2> QED BY <1>3, <2>1 DEF File
<1> QED BY <1>1, <1>2, <1>3 DEF Changed

(* One change: of a file or of the directory.                              *)
LEMMA AdministrateChanges ==
    ASSUME LoadTypeOK, Administrate
    PROVE  /\ disk' \in Disk /\ changes' = changes + 1 /\ changes' \in 0..MaxChanges
           /\ UNCHANGED <<loader, began, lpc, left, got>> /\ ~Finished
           /\ \/ \E m \in FileNames, g \in File :
                    /\ touched' = touched \cup {m} /\ disk'.dir = disk.dir
                    /\ g \in Changed(disk.file[m])
                    /\ disk'.file = [disk.file EXCEPT ![m] = g]
              \/ /\ touched' = touched \cup {Dir} /\ disk'.file = disk.file
                 /\ disk'.dir \in DirState
<1>1. /\ changes' = changes + 1 /\ changes' \in 0..MaxChanges /\ ~Finished
      /\ UNCHANGED <<loader, began, lpc, left, got>>
  BY LoadingAssumption DEF Administrate, LoadTypeOK, Finished
<1>2. CASE \E n \in FileNames : \E f \in Changed(disk.file[n]) :
             disk' = [disk EXCEPT !.file[n] = f] /\ touched' = touched \cup {n}
  <2>0. PICK n \in FileNames : \E f \in Changed(disk.file[n]) :
             disk' = [disk EXCEPT !.file[n] = f] /\ touched' = touched \cup {n}
    BY <1>2
  <2>1. PICK f \in Changed(disk.file[n]) :
             disk' = [disk EXCEPT !.file[n] = f] /\ touched' = touched \cup {n}
    BY <2>0
  <2>2. f \in File
    BY FilesTyped, ChangedTyped DEF LoadTypeOK
  <2>3. /\ disk'.dir = disk.dir /\ disk'.file = [disk.file EXCEPT ![n] = f] /\ disk' \in Disk
    BY <2>1, <2>2 DEF LoadTypeOK, Disk
  <2> QED BY <1>1, <2>1, <2>2, <2>3
<1>3. CASE ChangesDir /\ touched' = touched \cup {Dir}
  <2>1. disk' \in Disk /\ disk'.file = disk.file /\ disk'.dir \in DirState
    BY <1>3 DEF ChangesDir, LoadTypeOK, Disk, DirState
  <2> QED BY <1>1, <1>3, <2>1
<1> QED BY <1>2, <1>3 DEF Administrate

(* Appending the rules of a file later than all that were taken.           *)
LEMMA ReadAppends ==
    ASSUME LoadTypeOK, InOrder, NEW m \in FileNames,
           \A k \in DOMAIN got : got[k].from < m,
           \/ loader = "port" /\ got' = got \o PortRules(m, disk.file[m].text)
           \/ loader = "old" /\ got' = got \o TomlRules(m, disk.file[m].text)
    PROVE  /\ got' \in Seq(Blocks) /\ InOrder'
           /\ \A k \in DOMAIN got' : got'[k].from <= m
           /\ Taken(m) = {}
           /\ \A n : Taken(n)' = IF n = m THEN Rules(loader, m, disk.file[m].text)
                                         ELSE Taken(n)
<1> DEFINE s == IF loader = "port" THEN PortRules(m, disk.file[m].text)
                                   ELSE TomlRules(m, disk.file[m].text)
<1>1. got' = got \o s /\ Rules(loader, m, disk.file[m].text) = Range(s) /\ got \in Seq(Blocks)
  BY DEF Rules, LoadTypeOK
<1>2. disk.file[m].text \in Text
  BY FilesTyped DEF LoadTypeOK
<1>3. /\ s \in Seq(Blocks) /\ Len(s) <= 1
      /\ \A k \in DOMAIN s : s[k].from = m
      /\ \A b \in Range(s) : b.from = m
  BY <1>2, RulesTyped
<1> HIDE DEF s
<1>4. /\ got' \in Seq(Blocks) /\ InOrder'
      /\ \A k \in DOMAIN got' : got'[k].from <= m
  BY <1>1, <1>3, OrderAppended
<1>5. \A n : Taken(n)' = IF n = m THEN Taken(m) \cup Range(s) ELSE Taken(n)
  BY <1>1, <1>3, TakenAppended
<1>6. Taken(m) = {}
  <2>1. \A b \in Range(got) : b.from # m
    <3>1. m \in Nat
      BY Numbers
    <3> QED BY <3>1 DEF Range
  <2> QED BY <2>1 DEF Taken
<1> QED BY <1>1, <1>4, <1>5, <1>6

(* Nothing taken, or what was taken kept.                                  *)
LEMMA TakenKept ==
    /\ got = <<>> => InOrder /\ DOMAIN got = {} /\ (\A n : Taken(n) = {})
    /\ got' = <<>> => got' \in Seq(Blocks) /\ InOrder' /\ (\A n : Taken(n)' = {})
    /\ got' = got => (InOrder' <=> InOrder) /\ (\A n : Taken(n)' = Taken(n))
<1>1. DOMAIN <<>> = {} /\ Range(<<>>) = {} /\ <<>> \in Seq(Blocks)
  BY DEF Range
<1>2. got = <<>> => InOrder /\ DOMAIN got = {} /\ (\A n : Taken(n) = {})
  BY <1>1 DEF InOrder, Taken
<1>3. got' = <<>> => got' \in Seq(Blocks) /\ InOrder' /\ (\A n : Taken(n)' = {})
  BY <1>1 DEF InOrder, Taken
<1>4. got' = got => (InOrder' <=> InOrder) /\ (\A n : Taken(n)' = Taken(n))
  BY DEF InOrder, Taken
<1> QED BY <1>2, <1>3, <1>4

(* What reading the main file adds to nothing.                             *)
LEMMA MainRead ==
    ASSUME LoadTypeOK, TakenInOrder, ReadMain \/ OldReadMain, lpc' # "failed"
    PROVE  /\ lpc = "read" /\ lpc' = AfterMain(disk.file[Main].text)
           /\ UNCHANGED <<files, left>> /\ Reads(loader, disk.file[Main])
           /\ got' \in Seq(Blocks) /\ InOrder'
           /\ \A n : Taken(n)' = IF n = Main THEN Rules(loader, Main, disk.file[Main].text)
                                            ELSE {}
<1>1. /\ lpc = "read" /\ lpc' = AfterMain(disk.file[Main].text)
      /\ UNCHANGED <<files, left>> /\ Reads(loader, disk.file[Main])
      /\ \/ loader = "port" /\ got' = got \o PortRules(Main, disk.file[Main].text)
         \/ loader = "old" /\ got' = got \o TomlRules(Main, disk.file[Main].text)
  BY DEF ReadMain, OldReadMain, At, Take, Fail, files, Reads
<1>2. got = <<>> /\ InOrder /\ DOMAIN got = {} /\ \A n : Taken(n) = {}
  BY <1>1, TakenKept DEF TakenInOrder, BeforeMain
<1>3. /\ got' \in Seq(Blocks) /\ InOrder'
      /\ \A n : Taken(n)' = IF n = Main THEN Rules(loader, Main, disk.file[Main].text)
                                       ELSE Taken(n)
  BY <1>1, <1>2, ReadAppends, Numbers
<1> QED BY <1>1, <1>2, <1>3

(* What reading a fragment, or passing over it, adds to what was taken.    *)
LEMMA FragmentRead ==
    ASSUME LoadTypeOK, TakenInOrder, ReadFragment \/ OldReadFragment, lpc' # "failed"
    PROVE  /\ lpc = "contents" /\ lpc' = "fragment" /\ left' = left \ {Upcoming}
           /\ UNCHANGED files /\ Upcoming \in left /\ (\A n \in left : Upcoming <= n)
           /\ loader = "old" => Reads(loader, disk.file[Upcoming])
           /\ got' \in Seq(Blocks) /\ InOrder' /\ Taken(Upcoming) = {}
           /\ \A k \in DOMAIN got' : got'[k].from <= Upcoming
           /\ \A n : Taken(n)' =
                 IF n # Upcoming THEN Taken(n)
                 ELSE IF Reads(loader, disk.file[n]) THEN Rules(loader, n, disk.file[n].text)
                                                     ELSE {}
<1> DEFINE u == Upcoming
<1>1. /\ lpc = "contents" /\ lpc' = "fragment" /\ left' = left \ {u} /\ UNCHANGED files
      /\ \/ /\ Reads(loader, disk.file[u])
            /\ \/ loader = "port" /\ got' = got \o PortRules(u, disk.file[u].text)
               \/ loader = "old" /\ got' = got \o TomlRules(u, disk.file[u].text)
         \/ ~Reads(loader, disk.file[u]) /\ loader = "port" /\ got' = got \o <<>>
  BY DEF ReadFragment, OldReadFragment, At, Take, Fail, NextFragment, files, Reads
<1>2. u \in left /\ (\A n \in left : u <= n) /\ u \in FileNames /\ u \in Nat
  BY <1>1, UpcomingIsFirst, Numbers DEF LoadTypeOK
<1>3. InOrder /\ got \in Seq(Blocks) /\ \A k \in DOMAIN got : got[k].from < u
  BY <1>1, <1>2 DEF TakenInOrder, InListing, LoadTypeOK
<1> HIDE DEF u
<1>4. CASE Reads(loader, disk.file[u])
  <2>1. \/ loader = "port" /\ got' = got \o PortRules(u, disk.file[u].text)
        \/ loader = "old" /\ got' = got \o TomlRules(u, disk.file[u].text)
    BY <1>1, <1>4
  <2>2. /\ got' \in Seq(Blocks) /\ InOrder'
        /\ \A k \in DOMAIN got' : got'[k].from <= u
        /\ Taken(u) = {}
        /\ \A n : Taken(n)' = IF n = u THEN Rules(loader, u, disk.file[u].text) ELSE Taken(n)
    BY <2>1, <1>2, <1>3, ReadAppends
  <2> QED BY <1>1, <1>2, <1>4, <2>2 DEF u
<1>5. CASE ~Reads(loader, disk.file[u])
  <2>1. got' = got /\ loader = "port"
    BY <1>1, <1>3, <1>5, ConcatEmptySeq
  <2>2. \A b \in Range(got) : b.from # u
    BY <1>2, <1>3 DEF Range
  <2>3. Taken(u) = {}
    BY <2>2 DEF Taken
  <2>4. \A k \in DOMAIN got' : got'[k].from <= u
    <3>1. ASSUME NEW k \in DOMAIN got PROVE got[k].from \in Nat
      <4>1. got[k] \in Blocks
        BY <1>3
      <4> QED BY <4>1, Numbers DEF Blocks
    <3> QED BY <1>2, <1>3, <2>1, <3>1
  <2> QED BY <1>1, <1>2, <1>3, <1>5, <2>1, <2>3, <2>4, TakenKept DEF u
<1> QED BY <1>4, <1>5

LEMMA LoadInvInit == LoadInit => LoadTypeOK /\ TakenInOrder
<1> SUFFICES ASSUME LoadInit PROVE LoadTypeOK /\ TakenInOrder
  OBVIOUS
<1>1. PICK main \in MainFiles, fragment \in [1..Fragments -> FragmentFiles], dir \in DirState :
         disk = [file |-> [n \in FileNames |-> IF n = Main THEN main ELSE fragment[n]],
                 dir |-> dir]
  BY DEF LoadInit
<1>2. disk \in Disk
  BY <1>1, Numbers, LoadingAssumption DEF Disk
<1>3. got = <<>> /\ <<>> \in Seq(Blocks) /\ 0 \in 0..MaxChanges
  BY LoadingAssumption DEF LoadInit
<1>4. LoadTypeOK
  BY <1>2, <1>3 DEF LoadInit, LoadTypeOK, BeforeMain, BeforeListing, InListing
<1> QED BY <1>3, <1>4, TakenKept DEF LoadInit, TakenInOrder, BeforeMain, BeforeListing, InListing

(* A call that reads nothing leaves what was taken, or fails.              *)
Calls == PortStep \/ OldLoadStep \/ Loaded
Reading == ReadMain \/ OldReadMain \/ ReadFragment \/ OldReadFragment
LEMMA CallsKeep ==
    ASSUME LoadTypeOK, Calls
    PROVE  /\ UNCHANGED files
           /\ \/ lpc' = "failed" /\ got' = <<>> /\ left' = left
              \/ lpc' # "failed" /\ Reading
              \/ lpc' # "failed" /\ ~Reading /\ got' = got
BY DEF Calls, Reading, PortStep, OldLoadStep, Loaded, StatMain, ReadMain, StatDir, ListDir,
       StatFragment, ReadFragment, OldExists, OldStatMain, OldReadMain, OldDirExists, OldIsDir,
       OldStatDir, OldListDir, OldStatFragment, OldReadFragment, Then, Fail, Take, NextFragment,
       AfterMain, At, files

(* The types and the order of what was taken.                              *)
LEMMA TakenStep ==
    ASSUME LoadTypeOK, TakenInOrder, [LoadNext]_lvars
    PROVE  LoadTypeOK' /\ TakenInOrder'
<1> USE DEF BeforeMain, BeforeListing, InListing
<1>1. ASSUME lpc' = "failed", got' = <<>>, left' = left, UNCHANGED files
      PROVE  LoadTypeOK' /\ TakenInOrder'
  BY <1>1, TakenKept DEF LoadTypeOK, TakenInOrder, files
<1>2. CASE lpc' # "failed" /\ (StatMain \/ OldExists \/ OldStatMain)
  BY <1>2, TakenKept
     DEF StatMain, OldExists, OldStatMain, At, Then, Fail, files, LoadTypeOK, TakenInOrder
<1>3. CASE lpc' # "failed" /\ (ReadMain \/ OldReadMain)
  BY <1>3, MainRead, Numbers DEF LoadTypeOK, TakenInOrder, AfterMain, files
<1>4. CASE lpc' # "failed" /\ (StatDir \/ OldDirExists \/ OldIsDir \/ OldStatDir)
  BY <1>4, TakenKept
     DEF StatDir, OldDirExists, OldIsDir, OldStatDir, At, Then, Fail, files, LoadTypeOK,
         TakenInOrder
<1>5. CASE lpc' # "failed" /\ (ListDir \/ OldListDir)
  <2>1. /\ lpc = "list" /\ lpc' = "fragment" /\ got' = got /\ UNCHANGED files
        /\ left' \subseteq 1..Fragments
    BY <1>5 DEF ListDir, OldListDir, Listing, Names, At, Fail
  <2>2. ASSUME NEW k \in DOMAIN got, NEW n \in 1..Fragments PROVE got[k].from < n
    <3>1. got[k] \in Blocks /\ got[k] \in Range(got)
      BY DEF LoadTypeOK, Range
    <3>2. got[k].from \in FileNames /\ got[k] \in Taken(got[k].from)
      BY <3>1 DEF Blocks, Taken
    <3>3. got[k].from = Main
      BY <2>1, <3>2, Numbers DEF TakenInOrder
    <3> QED BY <3>3 DEF Main
  <2> QED BY <2>1, <2>2, TakenKept DEF LoadTypeOK, TakenInOrder, files
<1>6. CASE lpc' # "failed" /\ (StatFragment \/ OldStatFragment)
  <2>1. /\ lpc = "fragment" /\ lpc' \in {"fragment", "contents"} /\ got' = got
        /\ UNCHANGED files /\ left # {} /\ left' \subseteq left
        /\ lpc' = "contents" => left' = left
    BY <1>6 DEF StatFragment, OldStatFragment, At, Then, Fail, NextFragment, files
  <2> QED BY <2>1, TakenKept DEF LoadTypeOK, TakenInOrder, files
<1>7. CASE lpc' # "failed" /\ (ReadFragment \/ OldReadFragment)
  <2>1. /\ lpc = "contents" /\ lpc' = "fragment" /\ left' = left \ {Upcoming}
        /\ UNCHANGED files /\ Upcoming \in left /\ (\A n \in left : Upcoming <= n)
        /\ got' \in Seq(Blocks) /\ InOrder'
        /\ \A k \in DOMAIN got' : got'[k].from <= Upcoming
    BY <1>7, FragmentRead
  <2>2. ASSUME NEW k \in DOMAIN got', NEW n \in left' PROVE got'[k].from < n
    <3>0. got'[k] \in Blocks
      BY <2>1
    <3>1. got'[k].from \in Nat
      BY <3>0, Numbers DEF Blocks
    <3>2. n \in left /\ n # Upcoming /\ Upcoming \in left
      BY <2>1
    <3>3. left \subseteq 1..Fragments
      BY DEF LoadTypeOK
    <3>4. n \in Nat /\ Upcoming \in Nat
      BY <3>2, <3>3, Numbers
    <3>5. Upcoming <= n
      BY <2>1, <3>2, Zenon
    <3>6. Upcoming < n
      BY <3>2, <3>4, <3>5
    <3>7. got'[k].from <= Upcoming
      BY <2>1, Zenon
    <3> QED BY <3>1, <3>4, <3>6, <3>7
  <2> QED BY <2>1, <2>2 DEF LoadTypeOK, TakenInOrder, files
<1>8. CASE Loaded
  BY <1>8, TakenKept DEF Loaded, Then, files, LoadTypeOK, TakenInOrder
<1>9. CASE Administrate
  <2>1. /\ UNCHANGED <<loader, began, lpc, left, got>> /\ disk' \in Disk
        /\ changes' \in 0..MaxChanges /\ touched' \subseteq FileNames \cup {Dir}
    BY <1>9, AdministrateChanges DEF LoadTypeOK
  <2> QED BY <2>1, TakenKept DEF LoadTypeOK, TakenInOrder
<1>10. CASE UNCHANGED lvars
  BY <1>10, TakenKept DEF lvars, LoadTypeOK, TakenInOrder
<1> QED
  BY <1>1, <1>2, <1>3, <1>4, <1>5, <1>6, <1>7, <1>8, <1>9, <1>10, CallsKeep
     DEF LoadNext, Calls, PortStep, OldLoadStep

------------------------------------------------------------------------------
(* What was seen of a file that stays is still so.                         *)
LEMMA SeenOfMainStep ==
    ASSUME LoadTypeOK, TakenInOrder, SeenOfMain, [LoadNext]_lvars
    PROVE  SeenOfMain'
<1> SUFFICES ASSUME Main \notin touched' PROVE SeenOfMain'
  BY DEF SeenOfMain
<1> USE DEF BeforeListing, InListing
<1>1. ASSUME UNCHANGED files, got' = got, lpc' = "failed" \/ lpc' \in {"stat", "read"},
             lpc' = "read" => Trusted(disk.file[Main])
      PROVE  SeenOfMain'
  BY <1>1 DEF SeenOfMain, files
<1>2. ASSUME UNCHANGED files, \A n : n = Main => Taken(n)' = Taken(n),
             lpc \in BeforeListing \cup InListing, lpc' \notin {"read", "failed"}
      PROVE  SeenOfMain'
  BY <1>2 DEF SeenOfMain, files
<1>3. CASE lpc' # "failed" /\ (StatMain \/ OldExists \/ OldStatMain)
  BY <1>1, <1>3 DEF StatMain, OldExists, OldStatMain, At, Then, Fail
<1>4. CASE lpc' # "failed" /\ (ReadMain \/ OldReadMain)
  <2>1. /\ lpc = "read" /\ lpc' = AfterMain(disk.file[Main].text) /\ UNCHANGED files
        /\ Reads(loader, disk.file[Main])
        /\ Taken(Main)' = Rules(loader, Main, disk.file[Main].text)
    BY <1>4, MainRead
  <2>2. Trusted(disk.file[Main])
    BY <2>1 DEF SeenOfMain, files
  <2>3. Sound(loader, disk.file[Main]) /\ Taken(Main)' = Part(loader, disk, Main)
    BY <2>1, <2>2 DEF Sound, Part
  <2> QED BY <2>1, <2>3 DEF SeenOfMain, AfterMain, files
<1>5. CASE lpc' # "failed" /\ ~Reading /\ Calls /\ lpc \in BeforeListing \cup InListing
  <2>1. UNCHANGED files /\ got' = got /\ lpc' # "read"
    BY <1>5, CallsKeep
       DEF Calls, PortStep, OldLoadStep, Reading, StatMain, StatDir, ListDir, StatFragment,
           OldExists, OldStatMain, OldDirExists, OldIsDir, OldStatDir, OldListDir,
           OldStatFragment, Loaded, NextFragment, At, Then, Fail
  <2> QED BY <1>2, <1>5, <2>1, TakenKept
<1>6. CASE lpc' # "failed" /\ (ReadFragment \/ OldReadFragment)
  <2>1. /\ lpc = "contents" /\ lpc' = "fragment" /\ UNCHANGED files /\ Upcoming \in left
        /\ \A n : n # Upcoming => Taken(n)' = Taken(n)
    BY <1>6, FragmentRead
  <2>2. Main # Upcoming
    BY <2>1, Numbers DEF LoadTypeOK
  <2> QED BY <1>2, <2>1, <2>2
<1>7. CASE Administrate
  <2>1. /\ UNCHANGED <<loader, lpc, left, got>> /\ Main \notin touched
        /\ disk'.file[Main] = disk.file[Main]
    BY <1>7, AdministrateChanges, Numbers DEF LoadTypeOK, Disk
  <2> QED BY <2>1, TakenKept DEF SeenOfMain, Sound, Part
<1>8. CASE UNCHANGED lvars
  BY <1>8, TakenKept DEF lvars, SeenOfMain
<1>9. CASE lpc' = "failed" /\ Calls
  BY <1>9 DEF SeenOfMain
<1>10. ASSUME Calls, ~Reading
       PROVE  lpc \in BeforeListing \cup InListing \/ StatMain \/ OldExists \/ OldStatMain
  BY <1>10 DEF Calls, PortStep, OldLoadStep, Reading, StatDir, ListDir, StatFragment,
           OldDirExists, OldIsDir, OldStatDir, OldListDir, OldStatFragment, Loaded, At
<1> QED
  BY <1>3, <1>4, <1>5, <1>6, <1>7, <1>8, <1>9, <1>10 DEF LoadNext, Calls, Reading

LEMMA SeenOfDirStep ==
    ASSUME LoadTypeOK, SeenOfDir, [LoadNext]_lvars
    PROVE  SeenOfDir'
<1> USE DEF SeenOfDir, InListing, files
<1>1. CASE StatMain \/ ReadMain \/ OldExists \/ OldStatMain \/ OldReadMain \/ Loaded
  BY <1>1 DEF StatMain, ReadMain, OldExists, OldStatMain, OldReadMain, Loaded, AfterMain,
              At, Then, Take, Fail
<1>2. CASE StatDir \/ OldDirExists \/ OldIsDir \/ OldStatDir
  BY <1>2 DEF StatDir, OldDirExists, OldIsDir, OldStatDir, At, Then, Fail
<1>3. CASE ListDir \/ OldListDir
  BY <1>3 DEF ListDir, OldListDir, At, Fail
<1>4. CASE StatFragment \/ ReadFragment \/ OldStatFragment \/ OldReadFragment
  BY <1>4 DEF StatFragment, ReadFragment, OldStatFragment, OldReadFragment, NextFragment,
              At, Then, Take, Fail
<1>5. CASE Administrate
  BY <1>5, AdministrateChanges
<1>6. CASE UNCHANGED lvars
  BY <1>6 DEF lvars
<1> QED BY <1>1, <1>2, <1>3, <1>4, <1>5, <1>6 DEF LoadNext, PortStep, OldLoadStep

LEMMA SeenOfStep ==
    ASSUME LoadTypeOK, TakenInOrder, SeenOfDir, NEW n \in 1..Fragments, SeenOf(n),
           [LoadNext]_lvars
    PROVE  SeenOf(n)'
<1> SUFFICES ASSUME n \notin touched' PROVE SeenOf(n)'
  BY DEF SeenOf
<1> USE DEF BeforeListing, InListing
<1>1. n # Main /\ n \in FileNames
  BY Numbers
<1>2. ASSUME Taken(n) = {} \/ lpc \notin BeforeListing, UNCHANGED files, got' = got,
             lpc' \notin InListing, lpc' = "done" => ~Includes(loader, disk)
      PROVE  SeenOf(n)'
  BY <1>2, TakenKept DEF SeenOf, files, Includes, Opens, Part
<1>3. CASE lpc' # "failed" /\ (StatMain \/ OldExists \/ OldStatMain)
  BY <1>2, <1>3 DEF StatMain, OldExists, OldStatMain, At, Then, Fail
<1>4. CASE lpc' # "failed" /\ (ReadMain \/ OldReadMain)
  <2>1. Taken(n)' = {} /\ UNCHANGED files /\ lpc' \notin InListing
    BY <1>1, <1>4, MainRead DEF AfterMain
  <2>2. lpc' = "done" => ~Includes(loader, disk)
    BY <1>4, MainRead DEF AfterMain, Includes
  <2> QED BY <2>1, <2>2 DEF SeenOf, files, Includes, Opens, Part
<1>5. CASE lpc' # "failed" /\ (StatDir \/ OldDirExists \/ OldIsDir \/ OldStatDir)
  <2>1. UNCHANGED files /\ got' = got /\ lpc' \notin InListing /\ lpc \in BeforeListing
    BY <1>5 DEF StatDir, OldDirExists, OldIsDir, OldStatDir, At, Then, Fail
  <2>2. lpc' = "done" => ~Includes(loader, disk)
    BY <1>5 DEF StatDir, OldDirExists, OldIsDir, OldStatDir, At, Then, Fail, Includes, Opens
  <2> QED BY <1>2, <2>1, <2>2 DEF TakenInOrder
<1>6. CASE lpc' # "failed" /\ (ListDir \/ OldListDir)
  <2>1. /\ lpc = "list" /\ lpc' = "fragment" /\ got' = got /\ UNCHANGED files
        /\ left' = (IF disk.dir \in {"safe", "unsafe"} THEN Names ELSE {})
        /\ loader = "old" => left' = Names
    BY <1>6 DEF ListDir, OldListDir, Listing, At, Fail
  <2>2. Taken(n)' = {}
    BY <2>1, TakenKept DEF TakenInOrder
  <2>3. /\ n \in left' => disk.file[n].there
        /\ Dir \notin touched /\ n \notin left' => ~disk.file[n].there
    BY <2>1 DEF Names, SeenOfDir
  <2>4. ~disk.file[n].there => ~Sound(loader, disk.file[n]) /\ Part(loader, disk, n) = {}
    BY DEF Sound, Trusted, Part
  <2> QED BY <2>1, <2>2, <2>3, <2>4 DEF SeenOf, files
<1>7. CASE lpc' # "failed" /\ (StatFragment \/ OldStatFragment)
  <2>1. /\ lpc = "fragment" /\ got' = got /\ UNCHANGED files /\ left # {}
        /\ \/ lpc' = "contents" /\ left' = left /\ Trusted(disk.file[Upcoming])
           \/ /\ lpc' = "fragment" /\ left' = left \ {Upcoming}
              /\ ~Trusted(disk.file[Upcoming]) /\ loader = "port"
    BY <1>7 DEF StatFragment, OldStatFragment, At, Then, Fail, NextFragment
  <2>2. Taken(n)' = Taken(n)
    BY <2>1, TakenKept
  <2>3. CASE lpc' = "contents"
    <3>1. Upcoming' = Upcoming
      BY <2>1, <2>3 DEF Upcoming
    <3> QED BY <2>1, <2>2, <2>3, <3>1 DEF SeenOf, files
  <2>4. CASE lpc' = "fragment"
    <3>1. /\ Upcoming \in left /\ Upcoming \in Nat
      BY <2>1, UpcomingIsFirst, Numbers DEF LoadTypeOK
    <3>2. \A k \in DOMAIN got : got[k].from # Upcoming
      BY <2>1, <3>1 DEF TakenInOrder
    <3>3. Taken(Upcoming) = {}
      BY <3>2 DEF Taken, Range
    <3>4. Part(loader, disk, Upcoming) = {}
      BY <2>1, <2>4 DEF Part, Sound
    <3> QED BY <2>1, <2>2, <2>4, <3>3, <3>4 DEF SeenOf, files
  <2> QED BY <2>1, <2>3, <2>4
<1>8. CASE lpc' # "failed" /\ (ReadFragment \/ OldReadFragment)
  <2>1. /\ lpc = "contents" /\ lpc' = "fragment" /\ left' = left \ {Upcoming}
        /\ UNCHANGED files
        /\ loader = "old" => Reads(loader, disk.file[Upcoming])
    BY <1>8, FragmentRead
  <2>2. Taken(n)' = IF n # Upcoming THEN Taken(n)
                    ELSE IF Reads(loader, disk.file[n]) THEN Rules(loader, n, disk.file[n].text)
                                                        ELSE {}
    BY <1>8, FragmentRead
  <2>3. CASE n = Upcoming
    <3>1. Trusted(disk.file[n])
      BY <2>1, <2>3 DEF SeenOf, files
    <3>2. Taken(n)' = Part(loader, disk, n)
      BY <2>2, <2>3, <3>1 DEF Part, Sound
    <3>3. loader = "old" => Sound("old", disk.file[n])
      BY <2>1, <2>3, <3>1 DEF Sound
    <3> QED BY <2>1, <2>3, <3>2, <3>3 DEF SeenOf, files
  <2>4. CASE n # Upcoming
    BY <2>1, <2>2, <2>4 DEF SeenOf, files
  <2> QED BY <2>3, <2>4
<1>9. CASE Loaded
  <2>1. lpc = "fragment" /\ left = {} /\ lpc' = "done" /\ UNCHANGED files /\ got' = got
    BY <1>9 DEF Loaded, Then
  <2> QED BY <2>1, TakenKept DEF SeenOf, files
<1>10. CASE lpc' = "failed" /\ Calls
  <2>1. Taken(n)' = {} /\ UNCHANGED files
    BY <1>10, CallsKeep, TakenKept
  <2> QED BY <1>10, <2>1 DEF SeenOf, files
<1>11. CASE Administrate
  <2>1. /\ UNCHANGED <<loader, lpc, left, got>>
        /\ touched \subseteq touched' /\ disk'.file[n] = disk.file[n]
        /\ Dir \notin touched' => disk'.dir = disk.dir
        /\ Main \notin touched' => disk'.file[Main] = disk.file[Main]
    BY <1>1, <1>11, AdministrateChanges, Numbers DEF LoadTypeOK, Disk
  <2>2. Part(loader, disk, n)' = Part(loader, disk, n)
    BY <2>1 DEF Part
  <2>3. touched' \cap {Main, Dir} = {} /\ Includes(loader, disk)'
           => touched \cap {Main, Dir} = {} /\ Includes(loader, disk)
    BY <2>1 DEF Includes, Opens
  <2>4. Upcoming' = Upcoming
    BY <2>1 DEF Upcoming
  <2> QED BY <2>1, <2>2, <2>3, <2>4, TakenKept DEF SeenOf
<1>12. CASE UNCHANGED lvars
  BY <1>12, TakenKept DEF lvars, SeenOf, Upcoming, Part, Includes, Opens
<1> QED
  BY <1>3, <1>4, <1>5, <1>6, <1>7, <1>8, <1>9, <1>10, <1>11, <1>12
     DEF LoadNext, Calls, PortStep, OldLoadStep

------------------------------------------------------------------------------
(* The forecast is decided by what is accepted and, if it is, by what will *)
(* have been taken of each file.                                           *)
LEMMA ForecastEqual ==
    ASSUME WillAccept(disk)' <=> WillAccept(disk),
           WillAccept(disk) => \A n \in FileNames : WillHave(disk, n)' = WillHave(disk, n)
    PROVE  Forecast(disk)' = Forecast(disk)
BY DEF Forecast

LEMMA BothFail ==
    ASSUME ~WillAccept(disk), ~WillAccept(disk)'
    PROVE  Forecast(disk)' = Forecast(disk)
BY ForecastEqual

(* No call of either program changes the forecast.                         *)
LEMMA ForecastKept ==
    ASSUME LoadTypeOK, TakenInOrder, Calls
    PROVE  /\ WillAccept(disk)' <=> WillAccept(disk)
           /\ Forecast(disk)' = Forecast(disk)
<1> USE DEF BeforeMain, BeforeListing, InListing
<1>1. CASE lpc' = "failed"
  <2>1. ~WillAccept(disk)'
    BY <1>1 DEF WillAccept
  <2>2. CASE StatMain \/ ReadMain \/ OldExists \/ OldStatMain \/ OldReadMain
    <3>1. lpc \in BeforeMain /\ ~WillTake(disk, Main)
      BY <1>1, <2>2
         DEF StatMain, ReadMain, OldExists, OldStatMain, OldReadMain, Then, Take, AfterMain,
             At, WillTake, Judged, Trusted, PortReads, OldReads, Reads
    <3> QED BY <2>1, <3>1, BothFail DEF WillAccept
  <2>3. CASE OldIsDir \/ OldStatDir \/ OldListDir
    <3>1. ~WillAccept(disk)
      BY <1>1, <2>3 DEF OldIsDir, OldStatDir, OldListDir, Then, At, WillAccept
    <3> QED BY <2>1, <3>1, BothFail
  <2>4. CASE OldStatFragment \/ OldReadFragment
    <3>1. /\ loader = "old" /\ lpc \in InListing /\ left # {}
          /\ \/ lpc = "fragment" /\ ~Trusted(disk.file[Upcoming])
             \/ ~Reads("old", disk.file[Upcoming])
      BY <1>1, <2>4 DEF OldStatFragment, OldReadFragment, Then, Take, At, Reads, LoadTypeOK
    <3>2. Upcoming \in left /\ Upcoming \in 1..Fragments /\ Upcoming # Main
      BY <3>1, UpcomingIsFirst, Numbers DEF LoadTypeOK
    <3>3. ~WillTake(disk, Upcoming) /\ Ahead(disk, Upcoming)
      BY <3>1, <3>2 DEF WillTake, Judged, Ahead
    <3> QED BY <2>1, <3>1, <3>2, <3>3, BothFail DEF WillAccept
  <2> QED
    BY <1>1, <2>2, <2>3, <2>4
       DEF Calls, PortStep, OldLoadStep, StatDir, ListDir, StatFragment, ReadFragment,
           OldDirExists, Loaded, Then, NextFragment, At
<1>2. ASSUME UNCHANGED files, lpc # "failed", lpc' # "failed",
             \A n \in FileNames : Ahead(disk, n)' <=> Ahead(disk, n),
             \A n \in FileNames : Judged(n)' => Judged(n) \/ Trusted(disk.file[n]),
             \A n \in FileNames : Judged(n) => Judged(n)' \/ Trusted(disk.file[n]),
             got' = got
      PROVE  \A n \in FileNames : /\ WillTake(disk, n)' <=> WillTake(disk, n)
                                  /\ WillHave(disk, n)' = WillHave(disk, n)
  BY <1>2, TakenKept DEF WillTake, WillHave, files
<1>3. CASE lpc' # "failed" /\ (StatMain \/ OldExists \/ OldStatMain)
  <2>1. /\ lpc \in BeforeMain /\ lpc' \in BeforeMain /\ UNCHANGED <<files, left, got>>
        /\ lpc # "read" /\ (lpc' = "read" => Trusted(disk.file[Main]))
    BY <1>3 DEF StatMain, OldExists, OldStatMain, At, Then, Fail
  <2>2. \A n \in FileNames : WillTake(disk, n)' <=> WillTake(disk, n)
    BY <1>2, <2>1 DEF Ahead, Judged, files, Includes, Opens
  <2>3. \A n \in FileNames : WillHave(disk, n)' = WillHave(disk, n)
    BY <1>2, <2>1 DEF Ahead, Judged, files, Includes, Opens
  <2>4. WillAccept(disk)' <=> WillAccept(disk)
    BY <2>1, <2>2, Numbers DEF WillAccept, Ahead, files, Includes, Opens
  <2> QED BY <2>3, <2>4, ForecastEqual
<1>4. CASE lpc' # "failed" /\ (ReadMain \/ OldReadMain)
  <2>1. /\ lpc = "read" /\ lpc' = AfterMain(disk.file[Main].text)
        /\ UNCHANGED <<files, left>> /\ Reads(loader, disk.file[Main])
        /\ \A n : Taken(n)' = IF n = Main THEN Rules(loader, Main, disk.file[Main].text)
                                         ELSE {}
    BY <1>4, MainRead
  <2>2. \A n : Taken(n) = {}
    BY <2>1, TakenKept DEF TakenInOrder
  <2>3. WillTake(disk, Main) /\ ~Ahead(disk, Main)'
    BY <2>1, Numbers DEF WillTake, Ahead, Judged, AfterMain, LoadTypeOK
  <2>4. ASSUME NEW n \in FileNames, n # Main
        PROVE  /\ Ahead(disk, n)' <=> Ahead(disk, n)
               /\ WillTake(disk, n)' <=> WillTake(disk, n)
    BY <2>1, <2>4 DEF WillTake, Ahead, Judged, AfterMain, Includes, Opens, files
  <2>5. \A n \in FileNames : WillHave(disk, n)' = WillHave(disk, n)
    BY <2>1, <2>2, <2>3, <2>4 DEF WillHave, WillTake, files
  <2>6. WillAccept(disk)' <=> WillAccept(disk)
    BY <2>1, <2>3, <2>4, Numbers DEF WillAccept, AfterMain, files, Includes, Opens
  <2> QED BY <2>5, <2>6, ForecastEqual
<1>5. CASE lpc' # "failed" /\ (StatDir \/ OldDirExists \/ OldIsDir \/ OldStatDir)
  <2>1. /\ lpc \in BeforeListing /\ lpc' \in BeforeListing \cup {"done"} /\ UNCHANGED <<files, left, got>>
    BY <1>5 DEF StatDir, OldDirExists, OldIsDir, OldStatDir, At, Then, Fail
  <2>2. CASE WillAccept(disk) \/ WillAccept(disk)'
    <3>1. \A n \in FileNames : Ahead(disk, n)' <=> Ahead(disk, n)
      BY <1>5, <2>2, Numbers
         DEF StatDir, OldDirExists, OldIsDir, OldStatDir, At, Then, Fail, Ahead, Opens,
             WillAccept, files, LoadTypeOK
    <3>2. \A n \in FileNames : /\ WillTake(disk, n)' <=> WillTake(disk, n)
                               /\ WillHave(disk, n)' = WillHave(disk, n)
      BY <1>2, <2>1, <3>1 DEF Judged
    <3>3. WillAccept(disk)' <=> WillAccept(disk)
      BY <1>5, <2>1, <2>2, <3>1, <3>2, Numbers
         DEF StatDir, OldDirExists, OldIsDir, OldStatDir, At, Then, Fail, Opens, WillAccept, files
    <3> QED BY <3>2, <3>3, ForecastEqual
  <2> QED BY <2>2, BothFail
<1>6. CASE lpc' # "failed" /\ (ListDir \/ OldListDir)
  <2>1. /\ lpc = "list" /\ lpc' = "fragment" /\ got' = got /\ UNCHANGED files
        /\ left' = (IF disk.dir \in {"safe", "unsafe"} THEN Names ELSE {})
        /\ loader = "old" => disk.dir \in {"safe", "unsafe"}
    BY <1>6 DEF ListDir, OldListDir, Listing, At, Fail
  <2>2. ASSUME NEW n \in FileNames
        PROVE  /\ Ahead(disk, n)' <=> Ahead(disk, n) /\ disk.file[n].there
               /\ WillTake(disk, n)' <=> WillTake(disk, n)
    <3>1. Ahead(disk, n)' <=> Ahead(disk, n) /\ disk.file[n].there
      BY <2>1, Numbers DEF Ahead, Names, files
    <3>2. WillTake(disk, n) => disk.file[n].there
      BY DEF WillTake, Reads, PortReads, OldReads
    <3>3. ~Judged(n) /\ ~Judged(n)'
      BY <2>1 DEF Judged
    <3> QED BY <2>1, <3>1, <3>2, <3>3 DEF WillTake, files
  <2>3. \A n \in FileNames : WillHave(disk, n)' = WillHave(disk, n)
    BY <2>1, <2>2, TakenKept DEF WillHave, files
  <2>4. WillAccept(disk)' <=> WillAccept(disk)
    BY <2>1, <2>2, Numbers DEF WillAccept, files
  <2> QED BY <2>3, <2>4, ForecastEqual
<1>7. CASE lpc' # "failed" /\ (StatFragment \/ OldStatFragment)
  <2>1. /\ lpc = "fragment" /\ got' = got /\ UNCHANGED files /\ left # {}
        /\ \/ lpc' = "contents" /\ left' = left /\ Trusted(disk.file[Upcoming])
           \/ /\ lpc' = "fragment" /\ left' = left \ {Upcoming}
              /\ ~Trusted(disk.file[Upcoming]) /\ loader = "port"
    BY <1>7 DEF StatFragment, OldStatFragment, At, Then, Fail, NextFragment
  <2>2. Upcoming \in left /\ left \subseteq 1..Fragments /\ Main \notin left
    BY <2>1, UpcomingIsFirst, Numbers DEF LoadTypeOK
  <2>3. CASE lpc' = "contents"
    <3>1. Upcoming' = Upcoming
      BY <2>1, <2>3 DEF Upcoming
    <3>2. \A n \in FileNames : Ahead(disk, n)' <=> Ahead(disk, n)
      BY <2>1, <2>3 DEF Ahead
    <3>3. \A n \in FileNames : ~Judged(n) /\ (Judged(n)' => Trusted(disk.file[n]))
      BY <2>1, <2>3, <3>1 DEF Judged
    <3>4. \A n \in FileNames : /\ WillTake(disk, n)' <=> WillTake(disk, n)
                               /\ WillHave(disk, n)' = WillHave(disk, n)
      BY <1>2, <2>1, <2>3, <3>2, <3>3
    <3>5. WillAccept(disk)' <=> WillAccept(disk)
      BY <2>1, <2>3, <3>2, <3>4, Numbers DEF WillAccept, files
    <3> QED BY <3>4, <3>5, ForecastEqual
  <2>4. CASE lpc' = "fragment"
    <3>1. \A n \in FileNames : WillTake(disk, n)' <=> WillTake(disk, n)
      BY <2>1, <2>2, <2>4 DEF WillTake, Ahead, Judged, files
    <3>2. \A n \in FileNames : WillHave(disk, n)' = WillHave(disk, n)
      BY <2>1, <3>1, TakenKept DEF WillHave, files
    <3>3. WillAccept(disk)' <=> WillAccept(disk)
      BY <2>1, <2>4 DEF WillAccept, files
    <3> QED BY <3>2, <3>3, ForecastEqual
  <2> QED BY <2>1, <2>3, <2>4
<1>8. CASE lpc' # "failed" /\ (ReadFragment \/ OldReadFragment)
  <2>1. /\ lpc = "contents" /\ lpc' = "fragment" /\ left' = left \ {Upcoming}
        /\ UNCHANGED files /\ Upcoming \in left /\ Taken(Upcoming) = {}
        /\ loader = "old" => Reads(loader, disk.file[Upcoming])
        /\ \A n : Taken(n)' =
              IF n # Upcoming THEN Taken(n)
              ELSE IF Reads(loader, disk.file[n]) THEN Rules(loader, n, disk.file[n].text)
                                                  ELSE {}
    BY <1>8, FragmentRead
  <2>2. left \subseteq 1..Fragments /\ Main \notin left /\ Upcoming \in FileNames
    BY <2>1, Numbers DEF LoadTypeOK
  <2>3. WillTake(disk, Upcoming) <=> Reads(loader, disk.file[Upcoming])
    BY <2>1 DEF WillTake, Ahead, Judged
  <2>4. ASSUME NEW n \in FileNames
        PROVE  /\ WillTake(disk, n)' <=> n # Upcoming /\ WillTake(disk, n)
               /\ Ahead(disk, n)' <=> n # Upcoming /\ Ahead(disk, n)
    BY <2>1, <2>2 DEF WillTake, Ahead, Judged, files
  <2>5. \A n \in FileNames : WillHave(disk, n)' = WillHave(disk, n)
    BY <2>1, <2>3, <2>4 DEF WillHave, files
  <2>6. WillAccept(disk)' <=> WillAccept(disk)
    BY <2>1, <2>2, <2>3, <2>4, Numbers DEF WillAccept, files
  <2> QED BY <2>5, <2>6, ForecastEqual
<1>9. CASE Loaded
  <2>1. lpc = "fragment" /\ left = {} /\ lpc' = "done" /\ UNCHANGED <<files, left, got>>
    BY <1>9 DEF Loaded, Then
  <2>2. \A n \in FileNames : ~Ahead(disk, n) /\ ~Ahead(disk, n)'
    BY <2>1 DEF Ahead
  <2>3. \A n \in FileNames : WillHave(disk, n)' = WillHave(disk, n)
    BY <2>1, <2>2, TakenKept DEF WillHave, WillTake, files
  <2>4. WillAccept(disk)' <=> WillAccept(disk)
    BY <2>1, <2>2, Numbers DEF WillAccept, files
  <2> QED BY <2>3, <2>4, ForecastEqual
<1> QED
  BY <1>1, <1>3, <1>4, <1>5, <1>6, <1>7, <1>8, <1>9 DEF Calls, PortStep, OldLoadStep

(* The forecast for files d agrees with a load of d at once, when what was *)
(* judged, taken and seen is as in d: before the main file is read, ...    *)
LEMMA ForecastIs ==
    ASSUME NEW d, WillAccept(d) <=> Accepts(loader, d),
           Accepts(loader, d) => \A n \in FileNames :
              WillHave(d, n) = IF n = Main \/ Includes(loader, d) THEN Part(loader, d, n) ELSE {}
    PROVE  Forecast(d) = Loads(loader, d)
BY DEF Forecast, Loads

LEMMA EarlyForecast ==
    ASSUME LoadTypeOK, TakenInOrder, NEW d, lpc \in BeforeMain,
           lpc = "read" => Trusted(d.file[Main]) \/ ~Reads(loader, d.file[Main])
    PROVE  Forecast(d) = Loads(loader, d)
<1> USE DEF BeforeMain, BeforeListing, InListing
<1>1. \A n \in FileNames :
         WillTake(d, n) <=> /\ n = Main \/ Includes(loader, d)
                            /\ Sound(loader, d.file[n])
  BY Numbers DEF WillTake, Ahead, Judged, Sound
<1>2. \A n \in FileNames : Ahead(d, n) <=> n = Main \/ Includes(loader, d)
  BY DEF Ahead
<1>3. WillAccept(d) <=> Accepts(loader, d)
  BY <1>1, <1>2, Numbers DEF WillAccept, Accepts, LoadTypeOK
<1>4. \A n : Taken(n) = {}
  BY TakenKept DEF TakenInOrder
<1>5. \A n \in FileNames :
         WillHave(d, n) = IF n = Main \/ Includes(loader, d) THEN Part(loader, d, n) ELSE {}
  BY <1>1, <1>4 DEF WillHave, Part
<1> QED BY <1>3, <1>5, ForecastIs

(* ... before the directory is listed, ...                                 *)
LEMMA MidForecast ==
    ASSUME LoadTypeOK, TakenInOrder, NEW d, lpc \in BeforeListing,
           Sound(loader, d.file[Main]), loader \in d.file[Main].text.include,
           Taken(Main) = Part(loader, d, Main),
           lpc = "list" => d.dir # "unsafe"
    PROVE  Forecast(d) = Loads(loader, d) \/ (loader = "old" /\ ~WillAccept(d))
<1> SUFFICES ASSUME loader = "old" => WillAccept(d)
             PROVE  Forecast(d) = Loads(loader, d)
  BY DEF LoadTypeOK
<1> USE DEF BeforeMain, BeforeListing, InListing
<1>1. ASSUME NEW n \in FileNames, n # Main
      PROVE  Ahead(d, n) <=> Includes(loader, d)
  BY <1>1 DEF Ahead, Includes, Opens, WillAccept, LoadTypeOK
<1>2. ~Ahead(d, Main)
  BY Numbers DEF Ahead
<1>3. \A n \in FileNames : ~Judged(n)
  BY DEF Judged
<1>4. ASSUME NEW n \in FileNames
      PROVE  WillTake(d, n) <=> n # Main /\ Includes(loader, d) /\ Sound(loader, d.file[n])
  BY <1>1, <1>2, <1>3 DEF WillTake, Sound
<1>5. WillAccept(d) <=> Accepts(loader, d)
  BY <1>1, <1>4, Numbers DEF WillAccept, Accepts, Includes, Opens, LoadTypeOK
<1>6. \A n \in FileNames :
         WillHave(d, n) = IF n = Main \/ Includes(loader, d) THEN Part(loader, d, n) ELSE {}
  BY <1>4, Numbers DEF WillHave, Part, TakenInOrder
<1> QED BY <1>5, <1>6, ForecastIs

(* ... and while the fragments are read.                                   *)
LEMMA LateForecast ==
    ASSUME LoadTypeOK, TakenInOrder, NEW d, lpc \in InListing,
           Sound(loader, d.file[Main]), loader \in d.file[Main].text.include, d.dir = "safe",
           Taken(Main) = Part(loader, d, Main),
           \A n \in (1..Fragments) \ left :
              /\ Taken(n) = Part(loader, d, n)
              /\ loader = "old" /\ d.file[n].there => Sound(loader, d.file[n]),
           lpc = "contents" =>
              Trusted(d.file[Upcoming]) \/ ~Reads(loader, d.file[Upcoming])
    PROVE  Forecast(d) = Loads(loader, d) \/ (loader = "old" /\ ~WillAccept(d))
<1> SUFFICES ASSUME loader = "old" => WillAccept(d)
             PROVE  Forecast(d) = Loads(loader, d)
  BY DEF LoadTypeOK
<1> USE DEF BeforeMain, BeforeListing, InListing
<1>1. Includes(loader, d)
  BY DEF Includes, Opens
<1>2. left \subseteq 1..Fragments /\ Main \notin left
  BY Numbers DEF LoadTypeOK
<1>3. ASSUME NEW n \in FileNames
      PROVE  /\ Ahead(d, n) <=> n \in left
             /\ WillTake(d, n) <=> n \in left /\ Sound(loader, d.file[n])
  BY <1>2 DEF WillTake, Ahead, Judged, Sound
<1>4. WillAccept(d) <=> Accepts(loader, d)
  BY <1>1, <1>2, <1>3, Numbers DEF WillAccept, Accepts, LoadTypeOK
<1>5. ASSUME NEW n \in left PROVE Taken(n) = {}
  <2>1. \A k \in DOMAIN got : got[k].from # n
    <3>1. n \in Nat
      BY <1>2, Numbers
    <3> QED BY <3>1 DEF TakenInOrder
  <2> QED BY <2>1 DEF Taken, Range
<1>6. \A n \in FileNames :
         WillHave(d, n) = IF n = Main \/ Includes(loader, d) THEN Part(loader, d, n) ELSE {}
  BY <1>1, <1>2, <1>3, <1>5, Numbers DEF WillHave, Part
<1> QED BY <1>4, <1>6, ForecastIs

(* Files that differ only where the load has passed, or in what it has     *)
(* judged already, give the same forecast.                                 *)
LEMMA SameForecast ==
    ASSUME NEW d, NEW e, lpc # "failed",
           \/ d.dir = e.dir
           \/ lpc = "list" /\ {d.dir, e.dir} \subseteq {"safe", "unsafe"}
           \/ lpc \in InListing,
           \A n \in FileNames : Ahead(e, n) =>
              /\ d.file[n].text = e.file[n].text /\ d.file[n].there = e.file[n].there
              /\ d.file[n].regular = e.file[n].regular
              /\ Judged(n) \/ d.file[n].safe = e.file[n].safe
    PROVE  Forecast(d) = Forecast(e) /\ (WillAccept(d) <=> WillAccept(e))
<1> USE DEF BeforeMain, InListing
<1>1. lpc \in BeforeMain => Ahead(e, Main)
  BY DEF Ahead
<1>2. ASSUME NEW n \in FileNames PROVE Ahead(d, n) <=> Ahead(e, n)
  BY <1>1, Numbers DEF Ahead, Includes, Opens
<1>3. ASSUME NEW n \in FileNames PROVE WillTake(d, n) <=> WillTake(e, n)
  BY <1>2 DEF WillTake, Trusted, Reads, PortReads, OldReads
<1>4. ASSUME NEW n \in FileNames PROVE WillHave(d, n) = WillHave(e, n)
  BY <1>3 DEF WillHave, WillTake
<1>5. lpc \in BeforeMain => (Includes("old", d) <=> Includes("old", e))
  BY <1>1, Numbers DEF Includes, Opens
<1>6. WillAccept(d) <=> WillAccept(e)
  BY <1>2, <1>3, <1>5, Numbers DEF WillAccept, Opens
<1> QED BY <1>4, <1>6 DEF Forecast

(* A file that is gone is accepted neither now nor when it is read.        *)
LEMMA GoneMain ==
    ASSUME NEW d, lpc = "read", ~d.file[Main].there
    PROVE  Forecast(d) = Loads(loader, d)
BY DEF Forecast, Loads, WillAccept, WillTake, Accepts, Sound, Trusted, Reads, PortReads, OldReads,
       BeforeMain

(* The first change during a load leaves the forecast as it was, or makes  *)
(* it that of the files as they are now, as long as a file that is already *)
(* judged is trusted still.                                                *)
LEMMA FairChange ==
    ASSUME LoadTypeOK, TakenInOrder, SeenOfMain, SeenOfDir, \A n \in 1..Fragments : SeenOf(n),
           touched = {}, ~Finished, NEW d,
           \/ /\ d.file = disk.file /\ d.dir \in DirState
           \/ \E m \in FileNames, g \in File :
                 /\ d.dir = disk.dir /\ d.file = [disk.file EXCEPT ![m] = g]
                 /\ Judged(m) => Trusted(g) \/ ~g.there
    PROVE  \/ Forecast(d) \in {Forecast(disk), Loads(loader, d)}
           \/ loader = "old" /\ ~WillAccept(d)
<1> USE DEF BeforeMain, BeforeListing, InListing
<1>1. lpc \in BeforeMain \cup BeforeListing \cup InListing
  BY DEF LoadTypeOK, Finished
<1>2. /\ lpc = "read" => Trusted(disk.file[Main])
      /\ lpc \in BeforeListing \cup InListing =>
            /\ Sound(loader, disk.file[Main]) /\ loader \in disk.file[Main].text.include
            /\ Taken(Main) = Part(loader, disk, Main)
  BY DEF SeenOfMain
<1>3. lpc \in InListing \cup {"list"} => disk.dir = "safe"
  BY DEF SeenOfDir
<1>4. ASSUME NEW n \in 1..Fragments
      PROVE  /\ lpc = "contents" /\ n = Upcoming => Trusted(disk.file[n])
             /\ lpc \in InListing /\ n \notin left =>
                   /\ Taken(n) = Part(loader, disk, n)
                   /\ loader = "old" /\ disk.file[n].there => Sound(loader, disk.file[n])
  BY DEF SeenOf
<1>5. lpc = "contents" => Upcoming \in left /\ Upcoming \in 1..Fragments /\ Upcoming \in FileNames
  BY UpcomingIsFirst, Numbers DEF LoadTypeOK
<1>6. CASE d.file = disk.file /\ d.dir \in DirState
  <2>1. CASE lpc \in BeforeMain
    BY <1>2, <1>6, <2>1, EarlyForecast
  <2>2. CASE lpc \in BeforeListing /\ (lpc = "list" => d.dir # "unsafe")
    <3>1. Part(loader, d, Main) = Part(loader, disk, Main)
      BY <1>6 DEF Part
    <3> QED BY <1>2, <1>6, <2>2, <3>1, MidForecast
  <2>3. CASE (lpc = "list" /\ d.dir = "unsafe") \/ lpc \in InListing
    BY <1>3, <1>6, <2>3, SameForecast
  <2> QED BY <1>1, <2>1, <2>2, <2>3
<1>7. ASSUME NEW m \in FileNames, NEW g \in File, d.dir = disk.dir,
             d.file = [disk.file EXCEPT ![m] = g],
             Judged(m) => Trusted(g) \/ ~g.there
      PROVE  \/ Forecast(d) \in {Forecast(disk), Loads(loader, d)}
             \/ loader = "old" /\ ~WillAccept(d)
  <2>1. d.file[m] = g /\ \A n \in FileNames : n # m => d.file[n] = disk.file[n]
    BY <1>7 DEF LoadTypeOK, Disk
  <2>2. CASE ~Ahead(disk, m)
    BY <1>1, <1>7, <2>1, <2>2, SameForecast
  <2>3. CASE lpc \in BeforeMain
    <3>1. CASE lpc = "read" /\ ~Trusted(d.file[Main])
      <4>1. m = Main
        BY <1>2, <2>1, <3>1, Numbers
      <4>2. ~d.file[Main].there
        BY <2>1, <1>7, <3>1, <4>1 DEF Judged
      <4> QED BY <3>1, <4>2, GoneMain
    <3>2. CASE lpc = "read" => Trusted(d.file[Main])
      BY <2>3, <3>2, EarlyForecast
    <3> QED BY <3>1, <3>2
  <2>4. CASE lpc \notin BeforeMain /\ m # Main
    <3>1. /\ d.file[Main] = disk.file[Main] /\ Part(loader, d, Main) = Part(loader, disk, Main)
          /\ Sound(loader, d.file[Main]) /\ loader \in d.file[Main].text.include
          /\ Taken(Main) = Part(loader, d, Main)
      BY <1>1, <1>2, <2>1, <2>4, Numbers DEF Part
    <3>2. CASE lpc \in BeforeListing
      <4>1. lpc = "list" => d.dir # "unsafe"
        BY <1>3, <1>7
      <4> QED BY <3>1, <3>2, <4>1, MidForecast
    <3>3. CASE lpc \in InListing /\ m \in left
      <4>1. d.dir = "safe"
        BY <1>3, <1>7, <3>3
      <4>2. ASSUME NEW n \in (1..Fragments) \ left
            PROVE  /\ Taken(n) = Part(loader, d, n)
                   /\ loader = "old" /\ d.file[n].there => Sound(loader, d.file[n])
        <5>1. n # m /\ d.file[n] = disk.file[n]
          BY <2>1, <3>3, Numbers
        <5> QED BY <1>4, <3>3, <5>1 DEF Part
      <4>3. lpc = "contents" => Trusted(d.file[Upcoming]) \/ ~Reads(loader, d.file[Upcoming])
        BY <1>4, <1>5, <2>1, <1>7 DEF Judged, Reads, PortReads, OldReads
      <4> QED BY <3>1, <3>3, <4>1, <4>2, <4>3, LateForecast
    <3>4. CASE lpc \in InListing /\ m \notin left
      BY <2>2, <3>4 DEF Ahead
    <3> QED BY <1>1, <2>4, <3>2, <3>3, <3>4
  <2>5. CASE lpc \notin BeforeMain /\ m = Main
    BY <1>1, <2>2, <2>5, Numbers DEF Ahead, LoadTypeOK
  <2> QED BY <2>3, <2>4, <2>5
<1> QED BY <1>6, <1>7

(* Whatever is judged and was not touched is trusted.                      *)
LEMMA JudgedIsTrusted ==
    ASSUME LoadTypeOK, SeenOfMain, \A n \in 1..Fragments : SeenOf(n), touched = {},
           NEW m \in FileNames, Judged(m)
    PROVE  Trusted(disk.file[m])
<1>1. CASE m = Main /\ lpc = "read"
  BY <1>1 DEF SeenOfMain
<1>2. CASE m = Upcoming /\ lpc = "contents"
  <2>1. m \in 1..Fragments
    BY <1>2, UpcomingIsFirst DEF LoadTypeOK
  <2> QED BY <1>2, <2>1 DEF SeenOf
<1> QED BY <1>1, <1>2 DEF Judged

(* Files taken for trusted differ from what they are in nothing else.      *)
LEMMA TrustingIs ==
    ASSUME NEW d, NEW e
    PROVE  /\ Trusting(d, e).dir = e.dir
           /\ \A n \in FileNames : Trusting(d, e).file[n] =
                 [e.file[n] EXCEPT !.safe = e.file[n].safe \/ d.file[n].safe]
BY DEF Trusting

LEMMA NothingBelieved == ASSUME NEW d \in Disk PROVE Trusting(d, d) = d
<1>1. ASSUME NEW n \in FileNames
      PROVE  [d.file[n] EXCEPT !.safe = d.file[n].safe \/ d.file[n].safe] = d.file[n]
  <2>1. d.file[n] \in File
    BY DEF Disk
  <2>2. (d.file[n].safe \/ d.file[n].safe) = d.file[n].safe
    BY <2>1 DEF File
  <2>3. [d.file[n] EXCEPT !.safe = d.file[n].safe] = d.file[n]
    BY <2>1 DEF File
  <2> QED BY <2>2, <2>3
<1>2. d.file = [n \in FileNames |-> d.file[n]]
  BY DEF Disk
<1>3. [n \in FileNames |-> [d.file[n] EXCEPT !.safe = d.file[n].safe \/ d.file[n].safe]] = d.file
  BY <1>1, <1>2
<1>4. Trusting(d, d) = [d EXCEPT !.file = d.file]
  BY <1>3 DEF Trusting
<1> QED BY <1>4 DEF Disk

(* Every first change: the forecast stays, or becomes that of the files    *)
(* now, or that of these files believed.                                   *)
LEMMA FirstChange ==
    ASSUME LoadTypeOK, TakenInOrder, SeenOfMain, SeenOfDir, \A n \in 1..Fragments : SeenOf(n),
           touched = {}, ~Finished, NEW d \in Disk,
           \/ /\ d.file = disk.file /\ d.dir \in DirState
           \/ \E m \in FileNames, g \in File :
                 /\ d.dir = disk.dir /\ g \in Changed(disk.file[m])
                 /\ d.file = [disk.file EXCEPT ![m] = g]
    PROVE  \/ Forecast(d) \in {Forecast(disk), Loads(loader, d), Loads(loader, Trusting(disk, d))}
           \/ loader = "old" /\ ~WillAccept(d)
<1>1. CASE d.file = disk.file /\ d.dir \in DirState
  BY <1>1, FairChange
<1>2. ASSUME NEW m \in FileNames, NEW g \in File, d.dir = disk.dir,
             g \in Changed(disk.file[m]), d.file = [disk.file EXCEPT ![m] = g]
      PROVE  \/ Forecast(d) \in {Forecast(disk), Loads(loader, d),
                                 Loads(loader, Trusting(disk, d))}
             \/ loader = "old" /\ ~WillAccept(d)
  <2>1. CASE Judged(m) => Trusted(g) \/ ~g.there
    BY <1>2, <2>1, FairChange
  <2>2. CASE Judged(m) /\ g.there /\ ~Trusted(g)
    <3>1. disk.file[m] \in File /\ Trusted(disk.file[m])
      BY <2>2, FilesTyped, JudgedIsTrusted DEF LoadTypeOK
    <3> DEFINE h == [g EXCEPT !.safe = TRUE]
    <3>2. h \in File /\ Trusted(h) /\ h.text = g.text /\ h.there = g.there
          /\ h.regular = g.regular
      BY <2>2 DEF File, Trusted
    <3>3. PICK e : e = Trusting(disk, d)
      OBVIOUS
    <3>4. e.dir = disk.dir /\ e.file[m] = h
      <4>1. (g.safe \/ disk.file[m].safe) = TRUE
        BY <3>1 DEF Trusted
      <4>2. d.file[m] = g
        BY <1>2 DEF LoadTypeOK, Disk
      <4>3. e.file[m] = [g EXCEPT !.safe = g.safe \/ disk.file[m].safe]
        BY <3>3, <4>2, TrustingIs
      <4> QED BY <1>2, <3>3, <4>1, <4>3, TrustingIs
    <3>5. ASSUME NEW n \in FileNames, n # m PROVE e.file[n] = disk.file[n]
      <4>1. d.file[n] = disk.file[n] /\ disk.file[n] \in File
        BY <1>2, <3>5 DEF LoadTypeOK, Disk
      <4>2. (disk.file[n].safe \/ disk.file[n].safe) = disk.file[n].safe
        BY <4>1 DEF File
      <4>3. [disk.file[n] EXCEPT !.safe = disk.file[n].safe] = disk.file[n]
        BY <4>1 DEF File
      <4>4. e.file[n] = [disk.file[n] EXCEPT !.safe = disk.file[n].safe \/ disk.file[n].safe]
        BY <3>3, <4>1, TrustingIs
      <4> QED BY <4>2, <4>3, <4>4
    <3>6. e.file = [disk.file EXCEPT ![m] = h]
      <4>1. e.file = [n \in FileNames |-> e.file[n]]
        BY <3>3 DEF Trusting
      <4>2. disk.file = [n \in FileNames |-> disk.file[n]]
        BY DEF LoadTypeOK, Disk
      <4> QED BY <3>4, <3>5, <4>1, <4>2
    <3> HIDE DEF h
    <3>7. \/ Forecast(e) \in {Forecast(disk), Loads(loader, e)}
          \/ loader = "old" /\ ~WillAccept(e)
      BY <3>2, <3>4, <3>6, FairChange
    <3>8. Forecast(d) = Forecast(e) /\ (WillAccept(d) <=> WillAccept(e))
      <4>0. d.file[m] = g /\ \A n \in FileNames : n # m => d.file[n] = disk.file[n]
        BY <1>2 DEF LoadTypeOK, Disk
      <4>1. ASSUME NEW n \in FileNames
            PROVE  /\ d.file[n].text = e.file[n].text /\ d.file[n].there = e.file[n].there
                   /\ d.file[n].regular = e.file[n].regular
                   /\ Judged(n) \/ d.file[n].safe = e.file[n].safe
        <5>1. CASE n = m
          BY <2>2, <3>2, <3>4, <4>0, <5>1
        <5>2. CASE n # m
          BY <3>5, <4>0, <5>2
        <5> QED BY <5>1, <5>2
      <4> QED BY <1>2, <3>4, <4>1, SameForecast DEF Finished
    <3> QED BY <3>3, <3>7, <3>8
  <2> QED BY <2>1, <2>2
<1> QED BY <1>1, <1>2

LEMMA ForeseenStep ==
    ASSUME LoadIInv, [LoadNext]_lvars
    PROVE  Foreseen'
<1> USE DEF LoadIInv
<1>1. CASE Calls
  <2>1. UNCHANGED files /\ Forecast(disk)' = Forecast(disk)
        /\ (WillAccept(disk)' <=> WillAccept(disk))
    BY <1>1, CallsKeep, ForecastKept
  <2>2. /\ Loads(loader, began)' = Loads(loader, began)
        /\ Loads(loader, disk)' = Loads(loader, disk)
        /\ Loads(loader, Believed)' = Loads(loader, Believed)
    BY <2>1 DEF files, Loads, Accepts, Includes, Opens, Part, Believed
  <2> QED BY <2>1, <2>2 DEF Foreseen, files
<1>2. CASE Administrate
  <2>1. /\ changes' = changes + 1 /\ changes \in Nat /\ ~Finished
        /\ UNCHANGED <<loader, began, lpc, left, got>>
    BY <1>2, AdministrateChanges, LoadingAssumption DEF LoadTypeOK
  <2> SUFFICES ASSUME changes' <= 1 PROVE Foreseen'
    BY <2>1 DEF Foreseen
  <2>2. changes = 0 /\ changes' = 1
    BY <2>1
  <2>3. touched = {} /\ disk = began /\ Forecast(disk) = Loads(loader, began)
    <3>1. touched = {} /\ disk = began
      BY <2>2 DEF Foreseen
    <3>2. Believed = began
      BY <3>1, NothingBelieved DEF Believed, LoadTypeOK
    <3> QED BY <2>2, <3>1, <3>2 DEF Foreseen
  <2>4. PICK d \in Disk : d = disk'
    BY <1>2, AdministrateChanges
  <2>5. \/ /\ d.file = disk.file /\ d.dir \in DirState
        \/ \E m \in FileNames, g \in File :
              /\ d.dir = disk.dir /\ g \in Changed(disk.file[m])
              /\ d.file = [disk.file EXCEPT ![m] = g]
    BY <1>2, <2>4, AdministrateChanges
  <2>6. \/ Forecast(d) \in {Forecast(disk), Loads(loader, d), Loads(loader, Trusting(disk, d))}
        \/ loader = "old" /\ ~WillAccept(d)
    BY <2>1, <2>3, <2>5, FirstChange
  <2>7. /\ WillAccept(disk)' <=> WillAccept(d)
        /\ \A n : WillHave(disk, n)' = WillHave(d, n)
    BY <2>1, <2>4, TakenKept
       DEF WillAccept, WillHave, WillTake, Ahead, Judged, Upcoming, Includes, Opens
  <2>8. Forecast(disk)' = Forecast(d)
    BY <2>7 DEF Forecast
  <2>9. /\ Loads(loader, began)' = Loads(loader, began) /\ Loads(loader, disk)' = Loads(loader, d)
        /\ Loads(loader, Believed)' = Loads(loader, Trusting(disk, d))
    BY <2>1, <2>3, <2>4 DEF Loads, Accepts, Includes, Opens, Part, Believed
  <2> QED BY <2>1, <2>2, <2>3, <2>6, <2>7, <2>8, <2>9 DEF Foreseen
<1>3. CASE UNCHANGED lvars
  <2>0. /\ WillAccept(disk)' <=> WillAccept(disk)
        /\ \A n : WillHave(disk, n)' = WillHave(disk, n)
    BY <1>3, TakenKept
       DEF lvars, WillAccept, WillHave, WillTake, Ahead, Judged, Upcoming, Includes, Opens
  <2>1. Forecast(disk)' = Forecast(disk) /\ (WillAccept(disk)' <=> WillAccept(disk))
    BY <2>0, ForecastEqual
  <2>2. /\ Loads(loader, began)' = Loads(loader, began)
        /\ Loads(loader, disk)' = Loads(loader, disk)
        /\ Loads(loader, Believed)' = Loads(loader, Believed)
    BY <1>3 DEF lvars, Loads, Accepts, Includes, Opens, Part, Believed
  <2> QED BY <1>3, <2>1, <2>2 DEF Foreseen, lvars
<1> QED BY <1>1, <1>2, <1>3 DEF LoadNext, Calls

(* The inductive invariant of load_policy in both programs: what was taken *)
(* and seen of the files that stayed, and what it foresees.                *)
THEOREM LoadInductive == LoadSpec => []LoadIInv
<1>1. LoadInit => LoadIInv
  <2> SUFFICES ASSUME LoadInit PROVE LoadIInv
    OBVIOUS
  <2>1. LoadTypeOK /\ TakenInOrder /\ got = <<>> /\ lpc \in {"exists", "stat"}
        /\ disk = began /\ changes = 0 /\ touched = {}
    BY LoadInvInit DEF LoadInit
  <2>2. SeenOfMain /\ SeenOfDir /\ \A n \in 1..Fragments : SeenOf(n)
    BY <2>1, TakenKept DEF SeenOfMain, SeenOfDir, SeenOf, BeforeListing, InListing
  <2>3. Forecast(disk) = Loads(loader, disk)
    BY <2>1, EarlyForecast DEF BeforeMain
  <2> QED BY <2>1, <2>2, <2>3 DEF LoadIInv, Foreseen
<1>2. LoadIInv /\ [LoadNext]_lvars => LoadIInv'
  BY TakenStep, SeenOfMainStep, SeenOfDirStep, SeenOfStep, ForeseenStep DEF LoadIInv
<1> QED BY <1>1, <1>2, PTL DEF LoadSpec

(* A load that is over comes to its forecast.                              *)
LEMMA ForecastCame ==
    ASSUME LoadTypeOK, TakenInOrder, Finished
    PROVE  Forecast(disk) = Outcome /\ (WillAccept(disk) <=> lpc = "done")
<1>1. CASE lpc = "done"
  <2>1. \A n \in FileNames : ~Ahead(disk, n)
    BY <1>1 DEF Ahead, BeforeMain, InListing
  <2>2. WillAccept(disk)
    BY <1>1, <2>1, Numbers DEF WillAccept, BeforeMain
  <2>3. \A n \in FileNames : WillHave(disk, n) = Taken(n)
    BY <2>1 DEF WillHave, WillTake
  <2> QED BY <1>1, <2>2, <2>3 DEF Forecast, Outcome
<1>2. CASE lpc = "failed"
  BY <1>2 DEF WillAccept, Forecast, Outcome
<1> QED BY <1>1, <1>2 DEF Finished

(* A load under which at most one thing changes gives the policy before or *)
(* after the change, in either program, whatever call the change falls     *)
(* between, or that after the change with a file of it believed to be      *)
(* trusted that was renamed over a trusted one; the original may refuse.   *)
THEOREM LoadsAreSnapshots == LoadSpec => []LoadIsSnapshot
<1>1. LoadIInv => LoadIsSnapshot
  <2> SUFFICES ASSUME LoadIInv, Finished, changes <= 1
               PROVE  /\ InOrder
                      /\ \/ Outcome \in {Loads(loader, d) : d \in {began, disk, Believed}}
                         \/ changes = 1 /\ loader = "old" /\ lpc = "failed"
    BY DEF LoadIsSnapshot
  <2>1. Forecast(disk) = Outcome /\ (WillAccept(disk) <=> lpc = "done")
    BY ForecastCame DEF LoadIInv
  <2>2. \/ Forecast(disk) \in {Loads(loader, d) : d \in {began, disk, Believed}}
        \/ changes = 1 /\ loader = "old" /\ ~WillAccept(disk)
    BY DEF LoadIInv, Foreseen
  <2> QED BY <2>1, <2>2 DEF Finished, LoadIInv, TakenInOrder
<1> QED BY <1>1, LoadInductive, PTL

(* What the original accepts, the port takes the same rules of, where all  *)
(* files are ordinary.                                                     *)
LEMMA SameLoads ==
    ASSUME NEW d \in Disk, Ordinary(d), Accepts("old", d)
    PROVE  Loads("port", d) = Loads("old", d)
<1>1. ASSUME NEW n \in FileNames, Sound("old", d.file[n])
      PROVE  Sound("port", d.file[n]) /\ Part("port", d, n) = Part("old", d, n)
  <2>1. d.file[n].text.bytes = "some" /\ d.file[n].text.toml = "plain"
    BY <1>1 DEF Ordinary, Sound, Trusted
  <2>2. Sound("port", d.file[n])
    BY <1>1, <2>1 DEF Sound, Reads, OldReads, PortReads
  <2>3. Rules("port", n, d.file[n].text) = Rules("old", n, d.file[n].text)
    BY <2>1 DEF Rules, PortRules, TomlRules
  <2> QED BY <1>1, <2>2, <2>3 DEF Part
<1>0. d.file[Main].text.include \in {{}, {"port", "old"}}
  <2>1. Sound("old", d.file[Main]) /\ d.file[Main].text \in Text
    BY Numbers DEF Accepts, Disk, File
  <2> QED BY <2>1, Numbers, LoadingAssumption DEF Ordinary, Sound, Trusted
<1>2. Accepts("port", d) /\ (Includes("port", d) <=> Includes("old", d))
  BY <1>0, <1>1, Numbers DEF Accepts, Includes, Opens
<1>3. ASSUME NEW n \in FileNames, n = Main \/ Includes("old", d)
      PROVE  Part("port", d, n) = Part("old", d, n)
  <2>1. CASE Sound("old", d.file[n])
    BY <1>1, <2>1
  <2>2. CASE ~d.file[n].there
    BY <2>2 DEF Part, Sound, Trusted
  <2> QED BY <1>3, <2>1, <2>2, Numbers DEF Accepts
<1> QED BY <1>2, <1>3 DEF Loads

(* Where nothing changes, the port loads of ordinary files what the        *)
(* original loads, with the same rules in the same order.                  *)
THEOREM PortLoadsTheSame == LoadSpec => []PortLoadsAsOriginal
<1>1. LoadIInv => PortLoadsAsOriginal
  <2> SUFFICES ASSUME LoadIInv, loader = "port", Finished, changes = 0, Ordinary(disk),
                      Accepts("old", disk)
               PROVE  InOrder /\ Outcome = Loads("old", disk)
    BY DEF PortLoadsAsOriginal
  <2>0. disk = began /\ Believed = disk
    BY NothingBelieved DEF Believed, LoadIInv, LoadTypeOK, Foreseen
  <2>1. Outcome = Loads("port", disk)
    BY <2>0, ForecastCame DEF LoadIInv, Foreseen
  <2> QED BY <2>1, SameLoads DEF LoadIInv, LoadTypeOK, TakenInOrder
<1> QED BY <1>1, LoadInductive, PTL

(* However many files change during a load, of those that do not it takes  *)
(* what it should, in the order of the names.                              *)
THEOREM UntouchedAreReadRight == LoadSpec => []UntouchedReadRight
<1>1. LoadIInv => UntouchedReadRight
  BY DEF LoadIInv, UntouchedReadRight, SeenOf, TakenInOrder
<1> QED BY <1>1, LoadInductive, PTL
==============================================================================
