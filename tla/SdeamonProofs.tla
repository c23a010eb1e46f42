--------------------------- MODULE SdeamonProofs ---------------------------
(* Theorems about Sdeamon for any number of jailors, programs, files and      *)
(* clients: first whatever the clients send and whatever fails, then with an  *)
(* operator who lets things settle.                                           *)
EXTENDS Sdeamon, SequenceLemmas

----------------------------------------------------------------------------
(* The jailors. *)

FileStates == {"absent", "whole"} \cup Jails

LEMMA JailorTypesStep ==
    ASSUME JailorTypeOK, JailorsAtWork, NEW j \in Jails,
           JailorStep(j) \/ ChildStep(j) \/ Mishap(j)
    PROVE  JailorTypeOK' /\ JailorsAtWork'
<1> DEFINE Counted == \A k \in Jails : jpc'[k] = "copying" => copied'[k] < NFiles
<1>1. /\ prog \in [Jails -> Programs \cup {None}] /\ jpc \in [Jails -> JailorPCs]
      /\ cpc \in [Jails -> ChildPCs] /\ copied \in [Jails -> 0..NFiles]
      /\ root \in [Programs -> SUBSET Parts]
      /\ files \in [Programs -> [1..NFiles -> FileStates]]
      /\ evicted \subseteq Jails /\ veth \in [Programs -> {"none", "host"} \cup Jails]
      /\ NFiles \in Nat
  BY JailorAssumption DEF JailorTypeOK, FileStates
<1>2. prog' = prog
  BY DEF JailorStep, ChildStep, Mishap, ReadConfig, MakeRoot, CreateDirectories, SkipFile,
    StartCopy, EndCopy, CopiesDone, AddVeth, Clone, MoveVeth, InstallHandlers, ChildDied,
    RemoveRoot, MakeOldRoot, PivotRoot, ConnectSymlinks, Exec, ServerReady, Quit, ChildFails,
    ServerDies
<1>3. ASSUME NEW l \in JailorPCs, JailorGoto(j, l) PROVE jpc' \in [Jails -> JailorPCs]
  BY <1>1, <1>3 DEF JailorGoto
<1>4. ASSUME NEW l \in ChildPCs, ChildGoto(j, l) PROVE cpc' \in [Jails -> ChildPCs]
  BY <1>1, <1>4 DEF ChildGoto
<1>5. ASSUME NEW s \in SUBSET Parts, PutInRoot(j, s) PROVE root' \in [Programs -> SUBSET Parts]
  BY <1>1, <1>5 DEF PutInRoot
<1>6. ASSUME prog[j] \in Programs, NEW f \in FileStates, PutFile(j, f)
      PROVE  files' \in [Programs -> [1..NFiles -> FileStates]]
  <2>1. [files[prog[j]] EXCEPT ![copied[j] + 1] = f] \in [1..NFiles -> FileStates]
    BY <1>1, <1>6
  <2> QED BY <1>1, <1>6, <2>1 DEF PutFile
<1>7. InRoot(j) \in SUBSET Parts \/ prog[j] \notin Programs
  BY <1>1 DEF InRoot
<1>8. jpc[j] # "unused" => prog[j] \in Programs
  BY DEF JailorsAtWork
<1>9. \A k \in Jails : jpc[k] = "copying" => copied[k] < NFiles
  BY DEF JailorsAtWork
<1>10. jpc' \in [Jails -> JailorPCs] /\ cpc' \in [Jails -> ChildPCs]
  <2>1. CASE JailorStep(j)
    BY <1>1, <1>3, <1>4, <2>1 DEF JailorStep, ReadConfig, MakeRoot, CreateDirectories, SkipFile,
      StartCopy, EndCopy, CopiesDone, AddVeth, Clone, MoveVeth, InstallHandlers, ChildDied,
      RemoveRoot, JailorPCs, ChildPCs
  <2>2. CASE ChildStep(j) \/ Mishap(j)
    BY <1>1, <1>3, <1>4, <2>2 DEF ChildStep, Mishap, MakeOldRoot, PivotRoot, ConnectSymlinks,
      Exec, ServerReady, Quit, ChildFails, ServerDies, ChildDies, JailorPCs, ChildPCs
  <2> QED BY <2>1, <2>2
<1>11. copied' \in [Jails -> 0..NFiles] /\ Counted
  <2>1. CASE SkipFile(j) \/ EndCopy(j)
    <3>1. /\ copied[j] \in 0..NFiles /\ copied[j] < NFiles
          /\ copied' = [copied EXCEPT ![j] = copied[j] + 1]
          /\ \A k \in Jails : jpc'[k] = "copying" => jpc[k] = "copying" /\ k # j
      BY <1>1, <1>9, <2>1 DEF SkipFile, EndCopy, JailorGoto
    <3>2. copied[j] + 1 \in 0..NFiles
      BY <1>1, <3>1
    <3> QED BY <1>1, <1>9, <3>1, <3>2
  <2>2. CASE StartCopy(j)
    BY <1>1, <1>9, <2>2 DEF StartCopy, JailorGoto
  <2>3. CASE UNCHANGED copied /\ \A k \in Jails : jpc'[k] = "copying" => jpc[k] = "copying"
    BY <1>1, <1>9, <2>3
  <2>4. CASE \/ ReadConfig(j) \/ MakeRoot(j) \/ CreateDirectories(j) \/ CopiesDone(j)
             \/ AddVeth(j) \/ Clone(j) \/ MoveVeth(j) \/ InstallHandlers(j) \/ ChildDied(j)
             \/ RemoveRoot(j) \/ ChildStep(j) \/ Mishap(j)
    BY <1>1, <2>3, <2>4 DEF ReadConfig, MakeRoot, CreateDirectories, CopiesDone, AddVeth, Clone,
      MoveVeth, InstallHandlers, ChildDied, RemoveRoot, ChildStep, Mishap, MakeOldRoot, PivotRoot,
      ConnectSymlinks, Exec, ServerReady, Quit, ChildFails, ServerDies, JailorGoto
  <2> QED BY <2>1, <2>2, <2>4 DEF JailorStep
<1>12. root' \in [Programs -> SUBSET Parts]
  <2>1. CASE prog[j] \in Programs
    <3>1. InRoot(j) \in SUBSET Parts
      BY <1>7, <2>1
    <3>2. /\ {} \in SUBSET Parts
          /\ InRoot(j) \cup {"dir"} \in SUBSET Parts /\ InRoot(j) \cup {"old_root"} \in SUBSET Parts
          /\ InRoot(j) \ {"old_root"} \in SUBSET Parts /\ InRoot(j) \cup {"links"} \in SUBSET Parts
      BY <3>1 DEF Parts
    <3>3. CASE JailorStep(j)
      BY <1>1, <1>5, <3>2, <3>3 DEF JailorStep, ReadConfig, MakeRoot, CreateDirectories, SkipFile,
        StartCopy, EndCopy, CopiesDone, AddVeth, Clone, MoveVeth, InstallHandlers, ChildDied,
        RemoveRoot, disk
    <3>4. CASE ChildStep(j) \/ Mishap(j)
      BY <1>1, <1>5, <3>2, <3>4 DEF ChildStep, Mishap, MakeOldRoot, PivotRoot, ConnectSymlinks,
        Exec, ServerReady, Quit, ChildFails, ServerDies, ChildDies, disk
    <3> QED BY <3>3, <3>4
  <2>2. CASE prog[j] \notin Programs
    <3>1. ASSUME NEW s, PutInRoot(j, s) PROVE root' = root
      BY <1>1, <2>2, <3>1 DEF PutInRoot
    <3>2. CASE JailorStep(j)
      BY <1>1, <3>1, <3>2 DEF JailorStep, ReadConfig, MakeRoot, CreateDirectories, SkipFile,
        StartCopy, EndCopy, CopiesDone, AddVeth, Clone, MoveVeth, InstallHandlers, ChildDied,
        RemoveRoot, disk
    <3>3. CASE ChildStep(j) \/ Mishap(j)
      BY <1>1, <3>1, <3>3 DEF ChildStep, Mishap, MakeOldRoot, PivotRoot, ConnectSymlinks,
        Exec, ServerReady, Quit, ChildFails, ServerDies, ChildDies, disk
    <3> QED BY <3>2, <3>3
  <2> QED BY <2>1, <2>2
<1>13. files' \in [Programs -> [1..NFiles -> FileStates]]
  <2>1. CASE StartCopy(j) \/ EndCopy(j)
    <3>1. prog[j] \in Programs /\ copied[j] + 1 \in 1..NFiles
      BY <1>1, <1>8, <1>9, <2>1 DEF StartCopy, EndCopy
    <3>2. File(j) \in FileStates
      BY <1>1, <3>1 DEF File
    <3> QED BY <1>1, <1>6, <2>1, <3>1, <3>2 DEF StartCopy, EndCopy, FileStates
  <2>2. CASE RemoveRoot(j)
    <3>1. [k \in 1..NFiles |-> "absent"] \in [1..NFiles -> FileStates]
      BY DEF FileStates
    <3> QED BY <1>1, <2>2, <3>1 DEF RemoveRoot
  <2>3. CASE \/ ReadConfig(j) \/ MakeRoot(j) \/ CreateDirectories(j) \/ SkipFile(j) \/ CopiesDone(j)
             \/ AddVeth(j) \/ Clone(j) \/ MoveVeth(j) \/ InstallHandlers(j) \/ ChildDied(j)
             \/ ChildStep(j) \/ Mishap(j)
    <3>1. files' = files
      BY <2>3 DEF ReadConfig, MakeRoot, CreateDirectories, SkipFile, CopiesDone, AddVeth, Clone,
        MoveVeth, InstallHandlers, ChildDied, ChildStep, Mishap, MakeOldRoot, PivotRoot,
        ConnectSymlinks, Exec, ServerReady, Quit, ChildFails, ServerDies, disk
    <3> QED BY <1>1, <3>1
  <2> QED BY <2>1, <2>2, <2>3 DEF JailorStep
<1>14. evicted' \subseteq Jails /\ veth' \in [Programs -> {"none", "host"} \cup Jails]
  <2>1. CASE JailorStep(j)
    BY <1>1, <2>1 DEF JailorStep, ReadConfig, MakeRoot, CreateDirectories, SkipFile,
      StartCopy, EndCopy, CopiesDone, AddVeth, Clone, MoveVeth, InstallHandlers, ChildDied,
      RemoveRoot, disk
  <2>2. CASE ChildStep(j) \/ Mishap(j)
    BY <1>1, <2>2 DEF ChildStep, Mishap, MakeOldRoot, PivotRoot, ConnectSymlinks,
      Exec, ServerReady, Quit, ChildFails, ServerDies, disk
  <2> QED BY <2>1, <2>2
<1>15. \A k \in Jails : jpc'[k] # "unused" => prog'[k] \in Programs
  <2>1. \A k \in Jails : jpc'[k] # "unused" => jpc[k] # "unused"
    BY <1>1 DEF JailorStep, ChildStep, Mishap, ReadConfig, MakeRoot, CreateDirectories, SkipFile,
      StartCopy, EndCopy, CopiesDone, AddVeth, Clone, MoveVeth, InstallHandlers, ChildDied,
      RemoveRoot, MakeOldRoot, PivotRoot, ConnectSymlinks, Exec, ServerReady, Quit, ChildFails,
      ServerDies, JailorGoto
  <2> QED BY <1>2, <2>1 DEF JailorsAtWork
<1> QED BY <1>1, <1>2, <1>10, <1>11, <1>12, <1>13, <1>14, <1>15
    DEF JailorTypeOK, JailorsAtWork, FileStates

(* What the others see of a jailor's step: where it goes from the handler, it *)
(* leaves a dead child; nobody who ended comes back.                         *)
JailorsMove ==
    /\ prog' = prog
    /\ \A k \in Jails :
         /\ jpc'[k] = "unused" <=> jpc[k] = "unused"
         /\ jpc[k] = "gone" => jpc'[k] = "gone" /\ (cpc[k] = "dead" => cpc'[k] = "dead")
         /\ jpc'[k] = "clean" => cpc'[k] = "dead"
         /\ Armed(k) => Armed(k)' \/ (jpc'[k] = "gone" /\ cpc'[k] = "dead")

LEMMA StepMoves ==
    ASSUME JailorTypeOK, \A k \in Jails : jpc[k] = "clean" => cpc[k] = "dead", NEW j \in Jails,
           JailorStep(j) \/ ChildStep(j) \/ Mishap(j) \/ Terminate(j)
    PROVE  JailorsMove
<1> USE DEF JailorTypeOK, JailorGoto, ChildGoto, JailorsMove, Armed
<1>1. CASE JailorStep(j)
  BY <1>1 DEF JailorStep, ReadConfig, MakeRoot, CreateDirectories, SkipFile,
    StartCopy, EndCopy, CopiesDone, AddVeth, Clone, MoveVeth, InstallHandlers, ChildDied,
    RemoveRoot
<1>2. CASE ChildStep(j) \/ Mishap(j)
  BY <1>2 DEF ChildStep, Mishap, MakeOldRoot, PivotRoot, ConnectSymlinks,
    Exec, ServerReady, Quit, ChildFails, ServerDies, ChildDies
<1>3. CASE Terminate(j)
  BY <1>3 DEF Terminate, JailorAlive
<1> QED BY <1>1, <1>2, <1>3

----------------------------------------------------------------------------
(* The list. *)

LEMMA FindFacts ==
    ASSUME list \in Seq(Entries), NEW p, EntriesOf(p) # {}
    PROVE  /\ FindProgram(p) \in 1..Len(list) /\ list[FindProgram(p)].prog = p
           /\ \A k \in EntriesOf(p) : FindProgram(p) <= k
           /\ list[FindProgram(p)] \in Entries
<1>1. DOMAIN list = 1..Len(list) /\ Len(list) \in Nat
  BY LenProperties
<1>2. EntriesOf(p) \in SUBSET Nat /\ EntriesOf(p) \subseteq 1..Len(list)
  BY <1>1 DEF EntriesOf
<1>3. \E i \in EntriesOf(p) : \A k \in EntriesOf(p) : i <= k
  BY <1>2, LeastIndex
<1>4. FindProgram(p) \in EntriesOf(p) /\ \A k \in EntriesOf(p) : FindProgram(p) <= k
  BY <1>3 DEF FindProgram
<1> QED BY <1>1, <1>2, <1>4 DEF EntriesOf

LEMMA EntriesFinite ==
    ASSUME list \in Seq(Entries), NEW p
    PROVE  /\ IsFiniteSet(EntriesOf(p)) /\ Cardinality(EntriesOf(p)) \in Nat
           /\ EntriesOf(p) # {} => Cardinality(EntriesOf(p)) > 0
<1>1. DOMAIN list = 1..Len(list) /\ Len(list) \in Nat
  BY LenProperties
<1>2. EntriesOf(p) \in SUBSET (1..Len(list)) /\ IsFiniteSet(1..Len(list))
  BY <1>1, FS_Interval DEF EntriesOf
<1>3. IsFiniteSet(EntriesOf(p))
  BY <1>2, FS_Subset
<1> QED BY <1>3, FS_CardinalityType, FS_EmptySet

LEMMA SameList ==
    ASSUME list' = list
    PROVE  \A p : EntriesOf(p)' = EntriesOf(p) /\ FindProgram(p)' = FindProgram(p)
<1>1. \A p : EntriesOf(p)' = EntriesOf(p)
  BY DEF EntriesOf
<1> QED BY <1>1 DEF FindProgram

(* add_program: one entry more, of the program in hand. *)
LEMMA Enlisted ==
    ASSUME list \in Seq(Entries), entry \in Entries, list' = <<entry>> \o list
    PROVE  /\ list' \in Seq(Entries) /\ Len(list') = Len(list) + 1 /\ list'[1] = entry
           /\ \A i \in 1..Len(list) : list'[i + 1] = list[i]
           /\ \A p : Cardinality(EntriesOf(p)') =
                       Cardinality(EntriesOf(p)) + IF p = entry.prog THEN 1 ELSE 0
<1>1. /\ list' \in Seq(Entries) /\ Len(list') = Len(list) + 1 /\ list'[1] = entry
      /\ \A i \in 1..Len(list) : list'[i + 1] = list[i]
  BY PrependFacts
<1>2. /\ DOMAIN list = 1..Len(list) /\ Len(list) \in Nat
      /\ DOMAIN list' = 1..(Len(list) + 1)
  BY <1>1, LenProperties
<1>3. ASSUME NEW p
      PROVE  Cardinality(EntriesOf(p)') = Cardinality(EntriesOf(p)) + IF p = entry.prog THEN 1 ELSE 0
  <2> DEFINE D == EntriesOf(p)
             E == {i \in DOMAIN list' : list'[i].prog = p /\ i # 1}
             f == [i \in D |-> i + 1]
  <2>1. D \subseteq 1..Len(list) /\ IsFiniteSet(D)
    BY <1>2, EntriesFinite DEF EntriesOf
  <2>2. f \in [D -> E]
    BY <1>1, <1>2 DEF EntriesOf
  <2>3. \A i, k \in D : f[i] = f[k] => i = k
    BY <2>1
  <2>4. ASSUME NEW m \in E PROVE \E i \in D : f[i] = m
    <3>1. m - 1 \in 1..Len(list) /\ (m - 1) + 1 = m
      BY <1>2
    <3>2. m - 1 \in D
      BY <1>1, <1>2, <3>1 DEF EntriesOf
    <3> QED BY <3>1, <3>2
  <2>5. IsFiniteSet(E) /\ Cardinality(E) = Cardinality(D)
    <3> HIDE DEF D, E, f
    <3> QED BY <2>1, <2>2, <2>3, <2>4, Renumbered
  <2>6. EntriesOf(p)' = IF p = entry.prog THEN E \cup {1} ELSE E
    BY <1>1, <1>2 DEF EntriesOf
  <2>7. 1 \notin E
    OBVIOUS
  <2>8. Cardinality(D) \in Nat
    BY EntriesFinite
  <2> HIDE DEF E
  <2>9. Cardinality(E \cup {1}) = Cardinality(E) + 1
    BY <2>5, <2>7, FS_AddElement
  <2> QED BY <2>5, <2>6, <2>8, <2>9
<1> QED BY <1>1, <1>3

(* remove_program: one entry less, the first of its program. *)
LEMMA Delisted ==
    ASSUME list \in Seq(Entries), NEW k \in 1..Len(list), list' = RemoveAt(list, k)
    PROVE  /\ list' \in Seq(Entries) /\ Len(list') = Len(list) - 1
           /\ \A i \in 1..(Len(list) - 1) : list'[i] = IF i < k THEN list[i] ELSE list[i + 1]
           /\ \A i \in 1..Len(list) : i # k => \E m \in 1..(Len(list) - 1) : list'[m] = list[i]
           /\ \A p : Cardinality(EntriesOf(p)') =
                       Cardinality(EntriesOf(p)) - IF p = list[k].prog THEN 1 ELSE 0
<1>1. /\ list' \in Seq(Entries) /\ Len(list') = Len(list) - 1
      /\ \A i \in 1..(Len(list) - 1) : list'[i] = IF i < k THEN list[i] ELSE list[i + 1]
  BY RemoveAtFacts
<1>2. /\ DOMAIN list = 1..Len(list) /\ Len(list) \in Nat
      /\ DOMAIN list' = 1..(Len(list) - 1)
  BY <1>1, LenProperties
<1> DEFINE To(i) == IF i < k THEN i ELSE i - 1
<1>3. \A i \in 1..Len(list) : i # k => To(i) \in 1..(Len(list) - 1) /\ list'[To(i)] = list[i]
  <2> SUFFICES ASSUME NEW i \in 1..Len(list), i # k
               PROVE  To(i) \in 1..(Len(list) - 1) /\ list'[To(i)] = list[i]
    OBVIOUS
  <2>1. CASE i < k
    BY <1>1, <1>2, <2>1
  <2>2. CASE ~(i < k)
    <3>1. i - 1 \in 1..(Len(list) - 1) /\ ~(i - 1 < k) /\ (i - 1) + 1 = i
      BY <1>2, <2>2
    <3> QED BY <1>1, <2>2, <3>1
  <2> QED BY <2>1, <2>2
<1>4. ASSUME NEW p
      PROVE  Cardinality(EntriesOf(p)') = Cardinality(EntriesOf(p)) - IF p = list[k].prog THEN 1 ELSE 0
  <2> DEFINE D == EntriesOf(p) \ {k}
             E == EntriesOf(p)'
             f == [i \in D |-> To(i)]
  <2>1. D \subseteq 1..Len(list) /\ IsFiniteSet(D) /\ \A i \in D : i # k /\ list[i].prog = p
    <3>1. IsFiniteSet(D)
      BY EntriesFinite, FS_RemoveElement
    <3> QED BY <1>2, <3>1 DEF EntriesOf
  <2>2. f \in [D -> E]
    BY <1>2, <1>3, <2>1 DEF EntriesOf
  <2>3. \A i, m \in D : f[i] = f[m] => i = m
    BY <1>2, <2>1
  <2>4. ASSUME NEW m \in E PROVE \E i \in D : f[i] = m
    <3>1. m \in 1..(Len(list) - 1) /\ list'[m].prog = p
      BY <1>2 DEF EntriesOf
    <3>2. PICK i \in 1..Len(list) : i = IF m < k THEN m ELSE m + 1
      BY <1>2, <3>1
    <3>3. i # k /\ To(i) = m /\ list[i] = list'[m]
      BY <1>1, <1>2, <3>1, <3>2
    <3>4. i \in D
      BY <1>2, <3>1, <3>3 DEF EntriesOf
    <3> QED BY <3>3, <3>4
  <2>5. Cardinality(E) = Cardinality(D)
    <3> HIDE DEF D, E, f
    <3> QED BY <2>1, <2>2, <2>3, <2>4, Renumbered
  <2>6. k \in EntriesOf(p) <=> p = list[k].prog
    BY <1>2 DEF EntriesOf
  <2>7. Cardinality(D) = IF p = list[k].prog THEN Cardinality(EntriesOf(p)) - 1
                                             ELSE Cardinality(EntriesOf(p))
    BY <2>6, EntriesFinite, FS_RemoveElement
  <2>8. Cardinality(EntriesOf(p)) \in Nat
    BY EntriesFinite
  <2> QED BY <2>5, <2>7, <2>8
<1> QED BY <1>1, <1>3, <1>4

----------------------------------------------------------------------------
(* The steps of the daemon. *)

LEMMA Unpack ==
    ASSUME DaemonInv
    PROVE  /\ JailorTypeOK /\ JailorsAtWork /\ list \in Seq(Entries)
           /\ DOMAIN list = 1..Len(list) /\ Len(list) \in Nat
           /\ \A i \in DOMAIN list : list[i] \in Entries /\ list[i].pid \in Jails
           /\ entry \in [prog : Programs \cup {None}, pid : Jails \cup {None}]
           /\ dpc \in {"kill", "waitpid", "undnat", "unforward", "delist"} =>
                entry \in Entries /\ entry.pid \in Jails
           /\ None \notin Jails /\ None \notin Programs
<1>1. list \in Seq(Entries) /\ DOMAIN list = 1..Len(list) /\ Len(list) \in Nat
  BY LenProperties DEF DaemonInv, TypeOK
<1>2. \A i \in DOMAIN list : list[i] \in Entries
  BY <1>1
<1>3. dpc \in {"kill", "waitpid", "undnat", "unforward", "delist"} => entry \in Entries
  BY <1>1, FindFacts DEF DaemonInv, EntryInHand
<1> QED BY <1>1, <1>2, <1>3, JailorAssumption DEF DaemonInv, TypeOK, Entries

(* The rules while the list stays. *)
LEMMA RulesKept ==
    ASSUME RulesFollowList, UNCHANGED <<list, dnat, fwd, exited>>,
           \A p \in Programs, pcs \in {{"unforward", "delist"}, {"forward", "enlist"},
                                       {"delist"}, {"enlist"}} :
               (entry'.prog = p /\ dpc' \in pcs) <=> (entry.prog = p /\ dpc \in pcs)
    PROVE  RulesFollowList'
<1>1. \A p : EntriesOf(p)' = EntriesOf(p)
  BY SameList
<1>2. \A p \in Programs :
        /\ InHand(p, {"unforward", "delist"})' = InHand(p, {"unforward", "delist"})
        /\ InHand(p, {"forward", "enlist"})' = InHand(p, {"forward", "enlist"})
        /\ InHand(p, {"delist"})' = InHand(p, {"delist"})
        /\ InHand(p, {"enlist"})' = InHand(p, {"enlist"})
  BY DEF InHand
<1> QED BY <1>1, <1>2 DEF RulesFollowList

(* Nothing but the requests changes, or the daemon is started again. *)
LEMMA RequestsStep ==
    ASSUME DaemonInv, UNCHANGED <<jails, client, entry, list, dnat, fwd, armed, exited>>,
           dpc' = dpc \/ (dpc = "exited" /\ dpc' = "accept"),
           request' \in [Clients -> Commands \cup {None}], answer' \in [Clients -> Answers]
    PROVE  DaemonInv'
<1>1. TypeOK' /\ JailorsAtWork'
  BY DEF DaemonInv, TypeOK, JailorTypeOK, JailorsAtWork, jails, DaemonPCs
<1>2. EntryInHand'
  BY SameList DEF DaemonInv, EntryInHand
<1>3. EntriesSpawned' /\ EndsInOrder' /\ EveryJailorListed'
  BY DEF DaemonInv, EntriesSpawned, Spawned, EndsInOrder, EveryJailorListed, JailorAlive, Armed, jails
<1>4. RulesFollowList'
  BY RulesKept DEF DaemonInv
<1> QED BY <1>1, <1>2, <1>3, <1>4 DEF DaemonInv

LEMMA BesideStep ==
    ASSUME DaemonInv, UNCHANGED daemon, JailorTypeOK', JailorsAtWork', JailorsMove
    PROVE  DaemonInv'
<1>1. TypeOK'
  BY DEF DaemonInv, TypeOK, daemon
<1>2. EntryInHand'
  BY SameList DEF DaemonInv, EntryInHand, daemon
<1>3. EntriesSpawned'
  BY Unpack DEF DaemonInv, EntriesSpawned, Spawned, JailorsMove, daemon
<1>4. EndsInOrder'
  BY Unpack DEF DaemonInv, EndsInOrder, JailorsMove, Armed, daemon
<1>5. EveryJailorListed'
  <2>1. \A j \in Jails : JailorAlive(j)' => JailorAlive(j)
    BY DEF JailorsMove, JailorAlive
  <2> QED BY <2>1 DEF DaemonInv, EveryJailorListed, JailorsMove, daemon
<1>6. RulesFollowList'
  BY RulesKept DEF DaemonInv, daemon
<1> QED BY <1>1, <1>2, <1>3, <1>4, <1>5, <1>6 DEF DaemonInv

LEMMA AcceptStep ==
    ASSUME DaemonInv, NEW c \in Clients,
           Refuse(c) \/ HangUp(c) \/ AcceptStart(c) \/ AcceptStop(c)
    PROVE  DaemonInv'
<1>1. /\ dpc = "accept" /\ entry = NoEntry /\ request[c] \in Commands
      /\ UNCHANGED <<jails, list, dnat, fwd, request, armed, exited>>
  BY DEF Refuse, HangUp, AcceptStart, AcceptStop, Serve, Waiting, DaemonInv, EntryInHand, TypeOK
<1>2. request[c].prog \in Programs
  BY <1>1, SdeamonAssumption
<1>3. ASSUME NEW a \in Answers, Reply(c, a) PROVE answer' \in [Clients -> Answers]
  BY <1>3 DEF Reply, DaemonInv, TypeOK
<1>4. CASE UNCHANGED <<dpc, client, entry>> /\ \E a \in Answers : Reply(c, a)
  BY <1>1, <1>3, <1>4, RequestsStep DEF DaemonInv, TypeOK
<1>5. CASE AcceptStart(c) /\ request[c].prog \in Configured
  <2>1. /\ dpc' = "configer" /\ client' = c /\ answer' = answer
        /\ entry' = [prog |-> request[c].prog, pid |-> None]
    BY <1>5 DEF AcceptStart
  <2>2. TypeOK' /\ JailorsAtWork'
    BY <1>1, <1>2, <2>1 DEF DaemonInv, TypeOK, JailorTypeOK, JailorsAtWork, jails, DaemonPCs
  <2>3. EntryInHand'
    BY <1>2, <2>1 DEF EntryInHand
  <2>4. EntriesSpawned' /\ EndsInOrder' /\ EveryJailorListed'
    BY <1>1, <2>1, Unpack DEF DaemonInv, EntriesSpawned, Spawned, EndsInOrder, EveryJailorListed,
      JailorAlive, jails, NoEntry
  <2>5. RulesFollowList'
    BY <1>1, <2>1, RulesKept DEF DaemonInv
  <2> QED BY <2>2, <2>3, <2>4, <2>5 DEF DaemonInv
<1>6. CASE AcceptStop(c) /\ EntriesOf(request[c].prog) # {}
  <2>1. /\ dpc' = "kill" /\ client' = c /\ answer' = answer
        /\ entry' = list[FindProgram(request[c].prog)]
    BY <1>6 DEF AcceptStop
  <2>2. /\ entry' \in Entries /\ entry'.prog = request[c].prog
        /\ \E i \in DOMAIN list : entry' = list[i]
    BY <1>6, <2>1, Unpack, FindFacts
  <2>3. TypeOK' /\ JailorsAtWork'
    BY <1>1, <2>1, <2>2 DEF DaemonInv, TypeOK, JailorTypeOK, JailorsAtWork, jails, DaemonPCs, Entries
  <2>4. EntryInHand'
    BY <1>1, <1>2, <1>6, <2>1, <2>2, SameList DEF EntryInHand
  <2>5. EntriesSpawned' /\ EndsInOrder' /\ EveryJailorListed'
    <3>1. EntriesSpawned'
      BY <1>1, <2>2 DEF DaemonInv, EntriesSpawned, Spawned, jails
    <3>2. EndsInOrder'
      BY <1>1, <2>1 DEF DaemonInv, EndsInOrder, jails
    <3>3. EveryJailorListed'
      BY <1>1, Unpack DEF DaemonInv, EveryJailorListed, JailorAlive, jails, NoEntry
    <3> QED BY <3>1, <3>2, <3>3
  <2>6. RulesFollowList'
    BY <1>1, <2>1, RulesKept DEF DaemonInv
  <2> QED BY <2>3, <2>4, <2>5, <2>6 DEF DaemonInv
<1> QED BY <1>4, <1>5, <1>6 DEF Refuse, HangUp, AcceptStart, AcceptStop, Answers

(* Steps on the way that touch neither jailors nor list. *)
LEMMA ProceedStep ==
    ASSUME DaemonInv, UNCHANGED <<jails, list, client, entry, answer, request, armed, exited>>,
           \/ dpc = "configer" /\ dpc' = "jailor"
           \/ dpc = "dnat" /\ dpc' = "forward"
           \/ dpc = "forward" /\ dpc' = "enlist"
           \/ dpc = "waitpid" /\ dpc' = "undnat" /\ jpc[entry.pid] = "gone"
           \/ dpc = "undnat" /\ dpc' = "unforward"
           \/ dpc = "unforward" /\ dpc' = "delist",
           dnat' \in [Programs -> Nat], fwd' \in [Programs -> Nat], RulesFollowList'
    PROVE  DaemonInv'
<1>1. TypeOK' /\ JailorsAtWork'
  BY DEF DaemonInv, TypeOK, JailorTypeOK, JailorsAtWork, jails, DaemonPCs
<1>2. EntryInHand'
  BY SameList DEF DaemonInv, EntryInHand
<1>3. EntriesSpawned' /\ EndsInOrder' /\ EveryJailorListed'
  BY DEF DaemonInv, EntriesSpawned, Spawned, EndsInOrder, EveryJailorListed, JailorAlive, Armed, jails
<1> QED BY <1>1, <1>2, <1>3 DEF DaemonInv

LEMMA StartSteps ==
    ASSUME DaemonInv, RunConfiger \/ AddDnat \/ AddForward
    PROVE  DaemonInv'
<1> USE DEF At, Proceed
<1>1. CASE RunConfiger
  <2>1. RulesFollowList'
    BY <1>1, RulesKept DEF RunConfiger, DaemonInv
  <2> QED BY <1>1, <2>1, ProceedStep DEF RunConfiger, DaemonInv, TypeOK
<1>2. \A p : Cardinality(EntriesOf(p)) \in Nat
  BY Unpack, EntriesFinite
<1>3. CASE AddDnat
  <2>1. /\ entry.prog \in Programs /\ dnat' \in [Programs -> Nat] /\ fwd' = fwd
        /\ "iptables" \notin Faults => dnat' = [dnat EXCEPT ![entry.prog] = dnat[entry.prog] + 1]
    BY <1>3 DEF AddDnat, Appended, DaemonInv, TypeOK, EntryInHand
  <2>2. RulesFollowList'
    BY <1>2, <1>3, <2>1, SameList DEF AddDnat, DaemonInv, TypeOK, RulesFollowList, InHand
  <2> QED BY <1>3, <2>1, <2>2, ProceedStep DEF AddDnat, DaemonInv, TypeOK
<1>4. CASE AddForward
  <2>1. /\ entry.prog \in Programs /\ fwd' \in [Programs -> Nat] /\ dnat' = dnat
        /\ "iptables" \notin Faults => fwd' = [fwd EXCEPT ![entry.prog] = fwd[entry.prog] + 1]
    BY <1>4 DEF AddForward, Appended, DaemonInv, TypeOK, EntryInHand
  <2>2. RulesFollowList'
    BY <1>2, <1>4, <2>1, SameList DEF AddForward, DaemonInv, TypeOK, RulesFollowList, InHand
  <2> QED BY <1>4, <2>1, <2>2, ProceedStep DEF AddForward, DaemonInv, TypeOK
<1> QED BY <1>1, <1>3, <1>4

LEMMA StopSteps ==
    ASSUME DaemonInv, WaitJailor \/ DeleteDnat \/ DeleteForward
    PROVE  DaemonInv'
<1> USE DEF At, Proceed
<1>1. CASE WaitJailor
  <2>1. RulesFollowList'
    BY <1>1, RulesKept DEF WaitJailor, DaemonInv
  <2> QED BY <1>1, <2>1, ProceedStep DEF WaitJailor, DaemonInv, TypeOK
<1>2. \A p : Cardinality(EntriesOf(p)) \in Nat /\ (EntriesOf(p) # {} => Cardinality(EntriesOf(p)) > 0)
  BY Unpack, EntriesFinite
<1>3. CASE DeleteDnat
  <2>1. /\ entry.prog \in Programs /\ EntriesOf(entry.prog) # {}
        /\ dnat' \in [Programs -> Nat] /\ fwd' = fwd
        /\ "iptables" \notin Faults =>
             dnat' = [dnat EXCEPT ![entry.prog] = IF dnat[entry.prog] = 0 THEN 0 ELSE dnat[entry.prog] - 1]
    BY <1>3 DEF DeleteDnat, Deleted, DaemonInv, TypeOK, EntryInHand
  <2>2. RulesFollowList'
    BY <1>2, <1>3, <2>1, SameList DEF DeleteDnat, DaemonInv, TypeOK, RulesFollowList, InHand
  <2> QED BY <1>3, <2>1, <2>2, ProceedStep DEF DeleteDnat, DaemonInv, TypeOK
<1>4. CASE DeleteForward
  <2>1. /\ entry.prog \in Programs /\ EntriesOf(entry.prog) # {}
        /\ fwd' \in [Programs -> Nat] /\ dnat' = dnat
        /\ "iptables" \notin Faults =>
             fwd' = [fwd EXCEPT ![entry.prog] = IF fwd[entry.prog] = 0 THEN 0 ELSE fwd[entry.prog] - 1]
    BY <1>4 DEF DeleteForward, Deleted, DaemonInv, TypeOK, EntryInHand
  <2>2. RulesFollowList'
    BY <1>2, <1>4, <2>1, SameList DEF DeleteForward, DaemonInv, TypeOK, RulesFollowList, InHand
  <2> QED BY <1>4, <2>1, <2>2, ProceedStep DEF DeleteForward, DaemonInv, TypeOK
<1> QED BY <1>1, <1>3, <1>4

LEMMA ForkStep ==
    ASSUME DaemonInv, ForkJailor
    PROVE  DaemonInv'
<1>1. PICK j \in Jails :
        /\ jpc[j] = "unused" /\ jpc' = [jpc EXCEPT ![j] = "config"]
        /\ prog' = [prog EXCEPT ![j] = entry.prog]
        /\ UNCHANGED <<cpc, copied, root, files, evicted, veth>>
        /\ entry' = [entry EXCEPT !.pid = j]
  BY DEF ForkJailor, Spawn, JailorGoto, disk
<1>2. /\ dpc = "jailor" /\ dpc' = "dnat"
      /\ UNCHANGED <<client, answer, list, dnat, fwd, request, armed, exited>>
      /\ entry.prog \in Programs /\ entry.pid = None
  BY DEF ForkJailor, At, DaemonInv, EntryInHand
<1>3. entry' = [prog |-> entry.prog, pid |-> j] /\ entry' \in Entries
  BY <1>1, <1>2, Unpack DEF Entries
<1>4. \A i \in DOMAIN list : list[i].pid # j
  BY <1>1, Unpack DEF DaemonInv, EntriesSpawned, Spawned
<1>5. JailorTypeOK' /\ JailorsAtWork'
  BY <1>1, <1>2, Unpack DEF JailorTypeOK, JailorsAtWork, JailorPCs
<1>6. TypeOK'
  BY <1>2, <1>3, <1>5 DEF DaemonInv, TypeOK, DaemonPCs, Entries
<1>7. EntryInHand'
  BY <1>2, <1>3, <1>4 DEF DaemonInv, EntryInHand
<1>8. EntriesSpawned'
  BY <1>1, <1>2, <1>3, <1>4, Unpack DEF DaemonInv, EntriesSpawned, Spawned, JailorTypeOK
<1>9. EndsInOrder'
  BY <1>1, <1>2, Unpack DEF DaemonInv, EndsInOrder, JailorTypeOK
<1>10. EveryJailorListed'
  <2>1. prog'[j] = entry.prog /\ \A k \in Jails : k # j => prog'[k] = prog[k] /\ jpc'[k] = jpc[k]
    BY <1>1, Unpack DEF JailorTypeOK
  <2>2. ASSUME NEW k \in Jails, JailorAlive(k)', ~exited, k # j
        PROVE  \E i \in DOMAIN list : list[i] = [prog |-> prog[k], pid |-> k]
    <3>1. JailorAlive(k)
      BY <2>1, <2>2 DEF JailorAlive
    <3> QED BY <1>2, <2>2, <3>1, Unpack DEF DaemonInv, EveryJailorListed
  <2>3. entry' = [prog |-> prog'[j], pid |-> j]
    BY <1>3, <2>1
  <2>4. \A i, k \in DOMAIN list : list[i].pid = list[k].pid => i = k
    BY DEF DaemonInv, EveryJailorListed
  <2> QED BY <1>2, <2>1, <2>2, <2>3, <2>4 DEF EveryJailorListed
<1>11. RulesFollowList'
  <2>1. entry'.prog = entry.prog
    BY <1>3
  <2> QED BY <1>2, <2>1, RulesKept DEF DaemonInv
<1> QED BY <1>5, <1>6, <1>7, <1>8, <1>9, <1>10, <1>11 DEF DaemonInv

LEMMA KillStep ==
    ASSUME DaemonInv, Kill
    PROVE  DaemonInv'
<1>1. /\ dpc = "kill" /\ dpc' = "waitpid" /\ Terminate(entry.pid) /\ armed' = Armed(entry.pid)
      /\ UNCHANGED <<client, entry, answer, list, dnat, fwd, request, exited>>
  BY DEF Kill, At, Proceed
<1>2. entry.pid \in Jails
  BY <1>1, Unpack
<1>3. JailorsMove
  BY <1>1, <1>2, StepMoves, Unpack DEF DaemonInv, EndsInOrder
<1>4. JailorTypeOK' /\ JailorsAtWork'
  <2>1. /\ \/ jpc' = jpc
           \/ jpc' = [jpc EXCEPT ![entry.pid] = "gone"] /\ jpc[entry.pid] # "unused"
        /\ cpc' = cpc \/ cpc' = [cpc EXCEPT ![entry.pid] = "dead"]
        /\ UNCHANGED <<prog, copied, root, files, evicted, veth>>
    BY <1>1 DEF Terminate, JailorGoto, ChildGoto, JailorAlive, disk
  <2>2. jpc' \in [Jails -> JailorPCs] /\ cpc' \in [Jails -> ChildPCs]
    <3>1. "gone" \in JailorPCs /\ "dead" \in ChildPCs
      BY DEF JailorPCs, ChildPCs
    <3>2. jpc \in [Jails -> JailorPCs] /\ cpc \in [Jails -> ChildPCs]
      BY Unpack DEF JailorTypeOK
    <3> QED BY <1>2, <2>1, <3>1, <3>2
  <2>3. \A j \in Jails : /\ jpc'[j] # "unused" => jpc[j] # "unused"
                         /\ jpc'[j] = "copying" => jpc[j] = "copying"
    BY <1>2, <2>1, Unpack DEF JailorTypeOK
  <2> QED BY <2>1, <2>2, <2>3, Unpack DEF JailorTypeOK, JailorsAtWork
<1>5. TypeOK'
  BY <1>1, <1>4 DEF DaemonInv, TypeOK, DaemonPCs, Armed
<1>6. EntryInHand'
  BY <1>1, SameList DEF DaemonInv, EntryInHand
<1>7. EntriesSpawned'
  BY <1>1, <1>3, Unpack DEF DaemonInv, EntriesSpawned, Spawned, JailorsMove
<1>8. EndsInOrder'
  BY <1>1, <1>2, <1>3 DEF EndsInOrder, JailorsMove, Armed
<1>9. EveryJailorListed'
  <2>1. \A j \in Jails : JailorAlive(j)' => JailorAlive(j)
    BY <1>3 DEF JailorsMove, JailorAlive
  <2> QED BY <1>1, <1>3, <2>1 DEF DaemonInv, EveryJailorListed, JailorsMove
<1>10. RulesFollowList'
  BY <1>1, RulesKept DEF DaemonInv
<1> QED BY <1>4, <1>5, <1>6, <1>7, <1>8, <1>9, <1>10 DEF DaemonInv

(* A start or a stop ends, or fails before the jailor was forked. *)
LEMMA EndSteps ==
    ASSUME DaemonInv, ForkFails \/ Enlist \/ Delist
    PROVE  DaemonInv'
<1>1. PICK a \in Answers : Done(a)
  BY DEF ForkFails, Enlist, Delist, Answers
<1>2. /\ dpc' = "accept" /\ client' = None /\ entry' = NoEntry
      /\ UNCHANGED <<jails, dnat, fwd, request, armed, exited>>
  BY <1>1 DEF Done, ForkFails, Enlist, Delist, At
<1>3. answer' \in [Clients -> Answers]
  BY <1>1 DEF Done, Reply, DaemonInv, TypeOK
<1>4. NoEntry.pid = None /\ NoEntry.prog = None /\ NoEntry.prog \notin Programs
  BY Unpack DEF NoEntry
<1>5. ASSUME list' \in Seq(Entries), \A i \in DOMAIN list' : Spawned(list'[i]),
             EveryJailorListed', RulesFollowList'
      PROVE  DaemonInv'
  <2>1. TypeOK' /\ JailorsAtWork'
    BY <1>2, <1>3, <1>5 DEF DaemonInv, TypeOK, JailorTypeOK, JailorsAtWork, jails, DaemonPCs, NoEntry
  <2>2. EntryInHand' /\ EndsInOrder'
    BY <1>2 DEF DaemonInv, EntryInHand, EndsInOrder, jails
  <2>3. EntriesSpawned'
    BY <1>2, <1>4, <1>5 DEF EntriesSpawned, Spawned, jails
  <2> QED BY <1>5, <2>1, <2>2, <2>3 DEF DaemonInv
<1>6. \A p : Cardinality(EntriesOf(p)) \in Nat
  BY Unpack, EntriesFinite
<1>7. CASE ForkFails
  <2>1. list' = list /\ entry.pid = None /\ dpc \in {"configer", "jailor"}
    BY <1>7 DEF ForkFails, At, DaemonInv, EntryInHand
  <2>2. EveryJailorListed'
    BY <1>2, <2>1, Unpack DEF DaemonInv, EveryJailorListed, JailorAlive, jails
  <2>3. RulesFollowList'
    BY <1>2, <2>1, RulesKept DEF DaemonInv
  <2> QED BY <1>5, <2>1, <2>2, <2>3, Unpack DEF DaemonInv, EntriesSpawned
<1>8. CASE Enlist
  <2>1. /\ dpc = "enlist" /\ list' = <<entry>> \o list /\ entry \in Entries
        /\ \A i \in DOMAIN list : list[i].pid # entry.pid
    BY <1>8 DEF Enlist, At, DaemonInv, EntryInHand
  <2>2. /\ list' \in Seq(Entries) /\ Len(list') = Len(list) + 1 /\ list'[1] = entry
        /\ \A i \in 1..Len(list) : list'[i + 1] = list[i]
        /\ \A p : Cardinality(EntriesOf(p)') =
                    Cardinality(EntriesOf(p)) + IF p = entry.prog THEN 1 ELSE 0
    BY <2>1, Enlisted, Unpack
  <2>3. DOMAIN list = 1..Len(list) /\ Len(list) \in Nat /\ DOMAIN list' = 1..(Len(list) + 1)
    BY <2>2, Unpack, LenProperties
  <2>4. \A m \in DOMAIN list' :
          \/ m = 1 /\ list'[m] = entry
          \/ m - 1 \in DOMAIN list /\ list'[m] = list[m - 1]
    <3> SUFFICES ASSUME NEW m \in DOMAIN list', m # 1
                 PROVE  m - 1 \in DOMAIN list /\ list'[m] = list[m - 1]
      BY <2>2
    <3>1. m - 1 \in 1..Len(list) /\ (m - 1) + 1 = m
      BY <2>3
    <3> QED BY <2>2, <2>3, <3>1
  <2>5. \A i \in DOMAIN list' : Spawned(list'[i])
    BY <2>1, <2>4, Unpack DEF DaemonInv, EntriesSpawned, Entries
  <2>6. EveryJailorListed'
    <3>1. ASSUME NEW j \in Jails, JailorAlive(j), ~exited
          PROVE  \E i \in DOMAIN list' : list'[i] = [prog |-> prog[j], pid |-> j]
      <4>1. CASE entry = [prog |-> prog[j], pid |-> j]
        BY <2>2, <2>3, <4>1
      <4>2. CASE \E i \in DOMAIN list : list[i] = [prog |-> prog[j], pid |-> j]
        <5> PICK i \in DOMAIN list : list[i] = [prog |-> prog[j], pid |-> j]
          BY <4>2
        <5>1. i + 1 \in DOMAIN list' /\ list'[i + 1] = list[i]
          BY <2>2, <2>3
        <5> QED BY <5>1
      <4> QED BY <3>1, <4>1, <4>2 DEF DaemonInv, EveryJailorListed
    <3>2. ASSUME NEW i \in DOMAIN list', NEW k \in DOMAIN list', list'[i].pid = list'[k].pid
          PROVE  i = k
      <4>1. CASE i # 1 /\ k # 1
        <5>1. i - 1 = k - 1
          BY <2>4, <3>2, <4>1 DEF DaemonInv, EveryJailorListed
        <5> QED BY <2>3, <5>1
      <4>2. CASE i = 1 \/ k = 1
        BY <2>1, <2>4, <3>2, <4>2
      <4> QED BY <4>1, <4>2
    <3> QED BY <1>2, <3>1, <3>2 DEF EveryJailorListed, JailorAlive, jails
  <2>7. RulesFollowList'
    BY <1>2, <1>4, <1>6, <2>1, <2>2 DEF DaemonInv, TypeOK, RulesFollowList, InHand
  <2> QED BY <1>5, <2>2, <2>5, <2>6, <2>7
<1>9. CASE Delist
  <2> PICK k : k = FindProgram(entry.prog)
    OBVIOUS
  <2>1. /\ dpc = "delist" /\ list' = RemoveAt(list, k) /\ k \in 1..Len(list)
        /\ entry = list[k] /\ entry \in Entries /\ jpc[entry.pid] = "gone"
    BY <1>9, FindFacts, Unpack DEF Delist, At, DaemonInv, EntryInHand, EndsInOrder
  <2>2. /\ list' \in Seq(Entries) /\ Len(list') = Len(list) - 1
        /\ \A i \in 1..(Len(list) - 1) : list'[i] = IF i < k THEN list[i] ELSE list[i + 1]
        /\ \A i \in 1..Len(list) : i # k => \E m \in 1..(Len(list) - 1) : list'[m] = list[i]
        /\ \A p : Cardinality(EntriesOf(p)') =
                    Cardinality(EntriesOf(p)) - IF p = list[k].prog THEN 1 ELSE 0
    BY <2>1, Delisted, Unpack
  <2>3. DOMAIN list = 1..Len(list) /\ Len(list) \in Nat /\ DOMAIN list' = 1..(Len(list) - 1)
    BY <2>2, Unpack, LenProperties
  <2> DEFINE From(i) == IF i < k THEN i ELSE i + 1
  <2>4. \A i \in DOMAIN list' : From(i) \in DOMAIN list /\ list'[i] = list[From(i)]
    <3> SUFFICES ASSUME NEW i \in 1..(Len(list) - 1)
                 PROVE  From(i) \in DOMAIN list /\ list'[i] = list[From(i)]
      BY <2>3
    <3>1. CASE i < k
      BY <2>2, <2>3, <3>1
    <3>2. CASE ~(i < k)
      BY <2>2, <2>3, <3>2
    <3> QED BY <3>1, <3>2
  <2>5. \A i \in DOMAIN list' : Spawned(list'[i])
    BY <2>4 DEF DaemonInv, EntriesSpawned
  <2>6. EveryJailorListed'
    <3>1. ASSUME NEW j \in Jails, JailorAlive(j), ~exited
          PROVE  \E i \in DOMAIN list' : list'[i] = [prog |-> prog[j], pid |-> j]
      <4>1. PICK i \in DOMAIN list : list[i] = [prog |-> prog[j], pid |-> j]
        BY <2>1, <2>3, <3>1 DEF DaemonInv, EveryJailorListed
      <4>2. i # k
        BY <2>1, <3>1, <4>1 DEF JailorAlive
      <4> QED BY <2>2, <2>3, <4>1, <4>2
    <3>2. ASSUME NEW i \in DOMAIN list', NEW m \in DOMAIN list', list'[i].pid = list'[m].pid
          PROVE  i = m
      <4>1. From(i) = From(m)
        <5> HIDE DEF From
        <5> QED BY <2>4, <3>2 DEF DaemonInv, EveryJailorListed
      <4> QED BY <2>1, <2>3, <4>1
    <3> QED BY <1>2, <3>1, <3>2 DEF EveryJailorListed, JailorAlive, jails
  <2>7. RulesFollowList'
    <3>1. \A p : Cardinality(EntriesOf(p)') =
                  Cardinality(EntriesOf(p)) - IF p = entry.prog THEN 1 ELSE 0
      BY <2>1, <2>2
    <3> QED BY <1>2, <1>4, <1>6, <2>1, <3>1 DEF DaemonInv, TypeOK, RulesFollowList, InHand
  <2> QED BY <1>5, <2>2, <2>5, <2>6, <2>7
<1> QED BY <1>7, <1>8, <1>9

LEMMA ExitStep ==
    ASSUME DaemonInv, Exit
    PROVE  DaemonInv'
<1>1. /\ dpc' = "exited" /\ client' = None /\ entry' = NoEntry /\ list' = <<>> /\ exited' = TRUE
      /\ UNCHANGED <<jails, dnat, fwd, request, armed>>
  BY DEF Exit
<1>2. answer' \in [Clients -> Answers]
  BY DEF Exit, Reply, DaemonInv, TypeOK, Answers
<1>3. list' \in Seq(Entries) /\ DOMAIN list' = {}
  BY <1>1
<1>4. TypeOK' /\ JailorsAtWork'
  BY <1>1, <1>2, <1>3 DEF DaemonInv, TypeOK, JailorTypeOK, JailorsAtWork, jails, DaemonPCs, NoEntry
<1>5. EntryInHand' /\ EndsInOrder'
  BY <1>1 DEF DaemonInv, EntryInHand, EndsInOrder, jails
<1>6. EntriesSpawned' /\ EveryJailorListed' /\ RulesFollowList'
  BY <1>1, <1>3 DEF EntriesSpawned, EveryJailorListed, RulesFollowList, NoEntry
<1> QED BY <1>4, <1>5, <1>6 DEF DaemonInv

LEMMA NamespaceStep ==
    ASSUME DaemonInv, NEW p \in Programs, Beside(NamespaceGone(p))
    PROVE  DaemonInv'
<1>1. /\ UNCHANGED <<prog, jpc, cpc, copied, root, files, evicted>>
      /\ UNCHANGED daemon /\ veth' = [veth EXCEPT ![p] = "none"]
  BY DEF Beside, NamespaceGone, disk
<1>2. JailorTypeOK' /\ JailorsAtWork' /\ JailorsMove
  BY <1>1 DEF DaemonInv, TypeOK, EndsInOrder, JailorTypeOK, JailorsAtWork, JailorsMove, Armed
<1> QED BY <1>1, <1>2, BesideStep

LEMMA NextInv == DaemonInv /\ [Next]_vars => DaemonInv'
<1> SUFFICES ASSUME DaemonInv, [Next]_vars PROVE DaemonInv'
  OBVIOUS
<1>1. ASSUME NEW c \in Clients, NEW q \in Commands, Connect(c, q) PROVE DaemonInv'
  BY <1>1, RequestsStep DEF Connect, DaemonInv, TypeOK
<1>2. CASE Daemon
  BY <1>2, AcceptStep, StartSteps, ForkStep, EndSteps, KillStep, StopSteps DEF Daemon
<1>3. CASE (\E c \in Clients : HangUp(c)) \/ ForkFails \/ Exit
  BY <1>3, AcceptStep, EndSteps, ExitStep
<1>4. CASE Restart
  <2>1. answer' \in [Clients -> Answers]
    BY <1>4 DEF Restart, DaemonInv, TypeOK, Answers
  <2> QED BY <1>4, <2>1, RequestsStep DEF Restart, DaemonInv, TypeOK
<1>5. ASSUME NEW j \in Jails,
             Beside(JailorStep(j)) \/ Beside(ChildStep(j)) \/ Beside(Mishap(j))
      PROVE  DaemonInv'
  <2>1. /\ JailorStep(j) \/ ChildStep(j) \/ Mishap(j)
        /\ UNCHANGED daemon
    BY <1>5 DEF Beside
  <2>2. JailorTypeOK' /\ JailorsAtWork'
    BY <2>1, JailorTypesStep, Unpack
  <2>3. JailorsMove
    BY <2>1, StepMoves, Unpack DEF DaemonInv, EndsInOrder
  <2> QED BY <2>1, <2>2, <2>3, BesideStep
<1>6. ASSUME NEW p \in Programs, Beside(NamespaceGone(p)) PROVE DaemonInv'
  BY <1>6, NamespaceStep
<1>7. CASE UNCHANGED vars
  <2>1. /\ UNCHANGED <<jails, client, entry, list, dnat, fwd, armed, exited>>
        /\ UNCHANGED <<dpc, request, answer>>
    BY <1>7 DEF vars, daemon
  <2> QED BY <2>1, RequestsStep DEF DaemonInv, TypeOK
<1> QED BY <1>1, <1>2, <1>3, <1>4, <1>5, <1>6, <1>7 DEF Next

LEMMA InitInv == Init => DaemonInv
<1> SUFFICES ASSUME Init PROVE DaemonInv
  OBVIOUS
<1>1. list \in Seq(Entries) /\ DOMAIN list = {}
  BY DEF Init
<1>2. TypeOK /\ JailorsAtWork
  <2>1. /\ "unused" \in JailorPCs /\ "none" \in ChildPCs /\ "accept" \in DaemonPCs
        /\ "none" \in Answers /\ NFiles \in Nat
    BY JailorAssumption DEF JailorPCs, ChildPCs, DaemonPCs, Answers
  <2>2. files \in [Programs -> [1..NFiles -> {"absent", "whole"} \cup Jails]]
    BY DEF Init, JailorInit
  <2>3. JailorTypeOK
    BY <2>1, <2>2 DEF Init, JailorInit, JailorTypeOK
  <2>4. TypeOK
    BY <1>1, <2>1, <2>3 DEF Init, TypeOK, NoEntry
  <2> QED BY <2>4 DEF Init, JailorInit, JailorsAtWork
<1>3. EntryInHand /\ EntriesSpawned /\ EndsInOrder
  BY <1>1 DEF Init, JailorInit, EntryInHand, EntriesSpawned, EndsInOrder, NoEntry
<1>4. EveryJailorListed
  BY <1>1 DEF Init, JailorInit, EveryJailorListed, JailorAlive
<1>5. RulesFollowList
  <2>1. \A p : EntriesOf(p) = {}
    BY <1>1 DEF EntriesOf
  <2>2. Cardinality({}) = 0
    BY FS_EmptySet
  <2>3. \A p \in Programs : dnat[p] = 0 /\ fwd[p] = 0 /\ entry.prog # p
    BY JailorAssumption DEF Init, NoEntry
  <2> QED BY <2>1, <2>2, <2>3 DEF RulesFollowList, InHand
<1> QED BY <1>2, <1>3, <1>4, <1>5 DEF DaemonInv

----------------------------------------------------------------------------
(* The theorems. *)

(* The invariant of the daemon and its jailors: what it has in hand fits the  *)
(* list, every entry leads to a process of its program, and a jailor that was *)
(* signalled in time ends after its child (sdeamon.c:95-231, jailor.c:384-431). *)
THEOREM InductiveInvariant == Spec => []DaemonInv
BY InitInv, NextInv, PTL DEF Spec

(* Every variable keeps its type (sdeamon.c:19-32, jailor.c:384-431). *)
THEOREM TypeCorrect == Spec => []TypeOK
<1>1. DaemonInv => TypeOK
  BY DEF DaemonInv
<1> QED BY <1>1, InductiveInvariant, PTL

(* The kernel's rules follow program_list: as many copies of each rule as     *)
(* entries, but for the command in hand (sdeamon.c:179-187, 211-224).         *)
THEOREM RulesAreTheList == Spec => []RulesFollowList
<1>1. DaemonInv => RulesFollowList
  BY DEF DaemonInv
<1> QED BY <1>1, InductiveInvariant, PTL

(* A living jailor is never forgotten and has one entry, as long as the       *)
(* daemon lives (sdeamon.c:186-187, 204-224).                                 *)
THEOREM NoJailorIsForgotten == Spec => []EveryJailorListed
<1>1. DaemonInv => EveryJailorListed
  BY DEF DaemonInv
<1> QED BY <1>1, InductiveInvariant, PTL

(* When the rules of a stopped program are taken away its server is dead,     *)
(* provided the signal found the jailor's handler installed                   *)
(* (sdeamon.c:206-216, jailor.c:409-414).                                     *)
THEOREM StopKillsTheServer == Spec => []StoppedMeansDead
<1>1. DaemonInv => StoppedMeansDead
  BY DEF DaemonInv, EndsInOrder, StoppedMeansDead, Alive, JailorAlive, ChildAlive, Armed
<1> QED BY <1>1, InductiveInvariant, PTL

----------------------------------------------------------------------------
(* With an operator who lets things settle (Careful) and jailors none of whose *)
(* calls fails.                                                                *)

(* The step of a jailor, in its own directory. *)

LEMMA FilesStay ==
    ASSUME NEW j \in Jails, copied'[j] = copied[j], jpc[j] # "copying", jpc'[j] # "copying"
    PROVE  FilesSoFar(j)' = FilesSoFar(j)
BY DEF FilesSoFar

LEMMA JailorUnderway ==
    ASSUME JailorTypeOK, JailorsAtWork, NEW j \in Jails, "jailor" \notin Faults,
           JailorAlive(j), Underway(j), JailorStep(j)
    PROVE  IF JailorAlive(j)' THEN Underway(j)' ELSE RemoveRoot(j)
<1>1. /\ prog \in [Jails -> Programs \cup {None}] /\ jpc \in [Jails -> JailorPCs]
      /\ cpc \in [Jails -> ChildPCs] /\ copied \in [Jails -> 0..NFiles]
      /\ root \in [Programs -> SUBSET Parts]
      /\ files \in [Programs -> [1..NFiles -> FileStates]]
      /\ evicted \subseteq Jails /\ veth \in [Programs -> {"none", "host"} \cup Jails]
      /\ NFiles \in Nat /\ prog[j] \in Programs
  BY JailorAssumption DEF JailorTypeOK, FileStates, JailorsAtWork, JailorAlive
<1>2. /\ files[prog[j]] = FilesSoFar(j) /\ root[prog[j]] = RootSoFar(j)
      /\ jpc[j] \in {"config", "root", "dirs"} => copied[j] = 0
      /\ jpc[j] \in {"veth", "clone", "wire", "arm", "wait", "clean"} => copied[j] = NFiles
      /\ cpc[j] = "none" <=>
           jpc[j] \in {"config", "root", "dirs", "copy", "copying", "veth", "clone"}
  BY DEF Underway
<1> USE DEF JailorGoto, JailorAlive, disk
<1>3. CASE ReadConfig(j)
  <2>1. /\ jpc[j] = "config" /\ jpc'[j] = "root"
        /\ UNCHANGED <<prog, cpc, copied, root, files, evicted, veth>>
    BY <1>1, <1>3 DEF ReadConfig
  <2>2. FilesSoFar(j)' = FilesSoFar(j) /\ RootSoFar(j)' = RootSoFar(j)
    BY <2>1, FilesStay DEF RootSoFar
  <2> QED BY <1>2, <2>1, <2>2 DEF Underway, ChildAlive
<1>4. CASE MakeRoot(j)
  <2>1. /\ jpc[j] = "root" /\ jpc'[j] = "dirs" /\ root'[prog[j]] = root[prog[j]] \cup {"dir"}
        /\ UNCHANGED <<prog, cpc, copied, files, evicted, veth>>
    BY <1>1, <1>4 DEF MakeRoot, PutInRoot, InRoot
  <2>2. FilesSoFar(j)' = FilesSoFar(j)
    BY <2>1, FilesStay
  <2>3. root'[prog[j]] = RootSoFar(j)'
    BY <1>2, <2>1 DEF RootSoFar
  <2> QED BY <1>2, <2>1, <2>2, <2>3 DEF Underway, ChildAlive
<1>5. CASE CreateDirectories(j)
  <2>1. "dir" \in InRoot(j)
    BY <1>2, <1>5 DEF CreateDirectories, InRoot, RootSoFar
  <2>2. /\ jpc[j] = "dirs" /\ jpc'[j] = "copy"
        /\ UNCHANGED <<prog, cpc, copied, root, files, evicted, veth>>
    BY <1>1, <1>5, <2>1 DEF CreateDirectories
  <2>3. FilesSoFar(j)' = FilesSoFar(j) /\ RootSoFar(j)' = RootSoFar(j)
    BY <2>2, FilesStay DEF RootSoFar
  <2> QED BY <1>2, <2>2, <2>3 DEF Underway, ChildAlive
<1>6. CASE SkipFile(j)
  <2>1. copied[j] + 1 \in 1..NFiles /\ copied[j] \in Nat
    BY <1>1, <1>6 DEF SkipFile
  <2>2. File(j) = "absent"
    BY <1>2, <1>6, <2>1 DEF SkipFile, File, FilesSoFar
  <2> QED BY <1>6, <2>2 DEF SkipFile
<1>7. CASE StartCopy(j)
  <2>1. copied[j] + 1 \in 1..NFiles /\ copied[j] \in Nat
    BY <1>1, <1>7 DEF StartCopy
  <2>2. /\ jpc[j] = "copy" /\ jpc'[j] = "copying" /\ root'[prog[j]] = root[prog[j]] \cup {"dir"}
        /\ UNCHANGED <<prog, cpc, copied, evicted, veth>>
        /\ files'[prog[j]] = [files[prog[j]] EXCEPT ![copied[j] + 1] = j]
    BY <1>1, <1>7 DEF StartCopy, PutInRoot, InRoot, PutFile
  <2>3. root'[prog[j]] = RootSoFar(j)'
    BY <1>2, <2>2 DEF RootSoFar
  <2>4. files'[prog[j]] = FilesSoFar(j)'
    <3>1. files[prog[j]] = [k \in 1..NFiles |-> IF k <= copied[j] THEN "whole" ELSE "absent"]
      BY <1>2, <2>2 DEF FilesSoFar
    <3>2. FilesSoFar(j)' = [k \in 1..NFiles |-> IF k <= copied[j] THEN "whole"
                                                 ELSE IF k = copied[j] + 1 THEN j ELSE "absent"]
      BY <2>2 DEF FilesSoFar
    <3>3. files'[prog[j]] = [k \in 1..NFiles |-> IF k = copied[j] + 1 THEN j ELSE files[prog[j]][k]]
      BY <1>1, <2>2
    <3>4. \A k \in 1..NFiles :
            (IF k = copied[j] + 1 THEN j ELSE files[prog[j]][k])
              = (IF k <= copied[j] THEN "whole" ELSE IF k = copied[j] + 1 THEN j ELSE "absent")
      BY <2>1, <3>1
    <3> QED BY <3>2, <3>3, <3>4
  <2> QED BY <1>2, <2>2, <2>3, <2>4 DEF Underway, ChildAlive
<1>8. CASE EndCopy(j)
  <2>1. copied[j] + 1 \in 1..NFiles /\ copied[j] \in Nat
    BY <1>1, <1>8 DEF EndCopy, JailorsAtWork
  <2>2. File(j) = j
    BY <1>2, <1>8, <2>1 DEF EndCopy, File, FilesSoFar
  <2>3. /\ jpc[j] = "copying" /\ jpc'[j] = "copy" /\ copied'[j] = copied[j] + 1
        /\ UNCHANGED <<prog, cpc, root, evicted, veth>>
        /\ files'[prog[j]] = [files[prog[j]] EXCEPT ![copied[j] + 1] = "whole"]
    BY <1>1, <1>8, <2>2 DEF EndCopy, PutFile
  <2>4. RootSoFar(j)' = RootSoFar(j)
    BY <2>3 DEF RootSoFar
  <2>5. files'[prog[j]] = FilesSoFar(j)'
    <3>1. files[prog[j]] = [k \in 1..NFiles |-> IF k <= copied[j] THEN "whole"
                                                 ELSE IF k = copied[j] + 1 THEN j ELSE "absent"]
      BY <1>2, <2>3 DEF FilesSoFar
    <3>2. FilesSoFar(j)' = [k \in 1..NFiles |-> IF k <= copied[j] + 1 THEN "whole" ELSE "absent"]
      BY <2>3 DEF FilesSoFar
    <3>3. files'[prog[j]] =
            [k \in 1..NFiles |-> IF k = copied[j] + 1 THEN "whole" ELSE files[prog[j]][k]]
      BY <1>1, <2>3
    <3>4. \A k \in 1..NFiles :
            (IF k = copied[j] + 1 THEN "whole" ELSE files[prog[j]][k])
              = (IF k <= copied[j] + 1 THEN "whole" ELSE "absent")
      BY <2>1, <3>1
    <3> QED BY <3>2, <3>3, <3>4
  <2> QED BY <1>2, <2>3, <2>4, <2>5 DEF Underway, ChildAlive
<1>9. CASE CopiesDone(j)
  <2>1. /\ jpc[j] = "copy" /\ jpc'[j] = "veth" /\ copied[j] = NFiles
        /\ UNCHANGED <<prog, cpc, copied, root, files, evicted, veth>>
    BY <1>1, <1>9 DEF CopiesDone
  <2>2. FilesSoFar(j)' = FilesSoFar(j) /\ RootSoFar(j)' = RootSoFar(j)
    BY <2>1, FilesStay DEF RootSoFar
  <2> QED BY <1>2, <2>1, <2>2 DEF Underway, ChildAlive
<1>10. CASE AddVeth(j)
  <2>1. /\ jpc[j] = "veth" /\ jpc'[j] = "clone"
        /\ UNCHANGED <<prog, cpc, copied, root, files, evicted>>
    BY <1>1, <1>2, <1>10 DEF AddVeth
  <2>2. FilesSoFar(j)' = FilesSoFar(j) /\ RootSoFar(j)' = RootSoFar(j)
    BY <2>1, FilesStay DEF RootSoFar
  <2> QED BY <1>2, <2>1, <2>2 DEF Underway, ChildAlive
<1>11. CASE Clone(j)
  <2>1. /\ jpc[j] = "clone" /\ jpc'[j] = "wire" /\ cpc'[j] = "mount"
        /\ UNCHANGED <<prog, copied, root, files, evicted, veth>>
    BY <1>1, <1>11 DEF Clone, ChildGoto
  <2>2. FilesSoFar(j)' = FilesSoFar(j)
    BY <2>1, FilesStay
  <2>3. RootSoFar(j)' = RootSoFar(j)
    BY <1>2, <2>1 DEF RootSoFar
  <2> QED BY <1>2, <2>1, <2>2, <2>3 DEF Underway, ChildAlive
<1>12. CASE MoveVeth(j)
  <2>1. /\ jpc[j] = "wire" /\ jpc'[j] = "arm"
        /\ UNCHANGED <<prog, cpc, copied, root, files, evicted>>
    BY <1>1, <1>2, <1>12 DEF MoveVeth
  <2>2. FilesSoFar(j)' = FilesSoFar(j) /\ RootSoFar(j)' = RootSoFar(j)
    BY <2>1, FilesStay DEF RootSoFar
  <2> QED BY <1>2, <2>1, <2>2 DEF Underway, ChildAlive
<1>13. CASE InstallHandlers(j)
  <2>1. /\ jpc[j] = "arm" /\ jpc'[j] = "wait"
        /\ UNCHANGED <<prog, cpc, copied, root, files, evicted, veth>>
    BY <1>1, <1>13 DEF InstallHandlers
  <2>2. FilesSoFar(j)' = FilesSoFar(j) /\ RootSoFar(j)' = RootSoFar(j)
    BY <2>1, FilesStay DEF RootSoFar
  <2> QED BY <1>2, <2>1, <2>2 DEF Underway, ChildAlive
<1>14. CASE ChildDied(j)
  <2>1. /\ jpc[j] = "wait" /\ jpc'[j] = "clean"
        /\ UNCHANGED <<prog, cpc, copied, root, files, evicted, veth>>
    BY <1>1, <1>14 DEF ChildDied
  <2>2. FilesSoFar(j)' = FilesSoFar(j) /\ RootSoFar(j)' = RootSoFar(j)
    BY <2>1, FilesStay DEF RootSoFar
  <2> QED BY <1>2, <2>1, <2>2 DEF Underway, ChildAlive
<1>15. CASE RemoveRoot(j)
  BY <1>1, <1>15 DEF RemoveRoot
<1> QED BY <1>3, <1>4, <1>5, <1>6, <1>7, <1>8, <1>9, <1>10, <1>11, <1>12, <1>13, <1>14, <1>15
    DEF JailorStep

(* And of its child, which never meets what another one left. *)
LEMMA ChildUnderway ==
    ASSUME JailorTypeOK, JailorsAtWork, NEW j \in Jails, evicted = {},
           JailorAlive(j), Underway(j), ChildStep(j) \/ ServerDies(j)
    PROVE  /\ Underway(j)' /\ UNCHANGED <<jpc, files, evicted, veth>>
           /\ ChildAlive(j)
           /\ cpc'[j] = "dead" => cpc[j] \in {"boot", "serve"}
<1>1. /\ prog \in [Jails -> Programs \cup {None}] /\ jpc \in [Jails -> JailorPCs]
      /\ cpc \in [Jails -> ChildPCs] /\ copied \in [Jails -> 0..NFiles]
      /\ root \in [Programs -> SUBSET Parts]
      /\ NFiles \in Nat /\ prog[j] \in Programs
  BY JailorAssumption DEF JailorTypeOK, JailorsAtWork, JailorAlive
<1>2. /\ files[prog[j]] = FilesSoFar(j) /\ root[prog[j]] = RootSoFar(j)
      /\ jpc[j] \in {"config", "root", "dirs"} => copied[j] = 0
      /\ jpc[j] \in {"veth", "clone", "wire", "arm", "wait", "clean"} => copied[j] = NFiles
      /\ cpc[j] = "none" <=>
           jpc[j] \in {"config", "root", "dirs", "copy", "copying", "veth", "clone"}
  BY DEF Underway
<1>3. /\ UNCHANGED <<prog, jpc, copied, files, evicted, veth>>
      /\ cpc[j] \in {"mount", "pivot", "link", "exec", "boot", "serve"}
      /\ \E l \in ChildPCs \ {"none"} : cpc' = [cpc EXCEPT ![j] = l]
  BY DEF ChildStep, MakeOldRoot, PivotRoot, ConnectSymlinks, Exec, ServerReady, ServerDies,
    ChildDies, ChildGoto, disk, ChildPCs
<1>4. ChildAlive(j) /\ cpc'[j] # "none"
  BY <1>1, <1>3 DEF ChildAlive
<1>5. jpc[j] \notin {"config", "root", "dirs", "copy", "copying", "veth", "clone"}
  BY <1>2, <1>4 DEF ChildAlive
<1>6. FilesSoFar(j)' = FilesSoFar(j)
  BY <1>3 DEF FilesSoFar
<1>7. ASSUME root'[prog[j]] = RootSoFar(j)' PROVE Underway(j)'
  BY <1>2, <1>3, <1>4, <1>5, <1>6, <1>7 DEF Underway
<1>8. AllWhole(j)
  <2>1. copied[j] = NFiles
    <3>1. jpc[j] \in {"wire", "arm", "wait", "clean"}
      BY <1>1, <1>5 DEF JailorAlive, JailorPCs
    <3> QED BY <1>2, <3>1
  <2> QED BY <1>1, <1>2, <2>1 DEF AllWhole, FilesSoFar
<1> USE DEF ChildGoto, ChildDies, InRoot, PutInRoot
<1>9. CASE MakeOldRoot(j)
  <2>1. root[prog[j]] = {"dir"}
    BY <1>2, <1>5, <1>9 DEF MakeOldRoot, RootSoFar
  <2>2. cpc'[j] = "pivot" /\ root'[prog[j]] = {"dir", "old_root"}
    BY <1>1, <1>9, <2>1 DEF MakeOldRoot
  <2> QED BY <1>3, <1>4, <1>5, <1>7, <2>2 DEF RootSoFar
<1>10. CASE PivotRoot(j)
  <2>1. root[prog[j]] = {"dir", "old_root"}
    BY <1>2, <1>5, <1>10 DEF PivotRoot, RootSoFar
  <2>2. cpc'[j] = "link" /\ root'[prog[j]] = {"dir"}
    BY <1>1, <1>10, <2>1 DEF PivotRoot
  <2> QED BY <1>3, <1>4, <1>5, <1>7, <2>2 DEF RootSoFar
<1>11. CASE ConnectSymlinks(j)
  <2>1. root[prog[j]] = {"dir"}
    BY <1>2, <1>5, <1>11 DEF ConnectSymlinks, RootSoFar
  <2>2. CASE prog[j] \in Linked
    <3>1. cpc'[j] = "exec" /\ root'[prog[j]] = {"dir", "links"}
      BY <1>1, <1>11, <2>1, <2>2 DEF ConnectSymlinks
    <3> QED BY <1>3, <1>4, <1>5, <1>7, <2>2, <3>1 DEF RootSoFar
  <2>3. CASE prog[j] \notin Linked
    <3>1. cpc'[j] = "exec" /\ root'[prog[j]] = {"dir"}
      BY <1>1, <1>11, <2>1, <2>3 DEF ConnectSymlinks
    <3> QED BY <1>3, <1>4, <1>5, <1>7, <2>3, <3>1 DEF RootSoFar
  <2> QED BY <2>2, <2>3
<1>12. CASE Exec(j)
  <2>1. cpc[j] = "exec" /\ cpc'[j] = "boot" /\ root' = root
    BY <1>1, <1>8, <1>12 DEF Exec, disk
  <2> QED BY <1>2, <1>3, <1>4, <1>5, <1>7, <2>1 DEF RootSoFar
<1>13. CASE ServerReady(j) \/ ServerDies(j)
  <2>1. cpc[j] \in {"boot", "serve"} /\ cpc'[j] \in {"serve", "dead"} /\ root' = root
    BY <1>1, <1>13 DEF ServerReady, ServerDies, disk
  <2> QED BY <1>2, <1>3, <1>4, <1>5, <1>7, <2>1 DEF RootSoFar
<1> QED BY <1>9, <1>10, <1>11, <1>12, <1>13 DEF ChildStep

----------------------------------------------------------------------------
(* One sandbox of a program at a time. *)

(* What a step of one jailor or of its child leaves to the others. *)
OthersStay(j) ==
    /\ prog' = prog
    /\ \A k \in Jails \ {j} : jpc'[k] = jpc[k] /\ cpc'[k] = cpc[k] /\ copied'[k] = copied[k]
    /\ \A p \in Programs \ {prog[j]} : root'[p] = root[p] /\ files'[p] = files[p]

LEMMA StepsStayIn ==
    ASSUME JailorTypeOK, JailorsAtWork, NEW j \in Jails,
           JailorStep(j) \/ ChildStep(j) \/ ServerDies(j)
    PROVE  OthersStay(j)
<1>1. /\ prog \in [Jails -> Programs \cup {None}] /\ jpc \in [Jails -> JailorPCs]
      /\ cpc \in [Jails -> ChildPCs] /\ copied \in [Jails -> 0..NFiles]
      /\ root \in [Programs -> SUBSET Parts]
      /\ files \in [Programs -> [1..NFiles -> FileStates]]
      /\ veth \in [Programs -> {"none", "host"} \cup Jails]
  BY DEF JailorTypeOK, FileStates
<1> USE DEF JailorGoto, ChildGoto, PutInRoot, PutFile, disk
<1>2. CASE JailorStep(j)
  <2>1. prog' = prog
    BY <1>2 DEF JailorStep, ReadConfig, MakeRoot, CreateDirectories, SkipFile, StartCopy, EndCopy,
      CopiesDone, AddVeth, Clone, MoveVeth, InstallHandlers, ChildDied, RemoveRoot
  <2>2. \A k \in Jails \ {j} : jpc'[k] = jpc[k] /\ cpc'[k] = cpc[k] /\ copied'[k] = copied[k]
    BY <1>1, <1>2 DEF JailorStep, ReadConfig, MakeRoot, CreateDirectories, SkipFile, StartCopy,
      EndCopy, CopiesDone, AddVeth, Clone, MoveVeth, InstallHandlers, ChildDied, RemoveRoot
  <2>3. \A p \in Programs \ {prog[j]} : root'[p] = root[p] /\ files'[p] = files[p]
    BY <1>1, <1>2 DEF JailorStep, ReadConfig, MakeRoot, CreateDirectories, SkipFile, StartCopy,
      EndCopy, CopiesDone, AddVeth, Clone, MoveVeth, InstallHandlers, ChildDied, RemoveRoot
  <2> QED BY <2>1, <2>2, <2>3 DEF OthersStay
<1>3. CASE ChildStep(j) \/ ServerDies(j)
  BY <1>1, <1>3 DEF ChildStep, MakeOldRoot, PivotRoot, ConnectSymlinks, Exec, ServerReady,
    ServerDies, ChildDies, OthersStay
<1> QED BY <1>2, <1>3

LEMMA SandboxKept ==
    ASSUME JailorTypeOK, JailorsAtWork, OneSandbox, NEW j \in Jails, JailorAlive(j),
           OthersStay(j), evicted' = {}, jpc'[j] # "unused",
           JailorAlive(j)' => Underway(j)',
           ~JailorAlive(j)' => /\ cpc'[j] = "dead" /\ root'[prog[j]] = {}
                              /\ files'[prog[j]] = [k \in 1..NFiles |-> "absent"]
    PROVE  OneSandbox'
<1>1. /\ prog' = prog
      /\ \A k \in Jails \ {j} : jpc'[k] = jpc[k] /\ cpc'[k] = cpc[k] /\ copied'[k] = copied[k]
      /\ \A p \in Programs \ {prog[j]} :
            root'[p] = root[p] /\ files'[p] = files[p]
  BY DEF OthersStay
<1>2. \A k \in Jails : JailorAlive(k)' => JailorAlive(k)
  BY <1>1 DEF JailorAlive
<1>3. OneJailor'
  BY <1>1, <1>2 DEF OneSandbox, OneJailor
<1>4. ASSUME NEW k \in Jails, JailorAlive(k)', k # j PROVE Underway(k)'
  <2>1. JailorAlive(k) /\ Underway(k) /\ prog[k] # prog[j] /\ prog[k] \in Programs
    BY <1>2, <1>4 DEF OneSandbox, OneJailor, InTurn, JailorsAtWork, JailorAlive
  <2>2. /\ UNCHANGED <<prog[k], jpc[k], cpc[k], copied[k]>>
        /\ UNCHANGED <<root[prog[k]], files[prog[k]]>>
    BY <1>1, <1>4, <2>1
  <2>3. FilesSoFar(k)' = FilesSoFar(k) /\ RootSoFar(k)' = RootSoFar(k)
    BY <2>2 DEF FilesSoFar, RootSoFar
  <2> QED BY <2>1, <2>2, <2>3 DEF Underway, ChildAlive
<1>5. ASSUME NEW k \in Jails PROVE InTurn(k)'
  BY <1>1, <1>4 DEF OneSandbox, InTurn, JailorAlive
<1>6. NothingLeft'
  <2> SUFFICES ASSUME NEW p \in Programs, \A k \in Jails : JailorAlive(k)' => prog'[k] # p
               PROVE  root'[p] = {} /\ files'[p] = [k \in 1..NFiles |-> "absent"]
    BY DEF NothingLeft
  <2>1. CASE p = prog[j]
    BY <1>1, <2>1
  <2>2. CASE p # prog[j]
    <3>1. \A k \in Jails : JailorAlive(k) => prog[k] # p
      BY <1>1, <2>2 DEF JailorAlive
    <3> QED BY <1>1, <2>2, <3>1 DEF OneSandbox, NothingLeft
  <2> QED BY <2>1, <2>2
<1> QED BY <1>3, <1>5, <1>6 DEF OneSandbox

(* A process that runs has a living jailor. *)
LEMMA ActorLives ==
    ASSUME OneSandbox, NEW j \in Jails, JailorStep(j) \/ ChildStep(j) \/ ServerDies(j)
    PROVE  JailorAlive(j)
<1>1. JailorStep(j) => JailorAlive(j)
  BY DEF JailorStep, ReadConfig, MakeRoot, CreateDirectories, SkipFile, StartCopy, EndCopy,
    CopiesDone, AddVeth, Clone, MoveVeth, InstallHandlers, ChildDied, RemoveRoot, JailorAlive
<1>2. ChildStep(j) \/ ServerDies(j) => ChildAlive(j)
  BY DEF ChildStep, MakeOldRoot, PivotRoot, ConnectSymlinks, Exec, ServerReady, ServerDies,
    ChildAlive
<1> QED BY <1>1, <1>2 DEF OneSandbox, InTurn, ChildAlive, JailorAlive

(* A program that is clear stays so while others run; nobody leaves the       *)
(* handler behind; and no child dies on its way.                              *)
LEMMA SandboxStep ==
    ASSUME JailorTypeOK, JailorsAtWork, OneSandbox, "jailor" \notin Faults,
           \A k \in Jails : jpc[k] = "clean" => cpc[k] = "dead",
           NEW j \in Jails, JailorStep(j) \/ ChildStep(j) \/ Mishap(j)
    PROVE  /\ OneSandbox'
           /\ \A p \in Programs : Clear(p) => Clear(p)'
           /\ \A k \in Jails : Ready(k) => Ready(k)'
           /\ \A k \in Jails : ChildAlive(k) /\ cpc'[k] = "dead" => cpc[k] \in {"boot", "serve"}
<1>1. JailorStep(j) \/ ChildStep(j) \/ ServerDies(j)
  BY DEF Mishap, Quit, ChildFails
<1>2. OthersStay(j)
  BY <1>1, StepsStayIn
<1>3. JailorAlive(j)
  BY <1>1, ActorLives
<1>4. Underway(j) /\ evicted = {} /\ prog[j] \in Programs /\ jpc[j] # "unused"
  BY <1>3 DEF OneSandbox, InTurn, JailorsAtWork, JailorAlive
<1>5. prog' = prog /\ \A k \in Jails \ {j} : jpc'[k] = jpc[k] /\ cpc'[k] = cpc[k]
  BY <1>2 DEF OthersStay
<1>6. \A p \in Programs : Clear(p) => p # prog[j]
  BY <1>3 DEF Clear, Alive
<1>7. \A p \in Programs : Clear(p) => Clear(p)'
  BY <1>2, <1>6 DEF Clear, Alive, JailorAlive, ChildAlive, OthersStay
<1>8. CASE ChildStep(j) \/ ServerDies(j)
  <2>1. /\ Underway(j)' /\ UNCHANGED <<jpc, files, evicted, veth>>
        /\ cpc'[j] = "dead" => cpc[j] \in {"boot", "serve"}
    BY <1>3, <1>4, <1>8, ChildUnderway
  <2>2. OneSandbox'
    BY <1>2, <1>3, <1>4, <2>1, SandboxKept DEF JailorAlive
  <2>3. \A k \in Jails : ChildAlive(k) /\ cpc'[k] = "dead" => cpc[k] \in {"boot", "serve"}
    BY <1>5, <2>1 DEF ChildAlive
  <2> QED BY <1>7, <2>1, <2>2, <2>3 DEF Ready
<1>9. CASE JailorStep(j)
  <2>1. IF JailorAlive(j)' THEN Underway(j)' ELSE RemoveRoot(j)
    BY <1>3, <1>4, <1>9, JailorUnderway
  <2>2. jpc'[j] # "unused" /\ (Ready(j) => Ready(j)')
        /\ ~(ChildAlive(j) /\ cpc'[j] = "dead")
    BY <1>4, <1>9 DEF JailorStep, ReadConfig, MakeRoot, CreateDirectories, SkipFile, StartCopy,
      EndCopy, CopiesDone, AddVeth, Clone, MoveVeth, InstallHandlers, ChildDied, RemoveRoot,
      JailorGoto, ChildGoto, JailorTypeOK, Ready, ChildAlive
  <2>3. evicted' = {}
    <3>1. CASE RemoveRoot(j)
      <4>1. \A k \in Jails : prog[k] = prog[j] =>
              cpc[k] \notin {"pivot", "link", "exec", "boot", "serve"}
        <5> SUFFICES ASSUME NEW k \in Jails, prog[k] = prog[j]
                     PROVE  cpc[k] \in {"none", "dead"}
          OBVIOUS
        <5>1. CASE JailorAlive(k)
          BY <1>3, <3>1, <5>1 DEF OneSandbox, OneJailor, RemoveRoot
        <5>2. CASE ~JailorAlive(k)
          BY <5>2 DEF OneSandbox, InTurn, JailorAlive
        <5> QED BY <5>1, <5>2
      <4> QED BY <1>4, <3>1, <4>1 DEF RemoveRoot
    <3>2. CASE ~RemoveRoot(j)
      BY <1>4, <1>9, <3>2 DEF JailorStep, ReadConfig, MakeRoot, CreateDirectories, SkipFile,
        StartCopy, EndCopy, CopiesDone, AddVeth, Clone, MoveVeth, InstallHandlers, ChildDied, disk
    <3> QED BY <3>1, <3>2
  <2>4. ASSUME RemoveRoot(j)
        PROVE  /\ cpc'[j] = "dead" /\ root'[prog[j]] = {}
               /\ files'[prog[j]] = [k \in 1..NFiles |-> "absent"]
    BY <1>4, <2>4 DEF RemoveRoot, PutInRoot, JailorTypeOK
  <2>5. OneSandbox'
    BY <1>2, <1>3, <2>1, <2>2, <2>3, <2>4, SandboxKept
  <2>6. \A k \in Jails : Ready(k) => Ready(k)'
    BY <1>5, <2>2 DEF Ready
  <2>7. \A k \in Jails : ~(ChildAlive(k) /\ cpc'[k] = "dead")
    BY <1>5, <2>2 DEF ChildAlive
  <2> QED BY <1>7, <2>5, <2>6, <2>7
<1> QED BY <1>1, <1>8, <1>9

----------------------------------------------------------------------------
(* One command at a time. *)

LEMMA WaitingFacts ==
    ASSUME DaemonInv
    PROVE  \A c \in Clients : Waiting(c) => request[c] \in Commands /\ request[c].prog \in Programs
BY SdeamonAssumption DEF DaemonInv, TypeOK, Waiting

(* The jailors run while the daemon stands still. *)
LEMMA CommandsBeside ==
    ASSUME DaemonInv, OneCommand, UNCHANGED daemon,
           \A p \in Programs : Clear(p) => Clear(p)',
           \A k \in Jails : Ready(k) => Ready(k)'
    PROVE  OneCommand'
<1>1. UNCHANGED <<dpc, client, entry, list, request, answer>>
  BY DEF daemon
<1>2. OneWaits' /\ CommandInHand' /\ OneEntry'
  BY <1>1 DEF OneCommand, OneWaits, CommandInHand, OneEntry, Waiting
<1>3. ASSUME NEW c \in Clients, Waiting(c)' PROVE PathClear(request[c])'
  <2>1. Waiting(c) /\ PathClear(request[c]) /\ request[c].prog \in Programs
    BY <1>1, <1>3, WaitingFacts DEF OneCommand, Waiting
  <2>2. EntriesOf(request[c].prog)' = EntriesOf(request[c].prog)
    BY <1>1 DEF EntriesOf
  <2>3. \A i \in EntriesOf(request[c].prog) : list[i].pid \in Jails
    BY Unpack DEF EntriesOf
  <2> QED BY <1>1, <2>1, <2>2, <2>3 DEF PathClear
<1> QED BY <1>2, <1>3 DEF OneCommand

(* The operator's next command finds the program settled. *)
LEMMA CommandsConnect ==
    ASSUME DaemonInv, OneCommand, Careful, NEW c \in Clients, NEW q \in Commands, Connect(c, q)
    PROVE  OneCommand'
<1>1. /\ Settled(q) /\ request' = [request EXCEPT ![c] = q]
      /\ UNCHANGED <<prog, jpc, cpc, dpc, client, entry, list, answer>>
  BY DEF Connect, jails
<1>2. dpc \in {"accept", "exited"}
  BY <1>1, SdeamonAssumption DEF Settled, OneCommand, CommandInHand, DaemonInv, EntryInHand
<1>3. \A d \in Clients : Waiting(d)' => d = c
  BY <1>1 DEF Settled, Waiting, DaemonInv, TypeOK
<1>4. OneWaits' /\ CommandInHand' /\ OneEntry'
  BY <1>1, <1>2, <1>3 DEF OneCommand, OneWaits, CommandInHand, OneEntry
<1>5. PathClear(q)'
  <2>1. EntriesOf(q.prog)' = EntriesOf(q.prog)
    BY <1>1 DEF EntriesOf
  <2>2. q.cmd = "start" => Clear(q.prog)'
    BY <1>1 DEF Settled, Clear, Alive, JailorAlive, ChildAlive
  <2>3. ASSUME q.cmd = "stop", NEW i \in EntriesOf(q.prog) PROVE Ready(list[i].pid)'
    BY <1>1, <2>3, Unpack DEF Settled, DaemonInv, EntriesSpawned, Spawned, EntriesOf, JailorAlive, Ready
  <2>4. q.cmd = "start" => EntriesOf(q.prog) = {}
    BY <1>1 DEF Settled
  <2> QED BY <1>1, <2>1, <2>2, <2>3, <2>4 DEF PathClear
<1>6. request'[c] = q
  BY <1>1 DEF DaemonInv, TypeOK
<1> QED BY <1>3, <1>4, <1>5, <1>6 DEF OneCommand

(* The one command is answered. *)
LEMMA CommandAnswered ==
    ASSUME DaemonInv, OneCommand, NEW c \in Clients, Waiting(c), request' = request,
           NEW a \in Answers \ {"none"}, Reply(c, a), dpc' \in {"accept", "exited"}, OneEntry'
    PROVE  OneCommand'
<1>1. answer' = [answer EXCEPT ![c] = a] /\ answer \in [Clients -> Answers]
  BY DEF Reply, DaemonInv, TypeOK
<1>2. \A d \in Clients : ~Waiting(d)'
  BY <1>1 DEF OneCommand, OneWaits, Waiting
<1> QED BY <1>2 DEF OneCommand, OneWaits, CommandInHand

(* The one command goes on: nothing but dpc changes for it. *)
LEMMA CommandGoesOn ==
    ASSUME DaemonInv, OneCommand, UNCHANGED <<request, answer, client, list>>,
           entry'.prog = entry.prog, dpc \notin {"accept", "exited"}, dpc' \notin {"accept", "exited"},
           dpc \in Starting <=> dpc' \in Starting,
           dpc' \in {"configer", "jailor"} =>
               dpc \in {"configer", "jailor"} /\ UNCHANGED <<prog, jpc, cpc>>,
           \A k \in Jails : Ready(k) => Ready(k)'
    PROVE  OneCommand'
<1>1. OneWaits' /\ CommandInHand' /\ OneEntry'
  BY DEF OneCommand, OneWaits, CommandInHand, OneEntry, Waiting
<1>2. ASSUME NEW c \in Clients, Waiting(c)' PROVE PathClear(request[c])'
  <2>1. Waiting(c) /\ PathClear(request[c])
    BY <1>2 DEF OneCommand, Waiting
  <2>2. EntriesOf(request[c].prog)' = EntriesOf(request[c].prog)
    BY DEF EntriesOf
  <2>3. \A i \in EntriesOf(request[c].prog) : list[i].pid \in Jails
    BY Unpack DEF EntriesOf
  <2>4. dpc' \in {"configer", "jailor"} => Clear(request[c].prog)' = Clear(request[c].prog)
    BY DEF Clear, Alive, JailorAlive, ChildAlive
  <2> QED BY <2>1, <2>2, <2>3, <2>4 DEF PathClear
<1> QED BY <1>1, <1>2 DEF OneCommand

LEMMA CommandsAccept ==
    ASSUME DaemonInv, OneCommand, NEW c \in Clients,
           Refuse(c) \/ HangUp(c) \/ AcceptStart(c) \/ AcceptStop(c)
    PROVE  OneCommand'
<1>1. /\ dpc = "accept" /\ Waiting(c) /\ UNCHANGED <<request, list, jails>>
  BY DEF Refuse, HangUp, AcceptStart, AcceptStop, Serve
<1>2. OneEntry' /\ PathClear(request[c])
  BY <1>1 DEF OneCommand, OneEntry
<1>3. CASE dpc' = "accept" /\ \E a \in Answers \ {"none"} : Reply(c, a)
  BY <1>1, <1>2, <1>3, CommandAnswered
<1>4. CASE /\ dpc' = IF request[c].cmd = "start" THEN "configer" ELSE "kill"
           /\ request[c].cmd \in {"start", "stop"}
           /\ client' = c /\ answer' = answer /\ entry'.prog = request[c].prog
  <2>1. OneWaits' /\ CommandInHand'
    BY <1>1, <1>4 DEF OneCommand, OneWaits, CommandInHand, Waiting, Starting
  <2>2. ASSUME NEW d \in Clients, Waiting(d)' PROVE PathClear(request[d])'
    <3>1. d = c
      BY <1>1, <1>4, <2>2 DEF OneCommand, OneWaits, Waiting
    <3>2. EntriesOf(request[c].prog)' = EntriesOf(request[c].prog)
      BY <1>1 DEF EntriesOf
    <3>3. Clear(request[c].prog)' = Clear(request[c].prog) /\ jpc' = jpc
      BY <1>1 DEF Clear, Alive, JailorAlive, ChildAlive, jails
    <3> QED BY <1>1, <1>2, <3>1, <3>2, <3>3 DEF PathClear, Ready
  <2> QED BY <1>2, <2>1, <2>2 DEF OneCommand
<1>5. CASE Refuse(c) \/ HangUp(c)
  BY <1>1, <1>3, <1>5 DEF Refuse, HangUp, Answers
<1>6. CASE AcceptStart(c)
  BY <1>1, <1>3, <1>4, <1>6 DEF AcceptStart, Serve, Answers
<1>7. CASE AcceptStop(c)
  <2>1. EntriesOf(request[c].prog) # {} =>
          list[FindProgram(request[c].prog)].prog = request[c].prog
    BY FindFacts, Unpack
  <2> QED BY <1>1, <1>3, <1>4, <1>7, <2>1 DEF AcceptStop, Serve, Answers
<1> QED BY <1>5, <1>6, <1>7

LEMMA CommandsProceed ==
    ASSUME DaemonInv, OneCommand,
           RunConfiger \/ AddDnat \/ AddForward \/ WaitJailor \/ DeleteDnat \/ DeleteForward
    PROVE  OneCommand'
<1>1. UNCHANGED <<request, answer, client, list, entry, prog, jpc, cpc>>
  BY DEF RunConfiger, AddDnat, AddForward, WaitJailor, DeleteDnat, DeleteForward, At, Proceed, jails
<1>2. \/ dpc = "configer" /\ dpc' = "jailor"
      \/ dpc = "dnat" /\ dpc' = "forward"
      \/ dpc = "forward" /\ dpc' = "enlist"
      \/ dpc = "waitpid" /\ dpc' = "undnat"
      \/ dpc = "undnat" /\ dpc' = "unforward"
      \/ dpc = "unforward" /\ dpc' = "delist"
  BY DEF RunConfiger, AddDnat, AddForward, WaitJailor, DeleteDnat, DeleteForward, At, Proceed
<1> QED BY <1>1, <1>2, CommandGoesOn DEF Starting, Ready

LEMMA CommandsEnd ==
    ASSUME DaemonInv, OneCommand, ForkFails \/ Enlist \/ Delist
    PROVE  OneCommand'
<1>1. PICK a \in Answers \ {"none"} : Done(a)
  BY DEF ForkFails, Enlist, Delist, Answers
<1>2. /\ dpc \notin {"accept", "exited"} /\ request' = request
      /\ dpc' = "accept" /\ Reply(client, a)
  BY <1>1 DEF ForkFails, Enlist, Delist, At, Done
<1>3. Waiting(client) /\ client \in Clients /\ request[client].prog = entry.prog
  BY <1>2 DEF OneCommand, CommandInHand, DaemonInv, EntryInHand
<1>4. OneEntry
  BY DEF OneCommand
<1>5. OneEntry'
  <2>1. CASE ForkFails
    BY <1>4, <2>1 DEF ForkFails, OneEntry
  <2>2. CASE Enlist
    <3>1. dpc = "enlist" /\ entry \in Entries /\ list' = <<entry>> \o list
      BY <2>2 DEF Enlist, At, DaemonInv, EntryInHand
    <3>2. EntriesOf(entry.prog) = {}
      BY <1>3, <3>1 DEF OneCommand, CommandInHand, PathClear, Starting
    <3>3. /\ Len(list') = Len(list) + 1 /\ list' \in Seq(Entries) /\ list'[1] = entry
          /\ \A i \in 1..Len(list) : list'[i + 1] = list[i]
      BY <3>1, Enlisted, Unpack
    <3>4. DOMAIN list = 1..Len(list) /\ Len(list) \in Nat /\ DOMAIN list' = 1..(Len(list) + 1)
      BY <3>3, Unpack, LenProperties
    <3>5. ASSUME NEW m \in DOMAIN list', m # 1
          PROVE  m - 1 \in DOMAIN list /\ list'[m] = list[m - 1] /\ list'[m].prog # entry.prog
      <4>1. m - 1 \in 1..Len(list) /\ (m - 1) + 1 = m
        BY <3>4, <3>5
      <4> QED BY <3>2, <3>3, <3>4, <4>1 DEF EntriesOf
    <3>6. ASSUME NEW i \in DOMAIN list', NEW k \in DOMAIN list', list'[i].prog = list'[k].prog
          PROVE  i = k
      <4>1. CASE i = 1 \/ k = 1
        BY <3>3, <3>5, <3>6, <4>1
      <4>2. CASE i # 1 /\ k # 1
        <5>1. i - 1 = k - 1
          BY <1>4, <3>5, <3>6, <4>2 DEF OneEntry
        <5> QED BY <3>4, <5>1
      <4> QED BY <4>1, <4>2
    <3> QED BY <3>6 DEF OneEntry
  <2>3. CASE Delist
    <3> PICK k : k = FindProgram(entry.prog)
      OBVIOUS
    <3>1. list' = RemoveAt(list, k) /\ k \in 1..Len(list)
      BY <2>3, FindFacts, Unpack DEF Delist, At, DaemonInv, EntryInHand
    <3>2. /\ list' \in Seq(Entries) /\ Len(list') = Len(list) - 1
          /\ \A i \in 1..(Len(list) - 1) : list'[i] = IF i < k THEN list[i] ELSE list[i + 1]
      BY <3>1, Delisted, Unpack
    <3>3. DOMAIN list = 1..Len(list) /\ Len(list) \in Nat /\ DOMAIN list' = 1..(Len(list) - 1)
      BY <3>2, Unpack, LenProperties
    <3> DEFINE From(i) == IF i < k THEN i ELSE i + 1
    <3>4. ASSUME NEW i \in DOMAIN list' PROVE From(i) \in DOMAIN list /\ list'[i] = list[From(i)]
      BY <3>1, <3>2, <3>3
    <3>5. ASSUME NEW i \in DOMAIN list', NEW m \in DOMAIN list', list'[i].prog = list'[m].prog
          PROVE  i = m
      <4>1. From(i) = From(m)
        <5> HIDE DEF From
        <5> QED BY <1>4, <3>4, <3>5 DEF OneEntry
      <4> QED BY <3>1, <3>3, <4>1
    <3> QED BY <3>5 DEF OneEntry
  <2> QED BY <2>1, <2>2, <2>3
<1> QED BY <1>2, <1>3, <1>5, CommandAnswered

LEMMA CommandsExit ==
    ASSUME DaemonInv, OneCommand, Exit
    PROVE  OneCommand'
<1>1. /\ dpc' = "exited" /\ list' = <<>> /\ request' = request
      /\ dpc \in {"dnat", "forward", "undnat", "unforward"}
      /\ IF dpc \in {"undnat", "unforward"} THEN Reply(client, "closed") ELSE UNCHANGED answer
  BY DEF Exit
<1>2. OneEntry' /\ \A p : EntriesOf(p)' = {}
  BY <1>1 DEF OneEntry, EntriesOf
<1>3. Waiting(client) /\ client \in Clients
  BY <1>1 DEF OneCommand, CommandInHand, DaemonInv, EntryInHand
<1>4. CASE dpc \in {"undnat", "unforward"}
  BY <1>1, <1>2, <1>3, <1>4, CommandAnswered DEF Answers
<1>5. CASE dpc \in {"dnat", "forward"}
  <2>1. answer' = answer
    BY <1>1, <1>5
  <2>2. OneWaits' /\ CommandInHand'
    BY <1>1, <2>1 DEF OneCommand, OneWaits, CommandInHand, Waiting
  <2>3. \A q : PathClear(q)'
    BY <1>1, <1>2 DEF PathClear
  <2> QED BY <1>2, <2>2, <2>3 DEF OneCommand
<1> QED BY <1>1, <1>4, <1>5

LEMMA CommandsRestart ==
    ASSUME DaemonInv, OneCommand, Restart
    PROVE  OneCommand'
<1>1. /\ dpc' = "accept" /\ UNCHANGED <<list, request>>
      /\ answer' = [c \in Clients |-> IF Waiting(c) THEN "closed" ELSE answer[c]]
  BY DEF Restart
<1>2. \A d \in Clients : ~Waiting(d)'
  BY <1>1 DEF Waiting
<1> QED BY <1>1, <1>2 DEF OneCommand, OneWaits, CommandInHand, OneEntry

(* A new jailor finds no trace of its program. *)
LEMMA ForkSettled ==
    ASSUME DaemonInv, OneCommand, OneSandbox, ForkJailor
    PROVE  OneCommand' /\ OneSandbox'
<1>1. PICK j \in Jails :
        /\ jpc[j] = "unused" /\ jpc' = [jpc EXCEPT ![j] = "config"]
        /\ prog' = [prog EXCEPT ![j] = entry.prog]
        /\ UNCHANGED <<cpc, copied, root, files, evicted, veth>>
        /\ entry' = [entry EXCEPT !.pid = j]
  BY DEF ForkJailor, Spawn, JailorGoto, disk
<1>2. /\ dpc = "jailor" /\ dpc' = "dnat" /\ UNCHANGED <<client, answer, list, request>>
      /\ entry.prog \in Programs /\ client \in Clients
  BY DEF ForkJailor, At, DaemonInv, EntryInHand
<1>3. Clear(entry.prog)
  BY <1>2 DEF OneCommand, CommandInHand, PathClear, Starting
<1>4. /\ jpc'[j] = "config" /\ prog'[j] = entry.prog
      /\ \A k \in Jails \ {j} : jpc'[k] = jpc[k] /\ prog'[k] = prog[k]
  BY <1>1, Unpack DEF JailorTypeOK
<1>5. \A k \in Jails : JailorAlive(k) => prog[k] # entry.prog /\ k # j /\ JailorAlive(k)'
  BY <1>1, <1>3, <1>4 DEF Clear, Alive, JailorAlive
<1>6. \A k \in Jails \ {j} : JailorAlive(k)' => JailorAlive(k)
  BY <1>4 DEF JailorAlive
<1>7. OneJailor'
  BY <1>4, <1>5, <1>6 DEF OneSandbox, OneJailor
<1>8. ASSUME NEW k \in Jails PROVE InTurn(k)'
  <2>1. CASE k = j
    <3>1. /\ root[entry.prog] = {} /\ files[entry.prog] = [i \in 1..NFiles |-> "absent"]
          /\ copied[j] = 0 /\ cpc[j] = "none"
      BY <1>1, <1>2, <1>3, <1>5 DEF OneSandbox, NothingLeft, InTurn, Clear
    <3>2. FilesSoFar(j)' = [i \in 1..NFiles |-> "absent"] /\ RootSoFar(j)' = {}
      BY <1>1, <1>4, <3>1 DEF FilesSoFar, RootSoFar
    <3>3. Underway(j)'
      BY <1>1, <1>4, <3>1, <3>2 DEF Underway
    <3> QED BY <1>4, <2>1, <3>3 DEF InTurn
  <2>2. CASE k # j
    <3>1. InTurn(k) /\ UNCHANGED <<jpc[k], prog[k], cpc[k], copied[k]>>
      BY <1>1, <1>4, <2>2 DEF OneSandbox
    <3>2. FilesSoFar(k)' = FilesSoFar(k) /\ RootSoFar(k)' = RootSoFar(k)
      BY <3>1 DEF FilesSoFar, RootSoFar
    <3> QED BY <1>1, <3>1, <3>2 DEF InTurn, Underway, JailorAlive, ChildAlive
  <2> QED BY <2>1, <2>2
<1>9. NothingLeft'
  <2> SUFFICES ASSUME NEW p \in Programs, \A k \in Jails : JailorAlive(k)' => prog'[k] # p
               PROVE  root[p] = {} /\ files[p] = [k \in 1..NFiles |-> "absent"]
    BY <1>1 DEF NothingLeft
  <2>1. \A k \in Jails : JailorAlive(k) => prog[k] # p
    BY <1>4, <1>5
  <2> QED BY <2>1 DEF OneSandbox, NothingLeft
<1>10. OneSandbox'
  BY <1>1, <1>7, <1>8, <1>9 DEF OneSandbox
<1>11. OneCommand'
  <2>1. entry'.prog = entry.prog
    BY <1>1, Unpack
  <2> QED BY <1>2, <1>4, <2>1, CommandGoesOn, <1>1 DEF Starting, Ready
<1> QED BY <1>10, <1>11

(* The signal finds a jailor that passes it on, or none. *)
LEMMA KillSettled ==
    ASSUME DaemonInv, OneCommand, OneSandbox, Kill
    PROVE  /\ OneCommand' /\ OneSandbox'
           /\ \A k \in Jails : cpc'[k] # cpc[k] => cpc[k] = "serve"
<1>1. /\ dpc = "kill" /\ dpc' = "waitpid" /\ Terminate(entry.pid)
      /\ UNCHANGED <<client, entry, answer, list, request>>
  BY DEF Kill, At, Proceed
<1>2. /\ entry.pid \in Jails /\ entry.prog \in Programs /\ EntriesOf(entry.prog) # {}
      /\ entry = list[FindProgram(entry.prog)] /\ client \in Clients
  BY <1>1, Unpack DEF DaemonInv, EntryInHand
<1>3. FindProgram(entry.prog) \in EntriesOf(entry.prog)
  BY <1>2, FindFacts, Unpack DEF EntriesOf
<1>4. Ready(entry.pid)
  BY <1>1, <1>2, <1>3 DEF OneCommand, CommandInHand, PathClear, Starting
<1>5. /\ UNCHANGED <<prog, jpc, copied, root, files, evicted, veth>>
      /\ cpc' = cpc \/ (cpc[entry.pid] = "serve" /\ cpc' = [cpc EXCEPT ![entry.pid] = "dead"])
  BY <1>1, <1>4 DEF Terminate, Ready, JailorAlive, Armed, ChildGoto, disk
<1>6. /\ \A k \in Jails : cpc'[k] = cpc[k] \/ (cpc[k] = "serve" /\ cpc'[k] = "dead")
  BY <1>2, <1>5, Unpack DEF JailorTypeOK
<1>7. ASSUME NEW k \in Jails PROVE InTurn(k)'
  <2>1. InTurn(k) /\ FilesSoFar(k)' = FilesSoFar(k) /\ RootSoFar(k)' = RootSoFar(k)
    BY <1>5, <1>6 DEF OneSandbox, FilesSoFar, RootSoFar
  <2> QED BY <1>5, <1>6, <2>1 DEF InTurn, Underway, JailorAlive, ChildAlive
<1>8. OneJailor' /\ NothingLeft'
  BY <1>5 DEF OneSandbox, OneJailor, NothingLeft, JailorAlive
<1>9. OneCommand'
  BY <1>1, <1>5, CommandGoesOn DEF Starting, Ready
<1> QED BY <1>5, <1>6, <1>7, <1>8, <1>9 DEF OneSandbox

LEMMA NamespaceSettled ==
    ASSUME DaemonInv, OneCommand, OneSandbox, NEW p \in Programs, Beside(NamespaceGone(p))
    PROVE  OneCommand' /\ OneSandbox'
<1>1. /\ UNCHANGED <<prog, jpc, cpc, copied, root, files, evicted>> /\ UNCHANGED daemon
  BY DEF Beside, NamespaceGone, disk
<1>2. ASSUME NEW k \in Jails PROVE InTurn(k)'
  <2>1. InTurn(k) /\ FilesSoFar(k)' = FilesSoFar(k) /\ RootSoFar(k)' = RootSoFar(k)
    BY <1>1 DEF OneSandbox, FilesSoFar, RootSoFar
  <2> QED BY <1>1, <2>1 DEF InTurn, Underway, JailorAlive, ChildAlive
<1>3. OneJailor' /\ NothingLeft'
  BY <1>1 DEF OneSandbox, OneJailor, NothingLeft, JailorAlive
<1>4. OneCommand'
  BY <1>1, CommandsBeside DEF Clear, Alive, JailorAlive, ChildAlive, Ready
<1> QED BY <1>1, <1>2, <1>3, <1>4 DEF OneSandbox

----------------------------------------------------------------------------
(* Every step. *)

Settling == Careful /\ "jailor" \notin Faults

(* No child dies in a step but the server it became. *)
Boots == \A j \in Jails : ChildAlive(j) /\ cpc'[j] = "dead" => cpc[j] \in {"boot", "serve"}

LEMMA NextSettled ==
    ASSUME DaemonInv, Settling, OneCommand, OneSandbox, [Next]_vars
    PROVE  OneCommand' /\ OneSandbox' /\ Boots
<1>1. CASE UNCHANGED jails /\ OneCommand'
  <2>1. UNCHANGED <<prog, jpc, cpc, copied, root, files, evicted, veth>>
    BY <1>1 DEF jails
  <2>2. ASSUME NEW j \in Jails PROVE InTurn(j)'
    <3>1. InTurn(j) /\ FilesSoFar(j)' = FilesSoFar(j) /\ RootSoFar(j)' = RootSoFar(j)
      BY <2>1 DEF OneSandbox, FilesSoFar, RootSoFar
    <3> QED BY <2>1, <3>1 DEF InTurn, Underway, JailorAlive, ChildAlive
  <2>3. OneJailor' /\ NothingLeft'
    BY <2>1 DEF OneSandbox, OneJailor, NothingLeft, JailorAlive
  <2> QED BY <1>1, <2>1, <2>2, <2>3 DEF OneSandbox, Boots, ChildAlive
<1>2. ASSUME NEW c \in Clients, NEW q \in Commands, Connect(c, q)
      PROVE  OneCommand' /\ OneSandbox' /\ Boots
  <2>1. UNCHANGED jails
    BY <1>2 DEF Connect
  <2> QED BY <1>1, <1>2, <2>1, CommandsConnect DEF Settling
<1>3. ASSUME NEW c \in Clients, Refuse(c) \/ HangUp(c) \/ AcceptStart(c) \/ AcceptStop(c)
      PROVE  OneCommand' /\ OneSandbox' /\ Boots
  <2>1. UNCHANGED jails
    BY <1>3 DEF Refuse, HangUp, AcceptStart, AcceptStop, Serve
  <2> QED BY <1>1, <1>3, <2>1, CommandsAccept
<1>4. CASE RunConfiger \/ AddDnat \/ AddForward \/ WaitJailor \/ DeleteDnat \/ DeleteForward
  <2>1. UNCHANGED jails
    BY <1>4 DEF RunConfiger, AddDnat, AddForward, WaitJailor, DeleteDnat, DeleteForward
  <2> QED BY <1>1, <1>4, <2>1, CommandsProceed
<1>5. CASE ForkFails \/ Enlist \/ Delist
  <2>1. UNCHANGED jails
    BY <1>5 DEF ForkFails, Enlist, Delist
  <2> QED BY <1>1, <1>5, <2>1, CommandsEnd
<1>6. CASE Exit \/ Restart
  <2>1. UNCHANGED jails
    BY <1>6 DEF Exit, Restart
  <2> QED BY <1>1, <1>6, <2>1, CommandsExit, CommandsRestart
<1>7. CASE ForkJailor
  <2>1. cpc' = cpc
    BY <1>7 DEF ForkJailor, Spawn
  <2> QED BY <1>7, <2>1, ForkSettled DEF Boots, ChildAlive
<1>8. CASE Kill
  BY <1>8, KillSettled DEF Boots, ChildAlive
<1>9. ASSUME NEW j \in Jails,
             Beside(JailorStep(j)) \/ Beside(ChildStep(j)) \/ Beside(Mishap(j))
      PROVE  OneCommand' /\ OneSandbox' /\ Boots
  <2>1. /\ JailorStep(j) \/ ChildStep(j) \/ Mishap(j)
        /\ UNCHANGED daemon
    BY <1>9 DEF Beside
  <2>2. /\ OneSandbox' /\ Boots
        /\ \A p \in Programs : Clear(p) => Clear(p)'
        /\ \A k \in Jails : Ready(k) => Ready(k)'
    BY <2>1, SandboxStep, Unpack DEF Settling, DaemonInv, EndsInOrder, Boots
  <2> QED BY <2>1, <2>2, CommandsBeside
<1>10. ASSUME NEW p \in Programs, Beside(NamespaceGone(p))
       PROVE  OneCommand' /\ OneSandbox' /\ Boots
  <2>1. cpc' = cpc
    BY <1>10 DEF Beside, NamespaceGone
  <2> QED BY <1>10, <2>1, NamespaceSettled DEF Boots, ChildAlive
<1>11. CASE UNCHANGED vars
  <2>1. UNCHANGED jails /\ UNCHANGED daemon
    BY <1>11 DEF vars
  <2>2. OneCommand'
    BY <2>1, CommandsBeside DEF Clear, Alive, JailorAlive, ChildAlive, Ready, jails
  <2> QED BY <1>1, <2>1, <2>2
<1> QED BY <1>2, <1>3, <1>4, <1>5, <1>6, <1>7, <1>8, <1>9, <1>10, <1>11 DEF Next, Daemon

LEMMA InitSettled == Init => OneCommand /\ OneSandbox
<1> SUFFICES ASSUME Init PROVE OneCommand /\ OneSandbox
  OBVIOUS
<1>1. OneCommand
  BY DEF Init, OneCommand, OneWaits, CommandInHand, OneEntry, Waiting
<1>2. \A j \in Jails : InTurn(j)
  BY DEF Init, JailorInit, InTurn, JailorAlive
<1>3. OneJailor /\ NothingLeft /\ evicted = {}
  BY DEF Init, JailorInit, OneJailor, NothingLeft, JailorAlive
<1> QED BY <1>1, <1>2, <1>3 DEF OneSandbox

----------------------------------------------------------------------------
(* The theorems. *)

(* With an operator who lets things settle there is one command at a time and *)
(* one sandbox of a program: its directory is as far as its jailor and child  *)
(* have come, and nothing is left there of one that has ended                 *)
(* (sdeamon.c:95-231, jailor.c:168-216, 384-431).                             *)
THEOREM SettledInvariant == Spec => []CarefulInv
<1>1. Init => CarefulInv
  BY InitInv, InitSettled DEF CarefulInv
<1>2. CarefulInv /\ [Next]_vars => CarefulInv'
  BY NextInv, NextSettled DEF CarefulInv, Settling
<1> QED BY <1>1, <1>2, PTL DEF Spec

(* A server has the root directory it was started in, all of it               *)
(* (jailor.c:101-104, 414-419).                                               *)
THEOREM RootsStayWhole == Spec => []RootIntact
<1>1. CarefulInv => RootIntact
  <2> SUFFICES ASSUME DaemonInv, OneSandbox, NEW j \in Jails, cpc[j] \in {"boot", "serve"}
               PROVE  j \notin evicted /\ AllWhole(j) /\ "dir" \in InRoot(j)
    BY DEF CarefulInv, RootIntact
  <2>1. /\ JailorAlive(j) /\ Underway(j) /\ jpc[j] \in JailorPCs /\ copied[j] \in 0..NFiles
        /\ NFiles \in Nat /\ evicted = {}
    BY Unpack, JailorAssumption DEF OneSandbox, InTurn, JailorAlive, JailorTypeOK
  <2>2. jpc[j] \in {"wire", "arm", "wait", "clean"}
    BY <2>1 DEF Underway, JailorPCs, JailorAlive
  <2>3. copied[j] = NFiles /\ files[prog[j]] = FilesSoFar(j)
    BY <2>1, <2>2 DEF Underway
  <2>4. AllWhole(j)
    BY <2>1, <2>3 DEF AllWhole, FilesSoFar
  <2>5. "dir" \in InRoot(j)
    BY <2>1, <2>2 DEF Underway, RootSoFar, InRoot
  <2> QED BY <2>1, <2>4, <2>5
<1> QED BY <1>1, SettledInvariant, PTL

(* No start fails over what an earlier one left: a child dies only as the     *)
(* server it became (jailor.c:168-216).                                       *)
THEOREM StartsBoot == Spec => EveryStartBoots
<1>1. CarefulInv /\ [Next]_vars =>
        [Careful /\ "jailor" \notin Faults =>
           \A j \in Jails : ChildAlive(j) /\ cpc'[j] = "dead" => cpc[j] \in {"boot", "serve"}]_vars
  BY NextSettled DEF CarefulInv, Settling, Boots
<1> QED BY <1>1, SettledInvariant, PTL DEF Spec, EveryStartBoots
=============================================================================
