--------------------------- MODULE ConfigerProofs ---------------------------
(* Theorems about Configer for all configurations and hosts that the          *)
(* assumptions of its module admit, and all lengths of the arrays.            *)
EXTENDS ConfigerLemmas

----------------------------------------------------------------------------
(* The inductive invariant.                                                   *)

Reading == {"settings", "directories", "executables", "file_copies"}
AfterDirs == {"resolve_src", "resolve_dst", "symlinks", "sort_directories", "sort_symlinks",
              "sort_file_copies", "write", "written"}
AfterCopies == AfterDirs \ {"resolve_src", "resolve_dst"}
AfterSort == {"sort_symlinks", "sort_file_copies", "write", "written"}
AfterLinks == {"sort_file_copies", "write", "written"}

InputKept == config \in Configs /\ host \in Hosts

(* Whatever is listed is listed with its parents, as long as there is room.   *)
ParentsListed == ~full => \A d \in ToSet(directories) : Lineage(d) \subseteq ToSet(directories)

(* What the loop has passed is where it is, or not on the host; what was      *)
(* added behind its bound is a directory of the host.                         *)
DirectoriesResolved ==
    /\ pass = "resolve_dirs" =>
         \A i \in 1 .. Len(directories) :
            /\ i < k => ~Moves(directories[i])
            /\ i > count => directories[i] \in host.dirs
    /\ pass \in AfterDirs => \A i \in 1 .. Len(directories) : ~Moves(directories[i])

DirectoriesSorted ==
    pass \in AfterSort =>
      \A i, j \in 1 .. Len(directories) : i < j => Before(directories[i], directories[j])

ListInv == InputKept /\ TypeOK /\ ParentsListed /\ DirectoriesResolved /\ DirectoriesSorted

----------------------------------------------------------------------------
(* Type correctness.                                                          *)

LEMMA NoElements == ToSet(<<>>) = {}
<1>1. <<>> \in Seq(Path) /\ Len(<<>>) = 0
  OBVIOUS
<1>2. ToSet(<<>>) = {<<>>[i] : i \in 1 .. Len(<<>>)}
  BY <1>1, SetOfSeq
<1> QED BY <1>1, <1>2

LEMMA InputFacts ==
    ASSUME InputKept
    PROVE  IsConfig(config) /\ IsHost(host)
<1> QED BY InputAssumption DEF InputKept

LEMMA Bounds ==
    /\ MAX_DIRECTORIES \in Nat /\ MAX_DIRECTORIES > 0 /\ MAX_EXECUTABLES \in Nat /\ MAX_EXECUTABLES > 0
    /\ MAX_FILE_COPIES \in Nat /\ MAX_FILE_COPIES > 0 /\ MAX_SYMLINKS \in Nat /\ MAX_SYMLINKS > 0
<1>1. \A max \in {MAX_DIRECTORIES, MAX_EXECUTABLES, MAX_FILE_COPIES, MAX_SYMLINKS} : max \in Nat /\ max > 0
  BY BoundsAssumption
<1> QED BY <1>1

(* Every step goes on with the same input, and remembers a full array.        *)
LEMMA StepKeeps ==
    ASSUME TypeOK, Next
    PROVE  /\ config' = config /\ host' = host /\ full' \in BOOLEAN
           /\ ~full' => ~full /\ Len(directories') # MAX_DIRECTORIES
<1>1. ASSUME NEW p, NEW i, NEW n, Goto(p, i, n)
      PROVE  /\ config' = config /\ host' = host /\ full' \in BOOLEAN
             /\ ~full' => ~full /\ Len(directories') # MAX_DIRECTORIES
  <2>1. full \in BOOLEAN
    BY DEF TypeOK
  <2> QED BY <1>1, <2>1 DEF Goto, input
<1>2. \E p, i, n : Goto(p, i, n)
  BY DEF Next, ReadSettings, ReadDirectories, ReadExecutables, ReadFileCopies, AddExecutable,
    AllExecutablesAdded, resolve_paths_in_array, AllDirectoriesResolved, ResolveSrc, ResolveDst,
    Resolve, AllCopiesResolved, ReadSymlinks, SortDirectories, SortSymlinks, SortFileCopies,
    write_output_config
<1> QED BY <1>1, <1>2

(* A grown array still fits. *)
LEMMA GrownFits ==
    ASSUME NEW X, NEW max \in Nat, NEW s \in Seq(X), Len(s) <= max, NEW t, NEW E, Grown(t, s, E, X, max)
    PROVE  t \in Seq(X) /\ Len(t) <= max /\ Len(t) \in Nat /\ Len(s) <= Len(t)
<1> QED BY LenProperties DEF Grown

(* A set of directories that has the parents of each. *)
WithParents(E) == \A d \in E : Lineage(d) \subseteq E

LEMMA ParentsOfAll ==
    ASSUME NEW paths, NEW N \in Nat, \A n \in 1 .. N : Trimmed(paths[n]) \in Path \cup {Slash}
    PROVE  WithParents(UNION {Lineage(Listed(paths[i])) : i \in 1 .. N})
<1> DEFINE E == UNION {Lineage(Listed(paths[i])) : i \in 1 .. N}
<1>1. ASSUME NEW d \in E PROVE Lineage(d) \subseteq E
  <2>1. PICK i \in 1 .. N : d \in Lineage(Listed(paths[i]))
    OBVIOUS
  <2>2. Listed(paths[i]) \in Path
    BY <2>1, ListedFacts, SlashParent
  <2>3. Lineage(d) \subseteq Lineage(Listed(paths[i]))
    BY <2>1, <2>2, LineageFacts
  <2>4. Lineage(Listed(paths[i])) \subseteq E
    OBVIOUS
  <2> QED BY <2>3, <2>4
<1> HIDE DEF E
<1> QED BY <1>1 DEF WithParents, E

(* What an executable needs: itself, and what ldd prints. *)
LEMMA NeedsPaths ==
    ASSUME TypeOK, InputKept, AddExecutable
    PROVE  /\ k \in 1 .. Len(executables) /\ executables[k] \in Path
           /\ Dependencies(executables[k]) \in Seq(Path)
           /\ <<executables[k]>> \o Dependencies(executables[k]) \in Seq(Path)
<1>1. /\ executables \in Seq(Path) /\ count = Len(executables) /\ k \in 1 .. count + 1 /\ k <= count
      /\ count \in Nat
  BY DEF TypeOK, AddExecutable
<1>2. k \in 1 .. Len(executables)
  BY <1>1
<1>3. executables[k] \in Path
  BY <1>1, <1>2, ElementOfSeq
<1>4. host.ldd \in [DOMAIN host.ldd -> Seq(Path)]
  BY InputFacts DEF IsHost
<1>5. Dependencies(executables[k]) \in Seq(Path)
  BY <1>4 DEF Dependencies
<1>6. <<executables[k]>> \in Seq(Path)
  BY <1>3
<1> QED BY <1>2, <1>3, <1>5, <1>6, ConcatProperties

(* The steps that read add directories with their parents. *)
LEMMA ReadingGrows ==
    ASSUME TypeOK, InputKept, ReadDirectories \/ ReadFileCopies \/ AddExecutable
    PROVE  \E E : WithParents(E) /\ Grown(directories', directories, E, Path, MAX_DIRECTORIES)
<1>1. directories \in Seq(Path) /\ IsConfig(config) /\ IsHost(host)
  BY InputFacts DEF TypeOK
<1>2. ASSUME NEW paths, Len(paths) \in Nat, Trimmable(paths),
             directories' = AddDirectories(directories, paths)
      PROVE  \E E : WithParents(E) /\ Grown(directories', directories, E, Path, MAX_DIRECTORIES)
  <2> DEFINE E == UNION {Lineage(Listed(paths[i])) : i \in 1 .. Len(paths)}
  <2>1. Grown(AddDirectories(directories, paths), directories, E, Path, MAX_DIRECTORIES)
    BY <1>1, <1>2, DirectoriesGrown
  <2>2. WithParents(E)
    BY <1>2, ParentsOfAll DEF Trimmable
  <2> HIDE DEF E
  <2> QED BY <1>2, <2>1, <2>2
<1>3. CASE ReadDirectories
  <2> DEFINE paths == config.directories
  <2>1. paths \in Seq(Seq(ToSet(Letters))) /\ \A n \in DOMAIN paths : Trimmed(paths[n]) \in Path \cup {Slash}
    BY <1>1 DEF IsConfig
  <2>2. directories' = AddDirectories(directories, paths)
    BY <1>3 DEF ReadDirectories
  <2> HIDE DEF paths
  <2>3. Len(paths) \in Nat /\ DOMAIN paths = 1 .. Len(paths)
    BY <2>1, LenProperties
  <2> QED BY <1>2, <2>1, <2>2, <2>3 DEF Trimmable
<1>4. CASE ReadFileCopies
  <2> DEFINE copies == config.file_copies
             paths == [i \in DOMAIN copies |-> copies[i].dst]
  <2>1. copies \in Seq([src : Path, dst : Path])
    BY <1>1 DEF IsConfig
  <2>2. directories' = AddDirectories(directories, paths)
    BY <1>4 DEF ReadFileCopies
  <2> HIDE DEF copies
  <2>3. Len(copies) \in Nat /\ DOMAIN copies = 1 .. Len(copies)
        /\ \A i \in 1 .. Len(copies) : copies[i].dst \in Path
    <3>1. Len(copies) \in Nat /\ DOMAIN copies = 1 .. Len(copies)
      BY <2>1, LenProperties
    <3>2. \A i \in 1 .. Len(copies) : copies[i] \in [src : Path, dst : Path]
      BY <2>1, ElementOfSeq
    <3> QED BY <3>1, <3>2
  <2>4. paths \in Seq(Path) /\ Len(paths) = Len(copies) /\ \A i \in 1 .. Len(paths) : paths[i] \in Path
    BY <2>3, SeqDef, LenProperties
  <2> HIDE DEF paths
  <2> QED BY <1>2, <2>2, <2>3, <2>4, TrimmedPath DEF Trimmable
<1>5. CASE AddExecutable
  <2> DEFINE paths == <<executables[k]>> \o Dependencies(executables[k])
  <2>1. directories' = AddDirectories(directories, paths)
    BY <1>5 DEF AddExecutable
  <2>2. paths \in Seq(Path)
    BY <1>5, NeedsPaths
  <2> HIDE DEF paths
  <2>3. Len(paths) \in Nat /\ \A i \in 1 .. Len(paths) : paths[i] \in Path
    BY <2>2, LenProperties, ElementOfSeq
  <2> QED BY <1>2, <2>1, <2>3, TrimmedPath DEF Trimmable
<1> QED BY <1>3, <1>4, <1>5

(* Where a path leads that is not where it is (configer.c:565-599). *)
LEMMA MovedFacts ==
    ASSUME InputKept, NEW p \in Path, NEW real, real = realpath(host, p), real \notin {Missing, p}
    PROVE  /\ Moves(p) /\ real \in host.dirs \cup host.files /\ real \in Path
           /\ realpath(host, real) = real /\ ~Moves(real)
           /\ Trimmed(real) \in Path \cup {Slash}
           /\ Lineage(Listed(real)) \subseteq host.dirs
           /\ Lineage(real) \subseteq {real} \cup Lineage(Listed(real))
<1>1. IsHost(host)
  BY InputFacts
<1>2. real \in host.dirs \cup host.files /\ real \in Path /\ realpath(host, real) = real
  BY <1>1, RealpathRange
<1>3. Moves(p) /\ ~Moves(real)
  BY <1>2 DEF Moves
<1>4. Trimmed(real) = real
  BY <1>2, TrimmedPath
<1>5. \A q \in Lineage(real) : q = real \/ q \in host.dirs
  BY <1>1, <1>2, HostFacts
<1>6. CASE real \in host.dirs
  <2>1. Listed(real) = real
    BY <1>2, <1>4, <1>6 DEF Listed
  <2> QED BY <1>2, <1>3, <1>4, <1>5, <1>6, <2>1
<1>7. CASE real \notin host.dirs
  <2>1. Listed(real) = Parent(real)
    BY <1>2, <1>4, <1>7 DEF Listed
  <2>2. CASE Parent(real) = Slash /\ Lineage(real) = {real}
    BY <1>2, <1>3, <1>4, <2>1, <2>2, SlashParent
  <2>3. CASE /\ Parent(real) \in Path /\ Parent(real) \in Lineage(real)
             /\ Lineage(real) = {real} \cup Lineage(Parent(real))
             /\ Len(Parent(real)) < Len(real)
    <3>1. ASSUME NEW q \in Lineage(Parent(real)) PROVE q \in host.dirs
      <4>1. Parent(real) # real
        BY <2>3
      <4>2. Parent(real) \in host.dirs
        BY <1>5, <2>3, <4>1
      <4>3. q = Parent(real) \/ q \in host.dirs
        BY <1>1, <4>2, HostFacts
      <4> QED BY <4>2, <4>3
    <3> QED BY <1>2, <1>3, <1>4, <2>1, <2>3, <3>1
  <2> QED BY <1>2, <2>2, <2>3, ParentFacts
<1> QED BY <1>6, <1>7

(* Directory j after the rewriting of directory k. *)
RewrittenDirectory(j, old, real) ==
    IF j = k THEN real
    ELSE IF j <= count THEN Rewrite(directories[j], old \o Slash, real \o Slash)
    ELSE directories[j]

Rewritten(ds, old, real) ==
    /\ ds \in Seq(Path) /\ Len(ds) = Len(directories)
    /\ \A j \in 1 .. Len(directories) : ds[j] = RewrittenDirectory(j, old, real)

LEMMA RewriteIsPath ==
    ASSUME NEW p \in Path, NEW old \in Path, NEW real \in Path
    PROVE  Rewrite(p, old \o Slash, real \o Slash) \in Path
<1>1. CASE IsPrefix(old \o Slash, p)
  BY <1>1, RewrittenUnder
<1>2. CASE ~IsPrefix(old \o Slash, p)
  BY <1>2 DEF Rewrite
<1> QED BY <1>1, <1>2

(* configer.c:565-599. *)
LEMMA ResolveGrows ==
    ASSUME TypeOK, InputKept, resolve_paths_in_array, NEW old, old = directories[k],
           NEW real, real = realpath(host, old), real \notin {Missing, old}
    PROVE  /\ old \in Path /\ k \in 1 .. Len(directories) /\ k <= count
           /\ \E ds : Rewritten(ds, old, real) /\
                      Grown(directories', ds, Lineage(Listed(real)), Path, MAX_DIRECTORIES)
<1>1. /\ directories \in Seq(Path) /\ count \in Nat /\ k \in 1 .. count + 1 /\ k <= count
      /\ count <= Len(directories) /\ Len(directories) \in Nat
  BY LenProperties DEF TypeOK, resolve_paths_in_array
<1>2. k \in 1 .. Len(directories)
  BY <1>1
<1>3. old \in Path
  BY <1>1, <1>2, ElementOfSeq
<1>4. real \in Path /\ Trimmed(real) \in Path \cup {Slash}
  BY <1>3, MovedFacts
<1> DEFINE ds == ResolveDirectories(old, real)
<1>5. directories' = add_directory_with_parents(ds, real)
  BY DEF resolve_paths_in_array
<1>6. ds = [j \in 1 .. Len(directories) |-> RewrittenDirectory(j, old, real)]
  <2>1. DOMAIN directories = 1 .. Len(directories)
    BY <1>1, LenProperties
  <2> QED BY <2>1 DEF ResolveDirectories, RewrittenDirectory
<1> HIDE DEF ds
<1>7. ASSUME NEW j \in 1 .. Len(directories) PROVE RewrittenDirectory(j, old, real) \in Path
  <2>1. directories[j] \in Path
    BY <1>1, ElementOfSeq
  <2>2. Rewrite(directories[j], old \o Slash, real \o Slash) \in Path
    BY <1>3, <1>4, <2>1, RewriteIsPath
  <2> QED BY <1>4, <2>1, <2>2 DEF RewrittenDirectory
<1>8. ds \in Seq(Path) /\ Len(ds) = Len(directories)
  <2>1. ds \in [1 .. Len(directories) -> Path]
    BY <1>6, <1>7
  <2> QED BY <1>1, <2>1, SeqDef, LenProperties
<1>9. Rewritten(ds, old, real)
  BY <1>6, <1>8 DEF Rewritten
<1>10. Grown(add_directory_with_parents(ds, real), ds, Lineage(Listed(real)), Path, MAX_DIRECTORIES)
  BY <1>4, <1>8, DirectoryGrown
<1> QED BY <1>1, <1>2, <1>3, <1>5, <1>9, <1>10

(* configer.c:605-668. *)
LEMMA CopyResolvedGrows ==
    ASSUME TypeOK, InputKept, NEW old \in Path, NEW real, real = realpath(host, old),
           real \notin {Missing, old}, directories' = add_directory_with_parents(directories, real)
    PROVE  Grown(directories', directories, Lineage(Listed(real)), Path, MAX_DIRECTORIES)
<1>1. directories \in Seq(Path)
  BY DEF TypeOK
<1>2. Trimmed(real) \in Path \cup {Slash}
  BY MovedFacts
<1> QED BY <1>1, <1>2, DirectoryGrown

(* The arrays of TypeOK. *)
ArraysOK ==
    /\ directories \in Seq(Path) /\ Len(directories) <= MAX_DIRECTORIES
    /\ executables \in Seq(Path) /\ Len(executables) <= MAX_EXECUTABLES
    /\ file_copies \in Seq([src : Path, dst : Path]) /\ Len(file_copies) <= MAX_FILE_COPIES
    /\ symlinks \in Seq([sym : Path, dst : Path]) /\ Len(symlinks) <= MAX_SYMLINKS

LEMMA LinkAdded ==
    ASSUME TypeOK, NEW sym \in Path, NEW dst \in Path, symlinks' = add_unique_symlink(symlinks, sym, dst)
    PROVE  /\ symlinks' \in Seq([sym : Path, dst : Path]) /\ Len(symlinks') <= MAX_SYMLINKS
           /\ ToSet(symlinks') \subseteq ToSet(symlinks) \cup {[sym |-> sym, dst |-> dst]}
<1> DEFINE l == [sym |-> sym, dst |-> dst]
           X == [sym : Path, dst : Path]
<1>1. l \in X /\ symlinks \in Seq(X) /\ Len(symlinks) <= MAX_SYMLINKS /\ MAX_SYMLINKS \in Nat
  BY Bounds DEF TypeOK
<1>2. symlinks' = Added(symlinks, l, MAX_SYMLINKS)
  BY DEF add_unique_symlink
<1> HIDE DEF l, X
<1>3. Grown(Added(symlinks, l, MAX_SYMLINKS), symlinks, {l}, X, MAX_SYMLINKS)
  BY <1>1, AddedGrown
<1> DEFINE links == Added(symlinks, l, MAX_SYMLINKS)
<1> HIDE DEF links
<1>4. /\ links \in Seq(X) /\ Len(links) <= MAX_SYMLINKS
      /\ ToSet(links) \subseteq ToSet(symlinks) \cup {l}
  BY <1>1, <1>3, GrownFits, GrownKeeps DEF links
<1> QED BY <1>2, <1>4 DEF links, l, X

(* Copy j with its field resolved. *)
FieldResolved(j, field, old, real) ==
    IF j = k THEN real ELSE Rewrite(file_copies[j][field], old, real)

(* What resolving a field of a copy does to the arrays (configer.c:605-668). *)
CopyResolved(field, old, real) ==
    /\ k \in 1 .. Len(file_copies) /\ old \in Path /\ real \in Path
    /\ file_copies' \in Seq([src : Path, dst : Path]) /\ Len(file_copies') = Len(file_copies)
    /\ \A j \in 1 .. Len(file_copies) : \A g \in {"src", "dst"} :
         file_copies'[j][g] = IF g = field THEN FieldResolved(j, field, old, real)
                              ELSE file_copies[j][g]
    /\ Grown(directories', directories, Lineage(Listed(real)), Path, MAX_DIRECTORIES)
    /\ symlinks' = add_unique_symlink(symlinks, old, real)

LEMMA ResolveFacts ==
    ASSUME TypeOK, InputKept, NEW field \in {"src", "dst"}, NEW next, NEW i, Resolve(field, next, i),
           count = Len(file_copies),
           NEW old, old = file_copies[k][field], NEW real, real = realpath(host, old),
           real \notin {Missing, old}
    PROVE  CopyResolved(field, old, real)
<1> DEFINE X == [src : Path, dst : Path]
           N == Len(file_copies)
<1>1. /\ file_copies \in Seq(X) /\ N \in Nat /\ DOMAIN file_copies = 1 .. N
      /\ k \in 1 .. count + 1 /\ k <= count /\ count \in Nat
  BY LenProperties DEF TypeOK, Resolve
<1>2. k \in 1 .. N
  BY <1>1
<1>3. \A j \in 1 .. N : file_copies[j] \in X
  BY <1>1, ElementOfSeq
<1>4. \A j \in 1 .. N : \A g \in {"src", "dst"} : file_copies[j][g] \in Path
  BY <1>3
<1>5. old \in Path
  BY <1>2, <1>4
<1>6. real \in Path
  BY <1>5, MovedFacts
<1>7. /\ file_copies' = ResolveField(field, old, real)
      /\ directories' = add_directory_with_parents(directories, real)
      /\ symlinks' = add_unique_symlink(symlinks, old, real)
  BY DEF Resolve
<1>8. ASSUME NEW j \in 1 .. N PROVE FieldResolved(j, field, old, real) \in Path
  <2> DEFINE p == file_copies[j][field]
  <2>1. p \in Path
    BY <1>4
  <2> HIDE DEF p
  <2>2. Rewrite(p, old, real) \in Path
    <3>1. CASE IsPrefix(old, p)
      BY <1>5, <1>6, <2>1, <3>1, RewrittenPath
    <3>2. CASE ~IsPrefix(old, p)
      BY <2>1, <3>2 DEF Rewrite
    <3> QED BY <3>1, <3>2
  <2> QED BY <1>6, <2>2 DEF FieldResolved, p
<1> DEFINE Copy(j) == [file_copies[j] EXCEPT ![field] = FieldResolved(j, field, old, real)]
<1>9. file_copies' = [j \in 1 .. N |-> Copy(j)]
  <2>1. file_copies' = [j \in 1 .. N |->
           IF j = k THEN [file_copies[j] EXCEPT ![field] = real]
           ELSE [file_copies[j] EXCEPT ![field] = Rewrite(file_copies[j][field], old, real)]]
    BY <1>1, <1>7 DEF ResolveField
  <2>2. ASSUME NEW j \in 1 .. N
        PROVE  Copy(j) = IF j = k THEN [file_copies[j] EXCEPT ![field] = real]
                         ELSE [file_copies[j] EXCEPT ![field] = Rewrite(file_copies[j][field], old, real)]
    BY DEF FieldResolved
  <2> HIDE DEF Copy
  <2> QED BY <2>1, <2>2
<1>10. ASSUME NEW j \in 1 .. N
       PROVE  /\ Copy(j) \in X
              /\ \A g \in {"src", "dst"} :
                   Copy(j)[g] = IF g = field THEN FieldResolved(j, field, old, real)
                                ELSE file_copies[j][g]
  <2> DEFINE c == file_copies[j]
             p == FieldResolved(j, field, old, real)
  <2>1. c \in X /\ p \in Path
    BY <1>3, <1>8
  <2> HIDE DEF c, p
  <2>2. /\ [c EXCEPT ![field] = p] \in X
        /\ \A g \in {"src", "dst"} : [c EXCEPT ![field] = p][g] = IF g = field THEN p ELSE c[g]
    BY <2>1
  <2> QED BY <2>2 DEF c, p
<1> HIDE DEF Copy
<1>11. file_copies' \in Seq(X) /\ Len(file_copies') = N
  <2>1. file_copies' \in [1 .. N -> X]
    BY <1>9, <1>10
  <2> QED BY <1>1, <2>1, SeqDef, LenProperties
<1>12. Grown(directories', directories, Lineage(Listed(real)), Path, MAX_DIRECTORIES)
  BY <1>5, <1>7, CopyResolvedGrows
<1> QED BY <1>2, <1>5, <1>6, <1>7, <1>9, <1>10, <1>11, <1>12 DEF CopyResolved

(* One entry per key, in order: no entry is new (configer.c:314-446). *)
LEMMA CopiesSorted ==
    ASSUME NEW s \in Seq([src : Path, dst : Path]), NEW t \in SortedUnique(s, LAMBDA c : c.dst)
    PROVE  /\ t \in Seq([src : Path, dst : Path]) /\ Len(t) <= Len(s)
           /\ ToSet(t) \subseteq ToSet(s)
           /\ \A c \in ToSet(s) : \E d \in ToSet(t) : d.dst = c.dst
<1> DEFINE X == [src : Path, dst : Path]
<1>1. PICK R \in OnePerKey(ToSet(s), LAMBDA c : c.dst) : t = InOrder(R, LAMBDA d, e : Before(d.dst, e.dst))
  BY DEF SortedUnique
<1>2. /\ R \subseteq ToSet(s) /\ \A x, y \in R : x.dst = y.dst => x = y
      /\ \A e \in ToSet(s) : \E x \in R : x.dst = e.dst
  <2>1. R \subseteq ToSet(s) /\ \A e \in ToSet(s) : \E x \in R : \A y \in R : y.dst = e.dst <=> y = x
    BY <1>1, Zenon DEF OnePerKey
  <2> QED BY <2>1
<1>3. IsFiniteSet(R) /\ R \subseteq X /\ Cardinality(R) \in Nat /\ Cardinality(R) <= Len(s)
  BY <1>2, FewerOf
<1>4. InKeyOrder(InOrder(R, LAMBDA d, e : Before(d.dst, e.dst)), R, [c \in R |-> c.dst])
  BY <1>2, <1>3, CopiesInOrder
<1>5. t \in Seq(R) /\ Len(t) = Cardinality(R) /\ ToSet(t) = R
  BY <1>1, <1>4 DEF InKeyOrder
<1>6. t \in Seq(X)
  BY <1>3, <1>5, SeqDef
<1> QED BY <1>2, <1>3, <1>5, <1>6

LEMMA LinksSorted ==
    ASSUME NEW s \in Seq([sym : Path, dst : Path]), NEW t \in SortedUnique(s, LAMBDA l : l.sym)
    PROVE  /\ t \in Seq([sym : Path, dst : Path]) /\ Len(t) <= Len(s)
           /\ ToSet(t) \subseteq ToSet(s)
           /\ \A i, j \in 1 .. Len(t) : i < j => Before(t[i].sym, t[j].sym)
           /\ \A l \in ToSet(s) : \E i \in 1 .. Len(t) : t[i].sym = l.sym
<1> DEFINE X == [sym : Path, dst : Path]
<1>1. PICK R \in OnePerKey(ToSet(s), LAMBDA l : l.sym) : t = InOrder(R, LAMBDA d, e : Before(d.sym, e.sym))
  BY DEF SortedUnique
<1>2. /\ R \subseteq ToSet(s) /\ \A x, y \in R : x.sym = y.sym => x = y
      /\ \A e \in ToSet(s) : \E x \in R : x.sym = e.sym
  <2>1. R \subseteq ToSet(s) /\ \A e \in ToSet(s) : \E x \in R : \A y \in R : y.sym = e.sym <=> y = x
    BY <1>1, Zenon DEF OnePerKey
  <2> QED BY <2>1
<1>3. IsFiniteSet(R) /\ R \subseteq X /\ Cardinality(R) \in Nat /\ Cardinality(R) <= Len(s)
  BY <1>2, FewerOf
<1>4. InKeyOrder(InOrder(R, LAMBDA d, e : Before(d.sym, e.sym)), R, [l \in R |-> l.sym])
  BY <1>2, <1>3, LinksInOrder
<1> DEFINE key == [l \in R |-> l.sym]
<1>5. /\ t \in Seq(R) /\ Len(t) = Cardinality(R) /\ ToSet(t) = R
      /\ \A i, j \in 1 .. Len(t) : i < j => Before(key[t[i]], key[t[j]])
  BY <1>1, <1>4 DEF InKeyOrder
<1>6. t \in Seq(X)
  BY <1>3, <1>5, SeqDef
<1>7. \A i \in 1 .. Len(t) : t[i] \in R /\ key[t[i]] = t[i].sym
  BY <1>5, ElementOfSeq
<1> HIDE DEF key
<1>8. \A i, j \in 1 .. Len(t) : i < j => Before(t[i].sym, t[j].sym)
  BY <1>5, <1>7
<1>9. ASSUME NEW l \in ToSet(s) PROVE \E i \in 1 .. Len(t) : t[i].sym = l.sym
  <2>1. PICK x \in R : x.sym = l.sym
    BY <1>2
  <2>2. PICK i \in 1 .. Len(t) : x = t[i]
    BY <1>5, SetOfSeq
  <2> QED BY <2>1, <2>2
<1> QED BY <1>2, <1>3, <1>5, <1>6, <1>8, <1>9

LEMMA DirectoriesSortedOnce ==
    ASSUME NEW s \in Seq(Path), NEW t, t = InOrder(ToSet(s), Before)
    PROVE  /\ t \in Seq(Path) /\ Len(t) <= Len(s) /\ ToSet(t) = ToSet(s)
           /\ \A i, j \in 1 .. Len(t) : i < j => Before(t[i], t[j])
<1> DEFINE S == ToSet(s)
           key == [p \in S |-> p]
<1>1. IsFiniteSet(S) /\ S \subseteq Path /\ Cardinality(S) \in Nat /\ Cardinality(S) <= Len(s)
  BY FewerOf
<1>2. t = InOrder(S, Before)
  OBVIOUS
<1> HIDE DEF S
<1>3. InKeyOrder(InOrder(S, Before), S, key)
  BY <1>1, DirectoriesInOrder
<1>4. /\ t \in Seq(S) /\ Len(t) = Cardinality(S) /\ ToSet(t) = S
      /\ \A i, j \in 1 .. Len(t) : i < j => Before(key[t[i]], key[t[j]])
  BY <1>2, <1>3 DEF InKeyOrder
<1>5. \A i \in 1 .. Len(t) : t[i] \in S
  BY <1>4, ElementOfSeq
<1>6. \A i, j \in 1 .. Len(t) : i < j => Before(t[i], t[j])
  BY <1>4, <1>5
<1>7. t \in Seq(Path)
  BY <1>1, <1>4, SeqDef
<1> QED BY <1>1, <1>4, <1>6, <1>7 DEF S

LEMMA CopiesAdded ==
    ASSUME TypeOK, NEW copies \in Seq([src : Path, dst : Path]),
           file_copies' = add_unique_file_copies(file_copies, copies)
    PROVE  /\ file_copies' \in Seq([src : Path, dst : Path]) /\ Len(file_copies') <= MAX_FILE_COPIES
           /\ ToSet(file_copies') \subseteq ToSet(file_copies) \cup ToSet(copies)
           /\ ToSet(file_copies) \subseteq ToSet(file_copies')
           /\ Len(file_copies') < MAX_FILE_COPIES => ToSet(copies) \subseteq ToSet(file_copies')
<1> DEFINE X == [src : Path, dst : Path]
           t == AddedAll(file_copies, copies, MAX_FILE_COPIES)
<1>1. file_copies \in Seq(X) /\ Len(file_copies) <= MAX_FILE_COPIES /\ MAX_FILE_COPIES \in Nat
  BY Bounds DEF TypeOK
<1>2. file_copies' = t
  BY DEF add_unique_file_copies
<1> HIDE DEF X
<1>3. Grown(t, file_copies, ToSet(copies), X, MAX_FILE_COPIES)
  BY <1>1, AddedAllGrown DEF X
<1> HIDE DEF t
<1>4. Len(t) < MAX_FILE_COPIES => ToSet(copies) \subseteq ToSet(t)
  BY <1>3 DEF Grown
<1> QED BY <1>1, <1>2, <1>3, <1>4, GrownFits, GrownKeeps DEF X

LEMMA LinksAdded ==
    ASSUME TypeOK, NEW links \in Seq([sym : Path, dst : Path]),
           symlinks' = AddedAll(symlinks, links, MAX_SYMLINKS)
    PROVE  /\ symlinks' \in Seq([sym : Path, dst : Path]) /\ Len(symlinks') <= MAX_SYMLINKS
           /\ ToSet(symlinks') \subseteq ToSet(symlinks) \cup ToSet(links)
<1> DEFINE X == [sym : Path, dst : Path]
           t == AddedAll(symlinks, links, MAX_SYMLINKS)
<1>1. symlinks \in Seq(X) /\ Len(symlinks) <= MAX_SYMLINKS /\ MAX_SYMLINKS \in Nat
  BY Bounds DEF TypeOK
<1>2. symlinks' = t
  OBVIOUS
<1> HIDE DEF X
<1>3. Grown(t, symlinks, ToSet(links), X, MAX_SYMLINKS)
  BY <1>1, AddedAllGrown DEF X
<1> HIDE DEF t
<1> QED BY <1>1, <1>2, <1>3, GrownFits, GrownKeeps DEF X

(* The copies that an executable asks for. *)
LEMMA NeededCopies ==
    ASSUME TypeOK, InputKept, AddExecutable
    PROVE  \E copies \in Seq([src : Path, dst : Path]) :
              /\ file_copies' = add_unique_file_copies(file_copies, copies)
              /\ ToSet(copies) = {[src |-> p, dst |-> p] : p \in {executables[k]} \cup
                                     ToSet(Dependencies(executables[k]))}
<1> DEFINE e == executables[k]
           deps == Dependencies(e)
           needs == <<e>> \o deps
           copies == [i \in DOMAIN needs |-> [src |-> needs[i], dst |-> needs[i]]]
<1>1. e \in Path /\ deps \in Seq(Path) /\ needs \in Seq(Path)
  BY NeedsPaths
<1>2. file_copies' = add_unique_file_copies(file_copies, copies)
  BY DEF AddExecutable
<1> HIDE DEF e, deps
<1>3. <<e>> \in Seq(Path) /\ Len(<<e>>) = 1 /\ <<e>>[1] = e
  BY <1>1
<1>4. /\ Len(needs) = 1 + Len(deps) /\ needs[1] = e
      /\ \A i \in 1 .. Len(deps) : needs[1 + i] = deps[i]
      /\ Len(deps) \in Nat
  <2>1. /\ Len(needs) = Len(<<e>>) + Len(deps) /\ Len(deps) \in Nat
        /\ \A i \in 1 .. Len(<<e>>) : needs[i] = <<e>>[i]
        /\ \A i \in 1 .. Len(deps) : needs[Len(<<e>>) + i] = deps[i]
    BY <1>1, <1>3, ConcatProperties, LenProperties
  <2> HIDE DEF needs
  <2> QED BY <1>3, <2>1
<1> HIDE DEF needs
<1>5. ASSUME NEW i \in 1 .. Len(needs) PROVE needs[i] \in {e} \cup ToSet(deps)
  <2>1. CASE i = 1
    BY <1>4, <2>1
  <2>2. CASE i # 1
    <3>1. i - 1 \in 1 .. Len(deps) /\ 1 + (i - 1) = i
      BY <1>4, <2>2
    <3>2. needs[1 + (i - 1)] = deps[i - 1]
      BY <1>4, <3>1
    <3>3. deps[i - 1] \in ToSet(deps)
      BY <1>1, <3>1, SetOfSeq
    <3> QED BY <3>1, <3>2, <3>3
  <2> QED BY <2>1, <2>2
<1>6. DOMAIN needs = 1 .. Len(needs) /\ Len(needs) \in Nat /\ \A i \in 1 .. Len(needs) : needs[i] \in Path
  BY <1>1, LenProperties, ElementOfSeq
<1>7. copies \in Seq([src : Path, dst : Path]) /\ Len(copies) = Len(needs)
  <2> DEFINE Z == [src : Path, dst : Path]
             n == Len(needs)
  <2>1. copies \in [1 .. n -> Z] /\ n \in Nat
    BY <1>6
  <2> HIDE DEF copies, Z, n
  <2>2. copies \in Seq(Z)
    BY <2>1, SeqDef
  <2>3. Len(copies) = n
    BY <2>1, <2>2, LenProperties
  <2> QED BY <2>2, <2>3 DEF Z, n
<1>8. \A i \in 1 .. Len(needs) : copies[i] = [src |-> needs[i], dst |-> needs[i]]
  BY <1>6
<1>9. ASSUME NEW c \in ToSet(copies)
      PROVE  c \in {[src |-> p, dst |-> p] : p \in {e} \cup ToSet(deps)}
  <2> HIDE DEF copies
  <2>1. PICK i \in 1 .. Len(needs) : c = copies[i]
    BY <1>7, SetOfSeq
  <2> QED BY <1>5, <1>8, <2>1
<1>10. ASSUME NEW p \in {e} \cup ToSet(deps)
       PROVE  [src |-> p, dst |-> p] \in ToSet(copies)
  <2>1. PICK i \in 1 .. Len(needs) : needs[i] = p
    <3>1. CASE p = e
      BY <1>4, <3>1
    <3>2. CASE p \in ToSet(deps)
      <4>1. PICK j \in 1 .. Len(deps) : p = deps[j]
        BY <1>1, <3>2, SetOfSeq
      <4>2. 1 + j \in 1 .. Len(needs)
        BY <1>4
      <4> QED BY <1>4, <4>1, <4>2
    <3> QED BY <3>1, <3>2
  <2> HIDE DEF copies
  <2> QED BY <1>7, <1>8, <2>1, SetOfSeq
<1> HIDE DEF copies
<1>11. ToSet(copies) = {[src |-> p, dst |-> p] : p \in {e} \cup ToSet(deps)}
  BY <1>9, <1>10
<1> QED BY <1>2, <1>7, <1>11 DEF e, deps

LEMMA ArraysStep ==
    ASSUME TypeOK, InputKept, Next
    PROVE  ArraysOK'
<1> DEFINE X == [src : Path, dst : Path]
           Y == [sym : Path, dst : Path]
           DirectoriesOK == directories' \in Seq(Path) /\ Len(directories') <= MAX_DIRECTORIES
           ExecutablesOK == executables' \in Seq(Path) /\ Len(executables') <= MAX_EXECUTABLES
           CopiesOK == file_copies' \in Seq(X) /\ Len(file_copies') <= MAX_FILE_COPIES
           LinksOK == symlinks' \in Seq(Y) /\ Len(symlinks') <= MAX_SYMLINKS
<1>1. /\ UNCHANGED directories => DirectoriesOK
      /\ UNCHANGED executables => ExecutablesOK
      /\ UNCHANGED file_copies => CopiesOK
      /\ UNCHANGED symlinks => LinksOK
  BY DEF TypeOK
<1>2. ArraysOK' <=> DirectoriesOK /\ ExecutablesOK /\ CopiesOK /\ LinksOK
  BY DEF ArraysOK
<1>3. ASSUME NEW E, NEW ds \in Seq(Path), Len(ds) <= MAX_DIRECTORIES,
             Grown(directories', ds, E, Path, MAX_DIRECTORIES)
      PROVE  DirectoriesOK
  BY <1>3, Bounds, GrownFits
<1>4. directories \in Seq(Path) /\ Len(directories) <= MAX_DIRECTORIES
  BY DEF TypeOK
<1> HIDE DEF DirectoriesOK, ExecutablesOK, CopiesOK, LinksOK
<1>5. CASE \/ ReadSettings \/ AllExecutablesAdded \/ AllDirectoriesResolved \/ AllCopiesResolved
           \/ write_output_config
  BY <1>1, <1>2, <1>5 DEF ReadSettings, AllExecutablesAdded, AllDirectoriesResolved, AllCopiesResolved,
    write_output_config
<1>6. CASE ReadDirectories
  <2>1. DirectoriesOK
    BY <1>3, <1>4, <1>6, ReadingGrows
  <2> QED BY <1>1, <1>2, <1>6, <2>1 DEF ReadDirectories
<1>7. CASE ReadExecutables
  <2>1. config.executables \in Seq(Path) /\ config.root_process \in Path
    BY InputFacts DEF IsConfig
  <2> DEFINE es == Append(config.executables, config.root_process)
  <2>2. es \in Seq(Path)
    BY <2>1, AppendProperties
  <2>3. executables \in Seq(Path) /\ Len(executables) <= MAX_EXECUTABLES /\ MAX_EXECUTABLES \in Nat
    BY Bounds DEF TypeOK
  <2>4. executables' = AddedAll(executables, es, MAX_EXECUTABLES)
    BY <1>7 DEF ReadExecutables
  <2> HIDE DEF es
  <2>5. Grown(AddedAll(executables, es, MAX_EXECUTABLES), executables, ToSet(es), Path, MAX_EXECUTABLES)
    BY <2>2, <2>3, AddedAllGrown
  <2>6. ExecutablesOK
    BY <2>3, <2>4, <2>5, GrownFits DEF ExecutablesOK
  <2> QED BY <1>1, <1>2, <1>7, <2>6 DEF ReadExecutables
<1>8. CASE ReadFileCopies
  <2>1. DirectoriesOK
    BY <1>3, <1>4, <1>8, ReadingGrows
  <2>2. config.file_copies \in Seq(X)
    BY InputFacts DEF IsConfig
  <2>3. file_copies' = add_unique_file_copies(file_copies, config.file_copies)
    BY <1>8 DEF ReadFileCopies
  <2>4. CopiesOK
    BY <2>2, <2>3, CopiesAdded DEF CopiesOK
  <2> QED BY <1>1, <1>2, <1>8, <2>1, <2>4 DEF ReadFileCopies
<1>9. CASE AddExecutable
  <2>1. DirectoriesOK
    BY <1>3, <1>4, <1>9, ReadingGrows
  <2>2. CopiesOK
    BY <1>9, NeededCopies, CopiesAdded DEF CopiesOK
  <2> QED BY <1>1, <1>2, <1>9, <2>1, <2>2 DEF AddExecutable
<1>10. CASE resolve_paths_in_array
  <2> DEFINE old == directories[k]
             real == realpath(host, old)
  <2>1. CASE real \in {Missing, old}
    BY <1>1, <1>2, <1>10, <2>1 DEF resolve_paths_in_array
  <2>2. CASE real \notin {Missing, old}
    <3>1. symlinks' = add_unique_symlink(symlinks, old, real)
      BY <1>10, <2>2 DEF resolve_paths_in_array
    <3>2. executables' = executables /\ file_copies' = file_copies
      BY <1>10 DEF resolve_paths_in_array
    <3> HIDE DEF old, real
    <3>3. PICK ds : Rewritten(ds, old, real) /\
                    Grown(directories', ds, Lineage(Listed(real)), Path, MAX_DIRECTORIES)
      BY <1>10, <2>2, ResolveGrows DEF old, real
    <3>4. old \in Path
      BY <1>10, <2>2, ResolveGrows DEF old, real
    <3>5. real \in Path
      BY <2>2, <3>4, MovedFacts DEF real
    <3>6. LinksOK
      BY <3>1, <3>4, <3>5, LinkAdded DEF LinksOK
    <3>7. DirectoriesOK
      BY <1>3, <1>4, <3>3 DEF Rewritten
    <3> QED BY <1>1, <1>2, <3>2, <3>6, <3>7
  <2> QED BY <2>1, <2>2
<1>11. ASSUME NEW field \in {"src", "dst"}, NEW next, NEW i, Resolve(field, next, i), count = Len(file_copies)
       PROVE  ArraysOK'
  <2> DEFINE old == file_copies[k][field]
             real == realpath(host, old)
  <2>1. CASE real \in {Missing, old}
    BY <1>1, <1>2, <1>11, <2>1 DEF Resolve
  <2>2. CASE real \notin {Missing, old}
    <3>1. old = file_copies[k][field] /\ real = realpath(host, old)
      OBVIOUS
    <3> HIDE DEF old, real
    <3>2. /\ old \in Path /\ real \in Path
          /\ file_copies' \in Seq(X) /\ Len(file_copies') = Len(file_copies)
          /\ Grown(directories', directories, Lineage(Listed(real)), Path, MAX_DIRECTORIES)
          /\ symlinks' = add_unique_symlink(symlinks, old, real)
      <4>1. CopyResolved(field, old, real)
        BY <1>11, <2>2, <3>1, ResolveFacts
      <4> QED BY <4>1 DEF CopyResolved
    <3>3. LinksOK
      BY <3>2, LinkAdded DEF LinksOK
    <3>4. DirectoriesOK
      BY <1>3, <1>4, <3>2
    <3>5. CopiesOK
      BY <3>2 DEF CopiesOK, TypeOK
    <3>6. executables' = executables
      BY <1>11 DEF Resolve
    <3> QED BY <1>1, <1>2, <3>3, <3>4, <3>5, <3>6
  <2> QED BY <2>1, <2>2
<1>12. CASE ResolveSrc \/ ResolveDst
  <2>1. count = Len(file_copies)
    BY <1>12 DEF TypeOK, ResolveSrc, ResolveDst
  <2> QED BY <1>11, <1>12, <2>1 DEF ResolveSrc, ResolveDst
<1>13. CASE ReadSymlinks
  <2>1. config.symlinks \in Seq(Y)
    BY InputFacts DEF IsConfig
  <2>2. LinksOK
    BY <1>13, <2>1, LinksAdded DEF LinksOK, ReadSymlinks
  <2> QED BY <1>1, <1>2, <1>13, <2>2 DEF ReadSymlinks
<1>14. CASE SortDirectories
  <2>1. directories' = InOrder(ToSet(directories), Before)
    BY <1>14 DEF SortDirectories
  <2> DEFINE t == InOrder(ToSet(directories), Before)
  <2> HIDE DEF t
  <2>2. t \in Seq(Path) /\ Len(t) <= Len(directories)
    BY <1>4, DirectoriesSortedOnce DEF t
  <2>3. Len(t) \in Nat /\ Len(directories) \in Nat
    BY <1>4, <2>2, LenProperties
  <2>4. DirectoriesOK
    BY <1>4, <2>1, <2>2, <2>3, Bounds DEF DirectoriesOK, t
  <2> QED BY <1>1, <1>2, <1>14, <2>4 DEF SortDirectories
<1>15. CASE SortSymlinks
  <2>1. PICK links \in SortedUnique(symlinks, LAMBDA l : l.sym) : symlinks' = fix_symlinks(links)
    BY <1>15 DEF SortSymlinks
  <2>2. symlinks \in Seq(Y) /\ Len(symlinks) <= MAX_SYMLINKS
    BY DEF TypeOK
  <2>3. links \in Seq(Y) /\ Len(links) <= Len(symlinks)
    BY <2>1, <2>2, LinksSorted
  <2>4. \A l, m \in Y : Relinked(l, m) \in Y
    BY RelinkedPaths
  <2> DEFINE t == fix_symlinks(links)
             Z == {l \in Y : l.sym # l.dst}
  <2> HIDE DEF t
  <2>5. t \in Seq(Z) /\ Len(t) <= Len(links)
    BY <2>3, <2>4, FixedLinksFit DEF t
  <2>6. t \in Seq(Y)
    <3>1. Z \subseteq Y
      OBVIOUS
    <3> HIDE DEF Y, Z
    <3> QED BY <2>5, <3>1, SeqDef
  <2>7. Len(t) \in Nat /\ Len(links) \in Nat /\ Len(symlinks) \in Nat
    BY <2>2, <2>3, <2>6, LenProperties
  <2>8. LinksOK
    BY <2>1, <2>2, <2>3, <2>5, <2>6, <2>7, Bounds DEF LinksOK, t
  <2> QED BY <1>1, <1>2, <1>15, <2>8 DEF SortSymlinks
<1>16. CASE SortFileCopies
  <2>1. file_copies \in Seq(X) /\ Len(file_copies) <= MAX_FILE_COPIES
    BY DEF TypeOK
  <2>2. file_copies' \in SortedUnique(file_copies, LAMBDA c : c.dst)
    BY <1>16 DEF SortFileCopies
  <2>3. file_copies' \in Seq(X) /\ Len(file_copies') <= Len(file_copies)
    BY <2>1, <2>2, CopiesSorted
  <2>4. Len(file_copies') \in Nat /\ Len(file_copies) \in Nat
    BY <2>1, <2>3, LenProperties
  <2>5. CopiesOK
    BY <2>1, <2>3, <2>4, Bounds DEF CopiesOK
  <2> QED BY <1>1, <1>2, <1>16, <2>5 DEF SortFileCopies
<1> QED BY <1>5, <1>6, <1>7, <1>8, <1>9, <1>10, <1>12, <1>13, <1>14, <1>15, <1>16 DEF Next

(* The loop of TypeOK. *)
LoopOK ==
    /\ pass \in Passes /\ count \in Nat /\ k \in 1 .. count + 1
    /\ pass = "dependencies" => count = Len(executables)
    /\ pass = "resolve_dirs" => count <= Len(directories)
    /\ pass \in {"resolve_src", "resolve_dst"} => count = Len(file_copies)
    /\ pass = "resolve_dst" => k <= count

LEMMA LoopStep ==
    ASSUME TypeOK, InputKept, Next
    PROVE  LoopOK'
<1>1. LoopOK
  BY DEF TypeOK, LoopOK
<1>2. /\ Len(executables) \in Nat /\ Len(directories) \in Nat /\ Len(file_copies) \in Nat
  BY LenProperties DEF TypeOK
<1>3. ASSUME NEW p \in Passes \ {"dependencies", "resolve_dirs", "resolve_src", "resolve_dst"}, Goto(p, 1, 0)
      PROVE  LoopOK'
  <2>1. pass' = p /\ k' = 1 /\ count' = 0
    BY <1>3 DEF Goto
  <2>2. pass' \in Passes \ {"dependencies", "resolve_dirs", "resolve_src", "resolve_dst"}
    BY <2>1
  <2> HIDE DEF Passes
  <2> QED BY <2>1, <2>2 DEF LoopOK
<1>4. CASE \/ ReadSettings \/ ReadDirectories \/ ReadExecutables \/ AllCopiesResolved \/ ReadSymlinks
           \/ SortDirectories \/ SortSymlinks \/ SortFileCopies \/ write_output_config
  <2>1. \E p \in Passes \ {"dependencies", "resolve_dirs", "resolve_src", "resolve_dst"} : Goto(p, 1, 0)
    <3>1. {"directories", "failed", "executables", "file_copies", "symlinks", "sort_directories",
           "sort_symlinks", "sort_file_copies", "write", "written"}
          \subseteq Passes \ {"dependencies", "resolve_dirs", "resolve_src", "resolve_dst"}
      BY DEF Passes
    <3> QED BY <1>4, <3>1 DEF ReadSettings, ReadDirectories, ReadExecutables, AllCopiesResolved,
      ReadSymlinks, SortDirectories, SortSymlinks, SortFileCopies, write_output_config
  <2> QED BY <1>3, <2>1
<1>5. CASE ReadFileCopies
  <2>1. /\ pass' = "dependencies" /\ k' = 1 /\ count' = Len(executables) /\ executables' = executables
    BY <1>5 DEF ReadFileCopies, Goto
  <2> QED BY <1>2, <2>1 DEF LoopOK, Passes
<1>6. CASE AddExecutable
  <2>1. /\ pass' = "dependencies" /\ pass = "dependencies" /\ k <= count /\ k' = k + 1 /\ count' = count
        /\ executables' = executables
    BY <1>6 DEF AddExecutable, Goto
  <2>2. count \in Nat /\ k \in 1 .. count + 1 /\ count = Len(executables)
    BY <1>1, <2>1 DEF LoopOK
  <2>3. k' \in 1 .. count' + 1
    BY <2>1, <2>2
  <2> QED BY <2>1, <2>2, <2>3 DEF LoopOK, Passes
<1>7. CASE AllExecutablesAdded
  <2>1. /\ pass' = "resolve_dirs" /\ k' = 1 /\ count' = Len(directories) /\ directories' = directories
    BY <1>7 DEF AllExecutablesAdded, Goto
  <2> QED BY <1>2, <2>1 DEF LoopOK, Passes
<1>8. CASE resolve_paths_in_array
  <2>1. /\ pass' = "resolve_dirs" /\ pass = "resolve_dirs" /\ k <= count /\ k' = k + 1 /\ count' = count
    BY <1>8 DEF resolve_paths_in_array, Goto
  <2>2. count \in Nat /\ k \in 1 .. count + 1 /\ count <= Len(directories)
    BY <1>1, <2>1 DEF LoopOK
  <2>3. Len(directories) <= Len(directories') /\ Len(directories') \in Nat
    <3> DEFINE old == directories[k]
               real == realpath(host, old)
    <3>1. CASE real \in {Missing, old}
      BY <1>2, <1>8, <3>1 DEF resolve_paths_in_array
    <3>2. CASE real \notin {Missing, old}
      <4>1. old = directories[k] /\ real = realpath(host, old)
        OBVIOUS
      <4> HIDE DEF old, real
      <4>2. PICK ds : Rewritten(ds, old, real) /\
                      Grown(directories', ds, Lineage(Listed(real)), Path, MAX_DIRECTORIES)
        BY <1>8, <3>2, <4>1, ResolveGrows
      <4>3. ds \in Seq(Path) /\ Len(ds) = Len(directories)
        BY <4>2 DEF Rewritten
      <4>4. directories' \in Seq(Path) /\ Len(ds) <= Len(directories')
        BY <4>2 DEF Grown
      <4> QED BY <4>3, <4>4, LenProperties
    <3> QED BY <3>1, <3>2
  <2>4. k' \in 1 .. count' + 1 /\ count' <= Len(directories')
    BY <1>2, <2>1, <2>2, <2>3
  <2> QED BY <2>1, <2>2, <2>4 DEF LoopOK, Passes
<1>9. CASE AllDirectoriesResolved
  <2>1. /\ pass' = "resolve_src" /\ k' = 1 /\ count' = Len(file_copies) /\ file_copies' = file_copies
    BY <1>9 DEF AllDirectoriesResolved, Goto
  <2> QED BY <1>2, <2>1 DEF LoopOK, Passes
<1>10. ASSUME NEW field \in {"src", "dst"}, NEW next, NEW i, Resolve(field, next, i), count = Len(file_copies)
       PROVE  Len(file_copies') = Len(file_copies)
  <2> DEFINE old == file_copies[k][field]
             real == realpath(host, old)
  <2>1. CASE real \in {Missing, old}
    BY <1>10, <2>1 DEF Resolve
  <2>2. CASE real \notin {Missing, old}
    <3>1. old = file_copies[k][field] /\ real = realpath(host, old)
      OBVIOUS
    <3> HIDE DEF old, real
    <3>2. CopyResolved(field, old, real)
      BY <1>10, <2>2, <3>1, ResolveFacts
    <3> QED BY <3>2 DEF CopyResolved
  <2> QED BY <2>1, <2>2
<1>11. CASE ResolveSrc
  <2>1. pass = "resolve_src" /\ Resolve("src", "resolve_dst", k)
    BY <1>11 DEF ResolveSrc
  <2>2. /\ pass' = "resolve_dst" /\ k <= count /\ k' = k /\ count' = count
    BY <2>1 DEF Resolve, Goto
  <2>3. count \in Nat /\ k \in 1 .. count + 1 /\ count = Len(file_copies)
    BY <1>1, <2>1 DEF LoopOK
  <2>4. Len(file_copies') = Len(file_copies)
    BY <1>10, <2>1, <2>3
  <2> QED BY <2>2, <2>3, <2>4 DEF LoopOK, Passes
<1>12. CASE ResolveDst
  <2>1. pass = "resolve_dst" /\ Resolve("dst", "resolve_src", k + 1)
    BY <1>12 DEF ResolveDst
  <2>2. /\ pass' = "resolve_src" /\ k <= count /\ k' = k + 1 /\ count' = count
    BY <2>1 DEF Resolve, Goto
  <2>3. count \in Nat /\ k \in 1 .. count + 1 /\ count = Len(file_copies)
    BY <1>1, <2>1 DEF LoopOK
  <2>4. Len(file_copies') = Len(file_copies)
    BY <1>10, <2>1, <2>3
  <2>5. k' \in 1 .. count' + 1
    BY <2>2, <2>3
  <2> QED BY <2>2, <2>3, <2>4, <2>5 DEF LoopOK, Passes
<1> QED BY <1>4, <1>5, <1>6, <1>7, <1>8, <1>9, <1>11, <1>12 DEF Next

LEMMA TypesStep ==
    ASSUME TypeOK, InputKept, [Next]_vars
    PROVE  TypeOK'
<1>1. CASE Next
  <2>1. ArraysOK' /\ LoopOK' /\ full' \in BOOLEAN
    BY <1>1, ArraysStep, LoopStep, StepKeeps
  <2> QED BY <2>1 DEF ArraysOK, LoopOK, TypeOK
<1>2. CASE UNCHANGED vars
  BY <1>2 DEF vars, TypeOK
<1> QED BY <1>1, <1>2

LEMMA InputStep ==
    ASSUME TypeOK, InputKept, [Next]_vars
    PROVE  InputKept'
<1> QED BY StepKeeps DEF InputKept, vars, input

----------------------------------------------------------------------------
(* No directory is listed without its parents.                                *)

(* A directory of the host is under no path that moves. *)
LEMMA NotUnderMoved ==
    ASSUME InputKept, NEW old \in Path, Moves(old), NEW d \in host.dirs \cup host.files
    PROVE  old \notin Lineage(d)
<1>1. SUFFICES ASSUME old \in Lineage(d) PROVE FALSE
  OBVIOUS
<1>2. IsHost(host)
  BY InputFacts
<1>3. old \in host.dirs \cup host.files
  BY <1>1, <1>2, HostFacts
<1>4. realpath(host, old) = old
  BY <1>2, <1>3, RealpathListed
<1> QED BY <1>4 DEF Moves

(* The rewriting leaves no directory without its parents, those of the new    *)
(* path being added behind it (configer.c:565-599).                           *)
LEMMA ResolvedParents ==
    ASSUME TypeOK, InputKept, DirectoriesResolved, resolve_paths_in_array,
           \A d \in ToSet(directories) : Lineage(d) \subseteq ToSet(directories),
           NEW old, old = directories[k], NEW real, real = realpath(host, old),
           real \notin {Missing, old},
           NEW ds, Rewritten(ds, old, real), NEW d \in ToSet(ds), NEW x \in Lineage(d)
    PROVE  x \in ToSet(ds) \cup Lineage(Listed(real))
<1> DEFINE N == Len(directories)
           New(j) == RewrittenDirectory(j, old, real)
<1>1. /\ directories \in Seq(Path) /\ N \in Nat /\ ToSet(directories) = {directories[j] : j \in 1 .. N}
      /\ \A j \in 1 .. N : directories[j] \in Path
  BY LenProperties, SetOfSeq, ElementOfSeq DEF TypeOK
<1>2. /\ ToSet(ds) = {ds[j] : j \in 1 .. N} /\ \A j \in 1 .. N : ds[j] = New(j)
  <2>1. ds \in Seq(Path) /\ Len(ds) = N /\ \A j \in 1 .. N : ds[j] = New(j)
    BY DEF Rewritten
  <2> HIDE DEF N, New
  <2> QED BY <2>1, SetOfSeq
<1>3. old \in Path /\ k \in 1 .. N /\ k <= count
  BY ResolveGrows
<1>4. /\ Moves(old) /\ real \in Path
      /\ Lineage(real) \subseteq {real} \cup Lineage(Listed(real))
  BY <1>3, MovedFacts
<1>5. \A j \in 1 .. N : j > count => directories[j] \in host.dirs
  BY DEF DirectoriesResolved, resolve_paths_in_array
<1>6. count \in Nat
  BY DEF TypeOK
<1>7. New(k) = real
  BY DEF RewrittenDirectory
<1>8. Lineage(real) \subseteq ToSet(ds) \cup Lineage(Listed(real))
  BY <1>2, <1>3, <1>4, <1>7
<1>9. PICK j \in 1 .. N : d = New(j)
  BY <1>2
<1> DEFINE p == directories[j]
<1>10. p \in Path /\ Lineage(p) \subseteq ToSet(directories)
  BY <1>1
<1>11. \A m \in 1 .. N : m > count => old \notin Lineage(directories[m])
  BY <1>3, <1>4, <1>5, NotUnderMoved
<1>12. \A m \in 1 .. N : New(m) = IF m = k THEN real
                                 ELSE IF m <= count
                                      THEN Rewrite(directories[m], old \o Slash, real \o Slash)
                                      ELSE directories[m]
  BY DEF RewrittenDirectory
<1> HIDE DEF p, N, New
<1>13. CASE j = k
  BY <1>7, <1>8, <1>9, <1>13
<1>14. CASE j # k /\ IsPrefix(old \o Slash, p)
  <2>1. old \in Lineage(p)
    BY <1>3, <1>10, <1>14, UnderFacts
  <2>2. j <= count
    BY <1>1, <1>6, <1>11, <2>1 DEF p
  <2>3. d = Rewrite(p, old \o Slash, real \o Slash)
    BY <1>9, <1>12, <1>14, <2>2 DEF p
  <2>4. CASE x \in Lineage(real)
    BY <1>8, <2>4
  <2>5. CASE \E y \in Lineage(p) : IsPrefix(old \o Slash, y) /\ x = Rewrite(y, old \o Slash, real \o Slash)
    <3>1. PICK y \in Lineage(p) : IsPrefix(old \o Slash, y) /\ x = Rewrite(y, old \o Slash, real \o Slash)
      BY <2>5
    <3>2. PICK m \in 1 .. N : y = directories[m]
      BY <1>1, <1>10
    <3>3. y \in Path /\ old # y /\ old \in Lineage(y)
      BY <1>1, <1>3, <3>1, <3>2, UnderFacts
    <3>4. m # k /\ m <= count
      BY <1>6, <1>11, <3>2, <3>3
    <3>5. New(m) = x
      BY <1>12, <3>1, <3>2, <3>4
    <3> QED BY <1>2, <3>5
  <2> QED BY <1>3, <1>4, <1>10, <1>14, <2>3, <2>4, <2>5, RewrittenLineage
<1>15. CASE j # k /\ ~IsPrefix(old \o Slash, p)
  <2>1. d = p
    BY <1>9, <1>12, <1>15 DEF p, Rewrite
  <2>2. PICK m \in 1 .. N : x = directories[m]
    BY <1>1, <1>10, <2>1
  <2>3. x \in Path
    BY <1>1, <2>2
  <2>4. CASE x = old
    <3>1. old = p
      <4>1. old = p \/ IsPrefix(old \o Slash, p)
        BY <1>3, <1>10, <2>1, <2>4, UnderFacts
      <4> QED BY <1>15, <4>1
    <3> QED BY <1>2, <1>9, <2>1, <2>4, <3>1
  <2>5. CASE x # old
    <3>1. ~IsPrefix(old \o Slash, x)
      <4>1. SUFFICES ASSUME IsPrefix(old \o Slash, x) PROVE FALSE
        OBVIOUS
      <4>2. old \in Lineage(x)
        BY <1>3, <2>3, <4>1, UnderFacts
      <4>3. old \in Lineage(p)
        BY <1>10, <2>1, <4>2, LineageFacts
      <4>4. old = p
        BY <1>3, <1>10, <1>15, <4>3, UnderFacts
      <4>5. x = old \/ IsPrefix(x \o Slash, old)
        BY <1>3, <2>1, <2>3, <4>4, UnderFacts
      <4>6. Len(old) < Len(x) /\ Len(x) < Len(old)
        BY <1>3, <2>3, <2>5, <4>1, <4>5, UnderFacts
      <4> QED BY <1>3, <2>3, <4>6, PathFacts
    <3>2. m # k
      BY <2>2, <2>5
    <3>3. New(m) = x
      BY <1>12, <2>2, <3>1, <3>2 DEF Rewrite
    <3> QED BY <1>2, <3>3
  <2> QED BY <2>4, <2>5
<1> QED BY <1>13, <1>14, <1>15

LEMMA ParentsListedStep ==
    ASSUME TypeOK, InputKept, DirectoriesResolved, ParentsListed, Next
    PROVE  ParentsListed'
<1>1. SUFFICES ASSUME ~full' PROVE \A d \in ToSet(directories') : Lineage(d) \subseteq ToSet(directories')
  BY DEF ParentsListed
<1>2. /\ directories' \in Seq(Path) /\ Len(directories') < MAX_DIRECTORIES
      /\ directories \in Seq(Path)
  <2>1. /\ directories' \in Seq(Path) /\ Len(directories') <= MAX_DIRECTORIES
        /\ Len(directories') # MAX_DIRECTORIES
    BY <1>1, ArraysStep, StepKeeps DEF ArraysOK
  <2>2. Len(directories') \in Nat
    BY <2>1, LenProperties
  <2> QED BY <2>1, <2>2, Bounds DEF TypeOK
<1>3. \A d \in ToSet(directories) : Lineage(d) \subseteq ToSet(directories)
  BY <1>1, StepKeeps DEF ParentsListed
<1>4. CASE UNCHANGED directories
  BY <1>3, <1>4
<1>5. ASSUME NEW ds \in Seq(Path), NEW E, Grown(directories', ds, E, Path, MAX_DIRECTORIES)
      PROVE  ToSet(directories') = ToSet(ds) \cup E
  <2>1. E \subseteq ToSet(directories')
    BY <1>2, <1>5 DEF Grown
  <2>2. ToSet(ds) \subseteq ToSet(directories') /\ ToSet(directories') \subseteq ToSet(ds) \cup E
    BY <1>5, GrownKeeps
  <2> QED BY <2>1, <2>2
<1>6. CASE ReadDirectories \/ ReadFileCopies \/ AddExecutable
  <2>1. PICK E : WithParents(E) /\ Grown(directories', directories, E, Path, MAX_DIRECTORIES)
    BY <1>6, ReadingGrows
  <2>2. ToSet(directories') = ToSet(directories) \cup E
    BY <1>2, <1>5, <2>1
  <2> QED BY <1>3, <2>1, <2>2 DEF WithParents
<1>7. ASSUME NEW p \in Path, NEW x \in Lineage(Listed(p))
      PROVE  Lineage(x) \subseteq Lineage(Listed(p))
  <2>1. Listed(p) \in Path
    <3>1. Trimmed(p) \in Path \cup {Slash}
      BY TrimmedPath
    <3> QED BY <1>7, <3>1, ListedFacts, SlashParent
  <2> QED BY <1>7, <2>1, LineageFacts
<1>8. CASE resolve_paths_in_array
  <2> DEFINE old == directories[k]
             real == realpath(host, old)
  <2>1. CASE real \in {Missing, old}
    BY <1>4, <1>8, <2>1 DEF resolve_paths_in_array
  <2>2. CASE real \notin {Missing, old}
    <3>1. old = directories[k] /\ real = realpath(host, old)
      OBVIOUS
    <3> HIDE DEF old, real
    <3>2. PICK ds : Rewritten(ds, old, real) /\
                    Grown(directories', ds, Lineage(Listed(real)), Path, MAX_DIRECTORIES)
      BY <1>8, <2>2, <3>1, ResolveGrows
    <3>3. old \in Path /\ real \in Path
      BY <1>8, <2>2, <3>1, ResolveGrows, MovedFacts
    <3>4. ToSet(directories') = ToSet(ds) \cup Lineage(Listed(real))
      BY <1>5, <3>2 DEF Rewritten
    <3>5. ASSUME NEW d \in ToSet(directories') PROVE Lineage(d) \subseteq ToSet(directories')
      <4>1. CASE d \in Lineage(Listed(real))
        BY <1>7, <3>3, <3>4, <4>1
      <4>2. CASE d \in ToSet(ds)
        <5>1. ASSUME NEW x \in Lineage(d) PROVE x \in ToSet(ds) \cup Lineage(Listed(real))
          BY <1>3, <1>8, <2>2, <3>1, <3>2, <4>2, ResolvedParents
        <5> QED BY <3>4, <5>1
      <4> QED BY <3>4, <4>1, <4>2
    <3> QED BY <3>5
  <2> QED BY <2>1, <2>2
<1>9. CASE ResolveSrc \/ ResolveDst
  <2>1. PICK field \in {"src", "dst"} : \E next, i : Resolve(field, next, i)
    BY <1>9 DEF ResolveSrc, ResolveDst
  <2>2. count = Len(file_copies)
    BY <1>9 DEF TypeOK, ResolveSrc, ResolveDst
  <2> DEFINE old == file_copies[k][field]
             real == realpath(host, old)
  <2>3. CASE real \in {Missing, old}
    BY <1>4, <2>1, <2>3 DEF Resolve
  <2>4. CASE real \notin {Missing, old}
    <3>1. old = file_copies[k][field] /\ real = realpath(host, old)
      OBVIOUS
    <3> HIDE DEF old, real
    <3>2. CopyResolved(field, old, real)
      BY <2>1, <2>2, <2>4, <3>1, ResolveFacts
    <3>3. real \in Path /\ ToSet(directories') = ToSet(directories) \cup Lineage(Listed(real))
      BY <1>2, <1>5, <3>2 DEF CopyResolved
    <3> QED BY <1>3, <1>7, <3>3
  <2> QED BY <2>3, <2>4
<1>10. CASE SortDirectories
  <2>1. directories' = InOrder(ToSet(directories), Before)
    BY <1>10 DEF SortDirectories
  <2>2. ToSet(directories') = ToSet(directories)
    <3> DEFINE t == InOrder(ToSet(directories), Before)
    <3>1. t = InOrder(ToSet(directories), Before)
      OBVIOUS
    <3> HIDE DEF t
    <3>2. ToSet(t) = ToSet(directories)
      BY <1>2, <3>1, DirectoriesSortedOnce
    <3> QED BY <2>1, <3>2 DEF t
  <2> QED BY <1>3, <2>2
<1>11. CASE \/ ReadSettings \/ ReadExecutables \/ AllExecutablesAdded \/ AllDirectoriesResolved
            \/ AllCopiesResolved \/ ReadSymlinks \/ SortSymlinks \/ SortFileCopies
            \/ write_output_config
  BY <1>4, <1>11 DEF ReadSettings, ReadExecutables, AllExecutablesAdded, AllDirectoriesResolved,
    AllCopiesResolved, ReadSymlinks, SortSymlinks, SortFileCopies, write_output_config
<1> QED BY <1>6, <1>8, <1>9, <1>10, <1>11 DEF Next

----------------------------------------------------------------------------
(* No directory is a link of the host.                                        *)

LEMMA HostDirectoryStays ==
    ASSUME InputKept, NEW d \in host.dirs \cup host.files
    PROVE  ~Moves(d)
<1>1. realpath(host, d) = d
  BY InputFacts, RealpathListed
<1> QED BY <1>1 DEF Moves

(* The rewriting for directory k lets no directory before it move again: what *)
(* is under the old path is not on the host, and still is not under the new   *)
(* one (configer.c:584-596).                                                  *)
LEMMA ResolvedStay ==
    ASSUME TypeOK, InputKept, DirectoriesResolved, resolve_paths_in_array,
           NEW old, old = directories[k], NEW real, real = realpath(host, old),
           real \notin {Missing, old},
           NEW ds, Rewritten(ds, old, real), NEW j \in 1 .. Len(directories)
    PROVE  /\ j < k + 1 => ~Moves(ds[j])
           /\ j > count => ds[j] \in host.dirs
<1>1. /\ directories[j] \in Path /\ count \in Nat /\ j \in Nat /\ k \in Nat /\ Len(directories) \in Nat
  BY ElementOfSeq, LenProperties DEF TypeOK
<1>2. /\ ds[j] = RewrittenDirectory(j, old, real)
  BY DEF Rewritten
<1>3. old \in Path /\ k \in 1 .. Len(directories) /\ k <= count
  BY ResolveGrows
<1>4. real \in Path /\ realpath(host, real) = real /\ ~Moves(real) /\ Moves(old)
  BY <1>3, MovedFacts
<1>5. /\ j < k => ~Moves(directories[j])
      /\ j > count => directories[j] \in host.dirs
  BY DEF DirectoriesResolved, resolve_paths_in_array
<1>6. ASSUME j > count PROVE ds[j] \in host.dirs
  <2>1. ds[j] = directories[j]
    BY <1>1, <1>2, <1>3, <1>6 DEF RewrittenDirectory
  <2> QED BY <1>5, <1>6, <2>1
<1>7. ASSUME j < k + 1 PROVE ~Moves(ds[j])
  <2>1. CASE j = k
    BY <1>2, <1>4, <2>1 DEF RewrittenDirectory
  <2>2. CASE j # k
    <3> DEFINE p == directories[j]
    <3>1. p \in Path /\ ~Moves(p) /\ ds[j] = Rewrite(p, old \o Slash, real \o Slash)
      BY <1>1, <1>2, <1>3, <1>5, <1>7, <2>2 DEF RewrittenDirectory
    <3> HIDE DEF p
    <3>2. CASE IsPrefix(old \o Slash, p)
      <4>1. old \in Lineage(p)
        BY <1>3, <3>1, <3>2, UnderFacts
      <4>2. p \notin host.dirs \cup host.files
        BY <1>3, <1>4, <4>1, NotUnderMoved
      <4>3. realpath(host, p) = Missing
        <5>1. realpath(host, p) \in {p, Missing}
          BY <3>1 DEF Moves
        <5>2. realpath(host, p) \in host.dirs \cup host.files \cup {Missing}
          BY <3>1, InputFacts, RealpathRange
        <5> QED BY <4>2, <5>1, <5>2
      <4>4. realpath(host, ds[j]) = Missing
        <5>1. \A l \in DOMAIN host.links : host.links[l] \in Seq(Piece)
          BY InputFacts, HostFacts
        <5>2. realpath(host, real) = realpath(host, old)
          BY <1>4
        <5> QED BY <1>3, <1>4, <3>1, <3>2, <4>3, <5>1, <5>2, RewrittenRealpath
      <4> QED BY <4>4 DEF Moves
    <3>3. CASE ~IsPrefix(old \o Slash, p)
      BY <3>1, <3>3 DEF Rewrite
    <3> QED BY <3>2, <3>3
  <2> QED BY <2>1, <2>2
<1> QED BY <1>6, <1>7

LEMMA DirectoriesResolvedStep ==
    ASSUME TypeOK, InputKept, DirectoriesResolved, Next
    PROVE  DirectoriesResolved'
<1>1. host' = host /\ \A p : Moves(p)' <=> Moves(p)
  BY StepKeeps DEF Moves
<1>2. directories \in Seq(Path) /\ Len(directories) \in Nat /\ count \in Nat
  BY LenProperties DEF TypeOK
<1>3. ASSUME pass \in AfterDirs, NEW d \in ToSet(directories) PROVE ~Moves(d)
  BY <1>2, <1>3, SetOfSeq DEF DirectoriesResolved
<1>4. ASSUME pass \in AfterDirs, pass' # "resolve_dirs",
             directories' \in Seq(Path),
             \A d \in ToSet(directories') : d \in ToSet(directories) \/ d \in host.dirs
      PROVE  DirectoriesResolved'
  <2>1. \A d \in ToSet(directories') : ~Moves(d)
    BY <1>3, <1>4, HostDirectoryStays
  <2>2. \A i \in 1 .. Len(directories') : directories'[i] \in ToSet(directories')
    BY <1>4, SetOfSeq
  <2> QED BY <1>1, <1>4, <2>1, <2>2 DEF DirectoriesResolved
<1>5. CASE ReadSettings \/ ReadDirectories \/ ReadExecutables \/ ReadFileCopies \/ AddExecutable
  <2>1. pass' \notin AfterDirs /\ pass' # "resolve_dirs"
    BY <1>5 DEF ReadSettings, ReadDirectories, ReadExecutables, ReadFileCopies, AddExecutable, Goto,
      AfterDirs
  <2> QED BY <2>1 DEF DirectoriesResolved
<1>6. CASE AllExecutablesAdded
  <2>1. /\ pass' = "resolve_dirs" /\ k' = 1 /\ count' = Len(directories) /\ directories' = directories
    BY <1>6 DEF AllExecutablesAdded, Goto
  <2> QED BY <1>2, <2>1 DEF DirectoriesResolved, AfterDirs
<1>7. CASE resolve_paths_in_array
  <2>1. /\ pass = "resolve_dirs" /\ pass' = "resolve_dirs" /\ k <= count /\ k' = k + 1 /\ count' = count
        /\ k \in Nat /\ k \in 1 .. Len(directories)
    BY <1>2, <1>7 DEF resolve_paths_in_array, Goto, TypeOK
  <2> DEFINE old == directories[k]
             real == realpath(host, old)
  <2>2. old \in Path
    BY <1>2, <2>1, ElementOfSeq
  <2>3. SUFFICES \A i \in 1 .. Len(directories') :
                    /\ i < k + 1 => ~Moves(directories'[i])
                    /\ i > count => directories'[i] \in host.dirs
    BY <1>1, <2>1 DEF DirectoriesResolved, AfterDirs
  <2>4. CASE real \in {Missing, old}
    <3>1. directories' = directories /\ ~Moves(old)
      BY <1>7, <2>4 DEF resolve_paths_in_array, Moves
    <3>2. \A i \in 1 .. Len(directories) :
             /\ i < k => ~Moves(directories[i])
             /\ i > count => directories[i] \in host.dirs
      BY <2>1 DEF DirectoriesResolved
    <3>3. \A i \in 1 .. Len(directories) : i < k + 1 => i < k \/ i = k
      BY <2>1
    <3> QED BY <3>1, <3>2, <3>3
  <2>5. CASE real \notin {Missing, old}
    <3>1. old = directories[k] /\ real = realpath(host, old)
      OBVIOUS
    <3> HIDE DEF old, real
    <3>2. PICK ds : Rewritten(ds, old, real) /\
                    Grown(directories', ds, Lineage(Listed(real)), Path, MAX_DIRECTORIES)
      BY <1>7, <2>5, <3>1, ResolveGrows
    <3>3. /\ Len(ds) = Len(directories) /\ ds \in Seq(Path) /\ directories' \in Seq(Path)
          /\ \A i \in 1 .. Len(ds) : directories'[i] = ds[i]
          /\ \A i \in Len(ds) + 1 .. Len(directories') : directories'[i] \in Lineage(Listed(real))
      BY <3>2 DEF Rewritten, Grown
    <3>4. Lineage(Listed(real)) \subseteq host.dirs
      BY <2>2, <2>5, <3>1, MovedFacts
    <3>5. ASSUME NEW i \in 1 .. Len(directories')
          PROVE  /\ i < k + 1 => ~Moves(directories'[i])
                 /\ i > count => directories'[i] \in host.dirs
      <4>1. CASE i \in 1 .. Len(directories)
        <5>1. directories'[i] = ds[i]
          BY <3>3, <4>1
        <5>2. /\ i < k + 1 => ~Moves(ds[i])
              /\ i > count => ds[i] \in host.dirs
          BY <1>7, <2>5, <3>1, <3>2, <4>1, ResolvedStay
        <5> QED BY <5>1, <5>2
      <4>2. CASE i \notin 1 .. Len(directories)
        <5>1. i \in Len(ds) + 1 .. Len(directories')
          BY <1>2, <3>3, <4>2
        <5>2. directories'[i] \in host.dirs
          BY <3>3, <3>4, <5>1
        <5> QED BY <5>2, HostDirectoryStays
      <4> QED BY <4>1, <4>2
    <3> QED BY <3>5
  <2> QED BY <2>4, <2>5
<1>8. CASE AllDirectoriesResolved
  <2>1. /\ pass = "resolve_dirs" /\ pass' = "resolve_src" /\ k > count /\ directories' = directories
    BY <1>8 DEF AllDirectoriesResolved, Goto
  <2>2. ASSUME NEW i \in 1 .. Len(directories) PROVE ~Moves(directories[i])
    <3>1. k \in Nat /\ i \in Nat /\ (i < k \/ i > count)
      BY <1>2, <2>1 DEF TypeOK
    <3>2. CASE i < k
      BY <2>1, <3>2 DEF DirectoriesResolved
    <3>3. CASE i > count
      BY <2>1, <3>3, HostDirectoryStays DEF DirectoriesResolved
    <3> QED BY <3>1, <3>2, <3>3
  <2> QED BY <1>1, <2>1, <2>2 DEF DirectoriesResolved
<1>9. directories' \in Seq(Path)
  BY ArraysStep DEF ArraysOK
<1>10. CASE ResolveSrc \/ ResolveDst
  <2>1. PICK field \in {"src", "dst"} : \E next, i : Resolve(field, next, i)
    BY <1>10 DEF ResolveSrc, ResolveDst
  <2>2. /\ count = Len(file_copies) /\ pass \in AfterDirs /\ pass' # "resolve_dirs"
    BY <1>10 DEF TypeOK, ResolveSrc, ResolveDst, Resolve, Goto, AfterDirs
  <2> DEFINE old == file_copies[k][field]
             real == realpath(host, old)
  <2>3. CASE real \in {Missing, old}
    <3>1. directories' = directories
      BY <2>1, <2>3 DEF Resolve
    <3> QED BY <1>4, <1>9, <2>2, <3>1
  <2>4. CASE real \notin {Missing, old}
    <3>1. old = file_copies[k][field] /\ real = realpath(host, old)
      OBVIOUS
    <3> HIDE DEF old, real
    <3>2. CopyResolved(field, old, real)
      BY <2>1, <2>2, <2>4, <3>1, ResolveFacts
    <3>3. old \in Path /\ Grown(directories', directories, Lineage(Listed(real)), Path, MAX_DIRECTORIES)
      BY <3>2 DEF CopyResolved
    <3>4. Lineage(Listed(real)) \subseteq host.dirs
      BY <2>4, <3>1, <3>3, MovedFacts
    <3>5. ToSet(directories') \subseteq ToSet(directories) \cup Lineage(Listed(real))
      BY <1>2, <3>3, GrownKeeps
    <3> QED BY <1>4, <1>9, <2>2, <3>4, <3>5
  <2> QED BY <2>3, <2>4
<1>11. CASE SortDirectories
  <2>1. pass \in AfterDirs /\ pass' # "resolve_dirs" /\ directories' = InOrder(ToSet(directories), Before)
    BY <1>11 DEF SortDirectories, Goto, AfterDirs
  <2>2. ToSet(directories') = ToSet(directories)
    <3> DEFINE t == InOrder(ToSet(directories), Before)
    <3>1. t = InOrder(ToSet(directories), Before)
      OBVIOUS
    <3> HIDE DEF t
    <3>2. ToSet(t) = ToSet(directories)
      BY <1>2, <3>1, DirectoriesSortedOnce
    <3> QED BY <2>1, <3>2 DEF t
  <2> QED BY <1>4, <1>9, <2>1, <2>2
<1>12. CASE \/ AllCopiesResolved \/ ReadSymlinks \/ SortSymlinks \/ SortFileCopies \/ write_output_config
  <2>1. pass \in AfterDirs /\ pass' # "resolve_dirs" /\ directories' = directories
    BY <1>12 DEF AllCopiesResolved, ReadSymlinks, SortSymlinks, SortFileCopies, write_output_config,
      Goto, AfterDirs
  <2> QED BY <1>4, <1>9, <2>1
<1> QED BY <1>5, <1>6, <1>7, <1>8, <1>10, <1>11, <1>12 DEF Next

LEMMA DirectoriesSortedStep ==
    ASSUME TypeOK, DirectoriesSorted, Next
    PROVE  DirectoriesSorted'
<1>1. CASE SortDirectories
  <2>1. directories \in Seq(Path) /\ directories' = InOrder(ToSet(directories), Before)
    BY <1>1 DEF SortDirectories, TypeOK
  <2> DEFINE t == InOrder(ToSet(directories), Before)
  <2>2. directories' = t /\ t = InOrder(ToSet(directories), Before)
    BY <2>1
  <2> HIDE DEF t
  <2>3. \A i, j \in 1 .. Len(t) : i < j => Before(t[i], t[j])
    BY <2>1, <2>2, DirectoriesSortedOnce
  <2> QED BY <2>2, <2>3 DEF DirectoriesSorted
<1>2. CASE SortSymlinks \/ SortFileCopies \/ write_output_config
  BY <1>2 DEF SortSymlinks, SortFileCopies, write_output_config, DirectoriesSorted, AfterSort
<1>3. CASE ~(SortDirectories \/ SortSymlinks \/ SortFileCopies \/ write_output_config)
  <2>1. pass' \notin AfterSort
    BY <1>3 DEF Next, ReadSettings, ReadDirectories, ReadExecutables, ReadFileCopies, AddExecutable,
      AllExecutablesAdded, resolve_paths_in_array, AllDirectoriesResolved, ResolveSrc, ResolveDst,
      Resolve, AllCopiesResolved, ReadSymlinks, Goto, AfterSort
  <2> QED BY <2>1 DEF DirectoriesSorted
<1> QED BY <1>1, <1>2, <1>3

----------------------------------------------------------------------------
(* The copies.                                                                *)

(* The paths v of the copies, each asked for or where a path leads that was   *)
(* asked for and has been replaced since.                                     *)
Traced(v, S) ==
    \A i \in DOMAIN v :
       \/ v[i] \in S
       \/ \E t \in S : Moves(t) /\ v[i] = realpath(host, t) /\ \A j \in DOMAIN v : v[j] # t

Field(copies, field) == [i \in 1 .. Len(copies) |-> copies[i][field]]
Srcs == Field(file_copies, "src")
Dsts == Field(file_copies, "dst")

(* A path that is asked for and does not move, or where one leads that does.  *)
Settled(p, S) == ~Moves(p) /\ (p \in S \/ \E t \in S : Moves(t) /\ p = realpath(host, t))

CopiesAsked ==
    /\ pass \in Reading => file_copies = <<>>
    /\ pass \in {"dependencies", "resolve_dirs"} => ToSet(file_copies) \subseteq Asked

CopiesTraced ==
    pass \in {"resolve_src", "resolve_dst"} /\ NoSharedBeginning =>
      /\ Traced(Srcs, Sources) /\ Traced(Dsts, Targets)
      /\ \A i \in 1 .. Len(file_copies) :
            /\ i < k \/ (i = k /\ pass = "resolve_dst") => ~Moves(Srcs[i])
            /\ i < k => ~Moves(Dsts[i])

CopiesSettled ==
    pass \in AfterCopies /\ NoSharedBeginning =>
      \A c \in ToSet(file_copies) : Settled(c.src, Sources) /\ Settled(c.dst, Targets)

LinksLead ==
    LinksAgree =>
      /\ ToSet(symlinks) \subseteq HostLinks(host)
      /\ pass \in AfterLinks => \A l \in ToSet(symlinks) : l.sym # l.dst

CopyInv == ListInv /\ CopiesAsked /\ CopiesTraced /\ CopiesSettled /\ LinksLead

LEMMA AskedPaths ==
    ASSUME TypeOK, InputKept
    PROVE  Asked \subseteq [src : Path, dst : Path] /\ Sources \subseteq Path /\ Targets \subseteq Path
<1>1. /\ config.file_copies \in Seq([src : Path, dst : Path])
      /\ host.ldd \in [DOMAIN host.ldd -> Seq(Path)]
  BY InputFacts DEF IsConfig, IsHost
<1>2. ToSet(config.file_copies) \subseteq [src : Path, dst : Path]
  BY <1>1, SetOfSeq
<1>3. ASSUME NEW e \in ToSet(executables) PROVE {e} \cup ToSet(Dependencies(e)) \subseteq Path
  <2>1. e \in Path
    BY SetOfSeq DEF TypeOK
  <2>2. Dependencies(e) \in Seq(Path)
    BY <1>1 DEF Dependencies
  <2> QED BY <2>1, <2>2, SetOfSeq
<1>4. Needs \subseteq Path
  BY <1>3 DEF Needs
<1>5. Asked \subseteq [src : Path, dst : Path]
  BY <1>2, <1>4 DEF Asked
<1> QED BY <1>5 DEF Sources, Targets

(* What is asked for stays the same once the executables are known. *)
LEMMA SameAsked ==
    ASSUME TypeOK, Next, UNCHANGED executables
    PROVE  /\ Asked' = Asked /\ Sources' = Sources /\ Targets' = Targets
           /\ NoSharedBeginning' <=> NoSharedBeginning
           /\ \A p : Moves(p)' <=> Moves(p)
<1>1. config' = config /\ host' = host
  BY StepKeeps
<1>2. \A p : Moves(p)' <=> Moves(p)
  BY <1>1 DEF Moves
<1>3. Asked' = Asked
  BY <1>1 DEF Asked, Needs, Dependencies
<1>4. Sources' = Sources /\ Targets' = Targets
  BY <1>3 DEF Sources, Targets
<1>5. NoSharedBeginning' <=> NoSharedBeginning
  BY <1>1, <1>4 DEF NoSharedBeginning, Moves
<1> QED BY <1>2, <1>3, <1>4, <1>5

(* Line 625 rewrites every path that begins with the letters of old. *)
NoneBegins(S) ==
    \A p, q \in S : Moves(p) /\ p # q => ~IsPrefix(p, q) /\ ~IsPrefix(p, realpath(host, q))

LEMMA BothBegin ==
    ASSUME NoSharedBeginning
    PROVE  NoneBegins(Sources) /\ NoneBegins(Targets)
<1> QED BY DEF NoSharedBeginning, NoneBegins

(* No path but old itself is rewritten for old (configer.c:605-668). *)
LEMMA PathsTraced ==
    ASSUME InputKept, NEW N \in Nat, NEW S, S \subseteq Path, NoneBegins(S),
           NEW v \in [1 .. N -> Path], Traced(v, S), NEW m \in 1 .. N,
           NEW old, old = v[m], NEW real, real = realpath(host, old), real \notin {Missing, old},
           NEW w \in [1 .. N -> Path],
           \A j \in 1 .. N : w[j] = IF j = m THEN real ELSE Rewrite(v[j], old, real)
    PROVE  /\ Traced(w, S)
           /\ \A j \in 1 .. N : w[j] = IF v[j] = old THEN real ELSE v[j]
<1>1. old \in Path
  OBVIOUS
<1>2. Moves(old) /\ real \in Path /\ ~Moves(real)
  BY <1>1, MovedFacts
<1>3. ASSUME NEW t \in S, Moves(t) PROVE realpath(host, t) \in Path /\ ~Moves(realpath(host, t))
  <2> DEFINE r == realpath(host, t)
  <2>1. t \in Path /\ r = realpath(host, t) /\ r \notin {Missing, t}
    BY <1>3 DEF Moves
  <2> HIDE DEF r
  <2>2. r \in Path /\ ~Moves(r)
    BY <2>1, MovedFacts
  <2> QED BY <2>2 DEF r
<1>4. old \in S
  <2>1. \/ v[m] \in S
        \/ \E t \in S : Moves(t) /\ v[m] = realpath(host, t)
    BY DEF Traced
  <2> QED BY <1>2, <1>3, <2>1
<1>5. Rewrite(old, old, real) = real
  <2> DEFINE q == Rewrite(old, old, real)
  <2>1. old \in Seq(Letter) /\ real \in Seq(Letter) /\ Len(old) \in Nat /\ Len(real) \in Nat
    BY <1>1, <1>2, PathFacts
  <2>2. IsPrefix(old, old)
    BY <2>1, PrefixFacts
  <2>3. q \in Path /\ Continues(q, real, old, Len(old))
    BY <1>1, <1>2, <2>2, RewrittenPath
  <2> HIDE DEF q
  <2>4. Len(q) = Len(real) /\ \A i \in 1 .. Len(real) : q[i] = real[i]
    BY <2>1, <2>3 DEF Continues
  <2>5. q \in Seq(Letter)
    BY <2>3, PathFacts
  <2>6. q = real
    BY <2>1, <2>4, <2>5, SeqEqual
  <2> QED BY <2>6 DEF q
<1>6. ASSUME NEW j \in 1 .. N, v[j] # old PROVE ~IsPrefix(old, v[j])
  <2>1. CASE v[j] \in S
    BY <1>2, <1>4, <1>6, <2>1 DEF NoneBegins
  <2>2. CASE \E t \in S : Moves(t) /\ v[j] = realpath(host, t) /\ \A i \in DOMAIN v : v[i] # t
    <3>1. PICK t \in S : v[j] = realpath(host, t) /\ \A i \in DOMAIN v : v[i] # t
      BY <2>2
    <3>2. t # old
      BY <3>1
    <3> QED BY <1>2, <1>4, <3>1, <3>2 DEF NoneBegins
  <2> QED BY <2>1, <2>2 DEF Traced
<1>7. ASSUME NEW j \in 1 .. N PROVE w[j] = IF v[j] = old THEN real ELSE v[j]
  <2>1. CASE v[j] = old
    BY <1>5, <2>1
  <2>2. CASE v[j] # old
    BY <1>6, <2>2 DEF Rewrite
  <2> QED BY <2>1, <2>2
<1>8. \A j \in 1 .. N : w[j] # old
  BY <1>7
<1>9. ASSUME NEW j \in 1 .. N
      PROVE  \/ w[j] \in S
             \/ \E t \in S : Moves(t) /\ w[j] = realpath(host, t) /\ \A i \in DOMAIN w : w[i] # t
  <2>1. CASE v[j] = old
    BY <1>2, <1>4, <1>7, <1>8, <2>1
  <2>2. CASE v[j] # old /\ v[j] \in S
    BY <1>7, <2>2
  <2>3. CASE /\ v[j] # old
             /\ \E t \in S : Moves(t) /\ v[j] = realpath(host, t) /\ \A i \in DOMAIN v : v[i] # t
    <3>1. PICK t \in S : Moves(t) /\ v[j] = realpath(host, t) /\ \A i \in DOMAIN v : v[i] # t
      BY <2>3
    <3>2. real # t
      BY <1>2, <3>1
    <3>3. \A i \in DOMAIN w : w[i] # t
      BY <1>7, <3>1, <3>2
    <3> QED BY <1>7, <2>3, <3>1, <3>3
  <2> QED BY <2>1, <2>2, <2>3 DEF Traced
<1>10. Traced(w, S)
  BY <1>9 DEF Traced
<1> QED BY <1>7, <1>10

(* One field of the copies, before and after copy k is resolved. *)
LEMMA FieldTraced ==
    ASSUME TypeOK, InputKept, NEW field \in {"src", "dst"}, NEW next, NEW i, Resolve(field, next, i),
           count = Len(file_copies), NEW S, S \subseteq Path, NoneBegins(S),
           NEW v \in [1 .. Len(file_copies) -> Path], Traced(v, S),
           \A j \in 1 .. Len(file_copies) : v[j] = file_copies[j][field]
    PROVE  /\ k \in 1 .. Len(file_copies) /\ Len(file_copies') = Len(file_copies)
           /\ \A j \in 1 .. Len(file_copies) : \A g \in {"src", "dst"} \ {field} :
                 file_copies'[j][g] = file_copies[j][g]
           /\ \A w \in [1 .. Len(file_copies) -> Path] :
                 (\A j \in 1 .. Len(file_copies) : w[j] = file_copies'[j][field]) =>
                    /\ Traced(w, S) /\ ~Moves(w[k])
                    /\ \A j \in 1 .. Len(file_copies) : ~Moves(v[j]) => w[j] = v[j]
<1> DEFINE N == Len(file_copies)
           old == v[k]
           real == realpath(host, old)
<1>1. N \in Nat /\ k \in 1 .. N
  BY LenProperties DEF TypeOK, Resolve
<1>2. old \in Path /\ old = file_copies[k][field] /\ real = realpath(host, old)
  BY <1>1
<1> HIDE DEF real
<1>3. CASE real \in {Missing, old}
  <2>1. file_copies' = file_copies
    BY <1>2, <1>3 DEF Resolve
  <2>2. ~Moves(old)
    BY <1>2, <1>3 DEF Moves
  <2>3. ASSUME NEW w \in [1 .. N -> Path], \A j \in 1 .. N : w[j] = file_copies'[j][field]
        PROVE  w = v
    BY <2>1, <2>3
  <2> QED BY <1>1, <2>1, <2>2, <2>3
<1>4. CASE real \notin {Missing, old}
  <2> HIDE DEF old
  <2>1. CopyResolved(field, old, real)
    BY <1>2, <1>4, ResolveFacts
  <2>2. /\ Len(file_copies') = N
        /\ \A j \in 1 .. N : file_copies'[j][field] = FieldResolved(j, field, old, real)
        /\ \A j \in 1 .. N : \A g \in {"src", "dst"} \ {field} : file_copies'[j][g] = file_copies[j][g]
    BY <2>1 DEF CopyResolved
  <2>3. old = v[k] /\ Moves(old) /\ ~Moves(real)
    BY <1>2, <1>4, MovedFacts DEF old
  <2>4. ASSUME NEW w \in [1 .. N -> Path], \A j \in 1 .. N : w[j] = file_copies'[j][field]
        PROVE  /\ Traced(w, S) /\ ~Moves(w[k])
               /\ \A j \in 1 .. N : ~Moves(v[j]) => w[j] = v[j]
    <3>1. \A j \in 1 .. N : w[j] = IF j = k THEN real ELSE Rewrite(v[j], old, real)
      BY <2>2, <2>4 DEF FieldResolved
    <3> HIDE DEF N
    <3>2. v \in [1 .. N -> Path]
      BY DEF N
    <3>3. Traced(w, S) /\ \A j \in 1 .. N : w[j] = IF v[j] = old THEN real ELSE v[j]
      BY <1>1, <1>2, <1>4, <2>3, <3>1, <3>2, PathsTraced
    <3> QED BY <1>1, <2>3, <3>1, <3>3
  <2> QED BY <1>1, <2>2, <2>4
<1> QED BY <1>3, <1>4

(* What is listed before the copies are resolved has been asked for. *)
LEMMA CopiesAskedStep ==
    ASSUME TypeOK, InputKept, CopiesAsked, Next
    PROVE  CopiesAsked'
<1> DEFINE X == [src : Path, dst : Path]
<1>1. config' = config /\ host' = host
  BY StepKeeps
<1>2. UNCHANGED executables => Asked' = Asked
  BY SameAsked
<1>3. CASE ReadSettings \/ ReadDirectories \/ ReadExecutables
  <2>1. /\ file_copies = <<>> /\ file_copies' = file_copies
        /\ pass' \notin {"dependencies", "resolve_dirs"}
    BY <1>3 DEF ReadSettings, ReadDirectories, ReadExecutables, Goto, CopiesAsked, Reading
  <2> QED BY <2>1 DEF CopiesAsked
<1>4. CASE ReadFileCopies
  <2> DEFINE copies == config.file_copies
  <2>1. /\ file_copies = <<>> /\ file_copies' = add_unique_file_copies(file_copies, copies)
        /\ pass' \notin Reading /\ UNCHANGED executables
    BY <1>4 DEF ReadFileCopies, Goto, CopiesAsked, Reading
  <2>2. copies \in Seq(X)
    BY InputFacts DEF IsConfig
  <2>3. ToSet(copies) \subseteq Asked
    BY DEF Asked
  <2> HIDE DEF copies, X
  <2>4. ToSet(file_copies') \subseteq ToSet(file_copies) \cup ToSet(copies)
    BY <2>1, <2>2, CopiesAdded DEF X
  <2>5. ToSet(file_copies) = {}
    BY <2>1, NoElements
  <2> QED BY <1>2, <2>1, <2>3, <2>4, <2>5 DEF CopiesAsked
<1>5. CASE AddExecutable
  <2>1. /\ ToSet(file_copies) \subseteq Asked /\ pass' \notin Reading /\ UNCHANGED executables
    BY <1>5 DEF AddExecutable, Goto, CopiesAsked, Reading
  <2> DEFINE e == executables[k]
             asks == {[src |-> p, dst |-> p] : p \in {e} \cup ToSet(Dependencies(e))}
  <2>2. PICK copies \in Seq(X) :
          /\ file_copies' = add_unique_file_copies(file_copies, copies)
          /\ ToSet(copies) \subseteq asks
    BY <1>5, NeededCopies
  <2>3. e \in ToSet(executables)
    <3>1. executables \in Seq(Path) /\ k \in 1 .. Len(executables)
      BY <1>5, NeedsPaths DEF TypeOK
    <3> QED BY <3>1, SetOfSeq
  <2>4. asks \subseteq Asked
    <3> HIDE DEF e
    <3>1. {e} \cup ToSet(Dependencies(e)) \subseteq Needs
      BY <2>3 DEF Needs
    <3> QED BY <3>1 DEF Asked
  <2> HIDE DEF asks
  <2>5. ToSet(file_copies') \subseteq ToSet(file_copies) \cup ToSet(copies)
    BY <2>2, CopiesAdded
  <2> QED BY <1>2, <2>1, <2>2, <2>4, <2>5 DEF CopiesAsked
<1>6. CASE AllExecutablesAdded \/ resolve_paths_in_array
  <2>1. /\ pass \in {"dependencies", "resolve_dirs"} /\ pass' \notin Reading
        /\ file_copies' = file_copies /\ UNCHANGED executables
    BY <1>6 DEF AllExecutablesAdded, resolve_paths_in_array, Goto, Reading
  <2> QED BY <1>2, <2>1 DEF CopiesAsked
<1>7. CASE ~(\/ ReadSettings \/ ReadDirectories \/ ReadExecutables \/ ReadFileCopies \/ AddExecutable
             \/ AllExecutablesAdded \/ resolve_paths_in_array)
  <2>1. pass' \notin Reading \cup {"dependencies", "resolve_dirs"}
    BY <1>7 DEF Next, AllDirectoriesResolved, ResolveSrc, ResolveDst, Resolve, AllCopiesResolved,
      ReadSymlinks, SortDirectories, SortSymlinks, SortFileCopies, write_output_config, Goto, Reading
  <2> QED BY <2>1 DEF CopiesAsked
<1> QED BY <1>3, <1>4, <1>5, <1>6, <1>7

(* Both ends of a list of copies. *)
LEMMA CopyPaths ==
    ASSUME NEW copies \in Seq([src : Path, dst : Path])
    PROVE  /\ Len(copies) \in Nat
           /\ \A field \in {"src", "dst"} :
                 /\ Field(copies, field) \in [1 .. Len(copies) -> Path]
                 /\ \A i \in 1 .. Len(copies) : Field(copies, field)[i] = copies[i][field]
           /\ \A i \in 1 .. Len(copies) : copies[i] \in ToSet(copies)
           /\ \A c \in ToSet(copies) : \E i \in 1 .. Len(copies) :
                 c.src = Field(copies, "src")[i] /\ c.dst = Field(copies, "dst")[i]
<1> DEFINE N == Len(copies)
<1>1. N \in Nat /\ \A i \in 1 .. N : copies[i] \in [src : Path, dst : Path]
  BY LenProperties, ElementOfSeq
<1>2. ToSet(copies) = {copies[i] : i \in 1 .. N}
  BY SetOfSeq
<1> HIDE DEF N
<1>3. \A i \in 1 .. N : \A field \in {"src", "dst"} : copies[i][field] \in Path
  BY <1>1
<1>4. ASSUME NEW field \in {"src", "dst"}
      PROVE  /\ Field(copies, field) \in [1 .. N -> Path]
             /\ \A i \in 1 .. N : Field(copies, field)[i] = copies[i][field]
  BY <1>3 DEF Field, N
<1>5. ASSUME NEW c \in ToSet(copies)
      PROVE  \E i \in 1 .. N : c.src = Field(copies, "src")[i] /\ c.dst = Field(copies, "dst")[i]
  <2>1. PICK i \in 1 .. N : c = copies[i]
    BY <1>2
  <2> QED BY <1>4, <2>1
<1> QED BY <1>1, <1>2, <1>4, <1>5 DEF N

(* A path that was replaced is where it leads, and stays (configer.c:605-668). *)
LEMMA CopiesTracedStep ==
    ASSUME TypeOK, InputKept, CopiesAsked, CopiesTraced, Next
    PROVE  CopiesTraced'
<1> DEFINE X == [src : Path, dst : Path]
           s == Field(file_copies', "src")
           d == Field(file_copies', "dst")
<1>1. CASE pass' \notin {"resolve_src", "resolve_dst"} \/ ~NoSharedBeginning'
  BY <1>1 DEF CopiesTraced
<1>2. ASSUME AllDirectoriesResolved \/ ResolveSrc \/ ResolveDst, NoSharedBeginning'
      PROVE  CopiesTraced'
  <2>1. UNCHANGED executables
    BY <1>2 DEF AllDirectoriesResolved, ResolveSrc, ResolveDst, Resolve
  <2>2. /\ Sources' = Sources /\ Targets' = Targets /\ NoSharedBeginning
        /\ Sources \subseteq Path /\ Targets \subseteq Path
        /\ NoneBegins(Sources) /\ NoneBegins(Targets)
    BY <1>2, <2>1, SameAsked, AskedPaths, BothBegin
  <2>3. host' = host
    BY StepKeeps
  <2>4. SUFFICES /\ Traced(s, Sources) /\ Traced(d, Targets)
                 /\ \A i \in 1 .. Len(file_copies') :
                       /\ i < k' \/ (i = k' /\ pass' = "resolve_dst") => ~Moves(s[i])
                       /\ i < k' => ~Moves(d[i])
    <3>1. Srcs' = s /\ Dsts' = d
      BY DEF Srcs, Dsts, Field
    <3> HIDE DEF s, d
    <3> QED BY <2>2, <2>3, <3>1 DEF CopiesTraced, Traced, Moves
  <2>5. file_copies \in Seq(X) /\ file_copies' \in Seq(X) /\ k \in Nat
    BY ArraysStep DEF TypeOK, ArraysOK
  <2>6. /\ Len(file_copies) \in Nat
        /\ Srcs \in [1 .. Len(file_copies) -> Path] /\ Dsts \in [1 .. Len(file_copies) -> Path]
        /\ \A i \in 1 .. Len(file_copies) :
              /\ file_copies[i] \in ToSet(file_copies)
              /\ Srcs[i] = file_copies[i]["src"] /\ Dsts[i] = file_copies[i]["dst"]
    BY <2>5, CopyPaths DEF Srcs, Dsts
  <2>7. /\ Len(file_copies') \in Nat
        /\ s \in [1 .. Len(file_copies') -> Path] /\ d \in [1 .. Len(file_copies') -> Path]
        /\ \A i \in 1 .. Len(file_copies') :
              s[i] = file_copies'[i]["src"] /\ d[i] = file_copies'[i]["dst"]
    BY <2>5, CopyPaths
  <2> HIDE DEF s, d
  <2>8. CASE AllDirectoriesResolved
    <3>1. /\ file_copies' = file_copies /\ k' = 1 /\ pass' = "resolve_src"
          /\ ToSet(file_copies) \subseteq Asked
      BY <2>8 DEF AllDirectoriesResolved, Goto, CopiesAsked
    <3>2. \A i \in 1 .. Len(file_copies') : s[i] \in Sources /\ d[i] \in Targets
      BY <2>6, <2>7, <3>1 DEF Sources, Targets
    <3> QED BY <2>7, <3>1, <3>2 DEF Traced
  <2>9. CASE ResolveSrc \/ ResolveDst
    <3>1. /\ Traced(Srcs, Sources) /\ Traced(Dsts, Targets) /\ count = Len(file_copies)
          /\ \A i \in 1 .. Len(file_copies) :
                /\ i < k \/ (i = k /\ pass = "resolve_dst") => ~Moves(Srcs[i])
                /\ i < k => ~Moves(Dsts[i])
      BY <2>2, <2>9 DEF CopiesTraced, TypeOK, ResolveSrc, ResolveDst
    <3>2. CASE ResolveSrc
      <4>1. /\ pass' = "resolve_dst" /\ k' = k /\ Resolve("src", "resolve_dst", k)
        BY <3>2 DEF ResolveSrc, Resolve, Goto
      <4>2. /\ k \in 1 .. Len(file_copies) /\ Len(file_copies') = Len(file_copies)
            /\ \A j \in 1 .. Len(file_copies) : file_copies'[j]["dst"] = file_copies[j]["dst"]
            /\ Traced(s, Sources) /\ ~Moves(s[k])
            /\ \A j \in 1 .. Len(file_copies) : ~Moves(Srcs[j]) => s[j] = Srcs[j]
        <5>1. /\ k \in 1 .. Len(file_copies) /\ Len(file_copies') = Len(file_copies)
              /\ \A j \in 1 .. Len(file_copies) : \A g \in {"src", "dst"} \ {"src"} :
                    file_copies'[j][g] = file_copies[j][g]
              /\ \A w \in [1 .. Len(file_copies) -> Path] :
                    (\A j \in 1 .. Len(file_copies) : w[j] = file_copies'[j]["src"]) =>
                       /\ Traced(w, Sources) /\ ~Moves(w[k])
                       /\ \A j \in 1 .. Len(file_copies) : ~Moves(Srcs[j]) => w[j] = Srcs[j]
          BY <2>2, <2>6, <3>1, <4>1, FieldTraced
        <5> QED BY <2>7, <5>1
      <4>3. d = Dsts
        BY <2>6, <2>7, <4>2
      <4> QED BY <2>5, <3>1, <4>1, <4>2, <4>3
    <3>3. CASE ResolveDst
      <4>1. /\ pass = "resolve_dst" /\ pass' = "resolve_src" /\ k' = k + 1
            /\ Resolve("dst", "resolve_src", k + 1)
        BY <3>3 DEF ResolveDst, Resolve, Goto
      <4>2. /\ k \in 1 .. Len(file_copies) /\ Len(file_copies') = Len(file_copies)
            /\ \A j \in 1 .. Len(file_copies) : file_copies'[j]["src"] = file_copies[j]["src"]
            /\ Traced(d, Targets) /\ ~Moves(d[k])
            /\ \A j \in 1 .. Len(file_copies) : ~Moves(Dsts[j]) => d[j] = Dsts[j]
        <5>1. /\ k \in 1 .. Len(file_copies) /\ Len(file_copies') = Len(file_copies)
              /\ \A j \in 1 .. Len(file_copies) : \A g \in {"src", "dst"} \ {"dst"} :
                    file_copies'[j][g] = file_copies[j][g]
              /\ \A w \in [1 .. Len(file_copies) -> Path] :
                    (\A j \in 1 .. Len(file_copies) : w[j] = file_copies'[j]["dst"]) =>
                       /\ Traced(w, Targets) /\ ~Moves(w[k])
                       /\ \A j \in 1 .. Len(file_copies) : ~Moves(Dsts[j]) => w[j] = Dsts[j]
          BY <2>2, <2>6, <3>1, <4>1, FieldTraced
        <5> QED BY <2>7, <5>1
      <4>3. s = Srcs
        BY <2>6, <2>7, <4>2
      <4>4. \A i \in 1 .. Len(file_copies) : i < k + 1 => i < k \/ i = k
        BY <2>5
      <4> QED BY <3>1, <4>1, <4>2, <4>3, <4>4
    <3> QED BY <2>9, <3>2, <3>3
  <2> QED BY <1>2, <2>8, <2>9
<1>3. CASE ~(AllDirectoriesResolved \/ ResolveSrc \/ ResolveDst)
  <2>1. pass' \notin {"resolve_src", "resolve_dst"}
    BY <1>3 DEF Next, ReadSettings, ReadDirectories, ReadExecutables, ReadFileCopies, AddExecutable,
      AllExecutablesAdded, resolve_paths_in_array, AllCopiesResolved, ReadSymlinks, SortDirectories,
      SortSymlinks, SortFileCopies, write_output_config, Goto
  <2> QED BY <1>1, <2>1
<1> QED BY <1>1, <1>2, <1>3


(* The last path that was asked for is settled, and sorting keeps it so       *)
(* (configer.c:201-225, 314-446).                                             *)
LEMMA CopiesSettledStep ==
    ASSUME TypeOK, InputKept, CopiesTraced, CopiesSettled, Next
    PROVE  CopiesSettled'
<1> DEFINE X == [src : Path, dst : Path]
<1>1. CASE pass' \notin AfterCopies \/ ~NoSharedBeginning'
  BY <1>1 DEF CopiesSettled, AfterCopies, AfterDirs
<1>2. ASSUME pass' \in AfterCopies, NoSharedBeginning', UNCHANGED executables,
             \A c \in ToSet(file_copies') : Settled(c.src, Sources) /\ Settled(c.dst, Targets)
      PROVE  CopiesSettled'
  <2>1. Sources' = Sources /\ Targets' = Targets
    BY <1>2, SameAsked
  <2>2. host' = host
    BY StepKeeps
  <2> QED BY <1>2, <2>1, <2>2 DEF CopiesSettled, Settled, Moves
<1>3. ASSUME UNCHANGED executables, NoSharedBeginning'
      PROVE  NoSharedBeginning
  BY <1>3, SameAsked
<1>4. ASSUME AllCopiesResolved, NoSharedBeginning'
      PROVE  CopiesSettled'
  <2>1. /\ pass = "resolve_src" /\ pass' = "symlinks" /\ k > count /\ file_copies' = file_copies
        /\ UNCHANGED executables
    BY <1>4 DEF AllCopiesResolved, Goto
  <2>2. k \in Nat /\ count = Len(file_copies) /\ file_copies \in Seq(X)
    BY <2>1 DEF TypeOK
  <2>3. /\ Len(file_copies) \in Nat
        /\ Srcs \in [1 .. Len(file_copies) -> Path] /\ Dsts \in [1 .. Len(file_copies) -> Path]
        /\ \A c \in ToSet(file_copies) : \E i \in 1 .. Len(file_copies) : c.src = Srcs[i] /\ c.dst = Dsts[i]
    BY <2>2, CopyPaths DEF Srcs, Dsts
  <2>4. /\ Traced(Srcs, Sources) /\ Traced(Dsts, Targets)
        /\ \A i \in 1 .. Len(file_copies) : i < k => ~Moves(Srcs[i]) /\ ~Moves(Dsts[i])
    BY <1>3, <1>4, <2>1 DEF CopiesTraced
  <2>5. \A i \in 1 .. Len(file_copies) : i < k
    BY <2>1, <2>2, <2>3
  <2>6. \A i \in 1 .. Len(file_copies) : Settled(Srcs[i], Sources) /\ Settled(Dsts[i], Targets)
    BY <2>3, <2>4, <2>5 DEF Traced, Settled
  <2> QED BY <1>2, <1>4, <2>1, <2>3, <2>6 DEF AfterCopies, AfterDirs
<1>5. ASSUME ReadSymlinks \/ SortDirectories \/ SortSymlinks \/ write_output_config, NoSharedBeginning'
      PROVE  CopiesSettled'
  <2>1. pass \in AfterCopies /\ file_copies' = file_copies /\ UNCHANGED executables
    BY <1>5 DEF ReadSymlinks, SortDirectories, SortSymlinks, write_output_config, AfterCopies, AfterDirs
  <2> QED BY <1>1, <1>2, <1>3, <1>5, <2>1 DEF CopiesSettled
<1>6. ASSUME SortFileCopies, NoSharedBeginning'
      PROVE  CopiesSettled'
  <2>1. /\ pass \in AfterCopies /\ UNCHANGED executables
        /\ file_copies' \in SortedUnique(file_copies, LAMBDA c : c.dst)
    BY <1>6 DEF SortFileCopies, AfterCopies, AfterDirs
  <2>2. file_copies \in Seq(X)
    BY DEF TypeOK
  <2>3. ToSet(file_copies') \subseteq ToSet(file_copies)
    BY <2>1, <2>2, CopiesSorted
  <2> QED BY <1>1, <1>2, <1>3, <1>6, <2>1, <2>3 DEF CopiesSettled
<1>7. CASE ~(\/ AllCopiesResolved \/ ReadSymlinks \/ SortDirectories \/ SortSymlinks \/ SortFileCopies
             \/ write_output_config)
  <2>1. pass' \notin AfterCopies
    BY <1>7 DEF Next, ReadSettings, ReadDirectories, ReadExecutables, ReadFileCopies, AddExecutable,
      AllExecutablesAdded, resolve_paths_in_array, AllDirectoriesResolved, ResolveSrc, ResolveDst,
      Resolve, Goto, AfterCopies, AfterDirs
  <2> QED BY <1>1, <2>1
<1> QED BY <1>1, <1>4, <1>5, <1>6, <1>7

(* The links that are collected, given or rewritten are links of the host, as *)
(* the host resolves them (configer.c:351-420, 565-668).                      *)
LEMMA LinksLeadStep ==
    ASSUME TypeOK, InputKept, LinksLead, Next
    PROVE  LinksLead'
<1> DEFINE Y == [sym : Path, dst : Path]
           Good == HostLinks(host)
<1>1. host' = host /\ config' = config /\ IsHost(host) /\ symlinks \in Seq(Y)
  BY StepKeeps, InputFacts DEF TypeOK
<1>2. LinksAgree' <=> LinksAgree
  BY <1>1 DEF LinksAgree
<1>3. ASSUME LinksAgree, ToSet(symlinks') \subseteq Good,
             pass' \in AfterLinks => \A l \in ToSet(symlinks') : l.sym # l.dst
      PROVE  LinksLead'
  BY <1>1, <1>3 DEF LinksLead
<1>4. CASE ~LinksAgree
  BY <1>2, <1>4 DEF LinksLead
<1>5. ASSUME LinksAgree PROVE ToSet(symlinks) \subseteq Good
  BY <1>5 DEF LinksLead
<1> HIDE DEF Good
<1>6. ASSUME LinksAgree, symlinks' = symlinks, pass' \in AfterLinks => pass \in AfterLinks
      PROVE  LinksLead'
  BY <1>3, <1>5, <1>6 DEF LinksLead
<1>7. ASSUME LinksAgree, NEW old \in Path, NEW real, real = realpath(host, old), real \notin {Missing, old},
             symlinks' = add_unique_symlink(symlinks, old, real), pass' \notin AfterLinks
      PROVE  LinksLead'
  <2>1. real \in Path /\ real \in host.dirs \cup host.files
    BY <1>7, MovedFacts
  <2>2. ToSet(symlinks') \subseteq ToSet(symlinks) \cup {[sym |-> old, dst |-> real]}
    BY <1>7, <2>1, LinkAdded
  <2>3. [sym |-> old, dst |-> real] \in Good
    BY <1>7, <2>1 DEF Good, HostLinks
  <2> QED BY <1>3, <1>5, <1>7, <2>2, <2>3
<1>8. ASSUME LinksAgree, resolve_paths_in_array PROVE LinksLead'
  <2> DEFINE old == directories[k]
             real == realpath(host, old)
  <2>1. pass' \notin AfterLinks
    BY <1>8 DEF resolve_paths_in_array, Goto, AfterLinks
  <2>2. CASE real \in {Missing, old}
    BY <1>6, <1>8, <2>1, <2>2 DEF resolve_paths_in_array
  <2>3. CASE real \notin {Missing, old}
    <3>1. /\ old = directories[k] /\ real = realpath(host, old)
          /\ symlinks' = add_unique_symlink(symlinks, old, real)
      BY <1>8, <2>3 DEF resolve_paths_in_array
    <3> HIDE DEF old, real
    <3>2. old \in Path
      BY <1>8, <2>3, <3>1, ResolveGrows
    <3> QED BY <1>7, <1>8, <2>1, <2>3, <3>1, <3>2
  <2> QED BY <2>2, <2>3
<1>9. ASSUME LinksAgree, ResolveSrc \/ ResolveDst PROVE LinksLead'
  <2>1. PICK field \in {"src", "dst"} : \E next, i : Resolve(field, next, i)
    BY <1>9 DEF ResolveSrc, ResolveDst
  <2>2. count = Len(file_copies) /\ pass' \notin AfterLinks
    BY <1>9 DEF TypeOK, ResolveSrc, ResolveDst, Resolve, Goto, AfterLinks
  <2> DEFINE old == file_copies[k][field]
             real == realpath(host, old)
  <2>3. CASE real \in {Missing, old}
    BY <1>6, <1>9, <2>1, <2>2, <2>3 DEF Resolve
  <2>4. CASE real \notin {Missing, old}
    <3>1. old = file_copies[k][field] /\ real = realpath(host, old)
      OBVIOUS
    <3> HIDE DEF old, real
    <3>2. CopyResolved(field, old, real)
      BY <2>1, <2>2, <2>4, <3>1, ResolveFacts
    <3> QED BY <1>7, <1>9, <2>2, <2>4, <3>1, <3>2 DEF CopyResolved
  <2> QED BY <2>3, <2>4
<1>10. ASSUME LinksAgree, ReadSymlinks PROVE LinksLead'
  <2> DEFINE links == config.symlinks
  <2>1. /\ symlinks' = AddedAll(symlinks, links, MAX_SYMLINKS) /\ pass' \notin AfterLinks
        /\ links \in Seq(Y)
    BY <1>10, InputFacts DEF ReadSymlinks, Goto, AfterLinks, IsConfig
  <2>2. \A l \in ToSet(links) : realpath(host, l.sym) = l.dst
    BY <1>10 DEF LinksAgree
  <2> HIDE DEF links
  <2>3. ToSet(symlinks') \subseteq ToSet(symlinks) \cup ToSet(links)
    BY <2>1, LinksAdded
  <2>4. ASSUME NEW l \in ToSet(links) PROVE l \in Good
    <3>1. l \in Y /\ realpath(host, l.sym) = l.dst
      BY <2>1, <2>2, SetOfSeq
    <3>2. l.dst \in host.dirs \cup host.files
      BY <1>1, <3>1, RealpathRange, PathStrings
    <3> QED BY <3>1, <3>2 DEF Good, HostLinks
  <2> QED BY <1>3, <1>5, <1>10, <2>1, <2>3, <2>4
<1>11. ASSUME LinksAgree, SortSymlinks PROVE LinksLead'
  <2>1. PICK links \in SortedUnique(symlinks, LAMBDA l : l.sym) : symlinks' = fix_symlinks(links)
    BY <1>11 DEF SortSymlinks
  <2>2. links \in Seq(Y) /\ ToSet(links) \subseteq ToSet(symlinks)
    BY <1>1, <2>1, LinksSorted
  <2>3. links \in Seq(Good)
    <3>1. ToSet(links) = {links[i] : i \in 1 .. Len(links)} /\ ToSet(links) \subseteq Good
      BY <1>5, <1>11, <2>2, SetOfSeq
    <3>2. links = [i \in 1 .. Len(links) |-> links[i]] /\ Len(links) \in Nat
      BY <2>2, LenProperties
    <3>3. links \in [1 .. Len(links) -> Good]
      BY <3>1, <3>2
    <3> QED BY <3>2, <3>3, SeqDef
  <2>4. \A l, m \in Good : Relinked(l, m) \in Good
    BY <1>1, RelinkedHostLinks DEF Good
  <2> DEFINE t == fix_symlinks(links)
  <2>5. symlinks' = t
    BY <2>1
  <2> HIDE DEF t
  <2>6. t \in Seq({l \in Good : l.sym # l.dst})
    BY <2>3, <2>4, FixedLinksFit DEF t
  <2>7. ToSet(t) \subseteq {l \in Good : l.sym # l.dst}
    BY <2>6, SetOfSeq
  <2> QED BY <1>3, <1>11, <2>5, <2>7
<1>12. ASSUME LinksAgree,
              \/ ReadSettings \/ ReadDirectories \/ ReadExecutables \/ ReadFileCopies \/ AddExecutable
              \/ AllExecutablesAdded \/ AllDirectoriesResolved \/ AllCopiesResolved \/ SortDirectories
              \/ SortFileCopies \/ write_output_config
       PROVE  LinksLead'
  <2>1. symlinks' = symlinks
    BY <1>12 DEF ReadSettings, ReadDirectories, ReadExecutables, ReadFileCopies, AddExecutable,
      AllExecutablesAdded, AllDirectoriesResolved, AllCopiesResolved, SortDirectories, SortFileCopies,
      write_output_config
  <2>2. pass' \in AfterLinks => pass \in AfterLinks
    BY <1>12 DEF ReadSettings, ReadDirectories, ReadExecutables, ReadFileCopies, AddExecutable,
      AllExecutablesAdded, AllDirectoriesResolved, AllCopiesResolved, SortDirectories, SortFileCopies,
      write_output_config, Goto, AfterLinks
  <2> QED BY <1>6, <1>12, <2>1, <2>2
<1> QED BY <1>4, <1>8, <1>9, <1>10, <1>11, <1>12 DEF Next


(* No directory on the way to a settled place, nor the place, moves. *)
LEMMA SettledTarget ==
    ASSUME TypeOK, InputKept, TargetsKnown, NEW d \in Path, Settled(d, Targets), NEW p \in Lineage(d)
    PROVE  ~Moves(p)
<1>1. IsHost(host)
  BY InputFacts
<1>2. ASSUME d \in host.dirs \cup host.files PROVE ~Moves(p)
  <2>1. p \in host.dirs \cup host.files
    BY <1>1, <1>2, HostFacts
  <2>2. realpath(host, p) = p
    BY <1>1, <2>1, RealpathListed
  <2> QED BY <2>2 DEF Moves
<1>3. CASE \E t \in Targets : Moves(t) /\ d = realpath(host, t)
  <2>1. PICK t \in Targets : Moves(t) /\ d = realpath(host, t)
    BY <1>3
  <2>2. t \in Path /\ d \notin {Missing, t}
    BY <2>1, AskedPaths DEF Moves
  <2>3. d \in host.dirs \cup host.files
    BY <2>1, <2>2, MovedFacts
  <2> QED BY <1>2, <2>3
<1>4. CASE d \in Targets /\ ~Moves(d)
  <2>1. CASE realpath(host, d) = d
    <3>1. d \in host.dirs \cup host.files
      BY <1>1, <2>1, RealpathRange, PathStrings
    <3> QED BY <1>2, <3>1
  <2>2. CASE realpath(host, d) = Missing
    <3>1. \A q \in Lineage(Parent(d)) : ~Moves(q)
      BY <1>4, <2>2 DEF TargetsKnown, Exists
    <3>2. p = d \/ p \in Lineage(Parent(d))
      BY ParentFacts
    <3> QED BY <1>4, <3>1, <3>2
  <2> QED BY <1>4, <2>1, <2>2 DEF Moves
<1> QED BY <1>3, <1>4 DEF Settled

(* What is written as a symlink moves on the host. *)
LEMMA LinksMove ==
    ASSUME InputKept, LinksLead, LinksAgree, pass \in AfterLinks, NEW p \in DOMAIN Sandbox.links
    PROVE  Moves(p)
<1>1. DOMAIN Sandbox.links = {l.sym : l \in ToSet(symlinks)}
  BY DEF Sandbox
<1>2. PICK l \in ToSet(symlinks) : p = l.sym
  BY <1>1
<1>3. l \in HostLinks(host) /\ l.sym # l.dst
  BY <1>2 DEF LinksLead
<1>4. realpath(host, p) = l.dst /\ l.dst \in host.dirs \cup host.files
  BY <1>2, <1>3 DEF HostLinks
<1>5. Missing \notin host.dirs \cup host.files
  BY InputFacts, HostFacts
<1> QED BY <1>2, <1>3, <1>4, <1>5 DEF Moves


----------------------------------------------------------------------------
(* The theorems.                                                              *)

LEMMA ListInvInit ==
    ASSUME Init
    PROVE  ListInv
<1>1. InputKept /\ pass = "settings" /\ k = 1 /\ count = 0 /\ full = FALSE
      /\ directories = <<>> /\ executables = <<>> /\ file_copies = <<>> /\ symlinks = <<>>
  BY DEF Init, InputKept
<1>2. \A X : <<>> \in Seq(X) /\ Len(<<>>) = 0
  OBVIOUS
<1>3. TypeOK
  <2>1. ArraysOK
    BY <1>1, <1>2, Bounds DEF ArraysOK
  <2>2. LoopOK
    BY <1>1 DEF LoopOK, Passes
  <2> QED BY <1>1, <2>1, <2>2 DEF ArraysOK, LoopOK, TypeOK
<1>4. ToSet(directories) = {}
  BY <1>1, NoElements
<1> QED BY <1>1, <1>3, <1>4 DEF ListInv, ParentsListed, DirectoriesResolved, DirectoriesSorted,
    AfterDirs, AfterSort

LEMMA ListInvStep ==
    ASSUME ListInv, [Next]_vars
    PROVE  ListInv'
<1>1. CASE Next
  BY <1>1, InputStep, TypesStep, ParentsListedStep, DirectoriesResolvedStep, DirectoriesSortedStep
    DEF ListInv
<1>2. CASE UNCHANGED vars
  BY <1>2 DEF vars, input, ListInv, InputKept, TypeOK, ParentsListed, DirectoriesResolved,
    DirectoriesSorted, Moves
<1> QED BY <1>1, <1>2

THEOREM ListInvariant == Spec => []ListInv
<1> QED BY ListInvInit, ListInvStep, PTL DEF Spec

(* The loops of main stay within their arrays, and the arrays within their    *)
(* lengths, whatever the configuration and the host (configer.c:110-244).      *)
THEOREM TypeCorrect == Spec => []TypeOK
<1>1. ListInv => TypeOK
  BY DEF ListInv
<1> QED BY <1>1, ListInvariant, PTL

(* No directory that is listed after the loop is a link of the host or under  *)
(* one, although the paths the loop has passed are rewritten again for a link *)
(* found later (configer.c:198, 565-599).                                     *)
THEOREM NoDirectoryUnderAnyLink == Spec => []NoDirectoryUnderLink
<1>1. ASSUME ListInv PROVE NoDirectoryUnderLink
  <2>1. SUFFICES ASSUME pass \notin {"settings", "directories", "executables", "file_copies",
                                     "dependencies", "resolve_dirs", "failed"}, ~full,
                        NEW d \in ToSet(directories), NEW p \in Lineage(d)
                 PROVE  ~Moves(p)
    BY DEF NoDirectoryUnderLink
  <2>2. pass \in AfterDirs /\ directories \in Seq(Path)
    BY <1>1, <2>1 DEF ListInv, TypeOK, Passes, AfterDirs
  <2>3. p \in ToSet(directories)
    BY <1>1, <2>1 DEF ListInv, ParentsListed
  <2>4. PICK i \in 1 .. Len(directories) : p = directories[i]
    BY <2>2, <2>3, SetOfSeq
  <2> QED BY <1>1, <2>2, <2>4 DEF ListInv, DirectoriesResolved
<1> QED BY <1>1, ListInvariant, PTL

(* mkdir, without -p, makes the written directories one after the other: each *)
(* is listed once and behind its parent (configer.c:470-517; jailor.c:302-311).*)
THEOREM ParentsWrittenFirst == Spec => []ParentsFirst
<1>1. ASSUME ListInv PROVE ParentsFirst
  <2> DEFINE N == Len(directories)
  <2>1. SUFFICES ASSUME pass = "written", ~full, NEW i \in 1 .. N
                 PROVE  /\ Parent(directories[i]) \in {Slash} \cup {directories[j] : j \in 1 .. i - 1}
                        /\ \A j \in 1 .. i - 1 : directories[j] # directories[i]
    <3>1. DOMAIN directories = 1 .. N
      BY <1>1, LenProperties DEF ListInv, TypeOK
    <3> QED BY <3>1 DEF ParentsFirst, Complete
  <2>2. directories \in Seq(Path) /\ N \in Nat /\ \A j \in 1 .. N : directories[j] \in Path
    BY <1>1, LenProperties, ElementOfSeq DEF ListInv, TypeOK
  <2>3. \A j, m \in 1 .. N : j < m => Before(directories[j], directories[m])
    BY <1>1, <2>1 DEF ListInv, DirectoriesSorted, AfterSort
  <2> DEFINE d == directories[i]
  <2>4. d \in Path /\ Lineage(d) \subseteq {directories[j] : j \in 1 .. N}
    <3>1. d \in ToSet(directories) /\ ToSet(directories) = {directories[j] : j \in 1 .. N}
      BY <2>2, SetOfSeq
    <3> QED BY <1>1, <2>1, <2>2, <3>1 DEF ListInv, ParentsListed
  <2>5. \A j \in 1 .. i - 1 : j \in 1 .. N /\ j < i
    BY <2>2
  <2>6. \A j \in 1 .. i - 1 : directories[j] # d
    BY <2>2, <2>3, <2>5, BeforeIrreflexive
  <2>7. ASSUME Parent(d) # Slash PROVE \E j \in 1 .. i - 1 : Parent(d) = directories[j]
    <3>1. Parent(d) \in Path /\ Parent(d) \in Lineage(d) /\ Before(Parent(d), d)
      <4>1. /\ Parent(d) \in Path /\ Parent(d) \in Lineage(d) /\ Len(Parent(d)) < Len(d)
        BY <2>4, <2>7, ParentFacts
      <4>2. Parent(d) # d
        BY <2>4, <4>1, PathFacts
      <4> QED BY <2>4, <4>1, <4>2, AboveBefore
    <3>2. PICK j \in 1 .. N : Parent(d) = directories[j]
      BY <2>4, <3>1
    <3>3. j # i
      BY <2>4, <3>1, <3>2, BeforeIrreflexive
    <3>4. ~(i < j)
      <4>1. SUFFICES ASSUME i < j PROVE FALSE
        OBVIOUS
      <4>2. Before(d, Parent(d))
        BY <2>3, <3>2, <4>1
      <4>3. Before(d, d)
        BY <2>4, <3>1, <4>2, BeforeTransitive
      <4> QED BY <2>4, <4>3, BeforeIrreflexive
    <3>5. j \in 1 .. i - 1
      BY <2>2, <3>3, <3>4
    <3> QED BY <3>2, <3>5
  <2> QED BY <2>6, <2>7
<1> QED BY <1>1, ListInvariant, PTL

LEMMA CopyInvInit ==
    ASSUME Init
    PROVE  CopyInv
<1>1. ListInv
  BY ListInvInit
<1>2. pass = "settings" /\ file_copies = <<>> /\ symlinks = <<>>
  BY DEF Init
<1>3. ToSet(symlinks) = {}
  BY <1>2, NoElements
<1> QED BY <1>1, <1>2, <1>3 DEF CopyInv, CopiesAsked, CopiesTraced, CopiesSettled, LinksLead, Reading,
    AfterCopies, AfterDirs, AfterLinks

LEMMA CopyInvStep ==
    ASSUME CopyInv, [Next]_vars
    PROVE  CopyInv'
<1>1. ListInv'
  BY ListInvStep DEF CopyInv
<1>2. CASE Next
  <2>1. TypeOK /\ InputKept
    BY DEF CopyInv, ListInv
  <2> QED BY <1>1, <1>2, <2>1, CopiesAskedStep, CopiesTracedStep, CopiesSettledStep, LinksLeadStep
        DEF CopyInv
<1>3. CASE UNCHANGED vars
  <2>1. /\ CopiesAsked' <=> CopiesAsked
        /\ LinksLead' <=> LinksLead
    BY <1>3 DEF vars, input, CopiesAsked, LinksLead, LinksAgree, Asked, Needs, Dependencies
  <2>2. /\ Sources' = Sources /\ Targets' = Targets /\ Srcs' = Srcs /\ Dsts' = Dsts
    BY <1>3 DEF vars, input, Sources, Targets, Asked, Needs, Dependencies, Srcs, Dsts, Field
  <2>3. NoSharedBeginning' <=> NoSharedBeginning
    BY <1>3, <2>2 DEF vars, input, NoSharedBeginning, Moves
  <2>4. CopiesTraced' <=> CopiesTraced
    BY <1>3, <2>2, <2>3 DEF vars, input, CopiesTraced, Traced, Moves
  <2>5. CopiesSettled' <=> CopiesSettled
    BY <1>3, <2>2, <2>3 DEF vars, input, CopiesSettled, Settled, Moves
  <2> QED BY <1>1, <2>1, <2>4, <2>5 DEF CopyInv
<1> QED BY <1>2, <1>3

THEOREM CopyInvariant == Spec => []CopyInv
<1> QED BY CopyInvInit, CopyInvStep, PTL DEF Spec

(* For a configuration that keeps to the preconditions, each listed copy is   *)
(* of a file of the host, and neither its place nor a directory on the way is *)
(* listed as a symlink, which the jailor makes last: although src, dst,       *)
(* directories and links are rewritten in separate loops, each by what the    *)
(* one before has found (configer.c:565-668; jailor.c:89-125, 162).           *)
THEOREM CopiesCanBeMade == Spec => []CopiesBuildable
<1>1. ASSUME CopyInv PROVE CopiesBuildable
  <2>1. SUFFICES ASSUME Complete, SourcesExist, NoSharedBeginning, TargetsKnown, LinksAgree,
                        NEW c \in ToSet(file_copies)
                 PROVE  /\ c.src \in host.files
                        /\ \A p \in Lineage(c.dst) : p \notin DOMAIN Sandbox.links
    BY DEF CopiesBuildable
  <2>2. TypeOK /\ InputKept /\ LinksLead /\ pass \in AfterCopies /\ pass \in AfterLinks
    BY <1>1, <2>1 DEF CopyInv, ListInv, Complete, AfterCopies, AfterDirs, AfterLinks
  <2>3. Settled(c.src, Sources) /\ Settled(c.dst, Targets)
    BY <1>1, <2>1, <2>2 DEF CopyInv, CopiesSettled
  <2>4. c.dst \in Path
    <3>1. file_copies \in Seq([src : Path, dst : Path])
      BY <2>2 DEF TypeOK
    <3>2. c \in [src : Path, dst : Path]
      BY <2>1, <3>1, SetOfSeq
    <3> QED BY <3>2
  <2>5. c.src \in host.files
    <3>1. Missing \notin host.files
      BY <2>2, InputFacts, HostFacts
    <3>2. CASE c.src \in Sources
      <4>1. realpath(host, c.src) \in host.files
        BY <2>1, <3>2 DEF SourcesExist
      <4> QED BY <2>3, <3>1, <4>1 DEF Settled, Moves
    <3>3. CASE \E t \in Sources : c.src = realpath(host, t)
      BY <2>1, <3>3 DEF SourcesExist
    <3> QED BY <2>3, <3>2, <3>3 DEF Settled
  <2>6. ASSUME NEW p \in Lineage(c.dst) PROVE p \notin DOMAIN Sandbox.links
    <3>1. ~Moves(p)
      BY <2>1, <2>2, <2>3, <2>4, SettledTarget
    <3> QED BY <2>1, <2>2, <3>1, LinksMove
  <2> QED BY <2>5, <2>6
<1> QED BY <1>1, CopyInvariant, PTL

----------------------------------------------------------------------------
(* The links.                                                                 *)

Resolving == {"resolve_dirs", "resolve_src", "resolve_dst", "symlinks", "sort_directories",
              "sort_symlinks"}

(* What is listed for the paths of S. *)
Above(S) == UNION {Lineage(Listed(p)) : p \in S}

(* The paths of one step, and of those before it. *)
ReadNow ==
    CASE pass = "directories" -> ToSet(config.directories)
      [] pass = "file_copies" -> {c.dst : c \in ToSet(config.file_copies)}
      [] pass = "dependencies" -> {executables[k]} \cup ToSet(Dependencies(executables[k]))
ReadBefore ==
    (IF pass \in {"settings", "directories"} THEN {} ELSE ToSet(config.directories))
    \cup (IF pass # "dependencies" THEN {}
          ELSE {c.dst : c \in ToSet(config.file_copies)}
               \cup UNION {{executables[i]} \cup ToSet(Dependencies(executables[i])) : i \in 1 .. k - 1})

(* The directories are those of the paths that were read, all if there was    *)
(* room.                                                                      *)
DirectoriesRead ==
    pass \in Reading \cup {"dependencies"} =>
      /\ symlinks = <<>>
      /\ ToSet(directories) \subseteq Above(ReadBefore)
      /\ ~full => Above(ReadBefore) \subseteq ToSet(directories)

(* In the loop a directory is as it was asked for or does not move.           *)
AskedOrSettled ==
    pass = "resolve_dirs" /\ PlainLinks =>
      \A i \in 1 .. Len(directories) : directories[i] \in AskedDirectories \/ ~Moves(directories[i])

(* A directory that was asked for stays listed under some path to it.         *)
AskedListed ==
    pass \in {"resolve_dirs"} \cup AfterDirs /\ ~full =>
      \A y \in AskedDirectories : Exists(host, y) =>
         \E d \in ToSet(directories) : realpath(host, d) = realpath(host, y)

(* A directory that was asked for and is a link is listed as one, or still to *)
(* be resolved.                                                               *)
LinksListed ==
    pass \in Resolving /\ ~full =>
      \A q \in AskedDirectories \cap DOMAIN host.links :
         \/ [sym |-> q, dst |-> host.links[q]] \in ToSet(symlinks)
         \/ pass = "resolve_dirs" /\ \E j \in k .. count : directories[j] = q

(* A link is found by a path that was asked for. *)
LinksSpelled ==
    pass \in Resolving /\ NoSharedBeginning /\ PlainLinks /\ LinksStay /\ LinksPlaced =>
      \A l \in ToSet(symlinks) : l.sym \in Spelled /\ Parent(l.sym) \in {Slash} \cup AskedDirectories

(* What LinksBuildable asks for of a configuration. *)
LinksPlain == NoSharedBeginning /\ PlainLinks /\ OneSpelling /\ LinksStay /\ LinksAgree /\ LinksPlaced

(* A sorted and fixed link is where it is on the host. *)
LinksInPlace ==
    pass \in AfterLinks /\ ~full /\ LinksPlain =>
      \A i \in 1 .. Len(symlinks) :
         /\ symlinks[i].sym \in DOMAIN host.links
         /\ Parent(symlinks[i].sym) \in {Slash} \cup ToSet(directories)
         /\ \A j \in 1 .. i - 1 : symlinks[j].sym # symlinks[i].sym

LinkInv ==
    /\ CopyInv /\ DirectoriesRead /\ AskedOrSettled /\ AskedListed /\ LinksListed /\ LinksSpelled
    /\ LinksInPlace

LEMMA AskedAbove ==
    AskedDirectories = Above(Targets \cup ToSet(config.directories))
<1> QED BY DEF AskedDirectories, Above

(* What is asked for, and the parents of it. *)
LEMMA AboveFacts ==
    ASSUME NEW S, \A p \in S : Trimmed(p) \in Path \cup {Slash}
    PROVE  Above(S) \subseteq Path /\ WithParents(Above(S))
<1>1. ASSUME NEW d \in Above(S) PROVE d \in Path /\ Lineage(d) \subseteq Above(S)
  <2>1. PICK p \in S : d \in Lineage(Listed(p))
    BY DEF Above
  <2>2. Listed(p) \in Path
    BY <2>1, ListedFacts, SlashParent
  <2>3. d \in Path /\ Lineage(d) \subseteq Lineage(Listed(p))
    BY <2>1, <2>2, LineageFacts
  <2> QED BY <2>1, <2>3 DEF Above
<1> QED BY <1>1 DEF WithParents

LEMMA AskedFacts ==
    ASSUME TypeOK, InputKept
    PROVE  /\ AskedDirectories \subseteq Path /\ WithParents(AskedDirectories)
           /\ Spelled \subseteq Path
           /\ \A p \in Targets : Parent(p) \in {Slash} \cup AskedDirectories
           /\ \A p \in AskedDirectories : Parent(p) \in {Slash} \cup AskedDirectories
<1>1. Sources \subseteq Path /\ Targets \subseteq Path
  BY AskedPaths
<1>2. \A p \in ToSet(config.directories) : Trimmed(p) \in Path \cup {Slash}
  <2>1. /\ config.directories \in Seq(Seq(ToSet(Letters)))
        /\ \A i \in DOMAIN config.directories : Trimmed(config.directories[i]) \in Path \cup {Slash}
    BY InputFacts DEF IsConfig
  <2> DEFINE ds == config.directories
  <2>2. ds \in Seq(Seq(ToSet(Letters))) /\ \A i \in DOMAIN ds : Trimmed(ds[i]) \in Path \cup {Slash}
    BY <2>1
  <2> HIDE DEF ds
  <2>3. DOMAIN ds = 1 .. Len(ds) /\ ToSet(ds) = {ds[i] : i \in 1 .. Len(ds)}
    BY <2>2, LenProperties, SetOfSeq
  <2>4. \A p \in ToSet(ds) : Trimmed(p) \in Path \cup {Slash}
    BY <2>2, <2>3
  <2> QED BY <2>4 DEF ds
<1>3. \A p \in Targets \cup ToSet(config.directories) : Trimmed(p) \in Path \cup {Slash}
  BY <1>1, <1>2, TrimmedPath
<1>4. AskedDirectories \subseteq Path /\ WithParents(AskedDirectories)
  BY <1>3, AboveFacts, AskedAbove
<1>5. {l.sym : l \in ToSet(config.symlinks)} \subseteq Path
  <2>1. config.symlinks \in Seq([sym : Path, dst : Path])
    BY InputFacts DEF IsConfig
  <2>2. ToSet(config.symlinks) \subseteq [sym : Path, dst : Path]
    BY <2>1, SetOfSeq
  <2> QED BY <2>2
<1>6. ASSUME NEW p \in AskedDirectories PROVE Parent(p) \in {Slash} \cup AskedDirectories
  <2>1. p \in Path /\ Lineage(p) \subseteq AskedDirectories
    BY <1>4 DEF WithParents
  <2> QED BY <2>1, ParentFacts
<1>7. ASSUME NEW p \in Targets PROVE Parent(p) \in {Slash} \cup AskedDirectories
  <2>1. p \in Path /\ Trimmed(p) = p
    BY <1>1, TrimmedPath
  <2>2. Lineage(Listed(p)) \subseteq AskedDirectories
    BY AskedAbove DEF Above
  <2>3. CASE Listed(p) = p
    <3>1. p \in AskedDirectories
      BY <2>1, <2>2, <2>3, LineageFacts
    <3> QED BY <1>6, <3>1
  <2>4. CASE Listed(p) = Parent(p)
    <3>1. Parent(p) = Slash \/ Parent(p) \in Path
      BY <2>1, ParentFacts
    <3> QED BY <2>2, <2>4, <3>1, LineageFacts
  <2> QED BY <2>1, <2>3, <2>4 DEF Listed
<1> QED BY <1>1, <1>4, <1>5, <1>6, <1>7 DEF Spelled

LEMMA SameLinks ==
    ASSUME TypeOK, Next, UNCHANGED executables
    PROVE  /\ AskedDirectories' = AskedDirectories /\ Spelled' = Spelled
           /\ NoSharedBeginning' <=> NoSharedBeginning
           /\ PlainLinks' <=> PlainLinks
           /\ OneSpelling' <=> OneSpelling
           /\ LinksStay' <=> LinksStay
           /\ LinksAgree' <=> LinksAgree
           /\ LinksPlaced' <=> LinksPlaced
<1>1. config' = config /\ host' = host
  BY StepKeeps
<1>2. /\ Asked' = Asked /\ Sources' = Sources /\ Targets' = Targets
      /\ NoSharedBeginning' <=> NoSharedBeginning
      /\ \A p : Moves(p)' <=> Moves(p)
  BY SameAsked
<1>3. \A p : Listed(p)' = Listed(p) /\ Place(p)' = Place(p)
  BY <1>1 DEF Listed, Place
<1>4. AskedDirectories' = AskedDirectories
  BY <1>1, <1>2, <1>3 DEF AskedDirectories
<1>5. Spelled' = Spelled
  BY <1>1, <1>2, <1>4 DEF Spelled
<1>6. PlainLinks' <=> PlainLinks
  BY <1>1, <1>3, <1>4 DEF PlainLinks
<1>7. OneSpelling' <=> OneSpelling
  BY <1>1, <1>3, <1>5 DEF OneSpelling
<1>8. LinksStay' <=> LinksStay
  BY <1>2 DEF LinksStay
<1>9. LinksAgree' <=> LinksAgree
  BY <1>1 DEF LinksAgree
<1>10. LinksPlaced' <=> LinksPlaced
  BY <1>1, <1>4 DEF LinksPlaced
<1> QED BY <1>2, <1>4, <1>5, <1>6, <1>7, <1>8, <1>9, <1>10

(* A step that leaves room in the arrays. *)
LEMMA RoomLeft ==
    ASSUME TypeOK, InputKept, Next, ~full'
    PROVE  /\ ~full
           /\ directories' \in Seq(Path) /\ Len(directories') \in Nat /\ Len(directories') < MAX_DIRECTORIES
           /\ symlinks' \in Seq([sym : Path, dst : Path]) /\ Len(symlinks') \in Nat
           /\ Len(symlinks') < MAX_SYMLINKS
           /\ file_copies' \in Seq([src : Path, dst : Path]) /\ Len(file_copies') < MAX_FILE_COPIES
<1>1. ASSUME NEW p, NEW i, NEW n, Goto(p, i, n)
      PROVE  /\ ~full /\ Len(directories') # MAX_DIRECTORIES /\ Len(symlinks') # MAX_SYMLINKS
             /\ Len(file_copies') # MAX_FILE_COPIES
  <2>1. full \in BOOLEAN
    BY DEF TypeOK
  <2> QED BY <1>1, <2>1 DEF Goto, input
<1>2. \E p, i, n : Goto(p, i, n)
  BY DEF Next, ReadSettings, ReadDirectories, ReadExecutables, ReadFileCopies, AddExecutable,
    AllExecutablesAdded, resolve_paths_in_array, AllDirectoriesResolved, ResolveSrc, ResolveDst,
    Resolve, AllCopiesResolved, ReadSymlinks, SortDirectories, SortSymlinks, SortFileCopies,
    write_output_config
<1>3. /\ ~full /\ Len(directories') # MAX_DIRECTORIES /\ Len(symlinks') # MAX_SYMLINKS
      /\ Len(file_copies') # MAX_FILE_COPIES
  BY <1>1, <1>2
<1>4. /\ directories' \in Seq(Path) /\ Len(directories') <= MAX_DIRECTORIES
      /\ symlinks' \in Seq([sym : Path, dst : Path]) /\ Len(symlinks') <= MAX_SYMLINKS
      /\ file_copies' \in Seq([src : Path, dst : Path]) /\ Len(file_copies') <= MAX_FILE_COPIES
  BY ArraysStep DEF ArraysOK
<1>5. Len(directories') \in Nat /\ Len(symlinks') \in Nat /\ Len(file_copies') \in Nat
  BY <1>4, LenProperties
<1> QED BY <1>3, <1>4, <1>5, Bounds

(* A step that reads adds the directories of what it reads (configer.c:110-188). *)
LEMMA ReadGrows ==
    ASSUME TypeOK, InputKept, ReadDirectories \/ ReadFileCopies \/ AddExecutable
    PROVE  Grown(directories', directories, Above(ReadNow), Path, MAX_DIRECTORIES)
<1>1. directories \in Seq(Path) /\ IsConfig(config) /\ IsHost(host)
  BY InputFacts DEF TypeOK
<1>2. ASSUME NEW X, NEW paths \in Seq(X), Trimmable(paths), ToSet(paths) = ReadNow,
             directories' = AddDirectories(directories, paths)
      PROVE  Grown(directories', directories, Above(ReadNow), Path, MAX_DIRECTORIES)
  <2>1. Len(paths) \in Nat /\ ToSet(paths) = {paths[i] : i \in 1 .. Len(paths)}
    BY LenProperties, SetOfSeq
  <2> DEFINE E == UNION {Lineage(Listed(paths[i])) : i \in 1 .. Len(paths)}
  <2>2. Grown(AddDirectories(directories, paths), directories, E, Path, MAX_DIRECTORIES)
    BY <1>1, <1>2, <2>1, DirectoriesGrown
  <2>3. E = Above(ReadNow)
    BY <1>2, <2>1 DEF Above
  <2> HIDE DEF E
  <2> QED BY <1>2, <2>2, <2>3
<1>3. CASE ReadDirectories
  <2> DEFINE paths == config.directories
  <2>1. paths \in Seq(Seq(ToSet(Letters))) /\ \A n \in DOMAIN paths : Trimmed(paths[n]) \in Path \cup {Slash}
    BY <1>1 DEF IsConfig
  <2>2. directories' = AddDirectories(directories, paths) /\ ToSet(paths) = ReadNow
    BY <1>3 DEF ReadDirectories, ReadNow
  <2> HIDE DEF paths
  <2>3. DOMAIN paths = 1 .. Len(paths)
    BY <2>1, LenProperties
  <2>4. Trimmable(paths)
    BY <2>1, <2>3 DEF Trimmable
  <2> QED BY <1>2, <2>1, <2>2, <2>4
<1>4. ASSUME NEW paths \in Seq(Path)
      PROVE  Trimmable(paths)
  <2>1. \A i \in 1 .. Len(paths) : paths[i] \in Path
    BY ElementOfSeq
  <2> QED BY <2>1, TrimmedPath DEF Trimmable
<1>5. CASE ReadFileCopies
  <2> DEFINE copies == config.file_copies
             paths == [i \in DOMAIN copies |-> copies[i].dst]
  <2>1. copies \in Seq([src : Path, dst : Path])
    BY <1>1 DEF IsConfig
  <2>2. directories' = AddDirectories(directories, paths) /\ ReadNow = {c.dst : c \in ToSet(copies)}
    BY <1>5 DEF ReadFileCopies, ReadNow
  <2> HIDE DEF copies
  <2>3. /\ Len(copies) \in Nat /\ DOMAIN copies = 1 .. Len(copies)
        /\ ToSet(copies) = {copies[i] : i \in 1 .. Len(copies)}
    BY <2>1, LenProperties, SetOfSeq
  <2>4. \A i \in 1 .. Len(copies) : copies[i].dst \in Path
    <3>1. \A i \in 1 .. Len(copies) : copies[i] \in [src : Path, dst : Path]
      BY <2>1, ElementOfSeq
    <3> QED BY <3>1
  <2>5. paths \in Seq(Path) /\ Len(paths) = Len(copies)
    BY <2>3, <2>4, SeqDef, LenProperties
  <2>6. \A i \in 1 .. Len(copies) : paths[i] = copies[i].dst
    BY <2>3
  <2> HIDE DEF paths
  <2>7. ToSet(paths) = {paths[i] : i \in 1 .. Len(paths)}
    BY <2>5, SetOfSeq
  <2>8. ToSet(paths) = ReadNow
    BY <2>2, <2>3, <2>5, <2>6, <2>7
  <2> QED BY <1>2, <1>4, <2>2, <2>5, <2>8
<1>6. CASE AddExecutable
  <2> DEFINE e == executables[k]
             deps == Dependencies(e)
             paths == <<e>> \o deps
  <2>1. e \in Path /\ deps \in Seq(Path) /\ paths \in Seq(Path)
    BY <1>6, NeedsPaths
  <2>2. directories' = AddDirectories(directories, paths) /\ ReadNow = {e} \cup ToSet(deps)
    BY <1>6 DEF AddExecutable, ReadNow
  <2> HIDE DEF e, deps
  <2>3. <<e>> \in Seq(Path) /\ Len(<<e>>) = 1 /\ <<e>>[1] = e
    BY <2>1
  <2>4. /\ Len(paths) = 1 + Len(deps) /\ paths[1] = e /\ Len(deps) \in Nat
        /\ \A i \in 1 .. Len(deps) : paths[1 + i] = deps[i]
    <3>1. /\ Len(paths) = Len(<<e>>) + Len(deps) /\ Len(deps) \in Nat
          /\ \A i \in 1 .. Len(<<e>>) : paths[i] = <<e>>[i]
          /\ \A i \in 1 .. Len(deps) : paths[Len(<<e>>) + i] = deps[i]
      BY <2>1, <2>3, ConcatProperties, LenProperties
    <3> HIDE DEF paths
    <3> QED BY <2>3, <3>1
  <2> HIDE DEF paths
  <2>5. /\ ToSet(paths) = {paths[i] : i \in 1 .. Len(paths)}
        /\ ToSet(deps) = {deps[i] : i \in 1 .. Len(deps)}
    BY <2>1, SetOfSeq
  <2>6. ToSet(paths) \subseteq {e} \cup ToSet(deps)
    <3>1. ASSUME NEW i \in 1 .. Len(paths) PROVE paths[i] \in {e} \cup ToSet(deps)
      <4>1. CASE i = 1
        BY <2>4, <4>1
      <4>2. CASE i # 1
        <5>1. i - 1 \in 1 .. Len(deps) /\ 1 + (i - 1) = i
          BY <2>4, <4>2
        <5> QED BY <2>4, <2>5, <5>1
      <4> QED BY <4>1, <4>2
    <3> QED BY <2>5, <3>1
  <2>7. {e} \cup ToSet(deps) \subseteq ToSet(paths)
    <3>1. 1 \in 1 .. Len(paths) /\ \A i \in 1 .. Len(deps) : 1 + i \in 1 .. Len(paths)
      BY <2>4
    <3> QED BY <2>4, <2>5, <3>1
  <2> QED BY <1>2, <1>4, <2>1, <2>2, <2>6, <2>7
<1> QED BY <1>3, <1>5, <1>6

LEMMA DirectoriesReadStep ==
    ASSUME TypeOK, InputKept, DirectoriesRead, Next
    PROVE  DirectoriesRead'
<1>1. config' = config /\ host' = host /\ \A S : Above(S)' = Above(S)
  BY StepKeeps DEF Above, Listed
<1>2. ~full' => ~full
  BY StepKeeps
<1>3. CASE pass' \notin Reading \cup {"dependencies"}
  BY <1>3 DEF DirectoriesRead
<1>4. CASE ReadSettings \/ ReadExecutables
  <2>1. /\ directories' = directories /\ symlinks' = symlinks
        /\ pass \in Reading /\ pass' # "dependencies"
        /\ pass = "settings" => pass' \in {"directories", "failed"}
        /\ pass = "executables" => pass' = "file_copies"
        /\ pass \in {"settings", "executables"}
    BY <1>4 DEF ReadSettings, ReadExecutables, Goto, Reading
  <2>2. pass' # "failed" => ReadBefore' = ReadBefore
    BY <1>1, <2>1 DEF ReadBefore
  <2>3. pass' = "failed" => DirectoriesRead'
    BY DEF DirectoriesRead, Reading
  <2>4. /\ symlinks = <<>> /\ ToSet(directories) \subseteq Above(ReadBefore)
        /\ ~full => Above(ReadBefore) \subseteq ToSet(directories)
    BY <2>1 DEF DirectoriesRead
  <2>5. pass' # "failed" => Above(ReadBefore)' = Above(ReadBefore)
    BY <1>1, <2>2 DEF Above
  <2> QED BY <1>2, <2>1, <2>3, <2>4, <2>5 DEF DirectoriesRead
<1>5. CASE ReadDirectories \/ ReadFileCopies \/ AddExecutable
  <2>1. symlinks' = symlinks /\ pass \in Reading \cup {"dependencies"}
    BY <1>5 DEF ReadDirectories, ReadFileCopies, AddExecutable, Reading
  <2>2. /\ symlinks = <<>> /\ ToSet(directories) \subseteq Above(ReadBefore)
        /\ ~full => Above(ReadBefore) \subseteq ToSet(directories)
    BY <2>1 DEF DirectoriesRead
  <2>3. Grown(directories', directories, Above(ReadNow), Path, MAX_DIRECTORIES)
    BY <1>5, ReadGrows
  <2>4. directories \in Seq(Path)
    BY DEF TypeOK
  <2>5. /\ ToSet(directories) \subseteq ToSet(directories')
        /\ ToSet(directories') \subseteq ToSet(directories) \cup Above(ReadNow)
    BY <2>3, <2>4, GrownKeeps
  <2>6. ~full' => Above(ReadNow) \subseteq ToSet(directories')
    BY <2>3, RoomLeft DEF Grown
  <2>7. ReadBefore' = ReadBefore \cup ReadNow
    <3>1. CASE ReadDirectories
      <4>1. pass = "directories" /\ pass' = "executables"
        BY <3>1 DEF ReadDirectories, Goto
      <4> QED BY <1>1, <4>1 DEF ReadBefore, ReadNow
    <3>2. CASE ReadFileCopies
      <4>1. pass = "file_copies" /\ pass' = "dependencies" /\ k' = 1
        BY <3>2 DEF ReadFileCopies, Goto
      <4>2. ReadBefore' = ToSet(config.directories) \cup {c.dst : c \in ToSet(config.file_copies)} \cup
              UNION {{executables'[i]} \cup ToSet(Dependencies(executables'[i])) : i \in 1 .. 1 - 1}
        BY <1>1, <4>1 DEF ReadBefore, Dependencies
      <4>3. 1 .. 1 - 1 = {}
        OBVIOUS
      <4> QED BY <4>1, <4>2, <4>3 DEF ReadBefore, ReadNow
    <3>3. CASE AddExecutable
      <4>1. /\ pass = "dependencies" /\ pass' = "dependencies" /\ k' = k + 1 /\ executables' = executables
            /\ k \in Nat /\ k >= 1
        BY <3>3 DEF AddExecutable, Goto, TypeOK
      <4> DEFINE F(i) == {executables[i]} \cup ToSet(Dependencies(executables[i]))
      <4>2. 1 .. (k + 1) - 1 = (1 .. k - 1) \cup {k}
        BY <4>1
      <4>3. ReadBefore' = ToSet(config.directories) \cup {c.dst : c \in ToSet(config.file_copies)} \cup
              UNION {F(i) : i \in 1 .. (k + 1) - 1}
        BY <1>1, <4>1 DEF ReadBefore, Dependencies
      <4>4. ReadBefore = ToSet(config.directories) \cup {c.dst : c \in ToSet(config.file_copies)} \cup
              UNION {F(i) : i \in 1 .. k - 1}
        BY <4>1 DEF ReadBefore
      <4>5. ReadNow = F(k)
        BY <4>1 DEF ReadNow
      <4> HIDE DEF F
      <4>6. UNION {F(i) : i \in 1 .. (k + 1) - 1} = (UNION {F(i) : i \in 1 .. k - 1}) \cup F(k)
        BY <4>2
      <4> QED BY <4>3, <4>4, <4>5, <4>6
    <3> QED BY <1>5, <3>1, <3>2, <3>3
  <2>8. Above(ReadBefore)' = Above(ReadBefore) \cup Above(ReadNow)
    <3>1. Above(ReadBefore)' = Above(ReadBefore \cup ReadNow)
      BY <1>1, <2>7 DEF Above, Listed
    <3>2. \A S, T : Above(S \cup T) = Above(S) \cup Above(T)
      BY DEF Above
    <3> QED BY <3>1, <3>2
  <2> QED BY <1>2, <2>1, <2>2, <2>5, <2>6, <2>8 DEF DirectoriesRead
<1>6. CASE ~(ReadSettings \/ ReadDirectories \/ ReadExecutables \/ ReadFileCopies \/ AddExecutable)
  <2>1. pass' \notin Reading \cup {"dependencies"}
    BY <1>6 DEF Next, AllExecutablesAdded, resolve_paths_in_array, AllDirectoriesResolved, ResolveSrc,
      ResolveDst, Resolve, AllCopiesResolved, ReadSymlinks, SortDirectories, SortSymlinks,
      SortFileCopies, write_output_config, Goto, Reading
  <2> QED BY <1>3, <2>1
<1> QED BY <1>4, <1>5, <1>6

(* Once the executables are read, all that is asked for is. *)
LEMMA AllRead ==
    ASSUME TypeOK, AllExecutablesAdded
    PROVE  Above(ReadBefore) = AskedDirectories
<1>1. pass = "dependencies" /\ k > count /\ count = Len(executables) /\ count \in Nat /\ k \in 1 .. count + 1
      /\ executables \in Seq(Path)
  BY DEF AllExecutablesAdded, TypeOK
<1> DEFINE F(e) == {e} \cup ToSet(Dependencies(e))
           copied == {c.dst : c \in ToSet(config.file_copies)}
<1>2. ReadBefore = ToSet(config.directories) \cup (copied \cup UNION {F(executables[i]) : i \in 1 .. k - 1})
  BY <1>1 DEF ReadBefore
<1>3. Needs = UNION {F(e) : e \in ToSet(executables)}
  BY DEF Needs
<1> HIDE DEF F
<1>4. k - 1 = Len(executables) /\ ToSet(executables) = {executables[i] : i \in 1 .. Len(executables)}
  BY <1>1, SetOfSeq
<1>5. UNION {F(executables[i]) : i \in 1 .. k - 1} = Needs
  <2>1. {F(executables[i]) : i \in 1 .. k - 1} = {F(e) : e \in ToSet(executables)}
    BY <1>4
  <2> QED BY <1>3, <2>1
<1>6. Targets = copied \cup Needs
  <2>1. Targets = {c.dst : c \in ToSet(config.file_copies) \cup {[src |-> p, dst |-> p] : p \in Needs}}
    BY DEF Targets, Asked
  <2>2. \A p : [src |-> p, dst |-> p].dst = p
    OBVIOUS
  <2>3. Targets = copied \cup {[src |-> p, dst |-> p].dst : p \in Needs}
    BY <2>1
  <2> QED BY <2>2, <2>3
<1>7. ReadBefore = Targets \cup ToSet(config.directories)
  BY <1>2, <1>5, <1>6
<1> QED BY <1>7, AskedAbove

(* What does not move is not on the host once it is rewritten, if it was under *)
(* a link.                                                                    *)
LEMMA UnmovedStays ==
    ASSUME InputKept, NEW p \in Path, ~Moves(p), NEW old \in Path, Moves(old),
           NEW real, real = realpath(host, old)
    PROVE  ~Moves(Rewrite(p, old \o Slash, real \o Slash))
<1>1. real \in Path /\ realpath(host, real) = real
  BY MovedFacts DEF Moves
<1>2. CASE IsPrefix(old \o Slash, p)
  <2>1. old \in Lineage(p)
    BY <1>2, UnderFacts
  <2>2. p \notin host.dirs \cup host.files
    BY <2>1, NotUnderMoved
  <2>3. realpath(host, p) = Missing
    <3>1. realpath(host, p) \in {p, Missing}
      BY DEF Moves
    <3>2. realpath(host, p) \in host.dirs \cup host.files \cup {Missing}
      BY InputFacts, RealpathRange
    <3> QED BY <2>2, <3>1, <3>2
  <2>4. realpath(host, Rewrite(p, old \o Slash, real \o Slash)) = Missing
    <3>1. \A l \in DOMAIN host.links : host.links[l] \in Seq(Piece)
      BY InputFacts, HostFacts
    <3>2. realpath(host, real) = realpath(host, old)
      BY <1>1
    <3> QED BY <1>1, <1>2, <2>3, <3>1, <3>2, RewrittenRealpath
  <2> QED BY <2>4 DEF Moves
<1>3. CASE ~IsPrefix(old \o Slash, p)
  BY <1>3 DEF Rewrite
<1> QED BY <1>2, <1>3

(* The links behind a step that may add one. *)
LEMMA LinkKept ==
    ASSUME TypeOK, NEW sym \in Path, NEW dst \in Path, symlinks' = add_unique_symlink(symlinks, sym, dst)
    PROVE  /\ ToSet(symlinks) \subseteq ToSet(symlinks')
           /\ ToSet(symlinks') \subseteq ToSet(symlinks) \cup {[sym |-> sym, dst |-> dst]}
           /\ Len(symlinks') < MAX_SYMLINKS => [sym |-> sym, dst |-> dst] \in ToSet(symlinks')
<1> DEFINE l == [sym |-> sym, dst |-> dst]
           X == [sym : Path, dst : Path]
           links == Added(symlinks, l, MAX_SYMLINKS)
<1>1. l \in X /\ symlinks \in Seq(X) /\ MAX_SYMLINKS \in Nat
  BY Bounds DEF TypeOK
<1>2. symlinks' = links
  BY DEF add_unique_symlink
<1> HIDE DEF l, X
<1>3. Grown(links, symlinks, {l}, X, MAX_SYMLINKS)
  BY <1>1, AddedGrown
<1> HIDE DEF links
<1>4. ToSet(symlinks) \subseteq ToSet(links) /\ ToSet(links) \subseteq ToSet(symlinks) \cup {l}
  BY <1>1, <1>3, GrownKeeps
<1>5. Len(links) < MAX_SYMLINKS => l \in ToSet(links)
  BY <1>3 DEF Grown
<1> QED BY <1>2, <1>4, <1>5 DEF l

LEMMA LinksKept ==
    ASSUME TypeOK, NEW links \in Seq([sym : Path, dst : Path]),
           symlinks' = AddedAll(symlinks, links, MAX_SYMLINKS)
    PROVE  ToSet(symlinks) \subseteq ToSet(symlinks')
<1> DEFINE X == [sym : Path, dst : Path]
           t == AddedAll(symlinks, links, MAX_SYMLINKS)
<1>1. symlinks \in Seq(X) /\ MAX_SYMLINKS \in Nat
  BY Bounds DEF TypeOK
<1>2. symlinks' = t
  OBVIOUS
<1> HIDE DEF X
<1>3. Grown(t, symlinks, ToSet(links), X, MAX_SYMLINKS)
  BY <1>1, AddedAllGrown DEF X
<1> HIDE DEF t
<1> QED BY <1>1, <1>2, <1>3, GrownKeeps

(* The directories and links behind one round of the loop (configer.c:565-599). *)
RoundDone(old, real) ==
    /\ old \in Path /\ k \in 1 .. Len(directories) /\ k <= count
    /\ pass = "resolve_dirs" /\ pass' = "resolve_dirs" /\ k' = k + 1 /\ count' = count
    /\ UNCHANGED executables
    /\ \A j \in 1 .. Len(directories) :
          /\ directories'[j] = IF Moves(old) THEN RewrittenDirectory(j, old, real) ELSE directories[j]
          /\ directories'[j] \in ToSet(directories')
    /\ directories' \in Seq(Path)
    /\ \A j \in 1 .. Len(directories') : j \in 1 .. Len(directories) \/ directories'[j] \in host.dirs
    /\ ToSet(symlinks) \subseteq ToSet(symlinks')
    /\ \A l \in ToSet(symlinks') : l \in ToSet(symlinks) \/ (Moves(old) /\ l.sym = old)
    /\ (Moves(old) /\ Len(symlinks') < MAX_SYMLINKS) => [sym |-> old, dst |-> real] \in ToSet(symlinks')

LEMMA DirectoryRound ==
    ASSUME TypeOK, InputKept, DirectoriesResolved, resolve_paths_in_array,
           NEW old, old = directories[k], NEW real, real = realpath(host, old)
    PROVE  RoundDone(old, real)
<1> DEFINE N == Len(directories)
<1>1. /\ directories \in Seq(Path) /\ count \in Nat /\ k \in 1 .. count + 1 /\ k <= count
      /\ count <= N /\ N \in Nat
      /\ pass = "resolve_dirs" /\ pass' = "resolve_dirs" /\ k' = k + 1 /\ count' = count
      /\ UNCHANGED executables
  BY LenProperties DEF TypeOK, resolve_paths_in_array, Goto
<1>2. k \in 1 .. N
  BY <1>1
<1>3. old \in Path
  BY <1>1, <1>2, ElementOfSeq
<1>4. CASE ~Moves(old)
  <2>1. directories' = directories /\ symlinks' = symlinks
    BY <1>4 DEF resolve_paths_in_array, Moves
  <2>2. \A j \in 1 .. N : directories[j] \in ToSet(directories)
    BY <1>1, SetOfSeq
  <2>3. /\ \A j \in 1 .. N : /\ directories'[j] = directories[j]
                            /\ directories'[j] \in ToSet(directories')
        /\ directories' \in Seq(Path)
        /\ \A j \in 1 .. Len(directories') : j \in 1 .. N
        /\ ToSet(symlinks) \subseteq ToSet(symlinks')
        /\ \A l \in ToSet(symlinks') : l \in ToSet(symlinks)
    BY <1>1, <2>1, <2>2
  <2> QED BY <1>1, <1>2, <1>3, <1>4, <2>3 DEF RoundDone
<1>5. CASE Moves(old)
  <2>1. real \notin {Missing, old}
    BY <1>5 DEF Moves
  <2>2. PICK ds : Rewritten(ds, old, real) /\
                  Grown(directories', ds, Lineage(Listed(real)), Path, MAX_DIRECTORIES)
    BY <2>1, ResolveGrows
  <2>3. /\ Len(ds) = N /\ ds \in Seq(Path) /\ directories' \in Seq(Path)
        /\ \A i \in 1 .. N : directories'[i] = ds[i] /\ ds[i] = RewrittenDirectory(i, old, real)
        /\ \A i \in N + 1 .. Len(directories') : directories'[i] \in Lineage(Listed(real))
        /\ N <= Len(directories')
    BY <2>2 DEF Rewritten, Grown
  <2>4. real \in Path /\ Lineage(Listed(real)) \subseteq host.dirs
    BY <1>3, <2>1, MovedFacts
  <2>5. Len(directories') \in Nat /\ ToSet(directories') = {directories'[i] : i \in 1 .. Len(directories')}
    BY <2>3, LenProperties, SetOfSeq
  <2>6. \A j \in 1 .. N : directories'[j] \in ToSet(directories')
    BY <1>1, <2>3, <2>5
  <2>7. \A j \in 1 .. Len(directories') : j \in 1 .. N \/ directories'[j] \in host.dirs
    BY <1>1, <2>3, <2>4, <2>5
  <2>8. symlinks' = add_unique_symlink(symlinks, old, real)
    BY <2>1 DEF resolve_paths_in_array
  <2>9. /\ ToSet(symlinks) \subseteq ToSet(symlinks')
        /\ ToSet(symlinks') \subseteq ToSet(symlinks) \cup {[sym |-> old, dst |-> real]}
        /\ Len(symlinks') < MAX_SYMLINKS => [sym |-> old, dst |-> real] \in ToSet(symlinks')
    BY <1>3, <2>4, <2>8, LinkKept
  <2> HIDE DEF N
  <2>10. \A l \in ToSet(symlinks') : l \in ToSet(symlinks) \/ l.sym = old
    BY <2>9
  <2> QED BY <1>1, <1>2, <1>3, <1>5, <2>3, <2>6, <2>7, <2>9, <2>10 DEF N, RoundDone
<1> QED BY <1>4, <1>5

(* The directories and links behind a resolved path of a copy                 *)
(* (configer.c:605-668).                                                      *)
LEMMA CopyRound ==
    ASSUME TypeOK, InputKept, CopiesTraced, ResolveSrc \/ ResolveDst
    PROVE  /\ pass \in {"resolve_src", "resolve_dst"} /\ pass' \in {"resolve_src", "resolve_dst"}
           /\ UNCHANGED executables
           /\ ToSet(directories) \subseteq ToSet(directories') /\ ToSet(symlinks) \subseteq ToSet(symlinks')
           /\ NoSharedBeginning => \A l \in ToSet(symlinks') :
                 \/ l \in ToSet(symlinks)
                 \/ Moves(l.sym) /\ l.sym \in Sources \cup Targets
<1>1. PICK field \in {"src", "dst"} : \E next, i : Resolve(field, next, i)
  BY DEF ResolveSrc, ResolveDst
<1>2. /\ count = Len(file_copies) /\ UNCHANGED executables
      /\ pass \in {"resolve_src", "resolve_dst"} /\ pass' \in {"resolve_src", "resolve_dst"}
  BY DEF TypeOK, ResolveSrc, ResolveDst, Resolve, Goto
<1> DEFINE old == file_copies[k][field]
           real == realpath(host, old)
<1>3. CASE real \in {Missing, old}
  BY <1>1, <1>2, <1>3 DEF Resolve
<1>4. CASE real \notin {Missing, old}
  <2>1. old = file_copies[k][field] /\ real = realpath(host, old)
    OBVIOUS
  <2> HIDE DEF old, real
  <2>2. CopyResolved(field, old, real)
    BY <1>1, <1>2, <1>4, <2>1, ResolveFacts
  <2>3. /\ k \in 1 .. Len(file_copies) /\ old \in Path /\ real \in Path
        /\ Grown(directories', directories, Lineage(Listed(real)), Path, MAX_DIRECTORIES)
        /\ symlinks' = add_unique_symlink(symlinks, old, real)
    BY <2>2 DEF CopyResolved
  <2>4. ToSet(directories) \subseteq ToSet(directories')
    BY <2>3, GrownKeeps DEF TypeOK
  <2>5. /\ ToSet(symlinks) \subseteq ToSet(symlinks')
        /\ ToSet(symlinks') \subseteq ToSet(symlinks) \cup {[sym |-> old, dst |-> real]}
    BY <2>3, LinkKept
  <2>6. Moves(old)
    BY <1>4, <2>1 DEF Moves
  <2>7. ASSUME NoSharedBeginning PROVE old \in Sources \cup Targets
    <3>1. Traced(Srcs, Sources) /\ Traced(Dsts, Targets)
      BY <1>2, <2>7 DEF CopiesTraced
    <3>2. PICK v, S : Traced(v, S) /\ S \in {Sources, Targets} /\ k \in DOMAIN v /\ v[k] = old
      <4>1. DOMAIN Field(file_copies, field) = 1 .. Len(file_copies) /\ Field(file_copies, field)[k] = old
        BY <2>1, <2>3 DEF Field
      <4>2. CASE field = "src"
        BY <2>3, <3>1, <4>1, <4>2 DEF Srcs
      <4>3. CASE field = "dst"
        BY <2>3, <3>1, <4>1, <4>3 DEF Dsts
      <4> QED BY <4>2, <4>3
    <3>3. CASE \E t \in S : Moves(t) /\ v[k] = realpath(host, t)
      <4>1. PICK t \in S : Moves(t) /\ old = realpath(host, t)
        BY <3>2, <3>3
      <4>2. t \in Path
        BY <3>2, <4>1, AskedPaths
      <4>3. ~Moves(old)
        BY <4>1, <4>2, MovedFacts DEF Moves
      <4> QED BY <2>6, <4>3
    <3> QED BY <3>2, <3>3 DEF Traced
  <2>8. \A l \in ToSet(symlinks') : l \in ToSet(symlinks) \/ l.sym = old
    BY <2>5
  <2> QED BY <1>2, <2>4, <2>5, <2>6, <2>7, <2>8
<1> QED BY <1>3, <1>4

LEMMA AskedOrSettledStep ==
    ASSUME CopyInv, DirectoriesRead, AskedOrSettled, Next
    PROVE  AskedOrSettled'
<1>1. TypeOK /\ InputKept /\ DirectoriesResolved /\ IsHost(host) /\ directories \in Seq(Path)
  BY InputFacts DEF CopyInv, ListInv, TypeOK
<1>2. host' = host /\ \A p : Moves(p)' <=> Moves(p)
  BY <1>1, StepKeeps DEF Moves
<1>3. CASE AllExecutablesAdded
  <2>1. directories' = directories /\ pass = "dependencies" /\ UNCHANGED executables
    BY <1>3 DEF AllExecutablesAdded
  <2>2. ToSet(directories) \subseteq AskedDirectories /\ AskedDirectories' = AskedDirectories
    BY <1>1, <1>3, <2>1, AllRead, SameLinks DEF DirectoriesRead
  <2>3. \A i \in 1 .. Len(directories) : directories[i] \in ToSet(directories)
    BY <1>1, SetOfSeq
  <2> QED BY <2>1, <2>2, <2>3 DEF AskedOrSettled
<1>4. CASE resolve_paths_in_array
  <2> DEFINE old == directories[k]
             real == realpath(host, old)
  <2>1. old = directories[k] /\ real = realpath(host, old)
    OBVIOUS
  <2> HIDE DEF old, real
  <2>0. RoundDone(old, real)
    BY <1>1, <1>4, <2>1, DirectoryRound
  <2>2. /\ old \in Path /\ k \in 1 .. Len(directories) /\ k <= count /\ pass = "resolve_dirs"
        /\ UNCHANGED executables
        /\ \A j \in 1 .. Len(directories) :
              directories'[j] = IF Moves(old) THEN RewrittenDirectory(j, old, real) ELSE directories[j]
        /\ \A j \in 1 .. Len(directories') : j \in 1 .. Len(directories) \/ directories'[j] \in host.dirs
    BY <2>0 DEF RoundDone
  <2>3. AskedDirectories' = AskedDirectories /\ (PlainLinks' <=> PlainLinks)
    BY <1>1, <2>2, SameLinks
  <2>4. SUFFICES ASSUME PlainLinks, NEW j \in 1 .. Len(directories')
                 PROVE  directories'[j] \in AskedDirectories \/ ~Moves(directories'[j])
    BY <1>2, <2>3 DEF AskedOrSettled
  <2>5. CASE j \notin 1 .. Len(directories)
    BY <1>1, <2>2, <2>5, HostDirectoryStays
  <2>6. CASE j \in 1 .. Len(directories)
    <3> DEFINE p == directories[j]
    <3>1. p \in Path /\ (p \in AskedDirectories \/ ~Moves(p))
      BY <1>1, <2>2, <2>4, <2>6, ElementOfSeq DEF AskedOrSettled
    <3> HIDE DEF p
    <3>2. CASE directories'[j] = p
      BY <3>1, <3>2
    <3>3. CASE Moves(old) /\ directories'[j] = real
      <4>1. ~Moves(real)
        BY <1>1, <2>1, <2>2, <3>3, MovedFacts DEF Moves
      <4> QED BY <3>3, <4>1
    <3>4. CASE Moves(old) /\ directories'[j] = Rewrite(p, old \o Slash, real \o Slash)
      <4>1. CASE ~Moves(p)
        BY <1>1, <2>1, <2>2, <3>1, <3>4, <4>1, UnmovedStays
      <4>2. CASE Moves(p) /\ IsPrefix(old \o Slash, p)
        <5>1. p \in AskedDirectories /\ realpath(host, p) # Missing
          BY <3>1, <4>2 DEF Moves
        <5>2. old \in Lineage(p) /\ old # p
          BY <2>2, <3>1, <4>2, UnderFacts
        <5>3. \A w \in Lineage(p) : Place(w) \in DOMAIN host.links => Place(w) = w
          BY <1>1, <2>4, <5>1, AskedFacts DEF PlainLinks, WithParents
        <5>4. ~Moves(Rewrite(p, old \o Slash, real \o Slash))
          BY <1>1, <2>1, <3>1, <3>4, <5>1, <5>2, <5>3, RewrittenStays
        <5> QED BY <3>4, <5>4
      <4>3. CASE ~IsPrefix(old \o Slash, p)
        BY <3>1, <3>4, <4>3 DEF Rewrite
      <4> QED BY <4>1, <4>2, <4>3
    <3>5. \/ directories'[j] = p
          \/ Moves(old) /\ directories'[j] = real
          \/ Moves(old) /\ directories'[j] = Rewrite(p, old \o Slash, real \o Slash)
      BY <2>2, <2>6 DEF RewrittenDirectory, p
    <3> QED BY <3>2, <3>3, <3>4, <3>5
  <2> QED BY <2>5, <2>6
<1>5. CASE ~(AllExecutablesAdded \/ resolve_paths_in_array)
  <2>1. pass' # "resolve_dirs"
    BY <1>5 DEF Next, ReadSettings, ReadDirectories, ReadExecutables, ReadFileCopies, AddExecutable,
      AllDirectoriesResolved, ResolveSrc, ResolveDst, Resolve, AllCopiesResolved, ReadSymlinks,
      SortDirectories, SortSymlinks, SortFileCopies, write_output_config, Goto
  <2> QED BY <2>1 DEF AskedOrSettled
<1> QED BY <1>3, <1>4, <1>5

(* Steps behind the loops over directories and copies. *)
LateStep ==
    \/ AllDirectoriesResolved \/ AllCopiesResolved \/ ReadSymlinks \/ SortDirectories \/ SortSymlinks
    \/ SortFileCopies \/ write_output_config

LEMMA LateStepKeeps ==
    ASSUME TypeOK, InputKept, LateStep
    PROVE  UNCHANGED executables /\ ToSet(directories') = ToSet(directories)
<1>1. UNCHANGED executables
  BY DEF LateStep, AllDirectoriesResolved, AllCopiesResolved, ReadSymlinks, SortDirectories, SortSymlinks,
    SortFileCopies, write_output_config
<1>2. CASE SortDirectories
  <2>1. directories \in Seq(Path)
    BY DEF TypeOK
  <2> DEFINE t == InOrder(ToSet(directories), Before)
  <2>2. t = InOrder(ToSet(directories), Before) /\ directories' = t
    BY <1>2 DEF SortDirectories
  <2> HIDE DEF t
  <2>3. ToSet(t) = ToSet(directories)
    BY <2>1, <2>2, DirectoriesSortedOnce
  <2> QED BY <1>1, <2>2, <2>3
<1>3. CASE ~SortDirectories
  BY <1>1, <1>3 DEF LateStep, AllDirectoriesResolved, AllCopiesResolved, ReadSymlinks, SortSymlinks,
    SortFileCopies, write_output_config
<1> QED BY <1>2, <1>3

LEMMA EarlyStep ==
    ASSUME ReadSettings \/ ReadDirectories \/ ReadExecutables \/ ReadFileCopies \/ AddExecutable
    PROVE  pass' \notin {"resolve_dirs"} \cup AfterDirs /\ pass' \notin Resolving
<1> QED BY DEF ReadSettings, ReadDirectories, ReadExecutables, ReadFileCopies, AddExecutable, Goto,
      AfterDirs, Resolving

LEMMA AskedListedStep ==
    ASSUME CopyInv, DirectoriesRead, AskedListed, Next
    PROVE  AskedListed'
<1>1. /\ TypeOK /\ InputKept /\ DirectoriesResolved /\ CopiesTraced /\ IsHost(host)
      /\ directories \in Seq(Path)
  BY InputFacts DEF CopyInv, ListInv, TypeOK
<1>2. host' = host /\ (~full' => ~full)
  BY <1>1, StepKeeps
<1>3. ASSUME UNCHANGED executables, ~full',
             ~full => \A y \in AskedDirectories : Exists(host, y) =>
                \E d \in ToSet(directories') : realpath(host, d) = realpath(host, y)
      PROVE  AskedListed'
  <2>1. AskedDirectories' = AskedDirectories
    BY <1>1, <1>3, SameLinks
  <2> QED BY <1>2, <1>3, <2>1 DEF AskedListed, Exists
<1>4. CASE full'
  BY <1>4 DEF AskedListed
<1>5. CASE AllExecutablesAdded /\ ~full'
  <2>1. directories' = directories /\ pass = "dependencies" /\ UNCHANGED executables /\ ~full
    BY <1>2, <1>5 DEF AllExecutablesAdded
  <2>2. AskedDirectories \subseteq ToSet(directories)
    BY <1>1, <1>5, <2>1, AllRead DEF DirectoriesRead
  <2> QED BY <1>3, <1>5, <2>1, <2>2
<1>6. CASE resolve_paths_in_array /\ ~full'
  <2> DEFINE old == directories[k]
             real == realpath(host, old)
  <2>1. old = directories[k] /\ real = realpath(host, old)
    OBVIOUS
  <2> HIDE DEF old, real
  <2>0. RoundDone(old, real)
    BY <1>1, <1>6, <2>1, DirectoryRound
  <2>2. /\ old \in Path /\ pass = "resolve_dirs" /\ UNCHANGED executables
        /\ \A j \in 1 .. Len(directories) :
              /\ directories'[j] = IF Moves(old) THEN RewrittenDirectory(j, old, real) ELSE directories[j]
              /\ directories'[j] \in ToSet(directories')
    BY <2>0 DEF RoundDone
  <2>3. ASSUME NEW y \in AskedDirectories, Exists(host, y)
        PROVE  \E d \in ToSet(directories') : realpath(host, d) = realpath(host, y)
    <3>1. PICK d \in ToSet(directories) : realpath(host, d) = realpath(host, y)
      BY <1>2, <1>6, <2>2, <2>3 DEF AskedListed
    <3>2. PICK j \in 1 .. Len(directories) : d = directories[j]
      BY <1>1, SetOfSeq
    <3>3. d \in Path
      BY <1>1, <3>2, ElementOfSeq
    <3> DEFINE e == directories'[j]
    <3>4. e \in ToSet(directories')
      BY <2>2, <3>2
    <3>5. \/ e = d
          \/ Moves(old) /\ j = k /\ e = real
          \/ Moves(old) /\ e = Rewrite(d, old \o Slash, real \o Slash)
      BY <2>2, <3>2 DEF RewrittenDirectory
    <3> HIDE DEF e
    <3>6. Moves(old) => real \in Path /\ realpath(host, real) = real
      BY <1>1, <2>1, <2>2, MovedFacts DEF Moves
    <3>7. realpath(host, e) = realpath(host, d)
      <4>1. CASE e = d
        BY <4>1
      <4>2. CASE Moves(old) /\ j = k /\ e = real
        BY <2>1, <3>2, <3>6, <4>2
      <4>3. CASE Moves(old) /\ e = Rewrite(d, old \o Slash, real \o Slash)
        <5>1. CASE IsPrefix(old \o Slash, d)
          <6>1. \A l \in DOMAIN host.links : host.links[l] \in Seq(Piece)
            BY <1>1, HostFacts
          <6>2. real \in Path /\ realpath(host, real) = realpath(host, old)
            BY <2>1, <3>6, <4>3
          <6> QED BY <2>2, <3>3, <4>3, <5>1, <6>1, <6>2, RewrittenRealpath
        <5>2. CASE ~IsPrefix(old \o Slash, d)
          BY <4>3, <5>2 DEF Rewrite
        <5> QED BY <5>1, <5>2
      <4> QED BY <3>5, <4>1, <4>2, <4>3
    <3> QED BY <3>1, <3>4, <3>7
  <2> QED BY <1>3, <1>6, <2>2, <2>3
<1>7. CASE (ResolveSrc \/ ResolveDst) /\ ~full'
  <2>1. /\ pass \in AfterDirs /\ UNCHANGED executables /\ ToSet(directories) \subseteq ToSet(directories')
    BY <1>1, <1>7, CopyRound DEF AfterDirs
  <2> QED BY <1>3, <1>7, <2>1 DEF AskedListed
<1>8. CASE LateStep /\ ~full'
  <2>1. UNCHANGED executables /\ ToSet(directories') = ToSet(directories)
    BY <1>1, <1>8, LateStepKeeps
  <2>2. pass \in {"resolve_dirs"} \cup AfterDirs
    BY <1>8 DEF LateStep, AllDirectoriesResolved, AllCopiesResolved, ReadSymlinks, SortDirectories,
      SortSymlinks, SortFileCopies, write_output_config, AfterDirs
  <2> QED BY <1>3, <1>8, <2>1, <2>2 DEF AskedListed
<1>9. CASE ReadSettings \/ ReadDirectories \/ ReadExecutables \/ ReadFileCopies \/ AddExecutable
  BY <1>9, EarlyStep DEF AskedListed
<1> QED BY <1>4, <1>5, <1>6, <1>7, <1>8, <1>9 DEF Next, LateStep

LEMMA LinksListedStep ==
    ASSUME CopyInv, DirectoriesRead, LinksListed, Next
    PROVE  LinksListed'
<1>1. /\ TypeOK /\ InputKept /\ DirectoriesResolved /\ CopiesTraced /\ IsHost(host)
      /\ directories \in Seq(Path)
  BY InputFacts DEF CopyInv, ListInv, TypeOK
<1>2. host' = host
  BY <1>1, StepKeeps
<1> DEFINE Link(q) == [sym |-> q, dst |-> host.links[q]]
<1>3. ASSUME UNCHANGED executables,
             \A q \in AskedDirectories \cap DOMAIN host.links :
                \/ Link(q) \in ToSet(symlinks')
                \/ pass' = "resolve_dirs" /\ \E j \in k' .. count' : directories'[j] = q
      PROVE  LinksListed'
  <2>1. AskedDirectories' = AskedDirectories
    BY <1>1, <1>3, SameLinks
  <2> QED BY <1>2, <1>3, <2>1 DEF LinksListed
<1>4. CASE full' \/ pass' \notin Resolving
  BY <1>4 DEF LinksListed
<1>5. ASSUME ~full' PROVE ~full /\ Len(symlinks') < MAX_SYMLINKS
  BY <1>1, <1>5, RoomLeft
<1>6. CASE AllExecutablesAdded /\ ~full'
  <2>1. /\ directories' = directories /\ UNCHANGED executables /\ pass = "dependencies"
        /\ pass' = "resolve_dirs" /\ k' = 1 /\ count' = Len(directories)
    BY <1>6 DEF AllExecutablesAdded, Goto
  <2>2. AskedDirectories \subseteq ToSet(directories)
    BY <1>1, <1>5, <1>6, <2>1, AllRead DEF DirectoriesRead
  <2>3. ASSUME NEW q \in AskedDirectories PROVE \E j \in k' .. count' : directories'[j] = q
    BY <1>1, <2>1, <2>2, <2>3, SetOfSeq
  <2> HIDE DEF Link
  <2> QED BY <1>3, <2>1, <2>3
<1>7. CASE resolve_paths_in_array /\ ~full'
  <2> DEFINE old == directories[k]
             real == realpath(host, old)
  <2>1. old = directories[k] /\ real = realpath(host, old)
    OBVIOUS
  <2> HIDE DEF old, real
  <2>2. RoundDone(old, real)
    BY <1>1, <1>7, <2>1, DirectoryRound
  <2>3. /\ old \in Path /\ k \in 1 .. Len(directories) /\ k <= count
        /\ pass = "resolve_dirs" /\ pass' = "resolve_dirs" /\ k' = k + 1 /\ count' = count
        /\ UNCHANGED executables
    BY <2>2 DEF RoundDone
  <2>4. ToSet(symlinks) \subseteq ToSet(symlinks')
    BY <2>2 DEF RoundDone
  <2>5. Moves(old) => [sym |-> old, dst |-> real] \in ToSet(symlinks')
    BY <1>5, <1>7, <2>2 DEF RoundDone
  <2>6. \A j \in 1 .. Len(directories) :
           directories'[j] = IF Moves(old) THEN RewrittenDirectory(j, old, real) ELSE directories[j]
    BY <2>2 DEF RoundDone
  <2>7. k \in Nat /\ count \in Nat /\ count <= Len(directories) /\ Len(directories) \in Nat
    BY <1>1, <2>3, LenProperties DEF TypeOK
  <2>8. ASSUME NEW q \in AskedDirectories \cap DOMAIN host.links
        PROVE  \/ Link(q) \in ToSet(symlinks')
               \/ \E j \in k' .. count' : directories'[j] = q
    <3>1. /\ q \in Path /\ realpath(host, q) = host.links[q] /\ host.links[q] \in host.dirs \cup host.files
          /\ host.links[q] # q /\ Lineage(q) \ {q} \subseteq host.dirs
      BY <1>1, LinkLeads
    <3>2. Missing \notin host.dirs \cup host.files
      BY <1>1, HostFacts
    <3>3. Moves(q)
      BY <3>1, <3>2 DEF Moves
    <3>4. CASE Link(q) \in ToSet(symlinks)
      BY <2>4, <3>4
    <3>5. CASE \E j \in k .. count : directories[j] = q
      <4>1. PICK j \in k .. count : directories[j] = q
        BY <3>5
      <4>2. CASE j = k
        <5>1. old = q
          BY <2>1, <4>1, <4>2
        <5> QED BY <2>1, <2>5, <3>1, <3>3, <5>1
      <4>3. CASE j # k
        <5>1. j \in k' .. count' /\ j \in 1 .. Len(directories)
          BY <2>3, <2>7, <4>1, <4>3
        <5>2. CASE ~Moves(old)
          BY <2>6, <4>1, <5>1, <5>2
        <5>3. CASE Moves(old)
          <6>1. ~IsPrefix(old \o Slash, q)
            <7>1. SUFFICES ASSUME IsPrefix(old \o Slash, q) PROVE FALSE
              OBVIOUS
            <7>2. old # q /\ old \in Lineage(q)
              BY <2>3, <3>1, <7>1, UnderFacts
            <7>3. old \in host.dirs
              BY <3>1, <7>2
            <7> QED BY <1>1, <5>3, <7>3, HostDirectoryStays
          <6>2. RewrittenDirectory(j, old, real) = q
            BY <4>1, <4>3, <6>1 DEF RewrittenDirectory, Rewrite
          <6> QED BY <2>6, <5>1, <5>3, <6>2
        <5> QED BY <5>2, <5>3
      <4> QED BY <4>2, <4>3
    <3>6. pass \in Resolving /\ ~full
      BY <1>5, <1>7, <2>3 DEF Resolving
    <3> QED BY <3>4, <3>5, <3>6 DEF LinksListed
  <2> HIDE DEF Link
  <2> QED BY <1>3, <2>3, <2>8
<1>8. ASSUME ~full', pass \in Resolving, UNCHANGED executables, pass = "resolve_dirs" => k > count,
             ToSet(symlinks) \subseteq ToSet(symlinks')
      PROVE  LinksListed'
  <2>1. ASSUME NEW q \in AskedDirectories \cap DOMAIN host.links PROVE Link(q) \in ToSet(symlinks')
    <3>1. \/ Link(q) \in ToSet(symlinks)
          \/ pass = "resolve_dirs" /\ \E j \in k .. count : directories[j] = q
      BY <1>5, <1>8 DEF LinksListed
    <3>2. pass = "resolve_dirs" => k .. count = {}
      BY <1>1, <1>8 DEF TypeOK
    <3> QED BY <1>8, <3>1, <3>2
  <2> HIDE DEF Link
  <2> QED BY <1>3, <1>8, <2>1
<1>9. CASE AllDirectoriesResolved /\ ~full'
  BY <1>8, <1>9 DEF AllDirectoriesResolved, Resolving
<1>10. CASE (ResolveSrc \/ ResolveDst) /\ ~full'
  <2>1. /\ pass \in Resolving /\ pass # "resolve_dirs" /\ UNCHANGED executables
        /\ ToSet(symlinks) \subseteq ToSet(symlinks')
    BY <1>1, <1>10, CopyRound DEF Resolving
  <2> QED BY <1>8, <1>10, <2>1
<1>11. CASE ReadSymlinks /\ ~full'
  <2>1. /\ pass = "symlinks" /\ UNCHANGED executables
        /\ symlinks' = AddedAll(symlinks, config.symlinks, MAX_SYMLINKS)
    BY <1>11 DEF ReadSymlinks
  <2>2. ToSet(symlinks) \subseteq ToSet(symlinks')
    BY <1>1, <2>1, InputFacts, LinksKept DEF IsConfig
  <2> QED BY <1>8, <1>11, <2>1, <2>2 DEF Resolving
<1>12. CASE (AllCopiesResolved \/ SortDirectories) /\ ~full'
  BY <1>8, <1>12 DEF AllCopiesResolved, SortDirectories, Resolving
<1>13. CASE SortSymlinks \/ SortFileCopies \/ write_output_config
  <2>1. pass' \notin Resolving
    BY <1>13 DEF SortSymlinks, SortFileCopies, write_output_config, Goto, Resolving
  <2> QED BY <1>4, <2>1
<1>14. CASE ReadSettings \/ ReadDirectories \/ ReadExecutables \/ ReadFileCopies \/ AddExecutable
  BY <1>4, <1>14, EarlyStep
<1> QED BY <1>4, <1>6, <1>7, <1>9, <1>10, <1>11, <1>12, <1>13, <1>14 DEF Next

LEMMA LinksSpelledStep ==
    ASSUME CopyInv, DirectoriesRead, AskedOrSettled, LinksSpelled, Next
    PROVE  LinksSpelled'
<1>1. /\ TypeOK /\ InputKept /\ DirectoriesResolved /\ CopiesTraced /\ IsHost(host)
      /\ directories \in Seq(Path)
  BY InputFacts DEF CopyInv, ListInv, TypeOK
<1> DEFINE Premises == NoSharedBeginning /\ PlainLinks /\ LinksStay /\ LinksPlaced
           Good(l) == l.sym \in Spelled /\ Parent(l.sym) \in {Slash} \cup AskedDirectories
<1>2. config' = config
  BY <1>1, StepKeeps
<1>3. ASSUME UNCHANGED executables, Premises => \A l \in ToSet(symlinks') : Good(l)
      PROVE  LinksSpelled'
  <2>1. /\ AskedDirectories' = AskedDirectories /\ Spelled' = Spelled
        /\ (NoSharedBeginning' <=> NoSharedBeginning) /\ (PlainLinks' <=> PlainLinks)
        /\ (LinksStay' <=> LinksStay) /\ (LinksPlaced' <=> LinksPlaced)
    BY <1>1, <1>3, SameLinks
  <2> QED BY <1>3, <2>1 DEF LinksSpelled
<1>4. ASSUME Premises, pass \in Resolving PROVE \A l \in ToSet(symlinks) : Good(l)
  BY <1>4 DEF LinksSpelled
<1>5. CASE pass' \notin Resolving
  BY <1>5 DEF LinksSpelled
<1>6. AskedDirectories \subseteq Spelled /\ Sources \cup Targets \subseteq Spelled
  BY DEF Spelled
<1>7. /\ \A p \in Targets : Parent(p) \in {Slash} \cup AskedDirectories
      /\ \A p \in AskedDirectories : Parent(p) \in {Slash} \cup AskedDirectories
  BY <1>1, AskedFacts
<1> HIDE DEF Premises, Good
<1>8. CASE AllExecutablesAdded
  <2>1. /\ symlinks' = symlinks /\ UNCHANGED executables /\ pass = "dependencies"
    BY <1>8 DEF AllExecutablesAdded
  <2>2. symlinks = <<>>
    BY <2>1 DEF DirectoriesRead
  <2>3. ToSet(<<>>) = {}
    BY NoElements
  <2>4. \A l \in ToSet(symlinks') : Good(l)
    BY <2>1, <2>2, <2>3
  <2> QED BY <1>3, <2>1, <2>4
<1>9. CASE resolve_paths_in_array
  <2> DEFINE old == directories[k]
             real == realpath(host, old)
  <2>1. old = directories[k] /\ real = realpath(host, old)
    OBVIOUS
  <2> HIDE DEF old, real
  <2>2. RoundDone(old, real)
    BY <1>1, <1>9, <2>1, DirectoryRound
  <2>3. /\ k \in 1 .. Len(directories) /\ pass = "resolve_dirs" /\ UNCHANGED executables
        /\ \A l \in ToSet(symlinks') : l \in ToSet(symlinks) \/ (Moves(old) /\ l.sym = old)
    BY <2>2 DEF RoundDone
  <2>4. ASSUME Premises, Moves(old), NEW l, l.sym = old PROVE Good(l)
    <3>1. old \in AskedDirectories
      BY <2>1, <2>3, <2>4 DEF AskedOrSettled, Premises
    <3> QED BY <1>6, <1>7, <2>4, <3>1 DEF Good
  <2> QED BY <1>3, <1>4, <2>3, <2>4 DEF Resolving
<1>10. CASE ResolveSrc \/ ResolveDst
  <2>1. /\ pass \in {"resolve_src", "resolve_dst"} /\ UNCHANGED executables
        /\ NoSharedBeginning => \A l \in ToSet(symlinks') :
              \/ l \in ToSet(symlinks)
              \/ Moves(l.sym) /\ l.sym \in Sources \cup Targets
    BY <1>1, <1>10, CopyRound
  <2>2. ASSUME Premises, NEW l, Moves(l.sym), l.sym \in Sources \cup Targets PROVE Good(l)
    <3>1. l.sym \in Targets
      BY <2>2 DEF Premises, LinksStay, Sources, Targets
    <3> QED BY <1>6, <1>7, <3>1 DEF Good
  <2>3. pass \in Resolving
    BY <2>1 DEF Resolving
  <2>4. ASSUME Premises, NEW l \in ToSet(symlinks') PROVE Good(l)
    <3>1. l \in ToSet(symlinks) \/ (Moves(l.sym) /\ l.sym \in Sources \cup Targets)
      BY <2>1, <2>4 DEF Premises
    <3> QED BY <1>4, <2>2, <2>3, <2>4, <3>1
  <2> QED BY <1>3, <2>1, <2>4
<1>11. CASE ReadSymlinks
  <2>1. /\ pass = "symlinks" /\ UNCHANGED executables
        /\ symlinks' = AddedAll(symlinks, config.symlinks, MAX_SYMLINKS)
    BY <1>11 DEF ReadSymlinks
  <2>2. config.symlinks \in Seq([sym : Path, dst : Path])
    BY <1>1, InputFacts DEF IsConfig
  <2>3. ToSet(symlinks') \subseteq ToSet(symlinks) \cup ToSet(config.symlinks)
    BY <1>1, <2>1, <2>2, LinksAdded
  <2>4. ASSUME Premises, NEW l \in ToSet(config.symlinks) PROVE Good(l)
    BY <2>4 DEF Premises, LinksPlaced, Good, Spelled
  <2>5. pass \in Resolving
    BY <2>1 DEF Resolving
  <2> QED BY <1>3, <1>4, <2>1, <2>3, <2>4, <2>5
<1>12. CASE AllDirectoriesResolved \/ AllCopiesResolved \/ SortDirectories
  <2>1. symlinks' = symlinks /\ UNCHANGED executables /\ pass \in Resolving
    BY <1>12 DEF AllDirectoriesResolved, AllCopiesResolved, SortDirectories, Resolving
  <2> QED BY <1>3, <1>4, <2>1
<1>13. CASE SortSymlinks \/ SortFileCopies \/ write_output_config
  <2>1. pass' \notin Resolving
    BY <1>13 DEF SortSymlinks, SortFileCopies, write_output_config, Goto, Resolving
  <2> QED BY <1>5, <2>1
<1>14. CASE ReadSettings \/ ReadDirectories \/ ReadExecutables \/ ReadFileCopies \/ AddExecutable
  BY <1>5, <1>14, EarlyStep
<1> QED BY <1>8, <1>9, <1>10, <1>11, <1>12, <1>13, <1>14 DEF Next

(* A link applied to the path of another leaves it as it was spelled or moves *)
(* it to its place, and there it stays (configer.c:351-420).                  *)
LEMMA LinkApplied ==
    ASSUME TypeOK, InputKept, PlainLinks,
           NEW s \in Path, realpath(host, s) # Missing, Parent(s) \in {Slash} \cup AskedDirectories,
           NEW l \in HostLinks(host), NEW p \in {s, Place(s)},
           NEW q, q = Rewrite(p, l.sym \o Slash, l.dst \o Slash)
    PROVE  /\ q \in {s, Place(s)}
           /\ p = Place(s) => q = Place(s)
           /\ Moves(l.sym) /\ l.sym \in Lineage(Parent(s)) => q = Place(s)
<1> DEFINE old == l.sym
           real == l.dst
           up == Parent(s)
<1>1. /\ old \in Path /\ real \in Path /\ real = realpath(host, old) /\ real # Missing
      /\ q = Rewrite(p, old \o Slash, real \o Slash) /\ up = Parent(s)
      /\ IsHost(host)
  BY InputFacts, PathStrings DEF HostLinks
<1> HIDE DEF old, real
<1>2. Slash \notin Path /\ Place(s) \in Path
  BY <1>1, PlaceFacts, PathFacts DEF Slash
<1>3. CASE p = Place(s)
  <2>1. CASE IsPrefix(old \o Slash, p)
    <3>1. old # p /\ old \in Lineage(p)
      BY <1>1, <1>2, <1>3, <2>1, UnderFacts
    <3>2. realpath(host, old) = old
      BY <1>1, <1>3, <3>1, PlaceUnderNoLink
    <3>3. q = p
      BY <1>1, <1>2, <1>3, <3>2, RewrittenToItself
    <3> QED BY <1>3, <3>3
  <2>2. CASE ~IsPrefix(old \o Slash, p)
    BY <1>1, <1>3, <2>2 DEF Rewrite
  <2> QED BY <2>1, <2>2
<1>4. CASE p = s /\ s # Place(s)
  <2>1. PlaceIn(s, up, realpath(host, up))
    BY <1>1, <1>4, PlaceFacts
  <2>2. up \in Path /\ up \in AskedDirectories /\ Lineage(s) = {s} \cup Lineage(up) /\ Len(up) < Len(s)
        /\ up \in Lineage(s)
    BY <1>2, <2>1, ParentFacts DEF PlaceIn
  <2>3. realpath(host, up) # Missing
    BY <1>1, <2>2, ExistsAbove
  <2>4. old \in Lineage(up) => IsPrefix(old \o Slash, s)
    <3>1. SUFFICES ASSUME old \in Lineage(up) PROVE IsPrefix(old \o Slash, s)
      OBVIOUS
    <3>2. old = up \/ Len(old) < Len(up)
      BY <2>2, <3>1, LineageLengths
    <3>3. old # s
      BY <1>1, <2>2, <3>2, PathFacts
    <3> QED BY <1>1, <2>2, <3>1, <3>3, UnderFacts
  <2>5. CASE ~IsPrefix(old \o Slash, s)
    BY <1>1, <1>4, <2>4, <2>5 DEF Rewrite, old
  <2>6. CASE IsPrefix(old \o Slash, s) /\ ~Moves(old)
    <3>1. real = old
      BY <1>1, <2>6 DEF Moves
    <3>2. q = s
      BY <1>1, <1>4, <3>1, RewrittenToItself
    <3> QED BY <1>4, <2>6, <3>2 DEF old
  <2>7. CASE IsPrefix(old \o Slash, s) /\ Moves(old)
    <3>1. old \in Lineage(up)
      <4>1. old # s /\ old \in Lineage(s)
        BY <1>1, <2>7, UnderFacts
      <4> QED BY <2>2, <4>1
    <3>2. up = old \/ ~Moves(Rewrite(up, old \o Slash, real \o Slash))
      <4>1. SUFFICES ASSUME up # old PROVE ~Moves(Rewrite(up, old \o Slash, real \o Slash))
        OBVIOUS
      <4>2. \A w \in Lineage(up) : Place(w) \in DOMAIN host.links => Place(w) = w
        BY <2>2, AskedFacts DEF PlainLinks, WithParents
      <4> HIDE DEF up
      <4> QED BY <1>1, <2>2, <2>3, <2>7, <3>1, <4>1, <4>2, RewrittenStays
    <3>3. Rewrite(s, old \o Slash, real \o Slash) = Place(s)
      BY <1>1, <2>2, <3>1, <3>2, RewrittenToPlace
    <3> QED BY <1>1, <1>4, <3>3
  <2> QED BY <2>5, <2>6, <2>7
<1> QED BY <1>3, <1>4

(* When each link is applied to those behind it, in the order of their paths, *)
(* each one in a directory that was asked for comes to its place, for the     *)
(* links above it are before it (configer.c:351-420).                         *)
LEMMA FixedInPlace ==
    ASSUME TypeOK, InputKept, PlainLinks,
           NEW links \in Seq(HostLinks(host)),
           \A i, j \in 1 .. Len(links) : i < j => Before(links[i].sym, links[j].sym),
           \A z \in AskedDirectories \cap DOMAIN host.links :
              \E i \in 1 .. Len(links) : links[i].sym = z,
           NEW f, FixRounds(f, links, HostLinks(host))
    PROVE  \A j \in 1 .. Len(links) :
              /\ f[Len(links)][j] \in HostLinks(host)
              /\ Parent(links[j].sym) \in {Slash} \cup AskedDirectories =>
                    f[Len(links)][j].sym = Place(links[j].sym)
<1> DEFINE N == Len(links)
           G == HostLinks(host)
           s(j) == links[j].sym
           Above1(i, j) == i < j /\ s(i) \in DOMAIN host.links /\ s(i) \in Lineage(Parent(s(j)))
           K(n, j) == /\ f[n][j].sym \in {s(j), Place(s(j))}
                      /\ (\E i \in 1 .. n : Above1(i, j)) => f[n][j].sym = Place(s(j))
           Asks(j) == Parent(s(j)) \in {Slash} \cup AskedDirectories
           D == {n \in 0 .. N : \A j \in 1 .. N : Asks(j) => K(n, j)}
<1>1. /\ N \in Nat /\ IsHost(host)
      /\ f \in [0 .. N -> [1 .. N -> G]]
      /\ \A j \in 1 .. N : f[0][j] = links[j]
      /\ \A n, j \in 1 .. N : f[n][j] = IF j <= n THEN f[n - 1][j] ELSE Relinked(f[n - 1][n], f[n - 1][j])
  BY LenProperties, InputFacts DEF FixRounds
<1>2. \A j \in 1 .. N : links[j] \in G
  BY ElementOfSeq
<1>3. \A j \in 1 .. N : s(j) \in Path /\ realpath(host, s(j)) # Missing
  BY <1>1, <1>2, HostFacts DEF HostLinks
<1>4. ASSUME NEW j \in 1 .. N, Asks(j), NEW i \in 1 .. N, Above1(i, j) PROVE Asks(i)
  <2> DEFINE up == Parent(s(j))
  <2>1. up \in {Slash} \cup AskedDirectories /\ s(i) \in Lineage(up)
    BY <1>4
  <2> HIDE DEF up, s
  <2>2. Lineage(up) \subseteq AskedDirectories
    BY <2>1, SlashParent, AskedFacts DEF WithParents
  <2> QED BY <2>1, <2>2, AskedFacts
<1>5. ASSUME NEW z \in DOMAIN host.links PROVE z \in Path /\ Moves(z) /\ Place(z) = z
  <2>1. z \in Path /\ realpath(host, z) # z /\ realpath(host, z) # Missing
    BY <1>1, LinkLeads, HostFacts
  <2> QED BY <1>1, <2>1, LinkInPlace DEF Moves
<1>6. 0 \in D
  <2>1. ASSUME NEW j \in 1 .. N PROVE K(0, j)
    <3>1. f[0][j].sym = s(j)
      BY <1>1
    <3>2. 1 .. 0 = {}
      OBVIOUS
    <3> QED BY <3>1, <3>2
  <2> HIDE DEF K
  <2> QED BY <1>1, <2>1
<1>7. ASSUME NEW n \in 1 .. N, n - 1 \in D PROVE n \in D
  <2>1. n - 1 \in 0 .. N /\ n \in 0 .. N
    BY <1>1
  <2> SUFFICES ASSUME NEW j \in 1 .. N, Asks(j) PROVE K(n, j)
    BY <2>1
  <2>2. /\ f[n - 1][j].sym \in {s(j), Place(s(j))}
        /\ (\E i \in 1 .. n - 1 : Above1(i, j)) => f[n - 1][j].sym = Place(s(j))
        /\ Asks(n) => f[n - 1][n].sym \in {s(n), Place(s(n))}
        /\ Parent(s(j)) \in {Slash} \cup AskedDirectories
    BY <1>7
  <2>3. \A i \in 1 .. n : i \in 1 .. n - 1 \/ i = n
    BY <2>1
  <2>4. CASE j <= n
    <3>1. f[n][j] = f[n - 1][j]
      BY <1>1, <2>4
    <3>2. ASSUME NEW i \in 1 .. n, Above1(i, j) PROVE i \in 1 .. n - 1
      BY <1>1, <2>4, <3>2
    <3> HIDE DEF Above1, s
    <3> QED BY <2>2, <3>1, <3>2
  <2>5. CASE ~(j <= n)
    <3> DEFINE l == f[n - 1][n]
               m == f[n - 1][j]
               p == m.sym
               q == Rewrite(p, l.sym \o Slash, l.dst \o Slash)
               t == s(j)
    <3>1. f[n][j].sym = q
      <4>1. f[n][j] = Relinked(l, m)
        BY <1>1, <2>5
      <4> HIDE DEF l, m
      <4> QED BY <4>1 DEF Relinked
    <3>2. /\ l \in G /\ p \in {t, Place(t)} /\ q = Rewrite(p, l.sym \o Slash, l.dst \o Slash)
          /\ t \in Path /\ realpath(host, t) # Missing /\ Parent(t) \in {Slash} \cup AskedDirectories
          /\ Asks(n) => l.sym \in {s(n), Place(s(n))}
          /\ (\E i \in 1 .. n - 1 : Above1(i, j)) => p = Place(t)
          /\ t = s(j)
      BY <1>1, <1>3, <2>1, <2>2
    <3> HIDE DEF l, p, q, t, G, s, Asks
    <3>3. /\ q \in {t, Place(t)}
          /\ p = Place(t) => q = Place(t)
          /\ Moves(l.sym) /\ l.sym \in Lineage(Parent(t)) => q = Place(t)
      BY <3>2, LinkApplied DEF G
    <3>4. ASSUME NEW i \in 1 .. n, Above1(i, j) PROVE q = Place(t)
      <4>1. CASE i = n
        <5>1. s(n) \in DOMAIN host.links /\ s(n) \in Lineage(Parent(t))
          BY <3>2, <3>4, <4>1
        <5>2. l.sym = s(n) /\ Moves(l.sym)
          <6>1. Asks(n)
            BY <1>4, <3>4, <4>1
          <6> QED BY <1>5, <3>2, <5>1, <6>1
        <5> QED BY <3>3, <5>1, <5>2
      <4>2. CASE i # n
        BY <2>3, <3>2, <3>3, <3>4, <4>2
      <4> QED BY <4>1, <4>2
    <3> HIDE DEF Above1
    <3> QED BY <3>1, <3>2, <3>3, <3>4
  <2> QED BY <2>4, <2>5
<1> HIDE DEF D
<1>8. 0 .. N \subseteq D
  BY <1>1, <1>6, <1>7, UpTo
<1>9. \A j \in 1 .. N : Asks(j) => K(N, j)
  BY <1>1, <1>8 DEF D
<1>10. \A j \in 1 .. N : f[N][j] \in G
  BY <1>1
<1> HIDE DEF G
<1>11. ASSUME NEW j \in 1 .. N, Asks(j) PROVE f[N][j].sym = Place(s(j))
  <2> DEFINE t == s(j)
             up == Parent(t)
  <2>1. /\ t \in Path /\ realpath(host, t) # Missing /\ up \in {Slash} \cup AskedDirectories
        /\ up = Parent(t) /\ t = s(j)
        /\ f[N][j].sym \in {t, Place(t)}
        /\ (\E i \in 1 .. N : Above1(i, j)) => f[N][j].sym = Place(t)
    BY <1>3, <1>9, <1>11
  <2> HIDE DEF t, up
  <2>2. CASE up = Slash
    <3>1. Slash \notin Path
      BY PathFacts DEF Slash
    <3>2. Place(t) = t
      BY <1>1, <2>1, <2>2, <3>1, PlaceFacts DEF PlaceIn
    <3> QED BY <2>1, <3>2
  <2>3. CASE up # Slash
    <3>1. up \in Path /\ up \in AskedDirectories /\ Lineage(up) \subseteq AskedDirectories
      BY <2>1, <2>3, AskedFacts DEF WithParents
    <3>2. Lineage(t) = {t} \cup Lineage(up) /\ Len(up) < Len(t) /\ up \in Lineage(t)
      BY <2>1, <2>3, ParentFacts
    <3>3. CASE \A z \in Lineage(up) : z \notin DOMAIN host.links
      <4>1. realpath(host, up) = up
        BY <1>1, <2>1, <3>1, <3>2, <3>3, ExistsAbove, NoLinkOnTheWay
      <4>2. Place(t) = Rewrite(t, up \o Slash, up \o Slash)
        <5>1. PlaceIn(t, up, realpath(host, up))
          BY <1>1, <2>1, <2>3, PlaceFacts
        <5> QED BY <4>1, <5>1 DEF PlaceIn
      <4>3. Place(t) = t
        BY <2>1, <3>1, <4>2, RewrittenToItself
      <4> QED BY <2>1, <4>3
    <3>4. CASE \E z \in Lineage(up) : z \in DOMAIN host.links
      <4>1. PICK z \in Lineage(up) : z \in DOMAIN host.links
        BY <3>4
      <4>2. PICK i \in 1 .. N : s(i) = z
        BY <3>1, <4>1
      <4>3. z \in Path /\ z # t
        <5>1. z \in Path /\ (z = up \/ Len(z) < Len(up))
          BY <3>1, <4>1, LineageLengths
        <5> QED BY <2>1, <3>1, <3>2, <5>1, PathFacts
      <4>4. Before(z, t)
        BY <2>1, <3>2, <4>1, <4>3, AboveBefore
      <4>5. i < j
        <5>1. i # j
          BY <2>1, <4>2, <4>3
        <5>2. ~(j < i)
          <6>1. SUFFICES ASSUME j < i PROVE FALSE
            OBVIOUS
          <6>2. Before(t, z)
            BY <2>1, <4>2, <6>1
          <6>3. Before(t, t)
            BY <2>1, <4>3, <4>4, <6>2, BeforeTransitive
          <6> QED BY <2>1, <6>3, BeforeIrreflexive
        <5> QED BY <1>1, <5>1, <5>2
      <4>6. Above1(i, j)
        BY <2>1, <4>1, <4>2, <4>5
      <4> HIDE DEF Above1
      <4> QED BY <2>1, <4>6
    <3> QED BY <3>3, <3>4
  <2> QED BY <2>2, <2>3
<1> QED BY <1>10, <1>11 DEF G

(* The sorted and fixed links are links of the host, each once and in a       *)
(* listed directory.                                                          *)
LEMMA LinksPut ==
    ASSUME CopyInv, AskedListed, LinksListed, LinksSpelled, SortSymlinks, ~full, LinksPlain
    PROVE  \A i \in 1 .. Len(symlinks') :
              /\ symlinks'[i].sym \in DOMAIN host.links
              /\ Parent(symlinks'[i].sym) \in {Slash} \cup ToSet(directories)
              /\ \A j \in 1 .. i - 1 : symlinks'[j].sym # symlinks'[i].sym
<1> DEFINE Y == [sym : Path, dst : Path]
           G == HostLinks(host)
<1>1. /\ TypeOK /\ InputKept /\ IsHost(host) /\ symlinks \in Seq(Y) /\ directories \in Seq(Path)
      /\ pass = "sort_symlinks" /\ ToSet(symlinks) \subseteq G
  BY InputFacts DEF CopyInv, ListInv, TypeOK, SortSymlinks, LinksLead, LinksPlain
<1>2. PICK links \in SortedUnique(symlinks, LAMBDA l : l.sym) : symlinks' = fix_symlinks(links)
  BY DEF SortSymlinks
<1>3. /\ links \in Seq(Y) /\ ToSet(links) \subseteq ToSet(symlinks)
      /\ \A i, j \in 1 .. Len(links) : i < j => Before(links[i].sym, links[j].sym)
      /\ \A l \in ToSet(symlinks) : \E i \in 1 .. Len(links) : links[i].sym = l.sym
  BY <1>1, <1>2, LinksSorted
<1> DEFINE N == Len(links)
           s(j) == links[j].sym
<1>4. N \in Nat /\ \A j \in 1 .. N : links[j] \in ToSet(symlinks)
  BY <1>3, LenProperties, SetOfSeq
<1>5. links \in Seq(G)
  <2>1. links = [i \in 1 .. N |-> links[i]] /\ links \in [1 .. N -> G]
    BY <1>1, <1>3, <1>4, LenProperties
  <2> QED BY <1>4, <2>1, SeqDef
<1>6. \A j \in 1 .. N : s(j) \in Spelled /\ Parent(s(j)) \in {Slash} \cup AskedDirectories
  BY <1>1, <1>4 DEF LinksSpelled, LinksPlain, Resolving
<1>7. ASSUME NEW z \in AskedDirectories \cap DOMAIN host.links PROVE \E i \in 1 .. N : s(i) = z
  <2>1. [sym |-> z, dst |-> host.links[z]] \in ToSet(symlinks)
    BY <1>1 DEF LinksListed, Resolving
  <2> QED BY <1>3, <2>1
<1>8. \A j \in 1 .. N : s(j) \in Path /\ realpath(host, s(j)) # Missing
  <2>1. \A j \in 1 .. N : links[j] \in G
    BY <1>1, <1>4
  <2> QED BY <1>1, <2>1, HostFacts DEF HostLinks
<1>9. \A l, m \in G : Relinked(l, m) \in G
  BY <1>1, RelinkedHostLinks
<1> HIDE DEF G
<1> DEFINE t == fix_symlinks(links)
<1>10. PICK f : FixRounds(f, links, G) /\ KeptFrom(t, f[N], N, G)
  BY <1>5, <1>9, FixedLinks
<1> HIDE DEF t
<1> DEFINE last == f[N]
<1>11. \A j \in 1 .. N : last[j] \in G /\ last[j].sym = Place(s(j))
  <2>1. \A j \in 1 .. N : f[N][j] \in HostLinks(host) /\
            (Parent(links[j].sym) \in {Slash} \cup AskedDirectories => f[N][j].sym = Place(links[j].sym))
    <3>1. /\ TypeOK /\ InputKept /\ PlainLinks /\ links \in Seq(HostLinks(host))
          /\ FixRounds(f, links, HostLinks(host))
      BY <1>1, <1>5, <1>10 DEF LinksPlain, G
    <3>2. /\ \A i, j \in 1 .. Len(links) : i < j => Before(links[i].sym, links[j].sym)
          /\ \A z \in AskedDirectories \cap DOMAIN host.links :
                \E i \in 1 .. Len(links) : links[i].sym = z
      BY <1>3, <1>7
    <3> QED BY <3>1, <3>2, FixedInPlace
  <2> QED BY <1>6, <2>1 DEF G
<1>12. KeptFrom(t, last, N, G)
  BY <1>10
<1> HIDE DEF last
<1>13. ASSUME NEW j \in 1 .. N, last[j].sym # last[j].dst
       PROVE  Place(s(j)) \in DOMAIN host.links
  <2>1. last[j] \in G /\ last[j].sym = Place(s(j)) /\ s(j) \in Path /\ realpath(host, s(j)) # Missing
    BY <1>8, <1>11
  <2>2. realpath(host, Place(s(j))) = last[j].dst /\ realpath(host, Place(s(j))) = realpath(host, s(j))
    BY <1>1, <2>1, PlaceFacts DEF G, HostLinks
  <2>3. realpath(host, s(j)) # Place(s(j))
    BY <1>13, <2>1, <2>2
  <2> HIDE DEF s
  <2> QED BY <1>1, <2>1, <2>3, PlaceIsLink
<1>14. ASSUME NEW j \in 1 .. N PROVE Parent(Place(s(j))) \in {Slash} \cup ToSet(directories)
  <2> DEFINE p == s(j)
             up == Parent(p)
  <2>1. p \in Path /\ realpath(host, p) # Missing /\ up \in {Slash} \cup AskedDirectories
    BY <1>6, <1>8
  <2>2. \/ up = Slash /\ Place(p) = p
        \/ PlaceIn(p, up, realpath(host, up))
    BY <1>1, <2>1, PlaceFacts
  <2> HIDE DEF p, up
  <2>3. CASE up = Slash /\ Place(p) = p
    BY <2>3 DEF p, up
  <2>4. CASE PlaceIn(p, up, realpath(host, up))
    <3>1. /\ up \in Path /\ realpath(host, up) \in host.dirs \cup host.files
          /\ Parent(Place(p)) = realpath(host, up)
      BY <2>4 DEF PlaceIn
    <3>2. realpath(host, up) # Missing /\ up # Slash
      <4>1. Slash \notin Path
        BY PathFacts DEF Slash
      <4> QED BY <1>1, <3>1, <4>1, HostFacts
    <3>3. PICK d \in ToSet(directories) : realpath(host, d) = realpath(host, up)
      BY <1>1, <2>1, <3>2 DEF AskedListed, AfterDirs, Exists
    <3>4. ~Moves(d)
      <4>1. PICK i \in 1 .. Len(directories) : d = directories[i]
        BY <1>1, <3>3, SetOfSeq
      <4> QED BY <1>1, <4>1 DEF CopyInv, ListInv, DirectoriesResolved, AfterDirs
    <3>5. d = realpath(host, up)
      BY <3>2, <3>3, <3>4 DEF Moves
    <3> QED BY <3>1, <3>3, <3>5 DEF p
  <2> QED BY <2>2, <2>3, <2>4
<1>15. \A i, j \in 1 .. N : last[i].sym # last[i].dst /\ last[j].sym # last[j].dst
                              /\ last[i].sym = last[j].sym => i = j
  <2> SUFFICES ASSUME NEW i \in 1 .. N, NEW j \in 1 .. N, last[i].sym # last[i].dst,
                      last[i].sym = last[j].sym
               PROVE  i = j
    OBVIOUS
  <2>1. Place(s(i)) \in DOMAIN host.links /\ Place(s(i)) = Place(s(j))
    BY <1>11, <1>13
  <2>2. s(i) = s(j)
    BY <1>6, <2>1 DEF LinksPlain, OneSpelling
  <2>3. ASSUME i < j \/ j < i PROVE FALSE
    BY <1>3, <1>8, <2>2, <2>3, BeforeIrreflexive
  <2> QED BY <1>4, <2>3
<1>16. /\ t \in Seq({l \in G : l.sym # l.dst})
       /\ \A i \in 1 .. Len(t) : \E j \in 1 .. N : t[i] = last[j]
       /\ \A i, j \in 1 .. Len(t) : t[i].sym = t[j].sym => i = j
  BY <1>12, <1>15 DEF KeptFrom
<1>17. Len(t) \in Nat /\ \A i \in 1 .. Len(t) : t[i].sym # t[i].dst
  <2>1. \A i \in 1 .. Len(t) : t[i] \in {l \in G : l.sym # l.dst}
    BY <1>16, ElementOfSeq
  <2> QED BY <1>16, <2>1, LenProperties
<1>18. ASSUME NEW i \in 1 .. Len(t)
       PROVE  /\ t[i].sym \in DOMAIN host.links
              /\ Parent(t[i].sym) \in {Slash} \cup ToSet(directories)
              /\ \A j \in 1 .. i - 1 : t[j].sym # t[i].sym
  <2>1. PICK j \in 1 .. N : t[i] = last[j]
    BY <1>16
  <2>2. t[i].sym = Place(s(j)) /\ last[j].sym # last[j].dst
    BY <1>11, <1>17, <2>1
  <2>3. ASSUME NEW m \in 1 .. i - 1 PROVE t[m].sym # t[i].sym
    <3>1. m \in 1 .. Len(t) /\ m # i
      BY <1>17
    <3> QED BY <1>16, <3>1
  <2> HIDE DEF s
  <2> QED BY <1>13, <1>14, <2>2, <2>3
<1>19. symlinks' = t
  BY <1>2 DEF t
<1> QED BY <1>18, <1>19

LEMMA LinksInPlaceStep ==
    ASSUME CopyInv, AskedListed, LinksListed, LinksSpelled, LinksInPlace, Next
    PROVE  LinksInPlace'
<1>1. TypeOK /\ InputKept
  BY DEF CopyInv, ListInv
<1>2. host' = host
  BY <1>1, StepKeeps
<1>3. CASE full' \/ pass' \notin AfterLinks \/ ~LinksPlain'
  BY <1>3 DEF LinksInPlace
<1>4. ASSUME ~full' PROVE ~full
  BY <1>1, <1>4, StepKeeps
<1>5. UNCHANGED executables => (LinksPlain' <=> LinksPlain)
  <2>1. SUFFICES ASSUME UNCHANGED executables PROVE LinksPlain' <=> LinksPlain
    OBVIOUS
  <2>2. /\ NoSharedBeginning' <=> NoSharedBeginning
        /\ PlainLinks' <=> PlainLinks
        /\ OneSpelling' <=> OneSpelling
        /\ LinksStay' <=> LinksStay
        /\ LinksAgree' <=> LinksAgree
        /\ LinksPlaced' <=> LinksPlaced
    BY <1>1, <2>1, SameLinks
  <2> QED BY <2>2 DEF LinksPlain
<1> DEFINE Put(links) ==
             \A i \in 1 .. Len(links) :
                /\ links[i].sym \in DOMAIN host.links
                /\ Parent(links[i].sym) \in {Slash} \cup ToSet(directories)
                /\ \A j \in 1 .. i - 1 : links[j].sym # links[i].sym
<1>6. ASSUME Put(symlinks'), directories' = directories PROVE LinksInPlace'
  BY <1>2, <1>6 DEF LinksInPlace
<1>7. CASE SortSymlinks /\ ~full' /\ LinksPlain'
  <2>1. directories' = directories /\ UNCHANGED executables
    BY <1>7 DEF SortSymlinks
  <2>2. Put(symlinks')
    BY <1>4, <1>5, <1>7, <2>1, LinksPut
  <2> HIDE DEF Put
  <2> QED BY <1>6, <2>1, <2>2
<1>8. CASE (SortFileCopies \/ write_output_config) /\ ~full' /\ LinksPlain'
  <2>1. /\ directories' = directories /\ symlinks' = symlinks /\ UNCHANGED executables
        /\ pass \in AfterLinks
    BY <1>8 DEF SortFileCopies, write_output_config, AfterLinks
  <2>2. Put(symlinks)
    BY <1>4, <1>5, <1>8, <2>1 DEF LinksInPlace
  <2> HIDE DEF Put
  <2> QED BY <1>6, <2>1, <2>2
<1>9. CASE ~(SortSymlinks \/ SortFileCopies \/ write_output_config)
  <2>1. pass' \notin AfterLinks
    BY <1>9 DEF Next, ReadSettings, ReadDirectories, ReadExecutables, ReadFileCopies, AddExecutable,
      AllExecutablesAdded, resolve_paths_in_array, AllDirectoriesResolved, ResolveSrc, ResolveDst,
      Resolve, AllCopiesResolved, ReadSymlinks, SortDirectories, Goto, AfterLinks
  <2> QED BY <1>3, <2>1
<1> QED BY <1>3, <1>7, <1>8, <1>9

LEMMA LinkInvInit ==
    ASSUME Init
    PROVE  LinkInv
<1>1. CopyInv
  BY CopyInvInit
<1>2. pass = "settings" /\ directories = <<>> /\ symlinks = <<>>
  BY DEF Init
<1>3. ToSet(directories) = {}
  BY <1>2, NoElements
<1>4. Above(ReadBefore) = {}
  BY <1>2 DEF Above, ReadBefore
<1>5. DirectoriesRead
  BY <1>2, <1>3, <1>4 DEF DirectoriesRead
<1> QED BY <1>1, <1>2, <1>5 DEF LinkInv, AskedOrSettled, AskedListed, LinksListed, LinksSpelled, LinksInPlace,
    AfterDirs, AfterLinks, Resolving

LEMMA LinkInvStep ==
    ASSUME LinkInv, [Next]_vars
    PROVE  LinkInv'
<1>1. CopyInv'
  BY CopyInvStep DEF LinkInv
<1>2. CASE Next
  <2>1. TypeOK /\ InputKept
    BY DEF LinkInv, CopyInv, ListInv
  <2> QED BY <1>1, <1>2, <2>1, DirectoriesReadStep, AskedOrSettledStep, AskedListedStep, LinksListedStep,
        LinksSpelledStep, LinksInPlaceStep DEF LinkInv
<1>3. CASE UNCHANGED vars
  <2>1. /\ config' = config /\ host' = host /\ pass' = pass /\ k' = k /\ count' = count /\ full' = full
        /\ directories' = directories /\ executables' = executables /\ symlinks' = symlinks
    BY <1>3 DEF vars, input
  <2>2. /\ Asked' = Asked /\ Sources' = Sources /\ Targets' = Targets
        /\ \A p : (Listed(p)' = Listed(p)) /\ (Place(p)' = Place(p)) /\ (Moves(p)' <=> Moves(p))
    BY <2>1 DEF Asked, Sources, Targets, Needs, Dependencies, Listed, Place, Moves
  <2>3. AskedDirectories' = AskedDirectories
    BY <2>1, <2>2 DEF AskedDirectories
  <2>4. Spelled' = Spelled
    BY <2>1, <2>2, <2>3 DEF Spelled
  <2>5. ReadBefore' = ReadBefore
    BY <2>1 DEF ReadBefore, Dependencies
  <2>6. Above(ReadBefore)' = Above(ReadBefore)
    BY <2>2, <2>5 DEF Above
  <2>7. /\ NoSharedBeginning' <=> NoSharedBeginning
        /\ PlainLinks' <=> PlainLinks
        /\ OneSpelling' <=> OneSpelling
        /\ LinksStay' <=> LinksStay
        /\ LinksAgree' <=> LinksAgree
        /\ LinksPlaced' <=> LinksPlaced
    <3>1. NoSharedBeginning' <=> NoSharedBeginning
      BY <2>1, <2>2 DEF NoSharedBeginning
    <3>2. PlainLinks' <=> PlainLinks
      BY <2>1, <2>2, <2>3 DEF PlainLinks
    <3>3. OneSpelling' <=> OneSpelling
      BY <2>1, <2>2, <2>4 DEF OneSpelling
    <3>4. (LinksStay' <=> LinksStay) /\ (LinksAgree' <=> LinksAgree) /\ (LinksPlaced' <=> LinksPlaced)
      BY <2>1, <2>2, <2>3 DEF LinksStay, LinksAgree, LinksPlaced
    <3> QED BY <3>1, <3>2, <3>3, <3>4
  <2>8. DirectoriesRead'
    BY <2>1, <2>6 DEF LinkInv, DirectoriesRead
  <2>9. AskedOrSettled'
    BY <2>1, <2>2, <2>3, <2>7 DEF LinkInv, AskedOrSettled
  <2>10. AskedListed'
    BY <2>1, <2>3 DEF LinkInv, AskedListed, Exists
  <2>11. LinksListed'
    BY <2>1, <2>3 DEF LinkInv, LinksListed
  <2>12. LinksSpelled'
    BY <2>1, <2>3, <2>4, <2>7 DEF LinkInv, LinksSpelled
  <2>13. LinksInPlace'
    BY <2>1, <2>7 DEF LinkInv, LinksInPlace, LinksPlain
  <2> QED BY <1>1, <2>8, <2>9, <2>10, <2>11, <2>12, <2>13 DEF LinkInv
<1> QED BY <1>2, <1>3

THEOREM LinkInvariant == Spec => []LinkInv
<1> QED BY LinkInvInit, LinkInvStep, PTL DEF Spec

(* For a configuration that keeps to the preconditions, each listed symlink   *)
(* can be made: it is a link of the host by the path that no link is on the   *)
(* way of, although links are found by other paths, in three loops, and       *)
(* repaired only by one another; its directory is listed, nothing else has    *)
(* its place, and it is listed once (configer.c:351-420; jailor.c:162).       *)
THEOREM LinksCanBeMade == Spec => []LinksBuildable
<1>1. ASSUME LinkInv PROVE LinksBuildable
  <2>1. SUFFICES ASSUME Complete, LinksPlain, NEW i \in 1 .. Len(symlinks)
                 PROVE  /\ Parent(symlinks[i].sym) \in {Slash} \cup ToSet(directories)
                        /\ symlinks[i].sym \notin ToSet(directories) \cup {c.dst : c \in ToSet(file_copies)}
                        /\ \A j \in 1 .. i - 1 : symlinks[j].sym # symlinks[i].sym
    <3>1. DOMAIN symlinks = 1 .. Len(symlinks)
      BY <1>1, LenProperties DEF LinkInv, CopyInv, ListInv, TypeOK
    <3> QED BY <3>1 DEF LinksBuildable, LinksPlain, Sandbox
  <2>2. /\ CopyInv /\ TypeOK /\ InputKept /\ IsHost(host) /\ ~full
        /\ pass \in AfterLinks /\ pass \in AfterCopies /\ pass \in AfterDirs
    BY <1>1, <2>1, InputFacts DEF LinkInv, CopyInv, ListInv, Complete, AfterLinks, AfterCopies, AfterDirs
  <2>3. /\ symlinks[i].sym \in DOMAIN host.links
        /\ Parent(symlinks[i].sym) \in {Slash} \cup ToSet(directories)
        /\ \A j \in 1 .. i - 1 : symlinks[j].sym # symlinks[i].sym
    BY <1>1, <2>1, <2>2 DEF LinkInv, LinksInPlace
  <2> DEFINE p == symlinks[i].sym
  <2>4. p \in DOMAIN host.links
    BY <2>3
  <2> HIDE DEF p
  <2>5. Moves(p)
    <3>1. realpath(host, p) # p /\ realpath(host, p) # Missing
      BY <2>2, <2>4, LinkLeads, HostFacts
    <3> QED BY <3>1 DEF Moves
  <2>6. p \notin ToSet(directories)
    <3>1. \A d \in ToSet(directories) : ~Moves(d)
      <4>1. directories \in Seq(Path)
        BY <2>2 DEF TypeOK
      <4>2. \A j \in 1 .. Len(directories) : ~Moves(directories[j])
        BY <2>2 DEF CopyInv, ListInv, DirectoriesResolved
      <4> QED BY <4>1, <4>2, SetOfSeq
    <3> QED BY <2>5, <3>1
  <2>7. p \notin {c.dst : c \in ToSet(file_copies)}
    <3>1. \A c \in ToSet(file_copies) : ~Moves(c.dst)
      BY <2>1, <2>2 DEF CopyInv, CopiesSettled, Settled, LinksPlain
    <3> QED BY <2>5, <3>1
  <2> QED BY <2>3, <2>6, <2>7 DEF p
<1> QED BY <1>1, LinkInvariant, PTL

----------------------------------------------------------------------------
(* The needs.                                                                 *)

(* A copy, when one that was asked for has been rewritten or not. *)
Follows(c, a) ==
    /\ c.src \in {a.src, realpath(host, a.src)}
    /\ c.dst \in {a.dst, realpath(host, a.dst)}

CopiesFollow ==
    pass \in AfterDirs /\ NoSharedBeginning =>
      \A c \in ToSet(file_copies) : \E a \in Asked : Follows(c, a)

Itself(p) == [src |-> p, dst |-> p]
NeedsRead == UNION {{executables[i]} \cup ToSet(Dependencies(executables[i])) : i \in 1 .. k - 1}

(* Each need is copied to its own path... *)
NeedsListed ==
    /\ pass = "dependencies" /\ ~full => \A p \in NeedsRead : Itself(p) \in ToSet(file_copies)
    /\ pass = "resolve_dirs" /\ ~full => \A p \in Needs : Itself(p) \in ToSet(file_copies)

(* ... then rewritten, and if so the path is kept as a link... *)
NeedsFollowed ==
    pass \in {"resolve_src", "resolve_dst"} /\ ~full /\ NoSharedBeginning =>
      \A p \in Needs : \E c \in ToSet(file_copies) :
         /\ Follows(c, Itself(p))
         /\ Moves(p) /\ c.src # p => [sym |-> p, dst |-> realpath(host, p)] \in ToSet(symlinks)

(* ... until both ends are where the path leads. *)
NeedsLinked ==
    pass \in {"symlinks", "sort_directories", "sort_symlinks"} /\ ~full /\ NoSharedBeginning =>
      \A p \in Needs : Moves(p) => [sym |-> p, dst |-> realpath(host, p)] \in ToSet(symlinks)

NeedsCopied ==
    pass \in AfterCopies /\ ~full /\ NoSharedBeginning /\ OneSource =>
      \A p \in Needs : Exists(host, p) => Itself(realpath(host, p)) \in ToSet(file_copies)

(* A link of the host that a need, or a directory that was asked for, is or   *)
(* goes through is a link of the sandbox.                                     *)
LinksFound ==
    pass \in AfterLinks /\ ~full /\ NoSharedBeginning /\ PlainLinks /\ LinksAgree =>
      \A y \in AskedDirectories \cup Needs : Exists(host, y) /\ Place(y) \in DOMAIN host.links =>
         \E l \in ToSet(symlinks) : l.sym = Place(y)

NeedInv ==
    /\ LinkInv /\ CopiesFollow /\ NeedsListed /\ NeedsFollowed /\ NeedsLinked /\ NeedsCopied
    /\ LinksFound

(* The needs stay the same once the executables are known. *)
LEMMA SameNeeds ==
    ASSUME TypeOK, Next, UNCHANGED executables
    PROVE  /\ Asked' = Asked /\ Needs' = Needs /\ host' = host
           /\ \A p : (Moves(p)' <=> Moves(p)) /\ (Exists(host, p)' <=> Exists(host, p))
           /\ NoSharedBeginning' <=> NoSharedBeginning
           /\ OneSource' <=> OneSource
<1>1. config' = config /\ host' = host
  BY StepKeeps
<1>2. Asked' = Asked /\ (NoSharedBeginning' <=> NoSharedBeginning) /\ \A p : Moves(p)' <=> Moves(p)
  BY SameAsked
<1>3. Needs' = Needs
  BY <1>1 DEF Needs, Dependencies
<1>4. OneSource' <=> OneSource
  BY <1>1, <1>2 DEF OneSource
<1> QED BY <1>1, <1>2, <1>3, <1>4 DEF Exists

LEMMA NeedFacts ==
    ASSUME TypeOK, InputKept, NEW p \in Needs
    PROVE  p \in Path /\ Itself(p) \in Asked /\ p \in Sources /\ p \in Targets
<1>1. Itself(p) \in Asked
  BY DEF Asked, Itself
<1>2. Itself(p).src = p /\ Itself(p).dst = p
  BY DEF Itself
<1>3. p \in Sources /\ p \in Targets
  BY <1>1, <1>2 DEF Sources, Targets
<1> QED BY <1>1, <1>3, AskedPaths

(* A path or what it leads to, when one path is replaced by what that leads to. *)
LEMMA ReplacedFollows ==
    ASSUME InputKept, NEW x \in Path, NEW v \in {x, realpath(host, x)}, NEW old \in Path,
           NEW w, w = IF Moves(old) /\ v = old THEN realpath(host, old) ELSE v
    PROVE  w \in {x, realpath(host, x)}
<1>1. CASE Moves(old) /\ v = old /\ old # x
  <2> DEFINE r == realpath(host, x)
  <2>1. r = realpath(host, x) /\ old = r
    BY <1>1
  <2> HIDE DEF r
  <2>2. Missing \notin Path
    BY PathStrings
  <2>3. ~Moves(r)
    BY <1>1, <2>1, <2>2, MovedFacts
  <2> QED BY <1>1, <2>1, <2>3
<1> QED BY <1>1

(* One field of all copies with one path replaced (configer.c:605-668). *)
Replaced(field, old) ==
    /\ old \in Path
    /\ Len(file_copies') = Len(file_copies)
    /\ \A j \in 1 .. Len(file_copies) : \A g \in {"src", "dst"} :
          file_copies'[j][g] = IF g = field /\ Moves(old) /\ file_copies[j][g] = old
                               THEN realpath(host, old) ELSE file_copies[j][g]
    /\ Moves(old) /\ Len(symlinks') < MAX_SYMLINKS =>
          [sym |-> old, dst |-> realpath(host, old)] \in ToSet(symlinks')

LEMMA CopiesReplaced ==
    ASSUME TypeOK, InputKept, CopiesTraced, NoSharedBeginning, ResolveSrc \/ ResolveDst
    PROVE  \E field \in {"src", "dst"} : \E old : Replaced(field, old)
<1>1. PICK field \in {"src", "dst"} : \E next, i : Resolve(field, next, i)
  BY DEF ResolveSrc, ResolveDst
<1> DEFINE X == [src : Path, dst : Path]
           N == Len(file_copies)
           old == file_copies[k][field]
           real == realpath(host, old)
<1>2. /\ count = N /\ N \in Nat /\ file_copies \in Seq(X) /\ k \in 1 .. N
      /\ pass \in {"resolve_src", "resolve_dst"}
  BY <1>1, LenProperties DEF TypeOK, ResolveSrc, ResolveDst, Resolve
<1>3. \A j \in 1 .. N : file_copies[j] \in X
  BY <1>2, ElementOfSeq
<1>4. old \in Path
  BY <1>2, <1>3
<1>5. old = file_copies[k][field] /\ real = realpath(host, old)
  OBVIOUS
<1> HIDE DEF old, real
<1>6. CASE real \in {Missing, old}
  <2>1. file_copies' = file_copies
    BY <1>1, <1>5, <1>6 DEF Resolve
  <2>2. ~Moves(old)
    BY <1>5, <1>6 DEF Moves
  <2>3. Replaced(field, old)
    BY <1>4, <2>1, <2>2 DEF Replaced
  <2> QED BY <2>3
<1>7. CASE real \notin {Missing, old}
  <2>1. CopyResolved(field, old, real)
    BY <1>1, <1>2, <1>5, <1>7, ResolveFacts
  <2>2. /\ real \in Path /\ file_copies' \in Seq(X) /\ Len(file_copies') = N
        /\ \A j \in 1 .. N : \A g \in {"src", "dst"} :
             file_copies'[j][g] = IF g = field THEN FieldResolved(j, field, old, real)
                                  ELSE file_copies[j][g]
        /\ symlinks' = add_unique_symlink(symlinks, old, real)
    BY <2>1 DEF CopyResolved
  <2>3. Moves(old)
    BY <1>5, <1>7 DEF Moves
  <2> DEFINE v == Field(file_copies, field)
             w == Field(file_copies', field)
             S == IF field = "src" THEN Sources ELSE Targets
  <2>4. /\ v \in [1 .. N -> Path] /\ \A j \in 1 .. N : v[j] = file_copies[j][field]
        /\ w \in [1 .. N -> Path] /\ \A j \in 1 .. N : w[j] = file_copies'[j][field]
    <3>1. v \in [1 .. N -> Path] /\ \A j \in 1 .. N : v[j] = file_copies[j][field]
      BY <1>2, CopyPaths
    <3> DEFINE t == file_copies'
    <3>2. t \in Seq(X) /\ Len(t) = N
      BY <2>2
    <3> HIDE DEF t, N
    <3>3. Field(t, field) \in [1 .. N -> Path] /\ \A j \in 1 .. N : Field(t, field)[j] = t[j][field]
      BY <3>2, CopyPaths
    <3> QED BY <3>1, <3>3 DEF t, N
  <2>5. S \subseteq Path /\ NoneBegins(S) /\ Traced(v, S)
    <3>1. Traced(Srcs, Sources) /\ Traced(Dsts, Targets)
      BY <1>2 DEF CopiesTraced
    <3> QED BY <3>1, AskedPaths, BothBegin DEF Srcs, Dsts
  <2>6. v[k] = old /\ \A j \in 1 .. N : w[j] = IF j = k THEN real ELSE Rewrite(v[j], old, real)
    BY <1>2, <1>5, <2>2, <2>4 DEF FieldResolved
  <2> HIDE DEF v, w, S, N
  <2>7. \A j \in 1 .. N : w[j] = IF v[j] = old THEN real ELSE v[j]
    <3>1. /\ N \in Nat /\ v \in [1 .. N -> Path] /\ w \in [1 .. N -> Path] /\ k \in 1 .. N
          /\ S \subseteq Path /\ NoneBegins(S) /\ Traced(v, S)
          /\ old = v[k] /\ real = realpath(host, old) /\ real \notin {Missing, old}
      BY <1>2, <1>5, <1>7, <2>4, <2>5, <2>6
    <3>2. \A j \in 1 .. N : w[j] = IF j = k THEN real ELSE Rewrite(v[j], old, real)
      BY <2>6
    <3> QED BY <3>1, <3>2, PathsTraced
  <2>8. ASSUME NEW j \in 1 .. N, NEW g \in {"src", "dst"}
        PROVE  file_copies'[j][g] = IF g = field /\ Moves(old) /\ file_copies[j][g] = old
                                    THEN real ELSE file_copies[j][g]
    BY <2>2, <2>3, <2>4, <2>7
  <2>9. Len(symlinks') < MAX_SYMLINKS => [sym |-> old, dst |-> real] \in ToSet(symlinks')
    BY <1>4, <2>2, LinkKept
  <2>10. Replaced(field, old)
    BY <1>4, <1>5, <2>2, <2>8, <2>9 DEF Replaced, N
  <2> QED BY <2>10
<1> QED BY <1>6, <1>7

(* The copies behind a step of the second loop, one at a time. *)
LEMMA CopiesFollowOn ==
    ASSUME TypeOK, InputKept, NEW field, NEW old, Replaced(field, old),
           file_copies' \in Seq([src : Path, dst : Path]),
           NEW j \in 1 .. Len(file_copies), NEW a, a \in [src : Path, dst : Path],
           Follows(file_copies[j], a)
    PROVE  Follows(file_copies'[j], a) /\ file_copies'[j] \in ToSet(file_copies')
<1> DEFINE c == file_copies[j]
           d == file_copies'[j]
           w(v) == IF Moves(old) /\ v = old THEN realpath(host, old) ELSE v
<1>1. c.src \in {a.src, realpath(host, a.src)} /\ c.dst \in {a.dst, realpath(host, a.dst)}
  BY DEF Follows
<1>2. d.src \in {c.src, w(c.src)} /\ d.dst \in {c.dst, w(c.dst)}
  BY DEF Replaced
<1>3. a.src \in Path /\ a.dst \in Path /\ old \in Path
  BY DEF Replaced
<1> HIDE DEF c, d
<1>4. w(c.src) \in {a.src, realpath(host, a.src)}
  <2> DEFINE u == w(c.src)
  <2>1. u = IF Moves(old) /\ c.src = old THEN realpath(host, old) ELSE c.src
    OBVIOUS
  <2> HIDE DEF u
  <2>2. u \in {a.src, realpath(host, a.src)}
    BY <1>1, <1>3, <2>1, ReplacedFollows
  <2> QED BY <2>2 DEF u
<1>5. w(c.dst) \in {a.dst, realpath(host, a.dst)}
  <2> DEFINE u == w(c.dst)
  <2>1. u = IF Moves(old) /\ c.dst = old THEN realpath(host, old) ELSE c.dst
    OBVIOUS
  <2> HIDE DEF u
  <2>2. u \in {a.dst, realpath(host, a.dst)}
    BY <1>1, <1>3, <2>1, ReplacedFollows
  <2> QED BY <2>2 DEF u
<1>6. Follows(d, a)
  <2> HIDE DEF w
  <2> QED BY <1>1, <1>2, <1>4, <1>5 DEF Follows
<1>7. d \in ToSet(file_copies')
  <2> DEFINE t == file_copies'
  <2>1. t \in Seq([src : Path, dst : Path]) /\ Len(t) = Len(file_copies) /\ d = t[j]
    BY DEF Replaced, d
  <2> HIDE DEF t
  <2>2. d \in ToSet(t)
    BY <2>1, SetOfSeq
  <2> QED BY <2>2 DEF t
<1> QED BY <1>6, <1>7 DEF d

LEMMA CopiesFollowStep ==
    ASSUME CopyInv, CopiesFollow, Next
    PROVE  CopiesFollow'
<1>1. TypeOK /\ InputKept /\ CopiesAsked /\ CopiesTraced
  BY DEF CopyInv, ListInv
<1> SUFFICES ASSUME pass' \in AfterDirs, NoSharedBeginning', NEW c \in ToSet(file_copies')
             PROVE  (\E a \in Asked : Follows(c, a))'
  BY DEF CopiesFollow
<1>2. /\ pass \in AfterDirs \cup {"resolve_dirs"} /\ UNCHANGED executables
      /\ \/ ResolveSrc \/ ResolveDst \/ SortFileCopies
         \/ UNCHANGED file_copies
      /\ pass = "resolve_dirs" => UNCHANGED file_copies
  BY DEF Next, ReadSettings, ReadDirectories, ReadExecutables, ReadFileCopies, AddExecutable,
    AllExecutablesAdded, resolve_paths_in_array, AllDirectoriesResolved, ResolveSrc, ResolveDst,
    Resolve, AllCopiesResolved, ReadSymlinks, SortDirectories, SortSymlinks, SortFileCopies,
    write_output_config, Goto, AfterDirs
<1>3. Asked' = Asked /\ host' = host /\ NoSharedBeginning
  BY <1>1, <1>2, SameNeeds
<1>4. \A a : Follows(c, a)' <=> Follows(c, a)
  BY <1>3 DEF Follows
<1>5. \E a \in Asked : Follows(c, a)
  <2>1. CASE pass = "resolve_dirs"
    <3>1. c \in Asked
      BY <1>1, <1>2, <2>1 DEF CopiesAsked
    <3> QED BY <3>1 DEF Follows
  <2>2. CASE pass \in AfterDirs /\ (ResolveSrc \/ ResolveDst)
    <3>1. PICK field, old : Replaced(field, old)
      BY <1>1, <1>3, <2>2, CopiesReplaced
    <3>2. file_copies' \in Seq([src : Path, dst : Path]) /\ file_copies \in Seq([src : Path, dst : Path])
      BY <1>1, ArraysStep DEF ArraysOK, TypeOK
    <3>3. PICK j \in 1 .. Len(file_copies) : c = file_copies'[j]
      <4> DEFINE t == file_copies'
      <4>1. t \in Seq([src : Path, dst : Path]) /\ Len(t) = Len(file_copies) /\ c \in ToSet(t)
        BY <3>1, <3>2 DEF Replaced
      <4> HIDE DEF t
      <4>2. \E j \in 1 .. Len(file_copies) : c = t[j]
        BY <4>1, SetOfSeq
      <4> QED BY <4>2 DEF t
    <3>4. file_copies[j] \in ToSet(file_copies)
      BY <3>2, SetOfSeq
    <3>5. PICK a \in Asked : Follows(file_copies[j], a)
      BY <1>3, <2>2, <3>4 DEF CopiesFollow
    <3>6. a \in [src : Path, dst : Path]
      BY <1>1, AskedPaths
    <3> QED BY <1>1, <3>1, <3>2, <3>3, <3>5, <3>6, CopiesFollowOn
  <2>3. CASE pass \in AfterDirs /\ (UNCHANGED file_copies \/ SortFileCopies)
    <3>1. ToSet(file_copies') \subseteq ToSet(file_copies)
      <4>1. CASE SortFileCopies
        <5> DEFINE t == file_copies'
        <5>1. t \in SortedUnique(file_copies, LAMBDA d : d.dst)
          BY <4>1 DEF SortFileCopies
        <5>2. file_copies \in Seq([src : Path, dst : Path])
          BY <1>1 DEF TypeOK
        <5> HIDE DEF t
        <5>3. ToSet(t) \subseteq ToSet(file_copies)
          BY <5>1, <5>2, CopiesSorted
        <5> QED BY <5>3 DEF t
      <4> QED BY <2>3, <4>1
    <3> QED BY <1>3, <2>3, <3>1 DEF CopiesFollow
  <2> QED BY <1>2, <2>1, <2>2, <2>3
<1> QED BY <1>3, <1>4, <1>5

(* An executable is added with its libraries, or an array is full (configer.c:190-225). *)
LEMMA NeedsListedStep ==
    ASSUME CopyInv, NeedsListed, Next
    PROVE  NeedsListed'
<1>1. TypeOK /\ InputKept
  BY DEF CopyInv, ListInv
<1>2. ~full' => ~full /\ Len(file_copies') < MAX_FILE_COPIES
  BY <1>1, RoomLeft
<1>3. config' = config /\ host' = host
  BY <1>1, StepKeeps
<1> DEFINE F(e) == {e} \cup ToSet(Dependencies(e))
<1>4. NeedsRead = UNION {F(executables[i]) : i \in 1 .. k - 1}
  BY DEF NeedsRead
<1>5. UNCHANGED executables => NeedsRead' = UNION {F(executables[i]) : i \in 1 .. k' - 1}
  BY <1>3 DEF NeedsRead, Dependencies
<1>6. Needs = UNION {F(e) : e \in ToSet(executables)}
  BY DEF Needs
<1>7. \A p : Itself(p)' = Itself(p)
  BY DEF Itself
<1>8. CASE ReadFileCopies
  <2>1. pass' = "dependencies" /\ k' = 1 /\ UNCHANGED executables
    BY <1>8 DEF ReadFileCopies, Goto
  <2>2. 1 .. k' - 1 = {}
    BY <2>1
  <2> HIDE DEF F
  <2>3. NeedsRead' = {}
    BY <1>5, <2>1, <2>2
  <2> QED BY <2>1, <2>3 DEF NeedsListed
<1>9. CASE AddExecutable
  <2> DEFINE e == executables[k]
             X == [src : Path, dst : Path]
             asks == {[src |-> p, dst |-> p] : p \in F(e)}
  <2>1. pass = "dependencies" /\ pass' = "dependencies" /\ k' = k + 1 /\ UNCHANGED executables /\ k \in Nat \ {0}
    BY <1>1, <1>9 DEF AddExecutable, Goto, TypeOK
  <2>2. PICK copies \in Seq(X) :
          file_copies' = add_unique_file_copies(file_copies, copies) /\ ToSet(copies) = asks
    BY <1>1, <1>9, NeededCopies
  <2>3. ~full' => ToSet(file_copies) \cup asks \subseteq ToSet(file_copies')
    <3> HIDE DEF asks
    <3> QED BY <1>1, <1>2, <2>2, CopiesAdded
  <2>4. NeedsRead' = NeedsRead \cup F(e)
    <3> HIDE DEF F
    <3>1. 1 .. k' - 1 = (1 .. k - 1) \cup {k}
      BY <2>1
    <3> QED BY <1>4, <1>5, <2>1, <3>1
  <2>5. \A p \in F(e) : Itself(p) \in asks
    BY DEF Itself
  <2> HIDE DEF F, asks, e
  <2>6. ASSUME ~full', NEW p \in NeedsRead' PROVE Itself(p) \in ToSet(file_copies')
    <3>1. p \in NeedsRead \/ p \in F(e)
      BY <2>4, <2>6
    <3>2. p \in NeedsRead => Itself(p) \in ToSet(file_copies)
      BY <1>2, <2>1, <2>6 DEF NeedsListed
    <3> QED BY <2>3, <2>5, <2>6, <3>1, <3>2
  <2> QED BY <1>7, <2>1, <2>6 DEF NeedsListed
<1>10. CASE AllExecutablesAdded
  <2>1. /\ pass = "dependencies" /\ pass' = "resolve_dirs" /\ UNCHANGED <<executables, file_copies>>
        /\ k - 1 = Len(executables) /\ executables \in Seq(Path)
    BY <1>1, <1>10 DEF AllExecutablesAdded, TypeOK, Goto
  <2>2. ToSet(executables) = {executables[i] : i \in 1 .. k - 1}
    BY <2>1, SetOfSeq
  <2> HIDE DEF F
  <2>3. NeedsRead = Needs
    <3>1. {F(executables[i]) : i \in 1 .. k - 1} = {F(e) : e \in ToSet(executables)}
      BY <2>2
    <3> QED BY <1>4, <1>6, <3>1
  <2>4. Needs' = Needs
    BY <1>1, <2>1, SameNeeds
  <2> QED BY <1>2, <1>7, <2>1, <2>3, <2>4 DEF NeedsListed
<1>11. CASE resolve_paths_in_array
  <2>1. pass = "resolve_dirs" /\ pass' = "resolve_dirs" /\ UNCHANGED <<executables, file_copies>>
    BY <1>11 DEF resolve_paths_in_array, Goto
  <2>2. Needs' = Needs
    BY <1>1, <2>1, SameNeeds
  <2> QED BY <1>2, <1>7, <2>1, <2>2 DEF NeedsListed
<1>12. CASE ~(ReadFileCopies \/ AddExecutable \/ AllExecutablesAdded \/ resolve_paths_in_array)
  <2>1. pass' \notin {"dependencies", "resolve_dirs"}
    BY <1>12 DEF Next, ReadSettings, ReadDirectories, ReadExecutables, AllDirectoriesResolved, ResolveSrc,
      ResolveDst, Resolve, AllCopiesResolved, ReadSymlinks, SortDirectories, SortSymlinks, SortFileCopies,
      write_output_config, Goto
  <2> QED BY <2>1 DEF NeedsListed
<1> QED BY <1>8, <1>9, <1>10, <1>11, <1>12

LEMMA NeedsFollowedStep ==
    ASSUME CopyInv, NeedsListed, NeedsFollowed, Next
    PROVE  NeedsFollowed'
<1>1. TypeOK /\ InputKept /\ CopiesTraced
  BY DEF CopyInv, ListInv
<1> SUFFICES ASSUME pass' \in {"resolve_src", "resolve_dst"}, ~full', NoSharedBeginning', NEW p \in Needs'
             PROVE  (\E c \in ToSet(file_copies) :
                       /\ Follows(c, Itself(p))
                       /\ Moves(p) /\ c.src # p => [sym |-> p, dst |-> realpath(host, p)] \in ToSet(symlinks))'
  BY DEF NeedsFollowed
<1>2. ~full /\ Len(symlinks') < MAX_SYMLINKS
  BY <1>1, RoomLeft
<1>3. AllDirectoriesResolved \/ ResolveSrc \/ ResolveDst
  BY DEF Next, ReadSettings, ReadDirectories, ReadExecutables, ReadFileCopies, AddExecutable,
    AllExecutablesAdded, resolve_paths_in_array, AllCopiesResolved, ReadSymlinks, SortDirectories,
    SortSymlinks, SortFileCopies, write_output_config, Goto
<1>4. UNCHANGED executables
  BY <1>3 DEF AllDirectoriesResolved, ResolveSrc, ResolveDst, Resolve
<1>5. p \in Needs /\ host' = host /\ NoSharedBeginning /\ (Moves(p)' <=> Moves(p))
  BY <1>1, <1>4, SameNeeds
<1>6. \A c : Follows(c, Itself(p))' <=> Follows(c, Itself(p))
  BY <1>5 DEF Follows, Itself
<1>7. \E c \in ToSet(file_copies') :
         /\ Follows(c, Itself(p))
         /\ Moves(p) /\ c.src # p => [sym |-> p, dst |-> realpath(host, p)] \in ToSet(symlinks')
  <2>1. CASE AllDirectoriesResolved
    <3>1. pass = "resolve_dirs" /\ UNCHANGED file_copies
      BY <2>1 DEF AllDirectoriesResolved
    <3>2. Itself(p) \in ToSet(file_copies)
      BY <1>2, <1>5, <3>1 DEF NeedsListed
    <3>3. Follows(Itself(p), Itself(p)) /\ Itself(p).src = p
      BY DEF Follows, Itself
    <3> QED BY <3>1, <3>2, <3>3
  <2>2. CASE ResolveSrc \/ ResolveDst
    <3>1. PICK field, old : Replaced(field, old)
      BY <1>1, <1>5, <2>2, CopiesReplaced
    <3>2. file_copies' \in Seq([src : Path, dst : Path]) /\ file_copies \in Seq([src : Path, dst : Path])
      BY <1>1, ArraysStep DEF ArraysOK, TypeOK
    <3>3. pass \in {"resolve_src", "resolve_dst"} /\ ToSet(symlinks) \subseteq ToSet(symlinks')
      BY <1>1, <2>2, CopyRound
    <3>4. PICK c \in ToSet(file_copies) :
            /\ Follows(c, Itself(p))
            /\ Moves(p) /\ c.src # p => [sym |-> p, dst |-> realpath(host, p)] \in ToSet(symlinks)
      BY <1>2, <1>5, <3>3 DEF NeedsFollowed
    <3>5. PICK j \in 1 .. Len(file_copies) : c = file_copies[j]
      BY <3>2, <3>4, SetOfSeq
    <3>6. Itself(p) \in [src : Path, dst : Path]
      BY <1>1, <1>5, NeedFacts, AskedPaths
    <3> DEFINE d == file_copies'[j]
    <3>7. Follows(d, Itself(p)) /\ d \in ToSet(file_copies')
      BY <1>1, <3>1, <3>2, <3>4, <3>5, <3>6, CopiesFollowOn
    <3>8. ASSUME Moves(p), d.src # p PROVE [sym |-> p, dst |-> realpath(host, p)] \in ToSet(symlinks')
      <4>1. CASE c.src # p
        BY <3>3, <3>4, <3>8, <4>1
      <4>2. CASE c.src = p
        <5>1. d.src # c.src => Moves(old) /\ c.src = old
          BY <3>1, <3>5 DEF Replaced
        <5>2. Moves(old) /\ old = p
          BY <3>8, <4>2, <5>1
        <5> QED BY <1>2, <3>1, <5>2 DEF Replaced
      <4> QED BY <4>1, <4>2
    <3> HIDE DEF d
    <3> QED BY <3>7, <3>8
  <2> QED BY <1>3, <2>1, <2>2
<1> QED BY <1>5, <1>6, <1>7

(* Behind the last entry no source moves: the path of a need that does was    *)
(* replaced, and kept as a link.                                              *)
LEMMA NeedsLinkedStep ==
    ASSUME CopyInv, NeedsFollowed, NeedsLinked, Next
    PROVE  NeedsLinked'
<1>1. TypeOK /\ InputKept /\ CopiesTraced /\ CopiesSettled
  BY DEF CopyInv, ListInv
<1> SUFFICES ASSUME pass' \in {"symlinks", "sort_directories", "sort_symlinks"}, ~full',
                    NoSharedBeginning', NEW p \in Needs', Moves(p)'
             PROVE  [sym |-> p, dst |-> realpath(host, p)]' \in ToSet(symlinks')
  BY DEF NeedsLinked
<1>2. ~full
  BY <1>1, RoomLeft
<1>3. AllCopiesResolved \/ ReadSymlinks \/ SortDirectories
  BY DEF Next, ReadSettings, ReadDirectories, ReadExecutables, ReadFileCopies, AddExecutable,
    AllExecutablesAdded, resolve_paths_in_array, AllDirectoriesResolved, ResolveSrc, ResolveDst, Resolve,
    SortSymlinks, SortFileCopies, write_output_config, Goto
<1>4. UNCHANGED executables
  BY <1>3 DEF AllCopiesResolved, ReadSymlinks, SortDirectories
<1>5. p \in Needs /\ host' = host /\ NoSharedBeginning /\ Moves(p)
  BY <1>1, <1>4, SameNeeds
<1>6. CASE AllCopiesResolved
  <2>1. pass = "resolve_src" /\ UNCHANGED <<file_copies, symlinks>> /\ pass' \in AfterCopies
    BY <1>6 DEF AllCopiesResolved, Goto, AfterCopies, AfterDirs
  <2>2. PICK c \in ToSet(file_copies) :
          /\ Follows(c, Itself(p))
          /\ Moves(p) /\ c.src # p => [sym |-> p, dst |-> realpath(host, p)] \in ToSet(symlinks)
    BY <1>2, <1>5, <2>1 DEF NeedsFollowed
  <2>3. ~Moves(c.src)
    <3>1. CopiesSettled'
      BY <1>1, CopiesSettledStep
    <3>2. ~Moves(c.src)'
      BY <2>1, <3>1 DEF CopiesSettled, Settled
    <3> QED BY <1>5, <3>2 DEF Moves
  <2> QED BY <1>5, <2>1, <2>2, <2>3
<1>7. CASE ReadSymlinks \/ SortDirectories
  <2>1. pass \in {"symlinks", "sort_directories"}
    BY <1>7 DEF ReadSymlinks, SortDirectories
  <2>2. ToSet(symlinks) \subseteq ToSet(symlinks')
    <3>1. CASE ReadSymlinks
      <4>1. config.symlinks \in Seq([sym : Path, dst : Path])
        BY <1>1, InputFacts DEF IsConfig
      <4>2. symlinks' = AddedAll(symlinks, config.symlinks, MAX_SYMLINKS)
        BY <3>1 DEF ReadSymlinks
      <4> QED BY <1>1, <4>1, <4>2, LinksKept
    <3>2. CASE SortDirectories
      BY <3>2 DEF SortDirectories
    <3> QED BY <1>7, <3>1, <3>2
  <2> QED BY <1>2, <1>5, <2>1, <2>2 DEF NeedsLinked
<1> QED BY <1>3, <1>6, <1>7

(* Where a path leads, of what does not move. *)
LEMMA UnmovedFollows ==
    ASSUME NEW p, NEW x, x \in {p, realpath(host, p)}, realpath(host, p) # Missing, ~Moves(x)
    PROVE  x = realpath(host, p)
<1> QED BY DEF Moves

(* Of the copies to one place the sort keeps any, but all have one source.    *)
LEMMA NeedsCopiedStep ==
    ASSUME CopyInv, CopiesFollow, NeedsFollowed, NeedsCopied, Next
    PROVE  NeedsCopied'
<1> DEFINE X == [src : Path, dst : Path]
<1>1. TypeOK /\ InputKept /\ CopiesTraced /\ CopiesSettled /\ file_copies \in Seq(X) /\ IsHost(host)
  BY InputFacts DEF CopyInv, ListInv, TypeOK
<1> SUFFICES ASSUME pass' \in AfterCopies, ~full', NoSharedBeginning', OneSource', NEW p \in Needs',
                    Exists(host, p)'
             PROVE  Itself(realpath(host, p))' \in ToSet(file_copies')
  BY DEF NeedsCopied
<1>2. ~full
  BY <1>1, RoomLeft
<1>3. AllCopiesResolved \/ SortFileCopies \/ (pass \in AfterCopies /\ UNCHANGED <<executables, file_copies>>)
  BY DEF Next, ReadSettings, ReadDirectories, ReadExecutables, ReadFileCopies, AddExecutable,
    AllExecutablesAdded, resolve_paths_in_array, AllDirectoriesResolved, ResolveSrc, ResolveDst, Resolve,
    ReadSymlinks, SortDirectories, SortSymlinks, write_output_config, Goto, AfterCopies, AfterDirs
<1>4. UNCHANGED executables
  BY <1>3 DEF AllCopiesResolved, SortFileCopies
<1>5. p \in Needs /\ host' = host /\ NoSharedBeginning /\ OneSource /\ Exists(host, p)
  BY <1>1, <1>4, SameNeeds
<1> DEFINE P == realpath(host, p)
<1>6. P = realpath(host, p) /\ P # Missing /\ p \in Path /\ Itself(p) \in Asked
  BY <1>1, <1>5, NeedFacts DEF Exists
<1>7. P \in Path /\ realpath(host, P) = P
  BY <1>1, <1>6, RealpathRange
<1>8. Itself(P)' = Itself(P) /\ realpath(host, p)' = P
  BY <1>5 DEF Itself
<1> HIDE DEF P
<1>9. \A c \in X : c.src = P /\ c.dst = P => c = Itself(P)
  BY DEF Itself
<1>10. \A c \in ToSet(file_copies) : c \in X
  BY <1>1, SetOfSeq
<1> HIDE DEF X
<1>11. CASE AllCopiesResolved
  <2>1. pass = "resolve_src" /\ UNCHANGED file_copies /\ pass' \in AfterCopies
    BY <1>11 DEF AllCopiesResolved, Goto, AfterCopies, AfterDirs
  <2>2. PICK c \in ToSet(file_copies) : Follows(c, Itself(p))
    BY <1>2, <1>5, <2>1 DEF NeedsFollowed
  <2>3. c.src \in {p, P} /\ c.dst \in {p, P}
    BY <1>6, <2>2 DEF Follows, Itself
  <2>4. ~Moves(c.src) /\ ~Moves(c.dst)
    <3>1. CopiesSettled'
      BY <1>1, CopiesSettledStep
    <3>2. ~Moves(c.src)' /\ ~Moves(c.dst)'
      BY <2>1, <3>1 DEF CopiesSettled, Settled
    <3> QED BY <1>5, <3>2 DEF Moves
  <2>5. c.src = P /\ c.dst = P
    BY <1>6, <2>3, <2>4, UnmovedFollows
  <2> QED BY <1>8, <1>9, <1>10, <2>1, <2>5 DEF Itself
<1>12. CASE pass \in AfterCopies /\ UNCHANGED <<executables, file_copies>>
  BY <1>2, <1>5, <1>6, <1>8, <1>12 DEF NeedsCopied, Itself
<1>13. CASE SortFileCopies
  <2>1. pass \in AfterCopies /\ pass \in AfterDirs
    BY <1>13 DEF SortFileCopies, AfterCopies, AfterDirs
  <2>2. Itself(P) \in ToSet(file_copies)
    BY <1>2, <1>5, <1>6, <2>1 DEF NeedsCopied
  <2> DEFINE t == file_copies'
  <2>3. t \in SortedUnique(file_copies, LAMBDA c : c.dst)
    BY <1>13 DEF SortFileCopies
  <2> HIDE DEF t
  <2>4. ToSet(t) \subseteq ToSet(file_copies) /\ \A c \in ToSet(file_copies) : \E d \in ToSet(t) : d.dst = c.dst
    BY <1>1, <2>3, CopiesSorted DEF X
  <2>5. PICK d \in ToSet(t) : d.dst = P
    BY <2>2, <2>4 DEF Itself
  <2>6. d \in ToSet(file_copies) /\ d \in X
    BY <1>10, <2>4
  <2>7. PICK a \in Asked : Follows(d, a)
    BY <1>5, <2>1, <2>6 DEF CopiesFollow
  <2>8. realpath(host, a.dst) = P
    BY <1>7, <2>5, <2>7 DEF Follows
  <2>9. a.src = p
    <3>1. Itself(p).src = p /\ Itself(p).dst = p
      BY DEF Itself
    <3> QED BY <1>5, <1>6, <2>8, <3>1 DEF OneSource
  <2>10. d.src \in {p, P}
    BY <1>6, <2>7, <2>9 DEF Follows
  <2>11. ~Moves(d.src)
    BY <1>1, <1>5, <2>1, <2>6 DEF CopiesSettled, Settled
  <2>12. d.src = P
    BY <1>6, <2>10, <2>11, UnmovedFollows
  <2>13. Itself(P) \in ToSet(t)
    BY <1>9, <2>5, <2>6, <2>12
  <2> QED BY <1>8, <2>13 DEF t, Itself
<1> QED BY <1>3, <1>11, <1>12, <1>13

(* A directory or a file of the host is in its place. *)
LEMMA ListedPlace ==
    ASSUME IsHost(host), NEW s \in host.dirs \cup host.files
    PROVE  Place(s) = s
<1>1. s \in Path /\ realpath(host, s) = s /\ s # Missing
  BY HostFacts, RealpathListed
<1> DEFINE up == Parent(s)
<1>2. Place(s) = s \/ PlaceIn(s, up, realpath(host, up))
  BY <1>1, PlaceFacts
<1> HIDE DEF up
<1>3. CASE PlaceIn(s, up, realpath(host, up))
  <2>1. up \in Path /\ IsPrefix(up \o Slash, s)
    BY <1>3 DEF PlaceIn
  <2>2. up \in Lineage(s)
    BY <1>1, <2>1, UnderFacts
  <2>3. up \in host.dirs \cup host.files
    BY <2>2, HostFacts
  <2>4. realpath(host, up) = up
    BY <2>3, RealpathListed
  <2>5. Place(s) = Rewrite(s, up \o Slash, up \o Slash)
    BY <1>3, <2>4 DEF PlaceIn
  <2> QED BY <1>1, <2>1, <2>5, RewrittenToItself
<1> QED BY <1>2, <1>3

(* The sorted and fixed links have those of the host that LinksFound asks for. *)
LEMMA LinksMet ==
    ASSUME CopyInv, LinksListed, NeedsLinked, SortSymlinks, ~full,
           NoSharedBeginning, PlainLinks, LinksAgree,
           NEW y \in AskedDirectories \cup Needs, Exists(host, y), Place(y) \in DOMAIN host.links
    PROVE  \E l \in ToSet(symlinks') : l.sym = Place(y)
<1> DEFINE Y == [sym : Path, dst : Path]
           G == HostLinks(host)
<1>1. /\ TypeOK /\ InputKept /\ IsHost(host) /\ symlinks \in Seq(Y)
      /\ pass = "sort_symlinks" /\ ToSet(symlinks) \subseteq G
  BY InputFacts DEF CopyInv, ListInv, TypeOK, SortSymlinks, LinksLead
<1>2. PICK links \in SortedUnique(symlinks, LAMBDA l : l.sym) : symlinks' = fix_symlinks(links)
  BY DEF SortSymlinks
<1>3. /\ links \in Seq(Y) /\ ToSet(links) \subseteq ToSet(symlinks)
      /\ \A i, j \in 1 .. Len(links) : i < j => Before(links[i].sym, links[j].sym)
      /\ \A l \in ToSet(symlinks) : \E i \in 1 .. Len(links) : links[i].sym = l.sym
  BY <1>1, <1>2, LinksSorted
<1> DEFINE N == Len(links)
<1>4. N \in Nat /\ \A j \in 1 .. N : links[j] \in ToSet(symlinks)
  BY <1>3, LenProperties, SetOfSeq
<1>5. links \in Seq(G)
  <2>1. links = [i \in 1 .. N |-> links[i]] /\ links \in [1 .. N -> G]
    BY <1>1, <1>3, <1>4, LenProperties
  <2> QED BY <1>4, <2>1, SeqDef
<1>6. \A l, m \in G : Relinked(l, m) \in G
  BY <1>1, RelinkedHostLinks
<1> HIDE DEF G
<1> DEFINE t == fix_symlinks(links)
<1>7. PICK f : FixRounds(f, links, G) /\ KeptFrom(t, f[N], N, G)
  BY <1>5, <1>6, FixedLinks
<1> HIDE DEF t
<1>8. /\ y \in Path /\ Parent(y) \in {Slash} \cup AskedDirectories
      /\ y \in AskedDirectories \/ y \in Needs
  BY <1>1, AskedFacts, NeedFacts
<1>9. /\ realpath(host, Place(y)) = realpath(host, y) /\ realpath(host, y) # Missing
      /\ realpath(host, Place(y)) = host.links[Place(y)] /\ host.links[Place(y)] # Place(y)
  BY <1>1, <1>8, PlaceFacts, LinkLeads DEF Exists
<1>10. ASSUME NEW z \in AskedDirectories \cap DOMAIN host.links PROVE \E i \in 1 .. N : links[i].sym = z
  <2>1. [sym |-> z, dst |-> host.links[z]] \in ToSet(symlinks)
    BY <1>1 DEF LinksListed, Resolving
  <2> QED BY <1>3, <2>1
<1>11. \E l \in ToSet(symlinks) : l.sym = y
  <2>1. CASE y \in AskedDirectories
    <3>1. y \in DOMAIN host.links
      BY <2>1 DEF PlainLinks
    <3>2. [sym |-> y, dst |-> host.links[y]] \in ToSet(symlinks)
      BY <1>1, <2>1, <3>1 DEF LinksListed, Resolving
    <3> QED BY <3>2
  <2>2. CASE y \in Needs
    <3>1. Moves(y)
      <4>1. SUFFICES ASSUME realpath(host, y) = y PROVE FALSE
        BY <1>9 DEF Moves
      <4>2. y \in host.dirs \cup host.files
        BY <1>1, <1>8, <1>9, <4>1, RealpathRange
      <4>3. Place(y) = y
        BY <1>1, <4>2, ListedPlace
      <4> QED BY <1>9, <4>1, <4>3
    <3>2. [sym |-> y, dst |-> realpath(host, y)] \in ToSet(symlinks)
      BY <1>1, <2>2, <3>1 DEF NeedsLinked
    <3> QED BY <3>2
  <2> QED BY <1>8, <2>1, <2>2
<1>12. PICK j \in 1 .. N : links[j].sym = y
  BY <1>3, <1>11
<1>13. f[N][j] \in G /\ f[N][j].sym = Place(y)
  <2>1. /\ links \in Seq(HostLinks(host)) /\ FixRounds(f, links, HostLinks(host))
        /\ \A i, m \in 1 .. Len(links) : i < m => Before(links[i].sym, links[m].sym)
        /\ \A z \in AskedDirectories \cap DOMAIN host.links : \E i \in 1 .. Len(links) : links[i].sym = z
    BY <1>3, <1>5, <1>7, <1>10 DEF G
  <2>2. f[N][j] \in HostLinks(host) /\
            (Parent(links[j].sym) \in {Slash} \cup AskedDirectories => f[N][j].sym = Place(links[j].sym))
    BY <1>1, <2>1, FixedInPlace
  <2> QED BY <1>8, <1>12, <2>2 DEF G
<1>14. f[N][j].sym # f[N][j].dst
  BY <1>9, <1>13 DEF G, HostLinks
<1>15. PICK i \in 1 .. Len(t) : t[i] = f[N][j]
  BY <1>7, <1>14 DEF KeptFrom
<1>16. t[i] \in ToSet(t)
  <2>1. t \in Seq({l \in G : l.sym # l.dst})
    BY <1>7 DEF KeptFrom
  <2> QED BY <2>1, SetOfSeq
<1>17. symlinks' = t
  BY <1>2 DEF t
<1> QED BY <1>13, <1>15, <1>16, <1>17

LEMMA LinksFoundStep ==
    ASSUME CopyInv, LinksListed, NeedsLinked, LinksFound, Next
    PROVE  LinksFound'
<1>1. TypeOK /\ InputKept
  BY DEF CopyInv, ListInv
<1> SUFFICES ASSUME pass' \in AfterLinks, ~full', NoSharedBeginning', PlainLinks', LinksAgree',
                    NEW y \in (AskedDirectories \cup Needs)', Exists(host, y)',
                    (Place(y) \in DOMAIN host.links)'
             PROVE  (\E l \in ToSet(symlinks) : l.sym = Place(y))'
  BY DEF LinksFound
<1>2. ~full
  BY <1>1, RoomLeft
<1>3. SortSymlinks \/ (pass \in AfterLinks /\ UNCHANGED <<executables, symlinks>>)
  BY DEF Next, ReadSettings, ReadDirectories, ReadExecutables, ReadFileCopies, AddExecutable,
    AllExecutablesAdded, resolve_paths_in_array, AllDirectoriesResolved, ResolveSrc, ResolveDst, Resolve,
    AllCopiesResolved, ReadSymlinks, SortDirectories, SortFileCopies, write_output_config, Goto, AfterLinks
<1>4. UNCHANGED executables
  BY <1>3 DEF SortSymlinks
<1>5. /\ Needs' = Needs /\ AskedDirectories' = AskedDirectories /\ host' = host
      /\ NoSharedBeginning /\ PlainLinks /\ LinksAgree
  BY <1>1, <1>4, SameNeeds, SameLinks
<1>6. Place(y)' = Place(y)
  BY <1>5 DEF Place
<1>7. y \in AskedDirectories \cup Needs /\ Exists(host, y) /\ Place(y) \in DOMAIN host.links
  BY <1>5, <1>6 DEF Exists
<1>8. CASE SortSymlinks
  BY <1>2, <1>5, <1>6, <1>7, <1>8, LinksMet
<1>9. CASE pass \in AfterLinks /\ UNCHANGED <<executables, symlinks>>
  BY <1>2, <1>5, <1>6, <1>7, <1>9 DEF LinksFound
<1> QED BY <1>3, <1>8, <1>9

LEMMA NeedInvInit ==
    ASSUME Init
    PROVE  NeedInv
<1>1. LinkInv
  BY LinkInvInit
<1>2. pass = "settings"
  BY DEF Init
<1> QED BY <1>1, <1>2 DEF NeedInv, CopiesFollow, NeedsListed, NeedsFollowed, NeedsLinked, NeedsCopied,
    LinksFound, AfterDirs, AfterCopies, AfterLinks

LEMMA NeedInvStep ==
    ASSUME NeedInv, [Next]_vars
    PROVE  NeedInv'
<1>1. LinkInv'
  BY LinkInvStep DEF NeedInv
<1>2. CASE Next
  <2>1. CopyInv /\ LinksListed
    BY DEF NeedInv, LinkInv
  <2> QED BY <1>1, <1>2, <2>1, CopiesFollowStep, NeedsListedStep, NeedsFollowedStep, NeedsLinkedStep,
        NeedsCopiedStep, LinksFoundStep DEF NeedInv
<1>3. CASE UNCHANGED vars
  <2>1. /\ config' = config /\ host' = host /\ pass' = pass /\ k' = k /\ full' = full
        /\ executables' = executables /\ file_copies' = file_copies /\ symlinks' = symlinks
    BY <1>3 DEF vars, input
  <2>2. Needs' = Needs /\ NeedsRead' = NeedsRead
    BY <2>1 DEF Needs, NeedsRead, Dependencies
  <2>3. Asked' = Asked
    BY <2>1, <2>2 DEF Asked
  <2>4. Sources' = Sources /\ Targets' = Targets
    BY <2>3 DEF Sources, Targets
  <2>5. /\ \A q : (Listed(q)' = Listed(q)) /\ (Place(q)' = Place(q)) /\ (Moves(q)' <=> Moves(q))
        /\ \A c, a : Follows(c, a)' <=> Follows(c, a)
        /\ \A q : Itself(q)' = Itself(q)
    BY <2>1 DEF Listed, Place, Moves, Follows, Itself
  <2>6. AskedDirectories' = AskedDirectories
    BY <2>1, <2>4, <2>5 DEF AskedDirectories
  <2>7. NoSharedBeginning' <=> NoSharedBeginning
    BY <2>1, <2>4, <2>5 DEF NoSharedBeginning
  <2>8. (OneSource' <=> OneSource) /\ (LinksAgree' <=> LinksAgree)
    BY <2>1, <2>3 DEF OneSource, LinksAgree
  <2>9. PlainLinks' <=> PlainLinks
    BY <2>1, <2>5, <2>6 DEF PlainLinks
  <2>10. CopiesFollow'
    BY <2>1, <2>3, <2>5, <2>7 DEF NeedInv, CopiesFollow
  <2>11. NeedsListed'
    BY <2>1, <2>2, <2>5 DEF NeedInv, NeedsListed
  <2>12. NeedsFollowed'
    BY <2>1, <2>2, <2>5, <2>7 DEF NeedInv, NeedsFollowed
  <2>13. NeedsLinked'
    BY <2>1, <2>2, <2>5, <2>7 DEF NeedInv, NeedsLinked
  <2>14. NeedsCopied'
    BY <2>1, <2>2, <2>5, <2>7, <2>8 DEF NeedInv, NeedsCopied, Exists, Itself
  <2>15. LinksFound'
    BY <2>1, <2>2, <2>5, <2>6, <2>7, <2>8, <2>9 DEF NeedInv, LinksFound, Exists
  <2> QED BY <1>1, <2>10, <2>11, <2>12, <2>13, <2>14, <2>15 DEF NeedInv
<1> QED BY <1>2, <1>3

(* The inductive invariant of the theorem below (configer.c:190-668).        *)
THEOREM NeedInvariant == Spec => []NeedInv
<1> QED BY NeedInvInit, NeedInvStep, PTL DEF Spec

(* The links of the sandbox are those that are listed. *)
LEMMA SandboxLinks ==
    ASSUME NEW q
    PROVE  /\ q \in DOMAIN Sandbox.links <=> \E l \in ToSet(symlinks) : l.sym = q
           /\ q \in DOMAIN Sandbox.links =>
                \E l \in ToSet(symlinks) : l.sym = q /\ Sandbox.links[q] = l.dst
<1> DEFINE S == {l.sym : l \in ToSet(symlinks)}
           target(x) == CHOOSE l \in ToSet(symlinks) : l.sym = x
<1>1. Sandbox.links = [x \in S |-> target(x).dst]
  BY DEF Sandbox
<1>2. q \in S <=> \E l \in ToSet(symlinks) : l.sym = q
  OBVIOUS
<1>3. q \in S => target(q) \in ToSet(symlinks) /\ target(q).sym = q
  OBVIOUS
<1> HIDE DEF S, target
<1> QED BY <1>1, <1>2, <1>3

(* Each component of the path of a need is in the sandbox what it is on the host. *)
LEMMA WayKept ==
    ASSUME NeedInv, Complete, NoSharedBeginning, PlainLinks, OneSource, LinksAgree,
           NEW p \in Needs, Exists(host, p), NEW y \in Lineage(p)
    PROVE  Enter(Sandbox, Place(y)) = Enter(host, Place(y))
<1>1. /\ CopyInv /\ TypeOK /\ InputKept /\ IsHost(host) /\ LinksLead /\ ~full
      /\ pass \in AfterLinks /\ pass \in AfterCopies /\ pass \in AfterDirs
  BY InputFacts DEF NeedInv, LinkInv, CopyInv, ListInv, Complete, AfterLinks, AfterCopies, AfterDirs
<1>2. /\ p \in Path /\ p \in Targets /\ realpath(host, p) # Missing /\ y \in Path
      /\ realpath(host, y) # Missing
  BY <1>1, NeedFacts, LineageFacts, ExistsAbove DEF Exists
<1>3. y = p \/ y \in AskedDirectories
  <2>1. CASE Parent(p) = Slash /\ Lineage(p) = {p}
    BY <2>1
  <2>2. CASE Parent(p) \in Path /\ Lineage(p) = {p} \cup Lineage(Parent(p))
    <3>1. Parent(p) \in AskedDirectories
      <4>1. Slash \notin Path
        BY PathFacts DEF Slash
      <4> QED BY <1>1, <1>2, <2>2, <4>1, AskedFacts
    <3>2. Lineage(Parent(p)) \subseteq AskedDirectories
      BY <1>1, <3>1, AskedFacts DEF WithParents
    <3> QED BY <2>2, <3>2
  <2> QED BY <1>2, <2>1, <2>2, ParentFacts
<1> DEFINE q == Place(y)
<1>4. q = Place(y) /\ q \in Path /\ realpath(host, q) = realpath(host, y)
  BY <1>1, <1>2, PlaceFacts
<1>5. q \notin DOMAIN host.links => realpath(host, y) = q
  BY <1>1, <1>2, PlaceIsLink
<1> HIDE DEF q
<1>6. CASE q \in DOMAIN host.links
  <2>1. \E l \in ToSet(symlinks) : l.sym = q
    BY <1>1, <1>2, <1>3, <1>4, <1>6 DEF NeedInv, LinksFound, Exists
  <2>2. q \in DOMAIN Sandbox.links
    BY <2>1, SandboxLinks
  <2>3. PICK l \in ToSet(symlinks) : l.sym = q /\ Sandbox.links[q] = l.dst
    BY <2>2, SandboxLinks
  <2>4. l \in HostLinks(host)
    BY <1>1, <2>3 DEF LinksLead
  <2>5. realpath(host, q) = Sandbox.links[q]
    BY <2>3, <2>4 DEF HostLinks
  <2>6. realpath(host, q) = host.links[q]
    BY <1>1, <1>6, LinkLeads
  <2> QED BY <1>4, <1>6, <2>2, <2>5, <2>6 DEF Enter
<1>7. CASE q \notin DOMAIN host.links
  <2>1. realpath(host, y) = q /\ realpath(host, q) = q
    BY <1>4, <1>5, <1>7
  <2>2. q \in host.dirs \cup host.files
    BY <1>1, <1>2, <2>1, RealpathRange
  <2>3. q \notin DOMAIN Sandbox.links
    <3>1. ~Moves(q)
      BY <2>1 DEF Moves
    <3> QED BY <1>1, <3>1, LinksMove
  <2>4. q \in Sandbox.dirs \cup Sandbox.files
    <3>1. CASE y = p
      <4>1. Itself(q) \in ToSet(file_copies)
        BY <1>1, <2>1, <3>1 DEF NeedInv, NeedsCopied
      <4>2. Itself(q).dst = q
        BY DEF Itself
      <4>3. q \in {c.dst : c \in ToSet(file_copies)}
        BY <4>1, <4>2
      <4> QED BY <4>3 DEF Sandbox
    <3>2. CASE y \in AskedDirectories
      <4>1. PICK d \in ToSet(directories) : realpath(host, d) = q
        BY <1>1, <1>2, <2>1, <3>2 DEF NeedInv, LinkInv, AskedListed, Exists
      <4>2. ~Moves(d)
        <5>1. directories \in Seq(Path)
          BY <1>1 DEF TypeOK
        <5>2. \A j \in 1 .. Len(directories) : ~Moves(directories[j])
          BY <1>1 DEF CopyInv, ListInv, DirectoriesResolved
        <5> QED BY <5>1, <5>2, SetOfSeq
      <4>3. d = q
        BY <1>2, <2>1, <4>1, <4>2 DEF Moves
      <4> QED BY <4>3 DEF Sandbox
    <3> QED BY <1>3, <3>1, <3>2
  <2> QED BY <1>4, <1>7, <2>2, <2>3, <2>4 DEF Enter
<1> QED BY <1>6, <1>7

(* For a configuration that keeps to the preconditions, each executable and   *)
(* each library, looked up in the sandbox by the path by which it was asked   *)
(* for, is a copy of the file that this path is on the host: every link on    *)
(* the way is a link of the sandbox by then and leads where it leads on the   *)
(* host, every directory on the way is listed where it is, and of the copies  *)
(* to that place the sort keeps one from the same file (configer.c:190-225,   *)
(* 314-446, 565-668).                                                         *)
THEOREM NeedsAreFound == Spec => []EveryNeedFound
<1>1. ASSUME NeedInv PROVE EveryNeedFound
  <2>1. SUFFICES ASSUME Complete, NoSharedBeginning, PlainLinks, OneSource, LinksAgree,
                        NEW p \in Needs, Exists(host, p)
                 PROVE  [src |-> realpath(host, p), dst |-> realpath(Sandbox, p)] \in ToSet(file_copies)
    BY DEF EveryNeedFound
  <2>2. /\ TypeOK /\ InputKept /\ IsHost(host) /\ LinksLead /\ ~full /\ pass \in AfterCopies
    BY <1>1, <2>1, InputFacts DEF NeedInv, LinkInv, CopyInv, ListInv, Complete, AfterCopies, AfterDirs
  <2>3. p \in Path
    BY <2>2, NeedFacts
  <2>4. \A l \in DOMAIN Sandbox.links : Sandbox.links[l] \in Seq(Piece)
    <3>1. SUFFICES ASSUME NEW x \in DOMAIN Sandbox.links PROVE Sandbox.links[x] \in Seq(Piece)
      OBVIOUS
    <3>2. PICK l \in ToSet(symlinks) : l.sym = x /\ Sandbox.links[x] = l.dst
      BY SandboxLinks
    <3>3. l \in [sym : Path, dst : Path]
      BY <2>2, SetOfSeq DEF TypeOK
    <3> QED BY <3>2, <3>3, PathStrings
  <2> DEFINE fs == Sandbox
  <2>5. \A y \in Lineage(p) : Enter(fs, Place(y)) = Enter(host, Place(y))
    BY <1>1, <2>1, WayKept
  <2>6. \A l \in DOMAIN fs.links : fs.links[l] \in Seq(Piece)
    BY <2>4
  <2> HIDE DEF fs
  <2>7. realpath(fs, p) = realpath(host, p)
    BY <2>2, <2>3, <2>5, <2>6, SameWay
  <2>8. Itself(realpath(host, p)) \in ToSet(file_copies)
    BY <1>1, <2>1, <2>2 DEF NeedInv, NeedsCopied
  <2> QED BY <2>7, <2>8 DEF fs, Itself
<1> QED BY <1>1, NeedInvariant, PTL
=============================================================================
