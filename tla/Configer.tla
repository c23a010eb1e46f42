------------------------------ MODULE Configer ------------------------------
(* The configuration maker, src/configer/configer.c: it reads a base          *)
(* configuration, adds the libraries of each executable, replaces the paths   *)
(* by the ones the host's symbolic links lead to, keeps the links themselves, *)
(* and writes the lists from which a jailor builds a root directory.          *)
(*                                                                            *)
(* A path is a sequence of "/" and pieces of names: the program compares      *)
(* paths as strings, and "lib" begins "lib64" although it is no parent of it. *)
(*                                                                            *)
(* realpath(3) resolves "." and ".." too.  Here they are names like any other *)
(* (Enter): configurations and hosts are taken to have no such component.    *)
EXTENDS Naturals, FiniteSets, Sequences, SequencesExt

CONSTANTS
    Configs,    \* base configurations: [complete, directories, executables,
                \*   root_process, file_copies, symlinks], paths absolute
    Hosts,      \* file systems: [dirs, files: sets of paths without links on their
                \*   way, links: link -> where it finally leads, ldd: executable -> paths]
    Letters,    \* "/" and the pieces of names, in the order of strcmp
    MAX_DIRECTORIES, MAX_EXECUTABLES, MAX_FILE_COPIES, MAX_SYMLINKS

ASSUME BoundsAssumption ==
    \A max \in {MAX_DIRECTORIES, MAX_EXECUTABLES, MAX_FILE_COPIES, MAX_SYMLINKS} :
       max \in Nat \ {0}

ASSUME LettersAssumption ==
    /\ Letters \in Seq(STRING)
    /\ \A i, j \in DOMAIN Letters : Letters[i] = Letters[j] => i = j

VARIABLES
    config, host,                   \* the input, never changed
    pass,                           \* which loop of main runs
    k,                              \* its index, from 1
    count,                          \* the length it was called with, by value
    directories, executables, file_copies, symlinks,
    full                            \* history: an array has had no room left

input == <<config, host>>
vars == <<input, pass, k, count, directories, executables, file_copies, symlinks, full>>

Passes == {"settings", "directories", "executables", "file_copies", "dependencies", "resolve_dirs",
           "resolve_src", "resolve_dst", "symlinks", "sort_directories", "sort_symlinks",
           "sort_file_copies", "write", "written", "failed"}

----------------------------------------------------------------------------
(* A finite set as a sequence: before each element are those less than it. *)
InOrder(S, Less(_, _)) ==
    [i \in 1 .. Cardinality(S) |->
       CHOOSE e \in S : Cardinality({x \in S : Less(x, e)}) = i - 1]

(* Paths.                                                                   *)

Slash == <<"/">>
Missing == <<"?">>

(* An absolute path but "/": no component is empty. *)
Path ==
    {p \in Seq(ToSet(Letters)) :
       /\ Len(p) >= 2 /\ p[1] = "/" /\ p[Len(p)] # "/"
       /\ \A i \in 1 .. Len(p) - 1 : ~(p[i] = "/" /\ p[i + 1] = "/")}

(* The prefixes of a path that are paths themselves, by their length. *)
Cuts(p) == {i \in 2 .. Len(p) : i = Len(p) \/ p[i + 1] = "/"}
(* The path and its parents up to the child of "/". *)
Lineage(p) == {SubSeq(p, 1, i) : i \in Cuts(p)}
Parent(p) == SubSeq(p, 1, Max({1} \cup (Cuts(p) \ {Len(p)})))
Trimmed(p) == SubSeq(p, 1, Max({1} \cup {i \in DOMAIN p : p[i] # "/"}))

(* One component of realpath: a link leads where it leads, anything else has  *)
(* to be there.  What follows a missing component is missing.                 *)
Enter(fs, p) ==
    IF p \in DOMAIN fs.links THEN fs.links[p]
    ELSE IF p \in fs.dirs \cup fs.files THEN p ELSE Missing

realpath(fs, p) ==
    LET real[n \in 0 .. Len(p)] ==     \* what the first n pieces lead to
          IF n = 0 THEN <<>>
          ELSE IF n \in Cuts(p) THEN Enter(fs, Append(real[n - 1], p[n]))
          ELSE Append(real[n - 1], p[n])
    IN real[Len(p)]

Exists(fs, p) == realpath(fs, p) # Missing

(* strcmp(p, q) < 0: at the first difference, with a NUL behind each. *)
Code(p, i) == IF i \in DOMAIN p THEN CHOOSE c \in DOMAIN Letters : Letters[c] = p[i] ELSE 0
Before(p, q) ==
    \E i \in DOMAIN q :
       /\ Code(p, i) < Code(q, i)
       /\ \A j \in 1 .. i - 1 : Code(p, j) = Code(q, j)

(* Mutant: the character behind from is lost. *)
RewriteShort(p, from, to) ==
    IF IsPrefix(from, p) THEN to \o SubSeq(p, Len(from) + 2, Len(p)) ELSE p

(* What the program is given: paths without empty components, but that a       *)
(* directory of the configuration may end in slashes; a host on which what is  *)
(* above an entry is a directory, and where every link leads to a directory or *)
(* a file that is not "/".                                                    *)
IsConfig(c) ==
    /\ c.complete \in BOOLEAN
    /\ c.root_process \in Path
    /\ c.executables \in Seq(Path)
    /\ c.file_copies \in Seq([src : Path, dst : Path])
    /\ c.symlinks \in Seq([sym : Path, dst : Path])
    /\ c.directories \in Seq(Seq(ToSet(Letters)))
    /\ \A i \in DOMAIN c.directories :
          c.directories[i] # <<>> /\ Trimmed(c.directories[i]) \in Path \cup {Slash}
IsHost(h) ==
    /\ h.dirs \subseteq Path /\ h.files \subseteq Path /\ DOMAIN h.links \subseteq Path
    /\ h.dirs \cap h.files = {} /\ (h.dirs \cup h.files) \cap DOMAIN h.links = {}
    /\ \A p \in h.dirs \cup h.files \cup DOMAIN h.links : Lineage(p) \ {p} \subseteq h.dirs
    /\ \A l \in DOMAIN h.links : h.links[l] \in h.dirs \cup h.files
    /\ h.ldd \in [DOMAIN h.ldd -> Seq(Path)]

ASSUME InputAssumption ==
    /\ \A c \in Configs : IsConfig(c)
    /\ \A h \in Hosts : IsHost(h)

(* strncmp with from, then snprintf of to and what comes behind from. *)
Rewrite(p, from, to) ==
    IF IsPrefix(from, p) THEN to \o SubSeq(p, Len(from) + 1, Len(p)) ELSE p

----------------------------------------------------------------------------
(* The three growing arrays: an element that is there or has no room is not   *)
(* added.                                                                     *)

(* Mutant: one element too many. *)
AddedOver(s, e, max) == IF Contains(s, e) \/ Len(s) > max THEN s ELSE Append(s, e)

Added(s, e, max) == IF Contains(s, e) \/ Len(s) >= max THEN s ELSE Append(s, e)

AddedAll(s, es, max) ==
    LET added[n \in 0 .. Len(es)] == IF n = 0 THEN s ELSE Added(added[n - 1], es[n], max)
    IN added[Len(es)]

add_unique_file_copies(s, copies) == AddedAll(s, copies, MAX_FILE_COPIES)
add_unique_symlink(s, sym, dst) == Added(s, [sym |-> sym, dst |-> dst], MAX_SYMLINKS)

(* Mutant: only the directory itself, for a recursive mkdir. *)
AddDirectoryAlone(ds, path) ==
    LET dir == IF realpath(host, path) \in host.dirs THEN path ELSE Parent(path)
    IN IF dir = Slash THEN ds ELSE Added(ds, dir, MAX_DIRECTORIES)

(* The directory that a path stands for: what is no directory of the host is  *)
(* taken for a file, even if it has a slash behind it.                        *)
Listed(path) ==
    LET p == Trimmed(path) IN IF realpath(host, p) \in host.dirs THEN p ELSE Parent(p)

(* The directory is added before its parents. *)
add_directory_with_parents(ds, path) ==
    LET dir == Listed(path)
        added[n \in 0 .. Len(dir)] ==
          LET i == Len(dir) + 1 - n IN
            IF n = 0 THEN ds
            ELSE IF i \in Cuts(dir) THEN Added(added[n - 1], SubSeq(dir, 1, i), MAX_DIRECTORIES)
            ELSE added[n - 1]
    IN added[Len(dir)]

AddDirectories(ds, paths) ==
    LET added[n \in 0 .. Len(paths)] ==
          IF n = 0 THEN ds ELSE add_directory_with_parents(added[n - 1], paths[n])
    IN added[Len(paths)]

(* What ldd prints of an executable: the paths, absolute or left out. *)
Dependencies(exe) ==
    LET real == realpath(host, exe)
    IN IF real \in DOMAIN host.ldd THEN host.ldd[real] ELSE <<>>

----------------------------------------------------------------------------
(* main.                                                                    *)

Init ==
    /\ config \in Configs
    /\ host \in Hosts
    /\ pass = "settings"
    /\ k = 1
    /\ count = 0
    /\ directories = <<>>
    /\ executables = <<>>
    /\ file_copies = <<>>
    /\ symlinks = <<>>
    /\ full = FALSE

(* The last conjunct of every action: on to pass p, at index i of n. *)
Goto(p, i, n) ==
    /\ pass' = p
    /\ k' = i
    /\ count' = n
    /\ full' = \/ full
               \/ Len(directories') = MAX_DIRECTORIES
               \/ Len(executables') = MAX_EXECUTABLES
               \/ Len(file_copies') = MAX_FILE_COPIES
               \/ Len(symlinks') = MAX_SYMLINKS
    /\ UNCHANGED input

(* sandbox_id, root_dir, root_process, and both ends of veth_ip_pair if any. *)
ReadSettings ==
    /\ pass = "settings"
    /\ UNCHANGED <<directories, executables, file_copies, symlinks>>
    /\ Goto(IF config.complete THEN "directories" ELSE "failed", 1, 0)

ReadDirectories ==
    /\ pass = "directories"
    /\ directories' = AddDirectories(directories, config.directories)
    /\ UNCHANGED <<executables, file_copies, symlinks>>
    /\ Goto("executables", 1, 0)

(* The executables of the list, and root_process. *)
ReadExecutables ==
    /\ pass = "executables"
    /\ executables' = AddedAll(executables, Append(config.executables, config.root_process),
                               MAX_EXECUTABLES)
    /\ UNCHANGED <<directories, file_copies, symlinks>>
    /\ Goto("file_copies", 1, 0)

ReadFileCopies ==
    /\ pass = "file_copies"
    /\ directories' = AddDirectories(directories, [i \in DOMAIN config.file_copies |->
                                                    config.file_copies[i].dst])
    /\ file_copies' = add_unique_file_copies(file_copies, config.file_copies)
    /\ UNCHANGED <<executables, symlinks>>
    /\ Goto("dependencies", 1, Len(executables))

(* An executable and what ldd says it needs, each copied to where it is. *)
AddExecutable ==
    /\ pass = "dependencies" /\ k <= count
    /\ LET needs == <<executables[k]>> \o Dependencies(executables[k]) IN
         /\ directories' = AddDirectories(directories, needs)
         /\ file_copies' = add_unique_file_copies(file_copies,
                              [i \in DOMAIN needs |-> [src |-> needs[i], dst |-> needs[i]]])
    /\ UNCHANGED <<executables, symlinks>>
    /\ Goto(pass, k + 1, count)

AllExecutablesAdded ==
    /\ pass = "dependencies" /\ k > count
    /\ UNCHANGED <<directories, executables, file_copies, symlinks>>
    /\ Goto("resolve_dirs", 1, Len(directories))

(* Mutant: [8.I.d] left out. *)
ResolveAlone(old, real) == [directories EXCEPT ![k] = real]

(* [8.I.c] and [8.I.d]: the path itself, and those under it. *)
ResolveDirectories(old, real) ==
    [j \in DOMAIN directories |->
       IF j = k THEN real
       ELSE IF j <= count THEN Rewrite(directories[j], old \o Slash, real \o Slash)
       ELSE directories[j]]

resolve_paths_in_array ==
    /\ pass = "resolve_dirs" /\ k <= count
    /\ LET old == directories[k]
           real == realpath(host, old)
       IN IF real \in {Missing, old}
          THEN UNCHANGED <<directories, symlinks>>
          ELSE /\ symlinks' = add_unique_symlink(symlinks, old, real)
               /\ directories' =
                    add_directory_with_parents(ResolveDirectories(old, real), real)
    /\ UNCHANGED <<executables, file_copies>>
    /\ Goto(pass, k + 1, count)

AllDirectoriesResolved ==
    /\ pass = "resolve_dirs" /\ k > count
    /\ UNCHANGED <<directories, executables, file_copies, symlinks>>
    /\ Goto("resolve_src", 1, Len(file_copies))

(* [9.I.c] and [9.I.d]: here old has no slash behind it. *)
ResolveField(field, old, real) ==
    [j \in DOMAIN file_copies |->
       IF j = k THEN [file_copies[j] EXCEPT ![field] = real]
       ELSE [file_copies[j] EXCEPT ![field] = Rewrite(@, old, real)]]

(* First src of an entry, then its dst: both on the host, both as links of    *)
(* the sandbox.                                                               *)
Resolve(field, next, i) ==
    /\ k <= count
    /\ LET old == file_copies[k][field]
           real == realpath(host, old)
       IN IF real \in {Missing, old}
          THEN UNCHANGED <<directories, file_copies, symlinks>>
          ELSE /\ symlinks' = add_unique_symlink(symlinks, old, real)
               /\ file_copies' = ResolveField(field, old, real)
               /\ directories' = add_directory_with_parents(directories, real)
    /\ UNCHANGED executables
    /\ Goto(next, i, count)

ResolveSrc == pass = "resolve_src" /\ Resolve("src", "resolve_dst", k)
ResolveDst == pass = "resolve_dst" /\ Resolve("dst", "resolve_src", k + 1)

(* Mutant: the last entry may be left out. *)
CopiesLeft ==
    /\ pass = "resolve_src" /\ k >= count
    /\ UNCHANGED <<directories, executables, file_copies, symlinks>>
    /\ Goto("symlinks", 1, 0)

AllCopiesResolved ==
    /\ pass = "resolve_src" /\ k > count
    /\ UNCHANGED <<directories, executables, file_copies, symlinks>>
    /\ Goto("symlinks", 1, 0)

ReadSymlinks ==
    /\ pass = "symlinks"
    /\ symlinks' = AddedAll(symlinks, config.symlinks, MAX_SYMLINKS)
    /\ UNCHANGED <<directories, executables, file_copies>>
    /\ Goto("sort_directories", 1, 0)

(* qsort and remove_duplicate_*: in the order of a key, one entry per key.    *)
(* qsort is not stable: which of the entries with a key stays is open.        *)
OnePerKey(S, Key(_)) ==
    {R \in SUBSET S :
       \A e \in S : \E x \in R : \A y \in R : Key(y) = Key(e) <=> y = x}
SortedUnique(s, Key(_)) ==
    {InOrder(R, LAMBDA d, e : Before(Key(d), Key(e))) : R \in OnePerKey(ToSet(s), Key)}

(* Link i is applied to the links behind it. *)
ApplyLink(links, i) ==
    LET Fixed(p) == Rewrite(p, links[i].sym \o Slash, links[i].dst \o Slash)
    IN [j \in DOMAIN links |->
          IF j <= i THEN links[j]
          ELSE [sym |-> Fixed(links[j].sym), dst |-> Fixed(links[j].dst)]]

(* Mutant: the links are left as they were found. *)
FixNothing(links) == SelectSeq(links, LAMBDA l : l.sym # l.dst)

fix_symlinks(links) ==
    LET fixed[n \in 0 .. Len(links)] == IF n = 0 THEN links ELSE ApplyLink(fixed[n - 1], n)
        last == fixed[Len(links)]
        kept[n \in 0 .. Len(links)] ==
          IF n = 0 THEN <<>>
          ELSE IF last[n].sym = last[n].dst THEN kept[n - 1]
          ELSE Append(kept[n - 1], last[n])
    IN kept[Len(links)]

SortDirectories ==
    /\ pass = "sort_directories"
    /\ directories' = InOrder(ToSet(directories), Before)
    /\ UNCHANGED <<executables, file_copies, symlinks>>
    /\ Goto("sort_symlinks", 1, 0)

SortSymlinks ==
    /\ pass = "sort_symlinks"
    /\ \E links \in SortedUnique(symlinks, LAMBDA l : l.sym) : symlinks' = fix_symlinks(links)
    /\ UNCHANGED <<directories, executables, file_copies>>
    /\ Goto("sort_file_copies", 1, 0)

SortFileCopies ==
    /\ pass = "sort_file_copies"
    /\ file_copies' \in SortedUnique(file_copies, LAMBDA c : c.dst)
    /\ UNCHANGED <<directories, executables, symlinks>>
    /\ Goto("write", 1, 0)

(* fopen may fail; main says "Configuration written" all the same. *)
write_output_config ==
    /\ pass = "write"
    /\ UNCHANGED <<directories, executables, file_copies, symlinks>>
    /\ Goto("written", 1, 0) \/ Goto("failed", 1, 0)

Next ==
    \/ ReadSettings \/ ReadDirectories \/ ReadExecutables \/ ReadFileCopies
    \/ AddExecutable \/ AllExecutablesAdded
    \/ resolve_paths_in_array \/ AllDirectoriesResolved
    \/ ResolveSrc \/ ResolveDst \/ AllCopiesResolved
    \/ ReadSymlinks \/ SortDirectories \/ SortSymlinks \/ SortFileCopies
    \/ write_output_config

Spec == Init /\ [][Next]_vars

----------------------------------------------------------------------------
(* Properties.                                                              *)

Written == pass = "written"

TypeOK ==
    /\ pass \in Passes
    /\ count \in Nat
    /\ k \in 1 .. count + 1
    /\ pass = "dependencies" => count = Len(executables)
    /\ pass = "resolve_dirs" => count <= Len(directories)
    /\ pass \in {"resolve_src", "resolve_dst"} => count = Len(file_copies)
    /\ pass = "resolve_dst" => k <= count
    /\ directories \in Seq(Path) /\ Len(directories) <= MAX_DIRECTORIES
    /\ executables \in Seq(Path) /\ Len(executables) <= MAX_EXECUTABLES
    /\ file_copies \in Seq([src : Path, dst : Path]) /\ Len(file_copies) <= MAX_FILE_COPIES
    /\ symlinks \in Seq([sym : Path, dst : Path]) /\ Len(symlinks) <= MAX_SYMLINKS
    /\ full \in BOOLEAN

(* What a jailor builds from the written lists, read as a file system. *)
Sandbox ==
    [dirs |-> ToSet(directories),
     files |-> {c.dst : c \in ToSet(file_copies)},
     links |-> [p \in {l.sym : l \in ToSet(symlinks)} |->
                  (CHOOSE l \in ToSet(symlinks) : l.sym = p).dst]]

Needs == UNION {{e} \cup ToSet(Dependencies(e)) : e \in ToSet(executables)}
Asked == ToSet(config.file_copies) \cup {[src |-> p, dst |-> p] : p \in Needs}
Sources == {c.src : c \in Asked}
Targets == {c.dst : c \in Asked}

Moves(p) == realpath(host, p) \notin {p, Missing}

(* What a configuration has to keep to; nothing in the program checks it.     *)
(* The array bounds were not met. *)
Complete == pass = "written" /\ ~full
(* Each source is a file of the host. *)
SourcesExist == \A p \in Sources : realpath(host, p) \in host.files
(* A path that is a link, or reached through one, begins no other path, nor   *)
(* what another one leads to.                                                 *)
NoSharedBeginning ==
    \A S \in {Sources, Targets} : \A p, q \in S : Moves(p) /\ p # q =>
       ~IsPrefix(p, q) /\ ~IsPrefix(p, realpath(host, q))
(* Nothing else is copied to where a file belongs.                            *)
OneSource ==
    \A c, d \in Asked : realpath(host, c.dst) = realpath(host, d.dst) =>
       \/ c.src = d.src
       \/ realpath(host, c.dst) = Missing /\ c.dst # d.dst
(* A target that the host does not have is under no link of the host.         *)
TargetsKnown ==
    \A p \in Targets : Exists(host, p) \/ \A d \in Lineage(Parent(p)) : ~Moves(d)
(* The directories that are asked for, each with its parents. *)
AskedDirectories == UNION {Lineage(Listed(p)) : p \in Targets \cup ToSet(config.directories)}
(* Where a path is once the links above it are followed. *)
Place(p) == realpath(host, Parent(p)) \o SubSeq(p, Len(Parent(p)) + 1, Len(p))
(* A link that has something listed under it is reached through no other.     *)
PlainLinks == \A p \in AskedDirectories : Place(p) \in DOMAIN host.links => Place(p) = p
(* A link is spelled in one way, whatever links are before it on its path.    *)
Spelled == AskedDirectories \cup Sources \cup Targets \cup {l.sym : l \in ToSet(config.symlinks)}
OneSpelling ==
    \A p, q \in Spelled : Place(p) \in DOMAIN host.links /\ Place(p) = Place(q) => p = q
(* A source that is a link, or reached through one, is copied to its own path. *)
LinksStay == \A c \in Asked : Moves(c.src) => c.src = c.dst
(* The links that the configuration adds are links of the host...             *)
LinksAgree == \A l \in ToSet(config.symlinks) : realpath(host, l.sym) = l.dst
(* ... in directories that are asked for.                                     *)
LinksPlaced ==
    \A l \in ToSet(config.symlinks) : Parent(l.sym) \in {Slash} \cup AskedDirectories

(* The directories can be made one mkdir each in the order they are written,  *)
(* none twice, although they were collected the deepest first and rewritten   *)
(* since (configer.c:470-517, 565-599; jailor.c:302-311).                     *)
ParentsFirst ==
    Complete =>
      \A i \in DOMAIN directories :
         /\ Parent(directories[i]) \in {Slash} \cup {directories[j] : j \in 1 .. i - 1}
         /\ \A j \in 1 .. i - 1 : directories[j] # directories[i]

(* After the loop no directory is a link of the host or under one, those that *)
(* do not exist yet and those that were added while it ran included: its      *)
(* bound was passed by value (configer.c:198, 565-599).                       *)
NoDirectoryUnderLink ==
    pass \notin {"settings", "directories", "executables", "file_copies", "dependencies",
                "resolve_dirs", "failed"} /\ ~full =>
      \A d \in ToSet(directories) : \A p \in Lineage(d) : ~Moves(p)

(* An executable or library, looked up in the sandbox by the path by which it *)
(* was asked for, is a copy of the file that this path is on the host         *)
(* (configer.c:190-225).                                                      *)
EveryNeedFound ==
    Complete /\ NoSharedBeginning /\ PlainLinks /\ OneSource /\ LinksAgree =>
      \A p \in Needs : Exists(host, p) =>
         [src |-> realpath(host, p), dst |-> realpath(Sandbox, p)] \in ToSet(file_copies)

(* Each copy can be made: its source is a file, and no directory on the way   *)
(* to its place, nor the place, is to become a symlink afterwards             *)
(* (configer.c:605-668; jailor.c:89-125, 162).                                *)
CopiesBuildable ==
    Complete /\ SourcesExist /\ NoSharedBeginning /\ TargetsKnown /\ LinksAgree =>
      \A c \in ToSet(file_copies) :
         /\ c.src \in host.files
         /\ \A p \in Lineage(c.dst) : p \notin DOMAIN Sandbox.links

(* Each symlink can be made: the directory it is put in is there and is no    *)
(* symlink, and nothing is in its place (configer.c:351-420; jailor.c:162     *)
(* ends the start at the first symlink() that fails).                         *)
LinksBuildable ==
    Complete /\ NoSharedBeginning /\ PlainLinks /\ OneSpelling /\ LinksStay /\ LinksAgree /\ LinksPlaced =>
      \A i \in DOMAIN symlinks :
         /\ Parent(symlinks[i].sym) \in {Slash} \cup Sandbox.dirs
         /\ symlinks[i].sym \notin Sandbox.dirs \cup Sandbox.files
         /\ \A j \in 1 .. i - 1 : symlinks[j].sym # symlinks[i].sym

(* FinalReport.pdf, section 7.1: "resolving symbolic links to find their      *)
(* actual paths and ensuring all necessary files are listed for inclusion".   *)
(* Line 625 takes a path that begins with the letters of another for one      *)
(* under it.                                                                  *)
NecessaryFilesListed ==
    Complete =>
      \A p \in Needs : Exists(host, p) => \E c \in ToSet(file_copies) : c.src = realpath(host, p)
=============================================================================
