# COMIC-RAN in TLA+

A verification project for the programs of COMIC-RAN: a UDP proxy that routes
clients to server instances (`sdn`), and the chain that starts and stops those
instances in sandboxes on virtual machines (`smanager`, `sdeamon`, `configer`,
`jailor`, `server`). Modules are checked with TLC on small instances; what is
true for every instance is proved with TLAPS.

## 1. The system

| component | state | operations | talks to |
|---|---|---|---|
| `sdn/sdn.c` | rule table under `rules_mutex`; one detached thread per datagram; strtok's static pointer | set, unset, relay a number | clients and instances (UDP) |
| `sdeamon/sdeamon.c` | `program_list`; iptables rules in the kernel | start, stop, one command at a time | smanager (TCP), configer and jailor (fork, signals, waitpid) |
| `jailor/jailor.c` | root directory, veth pair, one child in new namespaces | set up, clone, wait, clean up; the child: pivot_root, symlinks, execv | sdeamon (SIGTERM), its child |
| `server/server.c` | none but its socket | answers n*n; ends at SIGTERM | jailor, sdn |
| `configer/configer.c` | lists of paths and symlinks | resolves dependencies and links, writes the full configuration | run by sdeamon |
| `smanager/smanager.c` | table of VM addresses | set vm, unset, start vm, stop vm | sdeamon |
| `client/client.c` | none | sends a number, waits | sdn |
| `lxd/prime_server.c` | an array of numbers | query, update | stand-alone |
| `sandboxer/` | | only a makefile is left | |

Hard behaviours, and what correctness means under them (the full list, line by
line, is under "hazards" in `PROJECT.json`):

* `sdn`: handlers overlap inside strtok, whose position is one pointer for the
  process, and free the buffer it points into; the table is scanned and changed
  in a critical section with six ways out; an address of any length is copied
  into a field of 16 bytes; the rule is used after the unlock; answers are lost or
  come after the timeout, when the port may serve another request. Correct, as
  long as the addresses that come fit their field: a destination has one rule, the
  table never outgrows its array, the table behaves as an atomic map to its
  clients, and each datagram is answered. Correct always: an index is right when
  it is used, a handler alone in strtok reads its own words, and only a late
  answer reaches another client.
* `sdeamon` with `jailor`: the daemon knows its jailors only by a list in its
  memory; the jailor can be signalled before it has a handler and its child
  before it has one; two jailors of one program share a directory and an
  interface name; each call may fail and some failures end a process on the
  spot. Correct: the rules follow the list, no living jailor is forgotten, what
  was stopped properly is dead, a server owns its root, every start boots, and every
  command is answered. (That a server has its network is not among them: nothing
  in the code waits for the old veth pair to go, see section 4.)
* `configer`: paths are rewritten by the links of the host while the lists they
  are in grow, string prefixes stand for parents, arrays are bounded, duplicates
  are removed by one key. Correct: what is written can be built by a jailor in
  the order it is written, and every executable and library is found in the
  sandbox by the path it was asked for.
* `smanager`: a bounded table whose entries move, and a prompt that is blocked
  until a daemon answers. Correct: a number leads to the machine the operator
  means, and the prompt comes back.
* all of them together, when a server moves to another machine: a handler of the
  proxy holds the old address while the rule is replaced and the old instance
  stopped; "success" is said before the new one has a socket. Correct: no
  request that is routed fails unless a server crashed, and nobody waits for ever.
  Whose answer a client gets is a question to the proxy alone, see `sdn`.
* `server`, `prime_server`: numbers at the edge of `int`; an array that all
  clients share and one of them can end.

## 2. Plan

Order of work, the behaviour that matters most first:

1. `RouteMap`, `Sdn`, `SdnProofs` - done.
2. `Jailor`, `Sdeamon` (which composes the jailors with the daemon) - done.
3. `Configer` - done.
4. `Sandboxes`, the promise of a daemon, with `Sdeamon` shown to keep it; and
   `Service`, which composes `Smanager`, `Servers`, the clients and the two
   promises `Sandboxes` and `RouteMap` into a migration - done.
5. Proofs: the handlers of `Sdn` and its refinement of `RouteMap`, the invariant
   of `Service`, the daemon of `Sdeamon` under any commands and under a careful
   operator, and its refinement of `Sandboxes` - done (section 7).
6. Proofs about `Configer`: its loops, written as recursive functions, its types,
   the lists of directories, of copies and of links, and that what is needed is
   found - done (section 7).

## 3. Modules

**`RouteMap`** is the promise of `sdn.c` to its clients: a table from destinations to
addresses, and requests that are called, are understood as one operation, take
effect as that operation at one instant and are answered. (Which operation a
disturbed handler understands is not promised: that is what `UndisturbedParse`
and `OwnTokens` are about.) A reply may also report that the datagram was refused or that the
instance gave nothing; it never contradicts what happened to the table. The promise has
terms: an address longer than the proxy's field breaks them, and nothing is
promised from then on (`inForce`).

**`Sdn`** is `sdn.c`. `Receive` and `Drop` are main's loop. A handler is
identified with its request; `pc` says where it stands. strtok is three steps,
`LoadSave`, `ScanToken` and `StoreSave` (the latter inside `TokenMissing`,
`TokenTaken`, `NoColon`, `Parsed`, which also decide what the handler does with
the token), on the shared variable `save`. A buffer is the sequence of its
tokens; `cut` remembers where NULs were written. A pointer into a freed buffer
leads anywhere in the buffer's old bytes or in the buffer of a later request
(`Landings`): that is undefined behaviour, and the choice is nondeterministic.
`Acquire`, `Search` and one action per way out (`UpdateRule`, `AddRule`,
`RuleLimit`, `RemoveRule`, `CopyRule`, `NoRule`) are the critical sections;
`Forward`, `ForwardFails`, `RecvAnswer`, `RecvFails`, `SendReply` the relay.

`strcpy` into `rules[i].ip`, an array of 16 bytes, does not count (`sdn.c:184`,
`200`): the constant `Spill` says over how many of the rules behind its own an
address runs. `UpdateRule` leaves those rules anything (`Overwritten`), `AddRule`
runs over slots that hold no rule yet, and past the end of the array
(`OverrunArray`) the model follows the handler no further: it is "wrecked", with
the mutex in its hands. `TableConsistent`, `AtomicRouteMap` and
`EveryRequestAnswered` are therefore stated for as long as no datagram with such
an address has come (`AddressesFit`), a term on what clients send that the code
does not check.

`net` holds the number's way to an instance and back as one message, which may
never arrive and outlives the socket it is for. `overlapped`, and the field
`of` of an answer, are history. A client may be told an answer computed for
another (`OwnAnswer` is violated); what the code does ensure is
`LateAnswersOnly`: each answer is told once, and a wrong one is of the same
instance and came too late for the client it was computed for.

**`Jailor`** is `jailor.c`: `jpc` and `cpc` are the two processes, `root` and
`veth` what they share through the file system and the kernel. A directory is
the set of things later steps look for in it, and `files` says of each file of
the copy list whether it is absent, whole, or torn (being written, or left half
written, by a jailor: it exists, so the next jailor skips it); `rm -rf` is one
step. `evicted` are the children whose directory was removed under them. `Terminate` is what SIGTERM does, by where
jailor and child stand. **`Sdeamon`** EXTENDS it with the daemon: `dpc` walks
through start (configer, fork, two iptables calls, add_program) and stop (kill,
waitpid, two iptables calls, remove_program); `list` is `program_list`, `dnat`
and `fwd` count the copies of each rule in the kernel. `Faults` says which calls
may fail; `Careful` restricts the client side to one operator who waits until
things have settled (`Settled`): a program is started when no entry and no process
of it is left, and stopped when its server is up or its jailor has ended. He
does not see, and does not wait for, what the kernel still has of an old veth
pair. His connections are taken in the order of their numbers (`FirstFree`),
which keeps TLC from trying them in every order.

**`Sandboxes`** is the promise of a daemon to such an operator: per machine and
program one sandbox that is `none`, `booting`, `up` or `dead`, and answers that
are true of it: "started" of one that exists, "stopped" of one that was dead and
is none from then on. `Sdeamon` maps to it by `SandboxOf`, the child of the
jailor the daemon has listed or in hand.

**`Configer`** is `configer.c`: `pass` is the loop of main that runs, `k` its
index, `count` the length it was called with. A path is a sequence of "/" and
pieces of names, because the program compares letters, not components: "lib"
begins "lib64". The host is a set of directories, files and links and what `ldd`
prints; `realpath`, `strcmp` and `qsort` are what the program takes from
outside. `Path`, `IsConfig` and `IsHost` say what the program is given: absolute
paths without empty components (a directory of a configuration may end in
slashes), directories above whatever the host has, links that finally lead to a
directory or a file that is not "/". A loop over an array is a recursive
function over its index, so that what it computes can be proved. qsort is not stable, so `SortedUnique` leaves open which of two entries
with one key stays. `Sandbox` reads the written lists as the file system that a
jailor makes of them; the properties compare it with the host. They are stated
under named preconditions that no line of the program checks (`SourcesExist`,
`NoSharedBeginning`, `OneSource`, `TargetsKnown`, `PlainLinks`, `OneSpelling`,
`LinksStay`, `LinksAgree`, `LinksPlaced`, and arrays that had room). What a
configuration without them does is listed under the hazards: a link in a
directory that nobody made, a directory where a link is to be, the same link
twice. `PlainLinks` is about links under links: on a host with `/srv` ->
`/data/srv` and `/data/srv/app` -> `/opt/app`, line 386 rewrites only the links
that come later in the sorted array, and `/srv/app` is written as a link below
the link `/srv`: there the jailor's `symlink()` fails (`jailor.c:162`) if `/srv` is
a link already, and what is asked for as `/srv/app/...` is not found.

**`Smanager`** is `smanager.c`: `vm_list`, and `prompt`, the connection that
`send_command` waits on. `known` is history: what the operator was last told the
table says. **`Servers`** holds what `server.c` and `prime_server.c` compute:
`Square`, what an int whose largest value is `INT_MAX` keeps of it, and the array of
primes with its packed numbers (`RADIX` is the 100 of the source).

**`Service`** composes them with `client.c`: a client types a line, sends it and
waits (`Send`, `Waiting`); the operator uses a client of his own to give the
proxy rules (`SendRule`). The proxy's steps are those of `RouteMap`, the daemons'
those of `Sandboxes`, taken over by INSTANCE. `flight` follows a number between
the proxy and an instance: it is `sent` into the socket of one that listens,
comes `back` with an answer, or is `lost` with the socket. Words that cross in
strtok and answers that come late are not repeated here: they are the subject of
`Sdn`, and so no property of `Service` says whose square a client is told. The operator starts
the new instance, waits until it listens, sets the rule, waits until no handler
can hold the old address (`Drained`: the proxy's five seconds), and stops the
old one. That he waits for smanager before he sets a rule, gives a rule only for
an instance that listens, and stops one only when there is no rule for it, none
on its way and no handler with its address are five conditions; without any one
of them `Uninterrupted` fails.

`MCSdn`, `MCSdeamon`, `MCConfiger` and `MCService` give the constants their
values for TLC. The proofs are in modules of their own, next to `SequenceLemmas`,
what removing an element, renumbering and searching do to a sequence:

| component | modules, each EXTENDS the one before |
|---|---|
| `Sdn` | `SdnProofs` (the table; what a handler reads and says), `SdnRefinement` |
| `Sdeamon` with `Jailor` | `SdeamonProofs` (any commands; a careful operator), `SdeamonRefinement` |
| `Service` with `Smanager`, `Servers` | `ServiceProofs` |
| `Configer` | `ConfigerLemmas` (paths, realpath, the loops, sorting), `ConfigerProofs` |

Operators marked "Mutant" are plausible bugs, one per checked property and
listed in `PROJECT.json`; no specification uses them. With the mutant in the place of
the definition it varies, TLC finds the property violated.

## 4. Runs

| run | question | bounds |
|---|---|---|
| `sdn_race` | do the table, the scan and the atomic map survive overlapping handlers with wrong words in hand; is a wrong answer always a late one? | 3 datagrams, 2 at a time, 1 rule, 2 ports |
| `sdn_sequence` | is the map right over update, removal with shift, limit, bad address, late answers, until an address overruns its rule? | 5 datagrams, one at a time, 2 rules, 3 destinations, 1 port, an address that runs over one rule |
| `sdn_parse` | are malformed datagrams, and only those, refused; is each datagram answered; is `SdnInv` invariant? | 2 datagrams of 9 forms, one with an address that leaves the array |
| `sdn_tokens` | does a handler always read its own words? No: a finding | 2 datagrams |
| `sdn_answer` | does a client always get the answer to its own number? No: a finding | 3 datagrams, 1 port |
| `sdeamon_any` | are the daemon's books right under any commands and failures? | 3 commands, 2 jailors, 2 programs, 1 file |
| `sdeamon_careful` | does a careful operator get working sandboxes and answers, over two generations; does the daemon implement `Sandboxes`? | 4 commands, 2 jailors, 1 program with symlinks, 2 files |
| `sdeamon_early` | is what was stopped dead? No: a finding | 2 commands, 1 jailor |
| `sdeamon_hang` | is every command of any client answered? No: a finding | 2 commands, 1 jailor |
| `configer_lists` | can a jailor build what was written, and is what was asked for found in it? | 3 hosts, 840 configurations, arrays of 10, 4, 8 and 8 |
| `configer_prefix` | are all necessary files listed? No: a finding | 3 hosts, 1 configuration |
| `service` | does a server move without a request failing or anybody waiting for ever? | 2 machines, 3 numbers for a table of 2, 3 commands, 2 lines of the operator, 2 users with a line each, 1 crash, 8-bit int |

Why these bounds are enough to be of interest. Two handlers share strtok in
every order, and a third datagram reuses the freed buffer of a finished one.
Two rules and three destinations make a removal shift the array and an addition
meet the limit; one ephemeral port makes its reuse certain. Two jailors of one
program are what the shared directory, the interface name and duplicate entries
need; start, stop, start, stop is a second generation in the same directory.
One jailor and two commands suffice for the two violations. The hosts of
`configer_lists` are a distribution with `/bin`, `/lib` and `/lib64` merged into
`/usr`, one where no directory is a link, and one with a link under a link;
between them the configurations resolve directories that are added by the loop
that resolves, and rewrite paths by links before and behind them. They ask for
at most 3 executables of 4, so the array of executables does not fill in this run; that the
arrays keep their bounds when they do is proved (`ConfigerProofs!TypeCorrect`). In `service` three commands are a whole move (start, start,
stop) or a start, a stop and a fresh start of the same instance; two users are
in flight at the old and the new instance at once; the third number meets the
full table. Two bounds keep it small: a behaviour is about one destination
(`subject`), the moving server or the prime server, and users ask once there is
a rule. Symmetry is used
only where no liveness is checked. `Careful` runs stop when the commands are
used up, and so do `sdeamon_any` and `service`, and configer ends: these cfgs say `CHECK_DEADLOCK FALSE`
because the daemon, waiting in accept, then really has nothing to do. `Sdn` checks for
deadlock; `Quiet` is main waiting in recvfrom, or the memory behind the table
overwritten ("wrecked").

No property says that a server has its network. The kernel removes a veth pair
some time after the server (`NamespaceGone`), and nothing in the code waits for
that; an operator who starts again at once, `Careful` or not, may get a server
without network, and behaviours in which he does are part of both runs of
`Sdeamon`.

## 5. Fairness

`Sdn!FairSpec`: each handler thread keeps running when it can. The mutex is
only asked to go to a thread, not to be fair: with `WF` on each handler and
finitely many datagrams a waiter gets it. No datagram, no answer and no port has
to come; `RecvFails` is always possible while waiting, which is what
`SO_RCVTIMEO` provides. `Sdeamon!FairSpec`: the daemon, each jailor and each
child keep running when they can, and the kernel removes a dead namespace.
Servers need not die and faults need not happen, so a stop is answered only
through the signal it sends. Strong fairness is nowhere assumed. `Service` states
no fairness: `NobodyHangs` says instead that whoever waits is served by a step
that is enabled, and as each of those steps happens once per request or command,
the weak fairness of the parts makes it an answer.

## 6. Findings

1. `OwnTokens`: words cross between clients when handlers overlap in strtok
   (`sdn.c:144-154`, `215-216`, `262-271`).
2. `OwnAnswer`: a late answer is relayed to a client that asked something else
   (`sdn.c:365-374` checks the instance, not the request).
3. `StopMeansStopped`: a stop before `jailor.c:409` reports success and leaves
   the server running, out of the daemon's reach.
4. `EveryCommandAnswered` without a careful operator: a stop between
   `jailor.c:409` and `server.c:13` blocks the daemon for good.
5. `NecessaryFilesListed`: `configer.c:625` (and 655) rewrites a path that only
   begins with the letters of a link, such as `python3-config` after `python3`.

## 7. Proofs

Everything here holds for every value of the constants: any number of requests,
jailors, programs, machines, clients, rules, commands and crashes, any table
sizes and any `INT_MAX`. The assumptions are those named in the modules, which
TLC evaluates on every run: the bounds are naturals, tables have at least one
entry, an address that overruns its rule is one that `inet_pton` refuses, and values that stand beside each other in one variable (`None`, `NaN`,
addresses, entries, commands) are different. `OrderAssumption` of `Sdeamon` says
that `None` is no command, and connections of a careful operator are numbered.

### What is proved

| theorem | of | states |
|---|---|---|
| `SdnProofs!TypeCorrect`, `TableIsConsistent`, `ScanIsStillRight` | `Sdn` | `TypeOK`, `TableConsistent`, `ScanStillRight` |
| `SdnProofs!InductiveInvariant`, `ParseIsUndisturbed`, `WrongAnswersAreLate` | `Sdn` | `SdnInv`, `UndisturbedParse`, `LateAnswersOnly` |
| `SdnRefinement!HandlersImplementRouteMap` | `Sdn` | `AtomicRouteMap`: Sdn implements RouteMap |
| `SdeamonProofs!TypeCorrect`, `RulesAreTheList`, `NoJailorIsForgotten`, `StopKillsTheServer` | `Sdeamon` | `TypeOK`, `RulesFollowList`, `EveryJailorListed`, `StoppedMeansDead` |
| `SdeamonProofs!RootsStayWhole`, `StartsBoot` | `Sdeamon` | `RootIntact`, and the action property `EveryStartBoots` |
| `SdeamonRefinement!DaemonKeepsItsPromise` | `Sdeamon` | `PromiseKept`: Sdeamon implements Sandboxes |
| `ServiceProofs!TypeCorrect`, `TableIsTheOperatorsMap`, `MovesGoUnnoticed`, `PrimesNeverShrink` | `Service` | `TypeOK`, `NumbersResolve`, `Uninterrupted`, `PrimesOnlyGrow` |
| `ConfigerProofs!TypeCorrect`, `ParentsWrittenFirst`, `NoDirectoryUnderAnyLink`, `CopiesCanBeMade`, `LinksCanBeMade`, `NeedsAreFound` | `Configer` | `TypeOK`, `ParentsFirst`, `NoDirectoryUnderLink`, `CopiesBuildable`, `LinksBuildable`, `EveryNeedFound` |

So the composition rests on proofs from end to end: `Service` is built from the
steps of `RouteMap` and `Sandboxes`, and `Sdn`, as long as the addresses it is sent
fit, and `Sdeamon`, with a careful operator, are shown to take no others.

### The arguments

**`Sdn`, the table.** `TableConsistent` is not inductive: an addition keeps it
only if the scan found nothing and nobody changed the table since. So
`ScanStillRight` is carried along, which needs that the mutex holder is the one
thread between `Acquire` and its way out (`HolderInside`). Neither looks at which
words the handler has, but for one thing, their length: whatever words it has,
they came in some datagram (`WordsFit`), so when all addresses that came fit, the
one it copies does. strtok's races cannot break the table. They could crash
the handler, though, if a word were missing, so the type invariant is carried
with the facts that make strtok total: pointers stay inside datagrams although
their buffers are freed (`PointersValid`), nobody reaches the lock short of a
word (`TokensTaken`), only a rule's address is forwarded to (`RouteCopied`).

**`Sdn`, a handler.** `UndisturbedParse` needs to know where strtok stands: a
handler that was alone has taken its words in order and has the next one ahead,
in the pointer it holds or in `save` (`WordsInOrder`), and no buffer is cut
before its datagram came. The refinement needs that the
reply fits the way the handler took (`ReplyFits`). `LateAnswersOnly` needs to follow a
number on the net: as long as its request waits, the number is on the way by the
one port that this request, and no other, has open; an answer is taken from the
net when it is read, so it cannot be read twice (`RelayInv`).

**`Sdn` implements `RouteMap`.** One lemma per action: parsing, lock, search and
relay are stutters, leaving the critical section is `Set`, `SetRefused`,
`Unset`, `Lookup` or `LookupFails`, giving up on a datagram is `Reject`, the reply
is `Answer`. The array and the set of bindings it stands for have the same size
because destinations are unique, so the limit is met by both at once. Once an
address that does not fit has come, the map is out of force and any step will do.

**`Sdeamon`, any commands** (`DaemonInv`). `EveryJailorListed` is about the list
and the entry in hand, so the invariant says what is in hand at each point of a
start and of a stop (`EntryInHand`): an entry that is not listed yet, or the
first listed one of its program. The ledger of rules adds what the command has
done and not yet booked. `StoppedMeansDead` needs that a jailor with its handler
outlives its child (`EndsInOrder`).

**`Sdeamon`, a careful operator** (`CarefulInv`). When one command at a time is
under way and a start finds nothing left (`OneCommand`), a program has one living
jailor (`OneJailor`), and the directory it shares with every earlier and later
one is exactly what this one has made of it so far: which files, whether
old_root or the symlinks are there (`Underway`). With
nobody left, nothing is left (`NothingLeft`). The two properties follow.

**`Sdeamon` implements `Sandboxes`.** Under `Sound`: the operator is `Careful` and
neither a call of a jailor nor `system()` itself fails; recv, fork and iptables
may. `ForkJailor` is `Create`, a child that calls `signal` is `Boot`, one that ends
is `End`, the replies are the answers; the rest stutters. The sandbox of a
program is a single jailor's because the program has one entry. Without `Sound`
there is nothing to keep: the daemon exits when system() fails.

**`Service`** (`ServiceInv`). `NumbersResolve` rests on entries being unique, so
that removing the one that was found removes the machine. `Uninterrupted` rests
on `Reachable`: an address in the table, in a set request, looked up by a
handler, or on its way is one where somebody listens, unless he ended on his own;
and on `StopsInTime`: a stop that is under way is for an instance that is
drained or dead, and stays so because the operator gives no rule until the
prompt is back. `PrimesOnlyGrow` is proved for as long as every prime leaves an int
room for what one datagram may add (`RoomToGrow`): beyond that it is false.

**`Configer`, the loops** (`ConfigerLemmas`). A loop is a function f on 0..n with
f[i] defined from f[i - 1]; `LoopExists` of `SequenceLemmas` says that there is
such a function, which the prover does not know by itself, and `UpTo` is the
induction along its index, over a set instead of a formula.
`Grown` says what all the adding loops have in common: the old array is the
beginning of the new one, what is new comes from a given set, and all of the set
is there unless the array is full. `strcmp` is shown to be a linear order on
paths in which a path comes before what is under it; so `InOrder`, defined by
counting, is a sorted enumeration.

**`Configer`, the directories** (`ListInv`). `ParentsFirst` and
`NoDirectoryUnderLink` need that the list is closed under parents at every step
(`ParentsListed`) although `[8.I.c]` and `[8.I.d]` rewrite its elements one by one:
when directory k is a link, the directories under it are rewritten to be under
where it leads, and where it leads is added with its parents, so no parent is
lost. The loop has a bound that it was given by value; what is added behind it is
never looked at, and needs not be, because it is a directory of the host, above
which there is no link (`DirectoriesResolved`). Sorting puts each parent first
(`DirectoriesSorted`). Both properties ask for arrays that never were full: with
no room left, parents are missing, and a directory may be under a link.

**`Configer`, the copies** (`CopyInv`). Before the loop the copies are those that
were asked for (`CopiesAsked`). In it each end of a copy is a path that was asked
for, or what such a path leads to when no copy has that path any more; up to k
neither end moves (`CopiesTraced`), and behind the loop none does
(`CopiesSettled`). The loop rewrites any string that begins with the letters of
a link (line 625), so this needs `NoSharedBeginning`; without it a copy is
rewritten to a path that nobody asked for. `LinksLead` says that each link leads
where its path leads on the host, through the sorting and `fix_symlinks`, which
rewrites both ends: so the path of a link moves, and a copy's place, with every
directory above it, does not.

**`Configer`, the links** (`LinkInv`). What is asked for before the resolving loops
is all listed, with its parents (`DirectoriesRead`). From then on each directory
that was asked for stays listed under some path that leads where it leads
(`AskedListed`), although in the loop the list also holds rewritten paths, which do
not move (`AskedOrSettled`). One that is a link is listed as a link or still to
be resolved (`LinksListed`), and no link is found by a path other than those that
were asked for, in a directory that was asked for (`LinksSpelled`). `fix_symlinks`
works on the sorted array, where a link comes before all that is below it: when
the loop comes to a link, those above it have been applied to it, the first of
them brings it to its place, and no other moves it from there (lemma
`FixedInPlace`, an induction over the rounds, with `LinksInPlace` its outcome). A
place has a listed parent, by `AskedListed` and because no listed directory moves;
it is not a directory's or a copy's, since it moves (`DirectoriesResolved`,
`CopiesSettled`); and it is one link's only (`OneSpelling`).

**`Configer`, the needs** (`NeedInv`). `EveryNeedFound` compares two `realpath`s, of
the host and of the sandbox. Both go through a path one component at a time, so
they agree when every component on the way, at its place on the host, is in the
sandbox what it is there (lemma `SameWay`, over any file system): the same link,
or no link but a directory or a copy (`WayKept`). The links are there because a
link that a need, or a directory above one, goes through was collected by one of
the three loops and sorted and fixed to that place (`LinksFound`, from
`LinksListed` and `NeedsLinked`); the directories because they stay listed
(`AskedListed`) and no longer move. For the file itself a need is followed from
its copy to its own path (`NeedsListed`) through the rewriting, where either end
may have been replaced, and whenever the source was its link was kept
(`NeedsFollowed`), to the copy of what it leads to (`NeedsCopied`). The last
sort drops all but one copy to a place. It may keep another than the need's
own: that this one has the same source follows from where each copy comes from
(`CopiesFollow`), and is where `OneSource` is needed.

Each invariant was checked with TLC on the instances of section 4 before it was
proved; `SdnInv` is a property of a run.

### Only model-checked

* Liveness under fairness (`EveryRequestAnswered`, `EveryCommandAnswered`) and
  ENABLED (`NobodyHangs`): the prover has no rules for them. Every other safety
  invariant of a run, and every action property, is stated by a theorem.
* That `SandboxOf` and the states of a jailor stand for what an operator can see
  is a definition, not a theorem.

## 8. Not modelled

`sandboxer` is a makefile without a source. Within the modelled components:

* `sdn`: the text of replies; what is behind the array of rules, and so all that
  happens after an address ran past its end; of a rule that was overwritten,
  destinations other than those the model has.
* `sdeamon`, `jailor`: process ids are never used twice; a connection to the
  daemon carries a command or fails, it is never silent; the configuration of a
  program does not change between start and stop; the contents of files.
* `configer`: the parsing of the configuration and of ldd's output; paths with a
  component `.` or `..`, which `realpath(3)` resolves and the model's takes for names;
  paths longer than PATH_MAX; a host that changes while it runs. Its outcome is not linked to
  `Sdeamon`, where it is one step, as the daemon does not look at it.
* `service`: datagrams between clients and proxy are not lost (a client would
  wait for ever: it has no timeout). The words of a datagram are its own, its
  address fits the rule, and a server that is alive answers within the proxy's
  timeout; what happens otherwise is in `Sdn`, findings 1 and 2 among it. Every program has a base configuration and the daemons'
  calls do not fail; what happens otherwise is in `Sdeamon`. `recvfrom` does not
  fail in `server.c` and `prime_server.c`, and no datagram fills their buffers.
  Commands of smanager that only print a message are stutters.
* everywhere: standard output, and the contents of addresses and messages beyond what the
  properties compare.
