------------------------- MODULE SdeamonRefinement -------------------------
(* Sdeamon implements Sandboxes for an operator who lets things settle: every *)
(* step of the daemon, of a jailor or of a child is, under the mapping of     *)
(* Sdeamon, a step of the promised sandboxes or none at all.                  *)
EXTENDS SdeamonProofs

(* What may go wrong without breaking the promise: recv, fork and iptables.   *)
Sound == Careful /\ "jailor" \notin Faults /\ "system" \notin Faults

SoundInv == Sound /\ CarefulInv /\ ~exited

LEMMA SoundFacts ==
    ASSUME SoundInv
    PROVE  /\ DaemonInv /\ OneCommand /\ OneSandbox /\ ~exited /\ dpc # "exited"
           /\ Careful /\ "jailor" \notin Faults /\ "system" \notin Faults
BY DEF SoundInv, Sound, CarefulInv, DaemonInv, EntryInHand

----------------------------------------------------------------------------
(* The sandbox of a program. *)

StateOf(j) ==
    CASE cpc[j] = "serve" -> "up"
      [] cpc[j] = "dead" \/ jpc[j] = "gone" -> "dead"
      [] OTHER -> "booting"

Pids(p) == {list[i].pid : i \in EntriesOf(p)}

(* The mapping. *)
Sandbox == [m \in {Here} |-> [p \in Programs |-> SandboxOf(p)]]
Orders == [c \in Clients |-> Ordered(request[c])]

(* A program has one sandbox, of a jailor of its own, or none. *)
LEMMA CurrentOne ==
    ASSUME DaemonInv, OneCommand, NEW p \in Programs
    PROVE  \/ Current(p) = {}
           \/ \E j \in Jails : Current(p) = {j} /\ prog[j] = p /\ jpc[j] # "unused"
<1>1. CASE entry.prog = p /\ entry.pid # None
  BY <1>1, Unpack DEF Current, DaemonInv, EntriesSpawned, Spawned
<1>2. CASE ~(entry.prog = p /\ entry.pid # None)
  <2>1. Current(p) = Pids(p)
    BY <1>2 DEF Current, Pids
  <2>2. CASE EntriesOf(p) = {}
    BY <2>1, <2>2 DEF Pids
  <2>3. CASE EntriesOf(p) # {}
    <3>1. PICK i : i \in EntriesOf(p)
      BY <2>3
    <3>2. EntriesOf(p) = {i}
      BY <3>1 DEF EntriesOf, OneCommand, OneEntry
    <3>3. Pids(p) = {list[i].pid}
      BY <3>2 DEF Pids
    <3>4. list[i].pid \in Jails /\ prog[list[i].pid] = p /\ jpc[list[i].pid] # "unused"
      BY <3>1, Unpack DEF EntriesOf, DaemonInv, EntriesSpawned, Spawned
    <3> QED BY <2>1, <3>3, <3>4
  <2> QED BY <2>2, <2>3
<1> QED BY <1>1, <1>2

LEMMA SandboxIs ==
    ASSUME NEW p \in Programs, NEW j, Current(p) = {j}
    PROVE  SandboxOf(p) = StateOf(j)
<1>1. (CHOOSE k \in Current(p) : TRUE) = j /\ Current(p) # {}
  OBVIOUS
<1> QED BY <1>1 DEF SandboxOf, StateOf

LEMMA SandboxWillBe ==
    ASSUME NEW p \in Programs, NEW j, Current(p)' = {j}
    PROVE  SandboxOf(p)' = StateOf(j)'
<1>1. (CHOOSE k \in Current(p)' : TRUE) = j /\ Current(p)' # {}
  OBVIOUS
<1> QED BY <1>1 DEF SandboxOf, StateOf

LEMMA SandboxStays ==
    ASSUME DaemonInv, OneCommand, NEW p \in Programs, Current(p)' = Current(p),
           \A j \in Current(p) : StateOf(j)' = StateOf(j)
    PROVE  SandboxOf(p)' = SandboxOf(p)
<1>1. CASE Current(p) = {}
  BY <1>1 DEF SandboxOf
<1>2. CASE Current(p) # {}
  <2>1. PICK j \in Jails : Current(p) = {j}
    BY <1>2, CurrentOne
  <2> QED BY <2>1, SandboxIs, SandboxWillBe
<1> QED BY <1>1, <1>2

(* The jailor of a program is the one the daemon takes for it. *)
LEMMA LivingIsCurrent ==
    ASSUME SoundInv, NEW j \in Jails, JailorAlive(j)
    PROVE  prog[j] \in Programs /\ Current(prog[j]) = {j}
<1>1. prog[j] \in Programs
  BY SoundFacts, Unpack DEF JailorsAtWork, JailorAlive
<1>2. CASE entry = [prog |-> prog[j], pid |-> j]
  BY <1>1, <1>2, Unpack, SoundFacts DEF Current
<1>3. ASSUME NEW i \in DOMAIN list, list[i] = [prog |-> prog[j], pid |-> j]
      PROVE  Current(prog[j]) = {j}
  <2>1. EntriesOf(prog[j]) = {i}
    BY <1>3, SoundFacts DEF EntriesOf, OneCommand, OneEntry
  <2>2. Pids(prog[j]) = {j}
    BY <1>3, <2>1 DEF Pids
  <2>3. ASSUME entry.prog = prog[j], entry.pid # None PROVE entry.pid = j
    <3>1. dpc \in {"dnat", "forward", "enlist", "kill", "waitpid", "undnat", "unforward", "delist"}
      BY <1>1, <2>3, SoundFacts, Unpack DEF DaemonInv, TypeOK, DaemonPCs, EntryInHand, NoEntry
    <3>2. CASE dpc \in {"dnat", "forward", "enlist"}
      <4>1. EntriesOf(entry.prog) = {}
        BY <3>2, SoundFacts DEF OneCommand, CommandInHand, PathClear, Starting, DaemonInv, EntryInHand
      <4> QED BY <2>1, <2>3, <4>1
    <3>3. CASE dpc \in {"kill", "waitpid", "undnat", "unforward", "delist"}
      <4>1. entry = list[FindProgram(entry.prog)] /\ FindProgram(entry.prog) \in EntriesOf(entry.prog)
        BY <3>3, SoundFacts, Unpack, FindFacts DEF DaemonInv, EntryInHand, EntriesOf
      <4>2. FindProgram(entry.prog) = i
        BY <2>1, <2>3, <4>1
      <4> QED BY <1>3, <4>1, <4>2
    <3> QED BY <3>1, <3>2, <3>3
  <2> QED BY <2>2, <2>3 DEF Current, Pids
<1> QED BY <1>1, <1>2, <1>3, SoundFacts DEF DaemonInv, EveryJailorListed

----------------------------------------------------------------------------
(* Jailors and children. *)

Kept == UNCHANGED <<Sandbox, Orders, answer>>

LEMMA KeptIsStutter == Kept => [Promised!Next]_(Promised!vars)
BY DEF Kept, Sandbox, Orders, Promised!vars

LEMMA SandboxMoves ==
    ASSUME NEW p \in Programs, \A q \in Programs \ {p} : SandboxOf(q)' = SandboxOf(q)
    PROVE  Sandbox' = [Sandbox EXCEPT ![Here][p] = SandboxOf(p)']
<1>1. [Sandbox[Here] EXCEPT ![p] = SandboxOf(p)'] = [q \in Programs |-> SandboxOf(q)']
  BY DEF Sandbox
<1> QED BY <1>1 DEF Sandbox

LEMMA SandboxesStay ==
    ASSUME \A q \in Programs : SandboxOf(q)' = SandboxOf(q)
    PROVE  Sandbox' = Sandbox
BY DEF Sandbox

(* The sandbox of j goes on, comes up, or ends. *)
LEMMA StatesMove ==
    ASSUME SoundInv, NEW j \in Jails, JailorAlive(j), UNCHANGED <<request, answer>>,
           \A q \in Programs : Current(q)' = Current(q),
           \A k \in Jails \ {j} : jpc'[k] = jpc[k] /\ cpc'[k] = cpc[k],
           \/ StateOf(j)' = StateOf(j)
           \/ StateOf(j) = "booting" /\ StateOf(j)' = "up"
           \/ StateOf(j) \in {"booting", "up"} /\ StateOf(j)' = "dead"
    PROVE  [Promised!Next]_(Promised!vars)
<1>1. PICK p \in Programs : p = prog[j] /\ Current(p) = {j}
  BY LivingIsCurrent
<1>2. SandboxOf(p) = StateOf(j) /\ SandboxOf(p)' = StateOf(j)'
  BY <1>1, SandboxIs, SandboxWillBe
<1>3. ASSUME NEW q \in Programs \ {p} PROVE SandboxOf(q)' = SandboxOf(q)
  <2>1. \A k \in Current(q) : k \in Jails \ {j}
    BY <1>1, CurrentOne, SoundFacts
  <2>2. \A k \in Current(q) : StateOf(k)' = StateOf(k)
    BY <2>1 DEF StateOf
  <2> QED BY <2>2, SandboxStays, SoundFacts
<1>4. Orders' = Orders
  BY DEF Orders
<1>5. Sandbox' = [Sandbox EXCEPT ![Here][p] = SandboxOf(p)'] /\ Sandbox[Here][p] = SandboxOf(p)
  BY <1>3, SandboxMoves DEF Sandbox
<1>6. CASE StateOf(j)' = StateOf(j)
  <2>1. Sandbox' = Sandbox
    BY <1>2, <1>3, <1>6, SandboxesStay
  <2> QED BY <1>4, <2>1, KeptIsStutter DEF Kept
<1>7. CASE StateOf(j) = "booting" /\ StateOf(j)' = "up"
  <2>1. Promised!Boot(Here, p)
    BY <1>2, <1>4, <1>5, <1>7 DEF Promised!Boot, Promised!Is, Promised!Becomes, Sandbox, Orders
  <2> QED BY <1>1, <2>1 DEF Promised!Next
<1>8. CASE StateOf(j) \in {"booting", "up"} /\ StateOf(j)' = "dead"
  <2>1. Promised!End(Here, p)
    BY <1>2, <1>4, <1>5, <1>8 DEF Promised!End, Promised!Becomes, Sandbox, Orders
  <2> QED BY <1>1, <2>1 DEF Promised!Next
<1> QED BY <1>6, <1>7, <1>8

LEMMA SameCurrent ==
    ASSUME UNCHANGED <<entry, list>>
    PROVE  \A p \in Programs : Current(p)' = Current(p)
<1>1. \A p : EntriesOf(p)' = EntriesOf(p)
  BY SameList
<1> QED BY <1>1 DEF Current

LEMMA JailsPromise ==
    ASSUME SoundInv, NEW j \in Jails, JailorStep(j) \/ ChildStep(j) \/ Mishap(j), UNCHANGED daemon
    PROVE  [Promised!Next]_(Promised!vars)
<1>1. JailorStep(j) \/ ChildStep(j) \/ ServerDies(j)
  BY SoundFacts DEF Mishap, Quit, ChildFails
<1>2. OthersStay(j)
  BY <1>1, StepsStayIn, SoundFacts, Unpack
<1>3. JailorAlive(j)
  BY <1>1, SoundFacts, ActorLives
<1>4. /\ jpc[j] # "gone" /\ jpc[j] \in JailorPCs /\ cpc[j] \in ChildPCs
      /\ jpc[j] = "clean" => cpc[j] = "dead"
  BY <1>3, SoundFacts, Unpack DEF JailorAlive, JailorTypeOK, DaemonInv, EndsInOrder
<1>5. \/ StateOf(j)' = StateOf(j)
      \/ StateOf(j) = "booting" /\ StateOf(j)' = "up"
      \/ StateOf(j) \in {"booting", "up"} /\ StateOf(j)' = "dead"
  <2>1. OneSandbox' /\ jpc'[j] \in JailorPCs /\ cpc'[j] \in ChildPCs
    BY SandboxStep, SoundFacts, Unpack, JailorTypesStep DEF DaemonInv, EndsInOrder, JailorTypeOK
  <2>2. jpc'[j] = "gone" => cpc'[j] = "dead"
    BY <2>1 DEF OneSandbox, InTurn
  <2>3. /\ StateOf(j) = IF cpc[j] = "serve" THEN "up" ELSE IF cpc[j] = "dead" THEN "dead" ELSE "booting"
        /\ StateOf(j)' = IF cpc'[j] = "serve" THEN "up" ELSE IF cpc'[j] = "dead" THEN "dead" ELSE "booting"
    BY <1>4, <2>2 DEF StateOf
  <2>4. /\ cpc[j] = "dead" => cpc'[j] = "dead"
        /\ cpc[j] = "serve" => cpc'[j] \in {"serve", "dead"}
    <3>1. CASE JailorStep(j)
      BY <1>4, <3>1, SoundFacts, Unpack DEF JailorStep, ReadConfig, MakeRoot, CreateDirectories, SkipFile,
        StartCopy, EndCopy, CopiesDone, AddVeth, Clone, MoveVeth, InstallHandlers, ChildDied,
        RemoveRoot, ChildGoto, JailorTypeOK, OneSandbox, InTurn, Underway, JailorAlive
    <3>2. CASE ChildStep(j) \/ ServerDies(j)
      BY <1>4, <3>2, SoundFacts, Unpack DEF ChildStep, MakeOldRoot, PivotRoot, ConnectSymlinks, Exec,
        ServerReady, ServerDies, ChildDies, ChildGoto, JailorTypeOK
    <3> QED BY <1>1, <3>1, <3>2
  <2> QED BY <2>3, <2>4
<1>6. \A k \in Jails \ {j} : jpc'[k] = jpc[k] /\ cpc'[k] = cpc[k]
  BY <1>2 DEF OthersStay
<1>7. UNCHANGED <<request, answer>> /\ \A q \in Programs : Current(q)' = Current(q)
  BY SameCurrent DEF daemon
<1> QED BY <1>3, <1>5, <1>6, <1>7, StatesMove

----------------------------------------------------------------------------
(* The daemon. *)

LEMMA OrderIs ==
    ASSUME DaemonInv, NEW c \in Clients, request[c] # None
    PROVE  /\ request[c] \in Commands /\ Orders[c] # None
           /\ Orders[c].vm = Here /\ Orders[c].cmd = request[c].cmd /\ Orders[c].prog = request[c].prog
           /\ Orders[c] \in {Ordered(q) : q \in Commands}
           /\ request[c].prog \in Programs
<1>1. request[c] \in Commands
  BY DEF DaemonInv, TypeOK
<1>2. Orders[c] = Ordered(request[c])
  BY DEF Orders
<1>3. Ordered(request[c]) \in {Ordered(q) : q \in Commands}
  BY <1>1
<1>4. request[c] # None /\ request[c].prog \in Programs
  BY <1>1, SdeamonAssumption
<1>5. Orders[c] = [vm |-> Here, cmd |-> request[c].cmd, prog |-> request[c].prog]
  BY <1>2, <1>4 DEF Ordered
<1>6. Orders[c].vm = Here /\ Orders[c].cmd = request[c].cmd /\ Orders[c].prog = request[c].prog
  BY <1>5
<1> QED BY <1>1, <1>2, <1>3, <1>4, <1>6, OrderAssumption

LEMMA AnswerIs ==
    ASSUME DaemonInv, NEW c \in Clients, Waiting(c), request' = request, NEW a, Reply(c, a)
    PROVE  Promised!Answer(c, request[c].cmd, a)
<1>1. request[c] # None /\ answer[c] = "none"
  BY DEF Waiting
<1>2. Orders[c] # None /\ Orders[c].cmd = request[c].cmd
  BY <1>1, OrderIs
<1>3. Orders' = Orders
  BY DEF Orders
<1>4. answer' = [answer EXCEPT ![c] = a]
  BY DEF Reply
<1> QED BY <1>1, <1>2, <1>3, <1>4 DEF Promised!Answer, Promised!Pending, Orders

LEMMA RefusalIs ==
    ASSUME DaemonInv, NEW c \in Clients, Waiting(c), request' = request,
           NEW a \in {"invalid", "noconfig", "closed"}, Reply(c, a), Sandbox' = Sandbox,
           request[c].cmd = "start" => SandboxOf(request[c].prog) = "none"
    PROVE  Promised!Refuse(c)
<1>1. Promised!Answer(c, request[c].cmd, a)
  BY AnswerIs
<1>2. /\ Orders[c].cmd = request[c].cmd /\ Orders[c].vm = Here /\ Orders[c].prog = request[c].prog
      /\ Orders[c] \in {Ordered(q) : q \in Commands} /\ request[c].prog \in Programs
  BY OrderIs DEF Waiting
<1>3. \E q \in {Ordered(q) : q \in Commands} : Promised!Answer(c, q.cmd, a)
  BY <1>1, <1>2
<1>4. Orders[c].cmd = "start" => Sandbox[Orders[c].vm][Orders[c].prog] = "none"
  BY <1>2 DEF Sandbox
<1> QED BY <1>3, <1>4 DEF Promised!Refuse, Promised!Refusals, Promised!Is, Sandbox, Orders

(* Without a process id in hand the list says it all. *)
LEMMA CurrentListed ==
    ASSUME NEW p, entry.prog # p \/ entry.pid = None
    PROVE  Current(p) = Pids(p)
BY DEF Current, Pids

LEMMA CurrentWillBeListed ==
    ASSUME NEW p, entry'.prog # p \/ entry'.pid = None
    PROVE  Current(p)' = Pids(p)'
BY DEF Current, Pids

LEMMA SamePids ==
    ASSUME list' = list
    PROVE  \A p : Pids(p)' = Pids(p)
BY SameList DEF Pids

LEMMA NothingListed ==
    ASSUME NEW p, EntriesOf(p) = {}, entry.prog # p \/ entry.pid = None
    PROVE  SandboxOf(p) = "none"
BY CurrentListed DEF SandboxOf, Pids

(* What the daemon takes for the sandboxes stays: so do they, if the jailors do. *)
LEMMA SandboxesKept ==
    ASSUME SoundInv, UNCHANGED <<jpc, cpc>>, \A p \in Programs : Current(p)' = Current(p)
    PROVE  Sandbox' = Sandbox
<1>1. ASSUME NEW p \in Programs PROVE SandboxOf(p)' = SandboxOf(p)
  <2>1. \A j \in Current(p) : StateOf(j)' = StateOf(j)
    BY DEF StateOf
  <2> QED BY <2>1, SandboxStays, SoundFacts
<1> QED BY <1>1, SandboxesStay

LEMMA ConnectPromise ==
    ASSUME SoundInv, NEW c \in Clients, NEW q \in Commands, Connect(c, q)
    PROVE  [Promised!Next]_(Promised!vars)
<1>1. /\ request[c] = None /\ Settled(q) /\ request' = [request EXCEPT ![c] = q]
      /\ UNCHANGED <<jails, entry, list, answer>>
  BY SoundFacts DEF Connect
<1>2. Sandbox' = Sandbox
  BY <1>1, SameCurrent, SandboxesKept DEF jails
<1>3. \A d \in Clients : ~Waiting(d)
  BY <1>1 DEF Settled
<1>4. dpc = "accept" /\ entry = NoEntry
  BY <1>3, SoundFacts DEF OneCommand, CommandInHand, DaemonInv, EntryInHand
<1>5. entry.prog = None /\ entry.pid = None
  BY <1>4 DEF NoEntry
<1>6. q.prog \in Programs
  BY SdeamonAssumption
<1>7. q.cmd = "start" => SandboxOf(q.prog) = "none"
  BY <1>1, <1>5, NothingListed DEF Settled
<1>8. q.cmd = "stop" => SandboxOf(q.prog) # "booting"
  <2> SUFFICES ASSUME q.cmd = "stop" PROVE SandboxOf(q.prog) # "booting"
    OBVIOUS
  <2>1. CASE Current(q.prog) = {}
    BY <2>1 DEF SandboxOf
  <2>2. ASSUME NEW j \in Jails, Current(q.prog) = {j}, jpc[j] # "unused"
        PROVE  SandboxOf(q.prog) # "booting"
    <3>1. SandboxOf(q.prog) = StateOf(j)
      BY <1>6, <2>2, SandboxIs
    <3>2. j \in Pids(q.prog)
      BY <1>5, <2>2, CurrentListed
    <3>3. ~JailorAlive(j) \/ cpc[j] = "serve"
      BY <1>1, <3>2 DEF Settled, Pids
    <3>4. jpc[j] = "gone" \/ cpc[j] = "serve"
      BY <2>2, <3>3 DEF JailorAlive
    <3>5. jpc[j] = "gone" => cpc[j] = "dead"
      BY SoundFacts DEF OneSandbox, InTurn
    <3> QED BY <3>1, <3>4, <3>5 DEF StateOf
  <2> QED BY <1>6, <2>1, <2>2, CurrentOne, SoundFacts
<1>9. /\ Orders' = [Orders EXCEPT ![c] = Ordered(q)] /\ Orders[c] = None
      /\ Ordered(q) = [vm |-> Here, cmd |-> q.cmd, prog |-> q.prog]
  <2>1. request \in [Clients -> Commands \cup {None}]
    BY SoundFacts DEF DaemonInv, TypeOK
  <2>2. \A d \in Clients : request'[d] = IF d = c THEN q ELSE request[d]
    BY <1>1, <2>1
  <2>3. Orders' = [d \in Clients |-> IF d = c THEN Ordered(q) ELSE Ordered(request[d])]
    BY <2>2 DEF Orders
  <2>4. q # None
    BY SdeamonAssumption
  <2> QED BY <1>1, <2>3, <2>4 DEF Orders, Ordered
<1>10. \A d \in Clients : ~(Orders[d] # None /\ answer[d] = "none")
  BY <1>3 DEF Orders, Ordered, Waiting
<1>11. Promised!Settled(Ordered(q))
  <2>1. ~Promised!Busy(Ordered(q).vm)
    BY <1>10 DEF Promised!Busy, Promised!Pending, Orders
  <2>2. Sandbox[Ordered(q).vm][Ordered(q).prog] = SandboxOf(q.prog)
    BY <1>6, <1>9 DEF Sandbox
  <2> QED BY <1>7, <1>8, <1>9, <2>1, <2>2 DEF Promised!Settled, Sandbox
<1>12. Promised!Connect(c, Ordered(q))
  BY <1>1, <1>2, <1>9, <1>11 DEF Promised!Connect, Sandbox, Orders
<1> QED BY <1>12 DEF Promised!Next

LEMMA AcceptPromise ==
    ASSUME SoundInv, NEW c \in Clients,
           Refuse(c) \/ HangUp(c) \/ AcceptStart(c) \/ AcceptStop(c)
    PROVE  [Promised!Next]_(Promised!vars)
<1>1. /\ dpc = "accept" /\ Waiting(c) /\ UNCHANGED <<request, list, jails>>
  BY DEF Refuse, HangUp, AcceptStart, AcceptStop, Serve
<1>2. entry.prog = None /\ entry.pid = None
  BY <1>1, SoundFacts DEF DaemonInv, EntryInHand, NoEntry
<1>3. \A p \in Programs : Current(p) = Pids(p) /\ Pids(p)' = Pids(p)
  BY <1>1, <1>2, SamePids, CurrentListed
<1>4. request[c].prog \in Programs
  BY <1>1, WaitingFacts, SoundFacts
<1>5. ASSUME \A p \in Programs : Current(p)' = Pids(p)
      PROVE  Sandbox' = Sandbox
  BY <1>1, <1>3, <1>5, SandboxesKept DEF jails
<1>6. CASE entry' = entry /\ \E a \in {"invalid", "noconfig", "closed"} : Reply(c, a)
  <2>1. Sandbox' = Sandbox
    BY <1>2, <1>3, <1>5, <1>6, CurrentWillBeListed
  <2>2. request[c].cmd = "start" => SandboxOf(request[c].prog) = "none"
    BY <1>1, <1>2, SoundFacts, NothingListed DEF OneCommand, PathClear
  <2>3. Promised!Refuse(c)
    BY <1>1, <1>6, <2>1, <2>2, RefusalIs, SoundFacts
  <2> QED BY <2>3 DEF Promised!Next
<1>7. CASE Refuse(c) \/ HangUp(c)
  BY <1>6, <1>7 DEF Refuse, HangUp
<1>8. CASE AcceptStart(c)
  <2>1. CASE request[c].prog \in Configured
    <3>1. entry'.pid = None /\ answer' = answer
      BY <1>8, <2>1 DEF AcceptStart
    <3>2. Sandbox' = Sandbox
      BY <1>3, <1>5, <3>1, CurrentWillBeListed
    <3> QED BY <1>1, <3>1, <3>2, KeptIsStutter DEF Kept, Orders
  <2>2. CASE request[c].prog \notin Configured
    BY <1>6, <1>8, <2>2 DEF AcceptStart
  <2> QED BY <2>1, <2>2
<1>9. CASE AcceptStop(c) /\ EntriesOf(request[c].prog) # {}
  <2> PICK q \in Programs : q = request[c].prog
    BY <1>4
  <2>1. entry' = list[FindProgram(q)] /\ answer' = answer
    BY <1>9 DEF AcceptStop
  <2>2. FindProgram(q) \in EntriesOf(q) /\ entry'.prog = q /\ entry'.pid # None
    BY <1>9, <2>1, FindFacts, Unpack, SoundFacts DEF EntriesOf, Entries
  <2>3. Pids(q) = {entry'.pid}
    <3>1. EntriesOf(q) = {FindProgram(q)}
      BY <2>2, SoundFacts DEF EntriesOf, OneCommand, OneEntry
    <3> QED BY <2>1, <3>1 DEF Pids
  <2>4. Current(q)' = {entry'.pid}
    BY <2>2 DEF Current
  <2>5. \A p \in Programs \ {q} : Current(p)' = Pids(p)
    BY <1>3, <2>2, CurrentWillBeListed
  <2>6. Sandbox' = Sandbox
    BY <1>5, <2>3, <2>4, <2>5
  <2> QED BY <1>1, <2>1, <2>6, KeptIsStutter DEF Kept, Orders
<1>10. CASE AcceptStop(c) /\ EntriesOf(request[c].prog) = {}
  <2>1. Reply(c, "notfound") /\ entry' = entry /\ request[c].cmd = "stop"
    BY <1>10 DEF AcceptStop, Serve
  <2>2. Sandbox' = Sandbox
    BY <1>2, <1>3, <1>5, <2>1, CurrentWillBeListed
  <2>3. Promised!Answer(c, "stop", "notfound")
    BY <1>1, <2>1, AnswerIs, SoundFacts
  <2>4. Orders[c].vm = Here /\ Orders[c].prog = request[c].prog
    BY <1>1, OrderIs, SoundFacts DEF Waiting
  <2>5. Sandbox[Orders[c].vm][Orders[c].prog] = "none"
    BY <1>2, <1>4, <1>10, <2>4, NothingListed DEF Sandbox
  <2>6. Promised!NotFound(c)
    BY <2>2, <2>3, <2>5 DEF Promised!NotFound, Promised!Is, Sandbox, Orders
  <2> QED BY <2>6 DEF Promised!Next
<1> QED BY <1>7, <1>8, <1>9, <1>10

LEMMA ProceedPromise ==
    ASSUME SoundInv,
           RunConfiger \/ AddDnat \/ AddForward \/ WaitJailor \/ DeleteDnat \/ DeleteForward
    PROVE  [Promised!Next]_(Promised!vars)
<1>1. UNCHANGED <<request, answer, list, entry, jpc, cpc>>
  BY DEF RunConfiger, AddDnat, AddForward, WaitJailor, DeleteDnat, DeleteForward, At, Proceed, jails
<1>2. Sandbox' = Sandbox
  BY <1>1, SameCurrent, SandboxesKept
<1> QED BY <1>1, <1>2, KeptIsStutter DEF Kept, Orders

(* The command in hand, as the promise sees it. *)
LEMMA InHandIs ==
    ASSUME SoundInv, dpc # "accept"
    PROVE  /\ client \in Clients /\ Waiting(client) /\ request[client].prog = entry.prog
           /\ entry.prog \in Programs
           /\ Orders[client] # None /\ Orders[client].vm = Here
           /\ Orders[client].prog = entry.prog /\ Orders[client].cmd = request[client].cmd
           /\ request[client].cmd = IF dpc \in Starting THEN "start" ELSE "stop"
           /\ dpc \in Starting => EntriesOf(entry.prog) = {}
<1>1. /\ client \in Clients /\ Waiting(client) /\ request[client].prog = entry.prog
      /\ entry.prog \in Programs
      /\ request[client].cmd = IF dpc \in Starting THEN "start" ELSE "stop"
      /\ dpc \in Starting => EntriesOf(entry.prog) = {}
  BY SoundFacts DEF OneCommand, CommandInHand, PathClear, DaemonInv, EntryInHand
<1> QED BY <1>1, OrderIs, SoundFacts DEF Waiting

LEMMA ForkFailsPromise ==
    ASSUME SoundInv, ForkFails
    PROVE  [Promised!Next]_(Promised!vars)
<1>1. /\ dpc \in {"configer", "jailor"} /\ entry' = NoEntry /\ Reply(client, "closed")
      /\ UNCHANGED <<jpc, cpc, list, request>>
  BY DEF ForkFails, At, Done, jails
<1>2. entry.pid = None /\ entry'.pid = None
  BY <1>1, SoundFacts DEF DaemonInv, EntryInHand, NoEntry
<1>3. \A p \in Programs : Current(p)' = Current(p)
  BY <1>1, <1>2, SamePids, CurrentListed, CurrentWillBeListed
<1>4. Sandbox' = Sandbox
  BY <1>1, <1>3, SandboxesKept
<1>5. SandboxOf(request[client].prog) = "none"
  BY <1>1, <1>2, InHandIs, NothingListed DEF Starting
<1>6. Promised!Refuse(client) /\ client \in Clients
  BY <1>1, <1>4, <1>5, InHandIs, SoundFacts, RefusalIs
<1> QED BY <1>6 DEF Promised!Next

LEMMA ForkPromise ==
    ASSUME SoundInv, ForkJailor
    PROVE  [Promised!Next]_(Promised!vars)
<1>1. PICK j \in Jails :
        /\ jpc[j] = "unused" /\ jpc' = [jpc EXCEPT ![j] = "config"]
        /\ cpc' = cpc /\ entry' = [entry EXCEPT !.pid = j]
        /\ dpc = "jailor" /\ UNCHANGED <<client, answer, list, request>>
  BY DEF ForkJailor, Spawn, JailorGoto, At
<1>2. PICK q \in Programs : q = entry.prog
  BY <1>1, InHandIs
<1>3. entry.pid = None /\ entry'.prog = q /\ entry'.pid = j /\ j # None
  BY <1>1, <1>2, SoundFacts, Unpack DEF DaemonInv, EntryInHand
<1>4. SandboxOf(q) = "none"
  BY <1>1, <1>2, <1>3, InHandIs, NothingListed DEF Starting
<1>5. SandboxOf(q)' = "booting"
  <2>1. Current(q)' = {j}
    BY <1>3 DEF Current
  <2>2. cpc[j] = "none" /\ jpc'[j] = "config"
    BY <1>1, SoundFacts, Unpack DEF OneSandbox, InTurn, JailorTypeOK
  <2>3. StateOf(j)' = "booting"
    BY <1>1, <2>2 DEF StateOf
  <2> QED BY <2>1, <2>3, SandboxWillBe
<1>6. ASSUME NEW p \in Programs \ {q} PROVE SandboxOf(p)' = SandboxOf(p)
  <2>1. Current(p)' = Current(p)
    BY <1>1, <1>2, <1>3, SamePids, CurrentListed, CurrentWillBeListed
  <2>2. \A k \in Current(p) : k # j
    BY <1>1, CurrentOne, SoundFacts
  <2>3. \A k \in Current(p) : k \in Jails
    BY CurrentOne, SoundFacts
  <2>4. \A k \in Current(p) : StateOf(k)' = StateOf(k)
    BY <1>1, <2>2, <2>3, SoundFacts, Unpack DEF StateOf, JailorTypeOK
  <2> QED BY <2>1, <2>4, SandboxStays, SoundFacts
<1>7. Sandbox' = [Sandbox EXCEPT ![Here][q] = "booting"] /\ Sandbox[Here][q] = "none"
  BY <1>4, <1>5, <1>6, SandboxMoves DEF Sandbox
<1>8. Promised!Create(client)
  <2>1. /\ Orders[client] # None /\ Orders[client].vm = Here /\ Orders[client].prog = q
        /\ Orders[client].cmd = "start" /\ answer[client] = "none"
    BY <1>1, <1>2, InHandIs DEF Starting, Waiting
  <2>2. Orders' = Orders
    BY <1>1 DEF Orders
  <2> QED BY <1>1, <1>7, <2>1, <2>2
      DEF Promised!Create, Promised!Pending, Promised!Is, Promised!Becomes, Sandbox, Orders
<1> QED BY <1>1, <1>8, InHandIs DEF Promised!Next

LEMMA EnlistPromise ==
    ASSUME SoundInv, Enlist
    PROVE  [Promised!Next]_(Promised!vars)
<1>1. /\ dpc = "enlist" /\ list' = <<entry>> \o list /\ entry' = NoEntry
      /\ Reply(client, "started") /\ UNCHANGED <<jpc, cpc, request>>
      /\ entry \in Entries
  BY SoundFacts DEF Enlist, At, Done, jails, DaemonInv, EntryInHand
<1>2. PICK q \in Programs : q = entry.prog
  BY <1>1, InHandIs
<1>3. entry.pid \in Jails /\ entry.pid # None /\ entry'.pid = None /\ EntriesOf(q) = {}
  BY <1>1, <1>2, InHandIs, JailorAssumption DEF Entries, NoEntry, Starting
<1>4. /\ Len(list') = Len(list) + 1 /\ list' \in Seq(Entries) /\ list'[1] = entry
      /\ \A i \in 1..Len(list) : list'[i + 1] = list[i]
  BY <1>1, Enlisted, SoundFacts, Unpack
<1>5. DOMAIN list = 1..Len(list) /\ Len(list) \in Nat /\ DOMAIN list' = 1..(Len(list) + 1)
  BY <1>4, SoundFacts, Unpack, LenProperties
<1>6. ASSUME NEW m \in DOMAIN list', m # 1
      PROVE  m - 1 \in DOMAIN list /\ list'[m] = list[m - 1]
  <2>1. m - 1 \in 1..Len(list) /\ (m - 1) + 1 = m
    BY <1>5, <1>6
  <2> QED BY <1>4, <1>5, <2>1
<1>7. Current(q) = {entry.pid}
  BY <1>2, <1>3 DEF Current
<1>8. Current(q)' = {entry.pid}
  <2>1. EntriesOf(q)' = {1}
    <3>1. 1 \in EntriesOf(q)'
      BY <1>2, <1>4, <1>5 DEF EntriesOf
    <3>2. ASSUME NEW m \in EntriesOf(q)' PROVE m = 1
      BY <1>3, <1>6 DEF EntriesOf
    <3> QED BY <3>1, <3>2
  <2>2. Pids(q)' = {entry.pid}
    BY <1>4, <2>1 DEF Pids
  <2> QED BY <1>3, <2>2, CurrentWillBeListed
<1>9. ASSUME NEW p \in Programs \ {q} PROVE Current(p)' = Current(p)
  <2>1. ASSUME NEW x \in Pids(p) PROVE x \in Pids(p)'
    <3>1. PICK i \in DOMAIN list : list[i].prog = p /\ x = list[i].pid
      BY DEF Pids, EntriesOf
    <3>2. i + 1 \in DOMAIN list' /\ list'[i + 1] = list[i]
      BY <1>4, <1>5
    <3> QED BY <3>1, <3>2 DEF Pids, EntriesOf
  <2>2. ASSUME NEW x \in Pids(p)' PROVE x \in Pids(p)
    <3>1. PICK m \in DOMAIN list' : list'[m].prog = p /\ x = list'[m].pid
      BY DEF Pids, EntriesOf
    <3>2. m - 1 \in DOMAIN list /\ list'[m] = list[m - 1]
      BY <1>2, <1>4, <1>6, <3>1
    <3> QED BY <3>1, <3>2 DEF Pids, EntriesOf
  <2>3. Pids(p)' = Pids(p)
    BY <2>1, <2>2
  <2> QED BY <1>2, <1>3, <2>3, CurrentListed, CurrentWillBeListed
<1>10. Sandbox' = Sandbox
  BY <1>1, <1>7, <1>8, <1>9, SandboxesKept
<1>11. Sandbox[Here][q] # "none"
  <2>1. SandboxOf(q) = StateOf(entry.pid)
    BY <1>7, SandboxIs
  <2> QED BY <2>1 DEF Sandbox, StateOf
<1>12. Promised!Started(client)
  <2>1. Promised!Answer(client, "start", "started")
    BY <1>1, InHandIs, AnswerIs, SoundFacts DEF Starting
  <2>2. Orders[client].vm = Here /\ Orders[client].prog = q
    BY <1>1, <1>2, InHandIs
  <2> QED BY <1>10, <1>11, <2>1, <2>2 DEF Promised!Started, Promised!Is, Sandbox, Orders
<1> QED BY <1>1, <1>12, InHandIs DEF Promised!Next

LEMMA DelistPromise ==
    ASSUME SoundInv, Delist
    PROVE  [Promised!Next]_(Promised!vars)
<1>1. /\ dpc = "delist" /\ list' = RemoveAt(list, FindProgram(entry.prog)) /\ entry' = NoEntry
      /\ Reply(client, "stopped") /\ UNCHANGED <<jpc, cpc, request>>
      /\ entry \in Entries /\ entry = list[FindProgram(entry.prog)]
      /\ EntriesOf(entry.prog) # {} /\ jpc[entry.pid] = "gone"
  BY SoundFacts, Unpack DEF Delist, At, Done, jails, DaemonInv, EntryInHand, EndsInOrder
<1>2. PICK q \in Programs : q = entry.prog
  BY <1>1, InHandIs
<1> PICK k : k = FindProgram(q)
  OBVIOUS
<1>3. /\ entry.pid \in Jails /\ entry.pid # None /\ entry'.pid = None
      /\ k \in 1..Len(list) /\ list[k].prog = q
  BY <1>1, <1>2, FindFacts, SoundFacts, Unpack DEF Entries, NoEntry
<1>4. /\ list' \in Seq(Entries) /\ Len(list') = Len(list) - 1
      /\ \A i \in 1..(Len(list) - 1) : list'[i] = IF i < k THEN list[i] ELSE list[i + 1]
      /\ \A i \in 1..Len(list) : i # k => \E m \in 1..(Len(list) - 1) : list'[m] = list[i]
  BY <1>1, <1>2, <1>3, Delisted, SoundFacts, Unpack
<1>5. DOMAIN list = 1..Len(list) /\ Len(list) \in Nat /\ DOMAIN list' = 1..(Len(list) - 1)
  BY <1>4, SoundFacts, Unpack, LenProperties
<1>6. ASSUME NEW m \in DOMAIN list'
      PROVE  \E i \in DOMAIN list : i # k /\ list'[m] = list[i]
  <2>1. CASE m < k
    BY <1>3, <1>4, <1>5, <2>1
  <2>2. CASE ~(m < k)
    <3>1. m + 1 \in DOMAIN list /\ m + 1 # k /\ list'[m] = list[m + 1]
      BY <1>3, <1>4, <1>5, <2>2
    <3> QED BY <3>1
  <2> QED BY <2>1, <2>2
<1>7. SandboxOf(q) = "dead"
  <2>1. Current(q) = {entry.pid}
    BY <1>2, <1>3 DEF Current
  <2>2. cpc[entry.pid] = "dead"
    BY <1>1, <1>3, SoundFacts DEF OneSandbox, InTurn
  <2>3. SandboxOf(q) = StateOf(entry.pid)
    BY <2>1, SandboxIs
  <2> QED BY <2>2, <2>3 DEF StateOf
<1>8. SandboxOf(q)' = "none"
  <2>1. EntriesOf(q)' = {}
    <3>1. ASSUME NEW m \in DOMAIN list' PROVE list'[m].prog # q
      BY <1>3, <1>5, <1>6, SoundFacts DEF OneCommand, OneEntry
    <3> QED BY <3>1 DEF EntriesOf
  <2>2. Pids(q)' = {}
    BY <2>1 DEF Pids
  <2>3. Current(q)' = {}
    BY <1>3, <2>2, CurrentWillBeListed
  <2> QED BY <2>3 DEF SandboxOf
<1>9. ASSUME NEW p \in Programs \ {q} PROVE SandboxOf(p)' = SandboxOf(p)
  <2>1. ASSUME NEW x \in Pids(p) PROVE x \in Pids(p)'
    <3>1. PICK i \in DOMAIN list : list[i].prog = p /\ x = list[i].pid
      BY DEF Pids, EntriesOf
    <3>2. PICK m \in DOMAIN list' : list'[m] = list[i]
      BY <1>3, <1>4, <1>5, <3>1
    <3> QED BY <3>1, <3>2 DEF Pids, EntriesOf
  <2>2. ASSUME NEW x \in Pids(p)' PROVE x \in Pids(p)
    <3>1. PICK m \in DOMAIN list' : list'[m].prog = p /\ x = list'[m].pid
      BY DEF Pids, EntriesOf
    <3>2. PICK i \in DOMAIN list : list'[m] = list[i]
      BY <1>6
    <3> QED BY <3>1, <3>2 DEF Pids, EntriesOf
  <2>3. Pids(p)' = Pids(p)
    BY <2>1, <2>2
  <2>4. Current(p)' = Current(p)
    BY <1>2, <1>3, <2>3, CurrentListed, CurrentWillBeListed
  <2>5. \A j \in Current(p) : StateOf(j)' = StateOf(j)
    BY <1>1 DEF StateOf
  <2> QED BY <2>4, <2>5, SandboxStays, SoundFacts
<1>10. Sandbox' = [Sandbox EXCEPT ![Here][q] = "none"] /\ Sandbox[Here][q] = "dead"
  BY <1>7, <1>8, <1>9, SandboxMoves DEF Sandbox
<1>11. Promised!Stopped(client)
  <2>1. Promised!Answer(client, "stop", "stopped")
    BY <1>1, InHandIs, AnswerIs, SoundFacts DEF Starting
  <2>2. Orders[client].vm = Here /\ Orders[client].prog = q
    BY <1>1, <1>2, InHandIs
  <2> QED BY <1>10, <2>1, <2>2
      DEF Promised!Stopped, Promised!Is, Promised!Becomes, Sandbox, Orders
<1> QED BY <1>1, <1>11, InHandIs DEF Promised!Next

(* The signal may end the server: a sandbox ends. *)
LEMMA KillPromise ==
    ASSUME SoundInv, Kill
    PROVE  [Promised!Next]_(Promised!vars)
<1>1. /\ dpc = "kill" /\ Terminate(entry.pid) /\ UNCHANGED <<entry, list, request, answer>>
      /\ entry.pid \in Jails
  BY SoundFacts, Unpack DEF Kill, At, Proceed
<1>2. \A q \in Programs : Current(q)' = Current(q)
  BY <1>1, SameCurrent
<1>3. CASE cpc' = cpc
  <2>1. \A j \in Jails : jpc'[j] # jpc[j] => JailorAlive(j) /\ ~Armed(j)
    BY <1>1, SoundFacts, Unpack DEF Terminate, JailorGoto, JailorTypeOK
  <2>2. jpc' = jpc
    <3>1. Ready(entry.pid)
      <4>1. entry = list[FindProgram(entry.prog)] /\ EntriesOf(entry.prog) # {}
        BY <1>1, SoundFacts DEF DaemonInv, EntryInHand
      <4>2. FindProgram(entry.prog) \in EntriesOf(entry.prog)
        BY <4>1, FindFacts, SoundFacts, Unpack DEF EntriesOf
      <4> QED BY <1>1, <4>1, <4>2, InHandIs, SoundFacts DEF OneCommand, PathClear, Starting
    <3> QED BY <1>1, <3>1 DEF Ready, Terminate, JailorAlive, Armed
  <2>3. Sandbox' = Sandbox
    BY <1>2, <1>3, <2>2, SandboxesKept
  <2> QED BY <1>1, <2>3, KeptIsStutter DEF Kept, Orders
<1>4. CASE cpc' # cpc
  <2>1. /\ cpc[entry.pid] = "serve" /\ cpc' = [cpc EXCEPT ![entry.pid] = "dead"] /\ jpc' = jpc
        /\ JailorAlive(entry.pid)
    BY <1>1, <1>4 DEF Terminate, ChildGoto, Armed, JailorAlive
  <2>2. PICK j \in Jails : j = entry.pid
    BY <1>1
  <2>3. /\ cpc'[j] = "dead" /\ \A k \in Jails \ {j} : jpc'[k] = jpc[k] /\ cpc'[k] = cpc[k]
    BY <2>1, <2>2, SoundFacts, Unpack DEF JailorTypeOK
  <2>4. StateOf(j) = "up"
    BY <2>1, <2>2 DEF StateOf, JailorAlive
  <2>5. StateOf(j)' = "dead"
    BY <2>3 DEF StateOf
  <2> QED BY <1>1, <1>2, <2>1, <2>2, <2>3, <2>4, <2>5, StatesMove
<1> QED BY <1>3, <1>4

----------------------------------------------------------------------------
(* Every step. *)

LEMMA StepPromise ==
    ASSUME SoundInv, [Next]_vars
    PROVE  [Promised!Next]_(Promised!vars)
<1>1. CASE UNCHANGED <<request, answer, list, entry, jpc, cpc>>
  <2>1. Sandbox' = Sandbox
    BY <1>1, SameCurrent, SandboxesKept
  <2> QED BY <1>1, <2>1, KeptIsStutter DEF Kept, Orders
<1>2. ~Exit /\ ~Restart
  BY SoundFacts DEF Exit, Restart
<1>3. CASE Daemon
  BY <1>3, AcceptPromise, ProceedPromise, ForkPromise, EnlistPromise, KillPromise, DelistPromise
  DEF Daemon
<1>4. ASSUME NEW j \in Jails,
             Beside(JailorStep(j)) \/ Beside(ChildStep(j)) \/ Beside(Mishap(j))
      PROVE  [Promised!Next]_(Promised!vars)
  <2>1. JailorStep(j) \/ ChildStep(j) \/ Mishap(j)
    BY <1>4 DEF Beside
  <2>2. UNCHANGED daemon
    BY <1>4 DEF Beside
  <2> QED BY <2>1, <2>2, JailsPromise
<1>5. ASSUME NEW p \in Programs, Beside(NamespaceGone(p)) PROVE [Promised!Next]_(Promised!vars)
  BY <1>1, <1>5 DEF Beside, NamespaceGone, daemon
<1>6. CASE UNCHANGED vars
  BY <1>1, <1>6 DEF vars, jails, daemon
<1> QED BY <1>2, <1>3, <1>4, <1>5, <1>6, ConnectPromise, AcceptPromise, ForkFailsPromise DEF Next

LEMMA InitPromise == Init => Promised!Init
<1> SUFFICES ASSUME Init PROVE Promised!Init
  OBVIOUS
<1>1. list = <<>> /\ entry = NoEntry
  BY DEF Init
<1>2. \A p : EntriesOf(p) = {}
  BY <1>1 DEF EntriesOf
<1>3. \A p : SandboxOf(p) = "none"
  BY <1>1, <1>2, NothingListed DEF NoEntry
<1>4. Sandbox = [m \in {Here} |-> [p \in Programs |-> "none"]]
  BY <1>3 DEF Sandbox
<1>5. Orders = [c \in Clients |-> None]
  BY DEF Init, Orders, Ordered
<1>6. answer = [c \in Clients |-> "none"]
  BY DEF Init
<1> QED BY <1>4, <1>5, <1>6 DEF Promised!Init, Sandbox, Orders

LEMMA SoundAlways == Sound /\ Spec => []SoundInv
<1>1. Sound /\ Init => SoundInv
  BY InitInv, InitSettled DEF SoundInv, CarefulInv, Init
<1>2. SoundInv /\ [Next]_vars => SoundInv'
  <2> SUFFICES ASSUME SoundInv, [Next]_vars PROVE SoundInv'
    OBVIOUS
  <2>1. CarefulInv'
    BY NextInv, NextSettled DEF SoundInv, CarefulInv, Settling
  <2>2. exited' = exited
    <3>1. CASE Daemon
      BY <3>1 DEF Daemon, Refuse, AcceptStart, AcceptStop, Serve, RunConfiger, ForkJailor, AddDnat,
        AddForward, Enlist, Kill, WaitJailor, DeleteDnat, DeleteForward, Delist, At
    <3>2. ~Exit /\ ~Restart
      BY SoundFacts DEF Exit, Restart
    <3> QED BY <3>1, <3>2 DEF Next, Connect, HangUp, Serve, ForkFails, At, Beside, daemon, vars
  <2> QED BY <2>1, <2>2 DEF SoundInv, Sound
<1> QED BY <1>1, <1>2, PTL DEF Spec

(* With an operator who lets things settle, and unless a call of a jailor or  *)
(* system() itself fails, the daemon and its jailors keep the promise of      *)
(* Sandboxes: one sandbox per program, and answers that are true of it        *)
(* (sdeamon.c:95-231, jailor.c:168-216, 384-431).                             *)
THEOREM DaemonKeepsItsPromise == Sound /\ Spec => PromiseKept
<1>1. SoundInv /\ [Next]_vars => [Promised!Next]_(Promised!vars)
  BY StepPromise
<1> QED BY <1>1, InitPromise, SoundAlways, PTL DEF Spec, PromiseKept, Promised!Spec
=============================================================================
