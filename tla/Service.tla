------------------------------ MODULE Service ------------------------------
(* The whole of COMIC-RAN while a server moves from one virtual machine to    *)
(* another: the operator at smanager (Smanager), the daemons of the machines   *)
(* by what they promise (Sandboxes, which Sdeamon implements), the proxy by    *)
(* what it promises (RouteMap, which Sdn implements), the server programs      *)
(* (Servers), and the clients (src/client/client.c) that go on asking, one of  *)
(* them the operator's, who uses it to give the proxy its rules.               *)
(*                                                                            *)
(* Assumed here, and looked into where the parts are: datagrams are neither   *)
(* lost nor parsed wrong, a server that is alive answers within the five      *)
(* seconds the proxy waits, and addresses fit the rules.  So whose answer a   *)
(* client gets is no question of this module: the words that two handlers     *)
(* cross and the answers that come late are in Sdn.                           *)
EXTENDS Smanager, Servers, FiniteSets

CONSTANTS
    Machines,      \* the virtual machines: the places where a daemon listens
    Dests,         \* destination numbers; also the numbers of the programs
    MaxCommands,   \* bound: starts and stops the operator sends
    Users,         \* clients that send numbers
    Operator,      \* the client of the operator
    Turns,         \* bound: lines per client
    Numbers,       \* what each user types: [dest, arg], a number or NaN for a word
    Container,     \* where the prime server runs, in an LXD container
    PrimeDest,     \* the destination the proxy takes to it
    MAX_RULES,
    MaxCrashes     \* bound: servers that die on their own

Connections == 1 .. MaxCommands
Clients == Users \cup {Operator}
Requests == UNION {{c} \X (1 .. Turns[c]) : c \in Clients}
Instances == Machines \X Dests
Addrs == Instances \cup {Container}
AllDests == Dests \cup {PrimeDest}
Commands == [vm : Machines, cmd : {"start", "stop"}, prog : Dests]

ASSUME ServiceAssumption ==
    /\ Machines \subseteq Places
    /\ Operator \notin Users
    /\ PrimeDest \notin Dests
    /\ Container \notin Machines \X Dests
    /\ \A u \in Users : Numbers[u] \subseteq [dest : AllDests, arg : Int \cup {NaN}]
    /\ Turns \in [Clients -> Nat]
    /\ None \notin Addrs /\ None \notin Connections /\ None \notin Commands
    /\ None \notin [kind : {"set", "unset", "data"}, dest : AllDests, arg : Addrs \cup Int \cup {NaN}]
    /\ MAX_RULES \in Nat /\ MAX_RULES >= Cardinality(AllDests)
    /\ MaxCommands \in Nat /\ MaxCrashes \in Nat

VARIABLES
    sandbox, order, told,             \* Sandboxes
    table, status, op, result, reply, \* RouteMap
    line,       \* per request: the line its client sent, None before
    flight,     \* per request: where its number is between proxy and instance
    value,      \* per request: the number its answer carries
    listening,  \* the instances whose socket is bound
    primes,     \* the array of the prime server
    crashed,    \* history: instances that died on their own
    subject     \* bound: the destination that all lines and commands are about

daemons == <<sandbox, order, told>>
routing == <<table, status, op, result, reply>>
instances == <<flight, value, listening, primes>>
history == <<crashed, subject>>
vars == <<manager, daemons, routing, line, instances, history>>

Boxes == INSTANCE Sandboxes WITH Programs <- Dests, Clients <- Connections
Routes == INSTANCE RouteMap WITH inForce <- TRUE, Dests <- AllDests

Line(k, d, x) == [kind |-> k, dest |-> d, arg |-> x]

Init ==
    /\ ManagerInit
    /\ Boxes!Init
    /\ Routes!Init
    /\ line = [r \in Requests |-> None]
    /\ flight = [r \in Requests |-> "none"]
    /\ value = [r \in Requests |-> NaN]
    /\ listening = {Container}
    /\ primes = FirstPrimes
    /\ crashed = {}
    /\ subject \in AllDests

Running(i) == sandbox[i[1]][i[2]]
Route(r) == result[r].addr
Routed(r) == status[r] = "applied" /\ result[r].verdict = "route"

----------------------------------------------------------------------------
(* The operator edits smanager's table and starts and stops programs.        *)

(* Bound: while no sandbox is left.  The table concerns only his commands.    *)
Quiet == subject \in Dests /\ \A i \in Instances : Running(i) = "none"

EditTable(n) ==
    /\ Quiet
    /\ \/ RemoveVm(n)
       \/ \E p \in Places : UpdateVm(n, p) \/ AddVm(n, p)
    /\ UNCHANGED <<daemons, routing, line, instances, history>>

(* The proxy has had no rule for the instance for longer than its handlers    *)
(* wait for an answer, and none is on its way there.                          *)
Drained(i) ==
    /\ \A b \in table : b.addr # i
    /\ \A r \in Requests : Routed(r) => Route(r) # i
    /\ \A r \in Requests : line[r] # None /\ line[r].kind = "set" /\ line[r].arg = i =>
                             status[r] = "answered"

(* start vm, stop vm.  The operator goes by the numbers he gave, and stops an *)
(* instance that is drained or dead.                                          *)
Command(c, n, cmd, d) ==
    /\ \A e \in Connections : order[e] = None <=> e >= c
    /\ d = subject
    /\ known[n] \in Machines
    /\ LET i == <<known[n], d>> IN cmd = "stop" => Running(i) = "dead" \/ Drained(i)
    /\ \E m \in Machines :
         /\ SendCommand(c, n, m)
         /\ Boxes!Connect(c, [vm |-> m, cmd |-> cmd, prog |-> d])
    /\ UNCHANGED <<routing, line, instances, history>>

Respond ==
    /\ ShowResponse
    /\ told[prompt] # "none"
    /\ UNCHANGED <<daemons, routing, line, instances, history>>

----------------------------------------------------------------------------
(* The daemons and the servers in their sandboxes.                           *)

DaemonStep(c) ==
    /\ Boxes!Create(c) \/ Boxes!Started(c) \/ Boxes!Stopped(c) \/ Boxes!NotFound(c)
    /\ UNCHANGED <<manager, routing, line, instances, history>>

Boot(i) ==
    /\ Boxes!Boot(i[1], i[2])
    /\ UNCHANGED <<manager, routing, line, instances, history>>

(* Between its signal handler and this, the server has no socket yet. *)
Listen(i) ==
    /\ Running(i) = "up"
    /\ i \notin listening
    /\ listening' = listening \cup {i}
    /\ UNCHANGED <<manager, daemons, routing, line, flight, value, primes, history>>

(* The socket goes with the process, and with it what it had not read. *)
Close(a) ==
    /\ listening' = listening \ {a}
    /\ flight' = [r \in Requests |->
                    IF flight[r] = "sent" /\ Route(r) = a THEN "lost" ELSE flight[r]]

(* sigterm_handler *)
Stop(i) ==
    /\ \E c \in Connections :
         Boxes!Pending(c) /\ order[c] = [vm |-> i[1], cmd |-> "stop", prog |-> i[2]]
    /\ Boxes!End(i[1], i[2])
    /\ Close(i)
    /\ UNCHANGED <<manager, routing, line, value, primes, history>>

Crash(i) ==
    /\ Cardinality(crashed) < MaxCrashes
    /\ Running(i) = "up"
    /\ Boxes!End(i[1], i[2])
    /\ Close(i)
    /\ crashed' = crashed \cup {i}
    /\ UNCHANGED <<manager, routing, line, value, primes, subject>>

(* The loop of server.c: recvfrom, square, sendto the address it came from.  *)
SquareNumber(r) ==
    /\ flight[r] = "sent"
    /\ Route(r) \in Instances
    /\ flight' = [flight EXCEPT ![r] = "back"]
    /\ value' = [value EXCEPT ![r] = Square(line[r].arg)]
    /\ UNCHANGED <<manager, daemons, routing, line, listening, primes, history>>

(* The loop of prime_server.c, which a -1 ends. *)
UsePrimes(r) ==
    /\ flight[r] = "sent"
    /\ Route(r) = Container
    /\ value' = [value EXCEPT ![r] = PrimeReply(primes, line[r].arg)]
    /\ primes' = PrimesAfter(primes, line[r].arg)
    /\ LET terminated == line[r].arg = Terminate IN
       /\ listening' = IF terminated THEN listening \ {Container} ELSE listening
       /\ flight' = [o \in Requests |->
            IF o = r THEN "back"
            ELSE IF terminated /\ flight[o] = "sent" /\ Route(o) = Container THEN "lost"
            ELSE flight[o]]
    /\ UNCHANGED <<manager, daemons, routing, line, history>>

----------------------------------------------------------------------------
(* client.c: type a line, send it, wait.                                     *)

Asking(u) == {k \in 1 .. Turns[u] : line[<<u, k>>] # None}
Waiting(u) == \E k \in Asking(u) : status[<<u, k>>] # "answered"

(* At the end of stdin the last line is sent again, as if typed once more. *)
Send(u, l) ==
    LET r == <<u, Cardinality(Asking(u)) + 1>> IN
    /\ r[2] <= Turns[u]
    /\ ~Waiting(u)
    /\ Routes!Call(r)
    /\ status'[r] = "called"
    /\ l.dest = subject
    /\ line' = [line EXCEPT ![r] = l]
    /\ UNCHANGED <<manager, daemons, instances, crashed, subject>>

(* The operator gives a rule for an instance that listens, when no command of *)
(* his is under way, and takes it back at will.                               *)
SendRule ==
    \/ \E i \in Instances :
         /\ i \in listening
         /\ prompt = None
         /\ Send(Operator, Line("set", i[2], i))
    \/ Send(Operator, Line("set", PrimeDest, Container))
    \/ \E d \in AllDests : Send(Operator, Line("unset", d, NaN))

(* Bound: users ask when there has been a rule for what they ask.             *)
SendNumber(u) ==
    /\ Routes!Bound(subject)
    /\ \E x \in Numbers[u] : Send(u, Line("data", x.dest, x.arg))

----------------------------------------------------------------------------
(* The proxy.                                                                *)

Understand(r) ==
    /\ status[r] = "called"
    /\ Routes!Understand(r, Routes!Operation(line[r].kind, line[r].dest,
                              IF line[r].kind = "set" THEN line[r].arg ELSE None))
    /\ UNCHANGED <<manager, daemons, line, instances, history>>

(* There is room for a rule of each destination. *)
Apply(r) ==
    /\ Routes!Set(r) \/ Routes!Unset(r) \/ Routes!Lookup(r) \/ Routes!LookupFails(r)
    /\ UNCHANGED <<manager, daemons, line, instances, history>>

(* The number leaves for the address of the rule, as it was looked up. *)
Forward(r) ==
    /\ Routed(r)
    /\ flight[r] = "none"
    /\ flight' = [flight EXCEPT ![r] = IF Route(r) \in listening THEN "sent" ELSE "lost"]
    /\ UNCHANGED <<manager, daemons, routing, line, value, listening, primes, history>>

(* Mutant: the receive has no timeout. *)
TellUntimed(r) ==
    /\ Routed(r) => flight[r] = "back"
    /\ Routes!Answer(r)
    /\ Routed(r) => reply'[r].verdict = "answer"
    /\ flight' = [flight EXCEPT ![r] = "none"]
    /\ UNCHANGED <<manager, daemons, line, value, listening, primes, history>>

(* The client is told; a handler gives up only when no answer can come.      *)
Tell(r) ==
    /\ Routed(r) => flight[r] \in {"back", "lost"}
    /\ Routes!Answer(r)
    /\ Routed(r) => reply'[r].verdict = IF flight[r] = "back" THEN "answer" ELSE "noanswer"
    /\ flight' = [flight EXCEPT ![r] = "none"]
    /\ UNCHANGED <<manager, daemons, line, value, listening, primes, history>>

Proxy(r) == Understand(r) \/ Apply(r) \/ Forward(r) \/ Tell(r)

----------------------------------------------------------------------------
Next ==
    \/ \E n \in VmNumbers :
         EditTable(n) \/ \E c \in Connections, cmd \in {"start", "stop"}, d \in Dests : Command(c, n, cmd, d)
    \/ Respond
    \/ \E c \in Connections : DaemonStep(c)
    \/ \E i \in Instances : Boot(i) \/ Listen(i) \/ Stop(i) \/ Crash(i)
    \/ \E r \in Requests : SquareNumber(r) \/ UsePrimes(r) \/ Proxy(r)
    \/ SendRule \/ \E u \in Users : SendNumber(u)

Spec == Init /\ [][Next]_vars

----------------------------------------------------------------------------
(* Properties.  RouteMap and Sandboxes look after their own variables.       *)

TypeOK ==
    /\ ManagerTypeOK
    /\ prompt \in Connections \cup {None}
    /\ sandbox \in [Machines -> [Dests -> {"none", "booting", "up", "dead"}]]
    /\ flight \in [Requests -> {"none", "sent", "back", "lost"}]
    /\ value \in [Requests -> (INT_MIN .. INT_MAX) \cup {NaN}]
    /\ listening \subseteq Addrs
    /\ primes \in [0 .. RADIX - 1 -> INT_MIN .. INT_MAX]

(* The prompt's table is the map of the operator's commands, whatever was     *)
(* added, moved, refused and removed: a number leads to the place he last saw *)
(* accepted for it, so that no command reaches another machine                *)
(* (smanager.c:81-123, 126-146).                                              *)
NumbersResolve ==
    \A n \in VmNumbers :
        known[n] = (IF find_vm(n) = 0 THEN None ELSE PlaceOf(n))

(* A server moves and no client notices: no request that was routed fails,    *)
(* although the rule it was routed by is replaced and the instance it went to *)
(* is stopped behind it.  Excused: an instance that died on its own, and the  *)
(* prime server once a client has ended it (sdn.c:296-343,                    *)
(* sdeamon.c:195-227, smanager.c:125-179).                                    *)
Excused(a) == a \in crashed \/ (a = Container /\ Container \notin listening)

Uninterrupted ==
    \A r \in Requests : reply[r].verdict \in Routes!Failures => Excused(Route(r))

Answered(r) == reply[r].verdict = "answer"

(* What the prime server told anybody of a prime stays true: primes only grow, *)
(* so two clients never see one shrink.  And a negative answer means that the  *)
(* number was refused or ended the server (prime_server.c:59-111); true as    *)
(* long as no prime has grown out of an int.                                  *)
PrimesOnlyGrow ==
    \A r \in Requests : Answered(r) /\ Route(r) = Container =>
        IF value[r] < 0 THEN ~InRange(line[r].arg)
        ELSE value[r] <= primes[ReturningIndex(line[r].arg)]

(* While a client or the prompt waits, some part that serves it can go on:    *)
(* nobody waits on anybody in a circle, whatever is stopped, moved or dead    *)
(* (smanager.c:169, client.c:68, sdn.c:350, sdeamon.c:209).  Each such step   *)
(* happens once per request or command, so that all are answered.             *)
Serving(r) == SquareNumber(r) \/ UsePrimes(r) \/ Proxy(r)
Obeying(c) ==
    \/ Respond \/ DaemonStep(c)
    \/ LET i == <<order[c].vm, order[c].prog>> IN Boot(i) \/ Stop(i)

NobodyHangs ==
    /\ \A u \in Clients : Waiting(u) => \E k \in Asking(u) : ENABLED Serving(<<u, k>>)
    /\ prompt # None => ENABLED Obeying(prompt)

----------------------------------------------------------------------------
(* The inductive invariant behind NumbersResolve and Uninterrupted. *)

ArgsOf(kind) ==
    IF kind = "set" THEN Addrs ELSE IF kind = "unset" THEN {NaN} ELSE Int \cup {NaN}
LineOK(l) ==
    /\ l.kind \in {"set", "unset", "data"}
    /\ l \in [kind : {l.kind}, dest : AllDests, arg : ArgsOf(l.kind)]

Types ==
    /\ TypeOK
    /\ table \subseteq [dest : AllDests, addr : Addrs]
    /\ status \in [Requests -> {"idle", "called", "understood", "applied", "answered"}]
    /\ op \in [Requests -> Routes!Operations \cup {Routes!NoOperation}]
    /\ DOMAIN result = Requests /\ DOMAIN reply = Requests
    /\ DOMAIN line = Requests /\ \A r \in Requests : line[r] # None => LineOK(line[r])
    /\ order \in [Connections -> Commands \cup {None}]
    /\ told \in [Connections -> {"none", "started", "stopped", "notfound"}]

(* A machine has at most one entry in the prompt's table. *)
OneEntryEach ==
    \A i, j \in DOMAIN vm_list : vm_list[i].vm_number = vm_list[j].vm_number => i = j

(* A request is understood as its line says, learns one thing, and is told   *)
(* that; its number is on its way only after it was routed.                  *)
InOrder(r) ==
    /\ status[r] # "idle" => line[r] # None
    /\ status[r] = "understood" =>
         op[r] = Routes!Operation(line[r].kind, line[r].dest,
                                  IF line[r].kind = "set" THEN line[r].arg ELSE None)
    /\ status[r] \in {"applied", "answered"} =>
         \/ \E v \in {"done", "norule"} : result[r] = Routes!Outcome(v, None)
         \/ /\ \E a \in Addrs : result[r] = Routes!Outcome("route", a)
            /\ line[r].kind = "data"
    /\ status[r] \notin {"applied", "answered"} => result[r] = Routes!Nothing
    /\ status[r] # "answered" => reply[r] = Routes!Nothing
    /\ flight[r] # "none" => Routed(r)

(* An address that is in use, or about to be, is one where somebody listens, *)
(* or whoever listened there ended on his own.                               *)
Safe(a) == a \in listening \/ Excused(a)

Reachable ==
    /\ \A b \in table : Safe(b.addr)
    /\ \A r \in Requests :
         /\ line[r] # None /\ line[r].kind = "set" /\ status[r] # "answered" => Safe(line[r].arg)
         /\ Routed(r) /\ flight[r] \in {"none", "sent"} => Safe(Route(r))
         /\ flight[r] = "lost" => Excused(Route(r))

(* A stop that is under way is for an instance that is drained or dead. *)
StopsInTime ==
    \A c \in Connections : Boxes!Pending(c) =>
        /\ prompt = c
        /\ order[c].cmd = "stop" =>
             LET i == <<order[c].vm, order[c].prog>> IN
             Drained(i) \/ Running(i) \in {"dead", "none"}

ServiceInv ==
    /\ Types /\ OneEntryEach /\ NumbersResolve
    /\ \A r \in Requests : InOrder(r)
    /\ Reachable /\ StopsInTime /\ Uninterrupted

(* And behind PrimesOnlyGrow, as long as an int has room for what one         *)
(* datagram may add: who was told a prime has it in the array ever since.     *)
RoomToGrow == \A k \in DOMAIN primes : primes[k] + (RADIX - 1) <= INT_MAX

PrimeTold(r) ==
    IF InRange(line[r].arg)
    THEN value[r] \in 0 .. primes[ReturningIndex(line[r].arg)]
    ELSE value[r] \in {Terminate, Error}

PrimesTold ==
    /\ \A k \in DOMAIN primes : primes[k] >= 0
    /\ \A r \in Requests :
         (flight[r] = "back" \/ Answered(r)) /\ Route(r) = Container => PrimeTold(r)
=============================================================================
