------------------------------ MODULE Sdeamon ------------------------------
(* The sandbox daemon of one virtual machine, src/sdeamon/sdeamon.c, together *)
(* with the jailors it starts (Jailor).  The daemon is one thread: it accepts *)
(* a connection, reads one command, carries it out, replies and closes.  The  *)
(* jailors and their children run beside it; what the daemon knows of them is *)
(* program_list, a list in its memory.                                        *)
EXTENDS Jailor, Sequences, SequencesExt

CONSTANTS
    Clients,     \* connections, one command each
    Commands,    \* what clients send: records [cmd, prog]
    Configured,  \* the programs with a readable base_config file
    Careful      \* bound: one operator, who commands only what is settled

ASSUME SdeamonAssumption ==
    /\ Commands \subseteq [cmd : {"start", "stop", "other", "malformed"}, prog : Programs]
    /\ Configured \subseteq Programs
    /\ Careful \in BOOLEAN
    /\ Careful => Clients \subseteq Nat
    /\ None \notin Commands /\ None \notin Clients

VARIABLES
    dpc,        \* where the daemon stands
    client,     \* new_fd: the connection being served
    entry,      \* program: the ProgramData in hand, [prog, pid]
    list,       \* program_list, the newest first
    dnat,       \* per program: how many copies of its DNAT rule iptables has
    fwd,        \* per program: how many copies of its ACCEPT rule
    request,    \* per client: its command, None before it connects
    answer,     \* per client: the daemon's reply
    armed,      \* history: the jailor in hand had its handler when signalled
    exited      \* history: the daemon has exited

daemon == <<dpc, client, entry, list, dnat, fwd, request, answer, armed, exited>>
vars == <<jails, daemon>>

DaemonPCs == {"accept", "configer", "jailor", "dnat", "forward", "enlist",
              "kill", "waitpid", "undnat", "unforward", "delist", "exited"}
Answers == {"none", "invalid", "noconfig", "started", "notfound", "stopped", "closed"}

NoEntry == [prog |-> None, pid |-> None]
Entries == [prog : Programs, pid : Jails]

Init ==
    /\ JailorInit
    /\ dpc = "accept"
    /\ client = None
    /\ entry = NoEntry
    /\ list = <<>>
    /\ dnat = [p \in Programs |-> 0]
    /\ fwd = [p \in Programs |-> 0]
    /\ request = [c \in Clients |-> None]
    /\ answer = [c \in Clients |-> "none"]
    /\ armed = FALSE
    /\ exited = FALSE

Reply(c, a) == answer' = [answer EXCEPT ![c] = a]
Waiting(c) == request[c] # None /\ answer[c] = "none"

(* Reply, close(new_fd) and back to accept. *)
Done(a) ==
    /\ Reply(client, a)
    /\ dpc' = "accept"
    /\ client' = None
    /\ entry' = NoEntry

(* find_program and remove_program: the first entry of the program. *)
EntriesOf(p) == {i \in DOMAIN list : list[i].prog = p}
FindProgram(p) == CHOOSE i \in EntriesOf(p) : \A k \in EntriesOf(p) : i <= k

----------------------------------------------------------------------------
(* The clients.  An operator as careful as smanager lets him be gives one     *)
(* command at a time, starts a program none of whose processes is left, and   *)
(* stops one whose server is up or whose jailor is gone.  He knows nothing of *)
(* network namespaces: what is left of the old veth pair he does not wait for. *)
Settled(q) ==
    /\ \A c \in Clients : ~Waiting(c)
    /\ q.cmd = "start" => \A j \in Jails : prog[j] = q.prog => ~Alive(j)
    /\ q.cmd = "start" => EntriesOf(q.prog) = {}
    /\ q.cmd = "stop" => \A i \in EntriesOf(q.prog) :
         LET j == list[i].pid IN
         ~JailorAlive(j) \/ (jpc[j] = "wait" /\ cpc[j] = "serve")

(* His connections are numbered as he makes them. *)
FirstFree(c) == \A d \in Clients : request[d] = None => c <= d

(* Bound: as many starts as there are jailors. *)
Starts == {c \in Clients : request[c] # None /\ request[c].cmd = "start"}

Connect(c, q) ==
    /\ request[c] = None
    /\ Careful => Settled(q) /\ FirstFree(c)
    /\ q.cmd = "start" => Cardinality(Starts) < Cardinality(Jails)
    /\ request' = [request EXCEPT ![c] = q]
    /\ UNCHANGED <<jails, dpc, client, entry, list, dnat, fwd, answer, armed, exited>>

----------------------------------------------------------------------------
(* accept, recv, strtok and the comparisons of the command.                 *)

Serve(c, cmd) ==
    /\ dpc = "accept"
    /\ Waiting(c)
    /\ request[c].cmd = cmd
    /\ UNCHANGED <<jails, list, dnat, fwd, request, armed, exited>>

(* recv failed: the connection is closed without a word. *)
HangUp(c) ==
    /\ "recv" \in Faults
    /\ \E q \in Commands : Serve(c, q.cmd)
    /\ Reply(c, "closed")
    /\ UNCHANGED <<dpc, client, entry>>

(* Fewer than two words, or an unknown command. *)
Refuse(c) ==
    /\ \E cmd \in {"malformed", "other"} : Serve(c, cmd)
    /\ Reply(c, "invalid")
    /\ UNCHANGED <<dpc, client, entry>>

(* parse_config_file of the base configuration. *)
AcceptStart(c) ==
    /\ Serve(c, "start")
    /\ IF request[c].prog \in Configured
       THEN /\ dpc' = "configer"
            /\ client' = c
            /\ entry' = [prog |-> request[c].prog, pid |-> None]
            /\ UNCHANGED answer
       ELSE Reply(c, "noconfig") /\ UNCHANGED <<dpc, client, entry>>

AcceptStop(c) ==
    /\ Serve(c, "stop")
    /\ IF EntriesOf(request[c].prog) # {}
       THEN /\ dpc' = "kill"
            /\ client' = c
            /\ entry' = list[FindProgram(request[c].prog)]
            /\ UNCHANGED answer
       ELSE Reply(c, "notfound") /\ UNCHANGED <<dpc, client, entry>>

----------------------------------------------------------------------------
(* start.                                                                   *)

At(l) == dpc = l /\ UNCHANGED <<request, exited>>
Proceed(l) == dpc' = l /\ UNCHANGED <<client, entry, answer>>

(* fork failed: the connection is closed without a word. *)
ForkFails ==
    /\ At("configer") \/ At("jailor")
    /\ "fork" \in Faults
    /\ Done("closed")
    /\ UNCHANGED <<jails, list, dnat, fwd, armed>>

(* configer runs to its end; its exit status is not looked at. *)
RunConfiger ==
    /\ At("configer")
    /\ Proceed("jailor")
    /\ UNCHANGED <<jails, list, dnat, fwd, armed>>

(* Mutant: child_pid is never set. *)
ForkForgotten ==
    /\ At("jailor")
    /\ \E j \in Jails : Spawn(j, entry.prog)
    /\ dpc' = "dnat"
    /\ UNCHANGED <<client, entry, answer, list, dnat, fwd, armed>>

ForkJailor ==
    /\ At("jailor")
    /\ \E j \in Jails :
         /\ Spawn(j, entry.prog)
         /\ entry' = [entry EXCEPT !.pid = j]
    /\ dpc' = "dnat"
    /\ UNCHANGED <<client, answer, list, dnat, fwd, armed>>

(* system("iptables -A ..."): check_error looks for -1 only, so an iptables   *)
(* that fails adds nothing and stops nothing.                                 *)
Appended(r) ==
    \/ r' = [r EXCEPT ![entry.prog] = @ + 1]
    \/ "iptables" \in Faults /\ UNCHANGED r

AddDnat ==
    /\ At("dnat")
    /\ Appended(dnat)
    /\ Proceed("forward")
    /\ UNCHANGED <<jails, list, fwd, armed>>

AddForward ==
    /\ At("forward")
    /\ Appended(fwd)
    /\ Proceed("enlist")
    /\ UNCHANGED <<jails, list, dnat, armed>>

(* Mutant: add_program changes a copy of the head of the list. *)
EnlistNowhere ==
    /\ At("enlist")
    /\ Done("started")
    /\ UNCHANGED <<jails, list, dnat, fwd, armed>>

Enlist ==
    /\ At("enlist")
    /\ list' = <<entry>> \o list
    /\ Done("started")
    /\ UNCHANGED <<jails, dnat, fwd, armed>>

----------------------------------------------------------------------------
(* stop.                                                                    *)

Kill ==
    /\ At("kill")
    /\ Terminate(entry.pid)
    /\ armed' = Armed(entry.pid)
    /\ Proceed("waitpid")
    /\ UNCHANGED <<list, dnat, fwd>>

(* Mutant: waitpid with WNOHANG. *)
WaitNot ==
    /\ At("waitpid")
    /\ Proceed("undnat")
    /\ UNCHANGED <<jails, list, dnat, fwd, armed>>

(* waitpid returns when the jailor has ended; sigchld_handler may have       *)
(* reaped it before.                                                         *)
WaitJailor ==
    /\ At("waitpid")
    /\ jpc[entry.pid] = "gone"
    /\ Proceed("undnat")
    /\ UNCHANGED <<jails, list, dnat, fwd, armed>>

(* iptables -D deletes one copy, if there is one. *)
Deleted(r) ==
    \/ r' = [r EXCEPT ![entry.prog] = IF @ = 0 THEN 0 ELSE @ - 1]
    \/ "iptables" \in Faults /\ UNCHANGED r

DeleteDnat ==
    /\ At("undnat")
    /\ Deleted(dnat)
    /\ Proceed("unforward")
    /\ UNCHANGED <<jails, list, fwd, armed>>

(* Mutant: the second rule stays. *)
KeepForward ==
    /\ At("unforward")
    /\ Proceed("delist")
    /\ UNCHANGED <<jails, list, dnat, fwd, armed>>

DeleteForward ==
    /\ At("unforward")
    /\ Deleted(fwd)
    /\ Proceed("delist")
    /\ UNCHANGED <<jails, list, dnat, armed>>

(* Mutant: remove_program takes the last entry of the list. *)
DelistLast ==
    /\ At("delist")
    /\ list' = RemoveAt(list, Len(list))
    /\ Done("stopped")
    /\ UNCHANGED <<jails, dnat, fwd, armed>>

Delist ==
    /\ At("delist")
    /\ list' = RemoveAt(list, FindProgram(entry.prog))
    /\ Done("stopped")
    /\ UNCHANGED <<jails, dnat, fwd, armed>>

----------------------------------------------------------------------------
(* check_error: system() returned -1, the daemon exits and its list is lost.  *)
(* The jailor it just forked holds a copy of new_fd: the client of a start    *)
(* does not even see the connection closed.                                   *)
Exit ==
    /\ "system" \in Faults
    /\ dpc \in {"dnat", "forward", "undnat", "unforward"}
    /\ dpc' = "exited"
    /\ IF dpc \in {"undnat", "unforward"} THEN Reply(client, "closed") ELSE UNCHANGED answer
    /\ client' = None
    /\ entry' = NoEntry
    /\ list' = <<>>
    /\ exited' = TRUE
    /\ UNCHANGED <<jails, dnat, fwd, request, armed>>

(* fork and clone copy the listening socket into every jailor and child, and  *)
(* no exec closes it: bind fails while one of them is left.  With the last    *)
(* of them the connections that nobody accepted are gone too.                 *)
Restart ==
    /\ dpc = "exited"
    /\ \A j \in Jails : ~Alive(j)
    /\ dpc' = "accept"
    /\ answer' = [c \in Clients |-> IF Waiting(c) THEN "closed" ELSE answer[c]]
    /\ UNCHANGED <<jails, client, entry, list, dnat, fwd, request, armed, exited>>

----------------------------------------------------------------------------
Daemon ==
    \/ \E c \in Clients : Refuse(c) \/ AcceptStart(c) \/ AcceptStop(c)
    \/ RunConfiger \/ ForkJailor \/ AddDnat \/ AddForward \/ Enlist
    \/ Kill \/ WaitJailor \/ DeleteDnat \/ DeleteForward \/ Delist

Beside(A) == A /\ UNCHANGED daemon

Next ==
    \/ \E c \in Clients, q \in Commands : Connect(c, q)
    \/ Daemon
    \/ (\E c \in Clients : HangUp(c)) \/ ForkFails \/ Exit \/ Restart
    \/ \E j \in Jails : Beside(JailorStep(j)) \/ Beside(ChildStep(j)) \/ Beside(Mishap(j))
    \/ \E p \in Programs : Beside(NamespaceGone(p))

Spec == Init /\ [][Next]_vars

(* Every process runs when it can, the kernel ends a dead namespace.  Nothing *)
(* has to fail, no server has to die, no client has to connect.               *)
FairSpec ==
    /\ Spec
    /\ WF_vars(Daemon)
    /\ \A j \in Jails : WF_vars(Beside(JailorStep(j))) /\ WF_vars(Beside(ChildStep(j)))
    /\ \A p \in Programs : WF_vars(Beside(NamespaceGone(p)))

----------------------------------------------------------------------------
(* Properties.                                                              *)

TypeOK ==
    /\ JailorTypeOK
    /\ dpc \in DaemonPCs
    /\ client \in Clients \cup {None}
    /\ entry \in [prog : Programs \cup {None}, pid : Jails \cup {None}]
    /\ list \in Seq(Entries)
    /\ dnat \in [Programs -> Nat]
    /\ fwd \in [Programs -> Nat]
    /\ request \in [Clients -> Commands \cup {None}]
    /\ answer \in [Clients -> Answers]
    /\ armed \in BOOLEAN
    /\ exited \in BOOLEAN

InHand(p, pcs) == IF entry.prog = p /\ dpc \in pcs THEN 1 ELSE 0

(* The kernel's rules follow program_list through starts of one program on    *)
(* top of each other, stops and failed forks: as many copies of each rule as  *)
(* entries, but for the command in hand (sdeamon.c:179-187, 211-224).  It     *)
(* ends with the daemon, whose list is only in memory.                        *)
RulesFollowList ==
    ~exited /\ "iptables" \notin Faults =>
      \A p \in Programs :
        /\ dnat[p] + InHand(p, {"unforward", "delist"})
             = Cardinality(EntriesOf(p)) + InHand(p, {"forward", "enlist"})
        /\ fwd[p] + InHand(p, {"delist"})
             = Cardinality(EntriesOf(p)) + InHand(p, {"enlist"})

(* A living jailor is never forgotten: some entry of its own program leads to *)
(* it, so that enough stops of the program reach it, and no jailor has two    *)
(* entries (sdeamon.c:186-187, 204-224 and remove_program).                   *)
EveryJailorListed ==
    /\ \A j \in Jails : JailorAlive(j) /\ ~exited =>
         \/ entry = [prog |-> prog[j], pid |-> j]
         \/ \E i \in DOMAIN list : list[i] = [prog |-> prog[j], pid |-> j]
    /\ \A i, k \in DOMAIN list : list[i].pid = list[k].pid => i = k

(* When the daemon takes the rules of a stopped program away, the server is   *)
(* dead, provided the signal found the jailor with its handler installed      *)
(* (sdeamon.c:206-216 with jailor.c:409-414).                                 *)
StoppedMeansDead ==
    armed /\ dpc \in {"undnat", "unforward", "delist"} => ~Alive(entry.pid)

(* With an operator who lets things settle, a server always has the root      *)
(* directory it was started in, all of it, whatever an earlier jailor of the  *)
(* program removed or left behind (jailor.c:101-104, 414-419).                *)
RootIntact ==
    Careful /\ "jailor" \notin Faults =>
      \A j \in Jails : cpc[j] \in {"boot", "serve"} =>
         j \notin evicted /\ AllWhole(j) /\ "dir" \in InRoot(j)

(* No start fails over what an earlier one left: a child dies only as the     *)
(* server it became, never in mkdir old_root, pivot_root, symlink or execv    *)
(* (jailor.c:168-216).                                                        *)
EveryStartBoots ==
    [][Careful /\ "jailor" \notin Faults =>
         \A j \in Jails : ChildAlive(j) /\ cpc'[j] = "dead" => cpc[j] \in {"boot", "serve"}]_vars

(* The daemon answers each command: its waitpid and the jailor's come to an   *)
(* end (sdeamon.c:95-231).  "recv", "fork" and "system" faults aside.         *)
EveryCommandAnswered ==
    \A c \in Clients : request[c] # None ~> answer[c] # "none"

(* sdeamon.c:208 waits "for the child process to finish" and line 220 reports *)
(* "success: program terminated".  A jailor signalled before line 409 ends    *)
(* alone, and its server goes on behind that report.                          *)
StopMeansStopped == dpc = "delist" => ~Alive(entry.pid)
----------------------------------------------------------------------------
(* What the daemon of a machine promises (Sandboxes).                       *)

Here == "here"

(* The jailor whose sandbox the daemon takes for the program's. *)
Current(p) ==
    IF entry.prog = p /\ entry.pid # None THEN {entry.pid}
    ELSE {list[i].pid : i \in EntriesOf(p)}

SandboxOf(p) ==
    IF Current(p) = {} THEN "none"
    ELSE LET j == CHOOSE j \in Current(p) : TRUE IN
         CASE cpc[j] = "serve" -> "up"
           [] cpc[j] = "dead" \/ jpc[j] = "gone" -> "dead"
           [] OTHER -> "booting"

Ordered(q) == IF q = None THEN None ELSE [vm |-> Here, cmd |-> q.cmd, prog |-> q.prog]

ASSUME OrderAssumption == None \notin {Ordered(q) : q \in Commands}

Promised == INSTANCE Sandboxes WITH
    Machines <- {Here},
    Commands <- {Ordered(q) : q \in Commands},
    sandbox  <- [m \in {Here} |-> [p \in Programs |-> SandboxOf(p)]],
    order    <- [c \in Clients |-> Ordered(request[c])],
    told     <- answer

(* With an operator who lets things settle, jailors, children, signals, rules *)
(* and list come down to one sandbox per program and to answers that are true *)
(* of it: "started" of one that exists, "terminated" of one that has died     *)
(* (sdeamon.c:125-227, jailor.c:384-431).  For Careful clients.               *)
PromiseKept == Promised!Spec

----------------------------------------------------------------------------
(* The inductive invariant behind RulesFollowList, EveryJailorListed and      *)
(* StoppedMeansDead.                                                         *)

(* What the daemon has in hand: nothing between commands, in a start an entry *)
(* that is not in the list yet, in a stop the first one of its program.       *)
EntryInHand ==
    /\ dpc \in {"accept", "exited"} => entry = NoEntry
    /\ dpc \notin {"accept", "exited"} => client \in Clients /\ entry.prog \in Programs
    /\ dpc \in {"configer", "jailor"} => entry.pid = None
    /\ dpc \in {"dnat", "forward", "enlist"} =>
         entry \in Entries /\ \A i \in DOMAIN list : list[i].pid # entry.pid
    /\ dpc \in {"kill", "waitpid", "undnat", "unforward", "delist"} =>
         EntriesOf(entry.prog) # {} /\ entry = list[FindProgram(entry.prog)]
    /\ dpc = "exited" => exited

(* An entry leads to a process that was started for its program. *)
Spawned(e) == jpc[e.pid] # "unused" /\ prog[e.pid] = e.prog

EntriesSpawned ==
    /\ \A i \in DOMAIN list : Spawned(list[i])
    /\ entry.pid # None => Spawned(entry)

(* A jailor works for a program, and on a file of its list. *)
JailorsAtWork ==
    \A j \in Jails :
        /\ jpc[j] # "unused" => prog[j] \in Programs
        /\ jpc[j] = "copying" => copied[j] < NFiles

(* A jailor with its handler installed ends after its child. *)
EndsInOrder ==
    /\ \A j \in Jails : jpc[j] = "clean" => cpc[j] = "dead"
    /\ dpc \in {"undnat", "unforward", "delist"} => jpc[entry.pid] = "gone"
    /\ armed /\ dpc \in {"waitpid", "undnat", "unforward", "delist"} =>
         Armed(entry.pid) \/ (jpc[entry.pid] = "gone" /\ cpc[entry.pid] = "dead")

DaemonInv ==
    /\ TypeOK /\ EntryInHand /\ EntriesSpawned /\ JailorsAtWork /\ EndsInOrder
    /\ EveryJailorListed /\ RulesFollowList

----------------------------------------------------------------------------
(* The inductive invariant behind RootIntact and EveryStartBoots: the operator is  *)
(* Careful and no call of a jailor fails.                                    *)

Clear(p) == \A j \in Jails : prog[j] = p => ~Alive(j)

(* One command at a time, which the daemon has in hand; a start finds nothing *)
(* of its program until its jailor is forked, a stop no jailor that is not    *)
(* ready for the signal, and no program has two entries.                      *)
OneWaits == \A c, d \in Clients : Waiting(c) /\ Waiting(d) => c = d

Starting == {"configer", "jailor", "dnat", "forward", "enlist"}
CommandInHand ==
    dpc \notin {"accept", "exited"} =>
        /\ Waiting(client) /\ request[client].prog = entry.prog
        /\ request[client].cmd = IF dpc \in Starting THEN "start" ELSE "stop"

Ready(j) == jpc[j] \in {"wait", "clean", "gone"}
PathClear(q) ==
    /\ q.cmd = "start" => EntriesOf(q.prog) = {}
    /\ q.cmd = "start" /\ dpc \in {"accept", "configer", "jailor"} => Clear(q.prog)
    /\ q.cmd = "stop" => \A i \in EntriesOf(q.prog) : Ready(list[i].pid)

OneEntry == \A i, k \in DOMAIN list : list[i].prog = list[k].prog => i = k

OneCommand ==
    /\ OneWaits /\ CommandInHand /\ OneEntry
    /\ \A c \in Clients : Waiting(c) => PathClear(request[c])

(* What a jailor and its child have made of the directory so far. *)
FilesSoFar(j) ==
    [k \in 1..NFiles |->
        IF k <= copied[j] THEN "whole"
        ELSE IF k = copied[j] + 1 /\ jpc[j] = "copying" THEN j ELSE "absent"]

RootSoFar(j) ==
    IF jpc[j] \in {"config", "root"} THEN {}
    ELSE IF cpc[j] = "pivot" THEN {"dir", "old_root"}
    ELSE IF cpc[j] \in {"exec", "boot", "serve", "dead"} /\ prog[j] \in Linked THEN {"dir", "links"}
    ELSE {"dir"}

Underway(j) ==
    /\ files[prog[j]] = FilesSoFar(j) /\ root[prog[j]] = RootSoFar(j)
    /\ jpc[j] \in {"config", "root", "dirs"} => copied[j] = 0
    /\ jpc[j] \in {"veth", "clone", "wire", "arm", "wait", "clean"} => copied[j] = NFiles
    /\ cpc[j] = "none" <=>
         jpc[j] \in {"config", "root", "dirs", "copy", "copying", "veth", "clone"}

(* One sandbox of a program at a time, and nothing of one that has ended. *)
OneJailor ==
    \A j, k \in Jails : JailorAlive(j) /\ JailorAlive(k) /\ prog[j] = prog[k] => j = k

InTurn(j) ==
    /\ JailorAlive(j) => Underway(j)
    /\ jpc[j] = "unused" => cpc[j] = "none" /\ copied[j] = 0
    /\ jpc[j] = "gone" => cpc[j] = "dead"

NothingLeft ==
    \A p \in Programs : (\A j \in Jails : JailorAlive(j) => prog[j] # p) =>
       root[p] = {} /\ files[p] = [k \in 1..NFiles |-> "absent"]

OneSandbox == OneJailor /\ (\A j \in Jails : InTurn(j)) /\ NothingLeft /\ evicted = {}

CarefulInv == DaemonInv /\ (Careful /\ "jailor" \notin Faults => OneCommand /\ OneSandbox)
=============================================================================
