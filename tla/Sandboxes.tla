----------------------------- MODULE Sandboxes -----------------------------
(* What the sandbox daemons (src/sdeamon/sdeamon.c) promise to an operator    *)
(* who lets things settle: per virtual machine and program at most one        *)
(* sandbox, which boots, serves and ends; and an answer to each command that  *)
(* is true of the sandbox.  No jailors, no processes, no files, no rules:     *)
(* Sdeamon implements this module for one machine, and Service is built on it. *)
EXTENDS Naturals

CONSTANTS
    Machines,   \* the virtual machines, a daemon on each
    Programs,
    Clients,    \* connections, one command each
    Commands,   \* [vm, cmd, prog]
    None

VARIABLES
    sandbox,    \* per machine and program: none, booting, up or dead
    order,      \* per connection: its command, None before it is made
    told        \* per connection: what the daemon answered

vars == <<sandbox, order, told>>

Refusals == {"invalid", "noconfig", "closed"}

Init ==
    /\ sandbox = [m \in Machines |-> [p \in Programs |-> "none"]]
    /\ order = [c \in Clients |-> None]
    /\ told = [c \in Clients |-> "none"]

Pending(c) == order[c] # None /\ told[c] = "none"
Busy(m) == \E c \in Clients : Pending(c) /\ order[c].vm = m

(* One command at a time; a start finds nothing of the program, a stop does   *)
(* not meet it while it boots.                                                *)
Settled(q) ==
    /\ ~Busy(q.vm)
    /\ q.cmd = "start" => sandbox[q.vm][q.prog] = "none"
    /\ q.cmd = "stop" => sandbox[q.vm][q.prog] # "booting"

Connect(c, q) ==
    /\ order[c] = None
    /\ Settled(q)
    /\ order' = [order EXCEPT ![c] = q]
    /\ UNCHANGED <<sandbox, told>>

Is(m, p, s) == sandbox[m][p] = s
Becomes(m, p, s) == sandbox' = [sandbox EXCEPT ![m][p] = s]

Answer(c, cmd, a) ==
    /\ Pending(c)
    /\ order[c].cmd = cmd
    /\ told' = [told EXCEPT ![c] = a]
    /\ UNCHANGED order

(* The sandbox comes to be while its start is carried out. *)
Create(c) ==
    /\ Pending(c)
    /\ order[c].cmd = "start"
    /\ Is(order[c].vm, order[c].prog, "none")
    /\ Becomes(order[c].vm, order[c].prog, "booting")
    /\ UNCHANGED <<order, told>>

(* "started" says that it boots, or has done so: not that it serves. *)
Started(c) ==
    /\ Answer(c, "start", "started")
    /\ ~Is(order[c].vm, order[c].prog, "none")
    /\ UNCHANGED sandbox

Boot(m, p) ==
    /\ Is(m, p, "booting")
    /\ Becomes(m, p, "up")
    /\ UNCHANGED <<order, told>>

(* A server ends because it is stopped, or on its own. *)
End(m, p) ==
    /\ sandbox[m][p] \in {"booting", "up"}
    /\ Becomes(m, p, "dead")
    /\ UNCHANGED <<order, told>>

(* "stopped" is said of a server that is dead, once and no more. *)
Stopped(c) ==
    /\ Answer(c, "stop", "stopped")
    /\ Is(order[c].vm, order[c].prog, "dead")
    /\ Becomes(order[c].vm, order[c].prog, "none")

NotFound(c) ==
    /\ Answer(c, "stop", "notfound")
    /\ Is(order[c].vm, order[c].prog, "none")
    /\ UNCHANGED sandbox

(* A refused command changes nothing. *)
Refuse(c) ==
    /\ \E a \in Refusals, q \in Commands : Answer(c, q.cmd, a)
    /\ order[c].cmd = "start" => Is(order[c].vm, order[c].prog, "none")
    /\ UNCHANGED sandbox

Next ==
    \/ \E c \in Clients : \/ \E q \in Commands : Connect(c, q)
                          \/ Create(c) \/ Started(c) \/ Stopped(c) \/ NotFound(c) \/ Refuse(c)
    \/ \E m \in Machines, p \in Programs : Boot(m, p) \/ End(m, p)

Spec == Init /\ [][Next]_vars
=============================================================================
