------------------------------ MODULE RouteMap ------------------------------
(* What the SDN proxy (src/sdn/sdn.c) promises its clients: a table that     *)
(* binds a destination number to the address of the instance that serves it  *)
(* now, at most MAX_RULES bindings, and requests that each take effect on the *)
(* table at ONE instant between the arrival of the datagram and its reply.   *)
(* No threads, no lock, no tokens and no sockets: Sdn implements this module  *)
(* for as long as the addresses it is sent fit the fields they are copied to. *)
EXTENDS Naturals, FiniteSets

CONSTANTS
    Requests,   \* one per datagram
    Dests,      \* destination numbers
    Addrs,      \* what may stand as ip:port in a rule
    MAX_RULES,  \* sdn.c:15
    None

VARIABLES
    inForce,    \* the promise holds: FALSE for good once a client broke its terms
    table,      \* the set of bindings [dest, addr]
    status,     \* per request: idle, called, understood, applied, answered or lost
    op,         \* per request: the operation it is understood as, till applied
    result,     \* per request: what the table told it when it took effect
    reply       \* per request: what its client was told

vars == <<table, status, op, result, reply>>

Outcome(v, a) == [verdict |-> v, addr |-> a]
Nothing == Outcome("none", None)

Operation(k, d, a) == [kind |-> k, dest |-> d, addr |-> a]
NoOperation == Operation("none", None, None)
Operations ==
    {Operation("set", d, a) : d \in Dests, a \in Addrs}
      \cup {Operation(k, d, None) : k \in {"unset", "data"}, d \in Dests}

Bound(d) == \E b \in table : b.dest = d
Without(d) == {b \in table : b.dest # d}

Init ==
    /\ table = {}
    /\ status = [r \in Requests |-> "idle"]
    /\ op = [r \in Requests |-> NoOperation]
    /\ result = [r \in Requests |-> Nothing]
    /\ reply = [r \in Requests |-> Nothing]

(* A datagram arrives, or is lost before anybody looked at it. *)
Call(r) ==
    /\ status[r] = "idle"
    /\ \E s \in {"called", "lost"} : status' = [status EXCEPT ![r] = s]
    /\ UNCHANGED <<table, op, result, reply>>

(* The words of the datagram are taken to mean operation o. *)
Understand(r, o) ==
    /\ status[r] = "called"
    /\ status' = [status EXCEPT ![r] = "understood"]
    /\ op' = [op EXCEPT ![r] = o]
    /\ UNCHANGED <<table, result, reply>>

Conclude(r, out) ==
    /\ status' = [status EXCEPT ![r] = "applied"]
    /\ op' = [op EXCEPT ![r] = NoOperation]
    /\ result' = [result EXCEPT ![r] = out]
    /\ UNCHANGED reply

(* A datagram that makes no sense takes no effect. *)
Reject(r) ==
    /\ status[r] = "called"
    /\ \E v \in {"invalid", "badaddr"} : Conclude(r, Outcome(v, None))
    /\ UNCHANGED table

Apply(r, kind, out) ==
    /\ status[r] = "understood"
    /\ op[r].kind = kind
    /\ Conclude(r, out)

(* "set d a" replaces the binding of d, or adds one when there is room. *)
Set(r) ==
    /\ Apply(r, "set", Outcome("done", None))
    /\ Bound(op[r].dest) \/ Cardinality(table) < MAX_RULES
    /\ table' = Without(op[r].dest) \cup {[dest |-> op[r].dest, addr |-> op[r].addr]}

SetRefused(r) ==
    /\ Apply(r, "set", Outcome("limit", None))
    /\ ~Bound(op[r].dest) /\ Cardinality(table) >= MAX_RULES
    /\ UNCHANGED table

(* "unset d" succeeds whether or not d is bound. *)
Unset(r) ==
    /\ Apply(r, "unset", Outcome("done", None))
    /\ table' = Without(op[r].dest)

(* A data request learns the address its destination is bound to, if any. *)
Lookup(r) ==
    /\ \E b \in table : b.dest = op[r].dest /\ Apply(r, "data", Outcome("route", b.addr))
    /\ UNCHANGED table

LookupFails(r) ==
    /\ Apply(r, "data", Outcome("norule", None))
    /\ ~Bound(op[r].dest)
    /\ UNCHANGED table

Failures == {"notsent", "noanswer", "unexpected"}

(* The client is told the outcome; a routed request is told the answer of    *)
(* the instance its lookup returned, and of no other, or that it failed.     *)
Answer(r) ==
    /\ status[r] = "applied"
    /\ status' = [status EXCEPT ![r] = "answered"]
    /\ \/ /\ result[r].verdict # "route"
          /\ reply' = [reply EXCEPT ![r] = result[r]]
       \/ /\ result[r].verdict = "route"
          /\ \E v \in Failures : reply' = [reply EXCEPT ![r] = Outcome(v, None)]
       \/ /\ result[r].verdict = "route"
          /\ reply' = [reply EXCEPT ![r] = Outcome("answer", result[r].addr)]
    /\ UNCHANGED <<table, op, result>>

Next == \E r \in Requests :
    \/ Call(r) \/ Reject(r) \/ Answer(r)
    \/ \E o \in Operations : Understand(r, o)
    \/ Set(r) \/ SetRefused(r) \/ Unset(r) \/ Lookup(r) \/ LookupFails(r)

(* Nothing is promised of the steps after the terms were broken. *)
Spec == Init /\ [][inForce => Next]_vars
=============================================================================
