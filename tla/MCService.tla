----------------------------- MODULE MCService -----------------------------
(* An instance of Service for TLC: two machines and a program that moves      *)
(* between them, next to it the container of the prime server; two users, one *)
(* of whom types a number that has no square in an int of eight bits, words,  *)
(* and the -1 that ends the prime server.                                     *)
EXTENDS Service

CONSTANTS u1, u2

MCPrimes == [i \in 0 .. RADIX - 1 |-> 2 + i]

Type(d, w) == [dest |-> d, arg |-> w]
MCNumbers ==
    (u1 :> {Type(5, 3), Type(9, 7), Type(9, -1)}) @@
    (u2 :> {Type(5, 12), Type(9, 5), Type(9, NaN)})
MCTurns == [c \in Clients |-> IF c = Operator THEN 2 ELSE 1]

Interchangeable == Permutations(Machines) \cup Permutations(VmNumbers)
=============================================================================
