----------------------------- MODULE MCSdeamon -----------------------------
(* Instances of Sdeamon for TLC: what clients send, and which jailors and     *)
(* clients are interchangeable.                                               *)
EXTENDS Sdeamon

CONSTANTS p1, p2

Command(cmd, p) == [cmd |-> cmd, prog |-> p]

(* One program with symlinks, started and stopped again and again. *)
OneProgram == {p1}
StartStop == {Command("start", p1), Command("stop", p1)}

(* A second program without a base configuration, and words that are no       *)
(* command, next to the first.                                                *)
TwoPrograms == {p1, p2}
Mixed == StartStop \cup
    {Command("start", p2), Command("stop", p2), Command("other", p1), Command("malformed", p1)}

Interchangeable == Permutations(Jails) \cup Permutations(Clients)
=============================================================================
