------------------------------ MODULE Servers ------------------------------
(* What the two server programs answer to one datagram: src/server/server.c,  *)
(* which squares a number, and src/lxd/prime_server.c, which keeps an array   *)
(* of numbers that clients add to and read.                                   *)
EXTENDS Integers

CONSTANTS
    INT_MAX,    \* the largest int
    RADIX,      \* the 100 of prime_server.c: how many primes, and how the
                \* three parts of a number below RADIX^3 are packed
    FirstPrimes,\* the array a prime server starts with, from index 0
    NaN         \* a word that is no number

ASSUME ServersAssumption ==
    /\ INT_MAX \in Nat \ {0} /\ RADIX \in Nat \ {0}
    /\ FirstPrimes \in [0 .. RADIX - 1 -> 0 .. INT_MAX]
    /\ NaN \notin Int

(* Two's complement: what an int keeps of a result. *)
INT_MIN == -INT_MAX - 1
Wrap(n) == ((n - INT_MIN) % (2 * (INT_MAX + 1))) + INT_MIN

atoi(w) == IF w = NaN THEN 0 ELSE w

(* server.c *)
Square(w) == Wrap(atoi(w) * atoi(w))

(* prime_server.c *)
Terminate == -1
Error == -2
InRange(w) == w # NaN /\ w >= 0 /\ w < RADIX * RADIX * RADIX
IncomingIndex(n) == n \div (RADIX * RADIX)
AdditionalVal(n) == (n % (RADIX * RADIX)) \div RADIX
ReturningIndex(n) == n % RADIX

(* Mutant: the array is filled in the loop, anew for each datagram. *)
PrimesAnew(primes, w) ==
    IF InRange(w) THEN [FirstPrimes EXCEPT ![IncomingIndex(w)] = Wrap(@ + AdditionalVal(w))]
    ELSE FirstPrimes

PrimesAfter(primes, w) ==
    IF InRange(w) THEN [primes EXCEPT ![IncomingIndex(w)] = Wrap(@ + AdditionalVal(w))]
    ELSE primes

(* The prime it answers with is read after the update. *)
PrimeReply(primes, w) ==
    IF InRange(w) THEN PrimesAfter(primes, w)[ReturningIndex(w)]
    ELSE IF w = Terminate THEN Terminate ELSE Error
=============================================================================
