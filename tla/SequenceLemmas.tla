--------------------------- MODULE SequenceLemmas ---------------------------
(* What the arrays and lists of the programs do when an element is put in     *)
(* front or taken out, and how many of their positions are then of a kind.    *)
EXTENDS Integers, SequencesExt, SequenceTheorems, FiniteSetTheorems, WellFoundedInduction, TLAPS

(* Taking an element out moves those behind it down and keeps their order:   *)
(* sdn.c:232-236, smanager.c:115-118, and remove_program in sdeamon.c.       *)
LEMMA RemoveAtFacts ==
    ASSUME NEW S, NEW s \in Seq(S), NEW k \in 1..Len(s)
    PROVE  /\ RemoveAt(s, k) \in Seq(S)
           /\ Len(RemoveAt(s, k)) = Len(s) - 1
           /\ \A i \in 1..(Len(s) - 1) :
                RemoveAt(s, k)[i] = IF i < k THEN s[i] ELSE s[i + 1]
<1> DEFINE a == SubSeq(s, 1, k - 1)
           b == SubSeq(s, k + 1, Len(s))
<1>1. /\ a \in Seq(S) /\ Len(a) = k - 1
      /\ \A i \in 1..(k - 1) : a[i] = s[i]
  <2>1. \A i \in 1..(k - 1) : s[i] \in S
    BY ElementOfSeq
  <2>2. Len(s) \in Nat /\ k - 1 \in Int
    BY LenProperties
  <2> QED BY <2>1, <2>2, SubSeqProperties
<1>2. /\ b \in Seq(S) /\ Len(b) = Len(s) - k
      /\ \A i \in 1..(Len(s) - k) : b[i] = s[i + k]
  <2>1. \A i \in (k + 1)..Len(s) : s[i] \in S
    BY ElementOfSeq
  <2>2. Len(s) \in Nat /\ k + 1 \in Int /\ Len(s) \in Int
    BY LenProperties
  <2>3. /\ SubSeq(s, k + 1, Len(s)) \in Seq(S)
        /\ Len(SubSeq(s, k + 1, Len(s))) = IF k + 1 <= Len(s) THEN Len(s) - (k + 1) + 1 ELSE 0
        /\ \A i \in 1..(Len(s) - (k + 1) + 1) : SubSeq(s, k + 1, Len(s))[i] = s[k + 1 + i - 1]
    BY <2>1, <2>2, SubSeqProperties
  <2> QED BY <2>2, <2>3
<1>3. RemoveAt(s, k) = a \o b
  BY DEF RemoveAt
<1> HIDE DEF a, b
<1>4. /\ a \o b \in Seq(S)
      /\ Len(a \o b) = Len(a) + Len(b)
      /\ \A i \in 1..(Len(a) + Len(b)) :
           (a \o b)[i] = IF i <= Len(a) THEN a[i] ELSE b[i - Len(a)]
  <2>1. a \in Seq(S) /\ b \in Seq(S)
    BY <1>1, <1>2
  <2> HIDE DEF a, b
  <2> QED BY <2>1, ConcatProperties
<1>5. Len(s) \in Nat
  BY LenProperties
<1> QED BY <1>1, <1>2, <1>3, <1>4, <1>5

(* A new head moves all others up: add_program in sdeamon.c. *)
LEMMA PrependFacts ==
    ASSUME NEW S, NEW s \in Seq(S), NEW e \in S
    PROVE  /\ <<e>> \o s \in Seq(S)
           /\ Len(<<e>> \o s) = Len(s) + 1
           /\ (<<e>> \o s)[1] = e
           /\ \A i \in 1..Len(s) : (<<e>> \o s)[i + 1] = s[i]
<1>1. <<e>> \in Seq(S) /\ Len(<<e>>) = 1 /\ <<e>>[1] = e
  OBVIOUS
<1>2. Len(s) \in Nat
  BY LenProperties
<1> DEFINE h == <<e>>
<1>3. h \in Seq(S) /\ Len(h) = 1 /\ h[1] = e
  BY <1>1
<1> HIDE DEF h
<1>4. /\ h \o s \in Seq(S) /\ Len(h \o s) = Len(h) + Len(s)
      /\ \A i \in 1 .. Len(h) + Len(s) :
           (h \o s)[i] = IF i <= Len(h) THEN h[i] ELSE s[i - Len(h)]
  BY <1>3, ConcatProperties
<1>5. (h \o s)[1] = e /\ \A i \in 1..Len(s) : (h \o s)[i + 1] = s[i]
  <2>1. ASSUME NEW i \in 1..Len(s) PROVE (h \o s)[i + 1] = s[i]
    <3>1. i + 1 \in 1 .. Len(h) + Len(s) /\ ~(i + 1 <= Len(h)) /\ (i + 1) - Len(h) = i
      BY <1>2, <1>3
    <3> QED BY <1>4, <3>1
  <2>2. 1 \in 1 .. Len(h) + Len(s) /\ 1 <= Len(h)
    BY <1>2, <1>3
  <2> QED BY <1>3, <1>4, <2>1, <2>2
<1> QED BY <1>2, <1>3, <1>4, <1>5 DEF h

(* A set of indices has a least one: where find_program and its like stop. *)
LEMMA LeastIndex ==
    ASSUME NEW D \in SUBSET Nat, D # {}
    PROVE  \E i \in D : \A k \in D : i <= k
<1>1. PICK i \in D : \A k \in D : ~(<<k, i>> \in OpToRel(<, Nat))
  BY NatLessThanWellFounded, WFMin
<1>2. \A k \in D : ~(k < i)
  BY <1>1 DEF OpToRel
<1> QED BY <1>2

(* And one that is bounded has a greatest one. *)
LEMMA GreatestIndex ==
    ASSUME NEW N \in Nat, NEW D \in SUBSET (0 .. N), D # {}
    PROVE  Max(D) \in D /\ \A m \in D : m <= Max(D)
<1> DEFINE E == {N - m : m \in D}
<1>1. E \in SUBSET Nat /\ E # {}
  <2>1. ASSUME NEW m \in D PROVE N - m \in Nat
    <3>1. m \in 0 .. N
      OBVIOUS
    <3> QED BY <3>1
  <2>2. PICK d \in D : TRUE
    OBVIOUS
  <2> QED BY <2>1, <2>2
<1>2. PICK e \in E : \A m \in E : e <= m
  BY <1>1, LeastIndex
<1>3. PICK d \in D : e = N - d
  BY <1>2
<1>4. \A m \in D : d >= m
  <2>1. ASSUME NEW m \in D PROVE d >= m
    <3>1. N - m \in E
      OBVIOUS
    <3> QED BY <3>1, <1>2, <1>3
  <2> QED BY <2>1
<1> QED BY <1>3, <1>4 DEF Max

(* What bounds a set from within is its maximum. *)
LEMMA MaxIs ==
    ASSUME NEW S \in SUBSET Int, NEW x \in S, \A y \in S : y <= x
    PROVE  Max(S) = x
<1>1. \A y \in S : x >= y
  OBVIOUS
<1>2. ASSUME NEW z \in S, \A y \in S : z >= y PROVE z = x
  BY <1>1, <1>2
<1> QED BY <1>1, <1>2 DEF Max

(* Counting up from 0 reaches every number up to N. *)
LEMMA UpTo ==
    ASSUME NEW N \in Nat, NEW D, 0 \in D, \A n \in 1 .. N : n - 1 \in D => n \in D
    PROVE  0 .. N \subseteq D
<1> DEFINE B == (0 .. N) \ D
<1> SUFFICES ASSUME B # {} PROVE FALSE
  OBVIOUS
<1>1. PICK i \in B : \A k \in B : i <= k
  <2>1. B \in SUBSET Nat
    OBVIOUS
  <2> QED BY <2>1, LeastIndex
<1>2. i # 0 /\ i \in 1 .. N /\ i - 1 \in 0 .. N
  BY <1>1
<1>3. i - 1 \in D
  BY <1>1, <1>2
<1> QED BY <1>1, <1>2, <1>3

(* A loop of N rounds that stays within X has an outcome after every round:   *)
(* the recursive functions by which loops are modelled exist.                 *)
IsLoop(f, N, X, x0, F) ==
    f \in [0 .. N -> X] /\ f[0] = x0 /\ \A n \in 1 .. N : f[n] = F[n][f[n - 1]]

LEMMA LoopExists ==
    ASSUME NEW N \in Nat, NEW X, NEW x0 \in X, NEW F \in [1 .. N -> [X -> X]]
    PROVE  \E f : IsLoop(f, N, X, x0, F)
<1> DEFINE Good(f, m) == f \in [0 .. m -> X] /\ f[0] = x0 /\ \A n \in 1 .. m : f[n] = F[n][f[n - 1]]
           D == {m \in 0 .. N : \E f : Good(f, m)}
<1>1. 0 \in D
  <2>1. Good([n \in 0 .. 0 |-> x0], 0)
    OBVIOUS
  <2> HIDE DEF Good
  <2> QED BY <2>1
<1>2. ASSUME NEW m \in 1 .. N, m - 1 \in D PROVE m \in D
  <2>1. PICK f : Good(f, m - 1)
    BY <1>2
  <2> DEFINE g == [n \in 0 .. m |-> IF n = m THEN F[m][f[m - 1]] ELSE f[n]]
  <2>2. f[m - 1] \in X /\ F[m][f[m - 1]] \in X
    BY <2>1
  <2>3. g \in [0 .. m -> X]
    BY <2>1, <2>2
  <2>4. g[0] = x0
    BY <2>1
  <2>5. ASSUME NEW n \in 1 .. m PROVE g[n] = F[n][g[n - 1]]
    <3>1. CASE n = m
      BY <3>1, <2>1
    <3>2. CASE n # m
      <4>1. n \in 1 .. m - 1 /\ n - 1 \in 0 .. m /\ n - 1 # m
        BY <3>2
      <4> QED BY <4>1, <2>1, <3>2
    <3> QED BY <3>1, <3>2
  <2> HIDE DEF g
  <2>6. Good(g, m)
    BY <2>3, <2>4, <2>5
  <2> QED BY <2>6
<1> HIDE DEF D
<1>3. 0 .. N \subseteq D
  BY <1>1, <1>2, UpTo
<1>4. N \in D
  BY <1>3
<1> QED BY <1>4 DEF D, IsLoop

(* Each element of a finite set has its own place in a strict total order R:  *)
(* the number of those below it.  So the set can be written as a sequence.    *)
IsRanking(f, S, R) ==
    /\ f = [i \in 1 .. Cardinality(S) |-> f[i]]
    /\ \A i \in 1 .. Cardinality(S) : \A e \in S :
          Cardinality({x \in S : <<x, e>> \in R}) = i - 1 =>
             f[i] \in S /\ Cardinality({x \in S : <<x, f[i]>> \in R}) = i - 1

LEMMA Ranked ==
    ASSUME NEW S, IsFiniteSet(S), NEW R, NEW f,
           \A x \in S : <<x, x>> \notin R,
           \A x, y, z \in S : <<x, y>> \in R /\ <<y, z>> \in R => <<x, z>> \in R,
           \A x, y \in S : x = y \/ <<x, y>> \in R \/ <<y, x>> \in R,
           IsRanking(f, S, R)
    PROVE  /\ f \in Seq(S) /\ Len(f) = Cardinality(S)
           /\ \A i, j \in 1 .. Len(f) : i < j => <<f[i], f[j]>> \in R
           /\ ToSet(f) = S
<1> DEFINE n == Cardinality(S)
           Below(e) == {x \in S : <<x, e>> \in R}
           rank == [e \in S |-> Cardinality(Below(e))]
<1>1. n \in Nat
  BY FS_CardinalityType
<1>2. ASSUME NEW e \in S
      PROVE  IsFiniteSet(Below(e)) /\ rank[e] \in Nat /\ rank[e] \in 0 .. n - 1
  <2>1. IsFiniteSet(S \ {e}) /\ Cardinality(S \ {e}) = n - 1
    BY FS_RemoveElement
  <2>2. Below(e) \in SUBSET (S \ {e})
    OBVIOUS
  <2> HIDE DEF Below
  <2>3. IsFiniteSet(Below(e)) /\ Cardinality(Below(e)) <= n - 1
    BY <2>1, <2>2, FS_Subset
  <2>4. Cardinality(Below(e)) \in Nat
    BY <2>3, FS_CardinalityType
  <2> QED BY <1>1, <2>3, <2>4
<1>3. ASSUME NEW x \in S, NEW y \in S, <<x, y>> \in R PROVE rank[x] < rank[y]
  <2>1. Below(x) \cup {x} \in SUBSET Below(y) /\ x \notin Below(x)
    BY <1>3
  <2> HIDE DEF Below
  <2>2. /\ IsFiniteSet(Below(x) \cup {x})
        /\ Cardinality(Below(x) \cup {x}) = Cardinality(Below(x)) + 1
    BY <1>2, <2>1, FS_AddElement
  <2>3. Cardinality(Below(x) \cup {x}) <= Cardinality(Below(y))
    BY <1>2, <2>1, FS_Subset
  <2> QED BY <1>2, <2>2, <2>3
<1> HIDE DEF Below, rank
<1>4. rank \in Surjection(S, 0 .. n - 1) /\ rank \in Injection(S, 0 .. n - 1)
  <2>1. rank \in [S -> 0 .. n - 1]
    BY <1>2 DEF rank
  <2>2. \A x, y \in S : rank[x] = rank[y] => x = y
    <3>1. ASSUME NEW x \in S, NEW y \in S, rank[x] = rank[y] PROVE x = y
      <4>1. ~(rank[x] < rank[y]) /\ ~(rank[y] < rank[x])
        BY <3>1, <1>2
      <4> QED BY <4>1, <1>3
    <3> QED BY <3>1
  <2>3. rank \in Injection(S, 0 .. n - 1)
    BY <2>1, <2>2 DEF Injection, IsInjective
  <2>4. IsFiniteSet(0 .. n - 1) /\ Cardinality(0 .. n - 1) = n
    <3> HIDE DEF n
    <3>1. n = 0 \/ n >= 1
      BY <1>1
    <3>2. 0 \in Int /\ n - 1 \in Int
      BY <1>1
    <3> QED BY <1>1, <3>1, <3>2, FS_Interval
  <2> QED BY <2>3, <2>4, FS_Injection
<1>5. ASSUME NEW i \in 1 .. n PROVE f[i] \in S /\ rank[f[i]] = i - 1
  <2>1. i - 1 \in 0 .. n - 1
    BY <1>1
  <2>2. \E e \in S : rank[e] = i - 1
    BY <1>4, <2>1 DEF Surjection
  <2>3. \A e \in S : Cardinality(Below(e)) = i - 1 =>
                      f[i] \in S /\ Cardinality(Below(f[i])) = i - 1
    BY DEF Below, IsRanking
  <2>4. \A e \in S : rank[e] = Cardinality(Below(e))
    BY DEF rank
  <2>5. \E e \in S : Cardinality(Below(e)) = i - 1
    BY <2>2, <2>4
  <2>6. f[i] \in S /\ Cardinality(Below(f[i])) = i - 1
    BY <2>3, <2>5
  <2> QED BY <2>4, <2>6
<1>6. ASSUME NEW i \in 1 .. n, NEW j \in 1 .. n, i < j PROVE <<f[i], f[j]>> \in R
  <2>1. /\ f[i] \in S /\ rank[f[i]] = i - 1
        /\ f[j] \in S /\ rank[f[j]] = j - 1
    BY <1>5
  <2>2. ~(j - 1 < i - 1) /\ i - 1 # j - 1
    BY <1>1, <1>6
  <2>3. f[i] # f[j]
    BY <2>1, <2>2
  <2>4. <<f[j], f[i]>> \notin R
    <3>1. SUFFICES ASSUME <<f[j], f[i]>> \in R PROVE FALSE
      OBVIOUS
    <3>2. rank[f[j]] < rank[f[i]]
      BY <2>1, <3>1, <1>3
    <3>3. j - 1 < i - 1
      BY <2>1, <3>2
    <3> QED BY <2>2, <3>3
  <2> QED BY <2>1, <2>3, <2>4
<1>7. ASSUME NEW e \in S PROVE \E i \in 1 .. n : f[i] = e
  <2>1. PICK i \in 1 .. n : i - 1 = rank[e]
    <3>1. rank[e] + 1 \in 1 .. n /\ (rank[e] + 1) - 1 = rank[e]
      BY <1>1, <1>2
    <3> QED BY <3>1
  <2>2. f[i] \in S /\ rank[f[i]] = rank[e]
    BY <1>5, <2>1
  <2>3. \A x, y \in S : rank[x] = rank[y] => x = y
    BY <1>4 DEF Injection, IsInjective
  <2>4. f[i] = e
    BY <2>2, <2>3
  <2> QED BY <2>4
<1>8. f \in [1 .. n -> S]
  <2>1. f = [i \in 1 .. n |-> f[i]]
    BY DEF IsRanking
  <2> QED BY <1>5, <2>1
<1>9. f \in Seq(S) /\ Len(f) = n
  BY <1>1, <1>8, SeqDef, LenProperties
<1>10. ToSet(f) = S
  BY <1>7, <1>8 DEF ToSet
<1> QED BY <1>6, <1>9, <1>10

(* Moving positions does not change how many there are. *)
LEMMA Renumbered ==
    ASSUME NEW D, NEW E, IsFiniteSet(D), NEW f \in [D -> E],
           \A i, k \in D : f[i] = f[k] => i = k,
           \A m \in E : \E i \in D : f[i] = m
    PROVE  IsFiniteSet(E) /\ Cardinality(E) = Cardinality(D)
<1>1. f \in Bijection(D, E)
  BY DEF Bijection, Injection, Surjection, IsInjective
<1> QED BY <1>1, FS_Bijection DEF ExistsBijection
=============================================================================
