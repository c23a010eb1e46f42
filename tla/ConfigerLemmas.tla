--------------------------- MODULE ConfigerLemmas ---------------------------
(* What the operators of Configer on paths and lists do: the parents of a     *)
(* path, realpath, the rewriting of a path, the order of strcmp, the growing  *)
(* arrays and the sorted lists.                                               *)
EXTENDS Configer, SequenceLemmas

----------------------------------------------------------------------------
(* Paths and their parents.                                                   *)

Letter == ToSet(Letters)

(* The first letters of a sequence. *)
LEMMA FirstLetters ==
    ASSUME NEW S, NEW s \in Seq(S), NEW m \in 0 .. Len(s)
    PROVE  /\ SubSeq(s, 1, m) \in Seq(S) /\ Len(SubSeq(s, 1, m)) = m
           /\ \A i \in 1 .. m : SubSeq(s, 1, m)[i] = s[i]
<1>1. Len(s) \in Nat /\ \A i \in 1 .. m : s[i] \in S
  BY LenProperties, ElementOfSeq
<1>2. m \in Int /\ 1 \in Int
  BY <1>1
<1>3. /\ SubSeq(s, 1, m) \in Seq(S)
      /\ Len(SubSeq(s, 1, m)) = IF 1 <= m THEN m - 1 + 1 ELSE 0
      /\ \A i \in 1 .. m - 1 + 1 : SubSeq(s, 1, m)[i] = s[1 + i - 1]
  BY <1>1, <1>2, SubSeqProperties
<1> QED BY <1>1, <1>3

LEMMA PathFacts ==
    ASSUME NEW p \in Path
    PROVE  /\ p \in Seq(Letter) /\ Len(p) \in Nat /\ Len(p) >= 2 /\ DOMAIN p = 1 .. Len(p)
           /\ p[1] = "/" /\ p[Len(p)] # "/"
           /\ \A i \in 1 .. Len(p) - 1 : ~(p[i] = "/" /\ p[i + 1] = "/")
<1>1. p \in Seq(Letter)
  BY DEF Path, Letter
<1> QED BY <1>1, LenProperties DEF Path

LEMMA CutFacts ==
    ASSUME NEW p \in Path
    PROVE  /\ Len(p) \in Cuts(p)
           /\ \A i \in Cuts(p) : i \in 2 .. Len(p) /\ p[i] # "/"
<1> QED BY PathFacts DEF Cuts

(* A cut of a path is the end of a path, with the cuts before it. *)
LEMMA PrefixAtCut ==
    ASSUME NEW p \in Path, NEW c \in Cuts(p)
    PROVE  /\ SubSeq(p, 1, c) \in Path /\ Len(SubSeq(p, 1, c)) = c
           /\ \A i \in 1 .. c : SubSeq(p, 1, c)[i] = p[i]
           /\ Cuts(SubSeq(p, 1, c)) = {i \in Cuts(p) : i <= c}
           /\ \A i \in 0 .. c : SubSeq(SubSeq(p, 1, c), 1, i) = SubSeq(p, 1, i)
<1> DEFINE q == SubSeq(p, 1, c)
<1>1. c \in 2 .. Len(p) /\ p[c] # "/" /\ Len(p) \in Nat /\ p \in Seq(Letter)
  BY CutFacts, PathFacts
<1>2. c \in 0 .. Len(p)
  BY <1>1
<1>3. q \in Seq(Letter) /\ Len(q) = c /\ \A i \in 1 .. c : q[i] = p[i]
  BY <1>1, <1>2, FirstLetters
<1> HIDE DEF q
<1>4. q \in Path
  <2>1. Len(q) >= 2 /\ q[1] = "/" /\ q[Len(q)] # "/"
    BY <1>1, <1>3, PathFacts
  <2>2. \A i \in 1 .. Len(q) - 1 : ~(q[i] = "/" /\ q[i + 1] = "/")
    BY <1>1, <1>3, PathFacts
  <2> QED BY <1>3, <2>1, <2>2 DEF Path, Letter
<1>5. Cuts(q) = {i \in Cuts(p) : i <= c}
  <2>1. ASSUME NEW i \in Cuts(q) PROVE i \in Cuts(p) /\ i <= c
    <3>1. i \in 2 .. c /\ (i = c \/ q[i + 1] = "/")
      BY <1>3 DEF Cuts
    <3>2. CASE i = c
      BY <3>1, <3>2
    <3>3. CASE i # c
      <4>1. i + 1 \in 1 .. c
        BY <1>1, <3>1, <3>3
      <4> QED BY <1>1, <1>3, <3>1, <3>3, <4>1 DEF Cuts
    <3> QED BY <3>2, <3>3
  <2>2. ASSUME NEW i \in Cuts(p), i <= c PROVE i \in Cuts(q)
    <3>1. i \in 2 .. Len(p) /\ (i = Len(p) \/ p[i + 1] = "/")
      BY DEF Cuts
    <3>2. CASE i = c
      BY <1>1, <1>3, <3>2 DEF Cuts
    <3>3. CASE i # c
      <4>1. i + 1 \in 1 .. c /\ i # Len(p)
        BY <1>1, <2>2, <3>1, <3>3
      <4> QED BY <1>1, <1>3, <3>1, <3>3, <4>1 DEF Cuts
    <3> QED BY <3>2, <3>3
  <2> QED BY <2>1, <2>2
<1>6. ASSUME NEW i \in 0 .. c PROVE SubSeq(q, 1, i) = SubSeq(p, 1, i)
  <2>1. i \in 0 .. Len(p) /\ i \in 0 .. Len(q)
    BY <1>1, <1>3
  <2>2. /\ SubSeq(q, 1, i) \in Seq(Letter) /\ Len(SubSeq(q, 1, i)) = i
        /\ \A m \in 1 .. i : SubSeq(q, 1, i)[m] = q[m]
    BY <1>3, <2>1, FirstLetters
  <2>3. /\ SubSeq(p, 1, i) \in Seq(Letter) /\ Len(SubSeq(p, 1, i)) = i
        /\ \A m \in 1 .. i : SubSeq(p, 1, i)[m] = p[m]
    BY <1>1, <2>1, FirstLetters
  <2>4. \A m \in 1 .. i : m \in 1 .. c
    BY <1>1
  <2>5. \A m \in 1 .. i : SubSeq(q, 1, i)[m] = SubSeq(p, 1, i)[m]
    BY <1>3, <2>2, <2>3, <2>4
  <2> QED BY <2>2, <2>3, <2>5, SeqEqual
<1> QED BY <1>3, <1>4, <1>5, <1>6 DEF q

LEMMA WholePrefix ==
    ASSUME NEW S, NEW s \in Seq(S)
    PROVE  SubSeq(s, 1, Len(s)) = s
<1>1. Len(s) \in Nat
  BY LenProperties
<1>2. Len(s) \in 0 .. Len(s)
  BY <1>1
<1>3. /\ SubSeq(s, 1, Len(s)) \in Seq(S) /\ Len(SubSeq(s, 1, Len(s))) = Len(s)
      /\ \A i \in 1 .. Len(s) : SubSeq(s, 1, Len(s))[i] = s[i]
  BY <1>2, FirstLetters
<1> QED BY <1>3, SeqEqual

(* A path is its own lineage and that of its parent (configer.c:470-517). *)
LEMMA LineageFacts ==
    ASSUME NEW p \in Path
    PROVE  /\ p \in Lineage(p) /\ Lineage(p) \subseteq Path
           /\ \A q \in Lineage(p) : Lineage(q) \subseteq Lineage(p)
<1>1. Len(p) \in Cuts(p) /\ SubSeq(p, 1, Len(p)) = p
  BY CutFacts, PathFacts, WholePrefix
<1>2. Lineage(p) \subseteq Path
  BY PrefixAtCut DEF Lineage
<1>3. ASSUME NEW q \in Lineage(p) PROVE Lineage(q) \subseteq Lineage(p)
  <2>1. PICK c \in Cuts(p) : q = SubSeq(p, 1, c)
    BY DEF Lineage
  <2>2. ASSUME NEW i \in Cuts(q) PROVE SubSeq(q, 1, i) \in Lineage(p)
    <3>1. i \in Cuts(p) /\ i <= c /\ i \in 2 .. Len(p)
      BY <2>1, <2>2, PrefixAtCut, CutFacts
    <3>2. i \in 0 .. c
      BY <2>1, <3>1, CutFacts
    <3>3. SubSeq(q, 1, i) = SubSeq(p, 1, i)
      BY <2>1, <3>2, PrefixAtCut
    <3> QED BY <3>1, <3>3 DEF Lineage
  <2> QED BY <2>2 DEF Lineage
<1> QED BY <1>1, <1>2, <1>3 DEF Lineage

LEMMA ParentFacts ==
    ASSUME NEW p \in Path
    PROVE  \/ Parent(p) = Slash /\ Lineage(p) = {p}
           \/ /\ Parent(p) \in Path /\ Parent(p) \in Lineage(p)
              /\ Lineage(p) = {p} \cup Lineage(Parent(p))
              /\ Len(Parent(p)) < Len(p)
              /\ \A i \in 1 .. Len(Parent(p)) : Parent(p)[i] = p[i]
<1> DEFINE D == {1} \cup (Cuts(p) \ {Len(p)})
<1>0. p \in Seq(Letter) /\ Len(p) \in Nat /\ Len(p) >= 2
  BY PathFacts
<1>1. D \in SUBSET (0 .. Len(p)) /\ D # {}
  BY <1>0, CutFacts
<1>2. Max(D) \in D /\ \A m \in D : m <= Max(D)
  <2> HIDE DEF D
  <2> QED BY <1>0, <1>1, GreatestIndex
<1>3. Parent(p) = SubSeq(p, 1, Max(D))
  BY DEF Parent
<1>4. CASE Cuts(p) = {Len(p)}
  <2>1. D = {1}
    BY <1>4
  <2>2. Max(D) = 1
    BY <1>2, <2>1
  <2>3. 1 \in 0 .. Len(p)
    BY <1>0
  <2>4. /\ SubSeq(p, 1, 1) \in Seq(Letter) /\ Len(SubSeq(p, 1, 1)) = 1
        /\ \A i \in 1 .. 1 : SubSeq(p, 1, 1)[i] = p[i]
    BY <1>0, <2>3, FirstLetters
  <2>5. SubSeq(p, 1, 1) = Slash
    <3>1. SubSeq(p, 1, 1)[1] = "/"
      BY <2>4, PathFacts
    <3>2. Slash \in Seq({"/"}) /\ Len(Slash) = 1 /\ Slash[1] = "/"
      BY DEF Slash
    <3>3. SubSeq(p, 1, 1) \in Seq({"/"} \cup Letter) /\ Slash \in Seq({"/"} \cup Letter)
      BY <2>4, <3>2
    <3>4. \A i \in 1 .. Len(SubSeq(p, 1, 1)) : SubSeq(p, 1, 1)[i] = Slash[i]
      BY <2>4, <3>1, <3>2
    <3> HIDE DEF Slash
    <3> QED BY <2>4, <3>2, <3>3, <3>4, SeqEqual
  <2>6. Lineage(p) = {p}
    BY <1>0, <1>4, WholePrefix DEF Lineage
  <2> QED BY <1>3, <2>2, <2>5, <2>6
<1>5. CASE Cuts(p) # {Len(p)}
  <2>1. PICK d \in Cuts(p) : d # Len(p)
    BY <1>5, CutFacts
  <2>0. d \in D /\ d >= 2
    BY <2>1, CutFacts
  <2> DEFINE c == Max(D)
  <2> HIDE DEF D
  <2>2. d >= 2 /\ d <= Max(D)
    BY <1>2, <2>0
  <2>3. c \in Cuts(p) /\ c # Len(p) /\ c \in 2 .. Len(p)
    <3>1. c # 1
      BY <2>2, CutFacts
    <3>2. c \in Cuts(p) \ {Len(p)}
      BY <1>2, <3>1 DEF D
    <3> QED BY <3>2, CutFacts
  <2>4. \A m \in Cuts(p) : m # Len(p) => m <= c
    BY <1>2 DEF D
  <2>5. /\ SubSeq(p, 1, c) \in Path /\ Len(SubSeq(p, 1, c)) = c
        /\ \A i \in 1 .. c : SubSeq(p, 1, c)[i] = p[i]
        /\ Cuts(SubSeq(p, 1, c)) = {i \in Cuts(p) : i <= c}
        /\ \A i \in 0 .. c : SubSeq(SubSeq(p, 1, c), 1, i) = SubSeq(p, 1, i)
    BY <2>3, PrefixAtCut
  <2>6. Lineage(p) = {p} \cup Lineage(SubSeq(p, 1, c))
    <3>1. ASSUME NEW i \in Cuts(p), i # Len(p)
          PROVE  SubSeq(p, 1, i) \in Lineage(SubSeq(p, 1, c))
      <4>1. i <= c /\ i \in 0 .. c
        BY <2>3, <2>4, <3>1, CutFacts
      <4>2. i \in Cuts(SubSeq(p, 1, c)) /\ SubSeq(p, 1, i) = SubSeq(SubSeq(p, 1, c), 1, i)
        BY <2>5, <4>1
      <4> QED BY <4>2 DEF Lineage
    <3>2. SubSeq(p, 1, c) \in Lineage(p)
      BY <2>3 DEF Lineage
    <3>3. {p} \cup Lineage(SubSeq(p, 1, c)) \subseteq Lineage(p)
      BY <3>2, LineageFacts
    <3>4. SubSeq(p, 1, Len(p)) = p
      BY <1>0, WholePrefix
    <3> QED BY <3>1, <3>3, <3>4 DEF Lineage
  <2>7. SubSeq(p, 1, c) \in Lineage(p)
    BY <2>3 DEF Lineage
  <2>8. Len(SubSeq(p, 1, c)) < Len(p)
    BY <2>3, <2>5
  <2> QED BY <1>3, <2>5, <2>6, <2>7, <2>8
<1> QED BY <1>4, <1>5

LEMMA SlashParent == Parent(Slash) = Slash /\ Cuts(Slash) = {} /\ Lineage(Slash) = {}
<1>1. Len(Slash) = 1 /\ Slash \in Seq({"/"})
  BY DEF Slash
<1>2. Cuts(Slash) = {}
  BY <1>1 DEF Cuts
<1>3. Max({1}) = 1
  BY MaxIs
<1>4. {1} \cup (Cuts(Slash) \ {Len(Slash)}) = {1}
  BY <1>2
<1>5. Parent(Slash) = SubSeq(Slash, 1, 1)
  BY <1>3, <1>4 DEF Parent
<1>6. SubSeq(Slash, 1, Len(Slash)) = Slash
  BY <1>1, WholePrefix
<1> QED BY <1>1, <1>2, <1>5, <1>6 DEF Lineage

(* A path has no slash behind it to trim. *)
LEMMA TrimmedPath ==
    ASSUME NEW p \in Path
    PROVE  Trimmed(p) = p
<1> DEFINE D == {1} \cup {i \in DOMAIN p : p[i] # "/"}
<1>1. p \in Seq(Letter) /\ Len(p) \in Nat /\ Len(p) >= 2 /\ DOMAIN p = 1 .. Len(p) /\ p[Len(p)] # "/"
  BY PathFacts
<1>2. D \in SUBSET Int /\ Len(p) \in D /\ \A i \in D : i <= Len(p)
  BY <1>1
<1>3. Max(D) = Len(p)
  <2> HIDE DEF D
  <2> QED BY <1>2, MaxIs
<1> QED BY <1>1, <1>3, WholePrefix DEF Trimmed

----------------------------------------------------------------------------
(* realpath.                                                                  *)

Piece == Letter \cup {"?"}

(* What the first n pieces of p lead to, for every n. *)
IsWalk(w, fs, p) ==
    /\ w \in [0 .. Len(p) -> Seq(Piece)]
    /\ w[0] = <<>>
    /\ \A n \in 1 .. Len(p) :
         w[n] = IF n \in Cuts(p) THEN Enter(fs, Append(w[n - 1], p[n]))
                ELSE Append(w[n - 1], p[n])

LEMMA PathStrings ==
    /\ Letter \subseteq Piece /\ Seq(Letter) \subseteq Seq(Piece) /\ Path \subseteq Seq(Piece)
    /\ Missing \in Seq(Piece) /\ Missing \notin Path
<1>1. Letter \subseteq Piece
  BY DEF Piece
<1>2. Seq(Letter) \subseteq Seq(Piece)
  BY <1>1, SeqMonotonic
<1>3. Missing \in Seq(Piece) /\ Len(Missing) = 1
  BY DEF Missing, Piece
<1>4. Missing \notin Path
  BY <1>3, PathFacts
<1>5. Path \subseteq Seq(Piece)
  BY <1>2, PathFacts
<1> QED BY <1>1, <1>2, <1>3, <1>4, <1>5

LEMMA WalkExists ==
    ASSUME NEW fs, \A l \in DOMAIN fs.links : fs.links[l] \in Seq(Piece),
           NEW p \in Seq(Letter)
    PROVE  \E w : IsWalk(w, fs, p) /\ realpath(fs, p) = w[Len(p)]
<1> DEFINE real[n \in 0 .. Len(p)] ==
             IF n = 0 THEN <<>>
             ELSE IF n \in Cuts(p) THEN Enter(fs, Append(real[n - 1], p[n]))
             ELSE Append(real[n - 1], p[n])
           G(n, x) == IF n \in Cuts(p) THEN Enter(fs, Append(x, p[n])) ELSE Append(x, p[n])
           F == [n \in 1 .. Len(p) |-> [x \in Seq(Piece) |-> G(n, x)]]
           N == Len(p)
           X == Seq(Piece)
           x0 == <<>>
<1>1. realpath(fs, p) = real[Len(p)]
  BY DEF realpath
<1>2. N \in Nat /\ x0 \in X
  BY LenProperties
<1>3. ASSUME NEW n \in 1 .. N, NEW x \in X PROVE G(n, x) \in X
  <2>1. p[n] \in Piece
    BY PathStrings, ElementOfSeq
  <2>2. Append(x, p[n]) \in X
    BY <2>1, AppendProperties
  <2>3. Missing \in X
    BY PathStrings
  <2> QED BY <2>2, <2>3 DEF Enter
<1>4. F \in [1 .. N -> [X -> X]] /\ \A n \in 1 .. N : \A x \in X : F[n][x] = G(n, x)
  BY <1>3
<1> HIDE DEF F, real, N, X, x0, G
<1>5. PICK f : IsLoop(f, N, X, x0, F)
  BY <1>2, <1>4, LoopExists
<1>6. /\ f \in [0 .. N -> X] /\ f[0] = x0
      /\ \A n \in 1 .. N : f[n] = G(n, f[n - 1])
  <2>1. f \in [0 .. N -> X] /\ f[0] = x0 /\ \A n \in 1 .. N : f[n] = F[n][f[n - 1]]
    BY <1>5 DEF IsLoop
  <2>2. ASSUME NEW n \in 1 .. N PROVE f[n - 1] \in X
    <3>1. n - 1 \in 0 .. N
      BY <1>2
    <3> QED BY <2>1, <3>1
  <2> QED BY <1>4, <2>1, <2>2
<1>7. f = [n \in 0 .. N |-> IF n = 0 THEN x0 ELSE G(n, f[n - 1])]
  <2>1. \A n \in 0 .. N : n = 0 \/ n \in 1 .. N
    BY <1>2
  <2>2. \A n \in 0 .. N : f[n] = IF n = 0 THEN x0 ELSE G(n, f[n - 1])
    BY <1>6, <2>1
  <2> QED BY <1>6, <2>2
<1>8. real = [n \in 0 .. N |-> IF n = 0 THEN x0 ELSE G(n, real[n - 1])]
  BY <1>7 DEF real, N, x0, G
<1>9. real[0] = x0 /\ \A n \in 1 .. N : real[n] = G(n, real[n - 1])
  <2>1. 0 \in 0 .. N /\ \A n \in 1 .. N : n # 0 /\ n \in 0 .. N
    BY <1>2
  <2>2. \A n \in 0 .. N : real[n] = IF n = 0 THEN x0 ELSE G(n, real[n - 1])
    BY <1>8
  <2> QED BY <2>1, <2>2
<1>10. 0 .. N \subseteq {n \in 0 .. N : real[n] \in X}
  <2>1. 0 \in {n \in 0 .. N : real[n] \in X}
    BY <1>2, <1>9
  <2>2. \A n \in 1 .. N : n - 1 \in {m \in 0 .. N : real[m] \in X} => n \in {m \in 0 .. N : real[m] \in X}
    BY <1>2, <1>3, <1>9
  <2> QED BY <1>2, <2>1, <2>2, UpTo
<1>11. real \in [0 .. N -> X]
  BY <1>8, <1>10
<1>12. IsWalk(real, fs, p)
  BY <1>9, <1>11 DEF IsWalk, N, X, x0, G
<1> QED BY <1>1, <1>12

LEMMA HostFacts ==
    ASSUME NEW h, IsHost(h)
    PROVE  /\ h.dirs \subseteq Path /\ h.files \subseteq Path
           /\ \A l \in DOMAIN h.links : h.links[l] \in h.dirs \cup h.files
           /\ \A l \in DOMAIN h.links : h.links[l] \in Seq(Piece)
           /\ \A p \in h.dirs \cup h.files : p \notin DOMAIN h.links
           /\ \A p \in h.dirs \cup h.files : \A q \in Lineage(p) : q = p \/ q \in h.dirs
           /\ Missing \notin h.dirs \cup h.files
<1> QED BY PathStrings DEF IsHost

(* The walk along a path passes what its prefixes lead to. *)
LEMMA WalkAtCut ==
    ASSUME NEW fs, \A l \in DOMAIN fs.links : fs.links[l] \in Seq(Piece),
           NEW p \in Path, NEW c \in Cuts(p), NEW w, IsWalk(w, fs, p)
    PROVE  w[c] = realpath(fs, SubSeq(p, 1, c))
<1> DEFINE q == SubSeq(p, 1, c)
<1>1. q \in Path /\ Len(q) = c /\ (\A i \in 1 .. c : q[i] = p[i])
      /\ Cuts(q) = {i \in Cuts(p) : i <= c}
  BY PrefixAtCut
<1> HIDE DEF q
<1>2. q \in Seq(Letter) /\ c \in 2 .. Len(p) /\ Len(p) \in Nat /\ c \in Nat
  BY <1>1, PathFacts, CutFacts
<1>3. PICK v : IsWalk(v, fs, q) /\ realpath(fs, q) = v[Len(q)]
  BY <1>2, WalkExists
<1> DEFINE D == {n \in 0 .. c : v[n] = w[n]}
<1>4. 0 \in D
  BY <1>2, <1>3 DEF IsWalk
<1>5. ASSUME NEW n \in 1 .. c, n - 1 \in D PROVE n \in D
  <2>1. n \in 1 .. Len(p) /\ n \in 1 .. Len(q) /\ q[n] = p[n] /\ n <= c
    BY <1>1, <1>2
  <2>2. n \in Cuts(q) <=> n \in Cuts(p)
    BY <1>1, <2>1
  <2>3. v[n - 1] = w[n - 1]
    BY <1>5
  <2>4. v[n] = IF n \in Cuts(q) THEN Enter(fs, Append(v[n - 1], q[n])) ELSE Append(v[n - 1], q[n])
    BY <1>3, <2>1 DEF IsWalk
  <2>5. w[n] = IF n \in Cuts(p) THEN Enter(fs, Append(w[n - 1], p[n])) ELSE Append(w[n - 1], p[n])
    BY <2>1 DEF IsWalk
  <2>6. v[n] = w[n]
    BY <2>1, <2>2, <2>3, <2>4, <2>5
  <2> QED BY <1>2, <2>6
<1> HIDE DEF D
<1>6. 0 .. c \subseteq D
  BY <1>2, <1>4, <1>5, UpTo
<1>7. c \in D
  BY <1>2, <1>6
<1> QED BY <1>1, <1>3, <1>7 DEF D, q

(* Two paths that lead to the same place and go on in the same way lead to    *)
(* the same place: why rewriting the paths under a link is right              *)
(* (configer.c:565-599).                                                      *)
LEMMA RealpathTail ==
    ASSUME NEW fs, \A l \in DOMAIN fs.links : fs.links[l] \in Seq(Piece),
           NEW p \in Path, NEW q \in Path, NEW a \in Cuts(p), NEW b \in Cuts(q), NEW m \in Nat,
           Len(p) = a + m, Len(q) = b + m,
           \A n \in 1 .. m : p[a + n] = q[b + n],
           realpath(fs, SubSeq(p, 1, a)) = realpath(fs, SubSeq(q, 1, b))
    PROVE  realpath(fs, p) = realpath(fs, q)
<1>1. /\ p \in Seq(Letter) /\ q \in Seq(Letter) /\ a \in Nat /\ b \in Nat /\ a >= 2 /\ b >= 2
  BY PathFacts, CutFacts
<1>2. PICK v : IsWalk(v, fs, p) /\ realpath(fs, p) = v[Len(p)]
  BY <1>1, WalkExists
<1>3. PICK w : IsWalk(w, fs, q) /\ realpath(fs, q) = w[Len(q)]
  BY <1>1, WalkExists
<1> DEFINE D == {n \in 0 .. m : v[a + n] = w[b + n]}
<1>4. 0 \in D
  <2>1. v[a] = w[b]
    BY <1>2, <1>3, WalkAtCut
  <2>2. a + 0 = a /\ b + 0 = b
    BY <1>1
  <2> QED BY <2>1, <2>2
<1>5. ASSUME NEW n \in 1 .. m, n - 1 \in D PROVE n \in D
  <2>1. /\ a + n \in 1 .. Len(p) /\ b + n \in 1 .. Len(q) /\ p[a + n] = q[b + n]
        /\ (a + n) - 1 = a + (n - 1) /\ (b + n) - 1 = b + (n - 1)
    BY <1>1
  <2>2. a + n \in Cuts(p) <=> b + n \in Cuts(q)
    <3>1. a + n \in Cuts(p) <=> (n = m \/ p[a + n + 1] = "/")
      BY <1>1, <2>1 DEF Cuts
    <3>2. b + n \in Cuts(q) <=> (n = m \/ q[b + n + 1] = "/")
      BY <1>1, <2>1 DEF Cuts
    <3>3. n # m => n + 1 \in 1 .. m /\ a + n + 1 = a + (n + 1) /\ b + n + 1 = b + (n + 1)
      BY <1>1
    <3> QED BY <3>1, <3>2, <3>3
  <2>3. v[a + n] = IF a + n \in Cuts(p) THEN Enter(fs, Append(v[a + (n - 1)], p[a + n]))
                   ELSE Append(v[a + (n - 1)], p[a + n])
    BY <1>2, <2>1 DEF IsWalk
  <2>4. w[b + n] = IF b + n \in Cuts(q) THEN Enter(fs, Append(w[b + (n - 1)], q[b + n]))
                   ELSE Append(w[b + (n - 1)], q[b + n])
    BY <1>3, <2>1 DEF IsWalk
  <2>5. v[a + (n - 1)] = w[b + (n - 1)]
    BY <1>5
  <2>6. v[a + n] = w[b + n]
    BY <2>1, <2>2, <2>3, <2>4, <2>5
  <2> QED BY <2>6
<1> HIDE DEF D
<1>6. 0 .. m \subseteq D
  BY <1>4, <1>5, UpTo
<1>7. m \in D
  BY <1>6
<1> QED BY <1>2, <1>3, <1>7 DEF D

LEMMA PrefixAppend ==
    ASSUME NEW S, NEW s \in Seq(S), NEW n \in 1 .. Len(s)
    PROVE  Append(SubSeq(s, 1, n - 1), s[n]) = SubSeq(s, 1, n)
<1>1. Len(s) \in Nat /\ n \in Nat /\ n - 1 \in 0 .. Len(s) /\ n \in 0 .. Len(s) /\ s[n] \in S
  BY LenProperties, ElementOfSeq
<1> DEFINE a == SubSeq(s, 1, n - 1)
           b == SubSeq(s, 1, n)
<1>2. a \in Seq(S) /\ Len(a) = n - 1 /\ \A i \in 1 .. n - 1 : a[i] = s[i]
  BY <1>1, FirstLetters
<1>3. b \in Seq(S) /\ Len(b) = n /\ \A i \in 1 .. n : b[i] = s[i]
  BY <1>1, FirstLetters
<1> HIDE DEF a, b
<1>4. /\ Append(a, s[n]) \in Seq(S) /\ Len(Append(a, s[n])) = n
      /\ \A i \in 1 .. n - 1 : Append(a, s[n])[i] = a[i]
      /\ Append(a, s[n])[n] = s[n]
  <2>1. /\ Append(a, s[n]) \in Seq(S) /\ Len(Append(a, s[n])) = Len(a) + 1
        /\ \A i \in 1 .. Len(a) : Append(a, s[n])[i] = a[i]
        /\ Append(a, s[n])[Len(a) + 1] = s[n]
    BY <1>1, <1>2, AppendProperties
  <2> QED BY <1>1, <1>2, <2>1
<1>5. \A i \in 1 .. n : Append(a, s[n])[i] = b[i]
  BY <1>1, <1>2, <1>3, <1>4
<1>6. Append(a, s[n]) = b
  BY <1>3, <1>4, <1>5, SeqEqual
<1> QED BY <1>6 DEF a, b

(* A directory or file of the host is where it is. *)
LEMMA RealpathListed ==
    ASSUME NEW h, IsHost(h), NEW x \in h.dirs \cup h.files
    PROVE  realpath(h, x) = x
<1>1. x \in Path /\ x \in Seq(Letter) /\ Len(x) \in Nat
  BY HostFacts, PathFacts
<1>2. PICK w : IsWalk(w, h, x) /\ realpath(h, x) = w[Len(x)]
  BY <1>1, HostFacts, WalkExists
<1> DEFINE D == {n \in 0 .. Len(x) : w[n] = SubSeq(x, 1, n)}
<1>3. 0 \in D
  <2>1. SubSeq(x, 1, 0) = <<>>
    BY <1>1, SubSeqEmpty
  <2> QED BY <1>1, <1>2, <2>1 DEF IsWalk
<1>4. ASSUME NEW n \in 1 .. Len(x), n - 1 \in D PROVE n \in D
  <2>1. Append(w[n - 1], x[n]) = SubSeq(x, 1, n)
    BY <1>1, <1>4, PrefixAppend
  <2>2. w[n] = IF n \in Cuts(x) THEN Enter(h, SubSeq(x, 1, n)) ELSE SubSeq(x, 1, n)
    BY <1>2, <2>1 DEF IsWalk
  <2>3. ASSUME n \in Cuts(x) PROVE Enter(h, SubSeq(x, 1, n)) = SubSeq(x, 1, n)
    <3>1. SubSeq(x, 1, n) \in Lineage(x)
      BY <2>3 DEF Lineage
    <3>2. SubSeq(x, 1, n) \in h.dirs \cup h.files
      BY <3>1, HostFacts
    <3> QED BY <3>2, HostFacts DEF Enter
  <2>4. w[n] = SubSeq(x, 1, n)
    BY <2>2, <2>3
  <2> QED BY <1>1, <2>4
<1> HIDE DEF D
<1>5. 0 .. Len(x) \subseteq D
  BY <1>1, <1>3, <1>4, UpTo
<1>6. Len(x) \in D
  BY <1>1, <1>5
<1>7. SubSeq(x, 1, Len(x)) = x
  BY <1>1, WholePrefix
<1> QED BY <1>2, <1>6, <1>7 DEF D

(* realpath ends at a directory, a file or nothing. *)
LEMMA RealpathRange ==
    ASSUME NEW h, IsHost(h), NEW p \in Path
    PROVE  /\ realpath(h, p) \in h.dirs \cup h.files \cup {Missing}
           /\ realpath(h, p) # Missing =>
                realpath(h, p) \in Path /\ realpath(h, realpath(h, p)) = realpath(h, p)
<1>1. p \in Seq(Letter) /\ Len(p) \in 1 .. Len(p) /\ Len(p) \in Cuts(p)
  BY PathFacts, CutFacts
<1>2. PICK w : IsWalk(w, h, p) /\ realpath(h, p) = w[Len(p)]
  BY <1>1, HostFacts, WalkExists
<1>3. realpath(h, p) = Enter(h, Append(w[Len(p) - 1], p[Len(p)]))
  BY <1>1, <1>2 DEF IsWalk
<1>4. realpath(h, p) \in h.dirs \cup h.files \cup {Missing}
  BY <1>3, HostFacts DEF Enter
<1> QED BY <1>4, HostFacts, RealpathListed

----------------------------------------------------------------------------
(* Rewriting.                                                                 *)

(* from begins p, letter by letter. *)
LEMMA PrefixFacts ==
    ASSUME NEW S, NEW p \in Seq(S), NEW from \in Seq(S)
    PROVE  IsPrefix(from, p) <=>
             Len(from) <= Len(p) /\ \A i \in 1 .. Len(from) : p[i] = from[i]
<1>1. Len(p) \in Nat /\ Len(from) \in Nat /\ Len(from) \in 0 .. Len(from)
  BY LenProperties
<1>2. SubSeq(from, 1, Len(from)) = from
  BY WholePrefix
<1>3. ASSUME Len(from) <= Len(p)
      PROVE  /\ SubSeq(p, 1, Len(from)) \in Seq(S) /\ Len(SubSeq(p, 1, Len(from))) = Len(from)
             /\ \A i \in 1 .. Len(from) : SubSeq(p, 1, Len(from))[i] = p[i]
  <2>1. Len(from) \in 0 .. Len(p)
    BY <1>1, <1>3
  <2> QED BY <2>1, FirstLetters
<1>4. ASSUME IsPrefix(from, p) PROVE Len(from) <= Len(p) /\ \A i \in 1 .. Len(from) : p[i] = from[i]
  BY <1>2, <1>3, <1>4 DEF IsPrefix
<1>5. ASSUME Len(from) <= Len(p), \A i \in 1 .. Len(from) : p[i] = from[i] PROVE IsPrefix(from, p)
  <2>1. from = SubSeq(p, 1, Len(from))
    BY <1>3, <1>5, SeqEqual
  <2> QED BY <1>2, <1>5, <2>1 DEF IsPrefix
<1> QED BY <1>4, <1>5

(* q is to, and then what p has behind its first m letters. *)
Continues(q, to, p, m) ==
    /\ Len(q) = Len(to) + (Len(p) - m)
    /\ \A i \in 1 .. Len(to) : q[i] = to[i]
    /\ \A n \in 1 .. Len(p) - m : q[Len(to) + n] = p[m + n]

LEMMA LastLetters ==
    ASSUME NEW S, NEW p \in Seq(S), NEW m \in 0 .. Len(p), NEW to \in Seq(S),
           NEW q, q = to \o SubSeq(p, m + 1, Len(p))
    PROVE  q \in Seq(S) /\ Continues(q, to, p, m)
<1> DEFINE b == SubSeq(p, m + 1, Len(p))
<1>1. Len(p) \in Nat /\ Len(to) \in Nat /\ m \in Nat
  BY LenProperties
<1>2. /\ b \in Seq(S) /\ Len(b) = Len(p) - m
      /\ \A n \in 1 .. Len(p) - m : b[n] = p[m + n]
  <2>1. \A i \in m + 1 .. Len(p) : p[i] \in S
    <3>1. \A i \in m + 1 .. Len(p) : i \in 1 .. Len(p)
      BY <1>1
    <3> QED BY <3>1, ElementOfSeq
  <2>2. m + 1 \in Int /\ Len(p) \in Int
    BY <1>1
  <2>3. /\ b \in Seq(S)
        /\ Len(b) = IF m + 1 <= Len(p) THEN Len(p) - (m + 1) + 1 ELSE 0
        /\ \A n \in 1 .. Len(p) - (m + 1) + 1 : b[n] = p[m + 1 + n - 1]
    BY <2>1, <2>2, SubSeqProperties
  <2> QED BY <1>1, <2>3
<1> HIDE DEF b
<1>3. /\ to \o b \in Seq(S) /\ Len(to \o b) = Len(to) + Len(b)
      /\ \A i \in 1 .. Len(to) + Len(b) :
           (to \o b)[i] = IF i <= Len(to) THEN to[i] ELSE b[i - Len(to)]
  BY <1>2, ConcatProperties
<1>4. \A i \in 1 .. Len(to) : (to \o b)[i] = to[i]
  BY <1>1, <1>2, <1>3
<1>5. ASSUME NEW n \in 1 .. Len(p) - m PROVE (to \o b)[Len(to) + n] = p[m + n]
  <2>1. /\ Len(to) + n \in 1 .. Len(to) + Len(b) /\ ~(Len(to) + n <= Len(to))
        /\ (Len(to) + n) - Len(to) = n
    BY <1>1, <1>2
  <2> QED BY <1>2, <1>3, <2>1
<1> QED BY <1>2, <1>3, <1>4, <1>5 DEF b, Continues

(* A path that begins with another one, rewritten. *)
LEMMA RewrittenPath ==
    ASSUME NEW p \in Path, NEW old \in Path, NEW real \in Path, IsPrefix(old, p),
           NEW q, q = Rewrite(p, old, real)
    PROVE  q \in Path /\ Len(old) <= Len(p) /\ Continues(q, real, p, Len(old))
<1>1. /\ p \in Seq(Letter) /\ Len(p) \in Nat /\ old \in Seq(Letter) /\ Len(old) \in Nat
      /\ real \in Seq(Letter) /\ Len(real) \in Nat /\ Len(real) >= 2 /\ real[1] = "/"
      /\ p[Len(p)] # "/" /\ real[Len(real)] # "/"
  BY PathFacts
<1>2. Len(old) <= Len(p) /\ Len(old) \in 0 .. Len(p)
  BY <1>1, PrefixFacts
<1>3. q = real \o SubSeq(p, Len(old) + 1, Len(p))
  BY DEF Rewrite
<1>4. /\ q \in Seq(Letter) /\ Len(q) = Len(real) + (Len(p) - Len(old))
      /\ \A i \in 1 .. Len(real) : q[i] = real[i]
      /\ \A n \in 1 .. Len(p) - Len(old) : q[Len(real) + n] = p[Len(old) + n]
  <2> DEFINE m == Len(old)
  <2>1. /\ p \in Seq(Letter) /\ real \in Seq(Letter) /\ m \in 0 .. Len(p)
        /\ q = real \o SubSeq(p, m + 1, Len(p))
    BY <1>1, <1>2, <1>3
  <2> HIDE DEF m
  <2>2. q \in Seq(Letter) /\ Continues(q, real, p, m)
    BY <2>1, LastLetters
  <2> QED BY <2>2 DEF m, Continues
<1>5. q[Len(q)] # "/"
  <2>1. CASE Len(p) = Len(old)
    BY <1>1, <1>4, <2>1
  <2>2. CASE Len(p) # Len(old)
    <3>1. Len(p) - Len(old) \in 1 .. Len(p) - Len(old) /\ Len(old) + (Len(p) - Len(old)) = Len(p)
      BY <1>1, <1>2, <2>2
    <3> QED BY <1>1, <1>4, <3>1
  <2> QED BY <2>1, <2>2
<1>6. ASSUME NEW i \in 1 .. Len(q) - 1 PROVE ~(q[i] = "/" /\ q[i + 1] = "/")
  <2>1. CASE i < Len(real)
    <3>1. i \in 1 .. Len(real) /\ i + 1 \in 1 .. Len(real) /\ i \in 1 .. Len(real) - 1
      BY <1>1, <2>1
    <3> QED BY <1>4, <3>1, PathFacts
  <2>2. CASE i = Len(real)
    <3>1. i \in 1 .. Len(real)
      BY <1>1, <2>2
    <3> QED BY <1>1, <1>4, <2>2, <3>1
  <2>3. CASE i > Len(real)
    <3> DEFINE n == i - Len(real)
    <3>1. /\ n \in 1 .. Len(p) - Len(old) /\ n + 1 \in 1 .. Len(p) - Len(old)
          /\ Len(old) + n \in 1 .. Len(p) - 1
          /\ i = Len(real) + n /\ i + 1 = Len(real) + (n + 1)
          /\ Len(old) + (n + 1) = (Len(old) + n) + 1
      BY <1>1, <1>2, <1>4, <2>3
    <3> HIDE DEF n
    <3>2. q[i] = p[Len(old) + n] /\ q[i + 1] = p[(Len(old) + n) + 1]
      BY <1>4, <3>1
    <3> QED BY <3>1, <3>2, PathFacts
  <2>4. i < Len(real) \/ i = Len(real) \/ i > Len(real)
    BY <1>1
  <2> QED BY <2>1, <2>2, <2>3, <2>4
<1>7. Len(q) >= 2 /\ q[1] = "/"
  <2>1. Len(q) >= 2 /\ 1 \in 1 .. Len(real)
    BY <1>1, <1>2, <1>4
  <2> QED BY <1>1, <1>4, <2>1
<1>8. q \in Path
  BY <1>4, <1>5, <1>6, <1>7 DEF Path, Letter
<1> QED BY <1>2, <1>4, <1>8 DEF Continues

LEMMA WithSlash ==
    ASSUME NEW p \in Path
    PROVE  /\ p \o Slash \in Seq(Letter \cup {"/"}) /\ Len(p \o Slash) = Len(p) + 1
           /\ \A i \in 1 .. Len(p) : (p \o Slash)[i] = p[i]
           /\ (p \o Slash)[Len(p) + 1] = "/"
<1>1. p \in Seq(Letter \cup {"/"}) /\ Len(p) \in Nat
  <2>1. p \in Seq(Letter) /\ Len(p) \in Nat
    BY PathFacts
  <2> QED BY <2>1, SeqMonotonic
<1>2. Slash \in Seq(Letter \cup {"/"}) /\ Len(Slash) = 1 /\ Slash[1] = "/"
  BY DEF Slash
<1>3. /\ p \o Slash \in Seq(Letter \cup {"/"}) /\ Len(p \o Slash) = Len(p) + Len(Slash)
      /\ \A i \in 1 .. Len(p) + Len(Slash) :
           (p \o Slash)[i] = IF i <= Len(p) THEN p[i] ELSE Slash[i - Len(p)]
  BY <1>1, <1>2, ConcatProperties
<1>4. \A i \in 1 .. Len(p) : i \in 1 .. Len(p) + Len(Slash) /\ i <= Len(p)
  BY <1>1, <1>2
<1>5. /\ Len(p) + 1 \in 1 .. Len(p) + Len(Slash) /\ ~(Len(p) + 1 <= Len(p))
      /\ (Len(p) + 1) - Len(p) = 1
  BY <1>1, <1>2
<1> QED BY <1>2, <1>3, <1>4, <1>5

(* A path begins with another one and a slash if the other one is above it. *)
LEMMA UnderFacts ==
    ASSUME NEW p \in Path, NEW old \in Path
    PROVE  /\ IsPrefix(old \o Slash, p) <=>
                /\ Len(old) < Len(p) /\ p[Len(old) + 1] = "/"
                /\ \A i \in 1 .. Len(old) : p[i] = old[i]
           /\ IsPrefix(old \o Slash, p) <=> old # p /\ old \in Lineage(p)
           /\ IsPrefix(old \o Slash, p) =>
                /\ Len(old) \in Cuts(p) /\ SubSeq(p, 1, Len(old)) = old
                /\ IsPrefix(old, p)
<1> DEFINE from == old \o Slash
           S == Letter \cup {"/"}
           Begins == \A i \in 1 .. Len(old) : p[i] = old[i]
<1>1. /\ p \in Seq(Letter) /\ old \in Seq(Letter) /\ Len(p) \in Nat /\ Len(old) \in Nat
      /\ Len(old) >= 2
  BY PathFacts
<1>2. p \in Seq(S)
  BY <1>1, SeqMonotonic
<1>3. /\ from \in Seq(S) /\ Len(from) = Len(old) + 1 /\ from[Len(old) + 1] = "/"
      /\ \A i \in 1 .. Len(old) : from[i] = old[i]
  BY WithSlash
<1> HIDE DEF from, S
<1>4. IsPrefix(from, p) <=> Len(from) <= Len(p) /\ \A i \in 1 .. Len(from) : p[i] = from[i]
  BY <1>2, <1>3, PrefixFacts
<1>5. IsPrefix(from, p) <=> Len(old) < Len(p) /\ p[Len(old) + 1] = "/" /\ Begins
  <2>1. ASSUME IsPrefix(from, p) PROVE Len(old) < Len(p) /\ p[Len(old) + 1] = "/" /\ Begins
    <3>1. Len(old) + 1 \in 1 .. Len(from) /\ \A i \in 1 .. Len(old) : i \in 1 .. Len(from)
      BY <1>1, <1>3
    <3> QED BY <1>1, <1>3, <1>4, <2>1, <3>1
  <2>2. ASSUME Len(old) < Len(p), p[Len(old) + 1] = "/", Begins PROVE IsPrefix(from, p)
    <3>1. \A i \in 1 .. Len(from) : i \in 1 .. Len(old) \/ i = Len(old) + 1
      BY <1>1, <1>3
    <3>2. \A i \in 1 .. Len(from) : p[i] = from[i]
      BY <1>3, <2>2, <3>1
    <3> QED BY <1>1, <1>3, <1>4, <2>2, <3>2
  <2> QED BY <2>1, <2>2
<1>6. ASSUME IsPrefix(from, p)
      PROVE  /\ Len(old) \in Cuts(p) /\ SubSeq(p, 1, Len(old)) = old /\ IsPrefix(old, p)
             /\ old # p /\ old \in Lineage(p)
  <2>1. Len(old) < Len(p) /\ p[Len(old) + 1] = "/" /\ Begins
    BY <1>5, <1>6
  <2>2. Len(old) \in Cuts(p)
    BY <1>1, <2>1 DEF Cuts
  <2>3. Len(old) \in 0 .. Len(p)
    BY <1>1, <2>1
  <2>4. /\ SubSeq(p, 1, Len(old)) \in Seq(Letter) /\ Len(SubSeq(p, 1, Len(old))) = Len(old)
        /\ \A i \in 1 .. Len(old) : SubSeq(p, 1, Len(old))[i] = p[i]
    BY <1>1, <2>3, FirstLetters
  <2>5. SubSeq(p, 1, Len(old)) = old
    BY <1>1, <2>1, <2>4, SeqEqual
  <2>6. old # p
    BY <1>1, <2>1
  <2>7. old \in Lineage(p)
    BY <2>2, <2>5 DEF Lineage
  <2>8. IsPrefix(old, p)
    BY <1>1, <2>1, PrefixFacts
  <2> QED BY <2>2, <2>5, <2>6, <2>7, <2>8
<1>7. ASSUME old # p, old \in Lineage(p) PROVE IsPrefix(from, p)
  <2>1. PICK c \in Cuts(p) : old = SubSeq(p, 1, c)
    BY <1>7 DEF Lineage
  <2>2. Len(old) = c /\ \A i \in 1 .. c : old[i] = p[i]
    BY <2>1, PrefixAtCut
  <2>3. c # Len(p)
    BY <1>1, <1>7, <2>1, WholePrefix
  <2>4. c \in 2 .. Len(p) /\ p[c + 1] = "/"
    BY <2>3 DEF Cuts
  <2>5. Len(old) < Len(p)
    BY <1>1, <2>2, <2>3, <2>4
  <2> QED BY <1>5, <2>2, <2>4, <2>5
<1> QED BY <1>5, <1>6, <1>7 DEF from

(* What is under old goes under real, and keeps its place if both are one     *)
(* place (configer.c:584-596).                                                *)
LEMMA RewrittenUnder ==
    ASSUME NEW p \in Path, NEW old \in Path, NEW real \in Path, IsPrefix(old \o Slash, p),
           NEW q, q = Rewrite(p, old \o Slash, real \o Slash)
    PROVE  /\ q \in Path /\ Len(old) < Len(p) /\ Len(real) < Len(q)
           /\ Continues(q, real, p, Len(old))
           /\ IsPrefix(real \o Slash, q)
<1> DEFINE r == Rewrite(p, old, real)
           S == Letter \cup {"/"}
           to == real \o Slash
           m == Len(old) + 1
<1>1. /\ p \in Seq(Letter) /\ Len(p) \in Nat /\ Len(old) \in Nat /\ Len(real) \in Nat
      /\ Len(old) < Len(p) /\ p[Len(old) + 1] = "/" /\ IsPrefix(old, p)
  BY PathFacts, UnderFacts
<1>2. /\ r \in Path /\ r \in Seq(Letter)
      /\ Len(r) = Len(real) + (Len(p) - Len(old))
      /\ \A i \in 1 .. Len(real) : r[i] = real[i]
      /\ \A n \in 1 .. Len(p) - Len(old) : r[Len(real) + n] = p[Len(old) + n]
  <2>1. r = Rewrite(p, old, real)
    OBVIOUS
  <2> HIDE DEF r
  <2>2. IsPrefix(old, p)
    BY <1>1
  <2>3. r \in Path /\ Continues(r, real, p, Len(old))
    BY <2>1, <2>2, RewrittenPath
  <2> QED BY <2>3, PathFacts DEF Continues
<1>3. /\ to \in Seq(S) /\ Len(to) = Len(real) + 1 /\ to[Len(real) + 1] = "/"
      /\ \A i \in 1 .. Len(real) : to[i] = real[i]
  BY WithSlash
<1>4. /\ p \in Seq(S) /\ m \in 0 .. Len(p) /\ q = to \o SubSeq(p, m + 1, Len(p))
  <2>1. p \in Seq(S)
    BY <1>1, SeqMonotonic
  <2>2. m \in 0 .. Len(p)
    BY <1>1
  <2>3. Len(old \o Slash) = m
    BY WithSlash
  <2> QED BY <2>1, <2>2, <2>3 DEF Rewrite
<1>5. Len(old) \in Nat /\ m = Len(old) + 1
  BY <1>1
<1> HIDE DEF r, to, m, S
<1>6. /\ q \in Seq(S) /\ Len(q) = Len(to) + (Len(p) - m)
      /\ \A i \in 1 .. Len(to) : q[i] = to[i]
      /\ \A n \in 1 .. Len(p) - m : q[Len(to) + n] = p[m + n]
  <2>1. to \in Seq(S)
    BY <1>3
  <2>2. q \in Seq(S) /\ Continues(q, to, p, m)
    BY <1>4, <2>1, LastLetters
  <2> QED BY <2>2 DEF Continues
<1>7. Len(q) = Len(r) /\ r \in Seq(S)
  <2>1. Len(q) = Len(r)
    BY <1>1, <1>2, <1>3, <1>5, <1>6
  <2> QED BY <2>1, <1>2, SeqMonotonic DEF S
<1>8. ASSUME NEW i \in 1 .. Len(q) PROVE q[i] = r[i]
  <2>1. CASE i \in 1 .. Len(real)
    <3>1. i \in 1 .. Len(to)
      BY <1>1, <1>3, <2>1
    <3> QED BY <1>2, <1>3, <1>6, <2>1, <3>1
  <2>2. CASE i = Len(real) + 1
    <3>1. i \in 1 .. Len(to) /\ 1 \in 1 .. Len(p) - Len(old)
      BY <1>1, <1>3, <2>2
    <3> QED BY <1>1, <1>2, <1>3, <1>6, <2>2, <3>1
  <2>3. CASE i > Len(real) + 1
    <3> DEFINE n == i - Len(to)
    <3>1. /\ n \in 1 .. Len(p) - m /\ n + 1 \in 1 .. Len(p) - Len(old)
          /\ i = Len(to) + n /\ i = Len(real) + (n + 1) /\ m + n = Len(old) + (n + 1)
      BY <1>1, <1>3, <1>5, <1>6, <2>3
    <3> HIDE DEF n
    <3>2. q[i] = p[m + n] /\ r[i] = p[Len(old) + (n + 1)]
      BY <1>2, <1>6, <3>1
    <3> QED BY <3>1, <3>2
  <2> QED BY <1>1, <2>1, <2>2, <2>3
<1>9. q = r
  BY <1>6, <1>7, <1>8, SeqEqual
<1>10. Len(real) < Len(q) /\ q[Len(real) + 1] = "/"
  <2>1. 1 \in 1 .. Len(p) - Len(old)
    BY <1>1
  <2> QED BY <1>1, <1>2, <1>9, <2>1
<1>11. IsPrefix(real \o Slash, q)
  BY <1>2, <1>9, <1>10, UnderFacts
<1> QED BY <1>1, <1>2, <1>9, <1>10, <1>11 DEF Continues

LEMMA RewrittenRealpath ==
    ASSUME NEW fs, \A l \in DOMAIN fs.links : fs.links[l] \in Seq(Piece),
           NEW p \in Path, NEW old \in Path, NEW real \in Path, IsPrefix(old \o Slash, p),
           realpath(fs, real) = realpath(fs, old)
    PROVE  realpath(fs, Rewrite(p, old \o Slash, real \o Slash)) = realpath(fs, p)
<1> DEFINE q == Rewrite(p, old \o Slash, real \o Slash)
           m == Len(p) - Len(old)
<1>1. q = Rewrite(p, old \o Slash, real \o Slash)
  OBVIOUS
<1> HIDE DEF q
<1>2. /\ q \in Path /\ Len(old) < Len(p) /\ Len(real) < Len(q)
      /\ Continues(q, real, p, Len(old)) /\ IsPrefix(real \o Slash, q)
  BY <1>1, RewrittenUnder
<1>3. Len(p) \in Nat /\ Len(old) \in Nat /\ Len(real) \in Nat /\ Len(q) \in Nat
  BY <1>2, PathFacts
<1>4. m \in Nat /\ Len(p) = Len(old) + m /\ Len(q) = Len(real) + m
  BY <1>2, <1>3 DEF Continues
<1>5. \A n \in 1 .. m : q[Len(real) + n] = p[Len(old) + n]
  BY <1>2 DEF Continues
<1>6. Len(real) \in Cuts(q) /\ SubSeq(q, 1, Len(real)) = real
  BY <1>2, UnderFacts
<1>7. Len(old) \in Cuts(p) /\ SubSeq(p, 1, Len(old)) = old
  BY UnderFacts
<1> HIDE DEF m
<1> DEFINE a == Len(real)
           b == Len(old)
<1>8. a \in Cuts(q) /\ b \in Cuts(p) /\ Len(q) = a + m /\ Len(p) = b + m
      /\ \A n \in 1 .. m : q[a + n] = p[b + n]
  BY <1>4, <1>5, <1>6, <1>7
<1>9. realpath(fs, SubSeq(q, 1, a)) = realpath(fs, SubSeq(p, 1, b))
  BY <1>6, <1>7
<1> HIDE DEF a, b
<1>10. realpath(fs, q) = realpath(fs, p)
  BY <1>2, <1>4, <1>8, <1>9, RealpathTail
<1> QED BY <1>1, <1>10

(* What is above a rewritten path is above real, or rewritten as well. *)
LEMMA RewrittenLineage ==
    ASSUME NEW p \in Path, NEW old \in Path, NEW real \in Path, IsPrefix(old \o Slash, p),
           NEW x \in Lineage(Rewrite(p, old \o Slash, real \o Slash))
    PROVE  \/ x \in Lineage(real)
           \/ \E y \in Lineage(p) :
                IsPrefix(old \o Slash, y) /\ x = Rewrite(y, old \o Slash, real \o Slash)
<1> DEFINE q == Rewrite(p, old \o Slash, real \o Slash)
<1>1. q = Rewrite(p, old \o Slash, real \o Slash)
  OBVIOUS
<1>2. PICK c \in Cuts(q) : x = SubSeq(q, 1, c)
  BY DEF Lineage
<1> HIDE DEF q
<1>3. /\ q \in Path /\ Len(old) < Len(p) /\ Len(real) < Len(q)
      /\ Continues(q, real, p, Len(old)) /\ IsPrefix(real \o Slash, q)
  BY <1>1, RewrittenUnder
<1>4. /\ Len(p) \in Nat /\ Len(old) \in Nat /\ Len(real) \in Nat /\ Len(q) \in Nat
      /\ Len(old) >= 2 /\ c \in 2 .. Len(q)
      /\ Len(q) = Len(real) + (Len(p) - Len(old))
      /\ \A n \in 1 .. Len(p) - Len(old) : q[Len(real) + n] = p[Len(old) + n]
  BY <1>2, <1>3, PathFacts, CutFacts DEF Continues
<1>5. Len(real) \in Cuts(q) /\ SubSeq(q, 1, Len(real)) = real
  BY <1>3, UnderFacts
<1>6. CASE c <= Len(real)
  <2>1. Cuts(real) = {i \in Cuts(q) : i <= Len(real)}
        /\ \A i \in 0 .. Len(real) : SubSeq(real, 1, i) = SubSeq(q, 1, i)
    <3> DEFINE a == Len(real)
    <3>1. a \in Cuts(q) /\ SubSeq(q, 1, a) = real
      BY <1>5
    <3> HIDE DEF a
    <3>2. /\ Cuts(SubSeq(q, 1, a)) = {i \in Cuts(q) : i <= a}
          /\ \A i \in 0 .. a : SubSeq(SubSeq(q, 1, a), 1, i) = SubSeq(q, 1, i)
      BY <1>3, <3>1, PrefixAtCut
    <3> QED BY <3>1, <3>2 DEF a
  <2>2. c \in Cuts(real) /\ c \in 0 .. Len(real)
    BY <1>2, <1>4, <1>6, <2>1
  <2>3. x = SubSeq(real, 1, c)
    BY <1>2, <2>1, <2>2
  <2> QED BY <2>2, <2>3 DEF Lineage
<1>7. CASE c > Len(real)
  <2> DEFINE d == Len(old) + (c - Len(real))
             y == SubSeq(p, 1, d)
  <2>1. d \in 2 .. Len(p) /\ d > Len(old) /\ c = Len(real) + (d - Len(old)) /\ d \in Nat
    BY <1>3, <1>4, <1>7
  <2>2. d \in Cuts(p)
    <3>1. CASE c = Len(q)
      <4>1. d = Len(p)
        BY <1>4, <3>1
      <4> QED BY <2>1, <4>1 DEF Cuts
    <3>2. CASE c # Len(q)
      <4>1. q[c + 1] = "/"
        BY <1>2, <3>2 DEF Cuts
      <4>2. /\ (d - Len(old)) + 1 \in 1 .. Len(p) - Len(old)
            /\ Len(real) + ((d - Len(old)) + 1) = c + 1
            /\ Len(old) + ((d - Len(old)) + 1) = d + 1
        BY <1>4, <2>1, <3>2
      <4>3. p[d + 1] = "/"
        BY <1>4, <4>1, <4>2
      <4> QED BY <2>1, <4>3 DEF Cuts
    <3> QED BY <3>1, <3>2
  <2> HIDE DEF d
  <2>3. /\ y \in Path /\ Len(y) = d /\ \A i \in 1 .. d : y[i] = p[i]
    BY <2>2, PrefixAtCut
  <2>4. y \in Lineage(p)
    BY <2>2 DEF Lineage
  <2> HIDE DEF y
  <2>5. IsPrefix(old \o Slash, y)
    <3>1. p[Len(old) + 1] = "/" /\ \A i \in 1 .. Len(old) : p[i] = old[i]
      BY UnderFacts
    <3>2. Len(old) + 1 \in 1 .. d /\ \A i \in 1 .. Len(old) : i \in 1 .. d
      BY <1>4, <2>1
    <3>3. Len(old) < Len(y) /\ y[Len(old) + 1] = "/" /\ \A i \in 1 .. Len(old) : y[i] = old[i]
      BY <2>1, <2>3, <3>1, <3>2
    <3> QED BY <2>3, <3>3, UnderFacts
  <2> DEFINE z == Rewrite(y, old \o Slash, real \o Slash)
  <2>6. z = Rewrite(y, old \o Slash, real \o Slash)
    OBVIOUS
  <2> HIDE DEF z
  <2>7. z \in Path /\ Continues(z, real, y, Len(old))
    BY <2>3, <2>5, <2>6, RewrittenUnder
  <2>8. /\ x \in Path /\ Len(x) = c /\ \A i \in 1 .. c : x[i] = q[i]
    BY <1>2, <1>3, PrefixAtCut
  <2>9. Len(z) = c
    BY <1>4, <2>1, <2>3, <2>7 DEF Continues
  <2>10. ASSUME NEW i \in 1 .. c PROVE x[i] = z[i]
    <3>1. CASE i <= Len(real)
      <4>1. i \in 1 .. Len(real)
        BY <1>4, <3>1
      <4> QED BY <1>3, <2>7, <2>8, <4>1 DEF Continues
    <3>2. CASE i > Len(real)
      <4> DEFINE n == i - Len(real)
      <4>1. /\ n \in 1 .. d - Len(old) /\ n \in 1 .. Len(p) - Len(old)
            /\ Len(old) + n \in 1 .. d /\ i = Len(real) + n
        BY <1>4, <2>1, <3>2
      <4> HIDE DEF n
      <4>2. z[i] = y[Len(old) + n]
        BY <2>3, <2>7, <4>1 DEF Continues
      <4>3. y[Len(old) + n] = p[Len(old) + n] /\ q[i] = p[Len(old) + n]
        BY <1>4, <2>3, <4>1
      <4> QED BY <2>8, <4>2, <4>3
    <3> QED BY <1>4, <3>1, <3>2
  <2>11. x = z
    <3>1. x \in Seq(Letter) /\ z \in Seq(Letter)
      BY <2>7, <2>8, PathFacts
    <3> QED BY <2>8, <2>9, <2>10, <3>1, SeqEqual
  <2> QED BY <2>4, <2>5, <2>6, <2>11
<1>8. c <= Len(real) \/ c > Len(real)
  BY <1>4
<1> QED BY <1>6, <1>7, <1>8

----------------------------------------------------------------------------
(* The order of strcmp.                                                       *)

LEMMA CodeFacts ==
    ASSUME NEW p \in Path, NEW i \in Nat
    PROVE  /\ Code(p, i) \in Nat
           /\ i \in 1 .. Len(p) => Code(p, i) > 0 /\ p[i] = Letters[Code(p, i)]
           /\ i \notin 1 .. Len(p) => Code(p, i) = 0
<1>1. p \in Seq(Letter) /\ DOMAIN p = 1 .. Len(p)
  BY PathFacts
<1>2. CASE i \in 1 .. Len(p)
  <2>1. p[i] \in ToSet(Letters)
    BY <1>1, <1>2, ElementOfSeq DEF Letter
  <2>2. \E c \in DOMAIN Letters : Letters[c] = p[i]
    BY <2>1 DEF ToSet
  <2>3. DOMAIN Letters = 1 .. Len(Letters) /\ Len(Letters) \in Nat
    BY LettersAssumption, LenProperties
  <2>4. Code(p, i) = CHOOSE c \in DOMAIN Letters : Letters[c] = p[i]
    BY <1>1, <1>2 DEF Code
  <2>5. Code(p, i) \in DOMAIN Letters /\ Letters[Code(p, i)] = p[i]
    BY <2>2, <2>4
  <2> QED BY <1>2, <2>3, <2>5
<1>3. CASE i \notin 1 .. Len(p)
  BY <1>1, <1>3 DEF Code
<1> QED BY <1>2, <1>3

LEMMA BeforeIrreflexive ==
    ASSUME NEW p \in Path
    PROVE  ~Before(p, p)
<1>1. \A i \in DOMAIN p : Code(p, i) \in Nat
  BY PathFacts, CodeFacts
<1> QED BY <1>1 DEF Before

LEMMA BeforeTransitive ==
    ASSUME NEW p \in Path, NEW q \in Path, NEW r \in Path, Before(p, q), Before(q, r)
    PROVE  Before(p, r)
<1>1. PICK i \in DOMAIN q : Code(p, i) < Code(q, i) /\ \A n \in 1 .. i - 1 : Code(p, n) = Code(q, n)
  BY DEF Before
<1>2. PICK j \in DOMAIN r : Code(q, j) < Code(r, j) /\ \A n \in 1 .. j - 1 : Code(q, n) = Code(r, n)
  BY DEF Before
<1>3. i \in Nat /\ j \in Nat /\ i >= 1 /\ j >= 1
      /\ DOMAIN q = 1 .. Len(q) /\ DOMAIN r = 1 .. Len(r)
  BY PathFacts
<1>4. \A n \in Nat : Code(p, n) \in Nat /\ Code(q, n) \in Nat /\ Code(r, n) \in Nat
  BY CodeFacts
<1>5. CASE i < j
  <2>1. i \in 1 .. j - 1 /\ \A n \in 1 .. i - 1 : n \in 1 .. j - 1
    BY <1>3, <1>5
  <2>2. Code(p, i) < Code(r, i) /\ \A n \in 1 .. i - 1 : Code(p, n) = Code(r, n)
    BY <1>1, <1>2, <2>1
  <2>3. i \in DOMAIN r
    <3>1. Code(p, i) \in Nat /\ Code(r, i) \in Nat /\ Code(p, i) < Code(r, i)
      BY <1>3, <1>4, <2>2
    <3>2. Code(r, i) # 0
      BY <3>1
    <3> QED BY <1>3, <3>2, CodeFacts
  <2> QED BY <2>2, <2>3 DEF Before
<1>6. CASE j <= i
  <2>1. \A n \in 1 .. j - 1 : n \in 1 .. i - 1
    BY <1>3, <1>6
  <2>2. \A n \in 1 .. j - 1 : Code(p, n) = Code(r, n)
    BY <1>1, <1>2, <2>1
  <2>3. Code(p, j) < Code(r, j)
    <3>1. CASE j = i
      <4>1. Code(p, j) < Code(q, j)
        BY <1>1, <3>1
      <4>2. Code(q, j) < Code(r, j)
        BY <1>2
      <4>3. Code(p, j) \in Nat /\ Code(q, j) \in Nat /\ Code(r, j) \in Nat
        BY <1>3, <1>4
      <4> QED BY <4>1, <4>2, <4>3
    <3>2. CASE j # i
      <4>1. j \in 1 .. i - 1
        BY <1>3, <1>6, <3>2
      <4> QED BY <1>1, <1>2, <4>1
    <3> QED BY <3>1, <3>2
  <2> QED BY <2>2, <2>3 DEF Before
<1> QED BY <1>3, <1>5, <1>6

LEMMA BeforeTotal ==
    ASSUME NEW p \in Path, NEW q \in Path, p # q
    PROVE  Before(p, q) \/ Before(q, p)
<1> DEFINE D == {i \in Nat : i >= 1 /\ Code(p, i) # Code(q, i)}
<1>1. /\ p \in Seq(Letter) /\ q \in Seq(Letter) /\ Len(p) \in Nat /\ Len(q) \in Nat
      /\ DOMAIN p = 1 .. Len(p) /\ DOMAIN q = 1 .. Len(q)
  BY PathFacts
<1>2. D # {}
  <2>1. CASE Len(p) < Len(q)
    <3>1. Len(q) \in Nat /\ Len(q) >= 1 /\ Len(q) \in 1 .. Len(q) /\ Len(q) \notin 1 .. Len(p)
      BY <1>1, <2>1
    <3>2. Code(p, Len(q)) = 0 /\ Code(q, Len(q)) > 0
      BY <3>1, CodeFacts
    <3> QED BY <3>1, <3>2
  <2>2. CASE Len(q) < Len(p)
    <3>1. Len(p) \in Nat /\ Len(p) >= 1 /\ Len(p) \in 1 .. Len(p) /\ Len(p) \notin 1 .. Len(q)
      BY <1>1, <2>2
    <3>2. Code(q, Len(p)) = 0 /\ Code(p, Len(p)) > 0
      BY <3>1, CodeFacts
    <3> QED BY <3>1, <3>2
  <2>3. CASE Len(p) = Len(q)
    <3>1. PICK i \in 1 .. Len(p) : p[i] # q[i]
      BY <1>1, <2>3, SeqEqual
    <3>2. i \in Nat /\ i >= 1 /\ i \in 1 .. Len(q)
      BY <1>1, <2>3
    <3>3. p[i] = Letters[Code(p, i)] /\ q[i] = Letters[Code(q, i)]
      BY <3>2, CodeFacts
    <3>4. Code(p, i) # Code(q, i)
      BY <3>1, <3>3
    <3>5. i \in D
      BY <3>2, <3>4
    <3> HIDE DEF D
    <3> QED BY <3>5
  <2>4. Len(p) < Len(q) \/ Len(q) < Len(p) \/ Len(p) = Len(q)
    <3>1. Len(p) \in Nat /\ Len(q) \in Nat
      BY <1>1
    <3> QED BY <3>1
  <2> HIDE DEF D
  <2> QED BY <2>1, <2>2, <2>3, <2>4
<1>3. PICK i \in D : \A n \in D : i <= n
  <2>1. D \in SUBSET Nat
    OBVIOUS
  <2> HIDE DEF D
  <2> QED BY <1>2, <2>1, LeastIndex
<1>4. \A n \in 1 .. i - 1 : Code(p, n) = Code(q, n)
  <2>1. \A n \in 1 .. i - 1 : n \in Nat /\ n >= 1 /\ ~(i <= n)
    OBVIOUS
  <2> QED BY <1>3, <2>1
<1>5. i \in Nat /\ i >= 1 /\ Code(p, i) # Code(q, i) /\ Code(p, i) \in Nat /\ Code(q, i) \in Nat
  BY CodeFacts
<1> HIDE DEF D
<1>6. CASE Code(p, i) < Code(q, i)
  <2>1. Code(q, i) # 0
    BY <1>5, <1>6
  <2>2. i \in DOMAIN q
    BY <1>1, <1>5, <2>1, CodeFacts
  <2> QED BY <1>4, <1>6, <2>2 DEF Before
<1>7. CASE Code(q, i) < Code(p, i)
  <2>1. Code(p, i) # 0
    BY <1>5, <1>7
  <2>2. i \in DOMAIN p
    BY <1>1, <1>5, <2>1, CodeFacts
  <2> QED BY <1>4, <1>7, <2>2 DEF Before
<1> QED BY <1>5, <1>6, <1>7

(* strcmp puts what is above a path in front of it. *)
LEMMA AboveBefore ==
    ASSUME NEW p \in Path, NEW d \in Lineage(p), d # p
    PROVE  Before(d, p)
<1> DEFINE i == Len(d) + 1
<1>1. d \in Path /\ Len(d) < Len(p) /\ \A n \in 1 .. Len(d) : d[n] = p[n]
  BY LineageFacts, UnderFacts
<1>2. /\ Len(d) \in Nat /\ Len(p) \in Nat /\ DOMAIN p = 1 .. Len(p) /\ DOMAIN d = 1 .. Len(d)
      /\ i \in 1 .. Len(p) /\ i \notin 1 .. Len(d) /\ i \in Nat
  BY <1>1, PathFacts
<1>3. Code(d, i) = 0 /\ Code(p, i) > 0
  BY <1>1, <1>2, CodeFacts
<1>4. ASSUME NEW n \in 1 .. i - 1 PROVE Code(d, n) = Code(p, n)
  <2>1. n \in 1 .. Len(d) /\ n \in 1 .. Len(p)
    BY <1>1, <1>2
  <2> QED BY <1>1, <1>2, <2>1 DEF Code
<1>5. i \in DOMAIN p /\ Code(d, i) < Code(p, i)
  BY <1>2, <1>3
<1> HIDE DEF i
<1> QED BY <1>4, <1>5 DEF Before

----------------------------------------------------------------------------
(* The growing arrays.                                                        *)

(* t is s with elements of E behind it, with all of them if there was room.   *)
Grown(t, s, E, X, max) ==
    /\ t \in Seq(X)
    /\ Len(s) <= Len(t)
    /\ Len(s) <= max => Len(t) <= max
    /\ \A i \in 1 .. Len(s) : t[i] = s[i]
    /\ \A i \in Len(s) + 1 .. Len(t) : t[i] \in E
    /\ Len(t) < max => E \subseteq ToSet(t)

LEMMA SetOfSeq ==
    ASSUME NEW X, NEW s \in Seq(X)
    PROVE  ToSet(s) = {s[i] : i \in 1 .. Len(s)} /\ ToSet(s) \subseteq X
<1>1. DOMAIN s = 1 .. Len(s) /\ \A i \in 1 .. Len(s) : s[i] \in X
  BY LenProperties, ElementOfSeq
<1> QED BY <1>1 DEF ToSet

LEMMA GrownKeeps ==
    ASSUME NEW X, NEW s \in Seq(X), NEW t, NEW E, NEW max, Grown(t, s, E, X, max)
    PROVE  ToSet(s) \subseteq ToSet(t) /\ ToSet(t) \subseteq ToSet(s) \cup E
<1>1. Len(s) \in Nat /\ Len(t) \in Nat /\ t \in Seq(X) /\ Len(s) <= Len(t)
  BY LenProperties DEF Grown
<1>2. ToSet(s) = {s[i] : i \in 1 .. Len(s)} /\ ToSet(t) = {t[i] : i \in 1 .. Len(t)}
  BY <1>1, SetOfSeq
<1>3. \A i \in 1 .. Len(s) : i \in 1 .. Len(t) /\ t[i] = s[i]
  BY <1>1 DEF Grown
<1>4. \A i \in 1 .. Len(t) : i \in 1 .. Len(s) \/ i \in Len(s) + 1 .. Len(t)
  BY <1>1
<1>5. \A i \in 1 .. Len(t) : t[i] \in ToSet(s) \cup E
  <2>1. ASSUME NEW i \in 1 .. Len(t) PROVE t[i] \in ToSet(s) \cup E
    <3>1. CASE i \in 1 .. Len(s)
      BY <1>2, <1>3, <3>1
    <3>2. CASE i \in Len(s) + 1 .. Len(t)
      BY <3>2 DEF Grown
    <3> QED BY <1>4, <3>1, <3>2
  <2> QED BY <2>1
<1> QED BY <1>2, <1>3, <1>5

LEMMA GrownByNothing ==
    ASSUME NEW X, NEW s \in Seq(X), NEW max
    PROVE  Grown(s, s, {}, X, max)
<1>1. Len(s) \in Nat
  BY LenProperties
<1> QED BY <1>1 DEF Grown

LEMMA GrownTwice ==
    ASSUME NEW X, NEW s \in Seq(X), NEW t, NEW u, NEW E, NEW F, NEW max \in Nat,
           Grown(t, s, E, X, max), Grown(u, t, F, X, max)
    PROVE  Grown(u, s, E \cup F, X, max)
<1>1. /\ t \in Seq(X) /\ u \in Seq(X) /\ Len(s) <= Len(t) /\ Len(t) <= Len(u)
      /\ Len(s) <= max => Len(t) <= max
      /\ Len(t) <= max => Len(u) <= max
  BY DEF Grown
<1>2. Len(s) \in Nat /\ Len(t) \in Nat /\ Len(u) \in Nat
  BY <1>1, LenProperties
<1>3. ASSUME NEW i \in 1 .. Len(s) PROVE u[i] = s[i]
  <2>1. i \in 1 .. Len(t)
    BY <1>1, <1>2
  <2> QED BY <2>1 DEF Grown
<1>4. ASSUME NEW i \in Len(s) + 1 .. Len(u) PROVE u[i] \in E \cup F
  <2>1. CASE i <= Len(t)
    <3>1. i \in Len(s) + 1 .. Len(t) /\ i \in 1 .. Len(t)
      BY <1>1, <1>2, <2>1
    <3> QED BY <3>1 DEF Grown
  <2>2. CASE ~(i <= Len(t))
    <3>1. i \in Len(t) + 1 .. Len(u)
      BY <1>1, <1>2, <2>2
    <3> QED BY <3>1 DEF Grown
  <2> QED BY <2>1, <2>2
<1>5. ASSUME Len(u) < max PROVE E \cup F \subseteq ToSet(u)
  <2>1. Len(t) < max
    BY <1>1, <1>2, <1>5
  <2>2. E \subseteq ToSet(t) /\ F \subseteq ToSet(u)
    BY <1>5, <2>1 DEF Grown
  <2>3. ToSet(t) \subseteq ToSet(u)
    BY <1>1, GrownKeeps
  <2> QED BY <2>2, <2>3
<1>6. /\ Len(s) <= Len(u) /\ Len(s) <= max => Len(u) <= max
  BY <1>1, <1>2
<1> QED BY <1>1, <1>3, <1>4, <1>5, <1>6 DEF Grown

(* configer.c:451-465, 522-559. *)
LEMMA AddedGrown ==
    ASSUME NEW X, NEW s \in Seq(X), NEW e \in X, NEW max \in Nat
    PROVE  Grown(Added(s, e, max), s, {e}, X, max)
<1>1. Len(s) \in Nat /\ ToSet(s) = {s[i] : i \in 1 .. Len(s)}
  BY LenProperties, SetOfSeq
<1>2. CASE Contains(s, e)
  <2>1. Added(s, e, max) = s /\ e \in ToSet(s)
    BY <1>1, <1>2 DEF Added, Contains
  <2> QED BY <1>1, <2>1 DEF Grown
<1>3. CASE ~Contains(s, e) /\ Len(s) >= max
  <2>1. Added(s, e, max) = s /\ ~(Len(s) < max)
    BY <1>1, <1>3 DEF Added
  <2> QED BY <1>1, <2>1 DEF Grown
<1>4. CASE ~Contains(s, e) /\ ~(Len(s) >= max)
  <2> DEFINE t == Append(s, e)
  <2>1. Added(s, e, max) = t
    BY <1>4 DEF Added
  <2>2. /\ t \in Seq(X) /\ Len(t) = Len(s) + 1 /\ t[Len(s) + 1] = e
        /\ \A i \in 1 .. Len(s) : t[i] = s[i]
    BY AppendProperties
  <2> HIDE DEF t
  <2>3. \A i \in Len(s) + 1 .. Len(t) : i = Len(s) + 1
    BY <1>1, <2>2
  <2>4. e \in ToSet(t)
    <3>1. Len(s) + 1 \in 1 .. Len(t)
      BY <1>1, <2>2
    <3> QED BY <2>2, <3>1, SetOfSeq
  <2>5. Len(s) <= Len(t) /\ Len(t) <= max
    BY <1>1, <1>4, <2>2
  <2>6. Grown(t, s, {e}, X, max)
    BY <2>2, <2>3, <2>4, <2>5 DEF Grown
  <2> QED BY <2>1, <2>6
<1> QED BY <1>2, <1>3, <1>4

(* A loop whose every round lets an array grow. *)
LEMMA GrownLoop ==
    ASSUME NEW N \in Nat, NEW X, NEW f, NEW Es, NEW max \in Nat,
           \A n \in 0 .. N : f[n] \in Seq(X),
           \A n \in 1 .. N : Grown(f[n], f[n - 1], Es[n], X, max)
    PROVE  Grown(f[N], f[0], UNION {Es[i] : i \in 1 .. N}, X, max)
<1> DEFINE E(n) == UNION {Es[i] : i \in 1 .. n}
           D == {n \in 0 .. N : Grown(f[n], f[0], E(n), X, max)}
<1>1. 0 \in D
  <2>1. E(0) = {} /\ f[0] \in Seq(X)
    OBVIOUS
  <2>2. Grown(f[0], f[0], {}, X, max)
    BY <2>1, GrownByNothing
  <2> HIDE DEF E
  <2>3. Grown(f[0], f[0], E(0), X, max)
    BY <2>1, <2>2
  <2> QED BY <2>3
<1>2. ASSUME NEW n \in 1 .. N, n - 1 \in D PROVE n \in D
  <2>1. Grown(f[n - 1], f[0], E(n - 1), X, max) /\ f[0] \in Seq(X)
    BY <1>2
  <2>2. Grown(f[n], f[n - 1], Es[n], X, max)
    OBVIOUS
  <2>3. E(n) = E(n - 1) \cup Es[n]
    <3>1. 1 .. n = (1 .. n - 1) \cup {n}
      OBVIOUS
    <3> QED BY <3>1
  <2> HIDE DEF E
  <2> DEFINE s == f[0]
             t == f[n - 1]
             u == f[n]
             A == E(n - 1)
             B == Es[n]
  <2>5. s \in Seq(X) /\ Grown(t, s, A, X, max) /\ Grown(u, t, B, X, max)
    BY <2>1, <2>2
  <2> HIDE DEF s, t, u, A, B
  <2>6. Grown(u, s, A \cup B, X, max)
    BY <2>5, GrownTwice
  <2>7. Grown(f[n], f[0], E(n), X, max)
    BY <2>3, <2>6 DEF s, u, A, B
  <2> QED BY <2>7
<1> HIDE DEF D
<1>3. 0 .. N \subseteq D
  BY <1>1, <1>2, UpTo
<1>4. N \in D
  BY <1>3
<1> QED BY <1>4 DEF D

LEMMA AddedAllGrown ==
    ASSUME NEW X, NEW s \in Seq(X), NEW es \in Seq(X), NEW max \in Nat
    PROVE  Grown(AddedAll(s, es, max), s, ToSet(es), X, max)
<1> DEFINE added[n \in 0 .. Len(es)] == IF n = 0 THEN s ELSE Added(added[n - 1], es[n], max)
           N == Len(es)
           Y == Seq(X)
           F == [n \in 1 .. N |-> [x \in Y |-> Added(x, es[n], max)]]
<1>1. AddedAll(s, es, max) = added[N]
  BY DEF AddedAll
<1>2. N \in Nat /\ s \in Y /\ \A n \in 1 .. N : es[n] \in X
  BY LenProperties, ElementOfSeq
<1>3. ASSUME NEW n \in 1 .. N, NEW x \in Y PROVE Added(x, es[n], max) \in Y
  BY <1>2, AddedGrown DEF Grown
<1>4. F \in [1 .. N -> [Y -> Y]] /\ \A n \in 1 .. N : \A x \in Y : F[n][x] = Added(x, es[n], max)
  BY <1>3
<1> HIDE DEF F, added, N, Y
<1>5. PICK f : IsLoop(f, N, Y, s, F)
  BY <1>2, <1>4, LoopExists
<1>6. /\ f \in [0 .. N -> Y] /\ f[0] = s
      /\ \A n \in 1 .. N : f[n] = Added(f[n - 1], es[n], max)
  <2>1. f \in [0 .. N -> Y] /\ f[0] = s /\ \A n \in 1 .. N : f[n] = F[n][f[n - 1]]
    BY <1>5 DEF IsLoop
  <2>2. \A n \in 1 .. N : n - 1 \in 0 .. N
    BY <1>2
  <2> QED BY <1>4, <2>1, <2>2
<1>7. f = [n \in 0 .. N |-> IF n = 0 THEN s ELSE Added(f[n - 1], es[n], max)]
  <2>1. \A n \in 0 .. N : n = 0 \/ n \in 1 .. N
    BY <1>2
  <2>2. \A n \in 0 .. N : f[n] = IF n = 0 THEN s ELSE Added(f[n - 1], es[n], max)
    BY <1>6, <2>1
  <2> QED BY <1>6, <2>2
<1>8. added = [n \in 0 .. N |-> IF n = 0 THEN s ELSE Added(added[n - 1], es[n], max)]
  BY <1>7 DEF added, N
<1>9. added[0] = s /\ \A n \in 1 .. N : added[n] = Added(added[n - 1], es[n], max)
  <2>1. 0 \in 0 .. N /\ \A n \in 1 .. N : n # 0 /\ n \in 0 .. N
    BY <1>2
  <2>2. \A n \in 0 .. N : added[n] = IF n = 0 THEN s ELSE Added(added[n - 1], es[n], max)
    BY <1>8
  <2> QED BY <2>1, <2>2
<1>10. 0 .. N \subseteq {n \in 0 .. N : added[n] \in Y}
  <2> DEFINE D == {n \in 0 .. N : added[n] \in Y}
  <2>1. 0 \in D
    BY <1>2, <1>9
  <2>2. \A n \in 1 .. N : n - 1 \in D => n \in D
    BY <1>2, <1>3, <1>9
  <2> HIDE DEF D
  <2>3. 0 .. N \subseteq D
    BY <1>2, <2>1, <2>2, UpTo
  <2> QED BY <2>3 DEF D
<1> DEFINE Es == [n \in 1 .. N |-> {es[n]}]
<1>11. ASSUME NEW n \in 1 .. N PROVE Grown(added[n], added[n - 1], Es[n], X, max)
  <2>1. n - 1 \in 0 .. N /\ Es[n] = {es[n]}
    BY <1>2
  <2>2. added[n - 1] \in Seq(X) /\ es[n] \in X
    BY <1>2, <1>10, <2>1 DEF Y
  <2>3. Grown(Added(added[n - 1], es[n], max), added[n - 1], {es[n]}, X, max)
    BY <2>2, AddedGrown
  <2> QED BY <1>9, <2>1, <2>3
<1>12. UNION {Es[i] : i \in 1 .. N} = ToSet(es)
  <2>1. ToSet(es) = {es[i] : i \in 1 .. N}
    BY SetOfSeq DEF N
  <2> QED BY <2>1
<1> HIDE DEF Es
<1>13. Grown(added[N], added[0], UNION {Es[i] : i \in 1 .. N}, X, max)
  <2>1. \A n \in 0 .. N : added[n] \in Seq(X)
    BY <1>10 DEF Y
  <2> QED BY <1>2, <1>11, <2>1, GrownLoop
<1> QED BY <1>1, <1>9, <1>12, <1>13

LEMMA ListedFacts ==
    ASSUME NEW path, Trimmed(path) \in Path \cup {Slash}
    PROVE  Listed(path) \in Path \cup {Slash}
<1> QED BY ParentFacts, SlashParent DEF Listed

(* configer.c:470-517. *)
LEMMA DirectoryGrown ==
    ASSUME NEW ds \in Seq(Path), NEW path, Trimmed(path) \in Path \cup {Slash}
    PROVE  Grown(add_directory_with_parents(ds, path), ds, Lineage(Listed(path)), Path, MAX_DIRECTORIES)
<1> DEFINE dir == Listed(path)
           added[n \in 0 .. Len(dir)] ==
             LET i == Len(dir) + 1 - n IN
               IF n = 0 THEN ds
               ELSE IF i \in Cuts(dir) THEN Added(added[n - 1], SubSeq(dir, 1, i), MAX_DIRECTORIES)
               ELSE added[n - 1]
           N == Len(dir)
           Y == Seq(Path)
           At(n) == Len(dir) + 1 - n
           G(n, x) == IF At(n) \in Cuts(dir) THEN Added(x, SubSeq(dir, 1, At(n)), MAX_DIRECTORIES)
                      ELSE x
           F == [n \in 1 .. N |-> [x \in Y |-> G(n, x)]]
<1>1. add_directory_with_parents(ds, path) = added[N]
  BY DEF add_directory_with_parents
<1>2. dir = Listed(path) /\ dir \in Path \cup {Slash}
  BY ListedFacts
<1>3. MAX_DIRECTORIES \in Nat
  BY BoundsAssumption
<1> HIDE DEF dir, added, N
<1>4. N \in Nat /\ ds \in Y
  <2>1. Len(Slash) = 1
    BY DEF Slash
  <2> QED BY <1>2, <2>1, PathFacts DEF N
<1>5. ASSUME NEW i \in Cuts(dir)
      PROVE  SubSeq(dir, 1, i) \in Path /\ i \in 1 .. N
  <2>1. dir \in Path
    BY <1>2, <1>5, SlashParent
  <2> QED BY <2>1, <1>5, PrefixAtCut, CutFacts DEF N
<1>6. ASSUME NEW n \in 1 .. N, NEW x \in Y
      PROVE  /\ G(n, x) \in Y
             /\ Grown(G(n, x), x, {SubSeq(dir, 1, i) : i \in Cuts(dir) \cap {At(n)}}, Path, MAX_DIRECTORIES)
  <2>1. CASE At(n) \in Cuts(dir)
    <3> DEFINE d == SubSeq(dir, 1, At(n))
    <3>1. d \in Path /\ {SubSeq(dir, 1, i) : i \in Cuts(dir) \cap {At(n)}} = {d}
      BY <1>5, <2>1
    <3>2. G(n, x) = Added(x, d, MAX_DIRECTORIES)
      BY <2>1
    <3> HIDE DEF d
    <3>3. Grown(Added(x, d, MAX_DIRECTORIES), x, {d}, Path, MAX_DIRECTORIES)
      BY <1>3, <3>1, AddedGrown
    <3> HIDE DEF G, At
    <3>4. G(n, x) \in Y
      BY <3>2, <3>3 DEF Grown
    <3> QED BY <3>1, <3>2, <3>3, <3>4
  <2>2. CASE At(n) \notin Cuts(dir)
    <3>1. G(n, x) = x /\ {SubSeq(dir, 1, i) : i \in Cuts(dir) \cap {At(n)}} = {}
      BY <2>2
    <3>2. Grown(x, x, {}, Path, MAX_DIRECTORIES)
      BY GrownByNothing
    <3> HIDE DEF G, At
    <3> QED BY <3>1, <3>2
  <2> QED BY <2>1, <2>2
<1>7. F \in [1 .. N -> [Y -> Y]] /\ \A n \in 1 .. N : \A x \in Y : F[n][x] = G(n, x)
  <2> HIDE DEF G
  <2> QED BY <1>6
<1> HIDE DEF F, Y, G
<1>8. PICK f : IsLoop(f, N, Y, ds, F)
  BY <1>4, <1>7, LoopExists
<1>9. /\ f \in [0 .. N -> Y] /\ f[0] = ds
      /\ \A n \in 1 .. N : f[n] = G(n, f[n - 1])
  <2>1. f \in [0 .. N -> Y] /\ f[0] = ds /\ \A n \in 1 .. N : f[n] = F[n][f[n - 1]]
    BY <1>8 DEF IsLoop
  <2>2. \A n \in 1 .. N : n - 1 \in 0 .. N
    BY <1>4
  <2> QED BY <1>7, <2>1, <2>2
<1>10. f = [n \in 0 .. N |-> IF n = 0 THEN ds ELSE G(n, f[n - 1])]
  <2>1. \A n \in 0 .. N : n = 0 \/ n \in 1 .. N
    BY <1>4
  <2>2. \A n \in 0 .. N : f[n] = IF n = 0 THEN ds ELSE G(n, f[n - 1])
    BY <1>9, <2>1
  <2> QED BY <1>9, <2>2
<1>11. added = [n \in 0 .. N |-> IF n = 0 THEN ds ELSE G(n, added[n - 1])]
  BY <1>10 DEF added, N, G
<1>12. added[0] = ds /\ \A n \in 1 .. N : added[n] = G(n, added[n - 1])
  <2>1. 0 \in 0 .. N /\ \A n \in 1 .. N : n # 0 /\ n \in 0 .. N
    BY <1>4
  <2>2. \A n \in 0 .. N : added[n] = IF n = 0 THEN ds ELSE G(n, added[n - 1])
    BY <1>11
  <2> QED BY <2>1, <2>2
<1>13. 0 .. N \subseteq {n \in 0 .. N : added[n] \in Y}
  <2> DEFINE D == {n \in 0 .. N : added[n] \in Y}
  <2>1. 0 \in D
    BY <1>4, <1>12
  <2>2. ASSUME NEW n \in 1 .. N, n - 1 \in D PROVE n \in D
    <3>1. added[n - 1] \in Y /\ n \in 0 .. N
      BY <1>4, <2>2
    <3>2. G(n, added[n - 1]) \in Y
      BY <1>6, <3>1
    <3> QED BY <1>12, <3>1, <3>2
  <2> HIDE DEF D
  <2>3. 0 .. N \subseteq D
    BY <1>4, <2>1, <2>2, UpTo
  <2> QED BY <2>3 DEF D
<1> DEFINE Es == [n \in 1 .. N |-> {SubSeq(dir, 1, i) : i \in Cuts(dir) \cap {At(n)}}]
<1>14. ASSUME NEW n \in 1 .. N PROVE Grown(added[n], added[n - 1], Es[n], Path, MAX_DIRECTORIES)
  <2>1. n - 1 \in 0 .. N /\ Es[n] = {SubSeq(dir, 1, i) : i \in Cuts(dir) \cap {At(n)}}
    BY <1>4
  <2>2. added[n - 1] \in Y
    BY <1>13, <2>1
  <2> HIDE DEF Es, At
  <2> QED BY <1>6, <1>12, <2>1, <2>2
<1>15. UNION {Es[i] : i \in 1 .. N} = Lineage(dir)
  <2>1. ASSUME NEW i \in Cuts(dir) PROVE \E n \in 1 .. N : At(n) = i
    <3>1. N + 1 - i \in 1 .. N /\ At(N + 1 - i) = i
      BY <1>4, <1>5 DEF N
    <3> QED BY <3>1
  <2>2. Lineage(dir) \subseteq UNION {Es[i] : i \in 1 .. N}
    <3>1. ASSUME NEW d \in Lineage(dir) PROVE d \in UNION {Es[i] : i \in 1 .. N}
      <4>1. PICK i \in Cuts(dir) : d = SubSeq(dir, 1, i)
        BY DEF Lineage
      <4>2. PICK n \in 1 .. N : At(n) = i
        BY <2>1
      <4>3. d \in Es[n]
        BY <4>1, <4>2
      <4> HIDE DEF Es
      <4> QED BY <4>3
    <3> QED BY <3>1
  <2>3. UNION {Es[i] : i \in 1 .. N} \subseteq Lineage(dir)
    BY DEF Lineage
  <2> QED BY <2>2, <2>3
<1> HIDE DEF Es
<1>16. Grown(added[N], added[0], UNION {Es[i] : i \in 1 .. N}, Path, MAX_DIRECTORIES)
  <2>1. \A n \in 0 .. N : added[n] \in Seq(Path)
    BY <1>13 DEF Y
  <2> QED BY <1>4, <1>3, <1>14, <2>1, GrownLoop
<1> QED BY <1>2, <1>1, <1>12, <1>15, <1>16

(* A sequence of paths as the configuration has them. *)
Trimmable(paths) == \A n \in 1 .. Len(paths) : Trimmed(paths[n]) \in Path \cup {Slash}

LEMMA DirectoriesGrown ==
    ASSUME NEW ds \in Seq(Path), NEW paths, Len(paths) \in Nat, Trimmable(paths)
    PROVE  Grown(AddDirectories(ds, paths), ds,
                 UNION {Lineage(Listed(paths[i])) : i \in 1 .. Len(paths)}, Path, MAX_DIRECTORIES)
<1> DEFINE added[n \in 0 .. Len(paths)] ==
             IF n = 0 THEN ds ELSE add_directory_with_parents(added[n - 1], paths[n])
           N == Len(paths)
           Y == Seq(Path)
           G(n, x) == add_directory_with_parents(x, paths[n])
           E(n) == Lineage(Listed(paths[n]))
           F == [n \in 1 .. N |-> [x \in Y |-> G(n, x)]]
<1>1. AddDirectories(ds, paths) = added[N]
  BY DEF AddDirectories
<1>2. MAX_DIRECTORIES \in Nat
  BY BoundsAssumption
<1> HIDE DEF added
<1>3. N \in Nat /\ ds \in Y
  OBVIOUS
<1>4. ASSUME NEW n \in 1 .. N, NEW x \in Y
      PROVE  G(n, x) \in Y /\ Grown(G(n, x), x, E(n), Path, MAX_DIRECTORIES)
  <2>1. Trimmed(paths[n]) \in Path \cup {Slash}
    BY DEF Trimmable
  <2>2. Grown(G(n, x), x, E(n), Path, MAX_DIRECTORIES)
    BY <2>1, DirectoryGrown
  <2> HIDE DEF G, E
  <2> QED BY <2>2 DEF Grown
<1>5. F \in [1 .. N -> [Y -> Y]] /\ \A n \in 1 .. N : \A x \in Y : F[n][x] = G(n, x)
  <2> HIDE DEF G, N
  <2> QED BY <1>4
<1> HIDE DEF F, Y, G, N, E
<1>6. PICK f : IsLoop(f, N, Y, ds, F)
  BY <1>3, <1>5, LoopExists
<1>7. /\ f \in [0 .. N -> Y] /\ f[0] = ds
      /\ \A n \in 1 .. N : f[n] = G(n, f[n - 1])
  <2>1. f \in [0 .. N -> Y] /\ f[0] = ds /\ \A n \in 1 .. N : f[n] = F[n][f[n - 1]]
    BY <1>6 DEF IsLoop
  <2>2. \A n \in 1 .. N : n - 1 \in 0 .. N
    BY <1>3
  <2> QED BY <1>5, <2>1, <2>2
<1>8. f = [n \in 0 .. N |-> IF n = 0 THEN ds ELSE G(n, f[n - 1])]
  <2>1. \A n \in 0 .. N : n = 0 \/ n \in 1 .. N
    BY <1>3
  <2>2. \A n \in 0 .. N : f[n] = IF n = 0 THEN ds ELSE G(n, f[n - 1])
    BY <1>7, <2>1
  <2> QED BY <1>7, <2>2
<1>9. added = [n \in 0 .. N |-> IF n = 0 THEN ds ELSE G(n, added[n - 1])]
  BY <1>8 DEF added, N, G
<1>10. added[0] = ds /\ \A n \in 1 .. N : added[n] = G(n, added[n - 1])
  <2>1. 0 \in 0 .. N /\ \A n \in 1 .. N : n # 0 /\ n \in 0 .. N
    BY <1>3
  <2>2. \A n \in 0 .. N : added[n] = IF n = 0 THEN ds ELSE G(n, added[n - 1])
    BY <1>9
  <2> QED BY <2>1, <2>2
<1>11. 0 .. N \subseteq {n \in 0 .. N : added[n] \in Y}
  <2> DEFINE D == {n \in 0 .. N : added[n] \in Y}
  <2>1. 0 \in D
    BY <1>3, <1>10
  <2>2. ASSUME NEW n \in 1 .. N, n - 1 \in D PROVE n \in D
    <3>1. added[n - 1] \in Y /\ n \in 0 .. N
      BY <1>3, <2>2
    <3>2. G(n, added[n - 1]) \in Y
      BY <1>4, <3>1
    <3> QED BY <1>10, <3>1, <3>2
  <2> HIDE DEF D
  <2>3. 0 .. N \subseteq D
    BY <1>3, <2>1, <2>2, UpTo
  <2> QED BY <2>3 DEF D
<1> DEFINE Es == [n \in 1 .. N |-> E(n)]
<1>12. ASSUME NEW n \in 1 .. N PROVE Grown(added[n], added[n - 1], Es[n], Path, MAX_DIRECTORIES)
  <2>1. n - 1 \in 0 .. N /\ Es[n] = E(n)
    BY <1>3
  <2>2. added[n - 1] \in Y
    BY <1>11, <2>1
  <2> HIDE DEF Es
  <2> QED BY <1>4, <1>10, <2>1, <2>2
<1>13. UNION {Es[i] : i \in 1 .. N} = UNION {E(i) : i \in 1 .. N}
  OBVIOUS
<1> HIDE DEF Es
<1>14. Grown(added[N], added[0], UNION {Es[i] : i \in 1 .. N}, Path, MAX_DIRECTORIES)
  <2>1. \A n \in 0 .. N : added[n] \in Seq(Path)
    BY <1>11 DEF Y
  <2> QED BY <1>2, <1>3, <1>12, <2>1, GrownLoop
<1>15. Grown(added[N], ds, UNION {E(i) : i \in 1 .. N}, Path, MAX_DIRECTORIES)
  BY <1>10, <1>13, <1>14
<1> QED BY <1>1, <1>15 DEF E, N

----------------------------------------------------------------------------
(* The sorted arrays.                                                         *)

(* f has the elements of S by their paths, in the order of strcmp. *)
InKeyOrder(f, S, key) ==
    /\ f \in Seq(S) /\ Len(f) = Cardinality(S) /\ ToSet(f) = S
    /\ \A i, j \in 1 .. Len(f) : i < j => Before(key[f[i]], key[f[j]])

LEMMA KeyedOrder ==
    ASSUME NEW S, IsFiniteSet(S), NEW key \in [S -> Path], \A x, y \in S : key[x] = key[y] => x = y,
           NEW f, f = [i \in 1 .. Cardinality(S) |-> f[i]],
           \A i \in 1 .. Cardinality(S) : \A e \in S :
              Cardinality({x \in S : Before(key[x], key[e])}) = i - 1 =>
                 f[i] \in S /\ Cardinality({x \in S : Before(key[x], key[f[i]])}) = i - 1
    PROVE  InKeyOrder(f, S, key)
<1> DEFINE R == {xy \in S \X S : Before(key[xy[1]], key[xy[2]])}
<1>1. \A x, y \in S : <<x, y>> \in R <=> Before(key[x], key[y])
  OBVIOUS
<1> HIDE DEF R
<1>2. \A x \in S : <<x, x>> \notin R
  BY <1>1, BeforeIrreflexive
<1>3. ASSUME NEW x \in S, NEW y \in S, NEW z \in S, <<x, y>> \in R, <<y, z>> \in R
      PROVE  <<x, z>> \in R
  <2>1. key[x] \in Path /\ key[y] \in Path /\ key[z] \in Path
    OBVIOUS
  <2>2. Before(key[x], key[z])
    BY <1>1, <1>3, <2>1, BeforeTransitive
  <2> QED BY <1>1, <2>2
<1>4. ASSUME NEW x \in S, NEW y \in S, x # y PROVE <<x, y>> \in R \/ <<y, x>> \in R
  <2>1. key[x] \in Path /\ key[y] \in Path /\ key[x] # key[y]
    BY <1>4
  <2>2. Before(key[x], key[y]) \/ Before(key[y], key[x])
    BY <2>1, BeforeTotal
  <2> QED BY <1>1, <2>2
<1>5. \A e \in S : {x \in S : <<x, e>> \in R} = {x \in S : Before(key[x], key[e])}
  BY <1>1
<1>6. IsRanking(f, S, R)
  BY <1>5 DEF IsRanking
<1>7. /\ f \in Seq(S) /\ Len(f) = Cardinality(S) /\ ToSet(f) = S
      /\ \A i, j \in 1 .. Len(f) : i < j => <<f[i], f[j]>> \in R
  BY <1>2, <1>3, <1>4, <1>6, Ranked
<1>8. \A i \in 1 .. Len(f) : f[i] \in S
  BY <1>7, ElementOfSeq
<1> QED BY <1>1, <1>7, <1>8 DEF InKeyOrder

(* configer.c:314-343. *)
LEMMA DirectoriesInOrder ==
    ASSUME NEW S, IsFiniteSet(S), S \subseteq Path
    PROVE  InKeyOrder(InOrder(S, Before), S, [p \in S |-> p])
<1> DEFINE f == InOrder(S, Before)
           key == [p \in S |-> p]
           Chosen(i) == CHOOSE e \in S : Cardinality({x \in S : Before(x, e)}) = i - 1
<1>1. f = [i \in 1 .. Cardinality(S) |-> Chosen(i)]
  BY DEF InOrder
<1> HIDE DEF f, Chosen
<1>2. \A e \in S : {x \in S : Before(key[x], key[e])} = {x \in S : Before(x, e)}
  OBVIOUS
<1>3. key \in [S -> Path] /\ \A x, y \in S : key[x] = key[y] => x = y
  OBVIOUS
<1> HIDE DEF key
<1>4. ASSUME NEW i \in 1 .. Cardinality(S), NEW e \in S,
             Cardinality({x \in S : Before(key[x], key[e])}) = i - 1
      PROVE  f[i] \in S /\ Cardinality({x \in S : Before(key[x], key[f[i]])}) = i - 1
  <2>1. f[i] = CHOOSE d \in S : Cardinality({x \in S : Before(x, d)}) = i - 1
    BY <1>1 DEF Chosen
  <2>2. Cardinality({x \in S : Before(x, e)}) = i - 1
    BY <1>2, <1>4
  <2>3. f[i] \in S /\ Cardinality({x \in S : Before(x, f[i])}) = i - 1
    BY <2>1, <2>2
  <2> QED BY <1>2, <2>3
<1>5. f = [i \in 1 .. Cardinality(S) |-> f[i]]
  BY <1>1
<1> QED BY <1>3, <1>4, <1>5, KeyedOrder DEF f, key

(* configer.c:345-446. *)
LEMMA LinksInOrder ==
    ASSUME NEW S, IsFiniteSet(S), S \subseteq [sym : Path, dst : Path],
           \A x, y \in S : x.sym = y.sym => x = y
    PROVE  InKeyOrder(InOrder(S, LAMBDA d, e : Before(d.sym, e.sym)), S, [l \in S |-> l.sym])
<1> DEFINE f == InOrder(S, LAMBDA d, e : Before(d.sym, e.sym))
           key == [l \in S |-> l.sym]
           Chosen(i) == CHOOSE e \in S : Cardinality({x \in S : Before(x.sym, e.sym)}) = i - 1
<1>1. f = [i \in 1 .. Cardinality(S) |-> Chosen(i)]
  BY DEF InOrder
<1> HIDE DEF f, Chosen
<1>2. \A e \in S : {x \in S : Before(key[x], key[e])} = {x \in S : Before(x.sym, e.sym)}
  OBVIOUS
<1>3. key \in [S -> Path] /\ \A x, y \in S : key[x] = key[y] => x = y
  OBVIOUS
<1> HIDE DEF key
<1>4. ASSUME NEW i \in 1 .. Cardinality(S), NEW e \in S,
             Cardinality({x \in S : Before(key[x], key[e])}) = i - 1
      PROVE  f[i] \in S /\ Cardinality({x \in S : Before(key[x], key[f[i]])}) = i - 1
  <2>1. f[i] = CHOOSE d \in S : Cardinality({x \in S : Before(x.sym, d.sym)}) = i - 1
    BY <1>1 DEF Chosen
  <2>2. Cardinality({x \in S : Before(x.sym, e.sym)}) = i - 1
    BY <1>2, <1>4
  <2>3. f[i] \in S /\ Cardinality({x \in S : Before(x.sym, f[i].sym)}) = i - 1
    BY <2>1, <2>2
  <2> QED BY <1>2, <2>3
<1>5. f = [i \in 1 .. Cardinality(S) |-> f[i]]
  BY <1>1
<1> QED BY <1>3, <1>4, <1>5, KeyedOrder DEF f, key

LEMMA CopiesInOrder ==
    ASSUME NEW S, IsFiniteSet(S), S \subseteq [src : Path, dst : Path],
           \A x, y \in S : x.dst = y.dst => x = y
    PROVE  InKeyOrder(InOrder(S, LAMBDA d, e : Before(d.dst, e.dst)), S, [c \in S |-> c.dst])
<1> DEFINE f == InOrder(S, LAMBDA d, e : Before(d.dst, e.dst))
           key == [c \in S |-> c.dst]
           Chosen(i) == CHOOSE e \in S : Cardinality({x \in S : Before(x.dst, e.dst)}) = i - 1
<1>1. f = [i \in 1 .. Cardinality(S) |-> Chosen(i)]
  BY DEF InOrder
<1> HIDE DEF f, Chosen
<1>2. \A e \in S : {x \in S : Before(key[x], key[e])} = {x \in S : Before(x.dst, e.dst)}
  OBVIOUS
<1>3. key \in [S -> Path] /\ \A x, y \in S : key[x] = key[y] => x = y
  OBVIOUS
<1> HIDE DEF key
<1>4. ASSUME NEW i \in 1 .. Cardinality(S), NEW e \in S,
             Cardinality({x \in S : Before(key[x], key[e])}) = i - 1
      PROVE  f[i] \in S /\ Cardinality({x \in S : Before(key[x], key[f[i]])}) = i - 1
  <2>1. f[i] = CHOOSE d \in S : Cardinality({x \in S : Before(x.dst, d.dst)}) = i - 1
    BY <1>1 DEF Chosen
  <2>2. Cardinality({x \in S : Before(x.dst, e.dst)}) = i - 1
    BY <1>2, <1>4
  <2>3. f[i] \in S /\ Cardinality({x \in S : Before(x.dst, f[i].dst)}) = i - 1
    BY <2>1, <2>2
  <2> QED BY <1>2, <2>3
<1>5. f = [i \in 1 .. Cardinality(S) |-> f[i]]
  BY <1>1
<1> QED BY <1>3, <1>4, <1>5, KeyedOrder DEF f, key

(* Removing elements of a sequence leaves no more than there were. *)
LEMMA FewerOf ==
    ASSUME NEW X, NEW s \in Seq(X), NEW R, R \subseteq ToSet(s)
    PROVE  IsFiniteSet(R) /\ R \subseteq X /\ Cardinality(R) \in Nat /\ Cardinality(R) <= Len(s)
<1>1. Len(s) \in Nat /\ ToSet(s) = {s[i] : i \in 1 .. Len(s)} /\ ToSet(s) \subseteq X
  BY LenProperties, SetOfSeq
<1>2. IsFiniteSet(1 .. Len(s)) /\ Cardinality(1 .. Len(s)) = Len(s)
  BY <1>1, FS_Interval
<1>3. s \in Surjection(1 .. Len(s), ToSet(s))
  <2>1. s \in [1 .. Len(s) -> ToSet(s)]
    BY <1>1, LenProperties
  <2> QED BY <1>1, <2>1 DEF Surjection
<1>4. IsFiniteSet(ToSet(s)) /\ Cardinality(ToSet(s)) <= Len(s)
  BY <1>2, <1>3, FS_Surjection
<1>5. IsFiniteSet(R) /\ Cardinality(R) <= Cardinality(ToSet(s))
  BY <1>4, FS_Subset
<1>6. Cardinality(R) \in Nat /\ Cardinality(ToSet(s)) \in Nat
  BY <1>4, <1>5, FS_CardinalityType
<1> QED BY <1>1, <1>4, <1>5, <1>6

----------------------------------------------------------------------------
(* The links, applied to one another.                                         *)

(* Link m, with link l applied to both its ends. *)
Relinked(l, m) ==
    [sym |-> Rewrite(m.sym, l.sym \o Slash, l.dst \o Slash),
     dst |-> Rewrite(m.dst, l.sym \o Slash, l.dst \o Slash)]

(* The rounds of the outer loop: link n is applied to those behind it.        *)
FixRounds(f, links, Good) ==
    /\ f \in [0 .. Len(links) -> [1 .. Len(links) -> Good]]
    /\ \A j \in 1 .. Len(links) : f[0][j] = links[j]
    /\ \A n, j \in 1 .. Len(links) :
          f[n][j] = IF j <= n THEN f[n - 1][j] ELSE Relinked(f[n - 1][n], f[n - 1][j])

(* t is last without the links to themselves.                                 *)
KeptFrom(t, last, N, Good) ==
    /\ t \in Seq({l \in Good : l.sym # l.dst}) /\ Len(t) <= N
    /\ \A i \in 1 .. Len(t) : \E j \in 1 .. N : t[i] = last[j]
    /\ \A j \in 1 .. N : last[j].sym # last[j].dst => \E i \in 1 .. Len(t) : t[i] = last[j]
    /\ (\A i, j \in 1 .. N : last[i].sym # last[i].dst /\ last[j].sym # last[j].dst
                               /\ last[i].sym = last[j].sym => i = j) =>
         \A i, j \in 1 .. Len(t) : t[i].sym = t[j].sym => i = j

(* configer.c:351-420: what no link takes from another one, the loops do not  *)
(* take from any.                                                             *)
LEMMA FixedLinks ==
    ASSUME NEW Good, \A l, m \in Good : Relinked(l, m) \in Good,
           NEW links \in Seq(Good)
    PROVE  \E f : /\ FixRounds(f, links, Good)
                  /\ KeptFrom(fix_symlinks(links), f[Len(links)], Len(links), Good)
<1> DEFINE fixed[n \in 0 .. Len(links)] == IF n = 0 THEN links ELSE ApplyLink(fixed[n - 1], n)
           last == fixed[Len(links)]
           kept[n \in 0 .. Len(links)] ==
             IF n = 0 THEN <<>>
             ELSE IF last[n].sym = last[n].dst THEN kept[n - 1]
             ELSE Append(kept[n - 1], last[n])
           N == Len(links)
           Y == [1 .. N -> Good]
           F == [n \in 1 .. N |-> [x \in Y |-> ApplyLink(x, n)]]
           Kept == {l \in Good : l.sym # l.dst}
           Z == Seq(Kept)
           K(n, x) == IF last[n].sym = last[n].dst THEN x ELSE Append(x, last[n])
           L == [n \in 1 .. N |-> [x \in Z |-> K(n, x)]]
<1>1. fix_symlinks(links) = kept[N]
  BY DEF fix_symlinks
<1>2. N \in Nat /\ links \in Y
  BY LenProperties
<1> HIDE DEF kept, N
<1>3. ASSUME NEW n \in 1 .. N, NEW x \in Y PROVE ApplyLink(x, n) \in Y
  <2>1. DOMAIN x = 1 .. N /\ x[n] \in Good
    OBVIOUS
  <2>2. ApplyLink(x, n) = [j \in 1 .. N |-> IF j <= n THEN x[j] ELSE Relinked(x[n], x[j])]
    BY <2>1 DEF ApplyLink, Relinked
  <2>3. \A j \in 1 .. N : x[j] \in Good /\ Relinked(x[n], x[j]) \in Good
    BY <2>1
  <2> HIDE DEF Relinked
  <2> QED BY <2>2, <2>3
<1>4. F \in [1 .. N -> [Y -> Y]] /\ \A n \in 1 .. N : \A x \in Y : F[n][x] = ApplyLink(x, n)
  BY <1>3
<1>5. PICK f : f \in [0 .. N -> Y] /\ FixRounds(f, links, Good) /\ last = f[N]
  <2> DEFINE a == fixed
  <2> HIDE DEF F, Y, last
  <2>1. PICK f : IsLoop(f, N, Y, links, F)
    BY <1>2, <1>4, LoopExists
  <2>2. /\ f \in [0 .. N -> Y] /\ f[0] = links
        /\ \A n \in 1 .. N : f[n] = ApplyLink(f[n - 1], n)
    <3>1. f \in [0 .. N -> Y] /\ f[0] = links /\ \A n \in 1 .. N : f[n] = F[n][f[n - 1]]
      BY <2>1 DEF IsLoop
    <3>2. \A n \in 1 .. N : n - 1 \in 0 .. N
      BY <1>2
    <3> QED BY <1>4, <3>1, <3>2
  <2>3. f = [n \in 0 .. N |-> IF n = 0 THEN links ELSE ApplyLink(f[n - 1], n)]
    <3>1. \A n \in 0 .. N : n = 0 \/ n \in 1 .. N
      BY <1>2
    <3>2. \A n \in 0 .. N : f[n] = IF n = 0 THEN links ELSE ApplyLink(f[n - 1], n)
      BY <2>2, <3>1
    <3> QED BY <2>2, <3>2
  <2>4. a = [n \in 0 .. N |-> IF n = 0 THEN links ELSE ApplyLink(a[n - 1], n)]
    BY <2>3 DEF N
  <2>5. last = a[N]
    BY DEF last, N
  <2> HIDE DEF a
  <2>6. a[0] = links /\ \A n \in 1 .. N : a[n] = ApplyLink(a[n - 1], n)
    <3>1. 0 \in 0 .. N /\ \A n \in 1 .. N : n # 0 /\ n \in 0 .. N
      BY <1>2
    <3>2. \A n \in 0 .. N : a[n] = IF n = 0 THEN links ELSE ApplyLink(a[n - 1], n)
      BY <2>4
    <3> QED BY <3>1, <3>2
  <2> DEFINE D == {n \in 0 .. N : a[n] = f[n]}
  <2>7. 0 \in D
    BY <1>2, <2>2, <2>6
  <2>8. ASSUME NEW n \in 1 .. N, n - 1 \in D PROVE n \in D
    <3>1. a[n - 1] = f[n - 1] /\ n \in 0 .. N
      BY <1>2, <2>8
    <3> QED BY <2>2, <2>6, <3>1
  <2> HIDE DEF D
  <2>9. 0 .. N \subseteq D
    BY <1>2, <2>7, <2>8, UpTo
  <2>10. N \in D
    BY <1>2, <2>9
  <2>11. last = f[N]
    BY <2>5, <2>10 DEF D
  <2>12. ASSUME NEW n \in 1 .. N, NEW j \in 1 .. N
         PROVE  f[n][j] = IF j <= n THEN f[n - 1][j] ELSE Relinked(f[n - 1][n], f[n - 1][j])
    <3> DEFINE x == f[n - 1]
    <3>1. x \in [1 .. N -> Good] /\ f[n] = ApplyLink(x, n)
      <4>1. n - 1 \in 0 .. N
        BY <1>2
      <4> QED BY <2>2, <4>1 DEF Y
    <3> HIDE DEF x
    <3>2. ApplyLink(x, n) = [i \in 1 .. N |-> IF i <= n THEN x[i] ELSE Relinked(x[n], x[i])]
      BY <3>1 DEF ApplyLink, Relinked
    <3>3. f[n][j] = IF j <= n THEN x[j] ELSE Relinked(x[n], x[j])
      BY <3>1, <3>2
    <3> QED BY <3>3 DEF x
  <2>13. FixRounds(f, links, Good)
    <3>1. f \in [0 .. N -> [1 .. N -> Good]]
      BY <2>2 DEF Y
    <3>2. \A j \in 1 .. N : f[0][j] = links[j]
      BY <2>2
    <3> QED BY <2>12, <3>1, <3>2 DEF FixRounds, N
  <2> QED BY <2>2, <2>11, <2>13
<1> HIDE DEF last, F
<1>5a. last \in Y
  <2>1. N \in 0 .. N
    BY <1>2
  <2> HIDE DEF Y
  <2> QED BY <1>5, <2>1
<1>6. ASSUME NEW n \in 1 .. N, NEW x \in Z
      PROVE  K(n, x) \in Z /\ Len(K(n, x)) <= Len(x) + 1
  <2>1. last[n] \in Good /\ Len(x) \in Nat
    BY <1>5a, LenProperties
  <2>2. CASE last[n].sym = last[n].dst
    BY <2>1, <2>2
  <2>3. CASE last[n].sym # last[n].dst
    <3>1. last[n] \in Kept
      BY <2>1, <2>3
    <3>2. K(n, x) = Append(x, last[n])
      BY <2>3
    <3> HIDE DEF K, Kept
    <3> QED BY <2>1, <3>1, <3>2, AppendProperties
  <2> QED BY <2>2, <2>3
<1> HIDE DEF Kept, K
<1>7. L \in [1 .. N -> [Z -> Z]] /\ \A n \in 1 .. N : \A x \in Z : L[n][x] = K(n, x)
  BY <1>6
<1>8. <<>> \in Z
  OBVIOUS
<1> HIDE DEF L, Z
<1>9. PICK g : IsLoop(g, N, Z, <<>>, L)
  BY <1>2, <1>7, <1>8, LoopExists
<1>10. /\ g \in [0 .. N -> Z] /\ g[0] = <<>>
       /\ \A n \in 1 .. N : g[n] = K(n, g[n - 1])
  <2>1. g \in [0 .. N -> Z] /\ g[0] = <<>> /\ \A n \in 1 .. N : g[n] = L[n][g[n - 1]]
    BY <1>9 DEF IsLoop
  <2>2. \A n \in 1 .. N : n - 1 \in 0 .. N
    BY <1>2
  <2> QED BY <1>7, <2>1, <2>2
<1>11. g = [n \in 0 .. N |-> IF n = 0 THEN <<>> ELSE K(n, g[n - 1])]
  <2>1. \A n \in 0 .. N : n = 0 \/ n \in 1 .. N
    BY <1>2
  <2>2. \A n \in 0 .. N : g[n] = IF n = 0 THEN <<>> ELSE K(n, g[n - 1])
    BY <1>10, <2>1
  <2> QED BY <1>10, <2>2
<1>12. kept = [n \in 0 .. N |-> IF n = 0 THEN <<>> ELSE K(n, kept[n - 1])]
  BY <1>11 DEF kept, N, K
<1>13. kept[0] = <<>> /\ \A n \in 1 .. N : kept[n] = K(n, kept[n - 1])
  <2>1. 0 \in 0 .. N /\ \A n \in 1 .. N : n # 0 /\ n \in 0 .. N
    BY <1>2
  <2>2. \A n \in 0 .. N : kept[n] = IF n = 0 THEN <<>> ELSE K(n, kept[n - 1])
    BY <1>12
  <2> QED BY <2>1, <2>2
<1> DEFINE From(x, n) == \A i \in 1 .. Len(x) : \E j \in 1 .. n : x[i] = last[j]
           All(x, n) == \A j \in 1 .. n : last[j].sym # last[j].dst => \E i \in 1 .. Len(x) : x[i] = last[j]
           Once(x) == \A i, j \in 1 .. Len(x) : x[i].sym = x[j].sym => i = j
           Apart == \A i, j \in 1 .. N : last[i].sym # last[i].dst /\ last[j].sym # last[j].dst
                                         /\ last[i].sym = last[j].sym => i = j
<1>14. /\ kept[N] \in Z /\ Len(kept[N]) <= N /\ From(kept[N], N) /\ All(kept[N], N)
       /\ Apart => Once(kept[N])
  <2> DEFINE Sofar(x, n) == x \in Z /\ Len(x) <= n /\ From(x, n) /\ All(x, n) /\ (Apart => Once(x))
             D == {n \in 0 .. N : Sofar(kept[n], n)}
  <2>1. 0 \in D
    <3>1. Len(kept[0]) = 0
      BY <1>13
    <3> QED BY <1>2, <1>8, <1>13, <3>1
  <2> HIDE DEF Sofar
  <2>2. ASSUME NEW n \in 1 .. N, n - 1 \in D PROVE n \in D
    <3> DEFINE x == kept[n - 1]
               y == kept[n]
    <3>0. Sofar(x, n - 1) /\ n \in 0 .. N
      BY <1>2, <2>2
    <3>2. y = K(n, x)
      BY <1>13
    <3> HIDE DEF x
    <3> HIDE DEF From, All, Once, Apart
    <3>1. /\ x \in Z /\ Len(x) <= n - 1 /\ n \in 0 .. N /\ From(x, n - 1) /\ All(x, n - 1)
          /\ Apart => Once(x)
      BY <3>0 DEF Sofar
    <3>3. y \in Z /\ Len(y) <= Len(x) + 1
      BY <1>6, <3>1, <3>2
    <3>4. Len(x) \in Nat /\ Len(y) \in Nat
      BY <3>1, <3>3, LenProperties DEF Z
    <3> SUFFICES From(y, n) /\ All(y, n) /\ (Apart => Once(y))
      <4>1. Len(y) <= n
        BY <3>1, <3>3, <3>4
      <4> QED BY <3>1, <3>3, <4>1 DEF Sofar
    <3> HIDE DEF y
    <3> USE DEF From, All, Once, Apart
    <3>4a. \A j \in 1 .. n : j \in 1 .. n - 1 \/ j = n
      BY <3>1
    <3>5. CASE last[n].sym = last[n].dst
      <4>1. y = x
        BY <3>2, <3>5 DEF K
      <4>2. From(y, n)
        BY <3>1, <4>1
      <4>3. All(y, n)
        BY <3>1, <3>4a, <3>5, <4>1
      <4> QED BY <3>1, <4>1, <4>2, <4>3
    <3>6. CASE last[n].sym # last[n].dst
      <4>1. y = Append(x, last[n]) /\ last[n] \in Good /\ x \in Seq(Kept) /\ last[n] \in Kept
        BY <1>5a, <3>1, <3>2, <3>6 DEF K, Z, Y, Kept
      <4>2. Len(y) = Len(x) + 1 /\ y[Len(x) + 1] = last[n] /\ \A i \in 1 .. Len(x) : y[i] = x[i]
        <5> HIDE DEF Kept
        <5> QED BY <4>1, AppendProperties
      <4>3. \A i \in 1 .. Len(y) : i \in 1 .. Len(x) \/ i = Len(x) + 1
        BY <3>4, <4>2
      <4>4. From(y, n)
        <5>1. \A j \in 1 .. n - 1 : j \in 1 .. n
          OBVIOUS
        <5> QED BY <3>1, <4>2, <4>3, <5>1
      <4>4a. All(y, n)
        <5>1. Len(x) + 1 \in 1 .. Len(y) /\ \A i \in 1 .. Len(x) : i \in 1 .. Len(y)
          BY <3>4, <4>2
        <5> HIDE DEF K
        <5> QED BY <3>1, <3>4a, <4>2, <5>1
      <4>5. ASSUME Apart PROVE Once(y)
        <5>1. ASSUME NEW i \in 1 .. Len(x), x[i].sym = last[n].sym PROVE FALSE
          <6>1. PICK j \in 1 .. n - 1 : x[i] = last[j]
            BY <3>1, <5>1
          <6>2. last[j].sym # last[j].dst
            <7>1. x[i] \in Kept
              BY <4>1, ElementOfSeq
            <7> QED BY <6>1, <7>1 DEF Kept
          <6>3. j \in 1 .. N /\ j # n
            BY <1>2, <6>1
          <6> QED BY <3>6, <4>5, <5>1, <6>1, <6>2, <6>3
        <5> QED BY <3>1, <4>2, <4>3, <4>5, <5>1
      <4> QED BY <4>4, <4>4a, <4>5
    <3> QED BY <3>5, <3>6
  <2> HIDE DEF D
  <2> HIDE DEF From, All, Once, Apart
  <2>3. 0 .. N \subseteq D
    BY <1>2, <2>1, <2>2, UpTo
  <2>4. N \in D
    BY <1>2, <2>3
  <2> QED BY <2>4 DEF D, Sofar
<1>15. KeptFrom(kept[N], last, N, Good)
  BY <1>14 DEF KeptFrom, Z, Kept
<1> QED BY <1>1, <1>5, <1>15 DEF N

LEMMA FixedLinksFit ==
    ASSUME NEW Good, \A l, m \in Good : Relinked(l, m) \in Good,
           NEW links \in Seq(Good)
    PROVE  /\ fix_symlinks(links) \in Seq({l \in Good : l.sym # l.dst})
           /\ Len(fix_symlinks(links)) <= Len(links)
<1> DEFINE t == fix_symlinks(links)
<1> HIDE DEF t
<1>1. PICK f : KeptFrom(t, f[Len(links)], Len(links), Good)
  BY FixedLinks DEF t
<1>2. t \in Seq({l \in Good : l.sym # l.dst}) /\ Len(t) <= Len(links)
  BY <1>1 DEF KeptFrom
<1> QED BY <1>2 DEF t

LEMMA RelinkedPaths ==
    ASSUME NEW l \in [sym : Path, dst : Path], NEW m \in [sym : Path, dst : Path]
    PROVE  Relinked(l, m) \in [sym : Path, dst : Path]
<1>1. ASSUME NEW p \in Path PROVE Rewrite(p, l.sym \o Slash, l.dst \o Slash) \in Path
  <2>1. l.sym \in Path /\ l.dst \in Path
    OBVIOUS
  <2>2. CASE IsPrefix(l.sym \o Slash, p)
    BY <2>1, <2>2, RewrittenUnder
  <2>3. CASE ~IsPrefix(l.sym \o Slash, p)
    BY <2>3 DEF Rewrite
  <2> QED BY <2>2, <2>3
<1>2. m.sym \in Path /\ m.dst \in Path
  OBVIOUS
<1> QED BY <1>1, <1>2 DEF Relinked

(* Links that lead to where the host has them lead.                           *)
HostLinks(h) == {l \in [sym : Path, dst : Path] :
                   realpath(h, l.sym) = l.dst /\ l.dst \in h.dirs \cup h.files}

(* A path rewritten to itself. *)
LEMMA RewrittenToItself ==
    ASSUME NEW p \in Path, NEW old \in Path
    PROVE  Rewrite(p, old \o Slash, old \o Slash) = p
<1>1. CASE IsPrefix(old \o Slash, p)
  <2> DEFINE q == Rewrite(p, old \o Slash, old \o Slash)
             a == Len(old)
  <2>1. q \in Path /\ a < Len(p) /\ Continues(q, old, p, a)
    BY <1>1, RewrittenUnder
  <2>2. \A i \in 1 .. a : p[i] = old[i]
    BY <1>1, UnderFacts
  <2>3. /\ p \in Seq(Letter) /\ q \in Seq(Letter) /\ Len(p) \in Nat /\ Len(q) \in Nat /\ a \in Nat
    BY <2>1, PathFacts
  <2> HIDE DEF q
  <2>4. /\ Len(q) = a + (Len(p) - a)
        /\ \A i \in 1 .. a : q[i] = old[i]
        /\ \A n \in 1 .. Len(p) - a : q[a + n] = p[a + n]
    BY <2>1 DEF Continues
  <2> HIDE DEF a
  <2>5. ASSUME NEW i \in 1 .. Len(p) PROVE q[i] = p[i]
    <3>1. CASE i <= a
      <4>1. i \in 1 .. a
        BY <2>3, <3>1
      <4> QED BY <2>2, <2>4, <4>1
    <3>2. CASE i > a
      <4>1. i - a \in 1 .. Len(p) - a /\ a + (i - a) = i
        BY <2>3, <3>2
      <4>2. q[a + (i - a)] = p[a + (i - a)]
        BY <2>4, <4>1
      <4> QED BY <4>1, <4>2
    <3> QED BY <2>3, <3>1, <3>2
  <2>6. Len(q) = Len(p)
    BY <2>1, <2>3, <2>4
  <2>7. q = p
    BY <2>3, <2>5, <2>6, SeqEqual
  <2> QED BY <2>7 DEF q
<1>2. CASE ~IsPrefix(old \o Slash, p)
  BY <1>2 DEF Rewrite
<1> QED BY <1>1, <1>2

LEMMA RelinkedHostLinks ==
    ASSUME NEW h, IsHost(h), NEW l \in HostLinks(h), NEW m \in HostLinks(h)
    PROVE  Relinked(l, m) \in HostLinks(h)
<1> DEFINE old == l.sym
           real == l.dst
           Under(p) == Rewrite(p, old \o Slash, real \o Slash)
<1>1. /\ old \in Path /\ real \in Path /\ m.sym \in Path /\ m.dst \in Path
      /\ realpath(h, old) = real /\ real \in h.dirs \cup h.files
      /\ realpath(h, m.sym) = m.dst /\ m.dst \in h.dirs \cup h.files
  BY DEF HostLinks
<1>2. realpath(h, real) = real
  BY <1>1, RealpathListed
<1> HIDE DEF old, real
<1>3. realpath(h, Under(m.sym)) = m.dst
  <2>1. CASE IsPrefix(old \o Slash, m.sym)
    BY <1>1, <1>2, <2>1, HostFacts, RewrittenRealpath
  <2>2. CASE ~IsPrefix(old \o Slash, m.sym)
    BY <1>1, <2>2 DEF Rewrite
  <2> QED BY <2>1, <2>2
<1>4. Under(m.dst) = m.dst
  <2>1. CASE IsPrefix(old \o Slash, m.dst)
    <3>1. old # m.dst /\ old \in Lineage(m.dst)
      BY <1>1, <2>1, UnderFacts
    <3>2. old \in h.dirs
      BY <1>1, <3>1, HostFacts
    <3>3. realpath(h, old) = old
      BY <3>2, RealpathListed
    <3>4. old = real
      BY <1>1, <3>3
    <3> QED BY <1>1, <3>4, RewrittenToItself
  <2>2. CASE ~IsPrefix(old \o Slash, m.dst)
    BY <2>2 DEF Rewrite
  <2> QED BY <2>1, <2>2
<1>5. Relinked(l, m) = [sym |-> Under(m.sym), dst |-> Under(m.dst)]
  BY DEF Relinked, old, real
<1>6. Relinked(l, m) \in [sym : Path, dst : Path]
  BY RelinkedPaths DEF HostLinks
<1> HIDE DEF Under
<1> QED BY <1>1, <1>3, <1>4, <1>5, <1>6 DEF HostLinks

----------------------------------------------------------------------------
(* The places of links.                                                       *)

LEMMA ContinuesOnce ==
    ASSUME NEW S, NEW q \in Seq(S), NEW r \in Seq(S), NEW to \in Seq(S), NEW p \in Seq(S), NEW m \in Nat,
           m <= Len(p), Continues(q, to, p, m), Continues(r, to, p, m)
    PROVE  q = r
<1>1. Len(q) \in Nat /\ Len(r) \in Nat /\ Len(to) \in Nat /\ Len(p) \in Nat
  BY LenProperties
<1>2. /\ Len(q) = Len(to) + (Len(p) - m) /\ Len(r) = Len(to) + (Len(p) - m)
      /\ \A i \in 1 .. Len(to) : q[i] = to[i] /\ r[i] = to[i]
      /\ \A n \in 1 .. Len(p) - m : q[Len(to) + n] = p[m + n] /\ r[Len(to) + n] = p[m + n]
  BY DEF Continues
<1>3. ASSUME NEW i \in 1 .. Len(q) PROVE q[i] = r[i]
  <2>1. CASE i <= Len(to)
    BY <1>1, <1>2, <2>1
  <2>2. CASE i > Len(to)
    <3>1. i - Len(to) \in 1 .. Len(p) - m /\ Len(to) + (i - Len(to)) = i
      BY <1>1, <1>2, <2>2
    <3>2. q[Len(to) + (i - Len(to))] = r[Len(to) + (i - Len(to))]
      BY <1>2, <3>1
    <3> QED BY <3>1, <3>2
  <2> QED BY <1>1, <2>1, <2>2
<1>4. Len(q) = Len(r)
  BY <1>2
<1> QED BY <1>3, <1>4, SeqEqual

LEMMA LineageLengths ==
    ASSUME NEW p \in Path, NEW x \in Lineage(p)
    PROVE  x \in Path /\ (x = p \/ Len(x) < Len(p))
<1>1. x \in Path
  BY LineageFacts
<1> QED BY <1>1, UnderFacts

(* What is under a missing component is missing. *)
LEMMA ExistsAbove ==
    ASSUME NEW h, IsHost(h), NEW p \in Path, NEW x \in Lineage(p), realpath(h, p) # Missing
    PROVE  realpath(h, x) # Missing
<1> SUFFICES ASSUME realpath(h, x) = Missing PROVE FALSE
  OBVIOUS
<1>1. PICK c \in Cuts(p) : x = SubSeq(p, 1, c)
  BY DEF Lineage
<1>2. /\ p \in Seq(Letter) /\ Len(p) \in Nat /\ DOMAIN p = 1 .. Len(p) /\ c \in 2 .. Len(p)
      /\ Len(p) \in Cuts(p)
  BY <1>1, PathFacts, CutFacts
<1>3. PICK w : IsWalk(w, h, p) /\ realpath(h, p) = w[Len(p)]
  BY <1>2, HostFacts, WalkExists
<1>4. w[c] = Missing
  BY <1>1, <1>3, HostFacts, WalkAtCut
<1> DEFINE Lost(v) == v \in Seq(Piece) /\ Len(v) >= 1 /\ v[1] = "?"
           D == {n \in 0 .. Len(p) : n < c \/ (Lost(w[n]) /\ (n \in Cuts(p) => w[n] = Missing))}
<1>5. Missing \in Seq(Piece) /\ Len(Missing) = 1 /\ Missing[1] = "?"
  BY PathStrings DEF Missing
<1>6. Lost(Missing)
  BY <1>5
<1>7. ASSUME NEW v, Lost(v), NEW e \in Piece
      PROVE  Lost(Append(v, e)) /\ Enter(h, Append(v, e)) = Missing
  <2>1. /\ Append(v, e) \in Seq(Piece) /\ Len(Append(v, e)) = Len(v) + 1
        /\ \A i \in 1 .. Len(v) : Append(v, e)[i] = v[i]
    BY <1>7, AppendProperties
  <2>2. Len(v) \in Nat
    BY <1>7, LenProperties
  <2>3. Lost(Append(v, e))
    BY <1>7, <2>1, <2>2
  <2>4. Append(v, e) \notin Path
    <3>1. Append(v, e)[1] # "/"
      BY <2>3
    <3> QED BY <3>1, PathFacts
  <2>5. Append(v, e) \notin DOMAIN h.links \cup h.dirs \cup h.files
    BY <2>4 DEF IsHost
  <2> QED BY <2>3, <2>5 DEF Enter
<1>8. 0 \in D
  BY <1>2
<1> HIDE DEF Lost
<1>9. ASSUME NEW n \in 1 .. Len(p), n - 1 \in D PROVE n \in D
  <2>1. n \in 0 .. Len(p) /\ n - 1 \in 0 .. Len(p) /\ (n - 1 < c <=> n <= c)
    BY <1>2
  <2>2. CASE n < c
    BY <2>1, <2>2
  <2>3. CASE n = c
    <3>1. w[n] = Missing
      BY <1>4, <2>3
    <3> QED BY <1>6, <2>1, <3>1
  <2>4. CASE n > c
    <3>1. Lost(w[n - 1])
      <4>1. ~(n - 1 < c)
        BY <1>2, <2>4
      <4> QED BY <1>9, <4>1
    <3>2. p[n] \in Piece
      BY <1>2, ElementOfSeq, PathStrings
    <3>3. Lost(Append(w[n - 1], p[n])) /\ Enter(h, Append(w[n - 1], p[n])) = Missing
      BY <1>7, <3>1, <3>2
    <3>4. w[n] = IF n \in Cuts(p) THEN Enter(h, Append(w[n - 1], p[n])) ELSE Append(w[n - 1], p[n])
      BY <1>3 DEF IsWalk
    <3> QED BY <1>6, <2>1, <3>3, <3>4
  <2> QED BY <1>2, <2>2, <2>3, <2>4
<1> HIDE DEF D
<1>10. 0 .. Len(p) \subseteq D
  BY <1>2, <1>8, <1>9, UpTo
<1>11. Len(p) \in D /\ ~(Len(p) < c)
  BY <1>2, <1>10
<1>12. w[Len(p)] = Missing
  BY <1>2, <1>11 DEF D
<1> QED BY <1>3, <1>12

(* A path with no link on its way is where it leads, if it leads anywhere. *)
LEMMA NoLinkOnTheWay ==
    ASSUME NEW h, IsHost(h), NEW p \in Path, realpath(h, p) # Missing,
           \A x \in Lineage(p) : x \notin DOMAIN h.links
    PROVE  realpath(h, p) = p
<1>1. p \in Seq(Letter) /\ Len(p) \in Nat /\ DOMAIN p = 1 .. Len(p)
  BY PathFacts
<1>2. PICK w : IsWalk(w, h, p) /\ realpath(h, p) = w[Len(p)]
  BY <1>1, HostFacts, WalkExists
<1> DEFINE D == {n \in 0 .. Len(p) : w[n] = SubSeq(p, 1, n)}
<1>3. 0 \in D
  <2>1. SubSeq(p, 1, 0) = <<>>
    BY <1>1, SubSeqEmpty
  <2> QED BY <1>1, <1>2, <2>1 DEF IsWalk
<1>4. ASSUME NEW n \in 1 .. Len(p), n - 1 \in D PROVE n \in D
  <2>1. Append(w[n - 1], p[n]) = SubSeq(p, 1, n)
    BY <1>1, <1>4, PrefixAppend
  <2>2. w[n] = IF n \in Cuts(p) THEN Enter(h, SubSeq(p, 1, n)) ELSE SubSeq(p, 1, n)
    BY <1>2, <2>1 DEF IsWalk
  <2>3. ASSUME n \in Cuts(p) PROVE w[n] = SubSeq(p, 1, n)
    <3>1. SubSeq(p, 1, n) \in Lineage(p)
      BY <2>3 DEF Lineage
    <3>2. w[n] = realpath(h, SubSeq(p, 1, n))
      BY <1>2, <2>3, HostFacts, WalkAtCut
    <3>3. w[n] # Missing
      BY <3>1, <3>2, ExistsAbove
    <3>4. w[n] = Enter(h, SubSeq(p, 1, n)) /\ SubSeq(p, 1, n) \notin DOMAIN h.links
      BY <2>2, <2>3, <3>1
    <3> QED BY <3>3, <3>4 DEF Enter
  <2>4. w[n] = SubSeq(p, 1, n)
    BY <2>2, <2>3
  <2> QED BY <1>1, <2>4
<1> HIDE DEF D
<1>5. 0 .. Len(p) \subseteq D
  BY <1>1, <1>3, <1>4, UpTo
<1>6. Len(p) \in D
  BY <1>1, <1>5
<1>7. SubSeq(p, 1, Len(p)) = p
  BY <1>1, WholePrefix
<1> QED BY <1>2, <1>6, <1>7 DEF D

(* A link of the host leads where it leads: nothing above it is one. *)
LEMMA LinkLeads ==
    ASSUME NEW h, IsHost(h), NEW z \in DOMAIN h.links
    PROVE  /\ z \in Path /\ realpath(h, z) = h.links[z] /\ h.links[z] \in h.dirs \cup h.files
           /\ h.links[z] # z /\ Lineage(z) \ {z} \subseteq h.dirs
<1>1. /\ z \in Path /\ h.links[z] \in h.dirs \cup h.files /\ z \notin h.dirs \cup h.files
      /\ Lineage(z) \ {z} \subseteq h.dirs
  BY DEF IsHost
<1>2. z \in Seq(Letter) /\ Len(z) \in Nat /\ Len(z) >= 2 /\ DOMAIN z = 1 .. Len(z) /\ Len(z) \in Cuts(z)
  BY <1>1, PathFacts, CutFacts
<1>3. PICK w : IsWalk(w, h, z) /\ realpath(h, z) = w[Len(z)]
  BY <1>2, HostFacts, WalkExists
<1> DEFINE N == Len(z) - 1
           D == {n \in 0 .. N : w[n] = SubSeq(z, 1, n)}
<1>4. N \in Nat /\ Len(z) = N + 1 /\ N = Len(z) - 1
  BY <1>2
<1>5. 0 \in D
  <2>1. SubSeq(z, 1, 0) = <<>>
    BY <1>2, SubSeqEmpty
  <2> QED BY <1>3, <1>4, <2>1 DEF IsWalk
<1> HIDE DEF N
<1>6. ASSUME NEW n \in 1 .. N, n - 1 \in D PROVE n \in D
  <2>1. n \in 1 .. Len(z) /\ n \in 0 .. N /\ n < Len(z)
    BY <1>4
  <2>2. Append(w[n - 1], z[n]) = SubSeq(z, 1, n)
    BY <1>2, <1>6, <2>1, PrefixAppend
  <2>3. w[n] = IF n \in Cuts(z) THEN Enter(h, SubSeq(z, 1, n)) ELSE SubSeq(z, 1, n)
    BY <1>3, <2>1, <2>2 DEF IsWalk
  <2>4. ASSUME n \in Cuts(z) PROVE Enter(h, SubSeq(z, 1, n)) = SubSeq(z, 1, n)
    <3>1. SubSeq(z, 1, n) \in Lineage(z)
      BY <2>4 DEF Lineage
    <3>2. Len(SubSeq(z, 1, n)) = n
      BY <1>1, <2>4, PrefixAtCut
    <3>3. SubSeq(z, 1, n) \in h.dirs
      <4>1. n # Len(z)
        BY <1>2, <1>4, <2>1
      <4>2. SubSeq(z, 1, n) # z
        BY <3>2, <4>1
      <4> QED BY <1>1, <3>1, <4>2
    <3> QED BY <3>3, HostFacts DEF Enter
  <2>5. w[n] = SubSeq(z, 1, n)
    BY <2>3, <2>4
  <2> QED BY <2>1, <2>5
<1> HIDE DEF D
<1>7. 0 .. N \subseteq D
  BY <1>4, <1>5, <1>6, UpTo
<1>8. N \in D
  BY <1>4, <1>7
<1>9. w[Len(z) - 1] = SubSeq(z, 1, Len(z) - 1)
  BY <1>4, <1>8 DEF D
<1>10. Append(w[Len(z) - 1], z[Len(z)]) = z
  <2>1. Len(z) \in 1 .. Len(z)
    BY <1>2
  <2>2. Append(SubSeq(z, 1, Len(z) - 1), z[Len(z)]) = SubSeq(z, 1, Len(z))
    BY <1>2, <2>1, PrefixAppend
  <2> QED BY <1>2, <1>9, <2>2, WholePrefix
<1>11. w[Len(z)] = Enter(h, z)
  <2>1. Len(z) \in 1 .. Len(z)
    BY <1>2
  <2> QED BY <1>2, <1>3, <1>10, <2>1 DEF IsWalk
<1> QED BY <1>1, <1>3, <1>11 DEF Enter

(* What hangs in a rewritten directory. *)
LEMMA RewrittenParent ==
    ASSUME NEW p \in Path, Parent(p) \in Path, NEW real \in Path,
           NEW q, q = Rewrite(p, Parent(p) \o Slash, real \o Slash)
    PROVE  /\ IsPrefix(Parent(p) \o Slash, p) /\ q \in Path /\ Parent(q) = real
           /\ real \in Lineage(q) /\ real # q
<1> DEFINE old == Parent(p)
<1>1. old \in Path /\ old \in Lineage(p) /\ Lineage(p) = {p} \cup Lineage(old) /\ Len(old) < Len(p)
  <2>1. Slash \notin Path
    BY PathFacts DEF Slash
  <2> QED BY <2>1, ParentFacts
<1>2. q = Rewrite(p, old \o Slash, real \o Slash)
  OBVIOUS
<1> HIDE DEF old
<1>3. /\ Len(p) \in Nat /\ Len(old) \in Nat
  BY <1>1, PathFacts
<1>4. IsPrefix(old \o Slash, p)
  <2>1. old # p
    BY <1>1, <1>3
  <2> QED BY <1>1, <2>1, UnderFacts
<1>5. q \in Path /\ IsPrefix(real \o Slash, q)
  BY <1>1, <1>2, <1>4, RewrittenUnder
<1>6. real \in Lineage(q) /\ real # q
  BY <1>5, UnderFacts
<1>7. /\ Parent(q) \in Path /\ Parent(q) \in Lineage(q) /\ Lineage(q) = {q} \cup Lineage(Parent(q))
      /\ Len(Parent(q)) < Len(q)
  BY <1>5, <1>6, ParentFacts
<1>8. real \in Lineage(Parent(q)) /\ Len(Parent(q)) \in Nat /\ Len(real) \in Nat /\ Len(q) \in Nat
  BY <1>5, <1>6, <1>7, PathFacts
<1>9. CASE Parent(q) \in Lineage(real)
  <2>1. Parent(q) = real \/ Len(Parent(q)) < Len(real)
    BY <1>9, LineageLengths
  <2>2. real = Parent(q) \/ Len(real) < Len(Parent(q))
    BY <1>7, <1>8, LineageLengths
  <2>3. Parent(q) = real
    BY <1>8, <2>1, <2>2
  <2> QED BY <1>4, <1>5, <1>6, <2>3 DEF old
<1>10. CASE \E y \in Lineage(p) : IsPrefix(old \o Slash, y) /\ Parent(q) = Rewrite(y, old \o Slash, real \o Slash)
  <2>1. PICK y \in Lineage(p) : IsPrefix(old \o Slash, y) /\ Parent(q) = Rewrite(y, old \o Slash, real \o Slash)
    BY <1>10
  <2>2. y # p
    BY <1>2, <1>7, <1>8, <2>1
  <2>3. y \in Path /\ y \in Lineage(old) /\ Len(y) \in Nat
    BY <1>1, <2>1, <2>2, LineageFacts, PathFacts
  <2>4. Len(old) < Len(y)
    BY <1>1, <2>1, <2>3, UnderFacts
  <2>5. y = old \/ Len(y) < Len(old)
    BY <1>1, <2>3, LineageLengths
  <2> QED BY <1>3, <2>3, <2>4, <2>5
<1>11. \/ Parent(q) \in Lineage(real)
       \/ \E y \in Lineage(p) : IsPrefix(old \o Slash, y) /\ Parent(q) = Rewrite(y, old \o Slash, real \o Slash)
  BY <1>1, <1>2, <1>4, <1>7, RewrittenLineage
<1> QED BY <1>9, <1>10, <1>11

(* What hangs in a directory goes where the directory goes. *)
LEMMA RewrittenWithParent ==
    ASSUME NEW p \in Path, Parent(p) \in Path, NEW old \in Path, NEW real \in Path,
           IsPrefix(old \o Slash, Parent(p)),
           NEW to, to = Rewrite(Parent(p), old \o Slash, real \o Slash)
    PROVE  /\ IsPrefix(old \o Slash, p) /\ to \in Path
           /\ Rewrite(p, old \o Slash, real \o Slash) = Rewrite(p, Parent(p) \o Slash, to \o Slash)
<1> DEFINE up == Parent(p)
           q == Rewrite(p, old \o Slash, real \o Slash)
           r == Rewrite(p, up \o Slash, to \o Slash)
<1>1. up \in Path /\ up \in Lineage(p) /\ Len(up) < Len(p) /\ \A i \in 1 .. Len(up) : up[i] = p[i]
  <2>1. Slash \notin Path
    BY PathFacts DEF Slash
  <2> QED BY <2>1, ParentFacts
<1>2. IsPrefix(old \o Slash, up) /\ to = Rewrite(up, old \o Slash, real \o Slash)
  OBVIOUS
<1>3. q = Rewrite(p, old \o Slash, real \o Slash) /\ r = Rewrite(p, up \o Slash, to \o Slash)
  OBVIOUS
<1> HIDE DEF up, q, r
<1>4. to \in Path /\ Continues(to, real, up, Len(old)) /\ Len(old) < Len(up)
  BY <1>1, <1>2, RewrittenUnder
<1>5. Len(p) \in Nat /\ Len(up) \in Nat /\ Len(old) \in Nat /\ Len(real) \in Nat /\ Len(to) \in Nat
  BY <1>1, <1>4, PathFacts
<1>6. IsPrefix(old \o Slash, p) /\ IsPrefix(up \o Slash, p)
  <2>1. old # up /\ old \in Lineage(up)
    BY <1>1, <1>2, UnderFacts
  <2>2. old \in Lineage(p) /\ up # p /\ old # p
    BY <1>1, <1>4, <1>5, <2>1, LineageFacts
  <2> QED BY <1>1, <2>2, UnderFacts
<1>7. q \in Path /\ Continues(q, real, p, Len(old))
  BY <1>3, <1>6, RewrittenUnder
<1>8. r \in Path /\ Continues(r, to, p, Len(up))
  BY <1>1, <1>3, <1>4, <1>6, RewrittenUnder
<1>9. Len(to) = Len(real) + (Len(up) - Len(old)) /\ Len(q) = Len(real) + (Len(p) - Len(old))
      /\ Len(q) = Len(to) + (Len(p) - Len(up))
  BY <1>4, <1>5, <1>7 DEF Continues
<1>10. ASSUME NEW i \in 1 .. Len(to) PROVE q[i] = to[i]
  <2>1. CASE i <= Len(real)
    <3>1. i \in 1 .. Len(real)
      BY <1>5, <2>1
    <3> QED BY <1>4, <1>7, <3>1 DEF Continues
  <2>2. CASE i > Len(real)
    <3> DEFINE n == i - Len(real)
    <3>1. /\ n \in 1 .. Len(up) - Len(old) /\ n \in 1 .. Len(p) - Len(old) /\ Len(real) + n = i
          /\ Len(old) + n \in 1 .. Len(up)
      BY <1>1, <1>5, <1>9, <2>2
    <3> HIDE DEF n
    <3>2. to[Len(real) + n] = up[Len(old) + n] /\ q[Len(real) + n] = p[Len(old) + n]
      BY <1>4, <1>7, <3>1 DEF Continues
    <3> QED BY <1>1, <3>1, <3>2
  <2> QED BY <1>5, <2>1, <2>2
<1>11. ASSUME NEW n \in 1 .. Len(p) - Len(up) PROVE q[Len(to) + n] = p[Len(up) + n]
  <2> DEFINE l == (Len(up) - Len(old)) + n
  <2>1. l \in 1 .. Len(p) - Len(old) /\ Len(real) + l = Len(to) + n /\ Len(old) + l = Len(up) + n
    BY <1>4, <1>5, <1>9
  <2> HIDE DEF l
  <2>2. q[Len(real) + l] = p[Len(old) + l]
    BY <1>7, <2>1 DEF Continues
  <2> QED BY <2>1, <2>2
<1>12. Continues(q, to, p, Len(up))
  BY <1>9, <1>10, <1>11 DEF Continues
<1>13. q = r
  <2>1. /\ q \in Seq(Letter) /\ r \in Seq(Letter) /\ to \in Seq(Letter) /\ p \in Seq(Letter)
        /\ Len(up) \in Nat /\ Len(up) <= Len(p)
    BY <1>1, <1>4, <1>5, <1>7, <1>8, PathFacts
  <2> QED BY <1>8, <1>12, <2>1, ContinuesOnce
<1> QED BY <1>4, <1>6, <1>13 DEF q, r, up

(* With or without the slash, what is under old goes under real. *)
LEMMA RewrittenTail ==
    ASSUME NEW p \in Path, NEW old \in Path, NEW real \in Path, IsPrefix(old \o Slash, p)
    PROVE  Rewrite(p, old \o Slash, real \o Slash) = real \o SubSeq(p, Len(old) + 1, Len(p))
<1> DEFINE q == Rewrite(p, old \o Slash, real \o Slash)
           r == real \o SubSeq(p, Len(old) + 1, Len(p))
<1>1. q = Rewrite(p, old \o Slash, real \o Slash) /\ r = real \o SubSeq(p, Len(old) + 1, Len(p))
  OBVIOUS
<1> HIDE DEF q, r
<1>2. q \in Path /\ Len(old) < Len(p) /\ Continues(q, real, p, Len(old))
  BY <1>1, RewrittenUnder
<1>3. /\ p \in Seq(Letter) /\ q \in Seq(Letter) /\ real \in Seq(Letter) /\ Len(p) \in Nat
      /\ Len(old) \in Nat
  BY <1>2, PathFacts
<1> DEFINE m == Len(old)
<1>4. m \in Nat /\ m <= Len(p) /\ m \in 0 .. Len(p) /\ r = real \o SubSeq(p, m + 1, Len(p))
      /\ Continues(q, real, p, m)
  BY <1>1, <1>2, <1>3
<1> HIDE DEF m
<1>5. r \in Seq(Letter) /\ Continues(r, real, p, m)
  BY <1>3, <1>4, LastLetters
<1>6. q = r
  <2>1. /\ q \in Seq(Letter) /\ r \in Seq(Letter) /\ real \in Seq(Letter) /\ p \in Seq(Letter)
        /\ m \in Nat /\ m <= Len(p)
    BY <1>3, <1>4, <1>5
  <2>2. Continues(q, real, p, m) /\ Continues(r, real, p, m)
    BY <1>4, <1>5
  <2> QED BY <2>1, <2>2, ContinuesOnce
<1> QED BY <1>6 DEF q, r
(* The last step of a path, in any file system: what its directory leads to,  *)
(* with what is behind it.                                                    *)
LEMMA LastStep ==
    ASSUME NEW fs, \A l \in DOMAIN fs.links : fs.links[l] \in Seq(Piece),
           NEW y \in Path, NEW up, up = Parent(y)
    PROVE  /\ realpath(fs, y) = Enter(fs, realpath(fs, up) \o SubSeq(y, Len(up) + 1, Len(y)))
           /\ realpath(fs, Slash) = Slash
<1>1. y \in Seq(Letter) /\ Len(y) \in Nat /\ Len(y) >= 2 /\ y[1] = "/"
  BY PathFacts
<1>2. "/" \in Letter
  BY <1>1, ElementOfSeq
<1>3. Slash \in Seq(Letter) /\ Len(Slash) = 1 /\ Slash[1] = "/"
  BY <1>2 DEF Slash
<1>4. realpath(fs, Slash) = Slash
  <2>1. PICK v : IsWalk(v, fs, Slash) /\ realpath(fs, Slash) = v[Len(Slash)]
    BY <1>3, WalkExists
  <2>2. 1 \in 1 .. Len(Slash) /\ 1 \notin Cuts(Slash) /\ 1 - 1 = 0
    BY <1>3, SlashParent
  <2>3. v[0] = <<>> /\ v[1] = Append(v[0], Slash[1])
    BY <2>1, <2>2 DEF IsWalk
  <2> QED BY <1>3, <2>1, <2>3 DEF Slash
<1>5. PICK w : IsWalk(w, fs, y) /\ realpath(fs, y) = w[Len(y)]
  BY <1>1, WalkExists
<1> DEFINE a == Len(up)
           r == realpath(fs, up)
           L == Len(y)
<1>6. /\ a \in 1 .. L - 1 /\ w[a] = r /\ r \in Seq(Piece)
      /\ \A n \in a + 1 .. L - 1 : n \notin Cuts(y)
  <2>1. CASE up = Slash /\ Lineage(y) = {y}
    <3>1. a = 1 /\ r = Slash /\ Slash \in Seq(Piece)
      BY <1>3, <1>4, <2>1, PathStrings
    <3>2. ASSUME NEW n \in 1 .. L - 1 PROVE n \notin Cuts(y)
      <4>1. n \in Cuts(y) => SubSeq(y, 1, n) = y /\ Len(SubSeq(y, 1, n)) = n
        BY <2>1, PrefixAtCut DEF Lineage
      <4> QED BY <1>1, <4>1
    <3>3. w[1] = Append(w[0], y[1]) /\ w[0] = <<>>
      <4>1. 1 \in 1 .. Len(y) /\ 1 \notin Cuts(y) /\ 1 - 1 = 0
        BY <1>1, <3>2
      <4> QED BY <1>5, <4>1 DEF IsWalk
    <3>4. w[1] = Slash
      BY <1>1, <3>3 DEF Slash
    <3> HIDE DEF a, r
    <3> QED BY <1>1, <3>1, <3>2, <3>4
  <2>2. CASE /\ up \in Path /\ up \in Lineage(y) /\ Lineage(y) = {y} \cup Lineage(up)
             /\ Len(up) < Len(y)
    <3>1. PICK c \in Cuts(y) : up = SubSeq(y, 1, c)
      BY <2>2 DEF Lineage
    <3>2. c = a /\ a \in Nat /\ a >= 2
      <4>1. Len(up) = c
        BY <3>1, PrefixAtCut
      <4> QED BY <2>2, <4>1, PathFacts
    <3>3. w[a] = r
      BY <1>5, <3>1, <3>2, WalkAtCut
    <3>4. ASSUME NEW n \in a + 1 .. L - 1 PROVE n \notin Cuts(y)
      <4>1. SUFFICES ASSUME n \in Cuts(y) PROVE FALSE
        OBVIOUS
      <4>2. SubSeq(y, 1, n) \in {y} \cup Lineage(up) /\ Len(SubSeq(y, 1, n)) = n
        BY <2>2, <4>1, PrefixAtCut DEF Lineage
      <4>3. SubSeq(y, 1, n) = y \/ SubSeq(y, 1, n) = up \/ Len(SubSeq(y, 1, n)) < Len(up)
        BY <2>2, <4>2, LineageLengths
      <4> QED BY <1>1, <3>2, <4>2, <4>3
    <3>5. w[a] \in Seq(Piece)
      <4>1. a \in 0 .. Len(y)
        BY <1>1, <2>2, <3>2
      <4> QED BY <1>5, <4>1 DEF IsWalk
    <3> QED BY <1>1, <2>2, <3>2, <3>3, <3>4, <3>5
  <2> QED BY <2>1, <2>2, ParentFacts
<1> HIDE DEF a, r
<1> DEFINE m == (L - 1) - a
           D == {n \in 0 .. m : w[a + n] = r \o SubSeq(y, a + 1, a + n)}
<1>7. m \in Nat /\ a \in Nat /\ a + m = L - 1 /\ L \in Nat
  BY <1>1, <1>6
<1> HIDE DEF m
<1>8. 0 \in D
  <2>1. SubSeq(y, a + 1, a + 0) = <<>> /\ a + 0 = a
    BY <1>1, <1>7, SubSeqEmpty
  <2>2. r \o <<>> = r
    BY <1>6
  <2> QED BY <1>6, <1>7, <2>1, <2>2
<1>9. ASSUME NEW n \in 1 .. m + 1
      PROVE  Append(r \o SubSeq(y, a + 1, a + (n - 1)), y[a + n]) = r \o SubSeq(y, a + 1, a + n)
  <2>1. /\ a + n \in 1 .. Len(y) /\ a + 1 \in 1 .. Len(y) /\ a + 1 <= a + n
        /\ a + (n - 1) = (a + n) - 1 /\ y[a + n] \in Piece /\ y \in Seq(Piece)
    <3>1. a + n \in 1 .. Len(y) /\ a + 1 \in 1 .. Len(y) /\ a + 1 <= a + n /\ a + (n - 1) = (a + n) - 1
      BY <1>6, <1>7
    <3> QED BY <1>1, <3>1, ElementOfSeq, PathStrings
  <2> DEFINE e == a + n
             b == a + 1
             z == SubSeq(y, b, e - 1)
  <2>2. e \in b .. Len(y) /\ b \in 1 .. Len(y) /\ y \in Seq(Piece) /\ y[e] \in Piece /\ r \in Seq(Piece)
    BY <1>6, <1>7, <2>1
  <2>3. /\ SubSeq(y, b, e) = z \o <<y[e]>> /\ z = SubSeq(y, b, e - 1)
    BY <2>2, SubSeqRecursiveSecond
  <2>4. z \in Seq(Piece)
    <3>1. \A i \in b .. e - 1 : y[i] \in Piece
      <4>1. \A i \in b .. e - 1 : i \in 1 .. Len(y)
        BY <1>7, <2>2
      <4> QED BY <2>2, <4>1, ElementOfSeq
    <3>2. b \in Int /\ e - 1 \in Int
      BY <1>7
    <3> HIDE DEF b, e
    <3> QED BY <2>3, <3>1, <3>2, SubSeqProperties
  <2> HIDE DEF z
  <2>5. r \o z \in Seq(Piece) /\ <<y[e]>> \in Seq(Piece)
    BY <2>2, <2>4, ConcatProperties
  <2>6. Append(r \o z, y[e]) = (r \o z) \o <<y[e]>>
    BY <2>2, <2>5, AppendIsConcat
  <2>7. (r \o z) \o <<y[e]>> = r \o (z \o <<y[e]>>)
    <3> DEFINE u == <<y[e]>>
    <3>1. r \in Seq(Piece) /\ z \in Seq(Piece) /\ u \in Seq(Piece)
      BY <2>2, <2>4, <2>5
    <3> HIDE DEF u
    <3>2. (r \o z) \o u = r \o (z \o u)
      BY <3>1, ConcatAssociative
    <3> QED BY <3>2 DEF u
  <2> QED BY <2>1, <2>3, <2>6, <2>7 DEF z
<1>10. ASSUME NEW n \in 1 .. m, n - 1 \in D PROVE n \in D
  <2>1. /\ a + n \in 1 .. Len(y) /\ a + n \in a + 1 .. L - 1 /\ (a + n) - 1 = a + (n - 1)
        /\ n \in 0 .. m /\ n \in 1 .. m + 1
    BY <1>1, <1>6, <1>7
  <2>2. w[a + n] = Append(w[a + (n - 1)], y[a + n])
    BY <1>5, <1>6, <2>1 DEF IsWalk
  <2> QED BY <1>9, <1>10, <2>1, <2>2
<1> HIDE DEF D
<1>11. m \in D
  <2>1. 0 .. m \subseteq D
    BY <1>7, <1>8, <1>10, UpTo
  <2> QED BY <1>7, <2>1
<1>12. realpath(fs, y) = Enter(fs, Append(w[L - 1], y[L]))
  <2>1. L \in 1 .. Len(y) /\ L \in Cuts(y)
    BY <1>1, CutFacts
  <2> QED BY <1>5, <2>1 DEF IsWalk
<1>13. Append(w[L - 1], y[L]) = r \o SubSeq(y, a + 1, L)
  <2>1. w[L - 1] = r \o SubSeq(y, a + 1, a + m)
    BY <1>7, <1>11 DEF D
  <2>2. m + 1 \in 1 .. m + 1 /\ a + (m + 1) = L /\ (m + 1) - 1 = m
    BY <1>7
  <2> QED BY <1>9, <2>1, <2>2
<1> QED BY <1>4, <1>12, <1>13 DEF a, r

LEMMA SlashLeads ==
    ASSUME NEW h, IsHost(h), NEW p \in Path
    PROVE  realpath(h, Slash) = Slash
<1> QED BY HostFacts, LastStep

(* Where a path is once the links above it are followed: in the directory its *)
(* own directory leads to, and it leads where it led before.                  *)
PlaceIn(s, up, real) ==
    /\ up \in Path /\ real \in host.dirs \cup host.files /\ real = realpath(host, up)
    /\ IsPrefix(up \o Slash, s)
    /\ Place(s) = Rewrite(s, up \o Slash, real \o Slash)
    /\ Parent(Place(s)) = real /\ Lineage(Place(s)) = {Place(s)} \cup Lineage(real)

LEMMA PlaceFacts ==
    ASSUME IsHost(host), NEW s \in Path, realpath(host, s) # Missing
    PROVE  /\ Place(s) \in Path /\ realpath(host, Place(s)) = realpath(host, s)
           /\ \/ Parent(s) = Slash /\ Place(s) = s /\ Lineage(s) = {s}
              \/ PlaceIn(s, Parent(s), realpath(host, Parent(s)))
<1> DEFINE up == Parent(s)
           real == realpath(host, up)
<1>1. CASE up = Slash
  <2>1. Place(s) = Slash \o SubSeq(s, 1 + 1, Len(s))
    <3>1. Len(Slash) = 1
      BY DEF Slash
    <3> QED BY <1>1, <3>1, SlashLeads DEF Place
  <2>2. s \in Seq(Letter) /\ Len(s) \in Nat /\ Len(s) >= 2 /\ s[1] = "/" /\ DOMAIN s = 1 .. Len(s)
    BY PathFacts
  <2>3. Slash \in Seq(Letter) /\ Len(Slash) = 1 /\ Slash[1] = "/"
    <3>1. "/" \in Letter
      BY <2>2, ElementOfSeq
    <3> QED BY <3>1 DEF Slash
  <2> DEFINE m == 1
             q == Slash \o SubSeq(s, m + 1, Len(s))
  <2>4. m \in 0 .. Len(s) /\ q = Slash \o SubSeq(s, m + 1, Len(s)) /\ m \in Nat /\ m <= Len(s) /\ m = 1
        /\ Place(s) = q
    BY <2>1, <2>2
  <2> HIDE DEF m, q
  <2>5. q \in Seq(Letter) /\ Continues(q, Slash, s, m)
    BY <2>2, <2>3, <2>4, LastLetters
  <2>6. Continues(s, Slash, s, m)
    BY <2>2, <2>3, <2>4 DEF Continues
  <2>7. q = s
    <3>1. /\ q \in Seq(Letter) /\ s \in Seq(Letter) /\ Slash \in Seq(Letter) /\ m \in Nat /\ m <= Len(s)
      BY <2>2, <2>3, <2>4, <2>5
    <3> QED BY <2>5, <2>6, <3>1, ContinuesOnce
  <2>8. Lineage(s) = {s}
    <3>1. Slash \notin Path
      BY PathFacts DEF Slash
    <3> QED BY <1>1, <3>1, ParentFacts
  <2> QED BY <1>1, <2>4, <2>7, <2>8
<1>2. CASE up # Slash
  <2>1. up \in Path /\ up \in Lineage(s)
    BY <1>2, ParentFacts
  <2>2. real \in host.dirs \cup host.files /\ real \in Path /\ realpath(host, real) = real
    <3>1. real # Missing
      BY <2>1, ExistsAbove
    <3> QED BY <2>1, <3>1, RealpathRange
  <2> DEFINE q == Rewrite(s, up \o Slash, real \o Slash)
  <2>3. q = Rewrite(s, up \o Slash, real \o Slash) /\ up = Parent(s) /\ real = realpath(host, up)
    OBVIOUS
  <2> HIDE DEF q, up, real
  <2>4. IsPrefix(up \o Slash, s) /\ q \in Path /\ Parent(q) = real /\ real \in Lineage(q) /\ real # q
    BY <2>1, <2>2, <2>3, RewrittenParent
  <2>5. q = Place(s)
    <3>1. q = real \o SubSeq(s, Len(up) + 1, Len(s))
      <4>1. up \in Path /\ real \in Path /\ IsPrefix(up \o Slash, s)
        BY <2>1, <2>2, <2>4
      <4>2. Rewrite(s, up \o Slash, real \o Slash) = real \o SubSeq(s, Len(up) + 1, Len(s))
        BY <4>1, RewrittenTail
      <4> QED BY <2>3, <4>2
    <3>2. Place(s) = real \o SubSeq(s, Len(up) + 1, Len(s))
      BY <2>3 DEF Place
    <3> QED BY <3>1, <3>2
  <2>6. realpath(host, q) = realpath(host, s)
    BY <2>1, <2>2, <2>3, <2>4, HostFacts, RewrittenRealpath
  <2>7. Lineage(q) = {q} \cup Lineage(real)
    <3>1. Slash \notin Path
      BY PathFacts DEF Slash
    <3> QED BY <2>2, <2>4, <3>1, ParentFacts
  <2> QED BY <2>1, <2>2, <2>3, <2>4, <2>5, <2>6, <2>7 DEF PlaceIn
<1> QED BY <1>1, <1>2

(* A place is under no link. *)
LEMMA PlaceUnderNoLink ==
    ASSUME IsHost(host), NEW s \in Path, realpath(host, s) # Missing,
           NEW x \in Lineage(Place(s)), x # Place(s)
    PROVE  x \in host.dirs \cup host.files /\ realpath(host, x) = x
<1>1. CASE Parent(s) = Slash /\ Place(s) = s /\ Lineage(s) = {s}
  BY <1>1
<1>2. CASE PlaceIn(s, Parent(s), realpath(host, Parent(s)))
  <2>1. x \in Lineage(realpath(host, Parent(s))) /\ realpath(host, Parent(s)) \in host.dirs \cup host.files
    BY <1>2 DEF PlaceIn
  <2>2. x \in host.dirs \cup host.files
    BY <2>1, HostFacts
  <2> QED BY <2>2, RealpathListed
<1> QED BY <1>1, <1>2, PlaceFacts

(* A place that leads elsewhere is a link. *)
LEMMA PlaceIsLink ==
    ASSUME IsHost(host), NEW s \in Path, realpath(host, s) # Missing, realpath(host, s) # Place(s)
    PROVE  Place(s) \in DOMAIN host.links
<1>1. Place(s) \in Path /\ realpath(host, Place(s)) = realpath(host, s)
  BY PlaceFacts
<1>2. PICK z \in Lineage(Place(s)) : z \in DOMAIN host.links
  BY <1>1, NoLinkOnTheWay
<1>3. z = Place(s)
  <2>1. SUFFICES ASSUME z # Place(s) PROVE FALSE
    OBVIOUS
  <2>2. z \in host.dirs \cup host.files
    BY <2>1, PlaceUnderNoLink
  <2> QED BY <1>2, <2>2, HostFacts
<1> QED BY <1>2, <1>3

(* A link is where its place is. *)
LEMMA LinkInPlace ==
    ASSUME IsHost(host), NEW z \in DOMAIN host.links
    PROVE  Place(z) = z
<1>1. /\ z \in Path /\ realpath(host, z) # Missing /\ Lineage(z) \ {z} \subseteq host.dirs
  BY LinkLeads, HostFacts
<1>2. CASE Parent(z) = Slash /\ Place(z) = z /\ Lineage(z) = {z}
  BY <1>2
<1>3. CASE PlaceIn(z, Parent(z), realpath(host, Parent(z)))
  <2> DEFINE up == Parent(z)
  <2>1. up \in Path /\ IsPrefix(up \o Slash, z)
        /\ Place(z) = Rewrite(z, up \o Slash, realpath(host, up) \o Slash)
    BY <1>3 DEF PlaceIn
  <2> HIDE DEF up
  <2>2. up \in Lineage(z) /\ up # z
    BY <1>1, <2>1, UnderFacts
  <2>3. realpath(host, up) = up
    BY <1>1, <2>2, RealpathListed
  <2> QED BY <1>1, <2>1, <2>3, RewrittenToItself
<1> QED BY <1>1, <1>2, <1>3, PlaceFacts

(* A path under a moving one, rewritten by it, is in its place, once its      *)
(* directory is. *)
LEMMA RewrittenToPlace ==
    ASSUME IsHost(host), NEW s \in Path, realpath(host, s) # Missing, Parent(s) \in Path,
           NEW x \in Lineage(Parent(s)), NEW real, real = realpath(host, x),
           Parent(s) = x \/ ~Moves(Rewrite(Parent(s), x \o Slash, real \o Slash))
    PROVE  /\ IsPrefix(x \o Slash, s) /\ real \in host.dirs \cup host.files
           /\ Rewrite(s, x \o Slash, real \o Slash) = Place(s)
<1> DEFINE up == Parent(s)
<1>1. /\ up \in Path /\ up \in Lineage(s) /\ x \in Path /\ x \in Lineage(s)
      /\ PlaceIn(s, up, realpath(host, up))
  <2>1. Slash \notin Path
    BY PathFacts DEF Slash
  <2> QED BY <2>1, ParentFacts, LineageFacts, PlaceFacts
<1>2. real \in host.dirs \cup host.files /\ real \in Path /\ realpath(host, real) = real
  <2>1. real # Missing
    BY <1>1, ExistsAbove
  <2> QED BY <1>1, <2>1, RealpathRange
<1>3. CASE up = x
  BY <1>1, <1>2, <1>3 DEF PlaceIn
<1>4. CASE up # x
  <2> DEFINE to == Rewrite(up, x \o Slash, real \o Slash)
  <2>1. to = Rewrite(up, x \o Slash, real \o Slash) /\ up = Parent(s) /\ ~Moves(to)
    BY <1>4
  <2> HIDE DEF to, up
  <2>2. IsPrefix(x \o Slash, up)
    <3>1. x \in Lineage(up)
      BY <2>1
    <3> QED BY <1>1, <1>4, <3>1, UnderFacts
  <2>3. realpath(host, to) = realpath(host, up)
    BY <1>1, <1>2, <2>1, <2>2, HostFacts, RewrittenRealpath
  <2>4. realpath(host, up) # Missing
    BY <1>1, ExistsAbove
  <2>5. to = realpath(host, up)
    BY <2>1, <2>3, <2>4 DEF Moves
  <2>6. IsPrefix(x \o Slash, s) /\ Rewrite(s, x \o Slash, real \o Slash) = Rewrite(s, up \o Slash, to \o Slash)
    BY <1>1, <1>2, <2>1, <2>2, RewrittenWithParent
  <2>7. Place(s) = Rewrite(s, up \o Slash, realpath(host, up) \o Slash)
    BY <1>1 DEF PlaceIn
  <2> QED BY <1>2, <2>5, <2>6, <2>7
<1> QED BY <1>3, <1>4

(* A directory under a moving one is where it belongs when it is rewritten by *)
(* it, if no link on its way is reached through another one.                  *)
LEMMA RewrittenStays ==
    ASSUME IsHost(host), NEW y \in Path, realpath(host, y) # Missing,
           NEW x \in Lineage(y), x # y, Moves(x), NEW real, real = realpath(host, x),
           \A w \in Lineage(y) : Place(w) \in DOMAIN host.links => Place(w) = w
    PROVE  ~Moves(Rewrite(y, x \o Slash, real \o Slash))
<1> DEFINE q == Rewrite(y, x \o Slash, real \o Slash)
<1>1. q = Rewrite(y, x \o Slash, real \o Slash)
  OBVIOUS
<1> HIDE DEF q
<1>2. x \in Path /\ IsPrefix(x \o Slash, y)
  BY LineageFacts, UnderFacts
<1>3. real \in host.dirs \cup host.files /\ real \in Path /\ realpath(host, real) = real
  BY <1>2, RealpathRange DEF Moves
<1>4. q \in Path /\ realpath(host, q) = realpath(host, y)
  <2>1. q \in Path
    BY <1>1, <1>2, <1>3, RewrittenUnder
  <2>2. realpath(host, real) = realpath(host, x)
    BY <1>3
  <2>3. realpath(host, q) = realpath(host, y)
    BY <1>1, <1>2, <1>3, <2>2, HostFacts, RewrittenRealpath
  <2> QED BY <2>1, <2>3
<1> SUFFICES ASSUME realpath(host, q) # q PROVE FALSE
  BY <1>1 DEF Moves
<1>5. PICK z \in Lineage(q) : z \in DOMAIN host.links
  BY <1>4, NoLinkOnTheWay
<1>6. /\ z \in Path /\ z \notin host.dirs \cup host.files /\ Lineage(z) \ {z} \subseteq host.dirs
  BY <1>5, LinkLeads, HostFacts
<1>7. z \notin Lineage(real)
  BY <1>3, <1>6, HostFacts
<1>8. PICK w \in Lineage(y) : IsPrefix(x \o Slash, w) /\ z = Rewrite(w, x \o Slash, real \o Slash)
  BY <1>1, <1>2, <1>3, <1>5, <1>7, RewrittenLineage
<1>9. w \in Path /\ realpath(host, w) # Missing /\ x \in Lineage(w) /\ x # w
  BY <1>2, <1>8, LineageFacts, ExistsAbove, UnderFacts
<1>10. Parent(w) \in Path /\ x \in Lineage(Parent(w))
  BY <1>9, ParentFacts
<1>11. CASE Parent(w) = x
  <2>1. z = Place(w)
    BY <1>8, <1>9, <1>10, <1>11, RewrittenToPlace
  <2>2. z = w
    BY <1>5, <1>8, <2>1
  <2> QED BY <1>6, <1>9, <2>2, RealpathListed DEF Moves
<1>12. CASE Parent(w) # x
  <2> DEFINE up == Parent(w)
             to == Rewrite(up, x \o Slash, real \o Slash)
  <2>1. up = Parent(w) /\ to = Rewrite(up, x \o Slash, real \o Slash)
    OBVIOUS
  <2> HIDE DEF up, to
  <2>2. IsPrefix(x \o Slash, up)
    BY <1>2, <1>10, <1>12, <2>1, UnderFacts
  <2>3. to \in Path /\ z = Rewrite(w, up \o Slash, to \o Slash)
    BY <1>2, <1>3, <1>8, <1>9, <1>10, <2>1, <2>2, RewrittenWithParent
  <2>4. to \in Lineage(z) /\ to # z
    BY <1>9, <1>10, <2>1, <2>3, RewrittenParent
  <2>5. realpath(host, to) = to
    BY <1>6, <2>4, RealpathListed
  <2>6. ~Moves(Rewrite(Parent(w), x \o Slash, real \o Slash))
    BY <2>1, <2>5 DEF Moves
  <2>7. z = Place(w)
    BY <1>8, <1>9, <1>10, <2>6, RewrittenToPlace
  <2>8. z = w
    BY <1>5, <1>8, <2>7
  <2> QED BY <1>6, <1>9, <2>8, RealpathListed DEF Moves
<1> QED BY <1>11, <1>12

(* Two file systems in which each step is the same.                           *)
LEMMA SameWay ==
    ASSUME IsHost(host), NEW fs, \A l \in DOMAIN fs.links : fs.links[l] \in Seq(Piece), NEW p \in Path,
           \A y \in Lineage(p) : Enter(fs, Place(y)) = Enter(host, Place(y))
    PROVE  realpath(fs, p) = realpath(host, p)
<1> DEFINE N == Len(p)
           D == {n \in 0 .. N : \A y \in Lineage(p) : Len(y) <= n => realpath(fs, y) = realpath(host, y)}
<1>1. N \in Nat /\ p \in Lineage(p)
  BY PathFacts, LineageFacts
<1>2. \A y \in Lineage(p) : y \in Path /\ Len(y) \in Nat /\ Len(y) >= 2
  BY LineageLengths, PathFacts
<1>3. 0 \in D
  BY <1>1, <1>2
<1>4. ASSUME NEW n \in 1 .. N, n - 1 \in D PROVE n \in D
  <2> SUFFICES ASSUME NEW y \in Lineage(p), Len(y) <= n PROVE realpath(fs, y) = realpath(host, y)
    BY <1>1
  <2> DEFINE up == Parent(y)
  <2>1. realpath(fs, up) = realpath(host, up)
    <3>1. CASE up = Slash
      BY <1>2, <3>1, HostFacts, LastStep
    <3>2. CASE up \in Lineage(y) /\ Len(up) < Len(y)
      <4>1. up \in Lineage(p)
        BY <3>2, LineageFacts
      <4>2. Len(up) <= n - 1
        BY <1>2, <3>2, <4>1
      <4> QED BY <1>4, <4>1, <4>2
    <3> QED BY <1>2, <3>1, <3>2, ParentFacts
  <2>2. /\ realpath(fs, y) = Enter(fs, realpath(fs, up) \o SubSeq(y, Len(up) + 1, Len(y)))
        /\ realpath(host, y) = Enter(host, realpath(host, up) \o SubSeq(y, Len(up) + 1, Len(y)))
    BY <1>2, HostFacts, LastStep
  <2>3. Place(y) = realpath(host, up) \o SubSeq(y, Len(up) + 1, Len(y))
    BY DEF Place
  <2> QED BY <2>1, <2>2, <2>3
<1> HIDE DEF D
<1>5. N \in D
  <2>1. 0 .. N \subseteq D
    BY <1>1, <1>3, <1>4, UpTo
  <2> QED BY <1>1, <2>1
<1> QED BY <1>1, <1>5 DEF D
=============================================================================
