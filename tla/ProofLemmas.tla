----------------------------- MODULE ProofLemmas -----------------------------
(***************************************************************************)
(* Facts about numbers, sequences and finite sets that the proofs about    *)
(* several components use.                                                 *)
(***************************************************************************)
EXTENDS Integers, SequenceTheorems, FiniteSetTheorems, WellFoundedInduction, TLAPS

------------------------------------------------------------------------------
(* Numbers *)

(* A number below the modulus is its own remainder: an unsigned integer holds it
   as it is. *)
LEMMA RemainderOfSmall ==
  ASSUME NEW k \in Nat \ {0}, NEW n \in Nat, n < k
  PROVE  n % k = n
  OBVIOUS

(* The remainder of the next number. *)
LEMMA RemainderOfNext ==
  ASSUME NEW n \in Nat, NEW k \in Nat \ {0}
  PROVE  (n + 1) % k = IF (n % k) + 1 = k THEN 0 ELSE (n % k) + 1
  <1> DEFINE q == n \div k
             p == (n + 1) \div k
             r == n % k
             t == (n + 1) % k
  <1>1. q \in Int /\ r \in 0 .. k - 1 /\ n = k * q + r
    OBVIOUS
  <1>2. p \in Int /\ t \in 0 .. k - 1 /\ n + 1 = k * p + t
    OBVIOUS
  <1> HIDE DEF q, p, r, t
  <1>3. k * (p - q) = r + 1 - t
    <2>1. k * (p - q) = k * p - k * q
      BY <1>1, <1>2
    <2>2. k * p \in Int /\ k * q \in Int
      BY <1>1, <1>2
    <2> QED
      BY <1>1, <1>2, <2>1, <2>2
  <1>4. p - q >= 2 => k * (p - q) >= k * 2
    BY <1>1, <1>2
  <1>5. p - q <= -1 => k * (p - q) <= k * (-1)
    BY <1>1, <1>2
  <1>6. p - q = 0 \/ p - q = 1
    BY <1>1, <1>2, <1>3, <1>4, <1>5
  <1>7. t = IF r + 1 = k THEN 0 ELSE r + 1
    BY <1>1, <1>2, <1>3, <1>6
  <1> QED
    BY <1>7 DEF r, t

(* Induction, for a set of numbers. *)
LEMMA AllNumbers ==
  ASSUME NEW W, 0 \in W, \A n \in Nat : n \in W => n + 1 \in W
  PROVE  Nat \subseteq W
  <1> DEFINE Less == OpToRel(<, Nat)
  <1>1. \A n \in Nat : n # 0 => n - 1 \in Nat /\ <<n - 1, n>> \in Less
    BY DEF OpToRel
  <1>2. IsWellFoundedOn(Less, Nat)
    BY NatLessThanWellFounded
  <1> HIDE DEF Less
  <1> SUFFICES ASSUME Nat \ W # {} PROVE FALSE
    OBVIOUS
  <1>3. PICK n \in Nat \ W : \A m \in Nat \ W : ~ (<<m, n>> \in Less)
    <2>1. Nat \ W \subseteq Nat
      OBVIOUS
    <2> QED
      BY <1>2, <2>1, WFMin
  <1>4. n # 0 /\ n - 1 \in Nat
    BY <1>1
  <1>5. n - 1 \in W
    BY <1>1, <1>3, <1>4
  <1> QED
    BY <1>4, <1>5

------------------------------------------------------------------------------
(* Parts of a sequence *)

(* A part of a sequence has the elements between its ends. *)
LEMMA PartOfSeq ==
  ASSUME NEW S, NEW seq \in Seq(S),
         NEW a \in 0 .. Len(seq), NEW b \in a .. Len(seq)
  PROVE  /\ SubSeq(seq, a + 1, b) \in Seq(S)
         /\ Len(SubSeq(seq, a + 1, b)) = b - a
         /\ \A i \in 1 .. b - a : SubSeq(seq, a + 1, b)[i] = seq[a + i]
  <1>1. Len(seq) \in Nat /\ \A i \in 1 .. Len(seq) : seq[i] \in S
    BY LenProperties, ElementOfSeq
  <1>2. a + 1 \in Int /\ b \in Int /\ \A i \in (a + 1) .. b : seq[i] \in S
    BY <1>1
  <1>3. /\ SubSeq(seq, a + 1, b) \in Seq(S)
        /\ Len(SubSeq(seq, a + 1, b)) = IF a + 1 <= b THEN b - (a + 1) + 1 ELSE 0
        /\ \A i \in 1 .. b - (a + 1) + 1 :
             SubSeq(seq, a + 1, b)[i] = seq[(a + 1) + i - 1]
    BY <1>2, SubSeqProperties
  <1>4. b - (a + 1) + 1 = b - a /\ \A i \in Int : (a + 1) + i - 1 = a + i
    BY <1>1
  <1>5. \A i \in 1 .. b - a : SubSeq(seq, a + 1, b)[i] = seq[a + i]
    BY <1>3, <1>4
  <1>6. Len(SubSeq(seq, a + 1, b)) = b - a
    BY <1>1, <1>3
  <1> QED
    BY <1>3, <1>5, <1>6

(* The beginning of a part is a part. *)
LEMMA PartOfPart ==
  ASSUME NEW S, NEW seq \in Seq(S),
         NEW a \in 0 .. Len(seq), NEW b \in a .. Len(seq), NEW k \in 0 .. b - a
  PROVE  SubSeq(SubSeq(seq, a + 1, b), 1, k) = SubSeq(seq, a + 1, a + k)
  <1>0. Len(seq) \in Nat
    BY LenProperties
  <1>1. CASE k = 0
    <2>1. SubSeq(SubSeq(seq, a + 1, b), 1, k) = << >>
      BY <1>1, SubSeqEmpty
    <2>2. SubSeq(seq, a + 1, a + k) = << >>
      BY <1>0, <1>1, SubSeqEmpty
    <2> QED
      BY <2>1, <2>2
  <1>2. CASE k > 0
    <2>1. /\ a + 1 \in 1 .. Len(seq) /\ b \in 1 .. Len(seq)
          /\ 1 \in 1 .. b - (a + 1) + 1 /\ k \in 1 .. b - (a + 1) + 1
      BY <1>0, <1>2
    <2>2. SubSeq(SubSeq(seq, a + 1, b), 1, k)
            = SubSeq(seq, (a + 1) + 1 - 1, (a + 1) + k - 1)
      BY <2>1, SubSeqOfSubSeq
    <2> QED
      BY <2>2, <1>0
  <1> QED
    BY <1>0, <1>1, <1>2

(* Two parts that meet make one. *)
LEMMA PartsMeet ==
  ASSUME NEW S, NEW seq \in Seq(S),
         NEW a \in 0 .. Len(seq), NEW b \in a .. Len(seq)
  PROVE  SubSeq(seq, 1, a) \o SubSeq(seq, a + 1, b) = SubSeq(seq, 1, b)
  <1>1. Len(seq) \in Nat
    BY LenProperties
  <1>2. 1 \in 1 .. Len(seq) + 1 /\ a \in 1 - 1 .. Len(seq)
    BY <1>1
  <1> QED
    BY <1>2, ConcatAdjacentSubSeq

(* The first elements. *)
LEMMA FirstPart ==
  ASSUME NEW S, NEW seq \in Seq(S), NEW b \in 0 .. Len(seq)
  PROVE  SubSeq(seq, 1, b) \in Seq(S) /\ Len(SubSeq(seq, 1, b)) = b
  <1>1. Len(seq) \in Nat /\ 0 \in 0 .. Len(seq) /\ b \in 0 .. Len(seq)
    BY LenProperties
  <1>2. /\ SubSeq(seq, 0 + 1, b) \in Seq(S)
        /\ Len(SubSeq(seq, 0 + 1, b)) = b - 0
    BY <1>1, PartOfSeq
  <1> QED
    BY <1>1, <1>2

(* Where the parts of two sequences that are put together are found. *)
LEMMA Joined ==
  ASSUME NEW S, NEW s \in Seq(S), NEW t \in Seq(S)
  PROVE  /\ s \o t \in Seq(S)
         /\ Len(s) \in Nat /\ Len(t) \in Nat
         /\ Len(s \o t) = Len(s) + Len(t)
         /\ \A i \in 1 .. Len(s) : (s \o t)[i] = s[i]
         /\ \A i \in 1 .. Len(t) : (s \o t)[Len(s) + i] = t[i]
  <1>1. Len(s) \in Nat /\ Len(t) \in Nat
    BY LenProperties
  <1>2. s \o t \in Seq(S) /\ Len(s \o t) = Len(s) + Len(t)
    BY ConcatProperties
  <1>3. \A i \in 1 .. Len(s) + Len(t) :
          (s \o t)[i] = IF i <= Len(s) THEN s[i] ELSE t[i - Len(s)]
    BY ConcatProperties
  <1>4. \A i \in 1 .. Len(s) : (s \o t)[i] = s[i]
    BY <1>1, <1>3
  <1>5. ASSUME NEW i \in 1 .. Len(t)
        PROVE  (s \o t)[Len(s) + i] = t[i]
    <2>1. /\ Len(s) + i \in 1 .. Len(s) + Len(t) /\ ~(Len(s) + i <= Len(s))
          /\ (Len(s) + i) - Len(s) = i
      BY <1>1
    <2> QED
      BY <1>3, <2>1
  <1> QED
    BY <1>1, <1>2, <1>4, <1>5

(* Sequences that are written down. *)
LEMMA SeqOfOne ==
  ASSUME NEW S, NEW x \in S
  PROVE  <<x>> \in Seq(S) /\ Len(<<x>>) = 1 /\ <<x>>[1] = x
  OBVIOUS

LEMMA SeqOfThree ==
  ASSUME NEW S, NEW x \in S, NEW y \in S, NEW z \in S
  PROVE  /\ <<x, y, z>> \in Seq(S) /\ Len(<<x, y, z>>) = 3
         /\ <<x, y, z>>[1] = x /\ <<x, y, z>>[2] = y /\ <<x, y, z>>[3] = z
  OBVIOUS

LEMMA SeqOfFour ==
  ASSUME NEW S, NEW x \in S, NEW y \in S, NEW z \in S, NEW w \in S
  PROVE  /\ <<x, y, z, w>> \in Seq(S) /\ Len(<<x, y, z, w>>) = 4
         /\ <<x, y, z, w>>[1] = x /\ <<x, y, z, w>>[2] = y
         /\ <<x, y, z, w>>[3] = z /\ <<x, y, z, w>>[4] = w
  OBVIOUS

(* A sequence over a set is one over every larger set. *)
LEMMA SeqOfMore ==
  ASSUME NEW S, NEW T, S \subseteq T, NEW seq \in Seq(S)
  PROVE  seq \in Seq(T)
  OBVIOUS

------------------------------------------------------------------------------
(* Finite sets *)

(* Two different elements make a set of two. *)
LEMMA TwoElements ==
  ASSUME NEW a, NEW b, a # b
  PROVE  IsFiniteSet({a, b}) /\ Cardinality({a, b}) = 2
  <1> DEFINE A == {a}
  <1>1. IsFiniteSet(A) /\ Cardinality(A) = 1 /\ b \notin A /\ {a, b} = A \cup {b}
    BY FS_Singleton
  <1> HIDE DEF A
  <1>2. IsFiniteSet(A \cup {b}) /\ Cardinality(A \cup {b}) = 1 + 1
    BY <1>1, FS_AddElement
  <1> QED
    BY <1>1, <1>2

------------------------------------------------------------------------------
(* Distances in a graph *)

(* Vertices and the weights of the edges between them, the same both ways. *)
Graph(V, w, max) ==
  /\ IsFiniteSet(V) /\ max \in Nat
  /\ \A v \in V : \A u \in DOMAIN w[v] :
       u \in V /\ v \in DOMAIN w[u] /\ w[v][u] \in Nat /\ w[u][v] = w[v][u]

Least(S) == CHOOSE n \in S : \A m \in S : n <= m

(* One more edge than f allows, from the vertices that f reaches. *)
OneMore(V, w, max, f) ==
  [v \in V |-> Least({f[v]} \cup
     {f[u] + w[u][v] : u \in {x \in V : v \in DOMAIN w[x] /\ f[x] < max}})]

(* The lengths of the shortest paths from start, by the number of their edges. *)
Over(V, w, max, start) ==
  LET over[k \in 0 .. Cardinality(V)] ==
        IF k = 0 THEN [v \in V |-> IF v = start THEN 0 ELSE max]
        ELSE OneMore(V, w, max, over[k - 1])
  IN  over

(* A set of numbers has a least member. *)
LEMMA LeastIsMember ==
  ASSUME NEW S \in SUBSET Nat, S # {}
  PROVE  Least(S) \in S /\ Least(S) \in Nat /\ \A m \in S : Least(S) <= m
  <1> DEFINE W == {n \in Nat : \A k \in 0 .. n : k \in S => \E l \in S : \A m \in S : l <= m}
  <1>1. 0 \in W
    <2>1. \A m \in S : 0 <= m
      OBVIOUS
    <2>2. \A k \in 0 .. 0 : k = 0
      OBVIOUS
    <2> QED
      BY <2>1, <2>2
  <1>2. ASSUME NEW n \in Nat, n \in W
        PROVE  n + 1 \in W
    <2> SUFFICES ASSUME NEW k \in 0 .. n + 1, k \in S
                 PROVE  \E l \in S : \A m \in S : l <= m
      OBVIOUS
    <2>1. CASE k \in 0 .. n
      BY <1>2, <2>1
    <2>2. CASE k = n + 1
      <3>1. CASE \E m \in S : m \in 0 .. n
        BY <1>2, <3>1
      <3>2. CASE \A m \in S : m \notin 0 .. n
        <4>1. \A m \in S : k <= m
          BY <2>2, <3>2
        <4> QED
          BY <4>1
      <3> QED
        BY <3>1, <3>2
    <2> QED
      BY <2>1, <2>2
  <1> HIDE DEF W
  <1>3. Nat \subseteq W
    BY <1>1, <1>2, AllNumbers
  <1>4. PICK k \in S : TRUE
    OBVIOUS
  <1>5. \E l \in S : \A m \in S : l <= m
    <2>1. k \in Nat /\ k \in 0 .. k
      BY <1>4
    <2> QED
      BY <1>3, <1>4, <2>1 DEF W
  <1> QED
    BY <1>5 DEF Least

(* The lengths are those of no edge, or those of one edge more than before. *)
LEMMA OverIs ==
  ASSUME NEW V, NEW w, NEW max, IsFiniteSet(V), NEW start
  PROVE  /\ Over(V, w, max, start)[0] = [v \in V |-> IF v = start THEN 0 ELSE max]
         /\ \A k \in 1 .. Cardinality(V) :
              Over(V, w, max, start)[k] = OneMore(V, w, max, Over(V, w, max, start)[k - 1])
  <1> DEFINE first == [v \in V |-> IF v = start THEN 0 ELSE max]
             Next(f) == OneMore(V, w, max, f)
             Is(g, n) == g = [k \in 0 .. n |-> IF k = 0 THEN first ELSE Next(g[k - 1])]
             W == {n \in Nat : \E g : Is(g, n)}
             c == Cardinality(V)
  <1>1. Over(V, w, max, start) = CHOOSE g : Is(g, c)
    BY DEF Over
  <1>2. c \in Nat
    BY FS_CardinalityType
  <1> HIDE DEF first, Next, c
  <1>3. 0 \in W
    <2> DEFINE g == [k \in 0 .. 0 |-> first]
    <2>1. g = [k \in 0 .. 0 |-> IF k = 0 THEN first ELSE Next(g[k - 1])]
      OBVIOUS
    <2> QED
      BY <2>1
  <1>4. ASSUME NEW n \in Nat, n \in W
        PROVE  n + 1 \in W
    <2>1. PICK g : Is(g, n)
      BY <1>4
    <2> DEFINE h == [k \in 0 .. n + 1 |-> IF k <= n THEN g[k] ELSE Next(g[n])]
    <2>2. ASSUME NEW k \in 0 .. n + 1
          PROVE  h[k] = IF k = 0 THEN first ELSE Next(h[k - 1])
      <3>1. CASE k = 0
        BY <2>1, <3>1
      <3>2. CASE k # 0 /\ k <= n
        <4>1. k \in 0 .. n /\ k - 1 \in 0 .. n + 1 /\ k - 1 <= n
          BY <3>2
        <4>2. h[k] = g[k] /\ h[k - 1] = g[k - 1]
          BY <4>1
        <4>3. g[k] = Next(g[k - 1])
          BY <2>1, <3>2, <4>1
        <4> HIDE DEF h
        <4> QED
          BY <3>2, <4>2, <4>3
      <3>3. CASE k = n + 1
        <4>1. h[n + 1] = Next(g[n]) /\ h[n] = g[n]
          OBVIOUS
        <4> HIDE DEF h
        <4> QED
          BY <3>3, <4>1
      <3> QED
        BY <3>1, <3>2, <3>3
    <2>3. Is(h, n + 1)
      BY <2>2
    <2> HIDE DEF Is, h
    <2> QED
      BY <2>3
  <1>5. Nat \subseteq W
    <2> HIDE DEF W
    <2> QED
      BY <1>3, <1>4, AllNumbers
  <1>6. Is(Over(V, w, max, start), c)
    <2>1. \E g : Is(g, c)
      BY <1>2, <1>5
    <2> HIDE DEF Is
    <2> QED
      BY <1>1, <2>1
  <1> DEFINE g == Over(V, w, max, start)
  <1> HIDE DEF g
  <1>7. /\ g[0] = first
        /\ \A k \in 1 .. c : g[k] = Next(g[k - 1])
    BY <1>2, <1>6 DEF g
  <1> QED
    BY <1>7 DEF first, Next, c, g

(* Allowing one edge more makes no path longer, and reaches the neighbours. *)
LEMMA OneMoreReaches ==
  ASSUME NEW V, NEW w, NEW max, Graph(V, w, max), NEW f \in [V -> 0 .. max]
  PROVE  /\ OneMore(V, w, max, f) \in [V -> 0 .. max]
         /\ \A v \in V : OneMore(V, w, max, f)[v] <= f[v]
         /\ \A v \in V : \A u \in DOMAIN w[v] :
              f[u] < max => OneMore(V, w, max, f)[v] <= f[u] + w[u][v]
         /\ \A v \in V : \/ OneMore(V, w, max, f)[v] = f[v]
                         \/ \E u \in DOMAIN w[v] :
                              f[u] < max /\ OneMore(V, w, max, f)[v] = f[u] + w[u][v]
  <1> DEFINE From(v) == {x \in V : v \in DOMAIN w[x] /\ f[x] < max}
             S(v) == {f[v]} \cup {f[u] + w[u][v] : u \in From(v)}
             g == OneMore(V, w, max, f)
  <1>1. g = [v \in V |-> Least(S(v))]
    BY DEF OneMore
  <1>2. ASSUME NEW v \in V, NEW u \in From(v)
        PROVE  f[u] \in Nat /\ w[u][v] \in Nat /\ u \in DOMAIN w[v] /\ f[u] < max
    BY DEF Graph
  <1>3. ASSUME NEW v \in V
        PROVE  /\ g[v] \in S(v) /\ g[v] \in Nat /\ \A m \in S(v) : g[v] <= m
    <2>1. S(v) \in SUBSET Nat /\ S(v) # {}
      BY <1>2 DEF Graph
    <2>2. g[v] = Least(S(v))
      BY <1>1
    <2> HIDE DEF S, g
    <2> QED
      BY <2>1, <2>2, LeastIsMember
  <1> HIDE DEF g
  <1>4. ASSUME NEW v \in V
        PROVE  g[v] <= f[v] /\ g[v] \in 0 .. max
    <2>1. g[v] <= f[v] /\ g[v] \in Nat
      BY <1>3
    <2>2. f[v] \in 0 .. max /\ max \in Nat
      BY DEF Graph
    <2> QED
      BY <2>1, <2>2
  <1>5. ASSUME NEW v \in V, NEW u \in DOMAIN w[v], f[u] < max
        PROVE  g[v] <= f[u] + w[u][v]
    <2>1. u \in From(v)
      BY <1>5 DEF Graph
    <2>2. f[u] + w[u][v] \in S(v)
      BY <2>1
    <2> HIDE DEF S
    <2> QED
      BY <1>3, <2>2
  <1>6. ASSUME NEW v \in V
        PROVE  \/ g[v] = f[v]
               \/ \E u \in DOMAIN w[v] : f[u] < max /\ g[v] = f[u] + w[u][v]
    BY <1>2, <1>3
  <1>7. g \in [V -> 0 .. max]
    BY <1>1, <1>4
  <1> QED
    BY <1>4, <1>5, <1>6, <1>7 DEF g

(* The same about the lengths of shortest paths. *)
LEMMA OverReaches ==
  ASSUME NEW V, NEW w, NEW max, Graph(V, w, max), NEW start
  PROVE  \A k \in 0 .. Cardinality(V) :
           /\ Over(V, w, max, start)[k] \in [V -> 0 .. max]
           /\ k > 0 => Over(V, w, max, start)[k] =
                         OneMore(V, w, max, Over(V, w, max, start)[k - 1])
  <1> DEFINE g == Over(V, w, max, start)
             c == Cardinality(V)
             W == {n \in Nat : n <= c => g[n] \in [V -> 0 .. max]}
  <1>1. /\ IsFiniteSet(V) /\ c \in Nat /\ max \in Nat
    BY FS_CardinalityType DEF Graph
  <1>2. /\ g[0] = [v \in V |-> IF v = start THEN 0 ELSE max]
        /\ \A k \in 1 .. c : g[k] = OneMore(V, w, max, g[k - 1])
    BY <1>1, OverIs
  <1> HIDE DEF g, c
  <1>3. 0 \in W
    BY <1>1, <1>2
  <1>4. ASSUME NEW n \in Nat, n \in W
        PROVE  n + 1 \in W
    <2> SUFFICES ASSUME n + 1 <= c
                 PROVE  g[n + 1] \in [V -> 0 .. max]
      OBVIOUS
    <2>1. n + 1 \in 1 .. c /\ (n + 1) - 1 = n
      BY <1>1
    <2>2. g[n] \in [V -> 0 .. max]
      BY <1>1, <1>4
    <2>3. g[n + 1] = OneMore(V, w, max, g[n])
      BY <1>2, <2>1
    <2> QED
      BY <2>2, <2>3, OneMoreReaches
  <1>5. Nat \subseteq W
    <2> HIDE DEF W
    <2> QED
      BY <1>3, <1>4, AllNumbers
  <1>6. ASSUME NEW k \in 0 .. c
        PROVE  /\ g[k] \in [V -> 0 .. max]
               /\ k > 0 => g[k] = OneMore(V, w, max, g[k - 1])
    <2>1. k \in Nat /\ k <= c /\ (k > 0 => k \in 1 .. c)
      BY <1>1
    <2> QED
      BY <1>2, <1>5, <2>1
  <1> QED
    BY <1>6 DEF g, c

(* Going to a neighbour first takes one edge more. *)
LEMMA OverNeighbor ==
  ASSUME NEW V, NEW w, NEW max, Graph(V, w, max),
         NEW r \in V, NEW s \in DOMAIN w[r], NEW k \in Nat, k < Cardinality(V), NEW x \in V
  PROVE  Over(V, w, max, r)[k + 1][x] <= w[r][s] + Over(V, w, max, s)[k][x]
  <1> DEFINE g == Over(V, w, max, r)
             h == Over(V, w, max, s)
             c == Cardinality(V)
             W == {n \in Nat : n < c => \A y \in V : g[n + 1][y] <= w[r][s] + h[n][y]}
  <1>1. /\ IsFiniteSet(V) /\ c \in Nat /\ max \in Nat /\ s \in V
        /\ w[r][s] \in Nat /\ r \in DOMAIN w[s] /\ w[s][r] = w[r][s]
    BY FS_CardinalityType DEF Graph
  <1>2. ASSUME NEW n \in 0 .. c
        PROVE  /\ g[n] \in [V -> 0 .. max] /\ h[n] \in [V -> 0 .. max]
               /\ n > 0 => g[n] = OneMore(V, w, max, g[n - 1])
               /\ n > 0 => h[n] = OneMore(V, w, max, h[n - 1])
    BY OverReaches
  <1>3. /\ g[0] = [v \in V |-> IF v = r THEN 0 ELSE max]
        /\ h[0] = [v \in V |-> IF v = s THEN 0 ELSE max]
    BY <1>1, OverIs
  <1> HIDE DEF g, h, c
  <1>4. ASSUME NEW n \in Nat, n < c
        PROVE  /\ g[n] \in [V -> 0 .. max] /\ g[n + 1] \in [V -> 0 .. max]
               /\ h[n] \in [V -> 0 .. max]
               /\ g[n + 1] = OneMore(V, w, max, g[n])
               /\ h[n + 1] = OneMore(V, w, max, h[n])
    <2>1. n \in 0 .. c /\ n + 1 \in 0 .. c /\ n + 1 > 0 /\ (n + 1) - 1 = n
      BY <1>1, <1>4
    <2> QED
      BY <1>2, <2>1
  <1>5. 0 \in W
    <2> SUFFICES ASSUME 0 < c, NEW y \in V
                 PROVE  g[0 + 1][y] <= w[r][s] + h[0][y]
      OBVIOUS
    <2>1. g[1] = OneMore(V, w, max, g[0]) /\ g[0] \in [V -> 0 .. max] /\ g[1] \in [V -> 0 .. max]
      BY <1>4
    <2>2. CASE y = s
      <3>1. CASE 0 < max
        <4>1. g[1][s] <= g[0][r] + w[r][s]
          <5>1. g[0][r] < max
            BY <1>3, <3>1
          <5> QED
            BY <1>1, <2>1, <5>1, OneMoreReaches
        <4>2. g[0][r] = 0 /\ h[0][s] = 0
          BY <1>1, <1>3
        <4> QED
          BY <1>1, <2>2, <4>1, <4>2
      <3>2. CASE max = 0
        <4>1. g[1][y] = 0 /\ h[0][y] = 0
          BY <1>3, <2>1, <2>2, <3>2
        <4> QED
          BY <1>1, <4>1
      <3> QED
        BY <1>1, <3>1, <3>2
    <2>3. CASE y # s
      <3>1. h[0][y] = max /\ g[1][y] \in 0 .. max
        BY <1>3, <2>1, <2>3
      <3> QED
        BY <1>1, <3>1
    <2> QED
      BY <2>2, <2>3
  <1>6. ASSUME NEW n \in Nat, n \in W
        PROVE  n + 1 \in W
    <2> SUFFICES ASSUME n + 1 < c, NEW y \in V
                 PROVE  g[n + 2][y] <= w[r][s] + h[n + 1][y]
      BY <1>6
    <2>1. n < c /\ n + 1 \in Nat /\ (n + 1) + 1 = n + 2
      BY <1>1
    <2>2. \A v \in V : g[n + 1][v] <= w[r][s] + h[n][v]
      BY <1>6, <2>1
    <2>3. /\ g[n + 1] \in [V -> 0 .. max] /\ g[n + 2] \in [V -> 0 .. max]
          /\ h[n] \in [V -> 0 .. max]
          /\ g[n + 2] = OneMore(V, w, max, g[n + 1])
          /\ h[n + 1] = OneMore(V, w, max, h[n])
      BY <1>4, <2>1
    <2>4. CASE h[n + 1][y] = h[n][y]
      <3>1. g[n + 2][y] <= g[n + 1][y]
        BY <2>3, OneMoreReaches
      <3>2. g[n + 1][y] <= w[r][s] + h[n][y]
        BY <2>2
      <3>3. g[n + 2][y] \in Nat /\ g[n + 1][y] \in Nat /\ h[n][y] \in Nat
        BY <1>1, <2>3
      <3> QED
        BY <1>1, <2>4, <3>1, <3>2, <3>3
    <2>5. CASE \E u \in DOMAIN w[y] : h[n][u] < max /\ h[n + 1][y] = h[n][u] + w[u][y]
      <3>1. PICK u \in DOMAIN w[y] : h[n][u] < max /\ h[n + 1][y] = h[n][u] + w[u][y]
        BY <2>5
      <3>2. u \in V /\ w[u][y] \in Nat
        BY DEF Graph
      <3>3. g[n + 1][u] <= w[r][s] + h[n][u]
        BY <2>2, <3>2
      <3>4. /\ g[n + 2][y] \in 0 .. max /\ g[n + 1][u] \in 0 .. max /\ h[n][u] \in 0 .. max
        BY <2>3, <3>2
      <3>5. CASE g[n + 1][u] < max
        <4>1. g[n + 2][y] <= g[n + 1][u] + w[u][y]
          BY <2>3, <3>5, OneMoreReaches
        <4> QED
          BY <1>1, <3>1, <3>2, <3>3, <3>4, <4>1
      <3>6. CASE ~(g[n + 1][u] < max)
        BY <1>1, <3>1, <3>2, <3>3, <3>4, <3>6
      <3> QED
        BY <3>5, <3>6
    <2> QED
      BY <2>3, <2>4, <2>5, OneMoreReaches
  <1>7. Nat \subseteq W
    <2> HIDE DEF W
    <2> QED
      BY <1>5, <1>6, AllNumbers
  <1>8. g[k + 1][x] <= w[r][s] + h[k][x]
    BY <1>7 DEF c
  <1> QED
    BY <1>8 DEF g, h

(* More edges make no path longer. *)
LEMMA OverShrinks ==
  ASSUME NEW V, NEW w, NEW max, Graph(V, w, max), NEW start,
         NEW k \in 0 .. Cardinality(V), NEW x \in V
  PROVE  /\ Over(V, w, max, start)[Cardinality(V)][x] <= Over(V, w, max, start)[k][x]
         /\ Over(V, w, max, start)[k][x] \in 0 .. max
         /\ \A m \in k .. Cardinality(V) :
              Over(V, w, max, start)[m][x] <= Over(V, w, max, start)[k][x]
  <1> DEFINE g == Over(V, w, max, start)
             c == Cardinality(V)
             W == {n \in Nat : n + k <= c => g[n + k][x] <= g[k][x]}
  <1>1. c \in Nat /\ max \in Nat /\ k \in Nat /\ k <= c
    BY FS_CardinalityType DEF Graph
  <1>2. ASSUME NEW n \in 0 .. c
        PROVE  /\ g[n] \in [V -> 0 .. max]
               /\ n > 0 => g[n] = OneMore(V, w, max, g[n - 1])
    BY OverReaches
  <1> HIDE DEF g, c
  <1>3. 0 \in W
    BY <1>1, <1>2
  <1>4. ASSUME NEW n \in Nat, n \in W
        PROVE  n + 1 \in W
    <2> SUFFICES ASSUME (n + 1) + k <= c
                 PROVE  g[(n + 1) + k][x] <= g[k][x]
      OBVIOUS
    <2> DEFINE m == n + k
    <2>1. m \in 0 .. c /\ m + 1 \in 0 .. c /\ (m + 1) - 1 = m /\ m + 1 > 0 /\ m + 1 = (n + 1) + k
      BY <1>1
    <2>2. g[m][x] <= g[k][x]
      BY <1>4, <2>1
    <2> HIDE DEF m
    <2>3. g[m] \in [V -> 0 .. max] /\ g[m + 1] = OneMore(V, w, max, g[m])
          /\ g[m + 1] \in [V -> 0 .. max] /\ g[k] \in [V -> 0 .. max]
      BY <1>1, <1>2, <2>1 DEF c
    <2>4. g[m + 1][x] <= g[m][x]
      BY <2>3, OneMoreReaches
    <2>5. g[m + 1][x] \in Nat /\ g[m][x] \in Nat /\ g[k][x] \in Nat
      BY <1>1, <2>3
    <2>6. g[m + 1][x] <= g[k][x]
      BY <2>2, <2>4, <2>5
    <2> QED
      BY <2>1, <2>6
  <1>5. Nat \subseteq W
    <2> HIDE DEF W
    <2> QED
      BY <1>3, <1>4, AllNumbers
  <1>6. ASSUME NEW m \in k .. c
        PROVE  g[m][x] <= g[k][x]
    <2>1. m - k \in Nat /\ (m - k) + k = m /\ m <= c
      BY <1>1
    <2> QED
      BY <1>5, <2>1
  <1>7. c \in k .. c
    BY <1>1
  <1>8. g[k][x] \in 0 .. max
    BY <1>2 DEF c
  <1> QED
    BY <1>6, <1>7, <1>8 DEF g, c

(* The lengths of one edge more, vertex by vertex. *)
LEMMA OverStep ==
  ASSUME NEW V, NEW w, NEW max, Graph(V, w, max), NEW start,
         NEW k \in Nat, k < Cardinality(V), NEW v \in V
  PROVE  LET g == Over(V, w, max, start)
         IN  /\ g[k][v] \in 0 .. max /\ g[k + 1][v] \in 0 .. max
             /\ g[k + 1][v] <= g[k][v]
             /\ \A u \in DOMAIN w[v] : g[k + 1][v] <= g[k][u] + w[u][v]
             /\ \/ g[k + 1][v] = g[k][v]
                \/ \E u \in DOMAIN w[v] : g[k + 1][v] = g[k][u] + w[u][v]
  <1> DEFINE g == Over(V, w, max, start)
             c == Cardinality(V)
  <1>1. c \in Nat /\ max \in Nat
    BY FS_CardinalityType DEF Graph
  <1>2. /\ g[k] \in [V -> 0 .. max] /\ g[k + 1] \in [V -> 0 .. max]
        /\ g[k + 1] = OneMore(V, w, max, g[k])
    <2>1. /\ k \in 0 .. c /\ k + 1 \in 0 .. c /\ k + 1 > 0 /\ (k + 1) - 1 = k
      BY <1>1
    <2>2. \A n \in 0 .. c : g[n] \in [V -> 0 .. max]
                            /\ (n > 0 => g[n] = OneMore(V, w, max, g[n - 1]))
      BY OverReaches
    <2> HIDE DEF g, c
    <2> QED
      BY <2>1, <2>2
  <1> HIDE DEF g, c
  <1>3. /\ g[k + 1][v] <= g[k][v]
        /\ \A u \in DOMAIN w[v] :
             g[k][u] < max => g[k + 1][v] <= g[k][u] + w[u][v]
        /\ \/ g[k + 1][v] = g[k][v]
           \/ \E u \in DOMAIN w[v] :
                g[k][u] < max /\ g[k + 1][v] = g[k][u] + w[u][v]
    BY <1>2, OneMoreReaches
  <1>4. ASSUME NEW u \in DOMAIN w[v]
        PROVE  g[k + 1][v] <= g[k][u] + w[u][v]
    <2>1. u \in V /\ w[u][v] \in Nat
      BY DEF Graph
    <2>2. g[k][u] \in 0 .. max /\ g[k + 1][v] \in 0 .. max
      BY <1>2, <2>1
    <2>3. CASE g[k][u] < max
      BY <1>3, <2>3
    <2>4. CASE ~(g[k][u] < max)
      BY <1>1, <2>1, <2>2, <2>4
    <2> QED
      BY <2>3, <2>4
  <1>5. /\ g[k][v] \in 0 .. max /\ g[k + 1][v] \in 0 .. max
        /\ g[k + 1][v] <= g[k][v]
        /\ \A u \in DOMAIN w[v] : g[k + 1][v] <= g[k][u] + w[u][v]
        /\ \/ g[k + 1][v] = g[k][v]
           \/ \E u \in DOMAIN w[v] : g[k + 1][v] = g[k][u] + w[u][v]
    BY <1>2, <1>3, <1>4
  <1> QED
    BY <1>5 DEF g

------------------------------------------------------------------------------
(* The edges of a graph *)

(* Vertices of N with edges whose weights are of W, the same at both ends. *)
Edges(w, N, W) ==
  /\ DOMAIN w \subseteq N
  /\ \A v \in DOMAIN w :
       /\ DOMAIN w[v] \subseteq DOMAIN w \ {v}
       /\ \A u \in DOMAIN w[v] : w[v][u] \in W
  /\ \A v \in DOMAIN w : \A u \in DOMAIN w[v] : v \in DOMAIN w[u] /\ w[u][v] = w[v][u]

EdgesOf(w, v) == IF v \in DOMAIN w THEN w[v] ELSE << >>

(* An edge between v1 and v2 is set, or removed if the weight is the mark. *)
WithEdge(w, v1, v2, weight, mark) ==
  [v \in DOMAIN w \cup {v1, v2} |->
     LET other == IF v = v1 THEN v2 ELSE v1
     IN  CASE v \notin {v1, v2} -> EdgesOf(w, v)
           [] v \in {v1, v2} /\ weight = mark ->
                [u \in DOMAIN EdgesOf(w, v) \ {other} |-> EdgesOf(w, v)[u]]
           [] v \in {v1, v2} /\ weight # mark ->
                [u \in DOMAIN EdgesOf(w, v) \cup {other} |->
                   IF u = other THEN weight ELSE EdgesOf(w, v)[u]]]

(* Such a change keeps the edges well formed. *)
LEMMA WithEdgeKeeps ==
  ASSUME NEW w, NEW N, NEW W, NEW v1 \in N, NEW v2 \in N, v1 # v2, NEW mark,
         NEW weight \in W \cup {mark}, Edges(w, N, W)
  PROVE  /\ Edges(WithEdge(w, v1, v2, weight, mark), N, W)
         /\ DOMAIN w \subseteq DOMAIN WithEdge(w, v1, v2, weight, mark)
  <1> DEFINE n == WithEdge(w, v1, v2, weight, mark)
             old(v) == EdgesOf(w, v)
             V == DOMAIN w \cup {v1, v2}
             Ends(u, v) == (u = v1 /\ v = v2) \/ (u = v2 /\ v = v1)
             Without(v, u) == [x \in DOMAIN old(v) \ {u} |-> old(v)[x]]
             With(v, u) == [x \in DOMAIN old(v) \cup {u} |->
                              IF x = u THEN weight ELSE old(v)[x]]
  <1>1. DOMAIN n = V
    BY DEF WithEdge
  <1>2. ASSUME NEW v \in V
        PROVE  /\ v \notin {v1, v2} => n[v] = old(v)
               /\ v = v1 /\ weight = mark => n[v] = Without(v, v2)
               /\ v = v2 /\ weight = mark => n[v] = Without(v, v1)
               /\ v = v1 /\ weight # mark => n[v] = With(v, v2)
               /\ v = v2 /\ weight # mark => n[v] = With(v, v1)
    <2> DEFINE other == IF v = v1 THEN v2 ELSE v1
    <2>1. n[v] = CASE v \notin {v1, v2} -> old(v)
                   [] v \in {v1, v2} /\ weight = mark -> Without(v, other)
                   [] v \in {v1, v2} /\ weight # mark -> With(v, other)
      BY DEF WithEdge
    <2>2. (v = v1 => other = v2) /\ (v = v2 => other = v1)
      OBVIOUS
    <2> HIDE DEF other, old, With, Without, n
    <2> QED
      BY <2>1, <2>2
  <1>3. ASSUME NEW v
        PROVE  /\ DOMAIN old(v) \subseteq DOMAIN w \ {v}
               /\ \A u \in DOMAIN old(v) :
                    old(v)[u] \in W /\ v \in DOMAIN old(u) /\ old(u)[v] = old(v)[u]
    BY DEF EdgesOf, Edges
  <1> SUFFICES Edges(n, N, W) /\ DOMAIN w \subseteq DOMAIN n
    OBVIOUS
  <1> HIDE DEF n, old, With, Without
  <1>4. ASSUME NEW v \in V, weight = mark
        PROVE  /\ DOMAIN n[v] = {u \in DOMAIN old(v) : ~Ends(u, v)}
               /\ \A u \in DOMAIN n[v] : n[v][u] = old(v)[u]
    <2>1. CASE v \notin {v1, v2}
      BY <1>2, <2>1
    <2>2. CASE v = v1
      <3>1. n[v] = Without(v, v2) /\ \A u : Ends(u, v) <=> u = v2
        BY <1>2, <1>4, <2>2
      <3>2. /\ DOMAIN n[v] = DOMAIN old(v) \ {v2}
            /\ \A u \in DOMAIN old(v) \ {v2} : n[v][u] = old(v)[u]
        BY <3>1 DEF Without
      <3> QED
        BY <3>1, <3>2
    <2>3. CASE v = v2
      <3>1. n[v] = Without(v, v1) /\ \A u : Ends(u, v) <=> u = v1
        BY <1>2, <1>4, <2>3
      <3>2. /\ DOMAIN n[v] = DOMAIN old(v) \ {v1}
            /\ \A u \in DOMAIN old(v) \ {v1} : n[v][u] = old(v)[u]
        BY <3>1 DEF Without
      <3> QED
        BY <3>1, <3>2
    <2> QED
      BY <2>1, <2>2, <2>3
  <1>5. ASSUME NEW v \in V, weight # mark
        PROVE  /\ DOMAIN n[v] = DOMAIN old(v) \cup {u \in {v1, v2} : Ends(u, v)}
               /\ \A u \in DOMAIN n[v] :
                    n[v][u] = IF Ends(u, v) THEN weight ELSE old(v)[u]
    <2>1. CASE v \notin {v1, v2}
      BY <1>2, <2>1
    <2>2. CASE v = v1
      <3>1. n[v] = With(v, v2) /\ \A u : Ends(u, v) <=> u = v2
        BY <1>2, <1>5, <2>2
      <3>2. /\ DOMAIN n[v] = DOMAIN old(v) \cup {v2}
            /\ \A u \in DOMAIN old(v) \cup {v2} :
                 n[v][u] = IF u = v2 THEN weight ELSE old(v)[u]
        BY <3>1 DEF With
      <3>3. {u \in {v1, v2} : Ends(u, v)} = {v2}
        BY <3>1
      <3> QED
        BY <3>1, <3>2, <3>3
    <2>3. CASE v = v2
      <3>1. n[v] = With(v, v1) /\ \A u : Ends(u, v) <=> u = v1
        BY <1>2, <1>5, <2>3
      <3>2. /\ DOMAIN n[v] = DOMAIN old(v) \cup {v1}
            /\ \A u \in DOMAIN old(v) \cup {v1} :
                 n[v][u] = IF u = v1 THEN weight ELSE old(v)[u]
        BY <3>1 DEF With
      <3>3. {u \in {v1, v2} : Ends(u, v)} = {v1}
        BY <3>1
      <3> QED
        BY <3>1, <3>2, <3>3
    <2> QED
      BY <2>1, <2>2, <2>3
  <1>6. V \subseteq N
    BY DEF Edges
  <1> DEFINE Kept == \A v \in V : \A u \in DOMAIN n[v] :
                       /\ u \in V \ {v} /\ n[v][u] \in W
                       /\ v \in DOMAIN n[u] /\ n[u][v] = n[v][u]
  <1>7. ASSUME weight = mark
        PROVE  Kept
    <2>1. ASSUME NEW v \in V, NEW u \in DOMAIN n[v]
          PROVE  /\ u \in V \ {v} /\ n[v][u] \in W
                 /\ v \in DOMAIN n[u] /\ n[u][v] = n[v][u]
      <3>1. u \in DOMAIN old(v) /\ ~Ends(u, v) /\ n[v][u] = old(v)[u]
        BY <1>4, <1>7
      <3>2. u \in V /\ u # v /\ ~Ends(v, u)
        BY <1>3, <3>1
      <3>3. v \in DOMAIN n[u] /\ n[u][v] = old(u)[v]
        BY <1>3, <1>4, <1>7, <3>1, <3>2
      <3> QED
        BY <1>3, <3>1, <3>2, <3>3
    <2> QED
      BY <2>1
  <1>8. ASSUME weight # mark
        PROVE  Kept
    <2>1. ASSUME NEW v \in V, NEW u \in DOMAIN n[v]
          PROVE  /\ u \in V \ {v} /\ n[v][u] \in W
                 /\ v \in DOMAIN n[u] /\ n[u][v] = n[v][u]
      <3>1. CASE Ends(u, v)
        <4>1. u \in V /\ u # v /\ Ends(v, u) /\ v \in {v1, v2}
          BY <3>1
        <4> QED
          BY <1>5, <1>8, <3>1, <4>1
      <3>2. CASE ~Ends(u, v)
        <4>1. u \in DOMAIN old(v) /\ n[v][u] = old(v)[u]
          BY <1>5, <1>8, <3>2
        <4>2. u \in V /\ u # v /\ ~Ends(v, u)
          BY <1>3, <3>2, <4>1
        <4>3. v \in DOMAIN n[u] /\ n[u][v] = old(u)[v]
          BY <1>3, <1>5, <1>8, <4>1, <4>2
        <4> QED
          BY <1>3, <4>1, <4>2, <4>3
      <3> QED
        BY <3>1, <3>2
    <2> QED
      BY <2>1
  <1>9. Kept
    BY <1>7, <1>8
  <1> QED
    BY <1>1, <1>6, <1>9 DEF Edges

(* The sum of the weights on a path, up to each of its vertices. *)
CostUpTo(w, path) ==
  LET upTo[i \in 1 .. Len(path)] ==
        IF i = 1 THEN 0 ELSE upTo[i - 1] + w[path[i - 1]][path[i]]
  IN  upTo

(* A function that grows by the weights is the sum of the weights. *)
LEMMA CostUpToIs ==
  ASSUME NEW w, NEW path, Len(path) \in Nat \ {0}, NEW g \in [1 .. Len(path) -> Int],
         \A i \in 1 .. Len(path) :
           g[i] = IF i = 1 THEN 0 ELSE g[i - 1] + w[path[i - 1]][path[i]]
  PROVE  CostUpTo(w, path) = g
  <1> DEFINE n == Len(path) - 1
             Is(f) == f = [i \in 1 .. n + 1 |->
                             IF i = 1 THEN 0 ELSE f[i - 1] + w[path[i - 1]][path[i]]]
  <1>1. n \in Nat /\ n + 1 = Len(path)
    OBVIOUS
  <1> HIDE DEF n
  <1>2. CostUpTo(w, path) = CHOOSE f : Is(f)
    BY <1>1 DEF CostUpTo
  <1>3. /\ g \in [1 .. n + 1 -> Int]
        /\ \A i \in 1 .. n + 1 :
             g[i] = IF i = 1 THEN 0 ELSE g[i - 1] + w[path[i - 1]][path[i]]
    BY <1>1
  <1>4. ASSUME NEW f, Is(f)
        PROVE  f = g
    <2> DEFINE W == {k \in Nat : k <= n => f[k + 1] = g[k + 1]}
    <2>1. 0 \in W
      BY <1>1, <1>3, <1>4
    <2>2. ASSUME NEW k \in Nat, k \in W
          PROVE  k + 1 \in W
      <3> SUFFICES ASSUME k + 1 <= n
                   PROVE  f[(k + 1) + 1] = g[(k + 1) + 1]
        OBVIOUS
      <3> DEFINE m == (k + 1) + 1
      <3>1. m \in 1 .. n + 1 /\ m # 1 /\ m - 1 = k + 1
        BY <1>1
      <3>2. f[k + 1] = g[k + 1]
        BY <1>1, <2>2
      <3> HIDE DEF m
      <3>3. f[m] = f[m - 1] + w[path[m - 1]][path[m]]
        BY <1>4, <3>1
      <3>4. g[m] = g[m - 1] + w[path[m - 1]][path[m]]
        BY <1>3, <3>1
      <3>5. f[m] = g[m]
        BY <3>1, <3>2, <3>3, <3>4
      <3> QED
        BY <3>5 DEF m
    <2>3. Nat \subseteq W
      <3> HIDE DEF W
      <3> QED
        BY <2>1, <2>2, AllNumbers
    <2>4. ASSUME NEW i \in 1 .. n + 1
          PROVE  f[i] = g[i]
      <3>1. i - 1 \in Nat /\ i - 1 <= n /\ (i - 1) + 1 = i
        BY <1>1
      <3> QED
        BY <2>3, <3>1
    <2>5. f = [i \in 1 .. n + 1 |-> f[i]] /\ g = [i \in 1 .. n + 1 |-> g[i]]
      <3>1. f = [i \in 1 .. n + 1 |-> f[i]]
        BY <1>4
      <3> QED
        BY <1>3, <3>1
    <2> QED
      BY <2>4, <2>5
  <1>5. Is(g)
    BY <1>3
  <1> HIDE DEF Is
  <1> QED
    BY <1>2, <1>4, <1>5

==============================================================================
