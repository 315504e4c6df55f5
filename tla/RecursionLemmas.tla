--------------------------- MODULE RecursionLemmas ---------------------------
(***************************************************************************)
(* Induction, and what recursive definitions compute: lemmas about numbers *)
(* and sequences that the proofs about the models cite.                    *)
(***************************************************************************)
EXTENDS Integers, SequencesExt, SequenceTheorems, WellFoundedInduction, TLAPS

\* A set of numbers has a least member: what is proved by induction below has
\* otherwise a least counterexample.
LEMMA LeastOf ==
    ASSUME NEW S \in SUBSET Nat, S # {}
    PROVE  \E m \in S : \A k \in S : m \leq k
<1> DEFINE R == OpToRel(<, Nat)
<1>1. IsWellFoundedOn(R, Nat)
  BY NatLessThanWellFounded
<1>2. ASSUME NEW a \in Nat, NEW b \in Nat PROVE (<<a, b>> \in R) <=> (a < b)
  BY Zenon DEF OpToRel
<1> HIDE DEF R
<1>3. PICK m \in S : \A k \in S : <<k, m>> \notin R
  BY <1>1, WFMin
<1>4. ASSUME NEW k \in S PROVE m \leq k
  <2>1. k \in Nat /\ m \in Nat /\ ~(k < m)
    BY <1>2, <1>3
  <2>2. QED
    BY <2>1
<1>5. QED
  BY <1>4

\* What a recursive definition over the first n numbers defines: it begins with
\* base, and next says how it goes on.
Solutions(T, n, base, next) ==
    {f \in [0..n -> T] : /\ f[0] = base
                         /\ \A i \in 1..n : f[i] = next[<<i, f[i - 1]>>]}

\* It has a solution: by induction over n.
LEMMA Recursion ==
    ASSUME NEW T, NEW n \in Nat, NEW base \in T, NEW next \in [(1..n) \X T -> T]
    PROVE  Solutions(T, n, base, next) # {}
<1> DEFINE Bad == {k \in 0..n : Solutions(T, k, base, next) = {}}
<1>1. ASSUME NEW m \in Bad, \A k \in Bad : m \leq k PROVE FALSE
  <2>1. m \in 0..n /\ Solutions(T, m, base, next) = {}
    OBVIOUS
  <2>2. m # 0
    <3> DEFINE e == [k \in 0..0 |-> base]
    <3>1. e \in [0..0 -> T] /\ e[0] = base /\ \A i \in 1..0 : FALSE
      OBVIOUS
    <3> HIDE DEF e
    <3>2. e \in Solutions(T, 0, base, next)
      BY <3>1 DEF Solutions
    <3>3. QED
      BY <2>1, <3>2
  <2>3. m - 1 \in 0..n /\ m \in 1..n /\ m - 1 < m
    BY <2>1, <2>2
  <2>4. Solutions(T, m - 1, base, next) # {}
    BY <1>1, <2>3
  <2>5. PICK f \in Solutions(T, m - 1, base, next) : TRUE
    BY <2>4
  <2>6. /\ f \in [0..m - 1 -> T] /\ f[0] = base
        /\ \A i \in 1..m - 1 : f[i] = next[<<i, f[i - 1]>>]
    BY <2>5 DEF Solutions
  <2> DEFINE g == [k \in 0..m |-> IF k = m THEN next[<<m, f[m - 1]>>] ELSE f[k]]
  <2>7. <<m, f[m - 1]>> \in (1..n) \X T
    BY <2>3, <2>6
  <2>8. next[<<m, f[m - 1]>>] \in T
    BY <2>7
  <2>9. g \in [0..m -> T] /\ g[0] = base
    BY <2>3, <2>6, <2>8
  <2>10. ASSUME NEW i \in 1..m PROVE g[i] = next[<<i, g[i - 1]>>]
    <3>1. g[i - 1] = f[i - 1]
      BY <2>3
    <3>2. CASE i = m
      BY <3>1, <3>2
    <3>3. CASE i # m
      <4>1. i \in 1..m - 1 /\ g[i] = f[i]
        BY <2>3, <3>3
      <4>2. QED
        BY <2>6, <3>1, <4>1
    <3>4. QED
      BY <3>2, <3>3
  <2> HIDE DEF g
  <2>11. g \in Solutions(T, m, base, next)
    BY <2>9, <2>10 DEF Solutions
  <2>12. QED
    BY <2>1, <2>11
<1>2. Bad \in SUBSET Nat /\ n \in 0..n
  OBVIOUS
<1>3. Bad = {} => Solutions(T, n, base, next) # {}
  BY <1>2
<1> HIDE DEF Bad
<1>4. QED
  BY <1>1, <1>2, <1>3, LeastOf

\* The first i sequences in one, for each i.
Flattenings(T, seqs) ==
    {h \in [0..Len(seqs) -> Seq(T)] :
       h[0] = <<>> /\ \A i \in 1..Len(seqs) : h[i] = h[i - 1] \o seqs[i]}

\* FlattenSeq does what its recursive definition says.
LEMMA Flattening ==
    ASSUME NEW T, NEW seqs \in Seq(Seq(T)), seqs # <<>>
    PROVE  \E h \in Flattenings(T, seqs) : FlattenSeq(seqs) = h[Len(seqs)]
<1> DEFINE n == Len(seqs)
           next == [p \in (1..n) \X Seq(T) |-> p[2] \o seqs[p[1]]]
<1>1. /\ n \in Nat /\ n >= 1 /\ <<>> \in Seq(T)
      /\ \A i \in 1..n : seqs[i] \in Seq(T)
  BY EmptySeq, LenProperties, ElementOfSeq
<1>2. next \in [(1..n) \X Seq(T) -> Seq(T)]
  BY <1>1, ConcatProperties
<1> HIDE DEF n
<1>3. PICK h : h \in Solutions(Seq(T), n, <<>>, next)
  <2> HIDE DEF next
  <2>1. Solutions(Seq(T), n, <<>>, next) # {}
    BY <1>1, <1>2, Recursion
  <2>2. QED
    BY <2>1
<1>4. /\ h \in [0..n -> Seq(T)] /\ h[0] = <<>>
      /\ \A i \in 1..n : h[i] = h[i - 1] \o seqs[i]
  <2>1. h \in [0..n -> Seq(T)] /\ h[0] = <<>>
    BY <1>3 DEF Solutions
  <2>2. ASSUME NEW i \in 1..n PROVE h[i] = h[i - 1] \o seqs[i]
    <3>1. <<i, h[i - 1]>> \in (1..n) \X Seq(T)
      <4>1. i - 1 \in 0..n
        BY <1>1
      <4>2. QED
        BY <2>1, <4>1
    <3>2. h[i] = next[<<i, h[i - 1]>>]
      BY <1>3 DEF Solutions
    <3>3. QED
      BY <3>1, <3>2
  <2>3. QED
    BY <2>1, <2>2
<1> HIDE DEF next
<1>5. h[1] = seqs[1]
  <2>1. 1 \in 1..n /\ 1 - 1 = 0
    BY <1>1
  <2>2. h[1] = h[0] \o seqs[1]
    BY <1>4, <2>1
  <2>3. QED
    BY <1>1, <1>4, <2>1, <2>2, ConcatEmptySeq
<1> DEFINE g == [i \in 1..n |-> h[i]]
           R(f) == [i \in 1..n |-> IF i = 1 THEN seqs[i] ELSE f[i - 1] \o seqs[i]]
           flatten == CHOOSE f : f = R(f)
<1>6. g = R(g)
  <2>1. ASSUME NEW i \in 1..n PROVE g[i] = R(g)[i]
    <3>1. CASE i = 1
      BY <1>5, <3>1
    <3>2. CASE i # 1
      <4>1. i - 1 \in 1..n
        BY <1>1, <3>2
      <4>2. QED
        BY <1>4, <3>2, <4>1
    <3>3. QED
      BY <3>1, <3>2
  <2>2. QED
    BY <2>1
<1>7. flatten = R(flatten)
  <2> HIDE DEF g, R
  <2>1. QED
    BY <1>6
<1>8. flatten[1] = seqs[1] /\ \A i \in 1..n : i # 1 => flatten[i] = flatten[i - 1] \o seqs[i]
  <2> HIDE DEF flatten
  <2>1. ASSUME NEW i \in 1..n
        PROVE  flatten[i] = IF i = 1 THEN seqs[i] ELSE flatten[i - 1] \o seqs[i]
    <3>1. R(flatten)[i] = IF i = 1 THEN seqs[i] ELSE flatten[i - 1] \o seqs[i]
      OBVIOUS
    <3> HIDE DEF R
    <3>2. QED
      BY <1>7, <3>1
  <2>2. 1 \in 1..n
    BY <1>1
  <2>3. QED
    BY <2>1, <2>2
<1>9. FlattenSeq(seqs) = flatten[n]
  <2>1. Len(seqs) # 0
    BY <1>1 DEF n
  <2>2. QED
    BY <2>1, Zenon DEF FlattenSeq, n
<1> HIDE DEF flatten
<1>10. \A i \in 1..n : flatten[i] = h[i]
  <2> DEFINE Bad == {i \in 1..n : flatten[i] # h[i]}
  <2>1. ASSUME NEW m \in Bad, \A k \in Bad : m \leq k PROVE FALSE
    <3>1. CASE m = 1
      BY <1>5, <1>8, <3>1
    <3>2. CASE m # 1
      <4>1. m \in 1..n /\ m - 1 \in 1..n /\ m - 1 < m
        BY <1>1, <3>2
      <4>2. flatten[m - 1] = h[m - 1]
        BY <2>1, <4>1
      <4>3. QED
        BY <1>4, <1>8, <3>2, <4>1, <4>2
    <3>3. QED
      BY <3>1, <3>2
  <2>2. Bad \in SUBSET Nat
    BY <1>1
  <2>3. Bad = {} => \A i \in 1..n : flatten[i] = h[i]
    OBVIOUS
  <2> HIDE DEF Bad
  <2>4. QED
    BY <2>1, <2>2, <2>3, LeastOf
<1>11. n \in 1..n
  BY <1>1
<1>12. h \in Flattenings(T, seqs)
  BY <1>4 DEF Flattenings, n
<1>13. QED
  BY <1>9, <1>10, <1>11, <1>12 DEF n

\* The same of an empty sequence.
LEMMA FlattensTo ==
    ASSUME NEW T, NEW seqs \in Seq(Seq(T))
    PROVE  \E h \in Flattenings(T, seqs) : FlattenSeq(seqs) = h[Len(seqs)]
<1>1. CASE seqs = <<>>
  <2> DEFINE h == [i \in 0..0 |-> <<>>]
  <2>1. /\ h \in [0..0 -> Seq(T)] /\ h[0] = <<>>
        /\ Len(seqs) = 0 /\ \A i \in 1..0 : FALSE
    BY <1>1, EmptySeq
  <2>2. FlattenSeq(seqs) = <<>>
    BY <1>1, <2>1 DEF FlattenSeq
  <2> HIDE DEF h
  <2>3. h \in Flattenings(T, seqs)
    BY <2>1 DEF Flattenings
  <2>4. QED
    BY <2>1, <2>2, <2>3
<1>2. CASE seqs # <<>>
  BY <1>2, Flattening
<1>3. QED
  BY <1>1, <1>2

\* The elements of the parts are those of the whole.
LEMMA FlattenTyped ==
    ASSUME NEW T, NEW seqs \in Seq(Seq(T))
    PROVE  FlattenSeq(seqs) \in Seq(T)
<1>1. PICK h \in Flattenings(T, seqs) : FlattenSeq(seqs) = h[Len(seqs)]
  BY FlattensTo
<1>2. Len(seqs) \in 0..Len(seqs)
  BY LenProperties
<1>3. h \in [0..Len(seqs) -> Seq(T)]
  BY DEF Flattenings
<1>4. QED
  BY <1>1, <1>2, <1>3

\* Two sequences of sequences, one after the other.
LEMMA FlattenConcat ==
    ASSUME NEW T, NEW a \in Seq(Seq(T)), NEW b \in Seq(Seq(T))
    PROVE  FlattenSeq(a \o b) = FlattenSeq(a) \o FlattenSeq(b)
<1> DEFINE n == Len(a)
           m == Len(b)
           c == a \o b
<1>1. n \in Nat /\ m \in Nat /\ c \in Seq(Seq(T)) /\ Len(c) = n + m
  BY LenProperties, ConcatProperties
<1>2. /\ \A i \in 1..n : c[i] = a[i] /\ a[i] \in Seq(T)
      /\ \A i \in 1..m : c[n + i] = b[i] /\ b[i] \in Seq(T)
  BY ConcatProperties, ElementOfSeq
<1> HIDE DEF c
<1>3. PICK f \in Flattenings(T, a) : FlattenSeq(a) = f[n]
  BY FlattensTo
<1>4. PICK g \in Flattenings(T, b) : FlattenSeq(b) = g[m]
  BY FlattensTo
<1>5. PICK h \in Flattenings(T, c) : FlattenSeq(c) = h[n + m]
  BY <1>1, FlattensTo
<1> HIDE DEF n, m
<1>6. /\ f \in [0..n -> Seq(T)] /\ f[0] = <<>> /\ \A i \in 1..n : f[i] = f[i - 1] \o a[i]
      /\ g \in [0..m -> Seq(T)] /\ g[0] = <<>> /\ \A i \in 1..m : g[i] = g[i - 1] \o b[i]
  BY DEF Flattenings, n, m
<1>7. /\ h \in [0..n + m -> Seq(T)] /\ h[0] = <<>>
      /\ \A i \in 1..n + m : h[i] = h[i - 1] \o c[i]
  BY <1>1 DEF Flattenings
<1>8. h[n] = f[n]
  <2> DEFINE Bad == {i \in 0..n : h[i] # f[i]}
  <2>1. ASSUME NEW i \in Bad, \A k \in Bad : i \leq k PROVE FALSE
    <3>1. i \in 0..n /\ h[i] # f[i]
      OBVIOUS
    <3>2. i # 0
      BY <1>6, <1>7, <3>1
    <3>3. i \in 1..n /\ i \in 1..n + m /\ i - 1 \in 0..n /\ i - 1 < i
      BY <1>1, <3>1, <3>2
    <3>4. h[i - 1] = f[i - 1]
      BY <2>1, <3>3
    <3>5. QED
      BY <1>2, <1>6, <1>7, <3>1, <3>3, <3>4
  <2>2. Bad \in SUBSET Nat /\ n \in 0..n
    BY <1>1
  <2>3. Bad = {} => \A i \in 0..n : h[i] = f[i]
    OBVIOUS
  <2> HIDE DEF Bad
  <2>4. QED
    BY <2>1, <2>2, <2>3, LeastOf
<1>9. h[n + m] = f[n] \o g[m]
  <2> DEFINE Bad == {i \in 0..m : h[n + i] # f[n] \o g[i]}
  <2>1. f[n] \in Seq(T) /\ n \in 0..n
    BY <1>1, <1>6
  <2>2. ASSUME NEW i \in Bad, \A k \in Bad : i \leq k PROVE FALSE
    <3>1. i \in 0..m /\ h[n + i] # f[n] \o g[i]
      OBVIOUS
    <3>2. i # 0
      <4>1. h[n + 0] = f[n]
        BY <1>1, <1>8
      <4>2. f[n] \o <<>> = f[n]
        BY <2>1, ConcatEmptySeq
      <4>3. QED
        BY <1>6, <3>1, <4>1, <4>2
    <3>3. /\ i \in 1..m /\ n + i \in 1..n + m /\ i - 1 \in 0..m /\ i - 1 < i
          /\ (n + i) - 1 = n + (i - 1)
      BY <1>1, <3>1, <3>2
    <3>4. h[n + (i - 1)] = f[n] \o g[i - 1]
      <4>1. i - 1 \notin Bad
        <5>1. i \in Nat /\ i - 1 \in Nat
          BY <3>3
        <5> HIDE DEF Bad
        <5>2. QED
          BY <2>2, <3>3, <5>1
      <4>2. QED
        BY <3>3, <4>1
    <3>5. h[n + i] = h[n + (i - 1)] \o b[i]
      BY <1>2, <1>7, <3>3
    <3>6. g[i - 1] \in Seq(T) /\ b[i] \in Seq(T) /\ g[i] = g[i - 1] \o b[i]
      BY <1>2, <1>6, <3>3
    <3>7. (f[n] \o g[i - 1]) \o b[i] = f[n] \o (g[i - 1] \o b[i])
      <4> DEFINE x == f[n]
                 y == g[i - 1]
                 z == b[i]
      <4>1. x \in Seq(T) /\ y \in Seq(T) /\ z \in Seq(T)
        BY <2>1, <3>6
      <4> HIDE DEF x, y, z
      <4>2. (x \o y) \o z = x \o (y \o z)
        BY <4>1, ConcatAssociative
      <4>3. QED
        BY <4>2 DEF x, y, z
    <3>8. QED
      BY <3>1, <3>4, <3>5, <3>6, <3>7
  <2>3. Bad \in SUBSET Nat /\ m \in 0..m
    <3>1. Bad \subseteq 0..m
      OBVIOUS
    <3> HIDE DEF Bad
    <3>2. QED
      BY <1>1, <3>1
  <2>4. Bad = {} => \A i \in 0..m : h[n + i] = f[n] \o g[i]
    OBVIOUS
  <2> HIDE DEF Bad
  <2>5. QED
    BY <2>2, <2>3, <2>4, LeastOf
<1>10. QED
  BY <1>3, <1>4, <1>5, <1>9 DEF c

(***************************************************************************)
(* Some of the elements of a sequence                                      *)
(***************************************************************************)
Pieces(t, at) == [i \in DOMAIN t |-> IF i \in at THEN <<t[i]>> ELSE <<>>]
\* Those at the positions at.
Picked(t, at) == FlattenSeq(Pieces(t, at))

\* The pieces hold what is chosen of the sequence.
LEMMA PiecesTyped ==
    ASSUME NEW T, NEW t \in Seq(T), NEW at, NEW S, \A i \in at \cap DOMAIN t : t[i] \in S
    PROVE  Pieces(t, at) \in Seq(Seq(S)) /\ Len(Pieces(t, at)) = Len(t)
<1>1. DOMAIN t = 1..Len(t) /\ Len(t) \in Nat
  BY LenProperties
<1>2. ASSUME NEW i \in DOMAIN t PROVE (IF i \in at THEN <<t[i]>> ELSE <<>>) \in Seq(S)
  <2>1. CASE i \in at
    <3>1. t[i] \in S
      BY <2>1
    <3>2. <<t[i]>> \in Seq(S)
      BY <3>1
    <3>3. QED
      BY <2>1, <3>2
  <2>2. CASE i \notin at
    BY <2>2, EmptySeq
  <2>3. QED
    BY <2>1, <2>2
<1>3. QED
  BY <1>1, <1>2 DEF Pieces

\* What is picked is what was at those positions.
LEMMA PickedTyped ==
    ASSUME NEW T, NEW t \in Seq(T), NEW at, NEW S, \A i \in at \cap DOMAIN t : t[i] \in S
    PROVE  Picked(t, at) \in Seq(S)
  BY PiecesTyped, FlattenTyped DEF Picked

\* Only the positions within the sequence count.
LEMMA PickedSame ==
    ASSUME NEW t, NEW at, NEW bt, \A i \in DOMAIN t : i \in at <=> i \in bt
    PROVE  Picked(t, at) = Picked(t, bt)
<1>1. Pieces(t, at) = Pieces(t, bt)
  BY DEF Pieces
<1>2. QED
  BY <1>1 DEF Picked

\* Of two sequences, one after the other.
LEMMA PickedConcat ==
    ASSUME NEW T, NEW x \in Seq(T), NEW y \in Seq(T), NEW at,
           NEW bt, \A j \in DOMAIN y : j \in bt <=> Len(x) + j \in at
    PROVE  Picked(x \o y, at) = Picked(x, at) \o Picked(y, bt)
<1> DEFINE n == Len(x)
           m == Len(y)
           z == x \o y
<1>1. /\ n \in Nat /\ m \in Nat /\ DOMAIN x = 1..n /\ DOMAIN y = 1..m
      /\ z \in Seq(T) /\ Len(z) = n + m /\ DOMAIN z = 1..n + m
  BY LenProperties, ConcatProperties
<1>2. /\ \A i \in 1..n : z[i] = x[i] /\ x[i] \in T
      /\ \A j \in 1..m : z[n + j] = y[j] /\ y[j] \in T
  BY ConcatProperties, ElementOfSeq
<1>3. /\ \A i \in 1..n : x[i] \in T
      /\ \A j \in 1..m : y[j] \in T
      /\ \A i \in 1..n + m : z[i] \in T
  BY <1>1, <1>2, ElementOfSeq
<1>4. /\ Pieces(x, at) \in Seq(Seq(T)) /\ Len(Pieces(x, at)) = n
      /\ Pieces(y, bt) \in Seq(Seq(T)) /\ Len(Pieces(y, bt)) = m
      /\ Pieces(z, at) \in Seq(Seq(T)) /\ Len(Pieces(z, at)) = n + m
  <2> HIDE DEF z
  <2>1. QED
    BY <1>1, <1>3, PiecesTyped DEF n, m
<1>5. Pieces(z, at) = Pieces(x, at) \o Pieces(y, bt)
  <2> DEFINE p == Pieces(x, at)
             q == Pieces(y, bt)
             r == Pieces(z, at)
  <2>1. /\ p \o q \in Seq(Seq(T)) /\ Len(p \o q) = n + m
        /\ \A i \in 1..n + m : (p \o q)[i] = IF i <= n THEN p[i] ELSE q[i - n]
    <3> HIDE DEF p, q, n, m
    <3>1. p \in Seq(Seq(T)) /\ q \in Seq(Seq(T)) /\ Len(p) = n /\ Len(q) = m
      BY <1>4 DEF p, q
    <3>2. QED
      BY <3>1, ConcatProperties
  <2> HIDE DEF z, n, m
  <2>2. /\ \A i \in 1..n : p[i] = IF i \in at THEN <<x[i]>> ELSE <<>>
        /\ \A i \in 1..m : q[i] = IF i \in bt THEN <<y[i]>> ELSE <<>>
        /\ \A i \in 1..n + m : r[i] = IF i \in at THEN <<z[i]>> ELSE <<>>
    BY <1>1 DEF Pieces
  <2>3. \A j \in 1..m : j \in bt <=> n + j \in at
    BY <1>1 DEF n
  <2> HIDE DEF p, q, r
  <2>4. ASSUME NEW i \in 1..n + m PROVE r[i] = (p \o q)[i]
    <3>1. CASE i <= n
      <4>1. i \in 1..n
        BY <1>1, <3>1
      <4>2. QED
        BY <1>2, <2>1, <2>2, <3>1, <4>1
    <3>2. CASE ~(i <= n)
      <4>1. i - n \in 1..m /\ n + (i - n) = i
        BY <1>1, <3>2
      <4>2. z[i] = y[i - n] /\ (i - n \in bt <=> i \in at)
        BY <1>2, <2>3, <4>1
      <4>3. (p \o q)[i] = q[i - n]
        BY <2>1, <3>2
      <4>4. QED
        BY <2>2, <4>1, <4>2, <4>3
    <3>3. QED
      BY <3>1, <3>2
  <2>5. r \in [1..n + m -> Seq(T)] /\ p \o q \in [1..n + m -> Seq(T)]
    <3>1. r \in Seq(Seq(T)) /\ Len(r) = n + m
      BY <1>4 DEF r
    <3>2. QED
      BY <2>1, <3>1, LenProperties
  <2>6. r = p \o q
    <3> DEFINE u == p \o q
    <3>1. \A i \in 1..n + m : r[i] = u[i]
      BY <2>4
    <3>2. r \in [1..n + m -> Seq(T)] /\ u \in [1..n + m -> Seq(T)]
      BY <2>5
    <3> HIDE DEF u
    <3>3. r = u
      <4>1. r = [i \in 1..n + m |-> r[i]] /\ u = [i \in 1..n + m |-> u[i]]
        BY <3>2
      <4>2. QED
        BY <3>1, <4>1
    <3>4. QED
      BY <3>3 DEF u
  <2>7. QED
    BY <2>6 DEF p, q, r
<1>6. QED
  BY <1>4, <1>5, FlattenConcat DEF Picked

\* Nothing is picked, or everything.
LEMMA PickedEmpty == \A at : Picked(<<>>, at) = <<>>
<1> TAKE at
<1>1. Pieces(<<>>, at) = <<>> /\ Len(<<>>) = 0
  BY DEF Pieces
<1>2. QED
  BY <1>1 DEF Picked, FlattenSeq

\* Of one element.
LEMMA PickedOne ==
    ASSUME NEW c, NEW at
    PROVE  Picked(<<c>>, at) = IF 1 \in at THEN <<c>> ELSE <<>>
<1> DEFINE p == Pieces(<<c>>, at)
<1>1. p = << IF 1 \in at THEN <<c>> ELSE <<>> >>
  BY DEF Pieces
<1>2. p \in Seq(Seq({c})) /\ Len(p) = 1 /\ p # <<>> /\ p[1] = IF 1 \in at THEN <<c>> ELSE <<>>
  <2> DEFINE e == IF 1 \in at THEN <<c>> ELSE <<>>
  <2>1. <<c>> \in Seq({c}) /\ <<>> \in Seq({c})
    OBVIOUS
  <2>2. e = <<c>> \/ e = <<>>
    OBVIOUS
  <2> HIDE DEF e
  <2>3. <<e>> \in Seq(Seq({c})) /\ Len(<<e>>) = 1 /\ <<e>> # <<>> /\ <<e>>[1] = e
    <3>1. e \in Seq({c})
      BY <2>1, <2>2
    <3>2. QED
      BY <3>1
  <2>4. QED
    BY <1>1, <2>3 DEF e
<1> HIDE DEF p
<1>3. PICK h \in Flattenings({c}, p) : FlattenSeq(p) = h[1]
  BY <1>2, Flattening
<1>4. h[0] = <<>> /\ h[1] = h[0] \o p[1]
  BY <1>2 DEF Flattenings
<1>5. p[1] \in Seq({c})
  BY <1>2
<1>6. QED
  BY <1>2, <1>3, <1>4, <1>5, ConcatEmptySeq DEF Picked, p

\* Of none.
LEMMA PickedNone ==
    ASSUME NEW T, NEW t \in Seq(T), NEW at, at \cap DOMAIN t = {}
    PROVE  Picked(t, at) = <<>>
<1>1. Picked(t, at) \in Seq({})
  BY PickedTyped
<1>2. QED
  BY <1>1

\* Of all of them.
LEMMA PickedAll ==
    ASSUME NEW T, NEW t \in Seq(T), NEW at, DOMAIN t \subseteq at
    PROVE  Picked(t, at) = t
<1> DEFINE n == Len(t)
           p == Pieces(t, at)
<1>1. n \in Nat /\ DOMAIN t = 1..n /\ \A i \in 1..n : t[i] \in T
  BY LenProperties, ElementOfSeq
<1>2. p \in Seq(Seq(T)) /\ Len(p) = n
  BY <1>1, PiecesTyped
<1>3. \A i \in 1..n : p[i] = <<t[i]>>
  BY <1>1 DEF Pieces
<1> HIDE DEF p
<1>4. PICK h \in Flattenings(T, p) : FlattenSeq(p) = h[n]
  BY <1>2, FlattensTo
<1>5. /\ h \in [0..n -> Seq(T)] /\ h[0] = <<>>
      /\ \A i \in 1..n : h[i] = h[i - 1] \o <<t[i]>>
  BY <1>2, <1>3 DEF Flattenings
<1>6. h[n] = t
  <2> DEFINE Bad == {i \in 0..n : h[i] # SubSeq(t, 1, i)}
  <2>1. ASSUME NEW i \in Bad, \A k \in Bad : i \leq k PROVE FALSE
    <3>1. i \in 0..n /\ h[i] # SubSeq(t, 1, i)
      OBVIOUS
    <3>2. i # 0
      BY <1>5, <3>1, SubSeqEmpty
    <3>3. i \in 1..n /\ i - 1 \in 0..n /\ i - 1 < i /\ 1 \in 1..n /\ i \in 1..i
      BY <1>1, <3>1, <3>2
    <3>4. h[i - 1] = SubSeq(t, 1, i - 1)
      BY <2>1, <3>3
    <3>5. SubSeq(t, 1, i) = SubSeq(t, 1, i - 1) \o <<t[i]>>
      BY <3>3, SubSeqRecursiveSecond
    <3>6. QED
      BY <1>5, <3>1, <3>3, <3>4, <3>5
  <2>2. Bad \in SUBSET Nat /\ n \in 0..n
    BY <1>1
  <2>3. Bad = {} => \A i \in 0..n : h[i] = SubSeq(t, 1, i)
    OBVIOUS
  <2> HIDE DEF Bad
  <2>4. h[n] = SubSeq(t, 1, n)
    BY <2>1, <2>2, <2>3, LeastOf
  <2>5. QED
    BY <2>4, SubSeqFull
<1>7. QED
  BY <1>4, <1>6 DEF Picked, p
=============================================================================
