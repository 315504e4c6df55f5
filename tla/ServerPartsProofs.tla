------------------------- MODULE ServerPartsProofs -------------------------
(***************************************************************************)
(* Of the components of the server: the shards of the workers that remain  *)
(* make up every weight, and query heads stay with their key heads, for    *)
(* any numbers of workers and heads; and the events of a message hold the  *)
(* whole answer, whatever the chunks of it are.                            *)
(***************************************************************************)
EXTENDS ServerParts, RecursionLemmas

(***************************************************************************)
(* Sharding                                                                *)
(***************************************************************************)
\* The sizes that an engine and its weights can have.
Shape ==
    /\ tp \in Nat /\ newTp \in Nat /\ newTp # 0 /\ newTp < tp
    /\ keys \in Nat /\ values \in Nat /\ queries \in Nat /\ kv \in Nat
    /\ Shards!Base(keys) \in Nat \ {0} /\ keys = tp * Shards!Base(keys)
    /\ Shards!Base(values) \in Nat \ {0} /\ values = tp * Shards!Base(values)
    /\ Shards!Base(queries) \in Nat \ {0} /\ queries = tp * Shards!Base(queries)
    /\ kv # 0 /\ queries % kv = 0 /\ (tp % kv = 0 \/ kv % tp = 0)

\* Quotient and remainder are determined by their equation,
LEMMA DivisionIs ==
    ASSUME NEW a \in Nat, NEW n \in Nat \ {0}, NEW k \in Nat, NEW r \in Nat,
           r < n, a = n * k + r
    PROVE  a \div n = k /\ a % n = r
  OBVIOUS

\* which they fulfil.
LEMMA Division ==
    ASSUME NEW a \in Nat, NEW n \in Nat \ {0}
    PROVE  a \div n \in Nat /\ a % n \in Nat /\ a % n < n /\ a = n * (a \div n) + (a % n)
  OBVIOUS

\* Products of natural numbers grow with their factors.
LEMMA ProductGrows ==
    ASSUME NEW a \in Nat, NEW b \in Nat, NEW c \in Nat, a \leq b
    PROVE  a * c \leq b * c /\ c * a \leq c * b /\ a * c \in Nat /\ c * a \in Nat
  OBVIOUS

\* The sizes at the start are those of a shape.
LEMMA ShapeStarts == ASSUME MaxTp \in Nat, MaxUnit \in Nat, Shards!Init PROVE Shape
<1>1. /\ tp \in Nat /\ newTp \in Nat /\ newTp # 0 /\ newTp < tp /\ tp # 0
  BY DEF Shards!Init
<1>2. ASSUME NEW n \in Nat, NEW u \in Nat \ {0}, n = tp * u
      PROVE  Shards!Base(n) = u /\ Shards!Base(n) \in Nat \ {0} /\ n = tp * Shards!Base(n)
  <2>1. n = tp * u + 0
    BY <1>1, <1>2
  <2>2. n \div tp = u
    BY <1>1, <2>1, DivisionIs
  <2>3. QED
    BY <1>2, <2>2 DEF Shards!Base
<1>3. PICK k \in 1..MaxUnit : keys = tp * k
  BY DEF Shards!Init
<1>4. PICK v \in 1..MaxUnit : values = keys * v
  BY DEF Shards!Init
<1>5. PICK u \in 1..MaxUnit : queries = tp * u
  BY DEF Shards!Init
<1>6. /\ keys \in Nat /\ values \in Nat /\ queries \in Nat
      /\ values = tp * (k * v) /\ k * v \in Nat \ {0}
  <2>1. tp * k \in Nat /\ tp * u \in Nat /\ k * v \in Nat /\ k * v # 0 /\ (tp * k) * v \in Nat
    BY <1>1
  <2>2. (tp * k) * v = tp * (k * v)
    BY <1>1
  <2>3. QED
    BY <1>3, <1>4, <1>5, <2>1, <2>2
<1>7. kv \in Nat /\ kv # 0 /\ queries % kv = 0 /\ (tp % kv = 0 \/ kv % tp = 0)
  BY <1>6 DEF Shards!Init
<1>8. /\ Shards!Base(keys) \in Nat \ {0} /\ keys = tp * Shards!Base(keys)
      /\ Shards!Base(queries) \in Nat \ {0} /\ queries = tp * Shards!Base(queries)
  BY <1>2, <1>3, <1>5, <1>6
<1>9. Shards!Base(values) \in Nat \ {0} /\ values = tp * Shards!Base(values)
  BY <1>2, <1>6
<1>10. QED
  BY <1>1, <1>6, <1>7, <1>8, <1>9 DEF Shape

-----------------------------------------------------------------------------
(* Where the shards begin.                                                  *)

Small == tp \div newTp          \* the size of the first shards
Firsts == newTp - (tp % newTp)  \* how many of them there are
\* The workers before the r-th hold that many of the tp parts.
Offset(r) == (r - 1) * Small + (IF r - 1 > Firsts THEN (r - 1) - Firsts ELSE 0)

\* Shards have one of two sizes, and the last are the larger ones.
LEMMA SizesOfShards ==
    ASSUME Shape
    PROVE  /\ Small \in Nat \ {0} /\ Firsts \in 1..newTp
           /\ tp = newTp * Small + (newTp - Firsts)
           /\ \A r \in Shards!Ranks : Shards!Shardings[r] = IF r > Firsts THEN Small + 1 ELSE Small
<1>1. /\ Small \in Nat /\ tp % newTp \in Nat /\ tp % newTp < newTp
      /\ tp = newTp * Small + (tp % newTp)
  BY Division DEF Shape, Small
<1>2. Small # 0
  BY <1>1 DEF Shape
<1>3. Firsts \in 1..newTp /\ tp % newTp = newTp - Firsts
  BY <1>1 DEF Shape, Firsts
<1>4. ASSUME NEW r \in Shards!Ranks PROVE Shards!Shardings[r] = IF r > Firsts THEN Small + 1 ELSE Small
  BY <1>1 DEF Shards!Shardings, Small, Firsts
<1>5. QED
  BY <1>1, <1>2, <1>3, <1>4

\* They lie one behind the other, from the first row to the last.
LEMMA OffsetGrows ==
    ASSUME Shape
    PROVE  /\ \A r \in 1..newTp + 1 : Offset(r) \in Nat
           /\ Offset(1) = 0 /\ Offset(newTp + 1) = tp
           /\ \A r \in Shards!Ranks : /\ Shards!Shardings[r] \in Nat \ {0}
                               /\ Offset(r + 1) = Offset(r) + Shards!Shardings[r]
           /\ \A r, s \in 1..newTp + 1 : r \leq s => Offset(r) \leq Offset(s)
<1>1. newTp \in Nat
  BY DEF Shape
<1>2. ASSUME NEW r \in 1..newTp + 1 PROVE Offset(r) \in Nat
  <2>1. (r - 1) * Small \in Nat
    BY <1>1, SizesOfShards
  <2>2. QED
    BY <1>1, <2>1, SizesOfShards DEF Offset
<1>3. Offset(1) = 0
  BY SizesOfShards DEF Offset
<1>4. Offset(newTp + 1) = tp
  BY <1>1, SizesOfShards DEF Offset
<1>5. ASSUME NEW r \in Shards!Ranks
      PROVE  Shards!Shardings[r] \in Nat \ {0} /\ Offset(r + 1) = Offset(r) + Shards!Shardings[r]
  <2>1. (r + 1) - 1 = (r - 1) + 1 /\ r \in Nat /\ r >= 1 /\ r \leq newTp
    BY <1>1 DEF Shards!Ranks
  <2>2. ((r - 1) + 1) * Small = (r - 1) * Small + Small
    BY <2>1, SizesOfShards
  <2>3. (r - 1) * Small \in Nat
    BY <2>1, SizesOfShards
  <2>4. QED
    BY <2>1, <2>2, <2>3, SizesOfShards DEF Offset
<1>6. ASSUME NEW r \in 1..newTp + 1, NEW s \in 1..newTp + 1, r \leq s
      PROVE  Offset(r) \leq Offset(s)
  <2>1. (r - 1) * Small \leq (s - 1) * Small /\ (r - 1) * Small \in Nat /\ (s - 1) * Small \in Nat
    BY <1>1, <1>6, SizesOfShards, ProductGrows
  <2>2. QED
    BY <1>1, <1>6, <2>1, SizesOfShards DEF Offset
<1>7. QED
  BY <1>2, <1>3, <1>4, <1>5, <1>6

\* The sum the code takes over the shards before one, in closed form.
LEMMA BeforeIsOffset ==
    ASSUME Shape, NEW r \in 1..newTp + 1
    PROVE  Shards!Before(r) = Offset(r)
<1> DEFINE n == r - 1
           R(f) == [k \in 0..n |-> IF k = 0 THEN 0 ELSE f[k - 1] + Shards!Shardings[k]]
           sum == CHOOSE f : f = R(f)
           g == [k \in 0..n |-> Offset(k + 1)]
<1>1. n \in Nat /\ n \leq newTp /\ newTp \in Nat /\ n + 1 = r
  BY DEF Shape
<1> HIDE DEF n
<1>2. g = R(g)
  <2>1. ASSUME NEW k \in 0..n PROVE g[k] = R(g)[k]
    <3>1. CASE k = 0
      BY <3>1, OffsetGrows
    <3>2. CASE k # 0
      <4>1. k \in Shards!Ranks /\ k - 1 \in 0..n /\ (k - 1) + 1 = k
        BY <1>1, <3>2 DEF Shards!Ranks
      <4>2. Offset(k + 1) = Offset(k) + Shards!Shardings[k]
        BY <4>1, OffsetGrows
      <4>3. g[k - 1] = Offset(k)
        BY <4>1
      <4>4. QED
        BY <3>2, <4>2, <4>3
    <3>3. QED
      BY <3>1, <3>2
  <2>2. QED
    BY <2>1
<1>3. sum = R(sum)
  <2> HIDE DEF g, R
  <2>1. QED
    BY <1>2
<1>4. ASSUME NEW k \in 0..n
      PROVE  sum[k] = IF k = 0 THEN 0 ELSE sum[k - 1] + Shards!Shardings[k]
  <2> HIDE DEF sum
  <2>1. R(sum)[k] = IF k = 0 THEN 0 ELSE sum[k - 1] + Shards!Shardings[k]
    OBVIOUS
  <2> HIDE DEF R
  <2>2. QED
    BY <1>3, <2>1
<1>5. Shards!Before(r) = sum[n]
  BY Zenon DEF Shards!Before, n
<1> HIDE DEF sum
<1>6. \A k \in 0..n : sum[k] = Offset(k + 1)
  <2> DEFINE Bad == {k \in 0..n : sum[k] # Offset(k + 1)}
  <2>1. ASSUME NEW m \in Bad, \A k \in Bad : m \leq k PROVE FALSE
    <3>1. m # 0
      BY <1>4, OffsetGrows
    <3>2. m \in Shards!Ranks /\ m \in 0..n /\ m - 1 \in 0..n /\ m - 1 < m /\ (m - 1) + 1 = m
      BY <1>1, <3>1 DEF Shards!Ranks
    <3>3. sum[m - 1] = Offset(m)
      BY <2>1, <3>2
    <3>4. sum[m] = sum[m - 1] + Shards!Shardings[m]
      BY <1>4, <3>1, <3>2
    <3>5. Offset(m + 1) = Offset(m) + Shards!Shardings[m]
      BY <3>2, OffsetGrows
    <3>6. QED
      BY <3>3, <3>4, <3>5
  <2>2. Bad \in SUBSET Nat /\ (Bad = {} => \A k \in 0..n : sum[k] = Offset(k + 1))
    BY <1>1
  <2> HIDE DEF Bad
  <2>3. QED
    BY <2>1, <2>2, LeastOf
<1>7. QED
  BY <1>1, <1>5, <1>6

\* The shards cut tp parts, one after the other and without a gap.
LEMMA Cuts ==
    ASSUME Shape
    PROVE  /\ \A r \in 1..newTp + 1 : Shards!Before(r) \in Nat
           /\ Shards!Before(1) = 0 /\ Shards!Before(newTp + 1) = tp
           /\ \A r \in Shards!Ranks : /\ Shards!Shardings[r] \in Nat \ {0}
                               /\ Shards!Before(r + 1) = Shards!Before(r) + Shards!Shardings[r]
                               /\ Shards!Before(r) + Shards!Shardings[r] \leq tp
           /\ \A r, s \in Shards!Ranks : r < s => Shards!Before(r) + Shards!Shardings[r] \leq Shards!Before(s)
<1>1. newTp \in Nat /\ newTp # 0
  BY DEF Shape
<1>2. \A r \in 1..newTp + 1 : Shards!Before(r) = Offset(r)
  BY BeforeIsOffset
<1>3. 1 \in 1..newTp + 1 /\ newTp + 1 \in 1..newTp + 1
  BY <1>1
<1>4. ASSUME NEW r \in Shards!Ranks
      PROVE  /\ r \in 1..newTp + 1 /\ r + 1 \in 1..newTp + 1
             /\ Shards!Shardings[r] \in Nat \ {0} /\ Shards!Before(r + 1) = Shards!Before(r) + Shards!Shardings[r]
  <2>1. r \in 1..newTp + 1 /\ r + 1 \in 1..newTp + 1
    BY <1>1 DEF Shards!Ranks
  <2>2. QED
    BY <1>2, <2>1, OffsetGrows
<1>5. ASSUME NEW r \in 1..newTp + 1, NEW s \in 1..newTp + 1, r \leq s
      PROVE  Shards!Before(r) \leq Shards!Before(s)
  BY <1>2, <1>5, OffsetGrows
<1>6. ASSUME NEW r \in Shards!Ranks PROVE Shards!Before(r) + Shards!Shardings[r] \leq tp
  <2>1. r + 1 \leq newTp + 1
    BY <1>1 DEF Shards!Ranks
  <2>2. QED
    BY <1>2, <1>3, <1>4, <1>5, <2>1, OffsetGrows
<1>7. ASSUME NEW r \in Shards!Ranks, NEW s \in Shards!Ranks, r < s
      PROVE  Shards!Before(r) + Shards!Shardings[r] \leq Shards!Before(s)
  <2>1. r + 1 \leq s
    BY <1>1, <1>7 DEF Shards!Ranks
  <2>2. Shards!Before(r + 1) \leq Shards!Before(s)
    BY <1>4, <1>5, <2>1
  <2>3. QED
    BY <1>4, <2>2
<1>8. QED
  BY <1>2, <1>3, <1>4, <1>6, <1>7, OffsetGrows

-----------------------------------------------------------------------------
(* The loader.                                                              *)

\* Consecutive rows, and those behind others.
LEMMA RowsAre ==
    ASSUME NEW start \in Nat, NEW size \in Nat
    PROVE  /\ Shards!Rows(start, size) \in Seq(Nat) /\ Len(Shards!Rows(start, size)) = size
           /\ DOMAIN Shards!Rows(start, size) = 1..size
           /\ \A i \in 1..size : Shards!Rows(start, size)[i] = start + i
           /\ \A by \in Nat : Shards!Shifted(Shards!Rows(start, size), by) = Shards!Rows(by + start, size)
<1>1. /\ Shards!Rows(start, size) \in [1..size -> Nat]
      /\ \A i \in 1..size : Shards!Rows(start, size)[i] = start + i
  BY DEF Shards!Rows
<1>2. Shards!Rows(start, size) \in Seq(Nat) /\ Len(Shards!Rows(start, size)) = size
  BY <1>1
<1>3. ASSUME NEW by \in Nat PROVE Shards!Shifted(Shards!Rows(start, size), by) = Shards!Rows(by + start, size)
  <2>1. \A i \in 1..size : (start + i) + by = (by + start) + i
    OBVIOUS
  <2>2. QED
    BY <1>1, <2>1 DEF Shards!Shifted, Shards!Rows
<1>4. QED
  BY <1>1, <1>2, <1>3

\* What the r-th worker has of the convolution when the loader is at group g.
Part(r, g) ==
    IF g = 1 THEN <<>>
    ELSE IF g = 2 THEN Shards!MergedRows(r, keys)
    ELSE IF g = 3 THEN Shards!MergedRows(r, keys) \o Shards!Shifted(Shards!MergedRows(r, keys), keys)
    ELSE Shards!RowsOfConv(r)
\* Where group g begins in the weight.
First(g) == IF g = 1 THEN 0 ELSE IF g = 2 THEN keys
            ELSE IF g = 3 THEN 2 * keys ELSE 2 * keys + values

\* A worker's share of n heads, and where it begins.
LEMMA SharesFit ==
    ASSUME Shape, NEW r \in Shards!Ranks, NEW n \in {keys, values, queries}
    PROVE  /\ Shards!Base(n) \in Nat \ {0} /\ n = tp * Shards!Base(n) /\ n \in Nat
           /\ Shards!Shardings[r] * Shards!Base(n) \in Nat \ {0} /\ Shards!Before(r) * Shards!Base(n) \in Nat
           /\ Shards!Before(r) * Shards!Base(n) + Shards!Shardings[r] * Shards!Base(n) \leq n
<1>1. Shards!Base(n) \in Nat \ {0} /\ n = tp * Shards!Base(n) /\ tp \in Nat /\ n \in Nat
  BY DEF Shape
<1>2. /\ Shards!Shardings[r] \in Nat \ {0} /\ Shards!Before(r) \in Nat
      /\ Shards!Before(r) + Shards!Shardings[r] \leq tp
  <2>1. r \in 1..newTp + 1
    BY DEF Shards!Ranks, Shape
  <2>2. QED
    BY <2>1, Cuts
<1>3. (Shards!Before(r) + Shards!Shardings[r]) * Shards!Base(n) \leq tp * Shards!Base(n)
  BY <1>1, <1>2, ProductGrows
<1>4. (Shards!Before(r) + Shards!Shardings[r]) * Shards!Base(n) = Shards!Before(r) * Shards!Base(n) + Shards!Shardings[r] * Shards!Base(n)
  BY <1>1, <1>2
<1>5. Shards!Shardings[r] * Shards!Base(n) \in Nat \ {0} /\ Shards!Before(r) * Shards!Base(n) \in Nat
  BY <1>1, <1>2
<1>6. QED
  BY <1>1, <1>3, <1>4, <1>5

\* The rows of another group come behind those that a worker has.
LEMMA PartGrows ==
    ASSUME Shape, NEW r \in Shards!Ranks, NEW g \in 1..3
    PROVE  /\ Shards!FullDim[g] \in {keys, values, queries}
           /\ Part(r, g) \in Seq(Nat) /\ Part(r, g + 1) \in Seq(Nat)
           /\ Part(r, g + 1) = Part(r, g)
                \o Shards!Rows(First(g) + Shards!Before(r) * Shards!Base(Shards!FullDim[g]), Shards!Shardings[r] * Shards!Base(Shards!FullDim[g]))
           /\ Len(Part(r, g + 1)) = Len(Part(r, g)) + Shards!Shardings[r] * Shards!Base(Shards!FullDim[g])
           /\ First(g) \in Nat /\ First(g + 1) = First(g) + Shards!FullDim[g]
<1> DEFINE more == Shards!Rows(First(g) + Shards!Before(r) * Shards!Base(Shards!FullDim[g]),
                        Shards!Shardings[r] * Shards!Base(Shards!FullDim[g]))
<1>1. /\ Shards!FullDim[1] = keys /\ Shards!FullDim[2] = keys /\ Shards!FullDim[3] = values
      /\ Shards!FullDim[g] \in {keys, values, queries}
  BY DEF Shards!FullDim
<1>2. keys \in Nat /\ values \in Nat
  BY DEF Shape
<1>3. First(g) \in Nat /\ First(g + 1) = First(g) + Shards!FullDim[g]
  BY <1>1, <1>2 DEF First
<1>4. /\ Shards!Before(r) * Shards!Base(Shards!FullDim[g]) \in Nat /\ Shards!Shardings[r] * Shards!Base(Shards!FullDim[g]) \in Nat
      /\ Shards!Before(r) * Shards!Base(keys) \in Nat /\ Shards!Shardings[r] * Shards!Base(keys) \in Nat
      /\ Shards!Before(r) * Shards!Base(values) \in Nat /\ Shards!Shardings[r] * Shards!Base(values) \in Nat
  BY <1>1, SharesFit
<1>5. more \in Seq(Nat) /\ Len(more) = Shards!Shardings[r] * Shards!Base(Shards!FullDim[g])
  <2>1. First(g) + Shards!Before(r) * Shards!Base(Shards!FullDim[g]) \in Nat
    BY <1>3, <1>4
  <2>2. QED
    BY <1>4, <2>1, RowsAre
<1>6. /\ Shards!MergedRows(r, keys) \in Seq(Nat)
      /\ Shards!MergedRows(r, keys) = Shards!Rows(Shards!Before(r) * Shards!Base(keys), Shards!Shardings[r] * Shards!Base(keys))
      /\ Shards!Shifted(Shards!MergedRows(r, keys), keys)
           = Shards!Rows(keys + Shards!Before(r) * Shards!Base(keys), Shards!Shardings[r] * Shards!Base(keys))
      /\ Shards!Shifted(Shards!MergedRows(r, values), 2 * keys)
           = Shards!Rows(2 * keys + Shards!Before(r) * Shards!Base(values), Shards!Shardings[r] * Shards!Base(values))
  <2>1. Shards!MergedRows(r, keys) \in Seq(Nat)
    BY <1>4, RowsAre DEF Shards!MergedRows
  <2>2. Shards!Shifted(Shards!MergedRows(r, keys), keys)
           = Shards!Rows(keys + Shards!Before(r) * Shards!Base(keys), Shards!Shardings[r] * Shards!Base(keys))
    BY <1>2, <1>4, RowsAre DEF Shards!MergedRows
  <2>3. Shards!Shifted(Shards!MergedRows(r, values), 2 * keys)
           = Shards!Rows(2 * keys + Shards!Before(r) * Shards!Base(values), Shards!Shardings[r] * Shards!Base(values))
    <3>1. 2 * keys \in Nat
      BY <1>2
    <3>2. QED
      BY <1>4, <3>1, RowsAre DEF Shards!MergedRows
  <2>4. QED
    BY <2>1, <2>2, <2>3 DEF Shards!MergedRows
<1>7. Shards!Shifted(Shards!MergedRows(r, keys), keys) \in Seq(Nat)
  <2>1. keys + Shards!Before(r) * Shards!Base(keys) \in Nat
    BY <1>2, <1>4
  <2>2. QED
    BY <1>4, <1>6, <2>1, RowsAre
<1>8. Part(r, g) \in Seq(Nat)
  BY <1>6, <1>7, ConcatProperties DEF Part
<1>9. Part(r, g + 1) = Part(r, g) \o more
  <2>1. CASE g = 1
    <3>1. <<>> \o Shards!MergedRows(r, keys) = Shards!MergedRows(r, keys)
      BY <1>6, ConcatEmptySeq
    <3>2. First(1) + Shards!Before(r) * Shards!Base(keys) = Shards!Before(r) * Shards!Base(keys)
      BY <1>4 DEF First
    <3>3. QED
      BY <1>1, <1>6, <2>1, <3>1, <3>2 DEF Part
  <2>2. CASE g = 2
    BY <1>1, <1>6, <2>2 DEF Part, First
  <2>3. CASE g = 3
    BY <1>1, <1>6, <2>3 DEF Part, First, Shards!RowsOfConv
  <2>4. QED
    BY <2>1, <2>2, <2>3
<1> HIDE DEF more
<1>10. Part(r, g + 1) \in Seq(Nat) /\ Len(Part(r, g + 1)) = Len(Part(r, g)) + Len(more)
  BY <1>5, <1>8, <1>9, ConcatProperties
<1>11. QED
  BY <1>1, <1>3, <1>5, <1>8, <1>9, <1>10 DEF more

\* Where the loader is, and what the workers have until then.
LoaderInv ==
    /\ Shape /\ rank \in Shards!Ranks /\ group \in 1..4
    /\ conv \in Seq(Seq(Nat)) /\ Len(conv) = rank
    /\ \A r \in 1..(rank - 1) : conv[r] = Shards!RowsOfConv(r)
    /\ conv[rank] = Part(rank, group)
    /\ boundary = Len(conv[rank]) /\ loadedBoundary = First(group)

\* The loader starts with nothing loaded,
LEMMA LoaderStarts == ASSUME MaxTp \in Nat, MaxUnit \in Nat, Shards!Init PROVE LoaderInv
<1>1. Shape
  BY ShapeStarts
<1>2. rank = 1 /\ group = 1 /\ boundary = 0 /\ loadedBoundary = 0 /\ conv = <<<<>>>>
  BY DEF Shards!Init
<1>3. rank \in Shards!Ranks /\ 1..(rank - 1) = {}
  BY <1>1, <1>2 DEF Shape, Shards!Ranks
<1>4. conv \in Seq(Seq(Nat)) /\ Len(conv) = 1 /\ conv[1] = <<>> /\ Len(<<>>) = 0
  <2>1. <<>> \in Seq(Nat)
    OBVIOUS
  <2>2. QED
    BY <1>2, <2>1
<1>5. QED
  BY <1>1, <1>2, <1>3, <1>4 DEF LoaderInv, Part, First

\* the sizes stay while it loads, and what is made of them,
LEMMA ShapeStays ==
    ASSUME UNCHANGED Shards!shape
    PROVE  /\ Shape' = Shape /\ Shards!Ranks' = Shards!Ranks /\ newTp' = newTp
           /\ \A r : Shards!RowsOfConv(r)' = Shards!RowsOfConv(r)
           /\ \A r, g : Part(r, g)' = Part(r, g)
           /\ \A g : First(g)' = First(g)
<1>1. /\ tp' = tp /\ newTp' = newTp /\ keys' = keys /\ values' = values
      /\ queries' = queries /\ kv' = kv
  BY DEF Shards!shape
<1>2. Shards!Ranks' = Shards!Ranks /\ Shards!Shardings' = Shards!Shardings
  BY <1>1 DEF Shards!Ranks, Shards!Shardings
<1>3. \A r : Shards!Before(r)' = Shards!Before(r)
  BY <1>2 DEF Shards!Before
<1>4. \A n : Shards!Base(n)' = Shards!Base(n)
  BY <1>1 DEF Shards!Base
<1>5. Shape' = Shape
  BY <1>1 DEF Shape, Shards!Base
<1>6. \A r : Shards!RowsOfConv(r)' = Shards!RowsOfConv(r)
  BY <1>1, <1>2, <1>3 DEF Shards!RowsOfConv, Shards!MergedRows, Shards!Shifted, Shards!Rows, Shards!Base
<1>7. \A r, g : Part(r, g)' = Part(r, g)
  BY <1>1, <1>2, <1>3, <1>6 DEF Part, Shards!MergedRows, Shards!Shifted, Shards!Rows, Shards!Base
<1>8. \A g : First(g)' = First(g)
  BY <1>1 DEF First
<1>9. QED
  BY <1>1, <1>2, <1>5, <1>6, <1>7, <1>8

\* and every entry of shard_spec loads the worker's rows of its group.
LEMMA LoaderGoesOn == ASSUME LoaderInv, [Shards!Next]_Shards!vars PROVE LoaderInv'
<1>0. /\ Shape /\ rank \in Shards!Ranks /\ group \in 1..4
      /\ conv \in Seq(Seq(Nat)) /\ Len(conv) = rank
      /\ \A r \in 1..(rank - 1) : conv[r] = Shards!RowsOfConv(r)
      /\ conv[rank] = Part(rank, group)
      /\ boundary = Len(conv[rank]) /\ loadedBoundary = First(group)
      /\ rank \in 1..rank /\ rank \in Nat
  BY DEF LoaderInv, Shards!Ranks
<1>1. CASE UNCHANGED Shards!vars
  <2>1. UNCHANGED <<Shards!shape, rank, group, conv, boundary, loadedBoundary>>
    BY <1>1 DEF Shards!vars
  <2>2. QED
    BY <1>0, <2>1, ShapeStays DEF LoaderInv
<1>2. CASE Shards!LoadGroup
  <2> DEFINE size == Shards!Shardings[rank] * Shards!Base(Shards!FullDim[group])
             skip == Shards!Before(rank) * Shards!Base(Shards!FullDim[group])
             take == IF size < Shards!FullDim[group] - skip THEN size ELSE Shards!FullDim[group] - skip
             start == loadedBoundary + skip
             more == Shards!Rows(start, size)
  <2>1. /\ group \leq 3 /\ rank' = rank /\ group' = group + 1 /\ UNCHANGED Shards!shape
        /\ conv' = [conv EXCEPT ![rank] = SubSeq(@, 1, boundary) \o Shards!Rows(start, take)]
        /\ boundary' = boundary + size /\ loadedBoundary' = loadedBoundary + Shards!FullDim[group]
    BY <1>2 DEF Shards!LoadGroup, Shards!Rows
  <2>2. group \in 1..3 /\ group + 1 \in 1..4
    BY <1>0, <2>1
  <2>3. /\ Shards!FullDim[group] \in {keys, values, queries}
        /\ Part(rank, group) \in Seq(Nat) /\ Part(rank, group + 1) \in Seq(Nat)
        /\ Part(rank, group + 1) = Part(rank, group) \o more
        /\ Len(Part(rank, group + 1)) = Len(Part(rank, group)) + size
        /\ First(group) \in Nat /\ First(group + 1) = First(group) + Shards!FullDim[group]
    BY <1>0, <2>2, PartGrows
  <2>4. /\ size \in Nat /\ skip \in Nat /\ Shards!FullDim[group] \in Nat
        /\ skip + size \leq Shards!FullDim[group]
    BY <1>0, <2>3, SharesFit
  <2>5. take = size
    BY <2>4
  <2> HIDE DEF take, size, skip, start
  <2>6. SubSeq(conv[rank], 1, boundary) = conv[rank]
    BY <1>0, <2>3, SubSeqFull
  <2> HIDE DEF more
  <2>7. conv' = [conv EXCEPT ![rank] = Part(rank, group + 1)]
    BY <1>0, <2>1, <2>3, <2>5, <2>6 DEF more
  <2>8. conv' \in Seq(Seq(Nat)) /\ Len(conv') = rank
    BY <1>0, <2>3, <2>7, ExceptSeq
  <2>9. conv'[rank] = Part(rank, group + 1) /\ \A r \in 1..(rank - 1) : conv'[r] = conv[r]
    <3>1. DOMAIN conv = 1..rank
      BY <1>0, LenProperties
    <3>2. QED
      BY <1>0, <2>7, <3>1
  <2>10. boundary' = Len(conv'[rank])
    BY <1>0, <2>1, <2>3, <2>9
  <2>11. loadedBoundary' = First(group')
    BY <1>0, <2>1, <2>3
  <2>12. QED
    BY <1>0, <2>1, <2>2, <2>8, <2>9, <2>10, <2>11, ShapeStays DEF LoaderInv
<1>3. CASE Shards!NextWorker
  <2>1. /\ group = 4 /\ rank < newTp /\ rank' = rank + 1 /\ group' = 1
        /\ boundary' = 0 /\ loadedBoundary' = 0 /\ conv' = Append(conv, <<>>)
        /\ UNCHANGED Shards!shape
    BY <1>3 DEF Shards!NextWorker
  <2>2. rank' \in Shards!Ranks /\ rank' - 1 = rank
    BY <1>0, <2>1 DEF Shards!Ranks, Shape
  <2>3. <<>> \in Seq(Nat) /\ Len(<<>>) = 0
    OBVIOUS
  <2>4. /\ conv' \in Seq(Seq(Nat)) /\ Len(conv') = rank' /\ conv'[rank'] = <<>>
        /\ \A r \in 1..rank : conv'[r] = conv[r]
    BY <1>0, <2>1, <2>3, AppendProperties
  <2>5. conv[rank] = Shards!RowsOfConv(rank)
    BY <1>0, <2>1 DEF Part
  <2>6. \A r \in 1..rank : conv'[r] = Shards!RowsOfConv(r)
    <3>1. \A r \in 1..rank : r = rank \/ r \in 1..(rank - 1)
      BY <1>0
    <3>2. QED
      BY <1>0, <2>4, <2>5, <3>1
  <2>7. Part(rank', 1) = <<>> /\ First(1) = 0
    BY DEF Part, First
  <2>8. QED
    BY <1>0, <2>1, <2>2, <2>3, <2>4, <2>6, <2>7, ShapeStays DEF LoaderInv
<1>4. QED
  BY <1>1, <1>2, <1>3 DEF Shards!Next

-----------------------------------------------------------------------------
(* The layers.                                                              *)

\* The convolution has the rows of the projection and of the state.
LEMMA LoaderMakesLayersAgree == ASSUME LoaderInv PROVE Shards!LayersAgree
<1>1. Shape /\ rank \in Shards!Ranks /\ group \in 1..4 /\ newTp \in Nat
  BY DEF LoaderInv, Shape
<1> SUFFICES ASSUME NEW r \in Shards!Loaded
             PROVE  /\ conv[r] = Shards!RowsOfConv(r)
                    /\ tp \leq Shards!ExactTp => Shards!StateRows(r) = {Len(conv[r])}
                    /\ Shards!MergedRows(r, values) = Shards!HeadRows(r)
                    /\ Shards!HeadRows(r) = Shards!RowParallelRows(r, values)
  BY DEF Shards!LayersAgree
<1>2. r \in Shards!Ranks /\ conv[r] = Shards!RowsOfConv(r)
  <2>1. r \in Shards!Ranks /\ (r \in 1..(rank - 1) \/ (r = rank /\ group = 4))
    BY <1>1 DEF Shards!Loaded, Shards!Ranks
  <2>2. Part(rank, 4) = Shards!RowsOfConv(rank)
    BY DEF Part
  <2>3. QED
    BY <2>1, <2>2 DEF LoaderInv
<1> DEFINE S == Shards!Shardings[r]
           k == Shards!Base(keys)
           v == Shards!Base(values)
<1>3. /\ S \in Nat \ {0} /\ k \in Nat /\ v \in Nat /\ tp \in Nat \ {0}
      /\ keys = tp * k /\ values = tp * v /\ Shards!Before(r) \in Nat
  <2>1. r \in 1..newTp + 1
    BY <1>1, <1>2 DEF Shards!Ranks
  <2>2. QED
    BY <1>1, <1>2, <2>1, Cuts DEF Shape
<1> HIDE DEF S, k, v
<1>4. S * k \in Nat /\ S * v \in Nat /\ Shards!Before(r) * k \in Nat /\ Shards!Before(r) * v \in Nat
  BY <1>3
<1>5. Len(Shards!RowsOfConv(r)) = S * k + S * k + S * v
  <2>1. /\ Shards!FullDim[1] = keys /\ Shards!FullDim[2] = keys /\ Shards!FullDim[3] = values
    BY DEF Shards!FullDim
  <2>2. Len(Part(r, 1)) = 0 /\ Part(r, 4) = Shards!RowsOfConv(r)
    BY DEF Part
  <2>3. \A g \in 1..3 : Len(Part(r, g + 1)) = Len(Part(r, g)) + Shards!Shardings[r] * Shards!Base(Shards!FullDim[g])
    BY <1>1, <1>2, PartGrows
  <2>4. Len(Part(r, 2)) = Len(Part(r, 1)) + S * k
    BY <2>1, <2>3 DEF S, k
  <2>5. Len(Part(r, 3)) = Len(Part(r, 2)) + S * k
    BY <2>1, <2>3 DEF S, k
  <2>6. Len(Part(r, 4)) = Len(Part(r, 3)) + S * v
    BY <2>1, <2>3 DEF S, v
  <2>7. Len(Part(r, 2)) = S * k
    BY <2>2, <2>4, <1>4
  <2>8. Len(Part(r, 3)) = S * k + S * k
    BY <2>5, <2>7, <1>4
  <2>9. Len(Part(r, 4)) = S * k + S * k + S * v
    BY <2>6, <2>8, <1>4
  <2>10. QED
    BY <2>2, <2>9
<1>6. tp \leq Shards!ExactTp => Shards!StateRows(r) = {S * k + S * k + S * v}
  <2>1. (2 * keys + values) * S = tp * (S * k + S * k + S * v) + 0
    BY <1>3
  <2>2. S * k + S * k + S * v \in Nat /\ (2 * keys + values) * S \in Nat
    BY <1>3, <1>4
  <2>3. ((2 * keys + values) * S) \div tp = S * k + S * k + S * v
    BY <1>3, <2>1, <2>2, DivisionIs
  <2>4. QED
    BY <2>3 DEF Shards!StateRows, S
<1>7. Shards!MergedRows(r, values) = Shards!HeadRows(r)
  <2>1. values * S = tp * (S * v) + 0 /\ values * S \in Nat
    BY <1>3
  <2>2. (values * S) \div tp = S * v
    BY <1>3, <1>4, <2>1, DivisionIs
  <2>3. QED
    BY <2>2 DEF Shards!MergedRows, Shards!HeadRows, S, v
<1>8. Shards!MergedRows(r, values) = Shards!RowParallelRows(r, values)
  <2>1. v * S = S * v + 0 /\ v * S \in Nat /\ v * S = S * v
    BY <1>3
  <2>2. (v * S) \div S = v
    BY <1>3, <2>1, DivisionIs
  <2>3. v * Shards!Before(r) = Shards!Before(r) * v
    BY <1>3
  <2>4. QED
    BY <2>1, <2>2, <2>3 DEF Shards!MergedRows, Shards!RowParallelRows, S, v
<1>9. QED
  BY <1>2, <1>5, <1>6, <1>7, <1>8
-----------------------------------------------------------------------------
(* Each row has one place.                                                  *)

\* The r-th worker has row x of the n rows of a group.
Owns(r, n, x) == /\ Shards!Before(r) * Shards!Base(n) < x
                 /\ x \leq Shards!Before(r) * Shards!Base(n) + Shards!Shardings[r] * Shards!Base(n)

\* Each row of a weight belongs to exactly one worker.
LEMMA OneOwner ==
    ASSUME Shape, NEW n \in {keys, values, queries}, NEW x \in 1..n
    PROVE  \E r \in Shards!Ranks : Owns(r, n, x) /\ \A s \in Shards!Ranks : Owns(s, n, x) => s = r
<1> DEFINE b == Shards!Base(n)
           Reach == {r \in Shards!Ranks : x \leq Shards!Before(r) * b + Shards!Shardings[r] * b}
<1>1. newTp \in Nat /\ newTp # 0 /\ tp \in Nat /\ Shards!Base(n) \in Nat \ {0} /\ n = tp * Shards!Base(n)
  BY DEF Shape
<1>2. ASSUME NEW r \in Shards!Ranks
      PROVE  /\ Shards!Before(r) \in Nat /\ Shards!Shardings[r] \in Nat \ {0} /\ Shards!Before(r) * b \in Nat
             /\ Shards!Before(r + 1) = Shards!Before(r) + Shards!Shardings[r]
             /\ Shards!Before(r + 1) * b = Shards!Before(r) * b + Shards!Shardings[r] * b
             /\ Shards!Before(r) * b + Shards!Shardings[r] * b \in Nat
  <2>1. r \in 1..newTp + 1
    BY <1>1 DEF Shards!Ranks
  <2>2. Shards!Before(r) \in Nat /\ Shards!Shardings[r] \in Nat \ {0} /\ Shards!Before(r + 1) = Shards!Before(r) + Shards!Shardings[r]
    BY <2>1, Cuts
  <2>3. QED
    BY <1>1, <2>2
<1>3. newTp \in Reach
  <2>1. newTp \in Shards!Ranks /\ Shards!Before(newTp + 1) = tp
    BY <1>1, Cuts DEF Shards!Ranks
  <2>2. QED
    BY <1>1, <1>2, <2>1
<1>4. PICK r \in Reach : \A s \in Reach : r \leq s
  <2>1. Reach \in SUBSET Nat /\ Reach # {}
    BY <1>1, <1>3 DEF Shards!Ranks
  <2> HIDE DEF Reach
  <2>2. QED
    BY <2>1, LeastOf
<1>5. r \in Shards!Ranks /\ x \in Nat /\ x >= 1 /\ b \in Nat /\ r \in Nat
  BY <1>1, <1>4 DEF Shards!Ranks, Shape
<1>6. Shards!Before(r) * b < x
  <2>1. CASE r = 1
    <3>1. Shards!Before(1) = 0
      BY Cuts
    <3>2. QED
      BY <1>5, <2>1, <3>1
  <2>2. CASE r # 1
    <3>1. r - 1 \in Shards!Ranks /\ (r - 1) + 1 = r /\ r - 1 < r
      BY <1>1, <1>5, <2>2 DEF Shards!Ranks
    <3>2. r - 1 \notin Reach
      BY <1>4, <1>5, <3>1
    <3>3. ~(x \leq Shards!Before(r) * b)
      BY <1>2, <3>1, <3>2
    <3>4. QED
      BY <1>2, <1>5, <3>3
  <2>3. QED
    BY <2>1, <2>2
<1>7. Owns(r, n, x)
  BY <1>4, <1>6 DEF Owns
<1>8. ASSUME NEW s \in Shards!Ranks, NEW t \in Shards!Ranks, s < t, Owns(s, n, x), Owns(t, n, x) PROVE FALSE
  <2>1. Shards!Before(s) + Shards!Shardings[s] \leq Shards!Before(t)
    BY <1>8, Cuts
  <2>2. (Shards!Before(s) + Shards!Shardings[s]) * b \leq Shards!Before(t) * b
    <3>1. Shards!Before(s) + Shards!Shardings[s] \in Nat /\ Shards!Before(t) \in Nat
      BY <1>2
    <3>2. QED
      BY <1>5, <2>1, <3>1, ProductGrows
  <2>3. (Shards!Before(s) + Shards!Shardings[s]) * b = Shards!Before(s) * b + Shards!Shardings[s] * b
    BY <1>2, <1>5
  <2>4. QED
    BY <1>2, <1>5, <1>8, <2>2, <2>3 DEF Owns
<1>9. ASSUME NEW s \in Shards!Ranks, Owns(s, n, x) PROVE s = r
  <2>1. s < r \/ r < s \/ s = r
    BY <1>1, <1>5 DEF Shards!Ranks
  <2>2. QED
    BY <1>5, <1>7, <1>8, <1>9, <2>1
<1>10. QED
  BY <1>5, <1>7, <1>9

\* Where the r-th worker has row x of group g.
PlaceOf(r, g, x) == Len(Part(r, g)) + (x - Shards!Before(r) * Shards!Base(Shards!FullDim[g]))

\* The rows of group g that the r-th worker takes, and what it has before.
Size(r, g) == Shards!Shardings[r] * Shards!Base(Shards!FullDim[g])
Skip(r, g) == Shards!Before(r) * Shards!Base(Shards!FullDim[g])
Taken(r, g) == Len(Part(r, g))
More(r, g) == Shards!Rows(First(g) + Skip(r, g), Size(r, g))

\* How many rows of a group a worker takes, and skips.
LEMMA RowsAreTaken ==
    ASSUME Shape, NEW r \in Shards!Ranks, NEW g \in 1..3
    PROVE  /\ Size(r, g) \in Nat /\ Skip(r, g) \in Nat /\ Taken(r, g) \in Nat
           /\ First(g) \in Nat /\ Taken(r, g + 1) = Taken(r, g) + Size(r, g)
<1>1. /\ Shards!FullDim[g] \in {keys, values, queries} /\ Part(r, g) \in Seq(Nat)
      /\ Taken(r, g + 1) = Taken(r, g) + Size(r, g) /\ First(g) \in Nat
  BY PartGrows DEF Taken, Size
<1>2. Size(r, g) \in Nat /\ Skip(r, g) \in Nat
  BY <1>1, SharesFit DEF Size, Skip
<1>3. Taken(r, g) \in Nat
  BY <1>1, LenProperties DEF Taken
<1>4. QED
  BY <1>1, <1>2, <1>3

\* Where the rows of a group are when it was loaded.
LEMMA GroupsAreAdded ==
    ASSUME Shape, NEW r \in Shards!Ranks, NEW g \in 1..3
    PROVE  /\ \A i \in 1..Taken(r, g) : Part(r, g + 1)[i] = Part(r, g)[i]
           /\ \A i \in 1..Size(r, g) :
                Part(r, g + 1)[Taken(r, g) + i] = (First(g) + Skip(r, g)) + i
<1>1. Size(r, g) \in Nat /\ Skip(r, g) \in Nat /\ Taken(r, g) \in Nat /\ First(g) \in Nat
  BY RowsAreTaken
<1>2. Part(r, g) \in Seq(Nat) /\ Part(r, g + 1) = Part(r, g) \o More(r, g)
  BY PartGrows DEF More, Size, Skip
<1>3. /\ More(r, g) \in Seq(Nat) /\ Len(More(r, g)) = Size(r, g)
      /\ \A i \in 1..Size(r, g) : More(r, g)[i] = (First(g) + Skip(r, g)) + i
  <2>1. First(g) + Skip(r, g) \in Nat
    BY <1>1
  <2>2. QED
    BY <1>1, <2>1, RowsAre DEF More
<1>4. \A i \in 1..(Taken(r, g) + Size(r, g)) :
        Part(r, g + 1)[i] = IF i \leq Taken(r, g) THEN Part(r, g)[i]
                            ELSE More(r, g)[i - Taken(r, g)]
  <2>1. \A i \in 1..(Len(Part(r, g)) + Len(More(r, g))) :
          (Part(r, g) \o More(r, g))[i] = IF i \leq Len(Part(r, g)) THEN Part(r, g)[i]
                                          ELSE More(r, g)[i - Len(Part(r, g))]
    BY <1>2, <1>3, ConcatProperties
  <2>2. QED
    BY <1>2, <1>3, <2>1, Zenon DEF Taken
<1>5. ASSUME NEW i \in 1..Taken(r, g) PROVE Part(r, g + 1)[i] = Part(r, g)[i]
  <2>1. i \in 1..(Taken(r, g) + Size(r, g)) /\ i \leq Taken(r, g)
    BY <1>1
  <2>2. QED
    BY <1>4, <2>1
<1>6. ASSUME NEW i \in 1..Size(r, g)
      PROVE  Part(r, g + 1)[Taken(r, g) + i] = (First(g) + Skip(r, g)) + i
  <2>1. /\ Taken(r, g) + i \in 1..(Taken(r, g) + Size(r, g))
        /\ ~(Taken(r, g) + i \leq Taken(r, g)) /\ (Taken(r, g) + i) - Taken(r, g) = i
    BY <1>1
  <2>2. QED
    BY <1>3, <1>4, <2>1
<1>7. QED
  BY <1>5, <1>6

\* The rows of a worker are those it owns of each group, each at its place.
LEMMA RowsOfWorker ==
    ASSUME Shape, NEW r \in Shards!Ranks
    PROVE  /\ \A g \in 1..3 : \A x \in Nat : Owns(r, Shards!FullDim[g], x) =>
                /\ PlaceOf(r, g, x) \in DOMAIN Shards!RowsOfConv(r)
                /\ Shards!RowsOfConv(r)[PlaceOf(r, g, x)] = First(g) + x
           /\ \A j \in DOMAIN Shards!RowsOfConv(r) :
                \E g \in 1..3 : \E x \in Nat : Owns(r, Shards!FullDim[g], x) /\ j = PlaceOf(r, g, x)
<1>3. Taken(r, 1) = 0 /\ Part(r, 4) = Shards!RowsOfConv(r)
  BY DEF Part, Taken
<1>4. ASSUME NEW g \in 1..3
      PROVE  /\ \A i \in 1..Taken(r, g) : Part(r, g + 1)[i] = Part(r, g)[i]
             /\ \A i \in 1..Size(r, g) :
                  Part(r, g + 1)[Taken(r, g) + i] = (First(g) + Skip(r, g)) + i
  BY GroupsAreAdded
<1>5. /\ 1 \in 1..3 /\ 2 \in 1..3 /\ 3 \in 1..3 /\ 1 + 1 = 2 /\ 2 + 1 = 3 /\ 3 + 1 = 4
  OBVIOUS
<1>6. /\ Taken(r, 2) = Size(r, 1) /\ Taken(r, 3) = Size(r, 1) + Size(r, 2)
      /\ Taken(r, 4) = Size(r, 1) + Size(r, 2) + Size(r, 3)
      /\ Size(r, 1) \in Nat /\ Size(r, 2) \in Nat /\ Size(r, 3) \in Nat
  <2>1. Taken(r, 2) = Taken(r, 1) + Size(r, 1) /\ Taken(r, 3) = Taken(r, 2) + Size(r, 2) /\ Taken(r, 4) = Taken(r, 3) + Size(r, 3)
    BY RowsAreTaken, <1>5
  <2>2. QED
    BY RowsAreTaken, <1>3, <1>5, <2>1
<1>7. DOMAIN Shards!RowsOfConv(r) = 1..(Size(r, 1) + Size(r, 2) + Size(r, 3))
  <2>1. Part(r, 3 + 1) \in Seq(Nat)
    BY <1>5, PartGrows
  <2>2. DOMAIN Part(r, 4) = 1..Taken(r, 4)
    BY <1>5, <2>1, LenProperties DEF Taken
  <2>3. QED
    BY <1>3, <1>6, <2>2
<1>8. ASSUME NEW g \in 1..3, NEW i \in 1..Size(r, g)
      PROVE  /\ Taken(r, g) + i \in DOMAIN Shards!RowsOfConv(r)
             /\ Shards!RowsOfConv(r)[Taken(r, g) + i] = (First(g) + Skip(r, g)) + i
  <2>1. Part(r, g + 1)[Taken(r, g) + i] = (First(g) + Skip(r, g)) + i
    BY <1>4
  <2>2. CASE g = 1
    <3>1. Taken(r, 1) + i = i /\ i \in 1..Taken(r, 2) /\ i \in 1..Taken(r, 3) /\ i \in 1..(Size(r, 1) + Size(r, 2) + Size(r, 3))
      BY <1>3, <1>6, <2>2
    <3>2. Part(r, 3)[i] = Part(r, 2)[i] /\ Part(r, 4)[i] = Part(r, 3)[i]
      BY <1>4, <1>5, <3>1
    <3>3. QED
      BY <1>3, <1>5, <1>7, <2>1, <2>2, <3>1, <3>2
  <2>3. CASE g = 2
    <3>1. Taken(r, 2) + i \in 1..Taken(r, 3) /\ Taken(r, 2) + i \in 1..(Size(r, 1) + Size(r, 2) + Size(r, 3))
      BY <1>6, <2>3
    <3>2. Part(r, 4)[Taken(r, 2) + i] = Part(r, 3)[Taken(r, 2) + i]
      BY <1>4, <1>5, <3>1
    <3>3. QED
      BY <1>3, <1>5, <1>7, <2>1, <2>3, <3>1, <3>2
  <2>4. CASE g = 3
    <3>1. Taken(r, 3) + i \in 1..(Size(r, 1) + Size(r, 2) + Size(r, 3))
      BY <1>6, <2>4
    <3>2. QED
      BY <1>3, <1>5, <1>7, <2>1, <2>4, <3>1
  <2>5. QED
    BY <2>2, <2>3, <2>4
<1>9. ASSUME NEW g \in 1..3, NEW x \in Nat, Owns(r, Shards!FullDim[g], x)
      PROVE  /\ PlaceOf(r, g, x) \in DOMAIN Shards!RowsOfConv(r)
             /\ Shards!RowsOfConv(r)[PlaceOf(r, g, x)] = First(g) + x
  <2>1. Skip(r, g) < x /\ x \leq Skip(r, g) + Size(r, g) /\ PlaceOf(r, g, x) = Taken(r, g) + (x - Skip(r, g))
    BY <1>9 DEF Owns, PlaceOf, Size, Skip, Taken
  <2>2. x - Skip(r, g) \in 1..Size(r, g) /\ (First(g) + Skip(r, g)) + (x - Skip(r, g)) = First(g) + x
    BY RowsAreTaken, <2>1
  <2>3. QED
    BY <1>8, <2>1, <2>2
<1>10. ASSUME NEW j \in DOMAIN Shards!RowsOfConv(r)
       PROVE  \E g \in 1..3 : \E x \in Nat : Owns(r, Shards!FullDim[g], x) /\ j = PlaceOf(r, g, x)
  <2> SUFFICES \E g \in 1..3 : \E i \in 1..Size(r, g) : j = Taken(r, g) + i
    <3>1. PICK g \in 1..3, i \in 1..Size(r, 1) \cup 1..Size(r, 2) \cup 1..Size(r, 3) :
             i \in 1..Size(r, g) /\ j = Taken(r, g) + i
      <4>1. PICK g \in 1..3 : \E i \in 1..Size(r, g) : j = Taken(r, g) + i
        OBVIOUS
      <4>2. PICK i \in 1..Size(r, g) : j = Taken(r, g) + i
        BY <4>1
      <4>3. QED
        BY <4>2
    <3>2. Skip(r, g) + i \in Nat /\ Skip(r, g) < Skip(r, g) + i /\ Skip(r, g) + i \leq Skip(r, g) + Size(r, g)
      <4>1. QED
        BY RowsAreTaken, <3>1
    <3>3. Taken(r, g) + ((Skip(r, g) + i) - Skip(r, g)) = Taken(r, g) + i
      <4>1. QED
        BY RowsAreTaken, <3>1
    <3>4. Owns(r, Shards!FullDim[g], Skip(r, g) + i) /\ j = PlaceOf(r, g, Skip(r, g) + i)
      BY <3>1, <3>2, <3>3 DEF Owns, PlaceOf, Size, Skip, Taken
    <3>5. QED
      BY <3>2, <3>4
  <2>1. j \in 1..(Size(r, 1) + Size(r, 2) + Size(r, 3))
    BY <1>7
  <2>2. CASE j \leq Size(r, 1)
    <3>1. j \in 1..Size(r, 1) /\ j = Taken(r, 1) + j
      BY <1>3, <2>1, <2>2
    <3>2. QED
      BY <3>1
  <2>3. CASE ~(j \leq Size(r, 1)) /\ j \leq Size(r, 1) + Size(r, 2)
    <3>1. j - Size(r, 1) \in 1..Size(r, 2) /\ j = Taken(r, 2) + (j - Size(r, 1))
      BY <1>6, <2>1, <2>3
    <3>2. QED
      BY <3>1
  <2>4. CASE ~(j \leq Size(r, 1) + Size(r, 2))
    <3>1. /\ j - (Size(r, 1) + Size(r, 2)) \in 1..Size(r, 3)
          /\ j = Taken(r, 3) + (j - (Size(r, 1) + Size(r, 2)))
      BY <1>6, <2>1, <2>4
    <3>2. QED
      BY <3>1
  <2>5. QED
    BY <2>2, <2>3, <2>4
<1>11. QED
  BY <1>9, <1>10

\* Each row of the convolution is loaded by one worker, in one place.
LEMMA LoaderMakesWeightsWhole == ASSUME LoaderInv PROVE Shards!WeightsAreWhole
<1> SUFFICES ASSUME Shards!Loaded = Shards!Ranks, NEW row \in 1..(2 * keys + values)
             PROVE  \E p \in Shards!Held(row) : Shards!Held(row) = {p}
  BY DEF Shards!WeightsAreWhole
<1>1. /\ Shape /\ rank \in Shards!Ranks /\ keys \in Nat /\ values \in Nat
      /\ \A r \in Shards!Ranks : conv[r] = Shards!RowsOfConv(r)
  BY LoaderMakesLayersAgree DEF LoaderInv, Shards!LayersAgree, Shape
<1>2. PICK g \in 1..3 : row - First(g) \in 1..Shards!FullDim[g]
  <2>1. /\ Shards!FullDim[1] = keys /\ Shards!FullDim[2] = keys /\ Shards!FullDim[3] = values
        /\ First(1) = 0 /\ First(2) = keys /\ First(3) = 2 * keys
    BY DEF Shards!FullDim, First
  <2>2. \/ row - First(1) \in 1..Shards!FullDim[1] \/ row - First(2) \in 1..Shards!FullDim[2]
        \/ row - First(3) \in 1..Shards!FullDim[3]
    BY <1>1, <2>1
  <2>3. QED
    BY <2>2
<1> DEFINE x == row - First(g)
<1>3. /\ Shards!FullDim[g] \in {keys, values, queries} /\ First(g) \in Nat /\ x \in Nat
      /\ First(g) + x = row
  <2>1. Shards!FullDim[g] \in {keys, values, queries} /\ First(g) \in Nat
    BY <1>1, PartGrows
  <2>2. QED
    BY <1>1, <1>2, <2>1
<1> HIDE DEF x
<1>4. x \in 1..Shards!FullDim[g]
  BY <1>2 DEF x
<1>5. PICK r \in Shards!Ranks : Owns(r, Shards!FullDim[g], x) /\ \A s \in Shards!Ranks : Owns(s, Shards!FullDim[g], x) => s = r
  BY <1>1, <1>3, <1>4, OneOwner
<1>6. PlaceOf(r, g, x) \in DOMAIN conv[r] /\ conv[r][PlaceOf(r, g, x)] = row
  <2>1. /\ PlaceOf(r, g, x) \in DOMAIN Shards!RowsOfConv(r)
        /\ Shards!RowsOfConv(r)[PlaceOf(r, g, x)] = First(g) + x
    BY <1>1, <1>3, <1>5, RowsOfWorker
  <2>2. QED
    BY <1>1, <1>3, <2>1
<1>7. ASSUME NEW s \in Shards!Ranks, NEW j \in DOMAIN conv[s], conv[s][j] = row
      PROVE  s = r /\ j = PlaceOf(r, g, x)
  <2>1. conv[s] = Shards!RowsOfConv(s)
    BY <1>1
  <2>2. PICK h \in 1..3 : \E y \in Nat : Owns(s, Shards!FullDim[h], y) /\ j = PlaceOf(s, h, y)
    BY <1>1, <2>1, RowsOfWorker
  <2>3. PICK y \in Nat : Owns(s, Shards!FullDim[h], y) /\ j = PlaceOf(s, h, y)
    BY <2>2
  <2>4. First(h) + y = row
    BY <1>1, <1>7, <2>1, <2>3, RowsOfWorker
  <2>5. 0 < y /\ y \leq Shards!FullDim[h]
    <3>1. Shards!FullDim[h] \in {keys, values, queries}
      BY <1>1, PartGrows
    <3>2. /\ Shards!Before(s) * Shards!Base(Shards!FullDim[h]) \in Nat /\ Shards!FullDim[h] \in Nat
          /\ Shards!Shardings[s] * Shards!Base(Shards!FullDim[h]) \in Nat
          /\ Shards!Before(s) * Shards!Base(Shards!FullDim[h]) + Shards!Shardings[s] * Shards!Base(Shards!FullDim[h]) \leq Shards!FullDim[h]
      BY <1>1, <3>1, SharesFit
    <3>3. QED
      BY <2>3, <3>2 DEF Owns
  <2>6. h = g
    <3>1. /\ Shards!FullDim[1] = keys /\ Shards!FullDim[2] = keys /\ Shards!FullDim[3] = values
          /\ First(1) = 0 /\ First(2) = keys /\ First(3) = 2 * keys
      BY DEF Shards!FullDim, First
    <3>2. First(g) < row /\ row \leq First(g) + Shards!FullDim[g]
      BY <1>1, <1>3, <1>4, <3>1
    <3>3. First(h) < row /\ row \leq First(h) + Shards!FullDim[h]
      BY <1>1, <2>3, <2>4, <2>5, <3>1
    <3>4. QED
      BY <1>1, <3>1, <3>2, <3>3
  <2>7. y = x
    BY <1>3, <2>3, <2>4, <2>6
  <2>8. QED
    BY <1>5, <2>3, <2>6, <2>7
<1>8. \A p : p \in Shards!Held(row) <=> p = <<r, PlaceOf(r, g, x)>>
  <2>1. \A s \in Shards!Ranks : \A j \in DOMAIN conv[s] :
          conv[s][j] = row <=> (s = r /\ j = PlaceOf(r, g, x))
    BY <1>6, <1>7
  <2>2. \A p : p \in Shards!Held(row) <=>
          /\ \E s \in Shards!Ranks : \E j \in DOMAIN conv[s] : p = <<s, j>>
          /\ conv[p[1]][p[2]] = row
    BY DEF Shards!Held
  <2>3. QED
    BY <1>6, <2>1, <2>2
<1> DEFINE q == <<r, PlaceOf(r, g, x)>>
<1>9. \A p : p \in Shards!Held(row) <=> p = q
  BY <1>8
<1> HIDE DEF q
<1>10. q \in Shards!Held(row) /\ Shards!Held(row) = {q}
  BY <1>9
<1>11. QED
  BY <1>10
-----------------------------------------------------------------------------
(* Each query head finds its key head.                                      *)

\* Division without remainder.
LEMMA Multiple ==
    ASSUME NEW a \in Nat, NEW n \in Nat \ {0}, a % n = 0
    PROVE  \E k \in Nat : a = n * k /\ a \div n = k
<1>1. a \div n \in Nat /\ a = n * (a \div n) + 0
  BY Division
<1>2. QED
  BY <1>1

\* A block of size s that begins at a multiple of s stays within blocks of s * d.
LEMMA BlockInBlock ==
    ASSUME NEW s \in Nat \ {0}, NEW d \in Nat \ {0}, NEW e \in Nat,
           NEW u \in Nat, NEW w \in Nat \ {0}, u = s * e, w = s * d
    PROVE  (u % w) + s \leq w
<1> DEFINE k == e \div d
           z == e % d
<1>1. k \in Nat /\ z \in Nat /\ z + 1 \leq d /\ e = d * k + z
  BY Division
<1> HIDE DEF k, z
<1>2. s * (z + 1) \leq s * d /\ s * (z + 1) = s * z + s /\ s * z \in Nat
  BY <1>1, ProductGrows
<1>3. s * (d * k + z) = (s * d) * k + s * z
  BY <1>1
<1>4. u = w * k + s * z /\ s * z < w
  BY <1>1, <1>2, <1>3
<1>5. u % w = s * z
  BY <1>1, <1>2, <1>4, DivisionIs
<1>6. QED
  BY <1>2, <1>5

\* The workers of one key head, with fewer key heads than workers.
Sharing == tp \div kv

\* Where all workers can be built, a worker begins with a key head, or lies
\* within one.
Aligned(r) == LET S == Shards!Shardings[r] IN
    \/ S % Sharing = 0 /\ Shards!Before(r) % Sharing = 0
    \/ S < Sharing /\ (Shards!Before(r) % Sharing) + S \leq Sharing

\* If every worker's attention fits, a shard holds whole key heads or lies within one.
LEMMA ShardsAreAligned ==
    ASSUME Shape, tp % kv = 0, \A r \in Shards!Ranks : Shards!Fits(r), NEW r \in Shards!Ranks
    PROVE  Sharing \in Nat \ {0} /\ tp = kv * Sharing /\ Aligned(r)
<1>1. /\ tp \in Nat /\ newTp \in Nat /\ kv \in Nat \ {0} /\ newTp # 0 /\ newTp < tp
      /\ r \in 1..newTp
  BY DEF Shape, Shards!Ranks
<1>2. Sharing \in Nat \ {0} /\ tp = kv * Sharing
  <2>1. Sharing \in Nat /\ tp = kv * Sharing
    BY <1>1, Multiple DEF Sharing
  <2>2. Sharing # 0
    BY <1>1, <2>1
  <2>3. QED
    BY <2>1, <2>2
<1>3. kv \leq tp
  BY <1>1, <1>2
<1> DEFINE sh == Sharing
           q == Small
           B == Shards!Before(r)
<1>4. /\ q \in Nat \ {0} /\ Firsts \in 1..newTp /\ tp = newTp * q + (newTp - Firsts)
      /\ \A s \in Shards!Ranks : Shards!Shardings[s] = IF s > Firsts THEN q + 1 ELSE q
      /\ B = (r - 1) * q + (IF r - 1 > Firsts THEN (r - 1) - Firsts ELSE 0)
  BY <1>1, SizesOfShards, BeforeIsOffset DEF Offset
<1>5. \A s \in Shards!Ranks : Shards!Shardings[s] % sh = 0 \/ sh % Shards!Shardings[s] = 0
  BY <1>1, <1>3 DEF Shards!Fits, Sharing
<1> HIDE DEF sh, q, B
<1>6. sh \in Nat \ {0} /\ q \in Nat \ {0} /\ q + 1 \in Nat \ {0} /\ B \in Nat
  <2>1. B \in Nat
    BY <1>1, Cuts DEF B
  <2>2. QED
    BY <1>2, <1>4, <2>1 DEF sh
<1>7. q % sh = 0 \/ sh % q = 0
  <2>1. 1 \in Shards!Ranks /\ Shards!Shardings[1] = q
    BY <1>1, <1>4 DEF Shards!Ranks
  <2>2. QED
    BY <1>5, <2>1
<1>8. SUFFICES \/ Shards!Shardings[r] % sh = 0 /\ B % sh = 0
               \/ Shards!Shardings[r] < sh /\ (B % sh) + Shards!Shardings[r] \leq sh
  BY <1>2 DEF Aligned, sh, B
\* A block that is not the larger one, and begins at a multiple of its size.
<1>9. ASSUME NEW s \in Nat \ {0}, NEW e \in Nat, Shards!Shardings[r] = s, B = s * e, sh % s = 0
      PROVE  \/ Shards!Shardings[r] % sh = 0 /\ B % sh = 0
             \/ Shards!Shardings[r] < sh /\ (B % sh) + Shards!Shardings[r] \leq sh
  <2>1. PICK d \in Nat : sh = s * d
    BY <1>6, <1>9, Multiple
  <2>2. d # 0
    BY <1>6, <2>1
  <2>3. CASE d = 1
    <3>1. sh = s /\ s = sh * 1 + 0 /\ B = sh * e + 0
      BY <1>9, <2>1, <2>3
    <3>2. s % sh = 0 /\ B % sh = 0
      BY <1>6, <1>9, <3>1, DivisionIs
    <3>3. QED
      BY <1>9, <3>2
  <2>4. CASE d # 1
    <3>1. s < sh
      BY <2>1, <2>2, <2>4
    <3>2. (B % sh) + s \leq sh
      BY <1>6, <1>9, <2>1, <2>2, BlockInBlock
    <3>3. QED
      BY <1>9, <3>1, <3>2
  <2>5. QED
    BY <2>3, <2>4
\* A block of whole larger ones.
<1>10. ASSUME NEW m \in Nat, NEW e \in Nat, Shards!Shardings[r] = sh * m, B = sh * e
       PROVE  Shards!Shardings[r] % sh = 0 /\ B % sh = 0
  <2>1. Shards!Shardings[r] = sh * m + 0 /\ B = sh * e + 0 /\ Shards!Shardings[r] \in Nat
    BY <1>6, <1>10
  <2>2. QED
    BY <1>6, <1>10, <2>1, DivisionIs
<1>11. CASE r \leq Firsts
  <2>1. Shards!Shardings[r] = q /\ B = q * (r - 1) /\ r - 1 \in Nat
    BY <1>1, <1>4, <1>6, <1>11 DEF Shards!Ranks
  <2>2. CASE sh % q = 0
    BY <1>6, <1>9, <2>1, <2>2
  <2>3. CASE q % sh = 0
    <3>1. PICK m \in Nat : q = sh * m
      BY <1>6, <2>3, Multiple
    <3>2. m * (r - 1) \in Nat /\ B = sh * (m * (r - 1))
      BY <1>6, <2>1, <3>1
    <3>3. QED
      BY <1>10, <2>1, <3>1, <3>2
  <2>4. QED
    BY <1>7, <2>2, <2>3
<1>12. CASE r > Firsts
  <2> DEFINE n == r - 1 - Firsts
  <2>1. n \in Nat /\ Shards!Shardings[r] = q + 1
    BY <1>1, <1>4, <1>12 DEF Shards!Ranks
  <2>2. B = Firsts * q + n * (q + 1)
    <3>1. B = (r - 1) * q + n
      BY <1>1, <1>4, <1>12
    <3>2. r - 1 = Firsts + n
      BY <1>1, <1>4
    <3> HIDE DEF n
    <3>3. (Firsts + n) * q + n = Firsts * q + n * (q + 1)
      BY <1>4, <1>6, <2>1
    <3>4. QED
      BY <3>1, <3>2, <3>3
  <2> HIDE DEF n
  <2>3. (q + 1) % sh = 0 \/ sh % (q + 1) = 0
    BY <1>5, <2>1
  <2>4. Firsts \in Nat /\ Firsts # 0
    BY <1>1, <1>4
  <2>5. CASE q % sh = 0 /\ (q + 1) % sh = 0
    <3>1. PICK m \in Nat : q = sh * m
      BY <1>6, <2>5, Multiple
    <3>2. PICK p \in Nat : q + 1 = sh * p
      BY <1>6, <2>5, Multiple
    <3>3. sh * (p - m) = 1
      BY <1>6, <3>1, <3>2
    <3>4. sh = 1
      <4>1. p - m \in Int
        OBVIOUS
      <4> DEFINE d == p - m
      <4> HIDE DEF d
      <4>2. sh * d = 1 /\ d \in Int
        BY <3>3, <4>1 DEF d
      <4>3. d >= 1
        BY <1>6, <4>2
      <4>4. QED
        BY <1>6, <4>2, <4>3
    <3>5. QED
      BY <1>6, <1>10, <2>1, <3>4
  <2>6. CASE q % sh = 0 /\ sh % (q + 1) = 0
    <3>1. PICK m \in Nat : q = sh * m
      BY <1>6, <2>6, Multiple
    <3>2. PICK p \in Nat : sh = (q + 1) * p
      BY <1>6, <2>6, Multiple
    <3>3. m # 0 /\ p # 0
      BY <1>6, <3>1, <3>2
    <3>4. sh \leq q /\ q + 1 \leq sh
      BY <1>6, <3>1, <3>2, <3>3
    <3>5. QED
      BY <1>6, <3>4
  <2>7. CASE sh % q = 0 /\ (q + 1) % sh = 0
    <3>1. PICK m \in Nat : sh = q * m
      BY <1>6, <2>7, Multiple
    <3>2. PICK p \in Nat : q + 1 = sh * p
      BY <1>6, <2>7, Multiple
    <3>3. q * (m * p - 1) = 1 /\ m * p - 1 \in Int
      BY <1>6, <3>1, <3>2
    <3>4. q = 1
      BY <1>6, <3>3
    <3>5. sh = 1 \/ sh = 2
      <4>1. sh * p = 2
        BY <3>2, <3>4
      <4>2. p # 0
        BY <1>6, <4>1
      <4>3. sh \leq 2
        BY <1>6, <4>1, <4>2
      <4>4. QED
        BY <1>6, <4>3
    <3>6. CASE sh = 1
      BY <1>6, <1>10, <2>1, <3>6
    <3>7. CASE sh = 2
      <4>1. kv * 2 = newTp * 1 + (newTp - Firsts)
        BY <1>2, <1>4, <3>4, <3>7 DEF sh
      <4>2. Firsts = 2 * (newTp - kv) /\ newTp - kv \in Nat
        BY <1>1, <2>4, <4>1
      <4>3. B = 2 * ((newTp - kv) + n) /\ (newTp - kv) + n \in Nat
        BY <1>1, <2>1, <2>2, <3>4, <4>2
      <4>4. QED
        BY <1>10, <2>1, <3>4, <3>7, <4>3
    <3>8. QED
      BY <3>5, <3>6, <3>7
  <2>8. CASE sh % q = 0 /\ sh % (q + 1) = 0
    <3>1. PICK p \in Nat : sh = (q + 1) * p
      BY <1>6, <2>8, Multiple
    <3>2. tp = (q + 1) * (kv * p) /\ kv * p \in Nat
      BY <1>1, <1>2, <1>6, <3>1 DEF sh
    <3>3. tp = (q + 1) * newTp - Firsts
      BY <1>1, <1>4, <1>6
    <3> DEFINE f == newTp - kv * p
    <3>4. Firsts = (q + 1) * f /\ f \in Int
      BY <1>1, <1>6, <2>4, <3>2, <3>3
    <3> HIDE DEF f
    <3>5. f \in Nat
      BY <1>6, <2>4, <3>4
    <3>6. B = (q + 1) * (f * q + n) /\ f * q + n \in Nat
      BY <1>6, <2>1, <2>2, <3>4, <3>5
    <3>7. QED
      BY <1>6, <1>9, <2>1, <2>8, <3>6
  <2>9. QED
    BY <1>7, <2>3, <2>5, <2>6, <2>7, <2>8
<1>13. QED
  BY <1>1, <1>4, <1>11, <1>12
\* Query heads in groups, from the first one on: each group is a key head, or
\* all are within one.
LEMMA GroupsMeetTheirKey ==
    ASSUME NEW G \in Nat \ {0}, NEW start \in Nat, NEW off \in Nat, NEW held \in Nat \ {0},
           NEW members \in Nat \ {0}, NEW first \in Nat, NEW size \in Nat,
           first = G * start + off, size = held * members,
           \/ off = 0 /\ members = G
           \/ held = 1 /\ off + members \leq G,
           NEW i \in 1..size
    PROVE  /\ ((i - 1) \div members) + 1 \in 1..held
           /\ (first + (i - 1)) \div G = start + ((i - 1) \div members)
<1> DEFINE k == (i - 1) \div members
           z == (i - 1) % members
<1>1. i - 1 \in Nat /\ i - 1 < size
  OBVIOUS
<1>2. k \in Nat /\ z \in Nat /\ z < members /\ i - 1 = members * k + z
  BY <1>1, Division
<1> HIDE DEF k, z
<1>3. k + 1 \in 1..held
  <2>1. ASSUME held \leq k PROVE FALSE
    <3>1. held * members \leq k * members /\ k * members = members * k
      BY <1>2, <2>1, ProductGrows
    <3>2. QED
      BY <1>1, <1>2, <3>1
  <2>2. QED
    BY <1>2, <2>1
<1>4. (first + (i - 1)) \div G = start + k
  <2>1. CASE off = 0 /\ members = G
    <3>1. G * (start + k) = G * start + G * k /\ G * k \in Nat /\ G * start \in Nat
      BY <1>2
    <3>2. first + (i - 1) = G * (start + k) + z /\ first + (i - 1) \in Nat
      BY <1>1, <1>2, <2>1, <3>1
    <3>3. QED
      BY <1>2, <2>1, <3>2, DivisionIs
  <2>2. CASE held = 1 /\ off + members \leq G
    <3>1. k = 0
      BY <1>2, <1>3, <2>2
    <3>2. /\ first + (i - 1) = G * start + (off + (i - 1)) /\ off + (i - 1) \in Nat
          /\ off + (i - 1) < G /\ first + (i - 1) \in Nat
      BY <1>1, <2>2
    <3>3. (first + (i - 1)) \div G = start
      BY <3>2, DivisionIs
    <3>4. QED
      BY <3>1, <3>3
  <2>3. QED
    BY <2>1, <2>2
<1>5. QED
  BY <1>3, <1>4 DEF k

\* A query head finds its key head on its own worker.
LEMMA ShapeKeepsQueriesWithKeys == ASSUME Shape PROVE Shards!QueriesFindTheirKeys
<1> SUFFICES ASSUME \A s \in Shards!Ranks : Shards!Fits(s), NEW r \in Shards!Ranks, NEW i \in DOMAIN Shards!QueryHeads(r)
             PROVE  LET local == (i - 1) \div (Len(Shards!QueryHeads(r)) \div Len(Shards!KvHeads(r)))
                        head == (Shards!QueryHeads(r)[i] - 1) \div (queries \div kv)
                    IN  /\ local + 1 \in DOMAIN Shards!KvHeads(r)
                        /\ Shards!KvHeads(r)[local + 1] = head + 1
  BY DEF Shards!QueriesFindTheirKeys
<1> DEFINE S == Shards!Shardings[r]
           B == Shards!Before(r)
           b == Shards!Base(queries)
           G == queries \div kv
           heads == (kv * S) \div tp
           held == IF heads = 0 THEN 1 ELSE heads
           start == (kv * B) \div tp
<1>1. /\ tp \in Nat \ {0} /\ kv \in Nat \ {0} /\ b \in Nat \ {0} /\ queries = tp * b
      /\ queries \in Nat /\ S \in Nat \ {0} /\ B \in Nat
  <2>1. r \in 1..newTp + 1
    BY DEF Shards!Ranks, Shape
  <2>2. QED
    BY <2>1, Cuts DEF Shape
<1>2. G \in Nat \ {0} /\ queries = kv * G
  <2>1. G \in Nat /\ queries = kv * G
    BY <1>1, Multiple DEF Shape
  <2>2. G # 0
    BY <1>1, <2>1
  <2>3. QED
    BY <2>1, <2>2
<1>3. b * S \in Nat \ {0} /\ b * B \in Nat /\ (queries * B) \div tp = b * B
  <2>1. b * S \in Nat \ {0} /\ b * B \in Nat /\ queries * B \in Nat
    BY <1>1
  <2>2. queries * B = tp * (b * B) + 0
    BY <1>1
  <2> HIDE DEF b, B
  <2>3. QED
    BY <1>1, <2>1, <2>2, DivisionIs
<1>4. Shards!KvHeads(r) = Shards!Rows(start, held) /\ Shards!QueryHeads(r) = Shards!Rows(b * B, b * S)
  BY <1>3 DEF Shards!KvHeads, Shards!QueryHeads
<1> HIDE DEF S, B, b, G, heads, held, start
<1>5. PICK off \in Nat : \E members \in Nat \ {0} :
         /\ start \in Nat /\ held \in Nat \ {0}
         /\ b * B = G * start + off /\ b * S = held * members
         /\ \/ off = 0 /\ members = G
            \/ held = 1 /\ off + members \leq G
  <2>1. CASE kv % tp = 0
    <3>1. PICK k \in Nat : kv = tp * k
      BY <1>1, <2>1, Multiple
    <3>2. k # 0 /\ tp * b = (tp * k) * G
      BY <1>1, <1>2, <3>1
    <3>3. b = k * G
      <4>1. tp * b = tp * (k * G) /\ k * G \in Nat
        BY <1>1, <1>2, <3>2
      <4> DEFINE c == k * G
      <4> HIDE DEF c
      <4>2. tp * b = tp * c /\ c \in Nat
        BY <4>1 DEF c
      <4>3. b = c
        BY <1>1, <4>2
      <4>4. QED
        BY <4>3 DEF c
    <3>4. k * S \in Nat /\ k * S # 0 /\ k * B \in Nat /\ kv * S \in Nat /\ kv * B \in Nat
      BY <1>1, <3>2
    <3>5. kv * S = tp * (k * S) + 0 /\ kv * B = tp * (k * B) + 0
      BY <1>1, <3>1
    <3>6. heads = k * S /\ start = k * B
      BY <1>1, <3>4, <3>5, DivisionIs DEF heads, start
    <3>7. b * S = (k * S) * G /\ b * B = G * (k * B) + 0
      BY <1>1, <1>2, <3>3
    <3>8. held = k * S
      BY <3>4, <3>6 DEF held
    <3>9. QED
      BY <1>2, <3>4, <3>6, <3>7, <3>8
  <2>2. CASE tp % kv = 0
    <3> DEFINE sh == Sharing
    <3>1. sh \in Nat \ {0} /\ tp = kv * sh /\ Aligned(r)
      BY <2>2, ShardsAreAligned
    <3>2. \/ S % sh = 0 /\ B % sh = 0
          \/ S < sh /\ (B % sh) + S \leq sh
      BY <3>1 DEF Aligned, S, B
    <3> HIDE DEF sh
    <3>3. G = b * sh
      <4>1. kv * G = kv * (b * sh) /\ b * sh \in Nat
        BY <1>1, <1>2, <3>1
      <4> DEFINE c == b * sh
      <4> HIDE DEF c
      <4>2. kv * G = kv * c /\ c \in Nat
        BY <4>1 DEF c
      <4>3. G = c
        BY <1>1, <1>2, <4>2
      <4>4. QED
        BY <4>3 DEF c
    <3>4. kv * S \in Nat /\ kv * B \in Nat
      BY <1>1
    <3> DEFINE w == B \div sh
               z == B % sh
    <3>5. w \in Nat /\ z \in Nat /\ z < sh /\ B = sh * w + z
      BY <1>1, <3>1, Division
    <3>6. \/ S % sh = 0 /\ z = 0
          \/ S < sh /\ z + S \leq sh
      BY <3>2
    <3> HIDE DEF w, z
    <3>7. start = w
      <4>1. kv * B = tp * w + kv * z
        BY <1>1, <3>1, <3>5
      <4>2. kv * z \in Nat /\ kv * z < tp
        BY <1>1, <3>1, <3>5
      <4>3. QED
        BY <1>1, <3>4, <3>5, <4>1, <4>2, DivisionIs DEF start
    <3>8. CASE S % sh = 0 /\ z = 0
      <4>1. PICK m \in Nat : S = sh * m
        BY <1>1, <3>1, <3>8, Multiple
      <4>2. m # 0
        BY <1>1, <3>1, <4>1
      <4>3. kv * S = tp * m + 0
        BY <1>1, <3>1, <4>1
      <4>4. heads = m
        BY <1>1, <3>4, <4>3, DivisionIs DEF heads
      <4>5. held = m
        BY <4>2, <4>4 DEF held
      <4>6. b * S = m * G /\ b * B = G * w + 0
        BY <1>1, <3>1, <3>3, <3>5, <3>8, <4>1
      <4>7. QED
        BY <1>2, <3>5, <3>7, <4>2, <4>5, <4>6
    <3>9. CASE S < sh /\ z + S \leq sh
      <4>1. kv * S = tp * 0 + kv * S /\ kv * S < tp
        BY <1>1, <3>1, <3>9
      <4>2. heads = 0
        BY <1>1, <3>4, <4>1, DivisionIs DEF heads
      <4>3. held = 1
        BY <4>2 DEF held
      <4>4. b * z \in Nat /\ b * B = G * w + b * z
        BY <1>1, <3>1, <3>3, <3>5
      <4>5. b * z + b * S \leq G
        <5>1. b * (z + S) \leq b * sh
          BY <1>1, <3>1, <3>5, <3>9, ProductGrows
        <5>2. b * (z + S) = b * z + b * S
          BY <1>1, <3>5
        <5>3. QED
          BY <3>3, <5>1, <5>2
      <4>6. b * S = 1 * (b * S)
        BY <1>3
      <4>7. QED
        BY <1>3, <3>5, <3>7, <4>3, <4>4, <4>5, <4>6
    <3>10. QED
      BY <3>6, <3>8, <3>9
  <2>3. QED
    BY <2>1, <2>2 DEF Shape
<1>6. PICK members \in Nat \ {0} :
         /\ start \in Nat /\ held \in Nat \ {0}
         /\ b * B = G * start + off /\ b * S = held * members
         /\ \/ off = 0 /\ members = G
            \/ held = 1 /\ off + members \leq G
  BY <1>5
<1>7. /\ DOMAIN Shards!KvHeads(r) = 1..held /\ Len(Shards!KvHeads(r)) = held
      /\ \A j \in 1..held : Shards!KvHeads(r)[j] = start + j
      /\ DOMAIN Shards!QueryHeads(r) = 1..(b * S) /\ Len(Shards!QueryHeads(r)) = b * S
      /\ Shards!QueryHeads(r)[i] = b * B + i
  <2>1. /\ DOMAIN Shards!Rows(start, held) = 1..held /\ Len(Shards!Rows(start, held)) = held
        /\ \A j \in 1..held : Shards!Rows(start, held)[j] = start + j
    BY <1>6, RowsAre
  <2> DEFINE u == b * B
             w == b * S
  <2>2. u \in Nat /\ w \in Nat
    BY <1>3
  <2> HIDE DEF u, w
  <2>3. /\ DOMAIN Shards!Rows(u, w) = 1..w /\ Len(Shards!Rows(u, w)) = w
        /\ \A j \in 1..w : Shards!Rows(u, w)[j] = u + j
    BY <2>2, RowsAre
  <2>4. QED
    BY <1>4, <2>1, <2>3 DEF u, w
<1>8. (b * S) \div held = members
  <2> DEFINE w == b * S
  <2>1. w \in Nat /\ w = held * members + 0
    BY <1>3, <1>6
  <2> HIDE DEF w
  <2>2. w \div held = members
    BY <1>6, <2>1, DivisionIs
  <2>3. QED
    BY <2>2 DEF w
<1>9. /\ ((i - 1) \div members) + 1 \in 1..held
      /\ (b * B + (i - 1)) \div G = start + ((i - 1) \div members)
  <2> DEFINE u == b * B
             w == b * S
  <2>1. /\ u \in Nat /\ w \in Nat /\ i \in 1..w /\ u = G * start + off /\ w = held * members
    BY <1>3, <1>6, <1>7
  <2> HIDE DEF u, w
  <2>2. /\ ((i - 1) \div members) + 1 \in 1..held
        /\ (u + (i - 1)) \div G = start + ((i - 1) \div members)
    BY <1>2, <1>6, <2>1, GroupsMeetTheirKey
  <2>3. QED
    BY <2>2 DEF u
<1> DEFINE local == (i - 1) \div members
<1>10. Shards!KvHeads(r)[local + 1] = start + (local + 1)
  BY <1>7, <1>9
<1>11. Shards!QueryHeads(r)[i] - 1 = b * B + (i - 1)
  <2>1. b * B \in Nat /\ i \in Nat
    BY <1>3, <1>7
  <2>2. QED
    BY <1>7, <2>1
<1>12. local \in Nat
  <2>1. i - 1 \in Nat
    BY <1>3, <1>7
  <2>2. QED
    BY <1>6, <2>1, Division
<1> HIDE DEF local
<1>13. /\ Len(Shards!QueryHeads(r)) \div Len(Shards!KvHeads(r)) = members
       /\ (Shards!QueryHeads(r)[i] - 1) \div (queries \div kv) = start + local
  BY <1>7, <1>8, <1>9, <1>11 DEF local, G
<1>14. local + 1 \in DOMAIN Shards!KvHeads(r) /\ start + (local + 1) = (start + local) + 1
  BY <1>6, <1>7, <1>9, <1>12 DEF local
<1>15. QED
  BY <1>10, <1>13, <1>14 DEF local

\* What a run of the model checker looks at, together.
LEMMA LoaderFitsTogether ==
    ASSUME LoaderInv
    PROVE  Shards!LayersAgree /\ Shards!WeightsAreWhole /\ Shards!QueriesFindTheirKeys
BY LoaderMakesLayersAgree, LoaderMakesWeightsWhole, ShapeKeepsQueriesWithKeys DEF LoaderInv

(***************************************************************************)
(* AnthropicStream                                                         *)
(***************************************************************************)
BlockTypes == {"thinking", "text", "tool_use"}
EventTypes == {"message_start", "start", "delta", "stop", "message_delta", "message_stop"}
Events == [type : EventTypes, index : Nat, block : BlockTypes \cup {None}, piece : Nat]
Blocks == [type : BlockTypes \cup {None}, id : Nat, pieces : Seq(Nat)]

\* The client that puts an event to the blocks it has.
LEMMA PutTyped ==
    ASSUME NEW blocks \in Seq(Blocks), NEW e \in Events
    PROVE  Anthropic!Put(blocks, e) \in Seq(Blocks)
<1>1. CASE e.type = "start"
  <2>1. Anthropic!Block(e.block, e.piece, <<>>) \in Blocks
    BY DEF Anthropic!Block, Blocks, Events
  <2>2. Anthropic!Put(blocks, e) = Append(blocks, Anthropic!Block(e.block, e.piece, <<>>))
    BY <1>1 DEF Anthropic!Put
  <2>3. QED
    BY <2>1, <2>2, AppendProperties
<1>2. CASE e.type = "delta"
  <2> DEFINE i == e.index + 1
  <2>1. Anthropic!Put(blocks, e) = [blocks EXCEPT ![i].pieces = Append(@, e.piece)]
    BY <1>2 DEF Anthropic!Put
  <2>2. ASSUME i \in DOMAIN blocks
        PROVE  [blocks[i] EXCEPT !.pieces = Append(@, e.piece)] \in Blocks
    <3>1. blocks[i] \in Blocks
      BY <2>2, LenProperties, ElementOfSeq
    <3> HIDE DEF i
    <3>2. blocks[i].pieces \in Seq(Nat) /\ e.piece \in Nat
      BY <3>1 DEF Blocks, Events
    <3>3. Append(blocks[i].pieces, e.piece) \in Seq(Nat)
      BY <3>2, AppendProperties
    <3>4. QED
      BY <3>1, <3>3 DEF Blocks
  <2> HIDE DEF i
  <2>3. CASE i \in DOMAIN blocks
    <3> DEFINE b == [blocks[i] EXCEPT !.pieces = Append(@, e.piece)]
    <3>1. [blocks EXCEPT ![i].pieces = Append(@, e.piece)] = [blocks EXCEPT ![i] = b]
      OBVIOUS
    <3>2. b \in Blocks /\ i \in 1..Len(blocks)
      BY <2>2, <2>3, LenProperties
    <3> HIDE DEF b
    <3>3. [blocks EXCEPT ![i] = b] \in Seq(Blocks)
      BY <3>2, ExceptSeq
    <3>4. QED
      BY <2>1, <3>1, <3>3
  <2>4. CASE i \notin DOMAIN blocks
    <3>1. [blocks EXCEPT ![i].pieces = Append(@, e.piece)] = blocks
      BY <2>4, LenProperties
    <3>2. QED
      BY <2>1, <3>1
  <2>5. QED
    BY <2>3, <2>4
<1>3. CASE e.type \notin {"start", "delta"}
  BY <1>3 DEF Anthropic!Put
<1>4. QED
  BY <1>1, <1>2, <1>3

\* The blocks behind each event.
Putting(f, es) ==
    /\ f \in [0..Len(es) -> Seq(Blocks)] /\ f[0] = <<>>
    /\ \A k \in 1..Len(es) : f[k] = Anthropic!Put(f[k - 1], es[k])
HasBlocks(es) == \E f : Putting(f, es) /\ Anthropic!Received(es) = f[Len(es)]
\* The blocks a client has after each event,
LEMMA ReceivedIs == ASSUME NEW es \in Seq(Events) PROVE HasBlocks(es)
<1> DEFINE n == Len(es)
           S == Seq(Blocks)
           put == [p \in (1..n) \X S |-> Anthropic!Put(p[2], es[p[1]])]
           R(f) == [k \in 0..n |-> IF k = 0 THEN <<>> ELSE Anthropic!Put(f[k - 1], es[k])]
           f == CHOOSE f : f = R(f)
<1>1. n \in Nat /\ <<>> \in S
  BY LenProperties
<1>2. put \in [(1..n) \X S -> S]
  <2>1. \A k \in 1..n : es[k] \in Events
    BY ElementOfSeq
  <2> HIDE DEF n
  <2>2. ASSUME NEW p \in (1..n) \X S PROVE Anthropic!Put(p[2], es[p[1]]) \in S
    <3>1. p[2] \in Seq(Blocks) /\ es[p[1]] \in Events
      BY <2>1, <2>2
    <3>2. QED
      BY <3>1, PutTyped
  <2>3. QED
    BY <2>2
<1>3. Anthropic!Received(es) = f[n]
  BY Zenon DEF Anthropic!Received
<1>4. PICK g \in Solutions(S, n, <<>>, put) : TRUE
  <2> HIDE DEF n, S, put
  <2>1. Solutions(S, n, <<>>, put) # {}
    BY <1>1, <1>2, Recursion
  <2>2. QED
    BY <2>1
<1>5. g \in [0..n -> S] /\ g[0] = <<>> /\ \A k \in 1..n : g[k] = put[<<k, g[k - 1]>>]
  BY <1>4 DEF Solutions
<1>6. ASSUME NEW k \in 1..n PROVE g[k] = Anthropic!Put(g[k - 1], es[k])
  <2> HIDE DEF n, S
  <2>1. k - 1 \in 0..n
    BY <1>1
  <2>2. <<k, g[k - 1]>> \in (1..n) \X S
    BY <1>5, <2>1
  <2>3. QED
    BY <1>5, <2>2
<1> HIDE DEF put, n, S
<1>7. ASSUME NEW k \in 0..n PROVE g[k] = IF k = 0 THEN <<>> ELSE Anthropic!Put(g[k - 1], es[k])
  <2>1. k # 0 => k \in 1..n
    BY <1>1
  <2>2. QED
    BY <1>5, <1>6, <2>1
<1>8. g = R(g)
  <2>1. g = [k \in 0..n |-> g[k]]
    BY <1>5
  <2>2. QED
    BY <1>7, <2>1
<1>9. f = R(f)
  <2> HIDE DEF R
  <2>1. QED
    BY <1>8
<1> HIDE DEF f
<1>10. ASSUME NEW k \in 0..n PROVE f[k] = IF k = 0 THEN <<>> ELSE Anthropic!Put(f[k - 1], es[k])
  <2>1. R(f)[k] = IF k = 0 THEN <<>> ELSE Anthropic!Put(f[k - 1], es[k])
    OBVIOUS
  <2> HIDE DEF R
  <2>2. QED
    BY <1>9, <2>1
<1>11. \A k \in 0..n : f[k] = g[k]
  <2> DEFINE Bad == {k \in 0..n : f[k] # g[k]}
  <2>1. ASSUME NEW m \in Bad, \A k \in Bad : m \leq k PROVE FALSE
    <3>1. m # 0
      BY <1>1, <1>7, <1>10, <2>1
    <3>2. m - 1 \in 0..n /\ m - 1 < m
      BY <1>1, <2>1, <3>1
    <3>3. f[m - 1] = g[m - 1]
      BY <2>1, <3>2
    <3>4. f[m] = g[m]
      BY <1>7, <1>10, <2>1, <3>1, <3>3
    <3>5. QED
      BY <2>1, <3>4
  <2>2. Bad \in SUBSET Nat
    BY <1>1
  <2>3. Bad = {} => \A k \in 0..n : f[k] = g[k]
    OBVIOUS
  <2> HIDE DEF Bad
  <2>4. QED
    BY <2>1, <2>2, <2>3, LeastOf
<1>12. n \in 0..n
  BY <1>1
<1>13. Putting(g, es) /\ Anthropic!Received(es) = g[n]
  BY <1>3, <1>5, <1>6, <1>11, <1>12 DEF Putting, n, S
<1>14. QED
  BY <1>13 DEF HasBlocks, n

\* which are blocks.
LEMMA ReceivedTyped ==
    /\ Anthropic!Received(<<>>) = <<>>
    /\ \A es \in Seq(Events) : Anthropic!Received(es) \in Seq(Blocks)
<1>1. ASSUME NEW es \in Seq(Events)
      PROVE  /\ Anthropic!Received(es) \in Seq(Blocks)
             /\ es = <<>> => Anthropic!Received(es) = <<>>
  <2>1. PICK f : Putting(f, es) /\ Anthropic!Received(es) = f[Len(es)]
    BY ReceivedIs DEF HasBlocks
  <2>2. Len(es) \in 0..Len(es) /\ (es = <<>> => Len(es) = 0)
    BY LenProperties
  <2>3. QED
    BY <2>1, <2>2 DEF Putting
<1>2. <<>> \in Seq(Events)
  OBVIOUS
<1>3. QED
  BY <1>1, <1>2

\* One event more.
LEMMA ReceivedGrows ==
    ASSUME NEW es \in Seq(Events), NEW e \in Events
    PROVE  Anthropic!Received(Append(es, e)) = Anthropic!Put(Anthropic!Received(es), e)
<1> DEFINE n == Len(es)
           more == Append(es, e)
<1>1. /\ more \in Seq(Events) /\ Len(more) = n + 1 /\ n \in Nat
      /\ more[n + 1] = e /\ \A k \in 1..n : more[k] = es[k]
  BY AppendProperties, LenProperties
<1> HIDE DEF more
<1>2. PICK f : Putting(f, es) /\ Anthropic!Received(es) = f[n]
  BY ReceivedIs DEF HasBlocks
<1>3. PICK g : Putting(g, more) /\ Anthropic!Received(more) = g[n + 1]
  <2>1. HasBlocks(more)
    BY <1>1, ReceivedIs
  <2>2. QED
    BY <1>1, <2>1 DEF HasBlocks
<1>4. \A k \in 0..n : f[k] = g[k]
  <2> DEFINE Bad == {k \in 0..n : f[k] # g[k]}
  <2>1. ASSUME NEW m \in Bad, \A k \in Bad : m \leq k PROVE FALSE
    <3>1. m # 0
      BY <1>2, <1>3, <2>1 DEF Putting
    <3>2. m \in 1..n /\ m \in 1..n + 1 /\ m - 1 \in 0..n /\ m - 1 < m
      BY <1>1, <2>1, <3>1
    <3>3. f[m - 1] = g[m - 1]
      BY <2>1, <3>2
    <3>4. f[m] = g[m]
      BY <1>1, <1>2, <1>3, <3>2, <3>3 DEF Putting
    <3>5. QED
      BY <2>1, <3>4
  <2>2. Bad \in SUBSET Nat
    BY <1>1
  <2>3. Bad = {} => \A k \in 0..n : f[k] = g[k]
    OBVIOUS
  <2> HIDE DEF Bad
  <2>4. QED
    BY <2>1, <2>2, <2>3, LeastOf
<1>5. n \in 0..n /\ n + 1 \in 1..n + 1 /\ (n + 1) - 1 = n
  BY <1>1
<1>6. g[n + 1] = Anthropic!Put(g[(n + 1) - 1], more[n + 1])
  BY <1>1, <1>3, <1>5 DEF Putting
<1>7. QED
  BY <1>1, <1>2, <1>3, <1>4, <1>5, <1>6 DEF more

\* The first n elements.
Begin(s, n) == [i \in 1..n |-> s[i]]
\* A sequence and its last element.
LEMMA BeginIs ==
    ASSUME NEW S, NEW s \in Seq(S), NEW n \in Nat, Len(s) = n + 1
    PROVE  /\ Begin(s, n) \in Seq(S) /\ Len(Begin(s, n)) = n /\ s[n + 1] \in S
           /\ s = Append(Begin(s, n), s[n + 1])
<1>1. \A i \in 1..n + 1 : s[i] \in S
  BY ElementOfSeq
<1>2. Begin(s, n) \in [1..n -> S]
  BY <1>1 DEF Begin
<1>3. Begin(s, n) \in Seq(S) /\ Len(Begin(s, n)) = n
  BY <1>2
<1>4. n + 1 \in 1..n + 1
  OBVIOUS
<1> DEFINE a == Append(Begin(s, n), s[n + 1])
<1>5. a \in Seq(S) /\ Len(a) = n + 1 /\ a[n + 1] = s[n + 1] /\ \A i \in 1..n : a[i] = Begin(s, n)[i]
  BY <1>1, <1>3, <1>4, AppendProperties
<1>6. \A i \in 1..n : Begin(s, n)[i] = s[i]
  BY DEF Begin
<1> HIDE DEF a
<1>7. \A i \in 1..Len(s) : s[i] = a[i]
  BY <1>5, <1>6
<1>8. s = a
  BY <1>5, <1>7, SeqEqual
<1>9. QED
  BY <1>1, <1>3, <1>4, <1>8 DEF a

\* What the last of several sequences adds to their concatenation.
LEMMA FlattenLast ==
    ASSUME NEW T1, NEW q \in Seq(Seq(T1)), NEW n \in Nat, Len(q) = n + 1
    PROVE  FlattenSeq(q) = FlattenSeq(Begin(q, n)) \o q[n + 1]
<1> DEFINE a == Begin(q, n)
           x == q[n + 1]
           b == <<x>>
<1>1. a \in Seq(Seq(T1)) /\ x \in Seq(T1) /\ q = Append(a, x)
  BY BeginIs
<1> HIDE DEF a, x
<1>2. b \in Seq(Seq(T1)) /\ q = a \o b
  <2>1. Append(a, x) = a \o <<x>>
    BY <1>1, AppendIsConcat
  <2>2. QED
    BY <1>1, <2>1
<1>3. FlattenSeq(q) = FlattenSeq(a) \o FlattenSeq(b)
  BY <1>1, <1>2, FlattenConcat
<1>4. FlattenSeq(b) = x
  <2>1. Len(b) = 1 /\ b[1] = x
    OBVIOUS
  <2> HIDE DEF b
  <2>2. PICK h \in Flattenings(T1, b) : FlattenSeq(b) = h[Len(b)]
    BY <1>2, FlattensTo
  <2>3. h[0] = <<>> /\ \A i \in 1..1 : h[i] = h[i - 1] \o b[i]
    BY <2>1, <2>2 DEF Flattenings
  <2>4. 1 \in 1..1 /\ 1 - 1 = 0
    OBVIOUS
  <2>5. h[1] = <<>> \o x
    BY <2>1, <2>3, <2>4
  <2>6. <<>> \o x = x
    BY <1>1, ConcatEmptySeq
  <2>7. QED
    BY <2>1, <2>2, <2>5, <2>6
<1>5. QED
  BY <1>3, <1>4 DEF a, x

\* The instance has its own copy of the operator.
LEMMA FlattensAlike == \A q : Anthropic!FlattenSeq(q) = FlattenSeq(q)
  BY DEF Anthropic!FlattenSeq, FlattenSeq

\* What the last block adds to a message that is sent back.
Calls == [id : Nat, pieces : Seq(Nat)]
Call(b) == [id |-> b.id, pieces |-> b.pieces]
\* What the last block adds to the message that is sent back,
LEMMA LastBlockCounts ==
    ASSUME NEW m \in Seq(Blocks), NEW n \in Nat, Len(m) = n + 1
    PROVE  /\ \A type : Anthropic!Joined(m, type)
                = Anthropic!Joined(Begin(m, n), type)
                    \o (IF m[n + 1].type = type THEN m[n + 1].pieces ELSE <<>>)
           /\ Anthropic!Called(m)
                = Anthropic!Called(Begin(m, n))
                    \o (IF m[n + 1].type = "tool_use" THEN <<Call(m[n + 1])>> ELSE <<>>)
<1> DEFINE Texts(w, type) == [i \in DOMAIN w |-> IF w[i].type = type THEN w[i].pieces ELSE <<>>]
           Tools(w) == [i \in DOMAIN w |-> IF w[i].type = "tool_use" THEN <<Call(w[i])>> ELSE <<>>]
           a == Begin(m, n)
<1>1. /\ DOMAIN m = 1..n + 1 /\ \A i \in 1..n + 1 : m[i] \in Blocks
      /\ DOMAIN a = 1..n /\ \A i \in 1..n : a[i] = m[i]
      /\ n + 1 \in 1..n + 1
  BY LenProperties, ElementOfSeq DEF Begin
<1> HIDE DEF a
<1>2. ASSUME NEW type
      PROVE Anthropic!Joined(m, type) = Anthropic!Joined(a, type)
              \o (IF m[n + 1].type = type THEN m[n + 1].pieces ELSE <<>>)
  <2> DEFINE q == Texts(m, type)
  <2>1. /\ q \in [1..n + 1 -> Seq(Nat)]
        /\ q[n + 1] = IF m[n + 1].type = type THEN m[n + 1].pieces ELSE <<>>
    BY <1>1 DEF Blocks
  <2>2. Begin(q, n) = Texts(a, type)
    BY <1>1 DEF Begin
  <2>3. Anthropic!Joined(m, type) = FlattenSeq(q) /\ Anthropic!Joined(a, type) = FlattenSeq(Texts(a, type))
    BY FlattensAlike DEF Anthropic!Joined
  <2> HIDE DEF q, Texts
  <2>4. q \in Seq(Seq(Nat)) /\ Len(q) = n + 1
    BY <2>1
  <2>5. FlattenSeq(q) = FlattenSeq(Begin(q, n)) \o q[n + 1]
    BY <2>4, FlattenLast
  <2>6. QED
    BY <2>1, <2>2, <2>3, <2>5
<1>3. Anthropic!Called(m)
          = Anthropic!Called(a) \o (IF m[n + 1].type = "tool_use" THEN <<Call(m[n + 1])>> ELSE <<>>)
  <2> DEFINE q == Tools(m)
  <2>0. \A b \in Blocks : <<Call(b)>> \in Seq(Calls)
    BY DEF Blocks, Calls, Call
  <2>1. /\ q \in [1..n + 1 -> Seq(Calls)]
        /\ q[n + 1] = IF m[n + 1].type = "tool_use" THEN <<Call(m[n + 1])>> ELSE <<>>
    BY <1>1, <2>0
  <2>2. Begin(q, n) = Tools(a)
    BY <1>1 DEF Begin
  <2>3. Anthropic!Called(m) = FlattenSeq(q) /\ Anthropic!Called(a) = FlattenSeq(Tools(a))
    BY FlattensAlike DEF Anthropic!Called, Call
  <2> HIDE DEF q, Tools
  <2>4. q \in Seq(Seq(Calls)) /\ Len(q) = n + 1
    <3> DEFINE C == Seq(Calls)
    <3>1. q \in [1..n + 1 -> C] /\ n + 1 \in Nat
      BY <2>1
    <3> HIDE DEF C
    <3>2. q \in Seq(C) /\ Len(q) = n + 1
      BY <3>1
    <3>3. QED
      BY <3>2 DEF C
  <2>5. FlattenSeq(q) = FlattenSeq(Begin(q, n)) \o q[n + 1]
    BY <2>4, FlattenLast
  <2>6. QED
    BY <2>1, <2>2, <2>3, <2>5
<1>4. QED
  BY <1>2, <1>3 DEF a

\* and its types.
LEMMA SentBackTyped ==
    /\ \A m \in Seq(Blocks) : /\ \A type : Anthropic!Joined(m, type) \in Seq(Nat)
                              /\ Anthropic!Called(m) \in Seq(Calls)
    /\ \A type : Anthropic!Joined(<<>>, type) = <<>>
    /\ Anthropic!Called(<<>>) = <<>>
<1>1. ASSUME NEW m \in Seq(Blocks), NEW type PROVE Anthropic!Joined(m, type) \in Seq(Nat)
  <2> DEFINE q == [i \in DOMAIN m |-> IF m[i].type = type THEN m[i].pieces ELSE <<>>]
  <2>0. DOMAIN m = 1..Len(m) /\ Len(m) \in Nat /\ \A i \in 1..Len(m) : m[i] \in Blocks
    BY LenProperties, ElementOfSeq
  <2>1. \A i \in 1..Len(m) : m[i].pieces \in Seq(Nat)
    BY <2>0 DEF Blocks
  <2>2. q \in Seq(Seq(Nat))
    BY <2>0, <2>1
  <2>3. Anthropic!Joined(m, type) = FlattenSeq(q)
    BY FlattensAlike DEF Anthropic!Joined
  <2> HIDE DEF q
  <2>4. QED
    BY <2>2, <2>3, FlattenTyped
<1>2. ASSUME NEW m \in Seq(Blocks) PROVE Anthropic!Called(m) \in Seq(Calls)
  <2> DEFINE q == [i \in DOMAIN m |-> IF m[i].type = "tool_use" THEN <<Call(m[i])>> ELSE <<>>]
  <2>0. DOMAIN m = 1..Len(m) /\ Len(m) \in Nat /\ \A i \in 1..Len(m) : m[i] \in Blocks
    BY LenProperties, ElementOfSeq
  <2>1. \A b \in Blocks : <<Call(b)>> \in Seq(Calls)
    BY DEF Blocks, Calls, Call
  <2>2. q \in Seq(Seq(Calls))
    BY <2>0, <2>1
  <2>3. Anthropic!Called(m) = FlattenSeq(q)
    BY FlattensAlike DEF Anthropic!Called, Call
  <2> HIDE DEF q
  <2>4. QED
    BY <2>2, <2>3, FlattenTyped
<1>3. FlattenSeq(<<>>) = <<>>
  BY DEF FlattenSeq
<1>4. ASSUME NEW type PROVE Anthropic!Joined(<<>>, type) = <<>>
  <2>1. [i \in DOMAIN <<>> |-> IF <<>>[i].type = type THEN <<>>[i].pieces ELSE <<>>] = <<>>
    OBVIOUS
  <2>2. QED
    BY <1>3, <2>1, FlattensAlike DEF Anthropic!Joined
<1>5. Anthropic!Called(<<>>) = <<>>
  <2>1. [i \in DOMAIN <<>> |-> IF <<>>[i].type = "tool_use"
                       THEN <<[id |-> <<>>[i].id, pieces |-> <<>>[i].pieces]>> ELSE <<>>] = <<>>
    OBVIOUS
  <2>2. QED
    BY <1>3, <2>1, FlattensAlike DEF Anthropic!Called
<1>6. QED
  BY <1>1, <1>2, <1>4, <1>5

\* One more piece for the last of the blocks, or of the calls.
Longer(x, k) == [x EXCEPT !.pieces = Append(@, k)]
LastPiece(s, k) == [s EXCEPT ![Len(s)].pieces = Append(@, k)]
\* The last block of a message grows by a piece.
LEMMA LastPieceIs ==
    ASSUME NEW S, NEW a \in Seq(S), NEW x \in S, NEW k, Longer(x, k) \in S
    PROVE  LastPiece(Append(a, x), k) = Append(a, Longer(x, k))
<1> DEFINE n == Len(a)
           s == Append(a, x)
           y == Longer(x, k)
           t == Append(a, y)
           w == [s EXCEPT ![n + 1] = y]
<1>1. n \in Nat /\ n + 1 \in 1..n + 1
  BY LenProperties
<1>2. s \in Seq(S) /\ Len(s) = n + 1 /\ s[n + 1] = x /\ \A i \in 1..n : s[i] = a[i]
  BY AppendProperties
<1>3. t \in Seq(S) /\ Len(t) = n + 1 /\ t[n + 1] = y /\ \A i \in 1..n : t[i] = a[i]
  BY AppendProperties
<1> HIDE DEF s, t, n
<1>4. LastPiece(s, k) = w
  BY <1>2 DEF LastPiece, Longer
<1> HIDE DEF y
<1>5. /\ w \in Seq(S) /\ Len(w) = n + 1
      /\ \A i \in 1..n + 1 : w[i] = IF i = n + 1 THEN y ELSE s[i]
  BY <1>1, <1>2, ExceptSeq DEF y
<1> HIDE DEF w
<1>6. \A i \in 1..Len(w) : w[i] = t[i]
  BY <1>1, <1>2, <1>3, <1>5
<1>7. w = t
  BY <1>3, <1>5, <1>6, SeqEqual
<1>8. QED
  BY <1>4, <1>7 DEF s, t, y

\* The completion goes on with a piece of text, a call, or arguments of the last call.
WithText(c, type, k) ==
    [reasoning |-> IF type = "thinking" THEN Append(c.reasoning, k) ELSE c.reasoning,
     content |-> IF type = "text" THEN Append(c.content, k) ELSE c.content,
     calls |-> c.calls]
WithCall(c, id) == [reasoning |-> c.reasoning, content |-> c.content,
                    calls |-> Append(c.calls, [id |-> id, pieces |-> <<>>])]
WithPiece(c, k) == [reasoning |-> c.reasoning, content |-> c.content,
                    calls |-> LastPiece(c.calls, k)]

\* Appending to the second of two sequences.
LEMMA AppendToConcat ==
    ASSUME NEW S, NEW a \in Seq(S), NEW b \in Seq(S), NEW x \in S
    PROVE  a \o Append(b, x) = Append(a \o b, x)
OBVIOUS

\* A new block adds nothing to the message sent back but its call,
LEMMA BlockAdded ==
    ASSUME NEW m \in Seq(Blocks), NEW type \in BlockTypes, NEW id \in Nat
    PROVE  LET w == Append(m, Anthropic!Block(type, id, <<>>)) IN
           /\ w \in Seq(Blocks)
           /\ Anthropic!SentBack(w) = IF type = "tool_use" THEN WithCall(Anthropic!SentBack(m), id)
                                        ELSE Anthropic!SentBack(m)
<1> DEFINE b == Anthropic!Block(type, id, <<>>)
           w == Append(m, b)
           n == Len(m)
<1>1. b \in Blocks /\ b.type = type /\ b.pieces = <<>> /\ Call(b) = [id |-> id, pieces |-> <<>>]
      /\ Call(b) \in Calls
  BY DEF Anthropic!Block, Blocks, Call, Calls
<1> HIDE DEF b
<1>2. /\ w \in Seq(Blocks) /\ n \in Nat /\ Len(w) = n + 1 /\ w[n + 1] = b
      /\ \A i \in 1..n : w[i] = m[i]
  BY <1>1, AppendProperties, LenProperties
<1> HIDE DEF w, n
<1>3. Begin(w, n) = m
  <2>1. m \in [1..n -> Blocks]
    BY LenProperties DEF n
  <2>2. QED
    BY <1>2, <2>1 DEF Begin
<1>4. /\ \A ty : Anthropic!Joined(w, ty)
                = Anthropic!Joined(m, ty) \o (IF type = ty THEN <<>> ELSE <<>>)
      /\ Anthropic!Called(w)
                = Anthropic!Called(m) \o (IF type = "tool_use" THEN <<Call(b)>> ELSE <<>>)
  <2>1. w \in Seq(Blocks) /\ n \in Nat /\ Len(w) = n + 1
    BY <1>2
  <2>2. /\ \A ty : Anthropic!Joined(w, ty) = Anthropic!Joined(Begin(w, n), ty)
                \o (IF w[n + 1].type = ty THEN w[n + 1].pieces ELSE <<>>)
        /\ Anthropic!Called(w) = Anthropic!Called(Begin(w, n))
                \o (IF w[n + 1].type = "tool_use" THEN <<Call(w[n + 1])>> ELSE <<>>)
    BY <2>1, LastBlockCounts
  <2>3. QED
    BY <1>1, <1>2, <1>3, <2>2
<1>5. Anthropic!Called(m) \in Seq(Calls) /\ \A ty : Anthropic!Joined(m, ty) \in Seq(Nat)
  BY SentBackTyped
<1>6. \A ty : Anthropic!Joined(w, ty) = Anthropic!Joined(m, ty)
  BY <1>4, <1>5, ConcatEmptySeq
<1>7. Anthropic!Called(w) = IF type = "tool_use" THEN Append(Anthropic!Called(m), Call(b))
                              ELSE Anthropic!Called(m)
  BY <1>1, <1>4, <1>5, ConcatEmptySeq, AppendIsConcat
<1>8. Anthropic!SentBack(w) = IF type = "tool_use" THEN WithCall(Anthropic!SentBack(m), id)
                                ELSE Anthropic!SentBack(m)
  BY <1>1, <1>6, <1>7 DEF Anthropic!SentBack, WithCall
<1>9. QED
  BY <1>2, <1>8 DEF w, b

\* and a piece in the last block is one piece more of that call or text.
LEMMA PieceAdded ==
    ASSUME NEW a \in Seq(Blocks), NEW b \in Blocks, b.type \in BlockTypes, NEW k \in Nat
    PROVE  LET m == Append(a, b)
               w == Append(a, Longer(b, k))
           IN  /\ Longer(b, k) \in Blocks /\ m \in Seq(Blocks) /\ w \in Seq(Blocks)
               /\ LastPiece(m, k) = w
               /\ Anthropic!SentBack(w) =
                    IF b.type = "tool_use" THEN WithPiece(Anthropic!SentBack(m), k)
                      ELSE WithText(Anthropic!SentBack(m), b.type, k)
<1> DEFINE m == Append(a, b)
           c == Longer(b, k)
           w == Append(a, c)
           n == Len(a)
<1>1. /\ c \in Blocks /\ c.type = b.type /\ c.pieces = Append(b.pieces, k)
      /\ b.pieces \in Seq(Nat) /\ c.pieces \in Seq(Nat)
      /\ Call(b) \in Calls /\ Call(c) \in Calls /\ Call(c) = Longer(Call(b), k)
  <2>1. b.pieces \in Seq(Nat)
    BY DEF Blocks
  <2>2. Append(b.pieces, k) \in Seq(Nat)
    BY <2>1, AppendProperties
  <2>3. /\ c \in Blocks /\ c.type = b.type /\ c.pieces = Append(b.pieces, k) /\ c.id = b.id
        /\ b.id \in Nat
    <3> DEFINE z == Append(b.pieces, k)
    <3>1. c = [b EXCEPT !.pieces = z] /\ z \in Seq(Nat)
      BY <2>2 DEF Longer
    <3> HIDE DEF z, c
    <3>2. /\ c \in Blocks /\ c.type = b.type /\ c.pieces = z /\ c.id = b.id
          /\ b.id \in Nat
      BY <3>1 DEF Blocks
    <3>3. QED
      BY <3>2 DEF z
  <2> HIDE DEF c
  <2>4. Longer(Call(b), k) = [id |-> b.id, pieces |-> Append(b.pieces, k)]
    <3> DEFINE z == Append(b.pieces, k)
    <3>1. Call(b).pieces = b.pieces
      BY DEF Call
    <3>2. Longer(Call(b), k) = [Call(b) EXCEPT !.pieces = z]
      BY <3>1 DEF Longer
    <3> HIDE DEF z
    <3>3. [Call(b) EXCEPT !.pieces = z] = [id |-> b.id, pieces |-> z]
      BY DEF Call
    <3>4. QED
      BY <3>2, <3>3 DEF z
  <2>5. QED
    BY <2>1, <2>2, <2>3, <2>4 DEF Call, Calls
<1>2. LastPiece(m, k) = w
  BY <1>1, LastPieceIs
<1> HIDE DEF c
<1>3. /\ w \in Seq(Blocks) /\ m \in Seq(Blocks) /\ n \in Nat /\ Len(w) = n + 1 /\ w[n + 1] = c
      /\ Len(m) = n + 1 /\ m[n + 1] = b
      /\ \A i \in 1..n : w[i] = a[i] /\ m[i] = a[i]
  BY <1>1, AppendProperties, LenProperties
<1> HIDE DEF w, m, n
<1>4. Begin(w, n) = a /\ Begin(m, n) = a
  <2>1. a \in [1..n -> Blocks]
    BY LenProperties DEF n
  <2>2. QED
    BY <1>3, <2>1 DEF Begin
<1>5. /\ \A ty : Anthropic!Joined(w, ty)
                = Anthropic!Joined(a, ty) \o (IF b.type = ty THEN c.pieces ELSE <<>>)
      /\ Anthropic!Called(w)
                = Anthropic!Called(a) \o (IF b.type = "tool_use" THEN <<Call(c)>> ELSE <<>>)
  <2>1. w \in Seq(Blocks) /\ n \in Nat /\ Len(w) = n + 1
    BY <1>3
  <2>2. /\ \A ty : Anthropic!Joined(w, ty) = Anthropic!Joined(Begin(w, n), ty)
                \o (IF w[n + 1].type = ty THEN w[n + 1].pieces ELSE <<>>)
        /\ Anthropic!Called(w) = Anthropic!Called(Begin(w, n))
                \o (IF w[n + 1].type = "tool_use" THEN <<Call(w[n + 1])>> ELSE <<>>)
    BY <2>1, LastBlockCounts
  <2>3. QED
    BY <1>1, <1>3, <1>4, <2>2
<1>6. /\ \A ty : Anthropic!Joined(m, ty)
                = Anthropic!Joined(a, ty) \o (IF b.type = ty THEN b.pieces ELSE <<>>)
      /\ Anthropic!Called(m)
                = Anthropic!Called(a) \o (IF b.type = "tool_use" THEN <<Call(b)>> ELSE <<>>)
  <2>1. m \in Seq(Blocks) /\ n \in Nat /\ Len(m) = n + 1
    BY <1>3
  <2>2. /\ \A ty : Anthropic!Joined(m, ty) = Anthropic!Joined(Begin(m, n), ty)
                \o (IF m[n + 1].type = ty THEN m[n + 1].pieces ELSE <<>>)
        /\ Anthropic!Called(m) = Anthropic!Called(Begin(m, n))
                \o (IF m[n + 1].type = "tool_use" THEN <<Call(m[n + 1])>> ELSE <<>>)
    BY <2>1, LastBlockCounts
  <2>3. QED
    BY <1>1, <1>3, <1>4, <2>2
<1>7. Anthropic!Called(a) \in Seq(Calls) /\ \A ty : Anthropic!Joined(a, ty) \in Seq(Nat)
  BY SentBackTyped
<1>8. \A s \in Seq(Nat) : s \o Append(b.pieces, k) = Append(s \o b.pieces, k)
  <2> DEFINE z == b.pieces
  <2>1. z \in Seq(Nat)
    BY <1>1
  <2> HIDE DEF z
  <2>2. \A s \in Seq(Nat) : s \o Append(z, k) = Append(s \o z, k)
    BY <2>1, AppendToConcat
  <2>3. QED
    BY <2>2 DEF z
<1>9. \A ty : Anthropic!Joined(w, ty) = IF b.type = ty THEN Append(Anthropic!Joined(m, ty), k)
                                          ELSE Anthropic!Joined(m, ty)
  BY <1>1, <1>5, <1>6, <1>7, <1>8
<1>10. Anthropic!Called(w) = IF b.type = "tool_use" THEN LastPiece(Anthropic!Called(m), k)
                              ELSE Anthropic!Called(m)
  <2>1. CASE b.type = "tool_use"
    <3>1. /\ Anthropic!Called(w) = Append(Anthropic!Called(a), Longer(Call(b), k))
          /\ Anthropic!Called(m) = Append(Anthropic!Called(a), Call(b))
      BY <1>1, <1>5, <1>6, <1>7, <2>1, AppendIsConcat
    <3>2. LastPiece(Append(Anthropic!Called(a), Call(b)), k)
            = Append(Anthropic!Called(a), Longer(Call(b), k))
      BY <1>1, <1>7, LastPieceIs
    <3>3. QED
      BY <2>1, <3>1, <3>2
  <2>2. CASE b.type # "tool_use"
    BY <1>5, <1>6, <2>2
  <2>3. QED
    BY <2>1, <2>2
<1>11. Anthropic!SentBack(w) =
            IF b.type = "tool_use" THEN WithPiece(Anthropic!SentBack(m), k)
              ELSE WithText(Anthropic!SentBack(m), b.type, k)
  <2>1. CASE b.type = "tool_use"
    BY <1>9, <1>10, <2>1 DEF Anthropic!SentBack, WithPiece
  <2>2. CASE b.type # "tool_use"
    BY <1>9, <1>10, <2>2 DEF Anthropic!SentBack, WithText
  <2>3. QED
    BY <2>1, <2>2
<1>12. QED
  BY <1>1, <1>2, <1>3, <1>11 DEF m, w, c

\* One element more to pick from.
LEMMA PickedMore ==
    ASSUME NEW T1, NEW x \in Seq(T1), NEW e \in T1, NEW among
    PROVE  Picked(Append(x, e), among) = IF Len(x) + 1 \in among THEN Append(Picked(x, among), e)
                                                          ELSE Picked(x, among)
<1> DEFINE y == <<e>>
           bt == {j \in 1..1 : Len(x) + j \in among}
<1>1. y \in Seq(T1) /\ DOMAIN y = 1..1
  OBVIOUS
<1>2. \A j \in DOMAIN y : j \in bt <=> Len(x) + j \in among
  BY <1>1
<1>3. Picked(y, bt) = IF Len(x) + 1 \in among THEN <<e>> ELSE <<>>
  <2>1. 1 \in bt <=> Len(x) + 1 \in among
    OBVIOUS
  <2> HIDE DEF bt
  <2>2. QED
    BY <2>1, PickedOne
<1>4. Append(x, e) = x \o y
  BY AppendIsConcat
<1> HIDE DEF y, bt
<1>5. Picked(x \o y, among) = Picked(x, among) \o Picked(y, bt)
  BY <1>1, <1>2, PickedConcat
<1>6. Picked(x, among) \in Seq(T1)
  <2>1. \A i \in among \cap DOMAIN x : x[i] \in T1
    BY LenProperties, ElementOfSeq
  <2>2. QED
    BY <2>1, PickedTyped
<1>7. QED
  BY <1>3, <1>4, <1>5, <1>6, ConcatEmptySeq, AppendIsConcat

\* The parts of a completion, and one part more.
AnswerParts == [type : BlockTypes, call : Nat, id : Nat \cup {None}, arguments : BOOLEAN]
\* A part more adds its number to the pieces it is of,
LEMMA NumbersGrow ==
    ASSUME NEW t \in Seq(AnswerParts), NEW part \in AnswerParts, NEW old, NEW new,
           \A i \in 1..Len(t) : i \in old <=> i \in new
    PROVE  LET k == Len(t) + 1 IN
           /\ Anthropic!Numbers(t, old) \in Seq(Nat)
           /\ Anthropic!Numbers(Append(t, part), new) =
                IF k \in new THEN Append(Anthropic!Numbers(t, old), k) ELSE Anthropic!Numbers(t, old)
<1> DEFINE n == Len(t)
           k == n + 1
           w == Append(t, part)
           x == [i \in 1..n |-> i]
           z == [i \in 1..k |-> i]
<1>1. n \in Nat /\ k \in Nat /\ DOMAIN t = 1..n /\ DOMAIN w = 1..k
  BY LenProperties, AppendProperties
<1>2. \A b : Anthropic!Numbers(t, b) = Picked(x, b)
  <2>1. ASSUME NEW b PROVE [i \in DOMAIN t |-> IF i \in b THEN <<i>> ELSE <<>>] = Pieces(x, b)
    BY <1>1 DEF Pieces
  <2>2. QED
    BY <2>1, FlattensAlike DEF Anthropic!Numbers, Picked
<1>3. Anthropic!Numbers(w, new) = Picked(z, new)
  <2>1. [i \in DOMAIN w |-> IF i \in new THEN <<i>> ELSE <<>>] = Pieces(z, new)
    BY <1>1 DEF Pieces
  <2> HIDE DEF w
  <2>2. QED
    BY <2>1, FlattensAlike DEF Anthropic!Numbers, Picked
<1> HIDE DEF w, n
<1>4. x \in Seq(Nat) /\ Len(x) = n /\ DOMAIN x = 1..n
  BY <1>1
<1>5. z = Append(x, k)
  BY <1>1
<1>6. Picked(x, old) = Picked(x, new)
  <2>1. \A i \in DOMAIN x : i \in old <=> i \in new
    BY <1>4 DEF n
  <2> HIDE DEF x
  <2>2. QED
    BY <2>1, PickedSame
<1>7. Picked(x, old) \in Seq(Nat)
  <2>1. \A i \in old \cap DOMAIN x : x[i] \in Nat
    BY <1>4
  <2> HIDE DEF x
  <2>2. QED
    BY <1>4, <2>1, PickedTyped
<1> HIDE DEF x, z
<1>8. Picked(Append(x, k), new) = IF Len(x) + 1 \in new THEN Append(Picked(x, new), k)
                                                        ELSE Picked(x, new)
  <2>1. x \in Seq(Nat) /\ k \in Nat
    BY <1>1, <1>4
  <2> HIDE DEF k
  <2>2. \A e \in Nat : Picked(Append(x, e), new) = IF Len(x) + 1 \in new THEN Append(Picked(x, new), e)
                                                     ELSE Picked(x, new)
    BY <2>1, PickedMore
  <2>3. QED
    BY <2>1, <2>2
<1>9. QED
  BY <1>2, <1>3, <1>4, <1>5, <1>6, <1>7, <1>8 DEF n, w

CallsOf(t, n) == [m \in 1..n |-> [id |-> m, pieces |-> Anthropic!Numbers(t, Anthropic!Argued(t, m))]]
\* that is, to the text of its type and to the arguments of its call.
LEMMA PartAdded ==
    ASSUME NEW t \in Seq(AnswerParts), NEW part \in AnswerParts
    PROVE  LET w == Append(t, part)
               k == Len(t) + 1
           IN  /\ \A type \in BlockTypes :
                      Anthropic!Numbers(w, Anthropic!Texted(w, type)) =
                        IF part.type = type
                          THEN Append(Anthropic!Numbers(t, Anthropic!Texted(t, type)), k)
                          ELSE Anthropic!Numbers(t, Anthropic!Texted(t, type))
               /\ \A m \in Nat :
                      /\ Anthropic!Numbers(t, Anthropic!Argued(t, m)) \in Seq(Nat)
                      /\ Anthropic!Numbers(w, Anthropic!Argued(w, m)) =
                           IF part.call = m /\ part.arguments
                             THEN Append(Anthropic!Numbers(t, Anthropic!Argued(t, m)), k)
                             ELSE Anthropic!Numbers(t, Anthropic!Argued(t, m))
<1> DEFINE n == Len(t)
           k == n + 1
           w == Append(t, part)
<1>1. n \in Nat /\ DOMAIN t = 1..n
  BY LenProperties
<1>2. DOMAIN w = 1..k /\ w[k] = part /\ \A i \in 1..n : w[i] = t[i]
  BY AppendProperties, LenProperties
<1>3. k \in 1..k /\ k \notin 1..n /\ \A i \in 1..n : i \in 1..k
  BY <1>1
<1> HIDE DEF w
<1>4. ASSUME NEW type
      PROVE  Anthropic!Numbers(w, Anthropic!Texted(w, type)) =
                        IF part.type = type
                          THEN Append(Anthropic!Numbers(t, Anthropic!Texted(t, type)), k)
                          ELSE Anthropic!Numbers(t, Anthropic!Texted(t, type))
  <2> DEFINE among == Anthropic!Texted(t, type)
             bt == Anthropic!Texted(w, type)
  <2>1. \A i \in 1..Len(t) : i \in among <=> i \in bt
    BY <1>1, <1>2, <1>3 DEF Anthropic!Texted
  <2>2. k \in bt <=> part.type = type
    BY <1>2, <1>3 DEF Anthropic!Texted
  <2> HIDE DEF among, bt
  <2>3. Anthropic!Numbers(w, bt) =
            IF k \in bt THEN Append(Anthropic!Numbers(t, among), k) ELSE Anthropic!Numbers(t, among)
    BY <2>1, NumbersGrow DEF w
  <2>4. QED
    BY <2>2, <2>3 DEF among, bt
<1>5. ASSUME NEW m
      PROVE  /\ Anthropic!Numbers(t, Anthropic!Argued(t, m)) \in Seq(Nat)
             /\ Anthropic!Numbers(w, Anthropic!Argued(w, m)) =
                           IF part.call = m /\ part.arguments
                             THEN Append(Anthropic!Numbers(t, Anthropic!Argued(t, m)), k)
                             ELSE Anthropic!Numbers(t, Anthropic!Argued(t, m))
  <2> DEFINE among == Anthropic!Argued(t, m)
             bt == Anthropic!Argued(w, m)
  <2>1. \A i \in 1..Len(t) : i \in among <=> i \in bt
    BY <1>1, <1>2, <1>3 DEF Anthropic!Argued
  <2>2. k \in bt <=> part.call = m /\ part.arguments
    BY <1>2, <1>3 DEF Anthropic!Argued
  <2> HIDE DEF among, bt
  <2>3. /\ Anthropic!Numbers(t, among) \in Seq(Nat)
        /\ Anthropic!Numbers(w, bt) =
            IF k \in bt THEN Append(Anthropic!Numbers(t, among), k) ELSE Anthropic!Numbers(t, among)
    <3>1. Anthropic!Numbers(t, among) \in Seq(Nat)
      BY NumbersGrow
    <3>2. Anthropic!Numbers(w, bt) =
            IF k \in bt THEN Append(Anthropic!Numbers(t, among), k) ELSE Anthropic!Numbers(t, among)
      BY <2>1, NumbersGrow DEF w
    <3>3. QED
      BY <3>1, <3>2
  <2>4. QED
    BY <2>2, <2>3 DEF among, bt
<1>6. QED
  BY <1>4, <1>5 DEF w

\* A piece of text.
LEMMA TextAdded ==
    ASSUME NEW t \in Seq(AnswerParts), NEW part \in AnswerParts, part.type # "tool_use", part.call = 0, NEW n \in Nat
    PROVE  Anthropic!Completion(Append(t, part), n)
             = WithText(Anthropic!Completion(t, n), part.type, Len(t) + 1)
<1> DEFINE w == Append(t, part)
           k == Len(t) + 1
<1>1. \A type \in BlockTypes :
          Anthropic!Numbers(w, Anthropic!Texted(w, type)) =
            IF part.type = type THEN Append(Anthropic!Numbers(t, Anthropic!Texted(t, type)), k)
              ELSE Anthropic!Numbers(t, Anthropic!Texted(t, type))
  BY PartAdded
<1>2. CallsOf(w, n) = CallsOf(t, n)
  <2>1. \A m \in 1..n : Anthropic!Numbers(w, Anthropic!Argued(w, m)) = Anthropic!Numbers(t, Anthropic!Argued(t, m))
    BY PartAdded
  <2>2. QED
    BY <2>1 DEF CallsOf
<1> HIDE DEF w, k
<1>3. \A s : Anthropic!Completion(s, n) =
          [reasoning |-> Anthropic!Numbers(s, Anthropic!Texted(s, "thinking")),
           content |-> Anthropic!Numbers(s, Anthropic!Texted(s, "text")), calls |-> CallsOf(s, n)]
  BY DEF Anthropic!Completion, CallsOf
<1>4. "thinking" \in BlockTypes /\ "text" \in BlockTypes
  BY DEF BlockTypes
<1>5. QED
  BY <1>1, <1>2, <1>3, <1>4 DEF WithText, w, k

\* The calls of a completion are numbered from 1,
LEMMA CallsTyped ==
    ASSUME NEW t \in Seq(AnswerParts), NEW n \in Nat
    PROVE  CallsOf(t, n) \in [1..n -> Calls] /\ CallsOf(t, n) \in Seq(Calls) /\ Len(CallsOf(t, n)) = n
<1> DEFINE part == [type |-> "text", call |-> 0, id |-> 0, arguments |-> FALSE]
<1>1. part \in AnswerParts
  BY DEF AnswerParts, BlockTypes
<1>2. \A m \in 1..n : Anthropic!Numbers(t, Anthropic!Argued(t, m)) \in Seq(Nat)
  BY <1>1, PartAdded
<1>3. CallsOf(t, n) \in [1..n -> Calls]
  BY <1>2 DEF CallsOf, Calls
<1>4. QED
  BY <1>3

\* and one that has no part has no piece.
LEMMA NumbersNone == ASSUME NEW t \in Seq(AnswerParts) PROVE Anthropic!Numbers(t, {}) = <<>>
<1> DEFINE n == Len(t)
           x == [i \in 1..n |-> i]
<1>1. n \in Nat /\ DOMAIN t = 1..n
  BY LenProperties
<1>2. Anthropic!Numbers(t, {}) = Picked(x, {})
  <2>1. [i \in DOMAIN t |-> IF i \in {} THEN <<i>> ELSE <<>>] = Pieces(x, {})
    BY <1>1 DEF Pieces
  <2>2. QED
    BY <2>1, FlattensAlike DEF Anthropic!Numbers, Picked
<1>3. x \in Seq(Nat)
  BY <1>1
<1> HIDE DEF x
<1>4. Picked(x, {}) = <<>>
  <2>1. {} \cap DOMAIN x = {}
    OBVIOUS
  <2>2. QED
    BY <1>3, <2>1, PickedNone
<1>5. QED
  BY <1>2, <1>4

\* The completion of some parts, with its calls by name.
LEMMA CompletionIs ==
    ASSUME NEW s \in Seq(AnswerParts), NEW n \in Nat
    PROVE  /\ Anthropic!Completion(s, n) =
                [reasoning |-> Anthropic!Numbers(s, Anthropic!Texted(s, "thinking")),
                 content |-> Anthropic!Numbers(s, Anthropic!Texted(s, "text")),
                 calls |-> CallsOf(s, n)]
           /\ Anthropic!Completion(s, n).calls = CallsOf(s, n)
  BY DEF Anthropic!Completion, CallsOf

\* A call.
LEMMA CallAdded ==
    ASSUME NEW t \in Seq(AnswerParts), NEW part \in AnswerParts, NEW n \in Nat,
           \A i \in 1..Len(t) : t[i].call \leq n, part.type = "tool_use", part.call = n + 1
    PROVE  LET c == WithCall(Anthropic!Completion(t, n), n + 1)
           IN  Anthropic!Completion(Append(t, part), n + 1)
                 = IF part.arguments THEN WithPiece(c, Len(t) + 1) ELSE c
<1> DEFINE w == Append(t, part)
           k == Len(t) + 1
           a == CallsOf(t, n)
           x == [id |-> n + 1, pieces |-> <<>>]
           z == CallsOf(w, n + 1)
<1>1. /\ w \in Seq(AnswerParts) /\ k \in Nat /\ DOMAIN t = 1..Len(t) /\ n + 1 \in Nat
      /\ \A i \in 1..Len(t) : t[i] \in AnswerParts
  BY AppendProperties, LenProperties, ElementOfSeq
<1>2. \A type \in BlockTypes :
          Anthropic!Numbers(w, Anthropic!Texted(w, type)) =
            IF part.type = type THEN Append(Anthropic!Numbers(t, Anthropic!Texted(t, type)), k)
              ELSE Anthropic!Numbers(t, Anthropic!Texted(t, type))
  BY PartAdded
<1>3. \A m \in Nat : Anthropic!Numbers(w, Anthropic!Argued(w, m)) =
            IF part.call = m /\ part.arguments
              THEN Append(Anthropic!Numbers(t, Anthropic!Argued(t, m)), k)
              ELSE Anthropic!Numbers(t, Anthropic!Argued(t, m))
  BY PartAdded
<1>4. Anthropic!Numbers(t, Anthropic!Argued(t, n + 1)) = <<>>
  <2>1. \A i \in DOMAIN t : t[i].call # n + 1
    BY <1>1 DEF AnswerParts
  <2>2. Anthropic!Argued(t, n + 1) = {}
    BY <2>1 DEF Anthropic!Argued
  <2>3. QED
    BY <2>2, NumbersNone
<1>5. /\ a \in [1..n -> Calls] /\ a \in Seq(Calls) /\ Len(a) = n
  BY CallsTyped
<1> HIDE DEF w, k
<1>6. z \in Seq(Calls) /\ Len(z) = n + 1
  BY <1>1, CallsTyped
<1>7. Begin(z, n) = a
  <2>1. \A m \in 1..n : m \in Nat /\ m # n + 1 /\ m \in 1..n + 1
    OBVIOUS
  <2>2. \A m \in 1..n : Anthropic!Numbers(w, Anthropic!Argued(w, m)) = Anthropic!Numbers(t, Anthropic!Argued(t, m))
    BY <1>3, <2>1
  <2>3. \A m \in 1..n : z[m] = a[m]
    BY <2>1, <2>2 DEF CallsOf
  <2>4. QED
    BY <1>5, <2>3 DEF Begin
<1>8. z[n + 1] = [id |-> n + 1, pieces |-> IF part.arguments THEN Append(<<>>, k) ELSE <<>>]
  <2>1. Anthropic!Numbers(w, Anthropic!Argued(w, n + 1)) = IF part.arguments THEN Append(<<>>, k) ELSE <<>>
    BY <1>1, <1>3, <1>4
  <2>2. n + 1 \in 1..n + 1
    OBVIOUS
  <2>3. QED
    BY <2>1, <2>2 DEF CallsOf
<1> HIDE DEF a, z
<1>9. z = Append(a, z[n + 1])
  BY <1>6, <1>7, BeginIs
<1>10. z = IF part.arguments THEN LastPiece(Append(a, x), k) ELSE Append(a, x)
  <2>1. x \in Calls /\ Longer(x, k) = [id |-> n + 1, pieces |-> Append(<<>>, k)] /\ Longer(x, k) \in Calls
    <3>1. Append(<<>>, k) \in Seq(Nat) /\ <<>> \in Seq(Nat)
      BY <1>1
    <3> DEFINE y == Append(<<>>, k)
    <3>2. Longer(x, k) = [x EXCEPT !.pieces = y]
      BY DEF Longer
    <3> HIDE DEF y
    <3>3. [x EXCEPT !.pieces = y] = [id |-> n + 1, pieces |-> y]
      OBVIOUS
    <3>4. x \in Calls /\ [id |-> n + 1, pieces |-> y] \in Calls
      BY <1>1, <3>1 DEF Calls, y
    <3>5. QED
      BY <3>2, <3>3, <3>4 DEF y
  <2> HIDE DEF x
  <2>2. LastPiece(Append(a, x), k) = Append(a, Longer(x, k))
    BY <1>5, <2>1, LastPieceIs
  <2>3. CASE part.arguments
    BY <1>8, <1>9, <2>1, <2>2, <2>3
  <2>4. CASE ~part.arguments
    BY <1>8, <1>9, <2>4 DEF x
  <2>5. QED
    BY <2>3, <2>4
<1>11. "thinking" \in BlockTypes /\ "text" \in BlockTypes
  BY DEF BlockTypes
<1>12. Anthropic!Completion(w, n + 1) =
            [reasoning |-> Anthropic!Numbers(t, Anthropic!Texted(t, "thinking")),
             content |-> Anthropic!Numbers(t, Anthropic!Texted(t, "text")), calls |-> z]
  BY <1>1, <1>2, <1>11, CompletionIs DEF z
<1>13. Anthropic!Completion(t, n) =
            [reasoning |-> Anthropic!Numbers(t, Anthropic!Texted(t, "thinking")),
             content |-> Anthropic!Numbers(t, Anthropic!Texted(t, "text")), calls |-> a]
  BY CompletionIs DEF a
<1>14. QED
  <2> DEFINE f == Anthropic!Numbers(t, Anthropic!Texted(t, "thinking"))
             g == Anthropic!Numbers(t, Anthropic!Texted(t, "text"))
             c == Anthropic!Completion(t, n)
             v == WithCall(c, n + 1)
             y == LastPiece(Append(a, x), k)
  <2>1. c = [reasoning |-> f, content |-> g, calls |-> a]
    BY <1>13
  <2>2. Anthropic!Completion(w, n + 1) = [reasoning |-> f, content |-> g, calls |-> z]
    BY <1>12
  <2> HIDE DEF f, g, c, y
  <2>3. v = [reasoning |-> f, content |-> g, calls |-> Append(a, x)]
    BY <2>1 DEF WithCall
  <2> HIDE DEF v
  <2>4. WithPiece(v, k) = [reasoning |-> f, content |-> g, calls |-> y]
    BY <2>3 DEF WithPiece, y
  <2>5. CASE part.arguments
    <3>1. z = y
      BY <1>10, <2>5 DEF y
    <3>2. QED
      BY <2>2, <2>4, <2>5, <3>1 DEF w, k, v, c
  <2>6. CASE ~part.arguments
    <3>1. z = Append(a, x)
      BY <1>10, <2>6
    <3>2. QED
      BY <2>2, <2>3, <2>6, <3>1 DEF w, v, c
  <2>7. QED
    BY <2>5, <2>6

\* More arguments of the last call.
LEMMA ArgumentsAdded ==
    ASSUME NEW t \in Seq(AnswerParts), NEW part \in AnswerParts, NEW n \in Nat \ {0},
           part.type = "tool_use", part.call = n, part.arguments
    PROVE  Anthropic!Completion(Append(t, part), n)
             = WithPiece(Anthropic!Completion(t, n), Len(t) + 1)
<1> DEFINE w == Append(t, part)
           k == Len(t) + 1
           a == CallsOf(t, n)
           z == CallsOf(w, n)
           m == n - 1
<1>1. /\ w \in Seq(AnswerParts) /\ k \in Nat /\ m \in Nat /\ m + 1 = n /\ n \in Nat
  BY AppendProperties, LenProperties
<1>2. \A type \in BlockTypes :
          Anthropic!Numbers(w, Anthropic!Texted(w, type)) =
            IF part.type = type THEN Append(Anthropic!Numbers(t, Anthropic!Texted(t, type)), k)
              ELSE Anthropic!Numbers(t, Anthropic!Texted(t, type))
  BY PartAdded
<1>3. \A i \in Nat : /\ Anthropic!Numbers(t, Anthropic!Argued(t, i)) \in Seq(Nat)
                     /\ Anthropic!Numbers(w, Anthropic!Argued(w, i)) =
                          IF part.call = i /\ part.arguments
                            THEN Append(Anthropic!Numbers(t, Anthropic!Argued(t, i)), k)
                            ELSE Anthropic!Numbers(t, Anthropic!Argued(t, i))
  BY PartAdded
<1>4. /\ a \in [1..n -> Calls] /\ a \in Seq(Calls) /\ Len(a) = n
  BY <1>1, CallsTyped
<1> HIDE DEF w, k
<1>5. z \in Seq(Calls) /\ Len(z) = n
  BY <1>1, CallsTyped
<1>6. Begin(z, m) = Begin(a, m)
  <2>1. \A i \in 1..m : i \in Nat /\ i # n /\ i \in 1..n
    BY <1>1
  <2>2. \A i \in 1..m : Anthropic!Numbers(w, Anthropic!Argued(w, i)) = Anthropic!Numbers(t, Anthropic!Argued(t, i))
    BY <1>3, <2>1
  <2>3. \A i \in 1..m : z[i] = a[i]
    BY <2>1, <2>2 DEF CallsOf
  <2> HIDE DEF z, a
  <2>4. QED
    BY <2>3 DEF Begin
<1> DEFINE p == Anthropic!Numbers(t, Anthropic!Argued(t, n))
<1>7. a[n] = [id |-> n, pieces |-> p] /\ z[n] = [id |-> n, pieces |-> Append(p, k)]
  <2>1. Anthropic!Numbers(w, Anthropic!Argued(w, n)) = Append(p, k)
    BY <1>1, <1>3
  <2>2. n \in 1..n
    BY <1>1
  <2>3. QED
    BY <2>1, <2>2 DEF CallsOf
<1>8. p \in Seq(Nat)
  BY <1>1, <1>3
<1> HIDE DEF a, z, p
<1>9. Longer(a[n], k) = z[n] /\ a[n] \in Calls /\ z[n] \in Calls
  <2> DEFINE y == Append(p, k)
  <2>1. y \in Seq(Nat)
    BY <1>1, <1>8
  <2>2. a[n].pieces = p
    BY <1>7
  <2>3. Longer(a[n], k) = [a[n] EXCEPT !.pieces = y]
    BY <2>2 DEF Longer
  <2>4. z[n] = [id |-> n, pieces |-> y]
    BY <1>7
  <2> HIDE DEF y
  <2>5. [a[n] EXCEPT !.pieces = y] = [id |-> n, pieces |-> y]
    BY <1>7
  <2>6. QED
    BY <1>1, <1>7, <1>8, <2>1, <2>3, <2>4, <2>5 DEF Calls
<1>10. a = Append(Begin(a, m), a[n]) /\ z = Append(Begin(a, m), z[n]) /\ Begin(a, m) \in Seq(Calls)
  <2>1. a = Append(Begin(a, m), a[m + 1]) /\ Begin(a, m) \in Seq(Calls)
    BY <1>1, <1>4, BeginIs
  <2>2. z = Append(Begin(z, m), z[m + 1])
    BY <1>1, <1>5, BeginIs
  <2>3. QED
    BY <1>1, <1>6, <2>1, <2>2
<1>11. LastPiece(a, k) = z
  <2> DEFINE b == Begin(a, m)
             x == a[n]
  <2>1. b \in Seq(Calls) /\ x \in Calls /\ Longer(x, k) \in Calls
    BY <1>9, <1>10
  <2>2. a = Append(b, x) /\ z = Append(b, Longer(x, k))
    BY <1>9, <1>10
  <2> HIDE DEF b, x
  <2>3. LastPiece(Append(b, x), k) = Append(b, Longer(x, k))
    BY <2>1, LastPieceIs
  <2>4. QED
    BY <2>2, <2>3
<1>12. "thinking" \in BlockTypes /\ "text" \in BlockTypes
  BY DEF BlockTypes
<1>13. Anthropic!Completion(w, n) =
            [reasoning |-> Anthropic!Numbers(t, Anthropic!Texted(t, "thinking")),
             content |-> Anthropic!Numbers(t, Anthropic!Texted(t, "text")), calls |-> z]
  BY <1>1, <1>2, <1>12, CompletionIs DEF z
<1>14. Anthropic!Completion(t, n) =
            [reasoning |-> Anthropic!Numbers(t, Anthropic!Texted(t, "thinking")),
             content |-> Anthropic!Numbers(t, Anthropic!Texted(t, "text")), calls |-> a]
  BY <1>1, CompletionIs DEF a
<1>15. QED
  BY <1>11, <1>13, <1>14 DEF WithPiece, w, k

\* The whole message of a completion that goes on.
Answers == [reasoning : Seq(Nat), content : Seq(Nat), calls : Seq(Calls)]
ToolBlock(x) == Anthropic!Block("tool_use", x.id, x.pieces)
ToolBlocks(cs) == [i \in DOMAIN cs |-> ToolBlock(cs[i])]
TextBlocks(c) == Anthropic!TextBlock("thinking", c.reasoning) \o Anthropic!TextBlock("text", c.content)

\* Types of the blocks of a message.
LEMMA BlockTyped ==
    ASSUME NEW type \in BlockTypes, NEW id \in Nat, NEW pieces \in Seq(Nat)
    PROVE  /\ Anthropic!Block(type, id, pieces) \in Blocks
           /\ Anthropic!Block(type, id, pieces).type = type
           /\ Anthropic!Block(type, id, pieces).id = id
           /\ Anthropic!Block(type, id, pieces).pieces = pieces
  BY DEF Anthropic!Block, Blocks

\* A text without pieces has no block.
LEMMA TextBlockTyped ==
    ASSUME NEW type \in BlockTypes, NEW pieces \in Seq(Nat)
    PROVE  Anthropic!TextBlock(type, pieces) \in Seq(Blocks)
<1>1. Anthropic!Block(type, 0, pieces) \in Blocks
  BY BlockTyped
<1>2. QED
  BY <1>1 DEF Anthropic!TextBlock

\* A block that is one piece longer.
LEMMA LongerBlock ==
    ASSUME NEW type \in BlockTypes, NEW id \in Nat, NEW pieces \in Seq(Nat), NEW k \in Nat
    PROVE  /\ Longer(Anthropic!Block(type, id, pieces), k)
                 = Anthropic!Block(type, id, Append(pieces, k))
           /\ Append(pieces, k) \in Seq(Nat) /\ Append(pieces, k) # <<>>
           /\ Anthropic!Block(type, id, Append(pieces, k)) \in Blocks
<1> DEFINE b == Anthropic!Block(type, id, pieces)
           z == Append(pieces, k)
<1>1. b.pieces = pieces
  BY DEF Anthropic!Block
<1>2. Longer(b, k) = [b EXCEPT !.pieces = z]
  BY <1>1 DEF Longer
<1>3. z \in Seq(Nat) /\ z # <<>>
  BY AppendProperties
<1> HIDE DEF z
<1>4. [b EXCEPT !.pieces = z] = Anthropic!Block(type, id, z)
  BY DEF Anthropic!Block
<1>5. Anthropic!Block(type, id, z) \in Blocks
  BY <1>3, BlockTyped
<1>6. QED
  BY <1>2, <1>3, <1>4, <1>5 DEF z

\* The blocks of the calls,
LEMMA ToolBlocksTyped ==
    ASSUME NEW cs \in Seq(Calls) PROVE ToolBlocks(cs) \in Seq(Blocks)
<1>1. DOMAIN cs = 1..Len(cs) /\ Len(cs) \in Nat /\ \A i \in 1..Len(cs) : cs[i] \in Calls
  BY LenProperties, ElementOfSeq
<1>2. \A x \in Calls : ToolBlock(x) \in Blocks
  BY DEF ToolBlock, Calls, Anthropic!Block, Blocks, BlockTypes
<1>3. QED
  BY <1>1, <1>2 DEF ToolBlocks

\* and those of the texts,
LEMMA TextBlocksTyped == ASSUME NEW c \in Answers PROVE TextBlocks(c) \in Seq(Blocks)
<1>1. c.reasoning \in Seq(Nat) /\ c.content \in Seq(Nat)
  BY DEF Answers
<1>2. /\ Anthropic!TextBlock("thinking", c.reasoning) \in Seq(Blocks)
      /\ Anthropic!TextBlock("text", c.content) \in Seq(Blocks)
  BY <1>1, TextBlockTyped DEF BlockTypes
<1>3. QED
  BY <1>2, ConcatProperties DEF TextBlocks

\* make up the message of the other endpoint.
LEMMA MessageIs == \A c : Anthropic!Message(c) = TextBlocks(c) \o ToolBlocks(c.calls)
  BY DEF Anthropic!Message, TextBlocks, ToolBlocks, ToolBlock

\* A piece of text is the message's last, in a block of its own if it is the first.
LEMMA TextInMessage ==
    ASSUME NEW c \in Answers, c.calls = <<>>, NEW type \in {"thinking", "text"},
           type = "thinking" => c.content = <<>>, NEW k \in Nat
    PROVE  LET old == IF type = "thinking" THEN c.reasoning ELSE c.content
               m == Anthropic!Message(c)
           IN  Anthropic!Message(WithText(c, type, k)) =
                 LastPiece(IF old = <<>> THEN Append(m, Anthropic!Block(type, 0, <<>>)) ELSE m, k)
<1> DEFINE old == IF type = "thinking" THEN c.reasoning ELSE c.content
           p == IF type = "thinking" THEN <<>> ELSE Anthropic!TextBlock("thinking", c.reasoning)
           m == Anthropic!Message(c)
           b == Anthropic!Block(type, 0, old)
           d == WithText(c, type, k)
<1>1. c.reasoning \in Seq(Nat) /\ c.content \in Seq(Nat) /\ old \in Seq(Nat)
      /\ type \in BlockTypes /\ "thinking" \in BlockTypes /\ 0 \in Nat
  BY DEF Answers, BlockTypes
<1>2. p \in Seq(Blocks)
  BY <1>1, TextBlockTyped
<1>3. /\ b \in Blocks /\ Longer(b, k) = Anthropic!Block(type, 0, Append(old, k))
      /\ Append(old, k) \in Seq(Nat) /\ Append(old, k) # <<>> /\ Longer(b, k) \in Blocks
  <2> HIDE DEF old
  <2>1. b \in Blocks
    BY <1>1, BlockTyped
  <2>2. /\ Longer(Anthropic!Block(type, 0, old), k) = Anthropic!Block(type, 0, Append(old, k))
        /\ Append(old, k) \in Seq(Nat) /\ Append(old, k) # <<>>
        /\ Anthropic!Block(type, 0, Append(old, k)) \in Blocks
    BY <1>1, LongerBlock
  <2>3. QED
    BY <2>1, <2>2
<1>4. ToolBlocks(<<>>) = <<>>
  BY DEF ToolBlocks
<1>5. Anthropic!TextBlock("text", <<>>) = <<>>
  BY DEF Anthropic!TextBlock
<1>6. m = p \o Anthropic!TextBlock(type, old)
  <2> DEFINE tb == Anthropic!TextBlock(type, old)
  <2>1. tb \in Seq(Blocks) /\ TextBlocks(c) \in Seq(Blocks)
    BY <1>1, TextBlockTyped, TextBlocksTyped
  <2>2. m = TextBlocks(c) \o <<>>
    BY <1>4, MessageIs
  <2>3. TextBlocks(c) = IF type = "thinking" THEN tb \o <<>> ELSE p \o tb
    BY <1>5 DEF TextBlocks
  <2> HIDE DEF tb, m, p
  <2>4. m = TextBlocks(c)
    BY <2>1, <2>2, ConcatEmptySeq
  <2>5. CASE type = "thinking"
    <3>1. tb \o <<>> = tb /\ <<>> \o tb = tb
      BY <2>1, ConcatEmptySeq
    <3>2. p = <<>>
      BY <2>5 DEF p
    <3>3. QED
      BY <2>3, <2>4, <2>5, <3>1, <3>2 DEF tb
  <2>6. CASE type # "thinking"
    BY <2>3, <2>4, <2>6 DEF tb
  <2>7. QED
    BY <2>5, <2>6
<1>7. Anthropic!Message(d) = p \o Anthropic!TextBlock(type, Append(old, k))
  <2> DEFINE tb == Anthropic!TextBlock(type, Append(old, k))
  <2>1. /\ d.calls = <<>>
        /\ d.reasoning = IF type = "thinking" THEN Append(old, k) ELSE c.reasoning
        /\ d.content = IF type = "thinking" THEN <<>> ELSE Append(old, k)
    BY DEF WithText
  <2>2. tb \in Seq(Blocks)
    BY <1>1, <1>3, TextBlockTyped
  <2> HIDE DEF d
  <2>3. TextBlocks(d) = IF type = "thinking" THEN tb \o <<>> ELSE p \o tb
    BY <1>5, <2>1 DEF TextBlocks
  <2>4. Anthropic!Message(d) = TextBlocks(d) \o <<>>
    BY <1>4, <2>1, MessageIs
  <2> HIDE DEF tb
  <2>5. TextBlocks(d) = p \o tb /\ p \o tb \in Seq(Blocks)
    BY <1>2, <2>2, <2>3, ConcatEmptySeq, ConcatProperties
  <2>6. QED
    BY <2>4, <2>5, ConcatEmptySeq DEF tb
<1>8. Anthropic!TextBlock(type, Append(old, k)) = <<Longer(b, k)>>
  BY <1>3 DEF Anthropic!TextBlock
<1>9. Anthropic!Message(d) = Append(p, Longer(b, k))
  BY <1>2, <1>3, <1>7, <1>8, AppendIsConcat
<1>10. Append(p, Longer(b, k)) = LastPiece(Append(p, b), k)
  <2> HIDE DEF p, b
  <2>1. QED
    BY <1>2, <1>3, LastPieceIs
<1>11. Append(p, b) = IF old = <<>> THEN Append(m, Anthropic!Block(type, 0, <<>>)) ELSE m
  <2>1. CASE old = <<>>
    <3>1. m = p
      BY <1>2, <1>6, <2>1, ConcatEmptySeq DEF Anthropic!TextBlock
    <3>2. QED
      BY <2>1, <3>1
  <2>2. CASE old # <<>>
    <3>1. Anthropic!TextBlock(type, old) = <<b>>
      BY <2>2 DEF Anthropic!TextBlock
    <3>2. QED
      BY <1>2, <1>3, <1>6, <2>2, <3>1, AppendIsConcat
  <2>3. QED
    BY <2>1, <2>2
<1>12. QED
  BY <1>9, <1>10, <1>11

\* A call is the message's last block, and further arguments go to it.
LEMMA CallInMessage ==
    ASSUME NEW c \in Answers, NEW id \in Nat
    PROVE  Anthropic!Message(WithCall(c, id))
             = Append(Anthropic!Message(c), Anthropic!Block("tool_use", id, <<>>))
<1> DEFINE x == [id |-> id, pieces |-> <<>>]
           d == WithCall(c, id)
           a == c.calls
           b == Anthropic!Block("tool_use", id, <<>>)
<1>1. a \in Seq(Calls) /\ x \in Calls /\ b = ToolBlock(x) /\ b \in Blocks /\ ToolBlocks(a) \in Seq(Blocks)
      /\ TextBlocks(c) \in Seq(Blocks)
  <2>1. a \in Seq(Calls) /\ x \in Calls /\ b = ToolBlock(x) /\ b \in Blocks
    BY DEF Answers, Calls, ToolBlock, Anthropic!Block, Blocks, BlockTypes
  <2>2. QED
    BY <2>1, ToolBlocksTyped, TextBlocksTyped
<1>2. d.calls = Append(a, x) /\ TextBlocks(d) = TextBlocks(c)
  BY DEF WithCall, TextBlocks
<1> HIDE DEF x, d, a, b
<1>3. ToolBlocks(Append(a, x)) = Append(ToolBlocks(a), b)
  BY <1>1 DEF ToolBlocks
<1>4. Anthropic!Message(d) = TextBlocks(c) \o Append(ToolBlocks(a), b)
  BY <1>2, <1>3, MessageIs
<1>5. Anthropic!Message(c) = TextBlocks(c) \o ToolBlocks(a)
  BY MessageIs DEF a
<1>6. QED
  BY <1>1, <1>4, <1>5, AppendToConcat DEF d, b

\* A piece of arguments goes to the last block of the message.
LEMMA ArgumentsInMessage ==
    ASSUME NEW c \in Answers, c.calls # <<>>, NEW k \in Nat
    PROVE  Anthropic!Message(WithPiece(c, k)) = LastPiece(Anthropic!Message(c), k)
<1> DEFINE d == WithPiece(c, k)
           a == c.calls
           n == Len(a) - 1
           e == Begin(a, n)
           x == a[n + 1]
           p == TextBlocks(c)
<1>1. a \in Seq(Calls) /\ n \in Nat /\ Len(a) = n + 1
  BY EmptySeq, LenProperties DEF Answers
<1>2. d.calls = LastPiece(a, k) /\ TextBlocks(d) = p
  BY DEF WithPiece, TextBlocks
<1>3. p \in Seq(Blocks)
  BY TextBlocksTyped
<1>4. Anthropic!Message(c) = p \o ToolBlocks(a) /\ Anthropic!Message(d) = p \o ToolBlocks(LastPiece(a, k))
  BY <1>2, MessageIs
<1> HIDE DEF a, n, d, p
<1>5. e \in Seq(Calls) /\ x \in Calls /\ a = Append(e, x)
  BY <1>1, BeginIs
<1> HIDE DEF e, x
<1>6. /\ x \in [id : Nat, pieces : Seq(Nat)] /\ ToolBlock(x) \in Blocks
      /\ Longer(ToolBlock(x), k) = ToolBlock(Longer(x, k))
      /\ Longer(x, k) \in Calls /\ Longer(ToolBlock(x), k) \in Blocks
  <2>1. x.id \in Nat /\ x.pieces \in Seq(Nat) /\ x = [id |-> x.id, pieces |-> x.pieces]
    BY <1>5 DEF Calls
  <2> DEFINE z == Append(x.pieces, k)
  <2>2. Longer(x, k) = [x EXCEPT !.pieces = z]
    BY DEF Longer
  <2>3. z \in Seq(Nat)
    BY <2>1, AppendProperties
  <2>4. /\ Longer(ToolBlock(x), k) = Anthropic!Block("tool_use", x.id, z)
        /\ ToolBlock(x) \in Blocks /\ Anthropic!Block("tool_use", x.id, z) \in Blocks
    BY <2>1, <2>3, BlockTyped, LongerBlock DEF ToolBlock, BlockTypes
  <2> HIDE DEF z
  <2>5. [x EXCEPT !.pieces = z] = [id |-> x.id, pieces |-> z]
    BY <2>1
  <2>6. ToolBlock(Longer(x, k)) = Anthropic!Block("tool_use", x.id, z)
    BY <2>2, <2>5 DEF ToolBlock
  <2>7. QED
    BY <1>5, <2>1, <2>2, <2>3, <2>4, <2>5, <2>6 DEF Calls
<1>7. LastPiece(a, k) = Append(e, Longer(x, k))
  BY <1>5, <1>6, LastPieceIs
<1>8. \A y \in Calls : ToolBlocks(Append(e, y)) = Append(ToolBlocks(e), ToolBlock(y))
  BY <1>5 DEF ToolBlocks
<1>9. ToolBlocks(e) \in Seq(Blocks)
  BY <1>5, ToolBlocksTyped
<1> DEFINE u == ToolBlocks(e)
           v == ToolBlock(x)
<1> HIDE DEF u, v
<1>10. Anthropic!Message(c) = Append(p \o ToolBlocks(e), ToolBlock(x))
  <2>1. Anthropic!Message(c) = p \o Append(u, v)
    BY <1>4, <1>5, <1>8 DEF u, v
  <2>2. u \in Seq(Blocks) /\ v \in Blocks
    BY <1>6, <1>9 DEF u, v
  <2>3. p \o Append(u, v) = Append(p \o u, v)
    BY <1>3, <2>2, AppendToConcat
  <2>4. QED
    BY <2>1, <2>3 DEF u, v
<1>11. Anthropic!Message(d) = Append(p \o ToolBlocks(e), Longer(ToolBlock(x), k))
  <2> DEFINE y == Longer(v, k)
  <2>1. Anthropic!Message(d) = p \o Append(u, y)
    BY <1>4, <1>6, <1>7, <1>8 DEF u, v
  <2>2. u \in Seq(Blocks) /\ y \in Blocks
    BY <1>6, <1>9 DEF u, v
  <2> HIDE DEF y
  <2>3. p \o Append(u, y) = Append(p \o u, y)
    BY <1>3, <2>2, AppendToConcat
  <2>4. QED
    BY <2>1, <2>3 DEF u, v, y
<1>12. p \o ToolBlocks(e) \in Seq(Blocks)
  BY <1>3, <1>9, ConcatProperties
<1>13. LastPiece(Append(p \o ToolBlocks(e), ToolBlock(x)), k) = Append(p \o ToolBlocks(e), Longer(ToolBlock(x), k))
  <2> DEFINE q == p \o ToolBlocks(e)
  <2>1. q \in Seq(Blocks) /\ v \in Blocks /\ Longer(v, k) \in Blocks
    BY <1>6, <1>12 DEF v
  <2> HIDE DEF q
  <2>2. LastPiece(Append(q, v), k) = Append(q, Longer(v, k))
    BY <2>1, LastPieceIs
  <2>3. QED
    BY <2>2 DEF q, v
<1>14. QED
  BY <1>10, <1>11, <1>13 DEF d

(***************************************************************************)
(* The converter                                                           *)
(***************************************************************************)
Converters == [active : [type : BlockTypes \cup {None}, id : Nat], next : Nat,
               ids : Seq(Nat), events : Seq(Events)]
Bracketed(es) == \A i \in DOMAIN es : Anthropic!Follows(SubSeq(es, 1, i - 1), es[i])
Inside(es) == es # <<>> /\ es[Len(es)].type \in {"start", "delta"}
Outside(es) == es # <<>> /\ es[Len(es)].type \in {"message_start", "stop"}
\* Between two blocks, and in a block, which is the last the client has.
BetweenBlocks(s) == /\ s \in Converters /\ Bracketed(s.events) /\ Outside(s.events)
             /\ s.active.type = None /\ s.active = Anthropic!NoBlock
             /\ Len(Anthropic!Received(s.events)) = s.next
InBlock(s) == LET blocks == Anthropic!Received(s.events) IN
             /\ s \in Converters /\ Bracketed(s.events) /\ Inside(s.events)
             /\ s.active.type \in BlockTypes /\ Len(blocks) = s.next + 1
             /\ blocks[s.next + 1].type = s.active.type
             /\ s.events[Len(s.events)].index = s.next

\* An event that may follow keeps the grammar.
LEMMA BracketedGrows ==
    ASSUME NEW es \in Seq(Events), Bracketed(es), NEW e \in Events, Anthropic!Follows(es, e)
    PROVE  Bracketed(Append(es, e))
<1> DEFINE n == Len(es)
           w == Append(es, e)
<1>1. /\ n \in Nat /\ DOMAIN es = 1..n /\ DOMAIN w = 1..n + 1 /\ w \in Seq(Events) /\ Len(w) = n + 1
      /\ w[n + 1] = e /\ \A i \in 1..n : w[i] = es[i]
  BY AppendProperties, LenProperties
<1>2. ASSUME NEW i \in 1..n + 1 PROVE SubSeq(w, 1, i - 1) = SubSeq(es, 1, i - 1)
  <2> DEFINE a == SubSeq(w, 1, i - 1)
             b == SubSeq(es, 1, i - 1)
  <2>1. i - 1 \in 0..n /\ \A j \in 1..i - 1 : j \in 1..n
    BY <1>1
  <2> HIDE DEF w, n
  <2>2. (\A j \in 1..i - 1 : w[j] \in Events) /\ (\A j \in 1..i - 1 : es[j] \in Events)
    BY <1>1, <2>1, ElementOfSeq DEF n
  <2>3. a = [j \in 1..i - 1 |-> w[j]] /\ b = [j \in 1..i - 1 |-> es[j]]
    BY <1>1, <2>1
  <2>4. QED
    BY <1>1, <2>1, <2>3
<1>3. SubSeq(es, 1, (n + 1) - 1) = es
  <2>1. (n + 1) - 1 = n
    BY <1>1
  <2>2. QED
    BY <2>1, SubSeqFull
<1> HIDE DEF w, n
<1>4. ASSUME NEW i \in 1..n + 1 PROVE Anthropic!Follows(SubSeq(w, 1, i - 1), w[i])
  <2>1. CASE i \in 1..n
    BY <1>1, <1>2, <2>1 DEF Bracketed
  <2>2. CASE i = n + 1
    BY <1>1, <1>2, <1>3, <2>2
  <2>3. QED
    BY <1>1, <2>1, <2>2
<1>5. QED
  BY <1>1, <1>4 DEF Bracketed, w

\* The last event is the one that was sent last.
LEMMA LastEvent ==
    ASSUME NEW es \in Seq(Events), NEW e \in Events
    PROVE  /\ Append(es, e) \in Seq(Events) /\ Append(es, e) # <<>>
           /\ Append(es, e)[Len(Append(es, e))] = e
           /\ Anthropic!Last(es) = es[Len(es)]
BY AppendProperties DEF Anthropic!Last

\* An event is sent.
LEMMA SendIs ==
    ASSUME NEW s \in Converters, NEW e \in Events
    PROVE  LET w == Anthropic!Send(s, e) IN
           /\ w \in Converters /\ w.active = s.active /\ w.next = s.next /\ w.ids = s.ids
           /\ w.events = Append(s.events, e) /\ s.events \in Seq(Events)
<1> DEFINE z == Append(s.events, e)
<1>1. s.events \in Seq(Events)
  BY DEF Converters
<1>2. z \in Seq(Events)
  BY <1>1, AppendProperties
<1>3. Anthropic!Send(s, e) = [s EXCEPT !.events = z]
  BY DEF Anthropic!Send
<1> HIDE DEF z
<1>4. LET w == [s EXCEPT !.events = z] IN
      /\ w \in Converters /\ w.active = s.active /\ w.next = s.next /\ w.ids = s.ids
      /\ w.events = z
  BY <1>2 DEF Converters
<1>5. QED
  BY <1>1, <1>3, <1>4 DEF z

\* Types of the events.
LEMMA EventTyped ==
    ASSUME NEW type \in EventTypes, NEW index \in Nat, NEW block \in BlockTypes \cup {None}, NEW piece \in Nat
    PROVE  LET e == Anthropic!Event(type, index, block, piece) IN
           e \in Events /\ e.type = type /\ e.index = index /\ e.block = block /\ e.piece = piece
BY DEF Anthropic!Event, Events

\* stop_active_block closes the block and leaves the client's blocks as they are,
LEMMA Stops ==
    ASSUME NEW s, InBlock(s)
    PROVE  LET w == Anthropic!StopActive(s) IN
           /\ BetweenBlocks(w) /\ w.ids = s.ids
           /\ Anthropic!Received(w.events) = Anthropic!Received(s.events)
<1> DEFINE e == Anthropic!Event("stop", s.next, s.active.type, 0)
           v == Anthropic!Send(s, e)
           w == [v EXCEPT !.active = Anthropic!NoBlock, !.next = @ + 1]
           blocks == Anthropic!Received(s.events)
<1>1. /\ s \in Converters /\ s.next \in Nat /\ s.active.type \in BlockTypes /\ s.active.type # None
      /\ s.events \in Seq(Events)
  BY AnthropicAssumption DEF InBlock, Converters, BlockTypes
<1>2. /\ e \in Events /\ e.type = "stop" /\ e.index = s.next /\ e.block = s.active.type
  <2>1. "stop" \in EventTypes /\ 0 \in Nat
    BY DEF EventTypes
  <2>2. QED
    BY <1>1, <2>1, EventTyped
<1>3. Anthropic!StopActive(s) = w
  BY <1>1 DEF Anthropic!StopActive
<1> HIDE DEF e
<1>4. /\ v \in Converters /\ v.next = s.next /\ v.ids = s.ids /\ v.events = Append(s.events, e)
  BY <1>1, <1>2, SendIs
<1> HIDE DEF v
<1>5. /\ w \in Converters /\ w.next = s.next + 1 /\ w.ids = s.ids /\ w.events = Append(s.events, e)
      /\ w.active = Anthropic!NoBlock /\ w.active.type = None
  <2> DEFINE none == Anthropic!NoBlock
             m == s.next + 1
  <2>1. none \in [type : BlockTypes \cup {None}, id : Nat] /\ none.type = None /\ m \in Nat
    BY <1>1 DEF Anthropic!NoBlock
  <2>2. w = [v EXCEPT !.active = none, !.next = m]
    BY <1>4
  <2> HIDE DEF w, none, m
  <2>3. w \in Converters /\ w.next = m /\ w.ids = v.ids /\ w.events = v.events /\ w.active = none
    BY <1>4, <2>1, <2>2 DEF Converters
  <2>4. QED
    BY <1>4, <2>1, <2>3 DEF none, m
<1> HIDE DEF w
<1>6. blocks \in Seq(Blocks) /\ Anthropic!Received(w.events) = blocks
  <2>1. Anthropic!Received(w.events) = Anthropic!Put(blocks, e)
    BY <1>1, <1>2, <1>5, ReceivedGrows
  <2>2. Anthropic!Put(blocks, e) = blocks
    BY <1>2 DEF Anthropic!Put
  <2>3. QED
    BY <1>1, <2>1, <2>2, ReceivedTyped
<1>7. Bracketed(w.events)
  <2>1. Anthropic!Last(s.events) = s.events[Len(s.events)] /\ Anthropic!Last(blocks) = blocks[s.next + 1]
    BY DEF Anthropic!Last, InBlock
  <2>2. Anthropic!Follows(s.events, e)
    BY <1>1, <1>2, <2>1 DEF Anthropic!Follows, InBlock, Inside
  <2>3. QED
    BY <1>1, <1>2, <1>5, <2>2, BracketedGrows DEF InBlock
<1>8. Outside(w.events)
  BY <1>1, <1>2, <1>5, LastEvent DEF Outside
<1>9. QED
  BY <1>3, <1>5, <1>6, <1>7, <1>8 DEF BetweenBlocks, InBlock

\* start_block opens an empty one behind them,
LEMMA Starts ==
    ASSUME NEW s, BetweenBlocks(s), NEW type \in BlockTypes, NEW id \in Nat
    PROVE  LET w == Anthropic!StartBlock(s, type, id) IN
           /\ InBlock(w) /\ w.ids = s.ids /\ w.active = [type |-> type, id |-> id]
           /\ Anthropic!Received(w.events)
                = Append(Anthropic!Received(s.events), Anthropic!Block(type, id, <<>>))
<1> DEFINE e == Anthropic!Event("start", s.next, type, id)
           v == Anthropic!Send(s, e)
           open == [type |-> type, id |-> id]
           w == [v EXCEPT !.active = open]
           blocks == Anthropic!Received(s.events)
           b == Anthropic!Block(type, id, <<>>)
<1>1. /\ s \in Converters /\ s.next \in Nat /\ s.events \in Seq(Events)
  BY DEF BetweenBlocks, Converters
<1>2. /\ e \in Events /\ e.type = "start" /\ e.index = s.next /\ e.block = type /\ e.piece = id
  <2>1. "start" \in EventTypes
    BY DEF EventTypes
  <2>2. QED
    BY <1>1, <2>1, EventTyped
<1>3. Anthropic!StartBlock(s, type, id) = w
  BY <1>1 DEF Anthropic!StartBlock
<1> HIDE DEF e
<1>4. /\ v \in Converters /\ v.next = s.next /\ v.ids = s.ids /\ v.events = Append(s.events, e)
  BY <1>1, <1>2, SendIs
<1> HIDE DEF v
<1>5. /\ w \in Converters /\ w.next = s.next /\ w.ids = s.ids /\ w.events = Append(s.events, e)
      /\ w.active = open /\ w.active.type = type
  BY <1>1, <1>4 DEF Converters
<1> HIDE DEF w, open
<1>6. b \in Blocks /\ b.type = type
  <2> DEFINE pieces == <<>>
  <2>1. pieces \in Seq(Nat)
    OBVIOUS
  <2> HIDE DEF pieces
  <2>2. /\ Anthropic!Block(type, id, pieces) \in Blocks
        /\ Anthropic!Block(type, id, pieces).type = type
    BY <2>1, BlockTyped
  <2>3. QED
    BY <2>2 DEF pieces
<1>7. blocks \in Seq(Blocks) /\ Anthropic!Received(w.events) = Append(blocks, b)
  <2>1. Anthropic!Received(w.events) = Anthropic!Put(blocks, e)
    BY <1>1, <1>2, <1>5, ReceivedGrows
  <2>2. Anthropic!Put(blocks, e) = Append(blocks, b)
    BY <1>2 DEF Anthropic!Put
  <2>3. QED
    BY <1>1, <2>1, <2>2, ReceivedTyped
<1>8. Len(blocks) = s.next
  BY DEF BetweenBlocks
<1> HIDE DEF b, blocks
<1>9. Len(Append(blocks, b)) = s.next + 1 /\ Append(blocks, b)[s.next + 1] = b
  BY <1>6, <1>7, <1>8, AppendProperties
<1>10. Bracketed(w.events)
  <2>1. Anthropic!Last(s.events) = s.events[Len(s.events)]
    BY DEF Anthropic!Last
  <2>2. Anthropic!Follows(s.events, e)
    BY <1>1, <1>2, <1>8, <2>1 DEF Anthropic!Follows, BetweenBlocks, Outside, blocks
  <2>3. QED
    BY <1>1, <1>2, <1>5, <2>2, BracketedGrows DEF BetweenBlocks
<1>11. Inside(w.events) /\ w.events[Len(w.events)].index = s.next
  BY <1>1, <1>2, <1>5, LastEvent DEF Inside
<1>12. QED
  BY <1>3, <1>5, <1>6, <1>7, <1>9, <1>10, <1>11 DEF InBlock, blocks, b, open

\* and a delta adds a piece to the open one.
LEMMA Continues ==
    ASSUME NEW s, InBlock(s), NEW k \in Nat
    PROVE  LET w == Anthropic!Delta(s, k) IN
           /\ InBlock(w) /\ w.ids = s.ids /\ w.active = s.active
           /\ Anthropic!Received(w.events) = LastPiece(Anthropic!Received(s.events), k)
<1> DEFINE e == Anthropic!Event("delta", s.next, s.active.type, k)
           w == Anthropic!Send(s, e)
           blocks == Anthropic!Received(s.events)
           n == s.next
           a == Begin(blocks, n)
           b == blocks[n + 1]
           m == LastPiece(blocks, k)
<1>1. /\ s \in Converters /\ n \in Nat /\ s.events \in Seq(Events) /\ s.active.type \in BlockTypes
      /\ blocks \in Seq(Blocks) /\ Len(blocks) = n + 1 /\ b.type = s.active.type
  BY ReceivedTyped DEF InBlock, Converters
<1>2. /\ e \in Events /\ e.type = "delta" /\ e.index = n /\ e.block = s.active.type /\ e.piece = k
  <2>1. "delta" \in EventTypes
    BY DEF EventTypes
  <2>2. QED
    BY <1>1, <2>1, EventTyped
<1>3. Anthropic!Delta(s, k) = w
  BY DEF Anthropic!Delta
<1> HIDE DEF e
<1>4. /\ w \in Converters /\ w.next = n /\ w.ids = s.ids /\ w.events = Append(s.events, e)
      /\ w.active = s.active
  BY <1>1, <1>2, SendIs
<1> HIDE DEF w
<1>5. Anthropic!Received(w.events) = m
  <2>1. Anthropic!Received(w.events) = Anthropic!Put(blocks, e)
    BY <1>1, <1>2, <1>4, ReceivedGrows
  <2>2. Anthropic!Put(blocks, e) = [blocks EXCEPT ![n + 1].pieces = Append(@, k)]
    BY <1>2 DEF Anthropic!Put
  <2>3. QED
    BY <1>1, <2>1, <2>2 DEF LastPiece
<1>6. Bracketed(w.events)
  <2>1. Anthropic!Last(s.events) = s.events[Len(s.events)] /\ Anthropic!Last(blocks) = b
    BY <1>1 DEF Anthropic!Last
  <2>2. Anthropic!Follows(s.events, e)
    BY <1>1, <1>2, <2>1 DEF Anthropic!Follows, InBlock, Inside
  <2>3. QED
    BY <1>1, <1>2, <1>4, <2>2, BracketedGrows DEF InBlock
<1>7. Inside(w.events) /\ w.events[Len(w.events)].index = n
  BY <1>1, <1>2, <1>4, LastEvent DEF Inside
<1>8. Len(m) = n + 1 /\ m[n + 1].type = b.type
  <2>1. a \in Seq(Blocks) /\ Len(a) = n /\ b \in Blocks /\ blocks = Append(a, b)
    BY <1>1, BeginIs
  <2> HIDE DEF a, b, blocks
  <2>2. m = Append(a, Longer(b, k)) /\ Longer(b, k) \in Blocks
    BY <1>1, <2>1, PieceAdded
  <2>3. Longer(b, k).type = b.type
    BY <2>1 DEF Longer, Blocks
  <2>4. Len(Append(a, Longer(b, k))) = n + 1 /\ Append(a, Longer(b, k))[n + 1] = Longer(b, k)
    BY <2>1, <2>2, AppendProperties
  <2>5. QED
    BY <2>2, <2>3, <2>4
<1>9. QED
  BY <1>1, <1>3, <1>4, <1>5, <1>6, <1>7, <1>8 DEF InBlock

\* A block is begun: the one that was open is closed first.
LEMMA NewBlock ==
    ASSUME NEW s, BetweenBlocks(s) \/ InBlock(s), NEW type \in BlockTypes, NEW id \in Nat
    PROVE  LET w == Anthropic!StartBlock(Anthropic!StopActive(s), type, id)
               m == Anthropic!Received(s.events)
           IN  /\ InBlock(w) /\ w.ids = s.ids /\ w.active = [type |-> type, id |-> id]
               /\ Anthropic!Received(w.events) = Append(m, Anthropic!Block(type, id, <<>>))
               /\ Anthropic!SentBack(Anthropic!Received(w.events)) =
                    IF type = "tool_use" THEN WithCall(Anthropic!SentBack(m), id)
                      ELSE Anthropic!SentBack(m)
<1> DEFINE v == Anthropic!StopActive(s)
           m == Anthropic!Received(s.events)
<1>1. BetweenBlocks(v) /\ v.ids = s.ids /\ Anthropic!Received(v.events) = m
  <2>1. CASE BetweenBlocks(s)
    BY <2>1 DEF BetweenBlocks, Anthropic!StopActive
  <2>2. CASE InBlock(s)
    BY <2>2, Stops
  <2>3. QED
    BY <2>1, <2>2
<1>2. m \in Seq(Blocks)
  <2>1. s.events \in Seq(Events)
    BY DEF BetweenBlocks, InBlock, Converters
  <2>2. QED
    BY <2>1, ReceivedTyped
<1> HIDE DEF v, m
<1> DEFINE w == Anthropic!StartBlock(v, type, id)
<1>3. /\ InBlock(w) /\ w.ids = v.ids /\ w.active = [type |-> type, id |-> id]
      /\ Anthropic!Received(w.events)
                = Append(Anthropic!Received(v.events), Anthropic!Block(type, id, <<>>))
  BY <1>1, Starts
<1>4. Anthropic!SentBack(Append(m, Anthropic!Block(type, id, <<>>))) =
                    IF type = "tool_use" THEN WithCall(Anthropic!SentBack(m), id)
                      ELSE Anthropic!SentBack(m)
  BY <1>2, BlockAdded
<1>5. QED
  BY <1>1, <1>3, <1>4 DEF v, m

\* A piece goes to the block that is open.
LEMMA NewPiece ==
    ASSUME NEW s, InBlock(s), NEW k \in Nat
    PROVE  LET w == Anthropic!Delta(s, k)
               m == Anthropic!Received(s.events)
           IN  /\ InBlock(w) /\ w.ids = s.ids /\ w.active = s.active
               /\ Anthropic!Received(w.events) = LastPiece(m, k)
               /\ Anthropic!SentBack(Anthropic!Received(w.events)) =
                    IF s.active.type = "tool_use" THEN WithPiece(Anthropic!SentBack(m), k)
                      ELSE WithText(Anthropic!SentBack(m), s.active.type, k)
<1> DEFINE m == Anthropic!Received(s.events)
           n == s.next
           a == Begin(m, n)
           b == m[n + 1]
<1>1. n \in Nat /\ Len(m) = n + 1 /\ b.type = s.active.type /\ s.active.type \in BlockTypes
  BY DEF InBlock, Converters
<1>2. m \in Seq(Blocks)
  <2>1. s.events \in Seq(Events)
    BY DEF InBlock, Converters
  <2>2. QED
    BY <2>1, ReceivedTyped
<1> HIDE DEF m, n
<1>3. a \in Seq(Blocks) /\ b \in Blocks /\ m = Append(a, b)
  BY <1>1, <1>2, BeginIs
<1> HIDE DEF a, b
<1>4. /\ LastPiece(Append(a, b), k) = Append(a, Longer(b, k))
      /\ Anthropic!SentBack(Append(a, Longer(b, k))) =
                    IF b.type = "tool_use" THEN WithPiece(Anthropic!SentBack(Append(a, b)), k)
                      ELSE WithText(Anthropic!SentBack(Append(a, b)), b.type, k)
  BY <1>1, <1>3, PieceAdded
<1> DEFINE w == Anthropic!Delta(s, k)
<1>5. /\ InBlock(w) /\ w.ids = s.ids /\ w.active = s.active
      /\ Anthropic!Received(w.events) = LastPiece(m, k)
  BY Continues DEF m
<1>6. QED
  BY <1>1, <1>3, <1>4, <1>5 DEF m

\* The identifiers of the calls are not part of the message.
LEMMA Knows ==
    ASSUME NEW s, BetweenBlocks(s) \/ InBlock(s), NEW z \in Seq(Nat)
    PROVE  LET w == [s EXCEPT !.ids = z] IN
           /\ BetweenBlocks(s) => BetweenBlocks(w)
           /\ InBlock(s) => InBlock(w)
           /\ w.ids = z /\ w.active = s.active /\ w.events = s.events
<1> DEFINE w == [s EXCEPT !.ids = z]
<1>1. s \in Converters
  BY DEF BetweenBlocks, InBlock
<1>2. w \in Converters /\ w.ids = z /\ w.active = s.active /\ w.events = s.events /\ w.next = s.next
  BY <1>1 DEF Converters
<1> HIDE DEF w
<1>3. BetweenBlocks(s) => BetweenBlocks(w)
  BY <1>2 DEF BetweenBlocks
<1>4. InBlock(s) => InBlock(w)
  BY <1>2 DEF InBlock
<1>5. QED
  BY <1>2, <1>3, <1>4 DEF w

\* Types of a completion.
LEMMA CompletionTyped ==
    ASSUME NEW t \in Seq(AnswerParts), NEW n \in Nat
    PROVE  /\ Anthropic!Completion(t, n) \in Answers
           /\ Len(Anthropic!Completion(t, n).calls) = n
<1> DEFINE part == [type |-> "text", call |-> 0, id |-> 0, arguments |-> FALSE]
<1>1. part \in AnswerParts
  BY DEF AnswerParts, BlockTypes
<1>2. \A b : Anthropic!Numbers(t, b) \in Seq(Nat)
  <2>1. ASSUME NEW b PROVE Anthropic!Numbers(t, b) \in Seq(Nat)
    BY <1>1, NumbersGrow
  <2>2. QED
    BY <2>1
<1>3. CallsOf(t, n) \in Seq(Calls) /\ Len(CallsOf(t, n)) = n
  BY CallsTyped
<1>4. QED
  BY <1>2, <1>3, CompletionIs DEF Answers

\* The parts come in the order of the whole message, as it is now.
Fits(t, c) ==
    /\ t = <<>> => c.reasoning = <<>> /\ c.content = <<>> /\ c.calls = <<>>
    /\ t # <<>> => LET type == t[Len(t)].type IN
                   /\ type # "tool_use" => c.calls = <<>>
                   /\ type = "thinking" => c.content = <<>> /\ c.reasoning # <<>>
                   /\ type = "text" => c.content # <<>>
Agrees(m, t, c) == Anthropic!InOrder(t) => m = Anthropic!Message(c) /\ Fits(t, c)

\* Parts in order, and the last of them.
LEMMA OrderKept ==
    ASSUME NEW t \in Seq(AnswerParts), NEW part \in AnswerParts, Anthropic!InOrder(Append(t, part))
    PROVE  /\ Anthropic!InOrder(t)
           /\ t # <<>> => Anthropic!Rank(t[Len(t)].type) \leq Anthropic!Rank(part.type)
<1> DEFINE n == Len(t)
           w == Append(t, part)
<1>1. n \in Nat /\ DOMAIN t = 1..n /\ DOMAIN w = 1..n + 1 /\ w[n + 1] = part
      /\ \A i \in 1..n : w[i] = t[i]
  BY AppendProperties, LenProperties
<1>2. t # <<>> => n \in 1..n /\ n \in 1..n + 1 /\ n + 1 \in 1..n + 1 /\ n < n + 1
  BY <1>1, EmptySeq
<1>3. \A i, j \in 1..n + 1 : i < j => Anthropic!Rank(w[i].type) \leq Anthropic!Rank(w[j].type)
  BY <1>1 DEF Anthropic!InOrder
<1> HIDE DEF w
<1>4. Anthropic!InOrder(t)
  <2>1. \A i \in 1..n : i \in 1..n + 1
    BY <1>1
  <2>2. QED
    BY <1>1, <1>3, <2>1 DEF Anthropic!InOrder
<1>5. t # <<>> => Anthropic!Rank(t[n].type) \leq Anthropic!Rank(part.type)
  <2> SUFFICES ASSUME t # <<>> PROVE Anthropic!Rank(t[n].type) \leq Anthropic!Rank(part.type)
    OBVIOUS
  <2>1. n \in 1..n /\ n \in 1..n + 1 /\ n + 1 \in 1..n + 1 /\ n < n + 1
    BY <1>2
  <2> HIDE DEF n
  <2>2. Anthropic!Rank(w[n].type) \leq Anthropic!Rank(w[n + 1].type)
    BY <1>3, <2>1
  <2>3. QED
    BY <1>1, <2>1, <2>2
<1>6. QED
  BY <1>4, <1>5

\* The part that was said last.
LEMMA LastPart ==
    ASSUME NEW t \in Seq(AnswerParts), NEW part \in AnswerParts
    PROVE  Append(t, part) # <<>> /\ Append(t, part)[Len(Append(t, part))] = part
  BY AppendProperties

\* The message of the other endpoint grows as the client's: by a piece of text,
LEMMA TextAgrees ==
    ASSUME NEW t \in Seq(AnswerParts), NEW part \in AnswerParts, part.type # "tool_use", NEW c \in Answers,
           NEW m, Agrees(m, t, c), NEW k \in Nat
    PROVE  LET new == t = <<>> \/ t[Len(t)].type # part.type
               w == IF new THEN Append(m, Anthropic!Block(part.type, 0, <<>>)) ELSE m
           IN  Agrees(LastPiece(w, k), Append(t, part), WithText(c, part.type, k))
<1> SUFFICES ASSUME Anthropic!InOrder(Append(t, part))
             PROVE  LET new == t = <<>> \/ t[Len(t)].type # part.type
                        w == IF new THEN Append(m, Anthropic!Block(part.type, 0, <<>>)) ELSE m
                    IN  /\ LastPiece(w, k) = Anthropic!Message(WithText(c, part.type, k))
                        /\ Fits(Append(t, part), WithText(c, part.type, k))
  BY DEF Agrees
<1> DEFINE type == part.type
           last == t[Len(t)].type
           old == IF type = "thinking" THEN c.reasoning ELSE c.content
<1>1. m = Anthropic!Message(c) /\ Fits(t, c)
      /\ (t # <<>> => Anthropic!Rank(last) \leq Anthropic!Rank(type))
  BY OrderKept DEF Agrees
<1>2. type \in {"thinking", "text"} /\ c.reasoning \in Seq(Nat) /\ c.content \in Seq(Nat)
  BY DEF AnswerParts, BlockTypes, Answers
<1>3. t # <<>> => last \in {"thinking", "text", "tool_use"}
  <2>1. t # <<>> => Len(t) \in 1..Len(t)
    BY EmptySeq, LenProperties
  <2>2. t # <<>> => t[Len(t)] \in AnswerParts
    BY <2>1, ElementOfSeq
  <2>3. QED
    BY <2>2 DEF AnswerParts, BlockTypes
<1> HIDE DEF type, last
<1>4. t # <<>> => last = type \/ (last = "thinking" /\ type = "text")
  BY <1>1, <1>2, <1>3 DEF Anthropic!Rank
<1>5. /\ c.calls = <<>> /\ (type = "thinking" => c.content = <<>>)
      /\ old = <<>> <=> (t = <<>> \/ last # type)
  BY <1>1, <1>2, <1>4 DEF Fits, last
<1>6. Anthropic!Message(WithText(c, type, k)) =
                 LastPiece(IF old = <<>> THEN Append(Anthropic!Message(c), Anthropic!Block(type, 0, <<>>))
                             ELSE Anthropic!Message(c), k)
  BY <1>2, <1>5, TextInMessage
<1>7. Fits(Append(t, part), WithText(c, type, k))
  <2>1. Append(c.reasoning, k) # <<>> /\ Append(c.content, k) # <<>>
    <3> DEFINE f == c.reasoning
               g == c.content
    <3>1. f \in Seq(Nat) /\ g \in Seq(Nat)
      BY <1>2
    <3> HIDE DEF f, g
    <3>2. Append(f, k) # <<>> /\ Append(g, k) # <<>>
      BY <3>1, AppendProperties
    <3>3. QED
      BY <3>2 DEF f, g
  <2>2. Append(t, part) # <<>> /\ Append(t, part)[Len(Append(t, part))].type = type
    BY LastPart DEF type
  <2>3. QED
    BY <1>2, <1>5, <2>1, <2>2 DEF Fits, WithText
<1>8. QED
  BY <1>1, <1>5, <1>6, <1>7 DEF type, last

\* by a call,
LEMMA CallAgrees ==
    ASSUME NEW t \in Seq(AnswerParts), NEW part \in AnswerParts, part.type = "tool_use", NEW c \in Answers,
           NEW m, Agrees(m, t, c)
    PROVE  /\ \A id \in Nat : Agrees(Append(m, Anthropic!Block("tool_use", id, <<>>)),
                                     Append(t, part), WithCall(c, id))
           /\ Agrees(m, Append(t, part), c)
<1> SUFFICES ASSUME Anthropic!InOrder(Append(t, part))
             PROVE  /\ m = Anthropic!Message(c)
                    /\ \A id \in Nat : Append(m, Anthropic!Block("tool_use", id, <<>>))
                                         = Anthropic!Message(WithCall(c, id))
                    /\ \A d : Fits(Append(t, part), d)
  BY DEF Agrees
<1>1. m = Anthropic!Message(c)
  BY OrderKept DEF Agrees
<1>2. ASSUME NEW d PROVE Fits(Append(t, part), d)
  BY LastPart DEF Fits
<1>3. ASSUME NEW id \in Nat
      PROVE  Append(m, Anthropic!Block("tool_use", id, <<>>)) = Anthropic!Message(WithCall(c, id))
  BY <1>1, CallInMessage
<1>4. QED
  BY <1>1, <1>2, <1>3

\* and by a piece of arguments.
LEMMA PieceAgrees ==
    ASSUME NEW t \in Seq(AnswerParts), t # <<>>, t[Len(t)].type = "tool_use", NEW c \in Answers,
           c.calls # <<>>, NEW m, Agrees(m, t, c), NEW k \in Nat
    PROVE  Agrees(LastPiece(m, k), t, WithPiece(c, k))
<1>1. Anthropic!Message(WithPiece(c, k)) = LastPiece(Anthropic!Message(c), k)
  BY ArgumentsInMessage
<1>2. \A d : Fits(t, d)
  BY DEF Fits
<1>3. QED
  BY <1>1, <1>2 DEF Agrees

\* The converter s behind the parts t.
Going(s, part) ==
    /\ InBlock(s) /\ s.active = [type |-> part.type, id |-> part.call]
    /\ IF part.type = "tool_use" THEN part.call = Len(s.ids) /\ part.call # 0 ELSE part.call = 0
Conv(s, t) ==
    LET m == Anthropic!Received(s.events)
        c == Anthropic!Completion(t, Len(s.ids))
    IN  /\ s \in Converters /\ t \in Seq(AnswerParts) /\ s.ids = [n \in 1..Len(s.ids) |-> n]
        /\ \A i \in 1..Len(t) : t[i].call \leq Len(s.ids)
        /\ IF t = <<>> THEN BetweenBlocks(s) ELSE Going(s, t[Len(t)])
        /\ Anthropic!SentBack(m) = c
        /\ Agrees(m, t, c)

\* Types of a converter at work.
LEMMA ConvTyped ==
    ASSUME NEW s, NEW t, Conv(s, t)
    PROVE  /\ s \in Converters /\ t \in Seq(AnswerParts) /\ (BetweenBlocks(s) \/ InBlock(s))
           /\ s.ids \in Seq(Nat) /\ Len(s.ids) \in Nat /\ Len(t) + 1 \in Nat
           /\ Anthropic!Received(s.events) \in Seq(Blocks)
           /\ Anthropic!Completion(t, Len(s.ids)) \in Answers
<1>1. s \in Converters /\ t \in Seq(AnswerParts) /\ (BetweenBlocks(s) \/ InBlock(s))
  BY DEF Conv, Going
<1>2. s.ids \in Seq(Nat) /\ s.events \in Seq(Events)
  BY <1>1 DEF Converters
<1>3. Len(s.ids) \in Nat /\ Len(t) + 1 \in Nat
  BY <1>1, <1>2, LenProperties
<1>4. QED
  BY <1>1, <1>2, <1>3, ReceivedTyped, CompletionTyped

\* The converter goes on over a part of text,
LEMMA ConvertText ==
    ASSUME NEW s, NEW t, Conv(s, t), NEW part \in AnswerParts, part.type # "tool_use", part.call = 0
    PROVE  LET w == Anthropic!Convert(s, part, Len(t) + 1) IN
           Conv(w, Append(t, part)) /\ w.ids = s.ids
<1>0. /\ s \in Converters /\ t \in Seq(AnswerParts) /\ (BetweenBlocks(s) \/ InBlock(s))
      /\ s.ids \in Seq(Nat) /\ Len(s.ids) \in Nat /\ Len(t) + 1 \in Nat
      /\ Anthropic!Received(s.events) \in Seq(Blocks)
      /\ Anthropic!Completion(t, Len(s.ids)) \in Answers
  BY ConvTyped
<1> DEFINE k == Len(t) + 1
           n == Len(s.ids)
           m == Anthropic!Received(s.events)
           c == Anthropic!Completion(t, n)
           type == part.type
           new == t = <<>> \/ t[Len(t)].type # type
           b == Anthropic!StartBlock(Anthropic!StopActive(s), type, 0)
           u == IF new THEN b ELSE s
           w == Anthropic!Delta(u, k)
           tt == Append(t, part)
<1>1. /\ s \in Converters /\ t \in Seq(AnswerParts) /\ (BetweenBlocks(s) \/ InBlock(s)) /\ n \in Nat /\ k \in Nat
      /\ m \in Seq(Blocks) /\ c \in Answers /\ type \in BlockTypes /\ 0 \in Nat
  <2>1. type \in BlockTypes
    BY DEF AnswerParts
  <2>2. /\ s \in Converters /\ t \in Seq(AnswerParts) /\ (BetweenBlocks(s) \/ InBlock(s)) /\ n \in Nat
        /\ Len(t) + 1 \in Nat /\ m \in Seq(Blocks) /\ c \in Answers
    BY <1>0
  <2>3. QED
    BY <2>1, <2>2
<1>2. /\ t = <<>> => BetweenBlocks(s) /\ s.active.type = None
      /\ t # <<>> => InBlock(s) /\ s.active = [type |-> t[Len(t)].type, id |-> t[Len(t)].call]
  BY DEF Conv, Going, BetweenBlocks
<1>3. new <=> s.active.type # type
  BY <1>1, <1>2, AnthropicAssumption DEF BlockTypes
<1>4. Anthropic!Convert(s, part, k) = w
  BY <1>3 DEF Anthropic!Convert, Anthropic!Text
<1>5. /\ InBlock(b) /\ b.ids = s.ids /\ b.active = [type |-> type, id |-> 0]
      /\ Anthropic!Received(b.events) = Append(m, Anthropic!Block(type, 0, <<>>))
      /\ Anthropic!SentBack(Anthropic!Received(b.events)) = Anthropic!SentBack(m)
  BY <1>1, NewBlock
<1>6. m = Anthropic!Received(s.events) /\ Anthropic!SentBack(m) = c /\ Agrees(m, t, c)
  BY DEF Conv
<1>7. ~new => t[Len(t)] \in AnswerParts /\ t[Len(t)].type = type
  <2>1. t # <<>> => Len(t) \in 1..Len(t)
    BY <1>1, EmptySeq, LenProperties
  <2>2. QED
    BY <1>1, <2>1, ElementOfSeq
<1> DEFINE v == IF new THEN Append(m, Anthropic!Block(type, 0, <<>>)) ELSE m
<1> HIDE DEF b, m, c
<1>8. /\ InBlock(u) /\ u.ids = s.ids /\ u.active.type = type
      /\ Anthropic!Received(u.events) = v /\ Anthropic!SentBack(Anthropic!Received(u.events)) = c
  <2>1. CASE new
    <3>1. u = b /\ v = Append(m, Anthropic!Block(type, 0, <<>>))
      BY <2>1
    <3> HIDE DEF u, v
    <3>2. b.active.type = type
      BY <1>5
    <3> HIDE DEF type
    <3>3. QED
      BY <1>5, <1>6, <3>1, <3>2
  <2>2. CASE ~new
    BY <1>2, <1>3, <1>6, <2>2
  <2>3. QED
    BY <2>1, <2>2
<1>9. u.active = [type |-> type, id |-> 0]
  <2>1. CASE new
    BY <1>5, <2>1
  <2>2. CASE ~new
    BY <1>2, <1>3, <2>2 DEF Conv, Going
  <2>3. QED
    BY <2>1, <2>2
<1> HIDE DEF u
<1>10. /\ InBlock(w) /\ w.ids = s.ids /\ w.active = u.active
       /\ Anthropic!Received(w.events) = LastPiece(v, k)
       /\ Anthropic!SentBack(Anthropic!Received(w.events)) = WithText(c, type, k)
  BY <1>1, <1>8, NewPiece
<1> HIDE DEF w, v
<1>11. Anthropic!Completion(tt, n) = WithText(c, type, k)
  BY <1>1, TextAdded DEF c
<1>12. Agrees(LastPiece(v, k), tt, WithText(c, type, k))
  BY <1>1, <1>6, TextAgrees DEF v
<1>13. tt \in Seq(AnswerParts) /\ tt # <<>> /\ tt[Len(tt)] = part /\ Len(tt) = k /\ \A i \in 1..Len(t) : tt[i] = t[i]
  BY <1>1, AppendProperties
<1>14. \A i \in 1..Len(tt) : tt[i].call \leq n
  <2>1. \A i \in 1..Len(t) : t[i].call \leq n
    BY DEF Conv
  <2>2. \A i \in 1..k : i \in 1..Len(t) \/ i = Len(tt)
    BY <1>1, <1>13
  <2>3. 0 \leq n
    BY <1>1
  <2>4. QED
    BY <1>13, <2>1, <2>2, <2>3
<1> HIDE DEF tt, k
<1>15. Going(w, part) /\ w \in Converters
  BY <1>9, <1>10 DEF Going, InBlock
<1>16. Conv(w, tt)
  <2>1. w.ids = [i \in 1..Len(w.ids) |-> i] /\ Len(w.ids) = n
    BY <1>10 DEF Conv
  <2> HIDE DEF n
  <2>2. QED
    BY <1>10, <1>11, <1>12, <1>13, <1>14, <1>15, <2>1 DEF Conv
<1>17. QED
  BY <1>4, <1>10, <1>16 DEF tt, k

\* over a new call, with or without arguments,
LEMMA ConvertCall ==
    ASSUME NEW s, NEW t, Conv(s, t), NEW part \in AnswerParts, part.type = "tool_use",
           part.call = Len(s.ids) + 1, part.id = part.call
    PROVE  LET w == Anthropic!Convert(s, part, Len(t) + 1) IN
           Conv(w, Append(t, part)) /\ Len(w.ids) = part.call
<1>1. /\ s \in Converters /\ t \in Seq(AnswerParts) /\ (BetweenBlocks(s) \/ InBlock(s))
      /\ s.ids \in Seq(Nat) /\ Len(s.ids) \in Nat /\ Len(t) + 1 \in Nat
      /\ Anthropic!Received(s.events) \in Seq(Blocks)
      /\ Anthropic!Completion(t, Len(s.ids)) \in Answers
  BY ConvTyped
<1> DEFINE k == Len(t) + 1
           n == Len(s.ids)
           call == part.call
           m == Anthropic!Received(s.events)
           c == Anthropic!Completion(t, n)
           z == Append(SubSeq(s.ids, 1, call - 1), call)
           known == [s EXCEPT !.ids = z]
           b == Anthropic!StartBlock(Anthropic!StopActive(known), "tool_use", call)
           w == IF part.arguments THEN Anthropic!Delta(b, k) ELSE b
           tt == Append(t, part)
           v == Append(m, Anthropic!Block("tool_use", call, <<>>))
           d == WithCall(c, call)
<1>2. call \in Nat /\ call = n + 1 /\ "tool_use" \in BlockTypes /\ part.id # None /\ part.arguments \in BOOLEAN
  BY <1>1, AnthropicAssumption DEF AnswerParts, BlockTypes
<1>0. ASSUME NEW i \in 1..Len(t) PROVE t[i].call \in Nat
  <2>1. t[i] \in AnswerParts
    BY <1>1, ElementOfSeq
  <2>2. QED
    BY <2>1 DEF AnswerParts
<1>3. s.active.id # call
  <2>1. CASE t = <<>>
    <3>1. s.active.id = 0
      BY <2>1 DEF Conv, BetweenBlocks, Anthropic!NoBlock
    <3>2. QED
      BY <1>1, <1>2, <3>1
  <2>2. CASE t # <<>>
    <3>1. Len(t) \in 1..Len(t)
      BY <1>1, <2>2, EmptySeq, LenProperties
    <3>2. s.active.id = t[Len(t)].call /\ t[Len(t)].call \leq n
      BY <2>2, <3>1 DEF Conv, Going
    <3>3. t[Len(t)].call \in Nat
      BY <1>0, <3>1
    <3>4. QED
      BY <1>1, <1>2, <3>2, <3>3
  <2>3. QED
    BY <2>1, <2>2
<1>4. z = Append(s.ids, call) /\ z \in Seq(Nat) /\ Len(z) = call /\ z = [i \in 1..Len(z) |-> i]
  <2>1. call - 1 = n
    BY <1>1, <1>2
  <2>2. SubSeq(s.ids, 1, call - 1) = s.ids
    BY <1>1, <2>1, SubSeqFull
  <2>3. z = Append(s.ids, call)
    BY <2>2
  <2>4. /\ z \in Seq(Nat) /\ Len(z) = n + 1 /\ z[n + 1] = call /\ \A i \in 1..n : z[i] = s.ids[i]
    BY <1>1, <1>2, <2>3, AppendProperties
  <2>5. \A i \in 1..n : s.ids[i] = i
    BY DEF Conv
  <2> HIDE DEF z, n, call
  <2>6. \A i \in 1..n + 1 : z[i] = i
    <3>1. \A i \in 1..n : z[i] = i
      BY <2>4, <2>5
    <3>2. z[n + 1] = n + 1
      BY <1>2, <2>4
    <3>3. \A i \in 1..n + 1 : i \in 1..n \/ i = n + 1
      BY <1>1 DEF n
    <3>4. QED
      BY <3>1, <3>2, <3>3
  <2>7. z = [i \in 1..Len(z) |-> z[i]]
    BY <2>4, LenProperties
  <2>8. QED
    BY <1>2, <2>3, <2>4, <2>6, <2>7
<1>5. Anthropic!Convert(s, part, k) = w
  <2>1. Anthropic!Convert(s, part, k) = Anthropic!NamedCall(s, part, k)
    BY <1>2 DEF Anthropic!Convert
  <2>2. known = [s EXCEPT !.ids = Append(SubSeq(@, 1, part.call - 1), part.id)]
    OBVIOUS
  <2>3. QED
    BY <1>3, <2>1, <2>2 DEF Anthropic!NamedCall
<1> HIDE DEF z
<1>6. /\ BetweenBlocks(known) \/ InBlock(known)
      /\ known.ids = z /\ known.active = s.active /\ known.events = s.events
  <2>1. z \in Seq(Nat) /\ (BetweenBlocks(s) \/ InBlock(s))
    BY <1>1, <1>4
  <2>2. /\ BetweenBlocks(s) => BetweenBlocks(known)
        /\ InBlock(s) => InBlock(known)
        /\ known.ids = z /\ known.active = s.active /\ known.events = s.events
    BY <2>1, Knows
  <2> HIDE DEF known
  <2>3. QED
    BY <2>1, <2>2
<1> HIDE DEF known
<1>7. /\ InBlock(b) /\ b.ids = z /\ b.active = [type |-> "tool_use", id |-> call]
      /\ Anthropic!Received(b.events) = v
      /\ Anthropic!SentBack(Anthropic!Received(b.events)) = WithCall(Anthropic!SentBack(m), call)
  BY <1>2, <1>6, NewBlock
<1>8. Anthropic!SentBack(m) = c /\ Agrees(m, t, c)
  BY DEF Conv
<1> HIDE DEF m, c, b, v, d
<1>9. Agrees(v, tt, d)
  BY <1>1, <1>2, <1>8, CallAgrees DEF m, c, v, d
<1>10. /\ tt \in Seq(AnswerParts) /\ tt # <<>> /\ tt[Len(tt)] = part /\ Len(tt) = k
       /\ \A i \in 1..Len(t) : tt[i] = t[i]
  BY <1>1, AppendProperties
<1>11. \A i \in 1..Len(tt) : tt[i].call \leq call
  <2>1. \A i \in 1..Len(t) : t[i].call \leq n /\ t[i].call \in Nat
    BY <1>0 DEF Conv
  <2>2. \A i \in 1..k : i \in 1..Len(t) \/ i = Len(tt)
    BY <1>1, <1>10
  <2> HIDE DEF tt, k, n
  <2>3. \A i \in 1..Len(t) : t[i].call \leq call
    BY <1>1, <1>2, <2>1 DEF n
  <2>4. QED
    BY <1>2, <1>10, <2>2, <2>3
<1>12. Anthropic!Completion(tt, call) = IF part.arguments THEN WithPiece(d, k) ELSE d
  <2>1. \A i \in 1..Len(t) : t[i].call \leq n
    BY DEF Conv
  <2>2. Anthropic!Completion(Append(t, part), n + 1)
           = IF part.arguments THEN WithPiece(WithCall(Anthropic!Completion(t, n), n + 1), Len(t) + 1)
               ELSE WithCall(Anthropic!Completion(t, n), n + 1)
    BY <1>1, <1>2, <2>1, CallAdded
  <2>3. QED
    BY <1>2, <2>2 DEF c, d
<1> HIDE DEF tt, k
<1>13. d \in Answers /\ d.calls # <<>>
  <2> DEFINE x == [id |-> call, pieces |-> <<>>]
             y == Append(c.calls, x)
  <2>1. x \in Calls
    BY <1>2 DEF Calls
  <2>2. c.calls \in Seq(Calls) /\ c.reasoning \in Seq(Nat) /\ c.content \in Seq(Nat)
    BY <1>1 DEF Answers, c
  <2> HIDE DEF x
  <2>3. y \in Seq(Calls) /\ y # <<>>
    BY <2>1, <2>2, AppendProperties
  <2>4. d = [reasoning |-> c.reasoning, content |-> c.content, calls |-> y]
    BY DEF d, WithCall, x
  <2> HIDE DEF y
  <2>5. QED
    BY <2>2, <2>3, <2>4 DEF Answers
<1>14. k \in Nat
  BY <1>1 DEF k
<1>15. /\ InBlock(w) /\ w.ids = z /\ w.active = [type |-> "tool_use", id |-> call]
       /\ Anthropic!SentBack(Anthropic!Received(w.events)) = Anthropic!Completion(tt, call)
       /\ Agrees(Anthropic!Received(w.events), tt, Anthropic!Completion(tt, call))
  <2>1. CASE part.arguments
    <3>1. w = Anthropic!Delta(b, k)
      BY <2>1
    <3>2. b.active.type = "tool_use"
      BY <1>7
    <3>3. /\ InBlock(w) /\ w.ids = b.ids /\ w.active = b.active
          /\ Anthropic!Received(w.events) = LastPiece(v, k)
          /\ Anthropic!SentBack(Anthropic!Received(w.events))
                = WithPiece(Anthropic!SentBack(Anthropic!Received(b.events)), k)
      BY <1>7, <1>14, <3>1, <3>2, NewPiece
    <3> HIDE DEF w
    <3>4. Agrees(LastPiece(v, k), tt, WithPiece(d, k))
      BY <1>9, <1>10, <1>13, <1>14, PieceAgrees
    <3>5. WithCall(Anthropic!SentBack(m), call) = d
      BY <1>8 DEF d
    <3>6. QED
      BY <1>7, <1>12, <2>1, <3>3, <3>4, <3>5
  <2>2. CASE ~part.arguments
    <3>1. w = b
      BY <2>2
    <3> HIDE DEF w
    <3>2. WithCall(Anthropic!SentBack(m), call) = d
      BY <1>8 DEF d
    <3>3. QED
      BY <1>7, <1>9, <1>12, <2>2, <3>1, <3>2
  <2>3. QED
    BY <2>1, <2>2
<1> HIDE DEF w
<1>16. Len(w.ids) = call /\ w.ids = [i \in 1..Len(w.ids) |-> i] /\ w \in Converters
  BY <1>4, <1>15 DEF InBlock
<1>17. Going(w, part)
  BY <1>1, <1>2, <1>15, <1>16 DEF Going
<1>18. Conv(w, tt)
  <2> HIDE DEF call
  <2>1. QED
    BY <1>10, <1>11, <1>15, <1>16, <1>17 DEF Conv
<1>19. QED
  BY <1>5, <1>16, <1>18 DEF tt, k

\* and over more arguments of the last call, with or without its identifier.
LEMMA ConvertMore ==
    ASSUME NEW s, NEW t, Conv(s, t), t # <<>>, t[Len(t)].type = "tool_use",
           NEW part \in AnswerParts, part.type = "tool_use", part.arguments,
           part.call = Len(s.ids), part.id = None \/ part.id = part.call
    PROVE  LET w == Anthropic!Convert(s, part, Len(t) + 1) IN
           Conv(w, Append(t, part)) /\ Len(w.ids) = Len(s.ids)
<1>1. /\ s \in Converters /\ t \in Seq(AnswerParts) /\ (BetweenBlocks(s) \/ InBlock(s))
      /\ s.ids \in Seq(Nat) /\ Len(s.ids) \in Nat /\ Len(t) + 1 \in Nat
      /\ Anthropic!Received(s.events) \in Seq(Blocks)
      /\ Anthropic!Completion(t, Len(s.ids)) \in Answers
  BY ConvTyped
<1> DEFINE k == Len(t) + 1
           n == Len(s.ids)
           m == Anthropic!Received(s.events)
           c == Anthropic!Completion(t, n)
           z == Append(SubSeq(s.ids, 1, n - 1), n)
           known == [s EXCEPT !.ids = z]
           u == IF part.id # None THEN known ELSE s
           w == Anthropic!Delta(u, k)
           tt == Append(t, part)
<1>2. /\ InBlock(s) /\ n # 0 /\ s.active = [type |-> "tool_use", id |-> n]
      /\ s.ids = [i \in 1..n |-> i] /\ \A i \in 1..Len(t) : t[i].call \leq n
      /\ Anthropic!SentBack(m) = c /\ Agrees(m, t, c)
  BY DEF Conv, Going
<1>3. n \in 1..n /\ s.ids[n] = n /\ s.active.id = n /\ s.active.type = "tool_use" /\ n # None
  BY <1>1, <1>2, AnthropicAssumption
<1>4. z = s.ids
  <2> DEFINE q == s.ids
             p == n - 1
  <2>1. q \in Seq(Nat) /\ p \in Nat /\ Len(q) = p + 1 /\ p + 1 = n
    BY <1>1, <1>2
  <2>2. SubSeq(q, 1, p) = Begin(q, p)
    BY <2>1 DEF Begin
  <2>3. q[p + 1] = n
    BY <1>3, <2>1
  <2>4. z = Append(SubSeq(q, 1, p), n)
    OBVIOUS
  <2>5. q = s.ids
    OBVIOUS
  <2> HIDE DEF p, q, n, z
  <2>6. q = Append(Begin(q, p), q[p + 1])
    BY <2>1, BeginIs
  <2>7. QED
    BY <2>2, <2>3, <2>4, <2>5, <2>6
<1>5. Anthropic!Convert(s, part, k) = w
  <2>1. CASE part.id # None
    <3>1. part.id = part.call /\ Anthropic!Convert(s, part, k) = Anthropic!NamedCall(s, part, k)
      BY <2>1 DEF Anthropic!Convert
    <3>2. known = [s EXCEPT !.ids = Append(SubSeq(@, 1, part.call - 1), part.id)]
      BY <3>1
    <3>3. QED
      BY <1>3, <2>1, <3>1, <3>2 DEF Anthropic!NamedCall
  <2>2. CASE part.id = None
    <3>1. Anthropic!Convert(s, part, k) = Anthropic!MoreArguments(s, part, k)
      BY <2>2 DEF Anthropic!Convert
    <3>2. QED
      BY <1>3, <2>2, <3>1 DEF Anthropic!MoreArguments
  <2>3. QED
    BY <2>1, <2>2
<1>6. /\ InBlock(known) /\ known.ids = s.ids /\ known.active = s.active /\ known.events = s.events
  <2> HIDE DEF z
  <2>1. QED
    BY <1>1, <1>2, <1>4, Knows
<1> HIDE DEF known, z
<1>7. InBlock(u) /\ u.ids = s.ids /\ u.active = s.active /\ u.events = s.events
  BY <1>2, <1>6
<1>8. k \in Nat
  BY <1>1
<1> HIDE DEF u
<1>9. /\ InBlock(w) /\ w.ids = s.ids /\ w.active = s.active
      /\ Anthropic!Received(w.events) = LastPiece(m, k)
      /\ Anthropic!SentBack(Anthropic!Received(w.events)) = WithPiece(c, k)
  <2>1. u.active.type = "tool_use" /\ Anthropic!Received(u.events) = m
    BY <1>3, <1>7
  <2> HIDE DEF m, c, k, n
  <2>2. /\ InBlock(w) /\ w.ids = u.ids /\ w.active = u.active
        /\ Anthropic!Received(w.events) = LastPiece(m, k)
        /\ Anthropic!SentBack(Anthropic!Received(w.events)) = WithPiece(Anthropic!SentBack(m), k)
    BY <1>7, <1>8, <2>1, NewPiece
  <2>3. QED
    BY <1>2, <1>7, <2>2
<1> HIDE DEF w
<1>10. /\ tt \in Seq(AnswerParts) /\ tt # <<>> /\ tt[Len(tt)] = part /\ Len(tt) = k
       /\ \A i \in 1..Len(t) : tt[i] = t[i]
  BY <1>1, AppendProperties
<1>11. \A i \in 1..Len(tt) : tt[i].call \leq n
  <2>1. \A i \in 1..k : i \in 1..Len(t) \/ i = Len(tt)
    BY <1>1, <1>10
  <2>2. part.call \leq n /\ \A i \in 1..Len(t) : t[i].call \leq n
    BY <1>1, <1>2
  <2> HIDE DEF tt, k, n
  <2>3. ASSUME NEW i \in 1..k PROVE tt[i].call \leq n
    <3>1. CASE i \in 1..Len(t)
      BY <1>10, <2>2, <3>1
    <3>2. CASE i = Len(tt)
      BY <1>10, <2>2, <3>2
    <3>3. QED
      BY <2>1, <3>1, <3>2
  <2>4. QED
    BY <1>10, <2>3
<1>12. Anthropic!Completion(tt, n) = WithPiece(c, k)
  <2>1. n \in Nat \ {0}
    BY <1>1, <1>2
  <2>2. Anthropic!Completion(Append(t, part), n) = WithPiece(Anthropic!Completion(t, n), Len(t) + 1)
    BY <1>1, <2>1, ArgumentsAdded
  <2>3. QED
    BY <2>2
<1>13. Agrees(LastPiece(m, k), tt, WithPiece(c, k))
  <2>1. Agrees(m, tt, c)
    BY <1>1, <1>2, CallAgrees
  <2>2. c.calls # <<>>
    BY <1>1, <1>2, CompletionTyped
  <2>3. tt[Len(tt)].type = "tool_use"
    BY <1>10
  <2> HIDE DEF tt, c, m, k
  <2>4. c \in Answers
    BY <1>1 DEF c
  <2>5. QED
    BY <1>8, <1>10, <2>1, <2>2, <2>3, <2>4, PieceAgrees
<1> HIDE DEF tt, k, m, c
<1>14. Going(w, part) /\ w \in Converters
  BY <1>2, <1>9 DEF Going, InBlock
<1>15. Conv(w, tt)
  <2>1. w.ids = [i \in 1..Len(w.ids) |-> i] /\ Len(w.ids) = n
    BY <1>2, <1>9
  <2> HIDE DEF n
  <2>2. QED
    BY <1>9, <1>10, <1>11, <1>12, <1>13, <1>14, <2>1 DEF Conv
<1>16. QED
  BY <1>5, <1>9, <1>15 DEF tt, k

\* The converter behind each part of a chunk.
Running(g, delta) ==
    /\ g[0] = Anthropic!Current
    /\ \A i \in 1..Len(delta) : g[i] = Anthropic!Convert(g[i - 1], delta[i], Len(said) + i)
HasRun(delta) == \E g : Running(g, delta) /\ Anthropic!Converted(delta) = g[Len(delta)]

\* The states of the converter behind the parts of a chunk,
LEMMA ConvertedIs == ASSUME NEW delta \in Seq(AnswerParts), Len(delta) \leq 4 PROVE HasRun(delta)
<1> DEFINE n == Len(delta)
           Conversion(s, i) == Anthropic!Convert(s, delta[i], Len(said) + i)
           R(f) == [i \in 0..n |-> IF i = 0 THEN Anthropic!Current
                                     ELSE Anthropic!Convert(f[i - 1], delta[i], Len(said) + i)]
           f == CHOOSE f : f = R(f)
           c0 == Anthropic!Current
           c1 == Conversion(c0, 1)
           c2 == Conversion(c1, 2)
           c3 == Conversion(c2, 3)
           c4 == Conversion(c3, 4)
           g == [i \in 0..n |-> IF i = 0 THEN c0 ELSE IF i = 1 THEN c1 ELSE IF i = 2 THEN c2
                                  ELSE IF i = 3 THEN c3 ELSE c4]
<1>1. n \in 0..4
  <2>1. n \in Nat
    BY LenProperties
  <2>2. n \leq 4
    OBVIOUS
  <2> HIDE DEF n
  <2>3. QED
    BY <2>1, <2>2
<1>2. Anthropic!Converted(delta) = f[n]
  BY Zenon DEF Anthropic!Converted
<1> HIDE DEF n
<1>3. ASSUME NEW i \in 0..n
      PROVE g[i] = IF i = 0 THEN Anthropic!Current ELSE Conversion(g[i - 1], i)
  <2> HIDE DEF Conversion
  <2>1. i \in {0, 1, 2, 3, 4} /\ (i # 0 => i - 1 \in 0..n)
    BY <1>1
  <2>2. CASE i = 0
    BY <2>2
  <2>3. CASE i = 1
    BY <2>1, <2>3
  <2>4. CASE i = 2
    BY <2>1, <2>4
  <2>5. CASE i = 3
    BY <2>1, <2>5
  <2>6. CASE i = 4
    BY <2>1, <2>6
  <2>7. QED
    BY <2>1, <2>2, <2>3, <2>4, <2>5, <2>6
<1>4. g = [i \in 0..n |-> g[i]]
  OBVIOUS
<1> HIDE DEF g
<1>5. g = R(g)
  BY <1>3, <1>4
<1>6. f = R(f)
  <2> HIDE DEF R
  <2>1. QED
    BY <1>5
<1> HIDE DEF f
<1>7. ASSUME NEW i \in 0..n
      PROVE f[i] = IF i = 0 THEN Anthropic!Current ELSE Conversion(f[i - 1], i)
  <2>1. R(f)[i] = IF i = 0 THEN Anthropic!Current ELSE Conversion(f[i - 1], i)
    OBVIOUS
  <2> HIDE DEF R
  <2>2. QED
    BY <1>6, <2>1
<1>8. Running(f, delta)
  <2>1. 0 \in 0..n /\ \A i \in 1..n : i \in 0..n /\ i # 0
    BY <1>1
  <2>2. f[0] = Anthropic!Current /\ \A i \in 1..n : f[i] = Conversion(f[i - 1], i)
    BY <1>7, <2>1
  <2>3. QED
    BY <2>2 DEF Running, n
<1>9. QED
  BY <1>2, <1>8 DEF HasRun, n

\* One part after the other.
Reached(g, delta, i) == Conv(g[i], said \o Begin(delta, i))
\* of which each adds one part to what was said:
LEMMA OnePartMore ==
    ASSUME said \in Seq(AnswerParts), NEW delta \in Seq(AnswerParts), NEW i \in Nat, i < Len(delta)
    PROVE  LET t == said \o Begin(delta, i) IN
           /\ delta[i + 1] \in AnswerParts /\ i + 1 \in 1..Len(delta)
           /\ said \o Begin(delta, i + 1) = Append(t, delta[i + 1])
           /\ Len(t) + 1 = Len(said) + (i + 1)
<1> DEFINE a == Begin(delta, i)
           b == Begin(delta, i + 1)
           x == delta[i + 1]
<1>1. Len(delta) \in Nat /\ i + 1 \in 1..Len(delta) /\ \A j \in 1..i : j \in 1..Len(delta)
  BY LenProperties
<1>2. x \in AnswerParts /\ \A j \in 1..i : delta[j] \in AnswerParts
  BY <1>1, ElementOfSeq
<1>3. a \in Seq(AnswerParts) /\ Len(a) = i
  BY <1>2 DEF Begin
<1>4. b = Append(a, x)
  BY <1>2 DEF Begin
<1> HIDE DEF a, b, x
<1>5. said \o Append(a, x) = Append(said \o a, x)
  BY <1>2, <1>3, AppendToConcat
<1>6. Len(said \o a) + 1 = Len(said) + (i + 1)
  <2>1. Len(said \o a) = Len(said) + Len(a)
    BY <1>3, ConcatProperties
  <2>2. Len(said) \in Nat
    BY LenProperties
  <2>3. QED
    BY <1>3, <2>1, <2>2
<1>7. QED
  BY <1>1, <1>2, <1>4, <1>5, <1>6 DEF a, b, x

\* a text,
LEMMA RunText ==
    ASSUME said \in Seq(AnswerParts), NEW delta \in Seq(AnswerParts), NEW g, Running(g, delta),
           NEW i \in Nat, i < Len(delta), Reached(g, delta, i),
           delta[i + 1].type # "tool_use", delta[i + 1].call = 0
    PROVE  Reached(g, delta, i + 1) /\ g[i + 1].ids = g[i].ids
<1> DEFINE t == said \o Begin(delta, i)
           x == delta[i + 1]
           s == g[i]
<1>1. /\ x \in AnswerParts /\ i + 1 \in 1..Len(delta) /\ said \o Begin(delta, i + 1) = Append(t, x)
      /\ Len(t) + 1 = Len(said) + (i + 1)
  BY OnePartMore
<1>2. (i + 1) - 1 = i
  OBVIOUS
<1>3. g[i + 1] = Anthropic!Convert(s, x, Len(t) + 1)
  BY <1>1, <1>2 DEF Running
<1>4. Conv(s, t) /\ x.type # "tool_use" /\ x.call = 0
  BY DEF Reached
<1> HIDE DEF t, x, s
<1>5. Conv(Anthropic!Convert(s, x, Len(t) + 1), Append(t, x))
      /\ Anthropic!Convert(s, x, Len(t) + 1).ids = s.ids
  BY <1>1, <1>4, ConvertText
<1>6. QED
  BY <1>1, <1>3, <1>5 DEF Reached, s

\* a new call,
LEMMA RunCall ==
    ASSUME said \in Seq(AnswerParts), NEW delta \in Seq(AnswerParts), NEW g, Running(g, delta),
           NEW i \in Nat, i < Len(delta), Reached(g, delta, i),
           delta[i + 1].type = "tool_use", delta[i + 1].call = Len(g[i].ids) + 1,
           delta[i + 1].id = delta[i + 1].call
    PROVE  Reached(g, delta, i + 1) /\ Len(g[i + 1].ids) = delta[i + 1].call
<1> DEFINE t == said \o Begin(delta, i)
           x == delta[i + 1]
           s == g[i]
<1>1. /\ x \in AnswerParts /\ i + 1 \in 1..Len(delta) /\ said \o Begin(delta, i + 1) = Append(t, x)
      /\ Len(t) + 1 = Len(said) + (i + 1)
  BY OnePartMore
<1>2. (i + 1) - 1 = i
  OBVIOUS
<1>3. g[i + 1] = Anthropic!Convert(s, x, Len(t) + 1)
  BY <1>1, <1>2 DEF Running
<1>4. Conv(s, t) /\ x.type = "tool_use" /\ x.call = Len(s.ids) + 1 /\ x.id = x.call
  BY DEF Reached
<1> HIDE DEF t, x, s
<1>5. Conv(Anthropic!Convert(s, x, Len(t) + 1), Append(t, x))
      /\ Len(Anthropic!Convert(s, x, Len(t) + 1).ids) = x.call
  BY <1>1, <1>4, ConvertCall
<1>6. QED
  BY <1>1, <1>3, <1>5 DEF Reached, x

\* or more arguments.
LEMMA RunMore ==
    ASSUME said \in Seq(AnswerParts), NEW delta \in Seq(AnswerParts), NEW g, Running(g, delta),
           NEW i \in Nat, i < Len(delta), Reached(g, delta, i),
           LET t == said \o Begin(delta, i) IN t # <<>> /\ t[Len(t)].type = "tool_use",
           delta[i + 1].type = "tool_use", delta[i + 1].arguments,
           delta[i + 1].call = Len(g[i].ids),
           delta[i + 1].id = None \/ delta[i + 1].id = delta[i + 1].call
    PROVE  Reached(g, delta, i + 1)
<1> DEFINE t == said \o Begin(delta, i)
           x == delta[i + 1]
           s == g[i]
<1>1. /\ x \in AnswerParts /\ i + 1 \in 1..Len(delta) /\ said \o Begin(delta, i + 1) = Append(t, x)
      /\ Len(t) + 1 = Len(said) + (i + 1)
  BY OnePartMore
<1>2. (i + 1) - 1 = i
  OBVIOUS
<1>3. g[i + 1] = Anthropic!Convert(s, x, Len(t) + 1)
  BY <1>1, <1>2 DEF Running
<1>4. /\ Conv(s, t) /\ x.type = "tool_use" /\ x.call = Len(s.ids) /\ x.arguments
      /\ x.id = None \/ x.id = x.call
      /\ t # <<>> /\ t[Len(t)].type = "tool_use"
  BY DEF Reached
<1> HIDE DEF t, x, s
<1>5. Conv(Anthropic!Convert(s, x, Len(t) + 1), Append(t, x))
  BY <1>1, <1>4, ConvertMore
<1>6. QED
  BY <1>1, <1>3, <1>5 DEF Reached

\* The pieces of text that a chunk begins with.
LEMMA TextsRun ==
    ASSUME said \in Seq(AnswerParts), NEW delta \in Seq(AnswerParts), NEW g, Running(g, delta),
           NEW p \in {0, 1, 2}, p \leq Len(delta), Reached(g, delta, 0),
           \A i \in 1..p : delta[i].type # "tool_use" /\ delta[i].call = 0
    PROVE  Reached(g, delta, p) /\ g[p].ids = g[0].ids
<1>0. Len(delta) \in Nat
  BY LenProperties
<1>1. CASE p = 0
  BY <1>1
<1>2. ASSUME p # 0 PROVE Reached(g, delta, 1) /\ g[1].ids = g[0].ids
  <2>1. 0 < Len(delta) /\ 0 \in Nat /\ 0 + 1 = 1 /\ 1 \in 1..p
    BY <1>0, <1>2
  <2>2. delta[0 + 1].type # "tool_use" /\ delta[0 + 1].call = 0
    BY <2>1
  <2>3. Reached(g, delta, 0 + 1) /\ g[0 + 1].ids = g[0].ids
    BY <2>1, <2>2, RunText
  <2>4. QED
    BY <2>1, <2>3
<1>3. CASE p = 1
  BY <1>2, <1>3
<1>4. CASE p = 2
  <2>1. 1 < Len(delta) /\ 1 \in Nat /\ 1 + 1 = 2 /\ 2 \in 1..p /\ p # 0
    BY <1>0, <1>4
  <2>2. delta[1 + 1].type # "tool_use" /\ delta[1 + 1].call = 0
    BY <2>1
  <2>3. Reached(g, delta, 1 + 1) /\ g[1 + 1].ids = g[1].ids
    BY <1>2, <2>1, <2>2, RunText
  <2>4. QED
    BY <1>2, <1>4, <2>1, <2>3
<1>5. QED
  BY <1>1, <1>3, <1>4

\* All and nothing of a sequence.
LEMMA BeginFull == ASSUME NEW S, NEW q \in Seq(S) PROVE Begin(q, Len(q)) = q /\ Begin(q, 0) = <<>>
<1>1. q = [i \in 1..Len(q) |-> q[i]]
  BY LenProperties
<1>2. QED
  BY <1>1 DEF Begin

\* Types of what a chunk may hold.
LEMMA PartsTyped ==
    ASSUME ids \in Seq(Nat)
    PROVE  /\ \A x \in Anthropic!Texts : /\ x \in Seq(AnswerParts) /\ Len(x) \in {0, 1, 2}
                                        /\ \A i \in 1..Len(x) : x[i].type # "tool_use" /\ x[i].call = 0
           /\ \A n \in Nat : \A b \in BOOLEAN : Anthropic!NewCall(n, b) \in AnswerParts
           /\ \A n \in Nat : \A id \in Nat \cup {None} : Anthropic!More(n, id) \in AnswerParts
<1> USE DEF AnswerParts, BlockTypes, Anthropic!Part
<1>1. Anthropic!Thinking \in AnswerParts /\ Anthropic!Thinking.type # "tool_use" /\ Anthropic!Thinking.call = 0
  BY DEF Anthropic!Thinking
<1>2. Anthropic!Content \in AnswerParts /\ Anthropic!Content.type # "tool_use" /\ Anthropic!Content.call = 0
  BY DEF Anthropic!Content
<1>3. ASSUME NEW x \in Anthropic!Texts
      PROVE  /\ x \in Seq(AnswerParts) /\ Len(x) \in {0, 1, 2}
             /\ \A i \in 1..Len(x) : x[i].type # "tool_use" /\ x[i].call = 0
  <2> DEFINE a == Anthropic!Thinking
             b == Anthropic!Content
  <2>1. a \in AnswerParts /\ b \in AnswerParts /\ a.type # "tool_use" /\ a.call = 0 /\ b.type # "tool_use" /\ b.call = 0
    BY <1>1, <1>2
  <2>2. x \in {<<>>, <<a>>, <<b>>, <<a, b>>}
    BY DEF Anthropic!Texts
  <2> HIDE DEF a, b, AnswerParts
  <2>3. CASE x = <<>>
    BY <2>3
  <2>4. CASE x = <<a>>
    BY <2>1, <2>4
  <2>5. CASE x = <<b>>
    BY <2>1, <2>5
  <2>6. CASE x = <<a, b>>
    <3>1. x \in Seq(AnswerParts) /\ Len(x) = 2 /\ x[1] = a /\ x[2] = b
      BY <2>1, <2>6
    <3>2. \A i \in 1..2 : i = 1 \/ i = 2
      OBVIOUS
    <3>3. QED
      BY <2>1, <3>1, <3>2
  <2>7. QED
    BY <2>2, <2>3, <2>4, <2>5, <2>6
<1>4. \A n \in Nat : \A b \in BOOLEAN : Anthropic!NewCall(n, b) \in AnswerParts
  BY DEF Anthropic!NewCall
<1>5. \A n \in Nat : \A id \in Nat \cup {None} : Anthropic!More(n, id) \in AnswerParts
  BY DEF Anthropic!More
<1>6. QED
  BY <1>3, <1>4, <1>5

\* The calls of a chunk, behind its pieces of text.
LEMMA CallsRun ==
    ASSUME said \in Seq(AnswerParts), NEW delta \in Seq(AnswerParts), NEW g, Running(g, delta),
           NEW p \in Nat, Reached(g, delta, p), NEW n \in Nat, Len(g[p].ids) = n,
           NEW y \in Seq(AnswerParts), Len(delta) = p + Len(y),
           \A i \in 1..Len(y) : delta[p + i] = y[i],
           \/ y = <<>>
           \/ \E b \in BOOLEAN : y = <<Anthropic!NewCall(n + 1, b)>>
           \/ y = <<Anthropic!NewCall(n + 1, TRUE), Anthropic!NewCall(n + 2, FALSE)>>
           \/ y = <<Anthropic!NewCall(n + 1, FALSE), Anthropic!More(n + 1, None)>>
    PROVE  Reached(g, delta, Len(delta))
<1>1. CASE y = <<>>
  BY <1>1
<1>2. ASSUME NEW b \in BOOLEAN, Len(y) \in {1, 2}, y[1] = Anthropic!NewCall(n + 1, b)
      PROVE  Reached(g, delta, p + 1) /\ Len(g[p + 1].ids) = n + 1
  <2>1. p < Len(delta) /\ delta[p + 1] = y[1]
    BY <1>2
  <2>2. /\ delta[p + 1].type = "tool_use" /\ delta[p + 1].call = n + 1
        /\ delta[p + 1].id = delta[p + 1].call
    BY <1>2, <2>1 DEF Anthropic!NewCall, Anthropic!Part
  <2>3. Reached(g, delta, p + 1) /\ Len(g[p + 1].ids) = delta[p + 1].call
    BY <2>1, <2>2, RunCall
  <2>4. QED
    BY <2>2, <2>3
<1>3. ASSUME NEW b \in BOOLEAN, y = <<Anthropic!NewCall(n + 1, b)>>
      PROVE  Reached(g, delta, Len(delta))
  <2>1. Len(y) = 1 /\ y[1] = Anthropic!NewCall(n + 1, b)
    BY <1>3
  <2>2. QED
    BY <1>2, <2>1
<1>4. CASE y = <<Anthropic!NewCall(n + 1, TRUE), Anthropic!NewCall(n + 2, FALSE)>>
  <2> DEFINE q == p + 1
  <2>1. Len(y) = 2 /\ y[1] = Anthropic!NewCall(n + 1, TRUE) /\ y[2] = Anthropic!NewCall(n + 2, FALSE)
    BY <1>4
  <2>2. q \in Nat /\ q < Len(delta) /\ q + 1 = Len(delta) /\ p + 2 = q + 1
    BY <2>1
  <2>3. delta[q + 1] = y[2]
    <3>1. 2 \in 1..Len(y)
      BY <2>1
    <3>2. delta[p + 2] = y[2]
      BY <3>1
    <3>3. QED
      BY <2>2, <3>2
  <2>4. /\ delta[q + 1].type = "tool_use" /\ delta[q + 1].call = n + 2
        /\ delta[q + 1].id = delta[q + 1].call
    BY <2>1, <2>3 DEF Anthropic!NewCall, Anthropic!Part
  <2>5. Reached(g, delta, q) /\ Len(g[q].ids) = n + 1
    BY <1>2, <2>1
  <2> HIDE DEF q
  <2>6. delta[q + 1].call = Len(g[q].ids) + 1
    BY <2>4, <2>5
  <2>7. Reached(g, delta, q + 1)
    BY <2>2, <2>4, <2>5, <2>6, RunCall
  <2>8. QED
    BY <2>2, <2>7
<1>5. CASE y = <<Anthropic!NewCall(n + 1, FALSE), Anthropic!More(n + 1, None)>>
  <2> DEFINE q == p + 1
             t == said \o Begin(delta, q)
             u == said \o Begin(delta, p)
  <2>1. Len(y) = 2 /\ y[1] = Anthropic!NewCall(n + 1, FALSE) /\ y[2] = Anthropic!More(n + 1, None)
    BY <1>5
  <2>2. q \in Nat /\ q < Len(delta) /\ q + 1 = Len(delta) /\ p + 2 = q + 1 /\ p < Len(delta)
    BY <2>1
  <2>3. delta[q + 1] = y[2] /\ delta[p + 1] = y[1]
    <3>1. 1 \in 1..Len(y) /\ 2 \in 1..Len(y)
      BY <2>1
    <3>2. delta[p + 1] = y[1] /\ delta[p + 2] = y[2]
      BY <3>1
    <3>3. QED
      BY <2>2, <3>2
  <2>4. /\ delta[q + 1].type = "tool_use" /\ delta[q + 1].call = n + 1
        /\ delta[q + 1].id = None /\ delta[q + 1].arguments
        /\ delta[p + 1].type = "tool_use"
    BY <2>1, <2>3 DEF Anthropic!NewCall, Anthropic!More, Anthropic!Part
  <2>5. Reached(g, delta, q) /\ Len(g[q].ids) = n + 1
    BY <1>2, <2>1
  <2>6. t = Append(u, delta[p + 1]) /\ delta[p + 1] \in AnswerParts /\ u \in Seq(AnswerParts)
    <3>1. t = Append(u, delta[p + 1]) /\ delta[p + 1] \in AnswerParts
      BY <2>2, OnePartMore
    <3>2. u \in Seq(AnswerParts)
      BY ConvTyped DEF Reached
    <3>3. QED
      BY <3>1, <3>2
  <2> HIDE DEF q, t, u
  <2>7. t # <<>> /\ t[Len(t)].type = "tool_use"
    BY <2>4, <2>6, LastPart
  <2>8. Reached(g, delta, q + 1)
    BY <2>2, <2>4, <2>5, <2>7, RunMore DEF t
  <2>9. QED
    BY <2>2, <2>8
<1>6. QED
  BY <1>1, <1>3, <1>4, <1>5

\* The converter is right behind every chunk, if it was before.
LEMMA ChunkConverts ==
    ASSUME Conv(Anthropic!Current, said), NEW delta \in Anthropic!Deltas
    PROVE  Conv(Anthropic!Converted(delta), said \o delta)
<1> DEFINE n == Len(ids)
<1>0. /\ said \in Seq(AnswerParts) /\ ids \in Seq(Nat) /\ n \in Nat /\ Anthropic!Current.ids = ids
      /\ Anthropic!Calls = n /\ n + 1 \in Nat /\ n + 2 \in Nat
  <2>1. said \in Seq(AnswerParts) /\ Anthropic!Current.ids \in Seq(Nat)
    BY ConvTyped
  <2>2. Anthropic!Current.ids = ids
    BY DEF Anthropic!Current
  <2>3. n \in Nat /\ Anthropic!Calls = n
    BY <2>1, <2>2, LenProperties DEF Anthropic!Calls
  <2>4. QED
    BY <2>1, <2>2, <2>3
<1> HIDE DEF n
<1>1. ASSUME delta \in Seq(AnswerParts), Len(delta) \leq 4,
             \A g : Running(g, delta) /\ Reached(g, delta, 0) => Reached(g, delta, Len(delta))
      PROVE  Conv(Anthropic!Converted(delta), said \o delta)
  <2>1. PICK g : Running(g, delta) /\ Anthropic!Converted(delta) = g[Len(delta)]
    BY <1>1, ConvertedIs DEF HasRun
  <2>2. Begin(delta, 0) = <<>> /\ Begin(delta, Len(delta)) = delta
    BY <1>1, BeginFull
  <2>3. said \o <<>> = said
    BY <1>0, ConcatEmptySeq
  <2>4. Reached(g, delta, 0)
    BY <2>1, <2>2, <2>3 DEF Reached, Running
  <2>5. Reached(g, delta, Len(delta))
    BY <1>1, <2>1, <2>4
  <2>6. QED
    BY <2>1, <2>2, <2>5 DEF Reached
<1>2. ASSUME NEW x \in Anthropic!Texts, NEW y \in Anthropic!Entries, delta = x \o y
      PROVE  /\ delta \in Seq(AnswerParts) /\ Len(delta) \leq 4
             /\ \A g : Running(g, delta) /\ Reached(g, delta, 0) => Reached(g, delta, Len(delta))
  <2> DEFINE p == Len(x)
             c1 == Anthropic!NewCall(n + 1, FALSE)
             d1 == Anthropic!NewCall(n + 1, TRUE)
             c2 == Anthropic!NewCall(n + 2, FALSE)
             m1 == Anthropic!More(n + 1, None)
  <2>1. /\ x \in Seq(AnswerParts) /\ p \in {0, 1, 2} /\ p \in Nat
        /\ \A i \in 1..p : x[i].type # "tool_use" /\ x[i].call = 0
    BY <1>0, PartsTyped
  <2>2. c1 \in AnswerParts /\ d1 \in AnswerParts /\ c2 \in AnswerParts /\ m1 \in AnswerParts
    BY <1>0, PartsTyped
  <2>3. y \in {<<>>, <<c1>>, <<d1>>, <<d1, c2>>, <<c1, m1>>}
    BY <1>0 DEF Anthropic!Entries
  <2>4. \/ y = <<>>
        \/ \E b \in BOOLEAN : y = <<Anthropic!NewCall(n + 1, b)>>
        \/ y = <<Anthropic!NewCall(n + 1, TRUE), Anthropic!NewCall(n + 2, FALSE)>>
        \/ y = <<Anthropic!NewCall(n + 1, FALSE), Anthropic!More(n + 1, None)>>
    BY <2>3
  <2> HIDE DEF c1, d1, c2, m1
  <2>5. y \in Seq(AnswerParts) /\ Len(y) \in {0, 1, 2}
    <3>1. CASE y = <<>>
      BY <3>1
    <3>2. ASSUME NEW e \in AnswerParts, y = <<e>> PROVE y \in Seq(AnswerParts) /\ Len(y) \in {0, 1, 2}
      BY <3>2
    <3>3. ASSUME NEW e \in AnswerParts, NEW f \in AnswerParts, y = <<e, f>>
          PROVE  y \in Seq(AnswerParts) /\ Len(y) \in {0, 1, 2}
      BY <3>3
    <3>4. QED
      BY <2>2, <2>3, <3>1, <3>2, <3>3
  <2>6. /\ delta \in Seq(AnswerParts) /\ Len(delta) = p + Len(y)
        /\ \A i \in 1..p : delta[i] = x[i]
        /\ \A i \in 1..Len(y) : delta[p + i] = y[i]
    BY <1>2, <2>1, <2>5
  <2> HIDE DEF p
  <2>7. Len(delta) \leq 4 /\ p \leq Len(delta)
    <3> DEFINE l == Len(y)
    <3>1. l \in {0, 1, 2} /\ Len(delta) = p + l
      BY <2>5, <2>6
    <3> HIDE DEF l
    <3>2. p \in 0..2 /\ l \in 0..2
      BY <2>1, <3>1
    <3>3. QED
      BY <3>1, <3>2
  <2>8. ASSUME NEW g, Running(g, delta), Reached(g, delta, 0) PROVE Reached(g, delta, Len(delta))
    <3>1. \A i \in 1..p : delta[i].type # "tool_use" /\ delta[i].call = 0
      BY <2>1, <2>6
    <3>2. Reached(g, delta, p) /\ g[p].ids = g[0].ids
      BY <1>0, <2>1, <2>6, <2>7, <2>8, <3>1, TextsRun
    <3>3. Len(g[p].ids) = n
      BY <1>0, <2>8, <3>2 DEF Running, n
    <3>4. /\ delta \in Seq(AnswerParts) /\ p \in Nat /\ y \in Seq(AnswerParts)
          /\ n \in Nat /\ said \in Seq(AnswerParts) /\ Len(delta) = p + Len(y)
          /\ \A i \in 1..Len(y) : delta[p + i] = y[i]
      BY <1>0, <2>1, <2>5, <2>6
    <3> HIDE DEF n
    <3>5. QED
      BY <2>4, <2>8, <3>2, <3>3, <3>4, CallsRun
  <2>9. QED
    BY <2>6, <2>7, <2>8
<1>3. ASSUME said # <<>>, said[Len(said)].type = "tool_use",
             NEW id \in Nat \cup {None}, id = None \/ id = n, delta = <<Anthropic!More(n, id)>>
      PROVE  /\ delta \in Seq(AnswerParts) /\ Len(delta) \leq 4
             /\ \A g : Running(g, delta) /\ Reached(g, delta, 0) => Reached(g, delta, Len(delta))
  <2> DEFINE x == Anthropic!More(n, id)
  <2>1. x \in AnswerParts
    BY <1>0, PartsTyped
  <2>2. x.type = "tool_use" /\ x.arguments /\ x.call = n /\ x.id = id
    BY DEF Anthropic!More, Anthropic!Part
  <2>3. delta = <<x>>
    BY <1>3
  <2> HIDE DEF x
  <2>4. delta \in Seq(AnswerParts) /\ Len(delta) = 1 /\ delta[1] = x
    BY <2>1, <2>3
  <2>5. ASSUME NEW g, Running(g, delta), Reached(g, delta, 0) PROVE Reached(g, delta, 1)
    <3>1. said \o Begin(delta, 0) = said
      BY <1>0, <2>4, BeginFull, ConcatEmptySeq
    <3>2. LET t == said \o Begin(delta, 0) IN t # <<>> /\ t[Len(t)].type = "tool_use"
      BY <1>3, <3>1
    <3>3. 0 \in Nat /\ 0 < Len(delta) /\ 0 + 1 = 1
      BY <2>4
    <3>4. Len(g[0].ids) = n
      BY <1>0, <2>5 DEF Running, n
    <3>5. /\ delta[0 + 1].type = "tool_use" /\ delta[0 + 1].arguments
          /\ delta[0 + 1].call = Len(g[0].ids)
          /\ delta[0 + 1].id = None \/ delta[0 + 1].id = delta[0 + 1].call
      BY <1>3, <2>2, <2>4, <3>4
    <3>6. Reached(g, delta, 0 + 1)
      BY <1>0, <2>4, <2>5, <3>2, <3>3, <3>5, RunMore
    <3>7. QED
      BY <3>6
  <2>6. QED
    BY <2>4, <2>5
<1>4. CASE delta \in {x \o y : x \in Anthropic!Texts, y \in Anthropic!Entries}
  BY <1>1, <1>2, <1>4
<1>5. CASE delta \in Anthropic!Continued
  <2>1. Anthropic!Last(said) = said[Len(said)]
    BY DEF Anthropic!Last
  <2>2. /\ said # <<>> /\ said[Len(said)].type = "tool_use"
        /\ \E id \in {None, n} : delta = <<Anthropic!More(n, id)>>
    BY <1>0, <1>5, <2>1 DEF Anthropic!Continued
  <2>3. PICK id \in {None, n} : delta = <<Anthropic!More(n, id)>>
    BY <2>2
  <2>4. id \in Nat \cup {None}
    BY <1>0
  <2>5. QED
    BY <1>1, <1>3, <2>2, <2>3, <2>4
<1>6. QED
  BY <1>4, <1>5 DEF Anthropic!Deltas

(***************************************************************************)
(* The stream                                                              *)
(***************************************************************************)
\* What MessagesAgree follows from.
Together == Anthropic!InOrder(said)
              => Anthropic!Received(events) = Anthropic!Message(Anthropic!Completion(said, Anthropic!Calls))
MessageInv ==
    /\ phase \in {"first", "body", "usage", "done", "failed"}
    /\ events \in Seq(Events) /\ Bracketed(events)
    /\ Anthropic!AnswerComesBack /\ Together
    /\ phase = "first" => /\ events = <<>> /\ said = <<>> /\ ids = <<>>
                          /\ active = Anthropic!NoBlock /\ next = 0
    /\ phase = "body" => Conv(Anthropic!Current, said)
    /\ phase = "usage" => events # <<>> /\ events[Len(events)].type = "message_delta"

\* An event that is no part of a block.
LEMMA Framed ==
    ASSUME NEW es \in Seq(Events), NEW type \in EventTypes \ {"start", "delta", "stop"}
    PROVE  LET e == Anthropic!Event(type, 0, None, 0) IN
           /\ e \in Events /\ e.type = type /\ Append(es, e) \in Seq(Events)
           /\ Anthropic!Received(Append(es, e)) = Anthropic!Received(es)
           /\ Append(es, e) # <<>> /\ Append(es, e)[Len(Append(es, e))] = e
<1> DEFINE e == Anthropic!Event(type, 0, None, 0)
<1>1. e \in Events /\ e.type = type
  <2> DEFINE z == 0
  <2>1. z \in Nat /\ None \in BlockTypes \cup {None} /\ type \in EventTypes
    OBVIOUS
  <2>2. e = Anthropic!Event(type, z, None, z)
    OBVIOUS
  <2> HIDE DEF z, e
  <2>3. /\ Anthropic!Event(type, z, None, z) \in Events
        /\ Anthropic!Event(type, z, None, z).type = type
    BY <2>1, EventTyped
  <2>4. QED
    BY <2>2, <2>3
<1> HIDE DEF e
<1>2. Anthropic!Received(Append(es, e)) = Anthropic!Put(Anthropic!Received(es), e)
  BY <1>1, ReceivedGrows
<1>3. Anthropic!Put(Anthropic!Received(es), e) = Anthropic!Received(es)
  BY <1>1 DEF Anthropic!Put
<1>4. Append(es, e) \in Seq(Events) /\ Append(es, e) # <<>> /\ Append(es, e)[Len(Append(es, e))] = e
  BY <1>1, LastEvent
<1>5. QED
  BY <1>1, <1>2, <1>3, <1>4 DEF e

\* Before the first chunk, and behind it.
LEMMA EmptyComesBack ==
    /\ Anthropic!Received(<<>>) = <<>>
    /\ Anthropic!SentBack(<<>>) = Anthropic!Completion(<<>>, 0)
    /\ Agrees(<<>>, <<>>, Anthropic!Completion(<<>>, 0))
<1> DEFINE c == [reasoning |-> <<>>, content |-> <<>>, calls |-> <<>>]
<1>1. Anthropic!Received(<<>>) = <<>>
  BY ReceivedTyped
<1>2. Anthropic!SentBack(<<>>) = c
  BY SentBackTyped DEF Anthropic!SentBack
<1>3. Anthropic!Completion(<<>>, 0) = c
  <2>1. \A b : Anthropic!Numbers(<<>>, b) = <<>>
    <3>1. FlattenSeq(<<>>) = <<>>
      BY DEF FlattenSeq
    <3>2. \A b : [i \in DOMAIN <<>> |-> IF i \in b THEN <<i>> ELSE <<>>] = <<>>
      OBVIOUS
    <3>3. QED
      BY <3>1, <3>2, FlattensAlike DEF Anthropic!Numbers
  <2>2. [n \in 1..0 |-> [id |-> n, pieces |-> Anthropic!Numbers(<<>>, Anthropic!Argued(<<>>, n))]] = <<>>
    OBVIOUS
  <2>3. QED
    BY <2>1, <2>2 DEF Anthropic!Completion
<1>4. Anthropic!Message(c) = <<>>
  BY DEF Anthropic!Message, Anthropic!TextBlock
<1>5. Agrees(<<>>, <<>>, c)
  BY <1>4 DEF Agrees, Fits
<1>6. QED
  BY <1>1, <1>2, <1>3, <1>5

\* One step for each action.
LEMMA MessageStarts == Anthropic!Init => MessageInv
<1> SUFFICES ASSUME Anthropic!Init PROVE MessageInv
  OBVIOUS
<1>1. /\ phase = "first" /\ active = Anthropic!NoBlock /\ next = 0
      /\ ids = <<>> /\ events = <<>> /\ said = <<>>
  BY DEF Anthropic!Init
<1>2. Anthropic!Calls = 0
  BY <1>1 DEF Anthropic!Calls
<1>3. Anthropic!AnswerComesBack /\ Together
  BY <1>1, <1>2, EmptyComesBack DEF Anthropic!AnswerComesBack, Together, Agrees
<1>4. Bracketed(events)
  BY <1>1 DEF Bracketed
<1>5. QED
  BY <1>1, <1>3, <1>4 DEF MessageInv

\* What holds behind a chunk is what the client may rely on.
LEMMA ConvHolds ==
    ASSUME Conv(Anthropic!Current, said)
    PROVE  /\ Anthropic!AnswerComesBack /\ Together
           /\ events \in Seq(Events) /\ Bracketed(events) /\ (Inside(events) \/ Outside(events))
<1>1. Anthropic!Current.events = events /\ Anthropic!Current.ids = ids
  BY DEF Anthropic!Current
<1>2. BetweenBlocks(Anthropic!Current) \/ InBlock(Anthropic!Current)
  BY ConvTyped
<1>3. Anthropic!AnswerComesBack /\ Together
  BY <1>1 DEF Conv, Anthropic!AnswerComesBack, Together, Anthropic!Calls, Agrees
<1>4. events \in Seq(Events) /\ Bracketed(events) /\ (Inside(events) \/ Outside(events))
  <2>1. Anthropic!Current \in Converters
    BY <1>2 DEF BetweenBlocks, InBlock
  <2> DEFINE s == Anthropic!Current
  <2>2. s.events = events /\ s \in Converters /\ (BetweenBlocks(s) \/ InBlock(s))
    BY <1>1, <1>2, <2>1
  <2> HIDE DEF s
  <2>3. s.events \in Seq(Events)
    BY <2>2 DEF Converters
  <2>4. QED
    BY <2>2, <2>3 DEF BetweenBlocks, InBlock
<1>5. QED
  BY <1>3, <1>4

\* The stream goes on with an event that is no part of a block.
LEMMA FrameKept ==
    ASSUME events \in Seq(Events), Bracketed(events), Anthropic!AnswerComesBack, Together,
           NEW type \in EventTypes \ {"start", "delta", "stop"},
           Anthropic!Follows(events, Anthropic!Event(type, 0, None, 0)),
           events' = Append(events, Anthropic!Event(type, 0, None, 0)), ids' = ids, said' = said
    PROVE  /\ events' \in Seq(Events) /\ Bracketed(events')
           /\ Anthropic!AnswerComesBack' /\ Together'
           /\ events' # <<>> /\ events'[Len(events')].type = type
<1> DEFINE e == Anthropic!Event(type, 0, None, 0)
<1>1. /\ e \in Events /\ e.type = type /\ events' \in Seq(Events)
      /\ Anthropic!Received(events') = Anthropic!Received(events)
      /\ events' # <<>> /\ events'[Len(events')] = e
  BY Framed
<1> HIDE DEF e
<1>2. Bracketed(Append(events, e))
  BY <1>1, BracketedGrows DEF e
<1>3. Anthropic!Calls' = Anthropic!Calls
  BY DEF Anthropic!Calls
<1>4. Anthropic!AnswerComesBack' /\ Together'
  BY <1>1, <1>3 DEF Anthropic!AnswerComesBack, Together
<1>5. QED
  BY <1>1, <1>2, <1>4 DEF e

\* The first chunk starts the message,
LEMMA FirstChunkKeeps == MessageInv /\ Anthropic!FirstChunk => MessageInv'
<1> SUFFICES ASSUME MessageInv, Anthropic!FirstChunk PROVE MessageInv'
  OBVIOUS
<1> DEFINE type == "message_start"
           s == Anthropic!Current'
<1>1. /\ events = <<>> /\ said = <<>> /\ ids = <<>> /\ active = Anthropic!NoBlock /\ next = 0
      /\ phase' = "body" /\ events' = Append(events, Anthropic!Event(type, 0, None, 0))
      /\ active' = active /\ next' = next /\ ids' = ids /\ said' = said
      /\ events \in Seq(Events) /\ Bracketed(events)
      /\ Anthropic!AnswerComesBack /\ Together
  BY DEF MessageInv, Anthropic!FirstChunk
<1>2. type \in EventTypes \ {"start", "delta", "stop"}
  BY DEF EventTypes
<1>3. Anthropic!Event(type, 0, None, 0).type = type
  BY DEF Anthropic!Event
<1>4. Anthropic!Follows(events, Anthropic!Event(type, 0, None, 0))
  BY <1>1, <1>3 DEF Anthropic!Follows
<1>5. /\ events' \in Seq(Events) /\ Bracketed(events')
      /\ Anthropic!AnswerComesBack' /\ Together'
      /\ events' # <<>> /\ events'[Len(events')].type = type
  BY <1>1, <1>2, <1>4, FrameKept
<1>6. Anthropic!Received(events') = <<>>
  BY <1>1, <1>2, Framed, EmptyComesBack
<1>7. s = [active |-> Anthropic!NoBlock, next |-> 0, ids |-> <<>>, events |-> events']
  BY <1>1 DEF Anthropic!Current
<1> HIDE DEF s
<1>8. /\ s \in Converters /\ s.events = events' /\ s.ids = <<>> /\ s.next = 0
      /\ s.active = Anthropic!NoBlock /\ s.active.type = None
  <2>1. Anthropic!NoBlock \in [type : BlockTypes \cup {None}, id : Nat] /\ Anthropic!NoBlock.type = None
    BY DEF Anthropic!NoBlock
  <2>2. <<>> \in Seq(Nat) /\ 0 \in Nat
    OBVIOUS
  <2>3. QED
    BY <1>5, <1>7, <2>1, <2>2 DEF Converters
<1>9. BetweenBlocks(s)
  <2>1. Len(Anthropic!Received(s.events)) = 0
    BY <1>6, <1>8
  <2>2. QED
    BY <1>5, <1>8, <2>1 DEF BetweenBlocks, Outside
<1>10. Conv(s, <<>>)
  <2>1. Len(s.ids) = 0 /\ s.ids = [n \in 1..0 |-> n] /\ <<>> \in Seq(AnswerParts) /\ \A i \in 1..Len(<<>>) : FALSE
    BY <1>8
  <2>2. QED
    BY <1>6, <1>8, <1>9, <2>1, EmptyComesBack DEF Conv
<1>11. Conv(Anthropic!Current, said)'
  BY <1>1, <1>10 DEF s
<1>12. QED
  BY <1>1, <1>5, <1>11 DEF MessageInv

\* every other chunk goes on with it,
LEMMA ChunkKeeps ==
    ASSUME MessageInv, NEW delta \in Anthropic!Deltas, Anthropic!Chunk(delta) PROVE MessageInv'
<1> DEFINE s == Anthropic!Converted(delta)
           t == said \o delta
<1>1. /\ phase = "body" /\ phase' = phase /\ said' = t /\ Conv(Anthropic!Current, said)
      /\ active' = s.active /\ next' = s.next /\ ids' = s.ids /\ events' = s.events
  BY DEF MessageInv, Anthropic!Chunk
<1>2. Conv(s, t)
  BY <1>1, ChunkConverts
<1> HIDE DEF s, t
<1>3. s \in Converters
  BY <1>2 DEF Conv
<1>4. s = [active |-> s.active, next |-> s.next, ids |-> s.ids, events |-> s.events]
  BY <1>3 DEF Converters
<1>5. Anthropic!Current' = s
  BY <1>1, <1>4 DEF Anthropic!Current
<1>6. Conv(Anthropic!Current, said)'
  BY <1>1, <1>2, <1>5
<1>7. /\ Anthropic!AnswerComesBack' /\ Together'
      /\ events' \in Seq(Events) /\ Bracketed(events')
  <2>1. Anthropic!Current'.events = events' /\ Anthropic!Current'.ids = ids'
    BY DEF Anthropic!Current
  <2>2. Anthropic!AnswerComesBack' /\ Together'
    BY <1>6, <2>1 DEF Conv, Anthropic!AnswerComesBack, Together, Anthropic!Calls, Agrees
  <2>3. events' \in Seq(Events)
    BY <1>1, <1>3 DEF Converters
  <2>4. Bracketed(events')
    <3>1. BetweenBlocks(s) \/ InBlock(s)
      BY <1>2, ConvTyped
    <3>2. QED
      BY <1>1, <3>1 DEF BetweenBlocks, InBlock
  <2>5. QED
    BY <2>2, <2>3, <2>4
<1>8. QED
  BY <1>1, <1>6, <1>7 DEF MessageInv

\* the chunk with the usage closes the open block,
LEMMA UsageKeeps == MessageInv /\ Anthropic!Usage => MessageInv'
<1> SUFFICES ASSUME MessageInv, Anthropic!Usage PROVE MessageInv'
  OBVIOUS
<1> DEFINE type == "message_delta"
           s == Anthropic!StopActive(Anthropic!Current)
           e == Anthropic!Event(type, 0, None, 0)
<1>1. /\ phase' = "usage" /\ events' = Append(s.events, e) /\ ids' = ids /\ said' = said
      /\ Conv(Anthropic!Current, said)
      /\ Anthropic!AnswerComesBack /\ Together
  BY DEF MessageInv, Anthropic!Usage
<1>2. BetweenBlocks(s) /\ Anthropic!Received(s.events) = Anthropic!Received(events)
  <2> DEFINE c == Anthropic!Current
  <2>1. c.events = events /\ (BetweenBlocks(c) \/ InBlock(c))
    BY <1>1, ConvTyped DEF Anthropic!Current
  <2> HIDE DEF c
  <2>2. CASE BetweenBlocks(c)
    <3>1. Anthropic!StopActive(c) = c
      BY <2>2 DEF BetweenBlocks, Anthropic!StopActive
    <3>2. QED
      BY <2>1, <2>2, <3>1 DEF c
  <2>3. CASE InBlock(c)
    <3>1. /\ BetweenBlocks(Anthropic!StopActive(c))
          /\ Anthropic!Received(Anthropic!StopActive(c).events) = Anthropic!Received(c.events)
      BY <2>3, Stops
    <3>2. QED
      BY <2>1, <3>1 DEF c
  <2>4. QED
    BY <2>1, <2>2, <2>3
<1> HIDE DEF s
<1>3. s.events \in Seq(Events) /\ Bracketed(s.events) /\ Outside(s.events)
  <2>1. s \in Converters
    BY <1>2 DEF BetweenBlocks
  <2>2. s.events \in Seq(Events)
    BY <2>1 DEF Converters
  <2>3. QED
    BY <1>2, <2>2 DEF BetweenBlocks
<1>4. type \in EventTypes \ {"start", "delta", "stop"}
  BY DEF EventTypes
<1>5. /\ e \in Events /\ e.type = type /\ Append(s.events, e) \in Seq(Events)
      /\ Anthropic!Received(Append(s.events, e)) = Anthropic!Received(s.events)
      /\ Append(s.events, e) # <<>> /\ Append(s.events, e)[Len(Append(s.events, e))] = e
  BY <1>3, <1>4, Framed
<1> HIDE DEF e
<1>6. Anthropic!Follows(s.events, e)
  <2>1. Anthropic!Last(s.events) = s.events[Len(s.events)]
    BY DEF Anthropic!Last
  <2>2. QED
    BY <1>3, <1>5, <2>1 DEF Anthropic!Follows, Outside
<1>7. Bracketed(events')
  BY <1>1, <1>3, <1>5, <1>6, BracketedGrows
<1>8. Anthropic!AnswerComesBack' /\ Together'
  <2>1. Anthropic!Received(events') = Anthropic!Received(events) /\ Anthropic!Calls' = Anthropic!Calls
    BY <1>1, <1>2, <1>5 DEF Anthropic!Calls
  <2>2. QED
    BY <1>1, <2>1 DEF Anthropic!AnswerComesBack, Together
<1>9. QED
  BY <1>1, <1>5, <1>7, <1>8 DEF MessageInv

\* and the end follows,
LEMMA EndKeeps == MessageInv /\ Anthropic!Done => MessageInv'
<1> SUFFICES ASSUME MessageInv, Anthropic!Done PROVE MessageInv'
  OBVIOUS
<1> DEFINE type == "message_stop"
           e == Anthropic!Event(type, 0, None, 0)
<1>1. /\ events' = Append(events, e) /\ phase = "usage" /\ phase' = "done"
      /\ ids' = ids /\ said' = said
  BY DEF Anthropic!Done
<1>2. /\ events \in Seq(Events) /\ Bracketed(events) /\ Anthropic!AnswerComesBack /\ Together
      /\ events # <<>> /\ events[Len(events)].type = "message_delta"
  BY <1>1 DEF MessageInv
<1>3. e.type = type
  BY DEF Anthropic!Event
<1>4. Anthropic!Last(events) = events[Len(events)]
  BY DEF Anthropic!Last
<1>5. type \in EventTypes \ {"start", "delta", "stop"}
  BY DEF EventTypes
<1> HIDE DEF e
<1>6. Anthropic!Follows(events, e)
  BY <1>2, <1>3, <1>4 DEF Anthropic!Follows
<1>7. /\ events' \in Seq(Events) /\ Bracketed(events')
      /\ Anthropic!AnswerComesBack' /\ Together'
  BY <1>1, <1>2, <1>5, <1>6, FrameKept DEF e
<1>8. QED
  BY <1>1, <1>7 DEF MessageInv

\* or an error, which leaves what the client has as it is.
LEMMA ErrorKeeps ==
    MessageInv /\ (Anthropic!ErrorChunk \/ Anthropic!BadItem) => MessageInv'
<1> SUFFICES ASSUME MessageInv, Anthropic!ErrorChunk \/ Anthropic!BadItem PROVE MessageInv'
  OBVIOUS
<1>1. /\ active' = active /\ next' = next /\ ids' = ids /\ events' = events /\ said' = said
      /\ phase' \in {"failed", phase}
  BY DEF Anthropic!ErrorChunk, Anthropic!BadItem
<1>2. Anthropic!Current' = Anthropic!Current /\ Anthropic!Calls' = Anthropic!Calls
  BY <1>1 DEF Anthropic!Current, Anthropic!Calls
<1>3. QED
  BY <1>1, <1>2 DEF MessageInv, Anthropic!AnswerComesBack, Together

\* So every step keeps the invariant,
LEMMA MessageIsKept == MessageInv /\ Anthropic!Next => MessageInv'
<1> SUFFICES ASSUME MessageInv, Anthropic!Next PROVE MessageInv'
  OBVIOUS
<1>1. CASE Anthropic!FirstChunk
  BY <1>1, FirstChunkKeeps
<1>2. CASE Anthropic!Usage
  BY <1>2, UsageKeeps
<1>3. CASE Anthropic!Done
  BY <1>3, EndKeeps
<1>4. CASE Anthropic!ErrorChunk \/ Anthropic!BadItem
  BY <1>4, ErrorKeeps
<1>5. ASSUME NEW delta \in Anthropic!Deltas, Anthropic!Chunk(delta) PROVE MessageInv'
  BY <1>5, ChunkKeeps
<1>6. QED
  BY <1>1, <1>2, <1>3, <1>4, <1>5 DEF Anthropic!Next

\* which implies what the module states.
LEMMA MessageHolds ==
    MessageInv => /\ Anthropic!EventsAreBracketed
                 /\ Anthropic!AnswerComesBack /\ Anthropic!MessagesAgree
<1> SUFFICES ASSUME MessageInv
             PROVE  /\ Anthropic!EventsAreBracketed
                    /\ Anthropic!AnswerComesBack /\ Anthropic!MessagesAgree
  OBVIOUS
<1>1. Anthropic!EventsAreBracketed /\ Anthropic!AnswerComesBack
  BY DEF MessageInv, Bracketed, Anthropic!EventsAreBracketed
<1> DEFINE c == Anthropic!Completion(said, Anthropic!Calls)
<1>2. Anthropic!InOrder(said) => Anthropic!Received(events) = Anthropic!Message(c)
  BY DEF MessageInv, Together
<1> HIDE DEF c
<1>3. Anthropic!FullMessages(c) \subseteq {Anthropic!Message(c), None}
  BY DEF Anthropic!FullMessages
<1>4. Anthropic!MessagesAgree
  <2>1. Anthropic!InOrder(said) => Anthropic!FullMessages(c) \subseteq {Anthropic!Received(events), None}
    BY <1>2, <1>3
  <2>2. QED
    BY <2>1 DEF Anthropic!MessagesAgree, c
<1>5. QED
  BY <1>1, <1>4
=============================================================================
