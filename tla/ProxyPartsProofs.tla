-------------------------- MODULE ProxyPartsProofs --------------------------
(***************************************************************************)
(* What the heap of backends holds, for any number of them, and what the   *)
(* proxy takes from text, for texts of any length: however the             *)
(* operator writes the groups of endpoints, it reads what was meant;       *)
(* however a stream is cut, it finds the same events; and whatever was     *)
(* generated, the message it continues shows what the client has.          *)
(***************************************************************************)
EXTENDS ProxyParts, RecursionLemmas, FiniteSetTheorems, FunctionTheorems

(***************************************************************************)
(* InstanceGroups                                                          *)
(***************************************************************************)
\* The values and the tokens of the options.
Value == Hosts \cup Ports
Tokens == [open : BOOLEAN, value : Seq(Value), close : BOOLEAN]
\* The reader between groups, and in a group of which it has read the values.
Closed(gs) == [groups |-> gs, group |-> <<>>, inside |-> FALSE, error |-> FALSE]
Opened(gs, values) == [groups |-> gs, group |-> values, inside |-> TRUE, error |-> FALSE]

\* h is the run of the reader over the tokens, which takes it from one state to
\* another.
Reading(h, from, tokens) ==
    /\ h[0] = from
    /\ \A i \in 1..Len(tokens) : h[i] = Args!Read(h[i - 1], tokens[i])
Reads(from, tokens, to) == \E h : Reading(h, from, tokens) /\ h[Len(tokens)] = to

\* The loop over the tokens ends where its steps lead,
LEMMA ReadAllReads ==
    ASSUME NEW T1, NEW tokens \in Seq(T1), NEW from, NEW to, Reads(from, tokens, to)
    PROVE  Args!ReadAll(from, tokens) = to
<1> DEFINE n == Len(tokens)
           R(f) == [i \in 0..n |-> IF i = 0 THEN from ELSE Args!Read(f[i - 1], tokens[i])]
           at == CHOOSE f : f = R(f)
<1>1. n \in Nat
  BY LenProperties
<1>2. PICK h : Reading(h, from, tokens) /\ h[n] = to
  BY DEF Reads
<1> DEFINE g == [i \in 0..n |-> h[i]]
<1> HIDE DEF n
<1>3. h[0] = from /\ \A i \in 1..n : h[i] = Args!Read(h[i - 1], tokens[i])
  BY <1>2 DEF Reading, n
<1>4. g = R(g)
  <2>1. ASSUME NEW i \in 0..n PROVE g[i] = R(g)[i]
    <3>1. CASE i = 0
      BY <1>3, <3>1
    <3>2. CASE i # 0
      <4>1. i - 1 \in 0..n /\ i \in 1..n
        BY <1>1, <3>2
      <4>2. g[i] = h[i] /\ g[i - 1] = h[i - 1]
        BY <4>1
      <4>3. QED
        BY <1>3, <3>2, <4>1, <4>2
    <3>3. QED
      BY <3>1, <3>2
  <2>2. QED
    BY <2>1
<1>5. at = R(at)
  <2> HIDE DEF g, R
  <2>1. QED
    BY <1>4
<1>6. /\ at[0] = from
      /\ \A i \in 1..n : at[i] = Args!Read(at[i - 1], tokens[i])
  <2> HIDE DEF at
  <2>1. ASSUME NEW i \in 0..n
        PROVE  at[i] = IF i = 0 THEN from ELSE Args!Read(at[i - 1], tokens[i])
    <3>1. R(at)[i] = IF i = 0 THEN from ELSE Args!Read(at[i - 1], tokens[i])
      OBVIOUS
    <3> HIDE DEF R
    <3>2. QED
      BY <1>5, <3>1
  <2>2. 0 \in 0..n /\ \A i \in 1..n : i \in 0..n /\ i # 0
    BY <1>1
  <2>3. QED
    BY <2>1, <2>2
<1>7. Args!ReadAll(from, tokens) = at[n]
  BY Zenon DEF Args!ReadAll, n
<1> HIDE DEF at
<1>8. \A i \in 0..n : at[i] = h[i]
  <2> DEFINE Bad == {i \in 0..n : at[i] # h[i]}
  <2>1. ASSUME NEW m \in Bad, \A k \in Bad : m \leq k PROVE FALSE
    <3>1. m # 0
      BY <1>3, <1>6
    <3>2. m \in 1..n /\ m - 1 \in 0..n /\ m - 1 < m
      BY <1>1, <3>1
    <3>3. at[m - 1] = h[m - 1]
      BY <2>1, <3>2
    <3>4. QED
      BY <1>3, <1>6, <3>2, <3>3
  <2>2. /\ Bad \in SUBSET Nat
        /\ Bad = {} => \A i \in 0..n : at[i] = h[i]
    <3>1. Bad \subseteq 0..n /\ 0..n \subseteq Nat
      BY <1>1
    <3>2. Bad = {} => \A i \in 0..n : at[i] = h[i]
      OBVIOUS
    <3> HIDE DEF Bad
    <3>3. QED
      BY <3>1, <3>2
  <2> HIDE DEF Bad
  <2>3. QED
    BY <2>1, <2>2, LeastOf
<1>9. QED
  BY <1>1, <1>2, <1>7, <1>8

\* reading goes on where it was left,
LEMMA ReadsMore ==
    ASSUME NEW T1, NEW t \in Seq(T1), NEW u \in Seq(T1), NEW from, NEW mid, NEW to,
           Reads(from, t, mid), Reads(mid, u, to)
    PROVE  Reads(from, t \o u, to)
<1>1. PICK a : Reading(a, from, t) /\ a[Len(t)] = mid
  BY DEF Reads
<1>2. PICK b : Reading(b, mid, u) /\ b[Len(u)] = to
  BY DEF Reads
<1>3. /\ Len(t) \in Nat /\ Len(u) \in Nat /\ Len(t \o u) = Len(t) + Len(u)
      /\ \A i \in 1..Len(t) + Len(u) :
            (t \o u)[i] = IF i \leq Len(t) THEN t[i] ELSE u[i - Len(t)]
  BY LenProperties, ConcatProperties
<1> DEFINE h == [i \in 0..Len(t) + Len(u) |-> IF i \leq Len(t) THEN a[i] ELSE b[i - Len(t)]]
<1>4. h[0] = from
  BY <1>1, <1>3 DEF Reading
<1>5. \A i \in 0..Len(u) : h[Len(t) + i] = b[i]
  <2>1. ASSUME NEW i \in 0..Len(u) PROVE h[Len(t) + i] = b[i]
    <3>1. CASE i = 0
      <4>1. Len(t) + i = Len(t) /\ Len(t) \in 0..Len(t) + Len(u)
        BY <1>3, <3>1
      <4>2. QED
        BY <1>1, <1>2, <3>1, <4>1 DEF Reading
    <3>2. CASE i # 0
      <4>1. /\ Len(t) + i \in 0..Len(t) + Len(u) /\ ~(Len(t) + i \leq Len(t))
            /\ (Len(t) + i) - Len(t) = i
        BY <1>3, <3>2
      <4>2. QED
        BY <4>1
    <3>3. QED
      BY <3>1, <3>2
  <2>2. QED
    BY <2>1
<1>6. ASSUME NEW i \in 1..Len(t) + Len(u) PROVE h[i] = Args!Read(h[i - 1], (t \o u)[i])
  <2>1. CASE i \leq Len(t)
    <3>1. i \in 1..Len(t) /\ i - 1 \in 0..Len(t) + Len(u) /\ i - 1 \leq Len(t)
      BY <1>3, <2>1
    <3>2. h[i] = a[i] /\ h[i - 1] = a[i - 1] /\ (t \o u)[i] = t[i]
      BY <1>3, <2>1, <3>1
    <3> HIDE DEF h
    <3>3. QED
      BY <1>1, <3>1, <3>2 DEF Reading
  <2>2. CASE ~(i \leq Len(t))
    <3> DEFINE j == i - Len(t)
    <3>1. /\ j \in 1..Len(u) /\ j - 1 \in 0..Len(u) /\ j \in 0..Len(u)
          /\ i = Len(t) + j /\ i - 1 = Len(t) + (j - 1)
      BY <1>3, <2>2
    <3>2. (t \o u)[i] = u[j]
      BY <1>3, <2>2
    <3> HIDE DEF h, j
    <3>3. h[i] = b[j] /\ h[i - 1] = b[j - 1]
      BY <1>5, <3>1
    <3>4. QED
      BY <1>2, <3>1, <3>2, <3>3 DEF Reading
  <2>3. QED
    BY <2>1, <2>2
<1>7. h[Len(t) + Len(u)] = to
  BY <1>2, <1>3, <1>5
<1> HIDE DEF h
<1>8. Reading(h, from, t \o u)
  BY <1>3, <1>4, <1>6 DEF Reading
<1>9. QED
  BY <1>3, <1>7, <1>8 DEF Reads

\* a token outside a group is a group of its own or opens one,
LEMMA ReadClosed ==
    ASSUME NEW gs, NEW value
    PROVE  /\ Args!Read(Closed(gs), Args!Token(FALSE, value, FALSE)) = Closed(Append(gs, value))
           /\ Args!Read(Closed(gs), Args!Token(TRUE, value, FALSE)) = Opened(gs, value)
<1>1. Args!Read(Closed(gs), Args!Token(FALSE, value, FALSE)) = Closed(Append(gs, value))
 BY DEF Args!Read, Args!Outside, Closed, Opened, Args!Token
<1>2. Args!Read(Closed(gs), Args!Token(TRUE, value, FALSE)) = Opened(gs, value)
 BY DEF Args!Read, Args!Outside, Closed, Opened, Args!Token
<1> QED BY <1>1, <1>2

\* a token in a group adds to it and may close it,
LEMMA ReadOpened ==
    ASSUME NEW gs, NEW values, NEW value
    PROVE  /\ Args!Read(Opened(gs, values), Args!Token(FALSE, value, FALSE))
                = Opened(gs, values \o value)
           /\ values \o value # <<>> =>
                Args!Read(Opened(gs, values), Args!Token(FALSE, value, TRUE))
                = Closed(Append(gs, values \o value))
<1>1. Args!Read(Opened(gs, values), Args!Token(FALSE, value, FALSE)) = Opened(gs, values \o value)
 BY DEF Args!Read, Args!Inside, Closed, Opened, Args!Token
<1>2. values \o value # <<>> => Args!Read(Opened(gs, values), Args!Token(FALSE, value, TRUE))
                = Closed(Append(gs, values \o value))
 BY DEF Args!Read, Args!Inside, Closed, Opened, Args!Token
<1> QED BY <1>1, <1>2

\* and one token is one step.
LEMMA ReadsOne ==
    ASSUME NEW from, NEW t
    PROVE  Reads(from, <<t>>, Args!Read(from, t))
<1> DEFINE h == [i \in 0..1 |-> IF i = 0 THEN from ELSE Args!Read(from, t)]
<1>1. h[0] = from /\ h[1] = Args!Read(from, t)
  OBVIOUS
<1>2. Len(<<t>>) = 1 /\ <<t>>[1] = t /\ 1..1 = {1} /\ 1 - 1 = 0
  OBVIOUS
<1> HIDE DEF h
<1>3. Reading(h, from, <<t>>)
  BY <1>1, <1>2 DEF Reading
<1>4. QED
  BY <1>1, <1>2, <1>3 DEF Reads

\* A token as a sequence.
LEMMA OneToken == ASSUME NEW t \in Tokens PROVE <<t>> \in Seq(Tokens) /\ <<t>> # <<>>
  OBVIOUS

\* A group is read as it is written, however its brackets stand.
LEMMA GroupIsRead ==
    ASSUME NEW values \in Seq(Value), values # <<>>, NEW style \in Args!Styles,
           NEW gs \in Seq(Seq(Value))
    PROVE  /\ Args!WriteGroup(values, style) \in Seq(Tokens)
           /\ Args!WriteGroup(values, style) # <<>>
           /\ Reads(Closed(gs), Args!WriteGroup(values, style), Closed(Append(gs, values)))
<1> DEFINE n == Len(values)
<1>1. /\ n \in Nat /\ n >= 1 /\ \A i \in 1..n : values[i] \in Value
      /\ \A i \in 1..n : <<values[i]>> \in Seq(Value)
  <2>1. n \in Nat /\ n # 0 /\ DOMAIN values = 1..n
    BY LenProperties, EmptySeq
  <2>2. \A i \in 1..n : values[i] \in Value
    BY <2>1, ElementOfSeq
  <2>3. \A v \in Value : <<v>> \in Seq(Value)
    OBVIOUS
  <2>4. QED
    BY <2>1, <2>2, <2>3
<1>2. ASSUME NEW open \in BOOLEAN, NEW value \in Seq(Value), NEW close \in BOOLEAN
      PROVE  Args!Token(open, value, close) \in Tokens
  BY DEF Args!Token, Tokens
<1>3. ASSUME NEW k \in 0..n
      PROVE  /\ SubSeq(values, 1, k) \in Seq(Value)
             /\ k < n => SubSeq(values, 1, k + 1) = SubSeq(values, 1, k) \o <<values[k + 1]>>
             /\ k = 0 => SubSeq(values, 1, k) = <<>>
             /\ k = n => SubSeq(values, 1, k) = values
  <2>1. SubSeq(values, 1, k) = [i \in 1..k |-> values[i]]
    BY <1>1, SubSeqProperties
  <2> QED OBVIOUS
<1>4. /\ \A v, u : Args!Read(Opened(gs, v), Args!Token(FALSE, u, FALSE)) = Opened(gs, v \o u)
      /\ \A v, u : v \o u # <<>> =>
            Args!Read(Opened(gs, v), Args!Token(FALSE, u, TRUE)) = Closed(Append(gs, v \o u))
  BY ReadOpened
<1> HIDE DEF n
<1>5. CASE n = 1
  <2>1. Args!WriteGroup(values, style) = <<Args!Token(FALSE, values, FALSE)>>
    BY <1>5 DEF Args!WriteGroup, n
  <2>2. Args!Token(FALSE, values, FALSE) \in Tokens
    BY <1>2
  <2>3. Reads(Closed(gs), <<Args!Token(FALSE, values, FALSE)>>, Closed(Append(gs, values)))
    BY ReadsOne, ReadClosed
  <2>4. /\ <<Args!Token(FALSE, values, FALSE)>> \in Seq(Tokens)
        /\ <<Args!Token(FALSE, values, FALSE)>> # <<>>
    BY <2>2, OneToken
  <2>5. QED
    BY <2>1, <2>3, <2>4
<1>6. CASE n # 1 /\ style = "tight"
  <2> DEFINE w == [i \in 1..n |-> Args!Token(i = 1, <<values[i]>>, i = n)]
             h == [i \in 0..n |-> IF i = 0 THEN Closed(gs)
                                  ELSE IF i = n THEN Closed(Append(gs, values))
                                  ELSE Opened(gs, SubSeq(values, 1, i))]
  <2>1. Args!WriteGroup(values, style) = w
    BY <1>6 DEF Args!WriteGroup, n
  <2>2. \A i \in 1..n : w[i] = Args!Token(i = 1, <<values[i]>>, i = n) /\ w[i] \in Tokens
    BY <1>1, <1>2
  <2>3. w \in Seq(Tokens) /\ Len(w) = n
    <3>1. w \in [1..n -> Tokens]
      BY <2>2
    <3> HIDE DEF w
    <3>2. QED
      BY <1>1, <3>1
  <2> HIDE DEF w
  <2>4. h[0] = Closed(gs) /\ h[n] = Closed(Append(gs, values))
    BY <1>1
  <2>5. ASSUME NEW i \in 1..n PROVE h[i] = Args!Read(h[i - 1], w[i])
    <3>1. CASE i = 1
      <4>1. SubSeq(values, 1, 1) = <<values[1]>>
        <5>1. 0 \in 0..n /\ 0 < n /\ 0 + 1 = 1
          BY <1>1
        <5>2. SubSeq(values, 1, 1) = <<>> \o <<values[1]>>
          BY <1>3, <5>1
        <5>3. QED
          BY <5>2
      <4>2. h[i] = Opened(gs, SubSeq(values, 1, 1)) /\ h[i - 1] = Closed(gs)
        BY <1>1, <1>6, <3>1
      <4>3. w[i] = Args!Token(TRUE, <<values[1]>>, FALSE)
        <5>1. (i = 1) = TRUE /\ (i = n) = FALSE
          BY <1>6, <3>1
        <5>2. QED
          BY <2>2, <3>1, <5>1, Zenon
      <4> HIDE DEF h
      <4>4. QED
        BY <4>1, <4>2, <4>3, ReadClosed
    <3>2. CASE i # 1
      <4>1. i - 1 \in 0..n /\ i - 1 < n /\ (i - 1) + 1 = i /\ i - 1 # 0 /\ i - 1 # n
        BY <1>1, <3>2
      <4>2. h[i - 1] = Opened(gs, SubSeq(values, 1, i - 1))
        BY <4>1
      <4>3. SubSeq(values, 1, i) = SubSeq(values, 1, i - 1) \o <<values[i]>>
        BY <1>3, <4>1
      <4>4. CASE i # n
        <5>1. h[i] = Opened(gs, SubSeq(values, 1, i))
          BY <1>1, <4>4
        <5>2. w[i] = Args!Token(FALSE, <<values[i]>>, FALSE)
          <6>1. (i = 1) = FALSE /\ (i = n) = FALSE
            BY <3>2, <4>4
          <6>2. QED
            BY <2>2, <6>1, Zenon
        <5> HIDE DEF h
        <5>3. QED
          BY <4>2, <4>3, <5>1, <5>2, <1>4
      <4>5. CASE i = n
        <5>1. h[i] = Closed(Append(gs, values))
          BY <1>1, <4>5
        <5>2. w[i] = Args!Token(FALSE, <<values[i]>>, TRUE)
          <6>1. (i = 1) = FALSE /\ (i = n) = TRUE
            BY <3>2, <4>5
          <6>2. QED
            BY <2>2, <6>1, Zenon
        <5>3. values = SubSeq(values, 1, i - 1) \o <<values[i]>>
          <6>1. n \in 0..n
            BY <1>1
          <6>2. QED
            BY <1>3, <4>3, <4>5, <6>1
        <5> HIDE DEF h
        <5>4. QED
          <6>1. values # <<>>
            OBVIOUS
          <6>2. QED
            BY <4>2, <5>1, <5>2, <5>3, <6>1, <1>4
      <4>6. QED
        BY <4>4, <4>5
    <3>3. QED
      BY <3>1, <3>2
  <2> HIDE DEF h
  <2>6. Reads(Closed(gs), w, Closed(Append(gs, values)))
    BY <2>3, <2>4, <2>5 DEF Reads, Reading
  <2>7. w # <<>>
    BY <1>1, <2>3
  <2>8. QED
    BY <2>1, <2>3, <2>6, <2>7
<1>7. CASE n # 1 /\ style # "tight"
  <2> DEFINE open == <<Args!Token(TRUE, <<>>, FALSE)>>
             body == [i \in 1..n |-> Args!Token(FALSE, <<values[i]>>, FALSE)]
             close == <<Args!Token(FALSE, <<>>, TRUE)>>
             h == [i \in 0..n |-> Opened(gs, SubSeq(values, 1, i))]
  <2>1. Args!WriteGroup(values, style) = (open \o body) \o close
    BY <1>7 DEF Args!WriteGroup, n
  <2>2. open \in Seq(Tokens) /\ close \in Seq(Tokens) /\ close # <<>>
    <3>1. <<>> \in Seq(Value)
      OBVIOUS
    <3>2. Args!Token(TRUE, <<>>, FALSE) \in Tokens /\ Args!Token(FALSE, <<>>, TRUE) \in Tokens
      BY <1>2, <3>1
    <3>3. QED
      BY <3>2, OneToken
  <2>3. Reads(Closed(gs), open, Opened(gs, <<>>))
    BY ReadsOne, ReadClosed
  <2>4. /\ body \in Seq(Tokens) /\ Len(body) = n
        /\ \A i \in 1..n : body[i] = Args!Token(FALSE, <<values[i]>>, FALSE)
    <3>1. body \in [1..n -> Tokens]
      BY <1>1, <1>2
    <3>2. \A i \in 1..n : body[i] = Args!Token(FALSE, <<values[i]>>, FALSE)
      OBVIOUS
    <3> HIDE DEF body
    <3>3. body \in Seq(Tokens) /\ Len(body) = n
      BY <1>1, <3>1
    <3>4. QED
      BY <3>2, <3>3
  <2>5. Reads(Opened(gs, <<>>), body, Opened(gs, values))
    <3> HIDE DEF body
    <3>1. h[0] = Opened(gs, <<>>) /\ h[n] = Opened(gs, values)
      <4>1. 0 \in 0..n /\ n \in 0..n
        BY <1>1
      <4>2. h[0] = Opened(gs, SubSeq(values, 1, 0)) /\ h[n] = Opened(gs, SubSeq(values, 1, n))
        BY <4>1
      <4> HIDE DEF h
      <4>3. QED
        BY <1>3, <4>1, <4>2
    <3>2. ASSUME NEW i \in 1..n PROVE h[i] = Args!Read(h[i - 1], body[i])
      <4>1. i - 1 \in 0..n /\ i - 1 < n /\ (i - 1) + 1 = i /\ i \in 0..n
        BY <1>1
      <4>2. /\ h[i - 1] = Opened(gs, SubSeq(values, 1, i - 1))
            /\ h[i] = Opened(gs, SubSeq(values, 1, i))
        BY <4>1
      <4>3. SubSeq(values, 1, i) = SubSeq(values, 1, i - 1) \o <<values[i]>>
        BY <1>3, <4>1
      <4> HIDE DEF h
      <4>4. QED
        <5>1. body[i] = Args!Token(FALSE, <<values[i]>>, FALSE)
          BY <2>4
        <5>2. QED
          BY <4>2, <4>3, <5>1, <1>4
    <3> HIDE DEF h
    <3>3. QED
      BY <2>4, <3>1, <3>2 DEF Reads, Reading
  <2>6. Reads(Opened(gs, values), close, Closed(Append(gs, values)))
    <3>1. values \o <<>> = values
      OBVIOUS
    <3>2. Args!Read(Opened(gs, values), Args!Token(FALSE, <<>>, TRUE)) = Closed(Append(gs, values))
      BY <3>1, <1>4
    <3>3. QED
      BY <3>2, ReadsOne, Zenon
  <2> HIDE DEF open, body, close
  <2>7. open \o body \in Seq(Tokens)
    BY <2>2, <2>4, ConcatProperties
  <2>8. (open \o body) \o close \in Seq(Tokens)
    BY <2>2, <2>7, ConcatProperties
  <2>9. (open \o body) \o close # <<>>
    <3>1. Len((open \o body) \o close) = Len(open \o body) + Len(close)
      BY <2>2, <2>7, ConcatProperties
    <3>2. Len(open \o body) \in Nat /\ Len(close) \in Nat /\ Len(close) # 0 /\ Len(<<>>) = 0
      BY <2>2, <2>7, LenProperties, EmptySeq
    <3>3. QED
      BY <3>1, <3>2
  <2>10. Reads(Closed(gs), open \o body, Opened(gs, values))
    BY <2>2, <2>3, <2>4, <2>5, ReadsMore
  <2>11. Reads(Closed(gs), (open \o body) \o close, Closed(Append(gs, values)))
    BY <2>2, <2>6, <2>7, <2>10, ReadsMore
  <2>12. QED
    BY <2>1, <2>8, <2>9, <2>11
<1>8. QED
  BY <1>5, <1>6, <1>7

\* What is written for one field of the endpoints of the groups.
Values(gs, field, g) == [i \in DOMAIN gs[g] |-> gs[g][i][field]]

\* Some groups, of endpoints that can be written.
Written(gs) == /\ gs \in Seq(Seq(Hosts \X Ports)) /\ gs # <<>>
               /\ \A g \in 1..Len(gs) : gs[g] # <<>>

\* The hosts, or the ports, of a group are as many as its endpoints.
LEMMA ValuesAreSequences ==
    ASSUME NEW gs, Written(gs), NEW field \in {1, 2}, NEW g \in 1..Len(gs)
    PROVE  /\ Values(gs, field, g) \in Seq(Value) /\ Values(gs, field, g) # <<>>
           /\ Len(Values(gs, field, g)) = Len(gs[g])
           /\ \A i \in 1..Len(gs[g]) : Values(gs, field, g)[i] = gs[g][i][field]
<1>1. gs[g] \in Seq(Hosts \X Ports) /\ gs[g] # <<>>
  BY ElementOfSeq DEF Written
<1>2. /\ Len(gs[g]) \in Nat /\ Len(gs[g]) # 0 /\ DOMAIN gs[g] = 1..Len(gs[g])
      /\ \A i \in 1..Len(gs[g]) : gs[g][i] \in Hosts \X Ports
  BY <1>1, LenProperties, EmptySeq, ElementOfSeq
<1>3. \A i \in 1..Len(gs[g]) : gs[g][i][field] \in Value
  <2>1. \A e \in Hosts \X Ports : e[field] \in Value
    BY DEF Value
  <2>2. QED
    BY <1>2, <2>1
<1>4. Values(gs, field, g) = [i \in 1..Len(gs[g]) |-> gs[g][i][field]]
  BY <1>2 DEF Values
<1>5. Values(gs, field, g) \in Seq(Value) /\ Len(Values(gs, field, g)) = Len(gs[g])
  BY <1>2, <1>3, <1>4
<1>6. Values(gs, field, g) # <<>>
  BY <1>2, <1>5, EmptySeq
<1>7. QED
  BY <1>4, <1>5, <1>6

\* The tokens of the first i groups.
Parts(gs, field, style) ==
    {w \in [0..Len(gs) -> Seq(Tokens)] :
       /\ w[0] = <<>>
       /\ \A g \in 1..Len(gs) : w[g] = w[g - 1] \o Args!WriteGroup(Values(gs, field, g), style)}

\* The operator's argument is the groups' parts, one behind the other.
LEMMA WriteJoinsParts ==
    ASSUME NEW gs, Written(gs), NEW field \in {1, 2}, NEW style \in Args!Styles
    PROVE  \E w \in Parts(gs, field, style) : Args!Write(gs, field, style) = w[Len(gs)]
<1> DEFINE n == Len(gs)
           next == [p \in (1..n) \X Seq(Tokens) |->
                        p[2] \o Args!WriteGroup(Values(gs, field, p[1]), style)]
           R(f) == [g \in 0..n |-> IF g = 0 THEN <<>>
                        ELSE f[g - 1] \o Args!WriteGroup(Values(gs, field, g), style)]
           at == CHOOSE f : f = R(f)
<1>1. n \in Nat /\ <<>> \in Seq(Tokens)
  BY LenProperties DEF Written
<1>2. ASSUME NEW g \in 1..n PROVE Args!WriteGroup(Values(gs, field, g), style) \in Seq(Tokens)
  <2>1. <<>> \in Seq(Seq(Value))
    OBVIOUS
  <2>2. Values(gs, field, g) \in Seq(Value) /\ Values(gs, field, g) # <<>>
    BY ValuesAreSequences
  <2>3. QED
    BY <2>1, <2>2, GroupIsRead
<1>3. next \in [(1..n) \X Seq(Tokens) -> Seq(Tokens)]
  BY <1>2, ConcatProperties
<1> HIDE DEF n
<1>4. PICK w : w \in Solutions(Seq(Tokens), n, <<>>, next)
  <2> HIDE DEF next
  <2>1. Solutions(Seq(Tokens), n, <<>>, next) # {}
    BY <1>1, <1>3, Recursion
  <2>2. QED
    BY <2>1
<1>5. /\ w \in [0..n -> Seq(Tokens)] /\ w[0] = <<>>
      /\ \A g \in 1..n : w[g] = w[g - 1] \o Args!WriteGroup(Values(gs, field, g), style)
  <2>1. w \in [0..n -> Seq(Tokens)] /\ w[0] = <<>>
    BY <1>4 DEF Solutions
  <2>2. ASSUME NEW g \in 1..n
        PROVE  w[g] = w[g - 1] \o Args!WriteGroup(Values(gs, field, g), style)
    <3>1. g - 1 \in 0..n
      BY <1>1
    <3>2. <<g, w[g - 1]>> \in (1..n) \X Seq(Tokens)
      BY <2>1, <3>1
    <3>3. w[g] = next[<<g, w[g - 1]>>]
      BY <1>4 DEF Solutions
    <3>4. QED
      BY <3>2, <3>3
  <2>3. QED
    BY <2>1, <2>2
<1> HIDE DEF next
<1>6. w = R(w)
  <2>1. ASSUME NEW g \in 0..n PROVE w[g] = R(w)[g]
    <3>1. CASE g = 0
      BY <1>5, <3>1
    <3>2. CASE g # 0
      <4>1. g \in 1..n
        BY <1>1, <3>2
      <4>2. QED
        BY <1>5, <3>2, <4>1
    <3>3. QED
      BY <3>1, <3>2
  <2>2. w = [g \in 0..n |-> w[g]]
    BY <1>5
  <2>3. QED
    BY <2>1, <2>2
<1>7. at = R(at)
  <2> HIDE DEF R
  <2>1. QED
    BY <1>6
<1>8. /\ at[0] = <<>>
      /\ \A g \in 1..n : at[g] = at[g - 1] \o Args!WriteGroup(Values(gs, field, g), style)
  <2> HIDE DEF at
  <2>1. ASSUME NEW g \in 0..n
        PROVE  at[g] = IF g = 0 THEN <<>>
                       ELSE at[g - 1] \o Args!WriteGroup(Values(gs, field, g), style)
    <3>1. R(at)[g] = IF g = 0 THEN <<>>
                     ELSE at[g - 1] \o Args!WriteGroup(Values(gs, field, g), style)
      OBVIOUS
    <3> HIDE DEF R
    <3>2. QED
      BY <1>7, <3>1
  <2>2. 0 \in 0..n /\ \A g \in 1..n : g \in 0..n /\ g # 0
    BY <1>1
  <2>3. QED
    BY <2>1, <2>2
<1>9. Args!Write(gs, field, style) = at[n]
  BY Zenon DEF Args!Write, Values, n
<1> HIDE DEF at
<1>10. \A g \in 0..n : at[g] = w[g]
  <2> DEFINE Bad == {g \in 0..n : at[g] # w[g]}
  <2>1. ASSUME NEW m \in Bad, \A k \in Bad : m \leq k PROVE FALSE
    <3>1. m # 0
      BY <1>5, <1>8
    <3>2. m \in 1..n /\ m - 1 \in 0..n /\ m - 1 < m
      BY <1>1, <3>1
    <3>3. at[m - 1] = w[m - 1]
      BY <2>1, <3>2
    <3>4. QED
      BY <1>5, <1>8, <3>2, <3>3
  <2>2. /\ Bad \in SUBSET Nat
        /\ Bad = {} => \A g \in 0..n : at[g] = w[g]
    <3>1. Bad \subseteq 0..n /\ 0..n \subseteq Nat
      BY <1>1
    <3>2. Bad = {} => \A g \in 0..n : at[g] = w[g]
      OBVIOUS
    <3> HIDE DEF Bad
    <3>3. QED
      BY <3>1, <3>2
  <2> HIDE DEF Bad
  <2>3. QED
    BY <2>1, <2>2, LeastOf
<1>11. w \in Parts(gs, field, style)
  BY <1>5 DEF Parts, n
<1>12. QED
  BY <1>1, <1>9, <1>10, <1>11 DEF n

\* The reader finds the values that were written, and nothing else.
LEMMA WrittenIsRead ==
    ASSUME NEW gs, Written(gs), NEW field \in {1, 2}, NEW style \in Args!Styles
    PROVE  Args!Parse(Args!Write(gs, field, style)) =
             [refused |-> FALSE, groups |-> [g \in 1..Len(gs) |-> Values(gs, field, g)]]
<1> DEFINE n == Len(gs)
           values(i) == [g \in 1..i |-> Values(gs, field, g)]
<1>1. n \in Nat /\ n # 0
  BY LenProperties, EmptySeq DEF Written
<1>2. PICK w \in Parts(gs, field, style) : Args!Write(gs, field, style) = w[n]
  BY WriteJoinsParts
<1> HIDE DEF n
<1>3. /\ w \in [0..n -> Seq(Tokens)] /\ w[0] = <<>>
      /\ \A g \in 1..n : w[g] = w[g - 1] \o Args!WriteGroup(Values(gs, field, g), style)
  BY <1>2 DEF Parts, n
<1>4. ASSUME NEW g \in 1..n
      PROVE  /\ Values(gs, field, g) \in Seq(Value) /\ Values(gs, field, g) # <<>>
  BY ValuesAreSequences DEF n
<1>5. ASSUME NEW i \in 0..n PROVE values(i) \in Seq(Seq(Value)) /\ Len(values(i)) = i
  <2>1. values(i) \in [1..i -> Seq(Value)]
    BY <1>1, <1>4
  <2> HIDE DEF values
  <2>2. QED
    BY <1>1, <2>1
<1>6. ASSUME NEW i \in 1..n PROVE values(i) = Append(values(i - 1), Values(gs, field, i))
  <2>1. i - 1 \in 0..n /\ i \in 0..n
    BY <1>1
  <2>2. /\ values(i - 1) \in Seq(Seq(Value)) /\ Len(values(i - 1)) = i - 1
        /\ values(i) \in Seq(Seq(Value)) /\ Len(values(i)) = i
    BY <1>5, <2>1
  <2>3. \A g \in 1..i : values(i)[g] = Values(gs, field, g)
    OBVIOUS
  <2>4. \A g \in 1..i - 1 : values(i - 1)[g] = Values(gs, field, g)
    OBVIOUS
  <2> HIDE DEF values
  <2> DEFINE more == Append(values(i - 1), Values(gs, field, i))
  <2>5. more \in Seq(Seq(Value)) /\ Len(more) = i
    BY <1>4, <2>1, <2>2, AppendProperties
  <2>6. ASSUME NEW g \in 1..i PROVE more[g] = values(i)[g]
    BY <1>4, <2>1, <2>2, <2>3, <2>4, AppendProperties
  <2> HIDE DEF more
  <2>7. values(i) = more
    BY <2>2, <2>5, <2>6, SeqEqual
  <2>8. QED
    BY <2>7 DEF more
<1>7. \A i \in 0..n : Reads(Closed(<<>>), w[i], Closed(values(i))) /\ (i # 0 => w[i] # <<>>)
  <2> DEFINE Good(i) == Reads(Closed(<<>>), w[i], Closed(values(i))) /\ (i # 0 => w[i] # <<>>)
             Bad == {i \in 0..n : ~Good(i)}
  <2>1. ASSUME NEW m \in Bad, \A k \in Bad : m \leq k PROVE FALSE
    <3>1. CASE m = 0
      <4>1. values(0) = <<>>
        OBVIOUS
      <4> HIDE DEF values
      <4> DEFINE h == [i \in 0..0 |-> Closed(<<>>)]
      <4>2. h[0] = Closed(<<>>) /\ Len(<<>>) = 0 /\ 1..0 = {}
        OBVIOUS
      <4> HIDE DEF h
      <4>3. Reads(Closed(<<>>), <<>>, Closed(<<>>))
        BY <4>2 DEF Reads, Reading
      <4>4. QED
        BY <1>3, <3>1, <4>1, <4>3
    <3>2. CASE m # 0
      <4>1. m \in 1..n /\ m - 1 \in 0..n /\ m - 1 < m
        BY <1>1, <3>2
      <4>2. Good(m - 1)
        BY <2>1, <4>1
      <4> DEFINE part == Args!WriteGroup(Values(gs, field, m), style)
      <4>3. values(m - 1) \in Seq(Seq(Value))
        BY <1>5, <4>1
      <4>4. values(m) = Append(values(m - 1), Values(gs, field, m))
        BY <1>6, <4>1
      <4> HIDE DEF values
      <4>5. /\ part \in Seq(Tokens) /\ part # <<>>
            /\ Reads(Closed(values(m - 1)), part, Closed(values(m)))
        BY <1>4, <4>1, <4>3, <4>4, GroupIsRead
      <4>6. w[m] = w[m - 1] \o part /\ w[m - 1] \in Seq(Tokens)
        BY <1>3, <4>1
      <4> HIDE DEF part
      <4>7. Reads(Closed(<<>>), w[m], Closed(values(m)))
        BY <4>2, <4>5, <4>6, ReadsMore
      <4>8. w[m] # <<>>
        <5>1. Len(w[m]) = Len(w[m - 1]) + Len(part)
          BY <4>5, <4>6, ConcatProperties
        <5>2. Len(w[m - 1]) \in Nat /\ Len(part) \in Nat /\ Len(part) # 0 /\ Len(<<>>) = 0
          BY <4>5, <4>6, LenProperties, EmptySeq
        <5>3. QED
          BY <5>1, <5>2
      <4>9. QED
        BY <4>7, <4>8
    <3>3. QED
      BY <3>1, <3>2
  <2>2. /\ Bad \in SUBSET Nat
        /\ Bad = {} => \A i \in 0..n : Good(i)
    <3>1. Bad \subseteq 0..n /\ 0..n \subseteq Nat
      BY <1>1
    <3>2. Bad = {} => \A i \in 0..n : Good(i)
      OBVIOUS
    <3> HIDE DEF Bad
    <3>3. QED
      BY <3>1, <3>2
  <2>3. Bad = {}
    <3> HIDE DEF Bad
    <3>1. QED
      BY <2>1, <2>2, LeastOf
  <2> HIDE DEF Bad
  <2>4. QED
    BY <2>2, <2>3
<1> HIDE DEF values
<1>8. /\ Reads(Closed(<<>>), w[n], Closed(values(n))) /\ w[n] # <<>>
      /\ w[n] \in Seq(Tokens)
  <2>1. n \in 0..n
    BY <1>1
  <2>2. QED
    BY <1>1, <1>3, <1>7, <2>1
<1>9. Args!ReadAll(Closed(<<>>), w[n]) = Closed(values(n))
  BY <1>8, ReadAllReads
<1>10. [groups |-> <<>>, group |-> <<>>, inside |-> FALSE, error |-> w[n] = <<>>]
          = Closed(<<>>)
  BY <1>8 DEF Closed
<1>11. Args!Parse(w[n]) = [refused |-> FALSE, groups |-> values(n)]
  <2> DEFINE end == Args!ReadAll(Closed(<<>>), w[n])
  <2>1. Args!Parse(w[n]) = [refused |-> end.error \/ end.inside, groups |-> end.groups]
    BY <1>10, Zenon DEF Args!Parse
  <2>2. end.error = FALSE /\ end.inside = FALSE /\ end.groups = values(n)
    BY <1>9 DEF Closed
  <2> HIDE DEF end
  <2>3. QED
    BY <2>1, <2>2
<1>12. QED
  BY <1>2, <1>11 DEF values, n

\* Two endpoints are the same one if their hosts are, 0.0.0.0 being localhost.
LEMMA SameEndpoint ==
    ASSUME NEW e \in Hosts \X Ports, NEW f \in Hosts \X Ports
    PROVE  Args!Normal(e) = Args!Normal(f) <=>
             /\ e[2] = f[2]
             /\ e[1] = f[1] \/ {e[1], f[1]} = {Zero, Local}
<1>1. Args!Normal(e) = Args!Normal(f) <=>
        /\ e[2] = f[2]
        /\ (IF e[1] = Local THEN Zero ELSE e[1]) = (IF f[1] = Local THEN Zero ELSE f[1])
  BY DEF Args!Normal
<1>2. \A a, b : (IF a = Local THEN Zero ELSE a) = (IF b = Local THEN Zero ELSE b)
                  <=> a = b \/ {a, b} = {Zero, Local}
  OBVIOUS
<1>3. QED
  BY <1>1, <1>2

\* Two places of groups have the same endpoint.
Twice(gs) == \E g, k \in DOMAIN gs : \E i \in DOMAIN gs[g], j \in DOMAIN gs[k] :
                <<g, i>> # <<k, j>> /\ Args!Normal(gs[g][i]) = Args!Normal(gs[k][j])

\* The proxy builds what was written, or refuses it.
LEMMA WrittenIsBuilt ==
    ASSUME Written(written.groups), written.hosts \in Args!Styles, written.ports \in Args!Styles
    PROVE  LET built == Args!Build(Args!Write(written.groups, 1, written.hosts),
                              Args!Write(written.groups, 2, written.ports))
           IN  built.refused = ~Args!Sound /\ (Args!Sound => built.groups = written.groups)
<1> DEFINE gs == written.groups
           n == Len(gs)
           hosts == Args!Write(gs, 1, written.hosts)
           ports == Args!Write(gs, 2, written.ports)
           h == Args!Parse(hosts)
           p == Args!Parse(ports)
           pairs == [g \in DOMAIN h.groups |->
                       [i \in DOMAIN h.groups[g] |-> <<h.groups[g][i], p.groups[g][i]>>]]
           bad == \E g \in DOMAIN p.groups : \E i \in DOMAIN p.groups[g] :
                      p.groups[g][i] \in BadPorts
           twice == Twice(pairs)
           refused == \/ h.refused \/ p.refused
                      \/ Len(h.groups) # Len(p.groups)
                      \/ \E g \in DOMAIN h.groups : Len(h.groups[g]) # Len(p.groups[g])
                      \/ bad \/ twice
<1>1. Args!Build(hosts, ports) = [refused |-> refused, groups |-> IF refused THEN <<>> ELSE pairs]
  BY Zenon DEF Args!Build, Twice
<1>2. /\ n \in Nat /\ DOMAIN gs = 1..n /\ gs = [g \in 1..n |-> gs[g]]
      /\ \A g \in 1..n : /\ gs[g] \in Seq(Hosts \X Ports) /\ Len(gs[g]) \in Nat
                         /\ DOMAIN gs[g] = 1..Len(gs[g])
                         /\ gs[g] = [i \in 1..Len(gs[g]) |-> gs[g][i]]
                         /\ \A i \in 1..Len(gs[g]) : gs[g][i] \in Hosts \X Ports
  <2>1. gs \in Seq(Seq(Hosts \X Ports))
    BY DEF Written
  <2>2. n \in Nat /\ DOMAIN gs = 1..n /\ gs = [g \in 1..n |-> gs[g]]
    BY <2>1, LenProperties
  <2>3. ASSUME NEW g \in 1..n
        PROVE  /\ gs[g] \in Seq(Hosts \X Ports) /\ Len(gs[g]) \in Nat
               /\ DOMAIN gs[g] = 1..Len(gs[g])
               /\ gs[g] = [i \in 1..Len(gs[g]) |-> gs[g][i]]
               /\ \A i \in 1..Len(gs[g]) : gs[g][i] \in Hosts \X Ports
    <3>1. gs[g] \in Seq(Hosts \X Ports)
      BY <2>1, ElementOfSeq
    <3>2. QED
      BY <3>1, LenProperties, ElementOfSeq
  <2>4. QED
    BY <2>2, <2>3
<1>3. /\ h = [refused |-> FALSE, groups |-> [g \in 1..n |-> Values(gs, 1, g)]]
      /\ p = [refused |-> FALSE, groups |-> [g \in 1..n |-> Values(gs, 2, g)]]
  BY WrittenIsRead
<1>4. \A g \in 1..n :
        /\ Values(gs, 1, g) \in Seq(Value) /\ Values(gs, 2, g) \in Seq(Value)
        /\ Len(Values(gs, 1, g)) = Len(gs[g]) /\ Len(Values(gs, 2, g)) = Len(gs[g])
        /\ \A i \in 1..Len(gs[g]) : /\ Values(gs, 1, g)[i] = gs[g][i][1]
                                    /\ Values(gs, 2, g)[i] = gs[g][i][2]
  BY ValuesAreSequences
<1> HIDE DEF h, p, hosts, ports
<1>5. /\ h.refused = FALSE /\ p.refused = FALSE
      /\ DOMAIN h.groups = 1..n /\ DOMAIN p.groups = 1..n
      /\ \A g \in 1..n : h.groups[g] = Values(gs, 1, g) /\ p.groups[g] = Values(gs, 2, g)
  BY <1>3
<1>6. Len(h.groups) = n /\ Len(p.groups) = n
  BY <1>2, <1>3
<1> HIDE DEF n, gs
<1>7. \A g \in 1..n : /\ DOMAIN h.groups[g] = 1..Len(gs[g]) /\ DOMAIN p.groups[g] = 1..Len(gs[g])
                      /\ Len(h.groups[g]) = Len(p.groups[g])
                      /\ \A i \in 1..Len(gs[g]) : /\ h.groups[g][i] = gs[g][i][1]
                                                  /\ p.groups[g][i] = gs[g][i][2]
  <2>1. ASSUME NEW g \in 1..n
        PROVE  /\ DOMAIN h.groups[g] = 1..Len(gs[g]) /\ DOMAIN p.groups[g] = 1..Len(gs[g])
               /\ Len(h.groups[g]) = Len(p.groups[g])
    BY <1>4, <1>5, LenProperties
  <2>2. QED
    BY <1>4, <1>5, <2>1
<1>8. pairs = gs
  <2>1. ASSUME NEW g \in 1..n PROVE pairs[g] = gs[g]
    <3>1. pairs[g] = [i \in 1..Len(gs[g]) |-> <<h.groups[g][i], p.groups[g][i]>>]
      BY <1>5, <1>7
    <3>2. \A i \in 1..Len(gs[g]) : <<h.groups[g][i], p.groups[g][i]>> = gs[g][i]
      <4>1. ASSUME NEW i \in 1..Len(gs[g])
            PROVE  <<h.groups[g][i], p.groups[g][i]>> = gs[g][i]
        <5>1. gs[g][i] \in Hosts \X Ports
          BY <1>2
        <5>2. gs[g][i] = <<gs[g][i][1], gs[g][i][2]>>
          BY <5>1
        <5>3. QED
          BY <1>7, <5>2
      <4>2. QED
        BY <4>1
    <3>3. QED
      BY <1>2, <3>1, <3>2
  <2>2. pairs = [g \in 1..n |-> pairs[g]]
    BY <1>5
  <2> HIDE DEF pairs
  <2>3. QED
    BY <1>2, <2>1, <2>2
<1>9. /\ \A a : a \in Args!Places <=> \E g \in 1..n : \E i \in 1..Len(gs[g]) : a = <<g, i>>
      /\ \A g \in 1..n : \A i \in 1..Len(gs[g]) : Args!At(<<g, i>>) = gs[g][i]
  <2>1. ASSUME NEW a
        PROVE  a \in Args!Places <=> \E g \in DOMAIN gs : \E i \in DOMAIN gs[g] : a = <<g, i>>
    BY DEF Args!Places, gs
  <2>2. ASSUME NEW g \in 1..n, NEW i \in 1..Len(gs[g]) PROVE Args!At(<<g, i>>) = gs[g][i]
    BY DEF Args!At, gs
  <2>3. QED
    BY <1>2, <2>1, <2>2
<1>10. bad <=> \E a \in Args!Places : Args!At(a)[2] \in BadPorts
  <2>1. bad <=> \E g \in 1..n : \E i \in 1..Len(gs[g]) : gs[g][i][2] \in BadPorts
    <3>1. ASSUME NEW g \in 1..n
          PROVE  /\ DOMAIN p.groups[g] = 1..Len(gs[g])
                 /\ \A i \in 1..Len(gs[g]) : p.groups[g][i] = gs[g][i][2]
      BY <1>7
    <3>2. DOMAIN p.groups = 1..n
      BY <1>5
    <3> DEFINE gp == p.groups
    <3>3. \A g \in DOMAIN gp : /\ DOMAIN gp[g] = 1..Len(gs[g])
                              /\ \A i \in DOMAIN gp[g] : gp[g][i] = gs[g][i][2]
      BY <3>1, <3>2
    <3>4. bad <=> \E g \in DOMAIN gp : \E i \in DOMAIN gp[g] : gp[g][i] \in BadPorts
      OBVIOUS
    <3>5. DOMAIN gp = 1..n
      BY <3>2
    <3> HIDE DEF gp, bad
    <3>6. QED
      BY <3>3, <3>4, <3>5
  <2> HIDE DEF bad
  <2>2. ASSUME bad PROVE \E a \in Args!Places : Args!At(a)[2] \in BadPorts
    <3>1. PICK g \in 1..n : \E i \in 1..Len(gs[g]) : gs[g][i][2] \in BadPorts
      BY <2>1, <2>2
    <3>2. PICK i \in 1..Len(gs[g]) : gs[g][i][2] \in BadPorts
      BY <3>1
    <3>3. QED
      BY <1>9, <3>2
  <2>3. ASSUME NEW a \in Args!Places, Args!At(a)[2] \in BadPorts PROVE bad
    <3>1. PICK g \in 1..n : \E i \in 1..Len(gs[g]) : a = <<g, i>>
      BY <1>9
    <3>2. QED
      BY <1>9, <2>1, <2>3, <3>1
  <2>4. QED
    BY <2>2, <2>3
<1>11. twice <=> \E a, b \in Args!Places :
                   a # b /\ Args!Normal(Args!At(a)) = Args!Normal(Args!At(b))
  <2>1. twice <=> \E g, k \in 1..n : \E i \in 1..Len(gs[g]), j \in 1..Len(gs[k]) :
                     <<g, i>> # <<k, j>> /\ Args!Normal(gs[g][i]) = Args!Normal(gs[k][j])
    <3>1. twice <=> \E g, k \in DOMAIN gs : \E i \in DOMAIN gs[g], j \in DOMAIN gs[k] :
                       <<g, i>> # <<k, j>> /\ Args!Normal(gs[g][i]) = Args!Normal(gs[k][j])
      <4> HIDE DEF pairs
      <4>1. QED
        BY <1>8 DEF Twice
    <3> HIDE DEF twice
    <3>2. DOMAIN gs = 1..n /\ \A g \in 1..n : DOMAIN gs[g] = 1..Len(gs[g])
      BY <1>2
    <3>3. QED
      BY <3>1, <3>2, Zenon
  <2> HIDE DEF twice
  <2>2. ASSUME twice
        PROVE  \E a, b \in Args!Places :
                 a # b /\ Args!Normal(Args!At(a)) = Args!Normal(Args!At(b))
    <3>1. PICK g \in 1..n, k \in 1..n : \E i \in 1..Len(gs[g]), j \in 1..Len(gs[k]) :
                 <<g, i>> # <<k, j>> /\ Args!Normal(gs[g][i]) = Args!Normal(gs[k][j])
      BY <2>1, <2>2
    <3>2. PICK i \in 1..Len(gs[g]), j \in 1..Len(gs[k]) :
                 <<g, i>> # <<k, j>> /\ Args!Normal(gs[g][i]) = Args!Normal(gs[k][j])
      BY <3>1
    <3>3. <<g, i>> \in Args!Places /\ <<k, j>> \in Args!Places
      BY <1>9
    <3>4. QED
      BY <1>9, <3>2, <3>3
  <2>3. ASSUME NEW a \in Args!Places, NEW b \in Args!Places, a # b,
               Args!Normal(Args!At(a)) = Args!Normal(Args!At(b))
        PROVE  twice
    <3>1. PICK g \in 1..n : \E i \in 1..Len(gs[g]) : a = <<g, i>>
      BY <1>9
    <3>2. PICK i \in 1..Len(gs[g]) : a = <<g, i>>
      BY <3>1
    <3>3. PICK k \in 1..n : \E j \in 1..Len(gs[k]) : b = <<k, j>>
      BY <1>9
    <3>4. PICK j \in 1..Len(gs[k]) : b = <<k, j>>
      BY <3>3
    <3>5. Args!At(a) = gs[g][i] /\ Args!At(b) = gs[k][j]
      BY <1>9, <3>2, <3>4
    <3>6. QED
      BY <2>1, <2>3, <3>2, <3>4, <3>5
  <2>4. QED
    BY <2>2, <2>3
<1>12. \A a, b \in Args!Places :
          Args!Normal(Args!At(a)) = Args!Normal(Args!At(b))
            <=> /\ Args!At(a)[2] = Args!At(b)[2]
                /\ Args!At(a)[1] = Args!At(b)[1] \/ {Args!At(a)[1], Args!At(b)[1]} = {Zero, Local}
  <2>1. \A a \in Args!Places : Args!At(a) \in Hosts \X Ports
    BY <1>2, <1>9
  <2>2. QED
    BY <2>1, SameEndpoint
<1>13. refused <=> bad \/ twice
  BY <1>5, <1>6, <1>7
<1> HIDE DEF refused, bad, twice
<1>14. refused <=> ~Args!Sound
  BY <1>10, <1>11, <1>12, <1>13 DEF Args!Sound
<1> HIDE DEF pairs
<1>15. Args!Build(hosts, ports).refused = refused
       /\ Args!Build(hosts, ports).groups = IF refused THEN <<>> ELSE pairs
  BY <1>1
<1>16. refused = ~Args!Sound
  <2>1. refused \in BOOLEAN
    BY DEF refused
  <2>2. QED
    BY <1>14, <2>1
<1>17. QED
  BY <1>8, <1>14, <1>15, <1>16 DEF hosts, ports, gs

\* The options are those of some groups.
MeantInv == /\ Written(written.groups)
            /\ written.hosts \in Args!Styles /\ written.ports \in Args!Styles
            /\ groups # None => Args!GroupsAreAsWritten

\* Functions on 1..n are sequences.
LEMMA IsASequence ==
    ASSUME NEW S, NEW n \in Nat, NEW f \in [1..n -> S]
    PROVE  f \in Seq(S) /\ Len(f) = n
  OBVIOUS

\* Whatever the operator means, the groups that are read are those,
LEMMA MeantStarts == ASSUME MaxGroups \in Nat, MaxRanks \in Nat, Args!Init PROVE MeantInv
<1>1. PICK n \in 1..MaxGroups : written.groups \in [1..n -> Args!Groups]
  BY DEF Args!Init
<1>2. \A g \in 1..n : written.groups[g] \in Seq(Hosts \X Ports) /\ written.groups[g] # <<>>
  <2>1. ASSUME NEW g \in 1..n
        PROVE  written.groups[g] \in Seq(Hosts \X Ports) /\ written.groups[g] # <<>>
    <3>1. PICK m \in 1..MaxRanks : written.groups[g] \in [1..m -> Hosts \X Ports]
      <4>1. written.groups[g] \in Args!Groups
        BY <1>1
      <4>2. QED
        BY <4>1 DEF Args!Groups
    <3>2. written.groups[g] \in Seq(Hosts \X Ports) /\ Len(written.groups[g]) = m
      BY <3>1
    <3>3. QED
      BY <3>2, EmptySeq
  <2>2. QED
    BY <2>1
<1>3. n \in Nat /\ n # 0
  OBVIOUS
<1>4. written.groups \in Seq(Seq(Hosts \X Ports)) /\ Len(written.groups) = n
  <2>1. written.groups \in [1..n -> Seq(Hosts \X Ports)]
    BY <1>1, <1>2
  <2>2. QED
    BY <1>3, <2>1, IsASequence
<1>5. Written(written.groups)
  BY <1>2, <1>3, <1>4, EmptySeq DEF Written
<1>6. QED
  BY <1>5 DEF MeantInv, Args!Init

\* and stay so.
LEMMA MeantIsKept == ASSUME MeantInv, [Args!Next]_Args!vars PROVE MeantInv'
<1>1. CASE UNCHANGED Args!vars
  <2>1. written' = written /\ groups' = groups
    BY <1>1 DEF Args!vars
  <2>2. Args!Sound' = Args!Sound
    BY <2>1 DEF Args!Sound, Args!Places, Args!At
  <2>3. QED
    BY <2>1, <2>2 DEF MeantInv, Args!GroupsAreAsWritten
<1>2. CASE Args!Next
  <2>1. /\ written' = written
        /\ groups' = Args!Build(Args!Write(written.groups, 1, written.hosts),
                           Args!Write(written.groups, 2, written.ports))
    BY <1>2 DEF Args!Next, Args!Start
  <2>2. groups'.refused = ~Args!Sound /\ (Args!Sound => groups'.groups = written.groups)
    BY <2>1, WrittenIsBuilt DEF MeantInv
  <2>3. Args!Sound' = Args!Sound
    BY <2>1 DEF Args!Sound, Args!Places, Args!At
  <2>4. Args!GroupsAreAsWritten'
    BY <2>1, <2>2, <2>3 DEF Args!GroupsAreAsWritten
  <2>5. QED
    BY <2>1, <2>4 DEF MeantInv
<1>3. QED
  BY <1>1, <1>2

(***************************************************************************)
(* SseBuffer                                                               *)
(***************************************************************************)
\* The first empty line from i on, what is before it, and what Events makes of
\* the text from i on when it knows what it makes of the text behind.
Ending(s, i) == Sse!Min(Sse!Separators(s, i))
Payload(s, i) == LET data == Sse!Data(SubSeq(s, i, Ending(s, i) - 1))
                 IN IF data = <<>> THEN <<>> ELSE <<data>>
EventsAt(s, i, f) ==
    IF Sse!Separators(s, i) = {} THEN [payloads |-> <<>>, left |-> SubSeq(s, i, Len(s))]
    ELSE [payloads |-> Payload(s, i) \o f[Ending(s, i) + 2].payloads,
          left |-> f[Ending(s, i) + 2].left]

\* The first empty line is one, and none comes before it.
LEMMA EndingIsFirst ==
    ASSUME NEW s, Len(s) \in Nat, NEW i \in Nat, Sse!Separators(s, i) # {}
    PROVE  /\ Ending(s, i) \in i..Len(s) - 1
           /\ s[Ending(s, i)] = LF /\ s[Ending(s, i) + 1] = LF
           /\ \A j \in Sse!Separators(s, i) : Ending(s, i) \leq j
<1>1. Sse!Separators(s, i) \in SUBSET Nat
  BY DEF Sse!Separators
<1>2. PICK m \in Sse!Separators(s, i) : \A j \in Sse!Separators(s, i) : m \leq j
  BY <1>1, LeastOf
<1>3. /\ Ending(s, i) \in Sse!Separators(s, i)
      /\ \A j \in Sse!Separators(s, i) : Ending(s, i) \leq j
  BY <1>2 DEF Ending, Sse!Min
<1>4. QED
  BY <1>3 DEF Sse!Separators

\* Nothing but the first empty line is the first one.
LEMMA EndingIs ==
    ASSUME NEW s, Len(s) \in Nat, NEW i \in Nat, NEW e \in Sse!Separators(s, i),
           \A j \in Sse!Separators(s, i) : e \leq j
    PROVE  Ending(s, i) = e
<1>1. Ending(s, i) \in Sse!Separators(s, i) /\ Ending(s, i) \leq e
  BY EndingIsFirst DEF Sse!Separators
<1>2. Ending(s, i) \in Nat /\ e \in Nat
  BY <1>1 DEF Sse!Separators
<1>3. QED
  BY <1>1, <1>2

\* The recursion of Events has a solution, and so its equations hold.
LEMMA EventsCanBeRead ==
    ASSUME NEW s, Len(s) \in Nat
    PROVE  \E f : f = [i \in 1..Len(s) + 1 |-> EventsAt(s, i, f)]
<1> DEFINE n == Len(s) + 1
           Read(k) == \E f : f = [i \in n + 1 - k..n |-> EventsAt(s, i, f)]
           Bad == {k \in 0..n : ~Read(k)}
<1>1. n \in Nat
  OBVIOUS
<1>2. ASSUME NEW k \in Bad, \A l \in Bad : k \leq l PROVE FALSE
  <2>1. k \in 0..n /\ ~Read(k)
    OBVIOUS
  <2>2. k # 0
    <3>1. n + 1 - 0..n = {}
      BY <1>1
    <3> DEFINE f == [i \in n + 1 - 0..n |-> EventsAt(s, i, s)]
    <3>2. f = [i \in n + 1 - 0..n |-> EventsAt(s, i, f)]
      BY <3>1
    <3>3. Read(0)
      BY <3>2
    <3>4. QED
      BY <2>1, <3>3
  <2>3. k \in Nat /\ k - 1 \in 0..n /\ k - 1 < k /\ k - 1 \in Nat
    BY <1>1, <2>1, <2>2
  <2>4. Read(k - 1)
    <3>1. k - 1 \notin Bad
      <4> HIDE DEF Bad
      <4>1. QED
        BY <1>2, <2>3
    <3>2. QED
      BY <2>3, <3>1
  <2> DEFINE a == n + 1 - k
  <2>5. a \in 1..n /\ n + 1 - (k - 1) = a + 1 /\ a..n = {a} \cup (a + 1..n) /\ a \notin a + 1..n
    BY <1>1, <2>1, <2>3
  <2>6. PICK f : f = [i \in a + 1..n |-> EventsAt(s, i, f)]
    BY <2>4, <2>5
  <2> HIDE DEF n, a
  <2> DEFINE g == [i \in a..n |-> IF i = a THEN EventsAt(s, i, f) ELSE f[i]]
  <2>7. ASSUME NEW i \in a..n PROVE g[i] = EventsAt(s, i, g)
    <3>1. g[i] = EventsAt(s, i, f)
      BY <2>5, <2>6
    <3>2. CASE Sse!Separators(s, i) = {}
      <4> HIDE DEF g
      <4>1. QED
        BY <3>1, <3>2 DEF EventsAt
    <3>3. CASE Sse!Separators(s, i) # {}
      <4>1. Ending(s, i) \in i..Len(s) - 1
        BY <2>5, <3>3, EndingIsFirst
      <4>2. Ending(s, i) + 2 \in a + 1..n
        BY <1>1, <2>5, <4>1 DEF n
      <4>3. g[Ending(s, i) + 2] = f[Ending(s, i) + 2]
        BY <2>5, <4>2
      <4> HIDE DEF g
      <4>4. QED
        BY <3>1, <3>3, <4>3 DEF EventsAt
    <3>4. QED
      BY <3>2, <3>3
  <2>8. g = [i \in a..n |-> EventsAt(s, i, g)]
    <3>1. g = [i \in a..n |-> g[i]]
      OBVIOUS
    <3> HIDE DEF g
    <3>2. QED
      BY <2>7, <3>1
  <2> HIDE DEF g
  <2>9. Read(k)
    BY <2>8 DEF a
  <2>10. QED
    BY <2>1, <2>9
<1>3. Bad \in SUBSET Nat /\ n \in 0..n
  <2>1. Bad \subseteq 0..n
    OBVIOUS
  <2> HIDE DEF Bad
  <2>2. QED
    BY <1>1, <2>1
<1>4. Bad = {} => \A k \in 0..n : Read(k)
  OBVIOUS
<1> HIDE DEF Bad
<1>5. Read(n)
  <2> HIDE DEF Read
  <2>1. QED
    BY <1>2, <1>3, <1>4, LeastOf
<1>6. n + 1 - n = 1
  BY <1>1
<1>7. QED
  BY <1>5, <1>6

EventsFrom(s) == CHOOSE f : f = [i \in 1..Len(s) + 1 |-> EventsAt(s, i, f)]

\* Events and EventsFrom choose the same function.
LEMMA EventsAreThose == \A s : Sse!Events(s) = EventsFrom(s)[1]
  BY DEF Sse!Events, EventsFrom, EventsAt, Payload, Ending

\* What EventsFrom is at each position.
LEMMA EventsGoOn ==
    ASSUME NEW s, Len(s) \in Nat, NEW i \in 1..Len(s) + 1
    PROVE  EventsFrom(s)[i] = EventsAt(s, i, EventsFrom(s))
<1> DEFINE f == EventsFrom(s)
<1>1. f = [j \in 1..Len(s) + 1 |-> EventsAt(s, j, f)]
  BY EventsCanBeRead DEF EventsFrom
<1> HIDE DEF f
<1>2. f[i] = EventsAt(s, i, f)
  BY <1>1
<1>3. QED
  BY <1>2 DEF f

\* A part of the rest of a text is a part of the text.
LEMMA PartOfRest ==
    ASSUME NEW T1, NEW s \in Seq(T1), NEW i \in 1..Len(s) + 1, NEW a \in Nat \ {0}, NEW b \in Int,
           b \leq Len(s) + 1 - i
    PROVE  SubSeq(SubSeq(s, i, Len(s)), a, b) = SubSeq(s, i + a - 1, i + b - 1)
<1> DEFINE n == Len(s)
           t == SubSeq(s, i, n)
           p == SubSeq(t, a, b)
           q == SubSeq(s, i + a - 1, i + b - 1)
           m == IF a <= b THEN b - a + 1 ELSE 0
<1>1. n \in Nat /\ \A j \in 1..n : s[j] \in T1
  BY LenProperties, ElementOfSeq
<1>2. t \in Seq(T1) /\ Len(t) = n + 1 - i /\ \A j \in 1..n + 1 - i : t[j] = s[i + j - 1]
  <2>1. \A j \in i..n : s[j] \in T1
    BY <1>1
  <2>2. i \in Int /\ n \in Int /\ n - i + 1 = n + 1 - i
    BY <1>1
  <2>3. /\ t \in Seq(T1) /\ Len(t) = IF i <= n THEN n - i + 1 ELSE 0
        /\ \A j \in 1..n - i + 1 : t[j] = s[i + j - 1]
    BY <2>1, <2>2, SubSeqProperties
  <2> HIDE DEF t, n
  <2>4. (IF i <= n THEN n - i + 1 ELSE 0) = n + 1 - i
    BY <1>1 DEF n
  <2>5. QED
    BY <2>2, <2>3, <2>4
<1> HIDE DEF t
<1>3. \A j \in a..b : j \in 1..n + 1 - i /\ t[j] \in T1 /\ i + j - 1 \in 1..n /\ s[i + j - 1] \in T1
  BY <1>1, <1>2
<1>4. p \in Seq(T1) /\ Len(p) = m /\ \A j \in 1..b - a + 1 : p[j] = t[a + j - 1]
  BY <1>3, SubSeqProperties
<1>5. q \in Seq(T1) /\ Len(q) = m /\ \A j \in 1..b - a + 1 : q[j] = s[i + a - 1 + j - 1]
  <2>1. \A j \in i + a - 1..i + b - 1 : s[j] \in T1
    BY <1>1
  <2>2. i + a - 1 \in Int /\ i + b - 1 \in Int /\ (i + b - 1) - (i + a - 1) + 1 = b - a + 1
        /\ (i + a - 1 <= i + b - 1 <=> a <= b)
    OBVIOUS
  <2> DEFINE c == i + a - 1
             d == i + b - 1
  <2> HIDE DEF c, d
  <2>3. /\ SubSeq(s, c, d) \in Seq(T1) /\ Len(SubSeq(s, c, d)) = IF c <= d THEN d - c + 1 ELSE 0
        /\ \A j \in 1..d - c + 1 : SubSeq(s, c, d)[j] = s[c + j - 1]
    <3>1. c \in Int /\ d \in Int /\ \A j \in c..d : s[j] \in T1
      BY <2>1, <2>2 DEF c, d
    <3>2. QED
      BY <3>1, SubSeqProperties, SMTT(30)
  <2>4. d - c + 1 = b - a + 1 /\ (c <= d <=> a <= b)
    BY <2>2 DEF c, d
  <2>5. QED
    BY <2>3, <2>4 DEF c, d
<1> HIDE DEF p, q
<1>6. p \in [1..m -> T1] /\ q \in [1..m -> T1]
  BY <1>4, <1>5, LenProperties
<1>7. ASSUME NEW j \in 1..m PROVE p[j] = q[j]
  <2>1. j \in 1..b - a + 1 /\ a + j - 1 \in 1..n + 1 - i
        /\ i + (a + j - 1) - 1 = i + a - 1 + j - 1
    OBVIOUS
  <2>2. p[j] = t[a + j - 1] /\ t[a + j - 1] = s[i + (a + j - 1) - 1]
    BY <1>2, <1>4, <2>1
  <2>3. QED
    BY <1>5, <2>1, <2>2
<1>8. p = [j \in 1..m |-> p[j]] /\ q = [j \in 1..m |-> q[j]]
  <2> HIDE DEF m
  <2>1. QED
    BY <1>6
<1>9. p = q
  <2> HIDE DEF m
  <2>1. QED
    BY <1>7, <1>8
<1>10. QED
  BY <1>9 DEF p, q

\* What follows in a text does not depend on what was before.
LEMMA EventsOfRest ==
    ASSUME NEW T1, NEW s \in Seq(T1), NEW i \in 1..Len(s) + 1
    PROVE  Sse!Events(SubSeq(s, i, Len(s))) = EventsFrom(s)[i]
<1> DEFINE n == Len(s)
           t == SubSeq(s, i, n)
           m == n + 1 - i
           Same(k) == EventsFrom(t)[m + 1 - k] = EventsFrom(s)[i + (m + 1 - k) - 1]
           Bad == {k \in 0..m : ~Same(k)}
<1>1. n \in Nat /\ m \in Nat /\ i \in Nat \ {0}
  BY LenProperties
<1>2. t \in Seq(T1) /\ Len(t) = m /\ \A j \in 1..m : t[j] = s[i + j - 1]
  <2>1. \A j \in i..n : s[j] \in T1
    BY <1>1, ElementOfSeq
  <2>2. i \in Int /\ n \in Int /\ n - i + 1 = m
    BY <1>1
  <2>3. /\ t \in Seq(T1) /\ Len(t) = IF i <= n THEN n - i + 1 ELSE 0
        /\ \A j \in 1..n - i + 1 : t[j] = s[i + j - 1]
    BY <2>1, <2>2, SubSeqProperties
  <2> HIDE DEF t, n
  <2>4. (IF i <= n THEN n - i + 1 ELSE 0) = m
    BY <1>1 DEF n
  <2>5. QED
    BY <2>2, <2>3, <2>4
<1> HIDE DEF t
<1>3. ASSUME NEW j \in 1..m + 1, \A l \in 1..m + 1 : l > j => EventsFrom(t)[l] = EventsFrom(s)[i + l - 1]
      PROVE  EventsFrom(t)[j] = EventsFrom(s)[i + j - 1]
  <2> DEFINE h == i + j - 1
  <2>1. h \in 1..n + 1 /\ h \in Nat /\ j \in Nat /\ j - h = 1 - i
    BY <1>1
  <2>2. \A x \in Nat : x \in Sse!Separators(t, j) <=> x + i - 1 \in Sse!Separators(s, h)
    <3> TAKE x \in Nat
    <3>1. x \in j..m - 1 <=> x + i - 1 \in h..n - 1
      BY <1>1, <2>1
    <3>2. CASE x \in j..m - 1
      <4>1. x \in 1..m /\ x + 1 \in 1..m /\ i + x - 1 = x + i - 1 /\ i + (x + 1) - 1 = (x + i - 1) + 1
        BY <1>1, <3>2
      <4>2. t[x] = s[i + x - 1] /\ t[x + 1] = s[i + (x + 1) - 1]
        <5> HIDE DEF m, n
        <5>1. QED
          BY <1>2, <4>1
      <4>3. t[x] = s[x + i - 1] /\ t[x + 1] = s[(x + i - 1) + 1]
        BY <4>1, <4>2, Zenon
      <4>4. QED
        BY <1>2, <3>1, <3>2, <4>3 DEF Sse!Separators
    <3>3. CASE x \notin j..m - 1
      BY <1>2, <3>1, <3>3 DEF Sse!Separators
    <3>4. QED
      BY <3>2, <3>3
  <2>3. /\ EventsFrom(t)[j] = EventsAt(t, j, EventsFrom(t))
        /\ EventsFrom(s)[h] = EventsAt(s, h, EventsFrom(s))
    <3> HIDE DEF h
    <3>1. QED
      BY <1>1, <1>2, <2>1, EventsGoOn
  <2>4. CASE Sse!Separators(t, j) = {}
    <3>1. Sse!Separators(s, h) = {}
      <4>1. ASSUME NEW y \in Sse!Separators(s, h) PROVE FALSE
        <5>1. y \in h..n - 1
          BY DEF Sse!Separators
        <5>2. y - i + 1 \in Nat /\ (y - i + 1) + i - 1 = y
          BY <1>1, <2>1, <5>1
        <5>3. y - i + 1 \in Sse!Separators(t, j)
          BY <2>2, <5>2
        <5>4. QED
          BY <2>4, <5>3
      <4>2. QED
        BY <4>1
    <3>2. SubSeq(t, j, Len(t)) = SubSeq(s, h, n)
      <4>1. m \in Int /\ m \leq n + 1 - i /\ i + m - 1 = n
        BY <1>1
      <4>2. SubSeq(t, j, m) = SubSeq(s, i + j - 1, i + m - 1)
        <5> HIDE DEF m
        <5>1. QED
          BY <2>1, <4>1, PartOfRest DEF t
      <4>3. QED
        BY <1>2, <4>1, <4>2
    <3> HIDE DEF h
    <3>3. QED
      BY <2>3, <2>4, <3>1, <3>2 DEF EventsAt, h
  <2>5. CASE Sse!Separators(t, j) # {}
    <3> DEFINE e == Ending(t, j)
    <3>1. /\ e \in j..m - 1 /\ e \in Sse!Separators(t, j)
          /\ \A y \in Sse!Separators(t, j) : e \leq y
      BY <1>1, <1>2, <2>1, <2>5, EndingIsFirst DEF Sse!Separators
    <3> HIDE DEF e
    <3>2. e \in Nat /\ e + i - 1 \in Sse!Separators(s, h)
      BY <2>1, <2>2, <3>1
    <3>3. ASSUME NEW y \in Sse!Separators(s, h) PROVE e + i - 1 \leq y
      <4>1. y \in h..n - 1
        BY DEF Sse!Separators
      <4>2. y - i + 1 \in Nat /\ (y - i + 1) + i - 1 = y
        BY <1>1, <2>1, <4>1
      <4>3. y - i + 1 \in Sse!Separators(t, j)
        BY <2>2, <4>2
      <4>4. e \leq y - i + 1
        BY <3>1, <4>3
      <4>5. QED
        BY <1>1, <3>2, <4>1, <4>4
    <3>4. Ending(s, h) = e + i - 1
      <4> HIDE DEF h
      <4>1. QED
        BY <1>1, <2>1, <3>2, <3>3, EndingIs
    <3>5. SubSeq(t, j, e - 1) = SubSeq(s, h, Ending(s, h) - 1)
      <4>1. e - 1 \in Int /\ e - 1 \leq n + 1 - i /\ i + (e - 1) - 1 = (e + i - 1) - 1 /\ j \in Nat \ {0}
        BY <1>1, <2>1, <3>1
      <4>2. SubSeq(t, j, e - 1) = SubSeq(s, i + j - 1, i + (e - 1) - 1)
        BY <4>1, PartOfRest DEF t
      <4>3. QED
        BY <3>4, <4>1, <4>2
    <3>6. EventsFrom(t)[e + 2] = EventsFrom(s)[Ending(s, h) + 2]
      <4>1. e + 2 \in 1..m + 1 /\ e + 2 > j /\ i + (e + 2) - 1 = (e + i - 1) + 2
        BY <1>1, <2>1, <3>1
      <4>2. EventsFrom(t)[e + 2] = EventsFrom(s)[i + (e + 2) - 1]
        <5> HIDE DEF m, n, h
        <5>1. QED
          BY <1>3, <4>1
      <4>3. QED
        BY <3>4, <4>1, <4>2, Zenon
    <3>7. Payload(t, j) = Payload(s, h)
      <4> HIDE DEF h
      <4>1. QED
        BY <3>5 DEF Payload, e
    <3>8. Sse!Separators(s, h) # {}
      BY <3>2
    <3> HIDE DEF h
    <3>9. QED
      BY <2>3, <2>5, <3>6, <3>7, <3>8 DEF EventsAt, e, h
  <2>6. QED
    BY <2>4, <2>5
<1>4. ASSUME NEW k \in Bad, \A l \in Bad : k \leq l PROVE FALSE
  <2>1. k \in 0..m /\ ~Same(k)
    OBVIOUS
  <2>2. m + 1 - k \in 1..m + 1
    BY <1>1, <2>1
  <2>3. ASSUME NEW l \in 1..m + 1, l > m + 1 - k PROVE EventsFrom(t)[l] = EventsFrom(s)[i + l - 1]
    <3>1. m + 1 - l \in 0..m /\ m + 1 - l < k /\ m + 1 - (m + 1 - l) = l /\ m + 1 - l \in Nat /\ k \in Nat
      BY <1>1, <2>1, <2>3
    <3>2. m + 1 - l \notin Bad
      <4> HIDE DEF Bad
      <4>1. QED
        BY <1>4, <3>1
    <3>3. QED
      BY <3>1, <3>2
  <2>4. QED
    <3> DEFINE j == m + 1 - k
    <3>1. j \in 1..m + 1 /\ \A l \in 1..m + 1 : l > j => EventsFrom(t)[l] = EventsFrom(s)[i + l - 1]
      BY <2>2, <2>3
    <3>2. ~(EventsFrom(t)[j] = EventsFrom(s)[i + j - 1])
      BY <2>1
    <3> HIDE DEF j
    <3>3. QED
      BY <1>3, <3>1, <3>2
<1>5. Bad \in SUBSET Nat /\ m \in 0..m
  <2>1. Bad \subseteq 0..m
    OBVIOUS
  <2> HIDE DEF Bad
  <2>2. QED
    BY <1>1, <2>1
<1>6. Bad = {} => \A k \in 0..m : Same(k)
  OBVIOUS
<1> HIDE DEF Bad
<1>7. Same(m)
  <2> HIDE DEF Same
  <2>1. QED
    BY <1>4, <1>5, <1>6, LeastOf
<1>8. m + 1 - m = 1 /\ i + 1 - 1 = i
  BY <1>1
<1>9. EventsFrom(t)[1] = EventsFrom(s)[i]
  BY <1>7, <1>8
<1>10. QED
  BY <1>9, EventsAreThose DEF t

\* The rest of two texts in one, from a place in the first.
LEMMA RestOfConcat ==
    ASSUME NEW T1, NEW w \in Seq(T1), NEW v \in Seq(T1), NEW i \in 1..Len(w) + 1
    PROVE  SubSeq(w \o v, i, Len(w \o v)) = SubSeq(w, i, Len(w)) \o v
<1> DEFINE n == Len(w)
           m == Len(v)
           x == w \o v
           p == SubSeq(x, i, n + m)
           q == SubSeq(w, i, n)
           l == n + m + 1 - i
<1>1. /\ n \in Nat /\ m \in Nat /\ \A j \in 1..n : w[j] \in T1
      /\ \A j \in 1..m : v[j] \in T1
  BY LenProperties, ElementOfSeq
<1>2. /\ x \in Seq(T1) /\ Len(x) = n + m
      /\ \A j \in 1..n + m : x[j] = IF j <= n THEN w[j] ELSE v[j - n]
  BY ConcatProperties
<1> HIDE DEF x
<1>3. p \in Seq(T1) /\ Len(p) = l /\ \A j \in 1..l : p[j] = x[i + j - 1]
  <2>1. \A j \in i..n + m : x[j] \in T1
    BY <1>1, <1>2, ElementOfSeq
  <2>2. i \in Int /\ n + m \in Int /\ (n + m) - i + 1 = l
        /\ (IF i <= n + m THEN (n + m) - i + 1 ELSE 0) = l
    BY <1>1
  <2> DEFINE c == n + m
  <2>3. c \in Int /\ \A j \in i..c : x[j] \in T1
    BY <2>1, <2>2
  <2> HIDE DEF c
  <2>4. /\ SubSeq(x, i, c) \in Seq(T1) /\ Len(SubSeq(x, i, c)) = IF i <= c THEN c - i + 1 ELSE 0
        /\ \A j \in 1..c - i + 1 : SubSeq(x, i, c)[j] = x[i + j - 1]
    BY <2>2, <2>3, SubSeqProperties
  <2>5. QED
    BY <2>2, <2>4 DEF c
<1>4. q \in Seq(T1) /\ Len(q) = n + 1 - i /\ \A j \in 1..n + 1 - i : q[j] = w[i + j - 1]
  <2>1. i \in Int /\ n \in Int /\ n - i + 1 = n + 1 - i
        /\ (IF i <= n THEN n - i + 1 ELSE 0) = n + 1 - i /\ \A j \in i..n : w[j] \in T1
    BY <1>1
  <2> HIDE DEF n
  <2>2. /\ q \in Seq(T1) /\ Len(q) = IF i <= n THEN n - i + 1 ELSE 0
        /\ \A j \in 1..n - i + 1 : q[j] = w[i + j - 1]
    BY <2>1, SubSeqProperties
  <2>3. QED
    BY <2>1, <2>2
<1> HIDE DEF p, q
<1> DEFINE r == q \o v
<1>5. /\ r \in Seq(T1) /\ Len(r) = l
      /\ \A j \in 1..l : r[j] = IF j <= n + 1 - i THEN q[j] ELSE v[j - (n + 1 - i)]
  <2>1. (n + 1 - i) + m = l
    BY <1>1
  <2> HIDE DEF l
  <2>2. /\ r \in Seq(T1) /\ Len(r) = Len(q) + m
        /\ \A j \in 1..Len(q) + m : r[j] = IF j <= Len(q) THEN q[j] ELSE v[j - Len(q)]
    BY <1>4, ConcatProperties
  <2>3. QED
    BY <1>4, <2>1, <2>2
<1> HIDE DEF r
<1>6. ASSUME NEW j \in 1..l PROVE p[j] = r[j]
  <2>1. i + j - 1 \in 1..n + m /\ j \in Nat
    BY <1>1
  <2>2. CASE j <= n + 1 - i
    <3>1. i + j - 1 <= n /\ j \in 1..n + 1 - i
      BY <1>1, <2>1, <2>2
    <3>2. QED
      BY <1>2, <1>3, <1>4, <1>5, <2>1, <2>2, <3>1
  <2>3. CASE ~(j <= n + 1 - i)
    <3>1. ~(i + j - 1 <= n) /\ i + j - 1 - n = j - (n + 1 - i)
      BY <1>1, <2>1, <2>3
    <3>2. p[j] = x[i + j - 1] /\ x[i + j - 1] = v[i + j - 1 - n]
      <4>1. PICK g \in 1..n + m : g = i + j - 1
        BY <2>1
      <4>2. x[g] = v[g - n]
        BY <1>2, <3>1, <4>1
      <4>3. QED
        BY <1>3, <4>1, <4>2
    <3>3. r[j] = v[j - (n + 1 - i)]
      BY <1>5, <2>3
    <3>4. QED
      BY <3>1, <3>2, <3>3
  <2>4. QED
    BY <2>2, <2>3
<1>7. p = [j \in 1..l |-> p[j]] /\ r = [j \in 1..l |-> r[j]]
  <2> HIDE DEF l
  <2>1. p \in [1..l -> T1] /\ r \in [1..l -> T1]
    BY <1>3, <1>5, LenProperties
  <2>2. QED
    BY <2>1
<1>8. p = r
  <2> HIDE DEF l
  <2>1. QED
    BY <1>6, <1>7
<1>9. QED
  BY <1>2, <1>8 DEF p, q, r, x

\* Events, one after the other.
LEMMA EventsEnd ==
    ASSUME NEW T1, NEW s \in Seq(T1), Sse!Separators(s, 1) = {}
    PROVE  Sse!Events(s) = [payloads |-> <<>>, left |-> s]
<1>1. Len(s) \in Nat
  BY LenProperties
<1>2. SubSeq(s, 1, Len(s)) = s
  BY SubSeqFull
<1>3. EventsFrom(s)[1] = EventsAt(s, 1, EventsFrom(s))
  BY <1>1, EventsGoOn
<1>4. QED
  BY <1>2, <1>3, EventsAreThose DEF EventsAt

Behind(s) == SubSeq(s, Ending(s, 1) + 2, Len(s))
\* What is behind the first event is a shorter text of the same letters.
LEMMA BehindIsLess ==
    ASSUME NEW T1, NEW s \in Seq(T1), Sse!Separators(s, 1) # {}
    PROVE  /\ Ending(s, 1) \in 1..Len(s) - 1 /\ Ending(s, 1) + 2 \in 1..Len(s) + 1
           /\ Behind(s) \in Seq(T1) /\ Len(Behind(s)) \in Nat /\ Len(Behind(s)) < Len(s)
<1>1. Len(s) \in Nat /\ \A j \in 1..Len(s) : s[j] \in T1
  BY LenProperties, ElementOfSeq
<1>2. Ending(s, 1) \in 1..Len(s) - 1
  BY <1>1, EndingIsFirst
<1> DEFINE a == Ending(s, 1) + 2
           n == Len(s)
<1>3. a \in Int /\ n \in Nat /\ a \in 3..n + 1 /\ \A j \in a..n : s[j] \in T1
  BY <1>1, <1>2
<1> HIDE DEF a, n
<1>4. SubSeq(s, a, n) \in Seq(T1) /\ Len(SubSeq(s, a, n)) = IF a <= n THEN n - a + 1 ELSE 0
  BY <1>3, SubSeqProperties
<1>5. Len(SubSeq(s, a, n)) \in Nat /\ Len(SubSeq(s, a, n)) < n
  BY <1>3, <1>4
<1>6. QED
  BY <1>2, <1>3, <1>4, <1>5 DEF a, n, Behind

\* The first event of a text, and then those of what is behind it.
LEMMA EventsStep ==
    ASSUME NEW T1, NEW s \in Seq(T1), Sse!Separators(s, 1) # {}
    PROVE  Sse!Events(s) = [payloads |-> Payload(s, 1) \o Sse!Events(Behind(s)).payloads,
                            left |-> Sse!Events(Behind(s)).left]
<1>1. Len(s) \in Nat /\ 1 \in 1..Len(s) + 1 /\ Ending(s, 1) + 2 \in 1..Len(s) + 1
  <2>1. Len(s) \in Nat
    BY LenProperties
  <2>2. Ending(s, 1) + 2 \in 1..Len(s) + 1
    BY BehindIsLess
  <2>3. QED
    BY <2>1, <2>2
<1>2. EventsFrom(s)[1] = EventsAt(s, 1, EventsFrom(s))
  BY <1>1, EventsGoOn
<1>3. Sse!Events(Behind(s)) = EventsFrom(s)[Ending(s, 1) + 2]
  BY <1>1, EventsOfRest DEF Behind
<1>4. QED
  BY <1>2, <1>3, EventsAreThose DEF EventsAt

\* What Events returns is a sequence of payloads, and a text without an empty line.
Payloads(T1) == {Sse!Data(e) : e \in Seq(T1)}
Proceeds(T1, s) == /\ Sse!Events(s).payloads \in Seq(Payloads(T1))
                   /\ Sse!Events(s).left \in Seq(T1)
                   /\ Sse!Separators(Sse!Events(s).left, 1) = {}

\* The data of an event are made of its letters, or there are none.
LEMMA PayloadTyped ==
    ASSUME NEW T1, NEW s \in Seq(T1), Sse!Separators(s, 1) # {}
    PROVE  Payload(s, 1) \in Seq(Payloads(T1))
<1> DEFINE e == Ending(s, 1) - 1
<1>1. Len(s) \in Nat /\ \A j \in 1..Len(s) : s[j] \in T1
  BY LenProperties, ElementOfSeq
<1>2. e \in Int /\ \A j \in 1..e : s[j] \in T1
  <2>1. Ending(s, 1) \in 1..Len(s) - 1
    BY BehindIsLess
  <2>2. QED
    BY <1>1, <2>1
<1> HIDE DEF e
<1>3. SubSeq(s, 1, e) \in Seq(T1)
  BY <1>2, SubSeqProperties
<1> DEFINE data == Sse!Data(SubSeq(s, 1, e))
<1>4. data \in Payloads(T1)
  BY <1>3 DEF Payloads
<1> HIDE DEF data
<1>5. <<data>> \in Seq(Payloads(T1)) /\ <<>> \in Seq(Payloads(T1))
  BY <1>4
<1>6. Payload(s, 1) = IF data = <<>> THEN <<>> ELSE <<data>>
  BY DEF Payload, data, e
<1>7. QED
  BY <1>5, <1>6

\* What is left holds no empty line: Events has read all there is.
LEMMA EventsTyped ==
    ASSUME NEW T1, NEW s \in Seq(T1)
    PROVE  Proceeds(T1, s)
<1> DEFINE Bad == {k \in Nat : \E x \in Seq(T1) : Len(x) = k /\ ~Proceeds(T1, x)}
<1>1. ASSUME NEW k \in Bad, \A l \in Bad : k \leq l PROVE FALSE
  <2>1. PICK x \in Seq(T1) : Len(x) = k /\ ~Proceeds(T1, x)
    OBVIOUS
  <2>2. k \in Nat
    OBVIOUS
  <2>3. CASE Sse!Separators(x, 1) = {}
    <3>1. Sse!Events(x) = [payloads |-> <<>>, left |-> x]
      BY <2>3, EventsEnd
    <3>2. <<>> \in Seq(Payloads(T1))
      BY EmptySeq
    <3>3. QED
      BY <2>1, <2>3, <3>1, <3>2 DEF Proceeds
  <2>4. CASE Sse!Separators(x, 1) # {}
    <3>1. Behind(x) \in Seq(T1) /\ Len(Behind(x)) \in Nat /\ Len(Behind(x)) < k
      BY <2>1, <2>4, BehindIsLess
    <3>2. Len(Behind(x)) \notin Bad
      <4> HIDE DEF Bad
      <4>1. QED
        BY <1>1, <2>2, <3>1
    <3>3. Proceeds(T1, Behind(x))
      BY <3>1, <3>2
    <3>4. Payload(x, 1) \in Seq(Payloads(T1))
      BY <2>4, PayloadTyped
    <3>5. Sse!Events(x) = [payloads |-> Payload(x, 1) \o Sse!Events(Behind(x)).payloads,
                           left |-> Sse!Events(Behind(x)).left]
      BY <2>4, EventsStep
    <3>6. Payload(x, 1) \o Sse!Events(Behind(x)).payloads \in Seq(Payloads(T1))
      BY <3>3, <3>4, ConcatProperties DEF Proceeds
    <3>7. QED
      BY <2>1, <3>3, <3>5, <3>6 DEF Proceeds
  <2>5. QED
    BY <2>3, <2>4
<1>2. Bad \in SUBSET Nat
  OBVIOUS
<1>3. Bad = {} => Len(s) \notin Bad
  OBVIOUS
<1>4. Len(s) \in Nat /\ (Len(s) \notin Bad => Proceeds(T1, s))
  BY LenProperties
<1> HIDE DEF Bad
<1>5. QED
  BY <1>1, <1>2, <1>3, <1>4, LeastOf

\* A text in two pieces: what the first leaves is put before the second.
Splits(w, v) ==
    /\ Sse!Events(w \o v).payloads
         = Sse!Events(w).payloads \o Sse!Events(Sse!Events(w).left \o v).payloads
    /\ Sse!Events(w \o v).left = Sse!Events(Sse!Events(w).left \o v).left

\* Of two texts in a row Events makes what it makes of the first, and then of
\* what is left of the first followed by the second.
LEMMA EventsSplit ==
    ASSUME NEW T1, NEW v \in Seq(T1), NEW s \in Seq(T1)
    PROVE  Splits(s, v)
<1> DEFINE Bad == {k \in Nat : \E w \in Seq(T1) : Len(w) = k /\ ~Splits(w, v)}
<1>1. ASSUME NEW k \in Bad, \A l \in Bad : k \leq l PROVE FALSE
  <2>1. PICK w \in Seq(T1) : Len(w) = k /\ ~Splits(w, v)
    OBVIOUS
  <2>2. k \in Nat
    OBVIOUS
  <2>3. CASE Sse!Separators(w, 1) = {}
    <3>1. Sse!Events(w) = [payloads |-> <<>>, left |-> w]
      BY <2>3, EventsEnd
    <3>2. w \o v \in Seq(T1)
      BY ConcatProperties
    <3>3. Sse!Events(w \o v).payloads \in Seq(Payloads(T1))
      BY <3>2, EventsTyped DEF Proceeds
    <3>4. <<>> \o Sse!Events(w \o v).payloads = Sse!Events(w \o v).payloads
      BY <3>3, ConcatEmptySeq
    <3>5. Sse!Events(w).payloads = <<>> /\ Sse!Events(w).left = w
      BY <3>1
    <3>6. QED
      <4> DEFINE a == Sse!Events(w \o v).payloads
                 b == Sse!Events(w \o v).left
      <4>1. <<>> \o a = a
        BY <3>4
      <4>2. ~(a = <<>> \o a /\ b = b)
        BY <2>1, <3>5 DEF Splits
      <4> HIDE DEF a, b
      <4>3. QED
        BY <4>1, <4>2
  <2>4. CASE Sse!Separators(w, 1) # {}
    <3> DEFINE x == w \o v
               n == Len(w)
               e == Ending(w, 1)
               r == Behind(w)
    <3>1. /\ e \in 1..n - 1 /\ e + 2 \in 1..n + 1
          /\ r \in Seq(T1) /\ Len(r) \in Nat /\ Len(r) < k
      BY <2>1, <2>4, BehindIsLess
    <3>2. /\ w[e] = LF /\ w[e + 1] = LF
          /\ \A j \in Sse!Separators(w, 1) : e \leq j
      BY <2>1, <2>2, <2>4, EndingIsFirst
    <3>3. /\ n \in Nat /\ Len(v) \in Nat /\ x \in Seq(T1) /\ Len(x) = n + Len(v)
          /\ \A j \in 1..n : x[j] = w[j]
      <4>1. n \in Nat /\ Len(v) \in Nat
        BY LenProperties
      <4>2. /\ x \in Seq(T1) /\ Len(x) = n + Len(v)
            /\ \A j \in 1..n + Len(v) : x[j] = IF j <= n THEN w[j] ELSE v[j - n]
        BY ConcatProperties
      <4> HIDE DEF x, n
      <4>3. QED
        BY <4>1, <4>2
    <3> HIDE DEF x, e, r
    <3>4. e \in Sse!Separators(x, 1)
      <4>1. e \in 1..Len(x) - 1 /\ e \in 1..n /\ e + 1 \in 1..n
        BY <3>1, <3>3
      <4>2. x[e] = LF /\ x[e + 1] = LF
        BY <3>3, <3>2, <4>1 DEF e
      <4>3. QED
        BY <4>1, <4>2 DEF Sse!Separators
    <3>5. ASSUME NEW j \in Sse!Separators(x, 1) PROVE e \leq j
      <4>1. j \in 1..Len(x) - 1 /\ x[j] = LF /\ x[j + 1] = LF
        BY DEF Sse!Separators
      <4>2. CASE j < e
        <5>1. j \in 1..n /\ j + 1 \in 1..n /\ j \in 1..n - 1
          BY <3>1, <3>3, <4>1, <4>2
        <5>2. j \in Sse!Separators(w, 1)
          BY <3>3, <4>1, <5>1 DEF Sse!Separators
        <5>3. QED
          BY <3>2, <5>2
      <4>3. QED
        BY <3>1, <4>1, <4>2
    <3>6. Ending(x, 1) = e /\ Sse!Separators(x, 1) # {}
      BY <3>3, <3>4, <3>5, EndingIs
    <3>7. Behind(x) = r \o v
      <4>1. SubSeq(x, e + 2, Len(x)) = SubSeq(w, e + 2, n) \o v
        BY <3>1, RestOfConcat DEF x
      <4>2. QED
        BY <3>6, <4>1 DEF Behind, r, e
    <3>8. Payload(x, 1) = Payload(w, 1)
      <4>1. SubSeq(x, 1, e - 1) = SubSeq(w, 1, e - 1)
        <5>1. CASE e = 1
          <6>1. e - 1 < 1 /\ e - 1 \in Int
            BY <5>1
          <6>2. QED
            BY <6>1, SubSeqEmpty
        <5>2. CASE e # 1
          <6>1. 1 \in 1..n /\ e - 1 \in 1..n
            BY <3>1, <3>3, <5>2
          <6>2. QED
            BY <6>1, SubSeqOfConcat1 DEF x
        <5>3. QED
          BY <5>1, <5>2
      <4>2. QED
        BY <3>6, <4>1 DEF Payload, e
    <3>9. Splits(r, v)
      <4>1. Len(r) \notin Bad
        <5> HIDE DEF Bad
        <5>1. QED
          BY <1>1, <2>2, <3>1
      <4>2. QED
        BY <3>1, <4>1
    <3> DEFINE p == Payload(w, 1)
               q == Sse!Events(r).payloads
               l == Sse!Events(r).left
               y == Sse!Events(l \o v).payloads
    <3>10. p \in Seq(Payloads(T1)) /\ q \in Seq(Payloads(T1)) /\ y \in Seq(Payloads(T1))
      <4>1. q \in Seq(Payloads(T1)) /\ l \in Seq(T1)
        BY <3>1, EventsTyped DEF Proceeds
      <4> HIDE DEF l
      <4>2. l \o v \in Seq(T1)
        BY <4>1, ConcatProperties
      <4>3. y \in Seq(Payloads(T1))
        BY <4>2, EventsTyped DEF Proceeds
      <4>4. QED
        BY <2>4, <4>1, <4>3, PayloadTyped
    <3>11. Sse!Events(w) = [payloads |-> p \o q, left |-> l]
      BY <2>4, EventsStep DEF r
    <3>12. Sse!Events(x) = [payloads |-> p \o Sse!Events(r \o v).payloads,
                            left |-> Sse!Events(r \o v).left]
      BY <3>3, <3>6, <3>7, <3>8, EventsStep
    <3>13. Sse!Events(r \o v).payloads = q \o y /\ Sse!Events(r \o v).left = Sse!Events(l \o v).left
      BY <3>9 DEF Splits
    <3>14. (p \o q) \o y = p \o (q \o y)
      <4> DEFINE S == Payloads(T1)
      <4>1. p \in Seq(S) /\ q \in Seq(S) /\ y \in Seq(S)
        BY <3>10
      <4> HIDE DEF p, q, y, S
      <4>2. QED
        BY <4>1, ConcatAssociative, SMTT(30)
    <3> HIDE DEF p, q, l
    <3>15. /\ Sse!Events(x).payloads = p \o (q \o y)
           /\ Sse!Events(x).left = Sse!Events(l \o v).left
      BY <3>12, <3>13, SMTT(30)
    <3>16. Sse!Events(w).payloads = p \o q /\ Sse!Events(w).left = l
      BY <3>11
    <3>17. Splits(w, v) <=> /\ Sse!Events(x).payloads = (p \o q) \o y
                            /\ Sse!Events(x).left = Sse!Events(l \o v).left
      BY <3>16 DEF Splits, x
    <3>18. QED
      BY <2>1, <3>14, <3>15, <3>17
  <2>5. QED
    BY <2>3, <2>4
<1>2. Bad \in SUBSET Nat
  OBVIOUS
<1>3. Bad = {} => Len(s) \notin Bad
  OBVIOUS
<1>4. Len(s) \in Nat /\ (Len(s) \notin Bad => Splits(s, v))
  BY LenProperties
<1> HIDE DEF Bad
<1>5. QED
  BY <1>1, <1>2, <1>3, <1>4, LeastOf

\* The line ends: a stream has a CR only before an LF.  Of a text that may go on,
\* this is so up to a CR at its end.
Kept(s) == {i \in DOMAIN s : ~(s[i] = CR /\ i < Len(s) /\ s[i + 1] = LF)}
Paired(s) == \A i \in DOMAIN s : s[i] = CR => i < Len(s) /\ s[i + 1] = LF
Plain == Sse!Char \ {CR}

\* What is normalised has lost the CR of each line end, and nothing else.
LEMMA NormalIsPicked ==
    ASSUME NEW T1, NEW s \in Seq(T1)
    PROVE  Sse!Normalised(s) = Picked(s, Kept(s))
<1> DEFINE p == [i \in DOMAIN s |-> IF s[i] = CR /\ i < Len(s) /\ s[i + 1] = LF
                                      THEN <<>> ELSE <<s[i]>>]
<1>1. Pieces(s, Kept(s)) = p
  BY DEF Pieces, Kept
<1>2. Sse!FlattenSeq(p) = FlattenSeq(p)
  BY DEF Sse!FlattenSeq, FlattenSeq
<1>3. Sse!Normalised(s) = Sse!FlattenSeq(p)
  BY DEF Sse!Normalised
<1>4. QED
  BY <1>1, <1>2, <1>3 DEF Picked

\* Where no line end is cut, the two texts can be normalised one by one.
LEMMA NormalConcat ==
    ASSUME NEW T1, NEW c \in Seq(T1), NEW y \in Seq(T1), Paired(c)
    PROVE  Sse!Normalised(c \o y) = Sse!Normalised(c) \o Sse!Normalised(y)
<1> DEFINE x == c \o y
           n == Len(c)
           m == Len(y)
           at == Kept(x)
           bt == {j \in DOMAIN y : n + j \in at}
<1>1. /\ n \in Nat /\ m \in Nat /\ DOMAIN c = 1..n /\ DOMAIN y = 1..m
      /\ x \in Seq(T1) /\ Len(x) = n + m /\ DOMAIN x = 1..n + m
      /\ \A j \in 1..n + m : x[j] = IF j <= n THEN c[j] ELSE y[j - n]
  BY LenProperties, ConcatProperties
<1>2. \A i \in 1..n : x[i] = c[i]
  <2> HIDE DEF x, n, m
  <2>1. QED
    BY <1>1
<1>3. \A j \in 1..m : x[n + j] = y[j]
  <2> HIDE DEF x, n, m
  <2> TAKE j \in 1..m
  <2>1. PICK g \in 1..n + m : g = n + j
    BY <1>1
  <2>2. x[g] = y[g - n] /\ g - n = j
    BY <1>1, <2>1
  <2>3. QED
    BY <2>1, <2>2
<1> HIDE DEF x
<1>4. \A i \in DOMAIN c : i \in at <=> i \in Kept(c)
  <2> TAKE i \in DOMAIN c
  <2>1. i \in 1..n /\ i \in 1..n + m /\ x[i] = c[i]
    BY <1>1, <1>2
  <2>2. CASE i = n
    <3>1. c[i] # CR
      <4>1. ~(i < n)
        BY <1>1, <2>2
      <4>2. QED
        BY <4>1 DEF Paired
    <3>2. QED
      BY <1>1, <2>1, <3>1 DEF Kept
  <2>3. CASE i # n
    <3>1. i + 1 \in 1..n /\ i < n /\ i < n + m
      BY <1>1, <2>1, <2>3
    <3>2. x[i + 1] = c[i + 1]
      BY <1>2, <3>1
    <3>3. QED
      BY <1>1, <2>1, <3>1, <3>2 DEF Kept
  <2>4. QED
    BY <2>2, <2>3
<1>5. \A j \in DOMAIN y : j \in bt <=> j \in Kept(y)
  <2> TAKE j \in DOMAIN y
  <2>1. j \in 1..m /\ n + j \in 1..n + m /\ x[n + j] = y[j]
    BY <1>1, <1>3
  <2>2. n + j < n + m <=> j < m
    BY <1>1, <2>1
  <2>3. j < m => x[(n + j) + 1] = y[j + 1]
    <3> HAVE j < m
    <3>1. j + 1 \in 1..m /\ n + (j + 1) = (n + j) + 1
      BY <1>1, <2>1
    <3>2. QED
      BY <1>3, <3>1
  <2>4. QED
    BY <1>1, <2>1, <2>2, <2>3 DEF Kept
<1>6. Picked(x, at) = Picked(c, at) \o Picked(y, bt)
  <2>1. \A j \in DOMAIN y : j \in bt <=> Len(c) + j \in at
    OBVIOUS
  <2> HIDE DEF at, bt
  <2>2. QED
    BY <2>1, PickedConcat DEF x
<1>7. Picked(c, at) = Picked(c, Kept(c)) /\ Picked(y, bt) = Picked(y, Kept(y))
  <2> HIDE DEF at, bt
  <2>1. QED
    BY <1>4, <1>5, PickedSame
<1>8. /\ Sse!Normalised(x) = Picked(x, at)
      /\ Sse!Normalised(c) = Picked(c, Kept(c))
      /\ Sse!Normalised(y) = Picked(y, Kept(y))
  BY <1>1, NormalIsPicked
<1>9. QED
  BY <1>6, <1>7, <1>8 DEF x

\* A text in which each CR has its LF has none of them once it is normalised.
LEMMA NormalTyped ==
    ASSUME NEW s \in Seq(Sse!Char)
    PROVE  /\ Sse!Normalised(s) \in Seq(Sse!Char)
           /\ Paired(s) => Sse!Normalised(s) \in Seq(Plain)
<1>1. DOMAIN s = 1..Len(s) /\ \A i \in 1..Len(s) : s[i] \in Sse!Char
  BY LenProperties, ElementOfSeq
<1>2. Picked(s, Kept(s)) \in Seq(Sse!Char)
  BY <1>1, PickedTyped
<1>3. ASSUME Paired(s) PROVE Picked(s, Kept(s)) \in Seq(Plain)
  <2>1. \A i \in Kept(s) \cap DOMAIN s : s[i] \in Plain
    BY <1>1, <1>3 DEF Kept, Paired, Plain
  <2>2. QED
    BY <2>1, PickedTyped
<1>4. QED
  BY <1>2, <1>3, NormalIsPicked

\* A text without CR is as it was.
LEMMA PlainIsNormal ==
    ASSUME NEW s \in Seq(Plain)
    PROVE  Sse!Normalised(s) = s /\ Paired(s) /\ s \in Seq(Sse!Char)
<1>1. DOMAIN s = 1..Len(s) /\ \A i \in 1..Len(s) : s[i] \in Plain
  BY LenProperties, ElementOfSeq
<1>2. DOMAIN s \subseteq Kept(s) /\ Paired(s)
  BY <1>1 DEF Kept, Paired, Plain
<1>3. Plain \subseteq Sse!Char
  BY DEF Plain
<1>4. s \in Seq(Sse!Char)
  BY <1>3
<1>5. QED
  BY <1>2, <1>4, PickedAll, NormalIsPicked

\* What can follow a text whose line ends are paired.
Tails == {<<>>, <<CR>>}
\* A CR alone stays until its LF arrives.
LEMMA TailIsNormal == \A d \in Tails : d \in Seq(Sse!Char) /\ Sse!Normalised(d) = d
<1> TAKE d \in Tails
<1>1. d \in Seq(Sse!Char) /\ Len(d) \in 0..1 /\ DOMAIN d = 1..Len(d)
  <2>1. /\ <<>> \in Seq(Sse!Char) /\ Len(<<>>) = 0
        /\ <<CR>> \in Seq(Sse!Char) /\ Len(<<CR>>) = 1
    BY DEF Sse!Char
  <2>2. d = <<>> \/ d = <<CR>>
    BY DEF Tails
  <2>3. d \in Seq(Sse!Char) /\ Len(d) \in 0..1
    <3>1. CASE d = <<>>
      BY <2>1, <3>1
    <3>2. CASE d = <<CR>>
      BY <2>1, <3>2
    <3>3. QED
      BY <2>2, <3>1, <3>2
  <2>4. QED
    BY <2>3, LenProperties
<1>2. DOMAIN d \subseteq Kept(d)
  BY <1>1 DEF Kept
<1>3. QED
  BY <1>1, <1>2, PickedAll, NormalIsPicked

\* A stream is cut behind a whole line end, inside none, or between CR and LF.
LEMMA CutLeavesTail ==
    ASSUME NEW a \in Seq(Sse!Char), NEW r \in Seq(Sse!Char), Paired(a \o r)
    PROVE  \E c \in Seq(Sse!Char), d \in Tails : Paired(c) /\ a = c \o d
<1> DEFINE n == Len(a)
           s == a \o r
<1>1. /\ n \in Nat /\ DOMAIN a = 1..n /\ \A i \in 1..n : a[i] \in Sse!Char
      /\ Len(s) = n + Len(r) /\ Len(r) \in Nat /\ s \in Seq(Sse!Char)
      /\ \A j \in 1..n + Len(r) : s[j] = IF j <= n THEN a[j] ELSE r[j - n]
  BY LenProperties, ElementOfSeq, ConcatProperties
<1>2. ASSUME NEW i \in 1..n, i < n, a[i] = CR PROVE a[i + 1] = LF
  <2> HIDE DEF s
  <2>1. i \in DOMAIN s /\ i + 1 \in 1..n + Len(r) /\ i + 1 <= n
    BY <1>1, <1>2, LenProperties
  <2>2. s[i] = a[i] /\ s[i + 1] = a[i + 1]
    BY <1>1, <2>1
  <2>3. QED
    BY <1>2, <2>1, <2>2 DEF Paired, s
<1> HIDE DEF s
<1>3. CASE n = 0 \/ a[n] # CR
  <2>1. Paired(a)
    <3> SUFFICES ASSUME NEW i \in 1..n, a[i] = CR PROVE i < n /\ a[i + 1] = LF
      BY <1>1 DEF Paired
    <3>1. i < n
      BY <1>1, <1>3
    <3>2. QED
      BY <1>2, <3>1
  <2>2. a = a \o <<>> /\ <<>> \in Tails
    BY ConcatEmptySeq DEF Tails
  <2>3. QED
    BY <2>1, <2>2
<1>4. CASE n # 0 /\ a[n] = CR
  <2> DEFINE c == SubSeq(a, 1, n - 1)
  <2>1. n - 1 \in Int /\ 1 \in 1..n /\ n \in 1..n /\ \A i \in 1..n - 1 : a[i] \in Sse!Char
    BY <1>1, <1>4
  <2>2. /\ c \in Seq(Sse!Char) /\ Len(c) = n - 1 /\ \A i \in 1..n - 1 : c[i] = a[i]
    <3> DEFINE e == n - 1
    <3> HIDE DEF e
    <3>1. e \in Int /\ \A i \in 1..e : a[i] \in Sse!Char
      BY <2>1 DEF e
    <3>2. /\ SubSeq(a, 1, e) \in Seq(Sse!Char)
          /\ Len(SubSeq(a, 1, e)) = IF 1 <= e THEN e - 1 + 1 ELSE 0
          /\ \A i \in 1..e - 1 + 1 : SubSeq(a, 1, e)[i] = a[1 + i - 1]
      BY <3>1, SubSeqProperties
    <3>3. (IF 1 <= e THEN e - 1 + 1 ELSE 0) = e /\ e - 1 + 1 = e
      BY <1>1, <1>4 DEF e
    <3>4. \A i \in 1..e : 1 + i - 1 = i
      BY <3>1, SMTT(30)
    <3>5. QED
      BY <3>2, <3>3, <3>4 DEF e
  <2>3. a = c \o <<a[n]>>
    <3>1. SubSeq(a, 1, n) = SubSeq(a, 1, n - 1) \o <<a[n]>>
      BY <2>1, SubSeqRecursiveSecond
    <3>2. SubSeq(a, 1, n) = a
      BY SubSeqFull
    <3>3. QED
      BY <3>1, <3>2
  <2> HIDE DEF c
  <2>4. Paired(c)
    <3>0. DOMAIN c = 1..n - 1
      BY <2>2, LenProperties
    <3> SUFFICES ASSUME NEW i \in 1..n - 1, c[i] = CR PROVE i < n - 1 /\ c[i + 1] = LF
      BY <2>2, <3>0 DEF Paired
    <3>1. i \in 1..n /\ i < n /\ a[i] = CR
      BY <1>1, <2>2
    <3>2. a[i + 1] = LF
      BY <1>2, <3>1
    <3>3. i # n - 1
      <4>1. CASE i = n - 1
        <5>1. i + 1 = n
          BY <1>1, <4>1
        <5>2. QED
          BY <1>4, <3>2, <5>1, StreamAssumption
      <4>2. QED
        BY <4>1
    <3>4. i < n - 1 /\ i + 1 \in 1..n - 1
      <4> HIDE DEF n
      <4>1. QED
        BY <1>1, <3>1, <3>3
    <3>5. QED
      BY <2>2, <3>2, <3>4
  <2>5. <<a[n]>> \in Tails
    BY <1>4 DEF Tails
  <2>6. QED
    BY <2>2, <2>3, <2>4, <2>5
<1>5. QED
  BY <1>3, <1>4

\* What is left of plain text has no empty line, nor has it with a CR behind.
LEMMA LeftWithTail ==
    ASSUME NEW l \in Seq(Plain), Sse!Separators(l, 1) = {}, NEW d \in Tails
    PROVE  Sse!Events(l \o d) = [payloads |-> <<>>, left |-> l \o d]
<1>1. l \in Seq(Sse!Char) /\ d \in Seq(Sse!Char)
  BY PlainIsNormal, TailIsNormal
<1> DEFINE x == l \o d
           n == Len(l)
<1>2. /\ n \in Nat /\ Len(d) \in 0..1 /\ Len(x) = n + Len(d) /\ x \in Seq(Sse!Char)
      /\ \A j \in 1..n + Len(d) : x[j] = IF j <= n THEN l[j] ELSE d[j - n]
  <2>1. Len(d) \in 0..1
    <3>1. Len(<<>>) = 0 /\ Len(<<CR>>) = 1 /\ (d = <<>> \/ d = <<CR>>)
      BY DEF Tails
    <3>2. QED
      BY <3>1
  <2>2. QED
    BY <1>1, <2>1, LenProperties, ConcatProperties
<1> HIDE DEF x
<1>3. ASSUME NEW j \in Sse!Separators(x, 1) PROVE FALSE
  <2>1. j \in 1..Len(x) - 1 /\ x[j] = LF /\ x[j + 1] = LF
    BY DEF Sse!Separators
  <2>2. CASE j < n
    <3>1. x[j] = l[j] /\ x[j + 1] = l[j + 1] /\ j \in 1..n - 1
      <4>1. j \in 1..n + Len(d) /\ j + 1 \in 1..n + Len(d) /\ j <= n /\ j + 1 <= n
        BY <1>2, <2>1, <2>2
      <4>2. QED
        BY <1>2, <2>1, <2>2, <4>1
    <3>2. j \in Sse!Separators(l, 1)
      BY <2>1, <3>1 DEF Sse!Separators
    <3>3. QED
      BY <3>2
  <2>3. CASE ~(j < n)
    <3>1. Len(d) = 1 /\ j = n
      BY <1>2, <2>1, <2>3
    <3>2. d = <<CR>>
      <4>1. d = <<>> \/ d = <<CR>>
        BY DEF Tails
      <4>2. d # <<>>
        BY <3>1
      <4>3. QED
        BY <4>1, <4>2
    <3>3. x[n + 1] = d[1]
      BY <1>2, <3>1
    <3>4. QED
      BY <2>1, <3>1, <3>2, <3>3, StreamAssumption
  <2>4. QED
    BY <2>2, <2>3
<1>4. Sse!Separators(x, 1) = {}
  BY <1>3
<1>5. QED
  BY <1>2, <1>4, EventsEnd DEF x

\* What is left has the pieces put to it, as if they had come at once.
StreamInv ==
    /\ arrived \in Seq(Sse!Char) /\ rest \in Seq(Sse!Char) /\ Paired(arrived \o rest)
    /\ payloads = Sse!Events(Sse!Normalised(arrived)).payloads
    /\ buffer = Sse!Events(Sse!Normalised(arrived)).left

\* Nothing has arrived and nothing has come out.
LEMMA StreamStarts == ASSUME Sse!Init PROVE StreamInv
<1>1. /\ rest \in Sse!Stream /\ arrived = <<>> /\ buffer = <<>> /\ payloads = <<>>
  BY DEF Sse!Init
<1>2. rest \in Seq(Sse!Char) /\ Paired(rest)
  <2>1. PICK n \in 0..MaxStream : rest \in [1..n -> Sse!Char]
    BY <1>1 DEF Sse!Stream
  <2>2. rest \in Seq(Sse!Char)
    BY <2>1
  <2>3. \A i \in DOMAIN rest : rest[i] = CR => i < Len(rest) /\ rest[i + 1] = LF
    BY <1>1 DEF Sse!Stream
  <2>4. QED
    BY <2>2, <2>3 DEF Paired
<1>3. arrived \in Seq(Sse!Char) /\ arrived \o rest = rest
  BY <1>1, <1>2, EmptySeq, ConcatEmptySeq
<1>4. Sse!Normalised(arrived) = <<>> /\ <<>> \in Seq(Sse!Char)
  BY <1>1, <1>3, TailIsNormal DEF Tails
<1>5. Sse!Separators(<<>>, 1) = {}
  <2>1. Len(<<>>) = 0 /\ 1..0 - 1 = {}
    OBVIOUS
  <2>2. QED
    BY <2>1 DEF Sse!Separators
<1>6. Sse!Events(<<>>) = [payloads |-> <<>>, left |-> <<>>]
  BY <1>4, <1>5, EventsEnd
<1>7. QED
  BY <1>1, <1>2, <1>3, <1>4, <1>6 DEF StreamInv

\* A piece of any length keeps the events those of all that has arrived.
LEMMA FeedKeepsStream ==
    ASSUME StreamInv, NEW n \in 1..Len(rest), Sse!Feed(n)
    PROVE  StreamInv'
<1> DEFINE piece == SubSeq(rest, 1, n)
           more == SubSeq(rest, n + 1, Len(rest))
           events == Sse!Events(Sse!Buffered(piece))
<1>1. /\ rest' = more /\ buffer' = events.left
      /\ payloads' = payloads \o events.payloads /\ arrived' = arrived \o piece
  BY DEF Sse!Feed
<1>2. /\ arrived \in Seq(Sse!Char) /\ rest \in Seq(Sse!Char) /\ Paired(arrived \o rest)
      /\ payloads = Sse!Events(Sse!Normalised(arrived)).payloads
      /\ buffer = Sse!Events(Sse!Normalised(arrived)).left
  BY DEF StreamInv
<1>3. piece \in Seq(Sse!Char) /\ more \in Seq(Sse!Char) /\ piece \o more = rest
  <2>1. Len(rest) \in Nat /\ \A j \in 1..Len(rest) : rest[j] \in Sse!Char
    BY <1>2, LenProperties, ElementOfSeq
  <2>2. /\ n \in Int /\ n + 1 \in Int /\ Len(rest) \in Int
        /\ \A j \in 1..n : rest[j] \in Sse!Char
        /\ \A j \in n + 1..Len(rest) : rest[j] \in Sse!Char
    BY <2>1
  <2>3. piece \in Seq(Sse!Char)
    BY <2>2, SubSeqProperties
  <2>4. more \in Seq(Sse!Char)
    <3> DEFINE a == n + 1
               b == Len(rest)
    <3>1. a \in Int /\ b \in Int /\ \A j \in a..b : rest[j] \in Sse!Char
      BY <2>2
    <3> HIDE DEF a, b
    <3>2. SubSeq(rest, a, b) \in Seq(Sse!Char)
      BY <3>1, SubSeqProperties
    <3>3. QED
      BY <3>2 DEF a, b
  <2>5. 1 \in 1..Len(rest) + 1 /\ n \in 1 - 1..Len(rest) /\ Len(rest) \in n..Len(rest)
    BY <2>1
  <2>6. piece \o more = SubSeq(rest, 1, Len(rest))
    BY <1>2, <2>5, ConcatAdjacentSubSeq
  <2>7. QED
    BY <1>2, <2>3, <2>4, <2>6, SubSeqFull
<1> HIDE DEF piece, more
<1>4. /\ arrived' \in Seq(Sse!Char) /\ rest' \in Seq(Sse!Char)
      /\ arrived' \o rest' = arrived \o rest
  <2>1. arrived' \in Seq(Sse!Char) /\ rest' \in Seq(Sse!Char)
    BY <1>1, <1>2, <1>3, ConcatProperties
  <2>2. (arrived \o piece) \o more = arrived \o (piece \o more)
    <3> DEFINE u == arrived
               v == piece
               z == more
    <3>1. u \in Seq(Sse!Char) /\ v \in Seq(Sse!Char) /\ z \in Seq(Sse!Char)
      BY <1>2, <1>3
    <3> HIDE DEF u, v, z
    <3>2. (u \o v) \o z = u \o (v \o z)
      BY <3>1, ConcatAssociative
    <3>3. QED
      BY <3>2 DEF u, v, z
  <2>3. QED
    BY <1>1, <1>3, <2>1, <2>2
<1>5. PICK c \in Seq(Sse!Char), d \in Tails : Paired(c) /\ arrived = c \o d
  BY <1>2, CutLeavesTail
<1> DEFINE w == Sse!Normalised(c)
           l == Sse!Events(w).left
           p == Sse!Events(w).payloads
           m == Sse!Normalised(d \o piece)
<1>6. w \in Seq(Plain) /\ d \in Seq(Sse!Char) /\ Sse!Normalised(d) = d /\ w \in Seq(Sse!Char)
  BY <1>5, NormalTyped, TailIsNormal, PlainIsNormal
<1>7. l \in Seq(Plain) /\ Sse!Separators(l, 1) = {} /\ p \in Seq(Payloads(Plain))
  <2> HIDE DEF w
  <2>1. QED
    BY <1>6, EventsTyped DEF Proceeds
<1>8. Sse!Normalised(arrived) = w \o d
  BY <1>5, <1>6, NormalConcat
<1> HIDE DEF w
<1>9. payloads = p /\ buffer = l \o d
  <2>1. Splits(w, d)
    BY <1>6, EventsSplit
  <2>2. Sse!Events(l \o d) = [payloads |-> <<>>, left |-> l \o d]
    <3> HIDE DEF l
    <3>1. QED
      BY <1>7, LeftWithTail
  <2>3. /\ Sse!Events(w \o d).payloads = p \o <<>>
        /\ Sse!Events(w \o d).left = l \o d
    BY <2>1, <2>2 DEF Splits
  <2>4. p \o <<>> = p
    <3> HIDE DEF p
    <3>1. QED
      BY <1>7, ConcatEmptySeq
  <2>5. QED
    BY <1>2, <1>8, <2>3, <2>4
<1>10. d \o piece \in Seq(Sse!Char) /\ m \in Seq(Sse!Char)
  BY <1>3, <1>6, ConcatProperties, NormalTyped
<1>11. Sse!Buffered(piece) = l \o m
  <2> HIDE DEF l, m
  <2>1. l \in Seq(Sse!Char) /\ Sse!Normalised(l) = l /\ Paired(l)
    BY <1>7, PlainIsNormal
  <2>2. (l \o d) \o piece = l \o (d \o piece)
    <3> DEFINE u == l
               v == d
               z == piece
    <3>1. u \in Seq(Sse!Char) /\ v \in Seq(Sse!Char) /\ z \in Seq(Sse!Char)
      BY <1>3, <1>6, <2>1
    <3> HIDE DEF u, v, z
    <3>2. (u \o v) \o z = u \o (v \o z)
      BY <3>1, ConcatAssociative, SMTT(30)
    <3>3. QED
      BY <3>2 DEF u, v, z
  <2>3. Sse!Normalised(l \o (d \o piece)) = Sse!Normalised(l) \o Sse!Normalised(d \o piece)
    BY <1>10, <2>1, NormalConcat
  <2>4. QED
    BY <1>9, <2>1, <2>2, <2>3 DEF Sse!Buffered, m
<1>12. Sse!Normalised(arrived') = w \o m
  <2>1. (c \o d) \o piece = c \o (d \o piece)
    <3> DEFINE u == c
               v == d
               z == piece
    <3>1. u \in Seq(Sse!Char) /\ v \in Seq(Sse!Char) /\ z \in Seq(Sse!Char)
      BY <1>3, <1>5, <1>6
    <3> HIDE DEF u, v, z
    <3>2. (u \o v) \o z = u \o (v \o z)
      BY <3>1, ConcatAssociative
    <3>3. QED
      BY <3>2 DEF u, v, z
  <2>2. arrived' = c \o (d \o piece)
    BY <1>1, <1>5, <2>1
  <2>3. Sse!Normalised(c \o (d \o piece)) = Sse!Normalised(c) \o Sse!Normalised(d \o piece)
    BY <1>5, <1>10, NormalConcat
  <2>4. QED
    BY <2>2, <2>3 DEF w
<1>13. Splits(w, m)
  <2> HIDE DEF m
  <2>1. QED
    BY <1>6, <1>10, EventsSplit
<1>14. /\ Sse!Events(w \o m).payloads = payloads \o events.payloads
       /\ Sse!Events(w \o m).left = events.left
  BY <1>9, <1>11, <1>13 DEF Splits
<1> HIDE DEF events, m
<1>15. /\ payloads' = Sse!Events(Sse!Normalised(arrived')).payloads
       /\ buffer' = Sse!Events(Sse!Normalised(arrived')).left
  BY <1>1, <1>12, <1>14
<1>16. Paired(arrived' \o rest')
  BY <1>2, <1>4
<1>17. QED
  BY <1>4, <1>15, <1>16 DEF StreamInv

(***************************************************************************)
(* ResumeText                                                              *)
(***************************************************************************)
Letter == {Open, Close, NL, A}
Ink == {NL, A}   \* what is no marker
Inked(t) == {i \in DOMAIN t : t[i] # NL}

\* Words is a choice of letters.
LEMMA WordsArePicked ==
    ASSUME NEW t, NEW at PROVE Text!Words(t, at) = Picked(t, at \cap Inked(t))
<1> DEFINE p == [i \in DOMAIN t |-> IF i \in at /\ t[i] # NL THEN <<t[i]>> ELSE <<>>]
<1>1. Pieces(t, at \cap Inked(t)) = p
  BY DEF Pieces, Inked
<1>2. Text!FlattenSeq(p) = FlattenSeq(p)
  BY DEF Text!FlattenSeq, FlattenSeq
<1>3. Text!Words(t, at) = Text!FlattenSeq(p)
  BY DEF Text!Words
<1>4. QED
  BY <1>1, <1>2, <1>3 DEF Picked

\* Only the positions within the text count.
LEMMA WordsSame ==
    ASSUME NEW t, NEW at, NEW bt, \A i \in DOMAIN t : i \in at <=> i \in bt
    PROVE  Text!Words(t, at) = Text!Words(t, bt)
<1> DEFINE a == at \cap Inked(t)
           b == bt \cap Inked(t)
<1>1. \A i \in DOMAIN t : i \in a <=> i \in b
  OBVIOUS
<1>2. Picked(t, a) = Picked(t, b)
  <2> HIDE DEF a, b
  <2>1. QED
    BY <1>1, PickedSame
<1>3. QED
  BY <1>2, WordsArePicked

\* The words of two texts in a row.
LEMMA WordsConcat ==
    ASSUME NEW T1, NEW x \in Seq(T1), NEW y \in Seq(T1), NEW at,
           NEW bt, \A j \in DOMAIN y : j \in bt <=> Len(x) + j \in at
    PROVE  Text!Words(x \o y, at) = Text!Words(x, at) \o Text!Words(y, bt)
<1> DEFINE n == Len(x)
           m == Len(y)
           z == x \o y
           a == at \cap Inked(z)
           b == bt \cap Inked(y)
<1>1. /\ n \in Nat /\ m \in Nat /\ DOMAIN x = 1..n /\ DOMAIN y = 1..m
      /\ z \in Seq(T1) /\ Len(z) = n + m /\ DOMAIN z = 1..n + m
  BY LenProperties, ConcatProperties
<1>2. /\ \A i \in 1..n : z[i] = x[i]
      /\ \A j \in 1..m : z[n + j] = y[j]
  BY ConcatProperties
<1> HIDE DEF z
<1>3. \A i \in DOMAIN x : i \in a <=> i \in at \cap Inked(x)
  <2> TAKE i \in DOMAIN x
  <2>1. i \in DOMAIN z /\ z[i] = x[i]
    <3> HIDE DEF n, m
    <3>1. QED
      BY <1>1, <1>2
  <2>2. QED
    BY <2>1 DEF Inked
<1>4. \A j \in DOMAIN y : j \in b <=> Len(x) + j \in a
  <2> TAKE j \in DOMAIN y
  <2>1. Len(x) + j \in DOMAIN z /\ z[Len(x) + j] = y[j]
    BY <1>1, <1>2
  <2>2. QED
    BY <2>1 DEF Inked
<1>5. Picked(z, a) = Picked(x, a) \o Picked(y, b)
  <2> HIDE DEF a, b
  <2>1. QED
    BY <1>4, PickedConcat DEF z
<1>6. Picked(x, a) = Picked(x, at \cap Inked(x))
  <2> HIDE DEF a
  <2>1. QED
    BY <1>3, PickedSame
<1>7. QED
  BY <1>5, <1>6, WordsArePicked DEF z

\* Two texts in a row say what the first says, and then what the second says.
LEMMA SaidConcat ==
    ASSUME NEW T1, NEW x \in Seq(T1), NEW y \in Seq(T1)
    PROVE  Text!Said(x \o y) = Text!Said(x) \o Text!Said(y)
<1> DEFINE n == Len(x)
           m == Len(y)
           at == DOMAIN (x \o y)
<1>1. n \in Nat /\ m \in Nat /\ DOMAIN x = 1..n /\ DOMAIN y = 1..m /\ at = 1..n + m
  BY LenProperties, ConcatProperties
<1>2. \A j \in DOMAIN y : j \in DOMAIN y <=> Len(x) + j \in at
  BY <1>1
<1>3. \A i \in DOMAIN x : i \in at <=> i \in DOMAIN x
  <2> HIDE DEF n, m
  <2>1. QED
    BY <1>1
<1> HIDE DEF at
<1>4. Text!Words(x \o y, at) = Text!Words(x, at) \o Text!Words(y, DOMAIN y)
  BY <1>2, WordsConcat
<1>5. Text!Words(x, at) = Text!Words(x, DOMAIN x)
  BY <1>3, WordsSame
<1>6. QED
  BY <1>4, <1>5 DEF Text!Said, at

\* Where only line ends are chosen there are no words.
LEMMA SilenceSaysNothing ==
    ASSUME NEW T1, NEW t \in Seq(T1), NEW at, at \cap Inked(t) = {}
    PROVE  Text!Words(t, at) = <<>>
<1> DEFINE a == at \cap Inked(t)
<1>1. a \cap DOMAIN t = {}
  OBVIOUS
<1> HIDE DEF a
<1>2. Picked(t, a) = <<>>
  BY <1>1, PickedNone
<1>3. QED
  BY <1>2, WordsArePicked DEF a

\* The last x in t, or 0.
LEMMA LastIs ==
    ASSUME NEW T1, NEW t \in Seq(T1), NEW x
    PROVE  /\ Text!LastAt(t, x) \in 0..Len(t)
           /\ Text!LastAt(t, x) > 0 => t[Text!LastAt(t, x)] = x
           /\ \A j \in 1..Len(t) : t[j] = x => j \leq Text!LastAt(t, x)
<1> DEFINE n == Len(t)
           at == {i \in DOMAIN t : t[i] = x}
<1>1. n \in Nat /\ DOMAIN t = 1..n
  BY LenProperties
<1>2. CASE at = {}
  <2>1. Text!LastAt(t, x) = 0
    BY <1>2 DEF Text!LastAt
  <2>2. QED
    BY <1>1, <1>2, <2>1
<1>3. CASE at # {}
  <2> DEFINE back == {k \in 0..n : n - k \in at}
  <2>1. back \in SUBSET Nat /\ back # {}
    <3>1. PICK i \in at : TRUE
      BY <1>3
    <3>2. n - i \in 0..n /\ n - (n - i) = i
      BY <1>1, <3>1
    <3>3. n - i \in back
      BY <3>1, <3>2
    <3>4. QED
      BY <3>3
  <2>2. PICK m \in back : \A k \in back : m \leq k
    <3> HIDE DEF back
    <3>1. QED
      BY <2>1, LeastOf
  <2>3. n - m \in at /\ m \in 0..n
    OBVIOUS
  <2>4. ASSUME NEW j \in at PROVE j \leq n - m
    <3>1. j \in 1..n /\ n - j \in 0..n /\ n - (n - j) = j
      BY <1>1
    <3>2. n - j \in back
      BY <3>1
    <3>3. m \leq n - j
      BY <2>2, <3>2
    <3>4. QED
      BY <1>1, <2>3, <3>1, <3>3
  <2> DEFINE l == Text!LastAt(t, x)
  <2>5. l \in at /\ \A j \in at : j \leq l
    <3>1. \E i \in at : \A j \in at : j \leq i
      BY <2>3, <2>4
    <3>2. l = CHOOSE i \in at : \A j \in at : j \leq i
      BY <1>3, SMTT(30) DEF Text!LastAt
    <3> HIDE DEF at, l
    <3>3. QED
      BY <3>1, <3>2
  <2> HIDE DEF l, n
  <2>6. QED
    BY <1>1, <2>5 DEF l, n
<1>4. QED
  BY <1>2, <1>3

\* A text and what follows from its i-th letter on.
LEMMA CutAt ==
    ASSUME NEW T1, NEW S, NEW t \in Seq(T1), NEW i \in 1..Len(t) + 1,
           \A j \in i..Len(t) : t[j] \in S
    PROVE  /\ Text!From(t, i) \in Seq(S) /\ Len(Text!From(t, i)) = Len(t) - i + 1
           /\ SubSeq(t, 1, i - 1) \in Seq(T1) /\ Len(SubSeq(t, 1, i - 1)) = i - 1
           /\ \A j \in 1..i - 1 : SubSeq(t, 1, i - 1)[j] = t[j]
           /\ t = SubSeq(t, 1, i - 1) \o Text!From(t, i)
<1> DEFINE n == Len(t)
           k == i - 1
<1>1. n \in Nat /\ \A j \in 1..n : t[j] \in T1
  BY LenProperties, ElementOfSeq
<1>2. /\ i \in Int /\ n \in Int /\ k \in Int /\ k \in 0..n /\ i = k + 1
      /\ \A j \in 1..k : t[j] \in T1 /\ 1 + j - 1 = j
  BY <1>1
<1> HIDE DEF k
<1>3. /\ SubSeq(t, 1, k) \in Seq(T1)
      /\ Len(SubSeq(t, 1, k)) = IF 1 <= k THEN k - 1 + 1 ELSE 0
      /\ \A j \in 1..k - 1 + 1 : SubSeq(t, 1, k)[j] = t[1 + j - 1]
  BY <1>2, SubSeqProperties
<1>4. (IF 1 <= k THEN k - 1 + 1 ELSE 0) = k /\ k - 1 + 1 = k
  BY <1>2
<1>5. /\ SubSeq(t, i, n) \in Seq(S)
      /\ Len(SubSeq(t, i, n)) = IF i <= n THEN n - i + 1 ELSE 0
  <2> HIDE DEF n
  <2>1. \A j \in i..n : t[j] \in S
    BY DEF n
  <2>2. QED
    BY <1>2, <2>1, SubSeqProperties
<1>6. (IF i <= n THEN n - i + 1 ELSE 0) = n - i + 1
  BY <1>1, <1>2
<1>7. 1 \in 1..n + 1 /\ k \in 1 - 1..n /\ n \in k..n
  BY <1>1, <1>2
<1>8. SubSeq(t, 1, k) \o SubSeq(t, k + 1, n) = SubSeq(t, 1, n)
  BY <1>7, ConcatAdjacentSubSeq
<1>9. SubSeq(t, 1, n) = t
  BY SubSeqFull
<1>10. Text!From(t, i) = SubSeq(t, i, n)
  BY DEF Text!From
<1>11. k = i - 1
  BY DEF k
<1>12. QED
  BY <1>2, <1>3, <1>4, <1>5, <1>6, <1>8, <1>9, <1>10, <1>11

\* What is said is made of the letters of the text.
LEMMA SaidTyped ==
    ASSUME NEW S, NEW y \in Seq(S)
    PROVE  Text!Said(y) \in Seq(S)
<1> DEFINE at == DOMAIN y \cap Inked(y)
<1>1. \A j \in at \cap DOMAIN y : y[j] \in S
  <2>1. DOMAIN y = 1..Len(y) /\ \A j \in 1..Len(y) : y[j] \in S
    BY LenProperties, ElementOfSeq
  <2>2. QED
    BY <2>1
<1> HIDE DEF at
<1>2. Picked(y, at) \in Seq(S)
  BY <1>1, PickedTyped
<1>3. QED
  BY <1>2, WordsArePicked DEF at, Text!Said

\* What is stripped are line ends.
LEMMA StripSaysTheSame ==
    ASSUME NEW S, NEW t \in Seq(S)
    PROVE  Text!LeftStrip(t) \in Seq(S) /\ Text!Said(Text!LeftStrip(t)) = Text!Said(t)
<1> DEFINE kept == {i \in DOMAIN t : t[i] # NL}
<1>1. Len(t) \in Nat /\ DOMAIN t = 1..Len(t) /\ \A i \in 1..Len(t) : t[i] \in S
  BY LenProperties, ElementOfSeq
<1>2. CASE kept = {}
  <2>1. Text!LeftStrip(t) = <<>>
    BY <1>2 DEF Text!LeftStrip
  <2>2. Text!Said(t) = <<>>
    <3>1. DOMAIN t \cap Inked(t) = {}
      BY <1>2 DEF Inked
    <3>2. QED
      BY <3>1, SilenceSaysNothing DEF Text!Said
  <2>3. <<>> \in Seq(S) /\ DOMAIN <<>> = {}
    OBVIOUS
  <2>4. Text!Said(<<>>) = <<>>
    <3>1. DOMAIN <<>> \cap Inked(<<>>) = {}
      BY <2>3
    <3>2. QED
      BY <2>3, <3>1, SilenceSaysNothing DEF Text!Said
  <2>5. QED
    BY <2>1, <2>2, <2>3, <2>4
<1>3. CASE kept # {}
  <2>1. kept \in SUBSET Nat
    BY <1>1
  <2> DEFINE k == CHOOSE i \in kept : \A j \in kept : i \leq j
  <2>2. k \in kept /\ \A j \in kept : k \leq j
    <3>1. PICK i \in kept : \A j \in kept : i \leq j
      <4> HIDE DEF kept
      <4>1. QED
        BY <1>3, <2>1, LeastOf
    <3> HIDE DEF kept
    <3>2. QED
      BY <3>1
  <2>3. Text!LeftStrip(t) = Text!From(t, k)
    BY <1>3 DEF Text!LeftStrip
  <2> HIDE DEF k
  <2>4. /\ k \in 1..Len(t) + 1 /\ \A j \in k..Len(t) : t[j] \in S
        /\ \A j \in 1..k - 1 : j \in 1..Len(t)
    BY <1>1, <2>2
  <2> DEFINE x == SubSeq(t, 1, k - 1)
             y == Text!From(t, k)
  <2>5. /\ y \in Seq(S) /\ x \in Seq(S) /\ Len(x) = k - 1 /\ t = x \o y
        /\ \A j \in 1..k - 1 : x[j] = t[j]
    BY <2>4, CutAt
  <2> HIDE DEF x, y
  <2>6. Text!Said(x) = <<>>
    <3>1. DOMAIN x = 1..k - 1
      BY <2>5, LenProperties
    <3>2. DOMAIN x \cap Inked(x) = {}
      <4> SUFFICES ASSUME NEW j \in 1..k - 1 PROVE x[j] = NL
        BY <3>1 DEF Inked
      <4>1. j \in DOMAIN t /\ ~(k \leq j)
        BY <1>1, <2>4
      <4>2. t[j] = NL
        BY <2>2, <4>1
      <4>3. QED
        BY <2>5, <4>2
    <3>3. QED
      BY <2>5, <3>2, SilenceSaysNothing DEF Text!Said
  <2>7. Text!Said(t) = <<>> \o Text!Said(y)
    BY <2>5, <2>6, SaidConcat
  <2>8. Text!Said(y) \in Seq(S)
    BY <2>5, SaidTyped
  <2>9. QED
    BY <2>3, <2>5, <2>7, <2>8, ConcatEmptySeq DEF y
<1>4. QED
  BY <1>2, <1>3

\* A text without markers is shown as it is.
LEMMA PlainIsShown ==
    ASSUME NEW y \in Seq(Ink)
    PROVE  Text!Shown(y) = Text!Said(y)
<1>1. DOMAIN y = 1..Len(y) /\ Len(y) \in Nat /\ \A j \in 1..Len(y) : y[j] \in Ink
  BY LenProperties, ElementOfSeq
<1>2. \A j \in 1..Len(y) : y[j] # Open /\ y[j] # Close
  BY <1>1, TextAssumption DEF Ink
<1>3. \A i \in DOMAIN y : i \in Text!Outside(y) <=> i \in DOMAIN y
  <2> TAKE i \in DOMAIN y
  <2>1. \A j \in i..Len(y) : j \in 1..Len(y)
    BY <1>1
  <2>2. \A j \in 1..i : j \in 1..Len(y)
    BY <1>1
  <2>3. QED
    BY <1>2, <2>1, <2>2 DEF Text!Outside
<1>4. QED
  BY <1>3, WordsSame DEF Text!Shown, Text!Said

\* Text behind a message that does not end inside the thinking is shown.
Settled(t) == \A j \in 1..Len(t) : t[j] = Open => \E k \in j..Len(t) : t[k] = Close

\* Text behind a message that is not inside the thinking is shown as it is.
LEMMA ShownGoesOn ==
    ASSUME NEW t \in Seq(Letter), Settled(t), NEW y \in Seq(Ink)
    PROVE  Text!Shown(t \o y) = Text!Shown(t) \o Text!Said(y)
<1> DEFINE n == Len(t)
           m == Len(y)
           z == t \o y
           at == Text!Outside(z)
<1>1. y \in Seq(Letter)
  BY DEF Ink, Letter
<1>2. /\ n \in Nat /\ m \in Nat /\ DOMAIN t = 1..n /\ DOMAIN y = 1..m
      /\ Len(z) = n + m /\ DOMAIN z = 1..n + m /\ \A j \in 1..m : y[j] \in Ink
  <2>1. n \in Nat /\ m \in Nat /\ DOMAIN t = 1..n /\ DOMAIN y = 1..m
    BY LenProperties
  <2>2. \A j \in 1..m : y[j] \in Ink
    BY ElementOfSeq
  <2>3. Len(z) = n + m /\ z \in Seq(Letter)
    BY <1>1, ConcatProperties
  <2>4. DOMAIN z = 1..Len(z)
    BY <2>3, LenProperties
  <2>5. QED
    BY <2>1, <2>2, <2>3, <2>4
<1>3. /\ \A i \in 1..n : z[i] = t[i]
      /\ \A j \in 1..m : z[n + j] = y[j]
  BY <1>1, ConcatProperties
<1>4. \A j \in 1..n + m : ~(j \leq n) => z[j] \in Ink
  <2> TAKE j \in 1..n + m
  <2> HAVE ~(j \leq n)
  <2>1. j - n \in 1..m /\ n + (j - n) = j
    BY <1>2
  <2>2. QED
    BY <1>2, <1>3, <2>1
<1>5. \A j \in 1..n + m : ~(j \leq n) => z[j] # Open /\ z[j] # Close
  BY <1>4, TextAssumption DEF Ink
<1> HIDE DEF z, n, m
<1>6. ASSUME NEW i \in 1..n PROVE i \in at <=> i \in Text!Outside(t)
  <2>1. (\A j \in i..Len(z) : z[j] # Close) <=> (\A j \in i..Len(t) : t[j] # Close)
    <3>1. ASSUME \A j \in i..n + m : z[j] # Close, NEW j \in i..n PROVE t[j] # Close
      <4>1. j \in i..n + m /\ j \in 1..n
        BY <1>2
      <4>2. QED
        BY <1>3, <3>1, <4>1
    <3>2. ASSUME \A j \in i..n : t[j] # Close, NEW j \in i..n + m PROVE z[j] # Close
      <4>1. CASE j \leq n
        <5>1. j \in i..n /\ j \in 1..n
          BY <1>2, <4>1
        <5>2. QED
          BY <1>3, <3>2, <5>1
      <4>2. CASE ~(j \leq n)
        <5>1. j \in 1..n + m
          BY <1>2
        <5>2. QED
          BY <1>5, <4>2, <5>1
      <4>3. QED
        BY <4>1, <4>2
    <3>3. Len(z) = n + m /\ Len(t) = n
      BY <1>2 DEF n
    <3>4. QED
      BY <3>1, <3>2, <3>3
  <2>2. \A k \in 1..i : z[k] = t[k]
    <3> TAKE k \in 1..i
    <3>1. k \in 1..n
      BY <1>2
    <3>2. QED
      BY <1>3, <3>1
  <2>3. \A j \in 1..i : \A k \in j..i : k \in 1..i
    BY <1>2
  <2>4. i \in DOMAIN z /\ i \in DOMAIN t
    BY <1>2
  <2>5. (\A j \in 1..i : z[j] = Open => \E k \in j..i : z[k] = Close)
        <=> (\A j \in 1..i : t[j] = Open => \E k \in j..i : t[k] = Close)
    BY <2>2, <2>3
  <2>6. QED
    BY <2>1, <2>4, <2>5 DEF Text!Outside
<1>7. ASSUME NEW j \in 1..m PROVE n + j \in at
  <2> DEFINE i == n + j
  <2>1. i \in 1..n + m /\ ~(i \leq n)
    BY <1>2
  <2> HIDE DEF i
  <2>2. \A k \in i..n + m : z[k] # Close
    <3> TAKE k \in i..n + m
    <3>1. k \in 1..n + m /\ ~(k \leq n)
      BY <1>2, <2>1
    <3>2. QED
      BY <1>5, <3>1
  <2>3. ASSUME NEW o \in 1..i, z[o] = Open PROVE \E k \in o..i : z[k] = Close
    <3>1. o \in 1..n + m
      BY <1>2, <2>1
    <3>2. o \in 1..n
      BY <1>2, <1>5, <2>3, <3>1
    <3>3. t[o] = Open
      BY <1>3, <2>3, <3>2
    <3>4. PICK k \in o..n : t[k] = Close
      BY <3>2, <3>3 DEF Settled, n
    <3>5. k \in o..i /\ k \in 1..n
      BY <1>2, <2>1, <3>2
    <3>6. QED
      BY <1>3, <3>4, <3>5
  <2>4. QED
    BY <1>2, <2>1, <2>2, <2>3 DEF Text!Outside, i
<1> HIDE DEF at
<1>8. \A j \in DOMAIN y : j \in DOMAIN y <=> Len(t) + j \in at
  BY <1>2, <1>7 DEF n
<1>9. Text!Words(z, at) = Text!Words(t, at) \o Text!Words(y, DOMAIN y)
  <2> DEFINE bt == DOMAIN y
  <2>1. t \in Seq(Letter) /\ \A j \in DOMAIN y : j \in bt <=> Len(t) + j \in at
    BY <1>8
  <2> HIDE DEF bt
  <2>2. Text!Words(t \o y, at) = Text!Words(t, at) \o Text!Words(y, bt)
    BY <1>1, <2>1, WordsConcat, SMTT(60)
  <2>3. QED
    BY <2>2 DEF z, bt
<1>10. Text!Words(t, at) = Text!Words(t, Text!Outside(t))
  BY <1>2, <1>6, WordsSame
<1>11. QED
  BY <1>9, <1>10 DEF Text!Shown, Text!Said, z, at

\* The messages to continue, and what is kept of them.
LEMMA OriginalIs ==
    ASSUME NEW t \in Text!Originals
    PROVE  /\ t \in Seq(Letter) /\ Len(t) \in Nat /\ DOMAIN t = 1..Len(t)
           /\ \A i \in 1..Len(t) : t[i] \in Letter
           /\ \A i \in 1..Len(t) : /\ t[i] = Open => i = 1
                                   /\ t[i] = Close => t[1] = Open /\ i > 1
                                        /\ \A j \in 1..Len(t) : t[j] = Close => j = i
<1>1. PICK n \in 0..MaxText : t \in [1..n -> Letter]
  BY DEF Text!Originals, Text!Texts, Letter
<1>2. n \in Nat
  BY TextAssumption
<1>3. t \in Seq(Letter)
  BY <1>1, <1>2
<1>4. Len(t) \in Nat /\ DOMAIN t = 1..Len(t) /\ \A i \in 1..Len(t) : t[i] \in Letter
  BY <1>3, LenProperties, ElementOfSeq
<1>5. \A i \in DOMAIN t : /\ t[i] = Open => i = 1
                          /\ t[i] = Close => t[1] = Open /\ i > 1
                               /\ \A j \in DOMAIN t : t[j] = Close => j = i
  BY DEF Text!Originals
<1>6. QED
  BY <1>3, <1>4, <1>5

\* In such a message thinking that has begun has ended, or it is unclosed.
LEMMA SettledOrNot ==
    ASSUME NEW t \in Text!Originals
    PROVE  Settled(t) <=> ~Text!Unclosed(t)
<1> DEFINE n == Len(t)
           o == Text!LastAt(t, Open)
           c == Text!LastAt(t, Close)
<1>1. /\ n \in Nat /\ \A i \in 1..n : t[i] = Open => i = 1
      /\ \A i \in 1..n : t[i] = Close => t[1] = Open /\ i > 1
  BY OriginalIs
<1>2. t \in Seq(Letter)
  BY OriginalIs
<1>3. o \in 0..n /\ (o > 0 => t[o] = Open) /\ \A j \in 1..n : t[j] = Open => j \leq o
  <2> HIDE DEF o, n
  <2>1. QED
    BY <1>2, LastIs DEF o, n
<1>4. c \in 0..n /\ (c > 0 => t[c] = Close) /\ \A j \in 1..n : t[j] = Close => j \leq c
  BY <1>2, LastIs
<1>5. Text!Unclosed(t) <=> o > c
  BY DEF Text!Unclosed
<1>6. Settled(t) <=> \A j \in 1..n : t[j] = Open => \E k \in j..n : t[k] = Close
  BY DEF Settled
<1> HIDE DEF n, o, c
<1>7. CASE o = 0
  <2>1. \A j \in 1..n : t[j] # Open
    BY <1>1, <1>3, <1>7
  <2>2. ~(o > c)
    BY <1>1, <1>4, <1>7
  <2>3. QED
    BY <1>5, <1>6, <2>1, <2>2
<1>8. CASE o # 0
  <2>1. o \in 1..n /\ t[o] = Open
    BY <1>1, <1>3, <1>8
  <2>2. o = 1
    BY <1>1, <2>1
  <2>3. ASSUME o > c PROVE ~Settled(t)
    <3>1. \A k \in o..n : k \in 1..n /\ ~(k \leq c)
      BY <1>1, <1>4, <2>1, <2>3
    <3>2. \A k \in o..n : t[k] # Close
      BY <1>4, <3>1
    <3>3. QED
      BY <1>6, <2>1, <3>2
  <2>4. ASSUME ~(o > c), NEW j \in 1..n, t[j] = Open PROVE \E k \in j..n : t[k] = Close
    <3>1. j = 1 /\ c > 0 /\ c \in 1..n
      BY <1>1, <1>4, <2>2, <2>4
    <3>2. c \in j..n /\ t[c] = Close
      BY <1>4, <3>1
    <3>3. QED
      BY <3>2
  <2>5. QED
    BY <1>5, <1>6, <2>3, <2>4
<1>9. QED
  BY <1>7, <1>8

\* _extract_visible_answer_content takes just what the message shows, and no
\* marker with it.
LEMMA VisibleIsShown ==
    ASSUME NEW t \in Text!Originals
    PROVE  /\ Text!Visible(t) \in Seq(Ink)
           /\ Text!Said(Text!Visible(t)) = Text!Shown(t)
<1> DEFINE n == Len(t)
           c == Text!LastAt(t, Close)
<1>1. /\ t \in Seq(Letter) /\ n \in Nat /\ DOMAIN t = 1..n /\ \A i \in 1..n : t[i] \in Letter
      /\ \A i \in 1..n : t[i] = Open => i = 1
      /\ \A i \in 1..n : t[i] = Close => t[1] = Open /\ i > 1
  BY OriginalIs
<1>2. c \in 0..n /\ (c > 0 => t[c] = Close) /\ \A j \in 1..n : t[j] = Close => j \leq c
  BY <1>1, LastIs
<1>3. CASE c > 0
  <2>1. c \in 1..n /\ c > 1 /\ c + 1 \in 1..n + 1 /\ t[1] = Open
    <3> HIDE DEF c, n
    <3>1. c \in 1..n /\ c + 1 \in 1..n + 1
      BY <1>1, <1>2, <1>3
    <3>2. QED
      BY <1>1, <1>2, <1>3, <3>1
  <2>2. \A j \in c + 1..n : t[j] \in Ink
    <3> TAKE j \in c + 1..n
    <3> HIDE DEF c, n
    <3>1. j \in 1..n /\ ~(j \leq c) /\ j # 1
      BY <1>1, <2>1
    <3>2. t[j] \in Letter /\ t[j] # Open /\ t[j] # Close
      BY <1>1, <1>2, <3>1
    <3>3. QED
      BY <3>2 DEF Letter, Ink
  <2> DEFINE x == SubSeq(t, 1, (c + 1) - 1)
             y == Text!From(t, c + 1)
  <2>3. /\ y \in Seq(Ink) /\ Len(y) = n - (c + 1) + 1
        /\ x \in Seq(Letter) /\ Len(x) = (c + 1) - 1
        /\ \A j \in 1..(c + 1) - 1 : x[j] = t[j]
        /\ t = x \o y
    <3> DEFINE i == c + 1
    <3>1. i \in 1..Len(t) + 1 /\ \A j \in i..Len(t) : t[j] \in Ink
      BY <2>1, <2>2
    <3> HIDE DEF i
    <3>2. /\ Text!From(t, i) \in Seq(Ink) /\ Len(Text!From(t, i)) = Len(t) - i + 1
          /\ SubSeq(t, 1, i - 1) \in Seq(Letter) /\ Len(SubSeq(t, 1, i - 1)) = i - 1
          /\ \A j \in 1..i - 1 : SubSeq(t, 1, i - 1)[j] = t[j]
          /\ t = SubSeq(t, 1, i - 1) \o Text!From(t, i)
      BY <1>1, <3>1, CutAt
    <3>3. QED
      BY <3>2 DEF i
  <2>4. (c + 1) - 1 = c
    BY <1>1, <1>2
  <2>5. Text!Visible(t) = Text!LeftStrip(y)
    BY <1>3 DEF Text!Visible, Text!AfterThinking
  <2> HIDE DEF x, y
  <2>6. Len(x) = c /\ \A j \in 1..c : x[j] = t[j]
    BY <2>3, <2>4
  <2>7. Settled(x)
    <3> HIDE DEF c, n
    <3> SUFFICES ASSUME NEW j \in 1..c PROVE \E k \in j..c : x[k] = Close
      BY <2>6 DEF Settled
    <3>1. c \in j..c /\ c \in 1..c
      BY <1>1, <2>1
    <3>2. x[c] = Close
      BY <1>2, <1>3, <2>6, <3>1
    <3>3. QED
      BY <3>1, <3>2
  <2>8. Text!Shown(x) = <<>>
    <3>1. c \in Nat /\ c \in 1..c /\ x[c] = Close /\ DOMAIN x = 1..c
      <4>1. c \in Nat /\ c \in 1..c
        BY <1>1, <2>1
      <4>2. DOMAIN x = 1..c
        BY <2>3, <2>6, LenProperties
      <4>3. QED
        BY <1>2, <1>3, <2>6, <4>1, <4>2
    <3>2. Text!Outside(x) = {}
      <4> SUFFICES ASSUME NEW i \in 1..c, \A j \in i..c : x[j] # Close PROVE FALSE
        BY <2>6, <3>1 DEF Text!Outside
      <4> HIDE DEF c
      <4>1. c \in i..c
        BY <3>1
      <4>2. QED
        BY <3>1, <4>1
    <3>3. Text!Outside(x) \cap Inked(x) = {}
      BY <3>2
    <3>4. QED
      BY <2>3, <3>3, SilenceSaysNothing DEF Text!Shown
  <2>9. Text!Shown(t) = <<>> \o Text!Said(y)
    BY <2>3, <2>7, <2>8, ShownGoesOn
  <2>10. Text!Said(y) \in Seq(Ink)
    BY <2>3, SaidTyped
  <2>11. Text!Shown(t) = Text!Said(y)
    BY <2>9, <2>10, ConcatEmptySeq
  <2>12. QED
    BY <2>3, <2>5, <2>11, StripSaysTheSame
<1>4. CASE ~(c > 0)
  <2>1. \A j \in 1..n : t[j] # Close
    <3> HIDE DEF c, n
    <3>1. QED
      BY <1>1, <1>2, <1>4
  <2>2. CASE Text!Unclosed(t)
    <3>1. Text!Visible(t) = <<>>
      BY <1>4, <2>2 DEF Text!Visible
    <3>2. <<>> \in Seq(Ink) /\ DOMAIN <<>> = {}
      OBVIOUS
    <3>3. Text!Said(<<>>) = <<>>
      <4>1. DOMAIN <<>> \cap Inked(<<>>) = {}
        BY <3>2
      <4>2. QED
        BY <3>2, <4>1, SilenceSaysNothing DEF Text!Said
    <3>4. ~Settled(t)
      BY <2>2, SettledOrNot
    <3>5. PICK o \in 1..n : t[o] = Open
      BY <3>4 DEF Settled
    <3>6. o = 1
      BY <1>1, <3>5
    <3>7. Text!Outside(t) = {}
      <4> SUFFICES ASSUME NEW i \in 1..n,
                          \A j \in 1..i : t[j] = Open => \E k \in j..i : t[k] = Close
                   PROVE  FALSE
        BY <1>1 DEF Text!Outside
      <4>1. o \in 1..i
        BY <1>1, <3>6
      <4>2. PICK k \in o..i : t[k] = Close
        BY <3>5, <4>1
      <4>3. k \in 1..n
        BY <1>1, <3>6
      <4>4. QED
        BY <2>1, <4>2, <4>3
    <3>8. Text!Shown(t) = <<>>
      <4>1. Text!Outside(t) \cap Inked(t) = {}
        BY <3>7
      <4>2. QED
        BY <1>1, <4>1, SilenceSaysNothing DEF Text!Shown
    <3>9. QED
      BY <3>1, <3>2, <3>3, <3>8
  <2>3. CASE ~Text!Unclosed(t)
    <3>1. Text!Visible(t) = t
      BY <1>4, <2>3 DEF Text!Visible
    <3>2. Settled(t)
      BY <2>3, SettledOrNot
    <3>3. \A j \in 1..n : t[j] # Open
      <4> TAKE j \in 1..n
      <4>1. \A k \in j..n : k \in 1..n
        BY <1>1
      <4>2. QED
        BY <2>1, <3>2, <4>1 DEF Settled
    <3>4. \A j \in 1..n : t[j] \in Ink
      BY <1>1, <2>1, <3>3 DEF Letter, Ink
    <3>5. t \in Seq(Ink)
      BY <1>1, <3>4
    <3>6. QED
      BY <3>1, <3>5, PlainIsShown
  <2>4. QED
    BY <2>2, <2>3
<1>5. QED
  BY <1>3, <1>4

\* A message ends inside the thinking if it does so before text without markers.
LEMMA StillUnclosed ==
    ASSUME NEW t \in Seq(Letter), NEW y \in Seq(Ink), Text!Unclosed(t)
    PROVE  Text!Unclosed(t \o y)
<1> DEFINE n == Len(t)
           m == Len(y)
           z == t \o y
<1>1. /\ n \in Nat /\ m \in Nat /\ z \in Seq(Letter) /\ Len(z) = n + m
      /\ \A j \in 1..n : z[j] = t[j]
      /\ \A j \in 1..m : z[n + j] = y[j] /\ y[j] \in Ink
  <2>1. y \in Seq(Letter)
    BY DEF Ink, Letter
  <2>2. \A j \in 1..m : y[j] \in Ink
    BY ElementOfSeq
  <2>3. QED
    BY <2>1, <2>2, LenProperties, ConcatProperties
<1>2. \A j \in 1..n + m : ~(j \leq n) => z[j] # Close
  <2> TAKE j \in 1..n + m
  <2> HAVE ~(j \leq n)
  <2>1. j - n \in 1..m /\ n + (j - n) = j
    BY <1>1
  <2>2. QED
    BY <1>1, <2>1, TextAssumption DEF Ink
<1> DEFINE o == Text!LastAt(t, Open)
           c == Text!LastAt(t, Close)
           zo == Text!LastAt(z, Open)
           zc == Text!LastAt(z, Close)
<1> HIDE DEF z
<1>3. /\ o \in 0..n /\ (o > 0 => t[o] = Open)
      /\ c \in 0..n /\ \A j \in 1..n : t[j] = Close => j \leq c
  BY LastIs
<1>4. zo \in 0..n + m /\ \A j \in 1..n + m : z[j] = Open => j \leq zo
  <2> HIDE DEF n, m
  <2>1. QED
    BY <1>1, LastIs
<1>5. zc \in 0..n + m /\ (zc > 0 => z[zc] = Close)
  <2> HIDE DEF n, m
  <2>1. QED
    BY <1>1, LastIs
<1>6. o > c
  BY DEF Text!Unclosed
<1> HIDE DEF n, m, o, c, zo, zc
<1>7. o \in 1..n /\ o \in 1..n + m
  BY <1>1, <1>3, <1>6
<1>8. o \leq zo
  BY <1>1, <1>3, <1>4, <1>7
<1>9. zc \leq c
  <2>1. CASE zc = 0
    BY <1>3, <2>1
  <2>2. CASE zc # 0
    <3>1. zc \in 1..n + m /\ z[zc] = Close
      BY <1>1, <1>5, <2>2
    <3>2. zc \in 1..n
      BY <1>1, <1>2, <3>1
    <3>3. QED
      BY <1>1, <1>3, <3>1, <3>2
  <2>3. QED
    BY <2>1, <2>2
<1>10. zo > zc
  BY <1>1, <1>3, <1>4, <1>5, <1>6, <1>8, <1>9
<1>11. QED
  BY <1>10 DEF Text!Unclosed, zo, zc, z

\* The marker of the proxy opens the thinking, whatever came before.
LEMMA ThinkingBegins ==
    ASSUME NEW t \in Seq(Letter)
    PROVE  t \o Text!ThinkStart \in Seq(Letter) /\ Text!Unclosed(t \o Text!ThinkStart)
<1> DEFINE n == Len(t)
           s == Text!ThinkStart
           z == t \o s
<1>1. /\ s \in Seq(Letter) /\ Len(s) = 2 /\ s[1] = Open /\ s[2] = NL
  BY DEF Text!ThinkStart, Letter
<1> HIDE DEF s
<1>2. /\ n \in Nat /\ z \in Seq(Letter) /\ Len(z) = n + 2
      /\ z[n + 1] = Open /\ z[n + 2] = NL
  <2>1. /\ n \in Nat /\ z \in Seq(Letter) /\ Len(z) = n + Len(s)
    BY <1>1, LenProperties, ConcatProperties
  <2>0. \A j \in 1..Len(s) : z[n + j] = s[j]
    BY <1>1, ConcatProperties
  <2>2. 1 \in 1..Len(s) /\ 2 \in 1..Len(s)
    BY <1>1
  <2> HIDE DEF z, n
  <2>3. QED
    BY <1>1, <2>0, <2>1, <2>2
<1> DEFINE o == Text!LastAt(z, Open)
           c == Text!LastAt(z, Close)
<1> HIDE DEF z
<1>3. /\ o \in 0..n + 2 /\ \A j \in 1..n + 2 : z[j] = Open => j \leq o
      /\ c \in 0..n + 2 /\ (c > 0 => z[c] = Close)
  <2> HIDE DEF n
  <2>1. QED
    BY <1>2, LastIs
<1> HIDE DEF o, c, n
<1>4. n + 1 \leq o
  BY <1>2, <1>3
<1>5. c # n + 1 /\ c # n + 2
  BY <1>2, <1>3, TextAssumption
<1>6. o > c
  BY <1>2, <1>3, <1>4, <1>5
<1>7. QED
  BY <1>2, <1>6 DEF Text!Unclosed, o, c, z, s

\* A text is a suffix of whatever it is put behind.
LEMMA SuffixOfConcat ==
    ASSUME NEW T1, NEW x \in Seq(T1), NEW y \in Seq(T1)
    PROVE  Text!IsSuffix(y, x \o y)
<1> DEFINE n == Len(x)
           m == Len(y)
           z == x \o y
           r == Text!Reverse(z)
           q == Text!Reverse(y)
<1>1. n \in Nat /\ m \in Nat /\ Len(z) = n + m /\ \A j \in 1..m : z[n + j] = y[j]
  BY LenProperties, ConcatProperties
<1>2. /\ \A j \in 1..n + m : z[j] \in T1
      /\ \A j \in 1..m : y[j] \in T1
  <2>1. z \in Seq(T1)
    BY ConcatProperties
  <2>2. QED
    BY <1>1, <2>1, ElementOfSeq
<1> HIDE DEF z, n, m
<1>3. /\ q = [i \in 1..m |-> y[(m - i) + 1]] /\ r = [i \in 1..n + m |-> z[((n + m) - i) + 1]]
  BY <1>1 DEF Text!Reverse, m
<1> HIDE DEF q, r
<1>4. \A i \in 1..m : r[i] = q[i] /\ q[i] \in T1 /\ i \in 1..n + m
  <2> TAKE i \in 1..m
  <2>1. PICK j \in 1..m : j = (m - i) + 1
    BY <1>1
  <2>2. /\ i \in 1..n + m /\ ((n + m) - i) + 1 = n + j
    BY <1>1, <2>1
  <2>3. r[i] = z[n + j] /\ q[i] = y[j]
    BY <1>3, <2>1, <2>2
  <2>4. QED
    BY <1>1, <1>2, <2>2, <2>3
<1>5. q \in Seq(T1) /\ Len(q) = m /\ Len(r) = n + m
  <2>1. q \in [1..m -> T1]
    BY <1>3, <1>4
  <2>2. r \in [1..n + m -> T1]
    <3> SUFFICES ASSUME NEW i \in 1..n + m PROVE z[((n + m) - i) + 1] \in T1
      BY <1>3
    <3>1. ((n + m) - i) + 1 \in 1..n + m
      BY <1>1
    <3>2. QED
      BY <1>2, <3>1
  <2>3. n + m \in Nat
    BY <1>1
  <2>4. QED
    BY <1>1, <2>1, <2>2, <2>3
<1>6. /\ SubSeq(r, 1, m) \in Seq(T1) /\ SubSeq(q, 1, m) \in Seq(T1)
      /\ Len(SubSeq(r, 1, m)) = m /\ Len(SubSeq(q, 1, m)) = m
      /\ \A i \in 1..m : SubSeq(r, 1, m)[i] = r[i] /\ SubSeq(q, 1, m)[i] = q[i]
  <2>1. 1 \in Int /\ m \in Int /\ \A i \in 1..m : r[i] \in T1 /\ q[i] \in T1
    BY <1>1, <1>4
  <2>2. /\ SubSeq(r, 1, m) \in Seq(T1)
        /\ Len(SubSeq(r, 1, m)) = IF 1 <= m THEN m - 1 + 1 ELSE 0
        /\ \A i \in 1..m - 1 + 1 : SubSeq(r, 1, m)[i] = r[1 + i - 1]
    BY <2>1, SubSeqProperties
  <2>3. /\ SubSeq(q, 1, m) \in Seq(T1)
        /\ Len(SubSeq(q, 1, m)) = IF 1 <= m THEN m - 1 + 1 ELSE 0
        /\ \A i \in 1..m - 1 + 1 : SubSeq(q, 1, m)[i] = q[1 + i - 1]
    BY <2>1, SubSeqProperties
  <2>4. (IF 1 <= m THEN m - 1 + 1 ELSE 0) = m /\ m - 1 + 1 = m /\ \A i \in 1..m : 1 + i - 1 = i
    BY <1>1
  <2>5. QED
    BY <2>2, <2>3, <2>4
<1> DEFINE u == SubSeq(q, 1, m)
           v == SubSeq(r, 1, m)
<1>7. u = v
  <2> HIDE DEF u, v
  <2>1. u \in Seq(T1) /\ v \in Seq(T1) /\ Len(u) = Len(v) /\ Len(u) = m
        /\ \A i \in 1..m : u[i] = v[i]
    BY <1>4, <1>6 DEF u, v
  <2>2. QED
    BY <2>1, SeqEqual
<1>8. m \leq n + m
  BY <1>1
<1>9. Len(q) \leq Len(r) /\ SubSeq(q, 1, Len(q)) = SubSeq(r, 1, Len(q))
  BY <1>5, <1>7, <1>8
<1>10. Text!IsPrefix(q, r)
  BY <1>9 DEF Text!IsPrefix
<1>11. QED
  BY <1>10 DEF Text!IsSuffix, q, r, z

\* What a backend can have sent.
LEMMA GeneratedIs ==
    ASSUME NEW s \in Text!Generated
    PROVE  /\ s.parser \in BOOLEAN /\ s.thinking \in BOOLEAN
           /\ s.parser => s.content \in Seq(Ink) /\ s.reasoning \in Seq(Ink)
           /\ ~s.parser => /\ s.raw \in Seq(Letter)
                           /\ \A i \in 1..Len(s.raw) : s.raw[i] # Open
                           /\ ~s.thinking => \A i \in 1..Len(s.raw) : s.raw[i] # Close
<1>1. ASSUME NEW chars, NEW t \in Text!Texts(chars) PROVE t \in Seq(chars)
  <2>1. PICK n \in 0..MaxText : t \in [1..n -> chars]
    BY DEF Text!Texts
  <2>2. n \in Nat
    BY TextAssumption
  <2>3. QED
    BY <2>1, <2>2
<1>2. CASE s \in [parser : {TRUE}, thinking : BOOLEAN, reasoning : Text!Texts({NL, A}),
                  content : Text!Texts({NL, A}), raw : {<<>>}]
  BY <1>1, <1>2 DEF Ink
<1>3. CASE s \in UNION {[parser : {FALSE}, thinking : {thinking}, reasoning : {<<>>},
                         content : {<<>>}, raw : Text!Raw(thinking)] : thinking \in BOOLEAN}
  <2>1. PICK thinking \in BOOLEAN :
           s \in [parser : {FALSE}, thinking : {thinking}, reasoning : {<<>>},
                  content : {<<>>}, raw : Text!Raw(thinking)]
    BY <1>3
  <2>2. /\ s.parser = FALSE /\ s.thinking = thinking /\ s.raw \in Text!Raw(thinking)
    BY <2>1
  <2> DEFINE t == s.raw
             closes == {i \in DOMAIN t : t[i] = Close}
  <2>3. /\ t \in Text!Texts({Close, NL, A})
        /\ Text!Cardinality(closes) \leq IF thinking THEN 1 ELSE 0
    BY <2>2 DEF Text!Raw
  <2>4. t \in Seq({Close, NL, A})
    BY <1>1, <2>3
  <2>5. /\ Len(t) \in Nat /\ DOMAIN t = 1..Len(t) /\ \A i \in 1..Len(t) : t[i] \in {Close, NL, A}
    BY <2>4, LenProperties, ElementOfSeq
  <2>6. t \in Seq(Letter) /\ \A i \in 1..Len(t) : t[i] # Open
    <3>1. \A i \in 1..Len(t) : t[i] # Open
      <4> HIDE DEF t
      <4>1. QED
        BY <2>5, TextAssumption
    <3>2. t \in Seq(Letter)
      <4> HIDE DEF t
      <4>1. QED
        BY <2>4 DEF Letter
    <3>3. QED
      BY <3>1, <3>2
  <2>7. ASSUME ~thinking PROVE \A i \in 1..Len(t) : t[i] # Close
    <3> HIDE DEF t
    <3>1. IsFiniteSet(closes)
      <4>1. IsFiniteSet(1..Len(t))
        BY <2>5, FS_Interval
      <4>2. closes \in SUBSET (1..Len(t))
        BY <2>5
      <4>3. QED
        BY <4>1, <4>2, FS_Subset
    <3>2. Text!Cardinality(closes) = Cardinality(closes)
      BY DEF Text!Cardinality, Cardinality
    <3>3. Cardinality(closes) \in Nat /\ Cardinality(closes) \leq 0
      <4> HIDE DEF closes
      <4>1. QED
        BY <2>3, <2>7, <3>1, <3>2, FS_CardinalityType
    <3>4. closes = {}
      <4> HIDE DEF closes
      <4>1. QED
        BY <3>1, <3>3, FS_EmptySet
    <3>5. QED
      BY <2>5, <3>4
  <2>8. QED
    BY <2>2, <2>6, <2>7
<1>4. QED
  BY <1>2, <1>3 DEF Text!Generated

\* The message that is built, for whatever was generated and asked.
Continued(s, orig, message) ==
    /\ Text!Answering(s) /\ (Text!Unclosed(orig) => s.parser \/ s.thinking)
         => Text!Shown(message) = Text!Shown(orig) \o Text!Said(Text!Answer(s))
    /\ ~Text!Answering(s) /\ Text!Thought(s) # <<>>
         => Text!Unclosed(message) /\ Text!IsSuffix(Text!Thought(s), message)
Message(s, orig) == IF Text!Composed(s) = <<>> THEN orig ELSE Text!Resume(s, orig)

\* The message that continues the thinking ends inside it.
LEMMA ThinkingGoesOn ==
    ASSUME NEW t \in Seq(Letter), NEW y \in Seq(Ink)
    PROVE  /\ Text!Unclosed(Text!Thinking(t, y))
           /\ Text!IsSuffix(y, Text!Thinking(t, y))
<1>1. y \in Seq(Letter)
  BY DEF Ink, Letter
<1>2. CASE Text!Unclosed(t)
  BY <1>1, <1>2, StillUnclosed, SuffixOfConcat DEF Text!Thinking
<1>3. CASE ~Text!Unclosed(t)
  <2> DEFINE u == t \o Text!ThinkStart
  <2>1. u \in Seq(Letter) /\ Text!Unclosed(u)
    BY ThinkingBegins
  <2>2. Text!Thinking(t, y) = u \o y
    <3>1. Text!Thinking(t, y) = t \o Text!ThinkStart \o y
      BY <1>3 DEF Text!Thinking
    <3>2. QED
      BY <3>1
  <2> HIDE DEF u
  <2>3. QED
    BY <1>1, <2>1, <2>2, StillUnclosed, SuffixOfConcat
<1>4. QED
  BY <1>2, <1>3

\* What follows the last end of the thinking has no markers.
LEMMA AnswerIsPlain ==
    ASSUME NEW t \in Seq(Letter), \A i \in 1..Len(t) : t[i] # Open
    PROVE  Text!From(t, Text!LastAt(t, Close) + 1) \in Seq(Ink)
<1> DEFINE n == Len(t)
           c == Text!LastAt(t, Close)
           i == c + 1
<1>1. n \in Nat /\ \A j \in 1..n : t[j] \in Letter
  BY LenProperties, ElementOfSeq
<1>2. c \in 0..n /\ \A j \in 1..n : t[j] = Close => j \leq c
  BY LastIs
<1>3. i \in 1..n + 1 /\ \A j \in i..n : j \in 1..n /\ ~(j \leq c)
  <2> HIDE DEF n, c
  <2>1. QED
    BY <1>1, <1>2
<1>4. \A j \in i..n : t[j] \in Ink
  <2> HIDE DEF i, c
  <2>1. QED
    BY <1>1, <1>2, <1>3 DEF Letter, Ink
<1> HIDE DEF i
<1>5. Text!From(t, i) \in Seq(Ink)
  BY <1>3, <1>4, CutAt
<1>6. QED
  BY <1>5 DEF i

\* In each case of _build_resume_assistant_content.
LEMMA MessageContinues ==
    ASSUME NEW s \in Text!Generated, NEW orig \in Text!Originals
    PROVE  Continued(s, orig, Message(s, orig))
<1>1. /\ s.parser \in BOOLEAN /\ s.thinking \in BOOLEAN
      /\ s.parser => s.content \in Seq(Ink) /\ s.reasoning \in Seq(Ink)
      /\ ~s.parser => /\ s.raw \in Seq(Letter)
                      /\ \A i \in 1..Len(s.raw) : s.raw[i] # Open
                      /\ ~s.thinking => \A i \in 1..Len(s.raw) : s.raw[i] # Close
  BY GeneratedIs
<1>2. /\ orig \in Seq(Letter) /\ Text!Visible(orig) \in Seq(Ink)
      /\ Text!Said(Text!Visible(orig)) = Text!Shown(orig)
  BY OriginalIs, VisibleIsShown
<1>3. ASSUME NEW y \in Seq(Ink)
      PROVE  Text!Shown(Text!Visible(orig) \o y) = Text!Shown(orig) \o Text!Said(y)
  <2> DEFINE x == Text!Visible(orig)
  <2>1. x \in Seq(Ink) /\ x \o y \in Seq(Ink)
    BY <1>2, ConcatProperties
  <2>2. Text!Shown(x \o y) = Text!Said(x \o y)
    BY <2>1, PlainIsShown
  <2>3. Text!Said(x \o y) = Text!Said(x) \o Text!Said(y)
    BY <2>1, SaidConcat
  <2>4. QED
    BY <1>2, <2>2, <2>3
<1>4. \A y \in Seq(Letter) : Text!ThinkStart \o y # <<>>
  <2> DEFINE u == Text!ThinkStart
  <2>1. u \in Seq(Letter) /\ Len(u) = 2
    BY DEF Text!ThinkStart, Letter
  <2> HIDE DEF u
  <2>2. ASSUME NEW y \in Seq(Letter) PROVE u \o y # <<>>
    <3>1. Len(u \o y) = Len(u) + Len(y)
      BY <2>1, ConcatProperties
    <3>2. Len(y) \in Nat /\ Len(<<>>) = 0
      BY LenProperties
    <3>3. Len(u \o y) # 0
      BY <2>1, <3>1, <3>2
    <3>4. QED
      BY <3>2, <3>3
  <2>3. QED
    BY <2>2 DEF u
<1>5. CASE s.parser
  <2>1. CASE s.content # <<>>
    <3>1. Message(s, orig) = Text!Visible(orig) \o s.content
      BY <1>5, <2>1 DEF Message, Text!Composed, Text!Resume
    <3>2. Text!Answering(s) /\ Text!Answer(s) = s.content
      BY <1>5, <2>1 DEF Text!Answering, Text!Answer
    <3>3. QED
      BY <1>1, <1>3, <1>5, <3>1, <3>2 DEF Continued
  <2>2. CASE s.content = <<>>
    <3>1. ~Text!Answering(s) /\ Text!Thought(s) = s.reasoning
      BY <1>5, <2>2 DEF Text!Answering, Text!Thought
    <3>2. CASE s.reasoning # <<>>
      <4>1. Text!Composed(s) # <<>>
        <5>1. s.reasoning \in Seq(Letter)
          BY <1>1, <1>5 DEF Ink, Letter
        <5>2. QED
          BY <1>4, <1>5, <2>2, <3>2, <5>1 DEF Text!Composed
      <4>2. Message(s, orig) = Text!Thinking(orig, s.reasoning)
        BY <1>5, <2>2, <3>2, <4>1 DEF Message, Text!Resume
      <4>3. QED
        BY <1>1, <1>2, <1>5, <3>1, <4>2, ThinkingGoesOn DEF Continued
    <3>3. CASE s.reasoning = <<>>
      BY <3>1, <3>3 DEF Continued
    <3>4. QED
      BY <3>2, <3>3
  <2>3. QED
    BY <2>1, <2>2
<1>6. CASE ~s.parser
  <2> DEFINE t == s.raw
             c == Text!LastAt(t, Close)
             y == Text!From(t, c + 1)
  <2>1. /\ t \in Seq(Letter) /\ \A i \in 1..Len(t) : t[i] # Open
        /\ ~s.thinking => \A i \in 1..Len(t) : t[i] # Close
    BY <1>1, <1>6
  <2>2. y \in Seq(Ink)
    BY <2>1, AnswerIsPlain
  <2>3. /\ c \in 0..Len(t) /\ Len(t) \in Nat /\ (c > 0 => t[c] = Close)
        /\ \A j \in 1..Len(t) : t[j] = Close => j \leq c
    BY <2>1, LastIs, LenProperties
  <2>4. c = 0 => y = t /\ t \in Seq(Ink)
    <3> HAVE c = 0
    <3>1. y = Text!From(t, 1)
      OBVIOUS
    <3>2. Text!From(t, 1) = t
      BY <2>1, SubSeqFull DEF Text!From
    <3>3. QED
      BY <2>2, <3>1, <3>2
  <2>5. ~s.thinking => c = 0
    <3> HIDE DEF c, t
    <3>1. QED
      BY <2>1, <2>3
  <2>6. CASE t = <<>>
    BY <1>6, <2>6 DEF Continued, Text!Answering, Text!Thought
  <2>7. CASE t # <<>> /\ ~s.thinking
    <3>1. Message(s, orig) = orig \o t
      BY <1>6, <2>7 DEF Message, Text!Composed, Text!Resume
    <3>2. Text!Answering(s) /\ Text!Answer(s) = y
      BY <1>6, <2>7 DEF Text!Answering, Text!Answer
    <3>3. y = t /\ t \in Seq(Ink)
      BY <2>4, <2>5, <2>7
    <3>4. ASSUME ~Text!Unclosed(orig)
          PROVE  Text!Shown(orig \o t) = Text!Shown(orig) \o Text!Said(t)
      <4>1. Settled(orig)
        BY <3>4, SettledOrNot
      <4> HIDE DEF t
      <4>2. QED
        BY <1>2, <3>3, <4>1, ShownGoesOn
    <3> HIDE DEF t, y
    <3>5. QED
      BY <1>6, <2>7, <3>1, <3>2, <3>3, <3>4 DEF Continued
  <2>8. CASE t # <<>> /\ s.thinking /\ c > 0
    <3>1. Text!Composed(s) = Text!ThinkStart \o t
      BY <1>6, <2>8 DEF Text!Composed
    <3>2. Text!ThinkStart \o t # <<>>
      <4> HIDE DEF t
      <4>1. QED
        BY <1>4, <2>1
    <3>3. Message(s, orig) = Text!Visible(orig) \o Text!LeftStrip(y)
      BY <1>6, <2>8, <3>1, <3>2 DEF Message, Text!Resume, Text!AfterThinking
    <3>4. Text!Answering(s) /\ Text!Answer(s) = y
      BY <1>6, <2>8 DEF Text!Answering, Text!Answer
    <3> HIDE DEF y
    <3>5. Text!LeftStrip(y) \in Seq(Ink) /\ Text!Said(Text!LeftStrip(y)) = Text!Said(y)
      BY <2>2, StripSaysTheSame
    <3>6. QED
      BY <1>3, <3>3, <3>4, <3>5 DEF Continued
  <2>9. CASE t # <<>> /\ s.thinking /\ ~(c > 0)
    <3>1. Text!Composed(s) = Text!ThinkStart \o t
      BY <1>6, <2>9 DEF Text!Composed
    <3>2. Text!ThinkStart \o t # <<>>
      <4> HIDE DEF t
      <4>1. QED
        BY <1>4, <2>1
    <3>3. Message(s, orig) = Text!Thinking(orig, t)
      BY <1>6, <2>9, <3>1, <3>2 DEF Message, Text!Resume
    <3>4. ~Text!Answering(s) /\ Text!Thought(s) = t
      BY <1>6, <2>9 DEF Text!Answering, Text!Thought
    <3>5. t \in Seq(Ink)
      <4>1. c = 0
        <5> HIDE DEF c, t
        <5>1. QED
          BY <2>3, <2>9
      <4>2. QED
        BY <2>4, <4>1
    <3> HIDE DEF t
    <3>6. QED
      BY <1>2, <3>3, <3>4, <3>5, ThinkingGoesOn DEF Continued
  <2>10. QED
    BY <2>6, <2>7, <2>8, <2>9
<1>7. QED
  BY <1>1, <1>5, <1>6

(***************************************************************************)
(* LoadHeap                                                                *)
(***************************************************************************)
\* The entries of a list, and a list that holds each of its entries once.
Entries(h) == {h[p] : p \in DOMAIN h}
Distinct(h) == \A p, q \in DOMAIN h : h[p] = h[q] => p = q
\* The lists of length n with the entries of h, each once if h has each once.
Mixed(h, n) == {g \in [1..n -> Entries(h)] : /\ Entries(h) \subseteq Entries(g)
                                             /\ Distinct(h) => Distinct(g)}
Place(h, n) == [heap : Mixed(h, n), at : 1..n]

\* A swap rearranges the list.
LEMMA SwapMixes ==
    ASSUME NEW n \in Nat, NEW h, NEW g \in Mixed(h, n), NEW i \in 1..n, NEW j \in 1..n
    PROVE  Heap!Swap(g, i, j) \in Mixed(h, n)
<1> DEFINE w == Heap!Swap(g, i, j)
<1>1. g \in [1..n -> Entries(h)]
  BY DEF Mixed
<1>2. /\ w \in [1..n -> Entries(h)] /\ w[i] = g[j] /\ w[j] = g[i]
      /\ \A p \in 1..n : p # i /\ p # j => w[p] = g[p]
  BY <1>1 DEF Heap!Swap
<1> HIDE DEF w
<1>3. Entries(h) \subseteq Entries(w)
  <2> SUFFICES ASSUME NEW p \in 1..n PROVE g[p] \in Entries(w)
    BY <1>1 DEF Mixed, Entries
  <2>1. g[p] = w[IF p = i THEN j ELSE IF p = j THEN i ELSE p]
    BY <1>2
  <2>2. QED
    BY <1>2, <2>1 DEF Entries
<1>4. Distinct(g) => Distinct(w)
  BY <1>1, <1>2 DEF Distinct
<1>5. QED
  BY <1>2, <1>3, <1>4 DEF Mixed, w

\* n steps from base.
Stepping(f, T1, n, base, step) ==
    /\ f = [k \in 0..n |-> IF k = 0 THEN base ELSE step[f[k - 1]]]
    /\ \A k \in 0..n : f[k] \in T1
Steps(T1, n, base, step) == \E f : Stepping(f, T1, n, base, step)
\* n steps from a base have a run.
LEMMA StepsAreTaken ==
    ASSUME NEW T1, NEW n \in Nat, NEW base \in T1, NEW step \in [T1 -> T1]
    PROVE  Steps(T1, n, base, step)
<1> DEFINE next == [p \in (1..n) \X T1 |-> step[p[2]]]
<1>1. next \in [(1..n) \X T1 -> T1]
  OBVIOUS
<1> HIDE DEF next
<1>2. PICK f : f \in Solutions(T1, n, base, next)
  <2>1. Solutions(T1, n, base, next) # {}
    BY <1>1, Recursion
  <2>2. QED
    BY <2>1
<1>3. f \in [0..n -> T1] /\ f[0] = base /\ \A k \in 1..n : f[k] = next[<<k, f[k - 1]>>]
  BY <1>2 DEF Solutions
<1>4. ASSUME NEW k \in 0..n PROVE f[k] = IF k = 0 THEN base ELSE step[f[k - 1]]
  <2>1. CASE k = 0
    BY <1>3, <2>1
  <2>2. CASE k # 0
    <3>1. k \in 1..n /\ k - 1 \in 0..n /\ f[k - 1] \in T1
      BY <1>3, <2>2
    <3>2. next[<<k, f[k - 1]>>] = step[f[k - 1]]
      BY <3>1 DEF next
    <3>3. QED
      BY <1>3, <2>2, <3>1, <3>2
  <2>3. QED
    BY <2>1, <2>2
<1>5. f = [k \in 0..n |-> IF k = 0 THEN base ELSE step[f[k - 1]]]
  BY <1>3, <1>4
<1>6. QED
  BY <1>3, <1>5 DEF Steps, Stepping

\* A step of _siftdown rearranges the list and goes towards the root.
LEMMA UpIsPlaced ==
    ASSUME NEW n \in Nat, NEW h, NEW now \in Place(h, n), NEW top \in Nat \ {0}
    PROVE  /\ Heap!Up(now, top) \in Place(h, n)
           /\ now.at > top => now.at \div 2 \in 1..n /\ now.at \div 2 < now.at
<1>1. now.heap \in Mixed(h, n) /\ now.at \in 1..n
  BY DEF Place
<1>2. now.at > top => now.at \div 2 \in 1..n /\ now.at \div 2 < now.at
  BY <1>1
<1>3. CASE now.at > top /\ Heap!Before(now.heap[now.at], now.heap[now.at \div 2])
  <2>1. Heap!Swap(now.heap, now.at, now.at \div 2) \in Mixed(h, n)
    BY <1>1, <1>2, <1>3, SwapMixes
  <2>2. QED
    BY <1>2, <1>3, <2>1 DEF Heap!Up, Place
<1>4. CASE ~(now.at > top /\ Heap!Before(now.heap[now.at], now.heap[now.at \div 2]))
  BY <1>2, <1>4 DEF Heap!Up
<1>5. QED
  BY <1>3, <1>4

\* The run of Rise.
Rises(f, h, i, top) ==
    /\ f[0] = [heap |-> h, at |-> i]
    /\ \A k \in 1..i : f[k] = Heap!Up(f[k - 1], top)
Rising(f, h, n, i, top) == Rises(f, h, i, top) /\ \A k \in 0..i : f[k] \in Place(h, n)
Risen(h, n, i, top) == \E f : Rising(f, h, n, i, top) /\ Heap!Rise(h, i, top) = f[i].heap
\* _siftdown ends after at most as many steps as the place it starts from,
LEMMA RiseRuns ==
    ASSUME NEW n \in Nat, NEW S, NEW h \in [1..n -> S], NEW i \in 1..n, NEW top \in Nat \ {0}
    PROVE  Risen(h, n, i, top)
<1> DEFINE T1 == Place(h, n)
           base == [heap |-> h, at |-> i]
           step == [x \in T1 |-> Heap!Up(x, top)]
           R(f) == [k \in 0..i |-> IF k = 0 THEN base ELSE Heap!Up(f[k - 1], top)]
           f == CHOOSE f : f = R(f)
<1>1. base \in T1
  <2>1. h \in Mixed(h, n)
    BY DEF Mixed, Entries
  <2>2. QED
    BY <2>1 DEF Place
<1>2. step \in [T1 -> T1]
  BY UpIsPlaced
<1>3. i \in Nat
  OBVIOUS
<1>4. PICK g : /\ g = [k \in 0..i |-> IF k = 0 THEN base ELSE step[g[k - 1]]]
               /\ \A k \in 0..i : g[k] \in T1
  <2> HIDE DEF T1, base, step
  <2>1. Steps(T1, i, base, step)
    BY <1>1, <1>2, <1>3, StepsAreTaken
  <2>2. QED
    BY <2>1 DEF Steps, Stepping
<1>5. g = R(g)
  <2> HIDE DEF T1, base
  <2>1. ASSUME NEW k \in 0..i PROVE g[k] = IF k = 0 THEN base ELSE Heap!Up(g[k - 1], top)
    <3>1. CASE k = 0
      BY <1>4, <3>1
    <3>2. CASE k # 0
      <4>1. k - 1 \in 0..i
        BY <1>3, <3>2
      <4>2. g[k - 1] \in T1 /\ g[k] = step[g[k - 1]]
        BY <1>4, <3>2, <4>1
      <4>3. QED
        BY <3>2, <4>2
    <3>3. QED
      BY <3>1, <3>2
  <2>2. g = [k \in 0..i |-> g[k]]
    BY <1>4
  <2>3. QED
    BY <2>1, <2>2
<1>6. f = R(f)
  <2> HIDE DEF R
  <2>1. QED
    BY <1>5
<1>7. Heap!Rise(h, i, top) = f[i].heap
  BY Zenon DEF Heap!Rise
<1> HIDE DEF f
<1>8. Rises(f, h, i, top)
  <2>1. ASSUME NEW k \in 0..i PROVE f[k] = IF k = 0 THEN base ELSE Heap!Up(f[k - 1], top)
    <3>1. R(f)[k] = IF k = 0 THEN base ELSE Heap!Up(f[k - 1], top)
      OBVIOUS
    <3> HIDE DEF R
    <3>2. QED
      BY <1>6, <3>1
  <2>2. 0 \in 0..i /\ \A k \in 1..i : k \in 0..i /\ k # 0
    BY <1>3
  <2>3. QED
    BY <2>1, <2>2 DEF Rises
<1>9. \A k \in 0..i : f[k] \in T1
  <2> DEFINE Bad == {k \in 0..i : f[k] \notin T1}
  <2> HIDE DEF T1, base, step
  <2>1. ASSUME NEW m \in Bad, \A k \in Bad : m \leq k PROVE FALSE
    <3>1. f[0] \in T1
      BY <1>1, <1>8 DEF Rises, base
    <3>2. m \in 1..i /\ m - 1 \in 0..i /\ m - 1 < m
      BY <1>3, <2>1, <3>1
    <3>3. f[m - 1] \in T1
      BY <2>1, <3>2
    <3>4. f[m] = Heap!Up(f[m - 1], top)
      BY <1>8, <3>2 DEF Rises
    <3>5. f[m] \in T1
      BY <3>3, <3>4, UpIsPlaced DEF T1
    <3>6. QED
      BY <3>5
  <2>2. Bad \in SUBSET Nat
    BY <1>3
  <2>3. Bad = {} => \A k \in 0..i : f[k] \in T1
    OBVIOUS
  <2> HIDE DEF Bad
  <2>4. QED
    BY <2>1, <2>2, <2>3, LeastOf
<1>10. QED
  BY <1>7, <1>8, <1>9 DEF Rising, Risen

\* and it rearranges the list.
LEMMA RiseMixes ==
    ASSUME NEW n \in Nat, NEW S, NEW h \in [1..n -> S], NEW i \in 1..n, NEW top \in Nat \ {0}
    PROVE  Heap!Rise(h, i, top) \in Mixed(h, n)
<1>1. PICK f : Rising(f, h, n, i, top) /\ Heap!Rise(h, i, top) = f[i].heap
  <2>1. Risen(h, n, i, top)
    BY RiseRuns
  <2>2. QED
    BY <2>1 DEF Risen
<1>2. i \in 0..i
  OBVIOUS
<1>3. QED
  BY <1>1, <1>2 DEF Rising, Place

\* A list of n entries as a sequence.
LEMMA LengthOf ==
    ASSUME NEW n \in Nat, NEW S, NEW h \in [1..n -> S]
    PROVE  h \in Seq(S) /\ Len(h) = n
OBVIOUS

\* Lists of the same entries are interchangeable.
LEMMA MixedAgain ==
    ASSUME NEW n \in Nat, NEW h, NEW g \in Mixed(h, n), NEW w \in Mixed(g, n)
    PROVE  w \in Mixed(h, n)
<1>1. Entries(g) = Entries(h)
  BY DEF Mixed, Entries
<1>2. QED
  BY <1>1 DEF Mixed

\* A step of _siftup rearranges the list and stays in it.
LEMMA DownIsPlaced ==
    ASSUME NEW n \in Nat, NEW h, NEW now \in Place(h, n)
    PROVE  /\ Heap!Down(now) \in Place(h, n)
           /\ Len(now.heap) = n
           /\ 2 * now.at \leq n => Heap!Smaller(now.heap, now.at) \in 1..n
<1>1. now.heap \in Mixed(h, n) /\ now.at \in 1..n
  BY DEF Place
<1>2. Len(now.heap) = n
  BY <1>1, LengthOf DEF Mixed
<1>3. 2 * now.at \leq n => Heap!Smaller(now.heap, now.at) \in 1..n
  BY <1>1, <1>2 DEF Heap!Smaller
<1>4. CASE 2 * now.at > n
  BY <1>2, <1>3, <1>4 DEF Heap!Down
<1>5. CASE ~(2 * now.at > n)
  <2>1. Heap!Smaller(now.heap, now.at) \in 1..n
    BY <1>1, <1>3, <1>5
  <2>2. Heap!Swap(now.heap, now.at, Heap!Smaller(now.heap, now.at)) \in Mixed(h, n)
    BY <1>1, <2>1, SwapMixes
  <2>3. QED
    BY <1>2, <1>3, <1>5, <2>1, <2>2 DEF Heap!Down, Place
<1>6. QED
  BY <1>4, <1>5

\* The run of Sink down to a leaf.
Sinking(f, h, n, i) ==
    /\ f[0] = [heap |-> h, at |-> i]
    /\ \A k \in 1..n : f[k] = Heap!Down(f[k - 1])
    /\ \A k \in 0..n : f[k] \in Place(h, n)
Sunk(h, n, i, top) ==
    \E f : Sinking(f, h, n, i) /\ Heap!Sink(h, i, top) = Heap!Rise(f[n].heap, f[n].at, top)
\* _siftup ends after at most as many steps as the list is long,
LEMMA SinkRuns ==
    ASSUME NEW n \in Nat, NEW S, NEW h \in [1..n -> S], NEW i \in 1..n, NEW top
    PROVE  Sunk(h, n, i, top)
<1> DEFINE T1 == Place(h, n)
           base == [heap |-> h, at |-> i]
           step == [x \in T1 |-> Heap!Down(x)]
           m == Len(h)
           R(f) == [k \in 0..m |-> IF k = 0 THEN base ELSE Heap!Down(f[k - 1])]
           f == CHOOSE f : f = R(f)
<1>1. base \in T1
  <2>1. h \in Mixed(h, n)
    BY DEF Mixed, Entries
  <2>2. QED
    BY <2>1 DEF Place
<1>2. step \in [T1 -> T1]
  BY DownIsPlaced
<1>3. m = n
  BY LengthOf
<1>4. Heap!Sink(h, i, top) = Heap!Rise(f[m].heap, f[m].at, top)
  BY Zenon DEF Heap!Sink
<1> HIDE DEF m
<1>5. PICK g : /\ g = [k \in 0..m |-> IF k = 0 THEN base ELSE step[g[k - 1]]]
               /\ \A k \in 0..m : g[k] \in T1
  <2> HIDE DEF T1, base, step
  <2>1. Steps(T1, m, base, step)
    BY <1>1, <1>2, <1>3, StepsAreTaken
  <2>2. QED
    BY <2>1 DEF Steps, Stepping
<1>6. g = R(g)
  <2> HIDE DEF T1, base
  <2>1. ASSUME NEW k \in 0..m PROVE g[k] = IF k = 0 THEN base ELSE Heap!Down(g[k - 1])
    <3>1. CASE k = 0
      BY <1>5, <3>1
    <3>2. CASE k # 0
      <4>1. k - 1 \in 0..m
        BY <1>3, <3>2
      <4>2. g[k - 1] \in T1 /\ g[k] = step[g[k - 1]]
        BY <1>5, <3>2, <4>1
      <4>3. QED
        BY <3>2, <4>2
    <3>3. QED
      BY <3>1, <3>2
  <2>2. g = [k \in 0..m |-> g[k]]
    BY <1>5
  <2>3. QED
    BY <2>1, <2>2
<1>7. f = R(f)
  <2> HIDE DEF R
  <2>1. QED
    BY <1>6
<1> HIDE DEF f
<1>8. f[0] = base /\ \A k \in 1..n : f[k] = Heap!Down(f[k - 1])
  <2>1. ASSUME NEW k \in 0..m PROVE f[k] = IF k = 0 THEN base ELSE Heap!Down(f[k - 1])
    <3>1. R(f)[k] = IF k = 0 THEN base ELSE Heap!Down(f[k - 1])
      OBVIOUS
    <3> HIDE DEF R
    <3>2. QED
      BY <1>7, <3>1
  <2>2. 0 \in 0..m /\ \A k \in 1..n : k \in 0..m /\ k # 0
    BY <1>3
  <2>3. QED
    BY <2>1, <2>2
<1>9. \A k \in 0..n : f[k] \in T1
  <2> DEFINE Bad == {k \in 0..n : f[k] \notin T1}
  <2> HIDE DEF T1, base, step
  <2>1. ASSUME NEW k \in Bad, \A l \in Bad : k \leq l PROVE FALSE
    <3>1. k \in 1..n /\ k - 1 \in 0..n /\ k - 1 < k
      BY <1>1, <1>8, <2>1
    <3>2. f[k - 1] \in T1
      BY <2>1, <3>1
    <3>3. f[k] \in T1
      BY <1>8, <3>1, <3>2, DownIsPlaced DEF T1
    <3>4. QED
      BY <3>3
  <2>2. Bad \in SUBSET Nat
    OBVIOUS
  <2>3. Bad = {} => \A k \in 0..n : f[k] \in T1
    OBVIOUS
  <2> HIDE DEF Bad
  <2>4. QED
    BY <2>1, <2>2, <2>3, LeastOf
<1>10. QED
  BY <1>3, <1>4, <1>8, <1>9 DEF Sinking, Sunk

\* and it rearranges the list.
LEMMA SinkMixes ==
    ASSUME NEW n \in Nat, NEW S, NEW h \in [1..n -> S], NEW i \in 1..n, NEW top \in Nat \ {0}
    PROVE  Heap!Sink(h, i, top) \in Mixed(h, n)
<1>1. PICK f : Sinking(f, h, n, i) /\ Heap!Sink(h, i, top) = Heap!Rise(f[n].heap, f[n].at, top)
  <2>1. Sunk(h, n, i, top)
    BY SinkRuns
  <2>2. QED
    BY <2>1 DEF Sunk
<1>2. n \in 0..n
  OBVIOUS
<1>3. f[n].heap \in Mixed(h, n) /\ f[n].at \in 1..n
  BY <1>1, <1>2 DEF Sinking, Place
<1>4. Heap!Rise(f[n].heap, f[n].at, top) \in Mixed(f[n].heap, n)
  BY <1>3, RiseMixes DEF Mixed
<1>5. QED
  BY <1>1, <1>3, <1>4, MixedAgain

\* Entries are ordered, and those of a mixed list are those of the list.
Pair == Nat \X Nat
\* Before is a strict total order.
LEMMA Ordering ==
    \A a, b, c \in Pair :
        /\ ~Heap!Before(a, a)
        /\ Heap!Before(a, b) => ~Heap!Before(b, a)
        /\ a # b => Heap!Before(a, b) \/ Heap!Before(b, a)
        /\ Heap!Before(a, b) /\ ~Heap!Before(c, b) => ~Heap!Before(c, a)
        /\ ~Heap!Before(a, b) /\ ~Heap!Before(b, c) => ~Heap!Before(a, c)
BY DEF Pair, Heap!Before

\* A rearranged list of pairs is one.
LEMMA MixedPairs ==
    ASSUME NEW n \in Nat, NEW h \in [1..n -> Pair], NEW g \in Mixed(h, n)
    PROVE  g \in [1..n -> Pair]
<1>1. Entries(h) \subseteq Pair
  BY DEF Entries
<1>2. QED
  BY <1>1 DEF Mixed

\* The root is the least of a list, but for the entry at a place.
RootBelow(h, at) == \A p \in DOMAIN h : p = at \/ ~Heap!Before(h[p], h[1])

\* While an entry rises, the root comes after no entry but the rising one.
LEMMA UpKeepsRoot ==
    ASSUME NEW n \in Nat, NEW h \in [1..n -> Pair], NEW now \in Place(h, n), RootBelow(now.heap, now.at)
    PROVE  RootBelow(Heap!Up(now, 1).heap, Heap!Up(now, 1).at)
<1> DEFINE g == now.heap
           at == now.at
           parent == now.at \div 2
           w == Heap!Swap(g, at, parent)
<1>1. g \in [1..n -> Pair] /\ at \in 1..n /\ (at > 1 => parent \in 1..n /\ parent < at)
  <2>1. now.heap \in Mixed(h, n) /\ now.at \in 1..n /\ 1 \in Nat \ {0}
    BY DEF Place
  <2>2. g \in [1..n -> Pair]
    BY <2>1, MixedPairs
  <2>3. at > 1 => parent \in 1..n /\ parent < at
    BY <2>1, UpIsPlaced
  <2>4. QED
    BY <2>1, <2>2, <2>3
<1>2. CASE at > 1 /\ Heap!Before(g[at], g[parent])
  <2>1. Heap!Up(now, 1) = [heap |-> w, at |-> parent]
    BY <1>2 DEF Heap!Up
  <2>2. /\ w \in [1..n -> Pair] /\ w[at] = g[parent] /\ w[parent] = g[at]
        /\ \A p \in 1..n : p # at /\ p # parent => w[p] = g[p]
    BY <1>1, <1>2 DEF Heap!Swap
  <2>3. 1 \in 1..n /\ 1 # at
    BY <1>1, <1>2
  <2>4. \A p \in 1..n : p # at => ~Heap!Before(g[p], g[1])
    BY <1>1 DEF RootBelow
  <2> HIDE DEF w
  <2>5. ASSUME NEW p \in 1..n, p # parent PROVE ~Heap!Before(w[p], w[1])
    <3> HIDE DEF g, at, parent
    <3>1. CASE parent = 1
      <4>1. w[1] = g[at] /\ Heap!Before(g[at], g[1])
        BY <1>2, <2>2, <3>1
      <4>2. w[p] = g[1] \/ ~Heap!Before(w[p], g[1])
        BY <2>2, <2>4, <2>5, <3>1
      <4>3. g[at] \in Pair /\ g[1] \in Pair /\ w[p] \in Pair
        BY <1>1, <2>2, <2>3
      <4>4. QED
        BY <4>1, <4>2, <4>3, Ordering
    <3>2. CASE parent # 1
      <4>1. w[1] = g[1]
        BY <2>2, <2>3, <3>2
      <4>2. p = at => w[p] = g[parent]
        BY <2>2
      <4>3. p # at => w[p] = g[p]
        BY <2>2, <2>5
      <4>4. ~Heap!Before(g[parent], g[1])
        BY <1>1, <1>2, <2>4
      <4>5. QED
        BY <2>4, <4>1, <4>2, <4>3, <4>4
    <3>3. QED
      BY <3>1, <3>2
  <2>6. RootBelow(w, parent)
    BY <2>2, <2>5 DEF RootBelow
  <2>7. QED
    BY <2>1, <2>6
<1>3. CASE ~(at > 1 /\ Heap!Before(g[at], g[parent]))
  BY <1>3 DEF Heap!Up
<1>4. QED
  BY <1>2, <1>3

\* A step of Rise that changes nothing is the last; otherwise the place falls.
LEMMA UpFalls ==
    ASSUME NEW n \in Nat, NEW h, NEW i \in 1..n, NEW f, Rising(f, h, n, i, 1)
    PROVE  \A k \in 0..i : f[k].at \leq i - k \/ Heap!Up(f[k], 1) = f[k]
<1> DEFINE Falls(k) == f[k].at \leq i - k \/ Heap!Up(f[k], 1) = f[k]
           Bad == {k \in 0..i : ~Falls(k)}
<1>1. i \in Nat
  OBVIOUS
<1>2. ASSUME NEW m \in Bad, \A k \in Bad : m \leq k PROVE FALSE
  <2>1. m # 0
    BY <1>1, <1>2 DEF Rising, Rises
  <2>2. m \in 1..i /\ m - 1 \in 0..i /\ m - 1 < m
    BY <1>1, <1>2, <2>1
  <2>3. f[m - 1].at \leq i - (m - 1) \/ Heap!Up(f[m - 1], 1) = f[m - 1]
    <3>1. m - 1 \notin Bad
      BY <1>1, <1>2, <2>2
    <3>2. QED
      BY <2>2, <3>1
  <2>4. f[m] = Heap!Up(f[m - 1], 1) /\ f[m - 1] \in Place(h, n)
    BY <2>2 DEF Rising, Rises
  <2>5. CASE Heap!Up(f[m - 1], 1) = f[m - 1]
    BY <1>2, <2>4, <2>5
  <2>6. CASE Heap!Up(f[m - 1], 1) # f[m - 1]
    <3>1. /\ f[m - 1].at > 1
          /\ Heap!Up(f[m - 1], 1).at = f[m - 1].at \div 2
      BY <2>6 DEF Heap!Up
    <3>2. f[m - 1].at \div 2 < f[m - 1].at /\ f[m - 1].at \div 2 \in 1..n
      BY <2>4, <3>1, UpIsPlaced
    <3>3. f[m].at < f[m - 1].at /\ f[m].at \in 1..n /\ f[m - 1].at \in 1..n
      BY <2>4, <3>1, <3>2 DEF Place
    <3>4. f[m].at \leq i - m
      BY <1>1, <2>2, <2>3, <2>6, <3>3
    <3>5. QED
      BY <1>2, <3>4
  <2>7. QED
    BY <2>5, <2>6
<1>3. Bad \in SUBSET Nat
  BY <1>1
<1>4. Bad = {} => \A k \in 0..i : Falls(k)
  OBVIOUS
<1> HIDE DEF Bad
<1>5. QED
  BY <1>2, <1>3, <1>4, LeastOf

\* An entry that rises to its place leaves the least entry at the root.
LEMMA RiseRoot ==
    ASSUME NEW n \in Nat, NEW h \in [1..n -> Pair], NEW i \in 1..n, RootBelow(h, i),
           NEW p \in 1..n
    PROVE  ~Heap!Before(Heap!Rise(h, i, 1)[p], Heap!Rise(h, i, 1)[1])
<1>1. PICK f : Rising(f, h, n, i, 1) /\ Heap!Rise(h, i, 1) = f[i].heap
  <2>1. Risen(h, n, i, 1)
    <3>1. 1 \in Nat \ {0}
      OBVIOUS
    <3>2. QED
      BY <3>1, RiseRuns
  <2>2. QED
    BY <2>1 DEF Risen
<1>2. i \in Nat /\ i \in 0..i
  OBVIOUS
<1>3. \A k \in 0..i : RootBelow(f[k].heap, f[k].at)
  <2> DEFINE Bad == {k \in 0..i : ~RootBelow(f[k].heap, f[k].at)}
  <2>1. ASSUME NEW m \in Bad, \A k \in Bad : m \leq k PROVE FALSE
    <3>1. m # 0
      BY <1>1, <2>1 DEF Rising, Rises
    <3>2. m \in 1..i /\ m - 1 \in 0..i /\ m - 1 < m
      BY <1>2, <2>1, <3>1
    <3>3. m - 1 \notin Bad
      BY <1>2, <2>1, <3>2
    <3>4. RootBelow(f[m - 1].heap, f[m - 1].at)
      BY <3>2, <3>3
    <3>5. f[m] = Heap!Up(f[m - 1], 1) /\ f[m - 1] \in Place(h, n)
      BY <1>1, <3>2 DEF Rising, Rises
    <3>6. RootBelow(f[m].heap, f[m].at)
      BY <3>4, <3>5, UpKeepsRoot
    <3>7. QED
      BY <2>1, <3>6
  <2>2. Bad \in SUBSET Nat
    BY <1>2
  <2>3. Bad = {} => \A k \in 0..i : RootBelow(f[k].heap, f[k].at)
    OBVIOUS
  <2> HIDE DEF Bad
  <2>4. QED
    BY <2>1, <2>2, <2>3, LeastOf
<1> DEFINE g == f[i].heap
           at == f[i].at
           parent == at \div 2
<1>4. f[i] \in Place(h, n) /\ g \in [1..n -> Pair] /\ at \in 1..n
  BY <1>1, <1>2, MixedPairs DEF Rising, Place
<1>5. \A q \in 1..n : q # at => ~Heap!Before(g[q], g[1])
  BY <1>2, <1>3, <1>4 DEF RootBelow
<1>6. Heap!Up(f[i], 1) = f[i]
  <2>0. Rising(f, h, n, i, 1)
    BY <1>1
  <2>1. \A k \in 0..i : f[k].at \leq i - k \/ Heap!Up(f[k], 1) = f[k]
    BY <2>0, UpFalls
  <2>2. f[i].at \leq i - i \/ Heap!Up(f[i], 1) = f[i]
    BY <1>2, <2>1
  <2>3. QED
    BY <1>2, <1>4, <2>2
<1>7. at > 1 => parent \in 1..n /\ parent < at
  BY <1>4, UpIsPlaced
<1>8. at > 1 => ~Heap!Before(g[at], g[parent])
  <2>1. SUFFICES ASSUME at > 1, Heap!Before(g[at], g[parent]) PROVE FALSE
    OBVIOUS
  <2>2. Heap!Up(f[i], 1).at = parent
    BY <2>1 DEF Heap!Up
  <2>3. QED
    BY <1>4, <1>6, <1>7, <2>1, <2>2
<1> HIDE DEF g, at, parent
<1>9. 1 \in 1..n /\ g[p] \in Pair /\ g[1] \in Pair
  BY <1>4
<1>10. CASE p # at
  BY <1>5, <1>10, <1>1 DEF g
<1>11. CASE p = at
  <2>1. CASE at = 1
    BY <1>1, <1>9, <1>11, <2>1, Ordering DEF g
  <2>2. CASE at > 1
    <3>1. ~Heap!Before(g[at], g[parent]) /\ ~Heap!Before(g[parent], g[1]) /\ g[parent] \in Pair
      BY <1>4, <1>5, <1>7, <1>8, <2>2
    <3>2. ~Heap!Before(g[p], g[1])
      BY <1>9, <1>11, <3>1, Ordering
    <3>3. QED
      BY <1>1, <3>2 DEF g
  <2>3. QED
    BY <1>4, <2>1, <2>2
<1>12. QED
  BY <1>10, <1>11

\* The least entry rises to the root.
LEMMA RiseLeast ==
    ASSUME NEW n \in Nat, NEW h \in [1..n -> Pair], NEW i \in 1..n, Distinct(h),
           \A p \in 1..n : p # i => Heap!Before(h[i], h[p])
    PROVE  Heap!Rise(h, i, 1)[1] = h[i]
<1>1. PICK f : Rising(f, h, n, i, 1) /\ Heap!Rise(h, i, 1) = f[i].heap
  <2>1. Risen(h, n, i, 1)
    <3>1. 1 \in Nat \ {0}
      OBVIOUS
    <3>2. QED
      BY <3>1, RiseRuns
  <2>2. QED
    BY <2>1 DEF Risen
<1>2. i \in Nat /\ i \in 0..i /\ 0 \in 0..i
  OBVIOUS
<1> DEFINE Carried(x) == x.heap[x.at] = h[i]
<1>3. ASSUME NEW x \in Place(h, n), Carried(x)
      PROVE  Carried(Heap!Up(x, 1)) /\ (x.at > 1 => Heap!Up(x, 1) # x)
  <2> DEFINE g == x.heap
             at == x.at
             parent == at \div 2
  <2>1. /\ g \in Mixed(h, n) /\ g \in [1..n -> Pair] /\ at \in 1..n
        /\ at > 1 => parent \in 1..n /\ parent < at
    <3>1. g \in Mixed(h, n) /\ at \in 1..n /\ 1 \in Nat \ {0}
      BY DEF Place
    <3>2. g \in [1..n -> Pair]
      BY <3>1, MixedPairs
    <3>3. at > 1 => parent \in 1..n /\ parent < at
      BY <3>1, UpIsPlaced
    <3>4. QED
      BY <3>1, <3>2, <3>3
  <2>2. CASE at > 1
    <3>1. g[parent] # g[at]
      BY <2>1, <2>2 DEF Mixed, Distinct
    <3>2. g[parent] \in Entries(h)
      BY <2>1, <2>2 DEF Mixed
    <3>3. Heap!Before(g[at], g[parent])
      BY <1>3, <3>1, <3>2 DEF Entries
    <3>4. Heap!Up(x, 1) = [heap |-> Heap!Swap(g, at, parent), at |-> parent]
      BY <2>2, <3>3 DEF Heap!Up
    <3>5. Heap!Swap(g, at, parent)[parent] = g[at]
      BY <2>1, <2>2 DEF Heap!Swap
    <3>6. Heap!Up(x, 1).at = parent
      BY <3>4
    <3>7. Heap!Up(x, 1) # x
      BY <2>1, <2>2, <3>6
    <3>8. QED
      BY <1>3, <3>4, <3>5, <3>7
  <2>3. CASE ~(at > 1)
    BY <1>3, <2>3 DEF Heap!Up
  <2>4. QED
    BY <2>2, <2>3
<1>4. \A k \in 0..i : Carried(f[k])
  <2> DEFINE Bad == {k \in 0..i : ~Carried(f[k])}
  <2>1. ASSUME NEW m \in Bad, \A k \in Bad : m \leq k PROVE FALSE
    <3>1. m # 0
      BY <1>1, <2>1 DEF Rising, Rises
    <3>2. m \in 1..i /\ m - 1 \in 0..i /\ m - 1 < m
      BY <1>2, <2>1, <3>1
    <3>3. m - 1 \notin Bad
      BY <1>2, <2>1, <3>2
    <3>4. Carried(f[m - 1])
      BY <3>2, <3>3
    <3>5. f[m] = Heap!Up(f[m - 1], 1) /\ f[m - 1] \in Place(h, n)
      BY <1>1, <3>2 DEF Rising, Rises
    <3> HIDE DEF Carried
    <3>6. Carried(f[m])
      BY <1>3, <3>4, <3>5
    <3>7. QED
      BY <2>1, <3>6
  <2>2. Bad \in SUBSET Nat
    BY <1>2
  <2>3. Bad = {} => \A k \in 0..i : Carried(f[k])
    OBVIOUS
  <2> HIDE DEF Bad
  <2>4. QED
    BY <2>1, <2>2, <2>3, LeastOf
<1>5. f[i] \in Place(h, n) /\ f[i].at \in 1..n
  BY <1>1, <1>2 DEF Rising, Place
<1>6. Heap!Up(f[i], 1) = f[i]
  <2> HIDE DEF Carried
  <2>1. \A k \in 0..i : f[k].at \leq i - k \/ Heap!Up(f[k], 1) = f[k]
    <3>1. Rising(f, h, n, i, 1)
      BY <1>1
    <3>2. QED
      BY <3>1, UpFalls
  <2>2. f[i].at \leq i - i \/ Heap!Up(f[i], 1) = f[i]
    BY <1>2, <2>1
  <2>3. QED
    BY <1>2, <1>5, <2>2
<1>7. ~(f[i].at > 1)
  BY <1>2, <1>3, <1>4, <1>5, <1>6
<1>8. f[i].at = 1
  BY <1>5, <1>7
<1>9. QED
  BY <1>1, <1>2, <1>4, <1>8

\* Heapify keeps the entries.
Heaping(f, h, n) ==
    /\ f[0] = h
    /\ \A k \in 1..n \div 2 : f[k] = Heap!Sink(f[k - 1], n \div 2 + 1 - k, n \div 2 + 1 - k)
    /\ \A k \in 0..n \div 2 : f[k] \in Mixed(h, n)
Heaped(h, n) == \E f : Heaping(f, h, n) /\ Heap!Heapify(h) = f[n \div 2]
\* heapify sifts each entry of the first half once,
LEMMA HeapifyRuns ==
    ASSUME NEW n \in Nat, NEW S, NEW h \in [1..n -> S]
    PROVE  Heaped(h, n)
<1> DEFINE T1 == Mixed(h, n)
           last == Len(h) \div 2
           base == SubSeq(h, 1, Len(h))
           next == [x \in (1..last) \X T1 |-> Heap!Sink(x[2], last + 1 - x[1], last + 1 - x[1])]
           R(f) == [k \in 0..last |->
                      IF k = 0 THEN base ELSE Heap!Sink(f[k - 1], last + 1 - k, last + 1 - k)]
           f == CHOOSE f : f = R(f)
<1>1. base = h /\ h \in T1 /\ Len(h) = n
  <2>1. h \in Seq(S) /\ Len(h) = n
    BY LengthOf
  <2>2. base = h
    BY <2>1, SubSeqFull
  <2>3. QED
    BY <2>1, <2>2 DEF Mixed, Entries
<1>2. Heap!Heapify(h) = f[last]
  BY Zenon DEF Heap!Heapify
<1>3. last \in Nat /\ last = n \div 2 /\ last \leq n
  BY <1>1
<1> HIDE DEF last, base
<1>4. ASSUME NEW x \in T1, NEW k \in 1..last
      PROVE  Heap!Sink(x, last + 1 - k, last + 1 - k) \in T1
  <2> DEFINE i == last + 1 - k
  <2>1. i \in 1..n /\ i \in Nat \ {0}
    BY <1>3
  <2> HIDE DEF i
  <2>2. x \in [1..n -> Entries(h)] /\ x \in Mixed(h, n)
    BY DEF Mixed
  <2>3. Heap!Sink(x, i, i) \in Mixed(x, n)
    BY <2>1, <2>2, SinkMixes
  <2>4. Heap!Sink(x, i, i) \in Mixed(h, n)
    BY <2>2, <2>3, MixedAgain
  <2>5. QED
    BY <2>4 DEF i
<1>5. next \in [(1..last) \X T1 -> T1]
  BY <1>4
<1>6. PICK g : g \in Solutions(T1, last, base, next)
  <2> HIDE DEF T1, next
  <2>1. Solutions(T1, last, base, next) # {}
    BY <1>1, <1>3, <1>5, Recursion
  <2>2. QED
    BY <2>1
<1>7. /\ g \in [0..last -> T1] /\ g[0] = base
      /\ \A k \in 1..last : g[k] = Heap!Sink(g[k - 1], last + 1 - k, last + 1 - k)
  <2>1. g \in [0..last -> T1] /\ g[0] = base
    BY <1>6 DEF Solutions
  <2>2. ASSUME NEW k \in 1..last
        PROVE  g[k] = Heap!Sink(g[k - 1], last + 1 - k, last + 1 - k)
    <3>1. k - 1 \in 0..last
      BY <1>3
    <3>2. <<k, g[k - 1]>> \in (1..last) \X T1
      BY <2>1, <3>1
    <3>3. g[k] = next[<<k, g[k - 1]>>]
      BY <1>6 DEF Solutions
    <3>4. QED
      BY <3>2, <3>3
  <2>3. QED
    BY <2>1, <2>2
<1> HIDE DEF next
<1>8. g = R(g)
  <2> HIDE DEF T1
  <2>1. ASSUME NEW k \in 0..last
        PROVE  g[k] = IF k = 0 THEN base ELSE Heap!Sink(g[k - 1], last + 1 - k, last + 1 - k)
    <3>1. k = 0 \/ k \in 1..last
      BY <1>3
    <3>2. k \in 1..last => k # 0
      BY <1>3
    <3>3. QED
      BY <1>7, <3>1, <3>2
  <2>2. g = [k \in 0..last |-> g[k]]
    BY <1>7
  <2>3. QED
    BY <2>1, <2>2
<1>9. f = R(f)
  <2> HIDE DEF R
  <2>1. QED
    BY <1>8
<1> HIDE DEF f
<1>10. /\ f[0] = base
       /\ \A k \in 1..last : f[k] = Heap!Sink(f[k - 1], last + 1 - k, last + 1 - k)
  <2>1. ASSUME NEW k \in 0..last
        PROVE  f[k] = IF k = 0 THEN base ELSE Heap!Sink(f[k - 1], last + 1 - k, last + 1 - k)
    <3>1. R(f)[k] = IF k = 0 THEN base ELSE Heap!Sink(f[k - 1], last + 1 - k, last + 1 - k)
      OBVIOUS
    <3> HIDE DEF R
    <3>2. QED
      BY <1>9, <3>1
  <2>2. 0 \in 0..last /\ \A k \in 1..last : k \in 0..last /\ k # 0
    BY <1>3
  <2>3. QED
    BY <2>1, <2>2
<1>11. \A k \in 0..last : f[k] \in T1
  <2> DEFINE Bad == {k \in 0..last : f[k] \notin T1}
  <2> HIDE DEF T1
  <2>1. ASSUME NEW k \in Bad, \A l \in Bad : k \leq l PROVE FALSE
    <3>1. k # 0
      BY <1>1, <1>10, <2>1
    <3>2. k \in 1..last /\ k - 1 \in 0..last /\ k - 1 < k
      BY <1>3, <2>1, <3>1
    <3>3. k - 1 \notin Bad
      BY <1>3, <2>1, <3>2
    <3>4. f[k] \in T1
      BY <1>4, <1>10, <3>2, <3>3
    <3>5. QED
      BY <2>1, <3>4
  <2>2. Bad \in SUBSET Nat
    BY <1>3
  <2>3. Bad = {} => \A k \in 0..last : f[k] \in T1
    OBVIOUS
  <2> HIDE DEF Bad
  <2>4. QED
    BY <2>1, <2>2, <2>3, LeastOf
<1>12. QED
  BY <1>1, <1>2, <1>3, <1>10, <1>11 DEF Heaping, Heaped

\* and it rearranges the list.
LEMMA HeapifyMixes ==
    ASSUME NEW n \in Nat, NEW S, NEW h \in [1..n -> S]
    PROVE  Heap!Heapify(h) \in Mixed(h, n)
<1>1. Heaped(h, n)
  BY HeapifyRuns
<1>2. n \div 2 \in 0..n \div 2
  OBVIOUS
<1>3. QED
  BY <1>1, <1>2 DEF Heaped, Heaping

\* What is picked from a list are its entries at the places, each once if the
\* list holds each once.
LEMMA PickedEntries ==
    ASSUME NEW T1, NEW t \in Seq(T1), NEW at
    PROVE  /\ Entries(Picked(t, at)) = {t[p] : p \in at \cap DOMAIN t}
           /\ Distinct(t) => Distinct(Picked(t, at))
<1> DEFINE n == Len(t)
           q == Pieces(t, at)
           Of(k) == {t[p] : p \in at \cap 1..k}
<1>1. /\ n \in Nat /\ DOMAIN t = 1..n /\ q \in Seq(Seq(T1)) /\ Len(q) = n
      /\ \A i \in 1..n : q[i] = IF i \in at THEN <<t[i]>> ELSE <<>>
  <2>1. n \in Nat /\ DOMAIN t = 1..n /\ \A i \in at \cap DOMAIN t : t[i] \in T1
    BY LenProperties, ElementOfSeq
  <2>2. q \in Seq(Seq(T1)) /\ Len(q) = n
    BY <2>1, PiecesTyped
  <2>3. QED
    BY <2>1, <2>2 DEF Pieces
<1>2. PICK h \in Flattenings(T1, q) : FlattenSeq(q) = h[n]
  BY <1>1, FlattensTo
<1>3. /\ h \in [0..n -> Seq(T1)] /\ h[0] = <<>>
      /\ \A i \in 1..n : h[i] = h[i - 1] \o q[i]
  BY <1>1, <1>2 DEF Flattenings
<1> DEFINE Good(k) == Entries(h[k]) = Of(k) /\ (Distinct(t) => Distinct(h[k]))
           Bad == {k \in 0..n : ~Good(k)}
<1> HIDE DEF n, q
<1>4. ASSUME NEW m \in Bad, \A k \in Bad : m \leq k PROVE FALSE
  <2>1. m # 0
    <3>1. Entries(<<>>) = {} /\ Of(0) = {} /\ Distinct(<<>>)
      BY DEF Entries, Distinct
    <3>2. Good(0)
      BY <1>3, <3>1
    <3>3. QED
      BY <1>4, <3>2
  <2>2. m \in 1..n /\ m - 1 \in 0..n /\ m - 1 < m
    BY <1>1, <1>4, <2>1
  <2> DEFINE g == h[m - 1]
  <2>3. Entries(g) = Of(m - 1) /\ (Distinct(t) => Distinct(g)) /\ g \in Seq(T1)
    <3>1. m - 1 \notin Bad
      <4> HIDE DEF Bad
      <4>1. QED
        BY <1>4, <2>2
    <3>2. QED
      BY <1>3, <2>2, <3>1
  <2>4. h[m] = g \o q[m]
    BY <1>3, <2>2
  <2>5. 1..m = (1..m - 1) \cup {m}
    BY <2>2
  <2> DEFINE l == Len(g)
  <2>6. l \in Nat /\ DOMAIN g = 1..l
    BY <2>3, LenProperties
  <2> HIDE DEF g, l
  <2>7. CASE m \in at
    <3> DEFINE w == Append(g, t[m])
    <3>1. t[m] \in T1
      BY <1>1, <2>2, ElementOfSeq DEF n
    <3>2. h[m] = w
      <4>1. q[m] = <<t[m]>>
        BY <1>1, <2>2, <2>7
      <4>2. g \o <<t[m]>> = Append(g, t[m])
        BY <2>3, <3>1
      <4>3. QED
        BY <2>4, <4>1, <4>2
    <3>3. /\ DOMAIN w = 1..l + 1 /\ w[l + 1] = t[m]
          /\ \A p \in 1..l : w[p] = g[p]
      BY <2>3, <2>6, <3>1 DEF l
    <3> HIDE DEF w
    <3>4. 1..l + 1 = (1..l) \cup {l + 1} /\ l + 1 \notin 1..l
      BY <2>6
    <3>5. Entries(w) = Entries(g) \cup {t[m]}
      BY <2>6, <3>3, <3>4 DEF Entries
    <3>6. Of(m) = Of(m - 1) \cup {t[m]}
      BY <2>5, <2>7
    <3>7. Distinct(t) => t[m] \notin Of(m - 1)
      <4>1. ASSUME NEW p \in 1..m - 1, Distinct(t), t[p] = t[m] PROVE FALSE
        <5>1. p \in DOMAIN t /\ m \in DOMAIN t /\ p # m
          BY <1>1, <2>2
        <5>2. QED
          BY <4>1, <5>1 DEF Distinct
      <4>2. QED
        BY <4>1
    <3>8. Distinct(t) => Distinct(w)
      <4>1. SUFFICES ASSUME Distinct(t) PROVE Distinct(w)
        OBVIOUS
      <4>2. Distinct(g) /\ t[m] \notin Entries(g)
        BY <2>3, <3>7, <4>1
      <4>3. QED
        BY <2>6, <3>3, <3>4, <4>2 DEF Distinct, Entries
    <3>9. Good(m)
      BY <2>3, <3>2, <3>5, <3>6, <3>8
    <3>10. QED
      BY <1>4, <3>9
  <2>8. CASE m \notin at
    <3>1. h[m] = g
      <4>1. q[m] = <<>>
        BY <1>1, <2>2, <2>8
      <4>2. QED
        BY <2>3, <2>4, <4>1, ConcatEmptySeq
    <3>2. Of(m) = Of(m - 1)
      BY <2>5, <2>8
    <3>3. Good(m)
      BY <2>3, <3>1, <3>2
    <3>4. QED
      BY <1>4, <3>3
  <2>9. QED
    BY <2>7, <2>8
<1>5. Bad \in SUBSET Nat
  BY <1>1
<1>6. Bad = {} => Good(n)
  <2> HIDE DEF Good
  <2>1. n \in 0..n
    BY <1>1
  <2>2. QED
    BY <2>1
<1> HIDE DEF Bad, Good
<1>7. Good(n)
  BY <1>4, <1>5, <1>6, LeastOf
<1>8. Of(n) = {t[p] : p \in at \cap DOMAIN t}
  BY <1>1
<1>9. Picked(t, at) = h[n]
  BY <1>2 DEF Picked, q
<1>10. QED
  BY <1>7, <1>8, <1>9 DEF Good

\* The first entry stays the first.
LEMMA PickedFirst ==
    ASSUME NEW T1, NEW t \in Seq(T1), t # <<>>, NEW at, 1 \in at
    PROVE  Picked(t, at) # <<>> /\ Picked(t, at)[1] = t[1]
<1> DEFINE n == Len(t)
           x == <<t[1]>>
           y == SubSeq(t, 2, n)
           bt == {j \in 1..n : 1 + j \in at}
<1>1. n \in Nat \ {0} /\ 1 \in 1..n /\ t[1] \in T1
  BY EmptySeq, LenProperties, ElementOfSeq
<1>2. x \in Seq(T1) /\ Len(x) = 1 /\ y \in Seq(T1)
  <2>1. \A i \in 2..n : t[i] \in T1
    BY <1>1, ElementOfSeq
  <2>2. y \in Seq(T1)
    BY <1>1, <2>1, SubSeqProperties
  <2>3. QED
    BY <1>1, <2>2
<1>3. Len(y) = n - 1
  <2>1. \A i \in 2..n : t[i] \in T1
    BY <1>1, ElementOfSeq
  <2>2. Len(y) = IF 2 \leq n THEN n - 2 + 1 ELSE 0
    BY <1>1, <2>1, SubSeqProperties
  <2> HIDE DEF y, n
  <2>3. QED
    BY <1>1, <2>2
<1>4. t = x \o y
  <2>1. t = SubSeq(t, 1, n)
    BY SubSeqFull
  <2>2. SubSeq(t, 1, n) = <<t[1]>> \o SubSeq(t, 1 + 1, n)
    <3>1. n \in 1..n
      BY <1>1
    <3> HIDE DEF n
    <3>2. 1 \in 1..Len(t) /\ n \in 1..Len(t)
      BY <1>1, <3>1 DEF n
    <3>3. QED
      BY <3>2, SubSeqRecursiveFirst
  <2>3. 1 + 1 = 2
    OBVIOUS
  <2>4. QED
    BY <2>1, <2>2, <2>3
<1>5. \A j \in DOMAIN y : j \in bt <=> Len(x) + j \in at
  <2>1. DOMAIN y = 1..n - 1
    BY <1>2, <1>3, LenProperties
  <2> HIDE DEF y, n, x
  <2>2. QED
    BY <1>1, <1>2, <2>1
<1> HIDE DEF x, y, bt, n
<1>6. Picked(x \o y, at) = Picked(x, at) \o Picked(y, bt)
  <2>1. x \in Seq(T1) /\ y \in Seq(T1)
    BY <1>2
  <2>2. QED
    BY <2>1, <1>5, PickedConcat
<1>7. Picked(x, at) = x
  BY PickedOne DEF x
<1>8. Picked(y, bt) \in Seq(T1)
  <2>1. \A i \in bt \cap DOMAIN y : y[i] \in T1
    BY <1>2, LenProperties, ElementOfSeq
  <2>2. QED
    BY <1>2, <2>1, PickedTyped
<1>9. (x \o Picked(y, bt))[1] = x[1] /\ Len(x \o Picked(y, bt)) = 1 + Len(Picked(y, bt))
  <2> DEFINE z == Picked(y, bt)
  <2>1. x \in Seq(T1) /\ z \in Seq(T1) /\ 1 \in 1..Len(x)
    BY <1>2, <1>8
  <2> HIDE DEF z
  <2>2. Len(x \o z) = Len(x) + Len(z)
    BY <2>1, ConcatProperties
  <2>3. \A i \in 1..Len(x) + Len(z) : (x \o z)[i] = IF i <= Len(x) THEN x[i] ELSE z[i - Len(x)]
    BY <2>1, ConcatProperties
  <2>4. Len(x) = 1 /\ Len(z) \in Nat
    BY <1>2, <2>1, LenProperties
  <2>5. (x \o z)[1] = x[1]
    <3>1. 1 \in 1..Len(x) + Len(z) /\ 1 <= Len(x)
      BY <2>4
    <3>2. QED
      BY <2>3, <3>1
  <2>6. QED
    BY <2>2, <2>4, <2>5 DEF z
<1>10. Len(Picked(y, bt)) \in Nat
  BY <1>8, LenProperties
<1>11. x[1] = t[1]
  BY DEF x
<1>12. QED
  BY <1>4, <1>6, <1>7, <1>9, <1>10, <1>11, EmptySeq

\* A list holds the entries of a set, each once.
HoldsOnce(h, S) == /\ \E m \in Nat : h \in [1..m -> Pair]
               /\ Distinct(h) /\ Entries(h) = S
\* A list that holds each entry of a set once, as a sequence.
LEMMA HoldsTyped ==
    ASSUME NEW h, NEW S, HoldsOnce(h, S)
    PROVE  /\ h \in Seq(Pair) /\ Len(h) \in Nat /\ h \in [1..Len(h) -> Pair] /\ DOMAIN h = 1..Len(h)
           /\ h = <<>> <=> S = {}
<1>1. PICK m \in Nat : h \in [1..m -> Pair]
  BY DEF HoldsOnce
<1>2. h \in Seq(Pair) /\ Len(h) = m
  BY <1>1, LengthOf
<1>3. h = <<>> <=> m = 0
  BY <1>2, EmptySeq
<1>4. S = {} <=> m = 0
  <2>1. S = {h[p] : p \in 1..m}
    BY <1>1 DEF HoldsOnce, Entries
  <2>2. m # 0 => 1 \in 1..m
    BY <1>1
  <2>3. m = 0 => 1..m = {}
    OBVIOUS
  <2>4. QED
    BY <2>1, <2>2, <2>3
<1>5. QED
  BY <1>1, <1>2, <1>3, <1>4

\* A rearranged list holds the same entries,
LEMMA MixedHolds ==
    ASSUME NEW n \in Nat, NEW h \in [1..n -> Pair], NEW S, HoldsOnce(h, S), NEW g \in Mixed(h, n)
    PROVE  HoldsOnce(g, S)
<1>1. g \in [1..n -> Pair]
  BY MixedPairs
<1>2. Entries(g) = S
  BY DEF Mixed, HoldsOnce, Entries
<1>3. Distinct(g)
  BY DEF Mixed, HoldsOnce
<1>4. QED
  BY <1>1, <1>2, <1>3 DEF HoldsOnce

\* one entry behind it is one more,
LEMMA AppendHolds ==
    ASSUME NEW w, NEW S, HoldsOnce(w, S), NEW e \in Pair, e \notin S
    PROVE  /\ Append(w, e) \in [1..Len(w) + 1 -> Pair] /\ Append(w, e)[Len(w) + 1] = e
           /\ \A p \in 1..Len(w) : Append(w, e)[p] = w[p]
           /\ HoldsOnce(Append(w, e), S \cup {e})
<1> DEFINE l == Len(w)
           a == Append(w, e)
<1>1. w \in Seq(Pair) /\ l \in Nat /\ w \in [1..l -> Pair] /\ DOMAIN w = 1..l
  BY HoldsTyped
<1>2. a \in [1..l + 1 -> Pair] /\ a[l + 1] = e /\ \A p \in 1..l : a[p] = w[p]
  <2>1. a \in Seq(Pair) /\ Len(a) = Len(w) + 1 /\ a[Len(w) + 1] = e
        /\ \A p \in 1..Len(w) : a[p] = w[p]
    BY <1>1, AppendProperties
  <2>2. a \in [1..Len(a) -> Pair]
    BY <2>1, LenProperties
  <2>3. QED
    BY <2>1, <2>2
<1>3. 1..l + 1 = (1..l) \cup {l + 1} /\ l + 1 \notin 1..l /\ l + 1 \in Nat
  BY <1>1
<1> HIDE DEF a, l
<1>4. Entries(a) = Entries(w) \cup {e}
  BY <1>1, <1>2, <1>3 DEF Entries
<1>5. Distinct(a)
  BY <1>1, <1>2, <1>3 DEF HoldsOnce, Distinct, Entries
<1>6. HoldsOnce(a, S \cup {e})
  BY <1>2, <1>3, <1>4, <1>5 DEF HoldsOnce
<1>7. QED
  BY <1>2, <1>6 DEF a, l

\* heappush likewise,
LEMMA PushHolds ==
    ASSUME NEW w, NEW S, HoldsOnce(w, S), NEW e \in Pair, e \notin S
    PROVE  HoldsOnce(Heap!Push(w, e), S \cup {e})
<1> DEFINE a == Append(w, e)
           n == Len(w) + 1
<1>1. a \in [1..n -> Pair] /\ HoldsOnce(a, S \cup {e})
  BY AppendHolds
<1>2. n \in Nat /\ n \in 1..n /\ 1 \in Nat \ {0}
  BY HoldsTyped
<1>3. Heap!Push(w, e) = Heap!Rise(a, n, 1)
  BY DEF Heap!Push
<1> HIDE DEF a, n
<1>4. Heap!Rise(a, n, 1) \in Mixed(a, n)
  BY <1>1, <1>2, RiseMixes
<1>5. QED
  BY <1>1, <1>2, <1>3, <1>4, MixedHolds

\* The entries of the other servers.
Others(h, i) == {p \in DOMAIN h : h[p][2] # i}
\* the filter of _update_*_priority keeps the entries of the other servers,
LEMMA WithoutIsPicked ==
    ASSUME NEW h, NEW i
    PROVE  Heap!Without(h, i) = Picked(h, Others(h, i))
<1> DEFINE q == [p \in DOMAIN h |-> IF h[p][2] = i THEN <<>> ELSE <<h[p]>>]
<1>1. q = Pieces(h, Others(h, i))
  BY DEF Pieces, Others
<1>2. Heap!FlattenSeq(q) = FlattenSeq(q)
  BY DEF Heap!FlattenSeq, FlattenSeq
<1>3. Heap!Without(h, i) = Heap!FlattenSeq(q)
  BY DEF Heap!Without
<1>4. QED
  BY <1>1, <1>2, <1>3 DEF Picked

\* and holds each of them once,
LEMMA WithoutHolds ==
    ASSUME NEW h, NEW S, HoldsOnce(h, S), NEW i
    PROVE  HoldsOnce(Heap!Without(h, i), {x \in S : x[2] # i})
<1> DEFINE w == Picked(h, Others(h, i))
<1>1. h \in Seq(Pair) /\ Distinct(h)
  BY HoldsTyped DEF HoldsOnce
<1>2. /\ Entries(w) = {h[p] : p \in Others(h, i) \cap DOMAIN h}
      /\ Distinct(w)
  BY <1>1, PickedEntries
<1>3. w \in Seq(Pair)
  <2>1. \A p \in Others(h, i) \cap DOMAIN h : h[p] \in Pair
    BY <1>1, LenProperties, ElementOfSeq
  <2>2. QED
    BY <1>1, <2>1, PickedTyped
<1>4. Entries(w) = {x \in S : x[2] # i}
  BY <1>2 DEF Others, HoldsOnce, Entries
<1> HIDE DEF w
<1>5. \E m \in Nat : w \in [1..m -> Pair]
  <2> DEFINE len == Len(w)
  <2>1. len \in Nat /\ w \in [1..len -> Pair]
    BY <1>3, LenProperties
  <2> HIDE DEF len
  <2>2. QED
    BY <2>1
<1>6. HoldsOnce(w, {x \in S : x[2] # i})
  BY <1>2, <1>4, <1>5 DEF HoldsOnce
<1>7. QED
  BY <1>6, WithoutIsPicked DEF w

\* Without its last entry, which takes the place of the root.
Rest(h) == [p \in 1..Len(h) - 1 |-> IF p = 1 THEN h[Len(h)] ELSE h[p]]
\* heappop puts the last entry at the root and sifts it,
LEMMA PopIs ==
    ASSUME NEW h \in Seq(Pair), h # <<>>
    PROVE  /\ Len(h) \in Nat \ {0} /\ Rest(h) \in [1..Len(h) - 1 -> Pair]
           /\ Heap!Pop(h) = IF Len(h) = 1 THEN <<>> ELSE Heap!Sink(Rest(h), 1, 1)
<1> DEFINE n == Len(h)
           f == SubSeq(h, 1, n - 1)
<1>1. n \in Nat \ {0} /\ \A p \in 1..n : h[p] \in Pair
  BY EmptySeq, LenProperties, ElementOfSeq
<1>2. f \in Seq(Pair) /\ Len(f) = n - 1 /\ \A p \in 1..n - 1 : f[p] = h[p]
  <2>1. \A p \in 1..n - 1 : h[p] \in Pair
    BY <1>1
  <2>2. /\ f \in Seq(Pair) /\ Len(f) = IF 1 <= n - 1 THEN n - 1 - 1 + 1 ELSE 0
        /\ \A p \in 1..n - 1 - 1 + 1 : f[p] = h[1 + p - 1]
    BY <1>1, <2>1, SubSeqProperties
  <2> HIDE DEF f, n
  <2>3. (IF 1 <= n - 1 THEN n - 1 - 1 + 1 ELSE 0) = n - 1 /\ n - 1 - 1 + 1 = n - 1
    BY <1>1
  <2>4. \A p \in 1..n - 1 : 1 + p - 1 = p
    BY <1>1
  <2>5. QED
    BY <2>2, <2>3, <2>4
<1>3. Heap!Pop(h) = IF f = <<>> THEN f ELSE Heap!Sink([f EXCEPT ![1] = h[n]], 1, 1)
  BY DEF Heap!Pop, Heap!Front, Heap!Last
<1>4. f = <<>> <=> n = 1
  <2> HIDE DEF f
  <2>1. f = <<>> <=> Len(f) = 0
    BY <1>2, EmptySeq
  <2>2. QED
    BY <1>1, <1>2, <2>1
<1>5. [f EXCEPT ![1] = h[n]] = Rest(h)
  <2>1. DOMAIN f = 1..n - 1
    BY <1>2, LenProperties
  <2> HIDE DEF f
  <2>2. QED
    BY <1>2, <2>1 DEF Rest
<1>6. Rest(h) \in [1..n - 1 -> Pair]
  BY <1>1 DEF Rest
<1>7. QED
  BY <1>1, <1>3, <1>4, <1>5, <1>6

\* and the list holds the others,
LEMMA PopHolds ==
    ASSUME NEW h, NEW S, HoldsOnce(h, S), S # {}
    PROVE  h[1] \in S /\ HoldsOnce(Heap!Pop(h), S \ {h[1]})
<1> DEFINE n == Len(h)
           r == Rest(h)
<1>1. h \in Seq(Pair) /\ h # <<>> /\ DOMAIN h = 1..n
  BY HoldsTyped
<1>2. /\ n \in Nat \ {0} /\ r \in [1..n - 1 -> Pair]
      /\ Heap!Pop(h) = IF n = 1 THEN <<>> ELSE Heap!Sink(r, 1, 1)
  BY <1>1, PopIs
<1>3. \A p \in 1..n - 1 : r[p] = IF p = 1 THEN h[n] ELSE h[p]
  BY DEF Rest
<1> HIDE DEF r, n
<1>4. Distinct(h) /\ Entries(h) = S /\ 1 \in 1..n /\ n \in 1..n
  BY <1>2 DEF HoldsOnce
<1>5. h[1] \in S
  BY <1>1, <1>4 DEF Entries
<1>6. CASE n = 1
  <2>1. Entries(<<>>) = {} /\ Distinct(<<>>) /\ 0 \in Nat /\ <<>> \in [1..0 -> Pair]
    BY DEF Entries, Distinct
  <2>2. S \ {h[1]} = {}
    BY <1>1, <1>4, <1>6 DEF Entries
  <2>3. QED
    BY <1>2, <1>5, <1>6, <2>1, <2>2 DEF HoldsOnce
<1>7. CASE n # 1
  <2>1. n - 1 \in Nat /\ 1 \in 1..n - 1 /\ 1 \in Nat \ {0}
    BY <1>2, <1>7
  <2>2. Distinct(r)
    <3>1. ASSUME NEW p \in 1..n - 1, NEW q \in 1..n - 1, r[p] = r[q] PROVE p = q
      <4>1. p \in 1..n /\ q \in 1..n /\ p # n /\ q # n
        BY <1>2
      <4>2. QED
        BY <1>1, <1>3, <1>4, <3>1, <4>1 DEF Distinct
    <3>2. DOMAIN r = 1..n - 1
      BY <1>2
    <3>3. QED
      BY <3>1, <3>2 DEF Distinct
  <2>3. Entries(r) = S \ {h[1]}
    <3>1. ASSUME NEW p \in 1..n - 1 PROVE r[p] \in S /\ r[p] # h[1]
      <4>1. p \in 1..n /\ n # 1
        BY <1>2, <1>7
      <4>2. QED
        BY <1>1, <1>3, <1>4, <4>1 DEF Distinct, Entries
    <3>2. ASSUME NEW p \in 1..n, h[p] # h[1] PROVE \E q \in 1..n - 1 : r[q] = h[p]
      <4>1. CASE p = n
        BY <1>3, <2>1, <4>1
      <4>2. CASE p # n
        <5>1. p \in 1..n - 1 /\ p # 1
          BY <1>2, <3>2, <4>2
        <5>2. QED
          BY <1>3, <5>1
      <4>3. QED
        BY <4>1, <4>2
    <3>3. Entries(r) = {r[q] : q \in 1..n - 1}
      BY <1>2 DEF Entries
    <3>4. S = {h[p] : p \in 1..n}
      BY <1>1, <1>4 DEF Entries
    <3>5. Entries(r) \subseteq S \ {h[1]}
      BY <3>1, <3>3
    <3>6. S \ {h[1]} \subseteq Entries(r)
      BY <3>2, <3>3, <3>4
    <3>7. QED
      BY <3>5, <3>6
  <2>4. HoldsOnce(r, S \ {h[1]})
    BY <1>2, <2>1, <2>2, <2>3 DEF HoldsOnce
  <2>5. Heap!Sink(r, 1, 1) \in Mixed(r, n - 1)
    BY <1>2, <2>1, SinkMixes
  <2>6. HoldsOnce(Heap!Sink(r, 1, 1), S \ {h[1]})
    BY <1>2, <2>1, <2>4, <2>5, MixedHolds
  <2>7. QED
    BY <1>2, <1>5, <1>7, <2>6
<1>8. QED
  BY <1>6, <1>7

\* and heapify changes nothing of that.
LEMMA HeapifyHolds ==
    ASSUME NEW n \in Nat, NEW h \in [1..n -> Pair], Distinct(h)
    PROVE  HoldsOnce(Heap!Heapify(h), Entries(h))
<1>1. HoldsOnce(h, Entries(h))
  BY DEF HoldsOnce
<1>2. Heap!Heapify(h) \in Mixed(h, n)
  BY HeapifyMixes
<1>3. QED
  BY <1>1, <1>2, MixedHolds

\* A list that holds a priority for each of m servers has m entries.
LEMMA SizeOfList ==
    ASSUME NEW m \in Nat, NEW f, NEW h, HoldsOnce(h, {<<f[i], i>> : i \in 1..m})
    PROVE  Len(h) = m
<1> DEFINE n == Len(h)
           F == [p \in 1..n |-> h[p][2]]
<1>1. n \in Nat /\ DOMAIN h = 1..n
  BY HoldsTyped
<1>2. {h[p] : p \in 1..n} = {<<f[i], i>> : i \in 1..m}
  BY <1>1 DEF HoldsOnce, Entries
<1>3. ASSUME NEW p \in 1..n PROVE h[p][2] \in 1..m /\ h[p] = <<f[h[p][2]], h[p][2]>>
  BY <1>2
<1>4. ASSUME NEW p \in 1..n, NEW q \in 1..n, h[p][2] = h[q][2] PROVE p = q
  <2>1. h[p] = h[q]
    BY <1>3, <1>4
  <2>2. QED
    BY <1>1, <2>1 DEF HoldsOnce, Distinct
<1>5. ASSUME NEW i \in 1..m PROVE \E p \in 1..n : h[p][2] = i
  <2>1. PICK p \in 1..n : h[p] = <<f[i], i>>
    BY <1>2
  <2>2. QED
    BY <2>1
<1> HIDE DEF n
<1>6. F \in [1..n -> 1..m]
  BY <1>3
<1>7. \A p, q \in 1..n : F[p] = F[q] => p = q
  BY <1>4
<1>8. \A i \in 1..m : \E p \in 1..n : F[p] = i
  BY <1>5
<1>9. F \in Bijection(1..n, 1..m)
  <2> HIDE DEF F
  <2>1. QED
    BY <1>6, <1>7, <1>8, Fun_IsBij
<1> HIDE DEF F
<1>10. ExistsBijection(1..n, 1..m)
  BY <1>9, Fun_ExistsBij
<1>11. 1 \in Int /\ n \in Int /\ m \in Int
  BY <1>1
<1>12. /\ IsFiniteSet(1..n) /\ Cardinality(1..n) = IF 1 > n THEN 0 ELSE n - 1 + 1
       /\ Cardinality(1..m) = IF 1 > m THEN 0 ELSE m - 1 + 1
  BY <1>11, FS_Interval
<1>13. Cardinality(1..m) = Cardinality(1..n)
  BY <1>10, <1>12, FS_Bijection
<1>14. n = m
  BY <1>1, <1>12, <1>13
<1>15. QED
  BY <1>14 DEF n

\* No entry of the set comes before the first of the list.
Rooted(h, S) == \A x \in S : ~Heap!Before(x, h[1])

\* A pushed entry rises to the root if it comes before the root, else the root stays,
LEMMA PushRoot ==
    ASSUME NEW w, NEW S, HoldsOnce(w, S), Rooted(w, S), NEW e \in Pair, e \notin S
    PROVE  Rooted(Heap!Push(w, e), S \cup {e})
<1> DEFINE a == Append(w, e)
           l == Len(w)
           g == Heap!Rise(a, l + 1, 1)
<1>1. /\ a \in [1..l + 1 -> Pair] /\ a[l + 1] = e
      /\ \A p \in 1..l : a[p] = w[p]
      /\ HoldsOnce(a, S \cup {e})
  BY AppendHolds
<1>2. l \in Nat /\ DOMAIN w = 1..l
  BY HoldsTyped
<1>3. Heap!Push(w, e) = g
  BY DEF Heap!Push
<1>4. HoldsOnce(g, S \cup {e})
  BY <1>3, PushHolds
<1> HIDE DEF a, l
<1>5. l + 1 \in Nat /\ l + 1 \in 1..l + 1 /\ 1 \in Nat \ {0}
  BY <1>2
<1>6. RootBelow(a, l + 1)
  <2>1. ASSUME NEW p \in 1..l + 1, p # l + 1 PROVE ~Heap!Before(a[p], a[1])
    <3>1. p \in 1..l /\ 1 \in 1..l
      BY <1>2, <2>1
    <3>2. a[p] = w[p] /\ a[1] = w[1] /\ w[p] \in S
      BY <1>1, <1>2, <3>1 DEF HoldsOnce, Entries
    <3>3. QED
      BY <3>2 DEF Rooted
  <2>2. DOMAIN a = 1..l + 1
    BY <1>1
  <2>3. QED
    BY <2>1, <2>2 DEF RootBelow
<1>7. \A p \in 1..l + 1 : ~Heap!Before(g[p], g[1])
  BY <1>1, <1>5, <1>6, RiseRoot
<1>8. g \in Mixed(a, l + 1)
  BY <1>1, <1>5, RiseMixes
<1> HIDE DEF g
<1>9. S \cup {e} = {g[p] : p \in 1..l + 1}
  BY <1>4, <1>8 DEF HoldsOnce, Mixed, Entries
<1>10. QED
  BY <1>3, <1>7, <1>9 DEF Rooted

\* and an entry that comes before all others rises to the root of any list.
LEMMA PushLeast ==
    ASSUME NEW w, NEW S, HoldsOnce(w, S), NEW e \in Pair, \A x \in S : Heap!Before(e, x)
    PROVE  Rooted(Heap!Push(w, e), S \cup {e})
<1> DEFINE a == Append(w, e)
           l == Len(w)
<1>1. S \subseteq Pair
  BY DEF HoldsOnce, Entries
<1>2. e \notin S
  BY <1>1, Ordering
<1>3. /\ a \in [1..l + 1 -> Pair] /\ a[l + 1] = e
      /\ \A p \in 1..l : a[p] = w[p]
      /\ HoldsOnce(a, S \cup {e})
  BY <1>2, AppendHolds
<1>4. l \in Nat /\ DOMAIN w = 1..l
  BY HoldsTyped
<1>5. Heap!Push(w, e) = Heap!Rise(a, l + 1, 1)
  BY DEF Heap!Push
<1> HIDE DEF a, l
<1>6. l + 1 \in Nat /\ l + 1 \in 1..l + 1
  BY <1>4
<1>7. \A p \in 1..l + 1 : p # l + 1 => Heap!Before(a[l + 1], a[p])
  <2>1. ASSUME NEW p \in 1..l + 1, p # l + 1 PROVE a[p] \in S
    <3>1. p \in 1..l
      BY <1>4, <2>1
    <3>2. QED
      BY <1>3, <1>4, <3>1 DEF HoldsOnce, Entries
  <2>2. QED
    BY <1>3, <2>1
<1>8. Distinct(a)
  BY <1>3 DEF HoldsOnce
<1>9. Heap!Rise(a, l + 1, 1)[1] = e
  BY <1>3, <1>6, <1>7, <1>8, RiseLeast
<1>10. \A x \in S \cup {e} : ~Heap!Before(x, e)
  BY <1>1, Ordering
<1>11. QED
  BY <1>5, <1>9, <1>10 DEF Rooted

\* The filter keeps the root if it is of another server.
LEMMA WithoutRoot ==
    ASSUME NEW h, NEW S, HoldsOnce(h, S), Rooted(h, S), NEW i, S # {}, h[1][2] # i
    PROVE  Rooted(Heap!Without(h, i), {x \in S : x[2] # i})
<1>1. h \in Seq(Pair) /\ h # <<>> /\ Len(h) \in Nat /\ DOMAIN h = 1..Len(h)
  BY HoldsTyped
<1>2. 1 \in DOMAIN h
  BY <1>1, EmptySeq
<1>3. 1 \in Others(h, i)
  BY <1>2 DEF Others
<1>4. Picked(h, Others(h, i))[1] = h[1]
  BY <1>1, <1>3, PickedFirst
<1>5. QED
  BY <1>4, WithoutIsPicked DEF Rooted

\* The places under s are those that its children, and theirs, lead to.
Downward(S) == \A x \in S : 2 * x \in S /\ 2 * x + 1 \in S
Under(s, a) == \A S \in SUBSET Nat : s \in S /\ Downward(S) => a \in S
\* A place is under itself and above its children,
LEMMA UnderChild ==
    ASSUME NEW s \in Nat, NEW a, Under(s, a)
    PROVE  Under(s, s) /\ Under(s, 2 * a) /\ Under(s, 2 * a + 1)
BY DEF Under, Downward

\* a place under another is not before it, and its parent is under the other too,
LEMMA UnderParent ==
    ASSUME NEW s \in Nat, NEW a \in Nat, Under(s, a)
    PROVE  s \leq a /\ (a # s => Under(s, a \div 2) /\ s \leq a \div 2)
<1>1. \A b \in Nat : Under(s, b) => s \leq b
  <2> DEFINE S == {x \in Nat : s \leq x}
  <2>1. S \in SUBSET Nat /\ s \in S /\ Downward(S)
    BY DEF Downward
  <2>2. QED
    BY <2>1 DEF Under
<1>2. ASSUME a # s PROVE Under(s, a \div 2)
  <2>1. SUFFICES ASSUME NEW S \in SUBSET Nat, s \in S, Downward(S), a \div 2 \notin S PROVE FALSE
    BY DEF Under
  <2> DEFINE R == S \ {a}
  <2>2. R \in SUBSET Nat /\ s \in R
    BY <1>2, <2>1
  <2>3. Downward(R)
    <3>1. ASSUME NEW x \in R PROVE 2 * x # a /\ 2 * x + 1 # a
      BY <2>1, <3>1
    <3>2. QED
      BY <2>1, <3>1 DEF Downward
  <2>4. a \in R
    BY <2>2, <2>3 DEF Under
  <2>5. QED
    BY <2>4
<1>3. a \div 2 \in Nat
  OBVIOUS
<1>4. QED
  BY <1>1, <1>2, <1>3

\* and all are under the root.
LEMMA UnderRoot == \A a \in Nat \ {0} : Under(1, a)
<1>1. SUFFICES ASSUME NEW S \in SUBSET Nat, 1 \in S, Downward(S), NEW b \in Nat \ {0}, b \notin S
               PROVE  FALSE
  BY DEF Under
<1> DEFINE Bad == {a \in Nat \ {0} : a \notin S}
<1>2. Bad \in SUBSET Nat /\ b \in Bad
  BY <1>1
<1>3. ASSUME NEW m \in Bad, \A k \in Bad : m \leq k PROVE FALSE
  <2>1. m \in Nat \ {0, 1} /\ m \notin S
    BY <1>1
  <2>2. /\ m \div 2 \in Nat \ {0} /\ m \div 2 < m
        /\ m = 2 * (m \div 2) \/ m = 2 * (m \div 2) + 1
    BY <2>1
  <2>3. m \div 2 \in S
    BY <1>3, <2>1, <2>2
  <2>4. QED
    BY <1>1, <2>1, <2>2, <2>3 DEF Downward
<1> HIDE DEF Bad
<1>4. QED
  BY <1>2, <1>3, LeastOf

\* No entry of a list comes before its parent at s or after; but for the one at a
\* place, which may have risen there; but for those next to a place, of which the
\* entry may sink.
HeapFrom(g, n, s) == \A j \in 2..n : j \div 2 \geq s => ~Heap!Before(g[j], g[j \div 2])
Bridged(g, n, s, at) ==
    \A j \in 2..n : j \div 2 = at /\ at \div 2 \geq s => ~Heap!Before(g[j], g[at \div 2])
HeapBelow(g, n, s, at) ==
    /\ \A j \in 2..n : j \div 2 \geq s /\ j # at => ~Heap!Before(g[j], g[j \div 2])
    /\ Bridged(g, n, s, at)
HeapAround(g, n, s, at) ==
    /\ \A j \in 2..n : j \div 2 \geq s /\ j # at /\ j \div 2 # at => ~Heap!Before(g[j], g[j \div 2])
    /\ Bridged(g, n, s, at)

\* A rising entry leaves a heap behind it,
LEMMA UpHeap ==
    ASSUME NEW n \in Nat, NEW h \in [1..n -> Pair], NEW s \in Nat \ {0}, NEW now \in Place(h, n),
           Under(s, now.at), HeapBelow(now.heap, n, s, now.at)
    PROVE  /\ Under(s, Heap!Up(now, s).at)
           /\ HeapBelow(Heap!Up(now, s).heap, n, s, Heap!Up(now, s).at)
           /\ Heap!Up(now, s) = now => HeapFrom(now.heap, n, s)
<1> DEFINE g == now.heap
           at == now.at
           parent == now.at \div 2
           w == Heap!Swap(g, at, parent)
<1>1. g \in [1..n -> Pair] /\ at \in 1..n
  BY MixedPairs DEF Place
<1>2. s \leq at /\ (at # s => Under(s, parent) /\ s \leq parent) /\ parent \in Nat /\ parent < at
  <2>1. at \in Nat /\ Under(s, at) /\ s \in Nat
    BY <1>1
  <2>2. parent \in Nat /\ parent < at
    BY <1>1
  <2>3. s \leq at /\ (at # s => Under(s, parent) /\ s \leq parent)
    <3> HIDE DEF at
    <3>1. s \leq at /\ (at # s => Under(s, at \div 2) /\ s \leq at \div 2)
      BY <2>1, UnderParent
    <3>2. QED
      BY <3>1 DEF at
  <2>4. QED
    BY <2>2, <2>3
<1>3. CASE at > s /\ Heap!Before(g[at], g[parent])
  <2>1. Heap!Up(now, s) = [heap |-> w, at |-> parent]
    BY <1>3 DEF Heap!Up
  <2>2. parent \in 1..n /\ parent # at /\ parent \geq s /\ Under(s, parent)
    BY <1>1, <1>2, <1>3
  <2>3. /\ w \in [1..n -> Pair] /\ w[at] = g[parent] /\ w[parent] = g[at]
        /\ \A p \in 1..n : p # at /\ p # parent => w[p] = g[p]
    BY <1>1, <2>2 DEF Heap!Swap
  <2> DEFINE p == parent
  <2>4. p = at \div 2
    OBVIOUS
  <2>5. HeapBelow(g, n, s, at)
    OBVIOUS
  <2> HIDE DEF g, at, w, p
  <2>6. /\ p \in 1..n /\ at \in 1..n /\ p # at /\ p \geq s /\ p < at
        /\ g \in [1..n -> Pair] /\ w \in [1..n -> Pair] /\ w[at] = g[p] /\ w[p] = g[at]
        /\ \A q \in 1..n : q # at /\ q # p => w[q] = g[q]
        /\ Heap!Before(g[at], g[p])
    BY <1>1, <1>2, <1>3, <2>2, <2>3 DEF p
  <2>7. ASSUME NEW j \in 2..n, j \div 2 \geq s, j # p PROVE ~Heap!Before(w[j], w[j \div 2])
    <3>1. j \div 2 \in 1..n /\ j \in 1..n
      BY <2>7
    <3>2. CASE j = at
      BY <2>4, <2>6, <3>2, Ordering
    <3>3. CASE j # at /\ j \div 2 = at
      <4>1. ~Heap!Before(g[j], g[p])
        BY <2>4, <2>5, <2>6, <3>3 DEF HeapBelow, Bridged
      <4>2. QED
        BY <2>6, <2>7, <3>1, <3>3, <4>1
    <3>4. CASE j # at /\ j \div 2 = p
      <4>1. ~Heap!Before(g[j], g[p])
        BY <2>5, <2>7, <3>4 DEF HeapBelow
      <4>2. g[j] \in Pair /\ g[p] \in Pair /\ g[at] \in Pair
        BY <2>6, <3>1
      <4>3. ~Heap!Before(g[j], g[at])
        BY <2>6, <4>1, <4>2, Ordering
      <4>4. QED
        BY <2>6, <2>7, <3>1, <3>4, <4>3
    <3>5. CASE j # at /\ j \div 2 # at /\ j \div 2 # p
      <4>1. ~Heap!Before(g[j], g[j \div 2])
        BY <2>5, <2>7, <3>5 DEF HeapBelow
      <4>2. QED
        BY <2>6, <2>7, <3>1, <3>5, <4>1
    <3>6. QED
      BY <3>2, <3>3, <3>4, <3>5
  <2>8. ASSUME NEW j \in 2..n, j \div 2 = p, p \div 2 \geq s PROVE ~Heap!Before(w[j], w[p \div 2])
    <3> DEFINE o == p \div 2
    <3>1. o \in 1..n /\ o # p /\ o # at /\ j \in 1..n /\ j # p /\ p \in 2..n
      BY <2>6, <2>8
    <3>2. w[o] = g[o] /\ g[o] \in Pair /\ g[p] \in Pair
      BY <2>6, <3>1
    <3>3. ~Heap!Before(g[p], g[o])
      BY <2>5, <2>6, <2>8, <3>1 DEF HeapBelow
    <3>4. CASE j = at
      BY <2>6, <3>2, <3>3, <3>4
    <3>5. CASE j # at
      <4>1. ~Heap!Before(g[j], g[p])
        BY <2>5, <2>6, <2>8, <3>5 DEF HeapBelow
      <4>2. w[j] = g[j] /\ g[j] \in Pair
        BY <2>6, <3>1, <3>5
      <4> HIDE DEF o
      <4>3. ~Heap!Before(g[j], g[o])
        BY <3>2, <3>3, <4>1, <4>2, Ordering
      <4>4. QED
        BY <3>2, <4>2, <4>3 DEF o
    <3>6. QED
      BY <3>4, <3>5
  <2>9. HeapBelow(w, n, s, p)
    BY <2>7, <2>8 DEF HeapBelow, Bridged
  <2>10. Heap!Up(now, s).at = p /\ Heap!Up(now, s).heap = w /\ Heap!Up(now, s) # now
    BY <2>1, <2>6 DEF p, at
  <2>11. QED
    BY <2>2, <2>9, <2>10 DEF p
<1>4. CASE ~(at > s /\ Heap!Before(g[at], g[parent]))
  <2>1. Heap!Up(now, s) = now
    BY <1>4 DEF Heap!Up
  <2>2. ASSUME NEW j \in 2..n, j \div 2 \geq s PROVE ~Heap!Before(g[j], g[j \div 2])
    <3>1. CASE j = at
      <4>1. at > s
        BY <1>1, <1>2, <2>2, <3>1
      <4>2. QED
        BY <1>4, <3>1, <4>1
    <3>2. CASE j # at
      BY <2>2, <3>2 DEF HeapBelow
    <3>3. QED
      BY <3>1, <3>2
  <2>3. HeapFrom(g, n, s)
    BY <2>2 DEF HeapFrom
  <2>4. QED
    BY <2>1, <2>3
<1>5. QED
  BY <1>3, <1>4

\* until it is in its place and the list a heap.
LEMMA RiseHeap ==
    ASSUME NEW n \in Nat, NEW h \in [1..n -> Pair], NEW i \in 1..n, NEW s \in Nat \ {0},
           Under(s, i), HeapBelow(h, n, s, i)
    PROVE  HeapFrom(Heap!Rise(h, i, s), n, s)
<1>1. PICK f : Rising(f, h, n, i, s) /\ Heap!Rise(h, i, s) = f[i].heap
  <2>1. Risen(h, n, i, s)
    BY RiseRuns
  <2>2. QED
    BY <2>1 DEF Risen
<1>2. /\ f[0] = [heap |-> h, at |-> i]
      /\ \A k \in 1..i : f[k] = Heap!Up(f[k - 1], s)
      /\ \A k \in 0..i : f[k] \in Place(h, n)
      /\ i \in Nat
  BY <1>1 DEF Rising, Rises
<1> DEFINE Done(k) == f[k].at \leq i - k \/ Heap!Up(f[k], s) = f[k]
           Good(k) == Under(s, f[k].at) /\ HeapBelow(f[k].heap, n, s, f[k].at) /\ Done(k)
           Bad == {k \in 0..i : ~Good(k)}
<1>3. ASSUME NEW m \in Bad, \A k \in Bad : m \leq k PROVE FALSE
  <2>1. m # 0
    BY <1>2, <1>3
  <2>2. m \in 1..i /\ m - 1 \in 0..i /\ m - 1 < m
    BY <1>2, <1>3, <2>1
  <2>3. Good(m - 1)
    <3>1. m - 1 \notin Bad
      BY <1>2, <1>3, <2>2
    <3>2. QED
      BY <2>2, <3>1
  <2> DEFINE x == f[m - 1]
  <2>4. f[m] = Heap!Up(x, s) /\ x \in Place(h, n) /\ ~Good(m)
    BY <1>2, <1>3, <2>2
  <2>5. Under(s, x.at) /\ HeapBelow(x.heap, n, s, x.at) /\ Done(m - 1)
    BY <2>3
  <2>6. Under(s, f[m].at) /\ HeapBelow(f[m].heap, n, s, f[m].at)
    <3> HIDE DEF x
    <3>1. /\ Under(s, Heap!Up(x, s).at)
          /\ HeapBelow(Heap!Up(x, s).heap, n, s, Heap!Up(x, s).at)
      BY <2>4, <2>5, UpHeap
    <3>2. QED
      BY <2>4, <3>1
  <2>7. Done(m)
    <3>1. CASE Heap!Up(x, s) = x
      BY <2>4, <3>1
    <3>2. CASE Heap!Up(x, s) # x
      <4>1. x.at > s /\ Heap!Up(x, s).at = x.at \div 2
        BY <3>2 DEF Heap!Up
      <4>2. x.at \in 1..n /\ x.at \div 2 < x.at
        BY <2>4 DEF Place
      <4>3. x.at \leq i - (m - 1)
        BY <2>5, <3>2
      <4>4. f[m].at = x.at \div 2
        BY <2>4, <4>1
      <4> HIDE DEF x
      <4>5. f[m].at \leq i - m
        BY <1>2, <2>2, <4>2, <4>3, <4>4
      <4>6. QED
        BY <4>5
    <3>3. QED
      BY <3>1, <3>2
  <2>8. QED
    BY <2>4, <2>6, <2>7
<1>4. Bad \in SUBSET Nat
  BY <1>2
<1>5. Bad = {} => Good(i)
  BY <1>2
<1> HIDE DEF Bad
<1>6. Good(i)
  BY <1>3, <1>4, <1>5, LeastOf
<1> DEFINE y == f[i]
<1>7. y \in Place(h, n) /\ Under(s, y.at) /\ HeapBelow(y.heap, n, s, y.at)
  BY <1>2, <1>6
<1>8. Heap!Up(y, s) = y
  <2>1. y.at \in 1..n
    BY <1>7 DEF Place
  <2>2. y.at \leq i - i \/ Heap!Up(y, s) = y
    BY <1>6
  <2>3. QED
    BY <1>2, <2>1, <2>2
<1> HIDE DEF y, Good, Done
<1>9. HeapFrom(y.heap, n, s)
  BY <1>7, <1>8, UpHeap
<1>10. QED
  BY <1>1, <1>9 DEF y

\* A sinking entry leaves a heap above it, too,
LEMMA DownHeap ==
    ASSUME NEW n \in Nat, NEW h \in [1..n -> Pair], NEW s \in Nat \ {0}, NEW now \in Place(h, n),
           Under(s, now.at), HeapAround(now.heap, n, s, now.at)
    PROVE  /\ Under(s, Heap!Down(now).at)
           /\ HeapAround(Heap!Down(now).heap, n, s, Heap!Down(now).at)
           /\ IF 2 * now.at > n THEN Heap!Down(now) = now ELSE Heap!Down(now).at > now.at
<1> DEFINE g == now.heap
           at == now.at
           c == Heap!Smaller(g, at)
           w == Heap!Swap(g, at, c)
<1>1. g \in [1..n -> Pair] /\ at \in 1..n /\ Len(g) = n
  BY MixedPairs, DownIsPlaced DEF Place
<1>2. s \leq at
  <2> HIDE DEF at
  <2>1. at \in Nat /\ s \in Nat /\ Under(s, at)
    BY <1>1 DEF at
  <2>2. QED
    BY <2>1, UnderParent
<1>3. CASE 2 * at > n
  BY <1>1, <1>3 DEF Heap!Down
<1>4. CASE ~(2 * at > n)
  <2>1. Heap!Down(now) = [heap |-> w, at |-> c]
    BY <1>1, <1>4 DEF Heap!Down
  <2>2. /\ c \in 1..n /\ (c = 2 * at \/ c = 2 * at + 1)
        /\ \A j \in 2..n : j \div 2 = at => ~Heap!Before(g[j], g[c])
    <3> DEFINE l == 2 * at
    <3>1. l \in 1..n /\ (l + 1 \leq n => l + 1 \in 1..n)
      BY <1>1, <1>4
    <3>2. c = IF l < n /\ ~Heap!Before(g[l], g[l + 1]) THEN l + 1 ELSE l
      BY <1>1 DEF Heap!Smaller
    <3>3. \A j \in 2..n : j \div 2 = at => j = l \/ j = l + 1
      BY <1>1
    <3> HIDE DEF l, g, c, at
    <3>4. ASSUME NEW j \in 1..n, j = l \/ j = l + 1 PROVE ~Heap!Before(g[j], g[c])
      <4>1. g[j] \in Pair /\ g[l] \in Pair /\ l \in Nat
        BY <1>1, <3>1
      <4>2. CASE j = c
        BY <4>1, <4>2, Ordering
      <4>3. CASE j # c
        <5>1. l + 1 \in 1..n /\ l < n /\ g[l + 1] \in Pair
          BY <1>1, <3>1, <3>2, <3>4, <4>3
        <5>2. QED
          BY <3>2, <3>4, <4>1, <4>3, <5>1, Ordering
      <4>4. QED
        BY <4>2, <4>3
    <3>5. c \in 1..n /\ (c = l \/ c = l + 1)
      BY <3>1, <3>2
    <3>6. QED
      BY <3>3, <3>4, <3>5 DEF l
  <2>3. /\ w \in [1..n -> Pair] /\ w[at] = g[c] /\ w[c] = g[at]
        /\ \A p \in 1..n : p # at /\ p # c => w[p] = g[p]
    BY <1>1, <2>2 DEF Heap!Swap
  <2>4. HeapAround(g, n, s, at) /\ Under(s, c)
    <3>1. Under(s, at) /\ s \in Nat
      OBVIOUS
    <3> HIDE DEF at, c
    <3>2. Under(s, 2 * at) /\ Under(s, 2 * at + 1)
      BY <3>1, UnderChild
    <3>3. QED
      BY <2>2, <3>2 DEF at
  <2>5. c \div 2 = at /\ at < c
    BY <1>1, <2>2
  <2> HIDE DEF g, at, w, c
  <2>6. ASSUME NEW j \in 2..n, j \div 2 \geq s, j # c, j \div 2 # c
        PROVE  ~Heap!Before(w[j], w[j \div 2])
    <3>1. j \div 2 \in 1..n /\ j \in 1..n /\ j \div 2 # j
      BY <2>6
    <3>2. CASE j = at
      <4>1. c \in 2..n /\ at \div 2 \geq s
        BY <1>1, <2>2, <2>5, <2>6, <3>2
      <4>2. ~Heap!Before(g[c], g[at \div 2])
        BY <2>4, <2>5, <4>1 DEF HeapAround, Bridged
      <4>3. w[j] = g[c] /\ w[j \div 2] = g[at \div 2]
        BY <2>3, <2>6, <3>1, <3>2
      <4>4. QED
        BY <3>2, <4>2, <4>3
    <3>3. CASE j # at /\ j \div 2 = at
      <4>1. ~Heap!Before(g[j], g[c])
        BY <2>2, <3>3
      <4>2. w[j] = g[j] /\ w[j \div 2] = g[c]
        BY <2>3, <2>6, <3>1, <3>3
      <4>3. QED
        BY <4>1, <4>2
    <3>4. CASE j # at /\ j \div 2 # at
      <4>1. ~Heap!Before(g[j], g[j \div 2])
        BY <2>4, <2>6, <3>4 DEF HeapAround
      <4>2. w[j] = g[j] /\ w[j \div 2] = g[j \div 2]
        BY <2>3, <2>6, <3>1, <3>4
      <4>3. QED
        BY <4>1, <4>2
    <3>5. QED
      BY <3>2, <3>3, <3>4
  <2>7. ASSUME NEW j \in 2..n, j \div 2 = c PROVE ~Heap!Before(w[j], w[c \div 2])
    <3>1. j \in 1..n /\ j # at /\ j # c /\ c # at /\ c \geq s
      BY <1>1, <1>2, <2>2, <2>5, <2>7
    <3>2. ~Heap!Before(g[j], g[c])
      BY <2>4, <2>7, <3>1 DEF HeapAround
    <3>3. w[j] = g[j] /\ w[c \div 2] = g[c]
      BY <2>3, <2>5, <3>1
    <3>4. QED
      BY <3>2, <3>3
  <2>8. HeapAround(w, n, s, c)
    BY <2>6, <2>7 DEF HeapAround, Bridged
  <2>9. Heap!Down(now).at = c /\ Heap!Down(now).heap = w
    BY <2>1
  <2>10. QED
    BY <1>4, <2>4, <2>5, <2>8, <2>9 DEF at
<1>5. QED
  BY <1>3, <1>4

\* until it is at a leaf, from which it rises to its place: one more place is
\* the root of a heap.
LEMMA SinkHeap ==
    ASSUME NEW n \in Nat, NEW h \in [1..n -> Pair], NEW i \in 1..n, HeapFrom(h, n, i + 1)
    PROVE  HeapFrom(Heap!Sink(h, i, i), n, i)
<1>1. PICK f : Sinking(f, h, n, i) /\ Heap!Sink(h, i, i) = Heap!Rise(f[n].heap, f[n].at, i)
  <2>1. i \in Nat \ {0}
    OBVIOUS
  <2>2. Sunk(h, n, i, i)
    BY <2>1, SinkRuns
  <2>3. QED
    BY <2>2 DEF Sunk
<1>2. /\ f[0] = [heap |-> h, at |-> i]
      /\ \A k \in 1..n : f[k] = Heap!Down(f[k - 1])
      /\ \A k \in 0..n : f[k] \in Place(h, n)
      /\ i \in Nat \ {0}
  BY <1>1 DEF Sinking
<1> DEFINE Deep(k) == f[k].at \geq k + 1 \/ 2 * f[k].at > n
           Good(k) == Under(i, f[k].at) /\ HeapAround(f[k].heap, n, i, f[k].at) /\ Deep(k)
           Bad == {k \in 0..n : ~Good(k)}
<1>3. ASSUME NEW m \in Bad, \A k \in Bad : m \leq k PROVE FALSE
  <2>1. m # 0
    <3>1. HeapAround(h, n, i, i)
      <4>1. \A j \in 2..n : j \div 2 \geq i /\ j \div 2 # i => j \div 2 \geq i + 1
        OBVIOUS
      <4>2. ~(i \div 2 \geq i)
        BY <1>2
      <4>3. QED
        BY <4>1, <4>2 DEF HeapAround, HeapFrom, Bridged
    <3>2. Under(i, i)
      BY DEF Under
    <3>3. f[0].heap = h /\ f[0].at = i
      BY <1>2
    <3>4. Good(0)
      BY <1>2, <3>1, <3>2, <3>3
    <3>5. QED
      BY <1>3, <3>4
  <2>2. m \in 1..n /\ m - 1 \in 0..n /\ m - 1 < m
    BY <1>3, <2>1
  <2>3. Good(m - 1)
    <3>1. m - 1 \notin Bad
      BY <1>3, <2>2
    <3>2. QED
      BY <2>2, <3>1
  <2> DEFINE x == f[m - 1]
  <2>4. f[m] = Heap!Down(x) /\ x \in Place(h, n) /\ ~Good(m)
    BY <1>2, <1>3, <2>2
  <2>5. Under(i, x.at) /\ HeapAround(x.heap, n, i, x.at) /\ Deep(m - 1)
    BY <2>3
  <2>6. /\ Under(i, f[m].at) /\ HeapAround(f[m].heap, n, i, f[m].at)
        /\ IF 2 * x.at > n THEN f[m] = x ELSE f[m].at > x.at
    <3> HIDE DEF x
    <3>1. /\ Under(i, Heap!Down(x).at)
          /\ HeapAround(Heap!Down(x).heap, n, i, Heap!Down(x).at)
          /\ IF 2 * x.at > n THEN Heap!Down(x) = x ELSE Heap!Down(x).at > x.at
      BY <1>2, <2>4, <2>5, DownHeap
    <3>2. QED
      BY <2>4, <3>1
  <2>7. Deep(m)
    <3>1. x.at \in 1..n /\ f[m].at \in 1..n
      BY <1>2, <2>2, <2>4 DEF Place
    <3>2. x.at \geq m \/ 2 * x.at > n
      BY <2>2, <2>5
    <3> HIDE DEF x
    <3>3. QED
      BY <2>2, <2>6, <3>1, <3>2
  <2>8. QED
    BY <2>4, <2>6, <2>7
<1>4. Bad \in SUBSET Nat
  OBVIOUS
<1>5. Bad = {} => Good(n)
  OBVIOUS
<1> HIDE DEF Bad
<1>6. Good(n)
  BY <1>3, <1>4, <1>5, LeastOf
<1> DEFINE g == f[n].heap
           at == f[n].at
<1>7. g \in [1..n -> Pair] /\ at \in 1..n
  <2>1. f[n] \in Place(h, n)
    BY <1>2
  <2>2. QED
    BY <2>1, MixedPairs DEF Place
<1>8. 2 * at > n
  BY <1>6, <1>7
<1>9. HeapAround(g, n, i, at) /\ Under(i, at)
  BY <1>6
<1> HIDE DEF g, at, Good, Deep
<1>10. HeapBelow(g, n, i, at)
  <2>1. \A j \in 2..n : j \div 2 # at
    BY <1>7, <1>8
  <2>2. QED
    BY <1>9, <2>1 DEF HeapAround, HeapBelow
<1>11. HeapFrom(Heap!Rise(g, at, i), n, i)
  BY <1>2, <1>7, <1>9, <1>10, RiseHeap
<1>12. QED
  BY <1>1, <1>11 DEF g, at

\* Place after place becomes the root of a heap, at last the first.
LEMMA HeapifyHeap ==
    ASSUME NEW n \in Nat, NEW h \in [1..n -> Pair]
    PROVE  HeapFrom(Heap!Heapify(h), n, 1)
<1> DEFINE last == n \div 2
<1>1. PICK f : Heaping(f, h, n) /\ Heap!Heapify(h) = f[last]
  <2>1. Heaped(h, n)
    BY HeapifyRuns
  <2>2. QED
    BY <2>1 DEF Heaped
<1>2. last \in Nat /\ last \leq n /\ \A j \in 2..n : j \div 2 \leq last
  OBVIOUS
<1> HIDE DEF last
<1>3. /\ f[0] = h
      /\ \A k \in 1..last : f[k] = Heap!Sink(f[k - 1], last + 1 - k, last + 1 - k)
      /\ \A k \in 0..last : f[k] \in [1..n -> Pair]
  <2>1. \A k \in 0..last : f[k] \in Mixed(h, n)
    BY <1>1 DEF Heaping, last
  <2>2. QED
    BY <1>1, <2>1, MixedPairs DEF Heaping, last
<1> DEFINE Good(k) == HeapFrom(f[k], n, last + 1 - k)
           Bad == {k \in 0..last : ~Good(k)}
<1>4. ASSUME NEW m \in Bad, \A k \in Bad : m \leq k PROVE FALSE
  <2>1. m # 0
    <3>1. Good(0)
      BY <1>2, <1>3 DEF HeapFrom
    <3>2. QED
      BY <1>4, <3>1
  <2>2. m \in 1..last /\ m - 1 \in 0..last /\ m - 1 < m
    BY <1>2, <1>4, <2>1
  <2>3. Good(m - 1)
    <3>1. m - 1 \notin Bad
      BY <1>2, <1>4, <2>2
    <3>2. QED
      BY <2>2, <3>1
  <2> DEFINE x == f[m - 1]
             i == last + 1 - m
  <2>4. f[m] = Heap!Sink(x, i, i) /\ x \in [1..n -> Pair] /\ ~Good(m)
    BY <1>3, <1>4, <2>2
  <2>5. i \in 1..n /\ last + 1 - (m - 1) = i + 1
    BY <1>2, <2>2
  <2>6. HeapFrom(x, n, i + 1)
    BY <2>3, <2>5
  <2> HIDE DEF x, i
  <2>7. HeapFrom(Heap!Sink(x, i, i), n, i)
    BY <2>4, <2>5, <2>6, SinkHeap
  <2>8. QED
    BY <2>4, <2>7 DEF i
<1>5. Bad \in SUBSET Nat
  BY <1>2
<1>6. Bad = {} => Good(last)
  BY <1>2
<1> HIDE DEF Bad
<1>7. Good(last)
  BY <1>4, <1>5, <1>6, LeastOf
<1>8. last + 1 - last = 1
  BY <1>2
<1>9. QED
  BY <1>1, <1>7, <1>8

\* The root of a heap comes after no entry.
LEMMA HeapRoot ==
    ASSUME NEW n \in Nat, NEW h \in [1..n -> Pair], HeapFrom(h, n, 1), NEW p \in 1..n
    PROVE  ~Heap!Before(h[p], h[1])
<1> DEFINE Bad == {q \in 1..n : Heap!Before(h[q], h[1])}
<1>1. ASSUME NEW m \in Bad, \A k \in Bad : m \leq k PROVE FALSE
  <2>1. m # 1 /\ 1 \in 1..n
    BY <1>1, Ordering
  <2>2. m \in 2..n /\ m \div 2 \in 1..n /\ m \div 2 < m /\ m \div 2 \geq 1
    BY <1>1, <2>1
  <2>3. ~Heap!Before(h[m \div 2], h[1])
    BY <1>1, <2>2
  <2>4. ~Heap!Before(h[m], h[m \div 2])
    BY <2>2 DEF HeapFrom
  <2>5. h[m] \in Pair /\ h[m \div 2] \in Pair /\ h[1] \in Pair
    BY <2>1, <2>2
  <2>6. ~Heap!Before(h[m], h[1])
    BY <2>3, <2>4, <2>5, Ordering
  <2>7. QED
    BY <1>1, <2>6
<1>2. Bad \in SUBSET Nat
  OBVIOUS
<1>3. Bad = {} => ~Heap!Before(h[p], h[1])
  OBVIOUS
<1> HIDE DEF Bad
<1>4. QED
  BY <1>1, <1>2, <1>3, LeastOf

\* A list that is a heap; heappush keeps it one,
Ordered(h) == HeapFrom(h, Len(h), 1)
LEMMA PushHeap ==
    ASSUME NEW w, NEW S, HoldsOnce(w, S), Ordered(w), NEW e \in Pair, e \notin S
    PROVE  Ordered(Heap!Push(w, e))
<1> DEFINE a == Append(w, e)
           l == Len(w)
           n == l + 1
           g == Heap!Rise(a, n, 1)
<1>1. a \in [1..n -> Pair] /\ \A p \in 1..l : a[p] = w[p]
  BY AppendHolds
<1>2. l \in Nat /\ n \in Nat /\ n \in 1..n /\ 1 \in Nat \ {0} /\ n # 0
  BY HoldsTyped
<1>3. Heap!Push(w, e) = g
  BY DEF Heap!Push
<1> HIDE DEF a
<1>4. HeapBelow(a, n, 1, n)
  <2>1. ASSUME NEW j \in 2..n, j # n PROVE ~Heap!Before(a[j], a[j \div 2])
    <3>1. j \in 2..l /\ j \in 1..l /\ j \div 2 \in 1..l
      BY <1>2, <2>1
    <3>2. ~Heap!Before(w[j], w[j \div 2])
      BY <3>1 DEF Ordered, HeapFrom
    <3>3. QED
      BY <1>1, <3>1, <3>2
  <2>2. \A j \in 2..n : j \div 2 # n
    BY <1>2
  <2>3. QED
    BY <2>1, <2>2 DEF HeapBelow, Bridged
<1> HIDE DEF n
<1>5. Under(1, n)
  BY <1>2, UnderRoot
<1>6. HeapFrom(g, n, 1)
  BY <1>1, <1>2, <1>4, <1>5, RiseHeap
<1>7. g \in Mixed(a, n)
  BY <1>1, <1>2, RiseMixes
<1> HIDE DEF g
<1>8. Len(g) = n
  <2>1. g \in [1..n -> Pair]
    BY <1>1, <1>2, <1>7, MixedPairs
  <2>2. QED
    BY <1>2, <2>1, LengthOf
<1>9. QED
  BY <1>3, <1>6, <1>8 DEF Ordered

\* so does heappop.
LEMMA PopHeap ==
    ASSUME NEW h, NEW S, HoldsOnce(h, S), S # {}, Ordered(h)
    PROVE  Ordered(Heap!Pop(h))
<1> DEFINE n == Len(h)
           m == n - 1
           r == Rest(h)
           g == Heap!Sink(r, 1, 1)
<1>1. h \in Seq(Pair) /\ h # <<>>
  BY HoldsTyped
<1>2. /\ n \in Nat \ {0} /\ r \in [1..m -> Pair]
      /\ Heap!Pop(h) = IF n = 1 THEN <<>> ELSE g
  BY <1>1, PopIs
<1>3. \A p \in 2..m : r[p] = h[p]
  BY DEF Rest
<1>4. HeapFrom(h, n, 1)
  BY DEF Ordered
<1> HIDE DEF r, n
<1>5. CASE n = 1
  <2>1. Ordered(<<>>)
    BY DEF Ordered, HeapFrom
  <2>2. QED
    BY <1>2, <1>5, <2>1
<1>6. CASE n # 1
  <2>1. m \in Nat /\ 1 \in 1..m /\ 1 + 1 = 2 /\ 1 \in Nat \ {0}
    BY <1>2, <1>6
  <2>2. HeapFrom(r, m, 1 + 1)
    <3>1. ASSUME NEW j \in 2..m, j \div 2 \geq 2 PROVE ~Heap!Before(r[j], r[j \div 2])
      <4>1. j \div 2 \in 2..m /\ j \in 2..n /\ j \div 2 \geq 1
        BY <1>2, <2>1, <3>1
      <4>2. ~Heap!Before(h[j], h[j \div 2])
        BY <1>4, <4>1 DEF HeapFrom
      <4>3. QED
        BY <1>3, <4>1, <4>2
    <3>2. QED
      BY <2>1, <3>1 DEF HeapFrom
  <2> HIDE DEF m
  <2>3. HeapFrom(g, m, 1)
    BY <1>2, <2>1, <2>2, SinkHeap
  <2>4. g \in Mixed(r, m)
    BY <1>2, <2>1, SinkMixes
  <2> HIDE DEF g
  <2>5. Len(g) = m
    <3>1. g \in [1..m -> Pair]
      BY <1>2, <2>1, <2>4, MixedPairs
    <3>2. QED
      BY <2>1, <3>1, LengthOf
  <2>6. QED
    BY <1>2, <1>6, <2>3, <2>5 DEF Ordered
<1>7. QED
  BY <1>5, <1>6

\* Heapify makes a heap of any list.
LEMMA HeapifyOrders ==
    ASSUME NEW n \in Nat, NEW h \in [1..n -> Pair]
    PROVE  Ordered(Heap!Heapify(h))
<1> DEFINE g == Heap!Heapify(h)
<1>1. HeapFrom(g, n, 1)
  BY HeapifyHeap
<1>2. g \in Mixed(h, n)
  BY HeapifyMixes
<1> HIDE DEF g
<1>3. Len(g) = n
  <2>1. g \in [1..n -> Pair]
    BY <1>2, MixedPairs
  <2>2. QED
    BY <2>1, LengthOf
<1>4. QED
  BY <1>1, <1>3 DEF Ordered, g

\* Nothing is filtered out of a list that a server is not in.
LEMMA WithoutNone ==
    ASSUME NEW h, NEW S, HoldsOnce(h, S), NEW i, \A x \in S : x[2] # i
    PROVE  Heap!Without(h, i) = h
<1>1. h \in Seq(Pair) /\ DOMAIN h = 1..Len(h)
  BY HoldsTyped
<1>2. DOMAIN h \subseteq Others(h, i)
  BY DEF HoldsOnce, Entries, Others
<1>3. Picked(h, Others(h, i)) = h
  BY <1>1, <1>2, PickedAll
<1>4. QED
  BY <1>3, WithoutIsPicked

\* What the heap of the proxy holds: a pair for each server.
Now == {<<Heap!Priority(i), i>> : i \in Heap!Index}
HeapInv == /\ load \in [Heap!Index -> Nat] /\ isolated \subseteq Heap!Index
           /\ HoldsOnce(heap, Now)

\* There is a pair for each server and no two for one.
LEMMA NowIs ==
    ASSUME HeapInv
    PROVE  /\ \A i \in Heap!Index : <<Heap!Priority(i), i>> \in Pair
           /\ \A x, y \in Now : x[2] = y[2] => x = y
           /\ Len(heap) = Backends
<1>1. \A i \in Heap!Index : Heap!Priority(i) \in Nat /\ i \in Nat
  BY HeapAssumption DEF HeapInv, Heap!Priority, Heap!Index, Heap!TaintPriority
<1>2. Len(heap) = Backends
  <2> DEFINE f == [i \in 1..Backends |-> Heap!Priority(i)]
  <2>1. Now = {<<f[i], i>> : i \in 1..Backends}
    BY DEF Now, Heap!Index
  <2> HIDE DEF f
  <2>2. QED
    BY <2>1, HeapAssumption, SizeOfList DEF HeapInv
<1>3. QED
  BY <1>1, <1>2 DEF Now, Pair

\* The entry of one server is replaced.
LEMMA UpdateHolds ==
    ASSUME NEW h, NEW S, HoldsOnce(h, S), NEW i, NEW priority, <<priority, i>> \in Pair
    PROVE  /\ HoldsOnce(Heap!Without(h, i), {x \in S : x[2] # i})
           /\ <<priority, i>> \notin {x \in S : x[2] # i}
           /\ Heap!Update(h, i, priority) = Heap!Push(Heap!Without(h, i), <<priority, i>>)
           /\ HoldsOnce(Heap!Update(h, i, priority), {x \in S : x[2] # i} \cup {<<priority, i>>})
<1> DEFINE rest1 == {x \in S : x[2] # i}
           e == <<priority, i>>
<1>1. HoldsOnce(Heap!Without(h, i), rest1)
  BY WithoutHolds
<1>2. e \notin rest1
  OBVIOUS
<1>3. Heap!Update(h, i, priority) = Heap!Push(Heap!Without(h, i), e)
  BY DEF Heap!Update
<1> HIDE DEF rest1, e
<1>4. HoldsOnce(Heap!Push(Heap!Without(h, i), e), rest1 \cup {e})
  BY <1>1, <1>2, PushHolds DEF e
<1>5. QED
  BY <1>1, <1>2, <1>3, <1>4 DEF rest1, e

\* The list of a pair for each server.
LEMMA ListOfAll ==
    ASSUME NEW f, \A i \in Heap!Index : <<f[i], i>> \in Pair
    PROVE  LET h == [i \in Heap!Index |-> <<f[i], i>>]
           IN  /\ h \in [1..Backends -> Pair] /\ Distinct(h)
               /\ Entries(h) = {<<f[i], i>> : i \in Heap!Index}
BY DEF Heap!Index, Distinct, Entries

\* One step for each action: the list holds each server once, and is a heap at
\* the start.
LEMMA HeapStarts ==
    ASSUME Heap!Init
    PROVE  HeapInv /\ Ordered(heap)
<1> DEFINE f == [i \in Heap!Index |-> 0]
           h == [i \in Heap!Index |-> <<f[i], i>>]
<1>1. \A i \in Heap!Index : <<f[i], i>> \in Pair
  BY HeapAssumption DEF Pair, Heap!Index
<1>2. /\ h \in [1..Backends -> Pair] /\ Distinct(h)
      /\ Entries(h) = {<<f[i], i>> : i \in Heap!Index}
  BY <1>1, ListOfAll
<1>3. Now = {<<f[i], i>> : i \in Heap!Index}
  BY DEF Now, Heap!Init, Heap!Priority
<1>4. heap = Heap!Heapify(h)
  <2>1. [i \in Heap!Index |-> <<0, i>>] = h
    OBVIOUS
  <2>2. heap = Heap!Heapify([i \in Heap!Index |-> <<0, i>>])
    BY DEF Heap!Init
  <2> HIDE DEF h
  <2>3. QED
    BY <2>1, <2>2
<1>5. load \in [Heap!Index -> Nat] /\ isolated \subseteq Heap!Index
  BY DEF Heap!Init
<1> HIDE DEF h, f
<1>6. HoldsOnce(heap, Now)
  BY <1>2, <1>3, <1>4, HeapAssumption, HeapifyHolds
<1>7. Ordered(heap)
  BY <1>2, <1>4, HeapAssumption, HeapifyOrders
<1>8. QED
  BY <1>5, <1>6, <1>7 DEF HeapInv

\* The root is popped and pushed again, behind or in front of the rest.
LEMMA SelectKeepsHeap ==
    ASSUME HeapInv, NEW weight \in Weights, Heap!Select(weight)
    PROVE  HeapInv' /\ (Ordered(heap) => Ordered(heap'))
<1> DEFINE root == heap[1]
           p == Heap!Pop(heap)
           c == heap[1][2]
           S == Now \ {heap[1]}
<1>1. Now # {} /\ heap # <<>>
  <2>1. DOMAIN heap = 1..Len(heap) /\ (heap = <<>> <=> Now = {})
    BY HoldsTyped DEF HeapInv
  <2>2. DOMAIN heap # {}
    BY DEF Heap!Select, Heap!HasAvailable
  <2>3. QED
    BY <2>1, <2>2
<1>2. root \in Now /\ HoldsOnce(p, S)
  BY <1>1, PopHolds DEF HeapInv
<1>3. /\ \A i \in Heap!Index : <<Heap!Priority(i), i>> \in Pair
      /\ \A x, y \in Now : x[2] = y[2] => x = y
      /\ Len(heap) = Backends
  BY NowIs
<1>4. c \in Heap!Index /\ root = <<Heap!Priority(c), c>> /\ root \in Pair
  BY <1>2, <1>3 DEF Now
<1>6. isolated' = isolated
  BY DEF Heap!Select
<1>7. Ordered(heap) => Ordered(p)
  BY <1>1, PopHeap DEF HeapInv
<1>8. CASE root[1] < Heap!TaintPriority
  <2> DEFINE e == <<load'[c], c>>
             w == Heap!Without(p, c)
  <2>1. /\ load' = [load EXCEPT ![c] = @ + weight]
        /\ heap' = Heap!Update(p, c, load'[c])
    BY <1>8 DEF Heap!Select
  <2>2. load' \in [Heap!Index -> Nat] /\ \A i \in Heap!Index : i # c => load'[i] = load[i]
    <3>1. weight \in Nat
      BY HeapAssumption
    <3> HIDE DEF c
    <3>2. QED
      BY <1>4, <2>1, <3>1 DEF HeapInv
  <2>3. c \notin isolated
    BY <1>4, <1>8 DEF Heap!Priority, Heap!TaintPriority
  <2> HIDE DEF p, c, root, S
  <2>4. Now' = {x \in Now : x[2] # c} \cup {e}
    <3>1. \A i \in Heap!Index : <<Heap!Priority(i), i>>' =
              IF i = c THEN e ELSE <<Heap!Priority(i), i>>
      BY <1>4, <1>6, <2>2, <2>3 DEF Heap!Priority
    <3> HIDE DEF e
    <3>2. e[2] = c
      BY DEF e
    <3>3. Now' = {IF i = c THEN e ELSE <<Heap!Priority(i), i>> : i \in Heap!Index}
      BY <3>1 DEF Now, Heap!Index
    <3>4. QED
      BY <1>4, <3>2, <3>3 DEF Now
  <2>5. {x \in S : x[2] # c} = {x \in Now : x[2] # c} /\ {x \in S : x[2] # c} = S
    <3>1. \A x \in S : x[2] # c
      BY <1>2, <1>3, <1>4 DEF S, root, c
    <3>2. root[2] = c
      BY DEF root, c
    <3>3. QED
      BY <3>1, <3>2 DEF S, root
  <2>6. e \in Pair
    BY <1>4, <2>2, HeapAssumption DEF Pair, Heap!Index
  <2> HIDE DEF e
  <2>7. /\ HoldsOnce(w, S) /\ e \notin S /\ Heap!Update(p, c, load'[c]) = Heap!Push(w, e)
        /\ HoldsOnce(Heap!Update(p, c, load'[c]), S \cup {e})
    BY <1>2, <2>5, <2>6, UpdateHolds DEF e
  <2>8. HeapInv'
    BY <1>6, <2>1, <2>2, <2>4, <2>5, <2>7 DEF HeapInv, Heap!Index
  <2>9. ASSUME Ordered(heap) PROVE Ordered(heap')
    <3>1. w = p
      BY <1>2, <2>5, WithoutNone DEF w
    <3> HIDE DEF w
    <3>2. Ordered(Heap!Push(w, e))
      BY <1>7, <2>6, <2>7, <2>9, <3>1, PushHeap
    <3>3. QED
      BY <2>1, <2>7, <3>2
  <2>10. QED
    BY <2>8, <2>9
<1>9. CASE ~(root[1] < Heap!TaintPriority)
  <2>1. heap' = Heap!Push(p, root) /\ load' = load
    BY <1>9 DEF Heap!Select
  <2>2. Now' = Now
    BY <1>6, <2>1 DEF Now, Heap!Priority, Heap!Index
  <2>3. root \notin S /\ S \cup {root} = Now
    BY <1>2
  <2> HIDE DEF p, root, S
  <2>4. HoldsOnce(Heap!Push(p, root), Now)
    BY <1>2, <1>4, <2>3, PushHolds
  <2>6. HeapInv'
    BY <1>6, <2>1, <2>2, <2>4 DEF HeapInv, Heap!Index
  <2>7. Ordered(heap) => Ordered(Heap!Push(p, root))
    BY <1>2, <1>4, <1>7, <2>3, PushHeap
  <2>8. QED
    BY <2>1, <2>2, <2>6, <2>7
<1>10. QED
  BY <1>8, <1>9

\* The priority of a released backend falls: its new entry rises to the root, or
\* the old root stays; an isolated one keeps its entry.
LEMMA ReleaseKeepsHeap ==
    ASSUME HeapInv, NEW i \in Heap!Index, NEW weight \in Weights, Heap!Release(i, weight)
    PROVE  HeapInv' /\ (Rooted(heap, Now) => Rooted(heap, Now)')
<1> DEFINE pr == IF i \in isolated THEN Heap!TaintPriority ELSE load'[i]
           e == <<pr, i>>
           S == {x \in Now : x[2] # i}
           w == Heap!Without(heap, i)
<1>1. /\ load' = [load EXCEPT ![i] = IF @ > weight THEN @ - weight ELSE 0]
      /\ heap' = Heap!Update(heap, i, pr) /\ isolated' = isolated
  <2>1. load' = [load EXCEPT ![i] = IF @ > weight THEN @ - weight ELSE 0]
    BY Zenon DEF Heap!Release
  <2>2. heap' = Heap!Update(heap, i, IF i \in isolated THEN Heap!TaintPriority ELSE load'[i])
    BY Zenon DEF Heap!Release
  <2>3. isolated' = isolated
    BY Zenon DEF Heap!Release
  <2>4. QED
    BY <2>1, <2>2, <2>3, Zenon
<1>2. weight \in Nat
  BY HeapAssumption
<1>3. /\ load' \in [Heap!Index -> Nat] /\ \A j \in Heap!Index : j # i => load'[j] = load[j]
      /\ load'[i] \leq load[i] /\ load[i] \in Nat
  BY <1>1, <1>2 DEF HeapInv
<1>4. pr \in Nat /\ e \in Pair /\ Heap!Priority(i) \in Nat /\ pr \leq Heap!Priority(i)
  BY <1>3, HeapAssumption DEF Pair, Heap!Index, Heap!TaintPriority, Heap!Priority
<1>5. /\ \A j \in Heap!Index : <<Heap!Priority(j), j>> \in Pair
      /\ \A x, y \in Now : x[2] = y[2] => x = y
      /\ Len(heap) = Backends
  BY NowIs
<1>6. Now' = S \cup {e}
  <2>1. \A j \in Heap!Index : <<Heap!Priority(j), j>>' =
            IF j = i THEN e ELSE <<Heap!Priority(j), j>>
    BY <1>1, <1>3 DEF Heap!Priority, Heap!TaintPriority
  <2>2. e[2] = i
    OBVIOUS
  <2> HIDE DEF e
  <2>3. Now' = {IF j = i THEN e ELSE <<Heap!Priority(j), j>> : j \in Heap!Index}
    BY <2>1 DEF Now, Heap!Index
  <2>4. QED
    BY <2>2, <2>3 DEF Now
<1>7. /\ HoldsOnce(w, S) /\ e \notin S /\ Heap!Update(heap, i, pr) = Heap!Push(w, e)
      /\ HoldsOnce(Heap!Update(heap, i, pr), S \cup {e})
  <2>1. <<pr, i>> \in Pair /\ HoldsOnce(heap, Now)
    BY <1>4 DEF HeapInv
  <2> HIDE DEF pr
  <2>2. QED
    BY <2>1, UpdateHolds
<1> HIDE DEF pr, e, S, w
<1>8. HeapInv'
  BY <1>1, <1>3, <1>6, <1>7 DEF HeapInv, Heap!Index
<1>9. ASSUME Rooted(heap, Now) PROVE Rooted(Heap!Push(w, e), S \cup {e})
  <2>1. Now # {} /\ heap[1] \in Now
    <3>1. Now # {}
      BY DEF Now
    <3>2. QED
      BY <3>1, PopHolds DEF HeapInv
  <2>2. CASE heap[1][2] # i
    <3>1. Rooted(w, S)
      BY <1>9, <2>1, <2>2, WithoutRoot DEF HeapInv, w, S
    <3>2. QED
      BY <1>4, <1>7, <3>1, PushRoot
  <2>3. CASE heap[1][2] = i
    <3>1. heap[1] = <<Heap!Priority(i), i>>
      BY <2>1, <2>3 DEF Now
    <3>2. ASSUME NEW x \in S PROVE Heap!Before(e, x)
      <4>1. x \in Now /\ x # heap[1] /\ ~Heap!Before(x, heap[1])
        BY <1>9, <2>3, <3>2 DEF Rooted, S
      <4>2. x \in Pair /\ heap[1] \in Pair
        BY <1>5, <2>1, <4>1 DEF Now
      <4>3. Heap!Before(heap[1], x)
        BY <4>1, <4>2, Ordering
      <4>4. x \in Nat \X Nat /\ i \in Nat
        BY <4>2, HeapAssumption DEF Pair, Heap!Index
      <4>5. e[1] = pr /\ e[2] = i /\ heap[1][1] = Heap!Priority(i) /\ heap[1][2] = i
        BY <3>1 DEF e
      <4>6. QED
        BY <1>4, <4>3, <4>4, <4>5 DEF Heap!Before
    <3>3. QED
      BY <1>4, <1>7, <3>2, PushLeast
  <2>4. QED
    BY <2>2, <2>3
<1>10. QED
  BY <1>1, <1>6, <1>7, <1>8, <1>9

\* A rebuilt heap is of the priorities of now.
LEMMA RebuildKeepsHeap ==
    ASSUME HeapInv, NEW iso \in SUBSET Heap!Index, Heap!Rebuild(iso)
    PROVE  HeapInv' /\ Ordered(heap')
<1> DEFINE f == [i \in Heap!Index |-> IF i \in iso THEN Heap!TaintPriority ELSE load[i]]
           h == [i \in Heap!Index |-> <<f[i], i>>]
<1>1. \A i \in Heap!Index : <<f[i], i>> \in Pair
  BY HeapAssumption DEF HeapInv, Pair, Heap!Index, Heap!TaintPriority
<1>2. /\ h \in [1..Backends -> Pair] /\ Distinct(h)
      /\ Entries(h) = {<<f[i], i>> : i \in Heap!Index}
  <2> HIDE DEF f
  <2>1. QED
    BY <1>1, ListOfAll
<1>3. /\ isolated' = iso /\ load' = load
      /\ heap' = Heap!Heapify([i \in Heap!Index |->
                     <<IF i \in iso THEN Heap!TaintPriority ELSE load[i], i>>])
  BY DEF Heap!Rebuild
<1>4. [i \in Heap!Index |-> <<IF i \in iso THEN Heap!TaintPriority ELSE load[i], i>>] = h
  OBVIOUS
<1>5. Now' = {<<f[i], i>> : i \in Heap!Index}
  BY <1>3 DEF Now, Heap!Priority, Heap!Index, Heap!TaintPriority
<1> HIDE DEF h, f
<1>6. heap' = Heap!Heapify(h)
  BY <1>3, <1>4
<1>7. HoldsOnce(heap', Now')
  BY <1>2, <1>5, <1>6, HeapAssumption, HeapifyHolds
<1>8. HeapInv'
  BY <1>3, <1>7 DEF HeapInv, Heap!Index
<1>9. Ordered(heap')
  BY <1>2, <1>6, HeapAssumption, HeapifyOrders
<1>10. QED
  BY <1>8, <1>9

\* So does every step: a selection keeps a heap, a release the least at the root,
\* and a rebuild makes a heap.
LEMMA HeapIsKept ==
    ASSUME HeapInv, Heap!Next
    PROVE  /\ HeapInv'
           /\ Heap!Selects /\ Ordered(heap) => Ordered(heap')
           /\ Heap!Releases /\ Rooted(heap, Now) => Rooted(heap, Now)'
           /\ Heap!Regroups => Ordered(heap')
<1>1. ASSUME Heap!Selects PROVE HeapInv' /\ (Ordered(heap) => Ordered(heap'))
  BY <1>1, SelectKeepsHeap DEF Heap!Selects
<1>2. ASSUME Heap!Releases PROVE HeapInv' /\ (Rooted(heap, Now) => Rooted(heap, Now)')
  BY <1>2, ReleaseKeepsHeap DEF Heap!Releases
<1>3. ASSUME Heap!Regroups PROVE HeapInv' /\ Ordered(heap')
  <2>1. \A i \in Heap!Index : /\ isolated \cup {i} \in SUBSET Heap!Index
                              /\ isolated \ {i} \in SUBSET Heap!Index
    BY DEF HeapInv
  <2>2. QED
    BY <1>3, <2>1, RebuildKeepsHeap DEF Heap!Regroups
<1>4. QED
  BY <1>1, <1>2, <1>3 DEF Heap!Next

\* The properties that the module states.
LEMMA HeapIsTrue == ASSUME HeapInv PROVE Heap!HeapIsTrue
<1>1. Len(heap) = Backends
  BY NowIs
<1>2. \A i \in Heap!Index : \E p \in DOMAIN heap : heap[p] = <<Heap!Priority(i), i>>
  BY DEF HeapInv, HoldsOnce, Entries, Now
<1>3. QED
  BY <1>1, <1>2 DEF Heap!HeapIsTrue

\* The root is the least of all pairs, that is, of those of now.
LEMMA RootIsLeast == Rooted(heap, Now) <=> Heap!RootIsLeast
BY DEF Rooted, Now, Heap!RootIsLeast

\* A heap is ordered; its root is the least of what it holds.
LEMMA IsHeap == Len(heap) \in Nat => (Heap!IsHeap <=> Ordered(heap))
BY DEF Heap!IsHeap, Ordered, HeapFrom
LEMMA HeapIsRooted == ASSUME HeapInv, Ordered(heap) PROVE Rooted(heap, Now)
<1> DEFINE n == Len(heap)
<1>1. n \in Nat /\ heap \in [1..n -> Pair] /\ DOMAIN heap = 1..n
  BY HoldsTyped DEF HeapInv
<1>2. HeapFrom(heap, n, 1)
  BY DEF Ordered
<1>3. \A p \in 1..n : ~Heap!Before(heap[p], heap[1])
  <2> HIDE DEF n
  <2>1. QED
    BY <1>1, <1>2, HeapRoot
<1>4. Now = {heap[p] : p \in 1..n}
  BY <1>1 DEF HeapInv, HoldsOnce, Entries
<1>5. QED
  BY <1>3, <1>4 DEF Rooted
=============================================================================
