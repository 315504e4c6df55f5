--------------------------- MODULE KernelsProofs ---------------------------
(***************************************************************************)
(* What the runs check of the small components on small instances, for all *)
(* of them: the invariant of a topic is that of its component, and says    *)
(* nothing in the behaviours of the others.                                *)
(***************************************************************************)
EXTENDS Kernels, ProxyPartsProofs, ServerPartsProofs

(***************************************************************************)
(* PdRebuild                                                               *)
(***************************************************************************)
\* A link is of the last rebuild that connected, and from the clean-up until the
\* next connects there is none; a handler that has connected has its connector.
\* In the first rebuild a link may be older.
Follows(w, n) ==
    \/ links[w][n].by = 0 /\ Len(built[w]) <= 1
    \/ /\ links[w][n].by > 0 /\ links[w][n].by = Len(built[w])
       /\ <<links[w][n].host, n>> \in built[w][Len(built[w])].healthy
       /\ role = "D" /\ built[w][Len(built[w])].ptp # None
            => n = Pd!Target(built[w][Len(built[w])], w)
Stages == {"idle", "cleanup", "reinit", "connect", "register"}
Clean(w) == /\ Len(built[w]) > 0 => w \in known
            /\ Len(built[w]) > 0 /\ step[w] \in {"reinit", "connect"}
                 => DOMAIN links[w] = {}
            /\ \A n \in DOMAIN links[w] : Follows(w, n)
PdTypes == /\ links = [w \in Pd!Workers |-> links[w]]
           /\ built \in [Pd!Workers -> Seq(Rebuilds)]
           /\ todo \in [Pd!Workers -> Seq(Rebuilds)]
           /\ step \in [Pd!Workers -> Stages]
           /\ \A w \in Pd!Workers : step[w] # "idle" => todo[w] # <<>>
LinkInv == PdTypes /\ \A w \in Pd!Workers : Clean(w)

\* Where a worker goes it has something to do until it returns.
LEMMA WorkIsListed ==
    ASSUME PdTypes, NEW w \in Pd!Workers, NEW place \in Stages \ {"idle"},
           step[w] # "idle" \/ todo[w] # <<>>,
           Pd!Return(w) \/ Pd!Goto(w, place)
    PROVE  /\ todo' \in [Pd!Workers -> Seq(Rebuilds)]
           /\ step' \in [Pd!Workers -> Stages]
           /\ \A v \in Pd!Workers : step'[v] # "idle" => todo'[v] # <<>>
           /\ step'[w] \in {"idle", place}
           /\ \A v \in Pd!Workers \ {w} : step'[v] = step[v]
<1>1. todo[w] # <<>> /\ todo[w] \in Seq(Rebuilds)
  BY DEF PdTypes
<1>2. CASE Pd!Goto(w, place)
  BY <1>1, <1>2 DEF Pd!Goto, PdTypes, Stages
<1>3. CASE Pd!Return(w)
  <2>1. Tail(todo[w]) \in Seq(Rebuilds)
    BY <1>1
  <2>2. /\ todo' = [todo EXCEPT ![w] = Tail(todo[w])]
        /\ step' = [step EXCEPT ![w] = "idle"]
    BY <1>3 DEF Pd!Return, PdTypes
  <2> QED BY <2>1, <2>2 DEF PdTypes, Stages
<1> QED BY <1>2, <1>3

\* A step of a worker that touches no link.
LEMMA LinksStay ==
    ASSUME LinkInv, NEW w \in Pd!Workers, NEW place \in Stages \ {"idle"},
           step[w] # "idle" \/ todo[w] # <<>>,
           Pd!Return(w) \/ Pd!Goto(w, place),
           place \in {"reinit", "connect"} => step[w] \in {"reinit", "connect"},
           known \subseteq known', UNCHANGED <<links, built, role>>
    PROVE  LinkInv'
<1>1. /\ todo' \in [Pd!Workers -> Seq(Rebuilds)]
      /\ step' \in [Pd!Workers -> Stages]
      /\ \A v \in Pd!Workers : step'[v] # "idle" => todo'[v] # <<>>
      /\ step'[w] \in {"idle", place}
      /\ \A v \in Pd!Workers \ {w} : step'[v] = step[v]
  BY WorkIsListed DEF LinkInv
<1>2. PdTypes'
  BY <1>1 DEF LinkInv, PdTypes
<1>3. ASSUME NEW v \in Pd!Workers PROVE Clean(v)'
  <2>1. Clean(v) BY DEF LinkInv
  <2>2. step'[v] \in {"reinit", "connect"} => step[v] \in {"reinit", "connect"}
    BY <1>1
  <2>3. \A n \in DOMAIN links[v] : Follows(v, n)' <=> Follows(v, n)
    BY DEF Follows
  <2> QED BY <2>1, <2>2, <2>3 DEF Clean
<1> QED BY <1>2, <1>3 DEF LinkInv

\* The clean-up, which does nothing without the connector.
LEMMA CleanupCleans ==
    ASSUME LinkInv, NEW w \in Pd!Workers, Pd!Cleanup(w)
    PROVE  LinkInv'
<1>1. /\ step[w] = "cleanup" /\ Pd!Goto(w, "reinit")
      /\ links' = IF w \in known THEN [links EXCEPT ![w] = Pd!NoLinks] ELSE links
      /\ UNCHANGED <<known, built, role>>
  BY DEF Pd!Cleanup, Pd!Others
<1>2. /\ todo' \in [Pd!Workers -> Seq(Rebuilds)]
      /\ step' \in [Pd!Workers -> Stages]
      /\ \A v \in Pd!Workers : step'[v] # "idle" => todo'[v] # <<>>
      /\ \A v \in Pd!Workers \ {w} : step'[v] = step[v]
  <2>1. "reinit" \in Stages \ {"idle"} BY DEF Stages
  <2> QED BY <1>1, <2>1, WorkIsListed DEF LinkInv
<1>3. /\ links' = [v \in Pd!Workers |-> links'[v]]
      /\ \A v \in Pd!Workers \ {w} : links'[v] = links[v]
      /\ IF w \in known THEN DOMAIN links'[w] = {} ELSE links'[w] = links[w]
  BY <1>1 DEF LinkInv, PdTypes, Pd!NoLinks
<1>4. PdTypes'
  BY <1>1, <1>2, <1>3 DEF LinkInv, PdTypes
<1>5. ASSUME NEW v \in Pd!Workers, v # w PROVE Clean(v)'
  <2>1. Clean(v) BY DEF LinkInv
  <2>2. links'[v] = links[v] /\ step'[v] = step[v] BY <1>2, <1>3, <1>5
  <2>3. \A n \in DOMAIN links[v] : Follows(v, n)' <=> Follows(v, n)
    BY <1>1, <2>2 DEF Follows
  <2> QED BY <1>1, <2>1, <2>2, <2>3 DEF Clean
<1>6. Clean(w)'
  <2>1. Clean(w) BY DEF LinkInv
  <2>2. CASE w \in known
    BY <1>1, <1>3, <2>1, <2>2 DEF Clean
  <2>3. CASE w \notin known
    <3>1. links'[w] = links[w] BY <1>3, <2>3
    <3>2. \A n \in DOMAIN links[w] : Follows(w, n)' <=> Follows(w, n)
      BY <1>1, <3>1 DEF Follows
    <3> QED BY <1>1, <2>1, <2>3, <3>1, <3>2 DEF Clean
  <2> QED BY <2>2, <2>3
<1> QED BY <1>4, <1>5, <1>6 DEF LinkInv

\* What a rebuild connects to its mapping allows.
LEMMA ConnectFollows ==
    ASSUME LinkInv, NEW w \in Pd!Workers, Pd!Connect(w)
    PROVE  LinkInv'
<1> DEFINE s == Pd!Current(w)
           k == Len(built[w])
<1>1. /\ step[w] = "connect" /\ (Pd!Goto(w, "register") \/ Pd!Return(w))
      /\ known' = known \cup {w} /\ built' = [built EXCEPT ![w] = Append(@, s)]
      /\ role' = role
  BY DEF Pd!Connect, Pd!Others
<1>2. /\ todo' \in [Pd!Workers -> Seq(Rebuilds)]
      /\ step' \in [Pd!Workers -> Stages]
      /\ \A v \in Pd!Workers : step'[v] # "idle" => todo'[v] # <<>>
      /\ step'[w] \in {"idle", "register"}
      /\ \A v \in Pd!Workers \ {w} : step'[v] = step[v]
  <2>1. "register" \in Stages \ {"idle"} BY DEF Stages
  <2> QED BY <1>1, <2>1, WorkIsListed DEF LinkInv
<1>3. PICK broken \in SUBSET s.healthy :
        LET new == UNION {Pd!Reached(s, w, i, broken) : i \in DOMAIN s.servers}
        IN \E last \in [new -> DOMAIN s.servers] :
             /\ \A n \in new : n \in Pd!Reached(s, w, last[n], broken)
             /\ links' = [links EXCEPT ![w] =
                  [n \in new \cup DOMAIN @ |->
                     IF n \in new THEN Pd!Link(s.servers[last[n]], k + 1) ELSE @[n]]]
  BY DEF Pd!Connect
<1> DEFINE new == UNION {Pd!Reached(s, w, i, broken) : i \in DOMAIN s.servers}
<1>4. PICK last \in [new -> DOMAIN s.servers] :
        /\ \A n \in new : n \in Pd!Reached(s, w, last[n], broken)
        /\ links' = [links EXCEPT ![w] =
             [n \in new \cup DOMAIN @ |->
                IF n \in new THEN Pd!Link(s.servers[last[n]], k + 1) ELSE @[n]]]
  BY <1>3
<1>5. /\ links'[w] = [n \in new \cup DOMAIN links[w] |->
                        IF n \in new THEN Pd!Link(s.servers[last[n]], k + 1)
                                     ELSE links[w][n]]
      /\ links' = [v \in Pd!Workers |-> links'[v]]
      /\ \A v \in Pd!Workers \ {w} : links'[v] = links[v]
  BY <1>4 DEF LinkInv, PdTypes
<1>6. s \in Rebuilds /\ built[w] \in Seq(Rebuilds) /\ k \in Nat
  <2>1. todo[w] \in Seq(Rebuilds) /\ todo[w] # <<>> /\ built[w] \in Seq(Rebuilds)
    BY <1>1 DEF LinkInv, PdTypes
  <2> QED BY <2>1, HeadTailProperties DEF Pd!Current
<1>7. /\ built' \in [Pd!Workers -> Seq(Rebuilds)] /\ Len(built'[w]) = k + 1
      /\ built'[w][k + 1] = s /\ \A v \in Pd!Workers \ {w} : built'[v] = built[v]
  <2>1. /\ Append(built[w], s) \in Seq(Rebuilds) /\ Len(Append(built[w], s)) = k + 1
        /\ Append(built[w], s)[k + 1] = s
    BY <1>6, AppendProperties
  <2>2. built' = [built EXCEPT ![w] = Append(built[w], s)]
    BY <1>1 DEF LinkInv, PdTypes
  <2> QED BY <2>1, <2>2 DEF LinkInv, PdTypes
<1>8. PdTypes'
  BY <1>2, <1>5, <1>7 DEF PdTypes
<1>9. ASSUME NEW v \in Pd!Workers, v # w PROVE Clean(v)'
  <2>1. Clean(v) BY DEF LinkInv
  <2>2. links'[v] = links[v] /\ step'[v] = step[v] /\ built'[v] = built[v]
    BY <1>2, <1>5, <1>7, <1>9
  <2>3. \A n \in DOMAIN links[v] : Follows(v, n)' <=> Follows(v, n)
    BY <1>1, <2>2 DEF Follows
  <2> QED BY <1>1, <2>1, <2>2, <2>3 DEF Clean
<1>10. ASSUME NEW n \in DOMAIN links'[w] PROVE Follows(w, n)'
  <2>1. CASE n \in new
    <3>1. links'[w][n] = Pd!Link(s.servers[last[n]], k + 1) BY <1>5, <2>1
    <3>2. links'[w][n].by = k + 1 /\ links'[w][n].host = s.servers[last[n]]
      BY <3>1 DEF Pd!Link
    <3>3. n \in Pd!Wanted(s, w, s.servers[last[n]]) BY <1>4, <2>1 DEF Pd!Reached
    <3>4. <<s.servers[last[n]], n>> \in s.healthy /\ Pd!FetchesFrom(s, w, n)
      BY <3>3 DEF Pd!Wanted
    <3> QED BY <1>1, <1>6, <1>7, <3>2, <3>4 DEF Follows, Pd!FetchesFrom
  <2>2. CASE n \notin new
    <3>1. n \in DOMAIN links[w] /\ links'[w][n] = links[w][n] BY <1>5, <2>2
    <3>2. k = 0 BY <1>1, <1>6, <3>1 DEF LinkInv, Clean
    <3>3. links[w][n].by = 0 BY <3>1, <3>2 DEF LinkInv, Clean, Follows
    <3> QED BY <1>7, <3>1, <3>2, <3>3 DEF Follows
  <2> QED BY <2>1, <2>2
<1>11. Clean(w)'
  BY <1>1, <1>2, <1>10 DEF Clean
<1> QED BY <1>8, <1>9, <1>11 DEF LinkInv

\* The executor sends a strategy, or reads answers.
LEMMA ExecutorKeepsLinks ==
    ASSUME LinkInv, Pd!Rebuild \/ Pd!Answered \/ Pd!RpcTimeout \/ UNCHANGED pdVars
    PROVE  LinkInv'
<1>1. UNCHANGED <<step, known, links, built, role>>
  BY DEF Pd!Rebuild, Pd!Answered, Pd!RpcTimeout, pdVars
<1>2. /\ todo' \in [Pd!Workers -> Seq(Rebuilds)]
      /\ \A w \in Pd!Workers : todo[w] # <<>> => todo'[w] # <<>>
  <2>1. CASE todo' = todo BY <2>1 DEF LinkInv, PdTypes
  <2>2. CASE Pd!Rebuild
    <3>1. PICK s \in Rebuilds : todo' = [w \in Pd!Workers |-> Append(todo[w], s)]
      BY <2>2 DEF Pd!Rebuild
    <3>2. ASSUME NEW w \in Pd!Workers
          PROVE  Append(todo[w], s) \in Seq(Rebuilds) /\ Append(todo[w], s) # <<>>
      <4>1. todo[w] \in Seq(Rebuilds) BY DEF LinkInv, PdTypes
      <4> QED BY <4>1, AppendProperties
    <3> QED BY <3>1, <3>2
  <2> QED BY <2>1, <2>2 DEF Pd!Answered, Pd!RpcTimeout, pdVars
<1>3. PdTypes'
  BY <1>1, <1>2 DEF LinkInv, PdTypes
<1>4. ASSUME NEW w \in Pd!Workers PROVE Clean(w)'
  BY <1>1 DEF LinkInv, Clean, Follows
<1> QED BY <1>3, <1>4 DEF LinkInv

\* However strategies, late answers and failures follow each other, the links
\* stay those of the last rebuild.
LEMMA LinksAreKept == LinkInv /\ [Pd!Next]_pdVars => LinkInv'
<1> SUFFICES ASSUME LinkInv, [Pd!Next]_pdVars PROVE LinkInv'
  OBVIOUS
<1>1. ASSUME NEW w \in Pd!Workers, Pd!Start(w) PROVE LinkInv'
  <2>1. "cleanup" \in Stages \ {"idle"} BY DEF Stages
  <2>2. /\ todo[w] # <<>> /\ (Pd!Return(w) \/ Pd!Goto(w, "cleanup"))
        /\ UNCHANGED <<links, built, role, known>>
    BY <1>1 DEF Pd!Start, Pd!Others
  <2> QED BY <2>1, <2>2, LinksStay
<1>2. ASSUME NEW w \in Pd!Workers, Pd!Reinit(w) PROVE LinkInv'
  <2>1. "connect" \in Stages \ {"idle"} BY DEF Stages
  <2>2. /\ step[w] = "reinit" /\ (Pd!Return(w) \/ Pd!Goto(w, "connect"))
        /\ UNCHANGED <<links, built, role, known>>
    BY <1>2 DEF Pd!Reinit, Pd!Others
  <2> QED BY <2>1, <2>2, LinksStay
<1>3. ASSUME NEW w \in Pd!Workers, Pd!Unconnected(w) PROVE LinkInv'
  <2>1. "register" \in Stages \ {"idle"} BY DEF Stages
  <2>2. /\ step[w] = "connect" /\ (Pd!Return(w) \/ Pd!Goto(w, "register"))
        /\ known \subseteq known' /\ UNCHANGED <<links, built, role>>
    BY <1>3 DEF Pd!Unconnected, Pd!Others
  <2> QED BY <2>1, <2>2, LinksStay
<1>4. ASSUME NEW w \in Pd!Workers, Pd!Reregister(w) PROVE LinkInv'
  <2>1. "register" \in Stages \ {"idle"} BY DEF Stages
  <2>2. /\ step[w] = "register" /\ Pd!Return(w)
        /\ UNCHANGED <<links, built, role, known>>
    BY <1>4 DEF Pd!Reregister, Pd!Others
  <2> QED BY <2>1, <2>2, LinksStay
<1> QED BY <1>1, <1>2, <1>3, <1>4, CleanupCleans, ConnectFollows, ExecutorKeepsLinks
     DEF Pd!Next, Pd!Work

PdInv == topic = "pd" => LinkInv

\* However strategies, late answers and failures follow each other, each link
\* of a worker leads to a device that the strategy it last connected for calls
\* healthy, and for a decode worker to the prefill rank mapped to it; only the
\* first rebuild may leave a link that is older than all of them.
THEOREM LinksAreCurrent == Spec => []LinksFollowTheMapping
<1>1. Init => PdInv
  <2> SUFFICES ASSUME Pd!Init PROVE LinkInv
    BY DEF Init, PdInv
  <2>1. <<>> \in Seq(Rebuilds) /\ Len(<<>>) = 0
    BY EmptySeq
  <2>2. PICK first \in FirstLinks :
          links = [w \in Pd!Workers |-> [n \in DOMAIN first |-> Pd!Link(first[n], 0)]]
    BY DEF Pd!Init
  <2>3. /\ built = [w \in Pd!Workers |-> <<>>] /\ todo = [w \in Pd!Workers |-> <<>>]
        /\ step = [w \in Pd!Workers |-> "idle"]
    BY DEF Pd!Init
  <2>4. PdTypes
    BY <2>1, <2>2, <2>3 DEF PdTypes, Stages
  <2>5. ASSUME NEW w \in Pd!Workers PROVE Clean(w)
    <3>1. built[w] = <<>> /\ Len(built[w]) = 0 BY <2>1, <2>3
    <3>2. \A n \in DOMAIN links[w] : links[w][n].by = 0 BY <2>2 DEF Pd!Link
    <3> QED BY <3>1, <3>2 DEF Clean, Follows
  <2> QED BY <2>4, <2>5 DEF LinkInv
<1>2. PdInv /\ [Next]_vars => PdInv'
  <2> SUFFICES ASSUME PdInv, [Next]_vars, topic' = "pd" PROVE LinkInv'
    BY DEF PdInv
  <2>1. topic = "pd" /\ LinkInv
    BY DEF PdInv, Next, vars
  <2>2. [Pd!Next]_pdVars
    BY <2>1 DEF Next, vars
  <2> QED BY <2>1, <2>2, LinksAreKept
<1>3. PdInv => LinksFollowTheMapping
  <2> SUFFICES ASSUME LinkInv PROVE Pd!LinksFollowTheMapping
    BY DEF PdInv, LinksFollowTheMapping
  <2> SUFFICES ASSUME NEW w \in Pd!Workers, NEW n \in DOMAIN links[w]
               PROVE  \/ links[w][n].by = 0 /\ Len(built[w]) <= 1
                      \/ /\ links[w][n].by > 0 /\ links[w][n].by = Len(built[w])
                         /\ <<links[w][n].host, n>> \in Pd!Last(built[w]).healthy
                         /\ role = "D" /\ Pd!Last(built[w]).ptp # None
                              => n = Pd!Target(Pd!Last(built[w]), w)
    BY DEF Pd!LinksFollowTheMapping
  <2>1. Follows(w, n) BY DEF LinkInv, Clean
  <2> QED BY <2>1 DEF Follows, Pd!Last
<1> QED BY <1>1, <1>2, <1>3, PTL DEF Spec

(***************************************************************************)
(* IdleRouting                                                             *)
(***************************************************************************)
WiresFit == /\ up \subseteq Idle!Engines /\ sent \subseteq Idle!Engines
            /\ wire \in [Clients -> [Idle!Engines -> Seq(Idle!Reports)]]
            /\ marks \in [Clients -> SUBSET Idle!Engines]
            /\ untold \subseteq Idle!Engines

\* An engine that has told of its changes has a notice standing just while it
\* is idle, and each client believes it idle that was told so last; those that
\* a recovery is announced to believe no running engine idle.
Honest(e) == /\ e \in sent <=> e \notin up
             /\ e \notin up => \A c \in Clients : Idle!Believed(c, e)
             /\ e \in up => \A c \in Counted : ~ Idle!Believed(c, e)
BeliefInv == WiresFit /\ \A e \in Idle!Engines \ untold : Honest(e)

(***************************************************************************)
(* What a report at the end of the wire, and the loss of the one at its    *)
(* head to the client, do to what the client believes                      *)
(***************************************************************************)

\* The last report that says anything decides, whatever was under way.
LEMMA LastReportCounts ==
    ASSUME NEW w \in Seq(Idle!Reports), NEW marked \in BOOLEAN, NEW r \in Idle!Reports
    PROVE  Idle!Belief(marked, Append(w, r)) <=>
               (r = "idle" \/ (r = "busy" /\ Idle!Belief(marked, w)))
<1> DEFINE v == Append(w, r)
<1>1. /\ v \in Seq(Idle!Reports) /\ Len(v) = Len(w) + 1 /\ Len(w) \in Nat
      /\ DOMAIN v = 1..(Len(w) + 1) /\ DOMAIN w = 1..Len(w)
      /\ v[Len(w) + 1] = r /\ \A i \in 1..Len(w) : v[i] = w[i]
  BY AppendProperties
<1>2. CASE r = "idle"
  <2>1. Len(w) + 1 \in DOMAIN v /\ \A j \in DOMAIN v : ~ (j > Len(w) + 1)
    BY <1>1
  <2> QED BY <1>1, <1>2, <2>1 DEF Idle!Belief
<1>3. CASE r = "busy"
  <2>1. (\A j \in DOMAIN v : v[j] = "busy") <=> (\A j \in DOMAIN w : w[j] = "busy")
    BY <1>1, <1>3
  <2>2. ASSUME NEW i \in DOMAIN w
        PROVE  (\A j \in DOMAIN v : j > i => v[j] = "busy")
               <=> (\A j \in DOMAIN w : j > i => w[j] = "busy")
    BY <1>1, <1>3
  <2>3. (\E i \in DOMAIN v : /\ v[i] = "idle"
                             /\ \A j \in DOMAIN v : j > i => v[j] = "busy")
        <=> (\E i \in DOMAIN w : /\ w[i] = "idle"
                                 /\ \A j \in DOMAIN w : j > i => w[j] = "busy")
    BY <1>1, <1>3, <2>2
  <2> QED BY <1>3, <2>1, <2>3 DEF Idle!Belief
<1>4. CASE r = "free"
  <2>1. Len(w) + 1 \in DOMAIN v /\ v[Len(w) + 1] = "free"
    BY <1>1, <1>4
  <2>2. \A i \in DOMAIN v : i = Len(w) + 1 \/ Len(w) + 1 > i
    BY <1>1
  <2> QED BY <1>4, <2>1, <2>2 DEF Idle!Belief
<1> QED BY <1>2, <1>3, <1>4 DEF Idle!Reports

\* Reading a report moves what it says from the wire to the mark.
LEMMA ReadingChangesNothing ==
    ASSUME NEW w \in Seq(Idle!Reports), w # <<>>, NEW marked \in BOOLEAN,
           NEW now \in BOOLEAN,
           now <=> (Head(w) = "idle" \/ (Head(w) = "busy" /\ marked))
    PROVE  Idle!Belief(now, Tail(w)) <=> Idle!Belief(marked, w)
<1> DEFINE v == Tail(w)
<1>1. /\ v \in Seq(Idle!Reports) /\ Len(v) = Len(w) - 1 /\ Len(w) \in Nat /\ Len(w) > 0
      /\ DOMAIN v = 1..(Len(w) - 1) /\ DOMAIN w = 1..Len(w)
      /\ Head(w) = w[1] /\ \A i \in 1..(Len(w) - 1) : v[i] = w[i + 1]
  BY HeadTailProperties, EmptySeq
<1>2. \A i \in DOMAIN w : w[i] \in Idle!Reports
  BY ElementOfSeq
<1>3. (\A j \in DOMAIN w : w[j] = "busy")
      <=> (w[1] = "busy" /\ \A j \in DOMAIN v : v[j] = "busy")
  <2>1. ASSUME \A j \in DOMAIN v : v[j] = "busy", w[1] = "busy", NEW j \in DOMAIN w
        PROVE  w[j] = "busy"
    <3>1. CASE j = 1 BY <2>1, <3>1
    <3>2. CASE j # 1
      <4>1. j - 1 \in DOMAIN v /\ v[j - 1] = w[(j - 1) + 1] BY <1>1, <3>2
      <4> QED BY <1>1, <2>1, <4>1
    <3> QED BY <3>1, <3>2
  <2>2. ASSUME \A j \in DOMAIN w : w[j] = "busy", NEW j \in DOMAIN v
        PROVE  v[j] = "busy"
    <3>1. j + 1 \in DOMAIN w /\ v[j] = w[j + 1] BY <1>1
    <3> QED BY <2>2, <3>1
  <2> QED BY <1>1, <2>1, <2>2
<1>4. ASSUME NEW i \in DOMAIN v
      PROVE  (v[i] = "idle" /\ \A j \in DOMAIN v : j > i => v[j] = "busy")
             <=> (w[i + 1] = "idle" /\ \A j \in DOMAIN w : j > i + 1 => w[j] = "busy")
  <2>1. ASSUME \A j \in DOMAIN v : j > i => v[j] = "busy",
               NEW j \in DOMAIN w, j > i + 1
        PROVE  w[j] = "busy"
    <3>1. j - 1 \in DOMAIN v /\ j - 1 > i /\ v[j - 1] = w[(j - 1) + 1] BY <1>1, <2>1
    <3>2. (j - 1) + 1 = j BY <1>1
    <3> QED BY <2>1, <3>1, <3>2
  <2>2. ASSUME \A j \in DOMAIN w : j > i + 1 => w[j] = "busy",
               NEW j \in DOMAIN v, j > i
        PROVE  v[j] = "busy"
    <3>1. j + 1 \in DOMAIN w /\ j + 1 > i + 1 /\ v[j] = w[j + 1] BY <1>1, <2>2
    <3> QED BY <2>2, <3>1
  <2>3. v[i] = w[i + 1] BY <1>1
  <2> QED BY <2>1, <2>2, <2>3
<1>5. (w[1] = "idle" /\ \A j \in DOMAIN w : j > 1 => w[j] = "busy")
      <=> (w[1] = "idle" /\ \A j \in DOMAIN v : v[j] = "busy")
  <2>1. ASSUME \A j \in DOMAIN v : v[j] = "busy", NEW j \in DOMAIN w, j > 1
        PROVE  w[j] = "busy"
    <3>1. j - 1 \in DOMAIN v /\ v[j - 1] = w[(j - 1) + 1] BY <1>1, <2>1
    <3>2. (j - 1) + 1 = j BY <1>1
    <3> QED BY <2>1, <3>1, <3>2
  <2>2. ASSUME \A j \in DOMAIN w : j > 1 => w[j] = "busy", NEW j \in DOMAIN v
        PROVE  v[j] = "busy"
    <3>1. j + 1 \in DOMAIN w /\ j + 1 > 1 /\ v[j] = w[j + 1] BY <1>1
    <3> QED BY <2>2, <3>1
  <2> QED BY <2>1, <2>2
<1>6. (\E i \in DOMAIN w : w[i] = "idle" /\ \A j \in DOMAIN w : j > i => w[j] = "busy")
      <=> \/ \E i \in DOMAIN v : v[i] = "idle" /\ \A j \in DOMAIN v : j > i => v[j] = "busy"
          \/ w[1] = "idle" /\ \A j \in DOMAIN v : v[j] = "busy"
  <2>1. ASSUME NEW i \in DOMAIN w,
               w[i] = "idle" /\ \A j \in DOMAIN w : j > i => w[j] = "busy"
        PROVE  \/ \E k \in DOMAIN v : v[k] = "idle" /\ \A j \in DOMAIN v : j > k => v[j] = "busy"
               \/ w[1] = "idle" /\ \A j \in DOMAIN v : v[j] = "busy"
    <3>1. CASE i = 1 BY <1>5, <2>1, <3>1
    <3>2. CASE i # 1
      <4>1. i - 1 \in DOMAIN v /\ (i - 1) + 1 = i BY <1>1, <3>2
      <4>2. v[i - 1] = "idle" /\ \A j \in DOMAIN v : j > i - 1 => v[j] = "busy"
        BY <1>4, <2>1, <4>1
      <4> QED BY <4>1, <4>2
    <3> QED BY <3>1, <3>2
  <2>2. ASSUME NEW k \in DOMAIN v,
               v[k] = "idle" /\ \A j \in DOMAIN v : j > k => v[j] = "busy"
        PROVE  \E i \in DOMAIN w : w[i] = "idle" /\ \A j \in DOMAIN w : j > i => w[j] = "busy"
    <3>1. k + 1 \in DOMAIN w BY <1>1
    <3> QED BY <1>4, <2>2, <3>1
  <2>3. ASSUME w[1] = "idle", \A j \in DOMAIN v : v[j] = "busy"
        PROVE  \E i \in DOMAIN w : w[i] = "idle" /\ \A j \in DOMAIN w : j > i => w[j] = "busy"
    <3>1. 1 \in DOMAIN w BY <1>1
    <3> QED BY <1>5, <2>3, <3>1
  <2> QED BY <2>1, <2>2, <2>3
<1> QED BY <1>1, <1>3, <1>6 DEF Idle!Belief

(***************************************************************************)
(* The steps                                                               *)
(***************************************************************************)

\* An engine of which nothing moved is as honest as before.
LEMMA HonestyStays ==
    ASSUME NEW e \in Idle!Engines, Honest(e), e \in sent' <=> e \in sent,
           e \in up' <=> e \in up,
           \A c \in Clients : /\ wire'[c][e] = wire[c][e]
                              /\ e \in marks'[c] <=> e \in marks[c]
    PROVE  Honest(e)'
<1>1. ASSUME NEW c \in Clients PROVE Idle!Believed(c, e)' <=> Idle!Believed(c, e)
  <2>1. CASE e \in marks[c] BY <2>1 DEF Idle!Believed, Idle!Belief
  <2>2. CASE e \notin marks[c] BY <2>2 DEF Idle!Believed, Idle!Belief
  <2> QED BY <2>1, <2>2
<1> QED BY <1>1, IdleAssumption DEF Honest

\* What an engine tells is on the wires of those it tells, and nothing else is new.
LEMMA Told ==
    ASSUME WiresFit, NEW e \in Idle!Engines, NEW r \in Idle!Reports, NEW told,
           Idle!Tell(e, r, told)
    PROVE  /\ wire' \in [Clients -> [Idle!Engines -> Seq(Idle!Reports)]]
           /\ \A c \in Clients : wire'[c][e] = IF c \in told THEN Append(wire[c][e], r)
                                                            ELSE wire[c][e]
           /\ \A c \in Clients, f \in Idle!Engines \ {e} : wire'[c][f] = wire[c][f]
<1>1. ASSUME NEW c \in Clients
      PROVE  /\ [wire[c] EXCEPT ![e] = Append(@, r)] \in [Idle!Engines -> Seq(Idle!Reports)]
             /\ [wire[c] EXCEPT ![e] = Append(@, r)][e] = Append(wire[c][e], r)
             /\ wire[c] \in [Idle!Engines -> Seq(Idle!Reports)]
             /\ \A f \in Idle!Engines \ {e} :
                    [wire[c] EXCEPT ![e] = Append(@, r)][f] = wire[c][f]
  <2>1. wire[c] \in [Idle!Engines -> Seq(Idle!Reports)] /\ wire[c][e] \in Seq(Idle!Reports)
    BY DEF WiresFit
  <2>2. Append(wire[c][e], r) \in Seq(Idle!Reports)
    BY <2>1, AppendProperties
  <2> QED BY <2>1, <2>2
<1>2. wire' = [c \in Clients |-> IF c \in told THEN [wire[c] EXCEPT ![e] = Append(@, r)]
                                 ELSE wire[c]]
  BY DEF Idle!Tell
<1>3. wire' \in [Clients -> [Idle!Engines -> Seq(Idle!Reports)]]
  BY <1>1, <1>2
<1>4. \A c \in Clients : wire'[c] = IF c \in told THEN [wire[c] EXCEPT ![e] = Append(@, r)]
                                                  ELSE wire[c]
  BY <1>2
<1> QED BY <1>1, <1>3, <1>4

\* LastReportCounts for what a client has of an engine.
LEMMA ToldIsBelieved ==
    ASSUME WiresFit, NEW e \in Idle!Engines, NEW c \in Clients, NEW r \in Idle!Reports
    PROVE  Idle!Belief(e \in marks[c], Append(wire[c][e], r))
               <=> (r = "idle" \/ (r = "busy" /\ Idle!Believed(c, e)))
<1> DEFINE m == e \in marks[c]
<1>1. m \in BOOLEAN /\ wire[c][e] \in Seq(Idle!Reports) BY DEF WiresFit
<1>2. Idle!Believed(c, e) <=> Idle!Belief(m, wire[c][e]) BY DEF Idle!Believed
<1> HIDE DEF m
<1>3. Idle!Belief(m, Append(wire[c][e], r))
          <=> (r = "idle" \/ (r = "busy" /\ Idle!Belief(m, wire[c][e])))
  BY <1>1, LastReportCounts
<1> QED BY <1>2, <1>3 DEF m

\* STOP and DEGRADE: a notice goes out, or one still stands.
LEMMA DegradeIsHonest ==
    ASSUME BeliefInv, NEW e \in Idle!Engines, Idle!Degrade(e)
    PROVE  BeliefInv'
<1>1. WiresFit /\ "idle" \in Idle!Reports
  BY DEF BeliefInv, Idle!Reports
<1>2. up' = up \ {e} /\ sent' = sent \cup {e} /\ marks' = marks /\ untold' = untold
  BY DEF Idle!Degrade
<1>3. CASE e \in sent
  <2>1. wire' = wire BY <1>3 DEF Idle!Degrade
  <2>2. WiresFit' BY <1>1, <1>2, <2>1 DEF WiresFit
  <2>3. ASSUME NEW f \in Idle!Engines \ untold PROVE Honest(f)'
    <3>1. Honest(f) BY DEF BeliefInv
    <3>2. (f \in up' <=> f \in up) /\ (f \in sent' <=> f \in sent)
      BY <1>2, <1>3, <3>1 DEF Honest
    <3> QED BY <1>2, <2>1, <3>1, <3>2, HonestyStays
  <2> QED BY <1>2, <2>2, <2>3 DEF BeliefInv
<1>4. CASE e \notin sent
  <2>1. Idle!Tell(e, "idle", Clients) BY <1>4 DEF Idle!Degrade
  <2>2. WiresFit' BY <1>1, <1>2, <2>1, Told DEF WiresFit
  <2>3. ASSUME e \notin untold PROVE Honest(e)'
    <3>1. ASSUME NEW c \in Clients PROVE Idle!Believed(c, e)'
      <4>1. wire'[c][e] = Append(wire[c][e], "idle") BY <1>1, <2>1, Told
      <4>2. Idle!Belief(e \in marks[c], Append(wire[c][e], "idle"))
        BY <1>1, ToldIsBelieved
      <4> QED BY <1>2, <4>1, <4>2 DEF Idle!Believed
    <3> QED BY <1>2, <3>1 DEF Honest
  <2>4. ASSUME NEW f \in Idle!Engines \ untold, f # e PROVE Honest(f)'
    <3>1. \A c \in Clients : wire'[c][f] = wire[c][f] BY <1>1, <2>1, <2>4, Told
    <3> QED BY <1>2, <2>4, <3>1, HonestyStays DEF BeliefInv
  <2> QED BY <1>2, <2>2, <2>3, <2>4 DEF BeliefInv
<1> QED BY <1>3, <1>4

\* A strategy that leaves workers: the clients are told, needed or not.
LEMMA RecoverIsHonest ==
    ASSUME BeliefInv, NEW e \in Idle!Engines, Idle!Recover(e)
    PROVE  BeliefInv'
<1>1. WiresFit /\ "free" \in Idle!Reports
  BY DEF BeliefInv, Idle!Reports
<1>2. /\ up' = up \cup {e} /\ sent' = sent \ {e} /\ marks' = marks /\ untold' = untold
      /\ Idle!Tell(e, "free", Counted)
  BY DEF Idle!Recover
<1>3. WiresFit' BY <1>1, <1>2, Told DEF WiresFit
<1>4. ASSUME e \notin untold PROVE Honest(e)'
  <2>1. ASSUME NEW c \in Counted PROVE ~ Idle!Believed(c, e)'
    <3>0. c \in Clients BY IdleAssumption
    <3>1. wire'[c][e] = Append(wire[c][e], "free") BY <1>1, <1>2, <3>0, Told
    <3>2. ~ Idle!Belief(e \in marks[c], Append(wire[c][e], "free"))
      BY <1>1, <3>0, ToldIsBelieved
    <3> QED BY <1>2, <3>1, <3>2 DEF Idle!Believed
  <2> QED BY <1>2, <2>1 DEF Honest
<1>5. ASSUME NEW f \in Idle!Engines \ untold, f # e PROVE Honest(f)'
  <2>1. \A c \in Clients : wire'[c][f] = wire[c][f] BY <1>1, <1>2, <1>5, Told
  <2> QED BY <1>2, <1>5, <2>1, HonestyStays DEF BeliefInv
<1> QED BY <1>2, <1>3, <1>4, <1>5 DEF BeliefInv

\* One entry of the wires changes.
LEMMA OneWire ==
    ASSUME WiresFit, NEW e \in Idle!Engines, NEW c \in Clients,
           NEW w \in Seq(Idle!Reports),
           wire' = [wire EXCEPT ![c][e] = w]
    PROVE  /\ wire' \in [Clients -> [Idle!Engines -> Seq(Idle!Reports)]]
           /\ wire'[c][e] = w
           /\ \A d \in Clients, f \in Idle!Engines : (d # c \/ f # e) => wire'[d][f] = wire[d][f]
<1>1. wire[c] \in [Idle!Engines -> Seq(Idle!Reports)] BY DEF WiresFit
<1>2. wire' = [wire EXCEPT ![c] = [wire[c] EXCEPT ![e] = w]] BY DEF WiresFit
<1>3. [wire[c] EXCEPT ![e] = w] \in [Idle!Engines -> Seq(Idle!Reports)] BY <1>1
<1>4. wire'[c] = [wire[c] EXCEPT ![e] = w] BY <1>2 DEF WiresFit
<1>5. \A d \in Clients : d # c => wire'[d] = wire[d] BY <1>2 DEF WiresFit
<1> QED BY <1>1, <1>2, <1>3, <1>4, <1>5 DEF WiresFit

\* An ordinary load report comes from an engine with workers, which none
\* of the counted clients believes idle once all that is under way has been read.
LEMMA ReportIsHonest ==
    ASSUME BeliefInv, NEW e \in Idle!Engines, NEW c \in Clients, Idle!Report(e, c)
    PROVE  BeliefInv'
<1>1. WiresFit BY DEF BeliefInv
<1>2. PICK news \in {"free", "busy"} : wire' = [wire EXCEPT ![c][e] = Append(@, news)]
  BY DEF Idle!Report
<1>3. news \in Idle!Reports /\ wire[c][e] \in Seq(Idle!Reports)
  BY <1>1 DEF Idle!Reports, WiresFit
<1>4. Append(wire[c][e], news) \in Seq(Idle!Reports) BY <1>3, AppendProperties
<1>5. wire' = [wire EXCEPT ![c][e] = Append(wire[c][e], news)] BY <1>1, <1>2 DEF WiresFit
<1>6. e \in up /\ up' = up /\ sent' = sent /\ marks' = marks /\ untold' = untold
  BY DEF Idle!Report
<1>7. /\ wire' \in [Clients -> [Idle!Engines -> Seq(Idle!Reports)]]
      /\ wire'[c][e] = Append(wire[c][e], news)
      /\ \A d \in Clients, f \in Idle!Engines : (d # c \/ f # e) => wire'[d][f] = wire[d][f]
  <2> DEFINE longer == Append(wire[c][e], news)
  <2>1. longer \in Seq(Idle!Reports) /\ wire' = [wire EXCEPT ![c][e] = longer] BY <1>4, <1>5
  <2> HIDE DEF longer
  <2>2. /\ wire' \in [Clients -> [Idle!Engines -> Seq(Idle!Reports)]]
        /\ wire'[c][e] = longer
        /\ \A d \in Clients, f \in Idle!Engines : (d # c \/ f # e) => wire'[d][f] = wire[d][f]
    BY <1>1, <2>1, OneWire
  <2> QED BY <2>2 DEF longer
<1>8. WiresFit' BY <1>1, <1>6, <1>7 DEF WiresFit
<1>9. ASSUME e \notin untold PROVE Honest(e)'
  <2>1. Honest(e) BY <1>9 DEF BeliefInv
  <2>2. ASSUME NEW d \in Counted PROVE ~ Idle!Believed(d, e)'
    <3>0. d \in Clients BY IdleAssumption
    <3>1. ~ Idle!Belief(e \in marks[d], wire[d][e])
      BY <1>6, <2>1, <3>0 DEF Honest, Idle!Believed
    <3>2. CASE d # c BY <1>6, <1>7, <3>0, <3>1, <3>2 DEF Idle!Believed
    <3>3. CASE d = c
      <4>1. ~ Idle!Belief(e \in marks[c], Append(wire[c][e], news))
        BY <1>1, <1>3, <3>1, <3>3, ToldIsBelieved DEF Idle!Believed
      <4> QED BY <1>6, <1>7, <3>3, <4>1 DEF Idle!Believed
    <3> QED BY <3>2, <3>3
  <2> QED BY <1>6, <2>1, <2>2 DEF Honest
<1>10. ASSUME NEW f \in Idle!Engines \ untold, f # e PROVE Honest(f)'
  BY <1>6, <1>7, <1>10, HonestyStays DEF BeliefInv
<1> QED BY <1>6, <1>8, <1>9, <1>10 DEF BeliefInv

\* A client reads a report: what it will believe in the end stays the same.
LEMMA ReadingIsHonest ==
    ASSUME BeliefInv, NEW e \in Idle!Engines, NEW c \in Clients, Idle!ProcessOutputs(c, e)
    PROVE  BeliefInv'
<1>1. WiresFit BY DEF BeliefInv
<1>2. wire[c][e] \in Seq(Idle!Reports) /\ wire[c][e] # <<>>
  BY <1>1 DEF Idle!ProcessOutputs, WiresFit
<1>3. Tail(wire[c][e]) \in Seq(Idle!Reports) /\ Head(wire[c][e]) \in Idle!Reports
  BY <1>2, HeadTailProperties
<1>4. /\ wire' = [wire EXCEPT ![c][e] = Tail(wire[c][e])]
      /\ marks' = [marks EXCEPT ![c] = Idle!After(marks[c], e, Head(wire[c][e]))]
      /\ up' = up /\ sent' = sent /\ untold' = untold
  BY <1>1 DEF Idle!ProcessOutputs, WiresFit
<1>5. /\ wire' \in [Clients -> [Idle!Engines -> Seq(Idle!Reports)]]
      /\ wire'[c][e] = Tail(wire[c][e])
      /\ \A d \in Clients, f \in Idle!Engines : (d # c \/ f # e) => wire'[d][f] = wire[d][f]
  BY <1>1, <1>3, <1>4, OneWire
<1>6. /\ Idle!After(marks[c], e, Head(wire[c][e])) \in SUBSET Idle!Engines
      /\ \A f \in Idle!Engines \ {e} : f \in Idle!After(marks[c], e, Head(wire[c][e])) <=> f \in marks[c]
      /\ e \in Idle!After(marks[c], e, Head(wire[c][e]))
           <=> (\/ Head(wire[c][e]) = "idle"
                \/ Head(wire[c][e]) = "busy" /\ e \in marks[c])
  BY <1>1, <1>3 DEF Idle!After, Idle!Reports, WiresFit
<1>7. /\ marks' \in [Clients -> SUBSET Idle!Engines]
      /\ marks'[c] = Idle!After(marks[c], e, Head(wire[c][e]))
      /\ \A d \in Clients \ {c} : marks'[d] = marks[d]
  BY <1>1, <1>4, <1>6 DEF WiresFit
<1>8. WiresFit' BY <1>1, <1>4, <1>5, <1>7 DEF WiresFit
<1>9. ASSUME e \notin untold PROVE Honest(e)'
  <2>1. Honest(e) BY <1>9 DEF BeliefInv
  <2>2. ASSUME NEW d \in Clients PROVE Idle!Believed(d, e)' <=> Idle!Believed(d, e)
    <3>1. CASE d # c BY <1>5, <1>7, <3>1 DEF Idle!Believed
    <3>2. CASE d = c
      <4>1. Idle!Belief(e \in marks'[c], Tail(wire[c][e])) <=> Idle!Belief(e \in marks[c], wire[c][e])
        <5> DEFINE before == e \in marks[c]
        <5> DEFINE after == e \in marks'[c]
        <5>1. /\ before \in BOOLEAN /\ after \in BOOLEAN
              /\ after <=> (\/ Head(wire[c][e]) = "idle"
                            \/ Head(wire[c][e]) = "busy" /\ before)
          BY <1>6, <1>7
        <5> HIDE DEF before, after
        <5>2. Idle!Belief(after, Tail(wire[c][e])) <=> Idle!Belief(before, wire[c][e])
          BY <1>2, <5>1, ReadingChangesNothing
        <5> QED BY <5>2 DEF before, after
      <4> QED BY <1>5, <3>2, <4>1 DEF Idle!Believed
    <3> QED BY <3>1, <3>2
  <2> QED BY <1>4, <2>1, <2>2, IdleAssumption DEF Honest
<1>10. ASSUME NEW f \in Idle!Engines \ untold, f # e PROVE Honest(f)'
  <2>1. \A d \in Clients : /\ wire'[d][f] = wire[d][f]
                           /\ f \in marks'[d] <=> f \in marks[d]
    BY <1>5, <1>6, <1>7, <1>10
  <2> QED BY <1>4, <1>10, <2>1, HonestyStays DEF BeliefInv
<1> QED BY <1>4, <1>8, <1>9, <1>10 DEF BeliefInv

\* An engine that changes without a word is no longer spoken of.
LEMMA UntoldIsLeftOut ==
    ASSUME BeliefInv, NEW e \in Idle!Engines, Idle!ChangeUntold(e)
    PROVE  BeliefInv'
<1>1. /\ (up' = up \ {e} \/ up' = up \cup {e}) /\ untold' = untold \cup {e}
      /\ sent' = sent /\ wire' = wire /\ marks' = marks
  BY DEF Idle!ChangeUntold
<1>2. WiresFit' BY <1>1 DEF BeliefInv, WiresFit
<1>3. ASSUME NEW f \in Idle!Engines \ untold' PROVE Honest(f)'
  BY <1>1, HonestyStays DEF BeliefInv
<1> QED BY <1>2, <1>3 DEF BeliefInv

\* At the start nobody has been told anything, and every engine runs.
LEMMA BeliefStarts == Idle!Init => BeliefInv
<1> SUFFICES ASSUME Idle!Init PROVE BeliefInv
  OBVIOUS
<1>1. WiresFit
  <2>1. <<>> \in Seq(Idle!Reports) BY EmptySeq
  <2> QED BY <2>1 DEF Idle!Init, WiresFit
<1>2. ASSUME NEW e \in Idle!Engines PROVE Honest(e)
  <2>1. ASSUME NEW c \in Clients PROVE ~ Idle!Believed(c, e)
    <3>1. wire[c][e] = <<>> /\ e \notin marks[c] /\ DOMAIN wire[c][e] = {}
      BY DEF Idle!Init
    <3> QED BY <3>1 DEF Idle!Believed, Idle!Belief
  <2> QED BY <2>1, IdleAssumption DEF Honest, Idle!Init
<1> QED BY <1>1, <1>2 DEF BeliefInv

\* Every step keeps BeliefInv, which leaves out the engines nobody was told of.
LEMMA BeliefIsKept == BeliefInv /\ [Idle!Next]_Idle!vars => BeliefInv'
<1> SUFFICES ASSUME BeliefInv, [Idle!Next]_Idle!vars PROVE BeliefInv'
  OBVIOUS
<1>1. ASSUME up' = up, sent' = sent, wire' = wire, marks' = marks, untold' = untold
      PROVE  BeliefInv'
  <2>1. WiresFit' BY <1>1 DEF BeliefInv, WiresFit
  <2>2. ASSUME NEW f \in Idle!Engines \ untold PROVE Honest(f)'
    BY <1>1, HonestyStays DEF BeliefInv
  <2> QED BY <1>1, <2>1, <2>2 DEF BeliefInv
<1>2. ASSUME NEW e \in Idle!Engines, Idle!Degrade(e) PROVE BeliefInv'
  BY <1>2, DegradeIsHonest
<1>3. ASSUME NEW e \in Idle!Engines, Idle!Recover(e) PROVE BeliefInv'
  BY <1>3, RecoverIsHonest
<1>4. ASSUME NEW e \in Idle!Engines, Idle!ChangeUntold(e) PROVE BeliefInv'
  BY <1>4, UntoldIsLeftOut
<1>5. ASSUME NEW e \in Idle!Engines, NEW c \in Clients, Idle!Report(e, c) PROVE BeliefInv'
  BY <1>5, ReportIsHonest
<1>6. ASSUME NEW e \in Idle!Engines, NEW c \in Clients, Idle!ProcessOutputs(c, e)
      PROVE BeliefInv'
  BY <1>6, ReadingIsHonest
<1>7. ASSUME UNCHANGED Idle!vars PROVE BeliefInv'
  BY <1>1, <1>7 DEF Idle!vars
<1> QED BY <1>2, <1>3, <1>4, <1>5, <1>6, <1>7 DEF Idle!Next

\* On a wire that was read to its end the mark is the engine's state.
LEMMA HonestMarks == BeliefInv => Idle!MarksFollowTheEngines
BY DEF BeliefInv, Honest, Idle!MarksFollowTheEngines

(***************************************************************************)
(* The types, with the bound of the wires                                  *)
(***************************************************************************)
ReportsFit == \A c \in Clients, e \in Idle!Engines : Len(wire[c][e]) \leq MaxWire

\* The parts of the type invariant.
LEMMA TypesFit == ASSUME MaxWire \in Nat, WiresFit, ReportsFit PROVE Idle!TypeOK
<1>1. ASSUME NEW c \in Clients, NEW e \in Idle!Engines
      PROVE  wire[c][e] \in Idle!BoundedSeq(Idle!Reports, MaxWire)
  <2>1. /\ wire[c][e] \in [1..Len(wire[c][e]) -> Idle!Reports]
        /\ Len(wire[c][e]) \in 0..MaxWire
    BY DEF WiresFit, ReportsFit
  <2> QED BY <2>1 DEF Idle!BoundedSeq, Idle!SeqOf
<1>2. wire \in [Clients -> [Idle!Engines -> Idle!BoundedSeq(Idle!Reports, MaxWire)]]
  <2>1. /\ wire = [c \in Clients |-> wire[c]]
        /\ \A c \in Clients : wire[c] = [e \in Idle!Engines |-> wire[c][e]]
    BY DEF WiresFit
  <2> QED BY <1>1, <2>1
<1> QED BY <1>2 DEF Idle!TypeOK, WiresFit

\* No wire is too long at the start,
LEMMA FitStarts == ASSUME MaxWire \in Nat, Idle!Init PROVE ReportsFit
BY EmptySeq DEF Idle!Init, ReportsFit

\* An engine tells something only where there is room.
LEMMA FitIsKept == ASSUME MaxWire \in Nat, WiresFit, ReportsFit, [Idle!Next]_Idle!vars PROVE ReportsFit'
<1>1. ASSUME wire' = wire PROVE ReportsFit'
  BY <1>1 DEF ReportsFit
<1>2. ASSUME NEW e \in Idle!Engines, NEW r \in Idle!Reports, NEW told, Idle!Room(e),
             Idle!Tell(e, r, told)
      PROVE ReportsFit'
  <2>1. ASSUME NEW c \in Clients, NEW f \in Idle!Engines
        PROVE Len(wire'[c][f]) \leq MaxWire
    <3>1. CASE f = e
      <4>1. /\ wire[c][e] \in Seq(Idle!Reports) /\ Len(wire[c][e]) < MaxWire
        BY <1>2 DEF WiresFit, Idle!Room
      <4>2. Len(Append(wire[c][e], r)) = Len(wire[c][e]) + 1 /\ Len(wire[c][e]) \in Nat
        BY <1>2, <4>1, AppendProperties
      <4>3. wire'[c][e] = IF c \in told THEN Append(wire[c][e], r) ELSE wire[c][e]
        BY <1>2, Told
      <4> QED BY <3>1, <4>1, <4>2, <4>3
    <3>2. CASE f # e
      <4>1. wire'[c][f] = wire[c][f] BY <1>2, <3>2, Told
      <4> QED BY <4>1 DEF ReportsFit
    <3> QED BY <3>1, <3>2
  <2> QED BY <2>1 DEF ReportsFit
<1>3. ASSUME NEW e \in Idle!Engines, NEW c \in Clients, NEW w \in Seq(Idle!Reports),
             wire' = [wire EXCEPT ![c][e] = w], Len(w) \leq MaxWire
      PROVE  ReportsFit'
  <2>1. ASSUME NEW d \in Clients, NEW f \in Idle!Engines
        PROVE Len(wire'[d][f]) \leq MaxWire
    <3>1. CASE d = c /\ f = e BY <1>3, <3>1, OneWire
    <3>2. CASE ~ (d = c /\ f = e) BY <1>3, <3>2, OneWire DEF ReportsFit
    <3> QED BY <3>1, <3>2
  <2> QED BY <2>1 DEF ReportsFit
<1>4. ASSUME NEW e \in Idle!Engines, Idle!Degrade(e) PROVE ReportsFit'
  BY <1>1, <1>2, <1>4 DEF Idle!Degrade, Idle!Reports
<1>5. ASSUME NEW e \in Idle!Engines, Idle!Recover(e) PROVE ReportsFit'
  BY <1>2, <1>5 DEF Idle!Recover, Idle!Reports
<1>6. ASSUME NEW e \in Idle!Engines, Idle!ChangeUntold(e) PROVE ReportsFit'
  BY <1>1, <1>6 DEF Idle!ChangeUntold
<1>7. ASSUME NEW e \in Idle!Engines, NEW c \in Clients, Idle!Report(e, c)
      PROVE ReportsFit'
  <2>1. PICK news \in {"free", "busy"} : wire' = [wire EXCEPT ![c][e] = Append(@, news)]
    BY <1>7 DEF Idle!Report
  <2>2. news \in Idle!Reports /\ wire[c][e] \in Seq(Idle!Reports)
    BY DEF Idle!Reports, WiresFit
  <2>3. /\ Append(wire[c][e], news) \in Seq(Idle!Reports)
        /\ Len(Append(wire[c][e], news)) = Len(wire[c][e]) + 1 /\ Len(wire[c][e]) \in Nat
    BY <2>2, AppendProperties
  <2>4. Len(wire[c][e]) < MaxWire BY <1>7 DEF Idle!Report
  <2>5. wire' = [wire EXCEPT ![c][e] = Append(wire[c][e], news)] BY <2>1 DEF WiresFit
  <2>6. Len(Append(wire[c][e], news)) \leq MaxWire BY <2>3, <2>4
  <2> QED BY <1>3, <2>3, <2>5, <2>6
<1>8. ASSUME NEW e \in Idle!Engines, NEW c \in Clients, Idle!ProcessOutputs(c, e)
      PROVE ReportsFit'
  <2>1. /\ wire[c][e] \in Seq(Idle!Reports) /\ wire[c][e] # <<>>
        /\ wire' = [wire EXCEPT ![c][e] = Tail(wire[c][e])]
    BY <1>8 DEF Idle!ProcessOutputs, WiresFit
  <2>2. /\ Tail(wire[c][e]) \in Seq(Idle!Reports)
        /\ Len(Tail(wire[c][e])) = Len(wire[c][e]) - 1 /\ Len(wire[c][e]) \in Nat
    BY <2>1, HeadTailProperties
  <2>3. Len(Tail(wire[c][e])) \leq MaxWire BY <2>2 DEF ReportsFit
  <2> QED BY <1>3, <2>1, <2>2, <2>3
<1>9. ASSUME UNCHANGED Idle!vars PROVE ReportsFit'
  BY <1>1, <1>9 DEF Idle!vars
<1> QED BY <1>4, <1>5, <1>6, <1>7, <1>8, <1>9 DEF Idle!Next

(***************************************************************************)
(* The theorems                                                            *)
(***************************************************************************)

IdleInv == topic = "idle" => BeliefInv /\ ReportsFit

\* However reports are delayed, and whatever ordinary loads mix with the
\* announcements, every client that has read what an engine sent it has marked
\* the engine if it announced itself idle, and every client that recoveries are
\* announced to has no mark of it if it announced that it runs.
THEOREM MarksAreTrue == Spec => []MarksFollowTheEngines
<1>1. Init => IdleInv
  BY IdleAssumption, BeliefStarts, FitStarts DEF Init, IdleInv
<1>2. IdleInv /\ [Next]_vars => IdleInv'
  <2> SUFFICES ASSUME IdleInv, [Next]_vars, topic' = "idle"
               PROVE  BeliefInv' /\ ReportsFit'
    BY DEF IdleInv
  <2>1. topic = "idle" /\ BeliefInv /\ ReportsFit
    BY DEF IdleInv, Next, vars
  <2>2. [Idle!Next]_Idle!vars
    BY <2>1 DEF Next, vars, Idle!vars, idleVars
  <2> QED BY <2>1, <2>2, IdleAssumption, BeliefIsKept, FitIsKept DEF BeliefInv
<1>3. IdleInv => MarksFollowTheEngines
  BY IdleAssumption, HonestMarks, TypesFit
     DEF IdleInv, MarksFollowTheEngines, BeliefInv
<1> QED BY <1>1, <1>2, <1>3, PTL DEF Spec

(***************************************************************************)
(* ParallelReconfig                                                        *)
(***************************************************************************)
\* The counts of the components are those the library's theorems are about.
LEMMA SameCounts ==
    \A S : /\ Parallel!Cardinality(S) = Cardinality(S)
           /\ Parallel!IsFiniteSet(S) <=> IsFiniteSet(S)
           /\ Layerwise!Cardinality(S) = Cardinality(S)
<1> TAKE S
<1>1. Parallel!Cardinality(S) = Cardinality(S)
  BY DEF Parallel!Cardinality, Cardinality
<1>2. Parallel!IsFiniteSet(S) <=> IsFiniteSet(S)
  BY DEF Parallel!IsFiniteSet, IsFiniteSet
<1>3. Layerwise!Cardinality(S) = Cardinality(S)
  BY DEF Layerwise!Cardinality, Cardinality
<1> QED BY <1>1, <1>2, <1>3

(***************************************************************************)
(* Counting below                                                          *)
(***************************************************************************)
Below(set, e) == {d \in set : d < e}

\* In a finite set of numbers a greater one has more of them below it.
LEMMA BelowGrows ==
    ASSUME NEW set \in SUBSET Nat, IsFiniteSet(set)
    PROVE  /\ \A e \in set : Cardinality(Below(set, e)) \in Nat
           /\ \A e, d \in set : e < d =>
                  Cardinality(Below(set, e)) < Cardinality(Below(set, d))
<1>1. \A e \in set : IsFiniteSet(Below(set, e)) /\ Cardinality(Below(set, e)) \in Nat
  <2>1. \A e \in set : Below(set, e) \in SUBSET set BY DEF Below
  <2> QED BY <2>1, FS_Subset, FS_CardinalityType
<1>2. ASSUME NEW e \in set, NEW d \in set, e < d
      PROVE  Cardinality(Below(set, e)) < Cardinality(Below(set, d))
  <2>1. Below(set, e) \in SUBSET Below(set, d)
    <3>1. \A c \in set : c < e => c < d BY <1>2
    <3> QED BY <3>1 DEF Below
  <2>2. e \in Below(set, d) /\ e \notin Below(set, e) BY <1>2 DEF Below
  <2>3. /\ Cardinality(Below(set, e)) \leq Cardinality(Below(set, d))
        /\ Cardinality(Below(set, d)) # Cardinality(Below(set, e))
    BY <1>1, <2>1, <2>2, FS_Subset
  <2> QED BY <1>1, <2>3
<1> QED BY <1>1, <1>2

\* The numbers below e are split by any set of them.
LEMMA BelowIsSplit ==
    ASSUME Dp \in Nat, NEW idle \in SUBSET Parallel!Executors,
           NEW e \in Parallel!Executors
    PROVE  /\ IsFiniteSet(Below(idle, e))
           /\ IsFiniteSet(Below(Parallel!Executors \ idle, e))
           /\ Cardinality(Below(idle, e)) \in Nat
           /\ Cardinality(Below(Parallel!Executors \ idle, e)) \in Nat
           /\ Cardinality(Below(Parallel!Executors \ idle, e)) = e - Cardinality(Below(idle, e))
<1>1. e \in Nat /\ IsFiniteSet(0..(e - 1)) /\ Cardinality(0..(e - 1)) = e
  <2>1. e \in Nat /\ e - 1 \in Int BY DEF Parallel!Executors
  <2> QED BY <2>1, FS_Interval
<1>2. /\ Below(idle, e) \in SUBSET (0..(e - 1))
      /\ Below(Parallel!Executors \ idle, e) \in SUBSET (0..(e - 1))
  <2>1. \A d \in Parallel!Executors : d < e => d \in 0..(e - 1)
    BY <1>1 DEF Parallel!Executors
  <2> QED BY <2>1 DEF Below
<1>3. IsFiniteSet(Below(idle, e)) /\ IsFiniteSet(Below(Parallel!Executors \ idle, e))
  BY <1>1, <1>2, FS_Subset
<1>4. Below(idle, e) \cap Below(Parallel!Executors \ idle, e) = {}
  BY DEF Below
<1>5. Below(idle, e) \cup Below(Parallel!Executors \ idle, e) = 0..(e - 1)
  BY <1>1, <1>2 DEF Below, Parallel!Executors
<1>6. /\ Cardinality(Below(idle, e)) \in Nat
      /\ Cardinality(Below(Parallel!Executors \ idle, e)) \in Nat
  BY <1>3, FS_CardinalityType
<1>7. e = Cardinality(Below(idle, e)) + Cardinality(Below(Parallel!Executors \ idle, e))
  <2>1. Cardinality(Below(idle, e) \cup Below(Parallel!Executors \ idle, e))
          = Cardinality(Below(idle, e)) + Cardinality(Below(Parallel!Executors \ idle, e))
            - Cardinality(Below(idle, e) \cap Below(Parallel!Executors \ idle, e))
    BY <1>3, FS_Union
  <2>2. Cardinality(Below(idle, e) \cap Below(Parallel!Executors \ idle, e)) = 0
    BY <1>4, FS_EmptySet
  <2>3. Cardinality(Below(idle, e) \cup Below(Parallel!Executors \ idle, e)) = e
    BY <1>1, <1>5
  <2> QED BY <1>6, <2>1, <2>2, <2>3
<1> QED BY <1>1, <1>3, <1>6, <1>7

\* The executors that serve have as their numbers, counted from below, just the
\* numbers from 0 up, in their order.
LEMMA CountingNumbers ==
    ASSUME Dp \in Nat, NEW set \in SUBSET Parallel!Executors
    PROVE  /\ IsFiniteSet(set) /\ Cardinality(set) \in Nat
           /\ \A e, d \in set : e < d =>
                  Cardinality(Below(set, e)) < Cardinality(Below(set, d))
           /\ {Cardinality(Below(set, e)) : e \in set} = 0..(Cardinality(set) - 1)
<1> DEFINE f == [e \in set |-> Cardinality(Below(set, e))]
           numbers == 0..(Cardinality(set) - 1)
<1>1. set \subseteq Nat /\ IsFiniteSet(set) /\ Cardinality(set) \in Nat
  <2>1. IsFiniteSet(Parallel!Executors) BY FS_Interval DEF Parallel!Executors
  <2>2. IsFiniteSet(set) BY <2>1, FS_Subset
  <2>3. set \subseteq Nat BY DEF Parallel!Executors
  <2> QED BY <2>2, <2>3, FS_CardinalityType
<1>2. \A e \in set : Cardinality(Below(set, e)) \in Nat
  BY <1>1, BelowGrows
<1>3. \A e, d \in set : e < d => Cardinality(Below(set, e)) < Cardinality(Below(set, d))
  BY <1>1, BelowGrows
<1>4. ASSUME NEW e \in set PROVE f[e] \in numbers
  <2>1. Below(set, e) \in SUBSET set /\ e \notin Below(set, e) BY <1>1 DEF Below
  <2>2. /\ Cardinality(Below(set, e)) \leq Cardinality(set)
        /\ Cardinality(set) # Cardinality(Below(set, e))
    BY <1>1, <2>1, FS_Subset
  <2> QED BY <1>1, <1>2, <2>2
<1>5. f \in [set -> numbers] BY <1>4
<1>6. \A e, d \in set : f[e] = f[d] => e = d
  <2>1. \A e, d \in set : e < d => f[e] < f[d] BY <1>3
  <2>2. \A e, d \in set : e < d \/ d < e \/ e = d BY <1>1
  <2>3. \A e \in set : f[e] \in Nat BY <1>2
  <2> QED BY <2>1, <2>2, <2>3
<1>7. f \in Injection(set, numbers) BY <1>5, <1>6 DEF Injection, IsInjective
<1>8. IsFiniteSet(numbers) /\ Cardinality(numbers) = Cardinality(set)
  <2>1. Cardinality(set) - 1 \in Int BY <1>1
  <2>2. IsFiniteSet(numbers) /\ Cardinality(numbers) = IF 0 > Cardinality(set) - 1 THEN 0
                                           ELSE (Cardinality(set) - 1) - 0 + 1
    BY <2>1, FS_Interval
  <2> QED BY <1>1, <2>2
<1>9. f \in Surjection(set, numbers) BY <1>7, <1>8, FS_Injection
<1>10. \A n \in numbers : \E e \in set : f[e] = n BY <1>9 DEF Surjection
<1>11. {Cardinality(Below(set, e)) : e \in set} = numbers
  BY <1>4, <1>10
<1> QED BY <1>1, <1>3, <1>11

(***************************************************************************)
(* The invariant                                                           *)
(***************************************************************************)
\* A DEGRADE leaves the executors in idle without workers.
Means(s, idle) ==
    \A e \in Parallel!Executors :
        IF e \in idle THEN s.tp[e] = 0 /\ s.dp[e] = 0
                      ELSE s.tp[e] \in Nat \ {0} /\ s.dp[e] = Dp - Cardinality(idle)
Proper(s) == \/ s.type = "DEGRADE" /\ \E idle \in SUBSET Parallel!Executors : Means(s, idle)
             \/ s.type = "STOP"
             \/ s.type = "RECOVER" /\ \A e \in Parallel!Executors : s.tp[e] = Tp /\ s.dp[e] = Dp

IdleBelow(s, e) == {d \in Parallel!Executors : d < e /\ s.tp[d] = 0 /\ s.dp[d] = 0 /\ Dp > 1}

\* What an executor that has carried out the strategy is configured for.
Carried(s, e) ==
    /\ s.type = "DEGRADE" =>
         config[e] = [tp |-> s.tp[e], dp |-> s.dp[e],
                      rank |-> e - Cardinality(IdleBelow(s, e)),
                      world |-> IF s.dp[e] > 0 THEN s.tp[e] ELSE 0]
    /\ s.type = "STOP" => config[e].world = 0
    /\ s.type = "RECOVER" => config[e] = Parallel!Original(e)

\* The backup is the first configuration, and without a backup so is the
\* configuration: this is what makes the ranks of a DEGRADE count from the ranks
\* of the start, and a RECOVER come back to them.
ConfigInv ==
    /\ config = [e \in Parallel!Executors |-> config[e]]
    /\ backup = [e \in Parallel!Executors |-> backup[e]]
    /\ \A e \in Parallel!Executors : /\ "world" \in DOMAIN config[e]
                                     /\ backup[e] = None => config[e] = Parallel!Original(e)
                                     /\ backup[e] # None => backup[e] = Parallel!Original(e)
    /\ behind # {} => Proper(strategy)
    /\ strategy # None => /\ Proper(strategy)
                          /\ \A e \in Parallel!Executors \ behind : Carried(strategy, e)

(***************************************************************************)
(* The steps                                                               *)
(***************************************************************************)
\* What the decision center sends is proper.
LEMMA SendIsProper ==
    ASSUME ConfigInv, Dp \in Nat, \A e \in Parallel!Executors : IsFiniteSet(Npu[e]),
           BadLists \subseteq SUBSET Parallel!Cards, Parallel!Send
    PROVE  ConfigInv'
<1>1. /\ behind' = Parallel!Executors /\ strategy' \in Parallel!Offers /\ UNCHANGED <<config, backup>>
      /\ \A e \in Parallel!Executors : strategy'.type = "DEGRADE" /\ strategy'.dp[e] > 0
                                         => strategy'.tp[e] > 0
  BY DEF Parallel!Send
<1>2. Proper(strategy')
  <2>1. CASE \E bad \in SUBSET Parallel!Cards, idle \in SUBSET Parallel!Executors : strategy' = Parallel!Degraded(bad, idle)
    <3>1. PICK bad \in SUBSET Parallel!Cards, idle \in SUBSET Parallel!Executors : strategy' = Parallel!Degraded(bad, idle)
      BY <2>1
    <3>2. /\ strategy'.type = "DEGRADE"
          /\ \A e \in Parallel!Executors :
               /\ strategy'.tp[e] = IF e \in idle THEN 0 ELSE Cardinality(Npu[e] \ bad)
               /\ strategy'.dp[e] = IF e \in idle THEN 0 ELSE Dp - Cardinality(idle)
      BY <3>1, SameCounts DEF Parallel!Degraded
    <3>3. ASSUME NEW e \in Parallel!Executors \ idle
          PROVE  strategy'.tp[e] \in Nat \ {0} /\ strategy'.dp[e] = Dp - Cardinality(idle)
      <4>1. Npu[e] \ bad \in SUBSET Npu[e] OBVIOUS
      <4>2. Cardinality(Npu[e] \ bad) \in Nat BY <4>1, FS_Subset, FS_CardinalityType
      <4>3. Dp - Cardinality(idle) > 0
        <5>1. Dp - 1 \in Int OBVIOUS
        <5>2. IsFiniteSet(Parallel!Executors) /\ Cardinality(Parallel!Executors) = Dp
          BY <5>1, FS_Interval DEF Parallel!Executors
        <5>3. /\ IsFiniteSet(idle)
              /\ Cardinality(idle) \leq Cardinality(Parallel!Executors)
              /\ Cardinality(Parallel!Executors) # Cardinality(idle)
          BY <3>3, <5>2, FS_Subset
        <5>4. Cardinality(idle) \in Nat BY <5>3, FS_CardinalityType
        <5> QED BY <5>2, <5>3, <5>4
      <4>4. strategy'.tp[e] > 0 BY <1>1, <3>2, <3>3, <4>3
      <4> QED BY <3>2, <3>3, <4>2, <4>4
    <3>4. Means(strategy', idle)
      <4> SUFFICES ASSUME NEW e \in Parallel!Executors
                   PROVE  IF e \in idle
                            THEN strategy'.tp[e] = 0 /\ strategy'.dp[e] = 0
                            ELSE /\ strategy'.tp[e] \in Nat \ {0}
                                 /\ strategy'.dp[e] = Dp - Cardinality(idle)
        BY DEF Means
      <4> QED BY <3>2, <3>3
    <3> QED BY <3>2, <3>4 DEF Proper
  <2>2. CASE \/ \E bad \in BadLists : strategy' = Parallel!Whole("STOP", bad)
             \/ strategy' = Parallel!Whole("RECOVER", {})
    BY <2>2 DEF Parallel!Whole, Proper
  <2> QED BY <1>1, <2>1, <2>2 DEF Parallel!Offers
<1>3. \A e \in Parallel!Executors : backup'[e] = backup[e] /\ config'[e] = config[e]
  BY <1>1
<1> QED BY <1>1, <1>2, <1>3 DEF ConfigInv

\* An executor carries the strategy out: what it is configured for is counted
\* from its backup, which is the configuration of the start.
LEMMA CarryOutIsCarried ==
    ASSUME ConfigInv, NEW e \in Parallel!Executors, None # Parallel!Original(e),
           Parallel!CarryOut(e)
    PROVE  ConfigInv'
<1> DEFINE s == strategy
<1>1. e \in behind /\ behind' = behind \ {e} /\ strategy' = s /\ Proper(s)
  BY DEF Parallel!CarryOut, ConfigInv
<1>2. Parallel!Kept(e) = Parallel!Original(e)
  BY DEF Parallel!Kept, ConfigInv
<1>3. \/ config'[e] = config[e] /\ s.type = "RECOVER" /\ backup[e] # Parallel!Configured(s, e)
      \/ config'[e] = Parallel!Configured(s, e)
  BY DEF Parallel!CarryOut, ConfigInv
<1>4. s.type = "RECOVER" => Parallel!Configured(s, e) = Parallel!Original(e)
  BY <1>1 DEF Parallel!Configured, Parallel!Original, Proper
<1>5. s.type = "RECOVER" => config'[e] = Parallel!Original(e)
  BY <1>3, <1>4 DEF ConfigInv
<1>6. s.type = "STOP" => config'[e].world = 0 /\ "world" \in DOMAIN config'[e]
  <2> SUFFICES ASSUME s.type = "STOP"
               PROVE  config'[e].world = 0 /\ "world" \in DOMAIN config'[e]
    OBVIOUS
  <2>1. config'[e] = [config[e] EXCEPT !.tp = 0, !.dp = 0, !.world = 0]
    BY <1>3 DEF Parallel!Configured
  <2>2. "world" \in DOMAIN config[e] BY DEF ConfigInv
  <2> QED BY <2>1, <2>2
<1>7. s.type = "DEGRADE" =>
        config'[e] = [tp |-> s.tp[e], dp |-> s.dp[e],
                      rank |-> e - Cardinality(IdleBelow(s, e)),
                      world |-> IF s.dp[e] > 0 THEN s.tp[e] ELSE 0]
  <2>1. Parallel!Kept(e).rank = e BY <1>2 DEF Parallel!Original
  <2> QED BY <1>3, <2>1, SameCounts DEF Parallel!Configured, Parallel!RankAfter, IdleBelow
<1>8. Carried(s, e)' BY <1>1, <1>5, <1>6, <1>7 DEF Carried, IdleBelow, Parallel!Original
<1>9. "world" \in DOMAIN config'[e]
  BY <1>1, <1>5, <1>6, <1>7 DEF Proper, Parallel!Original
<1>10. /\ s.type # "RECOVER" => backup'[e] = Parallel!Original(e)
       /\ s.type = "RECOVER" => backup'[e] = backup[e]
  BY <1>2 DEF Parallel!CarryOut, ConfigInv
<1>11. /\ config' = [d \in Parallel!Executors |-> config'[d]]
       /\ backup' = [d \in Parallel!Executors |-> backup'[d]]
       /\ \A d \in Parallel!Executors \ {e} : config'[d] = config[d] /\ backup'[d] = backup[d]
  BY DEF Parallel!CarryOut, ConfigInv
<1>12. \A d \in Parallel!Executors : /\ "world" \in DOMAIN config'[d]
                                     /\ backup'[d] = None => config'[d] = Parallel!Original(d)
                                     /\ backup'[d] # None => backup'[d] = Parallel!Original(d)
  <2>1. ASSUME NEW d \in Parallel!Executors \ {e}
        PROVE  /\ "world" \in DOMAIN config'[d]
               /\ backup'[d] = None => config'[d] = Parallel!Original(d)
               /\ backup'[d] # None => backup'[d] = Parallel!Original(d)
    BY <1>11 DEF ConfigInv
  <2>2. backup'[e] # None => backup'[e] = Parallel!Original(e)
    BY <1>10 DEF ConfigInv
  <2>3. backup'[e] = None => config'[e] = Parallel!Original(e)
    BY <1>5, <1>10 DEF ConfigInv
  <2> QED BY <1>9, <2>1, <2>2, <2>3
<1>13. s # None => \A d \in Parallel!Executors \ behind' : Carried(s, d)'
  <2>1. ASSUME s # None, NEW d \in Parallel!Executors \ behind, d # e PROVE Carried(s, d)'
    <3>1. Carried(s, d) BY <2>1 DEF ConfigInv
    <3> QED BY <1>1, <1>11, <2>1, <3>1 DEF Carried, IdleBelow, Parallel!Original
  <2> QED BY <1>1, <1>8, <2>1
<1>14. Proper(strategy)' BY <1>1 DEF Proper, Means
<1> QED BY <1>1, <1>11, <1>12, <1>13, <1>14 DEF ConfigInv

(***************************************************************************)
(* What the invariant says when every executor is done                     *)
(***************************************************************************)

\* After a DEGRADE: those that serve are those not in idle, and the rank of each
\* is the number of those below it.
LEMMA DegradedIsOneGroup ==
    ASSUME Dp \in Nat, NEW s, NEW idle \in SUBSET Parallel!Executors, Means(s, idle),
           s.type = "DEGRADE", \A e \in Parallel!Executors : Carried(s, e)
    PROVE  /\ Parallel!Serving = Parallel!Executors \ idle
           /\ Parallel!Serving = {e \in Parallel!Executors : Parallel!Serves(s, e)}
           /\ {config[e].rank : e \in Parallel!Serving} = 0..(Cardinality(Parallel!Serving) - 1)
           /\ \A e, d \in Parallel!Serving : e < d => config[e].rank < config[d].rank
           /\ \A e \in Parallel!Serving : config[e].dp = Cardinality(Parallel!Serving)
<1>1. IsFiniteSet(Parallel!Executors) /\ Cardinality(Parallel!Executors) = Dp
  <2>1. Dp - 1 \in Int OBVIOUS
  <2> QED BY <2>1, FS_Interval DEF Parallel!Executors
<1>2. /\ IsFiniteSet(idle) /\ Cardinality(idle) \in Nat
      /\ Cardinality(Parallel!Executors \ idle) = Dp - Cardinality(idle)
      /\ Cardinality(Parallel!Executors \ idle) \in Nat
  <2>1. IsFiniteSet(idle) BY <1>1, FS_Subset
  <2>2. Parallel!Executors \cap idle = idle OBVIOUS
  <2>3. IsFiniteSet(Parallel!Executors \ idle) BY <1>1, FS_Difference
  <2> QED BY <1>1, <2>1, <2>2, <2>3, FS_Difference, FS_CardinalityType
<1>3. ASSUME NEW e \in idle
      PROVE  config[e].world = 0 /\ s.dp[e] = 0 /\ s.tp[e] = 0
  <2>1. e \in Parallel!Executors /\ s.dp[e] = 0 /\ s.tp[e] = 0 BY <1>3 DEF Means
  <2>2. ~ (s.dp[e] > 0) BY <2>1
  <2>3. config[e].world = IF s.dp[e] > 0 THEN s.tp[e] ELSE 0
    <3>1. Carried(s, e) BY <2>1
    <3> QED BY <3>1 DEF Carried
  <2> QED BY <2>1, <2>2, <2>3
<1>4. ASSUME NEW e \in Parallel!Executors \ idle
      PROVE  /\ s.tp[e] \in Nat \ {0}
             /\ s.dp[e] = Cardinality(Parallel!Executors \ idle) /\ s.dp[e] > 0
             /\ config[e].world > 0
             /\ config[e].dp = Cardinality(Parallel!Executors \ idle)
             /\ config[e].rank = Cardinality(Below(Parallel!Executors \ idle, e))
  <2>1. s.tp[e] \in Nat \ {0} /\ s.dp[e] = Cardinality(Parallel!Executors \ idle)
    BY <1>2, <1>4 DEF Means
  <2>2. Cardinality(Parallel!Executors \ idle) > 0
    <3>1. IsFiniteSet(Parallel!Executors \ idle) BY <1>1, FS_Difference
    <3>2. Cardinality(Parallel!Executors \ idle) # 0 BY <1>4, <3>1, FS_EmptySet
    <3> QED BY <1>2, <3>2
  <2>3. config[e] = [tp |-> s.tp[e], dp |-> s.dp[e],
                     rank |-> e - Cardinality(IdleBelow(s, e)), world |-> s.tp[e]]
    BY <2>1, <2>2 DEF Carried
  <2>4. IdleBelow(s, e) = Below(idle, e)
    <3>1. ASSUME NEW d \in Parallel!Executors, d < e PROVE Dp > 1
      BY <3>1 DEF Parallel!Executors
    <3>2. ASSUME NEW d \in Parallel!Executors
          PROVE  d < e /\ s.tp[d] = 0 /\ s.dp[d] = 0 /\ Dp > 1 <=> d \in idle /\ d < e
      BY <1>3, <3>1 DEF Means
    <3> QED BY <3>2 DEF IdleBelow, Below
  <2>5. e - Cardinality(Below(idle, e)) = Cardinality(Below(Parallel!Executors \ idle, e))
    BY BelowIsSplit
  <2> QED BY <2>1, <2>2, <2>3, <2>4, <2>5
<1>5. Parallel!Serving = Parallel!Executors \ idle
  BY <1>3, <1>4 DEF Parallel!Serving
<1>6. {e \in Parallel!Executors : Parallel!Serves(s, e)} = Parallel!Executors \ idle
  BY <1>3, <1>4 DEF Parallel!Serves
<1>7. {config[e].rank : e \in Parallel!Serving} = {Cardinality(Below(Parallel!Serving, e)) : e \in Parallel!Serving}
  BY <1>4, <1>5
<1>8. /\ {Cardinality(Below(Parallel!Serving, e)) : e \in Parallel!Serving} = 0..(Cardinality(Parallel!Serving) - 1)
      /\ \A e, d \in Parallel!Serving : e < d =>
             Cardinality(Below(Parallel!Serving, e)) < Cardinality(Below(Parallel!Serving, d))
  <2>1. Parallel!Serving \in SUBSET Parallel!Executors BY <1>5
  <2> QED BY <2>1, CountingNumbers
<1> QED BY <1>4, <1>5, <1>6, <1>7, <1>8

\* After a RECOVER every executor is configured as at the start.
LEMMA RecoveredIsOneGroup ==
    ASSUME Dp \in Nat, Tp \in Nat \ {0},
           \A e \in Parallel!Executors : config[e] = Parallel!Original(e)
    PROVE  /\ Parallel!Serving = Parallel!Executors
           /\ {config[e].rank : e \in Parallel!Serving} = 0..(Cardinality(Parallel!Serving) - 1)
           /\ \A e, d \in Parallel!Serving : e < d => config[e].rank < config[d].rank
           /\ \A e \in Parallel!Serving : config[e].dp = Cardinality(Parallel!Serving)
<1>1. Cardinality(Parallel!Executors) = Dp
  <2>1. Dp - 1 \in Int OBVIOUS
  <2> QED BY <2>1, FS_Interval DEF Parallel!Executors
<1>2. ASSUME NEW e \in Parallel!Executors
      PROVE  config[e].rank = e /\ config[e].dp = Dp /\ config[e].world = Tp
  <2>1. config[e] = Parallel!Original(e) OBVIOUS
  <2> QED BY <2>1 DEF Parallel!Original
<1>3. Parallel!Serving = Parallel!Executors BY <1>2 DEF Parallel!Serving
<1>4. {config[e].rank : e \in Parallel!Executors} = Parallel!Executors BY <1>2
<1> QED BY <1>1, <1>2, <1>3, <1>4 DEF Parallel!Executors

\* Every executor starts with the configuration of its deployment,
LEMMA ConfigStarts == Parallel!Init => ConfigInv
BY DEF Parallel!Init, ConfigInv, Parallel!Original

\* every strategy sent or carried out keeps ConfigInv,
LEMMA ConfigIsKept ==
    ASSUME Parallel!Deployment, ConfigInv, [Parallel!Next]_Parallel!vars
    PROVE  ConfigInv'
<1>1. ASSUME UNCHANGED Parallel!vars PROVE ConfigInv'
  <2>1. strategy' = strategy /\ behind' = behind /\ config' = config /\ backup' = backup
    BY <1>1 DEF Parallel!vars
  <2>2. Proper(strategy)' <=> Proper(strategy)
    BY <2>1 DEF Proper, Means
  <2>3. \A e \in Parallel!Executors : Carried(strategy, e)' <=> Carried(strategy, e)
    BY <2>1 DEF Carried, IdleBelow, Parallel!Original
  <2> QED BY <2>1, <2>2, <2>3 DEF ConfigInv, Parallel!Original
<1>2. /\ Dp \in Nat /\ BadLists \subseteq SUBSET Parallel!Cards
      /\ \A e \in Parallel!Executors : IsFiniteSet(Npu[e]) /\ None # Parallel!Original(e)
  BY SameCounts DEF Parallel!Deployment, Parallel!CardsAreNumbered, Parallel!NoneIsNone
<1> QED BY <1>1, <1>2, SendIsProper, CarryOutIsCarried DEF Parallel!Next

\* and an executor with nothing left to carry out is in one group with the others.
LEMMA ConfigIsOneGroup ==
    ASSUME Parallel!Deployment, ConfigInv
    PROVE  Parallel!ExecutorsFormOneGroup
<1> USE DEF Parallel!Deployment
<1> SUFFICES ASSUME strategy # None, behind = {}
             PROVE  /\ Parallel!Serving = {e \in Parallel!Executors : Parallel!Serves(strategy, e)}
                    /\ {config[e].rank : e \in Parallel!Serving} = 0..(Cardinality(Parallel!Serving) - 1)
                    /\ \A e, d \in Parallel!Serving : e < d => config[e].rank < config[d].rank
                    /\ \A e \in Parallel!Serving : config[e].dp = Cardinality(Parallel!Serving)
                    /\ strategy.type = "RECOVER"
                         => \A e \in Parallel!Executors : config[e] = Parallel!Original(e)
  BY SameCounts DEF Parallel!ExecutorsFormOneGroup
<1>1. Proper(strategy) /\ \A e \in Parallel!Executors : Carried(strategy, e)
  BY DEF ConfigInv
<1>2. CASE strategy.type = "DEGRADE"
  <2>1. PICK idle \in SUBSET Parallel!Executors : Means(strategy, idle)
    BY <1>1, <1>2 DEF Proper
  <2> QED BY <1>1, <1>2, <2>1, DegradedIsOneGroup
<1>3. CASE strategy.type = "STOP"
  <2>1. Parallel!Serving = {} BY <1>1, <1>3 DEF Parallel!Serving, Carried
  <2>2. {e \in Parallel!Executors : Parallel!Serves(strategy, e)} = {}
    BY <1>3 DEF Parallel!Serves
  <2>3. Cardinality(Parallel!Serving) = 0 BY <2>1, FS_EmptySet
  <2>4. 0..(0 - 1) = {} OBVIOUS
  <2> QED BY <1>3, <2>1, <2>2, <2>3, <2>4
<1>4. CASE strategy.type = "RECOVER"
  <2>1. \A e \in Parallel!Executors : config[e] = Parallel!Original(e)
    BY <1>1, <1>4 DEF Carried
  <2>2. {e \in Parallel!Executors : Parallel!Serves(strategy, e)} = Parallel!Executors
    BY <1>4 DEF Parallel!Serves
  <2> QED BY <2>1, <2>2, RecoveredIsOneGroup
<1> QED BY <1>1, <1>2, <1>3, <1>4 DEF Proper

(***************************************************************************)
(* The cards                                                               *)
(***************************************************************************)
\* A DEGRADE gives an executor as many ranks as it has healthy cards, or none.
Sized(s) == /\ s.type = "DEGRADE" =>
                 \A e \in Parallel!Executors : s.tp[e] = 0 \/ s.tp[e] = Cardinality(Npu[e] \ s.bad)
            /\ s.type = "RECOVER" => s.bad = {}
            /\ s.bad \in SUBSET Parallel!Cards

\* An executor sees the cards that were not reported as bad since the last
\* RECOVER, up to the ones that a RECOVER it has still to carry out gives back;
\* where cards are mounted one by one, all healthy ones, once it has carried the
\* strategy out; and of the others none, where it has healthy ones.
CardInv ==
    /\ visible = [e \in Parallel!Executors |-> visible[e]]
    /\ \A e \in Parallel!Executors :
         /\ visible[e] \in SUBSET Npu[e]
         /\ Npu[e] \ lost \subseteq visible[e] \/ (e \in behind /\ strategy.type = "RECOVER")
    /\ behind # {} => strategy # None
    /\ strategy # None =>
         /\ Sized(strategy)
         /\ strategy.bad \subseteq lost /\ (strategy.type = "RECOVER" => lost = {})
         /\ \A e \in Parallel!Executors \ behind :
              /\ Npu[e] \ strategy.bad # {} => visible[e] \cap strategy.bad = {}
              /\ mm => Npu[e] \ strategy.bad \subseteq visible[e]

\* Where texts are ordered as the numbers are, a container's cards are those meant.
LEMMA MeantIsItself ==
    ASSUME Parallel!CardsAreNumbered, NEW e \in Parallel!Executors, NEW npu \in Npu[e]
    PROVE  Parallel!Meant(e, npu) = npu
<1>1. Npu[e] \in SUBSET Nat /\ IsFiniteSet(Npu[e])
  BY SameCounts DEF Parallel!CardsAreNumbered
<1>2. {n \in Npu[e] : Parallel!Before(n, npu)} = Below(Npu[e], npu)
  BY DEF Parallel!CardsAreNumbered, Below
<1>3. \A m \in Npu[e] : {n \in Npu[e] : n < m} = Below(Npu[e], m) BY DEF Below
<1>4. \A m \in Npu[e] :
          Cardinality(Below(Npu[e], m)) = Cardinality(Below(Npu[e], npu)) => m = npu
  <2>1. \A m \in Npu[e] : m < npu \/ npu < m \/ m = npu BY <1>1
  <2>2. /\ \A m \in Npu[e] : Cardinality(Below(Npu[e], m)) \in Nat
        /\ \A m, n \in Npu[e] : m < n =>
               Cardinality(Below(Npu[e], m)) < Cardinality(Below(Npu[e], n))
    BY <1>1, BelowGrows
  <2> QED BY <2>1, <2>2
<1> QED BY <1>2, <1>3, <1>4, SameCounts DEF Parallel!Meant

\* Cards are numbered as their digits say, so what an executor sees are those it set.
LEMMA SeenAreThemselves ==
    ASSUME Parallel!CardsAreNumbered, NEW e \in Parallel!Executors,
           NEW npus \in SUBSET Npu[e]
    PROVE  Parallel!Seen(e, npus) = npus
<1>1. \A n \in npus : Parallel!Meant(e, n) = n BY MeantIsItself
<1> QED BY <1>1 DEF Parallel!Seen

\* Every executor starts with all of its cards,
LEMMA CardsStart == ASSUME Parallel!CardsAreNumbered, Parallel!Init PROVE CardInv
BY DEF Parallel!CardsAreNumbered, Parallel!Init, CardInv

\* is told of cards that are bad, and of others that no longer are,
LEMMA SendKeepsCards ==
    ASSUME Parallel!NoneIsNone, BadLists \subseteq SUBSET Parallel!Cards, CardInv,
           Parallel!Send
    PROVE  CardInv'
<1>1. /\ behind' = Parallel!Executors /\ strategy' \in Parallel!Offers
      /\ visible' = visible /\ behind = {}
      /\ lost' = IF strategy'.type = "RECOVER" THEN {} ELSE lost \cup strategy'.bad
  BY DEF Parallel!Send
<1>2. Sized(strategy') /\ strategy' # None
  <2>1. ASSUME NEW bad \in SUBSET Parallel!Cards, NEW idle \in SUBSET Parallel!Executors,
               strategy' = Parallel!Degraded(bad, idle)
        PROVE  Sized(strategy') /\ strategy' # None
    <3>1. /\ strategy'.type = "DEGRADE" /\ strategy'.bad = bad
          /\ \A e \in Parallel!Executors :
               strategy'.tp[e] = IF e \in idle THEN 0 ELSE Cardinality(Npu[e] \ bad)
      BY <2>1, SameCounts DEF Parallel!Degraded
    <3> QED BY <2>1, <3>1 DEF Sized, Parallel!NoneIsNone
  <2>2. ASSUME NEW bad \in SUBSET Parallel!Cards, strategy' = Parallel!Whole("STOP", bad)
        PROVE  Sized(strategy') /\ strategy' # None
    <3>1. strategy'.type = "STOP" /\ strategy'.bad = bad BY <2>2 DEF Parallel!Whole
    <3> QED BY <2>2, <3>1 DEF Sized, Parallel!NoneIsNone
  <2>3. CASE strategy' = Parallel!Whole("RECOVER", {})
    <3>1. strategy'.type = "RECOVER" /\ strategy'.bad = {} BY <2>3 DEF Parallel!Whole
    <3> QED BY <2>3, <3>1 DEF Sized, Parallel!NoneIsNone
  <2> QED BY <1>1, <2>1, <2>2, <2>3 DEF Parallel!Offers
<1>3. strategy'.bad \subseteq lost' /\ (strategy'.type = "RECOVER" => lost' = {})
  BY <1>1, <1>2 DEF Sized
<1>4. \A e \in Parallel!Executors :
          Npu[e] \ lost' \subseteq visible'[e] \/ (e \in behind' /\ strategy'.type = "RECOVER")
  BY <1>1 DEF CardInv
<1> QED BY <1>1, <1>2, <1>3, <1>4 DEF CardInv

\* sees those the strategy leaves it when it has carried it out,
LEMMA CarryOutKeepsCards ==
    ASSUME Parallel!CardsAreNumbered, CardInv, Proper(strategy),
           NEW e \in Parallel!Executors, Parallel!CarryOut(e)
    PROVE  CardInv'
<1> DEFINE s == strategy
<1>1. /\ e \in behind /\ behind' = behind \ {e} /\ strategy' = s /\ lost' = lost /\ mm' = mm
      /\ visible' = [visible EXCEPT ![e] = Parallel!Devices(s, e)]
  BY DEF Parallel!CarryOut
<1>2. /\ visible' = [d \in Parallel!Executors |-> visible'[d]] /\ visible'[e] = Parallel!Devices(s, e)
      /\ \A d \in Parallel!Executors \ {e} : visible'[d] = visible[d]
  BY <1>1 DEF CardInv
<1>3. s # None /\ Sized(s) /\ s.bad \subseteq lost
  BY <1>1 DEF CardInv
<1>4. /\ visible[e] \in SUBSET Npu[e] /\ Npu[e] \subseteq Parallel!Cards
      /\ s.type # "RECOVER" => Npu[e] \ lost \subseteq visible[e]
  BY <1>3 DEF CardInv, Parallel!Cards
<1>5. /\ Parallel!Devices(s, e) \in SUBSET Npu[e] /\ Npu[e] \ lost \subseteq Parallel!Devices(s, e)
      /\ Npu[e] \ s.bad # {} => Parallel!Devices(s, e) \cap s.bad = {}
      /\ mm => Npu[e] \ s.bad \subseteq Parallel!Devices(s, e)
  <2>1. CASE s.type = "RECOVER"
    <3>1. Parallel!Devices(s, e) = Npu[e] BY <2>1, SeenAreThemselves DEF Parallel!Devices
    <3>2. s.bad = {} BY <1>3, <2>1 DEF Sized
    <3> QED BY <3>1, <3>2
  <2>2. CASE s.type # "RECOVER" /\ mm
    <3>1. Parallel!Devices(s, e) = Parallel!Seen(e, Npu[e] \ s.bad)
      BY <2>2 DEF Parallel!Devices
    <3>2. Parallel!Devices(s, e) = Npu[e] \ s.bad BY <3>1, SeenAreThemselves
    <3> QED BY <1>3, <3>2
  <2>3. CASE s.type # "RECOVER" /\ ~mm
    <3>1. Parallel!Devices(s, e) = IF Parallel!Cards \subseteq s.bad THEN visible[e] ELSE visible[e] \ s.bad
      BY <2>3 DEF Parallel!Devices
    <3> QED BY <1>3, <1>4, <2>3, <3>1
  <2> QED BY <2>1, <2>2, <2>3
<1> QED BY <1>1, <1>2, <1>3, <1>5 DEF CardInv

\* and no step changes the cards otherwise.
LEMMA CardsAreKept ==
    ASSUME Parallel!CardsAreNumbered, Parallel!NoneIsNone,
           BadLists \subseteq SUBSET Parallel!Cards, ConfigInv, CardInv,
           [Parallel!Next]_Parallel!vars
    PROVE  CardInv'
<1>1. ASSUME UNCHANGED Parallel!vars PROVE CardInv'
  BY <1>1 DEF CardInv, Sized, Parallel!vars
<1>2. ASSUME NEW e \in Parallel!Executors, Parallel!CarryOut(e) PROVE CardInv'
  <2>1. Proper(strategy) BY <1>2 DEF Parallel!CarryOut, ConfigInv
  <2> QED BY <1>2, <2>1, CarryOutKeepsCards
<1> QED BY <1>1, <1>2, SendKeepsCards DEF Parallel!Next

\* Executors that serve have only healthy cards, and one for each of their ranks
\* unless a card was counted on again.
LEMMA CardsAreHealthy ==
    ASSUME Parallel!Deployment, ConfigInv, CardInv
    PROVE  Parallel!WorkersUseHealthyCards
<1> USE DEF Parallel!Deployment
<1> SUFFICES ASSUME strategy # None, behind = {}, NEW e \in Parallel!Serving
             PROVE  /\ visible[e] \cap strategy.bad = {}
                    /\ mm \/ lost \subseteq strategy.bad => Cardinality(visible[e]) \geq config[e].tp
  BY SameCounts DEF Parallel!WorkersUseHealthyCards
<1>1. /\ e \in Parallel!Executors /\ config[e].world > 0 /\ Proper(strategy) /\ Carried(strategy, e)
      /\ Sized(strategy)
      /\ mm \/ lost \subseteq strategy.bad => Npu[e] \ strategy.bad \subseteq visible[e]
      /\ Npu[e] \ strategy.bad # {} => visible[e] \cap strategy.bad = {}
  <2>1. e \in Parallel!Executors \ behind BY DEF Parallel!Serving
  <2>2. Npu[e] \ lost \subseteq visible[e] /\ strategy.bad \subseteq lost BY <2>1 DEF CardInv
  <2> QED BY <2>1, <2>2 DEF Parallel!Serving, ConfigInv, CardInv
<1>2. IsFiniteSet(visible[e]) /\ IsFiniteSet(Npu[e])
  BY <1>1, SameCounts, FS_Subset DEF Parallel!CardsAreNumbered, CardInv
<1>3. CASE strategy.type = "DEGRADE"
  <2>1. PICK idle \in SUBSET Parallel!Executors : Means(strategy, idle)
    BY <1>1, <1>3 DEF Proper
  <2>2. config[e].tp = strategy.tp[e] /\ strategy.tp[e] > 0
    <3>1. config[e] = [tp |-> strategy.tp[e], dp |-> strategy.dp[e],
                       rank |-> e - Cardinality(IdleBelow(strategy, e)),
                       world |-> IF strategy.dp[e] > 0 THEN strategy.tp[e] ELSE 0]
      BY <1>1, <1>3 DEF Carried
    <3>2. config[e].world = IF strategy.dp[e] > 0 THEN strategy.tp[e] ELSE 0 BY <3>1
    <3> QED BY <1>1, <3>1, <3>2
  <2>3. Cardinality(Npu[e] \ strategy.bad) = strategy.tp[e]
    BY <1>1, <1>3, <2>2 DEF Sized
  <2>4. Npu[e] \ strategy.bad # {}
    <3>1. Cardinality(Npu[e] \ strategy.bad) # 0 BY <2>2, <2>3
    <3>2. Cardinality({}) = 0 BY FS_EmptySet
    <3> QED BY <3>1, <3>2
  <2>5. /\ Cardinality(visible[e]) \in Nat /\ Cardinality(Npu[e] \ strategy.bad) \in Nat
    BY <1>1, <1>2, FS_CardinalityType, FS_Subset
  <2>6. Npu[e] \ strategy.bad \subseteq visible[e]
          => Cardinality(Npu[e] \ strategy.bad) \leq Cardinality(visible[e])
    BY <1>2, FS_Subset
  <2> QED BY <1>1, <2>2, <2>3, <2>4, <2>5, <2>6
<1>4. CASE strategy.type = "RECOVER"
  <2>1. config[e].tp = Tp /\ strategy.bad = {}
    BY <1>1, <1>4 DEF Carried, Parallel!Original, Sized
  <2>2. lost = {} BY <1>4 DEF CardInv
  <2>3. visible[e] = Npu[e] BY <1>1, <2>1, <2>2 DEF CardInv
  <2> QED BY <1>1, <2>1, <2>3, SameCounts
<1>5. strategy.type # "STOP" BY <1>1 DEF Carried
<1> QED BY <1>1, <1>3, <1>4, <1>5 DEF Proper

ParallelInv == topic = "parallel" => ConfigInv /\ CardInv

\* After any sequence of strategies, each carried out by every executor before
\* the next, those the last one means serve, hold the ranks from 0 up in the
\* order they had at the start, agree on their number and use healthy cards
\* only, and a recovery brings the start back.  Cards may fail and heal in any
\* order; while none is counted on again that was reported as bad since the last
\* RECOVER, or where cards are mounted one by one, each worker has a card.
THEOREM OneGroupOnHealthyCards == Spec => []ExecutorsFormOneGroup
<1>1. Init => ParallelInv
  BY ParallelAssumption, ConfigStarts, CardsStart
     DEF Init, ParallelInv, Parallel!Deployment
<1>2. ParallelInv /\ [Next]_vars => ParallelInv'
  <2> SUFFICES ASSUME ParallelInv, [Next]_vars, topic' = "parallel"
               PROVE  ConfigInv' /\ CardInv'
    BY DEF ParallelInv
  <2>1. topic = "parallel" /\ ConfigInv /\ CardInv
    BY DEF ParallelInv, Next, vars
  <2>2. [Parallel!Next]_Parallel!vars
    BY <2>1 DEF Next, vars, Parallel!vars, parallelVars
  <2>3. Parallel!CardsAreNumbered /\ Parallel!NoneIsNone /\ BadLists \subseteq SUBSET Parallel!Cards
    BY ParallelAssumption DEF Parallel!Deployment
  <2> QED BY <2>1, <2>2, <2>3, ParallelAssumption,
             ConfigIsKept, CardsAreKept
<1>3. ParallelInv => ExecutorsFormOneGroup
  BY ParallelAssumption, ConfigIsOneGroup, CardsAreHealthy
     DEF ParallelInv, ExecutorsFormOneGroup
<1> QED BY <1>1, <1>2, <1>3, PTL DEF Spec

(***************************************************************************)
(* LayerwiseProxy                                                          *)
(***************************************************************************)
Places == {"new", "ready", "open", "stream", "done", "gone"}
PlacesFit == /\ pc \in [Requests -> Places]
             /\ base \in [Requests -> Nat] /\ at \in [Requests -> Nat]
             /\ completion \in [Requests -> Nat] /\ retries \in [Requests -> Nat]
             /\ limit \in [Requests -> Int]
             /\ generated \in [Requests -> Seq(Nat)]
             /\ received \in [Requests -> Seq(Nat)]

\* The first n tokens.
Whole(n) == [i \in 1..n |-> i]

\* A request that streams: the client has what the proxy recorded, n tokens.
\* completion_tokens counts at least these and the event without text of each
\* recomputation, which retry_count takes off again, so that the limit of the
\* request as it is posted is no more than the tokens in its prompt leave.  The
\* decoder is where the text is, and while there is no stream the prompt holds
\* all of the text.
StreamHolds(r, n) ==
    /\ generated[r] = Whole(n) /\ received[r] = Whole(n)
    /\ base[r] \leq n
    /\ r \notin packed => /\ n \leq MaxTokens
                          /\ completion[r] \geq n + retries[r]
                          /\ limit[r] \leq MaxTokens - base[r]
    /\ pc[r] = "stream" => at[r] = n
    /\ pc[r] \in {"new", "ready", "open"} => base[r] = n

\* A request that does not stream: the usage of its bodies counts the n tokens
\* recorded; the client has nothing until one body is passed on, which has all.
BodyHolds(r, n) ==
    /\ generated[r] = Whole(n) /\ completion[r] = n
    /\ limit[r] = MaxTokens - base[r] + retries[r]
    /\ retries[r] = 0 => base[r] = 0
    /\ \/ received[r] = <<>> /\ base[r] = n /\ (pc[r] = "stream" => at[r] = n)
       \/ /\ received[r] = Whole(n) /\ n \leq MaxTokens + retries[r]
          /\ pc[r] \in {"stream", "done"} /\ (pc[r] = "stream" => at[r] > base[r])

\* The requests that AnswersAreWhole speaks of.
Sound(r) == r \notin torn /\ r \notin blurred /\ (Layerwise!Chats(r) => retries[r] = 0)
Holds(r, n) == IF Layerwise!Streams(r) THEN StreamHolds(r, n) ELSE BodyHolds(r, n)
TextInv == PlacesFit /\ \A r \in Requests : Sound(r) => \E n \in Nat : Holds(r, n)

(***************************************************************************)
(* Lemmas                                                                  *)
(***************************************************************************)

\* The first n tokens are n tokens, and the next k behind them make n + k.
LEMMA TextIs ==
    ASSUME NEW n \in Nat
    PROVE  Whole(n) \in Seq(Nat) /\ Len(Whole(n)) = n
<1>1. \A i \in 1..n : i \in Nat OBVIOUS
<1>2. Whole(n) \in [1..n -> Nat] BY <1>1 DEF Whole
<1> QED BY <1>2 DEF Whole

LEMMA TextGrows ==
    ASSUME NEW n \in Nat, NEW k \in Nat, NEW r, at[r] = n
    PROVE  /\ Layerwise!Tokens(r, k) \in Seq(Nat)
           /\ Whole(n) \o Layerwise!Tokens(r, k) = Whole(n + k)
<1> DEFINE more == Layerwise!Tokens(r, k)
           total == n + k
<1>1. more = [i \in 1..k |-> n + i]
  BY DEF Layerwise!Tokens
<1>2. more \in Seq(Nat) /\ Len(more) = k
  <2>1. \A i \in 1..k : n + i \in Nat OBVIOUS
  <2>2. more \in [1..k -> Nat] BY <1>1, <2>1
  <2> QED BY <1>1, <2>2
<1>3. Whole(n) \in Seq(Nat) /\ Len(Whole(n)) = n BY TextIs
<1>4. Whole(total) \in Seq(Nat) /\ Len(Whole(total)) = total
  <2>1. total \in Nat OBVIOUS
  <2> HIDE DEF total
  <2> QED BY <2>1, TextIs
<1>5. /\ Whole(n) \o more \in Seq(Nat)
      /\ Len(Whole(n) \o more) = n + k
      /\ \A i \in 1..(n + k) :
             (Whole(n) \o more)[i] = IF i \leq n THEN Whole(n)[i] ELSE more[i - n]
  <2> DEFINE front == Whole(n)
  <2> HIDE DEF more, front
  <2>1. front \in Seq(Nat) /\ Len(front) = n BY <1>3 DEF front
  <2>2. /\ front \o more \in Seq(Nat)
        /\ Len(front \o more) = Len(front) + Len(more)
        /\ \A i \in 1..(Len(front) + Len(more)) :
               (front \o more)[i] = IF i \leq Len(front) THEN front[i] ELSE more[i - Len(front)]
    BY <1>2, <2>1, ConcatProperties
  <2>3. /\ front \o more \in Seq(Nat) /\ Len(front \o more) = n + k
        /\ \A i \in 1..(n + k) : (front \o more)[i] = IF i \leq n THEN front[i] ELSE more[i - n]
    BY <1>2, <2>1, <2>2
  <2> QED BY <2>3 DEF front
<1>6. ASSUME NEW i \in 1..total PROVE (Whole(n) \o more)[i] = Whole(total)[i]
  <2>1. CASE i \leq n BY <1>5, <2>1 DEF Whole
  <2>2. CASE ~ (i \leq n)
    <3>1. i - n \in 1..k BY <2>2
    <3>2. more[i - n] = n + (i - n)
      <4> HIDE DEF more
      <4> QED BY <1>1, <3>1
    <3> HIDE DEF more
    <3> QED BY <1>5, <2>2, <3>2 DEF Whole
  <2> QED BY <2>1, <2>2
<1>7. Whole(n) \o more = Whole(total)
  <2> HIDE DEF more
  <2>1. Len(Whole(n) \o more) = total BY <1>5
  <2>2. \A i \in 1..total : (Whole(n) \o more)[i] = Whole(total)[i] BY <1>6
  <2> HIDE DEF total
  <2> QED BY <1>4, <1>5, <2>1, <2>2, SeqEqual
<1> QED BY <1>2, <1>7

\* A request of which nothing moved holds what it held.
LEMMA HoldingStays ==
    ASSUME NEW r \in Requests, NEW n \in Nat, Holds(r, n), mode' = mode,
           r \in packed' <=> r \in packed,
           generated'[r] = generated[r], received'[r] = received[r],
           completion'[r] = completion[r], retries'[r] = retries[r],
           limit'[r] = limit[r], base'[r] = base[r], at'[r] = at[r],
           \/ pc'[r] = pc[r]
           \/ pc'[r] = "done"
           \/ pc[r] = "new" /\ pc'[r] = "ready"
           \/ pc[r] = "ready" /\ pc'[r] \in {"open", "gone"}
    PROVE  Holds(r, n)'
<1>1. Layerwise!Streams(r)' <=> Layerwise!Streams(r) BY DEF Layerwise!Streams
<1>2. CASE Layerwise!Streams(r)
  BY <1>1, <1>2 DEF Holds, StreamHolds
<1>3. CASE ~Layerwise!Streams(r)
  BY <1>1, <1>3 DEF Holds, BodyHolds
<1> QED BY <1>2, <1>3

\* Only request r moves, and what it holds afterwards is given.
LEMMA OneRequestMoves ==
    ASSUME TextInv, PlacesFit', NEW r \in Requests, mode' = mode,
           torn \subseteq torn', blurred \subseteq blurred',
           \A q \in Requests \ {r} :
               /\ generated'[q] = generated[q] /\ received'[q] = received[q]
               /\ completion'[q] = completion[q] /\ retries'[q] = retries[q]
               /\ limit'[q] = limit[q] /\ base'[q] = base[q]
               /\ at'[q] = at[q] /\ pc'[q] = pc[q]
               /\ q \in packed' <=> q \in packed,
           Sound(r)' => \E n \in Nat : Holds(r, n)'
    PROVE  TextInv'
<1>1. ASSUME NEW q \in Requests, Sound(q)', q # r
      PROVE  \E n \in Nat : Holds(q, n)'
  <2>1. Sound(q) BY <1>1 DEF Sound, Layerwise!Chats
  <2>2. PICK n \in Nat : Holds(q, n) BY <2>1 DEF TextInv
  <2>3. Holds(q, n)' BY <1>1, <2>2, HoldingStays
  <2> QED BY <2>3
<1> QED BY <1>1 DEF TextInv

\* Requests that arrive, start, leave or end keep their text.
LEMMA PlacesKeepText ==
    ASSUME TextInv, NEW r \in Requests, NEW place \in Places,
           pc' = [pc EXCEPT ![r] = place],
           \/ place = "done"
           \/ pc[r] = "new" /\ place = "ready"
           \/ pc[r] = "ready" /\ place \in {"open", "gone"},
           UNCHANGED <<mode, base, limit, at, generated, received, completion, retries,
                       torn, blurred, packed>>
    PROVE  TextInv'
<1>1. PlacesFit' BY DEF TextInv, PlacesFit
<1>2. pc'[r] = place /\ \A q \in Requests \ {r} : pc'[q] = pc[q]
  BY DEF TextInv, PlacesFit
<1>3. ASSUME Sound(r)' PROVE \E n \in Nat : Holds(r, n)'
  <2>1. Sound(r) BY <1>3 DEF Sound, Layerwise!Chats
  <2>2. PICK n \in Nat : Holds(r, n) BY <2>1 DEF TextInv
  <2>3. Holds(r, n)' BY <1>2, <2>2, HoldingStays
  <2> QED BY <2>3
<1> QED BY <1>1, <1>2, <1>3, OneRequestMoves

(***************************************************************************)
(* The steps                                                               *)
(***************************************************************************)

\* The decoder begins where the prompt ends, which is where the text ends.
LEMMA PostedKeepsText ==
    ASSUME TextInv, NEW r \in Requests, Layerwise!Posted(r)
    PROVE  TextInv'
<1>1. /\ pc[r] = "open" /\ pc' = [pc EXCEPT ![r] = "stream"]
      /\ at' = [at EXCEPT ![r] = base[r]]
      /\ UNCHANGED <<mode, base, limit, generated, received, completion, retries>>
      /\ UNCHANGED <<torn, blurred, packed>>
  BY DEF Layerwise!Posted, Layerwise!Moves, Layerwise!counters, Layerwise!ghosts
<1>2. PlacesFit' BY <1>1 DEF TextInv, PlacesFit, Places
<1>3. /\ pc'[r] = "stream" /\ at'[r] = base[r]
      /\ \A q \in Requests \ {r} : pc'[q] = pc[q] /\ at'[q] = at[q]
  BY <1>1 DEF TextInv, PlacesFit
<1>4. ASSUME Sound(r)' PROVE \E n \in Nat : Holds(r, n)'
  <2>1. Sound(r) BY <1>1, <1>4 DEF Sound, Layerwise!Chats
  <2>2. PICK n \in Nat : Holds(r, n) BY <2>1 DEF TextInv
  <2>3. Layerwise!Streams(r)' <=> Layerwise!Streams(r) BY <1>1 DEF Layerwise!Streams
  <2>4. CASE Layerwise!Streams(r)
    <3>1. StreamHolds(r, n)' BY <1>1, <1>3, <2>2, <2>4 DEF Holds, StreamHolds
    <3> QED BY <2>3, <2>4, <3>1 DEF Holds
  <2>5. CASE ~Layerwise!Streams(r)
    <3>1. BodyHolds(r, n)' BY <1>1, <1>3, <2>2, <2>5 DEF Holds, BodyHolds
    <3> QED BY <2>3, <2>5, <3>1 DEF Holds
  <2> QED BY <2>4, <2>5
<1> QED BY <1>1, <1>2, <1>3, <1>4, OneRequestMoves

\* The next tokens are those after the text, and the limit leaves room for them.
LEMMA EventKeepsText ==
    ASSUME TextInv, MaxTokens \in Nat, NEW r \in Requests, Bound[r].tokens \in Nat,
           Layerwise!Event(r)
    PROVE  TextInv'
<1>1. PICK n \in 0..Bound[r].tokens, whole \in BOOLEAN :
         /\ Layerwise!Room(r, n) /\ Layerwise!Made(r, n)
         /\ generated' = [generated EXCEPT ![r] = @ \o Layerwise!Tokens(r, n)]
         /\ received' = [received EXCEPT ![r] = @ \o Layerwise!Tokens(r, n)]
         /\ blurred' = IF whole THEN blurred ELSE blurred \cup {r}
         /\ packed' = IF n > 1 THEN packed \cup {r} ELSE packed
  BY Zenon DEF Layerwise!Event
<1>2. /\ pc[r] = "stream" /\ Layerwise!Streams(r)
      /\ completion' = [completion EXCEPT ![r] = @ + 1]
      /\ UNCHANGED <<pc, mode, base, limit, retries, torn>>
  BY DEF Layerwise!Event
<1>3. n \in Nat /\ at[r] + n - base[r] \leq limit[r] /\ at' = [at EXCEPT ![r] = at[r] + n]
  BY <1>1 DEF Layerwise!Room, Layerwise!Made, TextInv, PlacesFit
<1> DEFINE more == Layerwise!Tokens(r, n)
<1>4. at[r] + n \in Nat /\ completion[r] + 1 \in Nat /\ at[r] \in Nat
  BY <1>3 DEF TextInv, PlacesFit
<1>5. more \in Seq(Nat) BY <1>3, <1>4, TextGrows
<1>6. /\ generated' = [generated EXCEPT ![r] = generated[r] \o more]
      /\ received' = [received EXCEPT ![r] = received[r] \o more]
  BY <1>1
<1> HIDE DEF more
<1>7. generated[r] \o more \in Seq(Nat) /\ received[r] \o more \in Seq(Nat)
  <2>1. generated[r] \in Seq(Nat) /\ received[r] \in Seq(Nat) BY DEF TextInv, PlacesFit
  <2> QED BY <1>5, <2>1, ConcatProperties
<1>8. PlacesFit'
  <2>1. at' \in [Requests -> Nat] BY <1>3, <1>4 DEF TextInv, PlacesFit
  <2>2. completion' \in [Requests -> Nat] BY <1>2, <1>4 DEF TextInv, PlacesFit
  <2>3. generated' \in [Requests -> Seq(Nat)] /\ received' \in [Requests -> Seq(Nat)]
    BY <1>6, <1>7 DEF TextInv, PlacesFit
  <2> QED BY <1>2, <2>1, <2>2, <2>3 DEF TextInv, PlacesFit
<1>9. /\ at'[r] = at[r] + n /\ completion'[r] = completion[r] + 1
      /\ generated'[r] = generated[r] \o more /\ received'[r] = received[r] \o more
      /\ \A q \in Requests \ {r} :
             /\ at'[q] = at[q] /\ completion'[q] = completion[q]
             /\ generated'[q] = generated[q] /\ received'[q] = received[q]
  BY <1>2, <1>3, <1>6 DEF TextInv, PlacesFit
<1>10. ASSUME Sound(r)' PROVE \E m \in Nat : Holds(r, m)'
  <2>1. Sound(r) BY <1>1, <1>2, <1>10 DEF Sound, Layerwise!Chats
  <2>2. PICK m \in Nat : Holds(r, m) BY <2>1 DEF TextInv
  <2>3. StreamHolds(r, m) BY <1>2, <2>2 DEF Holds
  <2>4. at[r] = m /\ generated[r] = Whole(m) /\ received[r] = Whole(m)
    BY <1>2, <2>3 DEF StreamHolds
  <2>5. Whole(m) \o more = Whole(m + n) BY <1>3, <2>4, TextGrows DEF more
  <2>6. generated'[r] = Whole(m + n) /\ received'[r] = Whole(m + n) /\ at'[r] = m + n
    BY <1>9, <2>4, <2>5
  <2>7. base[r] \in Nat /\ retries[r] \in Nat /\ completion[r] \in Nat /\ limit[r] \in Int
    BY DEF TextInv, PlacesFit
  <2>8. ASSUME r \notin packed'
        PROVE  /\ m + n \leq MaxTokens
               /\ completion'[r] \geq (m + n) + retries[r]
               /\ limit[r] \leq MaxTokens - base[r]
    <3>1. r \notin packed /\ n \leq 1 BY <1>1, <1>3, <2>8
    <3>2. completion[r] \geq m + retries[r] /\ limit[r] \leq MaxTokens - base[r]
      BY <2>3, <3>1 DEF StreamHolds
    <3>3. m + n \leq MaxTokens
      <4>1. m + n - base[r] \leq limit[r] BY <1>3, <2>4
      <4> QED BY <1>3, <2>7, <3>2, <4>1
    <3>4. completion'[r] \geq (m + n) + retries[r]
      <4>1. completion'[r] = completion[r] + 1 BY <1>9
      <4> QED BY <1>3, <2>7, <3>1, <3>2, <4>1
    <3> QED BY <3>2, <3>3, <3>4
  <2>9. base[r] \leq m + n BY <1>3, <2>3, <2>7 DEF StreamHolds
  <2>10. StreamHolds(r, m + n)' BY <1>2, <2>6, <2>8, <2>9 DEF StreamHolds
  <2>11. Holds(r, m + n)' BY <1>2, <2>10 DEF Holds, Layerwise!Streams
  <2>12. m + n \in Nat BY <1>3
  <2> QED BY <2>11, <2>12
<1>11. torn' = torn /\ blurred \subseteq blurred'
       /\ \A q \in Requests \ {r} : q \in packed' <=> q \in packed
  BY <1>1, <1>2
<1> QED BY <1>2, <1>8, <1>9, <1>10, <1>11, OneRequestMoves

\* A chunk that nobody looks into takes the request out of the claim.
LEMMA UnreadKeepsText ==
    ASSUME TextInv, NEW r \in Requests, Bound[r].tokens \in Nat, Layerwise!Unread(r)
    PROVE  TextInv'
<1>1. PICK n \in 1..Bound[r].tokens :
         /\ Layerwise!Made(r, n)
         /\ received' = [received EXCEPT ![r] = @ \o Layerwise!Tokens(r, n)]
  BY Zenon DEF Layerwise!Unread
<1>2. /\ blurred' = blurred \cup {r}
      /\ UNCHANGED <<pc, mode, base, limit, generated, completion, retries, torn, packed>>
  BY DEF Layerwise!Unread
<1>3. n \in Nat /\ at' = [at EXCEPT ![r] = at[r] + n]
  BY <1>1 DEF Layerwise!Made, TextInv, PlacesFit
<1> DEFINE more == Layerwise!Tokens(r, n)
<1>4. at[r] + n \in Nat /\ at[r] \in Nat BY <1>3 DEF TextInv, PlacesFit
<1>5. more \in Seq(Nat) BY <1>3, <1>4, TextGrows
<1>6. received' = [received EXCEPT ![r] = received[r] \o more] BY <1>1
<1> HIDE DEF more
<1>7. received[r] \o more \in Seq(Nat)
  <2>1. received[r] \in Seq(Nat) BY DEF TextInv, PlacesFit
  <2> QED BY <1>5, <2>1, ConcatProperties
<1>8. PlacesFit'
  <2>1. at' \in [Requests -> Nat] BY <1>3, <1>4 DEF TextInv, PlacesFit
  <2>2. received' \in [Requests -> Seq(Nat)] BY <1>6, <1>7 DEF TextInv, PlacesFit
  <2> QED BY <1>2, <2>1, <2>2 DEF TextInv, PlacesFit
<1>9. \A q \in Requests \ {r} : at'[q] = at[q] /\ received'[q] = received[q]
  BY <1>3, <1>6 DEF TextInv, PlacesFit
<1>10. ~Sound(r)' BY <1>2 DEF Sound
<1> QED BY <1>2, <1>8, <1>9, <1>10, OneRequestMoves

\* The one body that is passed on holds all of the text.
LEMMA BodyKeepsText ==
    ASSUME TextInv, MaxTokens \in Nat, NEW r \in Requests, Layerwise!Body(r)
    PROVE  TextInv'
<1>1. PICK n \in 1..limit[r] :
         /\ Layerwise!Made(r, n)
         /\ generated' = [generated EXCEPT ![r] = @ \o Layerwise!Tokens(r, n)]
         /\ received' = [received EXCEPT ![r] = @ \o
                IF retries[r] > 0 THEN generated'[r] ELSE Layerwise!Tokens(r, n)]
         /\ completion' = [completion EXCEPT ![r] = @ + n]
  BY Zenon DEF Layerwise!Body
<1>2. /\ pc[r] = "stream" /\ ~Layerwise!Streams(r) /\ at[r] = base[r]
      /\ UNCHANGED <<pc, mode, base, limit, retries, torn, blurred, packed>>
  BY DEF Layerwise!Body, Layerwise!ghosts
<1>3. n \in Nat /\ n \geq 1 /\ n \leq limit[r] /\ at' = [at EXCEPT ![r] = at[r] + n]
  BY <1>1 DEF Layerwise!Made, TextInv, PlacesFit
<1> DEFINE more == Layerwise!Tokens(r, n)
           all == generated[r] \o more
           passed == received[r] \o IF retries[r] > 0 THEN all ELSE more
<1>4. at[r] + n \in Nat /\ completion[r] + n \in Nat /\ at[r] \in Nat
  BY <1>3 DEF TextInv, PlacesFit
<1>5. more \in Seq(Nat) BY <1>3, <1>4, TextGrows
<1>6. generated' = [generated EXCEPT ![r] = all] /\ generated'[r] = all
  BY <1>1 DEF TextInv, PlacesFit
<1>7. received' = [received EXCEPT ![r] = passed]
  <2> HIDE DEF more, all
  <2> QED BY <1>1, <1>6 DEF more
<1> HIDE DEF more
<1>8. all \in Seq(Nat)
  <2>1. generated[r] \in Seq(Nat) BY DEF TextInv, PlacesFit
  <2> QED BY <1>5, <2>1, ConcatProperties
<1>9. passed \in Seq(Nat)
  <2>1. received[r] \in Seq(Nat) BY DEF TextInv, PlacesFit
  <2> HIDE DEF all
  <2> QED BY <1>5, <1>8, <2>1, ConcatProperties
<1> HIDE DEF all, passed
<1>10. PlacesFit'
  <2>1. at' \in [Requests -> Nat] BY <1>3, <1>4 DEF TextInv, PlacesFit
  <2>2. completion' \in [Requests -> Nat] BY <1>1, <1>4 DEF TextInv, PlacesFit
  <2>3. generated' \in [Requests -> Seq(Nat)] /\ received' \in [Requests -> Seq(Nat)]
    BY <1>6, <1>7, <1>8, <1>9 DEF TextInv, PlacesFit
  <2> QED BY <1>2, <2>1, <2>2, <2>3 DEF TextInv, PlacesFit
<1>11. /\ at'[r] = at[r] + n /\ completion'[r] = completion[r] + n
       /\ generated'[r] = all /\ received'[r] = passed
       /\ \A q \in Requests \ {r} :
              /\ at'[q] = at[q] /\ completion'[q] = completion[q]
              /\ generated'[q] = generated[q] /\ received'[q] = received[q]
  BY <1>1, <1>3, <1>6, <1>7 DEF TextInv, PlacesFit
<1>12. ASSUME Sound(r)' PROVE \E m \in Nat : Holds(r, m)'
  <2>1. Sound(r) BY <1>2, <1>12 DEF Sound, Layerwise!Chats
  <2>2. PICK m \in Nat : Holds(r, m) BY <2>1 DEF TextInv
  <2>3. BodyHolds(r, m) BY <1>2, <2>2 DEF Holds
  <2>4. base[r] \in Nat /\ retries[r] \in Nat BY DEF TextInv, PlacesFit
  <2>5. /\ received[r] = <<>> /\ base[r] = m /\ at[r] = m
        /\ generated[r] = Whole(m) /\ completion[r] = m
    BY <1>2, <2>3, <2>4 DEF BodyHolds
  <2>6. all = Whole(m + n) BY <1>3, <2>5, TextGrows DEF all, more
  <2>7. passed = Whole(m + n)
    <3>1. CASE retries[r] > 0
      <4>1. passed = <<>> \o all BY <2>5, <3>1 DEF passed
      <4> QED BY <1>8, <2>6, <4>1, ConcatEmptySeq
    <3>2. CASE ~ (retries[r] > 0)
      <4>1. retries[r] = 0 BY <2>4, <3>2
      <4>2. m = 0 BY <2>3, <2>5, <4>1 DEF BodyHolds
      <4>3. generated[r] = <<>>
        <5>1. Whole(m) \in Seq(Nat) /\ Len(Whole(m)) = 0 BY <4>2, TextIs
        <5> QED BY <2>5, <5>1, EmptySeq
      <4>4. passed = <<>> \o more /\ all = <<>> \o more
        BY <2>5, <3>2, <4>3 DEF passed, all
      <4> QED BY <2>6, <4>4
    <3> QED BY <3>1, <3>2
  <2>8. /\ limit[r] = MaxTokens - base[r] + retries[r]
        /\ retries[r] = 0 => base[r] = 0
    BY <2>3 DEF BodyHolds
  <2>9. m + n \leq MaxTokens + retries[r] /\ at'[r] > base[r] /\ completion'[r] = m + n
    BY <1>3, <1>11, <2>4, <2>5, <2>8
  <2>10. BodyHolds(r, m + n)'
    BY <1>2, <1>11, <2>6, <2>7, <2>8, <2>9 DEF BodyHolds
  <2>11. Holds(r, m + n)' BY <1>2, <2>10 DEF Holds, Layerwise!Streams
  <2>12. m + n \in Nat BY <1>3
  <2> QED BY <2>11, <2>12
<1> QED BY <1>2, <1>10, <1>11, <1>12, OneRequestMoves

\* The request that is posted again has all of the text in its prompt and as
\* many tokens left as the text leaves, or more by its retries.
LEMMA RecomputeKeepsText ==
    ASSUME TextInv, MaxTokens \in Nat, NEW r \in Requests, Layerwise!Recompute(r)
    PROVE  TextInv'
<1>1. PICK n \in 0..limit[r] :
         /\ IF Layerwise!Streams(r) THEN n = 0 ELSE at[r] = base[r]
         /\ generated' = [generated EXCEPT ![r] = @ \o Layerwise!Tokens(r, n)]
         /\ completion' = [completion EXCEPT ![r] = @ + IF Layerwise!Streams(r) THEN 1 ELSE n]
  BY Zenon DEF Layerwise!Recompute, Layerwise!GivenUp
<1>2. /\ pc[r] = "stream" /\ pc' = [pc EXCEPT ![r] = "open"]
      /\ retries' = [retries EXCEPT ![r] = @ + 1]
      /\ UNCHANGED <<mode, at, received, torn, blurred, packed>>
  BY DEF Layerwise!Recompute, Layerwise!GivenUp, Layerwise!Moves, Layerwise!ghosts
<1> DEFINE more == Layerwise!Tokens(r, n)
           all == generated[r] \o more
           len == Len(all)
           counted == IF Layerwise!Streams(r) THEN 1 ELSE n
<1>3. n \in Nat /\ counted \in Nat
  BY <1>1 DEF TextInv, PlacesFit
<1>4. at[r] \in Nat /\ retries[r] \in Nat /\ completion[r] \in Nat
  BY DEF TextInv, PlacesFit
<1>5. generated' = [generated EXCEPT ![r] = all] /\ generated'[r] = all
  BY <1>1 DEF TextInv, PlacesFit
<1>6. PICK b \in {len} \cup (IF Layerwise!Chats(r) THEN {0} ELSE {}) :
          base' = [base EXCEPT ![r] = b]
  BY <1>5, Zenon DEF Layerwise!Recompute
<1>7. limit' = [limit EXCEPT ![r] = MaxTokens - completion'[r] + retries'[r]]
  BY Zenon DEF Layerwise!Recompute
<1>8. completion' = [completion EXCEPT ![r] = completion[r] + counted]
  BY <1>1
<1>9. more \in Seq(Nat) BY <1>3, <1>4, TextGrows
<1>10. all \in Seq(Nat)
  <2>1. generated[r] \in Seq(Nat) BY DEF TextInv, PlacesFit
  <2> HIDE DEF more
  <2> QED BY <1>9, <2>1, ConcatProperties
<1> HIDE DEF more, all, counted
<1>11. len \in Nat BY <1>10, LenProperties
<1> HIDE DEF len
<1>12. b \in Nat BY <1>6, <1>11
<1>13. /\ completion'[r] = completion[r] + counted /\ retries'[r] = retries[r] + 1
       /\ base'[r] = b /\ pc'[r] = "open"
       /\ \A q \in Requests \ {r} :
              /\ completion'[q] = completion[q] /\ retries'[q] = retries[q]
              /\ base'[q] = base[q] /\ pc'[q] = pc[q] /\ generated'[q] = generated[q]
  BY <1>2, <1>5, <1>6, <1>8 DEF TextInv, PlacesFit
<1>14. MaxTokens - completion'[r] + retries'[r] \in Int
  BY <1>3, <1>4, <1>13
<1>15. PlacesFit'
  <2>1. completion' \in [Requests -> Nat]
    <3>1. completion[r] + counted \in Nat BY <1>3, <1>4
    <3> QED BY <1>8, <3>1 DEF TextInv, PlacesFit
  <2>2. retries' \in [Requests -> Nat]
    <3>1. retries[r] + 1 \in Nat BY <1>4
    <3> QED BY <1>2, <3>1 DEF TextInv, PlacesFit
  <2>3. base' \in [Requests -> Nat] /\ pc' \in [Requests -> Places]
    BY <1>2, <1>6, <1>12 DEF TextInv, PlacesFit, Places
  <2>4. limit' \in [Requests -> Int] BY <1>7, <1>14 DEF TextInv, PlacesFit
  <2>5. generated' \in [Requests -> Seq(Nat)] BY <1>5, <1>10 DEF TextInv, PlacesFit
  <2> QED BY <1>2, <2>1, <2>2, <2>3, <2>4, <2>5 DEF TextInv, PlacesFit
<1>16. /\ limit'[r] = MaxTokens - (completion[r] + counted) + (retries[r] + 1)
       /\ \A q \in Requests \ {r} : limit'[q] = limit[q]
  BY <1>7, <1>13 DEF TextInv, PlacesFit
<1>17. ASSUME Sound(r)' PROVE \E m \in Nat : Holds(r, m)'
  <2>1. ~Layerwise!Chats(r) BY <1>2, <1>4, <1>13, <1>17 DEF Sound, Layerwise!Chats
  <2>2. Sound(r) BY <1>2, <1>17, <2>1 DEF Sound
  <2>3. PICK m \in Nat : Holds(r, m) BY <2>2 DEF TextInv
  <2>4. b = len BY <1>6, <2>1
  <2>5. base[r] \in Nat /\ limit[r] \in Int BY DEF TextInv, PlacesFit
  <2>6. CASE Layerwise!Streams(r)
    <3>1. StreamHolds(r, m) BY <2>3, <2>6 DEF Holds
    <3>2. at[r] = m /\ generated[r] = Whole(m) /\ received[r] = Whole(m) /\ n = 0 /\ counted = 1
      BY <1>1, <1>2, <2>6, <3>1 DEF StreamHolds, counted
    <3>3. all = Whole(m + n)
      <4>1. at[r] = m /\ n \in Nat /\ generated[r] = Whole(m) BY <1>3, <3>2
      <4>2. Whole(m) \o Layerwise!Tokens(r, n) = Whole(m + n) BY <4>1, TextGrows
      <4> QED BY <4>1, <4>2 DEF all, more
    <3>4. all = Whole(m) /\ len = m
      <4>1. m + n = m BY <3>2
      <4>2. all = Whole(m) BY <3>3, <4>1
      <4> QED BY <4>2, TextIs DEF len
    <3>5. ASSUME r \notin packed
          PROVE  /\ m \leq MaxTokens /\ completion'[r] \geq m + retries'[r]
                 /\ limit'[r] \leq MaxTokens - m
      <4>1. m \leq MaxTokens /\ completion[r] \geq m + retries[r]
        BY <3>1, <3>5 DEF StreamHolds
      <4> QED BY <1>4, <1>13, <1>16, <3>2, <4>1
    <3>6. StreamHolds(r, m)'
      BY <1>2, <1>5, <1>13, <2>4, <3>2, <3>4, <3>5 DEF StreamHolds
    <3>7. Holds(r, m)' BY <1>2, <2>6, <3>6 DEF Holds, Layerwise!Streams
    <3> QED BY <3>7
  <2>7. CASE ~Layerwise!Streams(r)
    <3>1. BodyHolds(r, m) BY <2>3, <2>7 DEF Holds
    <3>2. at[r] = base[r] /\ counted = n BY <1>1, <2>7 DEF counted
    <3>3. /\ received[r] = <<>> /\ base[r] = m /\ at[r] = m
          /\ generated[r] = Whole(m) /\ completion[r] = m
      BY <1>2, <2>5, <3>1, <3>2 DEF BodyHolds
    <3>4. all = Whole(m + n) BY <1>3, <3>3, TextGrows DEF all, more
    <3> DEFINE total == m + n
    <3>5. total \in Nat BY <1>3
    <3>6. len = total
      <4>1. all = Whole(total) BY <3>4
      <4> HIDE DEF total
      <4> QED BY <3>5, <4>1, TextIs DEF len
    <3>7. /\ completion'[r] = total /\ limit'[r] = MaxTokens - total + retries'[r]
          /\ retries'[r] # 0
      BY <1>3, <1>4, <1>13, <1>16, <3>2, <3>3
    <3>8. generated'[r] = Whole(total) /\ received'[r] = <<>> /\ base'[r] = total
      BY <1>2, <1>5, <1>13, <2>4, <3>3, <3>4, <3>6
    <3> HIDE DEF total
    <3>9. BodyHolds(r, total)' BY <1>13, <3>7, <3>8 DEF BodyHolds
    <3>10. Holds(r, total)' BY <1>2, <2>7, <3>9 DEF Holds, Layerwise!Streams
    <3> QED BY <3>5, <3>10
  <2> QED BY <2>6, <2>7
<1>18. /\ \A q \in Requests \ {r} : at'[q] = at[q] /\ received'[q] = received[q]
       /\ \A q \in Requests \ {r} : q \in packed' <=> q \in packed
       /\ mode' = mode /\ torn \subseteq torn' /\ blurred \subseteq blurred'
  BY <1>2
<1> QED BY <1>13, <1>15, <1>16, <1>17, <1>18, OneRequestMoves

\* A request is posted again as it was: before any text of this attempt that is
\* what it should be; after some it is torn.
LEMMA ErrorKeepsText ==
    ASSUME TextInv, NEW r \in Requests, Layerwise!RequestError(r),
           attempt[r] < MaxRetries
    PROVE  TextInv'
<1>1. /\ pc[r] \in {"open", "stream"} /\ pc' = [pc EXCEPT ![r] = "open"]
      /\ torn' = IF pc[r] = "stream" /\ at[r] > base[r] THEN torn \cup {r} ELSE torn
      /\ UNCHANGED <<mode, base, limit, at, generated, received, completion, retries>>
      /\ UNCHANGED <<blurred, packed>>
  BY DEF Layerwise!RequestError, Layerwise!Moves, Layerwise!counters
<1>2. PlacesFit' BY <1>1 DEF TextInv, PlacesFit, Places
<1>3. pc'[r] = "open" /\ \A q \in Requests \ {r} : pc'[q] = pc[q]
  BY <1>1 DEF TextInv, PlacesFit
<1>4. ASSUME Sound(r)' PROVE \E n \in Nat : Holds(r, n)'
  <2>1. Sound(r) BY <1>1, <1>4 DEF Sound, Layerwise!Chats
  <2>2. PICK n \in Nat : Holds(r, n) BY <2>1 DEF TextInv
  <2>3. at[r] \in Nat /\ base[r] \in Nat BY DEF TextInv, PlacesFit
  <2>4. pc[r] = "stream" => ~ (at[r] > base[r]) BY <1>1, <1>4 DEF Sound
  <2>5. CASE Layerwise!Streams(r)
    <3>1. StreamHolds(r, n) BY <2>2, <2>5 DEF Holds
    <3>2. base[r] = n BY <1>1, <2>3, <2>4, <3>1 DEF StreamHolds
    <3>3. StreamHolds(r, n)' BY <1>1, <1>3, <3>1, <3>2 DEF StreamHolds
    <3> QED BY <1>1, <2>5, <3>3 DEF Holds, Layerwise!Streams
  <2>6. CASE ~Layerwise!Streams(r)
    <3>1. BodyHolds(r, n) BY <2>2, <2>6 DEF Holds
    <3>2. received[r] = <<>> /\ base[r] = n BY <1>1, <2>4, <3>1 DEF BodyHolds
    <3>3. BodyHolds(r, n)' BY <1>1, <1>3, <3>1, <3>2 DEF BodyHolds
    <3> QED BY <1>1, <2>6, <3>3 DEF Holds, Layerwise!Streams
  <2> QED BY <2>5, <2>6
<1>5. torn \subseteq torn' /\ blurred' = blurred /\ packed' = packed BY <1>1
<1> QED BY <1>1, <1>2, <1>3, <1>4, <1>5, OneRequestMoves

\* No request has any text at the start,
LEMMA TextStarts == ASSUME MaxTokens \in Nat, Layerwise!Init PROVE TextInv
<1>1. PlacesFit
  <2>1. <<>> \in Seq(Nat) /\ MaxTokens \in Int /\ "new" \in Places
    BY EmptySeq DEF Places
  <2> QED BY <2>1 DEF Layerwise!Init, PlacesFit
<1>2. Whole(0) = <<>>
  <2>1. Whole(0) \in Seq(Nat) /\ Len(Whole(0)) = 0
    <3>1. 0 \in Nat OBVIOUS
    <3> QED BY <3>1, TextIs
  <2> QED BY <2>1, EmptySeq
<1>3. ASSUME NEW r \in Requests PROVE Holds(r, 0)
  <2>1. StreamHolds(r, 0) BY <1>2 DEF Layerwise!Init, StreamHolds
  <2>2. BodyHolds(r, 0) BY <1>2 DEF Layerwise!Init, BodyHolds
  <2> QED BY <2>1, <2>2 DEF Holds
<1> QED BY <1>1, <1>3 DEF TextInv

\* every step of a request keeps prompt, generated and received text in step,
LEMMA TextIsKept ==
    ASSUME MaxTokens \in Nat, \A r \in Requests : Bound[r].tokens \in Nat,
           TextInv, [Layerwise!Next]_Layerwise!vars
    PROVE  TextInv'
<1>1. ASSUME UNCHANGED Layerwise!stream PROVE TextInv'
  <2>1. /\ UNCHANGED <<pc, mode, base, limit, at, generated, received, completion, retries>>
        /\ UNCHANGED <<torn, blurred, packed>>
    BY <1>1 DEF Layerwise!stream, Layerwise!counters, Layerwise!ghosts
  <2>2. PlacesFit' BY <2>1 DEF TextInv, PlacesFit
  <2>3. ASSUME NEW r \in Requests, Sound(r)' PROVE \E n \in Nat : Holds(r, n)'
    <3>1. Sound(r) BY <2>1, <2>3 DEF Sound, Layerwise!Chats
    <3>2. PICK n \in Nat : Holds(r, n) BY <3>1 DEF TextInv
    <3>3. Holds(r, n)' BY <2>1, <3>2, HoldingStays
    <3> QED BY <3>3
  <2> QED BY <2>2, <2>3 DEF TextInv
<1>2. ASSUME NEW r \in Requests, Layerwise!Finish(r), torn' = torn PROVE TextInv'
  BY <1>2, PlacesKeepText
     DEF Layerwise!Finish, Layerwise!Moves, Layerwise!counters, Layerwise!ghosts, Places
<1>3. ASSUME NEW r \in Requests, Layerwise!Arrive(r) PROVE TextInv'
  BY <1>3, PlacesKeepText
     DEF Layerwise!Arrive, Layerwise!Moves, Layerwise!counters, Layerwise!ghosts, Places
<1>4. ASSUME NEW r \in Requests, Layerwise!Start(r) PROVE TextInv'
  BY <1>4, PlacesKeepText
     DEF Layerwise!Start, Layerwise!Moves, Layerwise!counters, Layerwise!ghosts, Places
<1>5. ASSUME NEW r \in Requests, Layerwise!Leave(r) PROVE TextInv'
  BY <1>5, PlacesKeepText
     DEF Layerwise!Leave, Layerwise!Moves, Layerwise!counters, Layerwise!ghosts, Places
<1>6. ASSUME NEW r \in Requests, Layerwise!Posted(r) PROVE TextInv'
  BY <1>6, PostedKeepsText
<1>7. ASSUME NEW r \in Requests, Layerwise!Event(r) PROVE TextInv'
  BY <1>7, EventKeepsText
<1>8. ASSUME NEW r \in Requests, Layerwise!Unread(r) PROVE TextInv'
  BY <1>8, UnreadKeepsText
<1>9. ASSUME NEW r \in Requests, Layerwise!Body(r) PROVE TextInv'
  BY <1>9, BodyKeepsText
<1>10. ASSUME NEW r \in Requests, Layerwise!Recompute(r) PROVE TextInv'
  BY <1>10, RecomputeKeepsText
<1>11. ASSUME NEW r \in Requests, Layerwise!RequestError(r) PROVE TextInv'
  <2>1. CASE attempt[r] < MaxRetries BY <1>11, <2>1, ErrorKeepsText
  <2>2. CASE ~ (attempt[r] < MaxRetries)
    <3>1. Layerwise!Finish(r) BY <1>11, <2>2 DEF Layerwise!RequestError
    <3> QED BY <1>2, <3>1 DEF Layerwise!Finish, Layerwise!ghosts
  <2> QED BY <2>1, <2>2
<1>12. ASSUME NEW r \in Requests, Layerwise!End(r) PROVE TextInv'
  BY <1>2, <1>12 DEF Layerwise!End, Layerwise!Finish, Layerwise!ghosts
<1>13. ASSUME NEW r \in Requests, Layerwise!Metaserver(r) PROVE TextInv'
  BY <1>1, <1>13 DEF Layerwise!Metaserver
<1>14. ASSUME NEW call \in calls, Layerwise!Prefilled(call) PROVE TextInv'
  BY <1>1, <1>14 DEF Layerwise!Prefilled
<1>15. ASSUME UNCHANGED Layerwise!vars PROVE TextInv'
  BY <1>1, <1>15 DEF Layerwise!vars
<1> QED
  BY <1>3, <1>4, <1>5, <1>6, <1>7, <1>8, <1>9, <1>10, <1>11, <1>12, <1>13, <1>14, <1>15
     DEF Layerwise!Next

\* and this is what the property asks for.
LEMMA TextIsWhole == ASSUME MaxTokens \in Nat, TextInv PROVE Layerwise!AnswersAreWhole
<1> SUFFICES ASSUME NEW r \in Requests, Sound(r)
             PROVE  /\ Layerwise!Whole(received[r])
                    /\ r \notin packed => Len(received[r]) \leq
                         MaxTokens + IF Layerwise!Streams(r) THEN 0 ELSE retries[r]
  BY DEF Layerwise!AnswersAreWhole, Sound
<1>1. PICK n \in Nat : Holds(r, n) BY DEF TextInv
<1>2. retries[r] \in Nat BY DEF TextInv, PlacesFit
<1>3. CASE received[r] = Whole(n)
  <2>1. Len(received[r]) = n BY <1>3, TextIs
  <2>2. Layerwise!Whole(received[r]) BY <1>3, <2>1 DEF Whole, Layerwise!Whole
  <2>3. CASE Layerwise!Streams(r)
    BY <1>1, <1>2, <2>1, <2>2, <2>3 DEF Holds, StreamHolds
  <2>4. CASE ~Layerwise!Streams(r)
    <3>1. BodyHolds(r, n) BY <1>1, <2>4 DEF Holds
    <3>2. n \leq MaxTokens + retries[r] \/ received[r] = <<>> BY <3>1 DEF BodyHolds
    <3>3. received[r] = <<>> => Len(received[r]) = 0 BY EmptySeq
    <3> QED BY <1>2, <2>1, <2>2, <2>4, <3>2, <3>3
  <2> QED BY <2>3, <2>4
<1>4. CASE received[r] = <<>>
  <2>1. Len(received[r]) = 0 BY <1>4, EmptySeq
  <2>2. Layerwise!Whole(received[r])
    <3>1. received[r] = Whole(0)
      <4>1. 0 \in Nat OBVIOUS
      <4>2. Whole(0) \in Seq(Nat) /\ Len(Whole(0)) = 0 BY <4>1, TextIs
      <4> QED BY <1>4, <4>2, EmptySeq
    <3> QED BY <2>1, <3>1 DEF Whole, Layerwise!Whole
  <2> QED BY <1>2, <2>1, <2>2
<1> QED BY <1>1, <1>3, <1>4 DEF Holds, StreamHolds, BodyHolds

(***************************************************************************)
(* The load                                                                *)
(***************************************************************************)
\* A job that comes brings its weight, one that goes takes it.
LEMMA JobComes ==
    ASSUME NEW jobs, IsFiniteSet(Layerwise!Units(jobs)), NEW j, j \notin jobs,
           Weight[j[1]] \in Nat
    PROVE  /\ IsFiniteSet(Layerwise!Units(jobs \cup {j}))
           /\ Cardinality(Layerwise!Units(jobs \cup {j})) = Cardinality(Layerwise!Units(jobs)) + Weight[j[1]]
           /\ Cardinality(Layerwise!Units(jobs)) \in Nat
<1> DEFINE w == Weight[j[1]]
           new == {j} \X (1..w)
<1>1. Layerwise!Units(jobs \cup {j}) = Layerwise!Units(jobs) \cup new
  BY DEF Layerwise!Units
<1>2. Layerwise!Units(jobs) \cap new = {}
  <2>1. \A u \in Layerwise!Units(jobs) : u[1] \in jobs BY DEF Layerwise!Units
  <2>2. \A u \in new : u[1] = j OBVIOUS
  <2> QED BY <2>1, <2>2
<1>3. IsFiniteSet(new) /\ Cardinality(new) = w
  <2>1. IsFiniteSet({j}) /\ Cardinality({j}) = 1 BY FS_Singleton
  <2>2. IsFiniteSet(1..w) /\ Cardinality(1..w) = w BY FS_Interval, SMTT(30)
  <2>3. IsFiniteSet(new) /\ Cardinality(new) = Cardinality({j}) * Cardinality(1..w)
    BY <2>1, <2>2, FS_Product
  <2> QED BY <2>1, <2>2, <2>3
<1>4. Cardinality(Layerwise!Units(jobs)) \in Nat BY FS_CardinalityType
<1>5. /\ IsFiniteSet(Layerwise!Units(jobs) \cup new)
      /\ Cardinality(Layerwise!Units(jobs) \cup new)
           = Cardinality(Layerwise!Units(jobs)) + Cardinality(new) - Cardinality(Layerwise!Units(jobs) \cap new)
  BY <1>3, FS_Union
<1>6. Cardinality(Layerwise!Units(jobs) \cap new) = 0 BY <1>2, FS_EmptySet
<1>7. Cardinality(Layerwise!Units(jobs) \cup new) = Cardinality(Layerwise!Units(jobs)) + w
  <2> HIDE DEF new
  <2> QED BY <1>3, <1>4, <1>5, <1>6
<1> QED BY <1>1, <1>4, <1>5, <1>7

\* A job less at a server takes its weight off the server's units.
LEMMA JobGoes ==
    ASSUME NEW jobs, IsFiniteSet(Layerwise!Units(jobs)), NEW j \in jobs,
           Weight[j[1]] \in Nat
    PROVE  /\ IsFiniteSet(Layerwise!Units(jobs \ {j}))
           /\ Cardinality(Layerwise!Units(jobs \ {j})) = Cardinality(Layerwise!Units(jobs)) - Weight[j[1]]
<1> DEFINE left == jobs \ {j}
<1>1. Layerwise!Units(left) \in SUBSET Layerwise!Units(jobs) BY DEF Layerwise!Units
<1>2. IsFiniteSet(Layerwise!Units(left)) BY <1>1, FS_Subset
<1>3. j \notin left /\ left \cup {j} = jobs OBVIOUS
<1> HIDE DEF left
<1>4. /\ Cardinality(Layerwise!Units(left \cup {j})) = Cardinality(Layerwise!Units(left)) + Weight[j[1]]
      /\ Cardinality(Layerwise!Units(left)) \in Nat
  BY <1>2, <1>3, JobComes
<1>5. Cardinality(Layerwise!Units(left)) = Cardinality(Layerwise!Units(jobs)) - Weight[j[1]]
  <2>1. Cardinality(Layerwise!Units(jobs)) = Cardinality(Layerwise!Units(left)) + Weight[j[1]]
    BY <1>3, <1>4
  <2> QED BY <1>4, <2>1
<1> QED BY <1>2, <1>5 DEF left

\* The load of a server, and who is at work: a request that has arrived has a
\* decoder, and a call under way has a number no other of its request has.
Loaded(s) == IsFiniteSet(Layerwise!Units(Layerwise!Jobs(s))) /\ tokens[s] = Cardinality(Layerwise!Units(Layerwise!Jobs(s)))
LoadInv ==
    /\ pc \in [Requests -> Places]
    /\ decoder = [r \in Requests |-> decoder[r]]
    /\ \A r \in Requests : pc[r] # "new" => decoder[r] \in Decoders
    /\ used \in [Requests -> Nat]
    /\ tokens = [s \in Layerwise!Servers |-> tokens[s]]
    /\ calls \subseteq Requests \X (Nat \ {0}) \X Prefillers
    /\ \A c \in calls : c[2] \leq used[c[1]]
    /\ \A c, d \in calls : c[1] = d[1] /\ c[2] = d[2] => c = d
    /\ \A s \in Layerwise!Servers : Loaded(s)

\* Server x takes up or gives up job j, and the others stay at what they do.
LEMMA JobIsTaken ==
    ASSUME LoadInv, Weight \in [Requests -> Nat], NEW x \in Layerwise!Servers, NEW j,
           j[1] \in Requests, j \notin Layerwise!Jobs(x), Layerwise!Shift(x, Weight[j[1]]),
           Layerwise!Jobs(x)' = Layerwise!Jobs(x) \cup {j}, \A s \in Layerwise!Servers \ {x} : Layerwise!Jobs(s)' = Layerwise!Jobs(s)
    PROVE  tokens' = [s \in Layerwise!Servers |-> tokens'[s]] /\ \A s \in Layerwise!Servers : Loaded(s)'
<1>1. /\ tokens' = [s \in Layerwise!Servers |-> tokens'[s]] /\ tokens'[x] = tokens[x] + Weight[j[1]]
      /\ \A s \in Layerwise!Servers \ {x} : tokens'[s] = tokens[s]
  BY DEF Layerwise!Shift, LoadInv
<1>2. /\ IsFiniteSet(Layerwise!Units(Layerwise!Jobs(x) \cup {j}))
      /\ Cardinality(Layerwise!Units(Layerwise!Jobs(x) \cup {j})) = Cardinality(Layerwise!Units(Layerwise!Jobs(x))) + Weight[j[1]]
  <2>1. IsFiniteSet(Layerwise!Units(Layerwise!Jobs(x))) /\ Weight[j[1]] \in Nat
    BY DEF LoadInv, Loaded
  <2> QED BY <2>1, JobComes
<1>3. Loaded(x)'
  <2>1. Layerwise!Units(Layerwise!Jobs(x))' = Layerwise!Units(Layerwise!Jobs(x) \cup {j})
    BY DEF Layerwise!Units
  <2>2. tokens[x] = Cardinality(Layerwise!Units(Layerwise!Jobs(x))) BY DEF LoadInv, Loaded
  <2> QED BY <1>1, <1>2, <2>1, <2>2 DEF Loaded
<1>4. ASSUME NEW s \in Layerwise!Servers \ {x} PROVE Loaded(s)'
  <2>1. Layerwise!Units(Layerwise!Jobs(s))' = Layerwise!Units(Layerwise!Jobs(s))
    BY DEF Layerwise!Units
  <2> QED BY <1>1, <2>1 DEF LoadInv, Loaded
<1> QED BY <1>1, <1>3, <1>4

\* A server whose load falls by the weight of a job it is rid of carries its load.
LEMMA JobIsDone ==
    ASSUME LoadInv, Weight \in [Requests -> Nat], NEW x \in Layerwise!Servers,
           NEW j \in Layerwise!Jobs(x),
           j[1] \in Requests, Layerwise!Shift(x, 0 - Weight[j[1]]),
           Layerwise!Jobs(x)' = Layerwise!Jobs(x) \ {j}, \A s \in Layerwise!Servers \ {x} : Layerwise!Jobs(s)' = Layerwise!Jobs(s)
    PROVE  tokens' = [s \in Layerwise!Servers |-> tokens'[s]] /\ \A s \in Layerwise!Servers : Loaded(s)'
<1>1. /\ tokens' = [s \in Layerwise!Servers |-> tokens'[s]] /\ tokens'[x] = tokens[x] + (0 - Weight[j[1]])
      /\ \A s \in Layerwise!Servers \ {x} : tokens'[s] = tokens[s]
  BY DEF Layerwise!Shift, LoadInv
<1>2. /\ Weight[j[1]] \in Nat /\ IsFiniteSet(Layerwise!Units(Layerwise!Jobs(x)))
      /\ Cardinality(Layerwise!Units(Layerwise!Jobs(x))) \in Nat
  BY FS_CardinalityType DEF LoadInv, Loaded
<1>3. /\ IsFiniteSet(Layerwise!Units(Layerwise!Jobs(x) \ {j}))
      /\ Cardinality(Layerwise!Units(Layerwise!Jobs(x) \ {j})) = Cardinality(Layerwise!Units(Layerwise!Jobs(x))) - Weight[j[1]]
  BY <1>2, JobGoes
<1>4. Loaded(x)'
  <2>1. Layerwise!Units(Layerwise!Jobs(x))' = Layerwise!Units(Layerwise!Jobs(x) \ {j})
    BY DEF Layerwise!Units
  <2>2. tokens[x] = Cardinality(Layerwise!Units(Layerwise!Jobs(x))) BY DEF LoadInv, Loaded
  <2>3. tokens'[x] = Cardinality(Layerwise!Units(Layerwise!Jobs(x))) - Weight[j[1]]
    BY <1>1, <1>2, <2>2
  <2> QED BY <1>3, <2>1, <2>3 DEF Loaded
<1>5. ASSUME NEW s \in Layerwise!Servers \ {x} PROVE Loaded(s)'
  <2>1. Layerwise!Units(Layerwise!Jobs(s))' = Layerwise!Units(Layerwise!Jobs(s))
    BY DEF Layerwise!Units
  <2> QED BY <1>1, <2>1 DEF LoadInv, Loaded
<1> QED BY <1>1, <1>4, <1>5

\* Servers start without load and without jobs.
LEMMA LoadStarts == ASSUME Layerwise!Init PROVE LoadInv
<1>1. ASSUME NEW s \in Layerwise!Servers PROVE Loaded(s)
  <2>1. Layerwise!Jobs(s) = {} BY DEF Layerwise!Init, Layerwise!Jobs
  <2>2. Layerwise!Units(Layerwise!Jobs(s)) = {} BY <2>1 DEF Layerwise!Units
  <2> QED BY <2>2, FS_EmptySet DEF Layerwise!Init, Loaded
<1> QED BY <1>1 DEF Layerwise!Init, LoadInv, Places

\* A request that stays with its decoder stays its job.
LEMMA PlacesKeepLoad ==
    ASSUME LoadInv, NEW r \in Requests, NEW place \in Places \ {"new", "done"},
           pc[r] \notin {"new", "done"}, pc' = [pc EXCEPT ![r] = place],
           UNCHANGED <<decoder, calls, used, tokens>>
    PROVE  LoadInv'
<1>1. /\ pc' \in [Requests -> Places] /\ pc'[r] = place
      /\ \A q \in Requests \ {r} : pc'[q] = pc[q]
  BY DEF LoadInv
<1>2. ASSUME NEW s \in Layerwise!Servers PROVE Loaded(s)'
  <2>1. Layerwise!Jobs(s)' = Layerwise!Jobs(s) BY <1>1 DEF Layerwise!Jobs
  <2>2. Layerwise!Units(Layerwise!Jobs(s))' = Layerwise!Units(Layerwise!Jobs(s))
    BY <2>1 DEF Layerwise!Units
  <2> QED BY <2>2 DEF LoadInv, Loaded
<1> QED BY <1>1, <1>2 DEF LoadInv

\* A decoder is taken with the weight of the request,
LEMMA ArriveKeepsLoad ==
    ASSUME LoadInv, Weight \in [Requests -> Nat], NEW r \in Requests, Layerwise!Arrive(r)
    PROVE  LoadInv'
<1>1. PICK d \in Decoders : decoder' = [decoder EXCEPT ![r] = d] /\ Layerwise!Shift(d, Weight[r])
  BY DEF Layerwise!Arrive, Layerwise!Least
<1>2. pc[r] = "new" /\ pc' = [pc EXCEPT ![r] = "ready"] /\ UNCHANGED <<calls, used>>
  BY DEF Layerwise!Arrive, Layerwise!Moves
<1>3. /\ pc' \in [Requests -> Places] /\ decoder' = [q \in Requests |-> decoder'[q]]
      /\ pc'[r] = "ready" /\ decoder'[r] = d
      /\ \A q \in Requests \ {r} : pc'[q] = pc[q] /\ decoder'[q] = decoder[q]
  BY <1>1, <1>2 DEF LoadInv, Places
<1>4. d \in Layerwise!Servers BY DEF Layerwise!Servers
<1>5. <<r, 0>> \notin Layerwise!Jobs(d)
  <2>1. \A c \in calls : c[2] # 0 BY DEF LoadInv
  <2> QED BY <1>2, <2>1 DEF Layerwise!Jobs
<1>6. Layerwise!Jobs(d)' = Layerwise!Jobs(d) \cup {<<r, 0>>}
  BY <1>2, <1>3 DEF Layerwise!Jobs
<1>7. \A s \in Layerwise!Servers \ {d} : Layerwise!Jobs(s)' = Layerwise!Jobs(s)
  BY <1>2, <1>3 DEF Layerwise!Jobs
<1>8. tokens' = [s \in Layerwise!Servers |-> tokens'[s]] /\ \A s \in Layerwise!Servers : Loaded(s)'
  BY <1>1, <1>4, <1>5, <1>6, <1>7, JobIsTaken
<1> QED BY <1>2, <1>3, <1>8 DEF LoadInv

\* and given back with it.
LEMMA FinishKeepsLoad ==
    ASSUME LoadInv, Weight \in [Requests -> Nat], NEW r \in Requests,
           pc[r] \in {"open", "stream"}, Layerwise!Finish(r)
    PROVE  LoadInv'
<1>1. /\ pc' = [pc EXCEPT ![r] = "done"] /\ Layerwise!Shift(decoder[r], 0 - Weight[r])
      /\ UNCHANGED <<decoder, calls, used>>
  BY DEF Layerwise!Finish, Layerwise!Moves
<1>2. /\ pc' \in [Requests -> Places] /\ pc'[r] = "done"
      /\ \A q \in Requests \ {r} : pc'[q] = pc[q]
  BY <1>1 DEF LoadInv, Places
<1>3. decoder[r] \in Decoders /\ decoder[r] \in Layerwise!Servers
  BY DEF LoadInv, Layerwise!Servers
<1>4. <<r, 0>> \in Layerwise!Jobs(decoder[r]) BY DEF Layerwise!Jobs
<1>5. \A c \in calls : c[2] # 0 BY DEF LoadInv
<1>6. Layerwise!Jobs(decoder[r])' = Layerwise!Jobs(decoder[r]) \ {<<r, 0>>}
  BY <1>1, <1>2, <1>5 DEF Layerwise!Jobs
<1>7. \A s \in Layerwise!Servers \ {decoder[r]} : Layerwise!Jobs(s)' = Layerwise!Jobs(s)
  BY <1>1, <1>2 DEF Layerwise!Jobs
<1>8. tokens' = [s \in Layerwise!Servers |-> tokens'[s]] /\ \A s \in Layerwise!Servers : Loaded(s)'
  BY <1>1, <1>3, <1>4, <1>6, <1>7, JobIsDone
<1> QED BY <1>1, <1>2, <1>3, <1>8 DEF LoadInv

\* A call of a decoder takes a prefiller, under a number no other call has,
LEMMA MetaserverKeepsLoad ==
    ASSUME LoadInv, Weight \in [Requests -> Nat], NEW r \in Requests,
           Layerwise!Metaserver(r)
    PROVE  LoadInv'
<1>1. PICK p \in Prefillers : calls' = calls \cup {<<r, used'[r], p>>} /\ Layerwise!Shift(p, Weight[r])
  BY DEF Layerwise!Metaserver, Layerwise!Least
<1>2. used' = [used EXCEPT ![r] = @ + 1] /\ UNCHANGED <<pc, decoder>>
  BY DEF Layerwise!Metaserver, Layerwise!stream
<1>3. /\ used' \in [Requests -> Nat] /\ used'[r] = used[r] + 1 /\ used[r] \in Nat
      /\ \A q \in Requests : used[q] \leq used'[q]
  BY <1>2 DEF LoadInv
<1> DEFINE j == <<r, used'[r]>>
<1>4. \A c \in calls : c[1] = r => c[2] # used'[r]
  <2>1. \A c \in calls : c[2] \in Nat /\ c[2] \leq used[c[1]] BY DEF LoadInv
  <2> QED BY <1>3, <2>1
<1>5. p \in Layerwise!Servers /\ j \notin Layerwise!Jobs(p)
  BY <1>3, <1>4 DEF Layerwise!Servers, Layerwise!Jobs
<1>6. Layerwise!Jobs(p)' = Layerwise!Jobs(p) \cup {j}
  <2> DEFINE new == <<r, used'[r], p>>
  <2>1. {c \in calls' : c[3] = p} = {c \in calls : c[3] = p} \cup {new}
    BY <1>1
  <2>2. <<new[1], new[2]>> = j OBVIOUS
  <2> HIDE DEF j, new
  <2>3. {<<c[1], c[2]>> : c \in {c \in calls' : c[3] = p}}
          = {<<c[1], c[2]>> : c \in {c \in calls : c[3] = p}} \cup {j}
    BY <2>1, <2>2
  <2> QED BY <1>2, <2>3 DEF Layerwise!Jobs
<1>7. \A s \in Layerwise!Servers \ {p} : Layerwise!Jobs(s)' = Layerwise!Jobs(s)
  BY <1>1, <1>2 DEF Layerwise!Jobs
<1>8. tokens' = [s \in Layerwise!Servers |-> tokens'[s]] /\ \A s \in Layerwise!Servers : Loaded(s)'
  BY <1>1, <1>5, <1>6, <1>7, JobIsTaken
<1>9. /\ calls' \subseteq Requests \X (Nat \ {0}) \X Prefillers
      /\ \A c \in calls' : c[2] \leq used'[c[1]]
      /\ \A c, d \in calls' : c[1] = d[1] /\ c[2] = d[2] => c = d
  <2>1. calls' \subseteq Requests \X (Nat \ {0}) \X Prefillers BY <1>1, <1>3 DEF LoadInv
  <2>2. \A c \in calls : c[2] \leq used'[c[1]]
    <3>1. \A c \in calls : c[2] \in Nat /\ c[1] \in Requests /\ c[2] \leq used[c[1]]
      BY DEF LoadInv
    <3> QED BY <1>3, <3>1 DEF LoadInv
  <2>3. \A c \in calls' : c[2] \leq used'[c[1]] BY <1>1, <1>3, <2>2
  <2>4. \A c, d \in calls' : c[1] = d[1] /\ c[2] = d[2] => c = d
    BY <1>1, <1>4 DEF LoadInv
  <2> QED BY <2>1, <2>3, <2>4
<1> QED BY <1>2, <1>3, <1>8, <1>9 DEF LoadInv

\* which is given back when the prefill ends.
LEMMA PrefilledKeepsLoad ==
    ASSUME LoadInv, Weight \in [Requests -> Nat], NEW call \in calls,
           Layerwise!Prefilled(call)
    PROVE  LoadInv'
<1> DEFINE j == <<call[1], call[2]>>
           p == call[3]
<1>1. /\ calls' = calls \ {call} /\ Layerwise!Shift(p, 0 - Weight[j[1]])
      /\ UNCHANGED <<pc, decoder, used>>
  BY DEF Layerwise!Prefilled, Layerwise!stream
<1>2. call[1] \in Requests /\ call[2] # 0 /\ p \in Layerwise!Servers
  BY DEF LoadInv, Layerwise!Servers
<1>3. \A c \in calls : c[1] = call[1] /\ c[2] = call[2] => c = call BY DEF LoadInv
<1>4. j \in Layerwise!Jobs(p) BY DEF Layerwise!Jobs
<1>5. Layerwise!Jobs(p)' = Layerwise!Jobs(p) \ {j} BY <1>1, <1>2, <1>3 DEF Layerwise!Jobs
<1>6. \A s \in Layerwise!Servers \ {p} : Layerwise!Jobs(s)' = Layerwise!Jobs(s)
  BY <1>1 DEF Layerwise!Jobs
<1>7. tokens' = [s \in Layerwise!Servers |-> tokens'[s]] /\ \A s \in Layerwise!Servers : Loaded(s)'
  BY <1>1, <1>2, <1>4, <1>5, <1>6, JobIsDone
<1> QED BY <1>1, <1>7 DEF LoadInv

\* So every step keeps the load,
LEMMA LoadIsKept ==
    ASSUME Weight \in [Requests -> Nat], LoadInv, [Layerwise!Next]_Layerwise!vars
    PROVE  LoadInv'
<1>1. ASSUME UNCHANGED <<pc, decoder, calls, used, tokens>> PROVE LoadInv'
  <2>1. \A s \in Layerwise!Servers : Loaded(s)' <=> Loaded(s)
    BY <1>1 DEF Loaded, Layerwise!Jobs, Layerwise!Units
  <2> QED BY <1>1, <2>1 DEF LoadInv
<1>2. ASSUME NEW r \in Requests, Layerwise!Start(r) PROVE LoadInv'
  BY <1>2, PlacesKeepLoad DEF Layerwise!Start, Layerwise!Moves, Places
<1>3. ASSUME NEW r \in Requests, Layerwise!Leave(r) PROVE LoadInv'
  BY <1>3, PlacesKeepLoad DEF Layerwise!Leave, Layerwise!Moves, Places
<1>4. ASSUME NEW r \in Requests, Layerwise!Posted(r) PROVE LoadInv'
  BY <1>4, PlacesKeepLoad DEF Layerwise!Posted, Layerwise!Moves, Places
<1>5. ASSUME NEW r \in Requests,
             Layerwise!Event(r) \/ Layerwise!Unread(r) \/ Layerwise!Body(r)
      PROVE  LoadInv'
  <2>1. UNCHANGED <<pc, decoder, calls, used, tokens>>
    BY <1>5 DEF Layerwise!Event, Layerwise!Unread, Layerwise!Body
  <2> QED BY <1>1, <2>1
<1>6. ASSUME NEW r \in Requests, Layerwise!Recompute(r) PROVE LoadInv'
  <2>1. /\ pc[r] = "stream" /\ pc' = [pc EXCEPT ![r] = "open"]
        /\ UNCHANGED <<decoder, calls, used, tokens>>
    BY <1>6 DEF Layerwise!Recompute, Layerwise!GivenUp, Layerwise!Moves
  <2> QED BY <2>1, PlacesKeepLoad DEF Places
<1>7. ASSUME NEW r \in Requests, Layerwise!RequestError(r) PROVE LoadInv'
  BY <1>7, PlacesKeepLoad, FinishKeepsLoad
     DEF Layerwise!RequestError, Layerwise!Moves, Places
<1>8. ASSUME NEW r \in Requests, Layerwise!End(r) PROVE LoadInv'
  BY <1>8, FinishKeepsLoad DEF Layerwise!End
<1>9. ASSUME UNCHANGED Layerwise!vars PROVE LoadInv'
  BY <1>1, <1>9 DEF Layerwise!vars, Layerwise!stream
<1> QED BY <1>2, <1>3, <1>4, <1>5, <1>6, <1>7, <1>8, <1>9, ArriveKeepsLoad,
           MetaserverKeepsLoad, PrefilledKeepsLoad DEF Layerwise!Next

\* which is what the property asks for.
LEMMA LoadIsExact == LoadInv => Layerwise!LoadIsCarried
BY SameCounts DEF LoadInv, Loaded, Layerwise!LoadIsCarried

(***************************************************************************)
(* The theorems                                                            *)
(***************************************************************************)

LayerwiseInv == topic = "layerwise" => TextInv /\ LoadInv

\* Through any number of recomputations, and of attempts that fail before they
\* bring text, each client receives the tokens in order and at most max_tokens, or
\* one more for each recomputation of a request that does not stream: of requests
\* whose events and bodies each came as one chunk, whose streams did not break
\* after text, and that are no chat that was posted again; the bound on their
\* number also needs events of one token.  Each server carries, of all requests,
\* the weight of just what it serves.
THEOREM AnswersStayWhole == Spec => []AnswersAreWhole
<1>1. Init => LayerwiseInv
  BY LayerwiseAssumption, TextStarts, LoadStarts DEF Init, LayerwiseInv
<1>2. LayerwiseInv /\ [Next]_vars => LayerwiseInv'
  <2> SUFFICES ASSUME LayerwiseInv, [Next]_vars, topic' = "layerwise"
               PROVE  TextInv' /\ LoadInv'
    BY DEF LayerwiseInv
  <2>1. topic = "layerwise" /\ TextInv /\ LoadInv
    BY DEF LayerwiseInv, Next, vars
  <2>2. [Layerwise!Next]_Layerwise!vars
    BY <2>1 DEF Next, vars, Layerwise!vars, Layerwise!stream, Layerwise!counters,
                Layerwise!ghosts, layerwiseVars
  <2>3. TextInv' BY <2>1, <2>2, LayerwiseAssumption, TextIsKept
  <2>4. LoadInv' BY <2>1, <2>2, LayerwiseAssumption, LoadIsKept
  <2> QED BY <2>3, <2>4
<1>3. LayerwiseInv => AnswersAreWhole
  BY LayerwiseAssumption, TextIsWhole, LoadIsExact
     DEF LayerwiseInv, AnswersAreWhole
<1> QED BY <1>1, <1>2, <1>3, PTL DEF Spec

(***************************************************************************)
(* InstanceGroups                                                          *)
(***************************************************************************)
EndpointInv == topic = "endpoints" => MeantInv

\* However many groups of whatever sizes there are, and however the brackets are
\* written, the proxy takes the groups the operator meant, and refuses just those
\* with a port that is none or with an endpoint named twice.
THEOREM GroupsAreTaken == Spec => []GroupsAreAsWritten
<1>1. Init => EndpointInv
  BY EndpointAssumption, MeantStarts DEF Init, EndpointInv
<1>2. EndpointInv /\ [Next]_vars => EndpointInv'
  <2> SUFFICES ASSUME EndpointInv, [Next]_vars, topic' = "endpoints"
               PROVE  MeantInv'
    BY DEF EndpointInv
  <2>1. topic = "endpoints" /\ MeantInv
    BY DEF EndpointInv, Next, vars
  <2>2. [Args!Next]_Args!vars
    BY <2>1 DEF Next, vars, Args!vars, endpointVars
  <2> QED BY <2>1, <2>2, MeantIsKept
<1>3. EndpointInv => GroupsAreAsWritten
  BY DEF EndpointInv, GroupsAreAsWritten, MeantInv, Args!GroupsAreAsWritten
<1> QED BY <1>1, <1>2, <1>3, PTL DEF Spec

(***************************************************************************)
(* SseBuffer and ResumeText                                                *)
(***************************************************************************)
ContinuedInv ==
    /\ topic = "sse" => StreamInv
    /\ topic = "text" => /\ state \in Text!Generated /\ original \in Text!Originals
                         /\ resumed # None => resumed = Message(state, original)

\* However a stream of whatever length is cut into pieces, its events come out
\* once, whole and in order; and whatever was generated of an answer to whatever
\* message, the message another backend goes on with shows what the client has
\* received, or ends in the thoughts it has received.
THEOREM AnswersGoOn == Spec => []AnswerIsContinued
<1>1. Init => ContinuedInv
  BY StreamStarts DEF Init, Text!Init, ContinuedInv
<1>2. ContinuedInv /\ [Next]_vars => ContinuedInv'
  <2> SUFFICES ASSUME ContinuedInv, [Next]_vars PROVE ContinuedInv'
    OBVIOUS
  <2>1. topic' = topic
    BY DEF Next, vars
  <2>2. ASSUME topic = "sse" PROVE StreamInv'
    <3>1. StreamInv /\ (Sse!Next \/ UNCHANGED sseVars)
      BY <2>2 DEF ContinuedInv, Next, vars
    <3>2. CASE Sse!Next
      BY <3>1, <3>2, FeedKeepsStream DEF Sse!Next
    <3>3. CASE UNCHANGED sseVars
      BY <3>1, <3>3 DEF StreamInv, sseVars
    <3>4. QED
      BY <3>1, <3>2, <3>3
  <2>3. ASSUME topic = "text"
        PROVE  /\ state' \in Text!Generated /\ original' \in Text!Originals
               /\ resumed' # None => resumed' = Message(state', original')
    <3>1. /\ state \in Text!Generated /\ original \in Text!Originals
          /\ resumed # None => resumed = Message(state, original)
          /\ Text!Apply \/ UNCHANGED textVars
      BY <2>3 DEF ContinuedInv, Next, vars, Text!Next
    <3>2. /\ UNCHANGED <<state, original>>
          /\ resumed' = resumed \/ resumed' = Message(state, original)
      BY <3>1 DEF Text!Apply, Message, textVars
    <3>3. QED
      BY <3>1, <3>2
  <2>4. QED
    BY <2>1, <2>2, <2>3 DEF ContinuedInv
<1>3. ContinuedInv => AnswerIsContinued
  <2>1. StreamInv => Sse!CutsDoNotMatter
    BY DEF StreamInv, Sse!CutsDoNotMatter
  <2>2. ASSUME state \in Text!Generated, original \in Text!Originals,
               resumed # None => resumed = Message(state, original)
        PROVE  Text!AnswerIsContinued
    BY <2>2, MessageContinues DEF Text!AnswerIsContinued, Continued
  <2>3. QED
    BY <2>1, <2>2 DEF ContinuedInv, AnswerIsContinued
<1> QED BY <1>1, <1>2, <1>3, PTL DEF Spec

(***************************************************************************)
(* Sharding                                                                *)
(***************************************************************************)
ShardingInv == topic = "sharding" => LoaderInv

\* Whatever number of workers an engine of whatever size goes on with, each row
\* of the convolution of a gated delta net ends up in exactly one place, a worker
\* holds the same heads of its convolution, projection, A_log and output, and
\* where every worker's attention can be built each query head is with its key
\* head: for the weights that weight_loader loads.  The convolution's state has as
\* many rows as the convolution where the engine had at most ExactTp workers, as
\* many as the floating-point share is exact for.
THEOREM ShardsAlwaysFit == Spec => []ShardsFitTogether
<1>1. Init => ShardingInv
  BY ShardingAssumption, LoaderStarts DEF Init, ShardingInv
<1>2. ShardingInv /\ [Next]_vars => ShardingInv'
  <2> SUFFICES ASSUME ShardingInv, [Next]_vars, topic' = "sharding"
               PROVE  LoaderInv'
    BY DEF ShardingInv
  <2>1. topic = "sharding" /\ LoaderInv
    BY DEF ShardingInv, Next, vars
  <2>2. [Shards!Next]_Shards!vars
    BY <2>1 DEF Next, vars, Shards!vars, Shards!shape, shardingVars
  <2> QED BY <2>1, <2>2, LoaderGoesOn
<1>3. ShardingInv => ShardsFitTogether
  BY LoaderFitsTogether DEF ShardingInv, ShardsFitTogether
<1> QED BY <1>1, <1>2, <1>3, PTL DEF Spec

(***************************************************************************)
(* AnthropicStream                                                         *)
(***************************************************************************)
\* Whatever the chunks of an answer hold and however they are mixed, with errors
\* in between that end the stream or do not, the events but these are those of a
\* message, the message sent back in the next turn is the whole answer, and it is
\* that of the other endpoint when the parts come in its order, unless that
\* endpoint fails on the arguments of a call.
THEOREM AnswersAreAlwaysTranslated == Spec => []AnswersAreTranslated
<1> DEFINE Inv == topic = "anthropic" => MessageInv
<1>1. Init => Inv
  BY MessageStarts DEF Init
<1>2. Inv /\ [Next]_vars => Inv'
  <2> SUFFICES ASSUME Inv, [Next]_vars, topic' = "anthropic" PROVE MessageInv'
    OBVIOUS
  <2>1. topic = "anthropic" /\ MessageInv
    BY DEF Next, vars
  <2>2. CASE Anthropic!Next
    BY <2>1, <2>2, MessageIsKept
  <2>3. CASE UNCHANGED anthropicVars
    <3>1. /\ phase' = phase /\ active' = active /\ next' = next /\ ids' = ids
          /\ events' = events /\ said' = said
      BY <2>3 DEF anthropicVars
    <3>2. Anthropic!Current' = Anthropic!Current /\ Anthropic!Calls' = Anthropic!Calls
      BY <3>1 DEF Anthropic!Current, Anthropic!Calls
    <3>3. QED
      BY <2>1, <3>1, <3>2 DEF MessageInv, Anthropic!AnswerComesBack, Together
  <2>4. QED
    BY <2>1, <2>2, <2>3 DEF Next, vars
<1>3. Inv => AnswersAreTranslated
  BY MessageHolds DEF AnswersAreTranslated
<1> QED BY <1>1, <1>2, <1>3, PTL DEF Spec

(***************************************************************************)
(* LoadHeap                                                                *)
(***************************************************************************)
HeapListed == topic = "heap" => HeapInv
\* Every step keeps what the list holds.
LEMMA HeapGoesOn == HeapListed /\ [Next]_vars => HeapListed'
<1> SUFFICES ASSUME HeapListed, [Next]_vars, topic' = "heap" PROVE HeapInv'
  BY DEF HeapListed
<1>1. topic = "heap" /\ HeapInv
  BY DEF HeapListed, Next, vars
<1>2. CASE Heap!Next
  BY <1>1, <1>2, HeapIsKept
<1>3. CASE UNCHANGED heapVars
  <2>1. load' = load /\ isolated' = isolated /\ heap' = heap /\ held' = held
    BY <1>3 DEF heapVars
  <2>2. QED
    BY <1>1, <2>1 DEF HeapInv, Now, Heap!Priority
<1>4. QED
  BY <1>1, <1>2, <1>3 DEF Next, vars

\* A list that is a heap has one of the least loaded at its root.
LEMMA HeapChoosesLeast == HeapInv => Heap!HeapIsTrue /\ Heap!HeapGivesLeast
<1> SUFFICES ASSUME HeapInv PROVE Heap!HeapIsTrue /\ (Heap!IsHeap => Heap!RootIsLeast)
  BY DEF Heap!HeapGivesLeast
<1>1. Len(heap) \in Nat
  BY HoldsTyped DEF HeapInv
<1>2. ASSUME Heap!IsHeap PROVE Heap!RootIsLeast
  <2>1. Rooted(heap, Now)
    BY <1>1, <1>2, IsHeap, HeapIsRooted
  <2>2. QED
    BY <2>1, RootIsLeast
<1>3. QED
  BY <1>2, HeapIsTrue

\* What each kind of step does to the order.
LEMMA OrderGoesOn == HeapInv /\ Heap!Next => Heap!OrderIsKept
<1> SUFFICES ASSUME HeapInv, Heap!Next
             PROVE  /\ Heap!Regroups \/ (Heap!Selects /\ Heap!IsHeap) => Heap!IsHeap'
                    /\ Heap!Releases /\ Heap!RootIsLeast => Heap!RootIsLeast'
  BY DEF Heap!OrderIsKept
<1>1. HeapInv'
  BY HeapIsKept
<1>2. Len(heap) \in Nat /\ Len(heap') \in Nat
  BY <1>1, HoldsTyped DEF HeapInv
<1>3. Heap!IsHeap <=> Ordered(heap)
  BY <1>2, IsHeap
<1>4. Heap!IsHeap' <=> Ordered(heap')
  BY <1>2 DEF Heap!IsHeap, Ordered, HeapFrom
<1>5. Rooted(heap, Now) <=> Heap!RootIsLeast
  BY RootIsLeast
<1>6. Rooted(heap, Now)' <=> Heap!RootIsLeast'
  BY DEF Rooted, Now, Heap!RootIsLeast
<1>7. QED
  BY <1>3, <1>4, <1>5, <1>6, HeapIsKept

\* Whatever requests of whatever weights come and go and whichever groups are
\* isolated and restored, each of however many backends is in the heap once,
\* with the priority its load and its group give it; while the list is a heap, a
\* least loaded one is chosen; isolation and restoration make a heap of any list,
\* a selection keeps one, and a release leaves a right choice right, although it
\* takes an entry out of the middle of the list.
THEOREM LeastIsAlwaysChosen == Spec => LeastIsChosen
<1> DEFINE Right == topic = "heap" => Heap!HeapIsTrue /\ Heap!HeapGivesLeast
           Orderly == topic = "heap" => Heap!OrderIsKept
<1>1. Init => HeapListed
  BY HeapStarts DEF Init, HeapListed
<1>2. HeapListed /\ [Next]_vars => HeapListed'
  BY HeapGoesOn
<1>3. HeapListed => Right
  BY HeapChoosesLeast DEF HeapListed
<1>4. HeapListed /\ [Next]_vars => [Orderly]_vars
  BY OrderGoesOn DEF HeapListed, Next
<1>5. Spec => []Right /\ [][Orderly]_vars
  <2> HIDE DEF Right, Orderly
  <2>1. QED
    BY <1>1, <1>2, <1>3, <1>4, PTL DEF Spec
<1>6. QED
  BY <1>5 DEF LeastIsChosen
=============================================================================
