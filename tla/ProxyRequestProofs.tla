------------------------- MODULE ProxyRequestProofs -------------------------
(***************************************************************************)
(* Theorems about ProxyRequest, for any numbers of requests and backends:  *)
(* the stream has no gap, a round never uses an old KV cache, the count of *)
(* requests is exact, and so are the loads.                                *)
(*                                                                         *)
(* Every step but the listener's changes one request's context.  What the  *)
(* steps preserve of a context is Sound, what they owe to the shared       *)
(* counters is Settled; each action is shown to keep both, and the         *)
(* theorems follow by counting.                                            *)
(***************************************************************************)
EXTENDS ProxyRequest, FiniteSetTheorems, TLAPS

(***************************************************************************)
(* What becomes of a context                                               *)
(***************************************************************************)
\* Where the coroutine is, or will be once the client has taken what it yields.
Place(c) == IF c.pc = "yield" THEN c.then ELSE c.pc
\* Nothing is selected, or something that streams is.
Early == {"idle", "created", "gone", "look", "wait", "pick", "close", "done"}
Late == {"decode", "recompute", "finish"}

\* What the client and the backends have of the request.
SameText(d, c) == /\ d.stream = c.stream /\ d.at = c.at
                  /\ d.generated = c.generated /\ d.sent = c.sent
SameServers(d, c) == /\ d.prefiller = c.prefiller /\ d.backend = c.backend
                     /\ d.prefillCounted = c.prefillCounted /\ d.counted = c.counted
                     /\ d.releasedKv = c.releasedKv
Same(d, c) == /\ SameText(d, c) /\ SameServers(d, c)
              /\ d.start = c.start /\ d.round = c.round /\ d.kv = c.kv
SamePlace(d, c) == d.pc = c.pc /\ d.then = c.then

\* A context with another value in a field is a context: another control point,
LEMMA SetControl ==
    ASSUME NEW c \in Context, NEW v \in Control
    PROVE  [c EXCEPT !.pc = v] \in Context /\ [c EXCEPT !.then = v] \in Context
BY DEF Context
\* kind,
LEMMA SetKind ==
    ASSUME NEW c \in Context, NEW v \in Kinds
    PROVE  [c EXCEPT !.kind = v] \in Context
BY DEF Context
\* phase,
LEMMA SetPhase ==
    ASSUME NEW c \in Context, NEW v \in {"running", "completed", "failed", "cancelled"}
    PROVE  [c EXCEPT !.phase = v] \in Context
BY DEF Context
\* window,
LEMMA SetWindow ==
    ASSUME NEW c \in Context, NEW v \in {"closed", "open", "late"}
    PROVE  [c EXCEPT !.window = v] \in Context
BY DEF Context
\* number,
LEMMA SetNumber ==
    ASSUME NEW c \in Context, NEW v \in Nat
    PROVE  /\ [c EXCEPT !.round = v] \in Context /\ [c EXCEPT !.start = v] \in Context
           /\ [c EXCEPT !.at = v] \in Context /\ [c EXCEPT !.generated = v] \in Context
           /\ [c EXCEPT !.sent = v] \in Context
BY DEF Context
\* flag,
LEMMA SetFlag ==
    ASSUME NEW c \in Context, NEW v \in BOOLEAN
    PROVE  /\ [c EXCEPT !.stream = v] \in Context
           /\ [c EXCEPT !.prefillCounted = v] \in Context
           /\ [c EXCEPT !.counted = v] \in Context
           /\ [c EXCEPT !.releasedKv = v] \in Context
           /\ [c EXCEPT !.answered = v] \in Context
           /\ [c EXCEPT !.finished = v] \in Context
           /\ [c EXCEPT !.doneReceived = v] \in Context
           /\ [c EXCEPT !.opaque = v] \in Context
           /\ [c EXCEPT !.ended = v] \in Context
BY DEF Context
\* key/value cache,
LEMMA SetKv ==
    ASSUME NEW c \in Context, NEW v \in (Request \X Nat) \cup {None}
    PROVE  [c EXCEPT !.kv = v] \in Context
BY DEF Context
\* prefiller,
LEMMA SetPrefiller ==
    ASSUME NEW c \in Context, NEW v \in Prefiller \cup {None}
    PROVE  [c EXCEPT !.prefiller = v] \in Context
BY DEF Context
\* or backend.
LEMMA SetBackend ==
    ASSUME NEW c \in Context, NEW v \in Decoder \cup Mixer \cup {None}
    PROVE  [c EXCEPT !.backend = v] \in Context
BY DEF Context

\* The types of the fields.
LEMMA FieldTypes ==
    ASSUME NEW c \in Context
    PROVE  /\ c.pc \in Control /\ c.then \in Control /\ c.stream \in BOOLEAN
           /\ c.round \in Nat /\ c.start \in Nat /\ c.at \in Nat
           /\ c.generated \in Nat /\ c.sent \in Nat
           /\ c.prefiller \in Prefiller \cup {None}
           /\ c.backend \in Decoder \cup Mixer \cup {None}
           /\ c.prefillCounted \in BOOLEAN /\ c.counted \in BOOLEAN
           /\ c.releasedKv \in BOOLEAN
           /\ c.kv \in (Request \X Nat) \cup {None}
           /\ c.phase \in {"running", "completed", "failed", "cancelled"}
BY DEF Context

\* A jump changes the control point and nothing else,
LEMMA Jumps ==
    ASSUME NEW c \in Context, NEW pc \in Control
    PROVE  Jump(c, pc) \in Context /\ Jump(c, pc).pc = pc /\ Same(Jump(c, pc), c)
<1>1. Jump(c, pc) \in Context
  BY SetControl, Zenon DEF Jump
<1>2. Jump(c, pc).pc = pc /\ Same(Jump(c, pc), c)
  BY DEF Jump, Same, SameText, SameServers, Context
<1> QED BY <1>1, <1>2

\* so does a yield to the event loop, which remembers where to go on,
LEMMA Yields ==
    ASSUME NEW c \in Context, NEW pc \in Control
    PROVE  /\ Yield(c, pc) \in Context /\ Yield(c, pc).pc = "yield"
           /\ Yield(c, pc).then = pc /\ Same(Yield(c, pc), c)
<1>1. "yield" \in Control
  BY DEF Control
<1>2. Yield(c, pc) \in Context
  BY <1>1, SetControl, Zenon DEF Yield
<1>3. /\ Yield(c, pc).pc = "yield" /\ Yield(c, pc).then = pc
      /\ Same(Yield(c, pc), c)
  BY DEF Yield, Same, SameText, SameServers, Context
<1> QED BY <1>2, <1>3

\* and so does a heartbeat,
LEMMA Beats ==
    ASSUME NEW c \in Context
    PROVE  /\ Beat(c, "look") \in Context /\ Same(Beat(c, "look"), c)
           /\ Place(Beat(c, "look")) = "look" /\ Beat(c, "look").pc \in {"look", "yield"}
<1>1. "look" \in Control
  BY DEF Control
<1> QED BY <1>1, Jumps, Yields DEF Beat, Place

\* the kind of an answer,
LEMMA KindSet ==
    ASSUME NEW c \in Context, NEW kind \in Kinds
    PROVE  LET d == [c EXCEPT !.kind = kind] IN
           d \in Context /\ Same(d, c) /\ SamePlace(d, c)
<1>1. [c EXCEPT !.kind = kind] \in Context
  BY SetKind
<1> QED BY <1>1 DEF Context, Same, SameText, SameServers, SamePlace

\* the look for an idle backend,
LEMMA Looks ==
    ASSUME NEW c \in Context
    PROVE  /\ Look(c) \in Context /\ Same(Look(c), c)
           /\ Place(Look(c)) = "look" /\ Look(c).pc \in {"look", "yield"}
<1>1. FirstKind \in Kinds
  BY DEF FirstKind, Kinds
<1>2. PICK b : b = Beat(c, "look")
  OBVIOUS
<1>3. b \in Context /\ Same(b, c) /\ Place(b) = "look" /\ b.pc \in {"look", "yield"}
  BY <1>2, Beats
<1>4. Look(c) = [b EXCEPT !.kind = FirstKind]
  BY <1>2, Zenon DEF Look
<1>5. Look(c) \in Context /\ Same(Look(c), b) /\ SamePlace(Look(c), b)
  BY <1>1, <1>3, <1>4, KindSet
<1> QED BY <1>3, <1>5 DEF Same, SameText, SameServers, SamePlace, Place

\* and a new round the round.
LEMMA Rounds ==
    ASSUME NEW c \in Context
    PROVE  /\ NextRound(c) \in Context /\ SamePlace(NextRound(c), c)
           /\ NextRound(c).round = c.round + 1
           /\ SameText(NextRound(c), c) /\ SameServers(NextRound(c), c)
           /\ NextRound(c).start = c.start
<1>1. c.round + 1 \in Nat
  BY FieldTypes
<1>2. NextRound(c) = [c EXCEPT !.round = c.round + 1]
  BY DEF NextRound, Context
<1>3. NextRound(c) \in Context
  BY <1>1, <1>2, SetNumber, Zenon
<1> QED BY <1>2, <1>3 DEF Context, SamePlace, SameText, SameServers

\* A wait begins with nothing changed,
LEMMA Waits ==
    ASSUME NEW c \in Context
    PROVE  StartWait(c) \in Context /\ SamePlace(StartWait(c), c) /\ Same(StartWait(c), c)
<1>1. PICK w \in {"closed", "open", "late"} : StartWait(c) = [c EXCEPT !.window = w]
  BY DEF StartWait, Context
<1>2. StartWait(c) \in Context
  BY <1>1, SetWindow, Zenon
<1> QED BY <1>1, <1>2 DEF Context, SamePlace, Same, SameText, SameServers

\* to be free is to hold no server,
LEMMA Frees ==
    ASSUME NEW c \in Context
    PROVE  /\ Free(c) \in Context /\ SamePlace(Free(c), c) /\ SameText(Free(c), c)
           /\ Free(c).prefiller = None /\ Free(c).backend = None
           /\ Free(c).start = c.start /\ Free(c).round = c.round
<1>1. Free(c) \in Context
  BY SetPrefiller, SetBackend, SetFlag, Zenon DEF Free
<1> QED BY <1>1 DEF Free, Context, SamePlace, SameText

\* the next request starts where the last one got to,
LEMMA Resumes ==
    ASSUME NEW c \in Context
    PROVE  /\ NextRequest(c) \in Context /\ SamePlace(NextRequest(c), c)
           /\ SameText(NextRequest(c), c) /\ SameServers(NextRequest(c), c)
           /\ NextRequest(c).start = c.generated /\ NextRequest(c).round = c.round
<1>1. c.generated \in Nat
  BY FieldTypes
<1>2. NextRequest(c) \in Context
  BY <1>1, SetNumber, SetKv, Zenon DEF NextRequest
<1> QED BY <1>2 DEF NextRequest, Context, SamePlace, SameText, SameServers

\* and an attempt to decode begins at its start.
LEMMA Attempts ==
    ASSUME NEW c \in Context
    PROVE  /\ Attempt(c) \in Context /\ Attempt(c).pc = "decode"
           /\ Attempt(c).at = c.start /\ Attempt(c).start = c.start
           /\ Attempt(c).generated = c.generated /\ Attempt(c).sent = c.sent
           /\ Attempt(c).stream = c.stream /\ Attempt(c).round = c.round
           /\ SameServers(Attempt(c), c)
<1>1. "decode" \in Control /\ c.start \in Nat
  BY FieldTypes DEF Control
<1>2. "closed" \in {"closed", "open", "late"} /\ FALSE \in BOOLEAN
  OBVIOUS
<1>3. Attempt(c) \in Context
  BY <1>1, <1>2, SetControl, SetWindow, SetNumber, SetFlag, Zenon DEF Attempt
<1> QED BY <1>3 DEF Attempt, Context, SameServers

(***************************************************************************)
(* What a step keeps and owes                                              *)
(***************************************************************************)
\* The shared state a context does not show.
Around == /\ mode \in {"disaggregated", "mixed"}
          /\ session \in [Kinds -> Backend \cup {None}]
          /\ \A kind \in Kinds : session[kind] \in Pool[kind] \cup {None}
          /\ up \subseteq Backend /\ registry \subseteq Request
          /\ faults \in 0..MaxFaults /\ taints \in 0..MaxTaints
Types == /\ req \in [Request -> Context]
         /\ load \in [Backend -> Int] /\ kvload \in [Prefiller -> Int]
         /\ toAbort \in [Prefiller -> SUBSET (Request \X Nat)]
         /\ requestNum \in Int
         /\ router \in {"least_load", "session_affinity"}
         /\ Around

Sound(r, c) ==
    /\ c.pc = "yield" => c.then \in Late \cup {"look", "close"}
    /\ Place(c) \in Early => c.prefiller = None /\ c.backend = None
    /\ c.pc = "prefill" => /\ c.prefiller # None /\ c.backend = None /\ c.kv = None
                           /\ router = "least_load" => c.prefillCounted
    /\ Place(c) \in Late => c.backend # None
    /\ Place(c) \in Late /\ c.kv # None => c.prefiller # None /\ c.kv = <<r, c.round>>
    /\ c.stream \/ c.pc = "idle" => c.sent = c.generated
    /\ Place(c) \notin Late \cup {"close", "done"} => c.start = c.generated
    /\ Place(c) = "decode" /\ c.stream => c.at = c.generated

\* What context c adds to the load of b, the KV load of p and the requests.
Bit(claim) == IF claim THEN 1 ELSE 0
Loads(c, b) == Bit(\/ c.pc = "prefill" /\ c.prefillCounted /\ c.prefiller = b
                   \/ c.backend = b /\ c.counted)
KvLoads(c, p) == Bit(c.prefiller = p /\ (c.pc = "prefill" \/ ~c.releasedKv))
Prefilling(c, p) == Bit(c.pc = "prefill" /\ c.prefillCounted /\ c.prefiller = p)
Counts(c) == Bit(c.pc \notin {"idle", "done"})

\* A step that makes d of r's context c, settled with the shared state.
Settled(r, c, d) ==
    /\ load' \in [Backend -> Int] /\ kvload' \in [Prefiller -> Int]
    /\ \A b \in Backend : load'[b] = load[b] + Loads(d, b) - Loads(c, b)
    /\ router = "least_load" =>
         \A p \in Prefiller : kvload'[p] = kvload[p] + KvLoads(d, p) - KvLoads(c, p)
    /\ router # "least_load" =>
         \A p \in Prefiller : kvload'[p] >= kvload[p] + Prefilling(d, p) - Prefilling(c, p)
    /\ requestNum' = requestNum + Counts(d) - Counts(c)
    /\ toAbort' \in [Prefiller -> SUBSET (Request \X Nat)]
    /\ \A p \in Prefiller : toAbort'[p] \subseteq toAbort[p] \cup {<<r, c.round>>}
    /\ \/ \A p \in Prefiller : toAbort'[p] \subseteq toAbort[p]
       \/ d.pc = "done" \/ c.round < d.round
    /\ c.round <= d.round
    /\ c.pc = "done" => d.pc = "done"

Good(r, d) == d \in Context /\ Sound(r, d) /\ Settled(r, req[r], d)
Change(r) == \E d : Goto(r, d) /\ Good(r, d)

Calm == UNCHANGED <<load, kvload, toAbort, requestNum>>

\* Waiting and looking for backends.
Wanders(d, c) ==
    /\ Place(c) \in Early \ {"idle", "close", "done"}
    /\ Place(d) \in Early \ {"idle", "done"}
    /\ d.pc = "yield" => d.then \in {"look", "close"}
    /\ SameText(d, c) /\ d.prefiller = c.prefiller /\ d.backend = c.backend
    /\ d.start = c.start /\ c.round <= d.round

\* A step that changes no server, no text and no round keeps Good.
LEMMA WanderingIsGood ==
    ASSUME Types, NEW r \in Request, Sound(r, req[r]), Calm,
           NEW d \in Context, Wanders(d, req[r])
    PROVE  Good(r, d)
<1> DEFINE c == req[r]
<1>1. c \in Context
  BY DEF Types
<1>2. /\ c.pc # "idle" /\ c.pc # "done" /\ c.pc # "prefill"
      /\ d.pc # "idle" /\ d.pc # "done" /\ d.pc # "prefill"
  BY DEF Wanders, Place, Early
<1>3. /\ c.prefiller = None /\ c.backend = None /\ c.start = c.generated
      /\ c.stream => c.sent = c.generated
  BY DEF Sound, Wanders, Early, Late
<1>4. Sound(r, d)
  BY <1>1, <1>2, <1>3, FieldTypes DEF Sound, Wanders, SameText, Early, Late
<1>5. None \notin Backend /\ Prefiller \subseteq Backend
  BY BackendAssumption DEF Backend
<1>6. /\ \A b \in Backend : Loads(d, b) = 0 /\ Loads(c, b) = 0
      /\ \A p \in Prefiller : /\ KvLoads(d, p) = 0 /\ KvLoads(c, p) = 0
                              /\ Prefilling(d, p) = 0 /\ Prefilling(c, p) = 0
      /\ Counts(d) = 1 /\ Counts(c) = 1
  BY <1>2, <1>3, <1>5 DEF Wanders, Loads, KvLoads, Prefilling, Counts, Bit
<1>7. Settled(r, c, d)
  <2>1. c.round <= d.round
    BY DEF Wanders
  <2> HIDE DEF c
  <2> QED BY <1>2, <1>6, <2>1 DEF Settled, Calm, Types
<1> QED BY <1>4, <1>7 DEF Good

\* Nothing happens but that the client takes, or the window ends, or the stream.
Rests(d, c) ==
    /\ Same(d, c) /\ Counts(d) = Counts(c)
    /\ d.pc = "prefill" <=> c.pc = "prefill"
    /\ c.pc = "done" => d.pc = "done"
    /\ d.pc = "yield" => (c.pc = "yield" /\ d.then = c.then) \/ d.then = "finish"
    /\ Place(d) = Place(c) \/ (Place(c) = "decode" /\ Place(d) = "finish")

\* So does one in which the coroutine rests or has ended,
LEMMA RestingIsGood ==
    ASSUME Types, NEW r \in Request, Sound(r, req[r]), Calm,
           NEW d \in Context, Rests(d, req[r])
    PROVE  Good(r, d)
<1> DEFINE c == req[r]
<1>1. c \in Context
  BY DEF Types
<1>2. Sound(r, d)
  BY DEF Sound, Rests, Same, SameText, SameServers, Early, Late, Place
<1>3. /\ \A b \in Backend : Loads(d, b) = Loads(c, b) /\ Loads(c, b) \in Int
      /\ \A p \in Prefiller :
           /\ KvLoads(d, p) = KvLoads(c, p) /\ KvLoads(c, p) \in Int
           /\ Prefilling(d, p) = Prefilling(c, p) /\ Prefilling(c, p) \in Int
      /\ Counts(d) = Counts(c) /\ Counts(c) \in Int
  BY DEF Rests, Same, SameServers, Loads, KvLoads, Prefilling, Counts, Bit
<1>4. c.round = d.round /\ c.round \in Nat /\ (c.pc = "done" => d.pc = "done")
  BY <1>1, FieldTypes DEF Rests, Same
<1>5. Settled(r, c, d)
  <2> HIDE DEF c
  <2> QED BY <1>3, <1>4 DEF Settled, Calm, Types
<1> QED BY <1>2, <1>5 DEF Good

\* A context that has lost its servers, for another round or for good.
Vacates(d, c) ==
    /\ SameText(d, c) /\ d.prefiller = None /\ d.backend = None
    /\ \/ d.pc = "done" /\ c.round = d.round /\ requestNum' = requestNum - 1
       \/ /\ Place(d) = "look" /\ d.pc \in {"look", "yield"}
          /\ c.round < d.round /\ d.start = c.generated /\ requestNum' = requestNum

\* (an abort is noted for the request's own round)
LEMMA AbortsOwnRound ==
    ASSUME Types, NEW r \in Request
    PROVE  /\ Abort(r) \in [Prefiller -> SUBSET (Request \X Nat)]
           /\ \A p \in Prefiller : Abort(r)[p] \subseteq toAbort[p] \cup {<<r, req[r].round>>}
<1>1. req[r].round \in Nat /\ req[r].prefiller \in Prefiller \cup {None}
  BY FieldTypes DEF Types
<1>2. ThisRound(r) \in Request \X Nat
  BY <1>1 DEF ThisRound
<1> QED BY <1>1, <1>2 DEF Types, Abort, ThisRound

\* and one in which it gives back what it holds.
LEMMA VacatingIsGood ==
    ASSUME Types, NEW r \in Request, Sound(r, req[r]),
           NEW d \in Context, Vacates(d, req[r]),
           req[r].pc \notin {"idle", "done"},
           toAbort' = toAbort \/ toAbort' = Abort(r),
           IF req[r].pc = "prefill"
             THEN /\ load' = Less(load, req[r].prefiller, req[r].prefillCounted)
                  /\ kvload' = Less(kvload, req[r].prefiller, req[r].prefillCounted)
             ELSE ReleaseCurrent(r)
    PROVE  Good(r, d)
<1> DEFINE c == req[r]
<1>1. /\ c \in Context /\ c.round \in Nat /\ d.round \in Nat
      /\ c.prefiller \in Prefiller \cup {None} /\ c.prefillCounted \in BOOLEAN
      /\ c.backend \in Decoder \cup Mixer \cup {None} /\ c.counted \in BOOLEAN
      /\ c.releasedKv \in BOOLEAN
  BY FieldTypes DEF Types
<1>2. None \notin Backend /\ Prefiller \subseteq Backend /\ Decoder \cup Mixer \subseteq Backend
  BY BackendAssumption DEF Backend
<1>3. Sound(r, d)
  BY DEF Sound, Vacates, SameText, Place, Early, Late
<1>4. /\ \A b \in Backend : Loads(d, b) = 0
      /\ \A p \in Prefiller : KvLoads(d, p) = 0 /\ Prefilling(d, p) = 0
      /\ d.pc # "prefill"
  BY <1>2 DEF Vacates, Place, Loads, KvLoads, Prefilling, Bit
<1>5. /\ load' \in [Backend -> Int] /\ kvload' \in [Prefiller -> Int]
      /\ \A b \in Backend : load'[b] = load[b] - Loads(c, b)
      /\ router = "least_load" =>
           \A p \in Prefiller : kvload'[p] = kvload[p] - KvLoads(c, p)
      /\ router # "least_load" =>
           \A p \in Prefiller : kvload'[p] >= kvload[p] - Prefilling(c, p)
  <2>1. CASE c.pc = "prefill"
    <3>1. /\ c.prefiller \in Prefiller /\ c.backend = None
          /\ router = "least_load" => c.prefillCounted
      BY <1>1, <2>1 DEF Sound
    <3>2. /\ load' = Less(load, c.prefiller, c.prefillCounted)
          /\ kvload' = Less(kvload, c.prefiller, c.prefillCounted)
      BY <2>1
    <3> HIDE DEF c
    <3>3. load' \in [Backend -> Int] /\ \A b \in Backend : load'[b] = load[b] - Loads(c, b)
      BY <1>1, <1>2, <2>1, <3>1, <3>2 DEF Less, Loads, Bit, Types
    <3>4. /\ kvload' \in [Prefiller -> Int]
          /\ router = "least_load" =>
               \A p \in Prefiller : kvload'[p] = kvload[p] - KvLoads(c, p)
      BY <1>1, <2>1, <3>1, <3>2 DEF Less, KvLoads, Bit, Types
    <3>5. \A p \in Prefiller : kvload'[p] >= kvload[p] - Prefilling(c, p)
      BY <1>1, <2>1, <3>1, <3>2 DEF Less, Prefilling, Bit, Types
    <3> QED BY <3>3, <3>4, <3>5
  <2>2. CASE c.pc # "prefill"
    <3>1. /\ load' = Less(load, c.backend, c.backend # None /\ c.counted)
          /\ kvload' = Less(kvload, c.prefiller,
               c.prefiller # None /\ ~c.releasedKv /\ router = "least_load")
      BY <2>2 DEF ReleaseCurrent, KvReleased, HoldsKv
    <3> HIDE DEF c
    <3>2. load' \in [Backend -> Int] /\ \A b \in Backend : load'[b] = load[b] - Loads(c, b)
      BY <1>1, <1>2, <2>2, <3>1 DEF Less, Loads, Bit, Types
    <3>3. /\ kvload' \in [Prefiller -> Int]
          /\ router = "least_load" =>
               \A p \in Prefiller : kvload'[p] = kvload[p] - KvLoads(c, p)
      BY <1>1, <1>2, <2>2, <3>1 DEF Less, KvLoads, Bit, Types
    <3>4. router # "least_load" =>
            \A p \in Prefiller : kvload'[p] >= kvload[p] - Prefilling(c, p)
      BY <2>2, <3>1 DEF Less, Prefilling, Bit, Types
    <3> QED BY <3>2, <3>3, <3>4
  <2> QED BY <2>1, <2>2
<1>6. /\ toAbort' \in [Prefiller -> SUBSET (Request \X Nat)]
      /\ \A p \in Prefiller : toAbort'[p] \subseteq toAbort[p] \cup {<<r, c.round>>}
  BY AbortsOwnRound DEF Types
<1>7. /\ d.pc = "done" \/ c.round < d.round
      /\ c.round <= d.round /\ c.pc # "done"
      /\ requestNum' = requestNum + Counts(d) - Counts(c)
  <2>1. Counts(c) = 1 /\ Counts(d) = IF d.pc = "done" THEN 0 ELSE 1
    BY DEF Vacates, Counts, Bit
  <2> QED BY <1>1, <2>1 DEF Vacates, Types
<1>8. Settled(r, c, d)
  <2>1. /\ \A b \in Backend : load[b] \in Int /\ Loads(c, b) \in Int
        /\ \A p \in Prefiller : kvload[p] \in Int /\ KvLoads(c, p) \in Int
                                /\ Prefilling(c, p) \in Int
    BY DEF Types, Loads, KvLoads, Prefilling, Bit
  <2> HIDE DEF c
  <2> QED BY <1>4, <1>5, <1>6, <1>7, <2>1 DEF Settled
<1> QED BY <1>3, <1>8 DEF Good

(***************************************************************************)
(* The actions on a request                                                *)
(***************************************************************************)
LEMMA Waiting ==
    ASSUME Types, NEW r \in Request, Sound(r, req[r]),
           Start(r) \/ Vanish(r) \/ Check(r) \/ Wake(r) \/ PickNothing(r)
    PROVE  Change(r)
<1> DEFINE c == req[r]
<1>1. c \in Context /\ c.round \in Nat
  BY FieldTypes DEF Types
<1>2. Calm
  BY DEF Calm, shared, Start, Vanish, Check, Wake, PickNothing
<1>3. {"look", "wait", "gone", "pick", "close"} \subseteq Control
  BY DEF Control
<1> SUFFICES \E d \in Context : Goto(r, d) /\ Wanders(d, c)
  BY <1>2, WanderingIsGood DEF Change
<1> DEFINE Leads(d) == d \in Context /\ Wanders(d, c)
<1>4. ASSUME NEW pc \in {"look", "wait", "gone", "pick"},
             c.pc \in {"created", "look", "wait", "pick"}
      PROVE  Leads(Jump(c, pc))
  <2>1. PICK d : d = Jump(c, pc)
    OBVIOUS
  <2>2. d \in Context /\ d.pc = pc /\ Same(d, c)
    BY <1>1, <1>3, <1>4, <2>1, Jumps
  <2>3. Wanders(d, c)
    BY <1>1, <1>4, <2>2 DEF Wanders, Same, SameText, SameServers, Place, Early
  <2> QED BY <2>1, <2>2, <2>3
<1>5. CASE Start(r)
  <2>1. FirstKind \in Kinds
    BY DEF FirstKind, Kinds
  <2>2. PICK d : d = Jump(c, "look")
    OBVIOUS
  <2>3. Leads(d) /\ Goto(r, [d EXCEPT !.kind = FirstKind])
    BY <1>4, <1>5, <2>2 DEF Start, Is
  <2>4. [d EXCEPT !.kind = FirstKind] \in Context
        /\ Wanders([d EXCEPT !.kind = FirstKind], c)
    BY <2>1, <2>3, KindSet
       DEF Wanders, Same, SameText, SameServers, SamePlace, Place
  <2> QED BY <2>3, <2>4
<1>6. CASE Vanish(r)
  BY <1>4, <1>6 DEF Vanish, Is
<1>7. CASE Check(r) \/ Wake(r)
  <2>1. c.pc \in {"look", "wait"}
    BY <1>7 DEF Check, Wake, Is
  <2>2. ASSUME TimeOut(r) PROVE \E d : Goto(r, d) /\ Leads(d)
    <3>1. PICK y : y = Yield(c, "close")
      OBVIOUS
    <3>2. /\ y \in Context /\ y.pc = "yield" /\ y.then = "close" /\ Same(y, c)
          /\ Goto(r, [y EXCEPT !.phase = "failed"])
      BY <1>1, <1>3, <2>2, <3>1, Yields DEF TimeOut
    <3>3. [y EXCEPT !.phase = "failed"] \in Context
      BY <3>2, SetPhase
    <3>4. Wanders([y EXCEPT !.phase = "failed"], c)
      BY <1>1, <2>1, <3>2
         DEF Context, Wanders, Same, SameText, SameServers, Place, Early
    <3> QED BY <3>2, <3>3, <3>4
  <2>3. Leads(StartWait(Jump(c, "wait")))
    <3>1. PICK d : d = Jump(c, "wait")
      OBVIOUS
    <3>2. Leads(d)
      BY <1>4, <2>1, <3>1
    <3>3. PICK e : e = StartWait(d)
      OBVIOUS
    <3>4. e \in Context /\ SamePlace(e, d) /\ Same(e, d)
      BY <3>2, <3>3, Waits
    <3>5. Wanders(e, c)
      BY <3>2, <3>4 DEF Wanders, Same, SameText, SameServers, SamePlace, Place
    <3> QED BY <3>1, <3>3, <3>4, <3>5
  <2>4. Leads([c EXCEPT !.kind = "decode"])
    <3>1. PICK d : d = [c EXCEPT !.kind = "decode"]
      OBVIOUS
    <3>2. d \in Context /\ Same(d, c) /\ SamePlace(d, c)
      BY <1>1, <3>1, KindSet DEF Kinds
    <3>3. Wanders(d, c)
      BY <1>1, <2>1, <3>2
         DEF Wanders, Same, SameText, SameServers, SamePlace, Place, Early
    <3> QED BY <3>1, <3>2, <3>3
  <2>5. Leads(Beat(c, "look"))
    BY <1>1, <2>1, Beats DEF Wanders, Same, SameText, SameServers, Place, Early
  <2>6. Leads(Jump(c, "look")) /\ Leads(Jump(c, "pick"))
    BY <1>4, <2>1
  <2> HIDE DEF Leads
  <2>7. \E d : Goto(r, d) /\ Leads(d)
    BY <1>7, <2>2, <2>3, <2>4, <2>5, <2>6 DEF Check, Wake
  <2> QED BY <2>7 DEF Leads
<1>8. CASE PickNothing(r)
  <2>1. PICK d : d = StartWait(NextRound(Look(c)))
    OBVIOUS
  <2>2. Goto(r, [d EXCEPT !.kv = None]) /\ c.pc = "pick"
    BY <1>8, <2>1 DEF PickNothing, Is
  <2>3. /\ d \in Context /\ Place(d) = "look" /\ d.pc \in {"look", "yield"}
        /\ SameText(d, c) /\ SameServers(d, c)
        /\ d.start = c.start /\ d.round = c.round + 1
    BY <1>1, <2>1, Looks, Rounds, Waits
       DEF Same, SameText, SameServers, SamePlace, Place
  <2>4. [d EXCEPT !.kv = None] \in Context
    BY <2>3, SetKv
  <2>5. Wanders([d EXCEPT !.kv = None], c)
    BY <1>1, <2>2, <2>3
       DEF Context, Wanders, SameText, SameServers, Place, Early
  <2> QED BY <2>2, <2>4, <2>5
<1> QED BY <1>5, <1>6, <1>7, <1>8

\* The actions that end a wait or the request,
LEMMA Resting ==
    ASSUME Types, NEW r \in Request, Sound(r, req[r]),
           Taken(r) \/ Expire(r) \/ End(r)
    PROVE  Change(r)
<1> DEFINE c == req[r]
<1>1. c \in Context
  BY DEF Types
<1>2. Calm
  BY DEF Calm, shared, Taken, Expire, End
<1> SUFFICES \E d \in Context : Goto(r, d) /\ Rests(d, c)
  BY <1>2, RestingIsGood DEF Change
<1>3. CASE Taken(r)
  <2>1. c.pc = "yield" /\ c.then \in Control \ {"idle", "done", "prefill", "yield"}
    BY <1>1, <1>3, FieldTypes DEF Taken, Is, Sound, Late
  <2>2. Rests(Jump(c, c.then), c) /\ Jump(c, c.then) \in Context
    BY <1>1, <2>1, Jumps DEF Rests, Same, SameText, SameServers, Place, Counts, Bit
  <2> QED BY <1>3, <2>2 DEF Taken
<1>4. CASE Expire(r)
  <2>1. Goto(r, [c EXCEPT !.window = "late"])
    BY <1>4 DEF Expire
  <2>2. [c EXCEPT !.window = "late"] \in Context
    BY <1>1, SetWindow
  <2>3. Rests([c EXCEPT !.window = "late"], c)
    BY <1>1 DEF Context, Rests, Same, SameText, SameServers, Place, Counts, Bit
  <2> QED BY <2>1, <2>2, <2>3
<1>5. CASE End(r)
  <2>1. "finish" \in Control /\ c.pc = "decode"
    BY <1>5 DEF Control, End, Is
  <2>2. Rests(Jump(c, "finish"), c) /\ Jump(c, "finish") \in Context
    BY <1>1, <2>1, Jumps DEF Rests, Place, Counts, Bit
  <2>3. PICK y : y = Yield(c, "finish")
    OBVIOUS
  <2>4. y \in Context /\ Same(y, c) /\ y.pc = "yield" /\ y.then = "finish"
    BY <1>1, <2>1, <2>3, Yields
  <2>5. [y EXCEPT !.doneReceived = TRUE] \in Context
    BY <2>4, SetFlag
  <2>6. Rests([y EXCEPT !.doneReceived = TRUE], c)
    BY <2>1, <2>4
       DEF Context, Rests, Same, SameText, SameServers, Place, Counts, Bit
  <2> QED BY <1>5, <2>2, <2>3, <2>5, <2>6 DEF End
<1> QED BY <1>3, <1>4, <1>5

\* The finally of the generator.
LEMMA LeavingIsGood ==
    ASSUME Types, NEW r \in Request, Sound(r, req[r]),
           NEW phase \in {"running", "completed", "failed", "cancelled"},
           Leave(r, phase), req[r].pc \notin {"idle", "done"},
           toAbort' = toAbort \/ toAbort' = Abort(r),
           IF req[r].pc = "prefill"
             THEN /\ load' = Less(load, req[r].prefiller, req[r].prefillCounted)
                  /\ kvload' = Less(kvload, req[r].prefiller, req[r].prefillCounted)
             ELSE ReleaseCurrent(r)
    PROVE  Change(r)
<1> DEFINE c == req[r]
<1>1. c \in Context /\ "done" \in Control
  BY DEF Types, Control
<1>2. PICK j : j = Jump(c, "done")
  OBVIOUS
<1>3. PICK f : f = Free(j)
  OBVIOUS
<1>4. j \in Context /\ j.pc = "done" /\ Same(j, c)
  BY <1>1, <1>2, Jumps
<1>5. f \in Context /\ SamePlace(f, j) /\ SameText(f, j)
      /\ f.prefiller = None /\ f.backend = None /\ f.round = j.round
  BY <1>3, <1>4, Frees
<1>6. PICK d : d = [f EXCEPT !.phase = phase]
  OBVIOUS
<1>7. d \in Context
  BY <1>5, <1>6, SetPhase
<1>8. d.pc = "done" /\ SameText(d, c) /\ d.prefiller = None /\ d.backend = None
      /\ d.round = c.round
  BY <1>4, <1>5, <1>6 DEF Context, SamePlace, Same, SameText
<1>9. Vacates(d, c)
  BY <1>8 DEF Vacates, Leave
<1>10. Good(r, d)
  BY <1>7, <1>9, VacatingIsGood
<1> QED BY <1>2, <1>3, <1>6, <1>10 DEF Change, Leave

\* those that leave the servers,
LEMMA Leaving ==
    ASSUME Types, NEW r \in Request, Sound(r, req[r]),
           \/ CloseYielding(r) \/ Cancel(r) \/ CancelPrefill(r) \/ Finish(r)
           \/ PrefillRefuses(r) \/ BreakAfterDone(r) \/ Refuse(r)
    PROVE  Change(r)
<1>1. req[r].phase \in {"running", "completed", "failed", "cancelled"}
  BY FieldTypes DEF Types
<1>2. CASE CloseYielding(r)
  BY <1>1, <1>2, LeavingIsGood DEF CloseYielding, Close, Is
<1>3. CASE Cancel(r)
  BY <1>3, LeavingIsGood DEF Cancel, Close
<1>4. CASE CancelPrefill(r)
  BY <1>4, LeavingIsGood DEF CancelPrefill, Is
<1>5. CASE Finish(r)
  BY <1>1, <1>5, LeavingIsGood DEF Finish, Close
<1>6. CASE PrefillRefuses(r)
  BY <1>6, LeavingIsGood DEF PrefillRefuses, DropPrefill, Is
<1>7. CASE BreakAfterDone(r)
  BY <1>7, LeavingIsGood DEF BreakAfterDone, Close, Is
<1>8. CASE Refuse(r)
  BY <1>8, LeavingIsGood DEF Refuse, Close, Is
<1> QED BY <1>2, <1>3, <1>4, <1>5, <1>6, <1>7, <1>8

\* Another round: on its way back to the look-out a context loses its servers.
LEMMA Retrying ==
    ASSUME Types, NEW r \in Request, Sound(r, req[r]),
           PrefilledInVain(r) \/ PrefillFails(r) \/ Recompute(r) \/ Break(r)
    PROVE  Change(r)
<1> DEFINE c == req[r]
<1>1. c \in Context /\ c.round \in Nat
  BY FieldTypes DEF Types
<1>2. PICK w : w = StartWait(NextRound(Look(c)))
  OBVIOUS
<1>3. /\ w \in Context /\ Place(w) = "look" /\ w.pc \in {"look", "yield"}
      /\ SameText(w, c) /\ SameServers(w, c)
      /\ w.start = c.start /\ w.round = c.round + 1
  BY <1>1, <1>2, Looks, Rounds, Waits
     DEF Same, SameText, SameServers, SamePlace, Place
<1> DEFINE Back(d) == /\ d \in Context /\ Place(d) = "look" /\ d.pc \in {"look", "yield"}
                      /\ d.prefiller = None /\ d.backend = None
                      /\ SameText(d, c) /\ d.round = c.round + 1
<1>4. PICK f : f = Free(w)
  OBVIOUS
<1>5. Back(f) /\ f.start = c.start
  BY <1>3, <1>4, Frees DEF SamePlace, SameText, Place
<1>6. CASE PrefilledInVain(r) \/ PrefillFails(r)
  <2>1. /\ c.pc = "prefill" /\ DropPrefill(r) /\ requestNum' = requestNum
        /\ c.start = c.generated
    BY <1>6 DEF PrefilledInVain, PrefillFails, Is, Sound, Place, Late
  <2>2. ASSUME NEW d, Back(d), d.start = c.start PROVE Good(r, d)
    BY <1>1, <2>1, <2>2, VacatingIsGood DEF Vacates, DropPrefill
  <2>3. CASE PrefillFails(r)
    BY <1>2, <1>4, <1>5, <2>2, <2>3 DEF PrefillFails, Change
  <2>4. CASE PrefilledInVain(r)
    <3>1. PICK kv \in {c.kv, ThisRound(r)} : Goto(r, [f EXCEPT !.kv = kv])
      BY <1>2, <1>4, <2>4 DEF PrefilledInVain
    <3>2. kv \in (Request \X Nat) \cup {None}
      BY <1>1, FieldTypes DEF ThisRound
    <3>3. [f EXCEPT !.kv = kv] \in Context
      BY <1>5, <3>2, SetKv
    <3>4. Back([f EXCEPT !.kv = kv]) /\ [f EXCEPT !.kv = kv].start = c.start
      BY <1>5, <3>3 DEF Context, SameText, Place
    <3> QED BY <2>2, <3>1, <3>4 DEF Change
  <2> QED BY <1>6, <2>3, <2>4
<1>7. ASSUME NEW d, Back(d), d.start = c.generated, requestNum' = requestNum,
             c.pc \in {"recompute", "decode"}, toAbort' = Abort(r), ReleaseCurrent(r)
      PROVE  Good(r, d)
  BY <1>1, <1>7, VacatingIsGood DEF Vacates
<1>8. CASE Recompute(r)
  <2>1. FirstKind \in Kinds /\ "look" \in Control
    BY DEF FirstKind, Kinds, Control
  <2>2. PICK n : n = NextRequest(NextRound(c))
    OBVIOUS
  <2>3. n \in Context /\ SameText(n, c) /\ n.start = c.generated /\ n.round = c.round + 1
    BY <1>1, <2>2, Rounds, Resumes DEF SameText
  <2>4. PICK j : j = Jump(Free(n), "look")
    OBVIOUS
  <2>5. Free(n) \in Context
    BY <2>3, Frees
  <2>6. Back(j) /\ j.start = c.generated /\ j.pc = "look"
    BY <2>1, <2>3, <2>4, <2>5, Frees, Jumps DEF Same, SameText, SameServers, Place
  <2>7. PICK d : d = [j EXCEPT !.kind = FirstKind]
    OBVIOUS
  <2>8. d \in Context /\ Same(d, j) /\ SamePlace(d, j)
    BY <2>1, <2>6, <2>7, KindSet
  <2>9. Back(d) /\ d.start = c.generated
    BY <2>6, <2>8 DEF Same, SameText, SameServers, SamePlace, Place
  <2> HIDE DEF Back
  <2>10. Good(r, d)
    BY <1>7, <1>8, <2>9 DEF Recompute, Is
  <2> QED BY <1>8, <2>2, <2>4, <2>7, <2>10 DEF Recompute, Change
<1>9. CASE Break(r)
  <2>1. PICK n : n = NextRequest(w)
    OBVIOUS
  <2>2. /\ n \in Context /\ SamePlace(n, w) /\ SameText(n, w)
        /\ n.start = w.generated /\ n.round = w.round
    BY <1>3, <2>1, Resumes
  <2>3. Back(Free(n)) /\ Free(n).start = c.generated
    BY <1>3, <2>2, Frees DEF SamePlace, SameText, Place
  <2> HIDE DEF Back
  <2>4. Good(r, Free(n))
    BY <1>7, <1>9, <2>3 DEF Break, Recover, Is
  <2> QED BY <1>2, <1>9, <2>1, <2>4 DEF Break, Recover, Change
<1> QED BY <1>6, <1>8, <1>9

\* What the router offers: a backend of the pool that was asked for, and one
\* that is counted if the router is least_load.
LEMMA OffersArePooled ==
    ASSUME Types, NEW kind \in Kinds, NEW s \in Choices(kind)
    PROVE  /\ s.server \in Pool[kind] /\ s.counted \in BOOLEAN
           /\ router = "least_load" => s.counted
           /\ Record(kind, s.server) \in [Kinds -> Backend \cup {None}]
           /\ \A k \in Kinds : Record(kind, s.server)[k] \in Pool[k] \cup {None}
<1>1. None \notin Backend /\ Pool[kind] \subseteq Backend
  BY BackendAssumption DEF Backend, Pool, Kinds
<1>2. /\ s.server \in Pool[kind] /\ s.counted \in BOOLEAN
      /\ router = "least_load" => s.counted
  <2>1. CASE router = "session_affinity" /\ session[kind] \in up
    <3>1. s = [server |-> session[kind], counted |-> FALSE]
      BY <2>1 DEF Choices
    <3>2. session[kind] \in Pool[kind] \cup {None} /\ session[kind] # None
      BY <1>1, <2>1 DEF Types, Around
    <3> QED BY <2>1, <3>1, <3>2
  <2>2. CASE ~(router = "session_affinity" /\ session[kind] \in up)
    <3>1. PICK v \in Pool[kind] \cap up : s = [server |-> v, counted |-> TRUE]
      BY <2>2 DEF Choices
    <3> QED BY <3>1
  <2> QED BY <2>1, <2>2
<1> QED BY <1>1, <1>2 DEF Record, Types, Around

\* those that take one,
LEMMA Selecting ==
    ASSUME Types, NEW r \in Request, Sound(r, req[r]),
           PickMixed(r) \/ PickPrefiller(r) \/ Prefilled(r)
    PROVE  Change(r)
<1> DEFINE c == req[r]
<1>1. /\ c \in Context /\ c.round \in Nat /\ c.start \in Nat
      /\ c.prefiller \in Prefiller \cup {None} /\ c.prefillCounted \in BOOLEAN
  BY FieldTypes DEF Types
<1>2. /\ None \notin Backend /\ Backend = Prefiller \cup Decoder \cup Mixer
      /\ Pool["prefill"] = Prefiller /\ Pool["decode"] = Decoder /\ Pool["mixed"] = Mixer
      /\ Kinds = {"prefill", "decode", "mixed"}
  BY BackendAssumption DEF Backend, Pool, Kinds
<1>3. /\ c.pc \in {"pick", "prefill"}
      /\ c.start = c.generated /\ (c.stream => c.sent = c.generated)
      /\ c.backend = None
      /\ c.pc = "pick" => c.prefiller = None
      /\ c.pc = "prefill" => /\ c.prefiller \in Prefiller /\ c.kv = None
                             /\ router = "least_load" => c.prefillCounted
  BY <1>1 DEF PickMixed, PickPrefiller, Prefilled, Is, Sound, Place, Early, Late
<1>4. PICK a : a = Attempt(c)
  OBVIOUS
<1>5. /\ a \in Context /\ a.pc = "decode" /\ a.at = c.start /\ a.start = c.start
      /\ a.generated = c.generated /\ a.sent = c.sent /\ a.stream = c.stream
      /\ a.round = c.round /\ SameServers(a, c)
  BY <1>1, <1>4, Attempts
<1>6. ASSUME NEW d, d \in Context, d.pc \in {"prefill", "decode"}, d.round = c.round,
             requestNum' = requestNum, toAbort' \in [Prefiller -> SUBSET (Request \X Nat)],
             \A p \in Prefiller : toAbort'[p] \subseteq toAbort[p],
             load' \in [Backend -> Int], kvload' \in [Prefiller -> Int],
             \A b \in Backend : load'[b] = load[b] + Loads(d, b) - Loads(c, b),
             router = "least_load" =>
               \A p \in Prefiller : kvload'[p] = kvload[p] + KvLoads(d, p) - KvLoads(c, p),
             \A p \in Prefiller : kvload'[p] >= kvload[p] + Prefilling(d, p) - Prefilling(c, p)
      PROVE  Settled(r, c, d)
  <2>1. Counts(d) = 1 /\ Counts(c) = 1
    BY <1>3, <1>6 DEF Counts, Bit
  <2>2. c.round <= d.round /\ c.pc # "done"
    BY <1>1, <1>3, <1>6
  <2> HIDE DEF c
  <2> QED BY <1>6, <2>1, <2>2 DEF Settled, Types
<1>7. CASE PickMixed(r)
  <2>1. PICK s \in Choices("mixed") :
          /\ load' = More(load, s.server, s.counted)
          /\ Goto(r, [a EXCEPT !.kv = None, !.releasedKv = TRUE,
                               !.backend = s.server, !.counted = s.counted])
          /\ c.pc = "pick" /\ UNCHANGED <<kvload, toAbort, requestNum>>
    BY <1>4, <1>7 DEF PickMixed, Is
  <2>2. s.server \in Mixer /\ s.counted \in BOOLEAN
    BY <1>2, OffersArePooled
  <2>3. PICK d : d = [a EXCEPT !.kv = None, !.releasedKv = TRUE,
                               !.backend = s.server, !.counted = s.counted]
    OBVIOUS
  <2>4. None \in (Request \X Nat) \cup {None} /\ TRUE \in BOOLEAN
        /\ s.server \in Decoder \cup Mixer \cup {None}
    BY <2>2
  <2>5. d \in Context
    BY <1>5, <2>2, <2>3, <2>4, SetKv, SetFlag, SetBackend, Zenon
  <2>6. /\ d.pc = "decode" /\ d.at = c.start /\ d.start = c.start
        /\ d.generated = c.generated /\ d.sent = c.sent /\ d.stream = c.stream
        /\ d.round = c.round /\ d.kv = None /\ d.releasedKv = TRUE
        /\ d.prefiller = None /\ d.backend = s.server /\ d.counted = s.counted
    BY <1>3, <1>5, <2>1, <2>3 DEF Context, SameServers
  <2>7. Sound(r, d)
    BY <1>2, <1>3, <2>2, <2>6 DEF Sound, Place, Early, Late
  <2>8. /\ load' \in [Backend -> Int]
        /\ \A b \in Backend : load'[b] = load[b] + Loads(d, b) - Loads(c, b)
    <3> HIDE DEF c
    <3> QED BY <1>2, <1>3, <2>1, <2>2, <2>6 DEF More, Loads, Bit, Types
  <2>9. \A p \in Prefiller :
          /\ kvload'[p] = kvload[p] + KvLoads(d, p) - KvLoads(c, p)
          /\ kvload'[p] >= kvload[p] + Prefilling(d, p) - Prefilling(c, p)
    <3> HIDE DEF c
    <3> QED BY <1>2, <1>3, <2>1, <2>6 DEF KvLoads, Prefilling, Bit, Types
  <2>10. Settled(r, c, d)
    BY <1>6, <2>1, <2>5, <2>6, <2>8, <2>9 DEF Types
  <2> QED BY <2>1, <2>3, <2>5, <2>7, <2>10 DEF Change, Good
<1>8. CASE PickPrefiller(r)
  <2>1. PICK j : j = Jump(c, "prefill")
    OBVIOUS
  <2>2. PICK s \in Choices("prefill") :
          /\ load' = More(load, s.server, s.counted)
          /\ kvload' = More(kvload, s.server, s.counted)
          /\ toAbort' = [toAbort EXCEPT ![s.server] = {}]
          /\ Goto(r, [j EXCEPT !.kv = None, !.prefiller = s.server,
                               !.prefillCounted = s.counted])
          /\ c.pc = "pick" /\ UNCHANGED requestNum
    BY <1>8, <2>1 DEF PickPrefiller, Is
  <2>3. /\ s.server \in Prefiller /\ s.counted \in BOOLEAN
        /\ router = "least_load" => s.counted
    BY <1>2, OffersArePooled
  <2>4. "prefill" \in Control
    BY DEF Control
  <2>5. j \in Context /\ j.pc = "prefill" /\ Same(j, c)
    BY <1>1, <2>1, <2>4, Jumps
  <2>6. PICK d : d = [j EXCEPT !.kv = None, !.prefiller = s.server,
                               !.prefillCounted = s.counted]
    OBVIOUS
  <2>7. None \in (Request \X Nat) \cup {None} /\ s.server \in Prefiller \cup {None}
    BY <2>3
  <2>8. d \in Context
    BY <2>3, <2>5, <2>6, <2>7, SetKv, SetFlag, SetPrefiller, Zenon
  <2>9. /\ d.pc = "prefill" /\ d.start = c.start
        /\ d.generated = c.generated /\ d.sent = c.sent /\ d.stream = c.stream
        /\ d.round = c.round /\ d.kv = None
        /\ d.prefiller = s.server /\ d.backend = None /\ d.prefillCounted = s.counted
    BY <1>3, <2>2, <2>5, <2>6 DEF Context, Same, SameText, SameServers
  <2>10. Sound(r, d)
    BY <1>2, <1>3, <2>3, <2>9 DEF Sound, Place, Early, Late
  <2>11. /\ load' \in [Backend -> Int]
         /\ \A b \in Backend : load'[b] = load[b] + Loads(d, b) - Loads(c, b)
    <3> HIDE DEF c
    <3> QED BY <1>2, <1>3, <2>2, <2>3, <2>9 DEF More, Loads, Bit, Types
  <2>12. /\ kvload' \in [Prefiller -> Int]
         /\ router = "least_load" =>
              \A p \in Prefiller : kvload'[p] = kvload[p] + KvLoads(d, p) - KvLoads(c, p)
    <3> HIDE DEF c
    <3> QED BY <1>2, <1>3, <2>2, <2>3, <2>9 DEF More, KvLoads, Bit, Types
  <2>13. \A p \in Prefiller : kvload'[p] >= kvload[p] + Prefilling(d, p) - Prefilling(c, p)
    <3> HIDE DEF c
    <3> QED BY <1>2, <1>3, <2>2, <2>3, <2>9 DEF More, Prefilling, Bit, Types
  <2>14. /\ toAbort' \in [Prefiller -> SUBSET (Request \X Nat)]
         /\ \A p \in Prefiller : toAbort'[p] \subseteq toAbort[p]
    BY <2>2 DEF Types
  <2>15. Settled(r, c, d)
    BY <1>6, <2>2, <2>8, <2>9, <2>11, <2>12, <2>13, <2>14
  <2> QED BY <2>2, <2>6, <2>8, <2>10, <2>15 DEF Change, Good
<1>9. CASE Prefilled(r)
  <2>1. PICK s \in Choices("decode"), kv \in {c.kv, ThisRound(r)} :
          /\ load' = More(Less(load, c.prefiller, c.prefillCounted), s.server, s.counted)
          /\ Goto(r, [a EXCEPT !.kv = kv, !.releasedKv = FALSE,
                               !.backend = s.server, !.counted = s.counted])
          /\ c.pc = "prefill" /\ UNCHANGED <<kvload, toAbort, requestNum>>
    BY <1>4, <1>9 DEF Prefilled, Is
  <2>2. s.server \in Decoder /\ s.counted \in BOOLEAN
    BY <1>2, OffersArePooled
  <2>3. PICK d : d = [a EXCEPT !.kv = kv, !.releasedKv = FALSE,
                               !.backend = s.server, !.counted = s.counted]
    OBVIOUS
  <2>4. kv \in (Request \X Nat) \cup {None} /\ FALSE \in BOOLEAN
        /\ s.server \in Decoder \cup Mixer \cup {None}
    BY <1>1, <1>3, <2>1, <2>2 DEF ThisRound
  <2>5. d \in Context
    BY <1>5, <2>2, <2>3, <2>4, SetKv, SetFlag, SetBackend, Zenon
  <2>6. /\ d.pc = "decode" /\ d.at = c.start /\ d.start = c.start
        /\ d.generated = c.generated /\ d.sent = c.sent /\ d.stream = c.stream
        /\ d.round = c.round /\ d.kv = kv /\ d.releasedKv = FALSE
        /\ d.prefiller = c.prefiller /\ d.backend = s.server /\ d.counted = s.counted
    BY <1>5, <2>3 DEF Context, SameServers
  <2>7. kv = None \/ kv = <<r, c.round>>
    BY <1>3, <2>1 DEF ThisRound
  <2>8. c.prefiller # None /\ s.server # None
    BY <1>2, <1>3, <2>1, <2>2
  <2>9. Sound(r, d)
    BY <1>3, <2>6, <2>7, <2>8 DEF Sound, Place, Early, Late
  <2>10. /\ load' \in [Backend -> Int]
         /\ \A b \in Backend : load'[b] = load[b] + Loads(d, b) - Loads(c, b)
    <3> DEFINE less == Less(load, c.prefiller, c.prefillCounted)
    <3>1. /\ less \in [Backend -> Int]
          /\ \A b \in Backend : less[b] = load[b] - Loads(c, b)
      BY <1>1, <1>2, <1>3, <2>1 DEF Less, Loads, Bit, Types
    <3>2. \A b \in Backend : Loads(c, b) \in Int /\ load[b] \in Int
      BY DEF Loads, Bit, Types
    <3>3. load' = More(less, s.server, s.counted)
      BY <2>1
    <3>4. \A b \in Backend : Loads(d, b) = IF s.counted /\ s.server = b THEN 1 ELSE 0
      BY <2>2, <2>6 DEF Loads, Bit
    <3> HIDE DEF c, less
    <3> QED BY <1>2, <2>2, <3>1, <3>2, <3>3, <3>4 DEF More
  <2>11. \A p \in Prefiller :
           /\ kvload'[p] = kvload[p] + KvLoads(d, p) - KvLoads(c, p)
           /\ kvload'[p] >= kvload[p] + Prefilling(d, p) - Prefilling(c, p)
    <3> HIDE DEF c
    <3> QED BY <1>3, <2>1, <2>6 DEF KvLoads, Prefilling, Bit, Types
  <2>12. Settled(r, c, d)
    BY <1>6, <2>1, <2>5, <2>6, <2>10, <2>11 DEF Types
  <2> QED BY <2>1, <2>3, <2>5, <2>9, <2>12 DEF Change, Good
<1> QED BY <1>7, <1>8, <1>9

\* A chunk that makes e of c.
Streams(e, c) ==
    /\ e.pc = "recompute" \/ (e.pc = "yield" /\ e.then \in {"decode", "recompute"})
    /\ SameServers(e, c) /\ e.kv = c.kv /\ e.round = c.round /\ e.start = c.start
    /\ e.stream = c.stream
    /\ c.stream => /\ e.at - c.at = e.generated - c.generated
                   /\ e.sent - c.sent = e.generated - c.generated

\* (what is passed on to the client is counted as it is passed)
LEMMA StreamingIsGood ==
    ASSUME Types, NEW r \in Request, Sound(r, req[r]),
           NEW e \in Context, Streams(e, req[r]), Receive(r, e)
    PROVE  Change(r)
<1> DEFINE c == req[r]
<1>1. /\ c \in Context /\ c.round \in Nat /\ c.pc = "decode"
      /\ c.prefiller \in Prefiller \cup {None}
      /\ c.releasedKv \in BOOLEAN /\ c.stream \in BOOLEAN
      /\ c.at \in Nat /\ c.sent \in Nat /\ c.generated \in Nat
      /\ e.at \in Nat /\ e.sent \in Nat /\ e.generated \in Nat
  BY FieldTypes DEF Types, Receive, Is
<1>2. PICK d : d = [e EXCEPT !.answered = TRUE, !.releasedKv = ReleasedKv(r)]
  OBVIOUS
<1>3. TRUE \in BOOLEAN /\ ReleasedKv(r) \in BOOLEAN
  BY <1>1 DEF ReleasedKv, HoldsKv
<1>4. d \in Context
  BY <1>2, <1>3, SetFlag, Zenon
<1>5. /\ SamePlace(d, e) /\ SameText(d, e) /\ d.prefiller = c.prefiller
      /\ d.backend = c.backend /\ d.counted = c.counted
      /\ d.kv = c.kv /\ d.round = c.round /\ d.start = c.start
      /\ d.releasedKv = (c.releasedKv \/ (/\ c.prefiller # None /\ ~c.releasedKv
                                          /\ router = "least_load"))
  BY <1>2, <1>3
     DEF Context, SamePlace, SameText, Streams, SameServers, ReleasedKv, HoldsKv
<1>6. Sound(r, d)
  BY <1>1, <1>5
     DEF Sound, SamePlace, SameText, Streams, Place, Early, Late
<1>7. /\ kvload' \in [Prefiller -> Int]
      /\ router = "least_load" =>
           \A p \in Prefiller : kvload'[p] = kvload[p] + KvLoads(d, p) - KvLoads(c, p)
  <2>1. /\ kvload' = Less(kvload, c.prefiller,
             c.prefiller # None /\ ~c.releasedKv /\ router = "least_load")
        /\ d.pc # "prefill" /\ None \notin Prefiller
    BY <1>5, BackendAssumption
       DEF Receive, KvReleased, HoldsKv, Streams, SamePlace, Backend
  <2>2. \A p \in Prefiller : /\ KvLoads(d, p) = Bit(c.prefiller = p /\ ~d.releasedKv)
                             /\ KvLoads(c, p) = Bit(c.prefiller = p /\ ~c.releasedKv)
    BY <1>1, <1>5, <2>1 DEF KvLoads
  <2> HIDE DEF c
  <2>3. CASE c.prefiller # None /\ ~c.releasedKv /\ router = "least_load"
    <3>1. c.prefiller \in Prefiller /\ d.releasedKv
      BY <1>1, <1>5, <2>3
    <3>2. kvload' = [kvload EXCEPT ![c.prefiller] = @ - 1]
      BY <2>1, <2>3 DEF Less
    <3> QED BY <2>2, <2>3, <3>1, <3>2 DEF Bit, Types
  <2>4. CASE ~(c.prefiller # None /\ ~c.releasedKv /\ router = "least_load")
    <3>1. kvload' = kvload
      BY <2>1, <2>4 DEF Less
    <3>2. router = "least_load" => \A p \in Prefiller : KvLoads(d, p) = KvLoads(c, p)
      BY <1>1, <1>5, <2>1, <2>2, <2>4 DEF Bit
    <3>3. \A p \in Prefiller : KvLoads(c, p) \in Int
      BY <2>2 DEF Bit
    <3> QED BY <3>1, <3>2, <3>3 DEF Types
  <2> QED BY <2>3, <2>4
<1>8. Settled(r, c, d)
  <2>1. /\ Counts(d) = 1 /\ Counts(c) = 1 /\ d.pc # "prefill"
        /\ UNCHANGED <<load, toAbort, requestNum>>
    BY <1>1, <1>5 DEF Streams, SamePlace, Counts, Bit, Receive
  <2>2. /\ router # "least_load" => kvload' = kvload
        /\ \A p \in Prefiller : Prefilling(d, p) = 0 /\ Prefilling(c, p) = 0
    BY <1>1, <2>1 DEF Receive, KvReleased, HoldsKv, Less, Prefilling, Bit
  <2>3. \A b \in Backend : Loads(d, b) = Loads(c, b) /\ Loads(c, b) \in Int
    BY <1>1, <1>5, <2>1 DEF Loads, Bit
  <2> HIDE DEF c
  <2> QED BY <1>1, <1>5, <1>7, <2>1, <2>2, <2>3 DEF Settled, Types
<1> QED BY <1>2, <1>4, <1>6, <1>8 DEF Receive, Change, Good

\* those that pass on what a backend sends,
LEMMA Receiving ==
    ASSUME Types, NEW r \in Request, Sound(r, req[r]),
           \/ Token(r) \/ Metadata(r) \/ ToolCall(r) \/ DoneFrame(r)
           \/ Body(r) \/ Piece(r) \/ Recomputed(r)
    PROVE  Change(r)
<1> DEFINE c == req[r]
<1>1. /\ c \in Context /\ c.at \in Nat /\ c.sent \in Nat /\ c.generated \in Nat
      /\ "decode" \in Control /\ "recompute" \in Control
  BY FieldTypes DEF Types, Control
<1>2. PICK y : y = Yield(c, "decode")
  OBVIOUS
<1>3. y \in Context /\ y.pc = "yield" /\ y.then = "decode" /\ Same(y, c)
  BY <1>1, <1>2, Yields
<1>4. CASE Token(r)
  <2>1. PICK last \in BOOLEAN :
          /\ c.stream
          /\ Receive(r, [y EXCEPT !.at = @ + 1, !.generated = @ + 1, !.sent = @ + 1,
                                  !.finished = last, !.ended = @ \/ last])
    BY <1>2, <1>4 DEF Token
  <2>2. PICK at : at = [y EXCEPT !.at = @ + 1]
    OBVIOUS
  <2>3. /\ at \in Context /\ at.at = c.at + 1 /\ at.pc = "yield" /\ at.then = "decode"
        /\ SameServers(at, c) /\ at.kv = c.kv /\ at.round = c.round /\ at.start = c.start
        /\ at.stream = c.stream /\ at.generated = c.generated /\ at.sent = c.sent
    BY <1>1, <1>3, <2>2 DEF Context, Same, SameText, SameServers
  <2>4. PICK g : g = [at EXCEPT !.generated = @ + 1]
    OBVIOUS
  <2>5. /\ g \in Context /\ g.at = c.at + 1 /\ g.pc = "yield" /\ g.then = "decode"
        /\ SameServers(g, c) /\ g.kv = c.kv /\ g.round = c.round /\ g.start = c.start
        /\ g.stream = c.stream /\ g.generated = c.generated + 1 /\ g.sent = c.sent
    BY <1>1, <2>3, <2>4 DEF Context, SameServers
  <2>6. PICK t : t = [g EXCEPT !.sent = @ + 1]
    OBVIOUS
  <2>7. /\ t \in Context /\ t.at = c.at + 1 /\ t.pc = "yield" /\ t.then = "decode"
        /\ SameServers(t, c) /\ t.kv = c.kv /\ t.round = c.round /\ t.start = c.start
        /\ t.stream = c.stream /\ t.generated = c.generated + 1 /\ t.sent = c.sent + 1
    BY <1>1, <2>5, <2>6 DEF Context, SameServers
  <2>8. PICK e : e = [t EXCEPT !.finished = last, !.ended = @ \/ last]
    OBVIOUS
  <2>9. PICK f : f = [t EXCEPT !.finished = last]
    OBVIOUS
  <2>10. /\ f \in Context /\ e = [f EXCEPT !.ended = @ \/ last]
         /\ (f.ended \/ last) \in BOOLEAN
    BY <2>7, <2>8, <2>9 DEF Context
  <2>11. e \in Context
    BY <2>10, SetFlag
  <2>12. Streams(e, c)
    BY <1>1, <2>7, <2>8 DEF Context, SameServers, Streams
  <2>13. Receive(r, e)
    BY <2>1, <2>2, <2>4, <2>6, <2>8
  <2> QED BY <2>11, <2>12, <2>13, StreamingIsGood
<1>5. ASSUME NEW e, e \in Context, SamePlace(e, y), Same(e, y) PROVE Streams(e, c)
  BY <1>1, <1>3, <1>5 DEF Streams, SamePlace, Same, SameText, SameServers
<1>6. CASE Metadata(r)
  <2>1. Receive(r, y)
    BY <1>2, <1>6 DEF Metadata
  <2>2. Streams(y, c)
    BY <1>3, <1>5 DEF SamePlace, Same, SameText, SameServers
  <2> QED BY <1>3, <2>1, <2>2, StreamingIsGood
<1>7. CASE ToolCall(r) \/ Piece(r)
  <2>1. Receive(r, [y EXCEPT !.opaque = TRUE])
    BY <1>2, <1>7 DEF ToolCall, Piece
  <2>2. [y EXCEPT !.opaque = TRUE] \in Context
    BY <1>3, SetFlag
  <2>3. Streams([y EXCEPT !.opaque = TRUE], c)
    BY <1>3, <1>5, <2>2 DEF Context, SamePlace, Same, SameText, SameServers
  <2> QED BY <2>1, <2>2, <2>3, StreamingIsGood
<1>8. CASE DoneFrame(r)
  <2>1. Receive(r, [y EXCEPT !.doneReceived = TRUE])
    BY <1>2, <1>8 DEF DoneFrame
  <2>2. [y EXCEPT !.doneReceived = TRUE] \in Context
    BY <1>3, SetFlag
  <2>3. Streams([y EXCEPT !.doneReceived = TRUE], c)
    BY <1>3, <1>5, <2>2 DEF Context, SamePlace, Same, SameText, SameServers
  <2> QED BY <2>1, <2>2, <2>3, StreamingIsGood
<1>9. CASE Body(r)
  <2>1. ~c.stream /\ Receive(r, [y EXCEPT !.generated = @ + 1, !.finished = TRUE])
    BY <1>2, <1>9 DEF Body
  <2>2. PICK g : g = [y EXCEPT !.generated = @ + 1]
    OBVIOUS
  <2>3. /\ g \in Context /\ g.pc = "yield" /\ g.then = "decode"
        /\ SameServers(g, c) /\ g.kv = c.kv /\ g.round = c.round /\ g.start = c.start
        /\ g.stream = c.stream
    BY <1>1, <1>3, <2>2 DEF Context, Same, SameText, SameServers
  <2>4. PICK e : e = [g EXCEPT !.finished = TRUE]
    OBVIOUS
  <2>5. e \in Context
    BY <2>3, <2>4, SetFlag
  <2>6. Streams(e, c)
    BY <2>1, <2>3, <2>4 DEF Context, Streams, SameServers
  <2>7. Receive(r, e)
    BY <2>1, <2>2, <2>4
  <2> QED BY <2>5, <2>6, <2>7, StreamingIsGood
<1>10. CASE Recomputed(r)
  <2>1. PICK j : j = Jump(c, "recompute")
    OBVIOUS
  <2>2. j \in Context /\ Streams(j, c)
    BY <1>1, <2>1, Jumps DEF Streams, Same, SameText
  <2>3. PICK z : z = Yield(c, "recompute")
    OBVIOUS
  <2>4. z \in Context /\ z.pc = "yield" /\ z.then = "recompute" /\ Same(z, c)
    BY <1>1, <2>3, Yields
  <2>5. [z EXCEPT !.opaque = TRUE] \in Context
    BY <2>4, SetFlag
  <2>6. Streams([z EXCEPT !.opaque = TRUE], c)
    BY <1>1, <2>4 DEF Context, Streams, Same, SameText, SameServers
  <2>7. Receive(r, j) \/ Receive(r, [z EXCEPT !.opaque = TRUE])
    BY <1>10, <2>1, <2>3 DEF Recomputed
  <2> QED BY <2>2, <2>5, <2>6, <2>7, StreamingIsGood
<1> QED BY <1>4, <1>6, <1>7, <1>8, <1>9, <1>10

\* and the first one change one context, and the counters by what it holds.
LEMMA Arriving ==
    ASSUME Types, NEW r \in Request, Sound(r, req[r]),
           NEW stream \in BOOLEAN, Arrive(r, stream)
    PROVE  Change(r)
<1> DEFINE c == req[r]
<1>1. c \in Context /\ c.pc = "idle" /\ c.round \in Nat
  BY FieldTypes DEF Types, Arrive, Is
<1>2. c.prefiller = None /\ c.backend = None /\ c.start = c.generated
      /\ c.sent = c.generated
  BY <1>1 DEF Sound, Place, Early, Late
<1>3. PICK j : j = Jump(c, "created")
  OBVIOUS
<1>4. j \in Context /\ j.pc = "created" /\ Same(j, c)
  BY <1>1, <1>3, Jumps DEF Control
<1>5. PICK d : d = [j EXCEPT !.stream = stream]
  OBVIOUS
<1>6. d \in Context
  BY <1>4, <1>5, SetFlag
<1>7. /\ d.pc = "created" /\ d.prefiller = None /\ d.backend = None
      /\ d.round = c.round /\ d.start = c.generated
      /\ d.sent = c.generated /\ d.generated = c.generated
  BY <1>2, <1>4, <1>5 DEF Context, Same, SameText, SameServers
<1>8. None \notin Backend /\ Prefiller \subseteq Backend
  BY BackendAssumption DEF Backend
<1>9. Settled(r, c, d)
  <2>1. /\ \A b \in Backend : Loads(d, b) = 0 /\ Loads(c, b) = 0
        /\ \A p \in Prefiller : /\ KvLoads(d, p) = 0 /\ KvLoads(c, p) = 0
                                /\ Prefilling(d, p) = 0 /\ Prefilling(c, p) = 0
        /\ Counts(d) = 1 /\ Counts(c) = 0
    BY <1>1, <1>2, <1>7, <1>8 DEF Loads, KvLoads, Prefilling, Counts, Bit
  <2>2. requestNum' = requestNum + 1 /\ UNCHANGED <<load, kvload, toAbort>>
    BY DEF Arrive
  <2> HIDE DEF c
  <2> QED BY <1>1, <1>7, <2>1, <2>2 DEF Settled, Types
<1>10. Sound(r, d)
  BY <1>7 DEF Sound, Place, Early, Late
<1> QED BY <1>3, <1>5, <1>6, <1>9, <1>10 DEF Arrive, Change, Good

(***************************************************************************)
(* Every step                                                              *)
(***************************************************************************)
OfRequest(r) == \/ \E stream \in BOOLEAN : Arrive(r, stream)
                \/ Works(r) \/ Answers(r) \/ Leaves(r) \/ Expire(r)
OfListener == \E b \in Backend : Taint(b) \/ Restore(b)

\* These are all actions of a request.
LEMMA RequestsChange ==
    ASSUME Types, NEW r \in Request, Sound(r, req[r]), OfRequest(r)
    PROVE  Change(r)
<1>1. CASE \E stream \in BOOLEAN : Arrive(r, stream)
  BY <1>1, Arriving
<1>2. CASE Start(r) \/ Vanish(r) \/ Check(r) \/ Wake(r) \/ PickNothing(r)
  BY <1>2, Waiting
<1>3. CASE Taken(r) \/ Expire(r) \/ End(r)
  BY <1>3, Resting
<1>4. CASE \/ CloseYielding(r) \/ Cancel(r) \/ CancelPrefill(r) \/ Finish(r)
           \/ PrefillRefuses(r) \/ BreakAfterDone(r) \/ Refuse(r)
  BY <1>4, Leaving
<1>5. CASE PrefilledInVain(r) \/ PrefillFails(r) \/ Recompute(r) \/ Break(r)
  BY <1>5, Retrying
<1>6. CASE PickMixed(r) \/ PickPrefiller(r) \/ Prefilled(r)
  BY <1>6, Selecting
<1>7. CASE \/ Token(r) \/ Metadata(r) \/ ToolCall(r) \/ DoneFrame(r)
           \/ Body(r) \/ Piece(r) \/ Recomputed(r)
  BY <1>7, Receiving
<1> QED BY <1>1, <1>2, <1>3, <1>4, <1>5, <1>6, <1>7 DEF OfRequest, Works, Answers, Notice, Leaves

\* The variables around the requests keep their types.
LEMMA SurroundingsAreKept ==
    ASSUME Types, NEW r \in Request, OfRequest(r)
    PROVE  Around' /\ router' = router
<1>1. Around /\ MaxFaults \in Nat
  BY LimitAssumption DEF Types
<1> DEFINE Kept == /\ UNCHANGED <<mode, router, taints>>
                   /\ registry' \in {registry, registry \cup {r}, registry \ {r}}
                   /\ Fault \/ NoFault \/ UNCHANGED faults
<1>2. ASSUME Kept, UNCHANGED session, up' \subseteq up PROVE Around' /\ router' = router
  BY <1>1, <1>2 DEF Around, Fault, NoFault
<1>3. CASE \E stream \in BOOLEAN : Arrive(r, stream)
  BY <1>2, <1>3 DEF Arrive
<1>4. CASE Start(r) \/ Vanish(r) \/ Check(r) \/ Wake(r) \/ PickNothing(r)
  BY <1>2, <1>4 DEF Start, Vanish, Check, Wake, PickNothing, shared
<1>5. CASE Taken(r) \/ Expire(r) \/ End(r)
  BY <1>2, <1>5 DEF Taken, Expire, End, shared
<1>6. CASE CloseYielding(r) \/ Cancel(r) \/ CancelPrefill(r) \/ Finish(r)
  BY <1>2, <1>6 DEF CloseYielding, Cancel, CancelPrefill, Finish, Close, Leave
<1>7. CASE PrefillRefuses(r) \/ BreakAfterDone(r) \/ Refuse(r)
  BY <1>2, <1>7 DEF PrefillRefuses, BreakAfterDone, Refuse, Close, Leave
<1>8. CASE PrefilledInVain(r) \/ Recompute(r) \/ PrefillFails(r) \/ Break(r)
  <2>1. Kept /\ UNCHANGED session /\ up' \subseteq up
    BY <1>8 DEF PrefilledInVain, Recompute, PrefillFails, Break, Recover
  <2> QED BY <1>2, <2>1
<1>9. CASE PickMixed(r) \/ PickPrefiller(r) \/ Prefilled(r)
  <2>1. PICK kind \in Kinds :
          /\ \E s \in Choices(kind) : session' = Record(kind, s.server)
          /\ UNCHANGED <<mode, router, up, registry, faults, taints>>
    BY <1>9 DEF PickMixed, PickPrefiller, Prefilled, Kinds
  <2> QED BY <1>1, <2>1, OffersArePooled DEF Around
<1>10. CASE \/ Token(r) \/ Metadata(r) \/ ToolCall(r) \/ DoneFrame(r)
            \/ Body(r) \/ Piece(r) \/ Recomputed(r)
  BY <1>2, <1>10
     DEF Token, Metadata, ToolCall, DoneFrame, Body, Piece, Recomputed, Receive
<1> QED BY <1>3, <1>4, <1>5, <1>6, <1>7, <1>8, <1>9, <1>10 DEF OfRequest, Works, Answers, Notice, Leaves

(***************************************************************************)
(* The invariant                                                           *)
(***************************************************************************)
Live == {r \in Request : req[r].pc \notin {"idle", "done"}}
\* An abort that is on its way to a prefiller is of a round that is over.
AbortsArePast ==
    \A p \in Prefiller, r \in Request, k \in Nat :
        <<r, k>> \in toAbort[p] /\ req[r].pc # "done" => k < req[r].round
Inv == /\ Types /\ \A r \in Request : Sound(r, req[r])
       /\ LoadMatchesHolders /\ requestNum = Cardinality(Live) /\ AbortsArePast

\* Sets that agree but for one element.
LEMMA Counted ==
    ASSUME NEW S, NEW T, NEW r, IsFiniteSet(S), IsFiniteSet(T), S \ {r} = T \ {r}
    PROVE  Cardinality(T) = Cardinality(S) + (IF r \in T THEN 1 ELSE 0)
                                           - (IF r \in S THEN 1 ELSE 0)
<1>1. /\ Cardinality(S) \in Nat
      /\ Cardinality(S \ {r}) = IF r \in S THEN Cardinality(S) - 1 ELSE Cardinality(S)
  BY FS_RemoveElement, FS_CardinalityType
<1>2. /\ Cardinality(T) \in Nat
      /\ Cardinality(T \ {r}) = IF r \in T THEN Cardinality(T) - 1 ELSE Cardinality(T)
  BY FS_RemoveElement, FS_CardinalityType
<1> QED BY <1>1, <1>2

\* The invariant at the start,
LEMMA Starts == Init => Inv
<1> SUFFICES ASSUME Init PROVE Inv
  OBVIOUS
<1>1. req \in [Request -> Context]
  <2> DEFINE first ==
        [pc |-> "idle", then |-> "idle", kind |-> "prefill", stream |-> FALSE,
         phase |-> "running", window |-> "closed", round |-> 0,
         prefiller |-> None, prefillCounted |-> FALSE,
         backend |-> None, counted |-> FALSE, releasedKv |-> TRUE,
         kv |-> None, start |-> 0, at |-> 0, generated |-> 0,
         answered |-> FALSE, finished |-> FALSE, doneReceived |-> FALSE,
         sent |-> 0, opaque |-> FALSE, ended |-> FALSE]
  <2>1. first \in Context
    BY DEF Context, Control, Kinds
  <2>2. req = [r \in Request |-> first]
    BY DEF Init
  <2> HIDE DEF first
  <2> QED BY <2>1, <2>2
<1>2. \A r \in Request : /\ req[r].pc = "idle" /\ req[r].prefiller = None
                         /\ req[r].backend = None /\ req[r].start = 0
                         /\ req[r].generated = 0 /\ req[r].sent = 0
  BY DEF Init
<1>3. Types
  <2>1. \A kind \in Kinds : session[kind] = None
    BY DEF Init
  <2>2. /\ load \in [Backend -> Int] /\ kvload \in [Prefiller -> Int] /\ requestNum \in Int
        /\ session \in [Kinds -> Backend \cup {None}]
    BY DEF Init
  <2>3. toAbort \in [Prefiller -> SUBSET (Request \X Nat)]
    BY DEF Init
  <2>4. /\ up \subseteq Backend /\ router \in {"least_load", "session_affinity"}
        /\ mode \in {"disaggregated", "mixed"} /\ registry \subseteq Request
        /\ faults \in 0..MaxFaults /\ taints \in 0..MaxTaints
    BY LimitAssumption DEF Init
  <2> QED BY <1>1, <2>1, <2>2, <2>3, <2>4 DEF Types, Around
<1>4. \A r \in Request : Sound(r, req[r])
  BY <1>2 DEF Sound, Place, Early, Late
<1>5. None \notin Backend /\ Prefiller \subseteq Backend
  BY BackendAssumption DEF Backend
<1>6. /\ Live = {} /\ \A b \in Backend : Holders(b) = {}
      /\ \A p \in Prefiller : KvHolders(p) = {} /\ Prefills(p) = {}
  BY <1>2, <1>5 DEF Live, Holders, Prefills, KvHolders, Is
<1>7. LoadMatchesHolders /\ requestNum = Cardinality(Live)
  <2>1. /\ requestNum = 0
        /\ \A b \in Backend : load[b] = 0
        /\ \A p \in Prefiller : kvload[p] = 0
    BY DEF Init
  <2>2. Cardinality({}) = 0
    BY FS_EmptySet
  <2>3. \A b \in Backend : load[b] = Cardinality(Holders(b))
    BY <1>6, <2>1, <2>2
  <2>4. ASSUME NEW p \in Prefiller
        PROVE  /\ kvload[p] = Cardinality(KvHolders(p))
               /\ kvload[p] >= Cardinality(Prefills(p))
    BY <1>6, <2>1, <2>2
  <2> QED BY <1>6, <2>1, <2>2, <2>3, <2>4 DEF LoadMatchesHolders
<1>8. AbortsArePast
  BY DEF Init, AbortsArePast
<1> QED BY <1>3, <1>4, <1>7, <1>8 DEF Inv

\* in every action of a request,
LEMMA RequestKeepsInv ==
    ASSUME Inv, NEW r \in Request, OfRequest(r)
    PROVE  Inv'
<1> DEFINE c == req[r]
<1>1. Types /\ Sound(r, c)
  BY DEF Inv
<1>2. PICK d : Goto(r, d) /\ Good(r, d)
  BY <1>1, RequestsChange DEF Change
<1>3. /\ req' \in [Request -> Context] /\ req'[r] = d
      /\ \A q \in Request \ {r} : req'[q] = req[q]
  BY <1>1, <1>2 DEF Goto, Good, Types
<1>4. Around' /\ router' = router
  BY <1>1, SurroundingsAreKept
<1>5. Settled(r, c, d)
  BY <1>2 DEF Good
<1>6. Types'
  <2>1. requestNum' \in Int
    BY <1>1, <1>5 DEF Settled, Types, Counts, Bit
  <2> QED BY <1>1, <1>3, <1>4, <1>5, <2>1 DEF Settled, Types
<1>7. \A q \in Request : Sound(q, req[q])'
  <2> SUFFICES ASSUME NEW q \in Request PROVE Sound(q, req[q])'
    OBVIOUS
  <2>1. Sound(q, req'[q])
    BY <1>2, <1>3 DEF Inv, Good
  <2> QED BY <1>4, <2>1 DEF Sound
<1>8. IsFiniteSet(Request) /\ Prefiller \subseteq Backend
  BY BackendAssumption DEF Backend
<1>9. LoadMatchesHolders'
  <2>1. ASSUME NEW b \in Backend PROVE load'[b] = Cardinality(Holders(b)')
    <3>1. Holders(b) \subseteq Request /\ Holders(b)' \subseteq Request
          /\ Holders(b) \ {r} = Holders(b)' \ {r}
      BY <1>3 DEF Holders, Prefills, Is
    <3>2. IsFiniteSet(Holders(b)) /\ IsFiniteSet(Holders(b)')
      BY <1>8, <3>1, FS_Subset
    <3>3. Loads(c, b) = Bit(r \in Holders(b)) /\ Loads(d, b) = Bit(r \in Holders(b)')
      BY <1>3 DEF Loads, Bit, Holders, Prefills, Is
    <3>4. load'[b] = load[b] + Loads(d, b) - Loads(c, b)
      BY <1>5 DEF Settled
    <3>5. load[b] = Cardinality(Holders(b))
      BY DEF Inv, LoadMatchesHolders
    <3> QED BY <3>1, <3>2, <3>3, <3>4, <3>5, Counted DEF Bit
  <2>2. ASSUME NEW p \in Prefiller, router = "least_load"
        PROVE  kvload'[p] = Cardinality(KvHolders(p)')
    <3>1. KvHolders(p) \subseteq Request /\ KvHolders(p)' \subseteq Request
          /\ KvHolders(p) \ {r} = KvHolders(p)' \ {r}
      BY <1>3 DEF KvHolders, Is
    <3>2. IsFiniteSet(KvHolders(p)) /\ IsFiniteSet(KvHolders(p)')
      BY <1>8, <3>1, FS_Subset
    <3>3. /\ KvLoads(c, p) = Bit(r \in KvHolders(p))
          /\ KvLoads(d, p) = Bit(r \in KvHolders(p)')
      BY <1>3 DEF KvLoads, Bit, KvHolders, Is
    <3>4. kvload'[p] = kvload[p] + KvLoads(d, p) - KvLoads(c, p)
      BY <1>5, <2>2 DEF Settled
    <3>5. kvload[p] = Cardinality(KvHolders(p))
      BY <2>2 DEF Inv, LoadMatchesHolders
    <3> QED BY <3>1, <3>2, <3>3, <3>4, <3>5, Counted DEF Bit
  <2>3. ASSUME NEW p \in Prefiller, router # "least_load"
        PROVE  kvload'[p] >= Cardinality(Prefills(p)')
    <3>1. Prefills(p) \subseteq Request /\ Prefills(p)' \subseteq Request
          /\ Prefills(p) \ {r} = Prefills(p)' \ {r}
      BY <1>3 DEF Prefills, Is
    <3>2. IsFiniteSet(Prefills(p)) /\ IsFiniteSet(Prefills(p)')
      BY <1>8, <3>1, FS_Subset
    <3>3. /\ Prefilling(c, p) = Bit(r \in Prefills(p))
          /\ Prefilling(d, p) = Bit(r \in Prefills(p)')
      BY <1>3 DEF Prefilling, Bit, Prefills, Is
    <3>4. kvload'[p] >= kvload[p] + Prefilling(d, p) - Prefilling(c, p)
      BY <1>5, <2>3 DEF Settled
    <3>5. kvload[p] >= Cardinality(Prefills(p))
      BY <2>3 DEF Inv, LoadMatchesHolders
    <3>6. kvload[p] \in Int /\ kvload'[p] \in Int
      BY <1>1, <1>5 DEF Types, Settled
    <3>7. Cardinality(Prefills(p)) \in Nat /\ Cardinality(Prefills(p)') \in Nat
      BY <3>2, FS_CardinalityType
    <3> QED BY <3>1, <3>2, <3>3, <3>4, <3>5, <3>6, <3>7, Counted DEF Bit
  <2> QED BY <1>4, <2>1, <2>2, <2>3 DEF LoadMatchesHolders
<1>10. requestNum' = Cardinality(Live')
  <2>1. Live \subseteq Request /\ Live' \subseteq Request /\ Live \ {r} = Live' \ {r}
    BY <1>3 DEF Live
  <2>2. IsFiniteSet(Live) /\ IsFiniteSet(Live')
    BY <1>8, <2>1, FS_Subset
  <2>3. Counts(c) = Bit(r \in Live) /\ Counts(d) = Bit(r \in Live')
    BY <1>3 DEF Counts, Bit, Live
  <2>4. requestNum' = requestNum + Counts(d) - Counts(c) /\ requestNum = Cardinality(Live)
    BY <1>5 DEF Settled, Inv
  <2> QED BY <2>1, <2>2, <2>3, <2>4, Counted DEF Bit
<1>11. AbortsArePast'
  <2> SUFFICES ASSUME NEW p \in Prefiller, NEW q \in Request, NEW k \in Nat,
                      <<q, k>> \in toAbort'[p], req'[q].pc # "done"
               PROVE  k < req'[q].round
    BY DEF AbortsArePast
  <2>1. /\ req[q].round \in Nat /\ req'[q].round \in Nat
        /\ c.round \in Nat /\ req[q].round <= req'[q].round /\ req[q].pc # "done"
    <3>1. req[q] \in Context /\ req'[q] \in Context /\ c \in Context
      BY <1>1, <1>3 DEF Types
    <3>2. req[q].round \in Nat /\ req'[q].round \in Nat /\ c.round \in Nat
      BY <3>1, FieldTypes
    <3>3. req[q].round <= req'[q].round /\ req[q].pc # "done"
      BY <1>3, <1>5, <3>2 DEF Settled
    <3> QED BY <3>2, <3>3
  <2>2. CASE <<q, k>> \in toAbort[p]
    <3>1. k < req[q].round
      BY <2>1, <2>2 DEF Inv, AbortsArePast
    <3> QED BY <2>1, <3>1
  <2>3. CASE <<q, k>> \notin toAbort[p]
    <3>1. <<q, k>> = <<r, c.round>>
      BY <1>5, <2>3 DEF Settled
    <3>2. q = r /\ k = c.round
      BY <3>1
    <3>3. d.pc = "done" \/ c.round < d.round
      BY <1>5, <2>3 DEF Settled
    <3> QED BY <1>3, <3>2, <3>3
  <2> QED BY <2>2, <2>3
<1> QED BY <1>6, <1>7, <1>9, <1>10, <1>11 DEF Inv

\* and in those of the listener.
LEMMA OthersKeepInv ==
    ASSUME Inv, OfListener \/ UNCHANGED vars
    PROVE  Inv'
<1>1. /\ UNCHANGED <<req, load, kvload, toAbort, session, requestNum, router, mode,
                      registry, faults>>
      /\ up' \subseteq Backend /\ taints' \in 0..MaxTaints
  BY LimitAssumption DEF OfListener, Taint, Restore, vars, shared, Inv, Types, Around
<1>2. Types'
  BY <1>1 DEF Inv, Types, Around
<1>3. \A r \in Request : Sound(r, req[r])'
  BY <1>1 DEF Inv, Sound
<1>4. LoadMatchesHolders'
  BY <1>1 DEF Inv, LoadMatchesHolders, Holders, Prefills, KvHolders, Is
<1>5. (requestNum = Cardinality(Live))' /\ AbortsArePast'
  BY <1>1 DEF Inv, Live, AbortsArePast
<1> QED BY <1>2, <1>3, <1>4, <1>5 DEF Inv

\* So it always holds.
LEMMA Invariance == Spec => []Inv
<1>1. Init => Inv
  BY Starts
<1>2. Inv /\ [Next]_vars => Inv'
  <2> SUFFICES ASSUME Inv, [Next]_vars PROVE Inv'
    OBVIOUS
  <2>1. (\E r \in Request : OfRequest(r)) \/ OfListener \/ UNCHANGED vars
    BY DEF Next, OfRequest, OfListener
  <2> QED BY <2>1, RequestKeepsInv, OthersKeepInv
<1> QED BY <1>1, <1>2, PTL DEF Spec

(***************************************************************************)
(* What it gives                                                           *)
(***************************************************************************)
\* Through any failures, recomputations and disconnects a backend that streams
\* goes on exactly where the text the client has received ends.
THEOREM AnswersHaveNoGap == Spec => []StreamIsGapless
<1>1. Inv => StreamIsGapless
  <2> SUFFICES ASSUME Inv, NEW r \in Request, Is(r, "decode"), req[r].stream
               PROVE  req[r].at = req[r].sent
    BY DEF StreamIsGapless
  <2>1. Sound(r, req[r]) /\ Place(req[r]) = "decode"
    BY DEF Inv, Is, Place
  <2> QED BY <2>1 DEF Sound
<1> QED BY <1>1, Invariance, PTL

\* A decode attempt never uses a KV cache of an earlier round or one that was
\* given up.
THEOREM KvIsFresh == Spec => []RoundUsesFreshKv
<1>1. Inv => RoundUsesFreshKv
  <2> SUFFICES ASSUME Inv, NEW r \in Request, Is(r, "decode"), req[r].kv # None
               PROVE  /\ req[r].prefiller # None /\ req[r].kv = ThisRound(r)
                      /\ \A p \in Prefiller : req[r].kv \notin toAbort[p]
    BY DEF RoundUsesFreshKv
  <2>1. Sound(r, req[r]) /\ Place(req[r]) = "decode" /\ req[r].pc # "done"
    BY DEF Inv, Is, Place
  <2>2. req[r].prefiller # None /\ req[r].kv = <<r, req[r].round>>
    BY <2>1 DEF Sound, Late
  <2>3. req[r].round \in Nat
    BY FieldTypes DEF Inv, Types
  <2>4. \A p \in Prefiller : <<r, req[r].round>> \notin toAbort[p]
    BY <2>1, <2>3 DEF Inv, AbortsArePast
  <2> QED BY <2>2, <2>4 DEF ThisRound
<1> QED BY <1>1, Invariance, PTL

\* When the count of requests is zero none holds a backend or waits for one.
THEOREM CountIsHonest == Spec => []QuietMeansUnused
<1>1. Inv => QuietMeansUnused
  <2> SUFFICES ASSUME Inv, requestNum = 0, NEW r \in Request PROVE ~Running(r)
    BY DEF QuietMeansUnused
  <2>1. IsFiniteSet(Live)
    BY BackendAssumption, FS_Subset DEF Live
  <2>2. Live = {}
    BY <2>1, FS_EmptySet DEF Inv
  <2> QED BY <2>2 DEF Live, Running
<1> QED BY <1>1, Invariance, PTL

\* Every variable keeps its type: no load ever falls below zero, whichever
\* router is used.
THEOREM TypesAreKept == Spec => []TypeOK
<1>1. Inv => TypeOK
  <2> SUFFICES ASSUME Inv PROVE TypeOK
    OBVIOUS
  <2>1. IsFiniteSet(Request) /\ Prefiller \subseteq Backend
    BY BackendAssumption DEF Backend
  <2>2. \A b \in Backend : load[b] \in Nat
    <3> SUFFICES ASSUME NEW b \in Backend PROVE load[b] \in Nat
      OBVIOUS
    <3>1. Holders(b) \subseteq Request
      BY DEF Holders, Prefills
    <3> QED BY <2>1, <3>1, FS_Subset, FS_CardinalityType DEF Inv, LoadMatchesHolders
  <2>3. \A p \in Prefiller : kvload[p] \in Nat
    <3> SUFFICES ASSUME NEW p \in Prefiller PROVE kvload[p] \in Nat
      OBVIOUS
    <3>1. KvHolders(p) \subseteq Request /\ Prefills(p) \subseteq Request
      BY DEF KvHolders, Prefills
    <3>2. Cardinality(KvHolders(p)) \in Nat /\ Cardinality(Prefills(p)) \in Nat
      BY <2>1, <3>1, FS_Subset, FS_CardinalityType
    <3>3. kvload[p] \in Int
      BY DEF Inv, Types
    <3> QED BY <3>2, <3>3 DEF Inv, LoadMatchesHolders
  <2>4. requestNum \in Nat
    <3>1. Live \subseteq Request
      BY DEF Live
    <3> QED BY <2>1, <3>1, FS_Subset, FS_CardinalityType DEF Inv
  <2> QED BY <2>2, <2>3, <2>4 DEF Inv, Types, Around, TypeOK
<1> QED BY <1>1, Invariance, PTL

\* The loads of the backends, and with least-load routing the KV loads of the
\* prefillers, are the numbers of requests that hold them.
THEOREM LoadsAreExact == Spec => []LoadMatchesHolders
<1>1. Inv => LoadMatchesHolders
  BY DEF Inv
<1> QED BY <1>1, Invariance, PTL
=============================================================================
