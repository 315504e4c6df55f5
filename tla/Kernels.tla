------------------------------ MODULE Kernels ------------------------------
(***************************************************************************)
(* The small components, each on an instance of its own, in one            *)
(* specification: topic says which of them a behaviour is of, and the      *)
(* variables of the others are None in it.                                 *)
(***************************************************************************)
EXTENDS ProxyParts,  \* LoadHeap, SseBuffer, ResumeText and InstanceGroups
        ServerParts  \* AnthropicStream and Sharding

CONSTANTS NumEngines, Clients, Counted, MaxWire,            \* IdleRouting
          PdHosts, PrefillHosts, FirstLinks, Rebuilds,      \* PdRebuild
          NumWorkers, MaxRebuilds,
          Dp, Tp, Npu, Digits, BadLists, MaxStrategies,     \* ParallelReconfig
          Requests, Weight, Decoders, Prefillers,           \* LayerwiseProxy
          Modes, MaxTokens, MaxRetries, Bound

VARIABLES topic,
          up, sent, wire, marks, untold,                            \* IdleRouting
          role, todo, step, known, links, built, replies, waits,    \* PdRebuild
          report, ordered,
          mm, strategy, count, behind, config, backup, visible, lost, \* ParallelReconfig
          pc, mode, decoder, attempt, base, limit, at, generated,   \* LayerwiseProxy
          received, completion, retries, torn, blurred, packed, calls, used, tokens

heapVars == <<load, isolated, heap, held>>
sseVars == <<rest, buffer, payloads, arrived>>
textVars == <<state, original, resumed>>
endpointVars == <<written, groups>>
idleVars == <<up, sent, wire, marks, untold>>
pdVars == <<role, todo, step, known, links, built, replies, waits, report, ordered>>
parallelVars == <<mm, strategy, count, behind, config, backup, visible, lost>>
layerwiseVars == <<pc, mode, decoder, attempt, base, limit, at, generated, received,
                   completion, retries, torn, blurred, packed, calls, used, tokens>>
anthropicVars == <<phase, active, next, ids, events, errors, said>>
shardingVars == <<tp, newTp, keys, values, queries, kv, rank, group,
                  boundary, loadedBoundary, conv>>
vars == <<topic, heapVars, sseVars, textVars, endpointVars, idleVars, pdVars,
          parallelVars, layerwiseVars, anthropicVars, shardingVars>>

Idle == INSTANCE IdleRouting
Pd == INSTANCE PdRebuild WITH Hosts <- PdHosts, Strategies <- Rebuilds, sent <- ordered
Parallel == INSTANCE ParallelReconfig
Layerwise == INSTANCE LayerwiseProxy WITH load <- tokens

ASSUME IdleAssumption == MaxWire \in Nat /\ Counted \subseteq Clients
ASSUME ParallelAssumption == Parallel!Deployment
ASSUME LayerwiseAssumption == /\ MaxTokens \in Nat /\ Weight \in [Requests -> Nat]
                              /\ \A r \in Requests : Bound[r].tokens \in Nat

(***************************************************************************)
(* The variables of a topic in a behaviour of another one                  *)
(***************************************************************************)
NoHeap == load = None /\ isolated = None /\ heap = None /\ held = None
NoSse == rest = None /\ buffer = None /\ payloads = None /\ arrived = None
NoText == state = None /\ original = None /\ resumed = None
NoEndpoints == written = None /\ groups = None
NoIdle == /\ up = None /\ sent = None /\ wire = None
          /\ marks = None /\ untold = None
NoPd == /\ role = None /\ todo = None /\ step = None /\ known = None
        /\ links = None /\ built = None /\ replies = None /\ waits = None
        /\ report = None /\ ordered = None
NoParallel == /\ mm = None /\ strategy = None /\ count = None /\ behind = None
              /\ config = None /\ backup = None /\ visible = None /\ lost = None
NoLayerwise ==
    /\ pc = None /\ mode = None /\ decoder = None /\ attempt = None /\ base = None
    /\ limit = None /\ at = None /\ generated = None /\ received = None
    /\ completion = None /\ retries = None /\ torn = None /\ blurred = None
    /\ packed = None /\ calls = None /\ used = None /\ tokens = None
NoAnthropic == /\ phase = None /\ active = None /\ next = None
               /\ ids = None /\ events = None /\ errors = None /\ said = None
NoSharding ==
    /\ tp = None /\ newTp = None /\ keys = None /\ values = None /\ queries = None
    /\ kv = None /\ rank = None /\ group = None /\ boundary = None
    /\ loadedBoundary = None /\ conv = None

Topics == {"heap", "sse", "text", "endpoints", "idle", "pd", "parallel", "layerwise",
           "anthropic", "sharding"}
Init ==
    /\ topic \in Topics
    /\ IF topic = "heap" THEN Heap!Init ELSE NoHeap
    /\ IF topic = "sse" THEN Sse!Init ELSE NoSse
    /\ IF topic = "text" THEN Text!Init ELSE NoText
    /\ IF topic = "endpoints" THEN Args!Init ELSE NoEndpoints
    /\ IF topic = "idle" THEN Idle!Init ELSE NoIdle
    /\ IF topic = "pd" THEN Pd!Init ELSE NoPd
    /\ IF topic = "parallel" THEN Parallel!Init ELSE NoParallel
    /\ IF topic = "layerwise" THEN Layerwise!Init ELSE NoLayerwise
    /\ IF topic = "anthropic" THEN Anthropic!Init ELSE NoAnthropic
    /\ IF topic = "sharding" THEN Shards!Init ELSE NoSharding

Next ==
    /\ UNCHANGED topic
    /\ IF topic = "heap" THEN Heap!Next ELSE UNCHANGED heapVars
    /\ IF topic = "sse" THEN Sse!Next ELSE UNCHANGED sseVars
    /\ IF topic = "text" THEN Text!Next ELSE UNCHANGED textVars
    /\ IF topic = "endpoints" THEN Args!Next ELSE UNCHANGED endpointVars
    /\ IF topic = "idle" THEN Idle!Next ELSE UNCHANGED idleVars
    /\ IF topic = "pd" THEN Pd!Next ELSE UNCHANGED pdVars
    /\ IF topic = "parallel" THEN Parallel!Next ELSE UNCHANGED parallelVars
    /\ IF topic = "layerwise" THEN Layerwise!Next ELSE UNCHANGED layerwiseVars
    /\ IF topic = "anthropic" THEN Anthropic!Next ELSE UNCHANGED anthropicVars
    /\ IF topic = "sharding" THEN Shards!Next ELSE UNCHANGED shardingVars

Spec == Init /\ [][Next]_vars

\* load_balance_proxy_server_example.py: each backend stays in the list that one
\* is chosen from, with the priority it has; a least loaded one is chosen as long
\* as the list is a heap, and only a release can spoil that, for the choices
\* behind the next one and until a group is isolated or restored (LoadHeap).
LeastIsChosen ==
    /\ [](topic = "heap" => Heap!HeapIsTrue /\ Heap!HeapGivesLeast)
    /\ [][topic = "heap" => Heap!OrderIsKept]_vars
\* An answer that is broken off goes on where the client has it: the events of
\* the stream do not depend on how it is cut (SseBuffer), and the continued
\* message shows what the client has received (ResumeText).
AnswerIsContinued == /\ topic = "sse" => Sse!CutsDoNotMatter
                     /\ topic = "text" => Text!AnswerIsContinued
\* The proxy takes the groups the operator wrote (InstanceGroups).
GroupsAreAsWritten == topic = "endpoints" => Args!GroupsAreAsWritten
\* The marks of the clients follow the engines' announcements (IdleRouting).
MarksFollowTheEngines ==
    topic = "idle" => Idle!TypeOK /\ Idle!MarksFollowTheEngines
\* No worker keeps a link of an earlier strategy (PdRebuild).
LinksFollowTheMapping == topic = "pd" => Pd!LinksFollowTheMapping
\* The executors that serve form one group on healthy cards (ParallelReconfig).
ExecutorsFormOneGroup ==
    topic = "parallel" => Parallel!ExecutorsFormOneGroup /\ Parallel!WorkersUseHealthyCards
\* Answers are whole, and servers carry the load of their requests (LayerwiseProxy).
AnswersAreWhole ==
    topic = "layerwise" => Layerwise!AnswersAreWhole /\ Layerwise!LoadIsCarried
\* The events of a message are well formed and hold the answer (AnthropicStream).
AnswersAreTranslated ==
    topic = "anthropic" => /\ Anthropic!EventsAreBracketed
                           /\ Anthropic!AnswerComesBack /\ Anthropic!MessagesAgree
\* The shards of the workers that remain make up the convolution, and those of the
\* other layers fit them (Sharding).
ShardsFitTogether ==
    topic = "sharding" => /\ Shards!LayersAgree /\ Shards!WeightsAreWhole
                          /\ Shards!QueriesFindTheirKeys
=============================================================================
