---------------------------- MODULE ProxyRequest ----------------------------
(***************************************************************************)
(* One completion request through the load-balancing proxy                 *)
(* (load_balance_proxy_server_example.py): choose a prefiller, prefill,    *)
(* choose a decoder, stream its answer, and when a backend fails isolate   *)
(* it and continue the answer on another one.  In the mixed deployment one *)
(* backend does both.                                                      *)
(*                                                                         *)
(* A request is a coroutine: an action is its code from one suspension (an *)
(* await, or a yield to the client) to the next, cut where the listener    *)
(* thread may isolate a backend in between.  Which healthy backend is      *)
(* chosen is left open (LoadHeap models the choice), and how a backend is  *)
(* isolated, watched and brought back is ProxyPool: here it is in up, or   *)
(* not.  A generated token is one unit of text.                            *)
(***************************************************************************)
EXTENDS Integers, FiniteSets

CONSTANTS Request,     \* client requests
          Prefiller, Decoder, Mixer,   \* the backends of each instance type
          MaxTokens,   \* max_tokens of every request
          MaxFaults,   \* bound: backend failures, refusals and recomputations
          MaxTaints,   \* bound: backends the listener isolates on its own
          None

Kinds == {"prefill", "decode", "mixed"}
Backend == Prefiller \cup Decoder \cup Mixer
Pool == [prefill |-> Prefiller, decode |-> Decoder, mixed |-> Mixer]

ASSUME BackendAssumption ==
    /\ IsFiniteSet(Request) /\ IsFiniteSet(Backend) /\ None \notin Backend
    /\ Prefiller \cap Decoder = {} /\ (Prefiller \cup Decoder) \cap Mixer = {}
ASSUME LimitAssumption == /\ MaxTokens \in Nat \ {0}
                          /\ MaxFaults \in Nat /\ MaxTaints \in Nat

VARIABLES
    mode,      \* deployment_mode
    router,    \* global_args.router_method
    up,        \* backends that are not tainted
    load,      \* active_tokens, in requests
    kvload,    \* active_kv_cache of each prefiller, in requests
    toAbort,   \* aborted_requests of each prefiller: <<request, round>>
    session,   \* session_*_map of the one session all requests belong to
    requestNum,    \* request_num
    registry,  \* recovery_requests
    req,       \* the coroutine and CompletionExecutionContext of each request
    faults, taints  \* what the bounds count

shared == <<mode, router, up, load, kvload, toAbort, session, requestNum, registry>>
vars == <<shared, req, faults, taints>>

Control == {"idle", "created", "gone", "look", "wait", "pick", "prefill",
            "decode", "recompute", "yield", "finish", "close", "done"}
Context ==
    [pc : Control, then : Control,        \* then: where a yield goes on
     kind : Kinds,                        \* what look and wait are about
     stream : BOOLEAN,
     phase : {"running", "completed", "failed", "cancelled"},
     window : {"closed", "open", "late"}, \* recovery_wait_started_at
     round : Nat,                         \* backend_request_id
     prefiller : Prefiller \cup {None}, prefillCounted : BOOLEAN,
     backend : Decoder \cup Mixer \cup {None}, counted : BOOLEAN,
     releasedKv : BOOLEAN,
     kv : (Request \X Nat) \cup {None},   \* kv_transfer_params
     start : Nat,                         \* text the current request goes on from
     at : Nat,                            \* text up to which the backend has got
     generated : Nat,                     \* generated_text
     answered : BOOLEAN,                  \* a chunk arrived in this attempt
     finished : BOOLEAN, doneReceived : BOOLEAN,
     \* what the client has received: text, other output, a finish_reason
     sent : Nat, opaque : BOOLEAN, ended : BOOLEAN]

TypeOK == /\ mode \in {"disaggregated", "mixed"}
          /\ router \in {"least_load", "session_affinity"}
          /\ up \subseteq Backend
          /\ load \in [Backend -> Nat] /\ kvload \in [Prefiller -> Nat]
          /\ toAbort \in [Prefiller -> SUBSET (Request \X Nat)]
          /\ session \in [Kinds -> Backend \cup {None}]
          /\ requestNum \in Nat /\ registry \subseteq Request
          /\ req \in [Request -> Context]
          /\ faults \in 0..MaxFaults /\ taints \in 0..MaxTaints

Init == /\ mode \in {"disaggregated", "mixed"}
        /\ router \in {"least_load", "session_affinity"}
        /\ up = Backend
        /\ load = [b \in Backend |-> 0] /\ kvload = [p \in Prefiller |-> 0]
        /\ toAbort = [p \in Prefiller |-> {}]
        /\ session = [k \in Kinds |-> None]
        /\ requestNum = 0 /\ registry = {}
        /\ req = [r \in Request |->
             [pc |-> "idle", then |-> "idle", kind |-> "prefill", stream |-> FALSE,
              phase |-> "running", window |-> "closed", round |-> 0,
              prefiller |-> None, prefillCounted |-> FALSE,
              backend |-> None, counted |-> FALSE, releasedKv |-> TRUE,
              kv |-> None, start |-> 0, at |-> 0, generated |-> 0,
              answered |-> FALSE, finished |-> FALSE, doneReceived |-> FALSE,
              sent |-> 0, opaque |-> FALSE, ended |-> FALSE]]
        /\ faults = 0 /\ taints = 0

(***************************************************************************)
(* Pieces shared by the steps                                              *)
(***************************************************************************)
Is(r, pc) == req[r].pc = pc
Goto(r, context) == req' = [req EXCEPT ![r] = context]
FirstKind == IF mode = "mixed" THEN "mixed" ELSE "prefill"
ThisRound(r) == <<r, req[r].round>>

\* What becomes of a context c.
Jump(c, pc) == [c EXCEPT !.pc = pc]
Yield(c, then) == [c EXCEPT !.pc = "yield", !.then = then]
\* A streaming client gets a keep-alive between two rounds.
Beat(c, then) == IF c.stream THEN Yield(c, then) ELSE Jump(c, then)
Look(c) == [Beat(c, "look") EXCEPT !.kind = FirstKind]
NextRound(c) == [c EXCEPT !.round = @ + 1]

\* Mutant: the window has no beginning.
MutStartWait(c) == [c EXCEPT !.window = "closed"]
\* start_recovery_wait: a window that is open goes on.
StartWait(c) == [c EXCEPT !.window = IF @ = "closed" THEN "open" ELSE @]

Available(kind) == Pool[kind] \cap up # {}
\* Mutant: a release that does not ask whether the selection was counted.
MutLess(f, s, b) == [f EXCEPT ![s] = @ - 1]
\* release_*.  The code also keeps the load from falling below zero, which
\* would hide a double release: LoadMatchesHolders shows that it never has to.
Less(f, s, b) == IF b THEN [f EXCEPT ![s] = @ - 1] ELSE f

More(f, s, b) == IF b THEN [f EXCEPT ![s] = @ + 1] ELSE f
Abort(r) == IF req[r].prefiller = None THEN toAbort
            ELSE [toAbort EXCEPT ![req[r].prefiller] = @ \cup {ThisRound(r)}]

\* get_idx_router: a session sticks to its healthy backend, uncounted.
Choices(kind) ==
    IF router = "session_affinity" /\ session[kind] \in up
      THEN {[server |-> session[kind], counted |-> FALSE]}
      ELSE {[server |-> s, counted |-> TRUE] : s \in Pool[kind] \cap up}
Record(kind, s) == IF router = "session_affinity"
                     THEN [session EXCEPT ![kind] = s] ELSE session

\* release_prefiller_kv_once
HoldsKv(r) == /\ req[r].prefiller # None /\ ~req[r].releasedKv
              /\ router = "least_load"
KvReleased(r) == Less(kvload, req[r].prefiller, HoldsKv(r))
ReleasedKv(r) == req[r].releasedKv \/ HoldsKv(r)

\* release_current_instance
Free(c) == [c EXCEPT !.prefiller = None, !.backend = None, !.releasedKv = TRUE]
ReleaseCurrent(r) ==
    /\ load' = Less(load, req[r].backend, req[r].backend # None /\ req[r].counted)
    /\ kvload' = KvReleased(r)

\* The finally of _generate_completion_stream.
Leave(r, phase) ==
    /\ requestNum' = requestNum - 1
    /\ registry' = IF phase = "running" THEN registry ELSE registry \ {r}
    /\ Goto(r, [Free(Jump(req[r], "done")) EXCEPT !.phase = phase])
Close(r, phase) == ReleaseCurrent(r) /\ Leave(r, phase)

\* RecoveryWaitTimeoutError: an error payload, then the end of the stream.
TimeOut(r) == Goto(r, [Yield(req[r], "close") EXCEPT !.phase = "failed"])

Fault == faults < MaxFaults /\ faults' = faults + 1
NoFault == UNCHANGED faults

(***************************************************************************)
(* Arrival, and the client's side of the stream                            *)
(***************************************************************************)
\* Mutant: a request is counted when its stream starts.
MutArrive(r, stream) ==
    /\ Is(r, "idle")
    /\ registry' = registry \cup {r}
    /\ Goto(r, [Jump(req[r], "created") EXCEPT !.stream = stream])
    /\ UNCHANGED <<mode, router, up, load, kvload, toAbort, session, requestNum,
                   faults, taints>>
Arrive(r, stream) ==
    /\ Is(r, "idle")
    /\ requestNum' = requestNum + 1
    /\ registry' = registry \cup {r}
    /\ Goto(r, [Jump(req[r], "created") EXCEPT !.stream = stream])
    /\ UNCHANGED <<mode, router, up, load, kvload, toAbort, session, faults, taints>>

Start(r) ==
    /\ Is(r, "created")
    /\ Goto(r, [Jump(req[r], "look") EXCEPT !.kind = FirstKind])
    /\ UNCHANGED <<shared, faults, taints>>

\* The client left before the generator ran: its finally never will.
Vanish(r) ==
    /\ Is(r, "created")
    /\ Goto(r, Jump(req[r], "gone"))
    /\ UNCHANGED <<shared, faults, taints>>

Taken(r) ==
    /\ Is(r, "yield")
    /\ Goto(r, Jump(req[r], req[r].then))
    /\ UNCHANGED <<shared, faults, taints>>

\* The client left while the generator was suspended in a yield: GeneratorExit
\* passes both except clauses, only the finally runs.
CloseYielding(r) ==
    /\ Is(r, "yield")
    /\ Close(r, req[r].phase)
    /\ UNCHANGED <<mode, router, up, toAbort, session, faults, taints>>

\* The client left while the generator was waiting.
Cancel(r) ==
    /\ req[r].pc \in {"wait", "decode"}
    /\ toAbort' = Abort(r)
    /\ Close(r, "cancelled")
    /\ UNCHANGED <<mode, router, up, session, faults, taints>>

\* Mutant: a disconnect during the prefill keeps the KV load.
MutCancelPrefill(r) ==
    /\ Is(r, "prefill")
    /\ toAbort' = Abort(r)
    /\ load' = Less(load, req[r].prefiller, req[r].prefillCounted)
    /\ Leave(r, "cancelled")
    /\ UNCHANGED <<mode, router, up, kvload, session, faults, taints>>
\* ... for the prefill, which cleans up after itself.
CancelPrefill(r) ==
    LET p == req[r].prefiller IN
    /\ Is(r, "prefill")
    /\ toAbort' = Abort(r)
    /\ load' = Less(load, p, req[r].prefillCounted)
    /\ kvload' = Less(kvload, p, req[r].prefillCounted)
    /\ Leave(r, "cancelled")
    /\ UNCHANGED <<mode, router, up, session, faults, taints>>

(***************************************************************************)
(* Waiting for backends                                                    *)
(***************************************************************************)
Check(r) ==
    LET kind == req[r].kind IN
    /\ Is(r, "look")
    /\ IF ~Available(kind)
         THEN IF req[r].window = "late" THEN TimeOut(r)
              ELSE Goto(r, StartWait(Jump(req[r], "wait")))
       ELSE IF kind = "prefill" THEN Goto(r, [req[r] EXCEPT !.kind = "decode"])
       ELSE IF req[r].window = "late" THEN TimeOut(r)
       ELSE Goto(r, Jump(req[r], "pick"))
    /\ UNCHANGED <<shared, faults, taints>>

\* The wait ends: the event was set, or five seconds went by.
Wake(r) ==
    /\ Is(r, "wait")
    /\ IF Available(req[r].kind) THEN Goto(r, Jump(req[r], "look"))
       ELSE IF req[r].window = "late" THEN TimeOut(r)
       ELSE Goto(r, Beat(req[r], "look"))
    /\ UNCHANGED <<shared, faults, taints>>

\* recovery_wait_timeout seconds have gone by in the recovery window.
Expire(r) ==
    /\ req[r].window = "open"
    /\ Goto(r, [req[r] EXCEPT !.window = "late"])
    /\ UNCHANGED <<shared, faults, taints>>

(***************************************************************************)
(* Choosing and prefilling                                                 *)
(***************************************************************************)
\* A new round on chosen backends.
Attempt(c) == [c EXCEPT !.pc = "decode", !.window = "closed", !.at = c.start,
                        !.answered = FALSE, !.finished = FALSE, !.doneReceived = FALSE]

PickMixed(r) ==
    /\ Is(r, "pick") /\ mode = "mixed"
    /\ \E c \in Choices("mixed") :
         /\ load' = More(load, c.server, c.counted)
         /\ session' = Record("mixed", c.server)
         /\ Goto(r, [Attempt(req[r]) EXCEPT !.kv = None, !.releasedKv = TRUE,
                                            !.backend = c.server, !.counted = c.counted])
    /\ UNCHANGED <<mode, router, up, kvload, toAbort, requestNum, registry, faults, taints>>

\* Mutant: the kv_transfer_params of the last round stay in the request.
MutPickPrefiller(r) ==
    /\ Is(r, "pick") /\ mode = "disaggregated"
    /\ \E c \in Choices("prefill") :
         /\ load' = More(load, c.server, c.counted)
         /\ kvload' = More(kvload, c.server, c.counted)
         /\ session' = Record("prefill", c.server)
         /\ toAbort' = [toAbort EXCEPT ![c.server] = {}]
         /\ Goto(r, [Jump(req[r], "prefill") EXCEPT !.prefiller = c.server,
                                                    !.prefillCounted = c.counted])
    /\ UNCHANGED <<mode, router, up, requestNum, registry, faults, taints>>
\* send_request_to_service takes the aborts that wait for this prefiller along.
PickPrefiller(r) ==
    /\ Is(r, "pick") /\ mode = "disaggregated"
    /\ \E c \in Choices("prefill") :
         /\ load' = More(load, c.server, c.counted)
         /\ kvload' = More(kvload, c.server, c.counted)
         /\ session' = Record("prefill", c.server)
         /\ toAbort' = [toAbort EXCEPT ![c.server] = {}]
         /\ Goto(r, [Jump(req[r], "prefill") EXCEPT !.kv = None, !.prefiller = c.server,
                                                    !.prefillCounted = c.counted])
    /\ UNCHANGED <<mode, router, up, requestNum, registry, faults, taints>>

\* The last backend was isolated after the check: the selection raises.
PickNothing(r) ==
    /\ Is(r, "pick") /\ Choices(FirstKind) = {}
    /\ Goto(r, [StartWait(NextRound(Look(req[r]))) EXCEPT !.kv = None])
    /\ UNCHANGED <<shared, faults, taints>>

\* The answer may carry kv_transfer_params, and then a decoder is chosen.
Prefilled(r) ==
    /\ Is(r, "prefill")
    /\ \E c \in Choices("decode"), kv \in {req[r].kv, ThisRound(r)} :
         /\ load' = More(Less(load, req[r].prefiller, req[r].prefillCounted),
                         c.server, c.counted)
         /\ session' = Record("decode", c.server)
         /\ Goto(r, [Attempt(req[r]) EXCEPT !.kv = kv, !.releasedKv = FALSE,
                                            !.backend = c.server, !.counted = c.counted])
    /\ UNCHANGED <<mode, router, up, kvload, toAbort, requestNum, registry, faults, taints>>

\* What a failed prefill, and one without a decoder, leave behind.
DropPrefill(r) ==
    /\ toAbort' = Abort(r)
    /\ load' = Less(load, req[r].prefiller, req[r].prefillCounted)
    /\ kvload' = Less(kvload, req[r].prefiller, req[r].prefillCounted)

PrefilledInVain(r) ==
    /\ Is(r, "prefill") /\ Choices("decode") = {}
    /\ DropPrefill(r)
    /\ \E kv \in {req[r].kv, ThisRound(r)} :
         Goto(r, [Free(StartWait(NextRound(Look(req[r])))) EXCEPT !.kv = kv])
    /\ UNCHANGED <<mode, router, up, session, requestNum, registry, faults, taints>>

\* 5xx or no connection after every retry: the prefiller's group is isolated.
PrefillFails(r) ==
    /\ Is(r, "prefill") /\ Fault
    /\ DropPrefill(r)
    /\ up' = up \ {req[r].prefiller}
    /\ Goto(r, Free(StartWait(NextRound(Look(req[r])))))
    /\ UNCHANGED <<mode, router, session, requestNum, registry, taints>>

\* 4xx: the request is at fault, not the prefiller.
PrefillRefuses(r) ==
    /\ Is(r, "prefill") /\ Fault
    /\ DropPrefill(r)
    /\ Leave(r, "failed")
    /\ UNCHANGED <<mode, router, up, session, taints>>

(***************************************************************************)
(* Streaming the answer                                                    *)
(***************************************************************************)
\* The first chunk frees the prefiller's KV cache.
Receive(r, context) ==
    /\ Is(r, "decode") /\ ~req[r].doneReceived
    /\ kvload' = KvReleased(r)
    /\ Goto(r, [context EXCEPT !.answered = TRUE, !.releasedKv = ReleasedKv(r)])
    /\ UNCHANGED <<mode, router, up, load, toAbort, session, requestNum, registry, taints>>

\* max_tokens of the current request
Allowed(r) == IF req[r].start < MaxTokens THEN MaxTokens - req[r].start ELSE 1

\* A chunk of text, the last one with a normal finish_reason.
Token(r) ==
    LET more == req[r].at - req[r].start + 1 < Allowed(r) IN
    /\ req[r].stream /\ ~req[r].finished /\ NoFault
    /\ \E last \in BOOLEAN :
         /\ last \/ more
         /\ Receive(r, [Yield(req[r], "decode") EXCEPT
              !.at = @ + 1, !.generated = @ + 1, !.sent = @ + 1,
              !.finished = last, !.ended = @ \/ last])

\* role, usage: nothing of the answer
Metadata(r) == /\ req[r].stream /\ ~req[r].answered /\ NoFault
               /\ Receive(r, Yield(req[r], "decode"))

\* Tool calls are forwarded, extract_generated_parts does not see them.
ToolCall(r) == /\ req[r].stream /\ ~req[r].opaque /\ ~req[r].finished /\ NoFault
               /\ Receive(r, [Yield(req[r], "decode") EXCEPT !.opaque = TRUE])

DoneFrame(r) == /\ req[r].stream /\ req[r].finished /\ NoFault
                /\ Receive(r, [Yield(req[r], "decode") EXCEPT !.doneReceived = TRUE])

\* Without streaming the body arrives whole, or in pieces that are no JSON.
Body(r) == /\ ~req[r].stream /\ ~req[r].answered /\ NoFault
           /\ Receive(r, [Yield(req[r], "decode") EXCEPT
                            !.generated = @ + 1, !.finished = TRUE])
Piece(r) == /\ ~req[r].stream /\ ~req[r].answered /\ NoFault
            /\ Receive(r, [Yield(req[r], "decode") EXCEPT !.opaque = TRUE])

\* finish_reason "recomputed" is held back from a stream; a body that carries
\* it is forwarded before the request is computed again.
Recomputed(r) ==
    /\ ~req[r].finished /\ Fault
    /\ \/ req[r].stream /\ Receive(r, Jump(req[r], "recompute"))
       \/ /\ ~req[r].stream /\ ~req[r].answered
          /\ Receive(r, [Yield(req[r], "recompute") EXCEPT !.opaque = TRUE])

\* Mutant: every round runs the original request.
MutNextRequest(c) == [c EXCEPT !.start = 0, !.kv = None]
\* apply_next_request: go on after the generated text, or from the beginning.
NextRequest(c) == [c EXCEPT !.start = c.generated, !.kv = None]

Recompute(r) ==
    /\ Is(r, "recompute")
    /\ toAbort' = Abort(r)
    /\ ReleaseCurrent(r)
    /\ Goto(r, [Jump(Free(NextRequest(NextRound(req[r]))), "look") EXCEPT !.kind = FirstKind])
    /\ UNCHANGED <<mode, router, up, session, requestNum, registry, faults, taints>>

\* The response ends by itself.  A stream without [DONE] has to have had a
\* finish_reason; without streaming nothing is asked, not even that a body came.
End(r) ==
    /\ Is(r, "decode")
    /\ req[r].doneReceived \/ req[r].finished \/ ~req[r].stream
    /\ Goto(r, IF req[r].stream /\ ~req[r].doneReceived
                 THEN [Yield(req[r], "finish") EXCEPT !.doneReceived = TRUE]
                 ELSE Jump(req[r], "finish"))
    /\ UNCHANGED <<shared, faults, taints>>

Finish(r) ==
    /\ req[r].pc \in {"finish", "close"}
    /\ Close(r, IF Is(r, "finish") THEN "completed" ELSE req[r].phase)
    /\ UNCHANGED <<mode, router, up, toAbort, session, faults, taints>>

\* _recover_decode_failure: isolate the backend, go on elsewhere.
Recover(r) ==
    /\ toAbort' = Abort(r)
    /\ up' = up \ {req[r].backend}
    /\ ReleaseCurrent(r)
    /\ Goto(r, Free(NextRequest(StartWait(NextRound(Look(req[r]))))))
    /\ UNCHANGED <<mode, router, session, requestNum, registry, taints>>

\* The connection breaks, the backend answers 5xx or with an error event, or
\* the stream ends too early; or the listener has isolated the backend.
Break(r) ==
    /\ Is(r, "decode") /\ ~req[r].doneReceived
    /\ Recover(r)
    /\ IF req[r].backend \in up THEN Fault ELSE NoFault

\* A connection that breaks after [DONE] is not recovered.
BreakAfterDone(r) ==
    /\ Is(r, "decode") /\ req[r].doneReceived
    /\ Close(r, "completed")
    /\ IF req[r].backend \in up THEN Fault ELSE NoFault
    /\ UNCHANGED <<mode, router, up, toAbort, session, taints>>

\* 4xx
Refuse(r) ==
    /\ Is(r, "decode") /\ ~req[r].answered /\ Fault
    /\ toAbort' = Abort(r)
    /\ Close(r, "failed")
    /\ UNCHANGED <<mode, router, up, session, taints>>

(***************************************************************************)
(* The listener                                                            *)
(***************************************************************************)
Taint(b) == /\ b \in up /\ taints < MaxTaints
            /\ taints' = taints + 1 /\ up' = up \ {b}
            /\ UNCHANGED <<mode, router, load, kvload, toAbort, session,
                           requestNum, registry, req, faults>>
Restore(b) == /\ b \notin up /\ up' = up \cup {b}
              /\ UNCHANGED <<mode, router, load, kvload, toAbort, session,
                             requestNum, registry, req, faults, taints>>

\* What comes back from a backend: an answer, a piece of it, or an error.
Answers(r) ==
    \/ Prefilled(r) \/ PrefilledInVain(r) \/ PrefillFails(r) \/ PrefillRefuses(r)
    \/ Token(r) \/ Metadata(r) \/ ToolCall(r) \/ DoneFrame(r)
    \/ Body(r) \/ Piece(r) \/ Recomputed(r)
    \/ End(r) \/ Break(r) \/ BreakAfterDone(r) \/ Refuse(r)

\* Once a response has begun the proxy asks every second whether its backend
\* was isolated.  It does not ask during a prefill or before the response.
Polled(r) == Is(r, "decode") /\ req[r].answered /\ req[r].backend \notin up
Notice(r) == Polled(r) /\ (Break(r) \/ BreakAfterDone(r))

\* What the proxy does for an accepted request without waiting for a backend.
Works(r) ==
    \/ Start(r) \/ Taken(r) \/ Check(r) \/ Wake(r)
    \/ PickMixed(r) \/ PickPrefiller(r) \/ PickNothing(r)
    \/ Recompute(r) \/ Finish(r) \/ Notice(r)

Leaves(r) == Vanish(r) \/ CloseYielding(r) \/ Cancel(r) \/ CancelPrefill(r)

Next == \/ \E r \in Request : \/ \E stream \in BOOLEAN : Arrive(r, stream)
                              \/ Works(r) \/ Answers(r) \/ Leaves(r) \/ Expire(r)
        \/ \E b \in Backend : Taint(b) \/ Restore(b)

\* The event loop gives every coroutine its turn, and time goes by.  A backend
\* owes nothing: its connections have no timeout.
Fairness == \A r \in Request : WF_vars(Works(r)) /\ WF_vars(Expire(r))
Spec == Init /\ [][Next]_vars /\ Fairness

(***************************************************************************)
(* Properties                                                              *)
(***************************************************************************)
Running(r) == ~(req[r].pc \in {"idle", "gone", "done"})
Prefills(b) == {r \in Request : Is(r, "prefill") /\ req[r].prefillCounted
                                /\ req[r].prefiller = b}
Holders(b) == Prefills(b) \cup {r \in Request : req[r].backend = b /\ req[r].counted}
KvHolders(p) == {r \in Request : req[r].prefiller = p
                                 /\ (Is(r, "prefill") \/ ~req[r].releasedKv)}

\* Through failures, retries, recomputation and disconnects the load of a
\* backend is the number of requests on it, and with least-load routing the KV
\* load of a prefiller is the number of requests whose KV cache it still keeps:
\* nothing is released twice, or never.  With session affinity a successful
\* prefill's KV load is never released, but no more is released than was taken.
LoadMatchesHolders ==
    /\ \A b \in Backend : load[b] = Cardinality(Holders(b))
    /\ \A p \in Prefiller :
         IF router = "least_load" THEN kvload[p] = Cardinality(KvHolders(p))
                                  ELSE kvload[p] >= Cardinality(Prefills(p))

\* When the proxy counts no request, the moment it removes retired backends, no
\* request holds or waits for one.
QuietMeansUnused == requestNum = 0 => \A r \in Request : ~Running(r)

\* A decode attempt uses the KV cache of this round's prefill, or none: never
\* one of an earlier round, and none that was already given up.
RoundUsesFreshKv ==
    \A r \in Request :
      Is(r, "decode") /\ req[r].kv # None =>
        /\ req[r].prefiller # None /\ req[r].kv = ThisRound(r)
        /\ \A p \in Prefiller : req[r].kv \notin toAbort[p]

\* Whatever failed before, a backend that is streaming goes on exactly where
\* the text the client has received ends: nothing is repeated, nothing skipped.
StreamIsGapless ==
    \A r \in Request :
      Is(r, "decode") /\ req[r].stream => req[r].at = req[r].sent

\* In one call to a backend for ever: no call has a timeout.
InCall(r) == Is(r, "prefill") \/ (Is(r, "decode") /\ ~Polled(r))

\* A request that was accepted ends, also when no backend comes back: the
\* recovery window closes it, and a backend that was isolated in the middle of
\* its response is given up.  The one other fate is a call that is never
\* answered: a prefill, a decode that has not begun, or the response of a
\* backend that is up holds its request as long as it likes.
RequestEnds == \A r \in Request : (Running(r) ~> ~Running(r)) \/ <>[]InCall(r)

\* The original request is only run again for a client that has received
\* nothing of an answer.
RestartOnlyAfterMetadata ==
    [][\A r \in Request :
         /\ req[r].backend # None
         /\ req'[r].round # req[r].round
         /\ req'[r].start = 0
         => ~req[r].opaque]_vars

\* A client that was told why the answer finished receives no more text.
NothingAfterFinish ==
    [][\A r \in Request : req[r].ended => req'[r].sent = req[r].sent]_vars
=============================================================================
