--------------------------- MODULE LayerwiseProxy ---------------------------
(***************************************************************************)
(* The layer-wise load-balancing proxy.  A request goes to a decoder at    *)
(* once (_handle_completions); the decoder asks the proxy's metaserver for *)
(* a prefill, any number of times (metaserver, send_request_to_service).   *)
(* The text of a request is the sequence of tokens 1, 2, ...  What the     *)
(* proxy reads of a decoder is cut by the network: a chunk that is no      *)
(* event of its own is passed on without being looked at.                  *)
(***************************************************************************)
EXTENDS Integers, Sequences, FiniteSets

CONSTANTS Requests, Decoders, Prefillers,
          Weight,      \* Weight[r]: the score of the request's length
          Modes,       \* Modes[r]: the modes r may have: sets of "stream" and "chat"
          MaxTokens,   \* max_tokens of every request
          MaxRetries,  \* --max-retries
          Bound,       \* bounds: Bound[r].calls, .recomputes, .tokens and .events are the
                       \* metaserver calls of r, its recomputations, the tokens of a
                       \* chunk, and the events counted
          None

VARIABLES pc,        \* pc[r]: "new", "ready" (StreamingResponse made), "open"
                     \* (about to post), "stream", "done", "gone" (see Leave)
          mode,      \* mode[r]: stream_flag and chat_flag, those that are set
          decoder,   \* decoder[r]
          attempt,   \* attempt[r]: in stream_service_response_with_retry
          base,      \* base[r]: the token behind which the decoder goes on when
                     \* it gets the request as it is posted
          limit,     \* limit[r]: max_tokens of the request as it is posted
          at,        \* at[r]: the last token the decoder made in this attempt
          generated, \* generated[r]: generated_token
          received,  \* received[r]: what the client was sent
          completion, retries, \* completion_tokens and retry_count
          torn,      \* requests whose stream broke after text and was posted again,
          blurred,   \* of which a chunk was not just one event with its blank line,
          packed,    \* and of which an event held several tokens (three ghosts)
          calls, used, \* metaserver calls under way, as request, number and prefiller;
                     \* used[r]: calls made
          load       \* load[s]: active_tokens (and active_kv_cache, see Metaserver)
counters == <<generated, received, completion, retries>>
ghosts == <<torn, blurred, packed>>
stream == <<pc, mode, attempt, base, limit, at, counters, ghosts>>
vars == <<stream, decoder, calls, used, load>>

Servers == Decoders \cup Prefillers

Init == /\ pc = [r \in Requests |-> "new"] /\ decoder = [r \in Requests |-> None]
        /\ mode \in [Requests -> UNION {Modes[r] : r \in Requests}]
        /\ \A r \in Requests : mode[r] \in Modes[r]
        /\ attempt = [r \in Requests |-> 1] /\ base = [r \in Requests |-> 0]
        /\ limit = [r \in Requests |-> MaxTokens] /\ at = [r \in Requests |-> 0]
        /\ generated = [r \in Requests |-> <<>>] /\ received = [r \in Requests |-> <<>>]
        /\ completion = [r \in Requests |-> 0] /\ retries = [r \in Requests |-> 0]
        /\ torn = {} /\ blurred = {} /\ packed = {}
        /\ calls = {} /\ used = [r \in Requests |-> 0]
        /\ load = [s \in Servers |-> 0]

Least(servers) == {s \in servers : \A t \in servers : load[s] \leq load[t]}
Shift(s, weight) == load' = [load EXCEPT ![s] = @ + weight]

(***************************************************************************)
(* A request (_handle_completions, generate_stream)                        *)
(***************************************************************************)
Streams(r) == "stream" \in mode[r]
Chats(r) == "chat" \in mode[r]
Moves(r, place) == pc' = [pc EXCEPT ![r] = place]

\* select_decoder; the generator runs only when the response is sent.
Arrive(r) == /\ pc[r] = "new" /\ Moves(r, "ready")
             /\ \E d \in Least(Decoders) : /\ decoder' = [decoder EXCEPT ![r] = d]
                                           /\ Shift(d, Weight[r])
             /\ UNCHANGED <<mode, attempt, base, limit, at, counters, ghosts, calls, used>>

Start(r) == /\ pc[r] = "ready" /\ Moves(r, "open")
            /\ UNCHANGED <<mode, attempt, base, limit, at, counters, ghosts, decoder,
                           calls, used, load>>
\* The client leaves before the generator starts: its finally never runs.
Leave(r) == /\ pc[r] = "ready" /\ Moves(r, "gone")
            /\ UNCHANGED <<mode, attempt, base, limit, at, counters, ghosts, decoder,
                           calls, used, load>>

\* The finally of generate_stream.
Finish(r) == /\ Moves(r, "done")
             /\ Shift(decoder[r], 0 - Weight[r])
             /\ UNCHANGED <<mode, attempt, base, limit, at, counters, ghosts, decoder,
                            calls, used>>

\* A decoder refuses a limit below one.
Posted(r) == /\ pc[r] = "open" /\ limit[r] > 0 /\ Moves(r, "stream")
             /\ at' = [at EXCEPT ![r] = base[r]]
             /\ UNCHANGED <<mode, attempt, base, limit, counters, ghosts, decoder, calls,
                            used, load>>

\* The next n tokens of the decoder.
Tokens(r, n) == [i \in 1..n |-> at[r] + i]
Made(r, n) == at' = [at EXCEPT ![r] = @ + n]
Room(r, n) == at[r] + n - base[r] \leq limit[r]

\* A chunk that is one event.  It is counted as one token, with however many
\* tokens in it: none in the event that names the role and in the last one,
\* several where the decoder makes several in one step.  A blank line behind the
\* event that comes as a chunk of its own is dropped.
Event(r) ==
    /\ pc[r] = "stream" /\ Streams(r) /\ completion[r] < Bound[r].events
    /\ \E n \in 0..Bound[r].tokens, whole \in BOOLEAN :
         /\ Room(r, n) /\ Made(r, n)
         /\ generated' = [generated EXCEPT ![r] = @ \o Tokens(r, n)]
         /\ received' = [received EXCEPT ![r] = @ \o Tokens(r, n)]
         /\ blurred' = IF whole THEN blurred ELSE blurred \cup {r}
         /\ packed' = IF n > 1 THEN packed \cup {r} ELSE packed
    /\ completion' = [completion EXCEPT ![r] = @ + 1]
    /\ UNCHANGED <<pc, mode, attempt, base, limit, retries, torn, decoder, calls, used, load>>

\* A chunk that is a part of an event or body, or more than one event: it cannot
\* be parsed, is passed on as it is, and leaves no trace in the proxy.
Unread(r) ==
    /\ pc[r] = "stream" /\ (Streams(r) \/ at[r] = base[r])
    /\ \E n \in 1..Bound[r].tokens :
         /\ Room(r, n) /\ Made(r, n)
         /\ received' = [received EXCEPT ![r] = @ \o Tokens(r, n)]
    /\ blurred' = blurred \cup {r}
    /\ UNCHANGED <<pc, mode, attempt, base, limit, generated, completion, retries, torn,
                   packed, decoder, calls, used, load>>

\* A body in one chunk.  Its usage counts its tokens, and after a recomputation
\* its text is replaced by all that was generated.
Body(r) ==
    /\ pc[r] = "stream" /\ ~Streams(r) /\ at[r] = base[r]
    /\ \E n \in 1..limit[r] :
         /\ Made(r, n)
         /\ generated' = [generated EXCEPT ![r] = @ \o Tokens(r, n)]
         /\ received' = [received EXCEPT ![r] = @ \o
                            IF retries[r] > 0 THEN generated'[r] ELSE Tokens(r, n)]
         /\ completion' = [completion EXCEPT ![r] = @ + n]
    /\ UNCHANGED <<pc, mode, attempt, base, limit, retries, ghosts, decoder, calls, used, load>>

\* The decoder gives the request up ("recomputed"): an event without text that is
\* counted, or a body with what it made so far and its count; neither is passed on.
GivenUp(r) ==
    /\ pc[r] = "stream" /\ retries[r] < Bound[r].recomputes
    /\ retries' = [retries EXCEPT ![r] = @ + 1]
    /\ \E n \in 0..limit[r] :
         /\ IF Streams(r) THEN n = 0 ELSE at[r] = base[r]
         /\ generated' = [generated EXCEPT ![r] = @ \o Tokens(r, n)]
         /\ completion' = [completion EXCEPT ![r] = @ + IF Streams(r) THEN 1 ELSE n]
    /\ Moves(r, "open") /\ attempt' = [attempt EXCEPT ![r] = 1]
    /\ UNCHANGED <<mode, at, received, ghosts, decoder, calls, used, load>>
\* Mutant: the limit of the request stays as it was.
MutRecompute(r) ==
    /\ GivenUp(r)
    /\ base' = [base EXCEPT ![r] = Len(generated'[r])]
    /\ UNCHANGED limit
\* It is posted again with the text generated so far behind the prompt.  In a chat
\* the text goes into the first message, whatever it is, and the decoder answers
\* the messages anew or goes on.
Recompute(r) ==
    /\ GivenUp(r)
    /\ \E n \in {Len(generated'[r])} \cup (IF Chats(r) THEN {0} ELSE {}) :
         base' = [base EXCEPT ![r] = n]
    /\ limit' = [limit EXCEPT ![r] = MaxTokens - completion'[r] + retries'[r]]

\* An httpx error: the same request is posted again, whatever was passed on.
RequestError(r) ==
    /\ pc[r] \in {"open", "stream"}
    /\ IF attempt[r] < MaxRetries
         THEN /\ Moves(r, "open")
              /\ attempt' = [attempt EXCEPT ![r] = @ + 1]
              /\ torn' = IF pc[r] = "stream" /\ at[r] > base[r] THEN torn \cup {r} ELSE torn
              /\ UNCHANGED <<mode, base, limit, at, counters, blurred, packed, decoder,
                             calls, used, load>>
         ELSE Finish(r)

\* The decoder's stream ends, another error breaks it after a chunk, or the
\* client disconnects while the generator runs.
End(r) == pc[r] \in {"open", "stream"} /\ Finish(r)

(***************************************************************************)
(* The metaserver                                                          *)
(***************************************************************************)
\* Any number of calls for a request the proxy has ever known: req_data_dict
\* is never cleared.  active_tokens and active_kv_cache of a prefiller are
\* raised together and lowered together, without an await between them.
Metaserver(r) ==
    /\ pc[r] # "new" /\ used[r] < Bound[r].calls
    /\ used' = [used EXCEPT ![r] = @ + 1]
    /\ \E p \in Least(Prefillers) : /\ calls' = calls \cup {<<r, used'[r], p>>}
                                    /\ Shift(p, Weight[r])
    /\ UNCHANGED <<stream, decoder>>
\* The prefill returns, or every attempt at it failed.
Prefilled(call) ==
    /\ Shift(call[3], 0 - Weight[call[1]])
    /\ calls' = calls \ {call}
    /\ UNCHANGED <<stream, decoder, used>>

Next == \/ \E r \in Requests :
             \/ Arrive(r) \/ Start(r) \/ Leave(r) \/ Posted(r) \/ Event(r) \/ Unread(r)
             \/ Body(r) \/ Recompute(r) \/ RequestError(r) \/ End(r) \/ Metaserver(r)
        \/ \E call \in calls : Prefilled(call)

Spec == Init /\ [][Next]_vars

(***************************************************************************)
(* Properties                                                              *)
(***************************************************************************)
\* Through any number of recomputations the client receives the tokens in
\* order, none missing and none twice, as long as the network delivers each event
\* or body as one chunk, the request is no chat that was posted again, and the
\* stream did not break after text (see TextComesOnce).  And it receives no more
\* tokens than it asked for if each event holds at most one: one more for each
\* recomputation of a request that does not stream, whose usage is exact while
\* retry_count is added for the event that streams count too many.
Whole(tokens) == tokens = [i \in 1..Len(tokens) |-> i]
AnswersAreWhole ==
    \A r \in Requests \ (torn \cup blurred) :
        (Chats(r) => retries[r] = 0) =>
           /\ Whole(received[r])
           /\ r \notin packed => Len(received[r]) \leq
                MaxTokens + IF Streams(r) THEN 0 ELSE retries[r]

\* "if chunk is [done], skip it." (load_balance_proxy_layerwise_server_example.py:
\* 493): no text is passed on that is not recorded.
TextIsRecorded == \A r \in Requests : Streams(r) => Len(received[r]) \leq Len(generated[r])

\* What a server is busy with: requests it decodes, as call 0, and prefills.
Jobs(s) ==
    {<<r, 0>> : r \in {r \in Requests : decoder[r] = s /\ pc[r] \notin {"new", "done"}}}
    \cup {<<c[1], c[2]>> : c \in {c \in calls : c[3] = s}}
Units(jobs) == UNION {{j} \X (1..Weight[j[1]]) : j \in jobs}

\* However requests, metaserver calls and failures overlap, every server carries
\* the load of just the requests and prefills it serves, each as many units as it
\* weighs (of a client that left before the response began see LoadIsReleased).
LoadIsCarried == \A s \in Servers : load[s] = Cardinality(Units(Jobs(s)))

\* "If any chunk has been sent, do not retry, just log and drop"
\* (load_balance_proxy_layerwise_server_example.py:396).
TextComesOnce == torn = {}

\* "After streaming done, release tokens" (line 540): a proxy without requests
\* has no load.
LoadIsReleased ==
    calls = {} /\ (\A r \in Requests : pc[r] \in {"done", "gone"})
        => \A s \in Servers : load[s] = 0
=============================================================================
