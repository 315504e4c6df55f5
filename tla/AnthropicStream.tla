-------------------------- MODULE AnthropicStream --------------------------
(***************************************************************************)
(* The Anthropic message API of the server: the chunks of a chat           *)
(* completion become the events of a message (message_stream_converter), a *)
(* whole completion becomes a message (messages_full_converter), and the   *)
(* client sends the message back in the next turn of the conversation      *)
(* (_convert_message_content).  A piece of the answer is its number.       *)
(***************************************************************************)
EXTENDS Naturals, SequencesExt

CONSTANTS MaxParts,  \* bound: parts of a completion
          MaxErrors, \* bound: items the converter cannot read and goes on after
          None

VARIABLES phase,  \* "first" (no chunk yet), "body", "usage" (the chunk with the usage
                  \* was converted), "done", "failed"
          active, \* state: type and tool_use_id of the active block, type None if none
          next,   \* state.content_block_index
          ids,    \* tool_index_to_id: ids[i] is that of the call with index i - 1
          events, \* what the client was sent, its error events left out: they belong
                  \* to no block and may come anywhere
          errors, \* number of error events, each with a [DONE] behind it
          said    \* the completion so far, a sequence of parts (see Part)
vars == <<phase, active, next, ids, events, errors, said>>

NoBlock == [type |-> None, id |-> 0]
Init == /\ phase = "first" /\ active = NoBlock /\ next = 0
        /\ ids = <<>> /\ events = <<>> /\ errors = 0 /\ said = <<>>

(***************************************************************************)
(* The blocks of the message; s is the state of the converter in a chunk   *)
(***************************************************************************)
Event(type, index, block, piece) ==
    [type |-> type, index |-> index, block |-> block, piece |-> piece]
Send(s, event) == [s EXCEPT !.events = Append(@, event)]

\* Mutant: the index of the next block is not increased.
MutStopActive(s) ==
    IF s.active.type = None THEN s
      ELSE [Send(s, Event("stop", s.next, s.active.type, 0)) EXCEPT !.active = NoBlock]
\* stop_active_block (the signature of a thinking block is left out).
StopActive(s) ==
    IF s.active.type = None THEN s
      ELSE [Send(s, Event("stop", s.next, s.active.type, 0))
               EXCEPT !.active = NoBlock, !.next = @ + 1]
StartBlock(s, type, id) ==
    [Send(s, Event("start", s.next, type, id)) EXCEPT !.active = [type |-> type, id |-> id]]
Delta(s, piece) == Send(s, Event("delta", s.next, s.active.type, piece))

(***************************************************************************)
(* A part of a chunk: a piece of delta.reasoning or delta.content, or an   *)
(* entry of delta.tool_calls, whose call has number n, index n - 1 and     *)
(* identifier n.  The entry may leave the identifier out.                  *)
(***************************************************************************)
Part(type, call, id, arguments) ==
    [type |-> type, call |-> call, id |-> id, arguments |-> arguments]

\* Mutant: the block goes on, whatever its type.
MutText(s, part, piece) ==
    Delta(IF s.active.type # None THEN s
            ELSE StartBlock(StopActive(s), part.type, 0), piece)
Text(s, part, piece) ==
    Delta(IF s.active.type = part.type THEN s
            ELSE StartBlock(StopActive(s), part.type, 0), piece)

\* Mutant: any call goes on in the tool block that is active.
MutNamedCall(s, part, piece) ==
    LET known == [s EXCEPT !.ids = Append(SubSeq(@, 1, part.call - 1), part.id)]
        open == IF s.active.type = "tool_use" THEN known
                  ELSE StartBlock(StopActive(known), "tool_use", part.id)
    IN  IF part.arguments THEN Delta(open, piece) ELSE open
NamedCall(s, part, piece) ==
    LET known == [s EXCEPT !.ids = Append(SubSeq(@, 1, part.call - 1), part.id)]
        open == IF s.active.id = part.id THEN known
                  ELSE StartBlock(StopActive(known), "tool_use", part.id)
    IN  IF part.arguments THEN Delta(open, piece) ELSE open

\* More arguments, for the call of that index if its block is the active one.
MoreArguments(s, part, piece) ==
    IF s.active.id = s.ids[part.call] THEN Delta(s, piece) ELSE s

Convert(s, part, piece) ==
    IF part.type # "tool_use" THEN Text(s, part, piece)
      ELSE IF part.id # None THEN NamedCall(s, part, piece) ELSE MoreArguments(s, part, piece)

(***************************************************************************)
(* The stream                                                              *)
(***************************************************************************)
\* The first chunk of a completion carries its role and no part of the answer.
FirstChunk == /\ phase = "first" /\ phase' = "body"
              /\ events' = Append(events, Event("message_start", 0, None, 0))
              /\ UNCHANGED <<active, next, ids, errors, said>>

\* What a chunk may hold, in the order in which the converter looks at it.  The
\* arguments of a call follow it directly, as vLLM's tool parsers stream them.
Thinking == Part("thinking", 0, None, FALSE)
Content == Part("text", 0, None, FALSE)
Texts == {<<>>, <<Thinking>>, <<Content>>, <<Thinking, Content>>}
NewCall(n, arguments) == Part("tool_use", n, n, arguments)
More(n, id) == Part("tool_use", n, id, TRUE)
Calls == Len(ids)
Entries == {<<>>, <<NewCall(Calls + 1, FALSE)>>, <<NewCall(Calls + 1, TRUE)>>,
            <<NewCall(Calls + 1, TRUE), NewCall(Calls + 2, FALSE)>>,
            <<NewCall(Calls + 1, FALSE), More(Calls + 1, None)>>}
Continued == IF said # <<>> /\ Last(said).type = "tool_use"
               THEN {<<More(Calls, None)>>, <<More(Calls, Calls)>>} ELSE {}
Deltas == {t \o c : t \in Texts, c \in Entries} \cup Continued

Current == [active |-> active, next |-> next, ids |-> ids, events |-> events]
\* The state of the converter behind the parts of the chunk.
Converted(delta) ==
    LET behind[i \in 0..Len(delta)] ==
            IF i = 0 THEN Current ELSE Convert(behind[i - 1], delta[i], Len(said) + i)
    IN  behind[Len(delta)]
Chunk(delta) ==
    LET s == Converted(delta)
    IN  /\ phase = "body" /\ Len(said) + Len(delta) \leq MaxParts
        /\ active' = s.active /\ next' = s.next /\ ids' = s.ids /\ events' = s.events
        /\ said' = said \o delta
        /\ UNCHANGED <<phase, errors>>

\* The last chunk has the usage and no choices.
Usage == LET s == StopActive(Current) IN
         /\ phase = "body" /\ phase' = "usage"
         /\ active' = s.active /\ next' = s.next
         /\ events' = Append(s.events, Event("message_delta", 0, None, 0))
         /\ UNCHANGED <<ids, errors, said>>

Done == /\ phase = "usage" /\ phase' = "done"
        /\ events' = Append(events, Event("message_stop", 0, None, 0))
        /\ UNCHANGED <<active, next, ids, errors, said>>

\* An error of the server comes as data that is no chunk: the exception ends the
\* converter.
ErrorChunk == /\ phase \notin {"done", "failed"} /\ phase' = "failed"
              /\ errors' = errors + 1
              /\ UNCHANGED <<active, next, ids, events, said>>
\* An item that is no data makes an error event and its [DONE], and the converter
\* goes on as if it had not come.
BadItem == /\ phase \notin {"done", "failed"} /\ errors < MaxErrors
           /\ errors' = errors + 1
           /\ UNCHANGED <<phase, active, next, ids, events, said>>

Next == \/ FirstChunk \/ Usage \/ Done \/ ErrorChunk \/ BadItem
        \/ \E delta \in Deltas \ {<<>>} : Chunk(delta)

(***************************************************************************)
(* Messages                                                                *)
(***************************************************************************)
\* A completion: the pieces of its reasoning and content, and those of each call.
Numbers(parts, at) == FlattenSeq([i \in DOMAIN parts |-> IF i \in at THEN <<i>> ELSE <<>>])
Texted(parts, type) == {i \in DOMAIN parts : parts[i].type = type}
Argued(parts, n) == {i \in DOMAIN parts : parts[i].call = n /\ parts[i].arguments}
Completion(parts, calls) ==
    [reasoning |-> Numbers(parts, Texted(parts, "thinking")),
     content |-> Numbers(parts, Texted(parts, "text")),
     calls |-> [n \in 1..calls |-> [id |-> n, pieces |-> Numbers(parts, Argued(parts, n))]]]

Block(type, id, pieces) == [type |-> type, id |-> id, pieces |-> pieces]
TextBlock(type, pieces) == IF pieces = <<>> THEN <<>> ELSE <<Block(type, 0, pieces)>>
Message(completion) ==
    TextBlock("thinking", completion.reasoning) \o TextBlock("text", completion.content)
    \o [n \in DOMAIN completion.calls |->
          Block("tool_use", completion.calls[n].id, completion.calls[n].pieces)]
\* messages_full_converter: the message, or None for the exception of json.loads on
\* the arguments of a call, sure where there are none and possible where the end of
\* the completion cut them short.
FullMessages(completion) ==
    LET calls == completion.calls IN
    (IF \A n \in DOMAIN calls : calls[n].pieces # <<>> THEN {Message(completion)} ELSE {})
    \cup (IF calls = <<>> THEN {} ELSE {None})

\* The message that a client puts together from the events it was sent.
Put(blocks, e) ==
    IF e.type = "start" THEN Append(blocks, Block(e.block, e.piece, <<>>))
      ELSE IF e.type = "delta"
        THEN [blocks EXCEPT ![e.index + 1].pieces = Append(@, e.piece)] ELSE blocks
Received(sent) ==
    LET blocks[k \in 0..Len(sent)] ==
            IF k = 0 THEN <<>> ELSE Put(blocks[k - 1], sent[k])
    IN  blocks[Len(sent)]

Joined(message, type) ==
    FlattenSeq([i \in DOMAIN message |->
                  IF message[i].type = type THEN message[i].pieces ELSE <<>>])
Called(message) ==
    FlattenSeq([i \in DOMAIN message |->
                  IF message[i].type = "tool_use"
                    THEN <<[id |-> message[i].id, pieces |-> message[i].pieces]>> ELSE <<>>])
\* Mutant: the text is that of the last block of text.
MutSentBack(message) ==
    LET texts == {i \in DOMAIN message : message[i].type = "text"} IN
    [reasoning |-> Joined(message, "thinking"),
     content |-> IF texts = {} THEN <<>> ELSE message[Max(texts)].pieces,
     calls |-> Called(message)]
\* _convert_message_content of the message in the next turn.
SentBack(message) ==
    [reasoning |-> Joined(message, "thinking"), content |-> Joined(message, "text"),
     calls |-> Called(message)]

(***************************************************************************)
(* Properties                                                              *)
(***************************************************************************)
\* The event e may follow those that were sent.
Follows(sent, e) ==
    LET blocks == Received(sent)
        before == Last(sent)
        inside == sent # <<>> /\ before.type \in {"start", "delta"}
        outside == sent # <<>> /\ before.type \in {"message_start", "stop"}
    IN  CASE e.type = "message_start" -> sent = <<>>
          [] e.type = "start" -> outside /\ e.index = Len(blocks)
          [] e.type \in {"delta", "stop"} ->
                 inside /\ e.index = before.index
                        /\ e.index = Len(blocks) - 1 /\ e.block = Last(blocks).type
          [] e.type = "message_delta" -> outside
          [] e.type = "message_stop" -> sent # <<>> /\ before.type = "message_delta"
\* Whatever the chunks hold, the events follow the grammar that clients of this
\* API rely on: blocks are numbered consecutively, never overlap and are closed
\* before the message ends, and a piece goes to the open block.  What follows an
\* error, if anything does, goes on where the event before it stopped.
EventsAreBracketed == \A i \in DOMAIN events : Follows(SubSeq(events, 1, i - 1), events[i])

\* The message holds the whole answer and gives each piece of arguments to its
\* own call: sent back in the next turn it is the completion again.
AnswerComesBack == SentBack(Received(events)) = Completion(said, Calls)

\* The streaming and the other endpoint agree: a model that thinks, speaks and
\* then calls its tools gives the same message by either, or the other one fails
\* on the arguments of a call, which the stream passes on as they come.
Rank(type) == IF type = "thinking" THEN 1 ELSE IF type = "text" THEN 2 ELSE 3
InOrder(parts) ==
    \A i, j \in DOMAIN parts : i < j => Rank(parts[i].type) \leq Rank(parts[j].type)
MessagesAgree ==
    InOrder(said) => FullMessages(Completion(said, Calls)) \subseteq {Received(events), None}
=============================================================================
