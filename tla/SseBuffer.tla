----------------------------- MODULE SseBuffer -----------------------------
(***************************************************************************)
(* SSEEventBuffer of the load-balancing proxy: the bytes of a backend's    *)
(* stream arrive in pieces that have nothing to do with its events, and    *)
(* are put together to the data of whole events.  A character is CR, LF,   *)
(* D (the "data:" that begins a line) or T (any other text).               *)
(***************************************************************************)
EXTENDS Naturals, SequencesExt

CONSTANTS MaxStream,   \* bound: length of a stream
          CR, LF, D, T

VARIABLES rest,      \* what has not arrived
          buffer,    \* _buffer
          payloads,  \* what feed has returned until now
          arrived    \* all that has arrived
vars == <<rest, buffer, payloads, arrived>>

Char == {CR, LF, D, T}
\* A CR belongs to a line end, and "data:" is meant at the start of a line.
Stream == {s \in UNION {[1..n -> Char] : n \in 0..MaxStream} :
             \A i \in DOMAIN s : s[i] = CR => i < Len(s) /\ s[i + 1] = LF}

Init == /\ rest \in Stream
        /\ buffer = <<>> /\ payloads = <<>> /\ arrived = <<>>

\* replace("\r\n", "\n")
Normalised(s) ==
    FlattenSeq([i \in DOMAIN s |-> IF s[i] = CR /\ i < Len(s) /\ s[i + 1] = LF
                                     THEN <<>> ELSE <<s[i]>>])

\* split("\n")
Lines(s) ==
    LET ends == SetToSortSeq({i \in DOMAIN s : s[i] = LF} \cup {Len(s) + 1}, <)
    IN [k \in DOMAIN ends |->
          SubSeq(s, IF k = 1 THEN 1 ELSE ends[k - 1] + 1, ends[k] - 1)]

\* The data lines of an event, joined; none: the event is a comment.
Data(event) ==
    LET lines == SelectSeq(Lines(event), LAMBDA l : l # <<>> /\ l[1] = D)
    IN [i \in DOMAIN lines |-> Tail(lines[i])]

\* The positions from i on where an empty line ends an event.
Separators(s, i) == {j \in i..Len(s) - 1 : s[j] = LF /\ s[j + 1] = LF}
\* The events of s and what is left: the next event begins after the separator.
Events(s) ==
    LET from[i \in 1..Len(s) + 1] ==
            IF Separators(s, i) = {} THEN [payloads |-> <<>>, left |-> SubSeq(s, i, Len(s))]
            ELSE LET end == Min(Separators(s, i))
                     data == Data(SubSeq(s, i, end - 1))
                     after == from[end + 2]
                 IN [payloads |-> (IF data = <<>> THEN <<>> ELSE <<data>>) \o after.payloads,
                     left |-> after.left]
    IN from[1]

\* Mutant: only the new piece is normalised.
MutBuffered(piece) == buffer \o Normalised(piece)
Buffered(piece) == Normalised(buffer \o piece)

Feed(n) ==
    LET piece == SubSeq(rest, 1, n)
        events == Events(Buffered(piece))
    IN /\ rest' = SubSeq(rest, n + 1, Len(rest))
       /\ buffer' = events.left
       /\ payloads' = payloads \o events.payloads
       /\ arrived' = arrived \o piece

Next == \E n \in 1..Len(rest) : Feed(n)

\* However a stream is cut into pieces, also between CR and LF, the events
\* that were returned are those of all that has arrived, in order: none is
\* lost, torn or returned twice.
CutsDoNotMatter == payloads = Events(Normalised(arrived)).payloads
=============================================================================
