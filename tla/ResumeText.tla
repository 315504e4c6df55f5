----------------------------- MODULE ResumeText -----------------------------
(***************************************************************************)
(* How the load-balancing proxy turns the text a client has received into  *)
(* the assistant message another backend is to continue                    *)
(* (compose_generated_text and _build_resume_assistant_content).  A        *)
(* message is a sequence of Open ("<think>"), Close ("</think>"), NL and   *)
(* A (any other text); the marker the proxy inserts is Open, NL.           *)
(***************************************************************************)
EXTENDS Naturals, FiniteSets, SequencesExt

CONSTANTS MaxText,   \* bound: length of each text
          Open, Close, NL, A, None

VARIABLES state,     \* RequestRecoveryState: what was generated
          original,  \* the assistant message the client's request ended with
          resumed    \* the message of the next request, once it is built
vars == <<state, original, resumed>>

Texts(chars) == UNION {[1..n -> chars] : n \in 0..MaxText}
ThinkStart == <<Open, NL>>

\* What a backend can have sent: with a reasoning parser no markers, without
\* thinking no markers either, and otherwise at most the end of the thinking.
Raw(thinking) == {t \in Texts({Close, NL, A}) :
                    Cardinality({i \in DOMAIN t : t[i] = Close}) \leq IF thinking THEN 1 ELSE 0}
Generated ==
    [parser : {TRUE}, thinking : BOOLEAN, reasoning : Texts({NL, A}),
     content : Texts({NL, A}), raw : {<<>>}]
    \cup UNION {[parser : {FALSE}, thinking : {thinking}, reasoning : {<<>>},
                 content : {<<>>}, raw : Raw(thinking)] : thinking \in BOOLEAN}
\* The message to continue is empty, an answer, or thinking with or without one.
Originals == {t \in Texts({Open, Close, NL, A}) :
                \A i \in DOMAIN t : /\ t[i] = Open => i = 1
                                    /\ t[i] = Close => t[1] = Open /\ i > 1
                                         /\ \A j \in DOMAIN t : t[j] = Close => j = i}

Init == /\ state \in Generated
        /\ original \in Originals
        /\ resumed = None

(***************************************************************************)
(* The functions                                                           *)
(***************************************************************************)
LastAt(t, x) == LET at == {i \in DOMAIN t : t[i] = x}
                IN IF at = {} THEN 0 ELSE CHOOSE i \in at : \A j \in at : j \leq i
From(t, i) == SubSeq(t, i, Len(t))
LeftStrip(t) == LET kept == {i \in DOMAIN t : t[i] # NL}
                IN IF kept = {} THEN <<>> ELSE From(t, CHOOSE i \in kept : \A j \in kept : i \leq j)

\* _has_unclosed_think_marker
Unclosed(t) == LastAt(t, Open) > LastAt(t, Close)
AfterThinking(t) == LeftStrip(From(t, LastAt(t, Close) + 1))

\* Mutant: an answer that began before the thinking ended is kept.
MutVisible(t) == IF LastAt(t, Close) > 0 THEN AfterThinking(t) ELSE t
\* _extract_visible_answer_content
Visible(t) == IF LastAt(t, Close) > 0 THEN AfterThinking(t)
              ELSE IF Unclosed(t) THEN <<>> ELSE t

Thinking(t, more) == IF Unclosed(t) THEN t \o more ELSE t \o ThinkStart \o more

\* _build_resume_assistant_content
Resume(s, orig) ==
    IF s.parser
      THEN IF s.content # <<>> THEN Visible(orig) \o s.content
           ELSE IF s.reasoning # <<>> THEN Thinking(orig, s.reasoning)
           ELSE orig
    ELSE IF s.raw = <<>> THEN orig
    ELSE IF ~s.thinking THEN orig \o s.raw
    ELSE IF LastAt(s.raw, Close) > 0 THEN Visible(orig) \o AfterThinking(s.raw)
    ELSE Thinking(orig, s.raw)

\* compose_generated_text
Composed(s) ==
    IF s.parser
      THEN IF s.content # <<>> THEN s.content
           ELSE IF s.reasoning # <<>> THEN ThinkStart \o s.reasoning ELSE <<>>
    ELSE IF s.raw = <<>> THEN <<>>
    ELSE IF s.thinking THEN ThinkStart \o s.raw ELSE s.raw

\* apply_next_request: without generated text the original request runs again.
Apply == /\ resumed = None
         /\ resumed' = IF Composed(state) = <<>> THEN original ELSE Resume(state, original)
         /\ UNCHANGED <<state, original>>
Next == Apply

(***************************************************************************)
(* What the message has to say                                             *)
(***************************************************************************)
\* The generation had come to an answer, and this is it.
Answering(s) == IF s.parser THEN s.content # <<>>
                ELSE s.raw # <<>> /\ (~s.thinking \/ LastAt(s.raw, Close) > 0)
Answer(s) == IF s.parser THEN s.content
             ELSE From(s.raw, LastAt(s.raw, Close) + 1)
Thought(s) == IF s.parser THEN s.reasoning ELSE s.raw
\* What t says at the positions at, line ends apart.
Words(t, at) ==
    FlattenSeq([i \in DOMAIN t |-> IF i \in at /\ t[i] # NL THEN <<t[i]>> ELSE <<>>])
\* What a reader is shown of a message: all that is not thinking.
Outside(t) == {i \in DOMAIN t :
                 /\ \A j \in i..Len(t) : t[j] # Close
                 /\ \A j \in 1..i : t[j] = Open => \E k \in j..i : t[k] = Close}
Shown(t) == Words(t, Outside(t))
Said(t) == Words(t, DOMAIN t)

\* The message that is continued shows the answer of the client's own message
\* and then the answer the client has received, nothing of it lost or said
\* twice (line ends apart); and while the model was still thinking, the message
\* ends inside the thinking, with the thoughts the client has received.
AnswerIsContinued ==
    resumed # None =>
      /\ Answering(state) /\ (Unclosed(original) => state.parser \/ state.thinking)
           => Shown(resumed) = Shown(original) \o Said(Answer(state))
      /\ ~Answering(state) /\ Thought(state) # <<>>
           => Unclosed(resumed) /\ IsSuffix(Thought(state), resumed)
=============================================================================
