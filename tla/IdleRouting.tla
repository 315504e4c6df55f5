---------------------------- MODULE IdleRouting ----------------------------
(***************************************************************************)
(* How the API servers keep requests away from idle engines: what an       *)
(* engine tells of itself (_send_idle_notification and                     *)
(* _send_recovered_notification of the engine core patch) and what each    *)
(* client makes of it (core_client_patch.py).  An engine is idle when its  *)
(* executor's world_size is 0.  Engine r + 1 has data-parallel rank r.     *)
(***************************************************************************)
EXTENDS Naturals, SequencesExt, FiniteSetsExt

CONSTANTS NumEngines,
          Clients,   \* those with an output address (addresses.outputs)
          Counted,   \* those of them with an index below _api_process_count
          MaxWire    \* bound: reports under way from one engine to one client

Engines == 1..NumEngines

VARIABLES up,      \* engines whose world_size is not 0
          sent,    \* engines whose _idle_notification_sent is set
          wire,    \* wire[c][e]: load reports engine e has sent to client c
          marks,   \* marks[c]: _idle_engines of client c
          untold   \* engines that changed without a word (bound: once each)
vars == <<up, sent, wire, marks, untold>>

\* (999999, 999999), (0, 0), and any other load.
Reports == {"idle", "free", "busy"}

TypeOK == /\ up \subseteq Engines /\ sent \subseteq Engines
          /\ wire \in [Clients -> [Engines -> BoundedSeq(Reports, MaxWire)]]
          /\ marks \in [Clients -> SUBSET Engines]
          /\ untold \subseteq Engines

Init == /\ up = Engines /\ sent = {}
        /\ wire = [c \in Clients |-> [e \in Engines |-> <<>>]]
        /\ marks = [c \in Clients |-> {}]
        /\ untold = {}

(***************************************************************************)
(* The engines                                                             *)
(***************************************************************************)
Room(e) == \A c \in Clients : Len(wire[c][e]) < MaxWire
Tell(e, report, told) ==
    wire' = [c \in Clients |-> IF c \in told THEN [wire[c] EXCEPT ![e] = Append(@, report)]
                               ELSE wire[c]]

\* A STOP or DEGRADE succeeded and left the executor without workers.
\* Every client with an address is told, once until the engine runs again.
Degrade(e) ==
    /\ Room(e)
    /\ up' = up \ {e} /\ sent' = sent \cup {e}
    /\ IF e \in sent THEN UNCHANGED wire ELSE Tell(e, "idle", Clients)
    /\ UNCHANGED <<marks, untold>>

\* Mutant: the next idle notification is taken for one already sent.
MutRecover(e) ==
    /\ Room(e)
    /\ up' = up \cup {e} /\ UNCHANGED sent
    /\ Tell(e, "free", Counted)
    /\ UNCHANGED <<marks, untold>>
\* A strategy succeeded and the executor has workers: here _api_process_count
\* says who is told.
Recover(e) ==
    /\ Room(e)
    /\ up' = up \cup {e} /\ sent' = sent \ {e}
    /\ Tell(e, "free", Counted)
    /\ UNCHANGED <<marks, untold>>

\* A deployment failed, or the wait for one ran out and workers were restarted
\* or given up: world_size may have changed and nobody is told.
ChangeUntold(e) ==
    /\ e \notin untold
    /\ up' = IF e \in up THEN up \ {e} ELSE up \cup {e}
    /\ untold' = untold \cup {e}
    /\ UNCHANGED <<sent, wire, marks>>

\* An engine with workers sends its outputs, and its load with them, to the
\* client they are for.
Report(e, c) ==
    /\ e \in up /\ Len(wire[c][e]) < MaxWire
    /\ \E load \in {"free", "busy"} : wire' = [wire EXCEPT ![c][e] = Append(@, load)]
    /\ UNCHANGED <<up, sent, marks, untold>>

(***************************************************************************)
(* The clients                                                             *)
(***************************************************************************)
After(marked, e, report) ==
    CASE report = "idle" -> marked \cup {e}
      [] report = "free" -> marked \ {e}
      [] OTHER -> marked

\* patched_process_engine_outputs
ProcessOutputs(c, e) ==
    /\ wire[c][e] # <<>>
    /\ marks' = [marks EXCEPT ![c] = After(@, e, Head(wire[c][e]))]
    /\ wire' = [wire EXCEPT ![c][e] = Tail(@)]
    /\ UNCHANGED <<up, sent, untold>>

\* The engines the original selection sees: without a mark, or all of them.
Active(c) == IF marks[c] = Engines THEN Engines ELSE Engines \ marks[c]

\* patched_get_core_engine_for_request: the least loaded active engine, which
\* can be any of them.  For a request with a data_parallel_rank the rank indexes
\* the filtered list, and a rank beyond its end is an error.  The choice changes
\* nothing here.
Routes(c) == Active(c)
RoutesRank(c, rank) ==
    LET active == SetToSortSeq(Active(c), <)
    IN IF rank < Len(active) THEN {active[rank + 1]} ELSE {}

Next == \/ \E e \in Engines : Degrade(e) \/ Recover(e) \/ ChangeUntold(e)
        \/ \E e \in Engines, c \in Clients : Report(e, c) \/ ProcessOutputs(c, e)

Spec == Init /\ [][Next]_vars

(***************************************************************************)
(* Properties                                                              *)
(***************************************************************************)
\* What a client that has read the reports believes: the last of them that says
\* anything counts, and the mark if none does.
Belief(marked, reports) ==
    \/ \E i \in DOMAIN reports : /\ reports[i] = "idle"
                                /\ \A j \in DOMAIN reports : j > i => reports[j] = "busy"
    \/ marked /\ \A j \in DOMAIN reports : reports[j] = "busy"
\* The mark a client that has read everything has of an engine.
Believed(c, e) == Belief(e \in marks[c], wire[c][e])

\* Whatever is under way, in the end every client marks each engine that
\* announced itself idle and is, and no client among those that a recovery is
\* announced to marks an engine that runs and has announced so: the (0, 0) of an
\* ordinary load report never hides an idle engine, and the single idle
\* notification is never the one that was needed a second time.  A client beyond
\* _api_process_count is only promised the first half.
\* (Of an engine that changed without a word nothing is said: see RunningIsUsed.)
MarksFollowTheEngines ==
    \A e \in Engines \ untold :
        /\ e \in sent \ up => \A c \in Clients : Believed(c, e)
        /\ e \in up \ sent => \A c \in Counted : ~Believed(c, e)

\* The docstring of the patched selection: "跳过空转的 engine，避免请求发送到坏卡"
\* (skip idle engines), so the rank a request asks for is the engine it gets.
RankIsObeyed ==
    \A c \in Clients, e \in Engines : RoutesRank(c, e - 1) \subseteq {e}

\* The docstring of _send_recovered_notification: "当 world_size 从 0 变为非 0 时
\* 调用，发送带有正常负载分数的通知，让客户端移除 idle 标记" (called when world_size
\* leaves 0, so that the clients drop the mark).
RunningIsUsed == \A c \in Clients, e \in up : ~Believed(c, e)
=============================================================================
