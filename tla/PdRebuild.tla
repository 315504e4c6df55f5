----------------------------- MODULE PdRebuild -----------------------------
(***************************************************************************)
(* Rebuilding the links over which prefill (P) and decode (D) instances    *)
(* move KV caches, without restarting workers: a PD_REBUILD strategy on a  *)
(* healthy instance.  The executor sends it to every worker                *)
(* (_execute_pd_rebuild_strategy, update_kv_connector_for_pd), and each    *)
(* worker's StrategyHandler (common/strategy_handler.py) throws its links  *)
(* away and builds new ones.  The class of the workers carries the note    *)
(* that it is not in effect at present (its_multiproc_executor.py:1702):   *)
(* the module says what the handler does with the strategies it is given,  *)
(* with VLLM_ITS_ENABLE_PD_REBUILD set.                                    *)
(***************************************************************************)
EXTENDS Naturals, SequencesExt

CONSTANTS Hosts,      \* servers with NPUs
          PrefillHosts, \* those of the prefill instance
          Strategies, \* see Strategy
          FirstLinks, \* links a connector may have at the start, from npu_id to host
          NumWorkers, \* workers of this instance, with ranks 0..NumWorkers - 1
          MaxRebuilds, \* bound: strategies sent
          None

Workers == 0..(NumWorkers - 1)

\* servers: the hosts in the order the strategy lists them; healthy: pairs of
\* host and npu_id; ptp: new_tp, else tp, of the first prefill configuration,
\* None without one; text: the executor ids are strings, as types.py declares.
Strategy == [servers : Seq(Hosts), healthy : SUBSET (Hosts \X Nat),
             ptp : Nat \cup {None}, text : BOOLEAN]

VARIABLES role,   \* "P" or "D", from kv_role
          todo,   \* todo[w]: strategies the worker has still to carry out
          step,   \* step[w]: where it is in _execute_pd_rebuild
          known,  \* workers whose handler has its _kv_connector
          links,  \* links[w]: sockets, from npu_id to the host and the rebuild
          built,  \* built[w]: the strategies it has connected for, in their order
          replies, \* replies[w]: answers of the worker nobody has read
          waits,  \* the executor waits in collective_rpc
          report, \* what it last told the decision center
          sent    \* strategies sent so far
vars == <<role, todo, step, known, links, built, replies, waits, report, sent>>

\* A link that rebuild number by made, or that was there before any.
Link(host, by) == [host |-> host, by |-> by]
NoLinks == [n \in {} |-> None]

\* The handler gets its connector from the worker in its first rebuild:
\* set_kv_connector is called nowhere.
Init == /\ role \in {"P", "D"}
        /\ todo = [w \in Workers |-> <<>>]
        /\ step = [w \in Workers |-> "idle"]
        /\ known = {}
        /\ \E first \in FirstLinks :
             links = [w \in Workers |-> [n \in DOMAIN first |-> Link(first[n], 0)]]
        /\ built = [w \in Workers |-> <<>>]
        /\ replies = [w \in Workers |-> 0]
        /\ waits = FALSE /\ report = None /\ sent = <<>>

(***************************************************************************)
(* The executor                                                            *)
(***************************************************************************)
Rebuild == /\ ~waits /\ Len(sent) < MaxRebuilds
           /\ \E s \in Strategies :
                /\ sent' = Append(sent, s)
                /\ todo' = [w \in Workers |-> Append(todo[w], s)]
           /\ waits' = TRUE
           /\ UNCHANGED <<role, step, known, links, built, replies, report>>

\* The answers of the workers in read are read.
Read(read) == /\ \A w \in read : replies[w] > 0
              /\ replies' = [w \in Workers |-> IF w \in read THEN replies[w] - 1 ELSE replies[w]]
\* Every worker has answered, this call or one that timed out.
\* update_kv_connector_for_pd returns nothing and lets no error out, so the
\* answers say nothing of how it went.
Answered == /\ waits /\ Read(Workers)
            /\ waits' = FALSE /\ report' = "success"
            /\ UNCHANGED <<role, todo, step, known, links, built, sent>>
\* The 60 seconds of collective_rpc run out at the first worker without an
\* answer; the workers carry on.
RpcTimeout == /\ waits
              /\ \E w \in Workers : replies[w] = 0 /\ Read(0..(w - 1))
              /\ waits' = FALSE /\ report' = "fail"
              /\ UNCHANGED <<role, todo, step, known, links, built, sent>>

(***************************************************************************)
(* A worker                                                                *)
(***************************************************************************)
Current(w) == Head(todo[w])
Goto(w, place) == /\ step' = [step EXCEPT ![w] = place]
                  /\ UNCHANGED <<todo, replies>>
\* execute_strategy returns, True or False, or an error is logged.
Return(w) == /\ step' = [step EXCEPT ![w] = "idle"]
             /\ todo' = [todo EXCEPT ![w] = Tail(@)]
             /\ replies' = [replies EXCEPT ![w] = @ + 1]
Others == UNCHANGED <<role, waits, report, sent>>

\* _calculate_kv_fetch_mapping: a decode worker fetches from one prefill rank.
Target(s, w) == IF s.ptp > 0 THEN w % s.ptp ELSE 0
FetchesFrom(s, w, n) == role = "D" /\ s.ptp # None => n = Target(s, w)

\* _get_peer_configs: a string has no parity, the TypeError ends the rebuild.
Start(w) == /\ step[w] = "idle" /\ todo[w] # <<>>
            /\ IF Current(w).text THEN Return(w) ELSE Goto(w, "cleanup")
            /\ UNCHANGED <<known, links, built>> /\ Others

\* Mutant: the sockets are closed and stay in the table.
MutCleanup(w) == /\ step[w] = "cleanup" /\ Goto(w, "reinit")
                 /\ UNCHANGED <<known, links, built>> /\ Others
\* _cleanup_kv_connections: without a connector there is nothing it can close;
\* errors on closing a socket are logged.
Cleanup(w) == /\ step[w] = "cleanup" /\ Goto(w, "reinit")
              /\ links' = IF w \in known THEN [links EXCEPT ![w] = NoLinks] ELSE links
              /\ UNCHANGED <<known, built>> /\ Others

\* _reinit_transfer_engine: a missing package is ignored, another error ends
\* the rebuild.
Reinit(w) == /\ step[w] = "reinit" /\ (Goto(w, "connect") \/ Return(w))
             /\ UNCHANGED <<known, links, built>> /\ Others

\* The devices a worker connects to, in order: every healthy one, of which a
\* decode worker with a mapping takes those whose npu_id is its target rank.
Wanted(s, w, h) == {n \in {p[2] : p \in s.healthy} :
                      <<h, n>> \in s.healthy /\ FetchesFrom(s, w, n)}
Reached(s, w, i, broken) == {n \in Wanted(s, w, s.servers[i]) : <<s.servers[i], n>> \notin broken}
\* _detect_available_peers, _establish_peer_connections: one socket for each
\* npu_id, that of the last server; a socket that cannot be made is left out,
\* and an error in between ends the rebuild.
Connect(w) ==
    /\ step[w] = "connect" /\ (Goto(w, "register") \/ Return(w))
    /\ \E broken \in SUBSET Current(w).healthy :
        LET s == Current(w)
            new == UNION {Reached(s, w, i, broken) : i \in DOMAIN s.servers}
        IN \E last \in [new -> DOMAIN s.servers] :
             /\ \A n \in new, i \in DOMAIN s.servers : n \in Reached(s, w, i, broken) => i \leq last[n]
             /\ \A n \in new : n \in Reached(s, w, last[n], broken)
             /\ links' = [links EXCEPT ![w] =
                  [n \in new \cup DOMAIN @ |->
                     IF n \in new THEN Link(s.servers[last[n]], Len(built[w]) + 1) ELSE @[n]]]
    /\ known' = known \cup {w}
    /\ built' = [built EXCEPT ![w] = Append(@, Current(w))]
    /\ Others
\* _rebuild_kv_chain without a connector, or without the worker's side of it,
\* logs an error and returns; so does _establish_peer_connections without a port.
Unconnected(w) == /\ step[w] = "connect" /\ Goto(w, "register")
                  /\ known' \in {known, known \cup {w}}
                  /\ UNCHANGED <<links, built>> /\ Others

\* _reregister_kv_caches; its errors are logged.
Reregister(w) == /\ step[w] = "register" /\ Return(w)
                 /\ UNCHANGED <<known, links, built>> /\ Others

Work(w) == Start(w) \/ Cleanup(w) \/ Reinit(w) \/ Connect(w) \/ Unconnected(w) \/ Reregister(w)
Next == Rebuild \/ Answered \/ RpcTimeout \/ \E w \in Workers : Work(w)

Spec == Init /\ [][Next]_vars

(***************************************************************************)
(* Properties                                                              *)
(***************************************************************************)
\* However strategies, answers that come late and failures follow each other, a
\* worker holds no link of an earlier rebuild: each link it has leads to a device
\* that the strategy it last connected for calls healthy, and for a decode worker
\* to the one prefill rank that _calculate_kv_fetch_mapping gives it.  Only a
\* link from before all rebuilds stays through the first of them, which has no
\* connector yet to clean up.
LinksFollowTheMapping ==
    \A w \in Workers : \A n \in DOMAIN links[w] :
        LET link == links[w][n]
            s == Last(built[w])
        IN \/ link.by = 0 /\ Len(built[w]) <= 1
           \/ /\ link.by > 0 /\ link.by = Len(built[w])
              /\ <<link.host, n>> \in s.healthy
              /\ role = "D" /\ s.ptp # None => n = Target(s, w)

\* "True if successful" (its_multiproc_executor.py:1346): when the executor has
\* reported success, every decode worker is linked to its healthy prefill rank.
SuccessMeansLinked ==
    report = "success" /\ ~waits /\ role = "D" =>
        \A w \in Workers : LET s == Last(sent) IN
            s.ptp # None /\ (\E h \in PrefillHosts : <<h, Target(s, w)>> \in s.healthy)
                => Target(s, w) \in DOMAIN links[w]

\* "_establish_peer_connections 会根据 kv_fetch_mapping 过滤" (strategy_handler.py:159):
\* a decode worker's links lead to the prefill instance.
LinksLeadToPrefill ==
    role = "D" => \A w \in Workers : \A n \in DOMAIN links[w] :
        links[w][n].by > 0 /\ built[w][links[w][n].by].ptp # None
            => links[w][n].host \in PrefillHosts
=============================================================================
