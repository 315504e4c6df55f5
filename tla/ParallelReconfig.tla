-------------------------- MODULE ParallelReconfig --------------------------
(***************************************************************************)
(* What the executors of a data-parallel deployment make of the parallel   *)
(* configuration and of the NPUs in each strategy (_init_workers,          *)
(* _get_engine_parallel_config, _try_backup_origin_parallel_config_when_-  *)
(* degrade of its_multiproc_executor.py).  Executor e has data-parallel    *)
(* rank e at the start; a strategy names all of them, and every executor   *)
(* carries it out on its own.                                              *)
(***************************************************************************)
EXTENDS Naturals, FiniteSets

CONSTANTS Dp, Tp,     \* the deployment the executors started with
          Npu,        \* Npu[e]: the ids of the NPUs executor e started with
          Digits,     \* ids below it have one digit, the others two
          BadLists,   \* the sets of NPUs a strategy may report as bad
          MaxStrategies,  \* bound: strategies sent
          None

Executors == 0..(Dp - 1)
Cards == UNION {Npu[e] : e \in Executors}

VARIABLES mm,       \* is_mm_scene: containers that mount some of the cards
          strategy, \* the last strategy sent
          count,    \* how many were sent
          behind,   \* executors that have not carried it out yet
          config,   \* config[e]: parallel_config
          backup,   \* backup[e]: backup_parallel_config
          visible,  \* visible[e]: the cards ASCEND_RT_VISIBLE_DEVICES stands for
          lost      \* ghost: the cards reported as bad since the last RECOVER
vars == <<mm, strategy, count, behind, config, backup, visible, lost>>

Original(e) == [tp |-> Tp, dp |-> Dp, rank |-> e, world |-> Tp]

Init == /\ mm \in BOOLEAN
        /\ strategy = None /\ count = 0 /\ behind = {}
        /\ config = [e \in Executors |-> Original(e)]
        /\ backup = [e \in Executors |-> None]
        /\ visible = Npu /\ lost = {}

(***************************************************************************)
(* The decision center: an executor keeps as many ranks as it has healthy  *)
(* cards, or none.  A card that was bad in one strategy may be healthy in  *)
(* the next.                                                               *)
(***************************************************************************)
Degraded(bad, idle) ==
    [type |-> "DEGRADE", bad |-> bad,
     tp |-> [e \in Executors |-> IF e \in idle THEN 0 ELSE Cardinality(Npu[e] \ bad)],
     dp |-> [e \in Executors |-> IF e \in idle THEN 0 ELSE Dp - Cardinality(idle)]]
Whole(type, bad) ==
    [type |-> type, bad |-> bad,
     tp |-> [e \in Executors |-> Tp], dp |-> [e \in Executors |-> Dp]]
Offers == {Degraded(bad, idle) : bad \in BadLists, idle \in SUBSET Executors}
          \cup {Whole("STOP", bad) : bad \in BadLists} \cup {Whole("RECOVER", {})}
Serves(s, e) == \/ s.type = "RECOVER"
                \/ s.type = "DEGRADE" /\ s.dp[e] > 0
Send == /\ count < MaxStrategies /\ behind = {}
        /\ \E s \in Offers :
             /\ \A e \in Executors : s.type = "DEGRADE" /\ s.dp[e] > 0 => s.tp[e] > 0
             /\ strategy' = s
             /\ lost' = IF s.type = "RECOVER" THEN {} ELSE lost \cup s.bad
        /\ count' = count + 1 /\ behind' = Executors
        /\ UNCHANGED <<mm, config, backup, visible>>

(***************************************************************************)
(* An executor                                                             *)
(***************************************************************************)
\* sorted(list of str): decimal numbers in the order of their digits.
Before(a, b) == LET key(n) == IF n < Digits THEN <<n, 0>> ELSE <<n \div 10, 1 + (n % 10)>>
                IN \/ key(a)[1] < key(b)[1]
                   \/ key(a)[1] = key(b)[1] /\ key(a)[2] < key(b)[2]
\* The card a container knows by the logical id that the executor works out for
\* a physical id: its place in the mounted ids, sorted as text; the container
\* numbers them in their numeric order.
Meant(e, npu) == CHOOSE m \in Npu[e] : Cardinality({n \in Npu[e] : n < m})
                                           = Cardinality({n \in Npu[e] : Before(n, npu)})
Seen(e, npus) == IF mm THEN {Meant(e, n) : n \in npus} ELSE npus

\* _init_workers, up to _get_engine_parallel_config.  Where cards are not
\* mounted one by one the list is filtered again and again, and a list without
\* a healthy card leaves it as it was.
Devices(s, e) ==
    CASE s.type = "RECOVER" -> Seen(e, Npu[e])
      [] s.type # "RECOVER" /\ mm -> Seen(e, Npu[e] \ s.bad)
      [] OTHER -> IF Cards \subseteq s.bad THEN visible[e] ELSE visible[e] \ s.bad

Kept(e) == IF backup[e] = None THEN config[e] ELSE backup[e]
\* Mutant: the ranks that idle are taken off the rank the executor has now.
MutRankAfter(s, e) ==
    config[e].rank - Cardinality({d \in Executors : d < e /\ s.tp[d] = 0 /\ s.dp[d] = 0 /\ Dp > 1})
\* Executors with a smaller rank that idle move this one down.
RankAfter(s, e) ==
    Kept(e).rank - Cardinality({d \in Executors : d < e /\ s.tp[d] = 0 /\ s.dp[d] = 0 /\ Dp > 1})

\* _get_engine_parallel_config
Configured(s, e) ==
    CASE s.type = "DEGRADE" ->
           [tp |-> s.tp[e], dp |-> s.dp[e], rank |-> RankAfter(s, e),
            world |-> IF s.dp[e] > 0 THEN s.tp[e] ELSE 0]
      [] s.type = "STOP" -> [config[e] EXCEPT !.tp = 0, !.dp = 0, !.world = 0]
      [] s.type = "RECOVER" -> [tp |-> s.tp[e], dp |-> s.dp[e], rank |-> e, world |-> s.tp[e]]
\* The first strategy that takes cards away keeps the configuration; RECOVER
\* asserts that it is asked for just that one.
CarryOut(e) ==
    /\ e \in behind
    /\ behind' = behind \ {e}
    /\ visible' = [visible EXCEPT ![e] = Devices(strategy, e)]
    /\ IF strategy.type # "RECOVER"
         THEN backup' = [backup EXCEPT ![e] = Kept(e)]
         ELSE UNCHANGED backup
    /\ IF strategy.type = "RECOVER" /\ backup[e] # Configured(strategy, e)
         THEN UNCHANGED config
         ELSE config' = [config EXCEPT ![e] = Configured(strategy, e)]
    /\ UNCHANGED <<mm, strategy, count, lost>>

Next == Send \/ \E e \in Executors : CarryOut(e)

Spec == Init /\ [][Next]_vars

(***************************************************************************)
(* The deployments the properties are about                                *)
(***************************************************************************)
\* The ids of an executor's cards sort as texts as they sort as numbers (where
\* they do not, a container's workers get other cards than those meant).
CardsAreNumbered ==
    /\ Npu \in [Executors -> SUBSET Nat]
    /\ \A e \in Executors : /\ IsFiniteSet(Npu[e])
                            /\ \A a, b \in Npu[e] : Before(a, b) <=> a < b
\* No strategy and no configuration is taken for None.
NoneIsNone ==
    /\ \A bad \in SUBSET Cards, idle \in SUBSET Executors : None # Degraded(bad, idle)
    /\ \A bad \in SUBSET Cards : None # Whole("STOP", bad)
    /\ None # Whole("RECOVER", {})
    /\ \A e \in Executors : None # Original(e)
\* An executor starts with a card for each of its ranks.
Deployment == /\ Dp \in Nat /\ Tp \in Nat \ {0} /\ CardsAreNumbered /\ NoneIsNone
              /\ BadLists \subseteq SUBSET Cards
              /\ \A e \in Executors : Cardinality(Npu[e]) >= Tp

(***************************************************************************)
(* Properties                                                              *)
(***************************************************************************)
Serving == {e \in Executors : config[e].world > 0}

\* Whatever strategies went before, once every executor has carried out the last
\* one, those that serve are the ones it means, they agree on the number of
\* data-parallel ranks and hold exactly the ranks from 0 up in their order, and
\* a recovery brings the first configuration back.
ExecutorsFormOneGroup ==
    strategy # None /\ behind = {} =>
        /\ Serving = {e \in Executors : Serves(strategy, e)}
        /\ {config[e].rank : e \in Serving} = 0..(Cardinality(Serving) - 1)
        /\ \A e, d \in Serving : e < d => config[e].rank < config[d].rank
        /\ \A e \in Serving : config[e].dp = Cardinality(Serving)
        /\ strategy.type = "RECOVER" => \A e \in Executors : config[e] = Original(e)

\* "这样新启动的 worker 进程只会使用健康的卡" (its_multiproc_executor.py:1045: the
\* workers that are started only use healthy cards), whatever lists went before;
\* and there is a card for each of them, as long as no card that was reported as
\* bad since the last RECOVER is counted on again.  That one is only given back
\* where cards are mounted one by one: elsewhere the list of the cards is
\* filtered again and again, and a worker would start without a card.
WorkersUseHealthyCards ==
    strategy # None /\ behind = {} =>
        \A e \in Serving :
            /\ visible[e] \cap strategy.bad = {}
            /\ mm \/ lost \subseteq strategy.bad => Cardinality(visible[e]) \geq config[e].tp
=============================================================================
