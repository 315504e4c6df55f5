--------------------------- MODULE AsyncKVOffload ---------------------------
(***************************************************************************)
(* Background KV saves (async_kv_offload/patch.py, nonblocking mode): the  *)
(* threads that call wait_for_save, the thread pool that runs the original *)
(* method, the set of pending futures that limits them, and the automatic  *)
(* replacement of the pool by a larger one.                                *)
(*                                                                         *)
(* A save is one call of patched_wait_for_save, from the call to the end   *)
(* of its background task. concurrent.futures is modelled from its use: a  *)
(* future runs its callbacks after it is done, a callback added to a done  *)
(* future runs at once, and a pool that is shut down still runs what was   *)
(* queued.                                                                 *)
(***************************************************************************)
EXTENDS Integers, Sequences, FiniteSets

CONSTANTS Saves,          \* bound: calls of wait_for_save
          Callers,        \* threads that call it
          MaxInflight,    \* VLLM_ASYNC_KV_OFFLOAD_MAX_INFLIGHT
          DefaultWorkers, \* VLLM_ASYNC_KV_OFFLOAD_WORKERS
          WorkerStep,     \* workers added by the automatic tuning (4)
          MaxWorkers,     \* and their limit (32)
          RejectLimit,    \* rejections it tolerates (10)
          MaxShutdowns    \* bound: calls of shutdown

ASSUME SizeAssumption == /\ Saves \in Nat /\ Callers \in Nat \ {0}
                         /\ MaxInflight \in Nat \ {0}
                         /\ RejectLimit \in Nat /\ MaxShutdowns \in Nat
ASSUME WorkerAssumption == /\ DefaultWorkers \in Nat \ {0} /\ MaxWorkers \in Nat \ {0}
                           /\ WorkerStep \in Nat \ {0}

Save == 1..Saves

VARIABLES
    pc,         \* control point of each save's caller
    goal,       \* new_workers of a caller that tunes the pool
    ref,        \* the pool a caller got, or the old one it replaces; 0 for None
    fut,        \* the future of each save
    callback,   \* its done callback: "none", "set", "ran"
    pending,    \* _pending_futures
    pools,      \* every pool ever created: its size, work queue, whether open
    executor,   \* _executor: a pool, 0 for None
    workers,    \* _default_workers
    holder,     \* of _executor_lock: a save's caller, Shutdown or Nobody
    stats,      \* _stats, without max_inflight
    shutdowns   \* shutdowns so far

callVars == <<pc, goal, ref>>
taskVars == <<fut, callback, pending>>
poolVars == <<pools, executor, workers, holder, shutdowns>>
vars == <<callVars, taskVars, poolVars, stats>>

\* A call ends "done" (a future was returned), "refused" (no slot in time) or
\* "lost" (submit raised).
Linking == {"watch", "add"}
Holding == {"get", "create", "read", "submit"} \cup Linking
Calling == {"tune", "swap", "replace", "retire", "slot", "count"} \cup Holding
PC == {"new", "done", "refused", "lost"} \cup Calling

Nobody == 0
Shutdown == Saves + 1

\* The pool sizes there can be.
Size == {DefaultWorkers} \cup 1..MaxWorkers

FutureState == {"none", "queued", "running", "saved", "failed"}
Pool == [size : Size, queue : Seq(Save), open : BOOLEAN]
Stats == [submitted : Nat, completed : Nat, errors : Nat, rejected : Nat]

CallType == /\ pc \in [Save -> PC]
            /\ goal \in [Save -> {0} \cup 1..MaxWorkers]
            /\ ref \in [Save -> Nat]
TaskType == /\ fut \in [Save -> FutureState]
            /\ callback \in [Save -> {"none", "set", "ran"}]
            /\ pending \subseteq Save
PoolType == /\ pools \in Seq(Pool) /\ executor \in 0..Len(pools)
            /\ workers \in Size /\ holder \in {Nobody, Shutdown} \cup Save
            /\ shutdowns \in 0..MaxShutdowns
TypeOK == CallType /\ TaskType /\ PoolType /\ stats \in Stats

Init == /\ pc = [s \in Save |-> "new"]
        /\ goal = [s \in Save |-> 0]
        /\ ref = [s \in Save |-> 0]
        /\ fut = [s \in Save |-> "none"]
        /\ callback = [s \in Save |-> "none"]
        /\ pending = {}
        /\ pools = <<>> /\ executor = 0
        /\ workers = DefaultWorkers
        /\ holder = Nobody
        /\ stats = [submitted |-> 0, completed |-> 0, errors |-> 0, rejected |-> 0]
        /\ shutdowns = 0

At(place) == {s \in Save : pc[s] \in place}
Unfinished == {s \in Save : fut[s] \in {"queued", "running"}}
Goto(s, place) == pc' = [pc EXCEPT ![s] = place]
Counted(name) == stats' = [stats EXCEPT ![name] = @ + 1]

-----------------------------------------------------------------------------
(* The caller.                                                              *)

\* Saves are numbered in the order of their calls.
Call(s) ==
    /\ pc[s] = "new" /\ \A t \in 1..(s - 1) : pc[t] # "new"
    /\ Cardinality(At(Calling)) < Callers
    /\ Goto(s, "tune")
    /\ UNCHANGED <<goal, ref, taskVars, poolVars, stats>>

\* Mutant: the new size is not limited.
MutTune(s) ==
    /\ pc[s] = "tune"
    /\ IF stats.rejected > RejectLimit /\ workers < MaxWorkers
         THEN goal' = [goal EXCEPT ![s] = workers + WorkerStep] /\ Goto(s, "swap")
         ELSE Goto(s, "slot") /\ UNCHANGED goal
    /\ UNCHANGED <<ref, taskVars, poolVars, stats>>

\* _adjust_thread_pool_by_config reads the counters and the pool size...
Tune(s) ==
    /\ pc[s] = "tune"
    /\ IF stats.rejected > RejectLimit /\ workers < MaxWorkers
         THEN /\ goal' = [goal EXCEPT ![s] = IF workers + WorkerStep < MaxWorkers
                                               THEN workers + WorkerStep
                                               ELSE MaxWorkers]
              /\ Goto(s, "swap")
         ELSE Goto(s, "slot") /\ UNCHANGED goal
    /\ UNCHANGED <<ref, taskVars, poolVars, stats>>

NewPool(size) == [size |-> size, queue |-> <<>>, open |-> TRUE]
Closed(p) == [pools EXCEPT ![p].open = FALSE]

\* ...sets _default_workers without the lock...
SetWorkers(s) ==
    /\ pc[s] = "swap"
    /\ workers' = goal[s]
    /\ Goto(s, "replace")
    /\ UNCHANGED <<goal, ref, taskVars, pools, executor, holder, shutdowns, stats>>

\* ...and under _executor_lock publishes a new pool, which the readers that take
\* no lock see while the old one still accepts work...
Replace(s) ==
    /\ pc[s] = "replace" /\ holder = Nobody
    /\ IF executor = 0
         THEN Goto(s, "slot") /\ UNCHANGED <<ref, pools, executor, holder>>
         ELSE /\ ref' = [ref EXCEPT ![s] = executor]
              /\ pools' = Append(pools, NewPool(goal[s]))
              /\ executor' = Len(pools) + 1
              /\ holder' = s
              /\ Goto(s, "retire")
    /\ UNCHANGED <<goal, taskVars, workers, shutdowns, stats>>

\* Mutant: the old pool is shut down with cancel_futures.
MutRetire(s) ==
    /\ pc[s] = "retire"
    /\ pools' = [Closed(ref[s]) EXCEPT ![ref[s]].queue = <<>>]
    /\ holder' = Nobody
    /\ Goto(s, "slot")
    /\ UNCHANGED <<goal, ref, taskVars, executor, workers, shutdowns, stats>>

\* ...before it shuts the old one down, without waiting for it.
Retire(s) ==
    /\ pc[s] = "retire"
    /\ pools' = Closed(ref[s])
    /\ holder' = Nobody
    /\ Goto(s, "slot")
    /\ UNCHANGED <<goal, ref, taskVars, executor, workers, shutdowns, stats>>

\* Mutant: one pending future too many.
MutTakeSlot(s) ==
    /\ pc[s] = "slot" /\ Cardinality(pending) <= MaxInflight
    /\ Goto(s, "get")
    /\ UNCHANGED <<goal, ref, taskVars, poolVars, stats>>

\* The slot is found free, not taken: pending grows only after submit.
TakeSlot(s) ==
    /\ pc[s] = "slot" /\ Cardinality(pending) < MaxInflight
    /\ Goto(s, "get")
    /\ UNCHANGED <<goal, ref, taskVars, poolVars, stats>>

\* Mutant: _wait_for_slot without its timeout.
MutRefuse(s) == FALSE

\* The timeout may strike at any poll that finds no slot.
Refuse(s) ==
    /\ pc[s] = "slot" /\ Cardinality(pending) >= MaxInflight
    /\ Goto(s, "refused")
    /\ Counted("rejected")
    /\ UNCHANGED <<goal, ref, taskVars, poolVars>>

\* _get_executor: tests without the lock, creates under it after a second
\* test, and returns what the global holds then.
LookForPool(s) ==
    /\ pc[s] = "get"
    /\ Goto(s, IF executor = 0 THEN "create" ELSE "read")
    /\ UNCHANGED <<goal, ref, taskVars, poolVars, stats>>

\* Mutant: creates without the second test.
MutCreatePool(s) ==
    /\ pc[s] = "create" /\ holder = Nobody
    /\ pools' = Append(pools, NewPool(workers)) /\ executor' = Len(pools) + 1
    /\ Goto(s, "read")
    /\ UNCHANGED <<goal, ref, taskVars, workers, holder, shutdowns, stats>>

CreatePool(s) ==
    /\ pc[s] = "create" /\ holder = Nobody
    /\ IF executor = 0
         THEN pools' = Append(pools, NewPool(workers)) /\ executor' = Len(pools) + 1
         ELSE UNCHANGED <<pools, executor>>
    /\ Goto(s, "read")
    /\ UNCHANGED <<goal, ref, taskVars, workers, holder, shutdowns, stats>>

ReadPool(s) ==
    /\ pc[s] = "read"
    /\ ref' = [ref EXCEPT ![s] = executor]
    /\ Goto(s, "submit")
    /\ UNCHANGED <<goal, taskVars, poolVars, stats>>

Submit(s) ==
    /\ pc[s] = "submit" /\ ref[s] # 0 /\ pools[ref[s]].open
    /\ pools' = [pools EXCEPT ![ref[s]].queue = Append(@, s)]
    /\ fut' = [fut EXCEPT ![s] = "queued"]
    /\ Goto(s, "watch")
    /\ UNCHANGED <<goal, ref, callback, pending, executor, workers, holder,
                   shutdowns, stats>>

\* The pool was shut down, or _executor set to None, since it was looked for.
SubmitRaises(s) ==
    /\ pc[s] = "submit" /\ (ref[s] # 0 => ~pools[ref[s]].open)
    /\ Goto(s, "lost")
    /\ Counted("errors")
    /\ UNCHANGED <<goal, ref, taskVars, poolVars>>

\* _on_done
RunCallback(s) ==
    /\ callback' = [callback EXCEPT ![s] = "ran"]
    /\ pending' = pending \ {s}
    /\ Counted("completed")

\* Mutant: the callback of a future that is already done does not run.
MutWatch(s) ==
    /\ pc[s] = "watch"
    /\ callback' = IF s \in Unfinished THEN [callback EXCEPT ![s] = "set"] ELSE callback
    /\ Goto(s, "add")
    /\ UNCHANGED <<goal, ref, fut, pending, poolVars, stats>>

\* add_done_callback
Watch(s) ==
    /\ pc[s] = "watch"
    /\ IF s \in Unfinished
         THEN callback' = [callback EXCEPT ![s] = "set"] /\ UNCHANGED <<pending, stats>>
         ELSE RunCallback(s)
    /\ Goto(s, "add")
    /\ UNCHANGED <<goal, ref, fut, poolVars>>

Add(s) ==
    /\ pc[s] = "add"
    /\ pending' = pending \cup {s}
    /\ Goto(s, "count")
    /\ UNCHANGED <<goal, ref, fut, callback, poolVars, stats>>

Count(s) ==
    /\ pc[s] = "count"
    /\ Counted("submitted")
    /\ Goto(s, "done")
    /\ UNCHANGED <<goal, ref, taskVars, poolVars>>

-----------------------------------------------------------------------------
(* The pools. A thread is taken from the start of a task to the end of its  *)
(* callback; the threads of a pool that is shut down end when they find no  *)
(* work.                                                                    *)

Busy(p) == {s \in Save : /\ ref[s] = p
                         /\ \/ fut[s] = "running"
                            \/ s \notin Unfinished /\ callback[s] = "set"}

Start(p) ==
    /\ pools[p].queue # <<>> /\ Cardinality(Busy(p)) < pools[p].size
    /\ fut[Head(pools[p].queue)] = "queued"
    /\ pools' = [pools EXCEPT ![p].queue = Tail(@)]
    /\ fut' = [fut EXCEPT ![Head(pools[p].queue)] = "running"]
    /\ UNCHANGED <<callVars, callback, pending, executor, workers, holder,
                   shutdowns, stats>>

Finish(s) ==
    /\ fut[s] = "running"
    /\ \/ fut' = [fut EXCEPT ![s] = "saved"] /\ UNCHANGED stats
       \/ fut' = [fut EXCEPT ![s] = "failed"] /\ Counted("errors")
    /\ UNCHANGED <<callVars, callback, pending, poolVars>>

Callback(s) ==
    /\ s \notin Unfinished /\ callback[s] = "set"
    /\ RunCallback(s)
    /\ UNCHANGED <<callVars, fut, poolVars>>

\* shutdown() closes the current pool and waits for its threads while it holds
\* _executor_lock.
BeginShutdown ==
    /\ executor # 0 /\ holder = Nobody /\ shutdowns < MaxShutdowns
    /\ pools' = Closed(executor)
    /\ holder' = Shutdown
    /\ shutdowns' = shutdowns + 1
    /\ UNCHANGED <<callVars, taskVars, executor, workers, stats>>

EndShutdown ==
    /\ holder = Shutdown
    /\ pools[executor].queue = <<>> /\ Busy(executor) = {}
    /\ executor' = 0 /\ holder' = Nobody
    /\ UNCHANGED <<callVars, taskVars, pools, workers, shutdowns, stats>>

\* A call goes on by itself once it has begun.
Proceed(s) ==
    \/ Tune(s) \/ SetWorkers(s) \/ Replace(s) \/ Retire(s) \/ TakeSlot(s) \/ Refuse(s)
    \/ LookForPool(s) \/ CreatePool(s) \/ ReadPool(s)
    \/ Submit(s) \/ SubmitRaises(s) \/ Watch(s) \/ Add(s) \/ Count(s)

Run(s) == Finish(s) \/ Callback(s)

Next == \/ \E s \in Save : Call(s) \/ Proceed(s) \/ Run(s)
        \/ \E p \in DOMAIN pools : Start(p)
        \/ BeginShutdown \/ EndShutdown

Spec == Init /\ [][Next]_vars

\* Threads that can run do: callers inside a call, pool threads with work, and
\* a shutdown whose wait is over. The original wait_for_save returns or raises.
\* Nothing makes a new call or a shutdown begin.
FairSpec == /\ Spec
            /\ \A s \in Save : WF_vars(Proceed(s)) /\ WF_vars(Run(s))
            /\ WF_vars(\E p \in DOMAIN pools : Start(p))
            /\ WF_vars(EndShutdown)

-----------------------------------------------------------------------------
(* Properties.                                                              *)

\* Back pressure: checking for a slot and taking it are apart, so the limit
\* can be exceeded, but never by more than the other callers. This counts the
\* saves of every pool, the replaced ones included.
InflightBounded == Cardinality(Unfinished) <= MaxInflight + Callers - 1

\* No stray pool: whoever creates, replaces and shuts down pools, one that still
\* accepts work is the current one, or the one that the caller inside
\* _executor_lock has just replaced and is about to shut down. A pool that is
\* neither would keep its threads for ever.
NoStrayPool ==
    \A p \in DOMAIN pools : pools[p].open =>
        \/ p = executor
        \/ \E s \in At({"retire"}) : holder = s /\ ref[s] = p

\* When nothing is under way, every future returned has been counted completed
\* exactly once, and every failure, of a task or of its submission, once.
StatsBalance ==
    (At(Calling) = {} /\ Unfinished = {} /\ \A s \in Save : callback[s] # "set") =>
        /\ stats.completed = stats.submitted
        /\ stats.errors = Cardinality({s \in Save : pc[s] = "lost" \/ fut[s] = "failed"})

\* A save that was accepted is carried out, even when its pool is replaced or
\* shut down while the save is queued.
AcceptedSaveRuns ==
    \A s \in Save : fut[s] = "queued" ~> fut[s] \in {"saved", "failed"}

\* wait_for_save always returns, even when no slot is ever released.
CallReturns ==
    \A s \in Save : pc[s] = "tune" ~> pc[s] \in {"done", "refused", "lost"}

\* Stated by the docstring of _wait_for_slot, which says a refusal should not
\* happen, and by the README, which limits the saves under way: a save is
\* refused only while another one runs or has yet to leave the pending set.
RefusedUnderLoad ==
    [][stats'.rejected > stats.rejected =>
         \E s \in Save : s \in Unfinished \/ callback[s] = "set"]_vars

=============================================================================
