----------------------------- MODULE ITSDeploy -----------------------------
(***************************************************************************)
(* One engine core and its ITSMultiprocExecutor: the busy loop patched by  *)
(* engine_core_patch.py, the HTTP thread that delivers strategies          *)
(* (strategy_sync.py), and the worker health monitor (health_monitor.py).  *)
(*                                                                         *)
(* The three threads share the executor's events and fields without a      *)
(* lock; every action below is the code between two points where another   *)
(* thread can be observed.                                                 *)
(***************************************************************************)
EXTENDS Integers, Sequences

CONSTANTS Strategy,     \* strategies the decision center can send
          NoStrategy,   \* current_strategy = None
          Request,      \* client requests
          WAKEUP,       \* the wake-up message of trigger_busy_loop
          MaxRetry,     \* VLLM_ITS_MAX_RETRY_COUNT
          MaxOffers,    \* bound: strategies posted
          MaxCrashes    \* bound: worker crashes

DeployType == {"STOP", "DEGRADE", "RECOVER", "PD_REBUILD"}

\* shape is what the entry of this executor in engine_parallel_config asks for:
\* no workers (new_tp = new_dp = 0), some, or "absent" when no entry matches.
\* fault says that the strategy lists an unhealthy device of this host; tag
\* tells apart strategies that differ in the rest of their payload.
StrategyRecord == [type  : DeployType,
                   shape : {"zero", "some", "absent"},
                   fault : BOOLEAN,
                   tag   : Nat]

ASSUME StrategyAssumption == /\ Strategy \subseteq StrategyRecord
                             /\ NoStrategy \notin StrategyRecord
ASSUME WakeupAssumption == WAKEUP \notin Request
ASSUME BoundAssumption == /\ MaxRetry \in Nat \ {0}
                          /\ MaxOffers \in Nat
                          /\ MaxCrashes \in Nat

VARIABLES
    \* the executor's mailbox
    current,        \* executor.current_strategy
    posted,         \* StrategySyncThread._current_strategy
    recv,           \* event recv_new_deployment
    wait,           \* event wait_new_deployment
    \* the executor
    workers,        \* worker processes: "none", "alive", "dead" (one died);
                    \* "unwatched", "lost": the same without the monitor
    idle,           \* executor.world_size = 0
    zero,           \* parallel_config asks for no workers
    backup,         \* backup_parallel_config has been recorded
    shuttingDown,   \* executor.shutting_down
    xstate,         \* executor.executor_state
    \* the health monitor
    mpc,            \* control point of its thread
    monRunning,     \* _running
    monHandled,     \* _failure_handled
    monSeen,        \* its last pass found every worker alive
    \* the engine thread
    epc,            \* control point
    job,            \* the caller of the deployment under way
    attempt,        \* 0, or the attempt of _restart_workers_with_strategy
    tried,          \* history: the strategy the last deployment was built from
    succeeded,      \* history: the last deployment was a strategy that succeeded
    mode,           \* engine_core.zero_interrupt_mode
    idleSent,       \* _idle_notification_sent
    registered,     \* _callback_registered
    paused,         \* _paused_for_restart
    block,          \* process_input_queue_block
    \* the HTTP thread and the clients
    hpc,            \* control point of on_strategy_received
    offers,         \* strategies posted so far
    crashes,        \* worker crashes so far
    inq,            \* engine_core.input_queue
    req             \* where each client request is

mailVars == <<current, posted, recv, wait>>
execVars == <<workers, idle, zero, backup, shuttingDown, xstate>>
monVars  == <<mpc, monRunning, monHandled, monSeen>>
engVars  == <<epc, job, attempt, tried, succeeded>>
noteVars == <<mode, idleSent>>
loopVars == <<registered, paused, block>>
httpVars == <<hpc, offers>>
reqVars  == <<inq, req>>

vars == <<mailVars, execVars, monVars, engVars, noteVars, loopVars,
          httpVars, crashes, reqVars>>

HttpPC == {"idle", "store", "raise", "pause", "unblock", "wake", "mark"}
MonitorPC == {"off", "sleep", "found", "report", "signal", "unblock", "wake"}
EnginePC == {"boot", "loop", "waiting", "exec", "halt", "cleanup", "join",
             "init", "spawn", "kv", "post", "retry", "restart", "giveup",
             "resume", "finally", "input", "get", "drain", "step", "hung", "dead"}
ExecutorState == {"RUNNING", "WAITING_STRATEGY", "EXECUTING_STRATEGY",
                  "EXECUTING_STRATEGY_FAILED", "RECOVERING", "STOPPED"}
\* "silent": aborted and nobody told; "notified": aborted with abort outputs;
\* "drained": taken out of the input queue unread; "dropped": ADD ignored.
RequestState == {"new", "queued", "sched", "done",
                 "silent", "notified", "drained", "dropped"}

MailType == /\ current \in Strategy \cup {NoStrategy}
            /\ posted \in Strategy \cup {NoStrategy}
            /\ recv \in BOOLEAN /\ wait \in BOOLEAN
ExecType == /\ workers \in {"none", "alive", "dead", "unwatched", "lost"}
            /\ idle \in BOOLEAN /\ zero \in BOOLEAN /\ backup \in BOOLEAN
            /\ shuttingDown \in BOOLEAN
            /\ xstate \in ExecutorState
MonType  == /\ mpc \in MonitorPC
            /\ monRunning \in BOOLEAN /\ monHandled \in BOOLEAN
            /\ monSeen \in BOOLEAN
EngType  == /\ epc \in EnginePC
            /\ job \in {"exec", "restart", "shutdown"}
            /\ attempt \in 0..MaxRetry
            /\ tried \in Strategy \cup {NoStrategy}
            /\ succeeded \in BOOLEAN
NoteType == /\ mode \in {"unset", "degrade", "normal", "stop"}
            /\ idleSent \in BOOLEAN
LoopType == registered \in BOOLEAN /\ paused \in BOOLEAN /\ block \in BOOLEAN
HttpType == hpc \in HttpPC /\ offers \in 0..MaxOffers
ReqType  == /\ inq \in Seq(Request \cup {WAKEUP})
            /\ req \in [Request -> RequestState]

TypeOK == /\ MailType /\ ExecType /\ MonType /\ EngType /\ NoteType
          /\ LoopType /\ HttpType /\ ReqType
          /\ crashes \in 0..MaxCrashes

Init ==
    /\ current = NoStrategy /\ posted = NoStrategy
    /\ recv = FALSE /\ wait = FALSE
    /\ workers = "alive"
    /\ idle = FALSE /\ zero = FALSE /\ backup = FALSE
    /\ shuttingDown = FALSE
    /\ xstate = "RUNNING"
    /\ mpc = "sleep"
    /\ monRunning = TRUE /\ monHandled = FALSE /\ monSeen = FALSE
    /\ epc = "boot" /\ job = "exec" /\ attempt = 0
    /\ tried = NoStrategy /\ succeeded = FALSE
    /\ mode = "unset" /\ idleSent = FALSE
    /\ registered = FALSE /\ paused = FALSE /\ block = TRUE
    /\ hpc = "idle" /\ offers = 0 /\ crashes = 0
    /\ inq = <<>>
    /\ req = [r \in Request |-> "new"]

-----------------------------------------------------------------------------
(* The HTTP thread: on_strategy_received, then _on_deploy_strategy_received. *)

\* A strategy equal to the last one posted is dropped without a signal.
Offer(s) ==
    /\ hpc = "idle" /\ offers < MaxOffers
    /\ offers' = offers + 1
    /\ IF s = posted
         THEN UNCHANGED <<posted, hpc>>
         ELSE posted' = s /\ hpc' = "store"
    /\ UNCHANGED <<current, recv, wait, execVars, monVars, engVars, noteVars,
                   loopVars, crashes, reqVars>>

Store ==
    /\ hpc = "store" /\ hpc' = "raise"
    /\ current' = posted
    /\ UNCHANGED <<posted, recv, wait, execVars, monVars, engVars, noteVars,
                   loopVars, offers, crashes, reqVars>>

\* Mutant: returns for want of a callback before it sets the event.
MutRaise ==
    /\ hpc = "raise"
    /\ IF registered
         THEN hpc' = "pause" /\ recv' = TRUE /\ UNCHANGED xstate
         ELSE hpc' = "idle" /\ xstate' = "EXECUTING_STRATEGY" /\ UNCHANGED recv
    /\ UNCHANGED <<current, posted, wait, workers, idle, zero, backup,
                   shuttingDown, monVars, engVars, noteVars, loopVars,
                   offers, crashes, reqVars>>

\* Without a registered callback there is nothing to wake.
Raise ==
    /\ hpc = "raise"
    /\ recv' = TRUE
    /\ IF registered
         THEN hpc' = "pause" /\ UNCHANGED xstate
         ELSE hpc' = "idle" /\ xstate' = "EXECUTING_STRATEGY"
    /\ UNCHANGED <<current, posted, wait, workers, idle, zero, backup,
                   shuttingDown, monVars, engVars, noteVars, loopVars,
                   offers, crashes, reqVars>>

Pause ==
    /\ hpc = "pause" /\ hpc' = "unblock"
    /\ paused' = TRUE
    /\ UNCHANGED <<mailVars, execVars, monVars, engVars, noteVars, registered,
                   block, offers, crashes, reqVars>>

\* The two steps of trigger_busy_loop, shared with the monitor thread.
ClearBlock == /\ block' = FALSE
              /\ UNCHANGED <<registered, paused>>
PutWakeup == /\ inq' = Append(inq, WAKEUP)
             /\ UNCHANGED req

\* Mutant: only wakes, leaving process_input_queue_block as it is.
MutHttpUnblock ==
    /\ hpc = "unblock" /\ hpc' = "wake"
    /\ UNCHANGED <<mailVars, execVars, monVars, engVars, noteVars, loopVars,
                   offers, crashes, reqVars>>

HttpUnblock ==
    /\ hpc = "unblock" /\ hpc' = "wake"
    /\ ClearBlock
    /\ UNCHANGED <<mailVars, execVars, monVars, engVars, noteVars, offers,
                   crashes, reqVars>>

HttpWake ==
    /\ hpc = "wake" /\ hpc' = "mark"
    /\ PutWakeup
    /\ UNCHANGED <<mailVars, execVars, monVars, engVars, noteVars, loopVars,
                   offers, crashes>>

Mark ==
    /\ hpc = "mark" /\ hpc' = "idle"
    /\ xstate' = "EXECUTING_STRATEGY"
    /\ UNCHANGED <<mailVars, workers, idle, zero, backup, shuttingDown,
                   monVars, engVars, noteVars, loopVars, offers, crashes,
                   reqVars>>

HttpStep == Store \/ Raise \/ Pause \/ HttpUnblock \/ HttpWake \/ Mark

-----------------------------------------------------------------------------
(* The monitor thread, with fault keep on (the default).                    *)

\* One pass of _run_monitor: a worker that was healthy at the last pass and is
\* not any more is a failure, whether it died or its handle was cleared.
Check ==
    /\ mpc = "sleep"
    /\ IF ~monRunning
         THEN mpc' = "off" /\ UNCHANGED monSeen
         ELSE /\ monSeen' = (workers = "alive")
              /\ mpc' = IF monSeen /\ workers # "alive" THEN "found" ELSE "sleep"
    /\ UNCHANGED <<mailVars, execVars, monRunning, monHandled, engVars,
                   noteVars, loopVars, httpVars, crashes, reqVars>>

\* Mutant: sets _failure_handled before it tests it.
MutHandleFailure ==
    /\ mpc = "found"
    /\ monHandled' = TRUE
    /\ mpc' = IF ~monHandled' /\ monRunning THEN "report" ELSE "sleep"
    /\ UNCHANGED <<mailVars, execVars, monRunning, monSeen, engVars, noteVars,
                   loopVars, httpVars, crashes, reqVars>>

\* _handle_worker_failure up to the callback.
HandleFailure ==
    /\ mpc = "found"
    /\ monHandled' = TRUE
    /\ mpc' = IF ~monHandled /\ monRunning THEN "report" ELSE "sleep"
    /\ UNCHANGED <<mailVars, execVars, monRunning, monSeen, engVars, noteVars,
                   loopVars, httpVars, crashes, reqVars>>

ReportFailure ==
    /\ mpc = "report" /\ mpc' = "signal"
    /\ xstate' = "WAITING_STRATEGY"
    /\ UNCHANGED <<mailVars, workers, idle, zero, backup, shuttingDown,
                   monRunning, monHandled, monSeen, engVars, noteVars,
                   loopVars, httpVars, crashes, reqVars>>

\* Before registration the callback is None: calling it raises in the monitor
\* loop, which logs the error and goes on.
SignalFailure ==
    /\ mpc = "signal"
    /\ wait' = TRUE
    /\ mpc' = IF registered THEN "unblock" ELSE "sleep"
    /\ UNCHANGED <<current, posted, recv, execVars, monRunning, monHandled,
                   monSeen, engVars, noteVars, loopVars, httpVars, crashes,
                   reqVars>>

MonitorUnblock ==
    /\ mpc = "unblock" /\ mpc' = "wake"
    /\ ClearBlock
    /\ UNCHANGED <<mailVars, execVars, monRunning, monHandled, monSeen,
                   engVars, noteVars, httpVars, crashes, reqVars>>

MonitorWake ==
    /\ mpc = "wake" /\ mpc' = "sleep"
    /\ PutWakeup
    /\ UNCHANGED <<mailVars, execVars, monRunning, monHandled, monSeen,
                   engVars, noteVars, loopVars, httpVars, crashes>>

MonitorStep == \/ Check \/ HandleFailure \/ ReportFailure \/ SignalFailure
               \/ MonitorUnblock \/ MonitorWake

-----------------------------------------------------------------------------
(* Workers and clients.                                                     *)

Crash ==
    /\ workers \in {"alive", "unwatched"} /\ crashes < MaxCrashes
    /\ workers' = IF workers = "alive" THEN "dead" ELSE "lost"
    /\ crashes' = crashes + 1
    /\ UNCHANGED <<mailVars, idle, zero, backup, shuttingDown, xstate,
                   monVars, engVars, noteVars, loopVars, httpVars, reqVars>>

Send(r) ==
    /\ req[r] = "new"
    /\ req' = [req EXCEPT ![r] = "queued"]
    /\ inq' = Append(inq, r)
    /\ UNCHANGED <<mailVars, execVars, monVars, engVars, noteVars, loopVars,
                   httpVars, crashes>>

InState(status) == {r \in Request : req[r] = status}
Scheduled == InState("sched")

\* Every request in the first status moves to the second.
Moved(from, to) ==
    [r \in Request |-> IF req[r] = from THEN to ELSE req[r]]

-----------------------------------------------------------------------------
(* The engine thread: patched_handle_shutdown.                              *)

Register ==
    /\ epc = "boot" /\ epc' = "loop"
    /\ registered' = TRUE
    /\ UNCHANGED <<mailVars, execVars, monVars, job, attempt, tried, succeeded,
                   noteVars, paused, block, httpVars, crashes, reqVars>>

\* recv is cleared before the strategy is read, and the running requests are
\* aborted without abort outputs. The second finish_requests after the
\* deployment finds nothing: no request enters the scheduler meanwhile.
TakeStrategy ==
    /\ epc = "loop" /\ recv
    /\ recv' = FALSE /\ wait' = FALSE
    /\ block' = TRUE /\ paused' = TRUE
    /\ req' = Moved("sched", "silent")
    /\ epc' = "exec" /\ job' = "exec" /\ attempt' = 0
    /\ UNCHANGED <<current, posted, execVars, monVars, tried, succeeded,
                   noteVars, registered, httpVars, crashes, inq>>

TakeFailure ==
    /\ epc = "loop" /\ ~recv /\ wait
    /\ wait' = FALSE
    /\ block' = TRUE /\ paused' = TRUE
    /\ epc' = "waiting"
    /\ UNCHANGED <<current, posted, recv, execVars, monVars, job, attempt,
                   tried, succeeded, noteVars, registered, httpVars, crashes,
                   reqVars>>

NoSignal ==
    /\ epc = "loop" /\ ~recv /\ ~wait
    /\ epc' = "finally"
    /\ UNCHANGED <<mailVars, execVars, monVars, job, attempt, tried, succeeded,
                   noteVars, loopVars, httpVars, crashes, reqVars>>

\* recv_new_deployment.wait(timeout) returns.
WaitReceived ==
    /\ epc = "waiting" /\ recv
    /\ recv' = FALSE
    /\ req' = Moved("sched", "silent")
    /\ epc' = "exec" /\ job' = "exec" /\ attempt' = 0
    /\ UNCHANGED <<current, posted, wait, execVars, monVars, tried, succeeded,
                   noteVars, loopVars, httpVars, crashes, inq>>

\* Mutant: resumes after the timeout when there is no strategy to restart with.
MutWaitTimeout ==
    /\ epc = "waiting" /\ ~recv
    /\ IF current = NoStrategy THEN epc' = "resume" /\ attempt' = 0
                               ELSE epc' = "restart" /\ attempt' = 1
    /\ UNCHANGED <<mailVars, execVars, monVars, job, tried, succeeded, noteVars,
                   loopVars, httpVars, crashes, reqVars>>

WaitTimeout ==
    /\ epc = "waiting" /\ ~recv
    /\ epc' = "restart" /\ attempt' = 1
    /\ UNCHANGED <<mailVars, execVars, monVars, job, tried, succeeded, noteVars,
                   loopVars, httpVars, crashes, reqVars>>

\* Mutant: clears the event after the deployment as well.
MutResume ==
    /\ epc = "resume" /\ epc' = "finally"
    /\ recv' = FALSE
    /\ job' = "exec" /\ attempt' = 0
    /\ UNCHANGED <<current, posted, wait, execVars, monVars, tried, succeeded,
                   noteVars, loopVars, httpVars, crashes, reqVars>>

\* _resume_worker_monitor, skipped in idle mode and after STOP.
Resume ==
    /\ epc = "resume" /\ epc' = "finally"
    /\ job' = "exec" /\ attempt' = 0
    /\ IF ~idle /\ current # NoStrategy /\ current.type # "STOP" /\ ~monRunning
         THEN monRunning' = TRUE /\ mpc' = "sleep"
         ELSE UNCHANGED <<monRunning, mpc>>
    /\ UNCHANGED <<mailVars, execVars, monHandled, monSeen, tried,
                   succeeded, noteVars, loopVars, httpVars, crashes, reqVars>>

Finally ==
    /\ epc = "finally" /\ epc' = "input"
    /\ paused' = FALSE /\ block' = TRUE
    /\ UNCHANGED <<mailVars, execVars, monVars, job, attempt, tried, succeeded,
                   noteVars, registered, httpVars, crashes, reqVars>>

-----------------------------------------------------------------------------
(* _execute_deployment_strategy and _restart_workers_with_strategy.         *)

Stopped(nowIdle) == IF nowIdle THEN "STOPPED" ELSE "RUNNING"

\* The deployment ended well. handle_new_deployment, restart_workers_with_
\* strategy and shutdown each finish in their own way; after shutdown the
\* engine declares itself idle whatever came of it.
Succeed(nowIdle) ==
    \/ /\ job = "exec" /\ epc' = "post" /\ succeeded' = TRUE
       /\ idle' = nowIdle /\ xstate' = Stopped(nowIdle)
    \/ /\ job = "restart" /\ epc' = "resume" /\ succeeded' = FALSE
       /\ idle' = nowIdle /\ xstate' = Stopped(nowIdle)
    \/ /\ job = "shutdown" /\ epc' = "resume" /\ succeeded' = FALSE
       /\ idle' = TRUE /\ UNCHANGED xstate

\* Mutant: one attempt too many.
MutTryAgainOnceMore == IF attempt <= MaxRetry
                         THEN epc' = "restart" /\ attempt' = attempt + 1
                         ELSE epc' = "giveup" /\ UNCHANGED attempt

\* Mutant: the attempts are not counted.
MutTryAgainForever == IF attempt < MaxRetry + 1
                        THEN epc' = "restart" /\ UNCHANGED attempt
                        ELSE epc' = "giveup" /\ UNCHANGED attempt

\* The loop of _restart_workers_with_strategy goes on, or ends in shutdown.
TryAgain == IF attempt < MaxRetry
              THEN epc' = "restart" /\ attempt' = attempt + 1
              ELSE epc' = "giveup" /\ UNCHANGED attempt

\* The deployment raised. A strategy executed inside _restart_workers_with_
\* strategy (attempt > 0) gives way to the next attempt.
Fail(nowIdle) ==
    \/ /\ job = "exec" /\ succeeded' = FALSE
       /\ idle' = nowIdle /\ xstate' = "EXECUTING_STRATEGY_FAILED"
       /\ IF attempt = 0 THEN epc' = "resume" /\ UNCHANGED attempt ELSE TryAgain
    \/ /\ job = "restart" /\ succeeded' = FALSE /\ epc' = "retry"
       /\ idle' = nowIdle /\ UNCHANGED <<xstate, attempt>>
    \/ /\ job = "shutdown" /\ epc' = "resume" /\ succeeded' = FALSE
       /\ idle' = TRUE /\ UNCHANGED <<xstate, attempt>>

\* Executor.shutdown up to the wait for the monitor thread.
BeginShutdown ==
    /\ shuttingDown' = TRUE
    /\ monHandled' = TRUE /\ monRunning' = FALSE
    /\ epc' = "halt"

ExecStop ==
    /\ epc = "exec" /\ current.type = "STOP" /\ ~shuttingDown
    /\ BeginShutdown
    /\ UNCHANGED <<mailVars, workers, idle, zero, backup, xstate, mpc, monSeen,
                   job, attempt, tried, succeeded, noteVars, loopVars, httpVars,
                   crashes, reqVars>>

\* shutdown is idempotent: a second STOP returns at once and counts as done.
ExecStopAgain ==
    /\ epc = "exec" /\ current.type = "STOP" /\ shuttingDown
    /\ tried' = current
    /\ Succeed(idle)
    /\ UNCHANGED <<mailVars, workers, zero, backup, shuttingDown, monVars, job,
                   attempt, noteVars, loopVars, httpVars, crashes, reqVars>>

ExecRebuild ==
    /\ epc = "exec" /\ epc' = "cleanup"
    /\ \/ current.type = "DEGRADE" /\ xstate' = "EXECUTING_STRATEGY"
       \/ current.type = "RECOVER" /\ xstate' = "RECOVERING"
       \/ current.type = "PD_REBUILD" /\ current.fault /\ UNCHANGED xstate
    /\ UNCHANGED <<mailVars, workers, idle, zero, backup, shuttingDown,
                   monVars, job, attempt, tried, succeeded, noteVars, loopVars,
                   httpVars, crashes, reqVars>>

\* A healthy instance only updates its KV connector over RPC, which fails
\* without workers, and may fail or time out with them.
ExecConnector ==
    /\ epc = "exec" /\ current.type = "PD_REBUILD" /\ ~current.fault
    /\ tried' = current
    /\ \/ workers # "none" /\ Succeed(idle) /\ UNCHANGED attempt
       \/ Fail(idle)
    /\ UNCHANGED <<mailVars, workers, zero, backup, shuttingDown, monVars, job,
                   noteVars, loopVars, httpVars, crashes, reqVars>>

\* A successful strategy sets the mode of the engine and tells the clients
\* that it idles (once) or serves. The type is read from current_strategy
\* again, not from the strategy that was executed.
ModeOf(s) == CASE s.type = "DEGRADE" -> "degrade"
               [] s.type = "RECOVER" -> "normal"
               [] s.type = "STOP"    -> "stop"
               [] OTHER              -> mode

\* Mutant: an engine that goes idle keeps its mode.
MutNotifyMode ==
    /\ epc = "post" /\ epc' = "resume"
    /\ mode' = IF idle THEN mode ELSE ModeOf(current)
    /\ idleSent' = (idle /\ (idleSent \/ current.type \in {"STOP", "DEGRADE"}))
    /\ UNCHANGED <<mailVars, execVars, monVars, job, attempt, tried, succeeded,
                   loopVars, httpVars, crashes, reqVars>>

\* Mutant: recovery does not reset _idle_notification_sent.
MutNotifyIdle ==
    /\ epc = "post" /\ epc' = "resume"
    /\ mode' = ModeOf(current)
    /\ idleSent' = (idleSent \/ (idle /\ current.type \in {"STOP", "DEGRADE"}))
    /\ UNCHANGED <<mailVars, execVars, monVars, job, attempt, tried, succeeded,
                   loopVars, httpVars, crashes, reqVars>>

Notify ==
    /\ epc = "post" /\ epc' = "resume"
    /\ mode' = ModeOf(current)
    /\ idleSent' = (idle /\ (idleSent \/ current.type \in {"STOP", "DEGRADE"}))
    /\ UNCHANGED <<mailVars, execVars, monVars, job, attempt, tried, succeeded,
                   loopVars, httpVars, crashes, reqVars>>

\* One attempt of _restart_workers_with_strategy.
Restart ==
    /\ epc = "restart" /\ epc' = "cleanup"
    /\ job' = "restart"
    /\ xstate' = "RECOVERING"
    /\ UNCHANGED <<mailVars, workers, idle, zero, backup, shuttingDown,
                   monVars, attempt, tried, succeeded, noteVars, loopVars,
                   httpVars, crashes, reqVars>>

\* After a failed restart the current strategy, if any, is executed: it may
\* have arrived meanwhile.
Retry ==
    /\ epc = "retry"
    /\ IF current # NoStrategy
         THEN /\ recv' = FALSE /\ wait' = FALSE
              /\ epc' = "exec" /\ job' = "exec" /\ UNCHANGED attempt
         ELSE TryAgain /\ UNCHANGED <<recv, wait, job>>
    /\ UNCHANGED <<current, posted, execVars, monVars, tried, succeeded,
                   noteVars, loopVars, httpVars, crashes, reqVars>>

\* All attempts failed: executor.shutdown(), and world_size = 0. The flag
\* _its_force_exit is also set; nothing reads it.
GiveUp ==
    /\ epc = "giveup"
    /\ job' = "shutdown"
    /\ IF shuttingDown
         THEN /\ epc' = "resume" /\ idle' = TRUE /\ succeeded' = FALSE
              /\ UNCHANGED <<shuttingDown, monHandled, monRunning>>
         ELSE BeginShutdown /\ UNCHANGED <<idle, succeeded>>
    /\ UNCHANGED <<mailVars, workers, zero, backup, xstate, mpc, monSeen,
                   attempt, tried, noteVars, loopVars, httpVars, crashes,
                   reqVars>>

-----------------------------------------------------------------------------
(* The executor: shutdown and _cleanup_and_restart_workers.                 *)

\* stop() has joined the monitor thread. The join gives up after 3 s; the
\* thread only has a few assignments left to make.
Halt ==
    /\ epc = "halt" /\ mpc = "off" /\ epc' = "cleanup"
    /\ xstate' = "STOPPED"
    /\ UNCHANGED <<mailVars, workers, idle, zero, backup, shuttingDown,
                   monVars, job, attempt, tried, succeeded, noteVars, loopVars,
                   httpVars, crashes, reqVars>>

\* _cleanup_scheduler_requests, then the first half of stop().
Cleanup ==
    /\ epc = "cleanup" /\ epc' = "join"
    /\ inq' = <<>>
    /\ req' = [r \in Request |-> CASE req[r] = "queued" -> "drained"
                                   [] req[r] = "sched"  -> "notified"
                                   [] OTHER             -> req[r]]
    /\ monHandled' = TRUE /\ monRunning' = FALSE
    /\ UNCHANGED <<mailVars, execVars, mpc, monSeen, job, attempt, tried,
                   succeeded, noteVars, loopVars, httpVars, crashes>>

\* Mutant: the workers are terminated without waiting for the monitor.
MutTerminate ==
    /\ epc = "join" /\ epc' = "init"
    /\ workers' = "none"
    /\ UNCHANGED <<mailVars, idle, zero, backup, shuttingDown, xstate, monVars,
                   job, attempt, tried, succeeded, noteVars, loopVars, httpVars,
                   crashes, reqVars>>

\* The monitor is joined before the workers are terminated.
Terminate ==
    /\ epc = "join" /\ mpc = "off" /\ epc' = "init"
    /\ workers' = "none"
    /\ UNCHANGED <<mailVars, idle, zero, backup, shuttingDown, xstate, monVars,
                   job, attempt, tried, succeeded, noteVars, loopVars, httpVars,
                   crashes, reqVars>>

\* _init_workers reads current_strategy: the parallel configuration it gives.
Rejected(s) == /\ s.shape # "absent"
               /\ s.type = "PD_REBUILD" \/ (s.type = "RECOVER" /\ ~backup)

ZeroFor(s) == CASE s.shape = "absent"              -> zero
                [] s.type = "STOP"                 -> TRUE
                [] s.type = "DEGRADE"              -> s.shape = "zero"
                [] OTHER                           -> FALSE

\* _get_engine_parallel_config raises for PD_REBUILD, and for RECOVER before
\* anything was backed up or (any time) when the strategy and the backup
\* disagree; otherwise it sets the configuration the workers will have.
Configure ==
    /\ epc = "init"
    /\ tried' = current
    /\ \/ Fail(idle) /\ UNCHANGED <<zero, backup>>
       \/ /\ current # NoStrategy => ~Rejected(current)
          /\ epc' = "spawn"
          /\ IF current = NoStrategy
               THEN UNCHANGED <<zero, backup>>
               ELSE /\ zero' = ZeroFor(current)
                    /\ backup' = (backup \/ ( /\ current.shape # "absent"
                                              /\ current.type \in {"STOP", "DEGRADE"}))
          /\ UNCHANGED <<idle, xstate, succeeded, attempt>>
    /\ UNCHANGED <<mailVars, workers, shuttingDown, monVars, job, noteVars,
                   loopVars, httpVars, crashes, reqVars>>

\* Scale to zero: no workers, and the monitor stays off.
SpawnNone ==
    /\ epc = "spawn" /\ zero
    /\ Succeed(TRUE)
    /\ monHandled' = TRUE /\ monSeen' = FALSE
    /\ wait' = FALSE
    /\ UNCHANGED <<current, posted, recv, workers, zero, backup, shuttingDown,
                   mpc, monRunning, job, attempt, tried, noteVars, loopVars,
                   httpVars, crashes, reqVars>>

\* The monitor is restarted and wait_new_deployment cleared in one step: the
\* monitor makes its first pass an interval (5 s) later.
SpawnWorkers ==
    /\ epc = "spawn" /\ ~zero /\ epc' = "kv"
    /\ workers' = "alive" /\ idle' = FALSE
    /\ monHandled' = FALSE /\ monSeen' = FALSE
    /\ monRunning' = TRUE /\ mpc' = "sleep"
    /\ wait' = FALSE
    /\ UNCHANGED <<current, posted, recv, zero, backup, shuttingDown, xstate,
                   job, attempt, tried, succeeded, noteVars, loopVars, httpVars,
                   crashes, reqVars>>

\* Before wait_for_ready has returned there are no workers and the world size
\* is the old one. After it the workers live and the world size is set, but the
\* assertions and the waits for the message queues are still to come: if one
\* fails, the monitor, which is off, has not been given these workers.
SpawnFails ==
    /\ epc = "spawn" /\ ~zero
    /\ \/ Fail(idle) /\ UNCHANGED workers
       \/ Fail(FALSE) /\ workers' = "unwatched"
    /\ UNCHANGED <<mailVars, zero, backup, shuttingDown, monVars, job,
                   tried, noteVars, loopVars, httpVars, crashes, reqVars>>

\* The waits for the new workers have no timeout, nor have the RPCs that set up
\* their KV cache: the answer of a worker that hangs, or died, never comes.
NewWorkersHang ==
    /\ epc \in {"spawn", "kv"} /\ ~zero
    /\ epc' = "hung"
    /\ UNCHANGED <<mailVars, execVars, monVars, job, attempt, tried, succeeded,
                   noteVars, loopVars, httpVars, crashes, reqVars>>

\* _reinitialize_kv_cache, when every worker answers (it may die afterwards).
InitCache ==
    /\ epc = "kv"
    /\ \/ Succeed(idle) /\ UNCHANGED attempt
       \/ Fail(idle)
    /\ UNCHANGED <<mailVars, workers, zero, backup, shuttingDown, monVars, job,
                   tried, noteVars, loopVars, httpVars, crashes, reqVars>>

-----------------------------------------------------------------------------
(* The rest of the busy loop: _process_input_queue and the engine step of    *)
(* vLLM, with has_work, _handle_client_request and step patched.            *)

HasWork == ~paused /\ Scheduled # {}

\* The queue is read blocking when the flag says so at this moment.
ReadInput ==
    /\ epc = "input"
    /\ epc' = IF ~HasWork /\ block THEN "get" ELSE "drain"
    /\ UNCHANGED <<mailVars, execVars, monVars, job, attempt, tried, succeeded,
                   noteVars, loopVars, httpVars, crashes, reqVars>>

\* Mutant: ADD requests are admitted whatever the world size.
MutAdmitted == "sched"

\* An idle executor drops ADD requests.
Admitted == IF idle THEN "dropped" ELSE "sched"

GetInput ==
    /\ epc = "get" /\ inq # <<>> /\ epc' = "input"
    /\ inq' = Tail(inq)
    /\ req' = [r \in Request |-> IF r = Head(inq) THEN Admitted ELSE req[r]]
    /\ UNCHANGED <<mailVars, execVars, monVars, job, attempt, tried, succeeded,
                   noteVars, loopVars, httpVars, crashes>>

DrainInput ==
    /\ epc = "drain" /\ epc' = "step"
    /\ inq' = <<>>
    /\ req' = Moved("queued", Admitted)
    /\ UNCHANGED <<mailVars, execVars, monVars, job, attempt, tried, succeeded,
                   noteVars, loopVars, httpVars, crashes>>

\* Skipped without requests, in idle mode, or while paused. With a dead worker
\* collective_rpc returns None and the step ends without output; so it does with
\* workers whose start failed half-way, which have no KV cache.
StepNothing ==
    /\ epc = "step" /\ epc' = "loop"
    /\ \/ Scheduled = {} \/ idle \/ paused
       \/ workers \in {"dead", "unwatched", "lost"}
    /\ UNCHANGED <<mailVars, execVars, monVars, job, attempt, tried, succeeded,
                   noteVars, loopVars, httpVars, crashes, reqVars>>

StepModel ==
    /\ epc = "step" /\ epc' = "loop"
    /\ Scheduled # {} /\ ~idle /\ ~paused /\ workers = "alive"
    /\ \E finished \in SUBSET Scheduled :
          req' = [r \in Request |-> IF r \in finished THEN "done" ELSE req[r]]
    /\ UNCHANGED <<mailVars, execVars, monVars, job, attempt, tried, succeeded,
                   noteVars, loopVars, httpVars, crashes, inq>>

\* collective_rpc raises: TimeoutError when a worker died, the assertion on
\* rpc_broadcast_mq when there is none. The busy loop ends.
StepRaises ==
    /\ epc = "step" /\ epc' = "dead"
    /\ Scheduled # {} /\ ~idle /\ ~paused /\ workers # "alive"
    /\ UNCHANGED <<mailVars, execVars, monVars, job, attempt, tried, succeeded,
                   noteVars, loopVars, httpVars, crashes, reqVars>>

EngineStep ==
    \/ Register \/ TakeStrategy \/ TakeFailure \/ NoSignal
    \/ WaitReceived \/ WaitTimeout \/ Resume \/ Finally
    \/ ExecStop \/ ExecStopAgain \/ ExecRebuild \/ ExecConnector
    \/ Notify \/ Restart \/ Retry \/ GiveUp
    \/ Halt \/ Cleanup \/ Terminate \/ Configure
    \/ SpawnNone \/ SpawnWorkers \/ SpawnFails \/ NewWorkersHang \/ InitCache
    \/ ReadInput \/ GetInput \/ DrainInput
    \/ StepNothing \/ StepModel \/ StepRaises

\* The process ends with the busy loop, and the other threads with it.
Next ==
    /\ epc # "dead"
    /\ \/ \E s \in Strategy : Offer(s)
       \/ HttpStep
       \/ MonitorStep
       \/ Crash
       \/ \E r \in Request : Send(r)
       \/ EngineStep

Spec == Init /\ [][Next]_vars

\* Each thread keeps running: an enabled step of the engine thread, of the
\* monitor thread or of a request being served is eventually taken. Nothing
\* makes a strategy, a crash or a request arrive.
Alive(step) == epc # "dead" /\ step

FairSpec == /\ Spec
            /\ WF_vars(Alive(EngineStep))
            /\ WF_vars(Alive(MonitorStep))
            /\ WF_vars(Alive(HttpStep))

-----------------------------------------------------------------------------
(* Properties.                                                              *)

\* Control points at which a deployment has begun and has not yet read the
\* strategy it will be built from.
Taking == epc \in {"exec", "halt", "cleanup", "join", "init"}

\* A signalled, or about to be signalled, strategy.
Fresh == recv \/ hpc = "raise"

\* The patched _handle_shutdown is not in the middle of a deployment.
AtTop == epc \in {"loop", "finally", "input", "get", "drain", "step"}

\* The newest strategy is never skipped: outside a deployment it has been
\* tried or its signal is still up. _on_deploy_strategy_received stores the
\* strategy before it sets the event, and the engine clears the event before
\* it reads the strategy; either order reversed loses one.
NoStrategySkipped == Taking \/ Fresh \/ tried = current

\* The health monitor raises no alarm for workers the engine itself
\* terminates: an alarm means a worker died.
NoFalseAlarm ==
    mpc \in {"report", "signal", "unblock", "wake"} => workers = "dead"

\* A reported failure stays signalled until something restarts the workers.
\* (STOP and PD_REBUILD on a healthy instance may clear the signal and leave
\* the workers as they are.)
FailureNotForgotten ==
    (AtTop /\ workers = "dead" /\ monHandled /\ mpc = "sleep") =>
        \/ wait
        \/ tried # NoStrategy /\ tried.type \in {"STOP", "PD_REBUILD"}

\* The engine's mode (and with it how often the DP group synchronises) is that
\* of the newest strategy once that strategy has succeeded, although it is set
\* from a second read of current_strategy.
ModeFollowsStrategy ==
    (AtTop /\ ~Fresh /\ succeeded) =>
        mode = ModeOf(tried)

\* A strategy that says whether this executor has workers (PD_REBUILD does not,
\* nor does a RECOVER without an entry for the executor).
Announced(s) == /\ s # NoStrategy
                /\ \/ s.type \in {"STOP", "DEGRADE"}
                   \/ s.type = "RECOVER" /\ s.shape # "absent"

\* Once the newest strategy that idles or resumes the engine has succeeded,
\* the clients have been told which it is.
IdleAnnounced ==
    (AtTop /\ ~Fresh /\ succeeded /\ Announced(tried)) => (idleSent = idle)

\* An idle engine holds no request: it could never run it, and has_work would
\* keep the loop spinning on it.
IdleHoldsNoRequest == (AtTop /\ idle) => Scheduled = {}

\* Stated by the docstring of _send_idle_notification: an engine idles when all
\* its workers have been shut down.
IdleHasNoWorkers == (AtTop /\ idle) => workers = "none"

\* Stated by the docstring of _send_idle_notification: clients are told of an
\* engine that idles, whatever strategy succeeded last.
IdleIsKnown == (AtTop /\ ~Fresh /\ succeeded /\ idle) => idleSent

\* Stated by the comment in _cleanup_scheduler_requests: clients receive the
\* abort of every request of theirs that a deployment aborts.
AbortsAreSent == InState("silent") = {}

\* Stated by DESIGN.md 5.2: after a failed deployment the executor does not
\* exit, it waits for what comes next.
FailedDeploymentSurvives == epc = "dead" => workers # "none"

\* A deployment that fails, in whichever step and however often, still ends: the
\* wait for a strategy times out and the attempts are counted, so the engine
\* gets back to its loop. Only new workers that never answer can hold it, in the
\* calls of _init_workers and _reinitialize_kv_cache that have no timeout; there
\* is nothing else it waits for without end.
DeploymentEnds == ~AtTop ~> (AtTop \/ epc \in {"dead", "hung"})

\* trigger_busy_loop reaches an engine that was already blocked on its input
\* queue when the event was set: it comes to take the strategy.
WakeupReachesBlockedEngine ==
    (epc = "get" /\ recv /\ hpc = "pause") ~> (~recv \/ epc = "dead")

\* A worker that dies after the monitor saw it alive is signalled, unless the
\* workers are replaced first.
DeathIsSignalled ==
    (workers = "dead" /\ monSeen /\ monRunning /\ ~monHandled) ~>
        (wait \/ workers # "dead" \/ epc = "dead")

\* Stated by the comments of trigger_busy_loop and DESIGN.md 4.1.2: a signalled
\* strategy is taken without waiting for a client request.
SignalIsTaken == recv ~> (~recv \/ epc = "dead")

\* The strategies an executor is sent are handled as StrategyMailbox promises.
Mailbox == INSTANCE StrategyMailbox WITH
             slot <- current, fresh <- Fresh, taking <- Taking, used <- tried
MailboxSpec == Mailbox!Spec

=============================================================================
