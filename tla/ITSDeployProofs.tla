-------------------------- MODULE ITSDeployProofs --------------------------
(***************************************************************************)
(* Proofs about ITSDeploy, for every set of strategies and requests, every *)
(* retry limit and every bound on strategies and crashes.                  *)
(***************************************************************************)
EXTENDS ITSDeploy, TLAPS

\* A group of variables that a step leaves alone keeps its type.
LEMMA Frame ==
    ASSUME TypeOK
    PROVE  /\ UNCHANGED mailVars => MailType'
           /\ UNCHANGED execVars => ExecType'
           /\ UNCHANGED monVars => MonType'
           /\ UNCHANGED engVars => EngType'
           /\ UNCHANGED noteVars => NoteType'
           /\ UNCHANGED loopVars => LoopType'
           /\ UNCHANGED httpVars => HttpType'
           /\ UNCHANGED reqVars => ReqType'
<1>1. UNCHANGED mailVars => MailType'
  BY DEF TypeOK, mailVars, MailType
<1>2. UNCHANGED execVars => ExecType'
  BY DEF TypeOK, execVars, ExecType
<1>3. UNCHANGED monVars => MonType'
  BY DEF TypeOK, monVars, MonType
<1>4. UNCHANGED engVars => EngType'
  BY DEF TypeOK, engVars, EngType
<1>5. UNCHANGED noteVars => NoteType'
  BY DEF TypeOK, noteVars, NoteType
<1>6. UNCHANGED loopVars => LoopType'
  BY DEF TypeOK, loopVars, LoopType
<1>7. UNCHANGED httpVars => HttpType'
  BY DEF TypeOK, httpVars, HttpType
<1>8. UNCHANGED reqVars => ReqType'
  BY DEF TypeOK, reqVars, ReqType
<1>9. QED
  BY <1>1, <1>2, <1>3, <1>4, <1>5, <1>6, <1>7, <1>8

\* How a deployment ends: both outcomes leave the engine at a control point and
\* the executor in a state they should be in.
LEMMA SucceedTypes ==
    ASSUME TypeOK, NEW z \in BOOLEAN, Succeed(z)
    PROVE  /\ epc' \in EnginePC /\ succeeded' \in BOOLEAN
           /\ idle' \in BOOLEAN /\ xstate' \in ExecutorState
  BY DEF Succeed, Stopped, TypeOK, ExecType, EngType, EnginePC, ExecutorState

\* A failed attempt, of restarting or of deploying, keeps the types.
LEMMA FailTypes ==
    ASSUME TypeOK, NEW z \in BOOLEAN, Fail(z)
    PROVE  /\ epc' \in EnginePC /\ succeeded' \in BOOLEAN
           /\ attempt' \in 0..MaxRetry
           /\ idle' \in BOOLEAN /\ xstate' \in ExecutorState
<1> USE BoundAssumption DEF TypeOK, EngType
<1>1. TryAgain => epc' \in EnginePC /\ attempt' \in 0..MaxRetry
  BY DEF TryAgain, EnginePC
<1>2. epc' \in EnginePC /\ attempt' \in 0..MaxRetry
  BY <1>1 DEF Fail, EnginePC
<1>3. QED
  BY <1>2 DEF Fail, ExecType, ExecutorState

\* Every control state and field of the three threads stays within its range.
THEOREM TypeCorrect == Spec => []TypeOK
<1>1. Init => TypeOK
  <2> SUFFICES ASSUME Init PROVE TypeOK
    OBVIOUS
  <2>1. MailType /\ ExecType /\ MonType
    BY DEF Init, MailType, ExecType, MonType, ExecutorState, MonitorPC
  <2>2. attempt = 0 /\ offers = 0 /\ crashes = 0
    BY DEF Init
  <2>3. attempt \in 0..MaxRetry /\ offers \in 0..MaxOffers
        /\ crashes \in 0..MaxCrashes
    BY <2>2, BoundAssumption
  <2>4. EngType
    BY <2>3 DEF Init, EngType, EnginePC
  <2>5. NoteType /\ LoopType /\ HttpType
    BY <2>3 DEF Init, NoteType, LoopType, HttpType, HttpPC
  <2>6. ReqType
    BY DEF Init, ReqType, RequestState
  <2>7. QED
    BY <2>1, <2>3, <2>4, <2>5, <2>6 DEF TypeOK
<1>2. TypeOK /\ [Next]_vars => TypeOK'
  <2> SUFFICES ASSUME TypeOK, [Next]_vars PROVE TypeOK'
    OBVIOUS
  <2> USE BoundAssumption DEF TypeOK
  <2>1. ASSUME NEW s \in Strategy, Offer(s) PROVE TypeOK'
    <3>1. MailType'
      BY <2>1 DEF Offer, MailType
    <3>2. HttpType'
      BY <2>1 DEF Offer, HttpType, HttpPC
    <3>3. QED
      BY <2>1, <3>1, <3>2, Frame DEF Offer
  <2>2. CASE Store
    <3>1. MailType'
      BY <2>2 DEF Store, MailType
    <3>2. HttpType'
      BY <2>2 DEF Store, HttpType, HttpPC
    <3>3. QED
      BY <2>2, <3>1, <3>2, Frame DEF Store
  <2>3. CASE Raise
    <3>1. MailType'
      BY <2>3 DEF Raise, MailType
    <3>2. ExecType'
      BY <2>3 DEF Raise, ExecType, ExecutorState
    <3>3. HttpType'
      BY <2>3 DEF Raise, HttpType, HttpPC
    <3>4. QED
      BY <2>3, <3>1, <3>2, <3>3, Frame DEF Raise
  <2>4. CASE Pause
    <3>1. LoopType'
      BY <2>4 DEF Pause, LoopType
    <3>2. HttpType'
      BY <2>4 DEF Pause, HttpType, HttpPC
    <3>3. QED
      BY <2>4, <3>1, <3>2, Frame DEF Pause
  <2>5. CASE HttpUnblock
    <3>1. LoopType'
      BY <2>5 DEF HttpUnblock, ClearBlock, PutWakeup, LoopType
    <3>2. HttpType'
      BY <2>5 DEF HttpUnblock, ClearBlock, PutWakeup, HttpType, HttpPC
    <3>3. QED
      BY <2>5, <3>1, <3>2, Frame DEF HttpUnblock, ClearBlock, PutWakeup
  <2>6. CASE HttpWake
    <3>1. HttpType'
      BY <2>6 DEF HttpWake, PutWakeup, HttpType, HttpPC
    <3>2. ReqType'
      BY <2>6 DEF HttpWake, PutWakeup, ReqType, RequestState
    <3>3. QED
      BY <2>6, <3>1, <3>2, Frame DEF HttpWake, PutWakeup
  <2>7. CASE Mark
    <3>1. ExecType'
      BY <2>7 DEF Mark, ExecType, ExecutorState
    <3>2. HttpType'
      BY <2>7 DEF Mark, HttpType, HttpPC
    <3>3. QED
      BY <2>7, <3>1, <3>2, Frame DEF Mark
  <2>8. CASE Check
    <3>1. MonType'
      BY <2>8 DEF Check, MonType, MonitorPC
    <3>2. QED
      BY <2>8, <3>1, Frame DEF Check
  <2>9. CASE HandleFailure
    <3>1. MonType'
      BY <2>9 DEF HandleFailure, MonType, MonitorPC
    <3>2. QED
      BY <2>9, <3>1, Frame DEF HandleFailure
  <2>10. CASE ReportFailure
    <3>1. ExecType'
      BY <2>10 DEF ReportFailure, ExecType, ExecutorState
    <3>2. MonType'
      BY <2>10 DEF ReportFailure, MonType, MonitorPC
    <3>3. QED
      BY <2>10, <3>1, <3>2, Frame DEF ReportFailure
  <2>11. CASE SignalFailure
    <3>1. MailType'
      BY <2>11 DEF SignalFailure, MailType
    <3>2. MonType'
      BY <2>11 DEF SignalFailure, MonType, MonitorPC
    <3>3. QED
      BY <2>11, <3>1, <3>2, Frame DEF SignalFailure
  <2>12. CASE MonitorUnblock
    <3>1. MonType'
      BY <2>12 DEF MonitorUnblock, ClearBlock, PutWakeup, MonType, MonitorPC
    <3>2. LoopType'
      BY <2>12 DEF MonitorUnblock, ClearBlock, PutWakeup, LoopType
    <3>3. QED
      BY <2>12, <3>1, <3>2, Frame DEF MonitorUnblock, ClearBlock, PutWakeup
  <2>13. CASE MonitorWake
    <3>1. MonType'
      BY <2>13 DEF MonitorWake, PutWakeup, MonType, MonitorPC
    <3>2. ReqType'
      BY <2>13 DEF MonitorWake, PutWakeup, ReqType, RequestState
    <3>3. QED
      BY <2>13, <3>1, <3>2, Frame DEF MonitorWake, PutWakeup
  <2>14. CASE Crash
    <3>1. ExecType'
      BY <2>14 DEF Crash, ExecType, ExecutorState
    <3>2. QED
      BY <2>14, <3>1, Frame DEF Crash
  <2>15. ASSUME NEW r \in Request, Send(r) PROVE TypeOK'
    <3>1. ReqType'
      BY <2>15 DEF Send, ReqType, RequestState
    <3>2. QED
      BY <2>15, <3>1, Frame DEF Send
  <2>16. CASE Register
    <3>1. EngType'
      BY <2>16 DEF Register, EngType, EnginePC
    <3>2. LoopType'
      BY <2>16 DEF Register, LoopType
    <3>3. QED
      BY <2>16, <3>1, <3>2, Frame DEF Register
  <2>17. CASE TakeStrategy
    <3>1. MailType'
      BY <2>17 DEF TakeStrategy, Moved, MailType
    <3>2. EngType'
      BY <2>17 DEF TakeStrategy, Moved, EngType, EnginePC
    <3>3. LoopType'
      BY <2>17 DEF TakeStrategy, Moved, LoopType
    <3>4. ReqType'
      BY <2>17 DEF TakeStrategy, Moved, ReqType, RequestState
    <3>5. QED
      BY <2>17, <3>1, <3>2, <3>3, <3>4, Frame DEF TakeStrategy, Moved
  <2>18. CASE TakeFailure
    <3>1. MailType'
      BY <2>18 DEF TakeFailure, MailType
    <3>2. EngType'
      BY <2>18 DEF TakeFailure, EngType, EnginePC
    <3>3. LoopType'
      BY <2>18 DEF TakeFailure, LoopType
    <3>4. QED
      BY <2>18, <3>1, <3>2, <3>3, Frame DEF TakeFailure
  <2>19. CASE NoSignal
    <3>1. EngType'
      BY <2>19 DEF NoSignal, EngType, EnginePC
    <3>2. QED
      BY <2>19, <3>1, Frame DEF NoSignal
  <2>20. CASE WaitReceived
    <3>1. MailType'
      BY <2>20 DEF WaitReceived, Moved, MailType
    <3>2. EngType'
      BY <2>20 DEF WaitReceived, Moved, EngType, EnginePC
    <3>3. ReqType'
      BY <2>20 DEF WaitReceived, Moved, ReqType, RequestState
    <3>4. QED
      BY <2>20, <3>1, <3>2, <3>3, Frame DEF WaitReceived, Moved
  <2>21. CASE WaitTimeout
    <3>1. EngType'
      BY <2>21 DEF WaitTimeout, EngType, EnginePC
    <3>2. QED
      BY <2>21, <3>1, Frame DEF WaitTimeout
  <2>22. CASE Resume
    <3>1. MonType'
      BY <2>22 DEF Resume, MonType, MonitorPC
    <3>2. EngType'
      BY <2>22 DEF Resume, EngType, EnginePC
    <3>3. QED
      BY <2>22, <3>1, <3>2, Frame DEF Resume
  <2>23. CASE Finally
    <3>1. EngType'
      BY <2>23 DEF Finally, EngType, EnginePC
    <3>2. LoopType'
      BY <2>23 DEF Finally, LoopType
    <3>3. QED
      BY <2>23, <3>1, <3>2, Frame DEF Finally
  <2>24. CASE ExecStop
    <3>1. ExecType'
      BY <2>24 DEF ExecStop, BeginShutdown, ExecType, ExecutorState
    <3>2. MonType'
      BY <2>24 DEF ExecStop, BeginShutdown, MonType, MonitorPC
    <3>3. EngType'
      BY <2>24 DEF ExecStop, BeginShutdown, EngType, EnginePC
    <3>4. QED
      BY <2>24, <3>1, <3>2, <3>3, Frame DEF ExecStop, BeginShutdown
  <2>25. CASE ExecStopAgain
    <3>1. ExecType'
      BY <2>25 DEF ExecStopAgain, Succeed, Stopped, ExecType, ExecutorState
    <3>2. EngType'
      BY <2>25, SucceedTypes DEF ExecStopAgain, MailType, ExecType, EngType
    <3>3. QED
      BY <2>25, <3>1, <3>2, Frame DEF ExecStopAgain, Succeed, Stopped
  <2>26. CASE ExecRebuild
    <3>1. ExecType'
      BY <2>26 DEF ExecRebuild, ExecType, ExecutorState
    <3>2. EngType'
      BY <2>26 DEF ExecRebuild, EngType, EnginePC
    <3>3. QED
      BY <2>26, <3>1, <3>2, Frame DEF ExecRebuild
  <2>27. CASE ExecConnector
    <3>1. ExecType'
      BY <2>27 DEF ExecConnector, Succeed, Stopped, Fail, TryAgain, ExecType,
         ExecutorState
    <3>2. EngType'
      BY <2>27, SucceedTypes, FailTypes
         DEF ExecConnector, MailType, ExecType, EngType
    <3>3. QED
      BY <2>27, <3>1, <3>2, Frame DEF ExecConnector, Succeed, Stopped, Fail,
         TryAgain
  <2>28. CASE Notify
    <3>1. EngType'
      BY <2>28 DEF Notify, ModeOf, EngType, EnginePC
    <3>2. NoteType'
      BY <2>28 DEF Notify, ModeOf, NoteType
    <3>3. QED
      BY <2>28, <3>1, <3>2, Frame DEF Notify, ModeOf
  <2>29. CASE Restart
    <3>1. ExecType'
      BY <2>29 DEF Restart, ExecType, ExecutorState
    <3>2. EngType'
      BY <2>29 DEF Restart, EngType, EnginePC
    <3>3. QED
      BY <2>29, <3>1, <3>2, Frame DEF Restart
  <2>30. CASE Retry
    <3>1. MailType'
      BY <2>30 DEF Retry, TryAgain, MailType
    <3>2. EngType'
      BY <2>30 DEF Retry, TryAgain, EngType, EnginePC
    <3>3. QED
      BY <2>30, <3>1, <3>2, Frame DEF Retry, TryAgain
  <2>31. CASE GiveUp
    <3>1. ExecType'
      BY <2>31 DEF GiveUp, BeginShutdown, ExecType, ExecutorState
    <3>2. MonType'
      BY <2>31 DEF GiveUp, BeginShutdown, MonType, MonitorPC
    <3>3. EngType'
      BY <2>31 DEF GiveUp, BeginShutdown, EngType, EnginePC
    <3>4. QED
      BY <2>31, <3>1, <3>2, <3>3, Frame DEF GiveUp, BeginShutdown
  <2>32. CASE Halt
    <3>1. ExecType'
      BY <2>32 DEF Halt, ExecType, ExecutorState
    <3>2. EngType'
      BY <2>32 DEF Halt, EngType, EnginePC
    <3>3. QED
      BY <2>32, <3>1, <3>2, Frame DEF Halt
  <2>33. CASE Cleanup
    <3>1. MonType'
      BY <2>33 DEF Cleanup, MonType, MonitorPC
    <3>2. EngType'
      BY <2>33 DEF Cleanup, EngType, EnginePC
    <3>3. ReqType'
      BY <2>33 DEF Cleanup, ReqType, RequestState
    <3>4. QED
      BY <2>33, <3>1, <3>2, <3>3, Frame DEF Cleanup
  <2>34. CASE Terminate
    <3>1. ExecType'
      BY <2>34 DEF Terminate, ExecType, ExecutorState
    <3>2. EngType'
      BY <2>34 DEF Terminate, EngType, EnginePC
    <3>3. QED
      BY <2>34, <3>1, <3>2, Frame DEF Terminate
  <2>35. CASE Configure
    <3>1. ExecType'
      BY <2>35 DEF Configure, Fail, TryAgain, ZeroFor, ExecType, ExecutorState
    <3>2. EngType'
      BY <2>35, FailTypes DEF Configure, MailType, ExecType, EngType, EnginePC
    <3>3. QED
      BY <2>35, <3>1, <3>2, Frame DEF Configure, Fail, TryAgain, ZeroFor
  <2>36. CASE SpawnNone
    <3>1. MailType'
      BY <2>36 DEF SpawnNone, Succeed, Stopped, MailType
    <3>2. ExecType'
      BY <2>36 DEF SpawnNone, Succeed, Stopped, ExecType, ExecutorState
    <3>3. MonType'
      BY <2>36 DEF SpawnNone, Succeed, Stopped, MonType, MonitorPC
    <3>4. EngType'
      BY <2>36 DEF SpawnNone, Succeed, Stopped, EngType, EnginePC
    <3>5. QED
      BY <2>36, <3>1, <3>2, <3>3, <3>4, Frame DEF SpawnNone, Succeed, Stopped
  <2>37. CASE SpawnWorkers
    <3>1. MailType'
      BY <2>37 DEF SpawnWorkers, MailType
    <3>2. ExecType'
      BY <2>37 DEF SpawnWorkers, ExecType, ExecutorState
    <3>3. MonType'
      BY <2>37 DEF SpawnWorkers, MonType, MonitorPC
    <3>4. EngType'
      BY <2>37 DEF SpawnWorkers, EngType, EnginePC
    <3>5. QED
      BY <2>37, <3>1, <3>2, <3>3, <3>4, Frame DEF SpawnWorkers
  <2>38. CASE SpawnFails
    <3>1. ExecType'
      BY <2>38 DEF SpawnFails, Fail, TryAgain, ExecType, ExecutorState
    <3>2. EngType'
      BY <2>38, FailTypes DEF SpawnFails, ExecType, EngType
    <3>3. QED
      BY <2>38, <3>1, <3>2, Frame DEF SpawnFails, Fail, TryAgain
  <2>39. CASE InitCache
    <3>1. ExecType'
      BY <2>39 DEF InitCache, Succeed, Stopped, Fail, TryAgain, ExecType,
         ExecutorState
    <3>2. EngType'
      BY <2>39, SucceedTypes, FailTypes DEF InitCache, ExecType, EngType
    <3>3. QED
      BY <2>39, <3>1, <3>2, Frame DEF InitCache, Succeed, Stopped, Fail,
         TryAgain
  <2>40. CASE NewWorkersHang
    <3>1. EngType'
      BY <2>40 DEF NewWorkersHang, EngType, EnginePC
    <3>2. QED
      BY <2>40, <3>1, Frame DEF NewWorkersHang
  <2>41. CASE ReadInput
    <3>1. EngType'
      BY <2>41 DEF ReadInput, EngType, EnginePC
    <3>2. QED
      BY <2>41, <3>1, Frame DEF ReadInput
  <2>42. CASE GetInput
    <3>1. EngType'
      BY <2>42 DEF GetInput, Admitted, EngType, EnginePC
    <3>2. ReqType'
      BY <2>42 DEF GetInput, Admitted, ReqType, RequestState
    <3>3. QED
      BY <2>42, <3>1, <3>2, Frame DEF GetInput, Admitted
  <2>43. CASE DrainInput
    <3>1. EngType'
      BY <2>43 DEF DrainInput, Moved, Admitted, EngType, EnginePC
    <3>2. ReqType'
      BY <2>43 DEF DrainInput, Moved, Admitted, ReqType, RequestState
    <3>3. QED
      BY <2>43, <3>1, <3>2, Frame DEF DrainInput, Moved, Admitted
  <2>44. CASE StepNothing
    <3>1. EngType'
      BY <2>44 DEF StepNothing, EngType, EnginePC
    <3>2. QED
      BY <2>44, <3>1, Frame DEF StepNothing
  <2>45. CASE StepModel
    <3>1. EngType'
      BY <2>45 DEF StepModel, EngType, EnginePC
    <3>2. ReqType'
      BY <2>45 DEF StepModel, ReqType, RequestState
    <3>3. QED
      BY <2>45, <3>1, <3>2, Frame DEF StepModel
  <2>46. CASE StepRaises
    <3>1. EngType'
      BY <2>46 DEF StepRaises, EngType, EnginePC
    <3>2. QED
      BY <2>46, <3>1, Frame DEF StepRaises
  <2>47. CASE UNCHANGED vars
    BY <2>47, Frame DEF vars
  <2>48. QED
    BY <2>1, <2>2, <2>3, <2>4, <2>5, <2>6, <2>7, <2>8, <2>9, <2>10, <2>11,
       <2>12, <2>13, <2>14, <2>15, <2>16, <2>17, <2>18, <2>19, <2>20,
       <2>21, <2>22, <2>23, <2>24, <2>25, <2>26, <2>27, <2>28, <2>29,
       <2>30, <2>31, <2>32, <2>33, <2>34, <2>35, <2>36, <2>37, <2>38,
       <2>39, <2>40, <2>41, <2>42, <2>43, <2>44, <2>45, <2>46, <2>47
       DEF Next, HttpStep, MonitorStep, EngineStep
<1>3. QED
  BY <1>1, <1>2, PTL DEF Spec

-----------------------------------------------------------------------------
\* No strategy is skipped: every action that consumes the signal begins a
\* deployment, every deployment that ends has read the slot, and the slot is
\* only written by a thread that is about to signal.
THEOREM NoStrategyLost == Spec => []NoStrategySkipped
<1> USE DEF NoStrategySkipped, Taking, Fresh
<1>1. Init => NoStrategySkipped
  BY DEF Init
<1>2. NoStrategySkipped /\ [Next]_vars => NoStrategySkipped'
  <2> SUFFICES ASSUME NoStrategySkipped, [Next]_vars PROVE NoStrategySkipped'
    OBVIOUS
  <2>1. ASSUME NEW s \in Strategy, Offer(s) PROVE NoStrategySkipped'
    BY <2>1 DEF Offer, engVars
  <2>2. CASE HttpStep
    BY <2>2 DEF HttpStep, Store, Raise, Pause, HttpUnblock, HttpWake, Mark,
       mailVars, engVars
  <2>3. CASE MonitorStep
    BY <2>3 DEF MonitorStep, Check, HandleFailure, ReportFailure,
       SignalFailure, MonitorUnblock, MonitorWake, mailVars, engVars, httpVars
  <2>4. CASE Crash
    BY <2>4 DEF Crash, mailVars, engVars, httpVars
  <2>5. ASSUME NEW r \in Request, Send(r) PROVE NoStrategySkipped'
    BY <2>5 DEF Send, mailVars, engVars, httpVars
  <2>6. CASE TakeStrategy \/ WaitReceived \/ Retry
    BY <2>6 DEF TakeStrategy, WaitReceived, Retry, TryAgain, mailVars, httpVars
  <2>7. CASE ExecStop \/ ExecRebuild \/ Halt \/ Cleanup \/ Terminate
    BY <2>7 DEF ExecStop, ExecRebuild, Halt, Cleanup, Terminate, BeginShutdown
  <2>8. CASE ExecStopAgain \/ ExecConnector \/ Configure
    BY <2>8 DEF ExecStopAgain, ExecConnector, Configure, mailVars, httpVars
  <2>9. CASE Register \/ TakeFailure \/ NoSignal \/ WaitTimeout \/ Resume \/ Finally
    BY <2>9 DEF Register, TakeFailure, NoSignal, WaitTimeout, Resume, Finally,
       mailVars, httpVars
  <2>10. CASE Notify \/ Restart \/ GiveUp
    BY <2>10 DEF Notify, Restart, GiveUp, BeginShutdown, mailVars, httpVars
  <2>11. CASE SpawnNone \/ SpawnWorkers \/ SpawnFails \/ NewWorkersHang \/ InitCache
    BY <2>11 DEF SpawnNone, SpawnWorkers, SpawnFails, NewWorkersHang, InitCache,
       Succeed, Fail, TryAgain, mailVars, httpVars
  <2>12. CASE ReadInput \/ GetInput \/ DrainInput
    BY <2>12 DEF ReadInput, GetInput, DrainInput, mailVars, httpVars
  <2>13. CASE StepNothing \/ StepModel \/ StepRaises
    BY <2>13 DEF StepNothing, StepModel, StepRaises, mailVars, httpVars
  <2>14. CASE UNCHANGED vars
    BY <2>14 DEF vars, mailVars, engVars, httpVars
  <2>15. QED
    BY <2>1, <2>2, <2>3, <2>4, <2>5, <2>6, <2>7, <2>8, <2>9, <2>10, <2>11,
       <2>12, <2>13, <2>14 DEF Next, EngineStep
<1>3. QED
  BY <1>1, <1>2, PTL DEF Spec

-----------------------------------------------------------------------------
\* Why an alarm is never false. The engine stops and joins the monitor before
\* it terminates the workers, so the thread is off when they go; and while
\* the monitor has been given no workers _failure_handled stays up, which
\* silences whatever a monitor started meanwhile finds.
AlarmInv ==
    /\ mpc \in {"report", "signal", "unblock", "wake"} => workers = "dead"
    /\ (mpc = "found" /\ ~monHandled) => workers = "dead"
    /\ workers \notin {"alive", "dead"} => monHandled
    /\ epc = "join" => monHandled
    /\ epc \in {"init", "spawn"} => mpc = "off" /\ workers = "none"

\* The stop/join protocol between the engine and the monitor keeps AlarmInv.
LEMMA AlarmInvariant == Spec => []AlarmInv
<1> USE DEF AlarmInv
<1>1. Init => AlarmInv
  BY DEF Init
<1>2. TypeOK /\ AlarmInv /\ [Next]_vars => AlarmInv'
  <2> SUFFICES ASSUME TypeOK, AlarmInv, [Next]_vars PROVE AlarmInv'
    OBVIOUS
  <2>1. ASSUME NEW s \in Strategy, Offer(s) PROVE AlarmInv'
    BY <2>1 DEF Offer, execVars, monVars, engVars
  <2>2. CASE HttpStep
    BY <2>2 DEF HttpStep, Store, Raise, Pause, HttpUnblock, HttpWake, Mark,
       execVars, monVars, engVars
  <2>3. CASE Check
    BY <2>3 DEF Check, execVars, engVars, TypeOK, ExecType
  <2>4. CASE HandleFailure
    BY <2>4 DEF HandleFailure, execVars, engVars
  <2>5. CASE ReportFailure \/ SignalFailure \/ MonitorUnblock \/ MonitorWake
    BY <2>5 DEF ReportFailure, SignalFailure, MonitorUnblock, MonitorWake,
       execVars, engVars
  <2>6. CASE Crash
    BY <2>6 DEF Crash, monVars, engVars
  <2>7. ASSUME NEW r \in Request, Send(r) PROVE AlarmInv'
    BY <2>7 DEF Send, execVars, monVars, engVars
  <2>8. CASE \/ Register \/ TakeStrategy \/ TakeFailure \/ NoSignal
             \/ WaitReceived \/ WaitTimeout \/ Finally
    BY <2>8 DEF Register, TakeStrategy, TakeFailure, NoSignal, WaitReceived,
       WaitTimeout, Finally, execVars, monVars
  <2>9. CASE Resume
    BY <2>9 DEF Resume, execVars
  <2>10. CASE ExecStop \/ GiveUp
    BY <2>10 DEF ExecStop, GiveUp, BeginShutdown
  <2>11. CASE ExecStopAgain \/ ExecConnector
    BY <2>11 DEF ExecStopAgain, ExecConnector, Succeed, Fail, TryAgain, monVars
  <2>12. CASE ExecRebuild \/ Halt \/ Notify \/ Restart \/ Retry
    BY <2>12 DEF ExecRebuild, Halt, Notify, Restart, Retry, TryAgain,
       execVars, monVars
  <2>13. CASE Cleanup
    BY <2>13 DEF Cleanup, execVars
  <2>14. CASE Terminate
    BY <2>14 DEF Terminate, monVars
  <2>15. CASE Configure
    BY <2>15 DEF Configure, Fail, TryAgain, monVars
  <2>16. CASE SpawnNone
    BY <2>16 DEF SpawnNone, Succeed
  <2>17. CASE SpawnWorkers
    BY <2>17 DEF SpawnWorkers
  <2>18. CASE SpawnFails \/ NewWorkersHang \/ InitCache
    BY <2>18 DEF SpawnFails, NewWorkersHang, InitCache, Succeed, Fail, TryAgain,
       execVars, monVars
  <2>19. CASE \/ ReadInput \/ GetInput \/ DrainInput
              \/ StepNothing \/ StepModel \/ StepRaises
    BY <2>19 DEF ReadInput, GetInput, DrainInput, StepNothing, StepModel,
       StepRaises, execVars, monVars
  <2>20. CASE UNCHANGED vars
    BY <2>20 DEF vars, execVars, monVars, engVars
  <2>21. QED
    BY <2>1, <2>2, <2>3, <2>4, <2>5, <2>6, <2>7, <2>8, <2>9, <2>10, <2>11,
       <2>12, <2>13, <2>14, <2>15, <2>16, <2>17, <2>18, <2>19, <2>20
       DEF Next, MonitorStep, EngineStep
<1>3. QED
  BY <1>1, <1>2, TypeCorrect, PTL DEF Spec

\* The health monitor never reports workers the engine terminated itself.
THEOREM AlarmsAreTrue == Spec => []NoFalseAlarm
<1>1. AlarmInv => NoFalseAlarm
  BY DEF AlarmInv, NoFalseAlarm
<1>2. QED
  BY <1>1, AlarmInvariant, PTL

-----------------------------------------------------------------------------
\* Control points the engine only reaches with an empty scheduler, once it has
\* aborted what was running.
Emptied == {"exec", "halt", "join", "init", "spawn", "kv", "post", "retry",
            "giveup", "resume"}

\* An engine becomes idle only at a point where the scheduler is empty, and
\* while it idles no request is admitted.
EmptyInv == (idle \/ epc \in Emptied) => Scheduled = {}

\* An idle engine back in its loop holds no request: Cleanup aborts what runs
\* before the world size can become 0, and ADD is dropped from then on.
THEOREM IdleEngineEmpty == Spec => []IdleHoldsNoRequest
<1> USE DEF EmptyInv, Emptied, Scheduled, InState
<1>1. Init => EmptyInv
  BY DEF Init
<1>2. TypeOK /\ EmptyInv /\ [Next]_vars => EmptyInv'
  <2> SUFFICES ASSUME TypeOK, EmptyInv, [Next]_vars PROVE EmptyInv'
    OBVIOUS
  <2>1. ASSUME NEW s \in Strategy, Offer(s) PROVE EmptyInv'
    BY <2>1 DEF Offer, execVars, engVars, reqVars
  <2>2. CASE HttpStep
    BY <2>2 DEF HttpStep, Store, Raise, Pause, HttpUnblock, HttpWake, Mark,
       PutWakeup, execVars, engVars, reqVars
  <2>3. CASE MonitorStep
    BY <2>3 DEF MonitorStep, Check, HandleFailure, ReportFailure,
       SignalFailure, MonitorUnblock, MonitorWake, PutWakeup, execVars,
       engVars, reqVars
  <2>4. CASE Crash
    BY <2>4 DEF Crash, engVars, reqVars
  <2>5. ASSUME NEW r \in Request, Send(r) PROVE EmptyInv'
    BY <2>5 DEF Send, execVars, engVars, TypeOK, ReqType
  <2>6. CASE Register \/ TakeFailure \/ NoSignal \/ WaitTimeout \/ Finally
    BY <2>6 DEF Register, TakeFailure, NoSignal, WaitTimeout, Finally,
       execVars, reqVars
  <2>7. CASE TakeStrategy \/ WaitReceived
    BY <2>7 DEF TakeStrategy, WaitReceived, Moved
  <2>8. CASE Resume \/ Notify \/ Restart \/ Retry \/ Halt \/ Terminate
    BY <2>8 DEF Resume, Notify, Restart, Retry, TryAgain, Halt, Terminate,
       execVars, reqVars
  <2>9. CASE ExecStop \/ GiveUp
    BY <2>9 DEF ExecStop, GiveUp, BeginShutdown, reqVars
  <2>10. CASE ExecStopAgain \/ ExecRebuild \/ ExecConnector
    BY <2>10 DEF ExecStopAgain, ExecRebuild, ExecConnector, reqVars
  <2>11. CASE Cleanup
    BY <2>11 DEF Cleanup, execVars
  <2>12. CASE \/ Configure \/ SpawnNone \/ SpawnWorkers
              \/ SpawnFails \/ NewWorkersHang \/ InitCache
    BY <2>12 DEF Configure, SpawnNone, SpawnWorkers, SpawnFails, NewWorkersHang,
       InitCache, execVars, reqVars
  <2>13. CASE ReadInput \/ StepNothing \/ StepRaises
    BY <2>13 DEF ReadInput, StepNothing, StepRaises, execVars, reqVars
  <2>14. CASE GetInput
    BY <2>14 DEF GetInput, Admitted, execVars
  <2>15. CASE DrainInput
    BY <2>15 DEF DrainInput, Moved, Admitted, execVars
  <2>16. CASE StepModel
    BY <2>16 DEF StepModel, execVars
  <2>17. CASE UNCHANGED vars
    BY <2>17 DEF vars, execVars, engVars, reqVars
  <2>18. QED
    BY <2>1, <2>2, <2>3, <2>4, <2>5, <2>6, <2>7, <2>8, <2>9, <2>10, <2>11,
       <2>12, <2>13, <2>14, <2>15, <2>16, <2>17 DEF Next, EngineStep
<1>3. EmptyInv => IdleHoldsNoRequest
  BY DEF IdleHoldsNoRequest
<1>4. QED
  BY <1>1, <1>2, <1>3, TypeCorrect, PTL DEF Spec

\* The mode of the newest strategy, from its success until the next deployment.
ModeInv ==
    (/\ epc \in {"boot", "loop", "finally", "input", "get", "drain", "step",
                 "resume"}
     /\ ~Fresh /\ succeeded) => mode = ModeOf(tried)

\* Although Notify reads current_strategy a second time, an engine that is not
\* about to be given a newer strategy has the mode of the one that succeeded.
THEOREM ModeIsOfStrategy == Spec => []ModeFollowsStrategy
<1> USE DEF ModeInv, Fresh, ModeOf
<1>1. Init => ModeInv
  BY DEF Init
<1>2. NoStrategySkipped /\ ModeInv /\ [Next]_vars => ModeInv'
  <2> SUFFICES ASSUME NoStrategySkipped, ModeInv, [Next]_vars PROVE ModeInv'
    OBVIOUS
  <2>1. ASSUME NEW s \in Strategy, Offer(s) PROVE ModeInv'
    BY <2>1 DEF Offer, engVars, noteVars
  <2>2. CASE HttpStep
    BY <2>2 DEF HttpStep, Store, Raise, Pause, HttpUnblock, HttpWake, Mark,
       mailVars, engVars, noteVars
  <2>3. CASE MonitorStep
    BY <2>3 DEF MonitorStep, Check, HandleFailure, ReportFailure,
       SignalFailure, MonitorUnblock, MonitorWake, mailVars, engVars,
       noteVars, httpVars
  <2>4. CASE Crash
    BY <2>4 DEF Crash, mailVars, engVars, noteVars, httpVars
  <2>5. ASSUME NEW r \in Request, Send(r) PROVE ModeInv'
    BY <2>5 DEF Send, mailVars, engVars, noteVars, httpVars
  <2>6. CASE Notify
    <3>1. Fresh \/ tried = current
      BY <2>6 DEF Notify, NoStrategySkipped, Taking
    <3>2. QED
      BY <2>6, <3>1 DEF Notify, mailVars, httpVars
  <2>7. CASE \/ TakeFailure \/ NoSignal \/ WaitTimeout \/ Resume \/ Finally
             \/ Restart \/ Retry \/ GiveUp
    BY <2>7 DEF TakeFailure, NoSignal, WaitTimeout, Resume, Finally,
       Restart, Retry, TryAgain, GiveUp, BeginShutdown, mailVars, noteVars,
       httpVars
  <2>8. CASE TakeStrategy \/ WaitReceived
    BY <2>8 DEF TakeStrategy, WaitReceived
  <2>9. CASE ExecStop \/ ExecRebuild \/ Halt \/ Cleanup \/ Terminate
    BY <2>9 DEF ExecStop, ExecRebuild, Halt, Cleanup, Terminate, BeginShutdown
  <2>10. CASE ExecStopAgain \/ ExecConnector \/ Configure
    BY <2>10 DEF ExecStopAgain, ExecConnector, Configure, Succeed, Fail,
       TryAgain
  <2>11. CASE SpawnNone \/ SpawnWorkers \/ SpawnFails \/ NewWorkersHang \/ InitCache
    BY <2>11 DEF SpawnNone, SpawnWorkers, SpawnFails, NewWorkersHang, InitCache,
       Succeed, Fail, TryAgain
  <2>12. CASE \/ ReadInput \/ GetInput \/ DrainInput
              \/ StepNothing \/ StepModel \/ StepRaises
    BY <2>12 DEF ReadInput, GetInput, DrainInput, StepNothing, StepModel,
       StepRaises, mailVars, noteVars, httpVars
  <2>13. CASE Register
    BY <2>13 DEF Register, mailVars, noteVars, httpVars
  <2>14. CASE UNCHANGED vars
    BY <2>14 DEF vars, mailVars, engVars, noteVars, httpVars
  <2>15. QED
    BY <2>1, <2>2, <2>3, <2>4, <2>5, <2>6, <2>7, <2>8, <2>9, <2>10, <2>11,
       <2>12, <2>13, <2>14 DEF Next, EngineStep
<1>3. ModeInv => ModeFollowsStrategy
  BY DEF ModeFollowsStrategy, AtTop
<1>4. QED
  BY <1>1, <1>2, <1>3, NoStrategyLost, PTL DEF Spec

-----------------------------------------------------------------------------
\* The HTTP thread stores what it was sent.
StoreInv == hpc = "store" => posted \in Strategy

\* What Store writes to current_strategy is a strategy.
LEMMA StoresStrategy == Spec => []StoreInv
<1> USE DEF StoreInv
<1>1. Init => StoreInv
  BY DEF Init
<1>2. StoreInv /\ [Next]_vars => StoreInv'
  <2> SUFFICES ASSUME StoreInv, [Next]_vars PROVE StoreInv'
    OBVIOUS
  <2>1. ASSUME NEW s \in Strategy, Offer(s) PROVE StoreInv'
    BY <2>1 DEF Offer
  <2>2. CASE HttpStep
    BY <2>2 DEF HttpStep, Store, Raise, Pause, HttpUnblock, HttpWake, Mark
  <2>3. CASE UNCHANGED <<posted, hpc>>
    BY <2>3
  <2>4. CASE MonitorStep \/ Crash \/ \E r \in Request : Send(r)
    BY <2>3, <2>4 DEF MonitorStep, Check, HandleFailure, ReportFailure,
       SignalFailure, MonitorUnblock, MonitorWake, Crash, Send, mailVars,
       httpVars
  <2>5. CASE EngineStep
    BY <2>3, <2>5 DEF EngineStep, Register, TakeStrategy, TakeFailure,
       NoSignal, WaitReceived, WaitTimeout, Resume, Finally, ExecStop,
       ExecStopAgain, ExecRebuild, ExecConnector, Notify, Restart, Retry,
       GiveUp, Halt, Cleanup, Terminate, Configure, SpawnNone, SpawnWorkers,
       SpawnFails, NewWorkersHang, InitCache, ReadInput, GetInput, DrainInput, StepNothing,
       StepModel, StepRaises, mailVars, httpVars
  <2>6. CASE UNCHANGED vars
    BY <2>6 DEF vars, mailVars, httpVars
  <2>7. QED
    BY <2>1, <2>2, <2>4, <2>5, <2>6 DEF Next
<1>3. QED
  BY <1>1, <1>2, PTL DEF Spec

\* What a deployment begins with is a strategy.
SignalInv == (recv \/ hpc = "raise" \/ epc = "exec") => current # NoStrategy

\* The event is set after a strategy was stored, and a deployment begins with
\* the event or with the strategy that is there.
LEMMA SignalledExists == Spec => []SignalInv
<1> USE DEF SignalInv
<1>1. Init => SignalInv
  BY DEF Init
<1>2. StoreInv /\ SignalInv /\ [Next]_vars => SignalInv'
  <2> SUFFICES ASSUME StoreInv, SignalInv, [Next]_vars PROVE SignalInv'
    OBVIOUS
  <2>1. ASSUME NEW s \in Strategy, Offer(s) PROVE SignalInv'
    BY <2>1 DEF Offer, engVars
  <2>2. CASE HttpStep
    BY <2>2, StrategyAssumption DEF HttpStep, Store, Raise, Pause, HttpUnblock, HttpWake,
       Mark, StoreInv, mailVars, engVars
  <2>3. CASE MonitorStep \/ Crash \/ \E r \in Request : Send(r)
    BY <2>3 DEF MonitorStep, Check, HandleFailure, ReportFailure, SignalFailure,
       MonitorUnblock, MonitorWake, Crash, Send, mailVars, engVars, httpVars
  <2>4. CASE TakeStrategy \/ WaitReceived \/ Retry
    BY <2>4 DEF TakeStrategy, WaitReceived, Retry, TryAgain, mailVars, httpVars
  <2>5. CASE \/ Register \/ TakeFailure \/ NoSignal \/ WaitTimeout \/ Resume
             \/ Finally \/ Notify \/ Restart \/ GiveUp
    BY <2>5 DEF Register, TakeFailure, NoSignal, WaitTimeout, Resume, Finally,
       Notify, Restart, GiveUp, BeginShutdown, mailVars, httpVars
  <2>6. CASE \/ ExecStop \/ ExecStopAgain \/ ExecRebuild \/ ExecConnector
             \/ Halt \/ Cleanup \/ Terminate
    BY <2>6 DEF ExecStop, ExecStopAgain, ExecRebuild, ExecConnector, Halt,
       Cleanup, Terminate, BeginShutdown, Succeed, Fail, TryAgain, mailVars,
       httpVars
  <2>7. CASE \/ Configure \/ SpawnNone \/ SpawnWorkers
             \/ SpawnFails \/ NewWorkersHang \/ InitCache
    BY <2>7 DEF Configure, SpawnNone, SpawnWorkers, SpawnFails, NewWorkersHang, InitCache,
       Succeed, Fail, TryAgain, mailVars, httpVars
  <2>8. CASE \/ ReadInput \/ GetInput \/ DrainInput
             \/ StepNothing \/ StepModel \/ StepRaises
    BY <2>8 DEF ReadInput, GetInput, DrainInput, StepNothing, StepModel,
       StepRaises, mailVars, httpVars
  <2>9. CASE UNCHANGED vars
    BY <2>9 DEF vars, mailVars, engVars, httpVars
  <2>10. QED
    BY <2>1, <2>2, <2>3, <2>4, <2>5, <2>6, <2>7, <2>8, <2>9 DEF Next, EngineStep
<1>3. QED
  BY <1>1, <1>2, StoresStrategy, PTL DEF Spec

-----------------------------------------------------------------------------
\* The engine has stopped the monitor and not yet terminated the workers.
Stopping == {"halt", "cleanup", "join"}

\* The last deployment was built from a strategy that may leave the workers as
\* they are.
Settled == tried # NoStrategy /\ tried.type \in {"STOP", "PD_REBUILD"}

\* Workers the monitor was given are watched by it, and by one that has handled
\* no failure while they live (those whose start failed half-way are not); and
\* a failure that was handled, and is not about to be signalled, is signalled
\* until the engine takes it up.
FailureInv ==
    /\ epc \notin Stopping =>
         /\ workers \in {"alive", "dead"} => monRunning
         /\ workers = "alive" => ~monHandled
    /\ epc \notin Stopping \cup {"waiting", "exec", "restart"} =>
         (workers = "dead" /\ monHandled /\ mpc \notin {"report", "signal"}
            => wait \/ Settled)

\* A failure that was reported stays signalled: whoever clears the event goes on
\* to terminate the workers or to replace them, except for the strategies that
\* may leave them alone.
THEOREM FailuresAreKept == Spec => []FailureNotForgotten
<1> USE DEF FailureInv, Stopping, Settled
<1>1. Init => FailureInv
  BY DEF Init
<1>2. TypeOK /\ AlarmInv /\ SignalInv /\ FailureInv /\ [Next]_vars => FailureInv'
  <2> SUFFICES ASSUME TypeOK, AlarmInv, SignalInv, FailureInv, [Next]_vars
               PROVE FailureInv'
    OBVIOUS
  <2>1. ASSUME NEW s \in Strategy, Offer(s) PROVE FailureInv'
    BY <2>1 DEF Offer, execVars, monVars, engVars
  <2>2. CASE HttpStep
    BY <2>2 DEF HttpStep, Store, Raise, Pause, HttpUnblock, HttpWake, Mark,
       mailVars, execVars, monVars, engVars
  <2>3. CASE MonitorStep
    BY <2>3 DEF MonitorStep, Check, HandleFailure, ReportFailure, SignalFailure,
       MonitorUnblock, MonitorWake, AlarmInv, mailVars, execVars, engVars
  <2>4. CASE Crash
    BY <2>4 DEF Crash, mailVars, monVars, engVars
  <2>5. ASSUME NEW r \in Request, Send(r) PROVE FailureInv'
    BY <2>5 DEF Send, mailVars, execVars, monVars, engVars
  <2>6. CASE TakeStrategy \/ TakeFailure \/ WaitReceived \/ WaitTimeout
    BY <2>6 DEF TakeStrategy, TakeFailure, WaitReceived, WaitTimeout, execVars,
       monVars
  <2>7. CASE Register \/ NoSignal \/ Finally \/ Notify
    BY <2>7 DEF Register, NoSignal, Finally, Notify, mailVars, execVars, monVars
  <2>8. CASE Resume
    BY <2>8 DEF Resume, mailVars, execVars
  <2>9. CASE Restart \/ Retry
    BY <2>9 DEF Restart, Retry, TryAgain, execVars, monVars, mailVars
  <2>10. CASE GiveUp
    BY <2>10 DEF GiveUp, BeginShutdown, mailVars
  <2>11. CASE ExecStop \/ ExecRebuild
    BY <2>11 DEF ExecStop, ExecRebuild, BeginShutdown
  <2>12. CASE ExecStopAgain \/ ExecConnector
    BY <2>12 DEF ExecStopAgain, ExecConnector, Succeed, Fail, TryAgain, SignalInv,
       mailVars, monVars
  <2>13. CASE Halt \/ Cleanup \/ Terminate
    BY <2>13 DEF Halt, Cleanup, Terminate, execVars, monVars
  <2>14. CASE Configure
    BY <2>14 DEF AlarmInv, Configure, Fail, TryAgain, monVars
  <2>15. CASE SpawnNone \/ SpawnWorkers
    BY <2>15 DEF AlarmInv, SpawnNone, SpawnWorkers, Succeed
  <2>16. CASE SpawnFails \/ NewWorkersHang \/ InitCache
    BY <2>16 DEF SpawnFails, NewWorkersHang, InitCache, Succeed, Fail, TryAgain,
       mailVars, execVars, monVars
  <2>17. CASE \/ ReadInput \/ GetInput \/ DrainInput
              \/ StepNothing \/ StepModel \/ StepRaises
    BY <2>17 DEF ReadInput, GetInput, DrainInput, StepNothing, StepModel,
       StepRaises, mailVars, execVars, monVars
  <2>18. CASE UNCHANGED vars
    BY <2>18 DEF vars, mailVars, execVars, monVars, engVars
  <2>19. QED
    BY <2>1, <2>2, <2>3, <2>4, <2>5, <2>6, <2>7, <2>8, <2>9, <2>10, <2>11, <2>12,
       <2>13, <2>14, <2>15, <2>16, <2>17, <2>18 DEF Next, EngineStep
<1>3. FailureInv => FailureNotForgotten
  BY DEF FailureNotForgotten, AtTop
<1>4. QED
  BY <1>1, <1>2, <1>3, TypeCorrect, AlarmInvariant, SignalledExists, PTL DEF Spec

-----------------------------------------------------------------------------
Recovers(s) == s # NoStrategy /\ s.type = "RECOVER" /\ s.shape # "absent"

\* A RECOVER that names the executor leaves it with workers, and what the
\* clients were told agrees with the world size from the notification on.
IdleInv ==
    /\ epc = "spawn" /\ Recovers(tried) => ~zero
    /\ epc = "kv" => ~idle
    /\ epc = "post" /\ Recovers(tried) => ~idle
    /\ (/\ epc \in {"boot", "loop", "finally", "input", "get", "drain", "step",
                     "resume"}
        /\ ~Fresh /\ succeeded /\ Announced(tried)) => idleSent = idle

\* Although _execute_deployment_strategy reads current_strategy again to choose
\* the notification, the clients know whether the engine idles once the newest
\* strategy has succeeded.
THEOREM IdlenessIsTold == Spec => []IdleAnnounced
<1> USE DEF IdleInv, Fresh, Announced, Recovers
<1>1. Init => IdleInv
  BY DEF Init
<1>2. TypeOK /\ NoStrategySkipped /\ IdleInv /\ [Next]_vars => IdleInv'
  <2> SUFFICES ASSUME TypeOK, NoStrategySkipped, IdleInv, [Next]_vars PROVE IdleInv'
    OBVIOUS
  <2>1. ASSUME NEW s \in Strategy, Offer(s) PROVE IdleInv'
    BY <2>1 DEF Offer, execVars, engVars, noteVars
  <2>2. CASE HttpStep
    BY <2>2 DEF HttpStep, Store, Raise, Pause, HttpUnblock, HttpWake, Mark,
       mailVars, execVars, engVars, noteVars
  <2>3. CASE MonitorStep
    BY <2>3 DEF MonitorStep, Check, HandleFailure, ReportFailure, SignalFailure,
       MonitorUnblock, MonitorWake, mailVars, execVars, engVars, noteVars, httpVars
  <2>4. CASE Crash
    BY <2>4 DEF Crash, mailVars, engVars, noteVars, httpVars
  <2>5. ASSUME NEW r \in Request, Send(r) PROVE IdleInv'
    BY <2>5 DEF Send, mailVars, execVars, engVars, noteVars, httpVars
  <2>6. CASE Notify
    <3>1. Fresh \/ tried = current
      BY <2>6 DEF Notify, NoStrategySkipped, Taking
    <3>2. QED
      BY <2>6, <3>1 DEF Notify, TypeOK, NoteType, ExecType, mailVars, execVars, httpVars
  <2>7. CASE TakeStrategy \/ WaitReceived \/ TakeFailure \/ WaitTimeout \/ Restart \/ Retry
    BY <2>7 DEF TakeStrategy, WaitReceived, TakeFailure, WaitTimeout, Restart, Retry,
       TryAgain
  <2>8. CASE Register \/ NoSignal \/ Resume \/ Finally
    BY <2>8 DEF Register, NoSignal, Resume, Finally, mailVars, execVars, noteVars,
       httpVars
  <2>9. CASE GiveUp
    BY <2>9 DEF GiveUp, BeginShutdown
  <2>10. CASE ExecStop \/ ExecRebuild \/ Halt \/ Cleanup \/ Terminate
    BY <2>10 DEF ExecStop, ExecRebuild, Halt, Cleanup, Terminate, BeginShutdown
  <2>11. CASE ExecStopAgain \/ ExecConnector
    BY <2>11 DEF ExecStopAgain, ExecConnector, Succeed, Fail, TryAgain
  <2>12. CASE Configure
    BY <2>12 DEF Configure, ZeroFor, Fail, TryAgain
  <2>13. CASE SpawnNone \/ SpawnWorkers \/ SpawnFails \/ NewWorkersHang
    BY <2>13 DEF SpawnNone, SpawnWorkers, SpawnFails, NewWorkersHang, Succeed,
       Fail, TryAgain
  <2>14. CASE InitCache
    BY <2>14 DEF InitCache, Succeed, Fail, TryAgain
  <2>15. CASE \/ ReadInput \/ GetInput \/ DrainInput
              \/ StepNothing \/ StepModel \/ StepRaises
    BY <2>15 DEF ReadInput, GetInput, DrainInput, StepNothing, StepModel,
       StepRaises, mailVars, execVars, noteVars, httpVars
  <2>16. CASE UNCHANGED vars
    BY <2>16 DEF vars, mailVars, execVars, engVars, noteVars, httpVars
  <2>17. QED
    BY <2>1, <2>2, <2>3, <2>4, <2>5, <2>6, <2>7, <2>8, <2>9, <2>10, <2>11, <2>12,
       <2>13, <2>14, <2>15, <2>16 DEF Next, EngineStep
<1>3. IdleInv => IdleAnnounced
  BY DEF IdleAnnounced, AtTop
<1>4. QED
  BY <1>1, <1>2, <1>3, TypeCorrect, NoStrategyLost, PTL DEF Spec

-----------------------------------------------------------------------------
\* The executor keeps the promise of StrategyMailbox: Store posts, what begins
\* a deployment takes, what reads current_strategy uses, and the rest stutters.
THEOREM ImplementsMailbox == Spec => MailboxSpec
<1> USE DEF Taking, Fresh
<1>1. Init => Mailbox!Init
  BY DEF Init, Mailbox!Init
<1>2. StoreInv /\ [Next]_vars => [Mailbox!Next]_Mailbox!vars
  <2> SUFFICES ASSUME StoreInv, [Next]_vars
               PROVE  Mailbox!Next \/ UNCHANGED Mailbox!vars
    OBVIOUS
  <2> USE DEF Mailbox!Next, Mailbox!vars
  <2>1. ASSUME NEW s \in Strategy, Offer(s)
        PROVE  Mailbox!Next \/ UNCHANGED Mailbox!vars
    BY <2>1 DEF Offer, engVars
  <2>2. CASE Store
    <3>1. Mailbox!Post
      BY <2>2 DEF Store, StoreInv, Mailbox!Post, engVars
    <3>2. QED
      BY <3>1
  <2>3. CASE Raise \/ Pause \/ HttpUnblock \/ HttpWake \/ Mark
    BY <2>3 DEF Raise, Pause, HttpUnblock, HttpWake, Mark, mailVars, engVars
  <2>4. CASE MonitorStep
    BY <2>4 DEF MonitorStep, Check, HandleFailure, ReportFailure,
       SignalFailure, MonitorUnblock, MonitorWake, mailVars, engVars, httpVars
  <2>5. CASE Crash
    BY <2>5 DEF Crash, mailVars, engVars, httpVars
  <2>6. ASSUME NEW r \in Request, Send(r)
        PROVE  Mailbox!Next \/ UNCHANGED Mailbox!vars
    BY <2>6 DEF Send, mailVars, engVars, httpVars
  <2>7. CASE TakeStrategy \/ WaitReceived \/ Restart
    <3>1. Fresh' = FALSE \/ Fresh' = Fresh
      BY <2>7 DEF TakeStrategy, WaitReceived, Restart, mailVars, httpVars
    <3>2. Mailbox!Take
      BY <2>7, <3>1 DEF TakeStrategy, WaitReceived, Restart, Mailbox!Take,
         mailVars
    <3>3. QED
      BY <3>2
  <2>8. CASE Retry
    <3>1. Fresh' = FALSE \/ Fresh' = Fresh
      BY <2>8 DEF Retry, httpVars
    <3>2. Mailbox!Take \/ UNCHANGED Mailbox!vars
      BY <2>8, <3>1 DEF Retry, TryAgain, Mailbox!Take, httpVars
    <3>3. QED
      BY <3>2
  <2>9. CASE GiveUp
    <3>1. Mailbox!Take \/ UNCHANGED Mailbox!vars
      BY <2>9 DEF GiveUp, BeginShutdown, Mailbox!Take, mailVars, httpVars
    <3>2. QED
      BY <3>1
  <2>10. CASE ExecStop \/ ExecRebuild \/ Halt \/ Cleanup \/ Terminate
    BY <2>10 DEF ExecStop, ExecRebuild, Halt, Cleanup, Terminate,
       BeginShutdown, mailVars, httpVars
  <2>11. CASE ExecStopAgain \/ ExecConnector
    <3>1. epc' \notin {"exec", "halt", "cleanup", "join", "init"}
      BY <2>11 DEF ExecStopAgain, ExecConnector, Succeed, Fail, TryAgain
    <3>2. Mailbox!Use
      BY <2>11, <3>1 DEF ExecStopAgain, ExecConnector, Mailbox!Use, mailVars,
         httpVars
    <3>3. QED
      BY <3>2
  <2>12. CASE Configure
    <3>1. epc' \notin {"exec", "halt", "cleanup", "join", "init"}
      BY <2>12 DEF Configure, Fail, TryAgain
    <3>2. Mailbox!Use
      BY <2>12, <3>1 DEF Configure, Mailbox!Use, mailVars, httpVars
    <3>3. QED
      BY <3>2
  <2>13. CASE \/ Register \/ TakeFailure \/ NoSignal \/ WaitTimeout
              \/ Resume \/ Finally \/ Notify
    BY <2>13 DEF Register, TakeFailure, NoSignal, WaitTimeout, Resume,
       Finally, Notify, mailVars, httpVars
  <2>14. CASE SpawnNone \/ SpawnWorkers \/ SpawnFails \/ NewWorkersHang \/ InitCache
    <3>1. ~Taking /\ ~Taking'
      BY <2>14 DEF SpawnNone, SpawnWorkers, SpawnFails, NewWorkersHang, InitCache, Succeed,
         Fail, TryAgain
    <3>2. UNCHANGED <<current, tried, recv, hpc>>
      BY <2>14 DEF SpawnNone, SpawnWorkers, SpawnFails, NewWorkersHang, InitCache, mailVars,
         httpVars
    <3>3. QED
      BY <3>1, <3>2
  <2>15. CASE \/ ReadInput \/ GetInput \/ DrainInput
              \/ StepNothing \/ StepModel \/ StepRaises
    BY <2>15 DEF ReadInput, GetInput, DrainInput, StepNothing, StepModel,
       StepRaises, mailVars, httpVars
  <2>16. CASE UNCHANGED vars
    BY <2>16 DEF vars, mailVars, engVars, httpVars
  <2>17. QED
    BY <2>1, <2>2, <2>3, <2>4, <2>5, <2>6, <2>7, <2>8, <2>9, <2>10, <2>11,
       <2>12, <2>13, <2>14, <2>15, <2>16 DEF Next, HttpStep, EngineStep
<1>3. QED
  BY <1>1, <1>2, StoresStrategy, PTL DEF Spec, MailboxSpec, Mailbox!Spec

\* What the abstract mailbox promises is enough: whoever implements it never
\* comes to rest with a strategy neither tried nor signalled.
THEOREM MailboxServes == MailboxSpec => [](Taking \/ Fresh \/ tried = current)
<1> USE DEF Mailbox!Served, Taking, Fresh
<1>1. Mailbox!Init => Mailbox!Served
  BY DEF Mailbox!Init
<1>2. Mailbox!Served /\ [Mailbox!Next]_Mailbox!vars => Mailbox!Served'
  BY DEF Mailbox!Next, Mailbox!vars, Mailbox!Post, Mailbox!Take, Mailbox!Use
<1>3. Mailbox!Served => Taking \/ Fresh \/ tried = current
  OBVIOUS
<1>4. QED
  BY <1>1, <1>2, <1>3, PTL DEF MailboxSpec, Mailbox!Spec

=============================================================================
