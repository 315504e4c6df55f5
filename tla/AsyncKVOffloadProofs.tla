------------------------ MODULE AsyncKVOffloadProofs ------------------------
(***************************************************************************)
(* Proofs about AsyncKVOffload, for any number of saves, callers, slots    *)
(* and workers.                                                            *)
(***************************************************************************)
EXTENDS AsyncKVOffload, FiniteSetTheorems, SequenceTheorems, TLAPS

\* Sets of saves are finite, and a smaller one has fewer members.
LEMMA SaveSets ==
    ASSUME NEW S \in SUBSET Save, NEW T \in SUBSET S
    PROVE  /\ Cardinality(S) \in Nat /\ Cardinality(T) \in Nat
           /\ IsFiniteSet(S) /\ IsFiniteSet(T)
           /\ Cardinality(T) <= Cardinality(S)
<1>1. IsFiniteSet(Save)
  BY FS_Interval, SizeAssumption DEF Save
<1>2. IsFiniteSet(S)
  BY <1>1, FS_Subset
<1>3. IsFiniteSet(T) /\ Cardinality(T) <= Cardinality(S)
  BY <1>2, FS_Subset
<1>4. QED
  BY <1>2, <1>3, FS_CardinalityType

\* The callers at a set of control points, after one caller moves.
LEMMA GotoMoves ==
    ASSUME pc \in [Save -> PC], NEW s \in Save, NEW place \in PC, Goto(s, place)
    PROVE  /\ pc' \in [Save -> PC]
           /\ At(Holding)' = IF place \in Holding THEN At(Holding) \cup {s}
                                                  ELSE At(Holding) \ {s}
           /\ At(Linking)' = IF place \in Linking THEN At(Linking) \cup {s}
                                                  ELSE At(Linking) \ {s}
           /\ At(Calling)' = IF place \in Calling THEN At(Calling) \cup {s}
                                                  ELSE At(Calling) \ {s}
  BY DEF Goto, At

\* Saves that hold a slot, or have seen one free and are about to.
Slots == pending \cup At(Holding)

\* Saves in the pending set, or submitted and about to be added to it.
Tracked == pending \cup At(Linking)

\* The inductive invariant: every unfinished save is tracked, so it has a slot,
\* and the slots exceed the limit by less than the callers there are.
SlotType == /\ pc \in [Save -> PC]
            /\ fut \in [Save -> FutureState]
            /\ pending \subseteq Save
LimitInv == /\ SlotType
            /\ Unfinished \subseteq Tracked
            /\ Cardinality(At(Calling)) <= Callers
            /\ Cardinality(Slots) <= MaxInflight + Callers - 1

\* A step that takes no new slot and begins no call keeps the limit.
LEMMA NoNewSlot ==
    ASSUME LimitInv, SlotType', (Unfinished \subseteq Tracked)',
           Slots' \subseteq Slots, At(Calling)' \subseteq At(Calling)
    PROVE  LimitInv'
<1>1. Slots \in SUBSET Save /\ At(Calling) \in SUBSET Save
  BY DEF LimitInv, SlotType, Slots, At
<1>2. Cardinality(Slots') <= Cardinality(Slots)
      /\ Cardinality(Slots') \in Nat /\ Cardinality(Slots) \in Nat
  BY <1>1, SaveSets
<1>3. Cardinality(At(Calling)') <= Cardinality(At(Calling))
      /\ Cardinality(At(Calling)') \in Nat /\ Cardinality(At(Calling)) \in Nat
  BY <1>1, SaveSets
<1>4. QED
  BY <1>2, <1>3, SizeAssumption DEF LimitInv

\* A call begins.
LEMMA CallKeepsLimit ==
    ASSUME LimitInv, NEW s \in Save, Call(s)
    PROVE  LimitInv'
<1>1. "tune" \in PC /\ "tune" \in Calling /\ "tune" \notin Holding
      /\ "tune" \notin Linking
  BY DEF PC, Calling, Holding, Linking
<1>2. /\ pc' \in [Save -> PC]
      /\ At(Holding)' = At(Holding) \ {s}
      /\ At(Linking)' = At(Linking) \ {s}
      /\ At(Calling)' = At(Calling) \cup {s}
  BY <1>1, GotoMoves DEF Call, LimitInv, SlotType
<1>3. s \notin At(Holding) /\ s \notin At(Linking)
  BY DEF Call, At, Holding, Linking
<1>4. /\ SlotType' /\ Slots' = Slots
      /\ Unfinished' = Unfinished /\ Tracked' = Tracked
  BY <1>2, <1>3 DEF LimitInv, SlotType, Slots, Tracked, Unfinished, Call, taskVars
<1>5. IsFiniteSet(At(Calling)) /\ Cardinality(At(Calling)) \in Nat
  BY SaveSets DEF At
<1>6. Cardinality(At(Calling)') <= Cardinality(At(Calling)) + 1
  <2>1. Cardinality(At(Calling) \cup {s})
          = IF s \in At(Calling) THEN Cardinality(At(Calling))
                                 ELSE Cardinality(At(Calling)) + 1
    BY <1>5, FS_AddElement
  <2>2. QED
    BY <1>2, <1>5, <2>1
<1>7. Cardinality(At(Calling)') <= Callers
  <2>1. Cardinality(At(Calling)') \in Nat
    BY <1>2, SaveSets DEF At
  <2>2. QED
    BY <1>5, <1>6, <2>1, SizeAssumption DEF Call
<1>8. QED
  BY <1>4, <1>7 DEF LimitInv

\* A caller finds fewer than MaxInflight pending: whatever the others hold, each
\* of them holds one slot at most.
LEMMA TakeSlotKeepsLimit ==
    ASSUME LimitInv, NEW s \in Save, TakeSlot(s)
    PROVE  LimitInv'
<1>1. "get" \in PC /\ "get" \in Calling /\ "get" \in Holding
      /\ "get" \notin Linking
  BY DEF PC, Calling, Holding, Linking
<1>2. /\ pc' \in [Save -> PC]
      /\ At(Holding)' = At(Holding) \cup {s}
      /\ At(Linking)' = At(Linking) \ {s}
      /\ At(Calling)' = At(Calling) \cup {s}
  BY <1>1, GotoMoves DEF TakeSlot, LimitInv, SlotType
<1>3. At(Calling)' = At(Calling)
  BY <1>2 DEF TakeSlot, At, Calling
<1>4. SlotType' /\ Unfinished' = Unfinished /\ pending' = pending
  BY <1>2 DEF LimitInv, SlotType, Unfinished, TakeSlot, taskVars
<1>5. Unfinished' \subseteq Tracked'
  <2>1. s \notin At(Linking)
    BY DEF TakeSlot, At, Linking
  <2>2. QED
    BY <1>2, <1>4, <2>1 DEF LimitInv, Tracked
<1>6. At(Holding)' \subseteq At(Calling)'
  BY DEF At, Calling
<1>7. Cardinality(At(Holding)') <= Callers /\ Cardinality(At(Holding)') \in Nat
      /\ IsFiniteSet(At(Holding)')
  <2>1. At(Calling) \in SUBSET Save
    BY DEF At
  <2>2. Cardinality(At(Holding)') <= Cardinality(At(Calling))
        /\ Cardinality(At(Holding)') \in Nat /\ IsFiniteSet(At(Holding)')
        /\ Cardinality(At(Calling)) \in Nat
    BY <1>3, <1>6, <2>1, SaveSets
  <2>3. QED
    BY <2>2, SizeAssumption DEF LimitInv
<1>8. IsFiniteSet(pending) /\ Cardinality(pending) \in Nat
  BY SaveSets DEF LimitInv, SlotType
<1>9. Cardinality(pending) <= MaxInflight - 1
  BY <1>8, SizeAssumption DEF TakeSlot
<1>10. Cardinality(Slots') <= Cardinality(pending) + Cardinality(At(Holding)')
  <2>1. Cardinality(pending \cap At(Holding)') \in Nat
    BY <1>8, SaveSets DEF LimitInv, SlotType
  <2>2. Cardinality(pending \cup At(Holding)')
          = Cardinality(pending) + Cardinality(At(Holding)')
              - Cardinality(pending \cap At(Holding)')
    BY <1>7, <1>8, FS_Union
  <2>3. Slots' = pending \cup At(Holding)'
    BY <1>4 DEF Slots
  <2>4. QED
    BY <1>7, <1>8, <2>1, <2>2, <2>3
<1>11. Cardinality(Slots') \in Nat
  <2>1. Slots' \in SUBSET Save
    BY <1>4 DEF SlotType, Slots, At
  <2>2. QED
    BY <2>1, SaveSets
<1>12. Cardinality(Slots') <= MaxInflight + Callers - 1
  BY <1>7, <1>8, <1>9, <1>10, <1>11, SizeAssumption
<1>13. QED
  BY <1>3, <1>4, <1>5, <1>12 DEF LimitInv

\* A caller that moves among the control points before submit, or out of the
\* call, with the futures and the pending set as they are.
LEMMA MoveKeepsLimit ==
    ASSUME LimitInv, NEW s \in Save, NEW place \in PC, Goto(s, place),
           UNCHANGED taskVars, s \in At(Calling), s \notin At(Linking),
           place \notin Linking,
           place \in Holding => s \in At(Holding)
    PROVE  LimitInv'
<1>1. /\ pc' \in [Save -> PC]
      /\ At(Holding)' \subseteq At(Holding)
      /\ At(Linking)' = At(Linking)
      /\ At(Calling)' \subseteq At(Calling)
  <2>1. Goto(s, place) /\ pc \in [Save -> PC]
    BY DEF LimitInv, SlotType
  <2>2. /\ pc' \in [Save -> PC]
        /\ At(Holding)' = IF place \in Holding THEN At(Holding) \cup {s}
                                               ELSE At(Holding) \ {s}
        /\ At(Linking)' = IF place \in Linking THEN At(Linking) \cup {s}
                                               ELSE At(Linking) \ {s}
        /\ At(Calling)' = IF place \in Calling THEN At(Calling) \cup {s}
                                               ELSE At(Calling) \ {s}
    BY <2>1, GotoMoves
  <2>3. QED
    BY <2>2
<1>2. SlotType' /\ Slots' \subseteq Slots
  BY <1>1 DEF LimitInv, SlotType, taskVars, Slots
<1>3. (Unfinished \subseteq Tracked)'
  BY <1>1 DEF LimitInv, taskVars, Tracked, Unfinished
<1>4. QED
  BY <1>1, <1>2, <1>3, NoNewSlot

\* The task is submitted: it is queued, and its caller is about to add it.
LEMMA SubmitKeepsLimit ==
    ASSUME LimitInv, NEW s \in Save, Submit(s)
    PROVE  LimitInv'
<1>1. s \in At(Calling) /\ s \in At(Holding)
  BY DEF Submit, At, Calling, Holding
<1>2. "watch" \in Holding /\ "watch" \in Linking /\ "watch" \in PC
  BY DEF PC, Calling, Holding, Linking
<1>3. /\ pc' \in [Save -> PC]
      /\ At(Holding)' = At(Holding)
      /\ At(Linking)' = At(Linking) \cup {s}
      /\ At(Calling)' \subseteq At(Calling)
  <2>1. Goto(s, "watch") /\ pc \in [Save -> PC]
    BY DEF Submit, LimitInv, SlotType
  <2>2. /\ pc' \in [Save -> PC]
        /\ At(Holding)' = IF "watch" \in Holding THEN At(Holding) \cup {s}
                                               ELSE At(Holding) \ {s}
        /\ At(Linking)' = IF "watch" \in Linking THEN At(Linking) \cup {s}
                                               ELSE At(Linking) \ {s}
        /\ At(Calling)' = IF "watch" \in Calling THEN At(Calling) \cup {s}
                                               ELSE At(Calling) \ {s}
    BY <1>2, <2>1, GotoMoves
  <2>3. QED
    BY <1>1, <1>2, <2>2
<1>4. fut' \in [Save -> FutureState] /\ pending' = pending
  BY DEF Submit, LimitInv, SlotType, FutureState
<1>5. Unfinished' \subseteq Unfinished \cup {s}
  BY DEF Submit, Unfinished, LimitInv, SlotType
<1>6. SlotType' /\ Slots' = Slots
  BY <1>3, <1>4 DEF Slots, LimitInv, SlotType
<1>7. (Unfinished \subseteq Tracked)'
  BY <1>3, <1>4, <1>5 DEF LimitInv, Tracked
<1>8. QED
  BY <1>3, <1>6, <1>7, NoNewSlot

\* The callback is registered, or runs at once because the save is over.
LEMMA WatchKeepsLimit ==
    ASSUME LimitInv, NEW s \in Save, Watch(s)
    PROVE  LimitInv'
<1>1. s \in At(Calling) /\ s \in At(Holding) /\ s \in At(Linking)
  BY DEF Watch, At, Calling, Holding, Linking
<1>2. "add" \in Holding /\ "add" \in Linking /\ "add" \in PC
  BY DEF PC, Calling, Holding, Linking
<1>3. /\ pc' \in [Save -> PC]
      /\ At(Holding)' = At(Holding)
      /\ At(Linking)' = At(Linking)
      /\ At(Calling)' \subseteq At(Calling)
  <2>1. Goto(s, "add") /\ pc \in [Save -> PC]
    BY DEF Watch, LimitInv, SlotType
  <2>2. /\ pc' \in [Save -> PC]
        /\ At(Holding)' = IF "add" \in Holding THEN At(Holding) \cup {s}
                                               ELSE At(Holding) \ {s}
        /\ At(Linking)' = IF "add" \in Linking THEN At(Linking) \cup {s}
                                               ELSE At(Linking) \ {s}
        /\ At(Calling)' = IF "add" \in Calling THEN At(Calling) \cup {s}
                                               ELSE At(Calling) \ {s}
    BY <1>2, <2>1, GotoMoves
  <2>3. QED
    BY <1>1, <1>2, <2>2
<1>4. fut' = fut /\ Unfinished' = Unfinished
  BY DEF Watch, Unfinished
<1>5. pending' = pending \/ (s \notin Unfinished /\ pending' = pending \ {s})
  BY DEF Watch, RunCallback
<1>6. SlotType' /\ Slots' \subseteq Slots
  BY <1>3, <1>4, <1>5 DEF Slots, LimitInv, SlotType
<1>7. (Unfinished \subseteq Tracked)'
  BY <1>3, <1>4, <1>5 DEF LimitInv, Tracked
<1>8. QED
  BY <1>3, <1>6, <1>7, NoNewSlot

\* The caller's hold on its slot passes to the pending set.
LEMMA AddKeepsLimit ==
    ASSUME LimitInv, NEW s \in Save, Add(s)
    PROVE  LimitInv'
<1>1. s \in At(Calling) /\ s \in At(Holding) /\ s \in At(Linking)
  BY DEF Add, At, Calling, Holding, Linking
<1>2. "count" \notin Holding /\ "count" \notin Linking /\ "count" \in Calling
      /\ "count" \in PC
  BY DEF PC, Calling, Holding, Linking
<1>3. /\ pc' \in [Save -> PC]
      /\ At(Holding)' = At(Holding) \ {s}
      /\ At(Linking)' = At(Linking) \ {s}
      /\ At(Calling)' \subseteq At(Calling)
  BY <1>1, <1>2, GotoMoves DEF Add, LimitInv, SlotType
<1>4. fut' = fut /\ Unfinished' = Unfinished /\ pending' = pending \cup {s}
  BY DEF Add, Unfinished
<1>5. SlotType' /\ Slots' \subseteq Slots
  BY <1>1, <1>3, <1>4 DEF Slots, LimitInv, SlotType
<1>6. (Unfinished \subseteq Tracked)'
  BY <1>3, <1>4 DEF LimitInv, Tracked
<1>7. QED
  BY <1>3, <1>5, <1>6, NoNewSlot

\* Every step of a call that has begun.
LEMMA ProceedKeepsLimit ==
    ASSUME LimitInv, NEW s \in Save, Proceed(s)
    PROVE  LimitInv'
<1>1. CASE Tune(s) \/ SetWorkers(s) \/ Replace(s) \/ Retire(s)
  <2>1. PICK place \in {"swap", "replace", "retire", "slot"} : Goto(s, place)
    BY <1>1 DEF Tune, SetWorkers, Replace, Retire
  <2>2. place \in PC /\ place \notin Holding /\ place \notin Linking
    BY DEF PC, Calling, Holding, Linking
  <2>3. s \in At(Calling) /\ s \notin At(Linking) /\ UNCHANGED taskVars
    BY <1>1 DEF Tune, SetWorkers, Replace, Retire, At, Calling, Linking
  <2>4. QED
    BY <2>1, <2>2, <2>3, MoveKeepsLimit
<1>2. CASE TakeSlot(s)
  BY <1>2, TakeSlotKeepsLimit
<1>3. CASE Refuse(s) \/ SubmitRaises(s) \/ Count(s)
  <2>1. PICK place \in {"refused", "lost", "done"} : Goto(s, place)
    BY <1>3 DEF Refuse, SubmitRaises, Count
  <2>2. place \in PC /\ place \notin Holding /\ place \notin Linking
    BY DEF PC, Calling, Holding, Linking
  <2>3. s \in At(Calling) /\ s \notin At(Linking) /\ UNCHANGED taskVars
    BY <1>3 DEF Refuse, SubmitRaises, Count, At, Calling, Holding, Linking
  <2>4. QED
    BY <2>1, <2>2, <2>3, MoveKeepsLimit
<1>4. CASE LookForPool(s) \/ CreatePool(s) \/ ReadPool(s)
  <2>1. PICK place \in {"create", "read", "submit"} : Goto(s, place)
    BY <1>4 DEF LookForPool, CreatePool, ReadPool
  <2>2. place \in PC /\ place \notin Linking
    BY DEF PC, Calling, Holding, Linking
  <2>3. /\ s \in At(Calling) /\ s \notin At(Linking) /\ s \in At(Holding)
        /\ UNCHANGED taskVars
    BY <1>4 DEF LookForPool, CreatePool, ReadPool, At, Calling, Holding, Linking
  <2>4. QED
    BY <2>1, <2>2, <2>3, MoveKeepsLimit
<1>5. QED
  BY <1>1, <1>2, <1>3, <1>4, SubmitKeepsLimit, WatchKeepsLimit, AddKeepsLimit
  DEF Proceed

\* The pool threads: a save that starts was unfinished already, and the callback
\* gives up the slot of one that is over.
LEMMA RunKeepsLimit ==
    ASSUME LimitInv,
           \/ \E s \in Save : Run(s)
           \/ \E p \in DOMAIN pools : Start(p)
           \/ UNCHANGED <<callVars, taskVars>>
    PROVE  LimitInv'
<1>1. UNCHANGED callVars
  BY DEF Run, Finish, Callback, Start
<1>2. /\ At(Holding)' = At(Holding) /\ At(Linking)' = At(Linking)
      /\ At(Calling)' = At(Calling)
  BY <1>1 DEF callVars, At
<1>3. /\ fut' \in [Save -> FutureState]
      /\ Unfinished' \subseteq Unfinished
  <2>1. ASSUME NEW s \in Save, Run(s)
        PROVE  fut' \in [Save -> FutureState] /\ Unfinished' \subseteq Unfinished
    BY <2>1 DEF Run, Finish, Callback, Unfinished, LimitInv, SlotType, FutureState
  <2>2. ASSUME NEW p \in DOMAIN pools, Start(p)
        PROVE  fut' \in [Save -> FutureState] /\ Unfinished' \subseteq Unfinished
    BY <2>2 DEF Start, Unfinished, LimitInv, SlotType, FutureState
  <2>3. CASE UNCHANGED <<callVars, taskVars>>
    BY <2>3 DEF taskVars, Unfinished, LimitInv, SlotType
  <2>4. QED
    BY <2>1, <2>2, <2>3
<1>4. /\ pending' \subseteq pending
      /\ \A t \in pending \ pending' : t \notin Unfinished
  BY DEF Run, Finish, Callback, RunCallback, Start, taskVars
<1>5. SlotType' /\ Slots' \subseteq Slots
  BY <1>1, <1>2, <1>3, <1>4 DEF LimitInv, SlotType, Slots, callVars
<1>6. (Unfinished \subseteq Tracked)'
  BY <1>2, <1>3, <1>4 DEF LimitInv, Tracked
<1>7. QED
  BY <1>2, <1>5, <1>6, NoNewSlot

\* Back pressure holds: the saves accepted and not yet over, in all the pools
\* together, are at most MaxInflight and one for every other caller.
THEOREM SavesAreBounded == Spec => []InflightBounded
<1>1. Init => LimitInv
  <2> SUFFICES ASSUME Init PROVE LimitInv
    OBVIOUS
  <2>1. SlotType
    BY DEF Init, SlotType, PC, FutureState
  <2>2. Unfinished = {} /\ Slots = {} /\ At(Calling) = {}
    BY DEF Init, Unfinished, Slots, At, Calling, Holding, Linking
  <2>3. QED
    BY <2>1, <2>2, FS_EmptySet, SizeAssumption DEF LimitInv
<1>2. LimitInv /\ [Next]_vars => LimitInv'
  <2> SUFFICES ASSUME LimitInv, [Next]_vars PROVE LimitInv'
    OBVIOUS
  <2>1. CASE UNCHANGED vars
    BY <2>1, RunKeepsLimit DEF vars
  <2>2. CASE BeginShutdown \/ EndShutdown
    BY <2>2, RunKeepsLimit DEF BeginShutdown, EndShutdown
  <2>3. QED
    BY <2>1, <2>2, CallKeepsLimit, ProceedKeepsLimit, RunKeepsLimit DEF Next
<1>3. LimitInv => InflightBounded
  <2> SUFFICES ASSUME LimitInv PROVE InflightBounded
    OBVIOUS
  <2>1. Linking \subseteq Holding
    BY DEF Holding
  <2>2. Unfinished \subseteq Slots /\ Slots \in SUBSET Save
    BY <2>1 DEF LimitInv, SlotType, Tracked, Slots, At
  <2>3. QED
    BY <2>2, SaveSets, SizeAssumption DEF LimitInv, InflightBounded
<1>4. QED
  BY <1>1, <1>2, <1>3, PTL DEF Spec

-----------------------------------------------------------------------------

\* What the operations on pools keep: each yields a sequence of pools.
LEMMA PoolOperations ==
    ASSUME pools \in Seq(Pool)
    PROVE  /\ \A n \in Size : /\ Append(pools, NewPool(n)) \in Seq(Pool)
                              /\ Len(Append(pools, NewPool(n))) = Len(pools) + 1
           /\ \A p \in 1..Len(pools) :
                 /\ Closed(p) \in Seq(Pool) /\ Len(Closed(p)) = Len(pools)
                 /\ Closed(p)[p].open = FALSE
                 /\ \A q \in 1..Len(pools) : q # p => Closed(p)[q] = pools[q]
<1>1. ASSUME NEW n \in Size
      PROVE  /\ Append(pools, NewPool(n)) \in Seq(Pool)
             /\ Len(Append(pools, NewPool(n))) = Len(pools) + 1
  <2>1. NewPool(n) \in Pool
    BY <1>1 DEF NewPool, Pool
  <2>2. QED
    BY <2>1
<1>2. ASSUME NEW p \in 1..Len(pools)
      PROVE  /\ Closed(p) \in Seq(Pool) /\ Len(Closed(p)) = Len(pools)
             /\ Closed(p)[p].open = FALSE
             /\ \A q \in 1..Len(pools) : q # p => Closed(p)[q] = pools[q]
  <2> DEFINE closed == [pools[p] EXCEPT !.open = FALSE]
  <2>1. pools[p] \in Pool
    BY ElementOfSeq
  <2>2. closed \in Pool /\ closed.open = FALSE
    BY <2>1 DEF Pool
  <2>3. Closed(p) = [pools EXCEPT ![p] = closed]
    BY DEF Closed
  <2> HIDE DEF closed
  <2>4. QED
    BY <2>2, <2>3, ExceptSeq
<1>3. QED
  BY <1>1, <1>2

\* A pool that accepts work is the current one, or is being retired.
OpenPools(ps, current, thread) ==
    \A p \in 1..Len(ps) : ps[p].open => \/ p = current
                                        \/ thread \in Save /\ p = ref[thread]

\* The inductive invariant: the lock is held by the caller that retires a pool,
\* if there is one, and the current pool does not accept work while a shutdown
\* waits for it.
PoolInv == /\ pc \in [Save -> PC]
           /\ pools \in Seq(Pool) /\ executor \in 0..Len(pools)
           /\ workers \in Size /\ holder \in {Nobody, Shutdown} \cup Save
           /\ goal \in [Save -> {0} \cup 1..MaxWorkers] /\ ref \in [Save -> Nat]
           /\ \A s \in Save : /\ pc[s] \in {"swap", "replace"} => goal[s] # 0
                              /\ pc[s] = "retire" <=> holder = s
                              /\ holder = s => ref[s] \in 1..Len(pools)
           /\ OpenPools(pools, executor, holder)
           /\ holder = Shutdown => executor # 0 /\ ~pools[executor].open

\* The two marks of the lock are no save.
LEMMA Threads ==
    Nobody \notin Save /\ Shutdown \notin Save /\ Nobody # Shutdown
  BY SizeAssumption DEF Nobody, Shutdown, Save

\* A caller that moves, neither into nor out of the replacement of a pool.
Elsewhere == PC \ {"swap", "replace", "retire"}
Steady == /\ pc' \in [Save -> PC]
          /\ \A s \in Save : /\ pc'[s] \in {"swap", "replace"} <=> pc[s] \in {"swap", "replace"}
                             /\ pc'[s] = "retire" <=> pc[s] = "retire"

\* Moving between two points outside of the replacement is steady.
LEMMA Moves ==
    ASSUME PoolInv, NEW s \in Save, pc[s] \in Elsewhere,
           NEW place \in Elsewhere, Goto(s, place)
    PROVE  Steady
  BY DEF PoolInv, Elsewhere, Steady, Goto

\* Steps that leave the pools, the lock and the goals alone.
LEMMA SamePools ==
    ASSUME PoolInv, Steady, UNCHANGED <<goal, ref, poolVars>>
    PROVE  PoolInv'
  BY DEF PoolInv, Steady, poolVars, OpenPools

\* A pool thread takes a save from a queue, or a caller adds one.
LEMMA SameOpenPools ==
    ASSUME PoolInv, Steady, UNCHANGED <<goal, ref, executor, workers, holder>>,
           NEW p \in 1..Len(pools), NEW q \in Seq(Save),
           pools' = [pools EXCEPT ![p].queue = q]
    PROVE  PoolInv'
<1> DEFINE pool == [pools[p] EXCEPT !.queue = q]
<1>1. pools[p] \in Pool
  BY ElementOfSeq DEF PoolInv
<1>2. pool \in Pool /\ pool.open = pools[p].open
  BY <1>1 DEF Pool
<1>3. pools' = [pools EXCEPT ![p] = pool]
  OBVIOUS
<1> HIDE DEF pool
<1>4. /\ pools' \in Seq(Pool) /\ Len(pools') = Len(pools)
      /\ \A i \in 1..Len(pools) : pools'[i] = IF i = p THEN pool ELSE pools[i]
  <2>1. pools \in Seq(Pool)
    BY DEF PoolInv
  <2>2. /\ [pools EXCEPT ![p] = pool] \in Seq(Pool)
        /\ Len([pools EXCEPT ![p] = pool]) = Len(pools)
        /\ \A i \in 1..Len(pools) : [pools EXCEPT ![p] = pool][i]
                                      = IF i = p THEN pool ELSE pools[i]
    BY <1>2, <2>1, ExceptSeq
  <2>3. QED
    BY <1>3, <2>2
<1>5. \A i \in 1..Len(pools) : pools'[i].open = pools[i].open
  BY <1>2, <1>4
<1>6. OpenPools(pools, executor, holder)'
  BY <1>4, <1>5 DEF PoolInv, OpenPools
<1>7. holder' = Shutdown => executor' # 0 /\ ~pools'[executor'].open
  BY <1>5 DEF PoolInv
<1>8. QED
  BY <1>4, <1>6, <1>7 DEF PoolInv, Steady, OpenPools

\* A pool is appended: the others keep their indices.
LEMMA PoolAdded ==
    ASSUME PoolInv, NEW n \in Size, pools' = Append(pools, NewPool(n))
    PROVE  /\ pools' \in Seq(Pool) /\ Len(pools') = Len(pools) + 1
           /\ Len(pools) \in Nat
           /\ \A i \in 1..Len(pools) : pools'[i] = pools[i]
<1>1. NewPool(n) \in Pool
  BY DEF NewPool, Pool
<1>2. pools \in Seq(Pool)
  BY DEF PoolInv
<1>3. QED
  BY <1>1, <1>2

\* The new size of the pool is read, and computed.
LEMMA TuneKeepsPools ==
    ASSUME PoolInv, NEW s \in Save, Tune(s)
    PROVE  PoolInv'
<1>1. CASE UNCHANGED goal /\ Goto(s, "slot")
  <2>1. "slot" \in Elsewhere /\ pc[s] \in Elsewhere
    BY DEF Tune, Elsewhere, PC, Calling, Holding
  <2>2. Steady
    BY <1>1, <2>1, Moves
  <2>3. QED
    BY <1>1, <2>2, SamePools DEF Tune
<1>2. CASE /\ workers < MaxWorkers /\ Goto(s, "swap")
           /\ goal' = [goal EXCEPT ![s] = IF workers + WorkerStep < MaxWorkers
                                            THEN workers + WorkerStep
                                            ELSE MaxWorkers]
  <2> DEFINE new == IF workers + WorkerStep < MaxWorkers
                      THEN workers + WorkerStep ELSE MaxWorkers
  <2>1. workers \in Nat /\ WorkerStep \in Nat \ {0} /\ MaxWorkers \in Nat \ {0}
    BY WorkerAssumption DEF PoolInv, Size
  <2>2. new \in 1..MaxWorkers /\ new # 0
    BY <2>1
  <2> HIDE DEF new
  <2>3. goal' = [goal EXCEPT ![s] = new]
    BY <1>2 DEF new
  <2>4. /\ goal' \in [Save -> {0} \cup 1..MaxWorkers]
        /\ goal'[s] # 0 /\ \A t \in Save : t # s => goal'[t] = goal[t]
    BY <2>2, <2>3 DEF PoolInv
  <2>5. /\ pc' \in [Save -> PC] /\ pc[s] = "tune" /\ pc'[s] = "swap"
        /\ \A t \in Save : t # s => pc'[t] = pc[t]
    BY <1>2 DEF Tune, Goto, PoolInv, PC, Calling
  <2>6. UNCHANGED <<ref, poolVars>>
    BY DEF Tune
  <2>7. \A t \in Save : /\ pc'[t] \in {"swap", "replace"} => goal'[t] # 0
                        /\ pc'[t] = "retire" <=> holder = t
    BY <2>4, <2>5 DEF PoolInv
  <2>8. QED
    BY <2>4, <2>5, <2>6, <2>7 DEF PoolInv, poolVars, OpenPools
<1>3. QED
  BY <1>1, <1>2 DEF Tune

\* The size is set before the lock is taken.
LEMMA SetWorkersKeepsPools ==
    ASSUME PoolInv, NEW s \in Save, SetWorkers(s)
    PROVE  PoolInv'
<1>1. goal[s] \in Size /\ workers' = goal[s]
  BY DEF SetWorkers, PoolInv, Size
<1>2. Steady
  BY DEF SetWorkers, Goto, PoolInv, PC, Calling, Steady
<1>3. UNCHANGED <<goal, ref, pools, executor, holder>>
  BY DEF SetWorkers
<1>4. QED
  BY <1>1, <1>2, <1>3 DEF PoolInv, Steady, OpenPools

\* A new pool is published: the one it replaces is the caller's to retire.
LEMMA ReplaceKeepsPools ==
    ASSUME PoolInv, NEW s \in Save, Replace(s)
    PROVE  PoolInv'
<1>1. CASE executor = 0
  <2>1. /\ pc' \in [Save -> PC] /\ pc[s] = "replace" /\ pc'[s] = "slot"
        /\ \A t \in Save : t # s => pc'[t] = pc[t]
    BY <1>1 DEF Replace, Goto, PoolInv, PC, Calling
  <2>2. UNCHANGED <<goal, ref, pools, executor, workers, holder>>
    BY <1>1 DEF Replace
  <2>3. \A t \in Save : /\ pc'[t] \in {"swap", "replace"} => goal[t] # 0
                        /\ pc'[t] = "retire" <=> holder = t
    BY <2>1 DEF PoolInv
  <2>4. QED
    BY <2>1, <2>2, <2>3 DEF PoolInv, OpenPools
<1>2. CASE executor # 0
  <2>1. /\ pc' \in [Save -> PC] /\ pc[s] = "replace" /\ pc'[s] = "retire"
        /\ \A t \in Save : t # s => pc'[t] = pc[t]
    BY <1>2 DEF Replace, Goto, PoolInv, PC, Calling
  <2>2. /\ ref' = [ref EXCEPT ![s] = executor]
        /\ pools' = Append(pools, NewPool(goal[s]))
        /\ executor' = Len(pools) + 1 /\ holder = Nobody /\ holder' = s
        /\ UNCHANGED <<goal, workers>>
    BY <1>2 DEF Replace
  <2>3. goal[s] \in Size
    BY <2>1 DEF PoolInv, Size
  <2>4. /\ pools' \in Seq(Pool) /\ Len(pools') = Len(pools) + 1
        /\ Len(pools) \in Nat
        /\ \A i \in 1..Len(pools) : pools'[i] = pools[i]
    BY <2>2, <2>3, PoolAdded
  <2>5. executor \in 1..Len(pools) /\ executor \in Nat
    BY <1>2 DEF PoolInv
  <2>6. /\ ref' \in [Save -> Nat] /\ ref'[s] = executor
        /\ ref'[s] \in 1..Len(pools')
    BY <2>2, <2>4, <2>5 DEF PoolInv
  <2>7. \A t \in Save : holder # t
    BY <2>2, Threads
  <2>8. \A t \in Save : /\ pc'[t] \in {"swap", "replace"} => goal[t] # 0
                        /\ pc'[t] = "retire" <=> holder' = t
                        /\ holder' = t => ref'[t] \in 1..Len(pools')
    BY <2>1, <2>2, <2>6, <2>7 DEF PoolInv
  <2>9. \A i \in 1..Len(pools) : pools[i].open => i = executor
    BY <2>2, Threads DEF PoolInv, OpenPools
  <2>10. \A i \in 1..Len(pools') : pools'[i].open =>
            i = executor' \/ (holder' \in Save /\ i = ref'[holder'])
    BY <2>2, <2>4, <2>6, <2>9
  <2>11. holder' # Shutdown
    BY <2>2, Threads
  <2>12. executor' \in 0..Len(pools')
    BY <2>2, <2>4
  <2>13. QED
    BY <2>1, <2>2, <2>4, <2>6, <2>8, <2>10, <2>11, <2>12 DEF PoolInv, OpenPools
<1>3. QED
  BY <1>1, <1>2

\* The old pool is shut down and the lock released.
LEMMA RetireKeepsPools ==
    ASSUME PoolInv, NEW s \in Save, Retire(s)
    PROVE  PoolInv'
<1>1. holder = s /\ ref[s] \in 1..Len(pools) /\ pools \in Seq(Pool)
  BY DEF Retire, PoolInv
<1>2. /\ pc' \in [Save -> PC] /\ pc'[s] = "slot"
      /\ \A t \in Save : t # s => pc'[t] = pc[t]
  BY DEF Retire, Goto, PoolInv, PC, Calling
<1>3. /\ pools' = Closed(ref[s]) /\ holder' = Nobody
      /\ UNCHANGED <<goal, ref, executor, workers>>
  BY DEF Retire
<1>4. /\ pools' \in Seq(Pool) /\ Len(pools') = Len(pools)
      /\ ~pools'[ref[s]].open
      /\ \A i \in 1..Len(pools) : i # ref[s] => pools'[i] = pools[i]
  BY <1>1, <1>3, PoolOperations
<1>5. \A t \in Save : /\ pc'[t] \in {"swap", "replace"} => goal[t] # 0
                      /\ pc'[t] # "retire" /\ holder' # t
  BY <1>1, <1>2, <1>3, Threads DEF PoolInv
<1>6. \A i \in 1..Len(pools') : pools'[i].open => i = executor'
  BY <1>1, <1>3, <1>4 DEF PoolInv, OpenPools
<1>7. holder' # Shutdown
  BY <1>3, Threads
<1>8. QED
  BY <1>2, <1>3, <1>4, <1>5, <1>6, <1>7 DEF PoolInv, OpenPools

\* A pool is created when there is none.
LEMMA CreateKeepsPools ==
    ASSUME PoolInv, NEW s \in Save, CreatePool(s)
    PROVE  PoolInv'
<1>1. "read" \in Elsewhere /\ pc[s] \in Elsewhere /\ Goto(s, "read")
  BY DEF CreatePool, Elsewhere, PC, Calling, Holding
<1>2. Steady /\ UNCHANGED <<goal, ref, holder, workers>> /\ holder = Nobody
  BY <1>1, Moves DEF CreatePool
<1>3. CASE executor # 0
  BY <1>2, <1>3, SamePools DEF CreatePool, poolVars
<1>4. CASE executor = 0
  <2>1. /\ pools' = Append(pools, NewPool(workers))
        /\ executor' = Len(pools) + 1 /\ workers \in Size
    BY <1>4 DEF CreatePool, PoolInv
  <2>2. /\ pools' \in Seq(Pool) /\ Len(pools') = Len(pools) + 1
        /\ Len(pools) \in Nat
        /\ \A i \in 1..Len(pools) : pools'[i] = pools[i]
    BY <2>1, PoolAdded
  <2>3. \A i \in 1..Len(pools) : ~pools[i].open
    BY <1>2, <1>4, Threads DEF PoolInv, OpenPools
  <2>4. \A i \in 1..Len(pools') : pools'[i].open => i = executor'
    BY <2>1, <2>2, <2>3
  <2>5. executor' \in 0..Len(pools')
    BY <2>1, <2>2
  <2>6. holder' # Shutdown /\ \A t \in Save : holder' # t
    BY <1>2, Threads
  <2>7. QED
    BY <1>2, <2>2, <2>4, <2>5, <2>6 DEF PoolInv, Steady, OpenPools
<1>5. QED
  BY <1>3, <1>4

\* The caller looks at the pool it will use; it is not the one that retires.
LEMMA ReadKeepsPools ==
    ASSUME PoolInv, NEW s \in Save, ReadPool(s)
    PROVE  PoolInv'
<1>1. "submit" \in Elsewhere /\ pc[s] \in Elsewhere /\ Goto(s, "submit")
  BY DEF ReadPool, Elsewhere, PC, Calling, Holding
<1>2. Steady
  BY <1>1, Moves
<1>3. UNCHANGED <<goal, poolVars>> /\ ref' = [ref EXCEPT ![s] = executor]
  BY DEF ReadPool
<1>4. holder # s /\ executor \in Nat
  BY <1>1 DEF PoolInv, Elsewhere
<1>5. ref' \in [Save -> Nat] /\ \A t \in Save : t # s => ref'[t] = ref[t]
  BY <1>3, <1>4 DEF PoolInv
<1>6. OpenPools(pools, executor, holder)'
  BY <1>3, <1>4, <1>5 DEF PoolInv, OpenPools, poolVars
<1>7. QED
  BY <1>2, <1>3, <1>4, <1>5, <1>6 DEF PoolInv, Steady, poolVars

\* A caller's step before or after its submission.
LEMMA ProceedKeepsPools ==
    ASSUME PoolInv, NEW s \in Save, Proceed(s)
    PROVE  PoolInv'
<1>1. CASE Submit(s)
  <2>1. "watch" \in Elsewhere /\ pc[s] \in Elsewhere /\ Goto(s, "watch")
    BY <1>1 DEF Submit, Elsewhere, PC, Calling, Holding, Linking
  <2>2. Steady /\ UNCHANGED <<goal, ref, executor, workers, holder>>
    BY <1>1, <2>1, Moves DEF Submit
  <2>3. CASE ref[s] \in 1..Len(pools)
    <3>1. pools[ref[s]] \in Pool
      BY <2>3, ElementOfSeq DEF PoolInv
    <3>2. Append(pools[ref[s]].queue, s) \in Seq(Save)
      BY <3>1 DEF Pool
    <3>3. pools' = [pools EXCEPT ![ref[s]].queue = Append(pools[ref[s]].queue, s)]
      BY <1>1 DEF Submit
    <3>4. QED
      BY <2>2, <2>3, <3>2, <3>3, SameOpenPools
  <2>4. CASE ref[s] \notin 1..Len(pools)
    <3>1. pools' = pools
      BY <1>1, <2>4 DEF Submit, PoolInv
    <3>2. UNCHANGED <<goal, ref, pools, executor, workers, holder>>
      BY <2>2, <3>1
    <3>3. QED
      BY <2>2, <3>2 DEF PoolInv, Steady, OpenPools
  <2>5. QED
    BY <2>3, <2>4
<1>2. CASE \/ TakeSlot(s) \/ Refuse(s) \/ LookForPool(s)
           \/ SubmitRaises(s) \/ Watch(s) \/ Add(s) \/ Count(s)
  <2>1. UNCHANGED <<goal, ref, poolVars>>
    BY <1>2 DEF TakeSlot, Refuse, LookForPool, SubmitRaises, Watch, Add, Count
  <2>2. pc[s] \in Elsewhere /\ \E place \in Elsewhere : Goto(s, place)
    BY <1>2 DEF TakeSlot, Refuse, LookForPool, SubmitRaises, Watch, Add,
                Count, Elsewhere, PC, Calling, Holding, Linking
  <2>3. Steady
    BY <2>2, Moves
  <2>4. QED
    BY <2>1, <2>3, SamePools
<1>3. QED
  BY <1>1, <1>2, TuneKeepsPools, SetWorkersKeepsPools, ReplaceKeepsPools,
     RetireKeepsPools, CreateKeepsPools, ReadKeepsPools DEF Proceed

\* shutdown() closes the current pool under the lock, and forgets it.
LEMMA ShutdownKeepsPools ==
    ASSUME PoolInv, BeginShutdown \/ EndShutdown
    PROVE  PoolInv'
<1>1. /\ UNCHANGED <<pc, goal, ref, workers>> /\ executor # 0
      /\ executor \in 1..Len(pools) /\ pools \in Seq(Pool)
      /\ holder = Nobody \/ holder = Shutdown
      /\ holder' = Nobody \/ holder' = Shutdown
  BY DEF BeginShutdown, EndShutdown, callVars, PoolInv
<1>2. \A t \in Save : holder # t /\ holder' # t
  BY <1>1, Threads
<1>3. CASE BeginShutdown
  <2>1. /\ pools' \in Seq(Pool) /\ Len(pools') = Len(pools)
        /\ ~pools'[executor].open
        /\ \A i \in 1..Len(pools) : i # executor => pools'[i] = pools[i]
        /\ executor' = executor
    BY <1>1, <1>3, PoolOperations DEF BeginShutdown
  <2>2. \A i \in 1..Len(pools') : pools'[i].open => i = executor'
    BY <1>1, <1>2, <2>1 DEF PoolInv, OpenPools
  <2>3. executor' # 0 /\ ~pools'[executor'].open /\ executor' \in 0..Len(pools')
    BY <1>1, <2>1
  <2>4. QED
    BY <1>1, <1>2, <2>1, <2>2, <2>3 DEF PoolInv, OpenPools
<1>4. CASE EndShutdown
  <2>1. /\ pools' = pools /\ executor' = 0 /\ holder = Shutdown
        /\ holder' # Shutdown
    BY <1>4, Threads DEF EndShutdown
  <2>2. \A i \in 1..Len(pools) : ~pools[i].open
    BY <1>2, <2>1, Threads DEF PoolInv, OpenPools
  <2>3. executor' \in 0..Len(pools')
    BY <1>1, <2>1, LenProperties
  <2>4. QED
    BY <1>1, <1>2, <2>1, <2>2, <2>3 DEF PoolInv, OpenPools
<1>5. QED
  BY <1>3, <1>4

\* The invariant of the pools is inductive.
LEMMA PoolsAreKept == Spec => []PoolInv
<1>1. Init => PoolInv
  <2> SUFFICES ASSUME Init PROVE PoolInv
    OBVIOUS
  <2>1. pools \in Seq(Pool) /\ Len(pools) = 0 /\ executor = 0
    BY EmptySeq DEF Init
  <2>2. /\ workers \in Size /\ holder = Nobody
        /\ pc \in [Save -> PC] /\ goal \in [Save -> {0} \cup 1..MaxWorkers]
        /\ ref \in [Save -> Nat]
        /\ \A s \in Save : pc[s] = "new"
    BY DEF Init, PC, Size
  <2>3. executor \in 0..Len(pools) /\ 1..Len(pools) = {}
    BY <2>1
  <2>4. \A s \in Save : holder # s
    BY <2>2, Threads
  <2>5. holder # Shutdown
    BY <2>2, Threads
  <2>6. QED
    BY <2>1, <2>2, <2>3, <2>4, <2>5, Zenon DEF PoolInv, OpenPools
<1>2. PoolInv /\ [Next]_vars => PoolInv'
  <2> SUFFICES ASSUME PoolInv, [Next]_vars PROVE PoolInv'
    OBVIOUS
  <2>1. ASSUME NEW s \in Save, Call(s) PROVE PoolInv'
    <3>1. "tune" \in Elsewhere /\ pc[s] \in Elsewhere /\ Goto(s, "tune")
      BY <2>1 DEF Call, Elsewhere, PC, Calling
    <3>2. Steady
      BY <3>1, Moves
    <3>3. QED
      BY <2>1, <3>2, SamePools DEF Call
  <2>2. ASSUME NEW s \in Save, Run(s) PROVE PoolInv'
    <3>1. UNCHANGED <<callVars, poolVars>>
      BY <2>2 DEF Run, Finish, Callback
    <3>2. QED
      BY <3>1, SamePools DEF callVars, PoolInv, Steady
  <2>3. ASSUME NEW p \in DOMAIN pools, Start(p) PROVE PoolInv'
    <3>1. p \in 1..Len(pools) /\ pools \in Seq(Pool)
      BY <2>3, LenProperties DEF PoolInv
    <3>2. pools[p] \in Pool
      BY <3>1, ElementOfSeq
    <3>3. Tail(pools[p].queue) \in Seq(Save)
      BY <2>3, <3>2, HeadTailProperties DEF Start, Pool
    <3>4. /\ pools' = [pools EXCEPT ![p].queue = Tail(pools[p].queue)]
          /\ UNCHANGED <<callVars, executor, workers, holder>>
      BY <2>3 DEF Start
    <3>5. Steady /\ UNCHANGED <<goal, ref>>
      BY <3>4 DEF callVars, PoolInv, Steady
    <3>6. QED
      BY <3>1, <3>3, <3>4, <3>5, SameOpenPools
  <2>4. CASE BeginShutdown \/ EndShutdown
    BY <2>4, ShutdownKeepsPools
  <2>5. CASE UNCHANGED vars
    BY <2>5 DEF vars, callVars, poolVars, PoolInv, OpenPools
  <2>6. QED
    BY <2>1, <2>2, <2>3, <2>4, <2>5, ProceedKeepsPools DEF Next
<1>3. QED
  BY <1>1, <1>2, PTL DEF Spec

\* No pool is leaked: however many callers create and replace pools, and
\* whenever one is shut down, a pool that accepts work is the current one or is
\* about to be shut down by the caller that holds the lock.
THEOREM PoolsAreNotLeaked == Spec => []NoStrayPool
<1>1. PoolInv => NoStrayPool
  BY LenProperties DEF PoolInv, OpenPools, NoStrayPool, At
<1>2. QED
  BY <1>1, PoolsAreKept, PTL

-----------------------------------------------------------------------------

\* The saves that each counter counts.
Returned == At({"done"})
Ran == {s \in Save : callback[s] = "ran"}
Failed == {s \in Save : pc[s] = "lost" \/ fut[s] = "failed"}

\* The inductive invariant: each counter is the number of its saves, and how far
\* a future and its callback are agrees with where the caller is.
Linked == {"add", "count", "done"}
LinkInv == /\ SlotType
           /\ callback \in [Save -> {"none", "set", "ran"}]
           /\ \A s \in Save : /\ callback[s] # "none" <=> pc[s] \in Linked
                              /\ fut[s] # "none" <=> pc[s] \in Linked \cup {"watch"}
CountInv == /\ LinkInv
            /\ stats \in Stats
            /\ stats.submitted = Cardinality(Returned)
            /\ stats.completed = Cardinality(Ran)
            /\ stats.errors = Cardinality(Failed)

\* One more save is counted.
LEMMA OneMore ==
    ASSUME NEW S \in SUBSET Save, NEW s \in Save \ S
    PROVE  Cardinality(S) \in Nat /\ Cardinality(S \cup {s}) = Cardinality(S) + 1
<1>1. IsFiniteSet(S) /\ Cardinality(S) \in Nat
  BY SaveSets
<1>2. QED
  BY <1>1, FS_AddElement

\* Steps that count nothing leave the three sets of saves alone.
LEMMA NothingCounted ==
    ASSUME CountInv, LinkInv', Returned' = Returned, Ran' = Ran, Failed' = Failed,
           \/ UNCHANGED stats
           \/ Counted("rejected")
    PROVE  CountInv'
<1>1. CASE UNCHANGED stats
  BY <1>1 DEF CountInv
<1>2. CASE Counted("rejected")
  <2>1. /\ stats' \in Stats /\ stats'.submitted = stats.submitted
        /\ stats'.completed = stats.completed /\ stats'.errors = stats.errors
    BY <1>2 DEF CountInv, Counted, Stats
  <2>2. QED
    BY <2>1 DEF CountInv
<1>3. QED
  BY <1>1, <1>2

\* A caller that stays on its side of the submission.
LEMMA MoveKeepsCount ==
    ASSUME CountInv, NEW s \in Save, NEW place \in PC, Goto(s, place),
           UNCHANGED taskVars, pc[s] \notin Linked \cup {"watch", "lost"},
           place \notin Linked \cup {"watch", "lost"},
           UNCHANGED stats \/ Counted("rejected")
    PROVE  CountInv'
<1>1. LinkInv'
  BY DEF CountInv, LinkInv, SlotType, Goto, taskVars
<1>2. Returned' = Returned /\ Ran' = Ran /\ Failed' = Failed
  BY DEF CountInv, LinkInv, SlotType, Goto, taskVars, Returned, Ran, Failed, At, Linked
<1>3. QED
  BY <1>1, <1>2, NothingCounted

\* The callback of a save that is over runs, on the pool's thread or on the
\* caller's, and has not run before.
LEMMA CallbackIsCounted ==
    ASSUME CountInv, LinkInv', NEW s \in Save, callback[s] # "ran", RunCallback(s),
           Returned' = Returned, Failed' = Failed
    PROVE  CountInv'
<1>1. Ran' = Ran \cup {s} /\ s \in Save \ Ran /\ Ran \in SUBSET Save
  BY DEF RunCallback, Ran, CountInv, LinkInv
<1>2. Cardinality(Ran') = stats.completed + 1
  BY <1>1, OneMore DEF CountInv
<1>3. /\ stats' \in Stats /\ stats'.submitted = stats.submitted
      /\ stats'.completed = stats.completed + 1 /\ stats'.errors = stats.errors
  BY DEF CountInv, RunCallback, Counted, Stats
<1>4. QED
  BY <1>2, <1>3 DEF CountInv

\* A failure, of a task or of its submission, that was none before.
LEMMA FailureIsCounted ==
    ASSUME CountInv, LinkInv', NEW s \in Save, s \notin Failed,
           Failed' = Failed \cup {s}, Counted("errors"),
           Returned' = Returned, Ran' = Ran
    PROVE  CountInv'
<1>1. s \in Save \ Failed /\ Failed \in SUBSET Save
  BY DEF Failed
<1>2. Cardinality(Failed') = stats.errors + 1
  BY <1>1, OneMore DEF CountInv
<1>3. /\ stats' \in Stats /\ stats'.submitted = stats.submitted
      /\ stats'.completed = stats.completed /\ stats'.errors = stats.errors + 1
  BY DEF CountInv, Counted, Stats
<1>4. QED
  BY <1>2, <1>3 DEF CountInv

\* The steps of a caller.
LEMMA ProceedKeepsCount ==
    ASSUME CountInv, NEW s \in Save, Call(s) \/ Proceed(s)
    PROVE  CountInv'
<1> USE DEF Linked
<1>1. CASE \/ Call(s) \/ Tune(s) \/ SetWorkers(s) \/ Replace(s) \/ Retire(s)
           \/ TakeSlot(s) \/ Refuse(s)
           \/ LookForPool(s) \/ CreatePool(s) \/ ReadPool(s)
  <2>1. PICK place \in PC \ (Linked \cup {"watch", "lost"}) : Goto(s, place)
    BY <1>1 DEF Call, Tune, SetWorkers, Replace, Retire, TakeSlot, Refuse,
                LookForPool, CreatePool, ReadPool, PC, Calling, Holding
  <2>2. /\ pc[s] \notin Linked \cup {"watch", "lost"} /\ UNCHANGED taskVars
        /\ UNCHANGED stats \/ Counted("rejected")
    BY <1>1 DEF Call, Tune, SetWorkers, Replace, Retire, TakeSlot, Refuse,
                LookForPool, CreatePool, ReadPool
  <2>3. QED
    BY <2>1, <2>2, MoveKeepsCount
<1>2. CASE Submit(s)
  <2>1. LinkInv'
    BY <1>2 DEF Submit, Goto, CountInv, LinkInv, SlotType, FutureState, PC,
                Calling, Holding, Linking
  <2>2. Returned' = Returned /\ Ran' = Ran /\ Failed' = Failed
    BY <1>2 DEF Submit, Goto, CountInv, LinkInv, SlotType, Returned, Ran, Failed, At
  <2>3. QED
    BY <1>2, <2>1, <2>2, NothingCounted DEF Submit
<1>3. CASE SubmitRaises(s)
  <2>1. LinkInv'
    BY <1>3 DEF SubmitRaises, Goto, CountInv, LinkInv, SlotType, taskVars, PC
  <2>2. /\ s \notin Failed /\ Failed' = Failed \cup {s}
        /\ Returned' = Returned /\ Ran' = Ran
    BY <1>3 DEF SubmitRaises, Goto, CountInv, LinkInv, SlotType, taskVars,
                Returned, Ran, Failed, At
  <2>3. QED
    BY <1>3, <2>1, <2>2, FailureIsCounted DEF SubmitRaises
<1>4. CASE Watch(s)
  <2>1. LinkInv'
    BY <1>4 DEF Watch, RunCallback, Goto, CountInv, LinkInv, SlotType, PC, Calling,
                Holding, Linking
  <2>2. Returned' = Returned /\ Failed' = Failed /\ callback[s] = "none"
    BY <1>4 DEF Watch, Goto, CountInv, LinkInv, SlotType, Returned, Failed, At
  <2>3. CASE s \in Unfinished
    <3>1. Ran' = Ran /\ UNCHANGED stats
      BY <1>4, <2>2, <2>3 DEF Watch, CountInv, LinkInv, Ran
    <3>2. QED
      BY <2>1, <2>2, <3>1, NothingCounted
  <2>4. CASE s \notin Unfinished
    BY <1>4, <2>1, <2>2, <2>4, CallbackIsCounted DEF Watch
  <2>5. QED
    BY <2>3, <2>4
<1>5. CASE Add(s)
  <2>1. LinkInv'
    BY <1>5 DEF Add, Goto, CountInv, LinkInv, SlotType, PC, Calling
  <2>2. Returned' = Returned /\ Ran' = Ran /\ Failed' = Failed
    BY <1>5 DEF Add, Goto, CountInv, LinkInv, SlotType, Returned, Ran, Failed, At
  <2>3. QED
    BY <1>5, <2>1, <2>2, NothingCounted DEF Add
<1>6. CASE Count(s)
  <2>1. LinkInv'
    BY <1>6 DEF Count, Goto, CountInv, LinkInv, SlotType, taskVars, PC
  <2>2. /\ s \in Save \ Returned /\ Returned' = Returned \cup {s}
        /\ Ran' = Ran /\ Failed' = Failed /\ Returned \in SUBSET Save
    BY <1>6 DEF Count, Goto, CountInv, LinkInv, SlotType, taskVars, Returned, Ran,
                Failed, At
  <2>3. Cardinality(Returned') = stats.submitted + 1
    BY <2>2, OneMore DEF CountInv
  <2>4. /\ stats' \in Stats /\ stats'.submitted = stats.submitted + 1
        /\ stats'.completed = stats.completed /\ stats'.errors = stats.errors
    BY <1>6 DEF CountInv, Count, Counted, Stats
  <2>5. QED
    BY <2>1, <2>2, <2>3, <2>4 DEF CountInv
<1>7. QED
  BY <1>1, <1>2, <1>3, <1>4, <1>5, <1>6 DEF Proceed

\* The steps of the pools' threads.
LEMMA RunKeepsCount ==
    ASSUME CountInv, (\E s \in Save : Run(s)) \/ (\E p \in DOMAIN pools : Start(p))
    PROVE  CountInv'
<1>1. ASSUME NEW s \in Save, Finish(s) PROVE CountInv'
  <2>1. LinkInv' /\ Returned' = Returned /\ Ran' = Ran
    BY <1>1 DEF Finish, callVars, CountInv, LinkInv, SlotType, FutureState,
                Returned, Ran, At
  <2>2. CASE fut' = [fut EXCEPT ![s] = "saved"] /\ UNCHANGED stats
    <3>1. Failed' = Failed
      BY <1>1, <2>2 DEF Finish, callVars, CountInv, LinkInv, SlotType, Failed
    <3>2. QED
      BY <2>1, <2>2, <3>1, NothingCounted
  <2>3. CASE fut' = [fut EXCEPT ![s] = "failed"] /\ Counted("errors")
    <3>1. s \notin Failed /\ Failed' = Failed \cup {s}
      BY <1>1, <2>3 DEF Finish, callVars, CountInv, LinkInv, SlotType, Failed, Linked
    <3>2. QED
      BY <2>1, <2>3, <3>1, FailureIsCounted
  <2>4. QED
    BY <1>1, <2>2, <2>3 DEF Finish
<1>2. ASSUME NEW s \in Save, Callback(s) PROVE CountInv'
  <2>1. LinkInv'
    BY <1>2 DEF Callback, RunCallback, callVars, CountInv, LinkInv, SlotType
  <2>2. Returned' = Returned /\ Failed' = Failed /\ callback[s] # "ran"
    BY <1>2 DEF Callback, callVars, Returned, Failed, At
  <2>3. QED
    BY <1>2, <2>1, <2>2, CallbackIsCounted DEF Callback
<1>3. ASSUME NEW p \in DOMAIN pools, Start(p) PROVE CountInv'
  <2> DEFINE h == Head(pools[p].queue)
  <2>1. /\ fut[h] = "queued" /\ fut' = [fut EXCEPT ![h] = "running"]
        /\ UNCHANGED <<pc, callback, pending, stats>>
    BY <1>3 DEF Start, callVars
  <2> HIDE DEF h
  <2>2. /\ fut' \in [Save -> FutureState]
        /\ \A s \in Save : /\ fut'[s] # "none" <=> fut[s] # "none"
                           /\ fut'[s] = "failed" <=> fut[s] = "failed"
    BY <2>1 DEF CountInv, LinkInv, SlotType, FutureState
  <2>3. LinkInv' /\ Returned' = Returned /\ Ran' = Ran /\ Failed' = Failed
    BY <2>1, <2>2 DEF CountInv, LinkInv, SlotType, Returned, Ran, Failed, At
  <2>4. QED
    BY <2>1, <2>3, NothingCounted
<1>4. QED
  BY <1>1, <1>2, <1>3 DEF Run

\* The counters are inductive: no step is counted twice, and none is missed.
LEMMA CountsAreKept == Spec => []CountInv
<1>1. Init => CountInv
  <2> SUFFICES ASSUME Init PROVE CountInv
    OBVIOUS
  <2>1. LinkInv /\ stats \in Stats
    BY DEF Init, LinkInv, Linked, SlotType, FutureState, PC, Stats
  <2>2. Returned = {} /\ Ran = {} /\ Failed = {}
    BY DEF Init, Returned, Ran, Failed, At
  <2>3. stats.submitted = 0 /\ stats.completed = 0 /\ stats.errors = 0
    BY DEF Init
  <2>4. QED
    BY <2>1, <2>2, <2>3, FS_EmptySet DEF CountInv
<1>2. CountInv /\ [Next]_vars => CountInv'
  <2> SUFFICES ASSUME CountInv, [Next]_vars PROVE CountInv'
    OBVIOUS
  <2>1. CASE BeginShutdown \/ EndShutdown \/ UNCHANGED vars
    BY <2>1 DEF BeginShutdown, EndShutdown, vars, callVars, taskVars, CountInv,
                LinkInv, SlotType, Returned, Ran, Failed, At
  <2>2. QED
    BY <2>1, ProceedKeepsCount, RunKeepsCount DEF Next
<1>3. QED
  BY <1>1, <1>2, PTL DEF Spec

\* The statistics add up: when nothing is under way, every future returned has
\* been counted completed exactly once, and every failure once, whichever of
\* caller and pool thread ran the callback.
THEOREM StatsAddUp == Spec => []StatsBalance
<1>1. CountInv => StatsBalance
  <2> SUFFICES ASSUME CountInv, At(Calling) = {},
                      \A s \in Save : callback[s] # "set"
               PROVE  /\ stats.completed = stats.submitted
                      /\ stats.errors = Cardinality(Failed)
    BY DEF StatsBalance, Failed
  <2>1. Returned = Ran
    <3>1. \A s \in Save : pc[s] \in Linked => pc[s] = "done"
      BY DEF At, Calling, Holding, Linking, Linked
    <3>2. QED
      BY <3>1 DEF CountInv, LinkInv, Linked, Returned, Ran, At
  <2>2. QED
    BY <2>1 DEF CountInv
<1>2. QED
  BY <1>1, CountsAreKept, PTL

\* What the other invariants leave of the types.
RestInv == ref \in [Save -> Nat] /\ shutdowns \in 0..MaxShutdowns

\* Every variable keeps its type: the pool size stays within the limits of the
\* tuning, and a caller's pool is one that exists.
THEOREM TypesAreKept == Spec => []TypeOK
<1>1. Init => RestInv
  BY SizeAssumption DEF Init, RestInv
<1>2. PoolInv /\ RestInv /\ [Next]_vars => RestInv'
  <2> SUFFICES ASSUME PoolInv, RestInv, [Next]_vars PROVE RestInv'
    OBVIOUS
  <2>1. CASE BeginShutdown
    BY <2>1, SizeAssumption DEF BeginShutdown, callVars, RestInv
  <2>2. ASSUME NEW s \in Save, ReadPool(s) \/ Replace(s) PROVE RestInv'
    <3>1. executor \in Nat
      BY DEF PoolInv
    <3>2. QED
      BY <2>2, <3>1 DEF ReadPool, Replace, poolVars, RestInv
  <2>3. CASE UNCHANGED <<ref, shutdowns>>
    BY <2>3 DEF RestInv
  <2>4. ASSUME NEW s \in Save, Call(s) \/ Proceed(s) \/ Run(s),
               ~ReadPool(s), ~Replace(s)
        PROVE  UNCHANGED <<ref, shutdowns>>
    BY <2>4 DEF Call, Proceed, Run, Tune, SetWorkers, Retire, TakeSlot, Refuse,
         LookForPool, CreatePool, Submit, SubmitRaises, Watch, Add, Count, Finish,
         Callback, poolVars, callVars
  <2>5. CASE (\E p \in DOMAIN pools : Start(p)) \/ EndShutdown \/ UNCHANGED vars
    BY <2>3, <2>5 DEF Start, EndShutdown, vars, callVars, poolVars
  <2>6. QED
    BY <2>1, <2>2, <2>3, <2>4, <2>5 DEF Next
<1>3. PoolInv /\ CountInv /\ RestInv => TypeOK
  BY DEF PoolInv, CountInv, LinkInv, SlotType, RestInv, TypeOK, CallType, TaskType,
         PoolType
<1>4. QED
  BY <1>1, <1>2, <1>3, PoolsAreKept, CountsAreKept, PTL DEF Spec
=============================================================================
