-------------------------- MODULE ProxyPoolProofs --------------------------
(***************************************************************************)
(* Proofs about ProxyPool, for any endpoints, requests and groups.         *)
(***************************************************************************)
EXTENDS ProxyPool, RecursionLemmas, FiniteSetTheorems

-----------------------------------------------------------------------------
(* The topology.                                                            *)

\* Groups and removals are of groups that were created, and there are as many of
\* those as the bound allows.
TopoInv == /\ member \in Seq(MemberSeq) /\ Len(member) \leq MaxGroups
           /\ groups \subseteq DOMAIN member
           /\ pending \subseteq DOMAIN member

\* Handlers and threads that leave the groups alone, or make them fewer.
LEMMA FewerGroups ==
    ASSUME TopoInv, UNCHANGED member, groups' \subseteq groups,
           pending' \subseteq pending \cup groups
    PROVE  TopoInv'
  BY DEF TopoInv

\* The operations of the groups touch neither the topology nor the removals.
LEMMA FlagsOnly ==
    ASSUME NEW g
    PROVE  /\ Taint(g) => UNCHANGED pending
           /\ Untaint(g) => UNCHANGED pending
  BY DEF Taint, Untaint, flagVars

\* Steps that neither create nor remove a group.
Quiet == \/ \E r \in Request : RequestStep(r)
         \/ RunCallback
         \/ \E m \in Offered : AddKnown(m)
         \/ AddCheck \/ AddRestore \/ AddIsolate
         \/ Snapshot \/ NextWaiting \/ CheckMember \/ Restore
         \/ UntaintGroup \/ Forget \/ TakeActive \/ CheckActive \/ Down
         \/ Rewatch \/ EndRound \/ Fill \/ Sync
         \/ \E s \in Server : Flip(s)
         \/ UNCHANGED vars

\* A step leaves the topology alone, adds a group, retires some or removes some.
LEMMA StepKinds ==
    ASSUME [Next]_vars
    PROVE  \/ Quiet
           \/ \E m \in Offered : AddNew(m)
           \/ \E s \in Server : Retire(s) \/ RemoveNow(s)
           \/ RemovePending
  BY DEF Next, AdminStep, ListenerStep, Quiet

\* Where the topology is left alone, so are the pending removals.
LEMMA QuietKeepsTopology ==
    ASSUME Quiet
    PROVE  UNCHANGED <<topoVars, pending>>
<1>1. ASSUME NEW r \in Request, RequestStep(r) PROVE UNCHANGED <<topoVars, pending>>
  <2>1. CASE Break(r)
    BY <2>1, FlagsOnly DEF Break, flagVars
  <2>2. CASE ~Break(r)
    BY <1>1, <2>2 DEF RequestStep, Arrive, Vanish, Pick, Recheck, TimeOut, Select,
       Resolve, Finish, BreakWatch, flagVars
  <2>3. QED
    BY <2>1, <2>2
<1>2. CASE RunCallback \/ (\E m \in Offered : AddKnown(m)) \/ AddCheck
  BY <1>2 DEF RunCallback, AddKnown, AddCheck, flagVars
<1>3. CASE AddRestore \/ AddIsolate
  BY <1>3, FlagsOnly DEF AddRestore, AddIsolate, flagVars
<1>4. CASE \/ Snapshot \/ NextWaiting \/ CheckMember \/ Restore \/ Forget
           \/ TakeActive \/ CheckActive \/ Rewatch \/ EndRound \/ Fill \/ Sync
           \/ \E s \in Server : Flip(s)
           \/ UNCHANGED vars
  BY <1>4 DEF Snapshot, NextWaiting, CheckMember, Restore, Forget, TakeActive,
     CheckActive, Rewatch, EndRound, Fill, Sync, Flip, flagVars, vars
<1>5. CASE UntaintGroup \/ Down
  BY <1>5, FlagsOnly DEF UntaintGroup, Down, flagVars
<1>6. QED
  BY <1>1, <1>2, <1>3, <1>4, <1>5 DEF Quiet

\* Groups, members and places agree at any time.
LEMMA TopologyIsKept == Spec => []TopoInv
<1>1. Init => TopoInv
  BY GroupAssumption DEF Init, TopoInv
<1>2. TopoInv /\ [Next]_vars => TopoInv'
  <2> SUFFICES ASSUME TopoInv, [Next]_vars PROVE TopoInv'
    OBVIOUS
  <2>1. CASE Quiet
    BY <2>1, QuietKeepsTopology DEF topoVars, TopoInv
  <2>2. ASSUME NEW m \in Offered, AddNew(m) PROVE TopoInv'
    <3>1. /\ m \in MemberSeq /\ member' = Append(member, m) /\ UNCHANGED pending
          /\ groups' = groups \cup {Len(member) + 1} /\ Len(member) + 1 <= MaxGroups
      BY <2>2, GroupAssumption DEF AddNew
    <3>2. /\ member' \in Seq(MemberSeq) /\ Len(member') = Len(member) + 1
          /\ DOMAIN member' = 1..(Len(member) + 1) /\ DOMAIN member = 1..Len(member)
          /\ Len(member) \in Nat
      BY <3>1, AppendProperties, LenProperties DEF TopoInv
    <3>3. QED
      BY <3>1, <3>2 DEF TopoInv
  <2>3. ASSUME NEW s \in Server, Retire(s) \/ RemoveNow(s) PROVE TopoInv'
    BY <2>3, FewerGroups DEF Retire, RemoveNow, Drop, Owner, topoVars
  <2>4. CASE RemovePending
    BY <2>4, FewerGroups DEF RemovePending, Drop, topoVars, flagVars
  <2>5. QED
    BY <2>1, <2>2, <2>3, <2>4, StepKinds
<1>3. QED
  BY <1>1, <1>2, PTL DEF Spec

-----------------------------------------------------------------------------
(* No lost wake-up.                                                         *)

\* The invariant is inductive as it stands: a request begins to wait where it
\* has found nothing to select, and whoever makes a group selectable wakes it,
\* or holds the lock until it has left word for the event loop.
WaitInv == rpc \in [Request -> RequestPC] /\ WaiterIsAnnounced

\* Nobody waits while a group can be selected.
NoneWaits == Selectable # {} => \A r \in Request : rpc[r] # "waiting"

\* After an announcement nobody waits.
LEMMA AnnouncementWakes ==
    ASSUME NEW rp \in [Request -> RequestPC], Announce(groups', rp)
    PROVE  rpc' \in [Request -> RequestPC] /\ NoneWaits'
<1>1. Woken(rp) \in [Request -> RequestPC]
      /\ \A r \in Request : Woken(rp)[r] # "waiting"
  BY DEF Woken, RequestPC
<1>2. QED
  BY <1>1 DEF Announce, NoneWaits, Selectable

\* A request moves, and does not begin to wait; the groups stay as they are, and
\* so does what the listener is about to tell.
LEMMA RequestMoves ==
    ASSUME WaitInv, NEW r \in Request, NEW place \in RequestPC \ {"waiting"},
           rpc' = [rpc EXCEPT ![r] = place],
           UNCHANGED <<groups, tainted, pending, callback, lpc>>
    PROVE  WaitInv'
  BY DEF WaitInv, WaiterIsAnnounced, Available, LockFree, Selectable

\* WaitInv depends on nothing but these variables.
LEMMA NobodyMoves ==
    ASSUME WaitInv, UNCHANGED <<groups, tainted, pending, callback, lpc, rpc>>
    PROVE  WaitInv'
  BY DEF WaitInv, WaiterIsAnnounced, Available, LockFree, Selectable

\* The listener works on, without the groups; it holds the lock after as before.
LEMMA ListenerMoves ==
    ASSUME WaitInv, UNCHANGED <<groups, tainted, pending, callback, rpc>>,
           lpc # "fill", lpc # "sync"
    PROVE  WaitInv'
  BY DEF WaitInv, WaiterIsAnnounced, Available, LockFree, Selectable

\* A request that starts to wait has found no selectable group,
LEMMA RequestKeepsWaiters ==
    ASSUME WaitInv, NEW r \in Request, RequestStep(r)
    PROVE  WaitInv'
<1> USE DEF topoVars, flagVars, eventVars, lisVars, RequestPC
<1>1. CASE Arrive(r) \/ Vanish(r) \/ Select(r) \/ Resolve(r) \/ Finish(r) \/ BreakWatch(r)
  <2>1. PICK place \in RequestPC \ {"waiting"} : rpc' = [rpc EXCEPT ![r] = place]
    BY <1>1 DEF Arrive, Vanish, Select, Resolve, Finish, BreakWatch
  <2>2. UNCHANGED <<groups, tainted, pending, callback, lpc>>
    BY <1>1 DEF Arrive, Vanish, Select, Resolve, Finish, BreakWatch
  <2>3. QED
    BY <2>1, <2>2, RequestMoves
<1>2. CASE Pick(r) \/ TimeOut(r)
  <2>1. PICK place \in RequestPC \ {"waiting"} : rpc' = [rpc EXCEPT ![r] = place]
    BY <1>2 DEF Pick, TimeOut
  <2>2. UNCHANGED <<groups, tainted, pending, callback, lpc>>
    BY <1>2 DEF Pick, TimeOut
  <2>3. QED
    BY <2>1, <2>2, RequestMoves
<1>3. CASE Recheck(r)
  <2>1. UNCHANGED <<groups, tainted, pending, callback, lpc>>
    BY <1>3 DEF Recheck
  <2>2. CASE Available
    BY <1>3, <2>1, <2>2 DEF Recheck, Woken, WaitInv, WaiterIsAnnounced
  <2>3. CASE ~Available
    BY <1>3, <2>1, <2>3 DEF Recheck, WaitInv, WaiterIsAnnounced, Available,
                            LockFree, Selectable
  <2>4. QED
    BY <2>2, <2>3
<1>4. CASE Break(r)
  <2>1. UNCHANGED <<groups, lpc>>
    BY <1>4 DEF Break
  <2>2. CASE UNCHANGED <<flagVars, eventVars>> /\ rpc' = [rpc EXCEPT ![r] = "watch"]
    BY <2>1, <2>2, RequestMoves
  <2>3. CASE Announce(groups, [rpc EXCEPT ![r] = "watch"])
    <3>1. [rpc EXCEPT ![r] = "watch"] \in [Request -> RequestPC]
      BY DEF WaitInv
    <3>2. rpc' \in [Request -> RequestPC] /\ NoneWaits'
      BY <2>1, <2>3, <3>1, AnnouncementWakes
    <3>3. QED
      BY <3>2 DEF WaitInv, WaiterIsAnnounced, Available, NoneWaits
  <2>4. QED
    BY <1>4, <2>2, <2>3 DEF Break, Taint
<1>5. QED
  BY <1>1, <1>2, <1>3, <1>4 DEF RequestStep

\* the event loop announces the groups it makes selectable at once,
LEMMA OperatorKeepsWaiters ==
    ASSUME WaitInv, RunCallback \/ AdminStep
    PROVE  WaitInv'
<1> USE DEF topoVars, flagVars, eventVars, lisVars, reqVars
<1>1. CASE RunCallback
  BY <1>1 DEF RunCallback, WaitInv, WaiterIsAnnounced, Available, LockFree,
              Selectable, Woken, RequestPC
<1>2. CASE AddCheck \/ \E m \in Offered : AddKnown(m)
  BY <1>2, NobodyMoves DEF AddCheck, AddKnown
<1>3. ASSUME Announce(groups', rpc) PROVE WaitInv'
  BY <1>3, AnnouncementWakes DEF WaitInv, WaiterIsAnnounced, Available, NoneWaits
<1>4. ASSUME NEW m \in Offered, AddNew(m) PROVE WaitInv'
  BY <1>3, <1>4 DEF AddNew
<1>5. CASE AddRestore \/ AddIsolate
  <2>1. UNCHANGED <<groups, lpc>>
    BY <1>5 DEF AddRestore, AddIsolate
  <2>2. Announce(groups, rpc) \/ UNCHANGED <<tainted, pending, callback, rpc>>
    BY <1>5 DEF AddRestore, AddIsolate, Taint
  <2>3. QED
    BY <1>3, <2>1, <2>2, NobodyMoves
<1>6. ASSUME NEW s \in Server, Retire(s) PROVE WaitInv'
  BY <1>3, <1>6 DEF Retire
<1>7. ASSUME NEW s \in Server, RemoveNow(s) PROVE WaitInv'
  <2>1. PICK g \in Owner(groups, s) :
          /\ Drop({g})
          /\ rpc' = IF Selectable \ {g} # {} THEN Woken(rpc) ELSE rpc
    BY <1>7 DEF RemoveNow
  <2>2. Selectable' = Selectable \ {g}
    BY <2>1 DEF Drop, Selectable
  <2>3. rpc' \in [Request -> RequestPC] /\ NoneWaits'
    BY <2>1, <2>2 DEF WaitInv, Woken, NoneWaits, RequestPC
  <2>4. QED
    BY <2>3 DEF WaitInv, WaiterIsAnnounced, Available, NoneWaits
<1>8. QED
  BY <1>1, <1>2, <1>4, <1>5, <1>6, <1>7 DEF AdminStep

\* and the listener on its way to Sync.
LEMMA ListenerKeepsWaiters ==
    ASSUME WaitInv, ListenerStep
    PROVE  WaitInv'
<1> USE DEF topoVars, flagVars, eventVars, reqVars
<1>1. CASE \/ Snapshot \/ NextWaiting \/ CheckMember \/ Restore \/ Forget
           \/ TakeActive \/ CheckActive \/ Rewatch \/ EndRound
  BY <1>1, ListenerMoves DEF Snapshot, NextWaiting, CheckMember, Restore, Forget,
     TakeActive, CheckActive, Rewatch, EndRound
<1>2. CASE UntaintGroup \/ Down \/ RemovePending
  <2>1. UNCHANGED <<callback, rpc>>
    BY <1>2 DEF UntaintGroup, Down, RemovePending
  <2>2. lpc' = "fill" \/ UNCHANGED <<groups, tainted, pending>>
    BY <1>2 DEF UntaintGroup, Down, RemovePending, Taint
  <2>3. lpc # "fill" /\ lpc # "sync"
    BY <1>2 DEF UntaintGroup, Down, RemovePending
  <2>4. CASE lpc' = "fill"
    BY <2>1, <2>4 DEF WaitInv, WaiterIsAnnounced, Available, LockFree
  <2>5. QED
    BY <2>1, <2>2, <2>3, <2>4, ListenerMoves
<1>3. CASE Fill \/ Sync
  BY <1>3 DEF Fill, Sync, WaitInv, WaiterIsAnnounced
<1>4. QED
  BY <1>1, <1>2, <1>3 DEF ListenerStep

\* No wake-up is lost: while a request sleeps on the event although a group can
\* be selected, the event loop has been told or is about to be.
THEOREM WaitersAreTold == Spec => []WaiterIsAnnounced
<1>1. Init => WaitInv
  BY DEF Init, WaitInv, WaiterIsAnnounced, RequestPC
<1>2. WaitInv /\ [Next]_vars => WaitInv'
  <2> SUFFICES ASSUME WaitInv, [Next]_vars PROVE WaitInv'
    OBVIOUS
  <2>1. CASE (\E s \in Server : Flip(s)) \/ UNCHANGED vars
    BY <2>1, NobodyMoves DEF Flip, vars, topoVars, flagVars, eventVars, reqVars,
                             lisVars
  <2>2. QED
    BY <2>1, RequestKeepsWaiters, OperatorKeepsWaiters, ListenerKeepsWaiters DEF Next
<1>3. WaitInv => WaiterIsAnnounced
  BY DEF WaitInv
<1>4. QED
  BY <1>1, <1>2, <1>3, PTL DEF Spec

-----------------------------------------------------------------------------
(* The count of requests.                                                   *)

\* The requests that request_num counts, the one that was never iterated
\* included.
Counted == {r \in Request : rpc[r] \notin {"new", "done"}}
CountInv == /\ rpc \in [Request -> RequestPC]
            /\ requestNum = Cardinality(Counted)
            /\ shifted \in BOOLEAN

\* Sets of requests are finite; a request more or less counts one.
LEMMA RequestSets ==
    ASSUME NEW S \in SUBSET Request, NEW r \in Request
    PROVE  /\ IsFiniteSet(S) /\ Cardinality(S) \in Nat
           /\ Cardinality(S \cup {r}) = IF r \in S THEN Cardinality(S)
                                                   ELSE Cardinality(S) + 1
           /\ Cardinality(S \ {r}) = IF r \in S THEN Cardinality(S) - 1
                                                ELSE Cardinality(S)
<1>1. IsFiniteSet(S)
  BY RequestAssumption, FS_Subset
<1>2. QED
  BY <1>1, FS_CardinalityType, FS_AddElement, FS_RemoveElement

\* Whoever is woken was counted and still is.
LEMMA SameCount ==
    ASSUME CountInv, rpc' \in [Request -> RequestPC], UNCHANGED requestNum,
           shifted' \in BOOLEAN,
           \A r \in Request : rpc'[r] \in {"new", "done"} <=> rpc[r] \in {"new", "done"}
    PROVE  CountInv'
  BY DEF CountInv, Counted

\* A request arrives, or is over: its generator adds it to the count and takes
\* it off again.
LEMMA RequestKeepsCount ==
    ASSUME CountInv, NEW r \in Request, RequestStep(r)
    PROVE  CountInv'
<1> USE DEF RequestPC, histVars
<1>1. UNCHANGED shifted
  BY DEF RequestStep, Arrive, Vanish, Pick, Recheck, TimeOut, Select, Resolve,
         Finish, Break, BreakWatch
<1>2. CASE Arrive(r) \/ Vanish(r)
  <2>1. /\ rpc[r] = "new" /\ requestNum' = requestNum + 1
        /\ \E place \in {"pick", "lost"} : rpc' = [rpc EXCEPT ![r] = place]
    BY <1>2 DEF Arrive, Vanish
  <2>2. Counted' = Counted \cup {r} /\ r \notin Counted
    BY <2>1 DEF CountInv, Counted
  <2>3. Cardinality(Counted') = Cardinality(Counted) + 1
    BY <2>2, RequestSets DEF Counted
  <2>4. QED
    BY <1>1, <2>1, <2>3 DEF CountInv
<1>3. ASSUME rpc' = [rpc EXCEPT ![r] = "done"], requestNum' = requestNum - 1,
             rpc[r] \notin {"new", "done"}
      PROVE  CountInv'
  <2>1. Counted' = Counted \ {r} /\ r \in Counted
    BY <1>3 DEF CountInv, Counted
  <2>2. Cardinality(Counted') = Cardinality(Counted) - 1
    BY <2>1, RequestSets DEF Counted
  <2>3. QED
    BY <1>1, <1>3, <2>2 DEF CountInv
<1>4. ASSUME UNCHANGED requestNum, rpc[r] \notin {"new", "done"},
             NEW place \in RequestPC \ {"new", "done"},
             rpc' = [rpc EXCEPT ![r] = place]
      PROVE  CountInv'
  BY <1>1, <1>4, SameCount DEF CountInv
<1>5. CASE TimeOut(r) \/ Resolve(r)
  <2>1. rpc[r] \notin {"new", "done"}
    BY <1>5 DEF TimeOut, Resolve
  <2>2. \/ rpc' = [rpc EXCEPT ![r] = "done"] /\ requestNum' = requestNum - 1
        \/ \E place \in {"pick", "active"} : /\ rpc' = [rpc EXCEPT ![r] = place]
                                             /\ UNCHANGED requestNum
    BY <1>5 DEF TimeOut, Resolve
  <2>3. QED
    BY <1>3, <1>4, <2>1, <2>2
<1>6. CASE Finish(r)
  BY <1>3, <1>6 DEF Finish
<1>7. CASE Pick(r) \/ Select(r) \/ BreakWatch(r)
  <2>1. /\ UNCHANGED requestNum /\ rpc[r] \notin {"new", "done"}
        /\ \E place \in RequestPC \ {"new", "done"} : rpc' = [rpc EXCEPT ![r] = place]
    BY <1>7 DEF Pick, Select, BreakWatch
  <2>2. QED
    BY <1>4, <2>1
<1>8. CASE Recheck(r)
  <2>1. UNCHANGED requestNum /\ rpc[r] = "recheck"
    BY <1>8 DEF Recheck
  <2>2. rpc' = [Woken(rpc) EXCEPT ![r] = "pick"] \/ rpc' = [rpc EXCEPT ![r] = "waiting"]
    BY <1>8 DEF Recheck
  <2>3. QED
    BY <1>1, <2>1, <2>2, SameCount DEF CountInv, Woken
<1>9. CASE Break(r)
  <2>1. UNCHANGED requestNum /\ rpc[r] = "active"
    BY <1>9 DEF Break
  <2>2. \/ rpc' = [rpc EXCEPT ![r] = "watch"]
        \/ rpc' = Woken([rpc EXCEPT ![r] = "watch"])
    BY <1>9 DEF Break, Announce
  <2>3. QED
    BY <1>1, <2>1, <2>2, SameCount DEF CountInv, Woken
<1>10. QED
  BY <1>2, <1>5, <1>6, <1>7, <1>8, <1>9 DEF RequestStep

\* Everyone else leaves the count alone.
LEMMA OthersKeepCount ==
    ASSUME CountInv, \/ RunCallback \/ AdminStep \/ ListenerStep
                     \/ \E s \in Server : Flip(s)
                     \/ UNCHANGED vars
    PROVE  CountInv'
<1> USE DEF histVars, reqVars
<1>1. UNCHANGED requestNum
  BY DEF RunCallback, AdminStep, AddKnown, AddNew, AddCheck, AddRestore, AddIsolate,
     Retire, RemoveNow, ListenerStep, Snapshot, NextWaiting, CheckMember, Restore,
     UntaintGroup, Forget, TakeActive, CheckActive, Down, Rewatch, EndRound,
     RemovePending, Fill, Sync, Flip, vars
<1>2. rpc' = rpc \/ rpc' = Woken(rpc)
  <2>1. CASE RunCallback \/ AdminStep
    BY <2>1 DEF RunCallback, AdminStep, AddKnown, AddNew, AddCheck, AddRestore,
       AddIsolate, Retire, RemoveNow, Announce
  <2>2. CASE ListenerStep \/ (\E s \in Server : Flip(s)) \/ UNCHANGED vars
    BY <2>2 DEF ListenerStep, Snapshot, NextWaiting, CheckMember, Restore,
       UntaintGroup, Forget, TakeActive, CheckActive, Down, Rewatch, EndRound,
       RemovePending, Fill, Sync, Flip, vars
  <2>3. QED
    BY <2>1, <2>2
<1>3. shifted' \in BOOLEAN
  <2>1. UNCHANGED shifted \/ shifted' = (shifted \/ Held # {})
    BY DEF RunCallback, AdminStep, AddKnown, AddNew, AddCheck, AddRestore,
       AddIsolate, Retire, RemoveNow, ListenerStep, Snapshot, NextWaiting,
       CheckMember, Restore, UntaintGroup, Forget, TakeActive, CheckActive, Down,
       Rewatch, EndRound, RemovePending, Fill, Sync, Flip, vars, Drop
  <2>2. QED
    BY <2>1 DEF CountInv
<1>4. QED
  BY <1>1, <1>2, <1>3, SameCount DEF CountInv, Woken, RequestPC

\* A group's count is the number of the requests counted for it.
LEMMA CountIsKept == Spec => []CountInv
<1>1. Init => CountInv
  <2> SUFFICES ASSUME Init PROVE CountInv
    OBVIOUS
  <2>1. Counted = {}
    BY DEF Init, Counted
  <2>2. QED
    BY <2>1, FS_EmptySet DEF Init, CountInv, RequestPC
<1>2. CountInv /\ [Next]_vars => CountInv'
  BY RequestKeepsCount, OthersKeepCount DEF Next
<1>3. QED
  BY <1>1, <1>2, PTL DEF Spec

\* The operator's removal of a group moves no index that a request holds: it
\* finds the count at zero only when no request is under way. Only the
\* listener, which reads the count earlier, can.
THEOREM OperatorShiftsNothing == Spec => ShiftedByTheListener
<1>1. CountInv /\ [Next]_vars => [shifted' # shifted => lpc = "remove"]_vars
  <2> SUFFICES ASSUME CountInv, Next PROVE shifted' # shifted => lpc = "remove"
    OBVIOUS
  <2> USE DEF histVars
  <2>1. ASSUME NEW s \in Server, RemoveNow(s) PROVE UNCHANGED shifted
    <3>1. Counted = {}
      <4>1. IsFiniteSet(Counted)
        BY RequestAssumption, FS_Subset DEF Counted
      <4>2. QED
        BY <2>1, <4>1, FS_EmptySet DEF RemoveNow, CountInv
    <3>2. Held = {}
      BY <3>1 DEF Counted, Held
    <3>3. QED
      BY <2>1, <3>2 DEF RemoveNow, Drop, CountInv
  <2>2. CASE ListenerStep
    BY <2>2 DEF ListenerStep, Snapshot, NextWaiting, CheckMember, Restore,
       UntaintGroup, Forget, TakeActive, CheckActive, Down, Rewatch, EndRound,
       RemovePending, Fill, Sync
  <2>3. CASE \/ RunCallback \/ (\E m \in Offered : AddKnown(m) \/ AddNew(m))
             \/ AddCheck \/ AddRestore \/ AddIsolate
             \/ \E s \in Server : Retire(s) \/ Flip(s)
    BY <2>3 DEF RunCallback, AddKnown, AddNew, AddCheck, AddRestore, AddIsolate,
       Retire, Flip
  <2>4. ASSUME NEW r \in Request, RequestStep(r) PROVE UNCHANGED shifted
    BY <2>4 DEF RequestStep, Arrive, Vanish, Pick, Recheck, TimeOut, Select, Resolve,
       Finish, Break, BreakWatch
  <2>5. QED
    BY <2>1, <2>2, <2>3, <2>4 DEF Next, AdminStep
<1>2. QED
  BY <1>1, CountIsKept, PTL DEF Spec, ShiftedByTheListener

-----------------------------------------------------------------------------
(* The watch of isolated groups.                                            *)

\* The invariant is inductive as it stands, with the types of the requests.
WatchInv == /\ rpc \in [Request -> RequestPC]
            /\ obj \in [Request -> Object \cup {None}]
            /\ UnwatchedWasForgotten

\* What a step must not do: let go of an isolated group that nobody watches.
Minded(g) == g \in pending \cup watching \cup dropped \/ Attended(g)

\* A group stays minded if it was, or is when it becomes isolated.
LEMMA MindedStays ==
    ASSUME WatchInv, rpc' \in [Request -> RequestPC],
           obj' \in [Request -> Object \cup {None}],
           \A g \in groups' : g \in tainted' => g \in groups \cap tainted \/ Minded(g)',
           \A g \in groups' : g \in tainted' /\ Minded(g) => Minded(g)'
    PROVE  WatchInv'
  BY DEF WatchInv, UnwatchedWasForgotten, Unattended, Minded

\* A request lets go of a group only when it has had it watched.
LEMMA RequestKeepsWatch ==
    ASSUME WatchInv, TopoInv, NEW r \in Request, RequestStep(r)
    PROVE  WatchInv'
<1> USE DEF topoVars, flagVars, admVars, lisVars, workVars, watchVars, histVars,
            RequestPC
<1>1. CASE \/ Arrive(r) \/ Vanish(r) \/ Pick(r) \/ Recheck(r) \/ TimeOut(r)
           \/ Select(r) \/ Resolve(r) \/ Finish(r)
  <2>1. /\ UNCHANGED <<topoVars, flagVars, apc, ag, lisVars, watchVars, histVars>>
        /\ rpc[r] # "watch"
    BY <1>1 DEF Arrive, Vanish, Pick, Recheck, TimeOut, Select, Resolve, Finish
  <2>2. /\ rpc' \in [Request -> RequestPC]
        /\ \A q \in Request : rpc[q] = "watch" => rpc'[q] = "watch"
    BY <1>1 DEF Arrive, Vanish, Pick, Recheck, TimeOut, Select, Resolve, Finish,
                Woken, WatchInv
  <2>3. /\ obj' \in [Request -> Object \cup {None}]
        /\ \A q \in Request \ {r} : obj'[q] = obj[q]
    BY <1>1 DEF Arrive, Vanish, Pick, Recheck, TimeOut, Select, Resolve, Finish,
                WatchInv
  <2>4. \A g : Attended(g) => Attended(g)'
    BY <2>1, <2>2, <2>3 DEF Attended
  <2>5. QED
    BY <2>1, <2>2, <2>3, <2>4, MindedStays DEF Minded
<1>2. CASE Break(r)
  <2>1. /\ UNCHANGED <<topoVars, apc, ag, lisVars, watchVars, histVars>>
        /\ rpc[r] = "active"
    BY <1>2 DEF Break
  <2>2. /\ rpc' \in [Request -> RequestPC] /\ rpc'[r] = "watch"
        /\ \A q \in Request : rpc[q] = "watch" => rpc'[q] = "watch"
    BY <1>2 DEF Break, Announce, Woken, WatchInv
  <2>3. CASE obj' = [obj EXCEPT ![r] = None] /\ UNCHANGED flagVars
    <3>1. /\ obj' \in [Request -> Object \cup {None}]
          /\ \A q \in Request \ {r} : obj'[q] = obj[q]
      BY <2>3 DEF WatchInv
    <3>2. \A g : Attended(g) => Attended(g)'
      BY <2>1, <2>2, <3>1 DEF Attended
    <3>3. QED
      BY <2>1, <2>2, <2>3, <3>1, <3>2, MindedStays DEF Minded
  <2>4. ASSUME NEW g \in Owner(groups, obj[r][2]), Taint(g),
               obj' = [obj EXCEPT ![r] = <<g, obj[r][2]>>]
        PROVE  WatchInv'
    <3> DEFINE o == <<g, obj[r][2]>>
    <3>1. o \in Object /\ o # None /\ o[1] = g
      <4>1. g \in DOMAIN member /\ obj[r][2] \in Members(g)
        BY <2>4 DEF Owner, TopoInv
      <4>2. member \in Seq(MemberSeq) /\ Len(member) \in Nat /\ Len(member) <= MaxGroups
        BY DEF TopoInv
      <4>3. g \in GroupId /\ member[g] \in MemberSeq
        BY <4>1, <4>2, ElementOfSeq, LenProperties, BoundAssumption DEF GroupId
      <4>4. obj[r][2] \in Server
        BY <4>1, <4>3 DEF Members, MemberSeq
      <4>5. QED
        BY <4>3, <4>4, ServerAssumption DEF Object
    <3>2. obj' = [obj EXCEPT ![r] = o]
      BY <2>4
    <3> HIDE DEF o
    <3>3. /\ obj' \in [Request -> Object \cup {None}] /\ obj'[r] = o
          /\ \A q \in Request \ {r} : obj'[q] = obj[q]
      BY <3>1, <3>2 DEF WatchInv
    <3>4. \A h : Attended(h) => Attended(h)'
      BY <2>1, <2>2, <3>3 DEF Attended
    <3>5. Attended(g)'
      BY <2>2, <3>1, <3>3 DEF Attended
    <3>6. /\ tainted' \subseteq tainted \cup {g} /\ UNCHANGED pending
      BY <2>4 DEF Taint
    <3>7. QED
      BY <2>1, <2>2, <3>3, <3>4, <3>5, <3>6, MindedStays DEF Minded
  <2>5. QED
    BY <1>2, <2>3, <2>4 DEF Break
<1>3. CASE BreakWatch(r)
  <2>1. /\ UNCHANGED <<topoVars, flagVars, apc, ag, lisVars, histVars>>
        /\ rpc' = [rpc EXCEPT ![r] = "pick"] /\ obj' = [obj EXCEPT ![r] = None]
        /\ rpc[r] = "watch"
    BY <1>3 DEF BreakWatch
  <2>2. /\ rpc' \in [Request -> RequestPC] /\ obj' \in [Request -> Object \cup {None}]
        /\ \A q \in Request \ {r} : obj'[q] = obj[q] /\ rpc'[q] = rpc[q]
    BY <2>1 DEF WatchInv
  <2>3. /\ watching \subseteq watching'
        /\ obj[r] # None => obj[r][1] \in watching' \cup pending
    BY <1>3 DEF BreakWatch, Watch
  <2>4. \A g : Attended(g) => Attended(g)' \/ g \in watching' \cup pending
    BY <2>1, <2>2, <2>3 DEF Attended
  <2>5. QED
    BY <2>1, <2>2, <2>3, <2>4, MindedStays DEF Minded
<1>4. QED
  BY <1>1, <1>2, <1>3 DEF RequestStep

\* The operator's handler has isolated groups watched before it ends.
LEMMA OperatorKeepsWatch ==
    ASSUME WatchInv, RunCallback \/ AdminStep
    PROVE  WatchInv'
<1> USE DEF topoVars, flagVars, admVars, lisVars, workVars, watchVars, histVars,
            eventVars, reqVars
<1>1. /\ rpc' \in [Request -> RequestPC] /\ UNCHANGED obj
      /\ \A q \in Request : rpc[q] = "watch" => rpc'[q] = "watch"
  <2>1. rpc' = rpc \/ rpc' = Woken(rpc)
    BY DEF RunCallback, AdminStep, AddKnown, AddNew, AddCheck, AddRestore,
       AddIsolate, Retire, RemoveNow, Announce
  <2>2. UNCHANGED obj
    BY DEF RunCallback, AdminStep, AddKnown, AddNew, AddCheck, AddRestore,
       AddIsolate, Retire, RemoveNow
  <2>3. QED
    BY <2>1, <2>2 DEF Woken, WatchInv, RequestPC
<1>2. UNCHANGED <<lpc, lret, lg, dropped>>
  BY DEF RunCallback, AdminStep, AddKnown, AddNew, AddCheck, AddRestore,
     AddIsolate, Retire, RemoveNow
<1>3. /\ obj' \in [Request -> Object \cup {None}]
      /\ \A g : Attended(g) => Attended(g)' \/ (apc # "idle" /\ ag = g)
  BY <1>1, <1>2 DEF Attended, WatchInv
<1>4. CASE RunCallback \/ AddCheck
  <2>1. UNCHANGED <<topoVars, flagVars, watching, ag>>
    BY <1>4 DEF RunCallback, AddCheck
  <2>2. apc # "idle" => apc' # "idle"
    BY <1>4 DEF RunCallback, AddCheck
  <2>3. \A g : Attended(g) => Attended(g)'
    BY <1>3, <2>1, <2>2 DEF Attended
  <2>4. QED
    BY <1>1, <1>2, <1>3, <2>1, <2>3, MindedStays DEF Minded
<1>5. ASSUME NEW m \in Offered, AddKnown(m) \/ AddNew(m) PROVE WatchInv'
  <2>1. PICK g : g = ag'
    OBVIOUS
  <2>2. /\ apc = "idle" /\ apc' # "idle" /\ UNCHANGED <<pending, watching>>
        /\ \/ UNCHANGED <<groups, tainted>>
           \/ groups' = groups \cup {g} /\ tainted' = tainted \cup {g}
    BY <1>5, <2>1 DEF AddKnown, AddNew, LoopFree
  <2>3. Minded(g)'
    BY <2>1, <2>2 DEF Attended, Minded
  <2>4. \A h : Minded(h) => Minded(h)'
    BY <1>2, <1>3, <2>2 DEF Minded
  <2>5. \A h \in groups' : h \in tainted' => h \in groups \cap tainted \/ Minded(h)'
    BY <2>2, <2>3
  <2>6. QED
    BY <1>1, <1>3, <2>4, <2>5, MindedStays
<1>6. CASE AddRestore
  <2>1. /\ UNCHANGED <<groups, pending, watching>>
        /\ ag \in pending \/ ag \notin tainted'
        /\ tainted' \subseteq tainted
    BY <1>6 DEF AddRestore, Untaint
  <2>2. QED
    BY <1>1, <1>2, <1>3, <2>1, MindedStays DEF Minded
<1>7. CASE AddIsolate
  <2>1. /\ UNCHANGED <<groups, pending>> /\ watching \subseteq watching'
        /\ ag \in watching' \cup pending /\ tainted' \subseteq tainted \cup {ag}
    BY <1>7 DEF AddIsolate, Taint, Watch
  <2>2. QED
    BY <1>1, <1>2, <1>3, <2>1, MindedStays DEF Minded
<1>8. ASSUME NEW s \in Server, Retire(s) PROVE WatchInv'
  <2>1. PICK g : /\ tainted' = tainted \cup {g} /\ pending' = pending \cup {g}
                 /\ watching' = watching \ {g}
    BY <1>8 DEF Retire
  <2>2. UNCHANGED <<groups, apc, ag>>
    BY <1>8 DEF Retire
  <2>3. \A h : Attended(h) => Attended(h)'
    BY <1>3, <2>2 DEF Attended
  <2>4. QED
    BY <1>1, <1>2, <1>3, <2>1, <2>2, <2>3, MindedStays DEF Minded
<1>9. ASSUME NEW s \in Server, RemoveNow(s) PROVE WatchInv'
  <2>1. PICK g : Drop({g})
    BY <1>9 DEF RemoveNow
  <2>2. /\ UNCHANGED <<tainted, pending>> /\ groups' = groups \ {g}
        /\ watching' = watching \ {g}
    BY <2>1 DEF Drop
  <2>3. UNCHANGED <<apc, ag>>
    BY <1>9 DEF RemoveNow
  <2>4. \A h : Attended(h) => Attended(h)'
    BY <1>3, <2>3 DEF Attended
  <2>5. QED
    BY <1>1, <1>2, <1>3, <2>2, <2>4, MindedStays DEF Minded
<1>10. QED
  BY <1>4, <1>5, <1>6, <1>7, <1>8, <1>9 DEF AdminStep

\* The listener forgets a group that is isolated only on the one path that
\* dropped records.
LEMMA ListenerKeepsWatch ==
    ASSUME WatchInv, ListenerStep
    PROVE  WatchInv'
<1> USE DEF topoVars, flagVars, admVars, lisVars, workVars, watchVars, histVars,
            reqVars
<1>1. /\ UNCHANGED <<rpc, obj, apc, ag>>
      /\ dropped \subseteq dropped'
  BY DEF ListenerStep, Snapshot, NextWaiting, CheckMember, Restore, UntaintGroup,
     Forget, TakeActive, CheckActive, Down, Rewatch, EndRound, RemovePending, Fill,
     Sync
<1> DEFINE Minding == lpc = "rewatch" \/ (lpc \in {"fill", "sync"} /\ lret = "rewatch")
<1>2. /\ rpc' \in [Request -> RequestPC] /\ obj' \in [Request -> Object \cup {None}]
      /\ \A g : Attended(g) => Attended(g)' \/ (Minding /\ lg = g)
  BY <1>1 DEF Attended, WatchInv
<1>3. CASE Snapshot \/ CheckMember \/ Restore \/ TakeActive \/ CheckActive \/ EndRound
  <2>1. UNCHANGED <<groups, tainted, pending, watching>> /\ ~Minding
    BY <1>3 DEF Snapshot, CheckMember, Restore, TakeActive, CheckActive, EndRound
  <2>2. QED
    BY <1>1, <1>2, <2>1, MindedStays DEF Minded
<1>4. CASE NextWaiting
  <2>1. /\ UNCHANGED <<groups, tainted, pending>> /\ ~Minding
        /\ watching \subseteq watching' \cup pending
    BY <1>4 DEF NextWaiting
  <2>2. QED
    BY <1>1, <1>2, <2>1, MindedStays DEF Minded
<1>5. CASE UntaintGroup
  <2>1. /\ UNCHANGED <<groups, pending, watching>> /\ ~Minding
        /\ tainted' \subseteq tainted
    BY <1>5 DEF UntaintGroup, Untaint
  <2>2. QED
    BY <1>1, <1>2, <2>1, MindedStays DEF Minded
<1>6. CASE Forget
  <2>1. /\ UNCHANGED <<groups, tainted, pending>> /\ ~Minding
        /\ watching' = watching \ {lg}
        /\ lg \in tainted => lg \in dropped'
    BY <1>6 DEF Forget
  <2>2. QED
    BY <1>1, <1>2, <2>1, MindedStays DEF Minded
<1>7. CASE Down
  <2>1. UNCHANGED <<groups, pending, watching>> /\ ~Minding
    BY <1>7 DEF Down, Taint
  <2>2. PICK g : g = lg'
    OBVIOUS
  <2>3. \/ UNCHANGED tainted
        \/ tainted' = tainted \cup {g} /\ lpc' = "fill" /\ lret' = "rewatch"
    BY <1>7, <2>2 DEF Down, Taint
  <2>4. UNCHANGED tainted \/ Attended(g)'
    BY <2>2, <2>3 DEF Attended
  <2>5. QED
    BY <1>1, <1>2, <2>1, <2>3, <2>4, MindedStays DEF Minded
<1>8. CASE Rewatch
  <2>1. /\ UNCHANGED <<groups, tainted, pending>> /\ watching \subseteq watching'
        /\ lg \in watching' \cup pending
    BY <1>8 DEF Rewatch, Watch
  <2>2. QED
    BY <1>1, <1>2, <2>1, MindedStays DEF Minded
<1>9. CASE Fill \/ Sync
  <2>1. UNCHANGED <<groups, tainted, pending, watching, lg>> /\ (Minding => Minding')
    BY <1>9 DEF Fill, Sync
  <2>2. \A g : Attended(g) => Attended(g)'
    BY <1>2, <2>1 DEF Attended
  <2>3. QED
    BY <1>1, <1>2, <2>1, <2>2, MindedStays DEF Minded
<1>10. CASE RemovePending
  <2>1. UNCHANGED <<tainted, pending>> /\ ~Minding
    BY <1>10 DEF RemovePending, Drop
  <2>2. /\ groups' \subseteq groups
        /\ \A g \in groups' : g \in watching => g \in watching'
    BY <1>10 DEF RemovePending, Drop
  <2>3. QED
    BY <1>1, <1>2, <2>1, <2>2, MindedStays DEF Minded
<1>11. QED
  BY <1>3, <1>4, <1>5, <1>6, <1>7, <1>8, <1>9, <1>10 DEF ListenerStep

\* Every isolated group that stays is watched by the listener or in the hands of
\* somebody about to decide, but for the one that the listener forgot while a
\* stream isolated it again.
THEOREM IsolatedAreMinded == Spec => []UnwatchedWasForgotten
<1>1. Init => WatchInv
  BY DEF Init, WatchInv, RequestPC, UnwatchedWasForgotten, Unattended
<1>2. TopoInv /\ WatchInv /\ [Next]_vars => WatchInv'
  <2> SUFFICES ASSUME TopoInv, WatchInv, [Next]_vars PROVE WatchInv'
    OBVIOUS
  <2>1. CASE (\E s \in Server : Flip(s)) \/ UNCHANGED vars
    BY <2>1 DEF Flip, vars, topoVars, flagVars, admVars, lisVars, workVars,
       watchVars, histVars, reqVars, WatchInv, UnwatchedWasForgotten, Unattended,
       Attended
  <2>2. QED
    BY <2>1, RequestKeepsWatch, OperatorKeepsWatch, ListenerKeepsWatch DEF Next
<1>3. WatchInv => UnwatchedWasForgotten
  BY DEF WatchInv
<1>4. QED
  BY <1>1, <1>2, <1>3, TopologyIsKept, PTL DEF Spec

-----------------------------------------------------------------------------
(* The servers.                                                             *)

\* Every server object in the flat list is in it once, and of a group that was
\* created.
SlotInv == /\ slots \in Seq(Object)
           /\ \A i \in DOMAIN slots : slots[i][1] \in DOMAIN member
           /\ \A i, j \in DOMAIN slots : slots[i] = slots[j] => i = j

\* The flat list of any groups that were created: their servers, each once.
LEMMA FlatIsDistinct ==
    ASSUME member \in Seq(MemberSeq), Len(member) \leq MaxGroups, NEW gs
    PROVE  LET flat == Flat(gs)
           IN  /\ flat \in Seq(Object)
               /\ \A i \in DOMAIN flat : flat[i][1] \in DOMAIN member
               /\ \A i, j \in DOMAIN flat : flat[i] = flat[j] => i = j
<1> DEFINE part == [g \in DOMAIN member |-> IF g \in gs THEN Objects(g) ELSE <<>>]
           n == Len(member)
<1>1. n \in Nat /\ DOMAIN member = 1..n /\ n \leq MaxGroups
  BY LenProperties
<1>2. ASSUME NEW g \in 1..n
      PROVE  /\ part[g] \in Seq(Object)
             /\ \A k \in 1..Len(part[g]) : part[g][k][1] = g
             /\ \A k, l \in 1..Len(part[g]) : part[g][k] = part[g][l] => k = l
  <2>1. g \in GroupId /\ member[g] \in MemberSeq
    BY <1>1, ElementOfSeq, BoundAssumption DEF GroupId
  <2>2. PICK s : s = member[g]
    OBVIOUS
  <2>3. PICK m \in 1..Cardinality(Server) : s \in [1..m -> Server]
    BY <2>1, <2>2 DEF MemberSeq
  <2>4. m \in Nat /\ \A i, j \in 1..m : s[i] = s[j] => i = j
    BY <2>1, <2>2, <2>3, ServerAssumption, FS_CardinalityType DEF MemberSeq
  <2> DEFINE os == [k \in 1..m |-> <<g, s[k]>>]
  <2>5. os \in [1..m -> Object]
    BY <2>1, <2>3 DEF Object
  <2>6. os \in Seq(Object) /\ Len(os) = m
    <3> HIDE DEF os
    <3>1. os \in Seq(Object)
      BY <2>4, <2>5, SeqDef
    <3>2. QED
      BY <2>4, <2>5, <3>1, LenProperties
  <2>7. Objects(g) = os
    BY <2>2, <2>3 DEF Objects
  <2>8. part[g] = os \/ part[g] = <<>>
    BY <1>1, <2>7
  <2>9. \A k \in 1..m : os[k] = <<g, s[k]>>
    OBVIOUS
  <2> HIDE DEF part, os
  <2>10. CASE part[g] = os
    BY <2>4, <2>6, <2>9, <2>10
  <2>11. CASE part[g] = <<>>
    BY <2>11, EmptySeq
  <2>12. QED
    BY <2>8, <2>10, <2>11
<1>3. part \in Seq(Seq(Object)) /\ Len(part) = n
  <2>1. part \in [1..n -> Seq(Object)]
    BY <1>1, <1>2
  <2> HIDE DEF part
  <2>2. part \in Seq(Seq(Object))
    BY <1>1, <2>1, SeqDef
  <2>3. QED
    BY <1>1, <2>1, <2>2, LenProperties
<1> DEFINE Tidy(t, k) == /\ t \in Seq(Object)
                         /\ \A i \in 1..Len(t) : t[i][1] \in 1..k
                         /\ \A i, j \in 1..Len(t) : t[i] = t[j] => i = j
<1>4. Tidy(Flat(gs), n)
  <2> HIDE DEF part
  <2>1. CASE n = 0
    <3>1. Flat(gs) = part /\ Len(part) = 0
      BY <1>3, <2>1 DEF Flat, FlattenSeq, part
    <3>2. part = <<>>
      BY <1>3, <3>1, EmptySeq
    <3>3. QED
      BY <3>1, <3>2, EmptySeq
  <2>2. CASE n # 0
    <3>1. part # <<>>
      BY <1>1, <1>3, <2>2, EmptySeq
    <3>2. PICK h : /\ h \in [0..n -> Seq(Object)] /\ FlattenSeq(part) = h[n]
                   /\ h[0] = <<>>
                   /\ \A i \in 1..n : h[i] = h[i - 1] \o part[i]
      <4>1. PICK h \in Flattenings(Object, part) : FlattenSeq(part) = h[Len(part)]
        BY <1>3, <3>1, Flattening
      <4>2. QED
        BY <1>3, <4>1 DEF Flattenings
    <3> DEFINE Bad == {i \in 0..n : ~Tidy(h[i], i)}
    <3>3. ASSUME NEW m \in Bad, \A k \in Bad : m \leq k PROVE FALSE
      <4>1. m \in 0..n /\ ~Tidy(h[m], m)
        OBVIOUS
      <4>2. CASE m = 0
        BY <3>2, <4>1, <4>2, EmptySeq
      <4>3. CASE m # 0
        <5>1. m \in 1..n /\ m - 1 \in 0..n /\ m - 1 < m
          BY <1>1, <4>1, <4>3
        <5> HIDE DEF Tidy
        <5>2. Tidy(h[m - 1], m - 1)
          BY <3>3, <5>1
        <5> USE DEF Tidy
        <5>3. PICK t : t = h[m - 1]
          OBVIOUS
        <5>4. PICK u : u = part[m]
          OBVIOUS
        <5>5. /\ t \in Seq(Object) /\ u \in Seq(Object) /\ h[m] = t \o u
              /\ Len(t) \in Nat /\ Len(u) \in Nat
              /\ \A i \in 1..Len(t) : t[i][1] \in 1..m - 1
              /\ \A i, j \in 1..Len(t) : t[i] = t[j] => i = j
              /\ \A k \in 1..Len(u) : u[k][1] = m
              /\ \A k, l \in 1..Len(u) : u[k] = u[l] => k = l
          BY <1>2, <3>2, <5>1, <5>2, <5>3, <5>4, LenProperties
        <5>6. PICK v : v = t \o u
          OBVIOUS
        <5>7. /\ v \in Seq(Object) /\ Len(v) = Len(t) + Len(u)
              /\ \A i \in 1..Len(v) :
                   v[i] = IF i \leq Len(t) THEN t[i] ELSE u[i - Len(t)]
          BY <5>5, <5>6, ConcatProperties
        <5>8. ASSUME NEW i \in 1..Len(v)
              PROVE  /\ i \leq Len(t) => v[i] = t[i] /\ i \in 1..Len(t)
                                         /\ v[i][1] \in 1..m - 1
                     /\ ~(i \leq Len(t)) => /\ v[i] = u[i - Len(t)]
                                            /\ i - Len(t) \in 1..Len(u)
                                            /\ v[i][1] = m
          BY <5>5, <5>7
        <5>9. \A i \in 1..Len(v) : v[i][1] \in 1..m
          <6>1. \A i \in 1..Len(v) : v[i][1] \in 1..m - 1 \/ v[i][1] = m
            BY <5>8
          <6>2. m \in 1..m /\ \A k \in 1..m - 1 : k \in 1..m
            BY <5>1
          <6>3. QED
            BY <6>1, <6>2
        <5>10. ASSUME NEW i \in 1..Len(v), NEW j \in 1..Len(v), v[i] = v[j]
               PROVE  i = j
          <6>1. (i \leq Len(t)) <=> (j \leq Len(t))
            <7>1. m \notin 1..m - 1
              BY <5>1
            <7>2. QED
              BY <5>8, <5>10, <7>1
          <6>2. CASE i \leq Len(t)
            BY <5>5, <5>8, <5>10, <6>1, <6>2
          <6>3. CASE ~(i \leq Len(t))
            <7> DEFINE k == i - Len(t)
                       l == j - Len(t)
            <7>1. k \in 1..Len(u) /\ l \in 1..Len(u) /\ u[k] = u[l]
              BY <5>8, <5>10, <6>1, <6>3
            <7> HIDE DEF k, l
            <7>2. k = l
              BY <5>5, <7>1
            <7>3. i - Len(t) = j - Len(t)
              BY <7>2 DEF k, l
            <7>4. QED
              BY <5>5, <5>7, <7>3
          <6>4. QED
            BY <6>2, <6>3
        <5>11. Tidy(v, m)
          BY <5>7, <5>9, <5>10
        <5>12. QED
          BY <4>1, <5>5, <5>6, <5>11
      <4>4. QED
        BY <4>2, <4>3
    <3>4. Bad \in SUBSET Nat /\ (Bad = {} => Tidy(h[n], n))
      BY <1>1
    <3> HIDE DEF Bad, Tidy
    <3>5. Tidy(h[n], n)
      BY <3>3, <3>4, LeastOf
    <3>6. Flat(gs) = h[n]
      BY <3>2 DEF Flat, part
    <3>7. QED
      BY <3>5, <3>6
  <2>3. QED
    BY <2>1, <2>2
<1>5. DOMAIN Flat(gs) = 1..Len(Flat(gs))
  BY <1>4, LenProperties
<1>6. QED
  BY <1>1, <1>4, <1>5

\* A new group comes last, and is a group of its own.
NewGroup(m, g) == /\ g \in GroupId /\ g \notin DOMAIN member /\ m \in MemberSeq
                  /\ DOMAIN member' = DOMAIN member \cup {g} /\ member'[g] = m
                  /\ \A h \in DOMAIN member : member'[h] = member[h]
                  /\ slots' = slots \o [k \in DOMAIN m |-> <<g, m[k]>>]

\* A new group comes behind the others, with servers of its own.
LEMMA NewGroupAdds ==
    ASSUME TopoInv, NEW m \in Offered, AddNew(m)
    PROVE  NewGroup(m, Len(member) + 1)
<1>1. PICK g : g = Len(member) + 1
  OBVIOUS
<1>2. /\ m \in MemberSeq /\ member' = Append(member, m) /\ UNCHANGED pending
      /\ groups' = groups \cup {g} /\ g <= MaxGroups /\ tainted' = tainted \cup {g}
      /\ ag' = g /\ slots' = slots \o [k \in DOMAIN m |-> <<g, m[k]>>]
  BY <1>1, GroupAssumption DEF AddNew
<1>3. /\ Len(member) \in Nat /\ DOMAIN member = 1..Len(member)
      /\ DOMAIN member' = 1..Len(member) + 1 /\ member'[Len(member) + 1] = m
      /\ \A h \in 1..Len(member) : member'[h] = member[h]
  BY <1>2, AppendProperties, LenProperties DEF TopoInv
<1>4. DOMAIN member' = DOMAIN member \cup {g} /\ g \notin DOMAIN member /\ g \in GroupId
  BY <1>1, <1>2, <1>3, BoundAssumption DEF GroupId
<1>5. QED
  BY <1>1, <1>2, <1>3, <1>4 DEF NewGroup

\* The groups that there are keep their endpoints.
LEMMA MembersStay ==
    ASSUME TopoInv, [Next]_vars
    PROVE  /\ DOMAIN member \subseteq DOMAIN member'
           /\ \A g \in DOMAIN member : member'[g] = member[g]
<1>1. CASE Quiet
  BY <1>1, QuietKeepsTopology DEF topoVars
<1>2. ASSUME NEW m \in Offered, AddNew(m)
      PROVE  /\ DOMAIN member \subseteq DOMAIN member'
             /\ \A g \in DOMAIN member : member'[g] = member[g]
  BY <1>2, NewGroupAdds DEF NewGroup
<1>3. CASE (\E s \in Server : Retire(s) \/ RemoveNow(s)) \/ RemovePending
  BY <1>3 DEF Retire, RemoveNow, RemovePending, Drop, topoVars
<1>4. QED
  BY <1>1, <1>2, <1>3, StepKinds

\* Where a server object of a group lies in the list follows from the group: a
\* new group's objects come after those of the others.
LEMMA SlotsAreAppended ==
    ASSUME TopoInv, SlotInv, NEW m \in Offered, AddNew(m)
    PROVE  /\ SlotInv'
           /\ DOMAIN slots \subseteq DOMAIN slots'
           /\ \A i \in DOMAIN slots : slots'[i] = slots[i]
<1>1. PICK g : /\ g \in GroupId /\ g \notin DOMAIN member /\ m \in MemberSeq
               /\ DOMAIN member' = DOMAIN member \cup {g}
               /\ slots' = slots \o [k \in DOMAIN m |-> <<g, m[k]>>]
  BY NewGroupAdds DEF NewGroup
<1>2. PICK n \in 1..Cardinality(Server) : m \in [1..n -> Server]
  BY <1>1 DEF MemberSeq
<1>3. n \in Nat /\ \A i, j \in 1..n : m[i] = m[j] => i = j
  BY <1>1, <1>2, ServerAssumption, FS_CardinalityType DEF MemberSeq
<1>4. PICK u : u = [k \in 1..n |-> <<g, m[k]>>]
  OBVIOUS
<1>5. u \in Seq(Object) /\ Len(u) = n
  <2>1. u \in [1..n -> Object]
    BY <1>1, <1>2, <1>4 DEF Object
  <2>2. u \in Seq(Object)
    BY <1>3, <2>1, SeqDef
  <2>3. QED
    BY <1>3, <2>1, <2>2, LenProperties
<1>6. PICK t : t = slots
  OBVIOUS
<1>7. /\ t \in Seq(Object) /\ Len(t) \in Nat /\ DOMAIN t = 1..Len(t)
      /\ \A i \in 1..Len(t) : t[i][1] \in DOMAIN member
      /\ \A i, j \in 1..Len(t) : t[i] = t[j] => i = j
  <2>1. t \in Seq(Object)
    BY <1>6 DEF SlotInv
  <2>2. Len(t) \in Nat /\ DOMAIN t = 1..Len(t)
    BY <2>1, LenProperties
  <2>3. QED
    BY <1>6, <2>1, <2>2 DEF SlotInv
<1>8. PICK v : v = slots'
  OBVIOUS
<1>9. v = t \o u
  BY <1>1, <1>2, <1>4, <1>6, <1>8
<1>10. /\ v \in Seq(Object) /\ Len(v) = Len(t) + n /\ DOMAIN v = 1..Len(v)
       /\ \A i \in 1..Len(v) : v[i] = IF i \leq Len(t) THEN t[i] ELSE u[i - Len(t)]
  <2>1. /\ v \in Seq(Object) /\ Len(v) = Len(t) + Len(u)
        /\ \A i \in 1..Len(t) + Len(u) :
             v[i] = IF i \leq Len(t) THEN t[i] ELSE u[i - Len(t)]
    <3>1. t \in Seq(Object) /\ u \in Seq(Object) /\ Len(t) \in Nat /\ Len(u) \in Nat
      BY <1>3, <1>5, <1>7
    <3>2. QED
      BY <1>9, <3>1, ConcatProperties
  <2>2. DOMAIN v = 1..Len(v)
    BY <2>1, LenProperties
  <2>3. QED
    BY <1>5, <2>1, <2>2
<1>11. ASSUME NEW i \in 1..Len(v)
       PROVE  /\ i \leq Len(t) => /\ v[i] = t[i] /\ i \in 1..Len(t)
                                 /\ v[i][1] \in DOMAIN member
              /\ ~(i \leq Len(t)) => /\ i - Len(t) \in 1..n
                                    /\ v[i][1] = g /\ v[i][2] = m[i - Len(t)]
  <2>1. CASE i \leq Len(t)
    BY <1>7, <1>10, <2>1
  <2>2. CASE ~(i \leq Len(t))
    <3>1. i - Len(t) \in 1..n /\ v[i] = u[i - Len(t)]
      BY <1>3, <1>7, <1>10, <2>2
    <3>2. QED
      BY <1>4, <2>2, <3>1
  <2>3. QED
    BY <2>1, <2>2
<1>12. ASSUME NEW i \in 1..Len(v), NEW j \in 1..Len(v), v[i] = v[j] PROVE i = j
  <2>1. (i \leq Len(t)) <=> (j \leq Len(t))
    BY <1>1, <1>11, <1>12
  <2>2. CASE i \leq Len(t)
    BY <1>7, <1>11, <1>12, <2>1, <2>2
  <2>3. CASE ~(i \leq Len(t))
    <3> DEFINE k == i - Len(t)
               l == j - Len(t)
    <3>1. k \in 1..n /\ l \in 1..n /\ m[k] = m[l]
      BY <1>11, <1>12, <2>1, <2>3
    <3> HIDE DEF k, l
    <3>2. k = l
      BY <1>3, <3>1
    <3>3. i - Len(t) = j - Len(t)
      BY <3>2 DEF k, l
    <3>4. QED
      BY <1>7, <1>10, <3>3
  <2>4. QED
    BY <2>2, <2>3
<1>13. \A i \in 1..Len(v) : v[i][1] \in DOMAIN member'
  BY <1>1, <1>11
<1>14. \A i \in 1..Len(t) : i \in 1..Len(v) /\ v[i] = t[i]
  BY <1>3, <1>7, <1>10
<1>15. QED
  BY <1>6, <1>7, <1>8, <1>10, <1>12, <1>13, <1>14 DEF SlotInv

\* No server is in two places.
LEMMA SlotsAreDistinct == Spec => []SlotInv
<1>1. Init => SlotInv
  <2> SUFFICES ASSUME Init PROVE SlotInv
    OBVIOUS
  <2>1. member \in Seq(MemberSeq) /\ Len(member) \leq MaxGroups /\ slots = Flat(groups)
    BY GroupAssumption DEF Init
  <2>2. QED
    BY <2>1, FlatIsDistinct DEF SlotInv
<1>2. TopoInv /\ SlotInv /\ [Next]_vars => SlotInv'
  <2> SUFFICES ASSUME TopoInv, SlotInv, [Next]_vars PROVE SlotInv'
    OBVIOUS
  <2>1. ASSUME UNCHANGED <<member, slots>> PROVE SlotInv'
    BY <2>1 DEF SlotInv
  <2>2. CASE Quiet
    BY <2>1, <2>2, QuietKeepsTopology DEF topoVars
  <2>3. ASSUME NEW m \in Offered, AddNew(m) PROVE SlotInv'
    BY <2>3, SlotsAreAppended
  <2>4. ASSUME NEW gs, Drop(gs) PROVE SlotInv'
    <3>1. UNCHANGED member /\ slots' = Flat(groups \ gs)
      BY <2>4 DEF Drop
    <3>2. member \in Seq(MemberSeq) /\ Len(member) \leq MaxGroups
      BY DEF TopoInv
    <3>3. QED
      BY <3>1, <3>2, FlatIsDistinct DEF SlotInv
  <2>5. ASSUME NEW s \in Server, Retire(s) \/ RemoveNow(s) PROVE SlotInv'
    BY <2>1, <2>4, <2>5 DEF Retire, RemoveNow, topoVars
  <2>6. CASE RemovePending
    BY <2>1, <2>4, <2>6 DEF RemovePending, topoVars
  <2>7. QED
    BY <2>2, <2>3, <2>5, <2>6, StepKinds
<1>3. QED
  BY <1>1, <1>2, TopologyIsKept, PTL DEF Spec

-----------------------------------------------------------------------------
(* The loads.                                                               *)

\* The requests that were sent to a server object.
Sent(o) == {r \in Held : slots[idx[r]] = o}

\* Every server, also one that is in no group now, carries the requests that hold
\* its index, and each request that holds one finds its server there, until a
\* removal overtakes a request.
LoadInv == /\ idx \in [Request -> Nat]
           /\ \A r \in Held : idx[r] # 0
           /\ load \in [Object -> Nat]
           /\ ~shifted => /\ \A r \in Held : idx[r] \in DOMAIN slots
                          /\ \A o \in Object : load[o] = Cardinality(Sent(o))

\* Who holds an index is told by the control points, and a wake-up moves nobody
\* in or out.
LEMMA HeldFollows ==
    ASSUME rpc \in [Request -> RequestPC]
    PROVE  /\ rpc' \in {rpc, Woken(rpc)} => Held' = Held
           /\ \A r \in Request, p \in RequestPC, old \in {rpc, Woken(rpc)} :
                rpc' = [old EXCEPT ![r] = p] =>
                  Held' = IF p \in {"resolve", "active", "watch"}
                          THEN Held \cup {r} ELSE Held \ {r}
           /\ \A r \in Request :
                rpc' = Woken([rpc EXCEPT ![r] = "watch"]) => Held' = Held \cup {r}
  BY DEF Held, Woken, RequestPC

\* LoadInv depends on nothing but these variables and what requests hold.
LEMMA SameLoad ==
    ASSUME LoadInv, Held' = Held, UNCHANGED <<idx, load, shifted, slots>>
    PROVE  LoadInv'
<1>1. \A o : Sent(o)' = Sent(o)
  BY DEF Sent
<1>2. QED
  BY <1>1 DEF LoadInv

\* The request is sent to the server that was selected.
LEMMA SelectAddsLoad ==
    ASSUME LoadInv, SlotInv, NEW r \in Request, r \notin Held, NEW i \in DOMAIN slots,
           load' = [load EXCEPT ![slots[i]] = @ + 1], idx' = [idx EXCEPT ![r] = i],
           Held' = Held \cup {r}, UNCHANGED <<slots, shifted>>
    PROVE  LoadInv'
<1>1. i \in Nat /\ i # 0 /\ slots[i] \in Object
  <2>1. DOMAIN slots = 1..Len(slots) /\ Len(slots) \in Nat
    BY LenProperties DEF SlotInv
  <2>2. QED
    BY <2>1, ElementOfSeq DEF SlotInv
<1>2. /\ idx' \in [Request -> Nat] /\ load' \in [Object -> Nat]
      /\ \A q \in Held' : idx'[q] # 0
  BY <1>1 DEF LoadInv, Held
<1>3. ASSUME ~shifted'
      PROVE  /\ \A q \in Held' : idx'[q] \in DOMAIN slots'
             /\ \A o \in Object : load'[o] = Cardinality(Sent(o)')
  <2>1. \A q \in Held' : idx'[q] \in DOMAIN slots'
    BY <1>3 DEF LoadInv, Held
  <2>2. ASSUME NEW o \in Object PROVE load'[o] = Cardinality(Sent(o)')
    <3>1. Sent(o)' = IF o = slots[i] THEN Sent(o) \cup {r} ELSE Sent(o)
      BY DEF Sent, LoadInv, Held
    <3>2. Sent(o) \in SUBSET Request /\ r \notin Sent(o)
      BY DEF Sent, Held
    <3>3. load[o] = Cardinality(Sent(o))
      BY <1>3 DEF LoadInv
    <3>4. load'[o] = IF o = slots[i] THEN load[o] + 1 ELSE load[o]
      BY <1>1 DEF LoadInv
    <3>5. QED
      BY <3>1, <3>2, <3>3, <3>4, RequestSets
  <2>3. QED
    BY <2>1, <2>2
<1>4. QED
  BY <1>2, <1>3 DEF LoadInv

\* The request gives its load back where it put it.
LEMMA ReleaseTakesLoad ==
    ASSUME LoadInv, SlotInv, NEW r \in Held, Release(idx[r]),
           idx' = [idx EXCEPT ![r] = 0], Held' = Held \ {r}, UNCHANGED <<slots, shifted>>
    PROVE  LoadInv'
<1>1. /\ idx' \in [Request -> Nat] /\ load' \in [Object -> Nat]
      /\ \A q \in Held' : idx'[q] # 0
  <2>1. Held \subseteq Request
    BY DEF Held
  <2>2. load' \in [Object -> Nat]
    <3>1. PICK s : s = slots[idx[r]]
      OBVIOUS
    <3>2. load \in [Object -> Nat]
      BY DEF LoadInv
    <3>3. load' = load \/ load' = [load EXCEPT ![s] = IF load[s] > 0 THEN load[s] - 1 ELSE 0]
      BY <3>1 DEF Release
    <3>4. s \in Object => (IF load[s] > 0 THEN load[s] - 1 ELSE 0) \in Nat
      BY <3>2
    <3>5. QED
      BY <3>2, <3>3, <3>4
  <2>3. idx' \in [Request -> Nat] /\ \A q \in Held' : idx'[q] # 0
    BY <2>1 DEF LoadInv
  <2>4. QED
    BY <2>2, <2>3
<1>2. ASSUME ~shifted'
      PROVE  /\ \A q \in Held' : idx'[q] \in DOMAIN slots'
             /\ \A o \in Object : load'[o] = Cardinality(Sent(o)')
  <2>1. \A q \in Held' : idx'[q] \in DOMAIN slots'
    BY <1>2 DEF LoadInv, Held
  <2>2. PICK s \in Object : s = slots[idx[r]] /\ idx[r] \leq Len(slots)
    <3>1. DOMAIN slots = 1..Len(slots) /\ idx[r] \in DOMAIN slots
      BY <1>2, LenProperties DEF SlotInv, LoadInv
    <3>2. QED
      BY <3>1, ElementOfSeq DEF SlotInv
  <2>3. load' = [load EXCEPT ![s] = IF @ > 0 THEN @ - 1 ELSE 0]
    <3>1. Len(slots) \in Nat /\ idx[r] \in Nat
      BY LenProperties DEF SlotInv, LoadInv, Held
    <3>2. QED
      BY <2>2, <3>1 DEF Release
  <2>4. ASSUME NEW o \in Object PROVE load'[o] = Cardinality(Sent(o)')
    <3>1. Sent(o)' = IF o = s THEN Sent(o) \ {r} ELSE Sent(o)
      BY <2>2 DEF Sent, LoadInv, Held
    <3>2. Sent(o) \in SUBSET Request /\ r \in Request /\ (o = s => r \in Sent(o))
      BY <2>2 DEF Sent, Held
    <3>3. load[o] = Cardinality(Sent(o)) /\ load[o] \in Nat
      BY <1>2 DEF LoadInv
    <3>4. o = s => load[o] > 0
      <4>1. Sent(o) \ {r} \in SUBSET Request
        BY <3>2
      <4>2. Cardinality(Sent(o) \ {r}) \in Nat
        BY <3>2, <4>1, RequestSets
      <4>3. QED
        BY <3>2, <3>3, <4>2, RequestSets
    <3>5. load'[o] = IF o = s THEN load[o] - 1 ELSE load[o]
      BY <2>3, <3>3, <3>4 DEF LoadInv
    <3>6. QED
      BY <3>1, <3>2, <3>3, <3>5, RequestSets
  <2>5. QED
    BY <2>1, <2>4
<1>3. QED
  BY <1>1, <1>2 DEF LoadInv

\* A request adds to the server it takes and subtracts from the one it gives back.
LEMMA RequestKeepsLoad ==
    ASSUME TopoInv, SlotInv, CountInv, LoadInv, NEW r \in Request, RequestStep(r)
    PROVE  LoadInv'
<1>1. UNCHANGED <<slots, shifted>>
  <2>1. UNCHANGED slots
    BY QuietKeepsTopology DEF Quiet, topoVars
  <2>2. QED
    BY <2>1 DEF RequestStep, Arrive, Vanish, Pick, Recheck, TimeOut, Select, Resolve,
       Finish, Break, BreakWatch, histVars
<1>2. rpc \in [Request -> RequestPC] /\ rpc[r] \in RequestPC
  BY DEF CountInv
<1>3. CASE Arrive(r) \/ Vanish(r) \/ Pick(r) \/ Recheck(r) \/ TimeOut(r)
  <2>1. /\ UNCHANGED <<idx, load>> /\ r \notin Held
        /\ \E p \in {"pick", "lost", "select", "recheck", "waiting", "done"},
              old \in {rpc, Woken(rpc)} : rpc' = [old EXCEPT ![r] = p]
    BY <1>3 DEF Arrive, Vanish, Pick, Recheck, TimeOut, Held
  <2>2. Held' = Held \ {r}
    BY <1>2, <2>1, HeldFollows DEF RequestPC
  <2>3. Held' = Held
    BY <2>1, <2>2
  <2>4. QED
    BY <1>1, <2>1, <2>3, SameLoad
<1>4. CASE Select(r)
  <2>1. rpc[r] = "select" /\ r \notin Held
    BY <1>4 DEF Select, Held
  <2>2. CASE rpc' = [rpc EXCEPT ![r] = "pick"] /\ UNCHANGED <<load, idx>>
    <3>1. Held' = Held \ {r}
      BY <1>2, <2>2, HeldFollows DEF RequestPC
    <3>2. Held' = Held
      BY <2>1, <3>1
    <3>3. QED
      BY <1>1, <2>2, <3>2, SameLoad
  <2>3. ASSUME NEW i \in DOMAIN slots,
               load' = [load EXCEPT ![slots[i]] = @ + 1],
               idx' = [idx EXCEPT ![r] = i],
               rpc' = [rpc EXCEPT ![r] = "resolve"]
        PROVE  LoadInv'
    <3>1. Held' = Held \cup {r}
      BY <1>2, <2>3, HeldFollows DEF RequestPC
    <3>2. QED
      BY <1>1, <2>1, <2>3, <3>1, SelectAddsLoad
  <2>4. QED
    BY <1>4, <2>2, <2>3 DEF Select
<1>5. CASE Resolve(r)
  <2>1. r \in Held /\ UNCHANGED load
    BY <1>5 DEF Resolve, Held
  <2>2. CASE rpc' = [rpc EXCEPT ![r] = "active"] /\ UNCHANGED idx
    <3>1. Held' = Held \cup {r}
      BY <1>2, <2>2, HeldFollows DEF RequestPC
    <3>2. Held' = Held
      BY <2>1, <3>1
    <3>3. QED
      BY <1>1, <2>1, <2>2, <3>2, SameLoad
  <2>3. CASE /\ idx[r] > Len(slots) /\ rpc' = [rpc EXCEPT ![r] = "done"]
             /\ idx' = [idx EXCEPT ![r] = 0]
    <3>1. DOMAIN slots = 1..Len(slots) /\ Len(slots) \in Nat /\ idx[r] \in Nat
      BY LenProperties DEF SlotInv, LoadInv
    <3>2. shifted
      BY <2>1, <2>3, <3>1 DEF LoadInv
    <3>3. Held' = Held \ {r}
      BY <1>2, <2>3, HeldFollows DEF RequestPC
    <3>4. QED
      BY <1>1, <2>1, <2>3, <3>2, <3>3 DEF LoadInv, Held
  <2>4. QED
    BY <1>5, <2>2, <2>3 DEF Resolve
<1>6. CASE Finish(r) \/ BreakWatch(r)
  <2>1. /\ r \in Held /\ Release(idx[r]) /\ idx' = [idx EXCEPT ![r] = 0]
        /\ \E p \in {"done", "pick"} : rpc' = [rpc EXCEPT ![r] = p]
    BY <1>6 DEF Finish, BreakWatch, Held
  <2>2. Held' = Held \ {r}
    BY <1>2, <2>1, HeldFollows DEF RequestPC
  <2>3. QED
    BY <1>1, <2>1, <2>2, ReleaseTakesLoad
<1>7. CASE Break(r)
  <2>1. /\ r \in Held /\ UNCHANGED <<idx, load>>
        /\ \/ rpc' = [rpc EXCEPT ![r] = "watch"]
           \/ rpc' = Woken([rpc EXCEPT ![r] = "watch"])
    BY <1>7 DEF Break, Announce, Held
  <2>2. Held' = Held \cup {r}
    BY <1>2, <2>1, HeldFollows DEF RequestPC
  <2>3. Held' = Held
    BY <2>1, <2>2
  <2>4. QED
    BY <1>1, <2>1, <2>3, SameLoad
<1>8. QED
  BY <1>3, <1>4, <1>5, <1>6, <1>7 DEF RequestStep

\* Groups come and go: a new one moves no index, and a removal with which an
\* index could move is noted.
LEMMA OthersKeepLoad ==
    ASSUME TopoInv, SlotInv, CountInv, LoadInv,
           \/ RunCallback \/ AdminStep \/ ListenerStep
           \/ \E s \in Server : Flip(s)
           \/ UNCHANGED vars
    PROVE  LoadInv'
<1> USE DEF reqVars
<1>1. UNCHANGED <<idx, load>>
  BY DEF RunCallback, AdminStep, AddKnown, AddNew, AddCheck, AddRestore, AddIsolate,
     Retire, RemoveNow, ListenerStep, Snapshot, NextWaiting, CheckMember, Restore,
     UntaintGroup, Forget, TakeActive, CheckActive, Down, Rewatch, EndRound,
     RemovePending, Fill, Sync, Flip, vars
<1>2. Held' = Held
  <2>1. CASE RunCallback \/ AdminStep
    <3>1. rpc' \in {rpc, Woken(rpc)}
      BY <2>1 DEF RunCallback, AdminStep, AddKnown, AddNew, AddCheck, AddRestore,
         AddIsolate, Retire, RemoveNow, Announce
    <3>2. QED
      BY <3>1, HeldFollows DEF CountInv
  <2>2. CASE ListenerStep \/ (\E s \in Server : Flip(s)) \/ UNCHANGED vars
    <3>1. UNCHANGED rpc
      BY <2>2 DEF ListenerStep, Snapshot, NextWaiting, CheckMember, Restore,
         UntaintGroup, Forget, TakeActive, CheckActive, Down, Rewatch, EndRound,
         RemovePending, Fill, Sync, Flip, vars
    <3>2. QED
      BY <3>1 DEF Held
  <2>3. QED
    BY <2>1, <2>2
<1>3. ASSUME UNCHANGED <<slots, shifted>> PROVE LoadInv'
  BY <1>1, <1>2, <1>3, SameLoad
<1>4. ASSUME NEW gs, Drop(gs) PROVE LoadInv'
  <2>1. shifted' = (shifted \/ Held # {})
    BY <1>4 DEF Drop
  <2>2. CASE Held = {}
    <3>1. \A o : Sent(o) = {} /\ Sent(o)' = {}
      BY <1>2, <2>2 DEF Sent
    <3>2. QED
      BY <1>1, <1>2, <2>1, <2>2, <3>1 DEF LoadInv, CountInv
  <2>3. CASE Held # {}
    BY <1>1, <1>2, <2>1, <2>3 DEF LoadInv
  <2>4. QED
    BY <2>2, <2>3
<1>5. ASSUME NEW m \in Offered, AddNew(m) PROVE LoadInv'
  <2>1. UNCHANGED shifted
    BY <1>5 DEF AddNew, histVars
  <2>2. /\ DOMAIN slots \subseteq DOMAIN slots'
        /\ \A i \in DOMAIN slots : slots'[i] = slots[i]
    BY <1>5, SlotsAreAppended
  <2>3. ~shifted => \A o \in Object : Sent(o)' = Sent(o)
    BY <1>1, <1>2, <2>2 DEF Sent, LoadInv
  <2>4. QED
    BY <1>1, <1>2, <2>1, <2>2, <2>3 DEF LoadInv
<1>6. CASE RunCallback \/ (\E s \in Server : Flip(s)) \/ UNCHANGED vars
  BY <1>3, <1>6 DEF RunCallback, Flip, vars, topoVars, histVars
<1>7. CASE AdminStep
  BY <1>3, <1>4, <1>5, <1>7 DEF AdminStep, AddKnown, AddCheck, AddRestore, AddIsolate,
     Retire, RemoveNow, topoVars, histVars
<1>8. CASE ListenerStep
  BY <1>3, <1>4, <1>8 DEF ListenerStep, Snapshot, NextWaiting, CheckMember, Restore,
     UntaintGroup, Forget, TakeActive, CheckActive, Down, Rewatch, EndRound,
     RemovePending, Fill, Sync, topoVars, histVars
<1>9. QED
  BY <1>6, <1>7, <1>8

\* Loads are those of the requests that hold an index.
LEMMA LoadsAreKept == Spec => []LoadInv
<1>1. Init => LoadInv
  <2> SUFFICES ASSUME Init PROVE LoadInv
    OBVIOUS
  <2>1. Held = {} /\ \A o : Sent(o) = {}
    BY DEF Init, Held, Sent
  <2>2. QED
    BY <2>1, FS_EmptySet DEF Init, LoadInv
<1>2. TopoInv /\ SlotInv /\ CountInv /\ LoadInv /\ [Next]_vars => LoadInv'
  BY RequestKeepsLoad, OthersKeepLoad DEF Next
<1>3. QED
  BY <1>1, <1>2, TopologyIsKept, SlotsAreDistinct, CountIsKept, PTL DEF Spec

\* The load of a server is the number of requests that were sent to it, until a
\* removal overtakes a request: through failures, isolation, recovery and
\* re-addition nothing is released twice, or kept.
THEOREM LoadIsCounted == Spec => []LoadIsExact
<1>1. SlotInv /\ LoadInv => LoadIsExact
  <2> SUFFICES ASSUME SlotInv, LoadInv, ~shifted, NEW i \in DOMAIN slots
               PROVE  load[slots[i]] = Cardinality({r \in Held : idx[r] = i})
    BY DEF LoadIsExact
  <2>1. slots[i] \in Object
    BY LenProperties, ElementOfSeq DEF SlotInv
  <2>2. Sent(slots[i]) = {r \in Held : idx[r] = i}
    BY DEF Sent, LoadInv, SlotInv
  <2>3. QED
    BY <2>1, <2>2 DEF LoadInv
<1>2. QED
  BY <1>1, SlotsAreDistinct, LoadsAreKept, PTL

-----------------------------------------------------------------------------
(* The types.                                                               *)

\* The endpoints of a group are servers, and so are those that the tainted list
\* is made of.
LEMMA MembersAreServers ==
    ASSUME TopoInv
    PROVE  /\ \A g \in DOMAIN member : Members(g) \subseteq Server
           /\ \A gs, off : gs \subseteq DOMAIN member => Rebuilt(gs, off) \subseteq Server
           /\ DOMAIN member \subseteq Nat
<1>1. ASSUME NEW g \in DOMAIN member PROVE Members(g) \subseteq Server
  <2>1. member[g] \in MemberSeq
    BY DEF TopoInv
  <2>2. PICK n \in 1..Cardinality(Server) : member[g] \in [1..n -> Server]
    BY <2>1 DEF MemberSeq
  <2>3. QED
    BY <2>2 DEF Members
<1>2. DOMAIN member = 1..Len(member) /\ Len(member) \in Nat
  BY LenProperties DEF TopoInv
<1>3. QED
  BY <1>1, <1>2 DEF Rebuilt

\* The types that the operations of the groups can disturb.
FlagInv == /\ tainted \subseteq DOMAIN member
           /\ watching \subseteq DOMAIN member
           /\ tservers \subseteq Server
           /\ failures \in [Server -> 0..MaxFailures]

\* Isolating, restoring and watching a group that exists keep FlagInv,
LEMMA OperationsKeepFlags ==
    ASSUME TopoInv, FlagInv, NEW g \in DOMAIN member, UNCHANGED member
    PROVE  /\ Taint(g) /\ UNCHANGED watchVars => FlagInv'
           /\ Untaint(g) /\ UNCHANGED watchVars => FlagInv'
           /\ Watch(g) /\ UNCHANGED <<tainted, tservers>> => FlagInv'
           /\ Taint(g) /\ Watch(g) => FlagInv'
<1>1. Members(g) \subseteq Server
  BY MembersAreServers
<1>2. (Taint(g) \/ Untaint(g) \/ UNCHANGED <<tainted, tservers>>)
        => tainted' \subseteq DOMAIN member /\ tservers' \subseteq Server
  BY <1>1 DEF Taint, Untaint, FlagInv, flagVars
<1>3. (Watch(g) \/ UNCHANGED watchVars)
        => watching' \subseteq DOMAIN member /\ failures' \in [Server -> 0..MaxFailures]
  BY BoundAssumption DEF Watch, FlagInv, watchVars
<1>4. QED
  BY <1>2, <1>3 DEF FlagInv

\* and so does removing groups with everything noted of them.
LEMMA DropKeepsFlags ==
    ASSUME TopoInv, FlagInv, NEW gs, Drop(gs)
    PROVE  FlagInv'
<1>1. Rebuilt(groups \ gs, tainted \cup pending) \subseteq Server
  BY MembersAreServers DEF TopoInv
<1>2. QED
  BY <1>1 DEF Drop, FlagInv

\* A server object that a request remembers is of a group that was created.
Known(o) == o \in Object \cup {None} /\ (o # None => o[1] \in DOMAIN member)
ObjInv == obj \in [Request -> Object \cup {None}] /\ \A r \in Request : Known(obj[r])

\* The operator's handler has a group, unless it is idle.
AdmInv == AdmType /\ (apc # "idle" => ag \in DOMAIN member)

\* What the handlers and the listener's place in its round are about.
ActorInv == /\ dropped \subseteq DOMAIN member
            /\ AdmInv
            /\ ObjInv
            /\ EventType /\ EnvType

\* Where the listener works on a group it has one, and where it works on a server
\* it has one.
HasGroup == \/ lpc \in {"member", "restore", "untaint", "forget", "rewatch"}
            \/ lpc \in {"fill", "sync"} /\ lret # "sleep"
HasServer == \/ lpc \in {"down", "rewatch"}
             \/ lpc \in {"fill", "sync"} /\ lret = "rewatch"
PlaceInv == /\ LisType
            /\ HasGroup => lg \in DOMAIN member
            /\ HasServer => la # <<>>

ShapeInv == FlagInv /\ ActorInv /\ PlaceInv

\* A group that a request or the operator speaks of is still there when they do.
LEMMA RequestKeepsShape ==
    ASSUME TopoInv, SlotInv, LoadInv, ShapeInv, NEW r \in Request, RequestStep(r)
    PROVE  ShapeInv'
<1>1. UNCHANGED <<member, lisVars, admVars, dropped>>
  <2>1. UNCHANGED member
    BY QuietKeepsTopology DEF Quiet, topoVars
  <2>2. QED
    BY <2>1 DEF RequestStep, Arrive, Vanish, Pick, Recheck, TimeOut, Select, Resolve,
       Finish, Break, BreakWatch, histVars
<1>2. PlaceInv'
  BY <1>1 DEF ShapeInv, PlaceInv, LisType, HasGroup, HasServer, lisVars, workVars
<1>3. EventType' /\ EnvType'
  <2> USE DEF ShapeInv, ActorInv, eventVars, envVars
  <2>1. EnvType'
    <3>1. UNCHANGED up
      BY DEF RequestStep, Arrive, Vanish, Pick, Recheck, TimeOut, Select, Resolve,
         Finish, Break, BreakWatch
    <3>2. \/ UNCHANGED used
          \/ used.lost < MaxLost /\ used' = [used EXCEPT !.lost = @ + 1]
          \/ used.errors < MaxErrors /\ used' = [used EXCEPT !.errors = @ + 1]
      BY DEF RequestStep, Arrive, Vanish, Pick, Recheck, TimeOut, Select, Resolve,
         Finish, Break, BreakWatch
    <3>3. QED
      BY <3>1, <3>2, BoundAssumption DEF EnvType
  <2>2. EventType'
    BY DEF RequestStep, Arrive, Vanish, Pick, Recheck, TimeOut, Select, Resolve,
       Finish, Break, BreakWatch, EventType, Announce
  <2>3. QED
    BY <2>1, <2>2
<1>4. FlagInv'
  <2> USE DEF ShapeInv
  <2>1. CASE UNCHANGED <<flagVars, watchVars>>
    BY <1>1, <2>1 DEF FlagInv, flagVars, watchVars
  <2>2. CASE Break(r)
    <3>1. /\ UNCHANGED watchVars
          /\ UNCHANGED flagVars \/ \E g \in groups : Taint(g)
      BY <2>2 DEF Break, Owner
    <3>2. QED
      BY <1>1, <2>1, <3>1, OperationsKeepFlags DEF TopoInv
  <2>3. CASE BreakWatch(r)
    <3>1. /\ UNCHANGED flagVars
          /\ \/ UNCHANGED watchVars
             \/ obj[r] # None /\ Watch(obj[r][1])
      BY <2>3 DEF BreakWatch
    <3>2. QED
      BY <1>1, <2>1, <3>1, OperationsKeepFlags DEF ActorInv, ObjInv, Known, flagVars
  <2>4. QED
    BY <2>1, <2>2, <2>3 DEF RequestStep, Arrive, Vanish, Pick, Recheck, TimeOut,
       Select, Resolve, Finish
<1>5. ObjInv'
  <2>1. ObjInv
    BY DEF ShapeInv, ActorInv
  <2>2. ASSUME NEW o, Known(o), obj' = [obj EXCEPT ![r] = o]
        PROVE  ObjInv'
    BY <1>1, <2>1, <2>2 DEF ObjInv, Known
  <2>3. Known(None)
    BY DEF Known
  <2>4. CASE UNCHANGED obj
    BY <1>1, <2>1, <2>4 DEF ObjInv, Known
  <2>5. CASE Resolve(r)
    <3>1. ASSUME NEW o \in Object, idx[r] \leq Len(slots), o = slots[idx[r]],
                 obj' = [obj EXCEPT ![r] = o], rpc[r] = "resolve"
          PROVE  Known(o)
      <4>1. idx[r] \in DOMAIN slots
        BY <3>1, LenProperties DEF SlotInv, LoadInv, Held
      <4>2. QED
        BY <3>1, <4>1 DEF SlotInv, Known
    <3>2. QED
      BY <2>2, <2>4, <2>5, <3>1 DEF Resolve
  <2>6. CASE Break(r)
    <3>1. ASSUME NEW g \in Owner(groups, obj[r][2]), rpc[r] = "active"
          PROVE  Known(<<g, obj[r][2]>>)
      <4>1. g \in DOMAIN member /\ g \in GroupId /\ obj[r][2] \in Server
        <5>1. g \in DOMAIN member /\ obj[r][2] \in Members(g)
          BY <3>1 DEF Owner, TopoInv
        <5>2. g \in GroupId
          BY <5>1, LenProperties, BoundAssumption DEF TopoInv, GroupId
        <5>3. QED
          BY <5>1, <5>2, MembersAreServers
      <4>2. QED
        BY <4>1 DEF Known, Object
    <3>2. QED
      BY <2>2, <2>3, <2>6, <3>1 DEF Break
  <2>7. CASE Finish(r) \/ BreakWatch(r)
    BY <2>2, <2>3, <2>7 DEF Finish, BreakWatch
  <2>8. QED
    BY <2>4, <2>5, <2>6, <2>7 DEF RequestStep, Arrive, Vanish, Pick, Recheck, TimeOut,
       Select
<1>6. QED
  BY <1>1, <1>2, <1>3, <1>4, <1>5 DEF ShapeInv, ActorInv, AdmInv, AdmType, admVars

\* What the event loop holds exists,
LEMMA OperatorKeepsShape ==
    ASSUME TopoInv, ShapeInv, RunCallback \/ AdminStep \/ \E s \in Server : Flip(s)
    PROVE  ShapeInv'
<1>1. DOMAIN member \subseteq DOMAIN member' /\ DOMAIN member \subseteq Nat
  BY MembersStay, MembersAreServers DEF Next
<1>2. /\ UNCHANGED <<lpc, lret, workVars, dropped, obj>>
      /\ UNCHANGED lref \/ lref' = tservers
  BY DEF RunCallback, AdminStep, AddKnown, AddNew, AddCheck, AddRestore, AddIsolate,
     Retire, RemoveNow, Flip, Replaced, Drop, lisVars, histVars, reqVars
<1>3. PlaceInv'
  BY <1>1, <1>2 DEF ShapeInv, FlagInv, PlaceInv, LisType, HasGroup, HasServer, workVars
<1>4. EventType' /\ EnvType'
  <2> USE DEF ShapeInv, ActorInv, eventVars, envVars
  <2>1. EnvType'
    <3>1. up' \subseteq Server
      BY DEF RunCallback, AdminStep, AddKnown, AddNew, AddCheck, AddRestore,
         AddIsolate, Retire, RemoveNow, Flip, EnvType
    <3>2. \/ UNCHANGED used
          \/ used.calls < MaxCalls /\ used' = [used EXCEPT !.calls = @ + 1]
          \/ used.flips < MaxFlips /\ used' = [used EXCEPT !.flips = @ + 1]
      BY DEF RunCallback, AdminStep, AddKnown, AddNew, AddCheck, AddRestore,
         AddIsolate, Retire, RemoveNow, Flip, Called
    <3>3. QED
      BY <3>1, <3>2, BoundAssumption DEF EnvType
  <2>2. EventType'
    BY DEF RunCallback, AdminStep, AddKnown, AddNew, AddCheck, AddRestore, AddIsolate,
       Retire, RemoveNow, Flip, EventType, Announce, Available, LockFree
  <2>3. QED
    BY <2>1, <2>2
<1>5. FlagInv'
  <2> USE DEF ShapeInv
  <2>1. CASE UNCHANGED <<member, flagVars, watchVars>>
    BY <2>1 DEF FlagInv, flagVars, watchVars
  <2>2. CASE RunCallback \/ (\E m \in Offered : AddKnown(m)) \/ AddCheck
             \/ \E s \in Server : Flip(s)
    BY <2>1, <2>2 DEF RunCallback, AddKnown, AddCheck, Flip, topoVars
  <2>3. CASE AddRestore \/ AddIsolate
    <3>1. UNCHANGED member /\ ag \in DOMAIN member
      BY <2>3 DEF AddRestore, AddIsolate, topoVars, ActorInv, AdmInv
    <3>2. QED
      BY <2>1, <2>3, <3>1, OperationsKeepFlags DEF AddRestore, AddIsolate
  <2>4. ASSUME NEW m \in Offered, AddNew(m) PROVE FlagInv'
    <3>1. NewGroup(m, Len(member) + 1)
      BY <2>4, NewGroupAdds
    <3>2. /\ tainted' = tainted \cup {Len(member) + 1} /\ UNCHANGED watchVars
          /\ tservers' = Rebuilt(groups, tainted \cup pending) \cup {m[k] : k \in DOMAIN m}
      BY <2>4 DEF AddNew
    <3>3. {m[k] : k \in DOMAIN m} \subseteq Server
      <4>1. PICK n \in 1..Cardinality(Server) : m \in [1..n -> Server]
        BY <3>1 DEF NewGroup, MemberSeq
      <4>2. QED
        BY <4>1
    <3>4. Rebuilt(groups, tainted \cup pending) \subseteq Server
      BY MembersAreServers DEF TopoInv
    <3>5. QED
      BY <1>1, <3>1, <3>2, <3>3, <3>4 DEF FlagInv, NewGroup, watchVars
  <2>5. ASSUME NEW s \in Server, Retire(s) PROVE FlagInv'
    <3>1. PICK g \in groups : /\ tainted' = tainted \cup {g}
                              /\ tservers' = tservers \cup Members(g)
                              /\ watching' = watching \ {g}
      BY <2>5 DEF Retire, Owner
    <3>2. g \in DOMAIN member /\ Members(g) \subseteq Server
      BY MembersAreServers DEF TopoInv
    <3>3. UNCHANGED <<member, failures>>
      BY <2>5 DEF Retire, topoVars
    <3>4. QED
      BY <3>1, <3>2, <3>3 DEF FlagInv
  <2>6. ASSUME NEW s \in Server, RemoveNow(s) PROVE FlagInv'
    BY <2>6, DropKeepsFlags DEF RemoveNow
  <2>7. QED
    BY <2>2, <2>3, <2>4, <2>5, <2>6 DEF AdminStep
<1>6. ObjInv'
  BY <1>1, <1>2 DEF ShapeInv, ActorInv, ObjInv, Known
<1>7. AdmInv'
  <2> USE DEF AdmInv, AdmType, AdminPC, ShapeInv, ActorInv
  <2>1. CASE RunCallback \/ \E s \in Server : Retire(s) \/ RemoveNow(s) \/ Flip(s)
    BY <1>1, <2>1 DEF RunCallback, Retire, RemoveNow, Flip, admVars
  <2>2. CASE AddCheck \/ AddRestore \/ AddIsolate
    BY <1>1, <2>2 DEF AddCheck, AddRestore, AddIsolate
  <2>3. ASSUME NEW m \in Offered, AddKnown(m) PROVE AdmInv'
    <3>1. ag' \in groups /\ apc' = "check" /\ ak' = 1
      BY <2>3 DEF AddKnown
    <3>2. QED
      BY <1>1, <3>1 DEF TopoInv
  <2>4. ASSUME NEW m \in Offered, AddNew(m) PROVE AdmInv'
    <3>1. ag' = Len(member) + 1 /\ apc' = "check" /\ ak' = 1
      BY <2>4 DEF AddNew
    <3>2. NewGroup(m, Len(member) + 1) /\ Len(member) \in Nat
      BY <2>4, NewGroupAdds, LenProperties DEF TopoInv
    <3>3. QED
      BY <3>1, <3>2 DEF NewGroup
  <2>5. QED
    BY <2>1, <2>2, <2>3, <2>4 DEF AdminStep
<1>8. QED
  BY <1>1, <1>2, <1>3, <1>4, <1>5, <1>6, <1>7 DEF ShapeInv, ActorInv

\* and what the listener holds,
LEMMA ListenerKeepsShape ==
    ASSUME TopoInv, SlotInv, ShapeInv, ListenerStep
    PROVE  ShapeInv'
<1>1. UNCHANGED <<member, apc, ag, ak, obj, event, up, used>>
  BY DEF ListenerStep, Snapshot, NextWaiting, CheckMember, Restore, UntaintGroup,
     Forget, TakeActive, CheckActive, Down, Rewatch, EndRound, RemovePending, Fill,
     Sync, Drop, topoVars, admVars, reqVars, eventVars, envVars
<1>2. DOMAIN member \subseteq Nat /\ groups \subseteq DOMAIN member
  BY MembersAreServers DEF TopoInv
<1>3. (HasServer \/ (lpc = "active" /\ la # <<>>))
        => Head(la) \in Object /\ Tail(la) \in Seq(Object) /\ Head(la)[2] \in Server
  <2> SUFFICES ASSUME la # <<>>
               PROVE Head(la) \in Object /\ Tail(la) \in Seq(Object) /\ Head(la)[2] \in Server
    BY DEF ShapeInv, PlaceInv
  <2>1. la \in Seq(Object)
    BY DEF ShapeInv, PlaceInv, LisType
  <2>2. Head(la) \in Object /\ Tail(la) \in Seq(Object)
    BY <2>1, HeadTailProperties
  <2>3. QED
    BY <2>2 DEF Object
<1>4. FlagInv'
  <2> USE DEF ShapeInv
  <2>1. CASE \/ Snapshot \/ Restore \/ TakeActive \/ EndRound \/ Fill \/ Sync
             \/ CheckMember
    BY <1>1, <2>1 DEF Snapshot, Restore, TakeActive, EndRound, Fill, Sync, CheckMember,
       FlagInv, flagVars, watchVars
  <2>2. CASE NextWaiting \/ Forget
    BY <1>1, <2>2 DEF NextWaiting, Forget, FlagInv, flagVars
  <2>3. CASE UntaintGroup \/ Rewatch
    <3>1. lg \in DOMAIN member
      BY <2>3 DEF UntaintGroup, Rewatch, PlaceInv, HasGroup
    <3>2. QED
      BY <1>1, <2>3, <3>1, OperationsKeepFlags DEF UntaintGroup, Rewatch, flagVars
  <2>4. CASE CheckActive
    <3>1. Head(la)[2] \in Server
      BY <1>3, <2>4 DEF CheckActive
    <3>2. failures' \in [Server -> 0..MaxFailures]
      BY <2>4, <3>1, BoundAssumption DEF CheckActive, FlagInv
    <3>3. QED
      BY <1>1, <2>4, <3>2 DEF CheckActive, FlagInv, flagVars
  <2>5. CASE Down
    <3>1. UNCHANGED flagVars \/ \E g \in DOMAIN member : Taint(g)
      BY <1>2, <2>5 DEF Down, Owner
    <3>2. UNCHANGED watchVars
      BY <2>5 DEF Down
    <3>3. QED
      BY <1>1, <3>1, <3>2, OperationsKeepFlags DEF FlagInv, flagVars, watchVars
  <2>6. CASE RemovePending
    BY <1>1, <2>6, DropKeepsFlags DEF RemovePending, FlagInv, flagVars, watchVars
  <2>7. QED
    BY <2>1, <2>2, <2>3, <2>4, <2>5, <2>6 DEF ListenerStep
<1>5. dropped' \subseteq DOMAIN member
  <2>1. CASE Forget
    BY <2>1 DEF Forget, ShapeInv, ActorInv, PlaceInv, HasGroup
  <2>2. CASE ~Forget
    BY <2>2 DEF ListenerStep, Snapshot, NextWaiting, CheckMember, Restore,
       UntaintGroup, TakeActive, CheckActive, Down, Rewatch, EndRound, RemovePending,
       Fill, Sync, histVars, ShapeInv, ActorInv
  <2>3. QED
    BY <2>1, <2>2
<1>6. callback' \in BOOLEAN
  BY DEF ListenerStep, Snapshot, NextWaiting, CheckMember, Restore, UntaintGroup,
     Forget, TakeActive, CheckActive, Down, Rewatch, EndRound, RemovePending, Fill,
     Sync, eventVars, ShapeInv, ActorInv, EventType
<1>7. ActorInv'
  BY <1>1, <1>5, <1>6 DEF ShapeInv, ActorInv, AdmInv, AdmType, ObjInv, Known,
     EventType, EnvType
<1>8. PlaceInv'
  <2> USE DEF ShapeInv, PlaceInv, LisType, HasGroup, HasServer, ListenerPC, workVars
  <2>1. CASE Snapshot \/ Restore \/ Fill \/ Sync
    BY <1>1, <2>1 DEF Snapshot, Restore, Fill, Sync, FlagInv
  <2>2. CASE NextWaiting
    BY <1>1, <1>2, <2>2 DEF NextWaiting
  <2>3. CASE CheckMember
    BY <1>1, <2>3 DEF CheckMember
  <2>4. CASE UntaintGroup
    BY <1>1, <2>4 DEF UntaintGroup
  <2>5. CASE Forget
    BY <1>1, <2>5 DEF Forget
  <2>6. CASE TakeActive
    BY <1>1, <2>6 DEF TakeActive, SlotInv
  <2>7. CASE CheckActive
    BY <1>1, <1>3, <2>7 DEF CheckActive
  <2>8. CASE Down
    <3>1. CASE Owner(groups, Head(la)[2]) = {}
      BY <1>1, <1>3, <2>8, <3>1 DEF Down
    <3>2. ASSUME NEW g \in Owner(groups, Head(la)[2]), lg' = g,
                 lpc' = IF g \in pending THEN "rewatch" ELSE "fill",
                 lret' = IF g \in pending THEN "sleep" ELSE "rewatch",
                 UNCHANGED la
          PROVE  PlaceInv'
      <4>1. g \in DOMAIN member /\ g \in Nat /\ lpc = "down"
        BY <1>2, <2>8 DEF Down, Owner
      <4>2. QED
        BY <1>1, <2>8, <3>2, <4>1 DEF Down
    <3>3. QED
      BY <2>8, <3>1, <3>2 DEF Down
  <2>9. CASE Rewatch
    BY <1>1, <1>3, <2>9 DEF Rewatch
  <2>10. CASE EndRound \/ RemovePending
    BY <1>1, <2>10 DEF EndRound, RemovePending
  <2>11. QED
    BY <2>1, <2>2, <2>3, <2>4, <2>5, <2>6, <2>7, <2>8, <2>9, <2>10 DEF ListenerStep
<1>9. QED
  BY <1>4, <1>7, <1>8 DEF ShapeInv

\* at any time.
LEMMA ShapeIsKept == Spec => []ShapeInv
<1>1. Init => ShapeInv
  <2> SUFFICES ASSUME Init PROVE ShapeInv
    OBVIOUS
  <2>1. FlagInv
    BY BoundAssumption DEF Init, FlagInv
  <2>2. ActorInv
    <3>1. EventType
      BY Zenon DEF Init, EventType
    <3>2. EnvType
      BY BoundAssumption DEF Init, EnvType
    <3>3. AdmInv /\ ObjInv
      BY DEF Init, AdmInv, AdmType, AdminPC, ObjInv, Known
    <3>4. QED
      BY <3>1, <3>2, <3>3 DEF Init, ActorInv
  <2>3. PlaceInv
    <3>1. <<>> \in Seq(Object)
      OBVIOUS
    <3>2. QED
      BY <3>1 DEF Init, PlaceInv, LisType, HasGroup, HasServer, ListenerPC
  <2>4. QED
    BY <2>1, <2>2, <2>3 DEF ShapeInv
<1>2. TopoInv /\ SlotInv /\ LoadInv /\ ShapeInv /\ [Next]_vars => ShapeInv'
  <2> SUFFICES ASSUME TopoInv, SlotInv, LoadInv, ShapeInv, [Next]_vars PROVE ShapeInv'
    OBVIOUS
  <2>1. CASE UNCHANGED vars
    BY <2>1 DEF vars, topoVars, flagVars, eventVars, reqVars, admVars, lisVars,
       workVars, watchVars, envVars, histVars, ShapeInv, FlagInv, ActorInv, PlaceInv,
       AdmInv, AdmType, ObjInv, Known, EventType, EnvType, LisType, HasGroup, HasServer
  <2>2. QED
    BY <2>1, RequestKeepsShape, OperatorKeepsShape, ListenerKeepsShape DEF Next
<1>3. QED
  BY <1>1, <1>2, TopologyIsKept, SlotsAreDistinct, LoadsAreKept, PTL DEF Spec

\* Every variable has its type: a count that goes below zero, a failure counter
\* above its limit or a flag on a group that never was would be outside.
THEOREM TypesAreRight == Spec => []TypeOK
<1>1. TopoInv /\ SlotInv /\ CountInv /\ LoadInv /\ ShapeInv => TypeOK
  <2> SUFFICES ASSUME TopoInv, SlotInv, CountInv, LoadInv, ShapeInv PROVE TypeOK
    OBVIOUS
  <2>1. requestNum \in Nat
    BY RequestAssumption, FS_Subset, FS_CardinalityType DEF CountInv, Counted
  <2>2. ReqType
    BY <2>1 DEF ReqType, CountInv, LoadInv, ShapeInv, ActorInv, ObjInv
  <2>3. TopoType /\ FlagType
    BY DEF TopoType, FlagType, TopoInv, SlotInv, LoadInv, ShapeInv, FlagInv
  <2>4. QED
    BY <2>2, <2>3 DEF TypeOK, ShapeInv, FlagInv, ActorInv, PlaceInv, AdmInv,
       WatchType, HistType, CountInv
<1>2. QED
  BY <1>1, TopologyIsKept, SlotsAreDistinct, CountIsKept, LoadsAreKept, ShapeIsKept, PTL

-----------------------------------------------------------------------------
(* The life of a group.                                                     *)

Stages == [g \in GroupId |-> Stage(g)]

\* The stage of one group changes as BackendGroups allows, and no other does.
LEMMA OneGroupMoves ==
    ASSUME NEW g \in GroupId, NEW from, Stage(g) \in from, NEW to, Stage(g)' = to,
           \A h \in GroupId \ {g} : Stage(h)' = Stage(h)
    PROVE  Lifecycle!Move(g, from, to)
  BY DEF Lifecycle!Move

\* Where the groups there are stay, the stages follow from the two flags.
LEMMA SameStages ==
    ASSUME UNCHANGED <<member, groups, tainted, pending>>
    PROVE  UNCHANGED Stages
  BY DEF Stages, Stage

\* A group is isolated, by anyone: unless it is being removed or has gone.
LEMMA TaintIsolates ==
    ASSUME TopoInv, NEW g, Taint(g), UNCHANGED <<member, groups>>
    PROVE  Lifecycle!Next \/ UNCHANGED Stages
<1>1. \A h \in GroupId : h # g => Stage(h)' = Stage(h)
  BY DEF Taint, flagVars, Stage
<1>2. CASE g \in GroupId /\ Stage(g) = "serving"
  <2>1. Stage(g)' = "isolated"
    BY <1>2 DEF Taint, flagVars, Stage
  <2>2. Lifecycle!Isolate(g)
    BY <1>1, <1>2, <2>1, OneGroupMoves DEF Lifecycle!Isolate
  <2>3. QED
    BY <1>2, <2>2 DEF Lifecycle!Next
<1>3. CASE Stage(g) # "serving"
  <2>1. Stage(g)' = Stage(g)
    BY <1>3 DEF Taint, flagVars, Stage
  <2>2. QED
    BY <1>1, <2>1 DEF Stages
<1>4. CASE g \notin GroupId
  BY <1>1, <1>4 DEF Stages
<1>5. QED
  BY <1>2, <1>3, <1>4

\* A group is selectable again, by anyone: unless its removal was asked for.
LEMMA UntaintRestores ==
    ASSUME TopoInv, NEW g, Untaint(g), UNCHANGED <<member, groups>>
    PROVE  Lifecycle!Next \/ UNCHANGED Stages
<1>1. \A h \in GroupId : h # g => Stage(h)' = Stage(h)
  BY DEF Untaint, Stage
<1>2. CASE g \in GroupId /\ Stage(g) = "isolated"
  <2>1. Stage(g)' = "serving"
    BY <1>2 DEF Untaint, Stage
  <2>2. Lifecycle!Restore(g)
    BY <1>1, <1>2, <2>1, OneGroupMoves DEF Lifecycle!Restore
  <2>3. QED
    BY <1>2, <2>2 DEF Lifecycle!Next
<1>3. CASE Stage(g) # "isolated"
  <2>1. Stage(g)' = Stage(g)
    BY <1>3 DEF Untaint, Stage
  <2>2. QED
    BY <1>1, <2>1 DEF Stages
<1>4. CASE g \notin GroupId
  BY <1>1, <1>4 DEF Stages
<1>5. QED
  BY <1>2, <1>3, <1>4

\* Steps that create or remove no group isolate one, restore one, or neither.
LEMMA QuietMovesOne ==
    ASSUME TopoInv, Quiet
    PROVE  Lifecycle!Next \/ UNCHANGED Stages
<1>1. UNCHANGED <<member, groups, pending>>
  BY QuietKeepsTopology DEF topoVars
<1>2. (\E g : Taint(g)) \/ (\E g : Untaint(g)) \/ UNCHANGED tainted
  <2>1. ASSUME NEW r \in Request, RequestStep(r)
        PROVE  (\E g : Taint(g)) \/ UNCHANGED tainted
    BY <2>1 DEF RequestStep, Arrive, Vanish, Pick, Recheck, TimeOut, Select,
       Resolve, Finish, Break, BreakWatch, flagVars
  <2>2. CASE UntaintGroup \/ Down \/ AddRestore \/ AddIsolate
    BY <2>2 DEF UntaintGroup, Down, AddRestore, AddIsolate, flagVars
  <2>3. CASE RunCallback \/ (\E m \in Offered : AddKnown(m)) \/ AddCheck
    BY <2>3 DEF RunCallback, AddKnown, AddCheck, flagVars
  <2>4. CASE \/ Snapshot \/ NextWaiting \/ CheckMember \/ Restore \/ Forget
             \/ TakeActive \/ CheckActive \/ Rewatch \/ EndRound \/ Fill \/ Sync
             \/ \E s \in Server : Flip(s)
             \/ UNCHANGED vars
    BY <2>4 DEF Snapshot, NextWaiting, CheckMember, Restore, Forget, TakeActive,
       CheckActive, Rewatch, EndRound, Fill, Sync, Flip, flagVars, vars
  <2>5. QED
    BY <2>1, <2>2, <2>3, <2>4 DEF Quiet
<1>3. QED
  BY <1>1, <1>2, TaintIsolates, UntaintRestores, SameStages

\* A new group begins its life serving.
LEMMA AddNewAdds ==
    ASSUME TopoInv, NEW m \in Offered, AddNew(m)
    PROVE  Lifecycle!Next
<1>1. PICK g : g = Len(member) + 1
  OBVIOUS
<1>2. /\ m \in MemberSeq /\ member' = Append(member, m) /\ UNCHANGED pending
      /\ groups' = groups \cup {g} /\ g <= MaxGroups /\ tainted' = tainted \cup {g}
  BY <1>1, GroupAssumption DEF AddNew
<1>3. /\ DOMAIN member' = DOMAIN member \cup {g} /\ g \notin DOMAIN member
      /\ g \in GroupId
  BY <1>1, <1>2, AppendProperties, LenProperties, BoundAssumption DEF TopoInv, GroupId
<1>4. Stage(g) = "unknown" /\ Stage(g)' = "isolated"
  <2>1. \A h : h \in pending => h \in DOMAIN member
    BY DEF TopoInv
  <2>2. QED
    BY <1>2, <1>3, <2>1 DEF Stage
<1>5. \A h \in GroupId \ {g} : Stage(h)' = Stage(h)
  BY <1>2, <1>3 DEF Stage
<1>6. Lifecycle!Add(g)
  BY <1>3, <1>4, <1>5, OneGroupMoves DEF Lifecycle!Add
<1>7. QED
  BY <1>3, <1>6 DEF Lifecycle!Next

\* The operator retires a group or removes one that nobody uses.
LEMMA OperatorRetires ==
    ASSUME TopoInv, NEW s \in Server, Retire(s) \/ RemoveNow(s)
    PROVE  Lifecycle!Next \/ UNCHANGED Stages
<1>1. PICK g \in Owner(groups, s) :
        /\ UNCHANGED member
        /\ \/ /\ groups' = groups \ {g} /\ UNCHANGED <<tainted, pending>>
           \/ /\ UNCHANGED groups /\ tainted' = tainted \cup {g}
              /\ pending' = pending \cup {g}
  BY DEF Retire, RemoveNow, Drop, topoVars
<1>2. g \in groups /\ g \in DOMAIN member /\ g \in GroupId
  BY <1>1, LenProperties, BoundAssumption DEF Owner, TopoInv, GroupId
<1>3. /\ Stage(g) \in {"serving", "isolated", "retiring"}
      /\ Stage(g)' \in {"retiring", "removed"}
      /\ \A h \in GroupId \ {g} : Stage(h)' = Stage(h)
  BY <1>1, <1>2 DEF Stage
<1>4. CASE Stage(g) = "retiring" /\ Stage(g)' = "removed"
  <2>1. Stages' = [h \in GroupId |-> IF h \in {g} THEN "removed" ELSE Stages[h]]
    BY <1>3, <1>4 DEF Stages
  <2>2. Lifecycle!RemoveRetired({g})
    BY <1>2, <1>4, <2>1 DEF Lifecycle!RemoveRetired, Stages
  <2>3. QED
    BY <1>2, <2>2 DEF Lifecycle!Next
<1>5. CASE Stage(g) = "retiring" /\ Stage(g)' = "retiring"
  BY <1>3, <1>5 DEF Stages
<1>6. CASE Stage(g) # "retiring"
  <2>1. Lifecycle!Retire(g) \/ Lifecycle!Remove(g)
    BY <1>2, <1>3, <1>6, OneGroupMoves DEF Lifecycle!Retire, Lifecycle!Remove
  <2>2. QED
    BY <1>2, <2>1 DEF Lifecycle!Next
<1>7. QED
  BY <1>3, <1>4, <1>5, <1>6

\* The retired groups that nobody uses are removed together.
LEMMA ListenerRemoves ==
    ASSUME TopoInv, RemovePending
    PROVE  Lifecycle!Next \/ UNCHANGED Stages
<1> DEFINE gs == groups \cap pending
<1>1. CASE gs = {}
  BY <1>1, SameStages DEF RemovePending, topoVars, flagVars
<1>2. CASE gs # {}
  <2>1. groups' = groups \ gs /\ UNCHANGED <<member, tainted, pending>>
    BY <1>2 DEF RemovePending, Drop
  <2>2. gs \in SUBSET GroupId /\ \A g \in gs : g \in DOMAIN member
    BY LenProperties, BoundAssumption DEF TopoInv, GroupId
  <2>3. \A g \in gs : Stage(g) = "retiring" /\ Stage(g)' = "removed"
    BY <2>1, <2>2 DEF Stage
  <2>4. \A g \in GroupId \ gs : Stage(g)' = Stage(g)
    BY <2>1 DEF Stage
  <2>5. Stages' = [h \in GroupId |-> IF h \in gs THEN "removed" ELSE Stages[h]]
    BY <2>3, <2>4 DEF Stages
  <2>6. Lifecycle!RemoveRetired(gs)
    BY <1>2, <2>2, <2>3, <2>5 DEF Lifecycle!RemoveRetired, Stages
  <2>7. QED
    BY <2>2, <2>6 DEF Lifecycle!Next
<1>3. QED
  BY <1>1, <1>2

\* The pool keeps the promise of BackendGroups: the event loop and the listener
\* together move each group as one of its steps allows.
THEOREM ImplementsGroups == Spec => LifecycleSpec
<1>1. Init => Lifecycle!Init
  BY GroupAssumption DEF Init, Lifecycle!Init, Stage
<1>2. TopoInv /\ [Next]_vars => [Lifecycle!Next]_Stages
  BY StepKinds, QuietMovesOne, AddNewAdds, OperatorRetires, ListenerRemoves
<1>3. QED
  BY <1>1, <1>2, TopologyIsKept, PTL DEF Spec, LifecycleSpec, Lifecycle!Spec, Stages

\* A group whose removal was asked for never serves again, in anything that
\* keeps the promise.
THEOREM RetiredNeverServes ==
    LifecycleSpec =>
      [][\A g \in GroupId : Stage(g) \in {"retiring", "removed"}
                              => Stage(g)' \in {"retiring", "removed"}]_Stages
<1>1. [Lifecycle!Next]_Stages =>
        [\A g \in GroupId : Stage(g) \in {"retiring", "removed"}
                              => Stage(g)' \in {"retiring", "removed"}]_Stages
  <2> SUFFICES ASSUME Lifecycle!Next, NEW g \in GroupId,
                      Stages[g] \in {"retiring", "removed"}
               PROVE  Stages'[g] \in {"retiring", "removed"}
    BY DEF Stages
  <2>1. ASSUME NEW h \in GroupId, NEW from, NEW to, Lifecycle!Move(h, from, to),
               "retiring" \notin from, "removed" \notin from
        PROVE  Stages'[g] \in {"retiring", "removed"}
    BY <2>1 DEF Lifecycle!Move, Stages
  <2>2. ASSUME NEW gs \in SUBSET GroupId, Lifecycle!RemoveRetired(gs)
        PROVE  Stages'[g] \in {"retiring", "removed"}
    BY <2>2 DEF Lifecycle!RemoveRetired, Stages
  <2>3. QED
    BY <2>1, <2>2 DEF Lifecycle!Next, Lifecycle!Add, Lifecycle!Isolate,
       Lifecycle!Restore, Lifecycle!Retire, Lifecycle!Remove
<1>2. QED
  BY <1>1, PTL DEF LifecycleSpec, Lifecycle!Spec, Stages
=============================================================================
