----------------------------- MODULE ProxyPool -----------------------------
(***************************************************************************)
(* The backend groups of one instance type in the load-balancing proxy     *)
(* (load_balance_proxy_server_example.py, ProxyState and NodeListener).    *)
(* Prefill, decode and mixed groups are kept by three copies of the same   *)
(* code; this module is one copy.                                          *)
(*                                                                         *)
(* Two threads work on the groups: the event loop, which runs the requests *)
(* and the operator's add and remove handlers, one at a time between two   *)
(* awaits; and the listener thread, which polls the backends.  They share  *)
(* the selection lock, the lock of waiting_groups, and otherwise plain     *)
(* attributes.  An action is the code between two points where the other   *)
(* thread can be observed.                                                 *)
(***************************************************************************)
EXTENDS Naturals, FiniteSets, SequencesExt

CONSTANTS Server,       \* endpoints host:port
          Request,      \* client requests
          Initial,      \* sequence of the member sequences given at start-up
          Offered,      \* member sequences an operator may add
          MaxFailures,  \* NodeListener.max_failures
          MaxGroups,    \* bound: groups ever created
          MaxFlips,     \* bound: changes of a backend's health
          MaxErrors,    \* bound: streams that break on a healthy backend
          MaxLost,      \* bound: clients gone before their stream starts
          MaxCalls,     \* bound: groups the operator adds or removes
          None

GroupId == 1..MaxGroups
\* The members of a group are distinct: _build_instance_groups sees to it, and
\* the operator is taken to name an endpoint once.
MemberSeq == {m \in UNION {[1..n -> Server] : n \in 1..Cardinality(Server)} :
                \A i, j \in DOMAIN m : m[i] = m[j] => i = j}
\* A ServerState object: re-adding an endpoint creates a new one.
Object == GroupId \X Server

ASSUME ServerAssumption == IsFiniteSet(Server) /\ None \notin Object
ASSUME RequestAssumption == IsFiniteSet(Request)
ASSUME GroupAssumption == /\ Initial \in Seq(MemberSeq)
                          /\ Len(Initial) \leq MaxGroups
                          /\ Offered \subseteq MemberSeq
ASSUME BoundAssumption == /\ MaxFailures \in Nat \ {0}
                          /\ MaxGroups \in Nat
                          /\ MaxFlips \in Nat
                          /\ MaxErrors \in Nat
                          /\ MaxLost \in Nat
                          /\ MaxCalls \in Nat

VARIABLES
    \* the topology
    member,      \* group id -> its endpoints; ids are never used again
    groups,      \* ids in prefiller_groups / decoder_groups / mixed_groups
    slots,       \* the flat list of server objects that indices refer to
    tainted,     \* groups with tainted set
    pending,     \* groups with pending_removal set
    tservers,    \* the list tainted_*: endpoints, compared by host and port
    load,        \* active_tokens of each server object, in requests
    \* the availability event
    event,       \* *_available_event
    callback,    \* an apply_event_states is queued with call_soon_threadsafe
    \* the requests
    rpc,         \* control point of each request
    idx,         \* the index select_* returned
    obj,         \* the server object that was read at that index
    requestNum,  \* ProxyState.request_num
    \* the operator's handler
    apc,         \* its control point
    ag,          \* the group add_instance_groups is checking
    ak,          \* the member it checks next
    \* the listener thread
    lpc,         \* control point
    lret,        \* where it goes on after a rebuild of the heap
    lw,          \* groups it still has to check, or to remove
    la,          \* server objects it still has to check
    lg,          \* the group it works on
    lk,          \* the member it checks next
    lbad,        \* a member was unhealthy
    lref,        \* the tainted list _check_active_servers took; None: current
    watching,    \* NodeListener.waiting_groups
    failures,    \* failure_counters
    \* the environment
    up,          \* the endpoints whose /metrics answers
    used,        \* how much of each bound has been used
    \* history
    dropped,     \* groups isolated again before the listener forgot them
    shifted      \* a removal moved the indices that requests held

topoVars == <<member, groups, slots>>
flagVars == <<tainted, pending, tservers>>
eventVars == <<event, callback>>
reqVars == <<rpc, idx, obj, requestNum>>
admVars == <<apc, ag, ak>>
workVars == <<lw, la, lg, lk, lbad>>
lisVars == <<lpc, lret, workVars, lref>>
watchVars == <<watching, failures>>
envVars == <<up, used>>
histVars == <<dropped, shifted>>
vars == <<topoVars, flagVars, load, eventVars, reqVars, admVars, lisVars,
          watchVars, envVars, histVars>>

\* "recheck", "select", "resolve" and "watch" are inside a handler that has
\* not awaited: no other handler runs meanwhile.
RequestPC == {"new", "pick", "recheck", "waiting", "woken",
              "select", "resolve", "active", "watch", "lost", "done"}
Busy == {"recheck", "select", "resolve", "watch"}
AdminPC == {"idle", "check", "restore", "isolate"}
ListenerPC == {"sleep", "waiting", "member", "restore", "untaint", "forget",
               "active", "down", "rewatch", "remove",
               "fill", "sync"}

Members(g) == {member[g][k] : k \in DOMAIN member[g]}
Objects(g) == [k \in DOMAIN member[g] |-> <<g, member[g][k]>>]
Owner(gs, s) == {g \in gs : s \in Members(g)}
\* The flat list of the servers of these groups, in the groups' order.
Flat(gs) == FlattenSeq([g \in DOMAIN member |-> IF g \in gs THEN Objects(g) ELSE <<>>])
Selectable == (groups \ tainted) \ pending

\* The listener's critical sections end with the heap list being filled.
LockFree == lpc # "fill"

\* has_available_*: every change of a flag ends in a rebuild of the heap, so its
\* priorities follow the flags; it is read without the lock, and while the
\* listener rebuilds it the list is still empty.
Available == LockFree /\ Selectable # {}

LoopFree == apc = "idle" /\ \A r \in Request : rpc[r] \notin Busy

Woken(rp) == [r \in Request |-> IF rp[r] = "waiting" THEN "woken" ELSE rp[r]]

\* _sync_availability_events on the event loop: gs is the groups there are now,
\* rp the requests' control points.
Announce(gs, rp) == LET some == (gs \ tainted') \ pending' # {}
                    IN  /\ event' = some
                        /\ rpc' = IF some THEN Woken(rp) ELSE rp
                        /\ UNCHANGED callback

\* The list tainted_* is replaced by another: the listener, if it is going
\* through the active servers, keeps the list it took.
Replaced == IF /\ lref = None
               /\ \/ lpc \in {"active", "down", "rewatch"}
                  \/ lpc \in {"fill", "sync"} /\ lret = "rewatch"
            THEN lref' = tservers
            ELSE UNCHANGED lref

\* _rebuild_*_topology: the tainted list follows from the flags.
Rebuilt(gs, off) == UNION {Members(g) : g \in gs \cap off}

Held == {r \in Request : rpc[r] \in {"resolve", "active", "watch"}}

Init == /\ member = Initial
        /\ groups = DOMAIN Initial
        /\ slots = Flat(groups)
        /\ tainted = {} /\ pending = {} /\ tservers = {}
        /\ load = [o \in Object |-> 0]
        /\ event = (Initial # <<>>) /\ callback = FALSE
        /\ rpc = [r \in Request |-> "new"]
        /\ idx = [r \in Request |-> 0]
        /\ obj = [r \in Request |-> None]
        /\ requestNum = 0
        /\ apc = "idle" /\ ag = 0 /\ ak = 0
        /\ lpc = "sleep" /\ lret = "sleep" /\ lref = None
        /\ lw = {} /\ la = <<>> /\ lg = 0 /\ lk = 0 /\ lbad = FALSE
        /\ watching = {} /\ failures = [s \in Server |-> 0]
        /\ up = Server
        /\ used = [flips |-> 0, errors |-> 0, lost |-> 0, calls |-> 0]
        /\ dropped = {} /\ shifted = FALSE

-----------------------------------------------------------------------------
(* The groups' operations, as they are called by either thread.            *)

\* taint_group, up to the heap: nothing for a group that is being removed.
Taint(g) == IF g \in pending
            THEN UNCHANGED flagVars
            ELSE /\ tainted' = tainted \cup {g}
                 /\ tservers' = tservers \cup Members(g)
                 /\ UNCHANGED pending

\* Mutant: clears both flags of the group.
MutUntaint(g) == /\ tainted' = tainted \ {g}
                 /\ tservers' = tservers \ Members(g)
                 /\ pending' = pending \ {g}

\* restore_group, once it has passed its test of pending_removal.
Untaint(g) == /\ tainted' = tainted \ {g}
              /\ tservers' = tservers \ Members(g)
              /\ UNCHANGED pending

\* NodeListener.watch_group
Watch(g) == IF g \in pending
            THEN UNCHANGED watchVars
            ELSE /\ watching' = watching \cup {g}
                 /\ failures' = [s \in Server |->
                                   IF s \in Members(g) THEN 0 ELSE failures[s]]

\* _remove_groups_now, up to the heap. Indices of later servers shift.
Drop(gs) == /\ groups' = groups \ gs
            /\ slots' = Flat(groups \ gs)
            /\ tservers' = Rebuilt(groups \ gs, tainted \cup pending)
            /\ watching' = watching \ gs
            /\ shifted' = (shifted \/ Held # {})
            /\ UNCHANGED <<member, tainted, pending, failures>>

\* Mutant: the load is not kept from going below zero.
MutRelease(i) == load' = IF i > Len(slots) THEN load
                         ELSE [load EXCEPT ![slots[i]] = @ - 1]

\* release_*: by index; an index past the end is ignored, a load stops at 0.
Release(i) == load' = IF i > Len(slots) THEN load
                      ELSE [load EXCEPT ![slots[i]] = IF @ > 0 THEN @ - 1 ELSE 0]

-----------------------------------------------------------------------------
(* The requests, on the event loop.                                        *)

\* _handle_completions counts the request, and its response is iterated ...
Arrive(r) == /\ LoopFree /\ rpc[r] = "new"
             /\ rpc' = [rpc EXCEPT ![r] = "pick"]
             /\ requestNum' = requestNum + 1
             /\ UNCHANGED <<topoVars, flagVars, load, eventVars, idx, obj, admVars,
                            lisVars, watchVars, envVars, histVars>>

\* ... or never: the client has gone, and the generator whose finally block
\* would take the request off the count does not start.
Vanish(r) == /\ LoopFree /\ rpc[r] = "new" /\ used.lost < MaxLost
             /\ rpc' = [rpc EXCEPT ![r] = "lost"]
             /\ requestNum' = requestNum + 1
             /\ used' = [used EXCEPT !.lost = @ + 1]
             /\ UNCHANGED <<topoVars, flagVars, load, eventVars, idx, obj, admVars,
                            lisVars, watchVars, up, histVars>>

\* while not has_available: wait_for_* clears the event before it tests again.
\* Also after a wake-up, which clears the event when it was a false alarm.
Pick(r) == /\ LoopFree /\ rpc[r] \in {"pick", "woken"}
           /\ IF Available
              THEN /\ rpc' = [rpc EXCEPT ![r] = "select"]
                   /\ UNCHANGED event
              ELSE /\ rpc' = [rpc EXCEPT ![r] = "recheck"]
                   /\ event' = FALSE
           /\ UNCHANGED <<topoVars, flagVars, load, callback, idx, obj,
                          requestNum, admVars, lisVars, watchVars, envVars, histVars>>

Recheck(r) == /\ rpc[r] = "recheck"
              /\ IF Available
                 THEN /\ rpc' = [Woken(rpc) EXCEPT ![r] = "pick"]
                      /\ event' = TRUE
                 ELSE /\ rpc' = [rpc EXCEPT ![r] = "waiting"]
                      /\ UNCHANGED event
              /\ UNCHANGED <<topoVars, flagVars, load, callback, idx, obj,
                             requestNum, admVars, lisVars, watchVars, envVars, histVars>>

\* wait_for times out after at most five seconds, and the request tries again;
\* or its recovery window is over, or its client leaves: it ends.
TimeOut(r) == /\ LoopFree /\ rpc[r] = "waiting"
              /\ \/ /\ rpc' = [rpc EXCEPT ![r] = "pick"]
                    /\ UNCHANGED requestNum
                 \/ /\ rpc' = [rpc EXCEPT ![r] = "done"]
                    /\ requestNum' = requestNum - 1
              /\ UNCHANGED <<topoVars, flagVars, load, eventVars, idx, obj,
                             admVars, lisVars, watchVars, envVars, histVars>>

\* select_*: the healthy server with the least load, the first of equals. The
\* groups may have changed since has_available was read.
Least(i) == /\ slots[i][1] \in Selectable
            /\ \A j \in DOMAIN slots :
                 slots[j][1] \in Selectable =>
                   \/ load[slots[i]] < load[slots[j]]
                   \/ load[slots[i]] = load[slots[j]] /\ i \leq j

Select(r) == /\ rpc[r] = "select" /\ LockFree
             /\ \/ /\ Selectable = {}
                   /\ rpc' = [rpc EXCEPT ![r] = "pick"]
                   /\ UNCHANGED <<load, idx>>
                \/ \E i \in DOMAIN slots :
                     /\ Least(i)
                     /\ load' = [load EXCEPT ![slots[i]] = @ + 1]
                     /\ idx' = [idx EXCEPT ![r] = i]
                     /\ rpc' = [rpc EXCEPT ![r] = "resolve"]
             /\ UNCHANGED <<topoVars, flagVars, eventVars, obj, requestNum,
                            admVars, lisVars, watchVars, envVars, histVars>>

\* The handler reads the server at the index; an IndexError ends the request
\* before it holds an instance to release.
Resolve(r) == /\ rpc[r] = "resolve"
              /\ \/ /\ idx[r] > Len(slots)
                    /\ rpc' = [rpc EXCEPT ![r] = "done"]
                    /\ idx' = [idx EXCEPT ![r] = 0]
                    /\ requestNum' = requestNum - 1
                    /\ UNCHANGED obj
                 \/ \E o \in Object :
                      /\ idx[r] \leq Len(slots) /\ o = slots[idx[r]]
                      /\ obj' = [obj EXCEPT ![r] = o]
                      /\ rpc' = [rpc EXCEPT ![r] = "active"]
                      /\ UNCHANGED <<idx, requestNum>>
              /\ UNCHANGED <<topoVars, flagVars, load, eventVars, admVars, lisVars,
                             watchVars, envVars, histVars>>

\* The response is complete, or the client leaves.
Finish(r) == /\ LoopFree /\ LockFree /\ rpc[r] = "active"
             /\ Release(idx[r])
             /\ rpc' = [rpc EXCEPT ![r] = "done"]
             /\ obj' = [obj EXCEPT ![r] = None]
             /\ idx' = [idx EXCEPT ![r] = 0]
             /\ requestNum' = requestNum - 1
             /\ UNCHANGED <<topoVars, flagVars, eventVars, admVars, lisVars,
                            watchVars, envVars, histVars>>

\* The stream breaks because the backend is down, because the poll of the
\* tainted list says it was isolated, or for another reason. mark_*_unavailable
\* isolates the group that owns the endpoint now, and obj is that group's.
Broken(r) == obj[r][2] \notin up \/ obj[r][2] \in tservers

Break(r) == /\ LoopFree /\ LockFree /\ rpc[r] = "active"
            /\ \/ Broken(r) /\ UNCHANGED used
               \/ /\ ~Broken(r) /\ used.errors < MaxErrors
                  /\ used' = [used EXCEPT !.errors = @ + 1]
            /\ \/ /\ Owner(groups, obj[r][2]) = {}
                  /\ rpc' = [rpc EXCEPT ![r] = "watch"]
                  /\ obj' = [obj EXCEPT ![r] = None]
                  /\ UNCHANGED <<flagVars, eventVars>>
               \/ \E g \in Owner(groups, obj[r][2]) :
                    /\ Taint(g)
                    /\ obj' = [obj EXCEPT ![r] = <<g, @[2]>>]
                    /\ IF g \in pending
                       THEN rpc' = [rpc EXCEPT ![r] = "watch"] /\ UNCHANGED eventVars
                       ELSE Announce(groups, [rpc EXCEPT ![r] = "watch"])
            /\ UNCHANGED <<topoVars, load, idx, requestNum, admVars, lisVars,
                           watchVars, up, histVars>>

\* Mutant: the listener is not told.
MutBreakWatch(r) == /\ rpc[r] = "watch" /\ LockFree
                    /\ Release(idx[r])
                    /\ rpc' = [rpc EXCEPT ![r] = "pick"]
                    /\ obj' = [obj EXCEPT ![r] = None]
                    /\ idx' = [idx EXCEPT ![r] = 0]
                    /\ UNCHANGED <<topoVars, flagVars, eventVars, requestNum,
                                   admVars, lisVars, watchVars, envVars, histVars>>

\* Mutant: the load of the failed attempt is kept.
MutBreakKeep(r) == /\ rpc[r] = "watch" /\ LockFree
                   /\ IF obj[r] = None THEN UNCHANGED watchVars ELSE Watch(obj[r][1])
                   /\ rpc' = [rpc EXCEPT ![r] = "pick"]
                   /\ obj' = [obj EXCEPT ![r] = None]
                   /\ idx' = [idx EXCEPT ![r] = 0]
                   /\ UNCHANGED <<topoVars, flagVars, load, eventVars, requestNum,
                                  admVars, lisVars, envVars, histVars>>

\* The listener is told to watch the group, the load is given back, and the
\* request looks for another backend.
BreakWatch(r) == /\ rpc[r] = "watch" /\ LockFree
                 /\ IF obj[r] = None THEN UNCHANGED watchVars ELSE Watch(obj[r][1])
                 /\ Release(idx[r])
                 /\ rpc' = [rpc EXCEPT ![r] = "pick"]
                 /\ obj' = [obj EXCEPT ![r] = None]
                 /\ idx' = [idx EXCEPT ![r] = 0]
                 /\ UNCHANGED <<topoVars, flagVars, eventVars, requestNum,
                                admVars, lisVars, envVars, histVars>>

\* Mutant: apply_event_states only ever clears the event.
MutRunCallback == /\ LoopFree /\ callback
                  /\ callback' = FALSE
                  /\ event' = (event /\ Available)
                  /\ UNCHANGED <<topoVars, flagVars, load, rpc, idx, obj, requestNum,
                                 admVars, lisVars, watchVars, envVars, histVars>>

\* The event loop runs what the listener queued.
RunCallback == /\ LoopFree /\ callback
               /\ callback' = FALSE
               /\ event' = Available
               /\ rpc' = IF Available THEN Woken(rpc) ELSE rpc
               /\ UNCHANGED <<topoVars, flagVars, load, idx, obj, requestNum,
                              admVars, lisVars, watchVars, envVars, histVars>>

RequestStep(r) == \/ Arrive(r) \/ Vanish(r) \/ Pick(r) \/ Recheck(r)
                  \/ TimeOut(r) \/ Select(r) \/ Resolve(r)
                  \/ Finish(r) \/ Break(r) \/ BreakWatch(r)

-----------------------------------------------------------------------------
(* The operator's handler, on the event loop. add_instance_groups treats    *)
(* the groups of one call one after the other; a call with several groups   *)
(* is several steps here. It does not await: the loop stands still until    *)
(* every member has answered its health check.                              *)

Called == /\ used.calls < MaxCalls
          /\ used' = [used EXCEPT !.calls = @ + 1]

\* An endpoint that is already there must come with exactly its own group;
\* everything else raises ValueError and changes nothing.
AddKnown(m) == /\ LoopFree /\ Called /\ m \in Offered
               /\ \E g \in groups :
                    /\ UNION {Owner(groups, m[k]) : k \in DOMAIN m} = {g}
                    /\ Members(g) = {m[k] : k \in DOMAIN m}
                    /\ ag' = g
               /\ apc' = "check" /\ ak' = 1
               /\ UNCHANGED <<topoVars, flagVars, load, eventVars, reqVars, lisVars,
                              watchVars, up, histVars>>

\* A new group starts isolated.
AddNew(m) == LET g == Len(member) + 1
             IN  /\ LoopFree /\ LockFree /\ Called /\ m \in Offered
                 /\ \A k \in DOMAIN m : Owner(groups, m[k]) = {}
                 /\ g \leq MaxGroups
                 /\ member' = Append(member, m)
                 /\ groups' = groups \cup {g}
                 /\ slots' = slots \o [k \in DOMAIN m |-> <<g, m[k]>>]
                 /\ tainted' = tainted \cup {g} /\ UNCHANGED pending
                 /\ tservers' = Rebuilt(groups, tainted \cup pending)
                                  \cup {m[k] : k \in DOMAIN m}
                 /\ Replaced
                 /\ Announce(groups \cup {g}, rpc)
                 /\ ag' = g /\ apc' = "check" /\ ak' = 1
                 /\ UNCHANGED <<load, idx, obj, requestNum, lpc, lret, workVars,
                                watchVars, up, histVars>>

\* all() stops at the first unhealthy member.
AddCheck == /\ apc = "check"
            /\ IF member[ag][ak] \notin up THEN apc' = "isolate" /\ UNCHANGED ak
               ELSE IF ak < Len(member[ag]) THEN ak' = ak + 1 /\ UNCHANGED apc
               ELSE apc' = "restore" /\ UNCHANGED ak
            /\ UNCHANGED <<topoVars, flagVars, load, eventVars, reqVars, ag,
                           lisVars, watchVars, envVars, histVars>>

AddRestore == /\ apc = "restore" /\ LockFree
              /\ apc' = "idle" /\ ag' = 0 /\ ak' = 0
              /\ IF ag \in pending
                 THEN UNCHANGED <<flagVars, eventVars, rpc, lref>>
                 ELSE Untaint(ag) /\ Replaced /\ Announce(groups, rpc)
              /\ UNCHANGED <<topoVars, load, idx, obj, requestNum, lpc, lret, workVars,
                             watchVars, envVars, histVars>>

AddIsolate == /\ apc = "isolate" /\ LockFree
              /\ apc' = "idle" /\ ag' = 0 /\ ak' = 0
              /\ Taint(ag) /\ Watch(ag)
              /\ IF ag \in pending THEN UNCHANGED <<eventVars, rpc>>
                 ELSE Announce(groups, rpc)
              /\ UNCHANGED <<topoVars, load, idx, obj, requestNum, lisVars, envVars,
                             histVars>>

\* remove_*: while a request is counted the group of the endpoint is isolated
\* and left to the listener ...
Retire(s) == /\ LoopFree /\ LockFree /\ Called /\ requestNum > 0
             /\ \E g \in Owner(groups, s) :
                  /\ tainted' = tainted \cup {g}
                  /\ pending' = pending \cup {g}
                  /\ tservers' = tservers \cup Members(g)
                  /\ watching' = watching \ {g}
             /\ Announce(groups, rpc)
             /\ UNCHANGED <<topoVars, load, idx, obj, requestNum, admVars, lisVars,
                            failures, up, histVars>>

\* Mutant: removes at once also while requests run.
MutRemoveNow(s) == /\ LoopFree /\ LockFree /\ Called
                   /\ \E g \in Owner(groups, s) :
                        /\ Drop({g})
                        /\ Replaced
                        /\ event' = (Selectable \ {g} # {})
                        /\ rpc' = IF Selectable \ {g} # {} THEN Woken(rpc) ELSE rpc
                   /\ UNCHANGED <<load, callback, idx, obj, requestNum, admVars, lpc,
                                  lret, workVars, up, dropped>>

\* ... and otherwise removed at once.
RemoveNow(s) == /\ LoopFree /\ LockFree /\ Called /\ requestNum = 0
                /\ \E g \in Owner(groups, s) :
                     /\ Drop({g})
                     /\ Replaced
                     /\ event' = (Selectable \ {g} # {})
                     /\ rpc' = IF Selectable \ {g} # {} THEN Woken(rpc) ELSE rpc
                /\ UNCHANGED <<load, callback, idx, obj, requestNum, admVars, lpc,
                               lret, workVars, up, dropped>>

AdminStep == \/ \E m \in Offered : AddKnown(m) \/ AddNew(m)
             \/ AddCheck \/ AddRestore \/ AddIsolate
             \/ \E s \in Server : Retire(s) \/ RemoveNow(s)

-----------------------------------------------------------------------------
(* The listener thread.                                                     *)

\* Local variables that are not read again are set back to their first value.

\* The heap of the rebuild under way is complete; the lock is released.
Fill == /\ lpc = "fill" /\ lpc' = "sync"
        /\ UNCHANGED <<topoVars, flagVars, load, eventVars, reqVars, admVars, lret,
                       workVars, lref, watchVars, envVars, histVars>>

\* Mutant: the event loop is not told.
MutSync == /\ lpc = "sync" /\ lpc' = lret /\ lret' = "sleep"
           /\ UNCHANGED <<topoVars, flagVars, load, eventVars, reqVars, admVars,
                          workVars, lref, watchVars, envVars, histVars>>

Sync == /\ lpc = "sync" /\ lpc' = lret /\ lret' = "sleep"
        /\ callback' = TRUE
        /\ UNCHANGED <<topoVars, flagVars, load, event, reqVars, admVars, workVars,
                       lref, watchVars, envVars, histVars>>

\* A new round: the groups to check are copied under their lock.
Snapshot == /\ lpc = "sleep" /\ lpc' = "waiting"
            /\ lw' = watching
            /\ UNCHANGED <<topoVars, flagVars, load, eventVars, reqVars, admVars,
                           lret, la, lg, lk, lbad, lref, watchVars, envVars, histVars>>

\* _check_waiting_groups: a group that is being removed is forgotten.
NextWaiting == /\ lpc = "waiting"
               /\ \E g \in lw :
                    IF g \in pending
                    THEN /\ watching' = watching \ {g}
                         /\ lw' = lw \ {g}
                         /\ UNCHANGED <<lpc, lg, lk>>
                    ELSE /\ lpc' = "member" /\ lg' = g /\ lk' = 1
                         /\ UNCHANGED <<watching, lw>>
               /\ UNCHANGED <<topoVars, flagVars, load, eventVars, reqVars, admVars,
                              lret, la, lbad, lref, failures, envVars, histVars>>

\* Mutant: a member that once failed spoils every later round.
MutCheckMember == LET bad == lbad \/ member[lg][lk] \notin up
                      last == lk = Len(member[lg])
                  IN  /\ lpc = "member"
                      /\ lk' = IF last THEN 0 ELSE lk + 1
                      /\ lbad' = bad
                      /\ lpc' = IF ~last THEN lpc
                                ELSE IF bad THEN "waiting" ELSE "restore"
                      /\ lw' = IF last /\ bad THEN lw \ {lg} ELSE lw
                      /\ lg' = IF last /\ bad THEN 0 ELSE lg
                      /\ UNCHANGED <<topoVars, flagVars, load, eventVars, reqVars,
                                     admVars, lret, la, lref, watchVars, envVars,
                                     histVars>>

\* Every member is asked, also after one did not answer.
CheckMember == LET bad == lbad \/ member[lg][lk] \notin up
                   last == lk = Len(member[lg])
               IN  /\ lpc = "member"
                   /\ lk' = IF last THEN 0 ELSE lk + 1
                   /\ lbad' = (bad /\ ~last)
                   /\ lpc' = IF ~last THEN lpc ELSE IF bad THEN "waiting" ELSE "restore"
                   /\ lw' = IF last /\ bad THEN lw \ {lg} ELSE lw
                   /\ lg' = IF last /\ bad THEN 0 ELSE lg
                   /\ UNCHANGED <<topoVars, flagVars, load, eventVars, reqVars,
                                  admVars, lret, la, lref, watchVars, envVars,
                                  histVars>>

\* restore_group tests pending_removal before it takes the lock.
Restore == /\ lpc = "restore"
           /\ lpc' = IF lg \in pending THEN "forget" ELSE "untaint"
           /\ UNCHANGED <<topoVars, flagVars, load, eventVars, reqVars, admVars,
                          lret, workVars, lref, watchVars, envVars, histVars>>

UntaintGroup == /\ lpc = "untaint"
                /\ Untaint(lg)
                /\ lpc' = "fill" /\ lret' = "forget"
                /\ UNCHANGED <<topoVars, load, eventVars, reqVars, admVars,
                               workVars, lref, watchVars, envVars, histVars>>

\* Only now is the group taken off waiting_groups.
Forget == /\ lpc = "forget" /\ lpc' = "waiting"
          /\ watching' = watching \ {lg}
          /\ lw' = lw \ {lg} /\ lg' = 0
          /\ dropped' = IF lg \in tainted THEN dropped \cup {lg} ELSE dropped
          /\ UNCHANGED <<topoVars, flagVars, load, eventVars, reqVars, admVars, lret,
                         la, lk, lbad, lref, failures, envVars, shifted>>

\* _check_active_servers copies the list of servers, not the tainted list.
TakeActive == /\ lpc = "waiting" /\ lw = {}
              /\ lpc' = "active" /\ la' = slots
              /\ UNCHANGED <<topoVars, flagVars, load, eventVars, reqVars, admVars,
                             lret, lw, lg, lk, lbad, lref, watchVars, envVars,
                             histVars>>

TaintedSeen == IF lref = None THEN tservers ELSE lref

\* _check_and_handle_active_node: the counter is kept by endpoint.
CheckActive == LET s == Head(la)[2]
                   n == IF failures[s] < MaxFailures THEN failures[s] + 1
                        ELSE MaxFailures
               IN  /\ lpc = "active" /\ la # <<>>
                   /\ IF s \in TaintedSeen \/ s \in up
                      THEN /\ la' = Tail(la)
                           /\ failures' = IF s \in TaintedSeen THEN failures
                                          ELSE [failures EXCEPT ![s] = 0]
                           /\ UNCHANGED lpc
                      ELSE /\ failures' = [failures EXCEPT ![s] = n]
                           /\ lpc' = IF n < MaxFailures THEN "active" ELSE "down"
                           /\ la' = IF n < MaxFailures THEN Tail(la) ELSE la
                   /\ UNCHANGED <<topoVars, flagVars, load, eventVars, reqVars,
                                  admVars, lret, lw, lg, lk, lbad, lref, watching,
                                  envVars, histVars>>

\* mark_*_unavailable: an endpoint nobody owns any more is only logged.
Down == /\ lpc = "down"
        /\ IF Owner(groups, Head(la)[2]) = {}
           THEN /\ la' = Tail(la) /\ lpc' = "active"
                /\ UNCHANGED <<flagVars, lg, lret>>
           ELSE \E g \in Owner(groups, Head(la)[2]) :
                  /\ lg' = g
                  /\ Taint(g)
                  /\ lpc' = IF g \in pending THEN "rewatch" ELSE "fill"
                  /\ lret' = IF g \in pending THEN "sleep" ELSE "rewatch"
                  /\ UNCHANGED la
        /\ UNCHANGED <<topoVars, load, eventVars, reqVars, admVars, lw, lk, lbad,
                       lref, watchVars, envVars, histVars>>

Rewatch == /\ lpc = "rewatch" /\ lpc' = "active"
           /\ Watch(lg)
           /\ la' = Tail(la) /\ lg' = 0
           /\ UNCHANGED <<topoVars, flagVars, load, eventVars, reqVars, admVars,
                          lret, lw, lk, lbad, lref, envVars, histVars>>

\* Mutant: nothing is removed either when the count is zero.
MutEndRound == /\ lpc = "active" /\ la = <<>>
               /\ lpc' = IF requestNum >= 0 THEN "sleep" ELSE "remove"
               /\ lref' = None
               /\ UNCHANGED <<topoVars, flagVars, load, eventVars, reqVars, admVars,
                              lret, workVars, watchVars, envVars, histVars>>

\* finalize_pending_removals reads request_num ...
EndRound == /\ lpc = "active" /\ la = <<>>
            /\ lpc' = IF requestNum > 0 THEN "sleep" ELSE "remove"
            /\ lref' = None
            /\ UNCHANGED <<topoVars, flagVars, load, eventVars, reqVars, admVars,
                           lret, workVars, watchVars, envVars, histVars>>

\* ... and then removes the groups, whatever has arrived meanwhile.
RemovePending == /\ lpc = "remove"
                 /\ IF groups \cap pending = {}
                    THEN /\ lpc' = "sleep"
                         /\ UNCHANGED <<topoVars, flagVars, lret, watchVars, shifted>>
                    ELSE /\ Drop(groups \cap pending)
                         /\ lpc' = "fill" /\ lret' = "sleep"
                 /\ UNCHANGED <<load, eventVars, reqVars, admVars, workVars, lref,
                                envVars, dropped>>

ListenerStep == \/ Snapshot \/ NextWaiting \/ CheckMember \/ Restore
                \/ UntaintGroup \/ Forget \/ TakeActive \/ CheckActive \/ Down
                \/ Rewatch \/ EndRound \/ RemovePending \/ Fill \/ Sync

-----------------------------------------------------------------------------
\* A backend fails or comes back.
Flip(s) == /\ used.flips < MaxFlips
           /\ used' = [used EXCEPT !.flips = @ + 1]
           /\ up' = IF s \in up THEN up \ {s} ELSE up \cup {s}
           /\ UNCHANGED <<topoVars, flagVars, load, eventVars, reqVars, admVars,
                          lisVars, watchVars, histVars>>

Next == \/ \E r \in Request : RequestStep(r)
        \/ RunCallback
        \/ AdminStep
        \/ ListenerStep
        \/ \E s \in Server : Flip(s)

\* The listener is a loop; the event loop runs a queued callback in its next
\* round, whatever else is ready, and does not stop inside a handler.
Handler(r) == Pick(r) \/ Recheck(r) \/ Select(r) \/ Resolve(r) \/ BreakWatch(r)

Fairness == /\ WF_vars(ListenerStep)
            /\ SF_vars(RunCallback)
            /\ WF_vars(AddCheck \/ AddRestore \/ AddIsolate)
            /\ \A r \in Request : SF_vars(Handler(r))

Spec == Init /\ [][Next]_vars /\ Fairness

-----------------------------------------------------------------------------
TopoType == /\ member \in Seq(MemberSeq) /\ Len(member) \leq MaxGroups
            /\ groups \subseteq DOMAIN member
            /\ slots \in Seq(Object)
FlagType == /\ tainted \subseteq DOMAIN member
            /\ pending \subseteq DOMAIN member
            /\ tservers \subseteq Server
            /\ load \in [Object -> Nat]
EventType == event \in BOOLEAN /\ callback \in BOOLEAN
ReqType == /\ rpc \in [Request -> RequestPC]
           /\ idx \in [Request -> Nat]
           /\ obj \in [Request -> Object \cup {None}]
           /\ requestNum \in Nat
AdmType == apc \in AdminPC /\ ag \in Nat /\ ak \in Nat
LisType == /\ lpc \in ListenerPC /\ lret \in {"sleep", "forget", "rewatch"}
           /\ lw \subseteq DOMAIN member /\ la \in Seq(Object)
           /\ lg \in Nat /\ lk \in Nat /\ lbad \in BOOLEAN
           /\ lref \in (SUBSET Server) \cup {None}
WatchType == /\ watching \subseteq DOMAIN member
             /\ failures \in [Server -> 0..MaxFailures]
EnvType == /\ up \subseteq Server
           /\ used \in [flips : 0..MaxFlips, errors : 0..MaxErrors,
                        lost : 0..MaxLost, calls : 0..MaxCalls]
HistType == dropped \subseteq DOMAIN member /\ shifted \in BOOLEAN

\* Every variable has its type.
TypeOK == /\ TopoType /\ FlagType /\ EventType /\ ReqType /\ AdmType /\ LisType
          /\ WatchType /\ EnvType /\ HistType

\* Someone has isolated g and is about to decide or to have it watched.
Attended(g) == \/ apc # "idle" /\ ag = g
               \/ \E r \in Request : /\ rpc[r] = "watch" /\ obj[r] # None
                                     /\ obj[r][1] = g
               \/ /\ lg = g
                  /\ \/ lpc = "rewatch"
                     \/ lpc \in {"fill", "sync"} /\ lret = "rewatch"
Unattended(g) == /\ g \in (groups \cap tainted) \ pending
                 /\ g \notin watching
                 /\ ~Attended(g)

\* The table of waiting groups holds every group that is isolated and not being
\* removed, so that the listener brings it back when it is healthy.
IsolatedIsWatched == \A g \in groups : ~Unattended(g)

\* The one way to lose the watch of an isolated group: the listener had found
\* it healthy, and a stream broke before the listener forgot it.
UnwatchedWasForgotten == \A g \in groups : Unattended(g) => g \in dropped

\* No request sleeps on the event while a backend can be selected, unless the
\* event is about to be set: neither clear() nor the listener loses a wake-up.
WaiterIsAnnounced ==
    \A r \in Request : rpc[r] = "waiting" /\ Available => callback \/ lpc = "sync"

\* The load of every server that is still there is the number of requests that
\* were sent to it, until a removal overtakes a request: through failures,
\* isolation, recovery and re-addition nothing is released twice, or kept.
LoadIsExact ==
    ~shifted =>
      \A i \in DOMAIN slots : load[slots[i]] = Cardinality({r \in Held : idx[r] = i})

\* Groups are removed while no request runs, except by a listener that read
\* the count before the first request arrived: only it may shift the indices.
ShiftedByTheListener == [][shifted' # shifted => lpc = "remove"]_vars

\* Groups that wait for their removal are removed by the listener when the
\* count of requests stays at zero.
PendingIsRemoved == <>[](requestNum = 0) => []<>(groups \cap pending = {})

\* A request that sleeps is woken when a backend stays selectable.
WaiterIsWoken ==
    \A r \in Request :
      (rpc[r] = "waiting" /\ Selectable # {})
        ~> (rpc[r] # "waiting" \/ Selectable = {})

\* An isolated group whose members stay healthy is selected again, removed, or
\* was forgotten.
Healthy(g) == g \in DOMAIN member /\ Members(g) \subseteq up
GroupRecovers ==
    \A g \in GroupId :
      (g \in (groups \cap tainted) /\ Healthy(g))
        ~> (\/ g \notin groups \cap tainted \/ g \in pending
            \/ ~Healthy(g) \/ g \in dropped)

\* What the proxy promises about a group, whoever moves it.
Stage(g) == IF g \notin DOMAIN member THEN "unknown"
            ELSE IF g \notin groups THEN "removed"
            ELSE IF g \in pending THEN "retiring"
            ELSE IF g \in tainted THEN "isolated" ELSE "serving"
Lifecycle == INSTANCE BackendGroups WITH stage <- [g \in GroupId |-> Stage(g)]
LifecycleSpec == Lifecycle!Spec
============================================================================
