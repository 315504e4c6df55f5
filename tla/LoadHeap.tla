------------------------------ MODULE LoadHeap ------------------------------
(***************************************************************************)
(* How the load-balancing proxy chooses a backend: prefiller_heap (and its *)
(* two copies) of ProxyState, a heapq list of (priority, index) pairs that *)
(* select_*, release_* and the isolation of a group keep up to date.       *)
(* heapq is translated as it is, because the code takes an entry out of    *)
(* the middle of the list without restoring the heap.  A prefill is        *)
(* weighed by its tokens; the KV share of the priority is left out.        *)
(***************************************************************************)
EXTENDS Naturals, SequencesExt

CONSTANTS Servers,    \* number of backends; an index is 1..Servers
          Weights,    \* token counts of requests
          MaxHeld     \* bound: requests that run at once

VARIABLES load, isolated, heap, held   \* held: how many requests of a weight an index has
vars == <<load, isolated, heap, held>>

Index == 1..Servers
TaintPriority == 1000
Priority(i) == IF i \in isolated THEN TaintPriority ELSE load[i]
Before(a, b) == a[1] < b[1] \/ (a[1] = b[1] /\ a[2] < b[2])

(***************************************************************************)
(* heapq                                                                   *)
(***************************************************************************)
Swap(h, i, j) == [h EXCEPT ![i] = h[j], ![j] = h[i]]

\* _siftdown: towards the root, not beyond position top.
Up(now, top) ==
    LET parent == now.at \div 2 IN
    IF now.at > top /\ Before(now.heap[now.at], now.heap[parent])
      THEN [heap |-> Swap(now.heap, now.at, parent), at |-> parent] ELSE now
Rise(h, i, top) ==
    LET moved[k \in 0..i] == IF k = 0 THEN [heap |-> h, at |-> i] ELSE Up(moved[k - 1], top)
    IN  moved[i].heap

\* _siftup: along the smaller children to a leaf, and back up.
Smaller(h, i) == LET left == 2 * i
                 IN IF left < Len(h) /\ ~Before(h[left], h[left + 1])
                      THEN left + 1 ELSE left
Down(now) ==
    LET child == Smaller(now.heap, now.at) IN
    IF 2 * now.at > Len(now.heap) THEN now
      ELSE [heap |-> Swap(now.heap, now.at, child), at |-> child]
Sink(h, i, top) ==
    LET moved[k \in 0..Len(h)] == IF k = 0 THEN [heap |-> h, at |-> i] ELSE Down(moved[k - 1])
        leaf == moved[Len(h)]
    IN  Rise(leaf.heap, leaf.at, top)

Push(h, entry) == Rise(Append(h, entry), Len(h) + 1, 1)
\* What is left when the root is taken.
Pop(h) == LET rest == Front(h) IN
          IF rest = <<>> THEN rest ELSE Sink([rest EXCEPT ![1] = Last(h)], 1, 1)
Heapify(h) ==
    LET last == Len(h) \div 2
        ordered[k \in 0..last] ==
            IF k = 0 THEN SubSeq(h, 1, Len(h)) ELSE Sink(ordered[k - 1], last + 1 - k, last + 1 - k)
    IN  ordered[last]

(***************************************************************************)
(* ProxyState                                                              *)
(***************************************************************************)
Init == /\ load = [i \in Index |-> 0]
        /\ isolated = {}
        /\ heap = Heapify([i \in Index |-> <<0, i>>])
        /\ held = [i \in Index, w \in Weights |-> 0]

\* Mutant: the old entry of the server stays.
MutUpdate(h, i, priority) == Push(h, <<priority, i>>)
\* _update_*_priority
Without(h, i) == FlattenSeq([p \in DOMAIN h |-> IF h[p][2] = i THEN <<>> ELSE <<h[p]>>])
Update(h, i, priority) == Push(Without(h, i), <<priority, i>>)

HasAvailable == \E p \in DOMAIN heap : heap[p][1] < TaintPriority

\* The root is refused and put back when it is isolated, whatever else is in the heap.
Select(weight) ==
    /\ MapThenSumSet(LAMBDA iw : held[iw], DOMAIN held) < MaxHeld
    /\ HasAvailable
    /\ LET chosen == heap[1][2] IN
       IF heap[1][1] < TaintPriority
         THEN /\ load' = [load EXCEPT ![chosen] = @ + weight]
              /\ heap' = Update(Pop(heap), chosen, load'[chosen])
              /\ held' = [held EXCEPT ![<<chosen, weight>>] = @ + 1]
         ELSE heap' = Push(Pop(heap), heap[1]) /\ UNCHANGED <<load, held>>
    /\ UNCHANGED isolated

Release(i, weight) ==
    /\ held[i, weight] > 0
    /\ load' = [load EXCEPT ![i] = IF @ > weight THEN @ - weight ELSE 0]
    /\ heap' = Update(heap, i, IF i \in isolated THEN TaintPriority ELSE load'[i])
    /\ held' = [held EXCEPT ![<<i, weight>>] = @ - 1]
    /\ UNCHANGED isolated

\* taint_group and restore_group rebuild the heap from the topology.
Rebuild(iso) ==
    /\ isolated' = iso
    /\ heap' = Heapify([i \in Index |->
                 <<IF i \in iso THEN TaintPriority ELSE load[i], i>>])
    /\ UNCHANGED <<load, held>>

Selects == \E weight \in Weights : Select(weight)
Releases == \E i \in Index, weight \in Weights : Release(i, weight)
Regroups == \E i \in Index : Rebuild(isolated \cup {i}) \/ Rebuild(isolated \ {i})
Next == Selects \/ Releases \/ Regroups

\* Each server is in the heap once, with the priority its load and its group
\* give it now: an isolated backend is never taken for a free one, and no
\* backend drops out of the choice.
HeapIsTrue ==
    /\ Len(heap) = Servers
    /\ \A i \in Index : \E p \in DOMAIN heap : heap[p] = <<Priority(i), i>>

\* The list is a heap: no entry comes before its parent.
IsHeap == \A p \in 2..Len(heap) : ~Before(heap[p], heap[p \div 2])

\* The backend at the root, which is the one selected, has the least load.
RootIsLeast == \A i \in Index : ~Before(<<Priority(i), i>>, heap[1])

\* As long as the list is a heap, the choice is right.
HeapGivesLeast == IsHeap => RootIsLeast
\* Isolation and restoration make a heap of any list, and a selection keeps one.
\* A release need not: it takes an entry out of the middle of the list.  It leaves
\* a least loaded server at the root that had one; but the selections that follow
\* may bring up another (with five servers RootIsLeast can be false).
OrderIsKept == /\ Regroups \/ (Selects /\ IsHeap) => IsHeap'
               /\ Releases /\ RootIsLeast => RootIsLeast'
=============================================================================
