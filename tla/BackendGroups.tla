--------------------------- MODULE BackendGroups ---------------------------
(***************************************************************************)
(* What the proxy promises about its backend groups: a group starts        *)
(* isolated or serving, moves between the two as its members fail and      *)
(* recover, and once its removal was asked for it only ever leaves.        *)
(***************************************************************************)
CONSTANT GroupId
VARIABLE stage

Stages == {"unknown", "serving", "isolated", "retiring", "removed"}

Init == stage \in [GroupId -> {"unknown", "serving"}]

Move(g, from, to) == /\ stage[g] \in from
                     /\ stage' = [stage EXCEPT ![g] = to]

Add(g) == Move(g, {"unknown"}, "isolated")
Isolate(g) == Move(g, {"serving"}, "isolated")
Restore(g) == Move(g, {"isolated"}, "serving")
Retire(g) == Move(g, {"serving", "isolated"}, "retiring")
Remove(g) == Move(g, {"serving", "isolated"}, "removed")
\* Retired groups leave together.
RemoveRetired(gs) == /\ gs # {} /\ \A g \in gs : stage[g] = "retiring"
                     /\ stage' = [g \in GroupId |->
                                    IF g \in gs THEN "removed" ELSE stage[g]]

Next == \/ \E g \in GroupId : Add(g) \/ Isolate(g) \/ Restore(g) \/ Retire(g) \/ Remove(g)
        \/ \E gs \in SUBSET GroupId : RemoveRetired(gs)

Spec == Init /\ [][Next]_stage
=============================================================================
