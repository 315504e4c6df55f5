-------------------------- MODULE StrategyMailbox --------------------------
(***************************************************************************)
(* What an executor promises the decision center about the strategies it   *)
(* is sent: it keeps one slot, a later strategy overwrites an earlier one, *)
(* and it never comes to rest with a strategy in the slot that it has      *)
(* neither tried nor been signalled about.                                 *)
(***************************************************************************)
CONSTANTS Strategy,     \* deployment strategies the decision center can send
          NoStrategy    \* the empty slot

VARIABLES slot,     \* the newest strategy
          fresh,    \* its arrival is signalled, or about to be
          taking,   \* a deployment has begun and has not read the slot yet
          used      \* the strategy the last deployment read

vars == <<slot, fresh, taking, used>>

Init == /\ slot = NoStrategy
        /\ fresh = FALSE
        /\ taking = FALSE
        /\ used = NoStrategy

Post == /\ slot' \in Strategy
        /\ fresh' = TRUE
        /\ UNCHANGED <<taking, used>>

\* The signal is consumed before the slot is read. A deployment can also start
\* without a signal, or while the next signal is on its way.
Take == /\ taking' = TRUE
        /\ fresh' = FALSE \/ UNCHANGED fresh
        /\ UNCHANGED <<slot, used>>

Use == /\ taking
       /\ used' = slot
       /\ taking' = FALSE
       /\ UNCHANGED <<slot, fresh>>

Next == Post \/ Take \/ Use

Spec == Init /\ [][Next]_vars

\* The promise: at rest the newest strategy has been tried, or is signalled.
Served == taking \/ fresh \/ used = slot
=============================================================================
