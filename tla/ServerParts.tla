---------------------------- MODULE ServerParts ----------------------------
(***************************************************************************)
(* The components of the server that stand on their own: the messages of   *)
(* the Anthropic API, and the weights an engine shares out anew.           *)
(***************************************************************************)
EXTENDS Absent, Integers

CONSTANTS MaxParts, MaxErrors, \* AnthropicStream
          MaxTp, MaxUnit       \* Sharding

VARIABLES phase, active, next, ids, events, errors, said, \* AnthropicStream
          tp, newTp, keys, values, queries, kv, rank,         \* Sharding
          group, boundary, loadedBoundary, conv

Anthropic == INSTANCE AnthropicStream
Shards == INSTANCE Sharding

ASSUME AnthropicAssumption == None \notin Nat /\ None \notin {"thinking", "text", "tool_use"}
ASSUME ShardingAssumption == MaxTp \in Nat /\ MaxUnit \in Nat
=============================================================================
