----------------------------- MODULE ProxyParts -----------------------------
(***************************************************************************)
(* The components of the proxy that stand on their own: the choice of a    *)
(* backend, and what makes sense of text: its options, the streams of its  *)
(* backends, and the messages it lets another one continue.                *)
(***************************************************************************)
EXTENDS Absent, Integers, FiniteSets

CONSTANTS Backends, Weights, MaxHeld,                       \* LoadHeap
          CR, LF, D, T, MaxStream,                          \* SseBuffer
          Open, Close, NL, A, MaxText,                      \* ResumeText
          Hosts, Ports, BadPorts, Zero, Local,              \* InstanceGroups
          MaxGroups, MaxRanks

VARIABLES load, isolated, heap, held,                       \* LoadHeap
          rest, buffer, payloads, arrived,                  \* SseBuffer
          state, original, resumed,                         \* ResumeText
          written, groups                                   \* InstanceGroups

Heap == INSTANCE LoadHeap WITH Servers <- Backends
Sse == INSTANCE SseBuffer
Text == INSTANCE ResumeText
Args == INSTANCE InstanceGroups

ASSUME HeapAssumption == Backends \in Nat /\ Weights \subseteq Nat
ASSUME StreamAssumption == MaxStream \in Nat /\ CR # LF
ASSUME TextAssumption == MaxText \in Nat /\ Open \notin {Close, NL, A} /\ Close \notin {NL, A}
ASSUME EndpointAssumption == MaxGroups \in Nat /\ MaxRanks \in Nat
=============================================================================
