----------------------------- MODULE MCKernels -----------------------------
(* Kernels on the instances the model checker goes through. *)
EXTENDS Kernels, TLC

CONSTANTS hostA, portA, portB, badPort, \* InstanceGroups
          c1, c2,                        \* IdleRouting
          hp, hd,                       \* PdRebuild
          r1, r2, d1, p1, p2            \* LayerwiseProxy

MCWeights == {1, 2}
MCHosts == {hostA, Zero, Local}
MCPorts == {portA, portB, badPort}
MCBadPorts == {badPort}
MCClients == {c1, c2}
MCCounted == {c1}

MCPdHosts == {hp, hd}
MCPrefillHosts == {hp}
Rebuild(servers, healthy, ptp, text) ==
    [servers |-> servers, healthy |-> healthy, ptp |-> ptp, text |-> text]
MCRebuilds ==
    {Rebuild(<<hp, hd>>, {<<hp, 0>>, <<hp, 1>>, <<hd, 1>>}, 2, FALSE),
     Rebuild(<<hd, hp>>, {<<hp, 1>>, <<hd, 0>>}, 0, FALSE),
     Rebuild(<<hp>>, {<<hp, 0>>}, None, FALSE),
     Rebuild(<<hp>>, {<<hp, 0>>}, 2, TRUE)}
MCFirstLinks == {[n \in {} |-> hp], [n \in {1} |-> hp]}

MCNpu == [e \in 0..2 |-> {2 * e, 2 * e + 1}]
MCBadLists == SUBSET {0, 1, 2} \cup {0..5}

MCRequests == {r1, r2}
MCWeight == (r1 :> 1) @@ (r2 :> 2)
\* What is cut out of the one request meets only the load of the other.
MCModes == (r1 :> SUBSET {"stream", "chat"}) @@ (r2 :> {{"stream"}})
MCBound == (r1 :> [calls |-> 1, recomputes |-> 1, tokens |-> 2, events |-> 2])
           @@ (r2 :> [calls |-> 1, recomputes |-> 0, tokens |-> 0, events |-> 0])
MCDecoders == {d1}
MCPrefillers == {p1, p2}
=============================================================================
