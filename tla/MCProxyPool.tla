---------------------------- MODULE MCProxyPool ----------------------------
(* ProxyPool with two groups of one endpoint; the first may be added again. *)
EXTENDS ProxyPool
CONSTANTS a, b, r1, r2
MCServer == {a, b}
MCSingles == <<<<a>>, <<b>>>>
MCPair == <<<<a, b>>>>
MCTwo == {r1, r2}
MCSymmetry == Permutations(MCTwo)
MCOne == {r1}
MCOffered == {<<a>>}
MCPairs == {<<b, a>>, <<b>>}
=============================================================================
