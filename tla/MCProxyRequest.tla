--------------------------- MODULE MCProxyRequest ---------------------------
(* ProxyRequest with one or two backends of each type and one or two requests. *)
EXTENDS ProxyRequest
CONSTANTS p1, p2, d1, d2, m1, m2, r1, r2
MCRequest == {r1, r2}
MCOne == {r1}
MCPrefiller == {p1, p2}
MCDecoder == {d1, d2}
MCMixer == {m1, m2}
MCP == {p1}
MCD == {d1}
MCM == {m1}
=============================================================================
