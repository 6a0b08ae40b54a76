------------------------- MODULE MCP2PConnection -------------------------
(* Bounds for model-checking P2PConnection: see the .cfg files.            *)
EXTENDS P2PConnection

CONSTANTS a, b

Peers == {a, b}
OneSender == {a}

\* Bound: datagrams that travel at the same time.
FewDatagrams == Cardinality(net) <= 3
===========================================================================
