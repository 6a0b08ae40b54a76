--------------------------- MODULE MCP2PStream ---------------------------
(* Bounds for model-checking P2PStream: see the .cfg files.                *)
EXTENDS P2PStream

\* Unlimited, room for one packet of size 1, room for two.
ChangingQueue == {0, 1, 2}

\* Bound of the unordered run: datagrams that travel at the same time.
FewDatagrams == Cardinality(dataNet) + Cardinality(ackNet) <= 3
===========================================================================
