----------------------------- MODULE MCLobby -----------------------------
(* Two nodes, of which either may create the lobby.                        *)
EXTENDS Lobby

CONSTANTS a, b

TwoNodes == {a, b}

\* Bound of the run without fairness: datagrams that travel at the same time.
FewDatagrams == Cardinality(net) <= 4
==========================================================================
