---------------------------- MODULE MCSessions ----------------------------
(* Two nodes and one local name on each: see the .cfg files.               *)
EXTENDS Sessions

CONSTANTS a, b

TwoNodes == {a, b}
===========================================================================
