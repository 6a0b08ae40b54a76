---------------------------- MODULE MCPlatform ---------------------------
(***************************************************************************)
(* Platform for TLC: peers do not meet in the directory, so that one shows *)
(* what happens to each.                                                   *)
(***************************************************************************)
EXTENDS Platform

CONSTANT one

OnePeer == {one}
==========================================================================
