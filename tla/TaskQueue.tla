---------------------------- MODULE TaskQueue ----------------------------
(***************************************************************************)
(* What the Dispatcher promises to the code that posts to it: one line of  *)
(* closures, which run in the order in which they joined it; none is lost, *)
(* overtaken by a later one, or interrupted by another.  A closure joins   *)
(* at the end, alone or with others; only the release of the platform      *)
(* empties the line without running it.                                    *)
(***************************************************************************)
EXTENDS Sequences, SequencesExt

VARIABLE queue      \* the closures that wait, in the order in which they will run

QInit == queue = <<>>

\* Somebody posts, or delayed closures fall due.
Join == IsPrefix(queue, queue')

\* The first closure runs; its callback may post others.
RunHead == queue # <<>> /\ IsPrefix(Tail(queue), queue')

Discard == queue' = <<>>

QNext == Join \/ RunHead \/ Discard

QSpec == QInit /\ [][QNext]_queue
==========================================================================
