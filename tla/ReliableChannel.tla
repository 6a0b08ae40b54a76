------------------------- MODULE ReliableChannel -------------------------
(***************************************************************************)
(* What a reliable P2P stream promises to the two applications, with no    *)
(* datagrams, acknowledgements or buffers: the packets handed to           *)
(* EOS_P2P_SendPacket are numbered 1, 2, ... in the order of the calls,    *)
(* and EOS_P2P_ReceivePacket returns each of them at most once, in that    *)
(* order when the stream is EOS_PR_ReliableOrdered.  Only the receiving    *)
(* application can make packets disappear, with EOS_P2P_ClearPacketQueue.  *)
(***************************************************************************)
EXTENDS Integers, Sequences

CONSTANT InOrder    \* TRUE for EOS_PR_ReliableOrdered

VARIABLES
  waiting,    \* packets sent and neither received nor cleared
  sent,       \* number of packets sent so far
  taken       \* the packets ReceivePacket returned, in order

vars == <<waiting, sent, taken>>

Init == waiting = {} /\ sent = 0 /\ taken = <<>>

Send ==
  /\ sent' = sent + 1
  /\ waiting' = waiting \cup {sent + 1}
  /\ UNCHANGED taken

Receive(p) ==
  /\ p \in waiting
  /\ InOrder => \A q \in waiting : p <= q
  /\ taken' = Append(taken, p)
  /\ waiting' = waiting \ {p}
  /\ UNCHANGED sent

\* The application throws away packets that have arrived; on an ordered
\* stream these are the oldest ones, so that no later packet overtakes them.
Clear(arrived) ==
  /\ arrived \subseteq waiting
  /\ InOrder => \A p \in arrived, q \in waiting \ arrived : p < q
  /\ waiting' = waiting \ arrived
  /\ UNCHANGED <<sent, taken>>

Next ==
  \/ Send
  \/ \E p \in waiting : Receive(p)
  \/ \E arrived \in SUBSET waiting : Clear(arrived)

Spec == Init /\ [][Next]_vars
===========================================================================
