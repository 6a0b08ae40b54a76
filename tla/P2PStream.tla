---------------------------- MODULE P2PStream ----------------------------
(***************************************************************************)
(* One reliable stream of the P2P interface (src/interfaces/P2P.cpp): the  *)
(* SendStream of the sending peer, the RecvStream and the inbox of the     *)
(* receiving peer, and the UDP datagrams between them, which the LAN may   *)
(* lose, duplicate and reorder.  A stream is the traffic of one (peer,     *)
(* socket, channel, reliability); connections, which create and destroy    *)
(* streams, are the subject of P2PConnection.                              *)
(*                                                                         *)
(* Every handler holds Mutex_ while it reads and writes the state below,   *)
(* so a handler is one action.  RawSend follows the unlock; a datagram     *)
(* sent later is a datagram that spent longer in the network.              *)
(*                                                                         *)
(* Sequence numbers are unbounded here (64 bits in the code) and are       *)
(* reduced modulo WireMod (2^32 in the code) when they travel.  A datagram *)
(* is represented by its full number; the handlers only ever look at       *)
(* Low(number), and the full number stands for the payload it carries.     *)
(***************************************************************************)
EXTENDS Integers, Sequences, FiniteSets

CONSTANTS
  Ordered,      \* TRUE: EOS_PR_ReliableOrdered, FALSE: EOS_PR_ReliableUnordered
  Half,         \* half of the wire sequence space, 2^31 in the code
  SackBits,     \* width of the selective-ack mask, 32 in the code
  Size,         \* bytes of a packet of this stream
  QueueSizes,   \* values the application gives SetPacketQueueSize; 0 is unlimited
  Window,       \* bound: how far the oldest unacked packet may be behind
  MaxSeq,       \* bound: packets the application sends
  MaxForeign    \* bound: bytes of other packets in the same inbox

ASSUME StreamAssumption ==
  /\ Ordered \in BOOLEAN
  /\ Half \in Nat \ {0}
  /\ SackBits \in Nat
  /\ Size \in Nat
  /\ QueueSizes \subseteq Nat
  /\ Window \in Nat \ {0} /\ Window < Half
  /\ MaxSeq \in Nat
  /\ MaxForeign \in Nat

VARIABLES
  nextSeq, pending,                               \* SendStream
  dataNet, ackNet,                                \* datagrams in flight
  nextExpected, nextToDeliver, buffer, received,  \* RecvStream
  inbox,          \* this stream's packets in Inbox_, in deque order
  foreign,        \* bytes in Inbox_ that belong to other streams
  inboxBytes,     \* InboxBytes_
  maxInboxBytes,  \* MaxInboxBytes_
  fullPosted,     \* queue-full notification posted since the stream last blocked
  taken,          \* history: packets ReceivePacket returned, in order
  discarded       \* history: packets ClearPacketQueue threw away

sendVars == <<nextSeq, pending>>
recvVars == <<nextExpected, nextToDeliver, buffer, received>>
inboxVars == <<inbox, foreign, inboxBytes>>
histVars == <<taken, discarded>>
vars == <<sendVars, dataNet, ackNet, recvVars, inboxVars, maxInboxBytes,
          fullPosted, histVars>>

---------------------------------------------------------------------------
\* The wire representation of sequence numbers.

WireMod == 2 * Half

Low(seq) == seq % WireMod

\* The number with the given low bits that is closest to ref.
Extend32(ref, low) ==
  LET candidate == (ref - (ref % WireMod)) + low IN
  IF candidate + Half < ref THEN candidate + WireMod
  ELSE IF candidate >= ref + Half /\ candidate >= WireMod THEN candidate - WireMod
  ELSE candidate

\* P2P.cpp: "Valid as long as sender and receiver stay within 2^31 of each
\* other".  The network does not deliver a datagram older than that.
Fresh(ref, seq) == ref - seq <= Half

---------------------------------------------------------------------------
\* Releasing buffered packets to the inbox (DrainRecvStream).

MutInboxHasRoomIgnoresPacket(bytes) ==
  maxInboxBytes = 0 \/ inboxBytes < maxInboxBytes

InboxHasRoom(bytes) == maxInboxBytes = 0 \/ inboxBytes + bytes <= maxInboxBytes

\* The packets of buf that only room in the inbox keeps from being released.
Ready(buf, next) ==
  IF Ordered THEN {s \in DOMAIN buf : s >= next /\ \A t \in next .. s : t \in DOMAIN buf}
             ELSE DOMAIN buf

\* Moves the packets of buf numbered run[1], run[2], ... to the inbox.
Release(buf, run) ==
  /\ inbox' = inbox \o [i \in DOMAIN run |-> buf[run[i]]]
  /\ inboxBytes' = inboxBytes + Size * Len(run)
  /\ buffer' = [s \in DOMAIN buf \ {run[i] : i \in DOMAIN run} |-> buf[s]]
  /\ UNCHANGED foreign

DrainOrdered(buf) ==
  \E k \in 0 .. Cardinality(DOMAIN buf) :
    LET run == [i \in 1 .. k |-> nextToDeliver + i - 1] IN
    /\ \A i \in 1 .. k : run[i] \in DOMAIN buf
    /\ k > 0 => InboxHasRoom(Size * k)
    /\ nextToDeliver + k \in DOMAIN buf => ~InboxHasRoom(Size * (k + 1))
    /\ Release(buf, run)
    /\ nextToDeliver' = nextToDeliver + k

\* The map is iterated in ascending order up to the first packet without room.
DrainUnordered(buf) ==
  \E run \in UNION {[1 .. k -> DOMAIN buf] : k \in 0 .. Cardinality(DOMAIN buf)} :
    LET out == {run[i] : i \in DOMAIN run}
        kept == DOMAIN buf \ out IN
    /\ \A i, j \in DOMAIN run : i < j => run[i] < run[j]
    /\ \A s \in out, t \in kept : s < t
    /\ run # <<>> => InboxHasRoom(Size * Len(run))
    /\ kept # {} => ~InboxHasRoom(Size * (Len(run) + 1))
    /\ Release(buf, run)
    /\ UNCHANGED nextToDeliver

MutDrainOnArrival(buf) == DrainUnordered(buf)

DrainRecvStream(buf) == IF Ordered THEN DrainOrdered(buf) ELSE DrainUnordered(buf)

Blocked == Ready(buffer, nextToDeliver) # {}

---------------------------------------------------------------------------
Init ==
  /\ nextSeq = 1 /\ pending = {}
  /\ dataNet = {} /\ ackNet = {}
  /\ nextExpected = 1 /\ nextToDeliver = 1
  /\ buffer = [s \in {} |-> s] /\ received = {}
  /\ inbox = <<>> /\ foreign = 0 /\ inboxBytes = 0
  /\ maxInboxBytes = 0
  /\ fullPosted = FALSE
  /\ taken = <<>> /\ discarded = {}

\* The application sends the next packet of the stream (SendPacket).
SendPacket ==
  /\ nextSeq <= MaxSeq
  /\ \A s \in pending : nextSeq - s < Window
  /\ nextSeq' = nextSeq + 1
  /\ pending' = pending \cup {nextSeq}
  /\ dataNet' = dataNet \cup {nextSeq}
  /\ UNCHANGED <<ackNet, recvVars, inboxVars, maxInboxBytes, fullPosted, histVars>>

MutIsDuplicateBelowHole(seq) == seq < nextExpected

IsDuplicate(seq) == seq < nextExpected \/ seq \in received

\* n is the lowest sequence number, from nextExpected on, that is not in rcvd.
IsFirstHole(n, rcvd) ==
  /\ n >= nextExpected /\ n \notin rcvd
  /\ \A s \in nextExpected .. n - 1 : s \in rcvd

MutPruneForgotten(rcvd, n) == rcvd

\* Received keeps the numbers from the first hole n on.
Prune(rcvd, n) == {s \in rcvd : s >= n}

MutNotifyFullLost == fullPosted' = (fullPosted /\ Blocked')

\* A stream that is still blocked posts the queue-full notification.
NotifyFull == fullPosted' = Blocked'

MutAckForShiftedMask(expected, rcvd) ==
  [ackSeq |-> expected - 1, sack |-> {b \in 0 .. SackBits - 1 : expected + b + 2 \in rcvd}]

\* The cumulative and selective acknowledgement of the receiver's state.
AckFor(expected, rcvd) ==
  [ackSeq |-> expected - 1, sack |-> {b \in 0 .. SackBits - 1 : expected + 1 + b \in rcvd}]

\* The P2PData handler; a duplicate is acknowledged too.  The datagram may
\* stay in the network, which then delivers it again.
ReceiveData(m) ==
  LET seq == Extend32(nextExpected, Low(m))
      duplicate == IsDuplicate(seq)
      rcvd == IF duplicate THEN received ELSE received \cup {seq}
      buf == IF duplicate THEN buffer
             ELSE [s \in DOMAIN buffer \cup {seq} |-> IF s = seq THEN m ELSE buffer[s]] IN
  /\ m \in dataNet
  /\ Fresh(nextExpected, m)
  /\ dataNet' \in {dataNet, dataNet \ {m}}
  /\ \E n \in nextExpected .. nextExpected + Cardinality(rcvd) :
       /\ IsFirstHole(n, rcvd)
       /\ nextExpected' = n
       /\ received' = Prune(rcvd, n)
  /\ DrainRecvStream(buf)
  /\ NotifyFull
  /\ ackNet' = ackNet \cup {AckFor(nextExpected', received')}
  /\ UNCHANGED <<sendVars, maxInboxBytes, histVars>>

MutCoversBelow(ackSeq, sack, s) == s < ackSeq \/ s - (ackSeq + 2) \in sack

\* Whether an acknowledgement covers s: cumulatively, or by bit s - (ackSeq + 2).
Covers(ackSeq, sack, s) == s <= ackSeq \/ s - (ackSeq + 2) \in sack

\* The P2PAck handler.
ReceiveAck(a) ==
  /\ a \in ackNet
  /\ Fresh(nextSeq, a.ackSeq)
  /\ ackNet' \in {ackNet, ackNet \ {a}}
  /\ pending' = {s \in pending : ~Covers(Extend32(nextSeq, Low(a.ackSeq)), a.sack, s)}
  /\ UNCHANGED <<nextSeq, dataNet, recvVars, inboxVars, maxInboxBytes, fullPosted, histVars>>

MutPumpOnlyResends(due) ==
  /\ due \subseteq pending
  /\ dataNet' = dataNet \cup due
  /\ UNCHANGED <<sendVars, ackNet, recvVars, inboxVars, maxInboxBytes, fullPosted, histVars>>

\* EOS_Platform_Tick: release what the inbox takes by now, and resend the
\* packets whose retransmission timeout has passed.
Pump(due) ==
  /\ due \subseteq pending
  /\ DrainRecvStream(buffer)
  /\ fullPosted' = (fullPosted /\ Blocked')
  /\ dataNet' = dataNet \cup due
  /\ UNCHANGED <<sendVars, ackNet, nextExpected, received, maxInboxBytes, histVars>>

\* The application takes the oldest packet of the stream's channel.
ReceivePacket ==
  /\ inbox # <<>>
  /\ taken' = Append(taken, Head(inbox))
  /\ inbox' = Tail(inbox)
  /\ inboxBytes' = inboxBytes - Size
  /\ UNCHANGED <<sendVars, dataNet, ackNet, recvVars, foreign, maxInboxBytes,
                 fullPosted, discarded>>

Discard(bytes) ==
  /\ discarded' = discarded \cup {inbox[i] : i \in DOMAIN inbox}
  /\ inbox' = <<>>
  /\ inboxBytes' = bytes
  /\ UNCHANGED <<sendVars, dataNet, ackNet, recvVars, maxInboxBytes, fullPosted, taken>>

MutClearPacketQueueKeepsBytes(others) ==
  /\ foreign' = foreign - others
  /\ Discard(inboxBytes - others)

\* ClearPacketQueue with a peer or socket that matches this stream; others is
\* what it removes of the other streams.  Packets still in buffer stay there.
ClearPacketQueue(others) ==
  /\ foreign' = foreign - others
  /\ Discard(inboxBytes - Size * Len(inbox) - others)

\* ClearPacketQueue without a peer or socket empties the inbox.
ClearWholeQueue == foreign' = 0 /\ Discard(0)

SetPacketQueueSize(bytes) ==
  /\ maxInboxBytes' = bytes
  /\ UNCHANGED <<sendVars, dataNet, ackNet, recvVars, inboxVars, fullPosted, histVars>>

\* A packet of another stream, one byte long, enters or leaves the inbox.
ForeignArrives ==
  /\ foreign < MaxForeign
  /\ InboxHasRoom(1)
  /\ foreign' = foreign + 1 /\ inboxBytes' = inboxBytes + 1
  /\ UNCHANGED <<sendVars, dataNet, ackNet, recvVars, inbox, maxInboxBytes, fullPosted, histVars>>

ForeignTaken ==
  /\ foreign > 0
  /\ foreign' = foreign - 1 /\ inboxBytes' = inboxBytes - 1
  /\ UNCHANGED <<sendVars, dataNet, ackNet, recvVars, inbox, maxInboxBytes, fullPosted, histVars>>

\* The network loses a datagram.
LoseData(m) ==
  /\ m \in dataNet
  /\ dataNet' = dataNet \ {m}
  /\ UNCHANGED <<sendVars, ackNet, recvVars, inboxVars, maxInboxBytes, fullPosted, histVars>>

LoseAck(a) ==
  /\ a \in ackNet
  /\ ackNet' = ackNet \ {a}
  /\ UNCHANGED <<sendVars, dataNet, recvVars, inboxVars, maxInboxBytes, fullPosted, histVars>>

Next ==
  \/ SendPacket
  \/ \E m \in dataNet : ReceiveData(m) \/ LoseData(m)
  \/ \E a \in ackNet : ReceiveAck(a) \/ LoseAck(a)
  \/ \E due \in SUBSET pending : Pump(due)
  \/ ReceivePacket
  \/ \E others \in 0 .. foreign : ClearPacketQueue(others)
  \/ ClearWholeQueue
  \/ \E bytes \in QueueSizes : SetPacketQueueSize(bytes)
  \/ ForeignArrives
  \/ ForeignTaken

Spec == Init /\ [][Next]_vars

\* The Tick thread calls Pump for ever and every timeout passes (at most
\* kMaxRto); a datagram sent again and again arrives some time; the receiving
\* application keeps emptying its inbox.  Nothing is promised when packets of
\* other streams refill the inbox after every read: they may starve this one.
Fairness ==
  /\ \A s \in 1 .. MaxSeq :
       /\ WF_vars(\E due \in SUBSET pending : s \in due /\ Pump(due))
       /\ SF_vars(ReceiveData(s))
  /\ WF_vars(Pump({}))
  /\ \A n \in 0 .. MaxSeq : \A sack \in SUBSET (0 .. SackBits - 1) :
       SF_vars(ReceiveAck([ackSeq |-> n, sack |-> sack]))
  /\ WF_vars(ReceivePacket)

FairSpec == Spec /\ Fairness

---------------------------------------------------------------------------
Seqs == 1 .. nextSeq - 1

InInbox == {inbox[i] : i \in DOMAIN inbox}
Taken == {taken[i] : i \in DOMAIN taken}
Buffered == {buffer[s] : s \in DOMAIN buffer}

AckType == [ackSeq : Nat, sack : SUBSET (0 .. SackBits - 1)]

TypeOK ==
  /\ nextSeq \in Nat \ {0} /\ pending \subseteq Seqs
  /\ dataNet \subseteq Seqs /\ ackNet \subseteq AckType
  /\ nextExpected \in 1 .. nextSeq /\ nextToDeliver \in 1 .. nextExpected
  /\ DOMAIN buffer \subseteq Seqs /\ buffer \in [DOMAIN buffer -> Seqs]
  /\ received \subseteq nextExpected + 1 .. nextSeq - 1
  /\ inbox \in Seq(Seqs) /\ foreign \in Nat /\ inboxBytes \in Nat
  /\ maxInboxBytes \in Nat
  /\ fullPosted \in BOOLEAN
  /\ taken \in Seq(Seqs) /\ discarded \subseteq Seqs

\* P2P.cpp drops a packet from Pending only on an acknowledgement: by then
\* the receiver holds it, or has held it (P2PData and P2PAck handlers).
NoAckedLoss ==
  \A s \in Seqs \ pending : s \in Buffered \cup InInbox \cup Taken \cup discarded

\* Retransmitted, duplicated and late datagrams put a packet into the inbox
\* once: no packet is in two places, or twice in one (Received, NextExpected).
ExactlyOnce ==
  /\ \A i, j \in DOMAIN taken : taken[i] = taken[j] => i = j
  /\ \A i, j \in DOMAIN inbox : inbox[i] = inbox[j] => i = j
  /\ \A s, t \in DOMAIN buffer : buffer[s] = buffer[t] => s = t
  /\ Taken \cap InInbox = {}
  /\ Buffered \cap (Taken \cup InInbox) = {}
  /\ discarded \cap (Taken \cup InInbox \cup Buffered) = {}

\* On an ordered stream the application reads packets in the order they were
\* sent, and never one whose predecessor it neither read nor cleared.
OrderedDelivery ==
  Ordered =>
    /\ \A i, j \in DOMAIN taken : i < j => taken[i] < taken[j]
    /\ \A i \in DOMAIN taken : \A s \in 1 .. taken[i] : s \in Taken \cup discarded

\* InboxBytes_ is the size of what is in Inbox_, whatever mix of arrivals,
\* reads and clears happened (EnqueueInbox, ReceivePacket, ClearPacketQueue).
InboxAccounting == inboxBytes = Size * Len(inbox) + foreign

\* A reliable packet that waits for room in the inbox does so only after the
\* application was told that the queue is full (P2PData handler).
BlockedIsNotified == Blocked => fullPosted

\* A step that grows the inbox leaves it within the limit in force.
QueueLimit ==
  [][inboxBytes' > inboxBytes => maxInboxBytes = 0 \/ inboxBytes' <= maxInboxBytes]_vars

Channel == INSTANCE ReliableChannel WITH
  InOrder <- Ordered, sent <- nextSeq - 1,
  waiting <- Seqs \ (Taken \cup discarded)

\* The stream implements the abstract reliable channel.
RefinesChannel == Channel!Spec

\* Every packet sent is in the end read by the application or cleared by it.
AllDelivered == \A s \in 1 .. MaxSeq : s \in Seqs ~> s \in Taken \cup discarded

\* Every packet sent is in the end acknowledged, and no longer retransmitted.
AllAcknowledged == \A s \in 1 .. MaxSeq : s \in Seqs ~> s \in Seqs \ pending

---------------------------------------------------------------------------
\* The inductive invariant behind the safety properties.

\* What the receiver has ever accepted.
Got == (1 .. nextExpected - 1) \cup received

\* Sender: packets in flight are close together, acked packets have arrived.
SenderInv ==
  /\ \A s \in pending : nextSeq - s <= Window
  /\ Seqs \ pending \subseteq Got

\* Acknowledgements in flight never claim more than the receiver has.
AckInv ==
  \A a \in ackNet : a.ackSeq < nextExpected /\ \A b \in a.sack : a.ackSeq + 2 + b \in Got

\* Received packets are in exactly one place, filed under their own number.
PlaceInv ==
  /\ \A s \in DOMAIN buffer : buffer[s] = s
  /\ Got = DOMAIN buffer \cup InInbox \cup Taken \cup discarded
  /\ ExactlyOnce

\* Ordered: the inbox is the run of packets just below nextToDeliver, what was
\* read or cleared is everything before that, what is buffered comes after.
OrderInv ==
  Ordered =>
    LET first == nextToDeliver - Len(inbox) IN
    /\ first >= 1
    /\ \A i \in DOMAIN inbox : inbox[i] = first + i - 1
    /\ Taken \cup discarded = 1 .. first - 1
    /\ \A i, j \in DOMAIN taken : i < j => taken[i] < taken[j]
    /\ \A s \in DOMAIN buffer : s >= nextToDeliver

IInv == TypeOK /\ SenderInv /\ AckInv /\ PlaceInv /\ OrderInv /\ InboxAccounting /\ BlockedIsNotified
===========================================================================
