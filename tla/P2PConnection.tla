-------------------------- MODULE P2PConnection --------------------------
(***************************************************************************)
(* The life of a P2P connection between two peers (src/interfaces/P2P.cpp):*)
(* request, accept, ignore, close, interruption and timeout, and what they *)
(* do to the reliable streams, which every side creates and clears on its  *)
(* own.  One socket and one ordered channel; the peers have discovered     *)
(* each other, so every endpoint is valid; the inbox is unlimited.  The    *)
(* stream itself (wire numbers, windows, backpressure) is in P2PStream.    *)
(*                                                                         *)
(* Two threads act on each peer: the game thread (EOS_P2P_* calls and      *)
(* EOS_Platform_Tick) and the receive thread (OnDatagram).  Both hold      *)
(* Mutex_, but SendPacket takes it twice, and the receive thread may run   *)
(* in between.  A notification is decided here, under the lock; when the   *)
(* Dispatcher runs the callback is not modelled.                           *)
(***************************************************************************)
EXTENDS Integers, FiniteSets, FiniteSetsExt

CONSTANTS
  Nodes,          \* the two peers
  Senders,        \* bound: the peers that send data
  MaxTransmits,   \* kMaxTransmits, 16 in the code
  MaxPackets      \* bound: packets each sender sends

ASSUME ConnectionAssumption ==
  /\ IsFiniteSet(Nodes) /\ Cardinality(Nodes) = 2
  /\ Senders \subseteq Nodes
  /\ MaxTransmits \in Nat \ {0}
  /\ MaxPackets \in Nat

VARIABLES
  conn,        \* Connections_: the connection to the other peer, or NoConn
  send,        \* SendStreams_: the stream to the other peer, or NoStream
  recv,        \* RecvStreams_: the stream from the other peer, or NoStream
  listening,   \* a PeerConnectionRequest listener is registered
  sending,     \* the game thread is between the two lock regions of SendPacket
  net,         \* datagrams in flight
  sent,        \* number of packets sent; the next packet is sent + 1
  acked,       \* history: packets an acknowledgement removed from Pending
  got,         \* history: packets of the other peer received and not dropped
  announced,   \* history: EOS_CET_NewConnection notifications of this connection
  cleared      \* history: some peer has run ClearStreams

connVars == <<conn, announced>>
streamVars == <<send, recv>>
histVars == <<acked, got>>
vars == <<connVars, streamVars, histVars, listening, sending, net, sent, cleared>>

Other(n) == CHOOSE m \in Nodes : m # n

NoConn == [open |-> FALSE]
NoStream == [open |-> FALSE]
Conn(accepted, established, interrupted) ==
  [open |-> TRUE, accepted |-> accepted, established |-> established, interrupted |-> interrupted]

NewConn == Conn(FALSE, FALSE, FALSE)
NewSend == [open |-> TRUE, next |-> 1, pending |-> [s \in {} |-> 0]]
NewRecv == [open |-> TRUE, expected |-> 1, received |-> {}]

\* Connections_[key]: the connection, created when there is none.
ConnOf(n) == IF conn[n].open THEN conn[n] ELSE NewConn
SendOf(n) == IF send[n].open THEN send[n] ELSE NewSend
RecvOf(n) == IF recv[n].open THEN recv[n] ELSE NewRecv

Control(type, to) == [type |-> type, to |-> to]

\* A handler removes its datagram, unless the network delivers it again.
Receive(m, replies) == net' \in {(net \ {m}) \cup replies, net \cup replies}

---------------------------------------------------------------------------
Init ==
  /\ conn = [n \in Nodes |-> NoConn] /\ announced = [n \in Nodes |-> 0]
  /\ send = [n \in Nodes |-> NoStream] /\ recv = [n \in Nodes |-> NoStream]
  /\ listening \in [Nodes -> BOOLEAN]
  /\ sending = [n \in Nodes |-> FALSE]
  /\ net = {}
  /\ sent = [n \in Nodes |-> 0]
  /\ acked = [n \in Nodes |-> {}] /\ got = [n \in Nodes |-> {}]
  /\ cleared = FALSE

\* The connection becomes c, with a NewConnection notification if it was not
\* established before.
Establish(n, c) ==
  /\ conn' = [conn EXCEPT ![n] = c]
  /\ announced' = [announced EXCEPT ![n] = IF ConnOf(n).established THEN @ ELSE @ + 1]

MutAcceptForgets(n) ==
  /\ conn' = [conn EXCEPT ![n] = Conn(TRUE, ConnOf(n).established, ConnOf(n).interrupted)]
  /\ announced' = [announced EXCEPT ![n] = IF ConnOf(n).established THEN @ ELSE @ + 1]

MarkAccepted(n) == Establish(n, Conn(TRUE, TRUE, ConnOf(n).interrupted))

MutDropKeepsRecv(n) ==
  /\ conn' = [conn EXCEPT ![n] = NoConn]
  /\ announced' = [announced EXCEPT ![n] = 0]
  /\ send' = [send EXCEPT ![n] = NoStream]
  /\ cleared' = TRUE
  /\ UNCHANGED recv

\* Connections_.erase and ClearStreams.
Drop(n) ==
  /\ conn' = [conn EXCEPT ![n] = NoConn]
  /\ announced' = [announced EXCEPT ![n] = 0]
  /\ send' = [send EXCEPT ![n] = NoStream]
  /\ recv' = [recv EXCEPT ![n] = NoStream]
  /\ cleared' = TRUE

---------------------------------------------------------------------------
\* The game thread.

\* AddNotify- and RemoveNotifyPeerConnectionRequest.
SetListening(n, on) ==
  /\ listening' = [listening EXCEPT ![n] = on]
  /\ UNCHANGED <<connVars, streamVars, histVars, sending, net, sent, cleared>>

\* SendPacket, first lock region: find, open or accept the connection.
\* Without auto-accept it returns EOS_NoConnection unless accepted before.
OpenForSend(n, autoAccept) ==
  /\ ~sending[n]
  /\ sent[n] < MaxPackets
  /\ autoAccept \/ (conn[n].open /\ conn[n].accepted)
  /\ conn' = [conn EXCEPT ![n] = [ConnOf(n) EXCEPT !.accepted = TRUE]]
  /\ net' = IF conn[n].open THEN net ELSE net \cup {Control("ConnectRequest", Other(n))}
  /\ sending' = [sending EXCEPT ![n] = TRUE]
  /\ UNCHANGED <<announced, streamVars, histVars, listening, sent, cleared>>

Data(n, s, packet) == [type |-> "Data", to |-> Other(n), seq |-> s, packet |-> packet]

\* SendPacket, second lock region: number the packet, remember it, send it.
QueuePacket(n) ==
  LET stream == SendOf(n)
      packet == sent[n] + 1 IN
  /\ sending[n]
  /\ sending' = [sending EXCEPT ![n] = FALSE]
  /\ sent' = [sent EXCEPT ![n] = packet]
  /\ send' = [send EXCEPT ![n] =
       [stream EXCEPT !.next = @ + 1,
                      !.pending = [s \in DOMAIN @ \cup {stream.next} |->
                        IF s = stream.next THEN [packet |-> packet, tries |-> 1] ELSE @[s]]]]
  /\ net' = net \cup {Data(n, stream.next, packet)}
  /\ UNCHANGED <<connVars, recv, histVars, listening, cleared>>

AcceptConnection(n) ==
  /\ ~sending[n]
  /\ MarkAccepted(n)
  /\ net' = net \cup {Control("ConnectAccept", Other(n))}
  /\ UNCHANGED <<streamVars, histVars, listening, sending, sent, cleared>>

\* Clears the streams even when there is no connection to close.
CloseConnection(n) ==
  /\ ~sending[n]
  /\ Drop(n)
  /\ net' = IF conn[n].open THEN net \cup {Control("ConnectClose", Other(n))} ELSE net
  /\ UNCHANGED <<histVars, listening, sending, sent>>

\* The connection after Pump has found the packets due for retransmission.
Interrupt(n, due) ==
  IF conn[n].open /\ \E s \in due : send[n].pending[s].tries >= MaxTransmits
  THEN [conn[n] EXCEPT !.interrupted = TRUE] ELSE conn[n]

\* The pending packets once those that are due have been sent again; beyond
\* MaxTransmits transmissions are all alike.
Resent(pending, due) ==
  [s \in DOMAIN pending |->
     IF s \in due /\ pending[s].tries <= MaxTransmits
     THEN [pending[s] EXCEPT !.tries = @ + 1] ELSE pending[s]]

\* EOS_Platform_Tick: resend what is due, and interrupt the connection.
Pump(n, due) ==
  /\ ~sending[n]
  /\ send[n].open /\ due # {} /\ due \subseteq DOMAIN send[n].pending
  /\ conn' = [conn EXCEPT ![n] = Interrupt(n, due)]
  /\ send' = [send EXCEPT ![n].pending = Resent(@, due)]
  /\ net' = net \cup {Data(n, s, send[n].pending[s].packet) : s \in due}
  /\ UNCHANGED <<announced, recv, histVars, listening, sending, sent, cleared>>

\* The grace sweep of Pump: kInterruptedGrace has passed since the
\* interruption.  What the same Pump resent before is on its way.
PumpTimedOut(n, due) ==
  /\ ~sending[n]
  /\ conn[n].open /\ conn[n].interrupted
  /\ due \subseteq IF send[n].open THEN DOMAIN send[n].pending ELSE {}
  /\ Drop(n)
  /\ net' = net \cup {Data(n, s, send[n].pending[s].packet) : s \in due}
  /\ UNCHANGED <<histVars, listening, sending, sent>>

---------------------------------------------------------------------------
\* The receive thread (OnDatagram).

OnConnectRequest(m) ==
  LET n == m.to
      alreadyAccepted == conn[n].open /\ conn[n].accepted IN
  /\ m.type = "ConnectRequest"
  /\ IF ~alreadyAccepted /\ listening[n]
     THEN conn' = [conn EXCEPT ![n] = ConnOf(n)] ELSE UNCHANGED conn
  /\ Receive(m, IF ~alreadyAccepted /\ ~listening[n]
                THEN {Control("ConnectIgnored", Other(n))} ELSE {})
  /\ UNCHANGED <<announced, streamVars, histVars, listening, sending, sent, cleared>>

OnConnectAccept(m) ==
  /\ m.type = "ConnectAccept"
  /\ Establish(m.to, Conn(TRUE, TRUE, FALSE))
  /\ Receive(m, {})
  /\ UNCHANGED <<streamVars, histVars, listening, sending, sent, cleared>>

\* ConnectIgnored and ConnectClose differ in the notification only.
OnConnectClosed(m) ==
  /\ m.type \in {"ConnectIgnored", "ConnectClose"}
  /\ Drop(m.to)
  /\ Receive(m, {})
  /\ UNCHANGED <<histVars, listening, sending, sent>>

MutNotPruned(rcvd, expected) == rcvd

\* What stays in Received, and here in Buffer: the numbers past the first hole.
Beyond(rcvd, expected) == {s \in rcvd : s > expected}

\* The P2PData handler.  It opens the connection, accepted or not.
OnData(m) ==
  LET n == m.to
      stream == RecvOf(n)
      duplicate == m.seq < stream.expected \/ m.seq \in stream.received
      rcvd == stream.received \cup (IF duplicate THEN {} ELSE {m.seq})
      expected == Min((stream.expected .. stream.expected + Cardinality(rcvd)) \ rcvd)
      beyond == Beyond(rcvd, expected) IN
  /\ m.type = "Data"
  /\ Establish(n, Conn(ConnOf(n).accepted, TRUE, FALSE))
  /\ recv' = [recv EXCEPT ![n] = [open |-> TRUE, expected |-> expected, received |-> beyond]]
  /\ got' = IF duplicate THEN got ELSE [got EXCEPT ![n] = @ \cup {m.packet}]
  /\ Receive(m, {[type |-> "Ack", to |-> Other(n), ackSeq |-> expected - 1, sack |-> beyond]})
  /\ UNCHANGED <<send, acked, listening, sending, sent, cleared>>

MutOnAckKeepsInterrupted(m) == conn[m.to]

\* An acknowledgement is proof of life for a connection, if there is one.
AfterAck(m) ==
  IF conn[m.to].open THEN [conn[m.to] EXCEPT !.interrupted = FALSE] ELSE NoConn

MutCoveredByCount(m) ==
  {s \in DOMAIN send[m.to].pending : s <= m.ackSeq + Cardinality(m.sack)}

\* The pending packets an acknowledgement covers.
CoveredBy(m) == {s \in DOMAIN send[m.to].pending : s <= m.ackSeq \/ s \in m.sack}

OnAck(m) ==
  LET n == m.to IN
  /\ m.type = "Ack"
  /\ conn' = [conn EXCEPT ![n] = AfterAck(m)]
  /\ IF send[n].open
     THEN /\ send' = [send EXCEPT ![n].pending =
                        [s \in DOMAIN @ \ CoveredBy(m) |-> @[s]]]
          /\ acked' = [acked EXCEPT ![n] =
                         @ \cup {send[n].pending[s].packet : s \in CoveredBy(m)}]
     ELSE UNCHANGED <<send, acked>>
  /\ Receive(m, {})
  /\ UNCHANGED <<announced, recv, got, listening, sending, sent, cleared>>

\* The network loses a datagram.
Lose(m) ==
  /\ net' = net \ {m}
  /\ UNCHANGED <<connVars, streamVars, histVars, listening, sending, sent, cleared>>

GameThread(n) ==
  \/ \E on \in BOOLEAN : SetListening(n, on)
  \/ n \in Senders /\ \E autoAccept \in BOOLEAN : OpenForSend(n, autoAccept)
  \/ QueuePacket(n)
  \/ AcceptConnection(n)
  \/ CloseConnection(n)
  \/ send[n].open /\ \E due \in SUBSET DOMAIN send[n].pending : Pump(n, due)
  \/ \E due \in SUBSET (IF send[n].open THEN DOMAIN send[n].pending ELSE {}) : PumpTimedOut(n, due)

OnDatagram(m) ==
  \/ OnConnectRequest(m) \/ OnConnectAccept(m) \/ OnConnectClosed(m)
  \/ OnData(m) \/ OnAck(m)

Next ==
  \/ \E n \in Nodes : GameThread(n)
  \/ \E m \in net : OnDatagram(m) \/ Lose(m)

Spec == Init /\ [][Next]_vars

---------------------------------------------------------------------------
ConnType == {NoConn} \cup {Conn(a, e, i) : a, e, i \in BOOLEAN}
Seqs == 1 .. MaxPackets

TypeOK ==
  /\ conn \in [Nodes -> ConnType]
  /\ announced \in [Nodes -> Nat]
  /\ \A n \in Nodes : send[n].open =>
       /\ send[n].next \in 1 .. MaxPackets + 1
       /\ DOMAIN send[n].pending \subseteq 1 .. send[n].next - 1
       /\ \A s \in DOMAIN send[n].pending :
            send[n].pending[s] \in [packet : Seqs, tries : 1 .. MaxTransmits + 1]
  /\ \A n \in Nodes : recv[n].open =>
       /\ recv[n].expected \in 1 .. MaxPackets + 1
       /\ recv[n].received \subseteq recv[n].expected + 1 .. MaxPackets
  /\ sent \in [Nodes -> 0 .. MaxPackets]
  /\ acked \in [Nodes -> SUBSET Seqs] /\ got \in [Nodes -> SUBSET Seqs]

\* ClearStreams: a RecvStream lives only while its connection does, however the
\* two threads interleave.  A SendStream may lose its connection between the two
\* lock regions of SendPacket, and keep it lost.
RecvStreamHasConnection == \A n \in Nodes : recv[n].open => conn[n].open

\* A connection is interrupted only while a packet waits that has been sent
\* kMaxTransmits times (Pump), whatever arrives or is acknowledged meanwhile.
InterruptedHasCause ==
  \A n \in Nodes : conn[n].open /\ conn[n].interrupted =>
    /\ send[n].open
    /\ \E s \in DOMAIN send[n].pending : send[n].pending[s].tries > MaxTransmits

\* bEstablished: each connection announces itself to its application once,
\* whether AcceptConnection, an accept or data comes first.
EstablishedOnce ==
  \A n \in Nodes : announced[n] = IF conn[n].open /\ conn[n].established THEN 1 ELSE 0

\* P2PAck handler, "everything up to AckSeq is delivered": what a peer stops
\* retransmitting has arrived.
AckedIsDelivered == \A n \in Nodes : acked[n] \subseteq got[Other(n)]

\* Until a peer first clears its streams, the two ends number the same packets.
ReliableUntilCleared == ~cleared => AckedIsDelivered
===========================================================================
