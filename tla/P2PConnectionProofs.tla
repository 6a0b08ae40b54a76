----------------------- MODULE P2PConnectionProofs -----------------------
(***************************************************************************)
(* Proofs about the life of a P2P connection, for every number of packets  *)
(* and of transmissions: its type, what ties a connection to its streams,  *)
(* and that an acknowledgement is true for as long as neither peer has     *)
(* cleared its streams.                                                    *)
(***************************************************************************)
EXTENDS P2PConnection, FiniteSetTheorems, WellFoundedInduction, TLAPS

(***************************************************************************)
(* The inductive invariant.  Types is TypeOK with the shape of the streams *)
(* and of the datagrams, and with the two facts that bound the numbers: a  *)
(* stream has numbered no more than was sent, and between the two lock     *)
(* regions of SendPacket there is a packet left to number.                 *)
(***************************************************************************)
Waiting == [packet : Seqs, tries : 1 .. MaxTransmits + 1]

Pendings == UNION {[D -> Waiting] : D \in SUBSET Seqs}

SendStreams ==
  {NoStream} \cup
  {st \in [open : {TRUE}, next : 1 .. MaxPackets + 1, pending : Pendings] :
     DOMAIN st.pending \subseteq 1 .. st.next - 1}

RecvStreams ==
  {NoStream} \cup
  {st \in [open : {TRUE}, expected : 1 .. MaxPackets + 1, received : SUBSET Seqs] :
     st.received \subseteq st.expected + 1 .. MaxPackets}

Controls ==
  [type : {"ConnectRequest", "ConnectAccept", "ConnectIgnored", "ConnectClose"}, to : Nodes]
Datas == [type : {"Data"}, to : Nodes, seq : Seqs, packet : Seqs]
Acks == [type : {"Ack"}, to : Nodes, ackSeq : 0 .. MaxPackets, sack : SUBSET Seqs]

Datagrams == Controls \cup Datas \cup Acks

Numbering(n) ==
  /\ send[n].open => send[n].next <= sent[n] + 1
  /\ sending[n] => sent[n] < MaxPackets

Types ==
  /\ conn \in [Nodes -> ConnType] /\ announced \in [Nodes -> Nat]
  /\ send \in [Nodes -> SendStreams] /\ recv \in [Nodes -> RecvStreams]
  /\ listening \in [Nodes -> BOOLEAN] /\ sending \in [Nodes -> BOOLEAN]
  /\ net \subseteq Datagrams
  /\ sent \in [Nodes -> 0 .. MaxPackets]
  /\ acked \in [Nodes -> SUBSET Seqs] /\ got \in [Nodes -> SUBSET Seqs]
  /\ \A n \in Nodes : Numbering(n)

(***************************************************************************)
(* Agreement is why ReliableUntilCleared holds: while no stream has been   *)
(* cleared, a packet's number is the packet, the next number is that of    *)
(* the next packet, NextExpected and Received describe exactly what has    *)
(* arrived, and an acknowledgement in flight covers nothing else.          *)
(***************************************************************************)
NumbersArePackets(n) ==
  /\ IF send[n].open THEN send[n].next = sent[n] + 1 ELSE sent[n] = 0
  /\ send[n].open => \A s \in DOMAIN send[n].pending : send[n].pending[s].packet = s

Arrived(n) == IF recv[n].open THEN (1 .. recv[n].expected - 1) \cup recv[n].received ELSE {}

TrueDatagram(m) ==
  /\ m.type = "Data" => m.packet = m.seq
  /\ m.type = "Ack" => (1 .. m.ackSeq) \cup m.sack \subseteq got[Other(m.to)]

Agreement ==
  /\ \A n \in Nodes : NumbersArePackets(n) /\ got[n] = Arrived(n)
  /\ \A m \in net : TrueDatagram(m)
  /\ AckedIsDelivered

AgreementUntilCleared == ~cleared => Agreement

---------------------------------------------------------------------------
(* The peers, and the first number that has not arrived.                   *)

\* There are two peers, and each is the other of the other.
LEMMA Others ==
  ASSUME NEW n \in Nodes
  PROVE  Other(n) \in Nodes /\ Other(n) # n /\ Other(Other(n)) = n
<1>1. /\ IsFiniteSet(Nodes \ {n}) /\ Cardinality(Nodes \ {n}) = 1
  BY ConnectionAssumption, FS_RemoveElement
<1>2. PICK m : Nodes \ {n} = {m}
  BY <1>1, FS_Singleton
<1>3. Nodes = {n, m} /\ m # n
  BY <1>2
<1>4. Other(n) \in Nodes /\ Other(n) # n
  BY <1>3, Zenon DEF Other
<1>5. Other(m) \in Nodes /\ Other(m) # m
  BY <1>3, Zenon DEF Other
<1> QED BY <1>3, <1>4, <1>5

\* A set of numbers that is not empty has a least one, which Min finds.
LEMMA Least ==
  ASSUME NEW T \in SUBSET Nat, T # {}
  PROVE  Min(T) \in T /\ \A y \in T : Min(T) <= y
<1>1. PICK x \in T : \A y \in T : ~ (<<y, x>> \in OpToRel(<, Nat))
  BY NatLessThanWellFounded, WFMin, Zenon
<1>2. ASSUME NEW y \in T PROVE x <= y
  <2>1. <<y, x>> \in Nat \X Nat /\ <<y, x>>[1] = y /\ <<y, x>>[2] = x
    OBVIOUS
  <2>2. y < x => <<y, x>> \in OpToRel(<, Nat)
    BY <2>1 DEF OpToRel
  <2>3. ~ (y < x)
    BY <1>1, <2>2, Zenon
  <2> QED BY <2>3
<1> QED BY <1>2 DEF Min

\* The P2PData handler advances NextExpected over what has arrived: it finds
\* the first number that has not, and leaves no hole behind.
LEMMA FirstHole ==
  ASSUME NEW E \in Nat, NEW R \in SUBSET Nat, IsFiniteSet(R),
         NEW e, e = Min((E .. E + Cardinality(R)) \ R)
  PROVE  /\ e \in Nat /\ e >= E /\ e \notin R
         /\ \A s \in E .. e - 1 : s \in R
<1> DEFINE I == E .. E + Cardinality(R)
<1>1. Cardinality(R) \in Nat
  BY FS_CardinalityType
<1>2. IsFiniteSet(I) /\ Cardinality(I) = Cardinality(R) + 1
  BY <1>1, FS_Interval
<1>3. I \ R # {}
  <2>1. ~ I \subseteq R
    BY <1>1, <1>2, FS_Subset
  <2> QED BY <2>1
<1>4. e \in I \ R /\ \A y \in I \ R : e <= y
  BY <1>1, <1>3, Least
<1> QED BY <1>1, <1>4

---------------------------------------------------------------------------
(* The shapes of connections and streams.                                  *)

\* A connection that is there: three flags.
Opened == [open : {TRUE}, accepted : BOOLEAN, established : BOOLEAN, interrupted : BOOLEAN]

\* The three flags of an open connection make a connection,
LEMMA ConnIntro ==
  ASSUME NEW c \in Opened
  PROVE  c \in ConnType /\ c.open
<1>1. c = Conn(c.accepted, c.established, c.interrupted)
  BY DEF Opened, Conn
<1>2. c.accepted \in BOOLEAN /\ c.established \in BOOLEAN /\ c.interrupted \in BOOLEAN
  BY DEF Opened
<1>3. c.open
  BY DEF Opened
<1> QED BY <1>1, <1>2, <1>3 DEF ConnType

\* and so does any choice of them,
LEMMA NewOpened ==
  ASSUME NEW a \in BOOLEAN, NEW e \in BOOLEAN, NEW i \in BOOLEAN
  PROVE  /\ Conn(a, e, i) \in Opened
         /\ Conn(a, e, i).open /\ Conn(a, e, i).accepted = a
         /\ Conn(a, e, i).established = e /\ Conn(a, e, i).interrupted = i
  BY DEF Conn, Opened

\* and every open connection is made of three flags.
LEMMA ConnOpen ==
  ASSUME NEW c \in ConnType, c.open
  PROVE  c \in Opened
<1>1. PICK a \in BOOLEAN, e \in BOOLEAN, i \in BOOLEAN : c = Conn(a, e, i)
  BY DEF ConnType, NoConn
<1> QED BY <1>1, NewOpened

\* What the handlers assign to the flags of a connection.
LEMMA FlagUpdate ==
  ASSUME NEW c \in Opened, NEW x \in BOOLEAN
  PROVE  /\ [c EXCEPT !.accepted = x] \in Opened
         /\ [c EXCEPT !.accepted = x].established = c.established
         /\ [c EXCEPT !.accepted = x].interrupted = c.interrupted
         /\ [c EXCEPT !.interrupted = x] \in Opened
         /\ [c EXCEPT !.interrupted = x].established = c.established
         /\ [c EXCEPT !.interrupted = x].interrupted = x
  BY DEF Opened

\* Connections_[key] is a connection, with the flags of the one that is there.
LEMMA ConnOfType ==
  ASSUME Types, NEW n \in Nodes
  PROVE  /\ ConnOf(n) \in Opened
         /\ ConnOf(n).accepted \in BOOLEAN /\ ConnOf(n).established \in BOOLEAN
         /\ ConnOf(n).interrupted \in BOOLEAN
         /\ ConnOf(n).established => conn[n].open /\ conn[n].established
         /\ ConnOf(n).interrupted => conn[n].open /\ conn[n].interrupted
         /\ conn[n].open => ConnOf(n) = conn[n]
<1>1. conn[n] \in ConnType
  BY DEF Types
<1>2. CASE conn[n].open
  <2>1. ConnOf(n) = conn[n] /\ ConnOf(n) \in Opened
    BY <1>1, <1>2, ConnOpen DEF ConnOf
  <2> QED BY <1>2, <2>1 DEF Opened
<1>3. CASE ~conn[n].open
  <2>1. ConnOf(n) = Conn(FALSE, FALSE, FALSE)
    BY <1>3, Zenon DEF ConnOf, NewConn
  <2> QED BY <1>3, <2>1 DEF Opened, Conn
<1> QED BY <1>2, <1>3

\* Pending maps numbers that have been used to packets and their transmissions.
LEMMA PendingsIntro ==
  ASSUME NEW D \in SUBSET Seqs, NEW P \in [D -> Waiting]
  PROVE  P \in Pendings
  BY DEF Pendings

\* What the unacknowledged packets of a stream are.
LEMMA PendingsElim ==
  ASSUME NEW P \in Pendings
  PROVE  /\ DOMAIN P \in SUBSET Seqs /\ P \in [DOMAIN P -> Waiting]
         /\ \A s \in DOMAIN P :
              P[s].packet \in Seqs /\ P[s].tries \in 1 .. MaxTransmits + 1
<1>1. PICK D \in SUBSET Seqs : P \in [D -> Waiting]
  BY DEF Pendings
<1> QED BY <1>1 DEF Waiting

\* SendStreams_[key] and RecvStreams_[key]: the stream, or one that is new.
LEMMA SendOfType ==
  ASSUME Types, NEW n \in Nodes
  PROVE  /\ SendOf(n) \in [open : {TRUE}, next : 1 .. MaxPackets + 1, pending : Pendings]
         /\ DOMAIN SendOf(n).pending \subseteq 1 .. SendOf(n).next - 1
         /\ SendOf(n).next \in Nat \ {0} /\ SendOf(n).next <= sent[n] + 1
<1>1. send[n] \in SendStreams /\ Numbering(n) /\ sent[n] \in 0 .. MaxPackets
  BY DEF Types
<1>2. CASE send[n].open
  <2>1. send[n] # NoStream
    BY <1>2 DEF NoStream
  <2>2. SendOf(n) = send[n]
    BY <1>2 DEF SendOf
  <2>3. /\ send[n] \in [open : {TRUE}, next : 1 .. MaxPackets + 1, pending : Pendings]
        /\ DOMAIN send[n].pending \subseteq 1 .. send[n].next - 1
    BY <1>1, <2>1 DEF SendStreams
  <2>4. send[n].next \in 1 .. MaxPackets + 1
    BY <2>3
  <2>5. send[n].next \in Nat \ {0}
    BY <2>4, ConnectionAssumption
  <2>6. send[n].next <= sent[n] + 1
    BY <1>1, <1>2 DEF Numbering
  <2> QED BY <2>2, <2>3, <2>5, <2>6
<1>3. CASE ~send[n].open
  <2>1. [s \in {} |-> 0] \in [{} -> Waiting]
    OBVIOUS
  <2>2. [s \in {} |-> 0] \in Pendings
    BY <2>1, PendingsIntro
  <2>3. SendOf(n) = NewSend
    BY <1>3 DEF SendOf
  <2>4. /\ NewSend.open = TRUE /\ NewSend.next = 1 /\ NewSend.pending = [s \in {} |-> 0]
        /\ NewSend \in [open : {TRUE}, next : 1 .. MaxPackets + 1, pending : Pendings]
    BY <2>2, ConnectionAssumption DEF NewSend
  <2>5. /\ SendOf(n) \in [open : {TRUE}, next : 1 .. MaxPackets + 1, pending : Pendings]
        /\ SendOf(n).next = 1 /\ SendOf(n).pending = [s \in {} |-> 0]
    BY <2>3, <2>4
  <2>6. DOMAIN SendOf(n).pending = {}
    BY <2>5
  <2>7. SendOf(n).next <= sent[n] + 1
    BY <1>1, <2>5
  <2>8. SendOf(n).next \in Nat \ {0} /\ DOMAIN SendOf(n).pending \subseteq 1 .. SendOf(n).next - 1
    BY <2>5, <2>6
  <2> QED BY <2>5, <2>7, <2>8
<1> QED BY <1>2, <1>3

\* RecvOf: the receive stream, or a new one where there is none.
LEMMA RecvOfType ==
  ASSUME Types, NEW n \in Nodes
  PROVE  /\ RecvOf(n) \in [open : {TRUE}, expected : 1 .. MaxPackets + 1, received : SUBSET Seqs]
         /\ RecvOf(n).received \subseteq RecvOf(n).expected + 1 .. MaxPackets
<1>1. recv[n] \in RecvStreams
  BY DEF Types
<1>2. CASE recv[n].open
  <2>1. recv[n] # NoStream
    BY <1>2 DEF NoStream
  <2> QED BY <1>1, <1>2, <2>1 DEF RecvOf, RecvStreams
<1>3. CASE ~recv[n].open
  BY <1>3, ConnectionAssumption DEF RecvOf, NewRecv
<1> QED BY <1>2, <1>3

\* An open send stream has sent no more than was handed to it.
LEMMA OpenSend ==
  ASSUME Types, NEW n \in Nodes, send[n].open
  PROVE  /\ send[n] \in [open : {TRUE}, next : 1 .. MaxPackets + 1, pending : Pendings]
         /\ DOMAIN send[n].pending \subseteq 1 .. send[n].next - 1
         /\ send[n].next \in Nat \ {0} /\ send[n].next <= sent[n] + 1
  BY SendOfType DEF SendOf

\* The datagrams a peer builds are datagrams.
LEMMA ControlType ==
  ASSUME NEW n \in Nodes,
         NEW t \in {"ConnectRequest", "ConnectAccept", "ConnectIgnored", "ConnectClose"}
  PROVE  Control(t, n) \in Datagrams
  BY DEF Control, Datagrams, Controls

\* A data packet is a datagram.
LEMMA DataType ==
  ASSUME NEW n \in Nodes, NEW s \in Seqs, NEW p \in Seqs
  PROVE  Data(n, s, p) \in Datagrams
  BY Others DEF Data, Datagrams, Datas

\* What Pump sends again are the packets of the stream.
LEMMA ResentType ==
  ASSUME Types, NEW n \in Nodes,
         NEW due \in SUBSET (IF send[n].open THEN DOMAIN send[n].pending ELSE {})
  PROVE  {Data(n, s, send[n].pending[s].packet) : s \in due} \subseteq Datagrams
<1> SUFFICES ASSUME NEW s \in due PROVE Data(n, s, send[n].pending[s].packet) \in Datagrams
  OBVIOUS
<1>1. send[n].open /\ s \in DOMAIN send[n].pending
  OBVIOUS
<1>2. send[n].pending \in Pendings
  BY <1>1, OpenSend
<1>3. s \in Seqs /\ send[n].pending[s].packet \in Seqs
  BY <1>1, <1>2, PendingsElim
<1> QED BY <1>3, DataType

---------------------------------------------------------------------------
(* Types is kept by every action.                                          *)

\* A connection and a stream may be missing.
LEMMA NothingTypes ==
  NoConn \in ConnType /\ NoStream \in SendStreams /\ NoStream \in RecvStreams
  BY DEF ConnType, SendStreams, RecvStreams

\* What the handlers assign to the fields of a stream.
LEMMA SendUpdate ==
  ASSUME NEW st \in [open : {TRUE}, next : 1 .. MaxPackets + 1, pending : Pendings],
         NEW k \in 1 .. MaxPackets + 1, NEW P \in Pendings, DOMAIN P \subseteq 1 .. k - 1,
         NEW new, new = [st EXCEPT !.next = k, !.pending = P]
  PROVE  new \in SendStreams /\ new.open /\ new.next = k /\ new.pending = P
<1>1. /\ new \in [open : {TRUE}, next : 1 .. MaxPackets + 1, pending : Pendings]
      /\ new.next = k /\ new.pending = P
  OBVIOUS
<1>2. new.open
  BY <1>1
<1> QED BY <1>1, <1>2 DEF SendStreams

\* At first there is no connection, no stream and no datagram.
LEMMA InitTypes == Init => Types
<1> SUFFICES ASSUME Init PROVE Types
  OBVIOUS
<1>2. \A n \in Nodes : Numbering(n)
  BY DEF Init, Numbering, NoStream
<1> QED BY <1>2, NothingTypes, ConnectionAssumption DEF Init, Types

\* Connections_.erase and ClearStreams leave nothing behind.
LEMMA DropTypes ==
  ASSUME Types, NEW n \in Nodes, Drop(n)
  PROVE  /\ conn' \in [Nodes -> ConnType] /\ announced' \in [Nodes -> Nat]
         /\ send' \in [Nodes -> SendStreams] /\ recv' \in [Nodes -> RecvStreams]
         /\ sent' = sent /\ sending' = sending => \A k \in Nodes : Numbering(k)'
<1>2. /\ conn' \in [Nodes -> ConnType] /\ announced' \in [Nodes -> Nat]
      /\ send' \in [Nodes -> SendStreams] /\ recv' \in [Nodes -> RecvStreams]
  BY NothingTypes DEF Drop, Types
<1>3. ASSUME NEW k \in Nodes, sent' = sent, sending' = sending
      PROVE  Numbering(k)'
  BY <1>3 DEF Drop, Types, Numbering, NoStream
<1> QED BY <1>2, <1>3

\* A connection that announces itself is still a connection.
LEMMA EstablishTypes ==
  ASSUME Types, NEW n \in Nodes, NEW c \in ConnType, Establish(n, c)
  PROVE  conn' \in [Nodes -> ConnType] /\ announced' \in [Nodes -> Nat]
  BY DEF Establish, Types

\* What a handler leaves in the network are the datagrams that were there and
\* its own.
LEMMA ReceiveTypes ==
  ASSUME Types, NEW m \in net, NEW replies \in SUBSET Datagrams, Receive(m, replies)
  PROVE  net' \subseteq Datagrams
  BY DEF Receive, Types

\* SendPacket, its first critical section: the connection is there.
LEMMA OpenForSendTypes ==
  ASSUME Types, NEW n \in Nodes, NEW autoAccept \in BOOLEAN, OpenForSend(n, autoAccept)
  PROVE  Types'
<1>1. [ConnOf(n) EXCEPT !.accepted = TRUE] \in ConnType
  BY ConnOfType, FlagUpdate, ConnIntro
<1>2. conn' \in [Nodes -> ConnType]
  BY <1>1 DEF OpenForSend, Types
<1>3. net' \subseteq Datagrams
  BY ControlType, Others DEF OpenForSend, Types
<1>4. sending' \in [Nodes -> BOOLEAN] /\ \A k \in Nodes : Numbering(k)'
  BY DEF OpenForSend, Types, Numbering, streamVars
<1> QED BY <1>2, <1>3, <1>4 DEF OpenForSend, Types, streamVars, histVars

\* The second lock region of SendPacket: the stream after the packet is queued.
LEMMA QueuedStream ==
  ASSUME Types, NEW n \in Nodes, QueuePacket(n)
  PROVE  /\ SendOf(n).next \in Seqs /\ sent[n] + 1 \in Seqs
         /\ send' \in [Nodes -> SendStreams] /\ send'[n].open
         /\ send'[n].next = SendOf(n).next + 1
         /\ DOMAIN send'[n].pending = DOMAIN SendOf(n).pending \cup {SendOf(n).next}
         /\ send'[n].pending[SendOf(n).next].packet = sent[n] + 1
         /\ SendOf(n).next \notin DOMAIN SendOf(n).pending
         /\ \A s \in DOMAIN SendOf(n).pending : send'[n].pending[s] = SendOf(n).pending[s]
         /\ \A k \in Nodes \ {n} : send'[k] = send[k]
<1> DEFINE stream == SendOf(n)
           packet == sent[n] + 1
           P == [s \in DOMAIN stream.pending \cup {stream.next} |->
                   IF s = stream.next THEN [packet |-> packet, tries |-> 1] ELSE stream.pending[s]]
           new == [stream EXCEPT !.next = @ + 1, !.pending = P]
<1>1. /\ stream \in [open : {TRUE}, next : 1 .. MaxPackets + 1, pending : Pendings]
      /\ DOMAIN stream.pending \subseteq 1 .. stream.next - 1 /\ stream.next <= sent[n] + 1
  BY SendOfType
<1>2. /\ sent[n] \in 0 .. MaxPackets /\ sent[n] < MaxPackets
      /\ packet \in Seqs /\ stream.next \in Seqs
  BY <1>1, ConnectionAssumption DEF QueuePacket, Types, Numbering, Seqs
<1>3. P \in Pendings
  <2>1. DOMAIN stream.pending \cup {stream.next} \subseteq Seqs
    BY <1>1, <1>2, PendingsElim
  <2>2. [packet |-> packet, tries |-> 1] \in Waiting
    BY <1>2, ConnectionAssumption DEF Waiting
  <2>3. \A s \in DOMAIN stream.pending : stream.pending[s] \in Waiting
    BY <1>1, PendingsElim
  <2>4. P \in [DOMAIN stream.pending \cup {stream.next} -> Waiting]
    BY <2>2, <2>3
  <2> QED BY <2>1, <2>4, PendingsIntro
<1>4. /\ DOMAIN P \subseteq 1 .. (stream.next + 1) - 1
      /\ stream.next \notin DOMAIN stream.pending
  BY <1>1
<1>5. stream.next + 1 \in 1 .. MaxPackets + 1
  BY <1>2, ConnectionAssumption DEF Seqs
<1>6. /\ DOMAIN P = DOMAIN stream.pending \cup {stream.next}
      /\ P[stream.next].packet = packet
      /\ \A s \in DOMAIN stream.pending : P[s] = stream.pending[s]
  BY <1>4
<1> HIDE DEF P, stream
<1>7. new \in SendStreams /\ new.open /\ new.next = stream.next + 1 /\ new.pending = P
  <2> DEFINE next == stream.next + 1
  <2>1. new = [stream EXCEPT !.next = next, !.pending = P]
    BY <1>1
  <2> HIDE DEF new, next
  <2>2. next \in 1 .. MaxPackets + 1 /\ DOMAIN P \subseteq 1 .. next - 1
    BY <1>4, <1>5 DEF next
  <2>3. new \in SendStreams /\ new.open /\ new.next = next /\ new.pending = P
    BY <1>1, <1>3, <2>1, <2>2, SendUpdate
  <2> QED BY <2>3 DEF next
<1>8. send' = [send EXCEPT ![n] = new]
  BY DEF QueuePacket, P, stream
<1> HIDE DEF new
<1>9. /\ send' \in [Nodes -> SendStreams] /\ send'[n] = new
      /\ \A k \in Nodes \ {n} : send'[k] = send[k]
  BY <1>7, <1>8 DEF Types
<1> QED BY <1>2, <1>4, <1>6, <1>7, <1>9 DEF stream

\* SendPacket, its second: the packet is in the send stream.
LEMMA QueuePacketTypes ==
  ASSUME Types, NEW n \in Nodes, QueuePacket(n)
  PROVE  Types'
<1>1. sent[n] \in 0 .. MaxPackets /\ sent[n] < MaxPackets
  BY DEF QueuePacket, Types, Numbering
<1>2. sent' \in [Nodes -> 0 .. MaxPackets] /\ sending' \in [Nodes -> BOOLEAN]
  BY <1>1, ConnectionAssumption DEF QueuePacket, Types
<1>3. ASSUME NEW k \in Nodes PROVE Numbering(k)'
  <2>1. CASE k # n
    BY <2>1, QueuedStream DEF QueuePacket, Types, Numbering
  <2>2. CASE k = n
    <3>1. /\ send'[n].next = SendOf(n).next + 1 /\ sent'[n] = sent[n] + 1
          /\ sending'[n] = FALSE
      BY QueuedStream DEF QueuePacket, Types
    <3>2. SendOf(n).next \in Nat \ {0} /\ SendOf(n).next <= sent[n] + 1
      BY SendOfType, Zenon
    <3> QED BY <1>1, <2>2, <3>1, <3>2 DEF Numbering
  <2> QED BY <2>1, <2>2
<1>4. net' \subseteq Datagrams
  <2>1. Data(n, SendOf(n).next, sent[n] + 1) \in Datagrams
    BY QueuedStream, DataType
  <2> QED BY <2>1 DEF QueuePacket, Types
<1>5. send' \in [Nodes -> SendStreams]
  BY QueuedStream
<1> QED BY <1>2, <1>3, <1>4, <1>5 DEF QueuePacket, Types, connVars, histVars

\* AcceptConnection.
LEMMA AcceptConnectionTypes ==
  ASSUME Types, NEW n \in Nodes, AcceptConnection(n)
  PROVE  Types'
<1>1. Conn(TRUE, TRUE, ConnOf(n).interrupted) \in ConnType
  BY ConnOfType, NewOpened, ConnIntro
<1>2. conn' \in [Nodes -> ConnType] /\ announced' \in [Nodes -> Nat]
  BY <1>1, EstablishTypes DEF AcceptConnection, MarkAccepted
<1>3. net' \subseteq Datagrams
  BY ControlType, Others DEF AcceptConnection, Types
<1>4. \A k \in Nodes : Numbering(k)'
  BY DEF AcceptConnection, Types, Numbering, streamVars
<1> QED BY <1>2, <1>3, <1>4 DEF AcceptConnection, Types, streamVars, histVars

\* CloseConnection: the connection and both streams are erased.
LEMMA CloseConnectionTypes ==
  ASSUME Types, NEW n \in Nodes, CloseConnection(n)
  PROVE  Types'
<1>1. net' \subseteq Datagrams
  BY ControlType, Others DEF CloseConnection, Types
<1>2. Drop(n) /\ sent' = sent /\ sending' = sending
  BY DEF CloseConnection
<1> QED BY <1>1, <1>2, DropTypes DEF CloseConnection, Types, histVars

\* AddNotify and RemoveNotify of connection requests.
LEMMA SetListeningTypes ==
  ASSUME Types, NEW n \in Nodes, NEW on \in BOOLEAN, SetListening(n, on)
  PROVE  Types'
  BY DEF SetListening, Types, Numbering, connVars, streamVars, histVars

\* A stream whose unacknowledged packets are replaced by some of its own.
LEMMA PendingUpdate ==
  ASSUME NEW st \in [open : {TRUE}, next : 1 .. MaxPackets + 1, pending : Pendings],
         NEW P \in Pendings, DOMAIN P \subseteq 1 .. st.next - 1,
         NEW new, new = [st EXCEPT !.pending = P]
  PROVE  new \in SendStreams /\ new.open /\ new.next = st.next /\ new.pending = P
<1>1. /\ new \in [open : {TRUE}, next : 1 .. MaxPackets + 1, pending : Pendings]
      /\ new.next = st.next /\ new.pending = P
  OBVIOUS
<1>2. new.open
  BY <1>1
<1> QED BY <1>1, <1>2 DEF SendStreams

\* Pump counts a transmission of each packet that is due, and changes nothing
\* else of the stream.
LEMMA PumpedStream ==
  ASSUME Types, NEW n \in Nodes, NEW due \in SUBSET DOMAIN send[n].pending, Pump(n, due)
  PROVE  /\ send' \in [Nodes -> SendStreams] /\ send'[n].open /\ send'[n].next = send[n].next
         /\ DOMAIN send'[n].pending = DOMAIN send[n].pending
         /\ \A s \in DOMAIN send[n].pending :
              /\ send'[n].pending[s].packet = send[n].pending[s].packet
              /\ send'[n].pending[s].tries =
                   IF s \in due /\ send[n].pending[s].tries <= MaxTransmits
                   THEN send[n].pending[s].tries + 1 ELSE send[n].pending[s].tries
         /\ \A k \in Nodes \ {n} : send'[k] = send[k]
<1> DEFINE old == send[n].pending
           P == Resent(old, due)
           new == [send[n] EXCEPT !.pending = P]
<1>1. /\ send[n] \in [open : {TRUE}, next : 1 .. MaxPackets + 1, pending : Pendings]
      /\ DOMAIN old \subseteq 1 .. send[n].next - 1
  BY OpenSend DEF Pump
<1>2. DOMAIN old \in SUBSET Seqs /\ old \in [DOMAIN old -> Waiting]
  BY <1>1, PendingsElim
<1> HIDE DEF old
<1>3. ASSUME NEW s \in DOMAIN old
      PROVE  /\ P[s] \in Waiting /\ P[s].packet = old[s].packet
             /\ P[s].tries = IF s \in due /\ old[s].tries <= MaxTransmits
                             THEN old[s].tries + 1 ELSE old[s].tries
  <2>1. old[s] \in Waiting
    BY <1>2
  <2>2. CASE s \in due /\ old[s].tries <= MaxTransmits
    <3>1. P[s] = [old[s] EXCEPT !.tries = old[s].tries + 1]
      BY <2>2 DEF Resent
    <3>2. old[s].tries + 1 \in 1 .. MaxTransmits + 1
      BY <2>1, <2>2, ConnectionAssumption DEF Waiting
    <3> HIDE DEF P
    <3> QED BY <2>1, <2>2, <3>1, <3>2 DEF Waiting
  <2>3. CASE ~(s \in due /\ old[s].tries <= MaxTransmits)
    <3>1. P[s] = old[s]
      BY <2>3 DEF Resent
    <3> HIDE DEF P
    <3> QED BY <2>1, <2>3, <3>1
  <2> QED BY <2>2, <2>3
<1>4. DOMAIN P = DOMAIN old /\ P \in [DOMAIN old -> Waiting]
  BY <1>3 DEF Resent
<1>5. P \in Pendings
  BY <1>2, <1>4, PendingsIntro
<1>6. send' = [send EXCEPT ![n] = new]
  BY DEF Pump, old
<1> HIDE DEF P
<1>7. new \in SendStreams /\ new.open /\ new.next = send[n].next /\ new.pending = P
  <2> HIDE DEF new
  <2> QED BY <1>1, <1>4, <1>5, PendingUpdate DEF new
<1> HIDE DEF new
<1>8. /\ send' \in [Nodes -> SendStreams] /\ send'[n] = new
      /\ \A k \in Nodes \ {n} : send'[k] = send[k]
  BY <1>6, <1>7 DEF Types
<1> QED BY <1>3, <1>4, <1>7, <1>8 DEF old

\* Pump: what is due is sent again, each packet counted.
LEMMA PumpTypes ==
  ASSUME Types, NEW n \in Nodes, NEW due \in SUBSET DOMAIN send[n].pending, Pump(n, due)
  PROVE  Types'
<1>1. Interrupt(n, due) \in ConnType
  <2>1. conn[n] \in ConnType
    BY DEF Types
  <2>2. conn[n].open => [conn[n] EXCEPT !.interrupted = TRUE] \in ConnType
    BY <2>1, ConnOpen, FlagUpdate, ConnIntro
  <2> QED BY <2>1, <2>2 DEF Interrupt
<1>2. conn' \in [Nodes -> ConnType]
  BY <1>1 DEF Pump, Types
<1>3. net' \subseteq Datagrams
  <2>1. due \in SUBSET (IF send[n].open THEN DOMAIN send[n].pending ELSE {})
    BY DEF Pump
  <2> QED BY <2>1, ResentType DEF Pump, Types
<1>4. ASSUME NEW k \in Nodes PROVE Numbering(k)'
  BY PumpedStream DEF Pump, Types, Numbering
<1>5. send' \in [Nodes -> SendStreams]
  BY PumpedStream
<1> QED BY <1>2, <1>3, <1>4, <1>5 DEF Pump, Types, histVars

\* Pump, when a packet has been sent too often.
LEMMA PumpTimedOutTypes ==
  ASSUME Types, NEW n \in Nodes,
         NEW due \in SUBSET (IF send[n].open THEN DOMAIN send[n].pending ELSE {}),
         PumpTimedOut(n, due)
  PROVE  Types'
<1>1. net' \subseteq Datagrams
  BY ResentType DEF PumpTimedOut, Types
<1>2. Drop(n) /\ sent' = sent /\ sending' = sending
  BY DEF PumpTimedOut
<1> QED BY <1>1, <1>2, DropTypes DEF PumpTimedOut, Types, histVars

\* The network loses a datagram.
LEMMA LoseTypes ==
  ASSUME Types, NEW m \in net, Lose(m)
  PROVE  Types'
  BY DEF Lose, Types, Numbering, connVars, streamVars, histVars

\* What a datagram of each type carries.
LEMMA DatagramFields ==
  ASSUME Types, NEW m \in net
  PROVE  /\ m.to \in Nodes
         /\ m.type = "Data" => m.seq \in Seqs /\ m.packet \in Seqs
         /\ m.type = "Ack" => m.ackSeq \in 0 .. MaxPackets /\ m.sack \in SUBSET Seqs
<1>1. m \in Controls \/ m \in Datas \/ m \in Acks
  BY DEF Types, Datagrams
<1>2. CASE m \in Controls
  BY <1>2 DEF Controls
<1>3. CASE m \in Datas
  BY <1>3 DEF Datas
<1>4. CASE m \in Acks
  BY <1>4 DEF Acks
<1> QED BY <1>1, <1>2, <1>3, <1>4

\* OnDatagram: a connection request,
LEMMA OnConnectRequestTypes ==
  ASSUME Types, NEW m \in net, OnConnectRequest(m)
  PROVE  Types'
<1>1. m.to \in Nodes
  BY DatagramFields
<1>2. conn' \in [Nodes -> ConnType]
  BY <1>1, ConnOfType, ConnIntro DEF OnConnectRequest, Types
<1>3. Control("ConnectIgnored", Other(m.to)) \in Datagrams
  BY <1>1, ControlType, Others
<1>4. net' \subseteq Datagrams
  BY <1>3 DEF OnConnectRequest, Receive, Types
<1>5. \A k \in Nodes : Numbering(k)'
  BY DEF OnConnectRequest, Types, Numbering, streamVars
<1> QED BY <1>2, <1>4, <1>5 DEF OnConnectRequest, Types, streamVars, histVars

\* its acceptance,
LEMMA OnConnectAcceptTypes ==
  ASSUME Types, NEW m \in net, OnConnectAccept(m)
  PROVE  Types'
<1>1. m.to \in Nodes
  BY DatagramFields
<1>2. Conn(TRUE, TRUE, FALSE) \in ConnType
  BY NewOpened, ConnIntro
<1>3. conn' \in [Nodes -> ConnType] /\ announced' \in [Nodes -> Nat]
  BY <1>1, <1>2, EstablishTypes DEF OnConnectAccept
<1>4. net' \subseteq Datagrams
  BY DEF OnConnectAccept, Receive, Types
<1>5. \A k \in Nodes : Numbering(k)'
  BY DEF OnConnectAccept, Types, Numbering, streamVars
<1> QED BY <1>3, <1>4, <1>5 DEF OnConnectAccept, Types, streamVars, histVars

\* a close or a refusal,
LEMMA OnConnectClosedTypes ==
  ASSUME Types, NEW m \in net, OnConnectClosed(m)
  PROVE  Types'
<1>1. m.to \in Nodes
  BY DatagramFields
<1>2. net' \subseteq Datagrams
  BY DEF OnConnectClosed, Receive, Types
<1>3. Drop(m.to) /\ sent' = sent /\ sending' = sending
  BY DEF OnConnectClosed
<1> QED BY <1>1, <1>2, <1>3, DropTypes DEF OnConnectClosed, Types, histVars

\* The P2PData handler: afterwards the receiving stream describes what it
\* described before and the packet, with no hole below NextExpected.
LEMMA AdvancedStream ==
  ASSUME Types, NEW m \in net, OnData(m)
  PROVE  /\ recv' \in [Nodes -> RecvStreams] /\ recv'[m.to].open
         /\ Arrived(m.to)' = (1 .. RecvOf(m.to).expected - 1) \cup RecvOf(m.to).received \cup {m.seq}
         /\ m.seq \in (1 .. RecvOf(m.to).expected - 1) \cup RecvOf(m.to).received
              => got' = got
         /\ m.seq \notin (1 .. RecvOf(m.to).expected - 1) \cup RecvOf(m.to).received
              => got' = [got EXCEPT ![m.to] = @ \cup {m.packet}]
         /\ \E reply \in Acks :
              /\ reply.to = Other(m.to)
              /\ (1 .. reply.ackSeq) \cup reply.sack = Arrived(m.to)'
              /\ Receive(m, {reply})
         /\ \A k \in Nodes \ {m.to} : recv'[k] = recv[k]
<1> DEFINE n == m.to
           E == RecvOf(n).expected
           R == RecvOf(n).received
           duplicate == m.seq < E \/ m.seq \in R
           rcvd == R \cup (IF duplicate THEN {} ELSE {m.seq})
           e == Min((E .. E + Cardinality(rcvd)) \ rcvd)
           beyond == Beyond(rcvd, e)
           new == [open |-> TRUE, expected |-> e, received |-> beyond]
           reply == [type |-> "Ack", to |-> Other(n), ackSeq |-> e - 1, sack |-> beyond]
<1>1. n \in Nodes /\ m.seq \in Seqs /\ m.packet \in Seqs
  BY DatagramFields DEF OnData
<1>2. RecvOf(n) \in [open : {TRUE}, expected : 1 .. MaxPackets + 1, received : SUBSET Seqs]
      /\ R \subseteq E + 1 .. MaxPackets
  BY <1>1, RecvOfType
<1>3. E \in 1 .. MaxPackets + 1 /\ R \in SUBSET Seqs
  BY <1>2
<1>4. /\ recv' = [recv EXCEPT ![n] = new] /\ Receive(m, {reply})
      /\ got' = IF duplicate THEN got ELSE [got EXCEPT ![n] = @ \cup {m.packet}]
  BY DEF OnData
<1> HIDE DEF n, E, R
<1>5. /\ rcvd \subseteq Seqs /\ rcvd \subseteq E .. MaxPackets /\ IsFiniteSet(rcvd)
      /\ (1 .. E - 1) \cup rcvd = (1 .. E - 1) \cup R \cup {m.seq}
  <2>1. rcvd \subseteq Seqs
    BY <1>1, <1>3
  <2>2. ASSUME NEW s \in rcvd PROVE s \in E .. MaxPackets
    <3>1. CASE s \in R
      BY <1>2, <1>3, <3>1, ConnectionAssumption
    <3>2. CASE s = m.seq /\ ~duplicate
      BY <1>1, <1>3, <3>2, ConnectionAssumption DEF Seqs
    <3> QED BY <3>1, <3>2
  <2>3. IsFiniteSet(Seqs)
    BY FS_Interval, ConnectionAssumption DEF Seqs
  <2>4. IsFiniteSet(rcvd)
    BY <2>1, <2>3, FS_Subset
  <2>5. (1 .. E - 1) \cup rcvd = (1 .. E - 1) \cup R \cup {m.seq}
    <3>1. duplicate => m.seq \in (1 .. E - 1) \cup R
      BY <1>1, <1>3, ConnectionAssumption DEF Seqs
    <3> QED BY <3>1
  <2> QED BY <2>1, <2>2, <2>4, <2>5
<1>6. duplicate <=> m.seq \in (1 .. E - 1) \cup R
  BY <1>1, <1>3, ConnectionAssumption DEF Seqs
<1> HIDE DEF duplicate, rcvd
<1>7. /\ e \in Nat /\ e >= E /\ e \notin rcvd
      /\ \A s \in E .. e - 1 : s \in rcvd
  <2>1. E \in Nat /\ rcvd \in SUBSET Nat
    BY <1>3, <1>5, ConnectionAssumption DEF Seqs
  <2> HIDE DEF e
  <2> QED BY <1>5, <2>1, FirstHole DEF e
<1> HIDE DEF e
<1>8. e \in 1 .. MaxPackets + 1
  <2>1. CASE e = E
    BY <1>3, <2>1
  <2>2. CASE e > E
    <3>1. e - 1 \in E .. e - 1
      BY <1>3, <1>7, <2>2, ConnectionAssumption
    <3>2. e - 1 \in Seqs
      BY <3>1, <1>5, <1>7
    <3> QED BY <1>7, <3>2, ConnectionAssumption DEF Seqs
  <2> QED BY <1>3, <1>7, <2>1, <2>2, ConnectionAssumption
<1>9. beyond \subseteq e + 1 .. MaxPackets /\ beyond \in SUBSET Seqs
  <2>1. ASSUME NEW s \in beyond PROVE s \in Seqs /\ s > e
    BY <1>5 DEF Beyond
  <2> QED BY <2>1, <1>8, ConnectionAssumption DEF Seqs
<1>10. (1 .. e - 1) \cup beyond = (1 .. E - 1) \cup rcvd
  <2>1. ASSUME NEW s \in (1 .. e - 1) \cup beyond PROVE s \in (1 .. E - 1) \cup rcvd
    <3>1. CASE s \in 1 .. e - 1
      BY <1>3, <1>7, <1>8, <3>1, ConnectionAssumption
    <3>2. CASE s \in beyond
      BY <3>2 DEF Beyond
    <3> QED BY <3>1, <3>2
  <2>2. ASSUME NEW s \in (1 .. E - 1) \cup rcvd PROVE s \in (1 .. e - 1) \cup beyond
    <3>1. CASE s \in 1 .. E - 1
      BY <1>3, <1>7, <1>8, <3>1, ConnectionAssumption
    <3>2. CASE s \in rcvd
      <4>1. s \in 1 .. MaxPackets /\ s # e
        BY <3>2, <1>5, <1>7 DEF Seqs
      <4>2. CASE s < e
        BY <4>1, <4>2, <1>8, ConnectionAssumption
      <4>3. CASE s > e
        BY <3>2, <4>3 DEF Beyond
      <4> QED BY <4>1, <4>2, <4>3, <1>8, ConnectionAssumption
    <3> QED BY <3>1, <3>2
  <2> QED BY <2>1, <2>2
<1> HIDE DEF beyond
<1>11. new \in RecvStreams /\ new.open /\ new.expected = e /\ new.received = beyond
  BY <1>8, <1>9 DEF RecvStreams
<1>12. /\ reply \in Acks /\ reply.to = Other(n)
       /\ (1 .. reply.ackSeq) \cup reply.sack = (1 .. e - 1) \cup beyond
  <2>1. e - 1 \in 0 .. MaxPackets
    BY <1>8, ConnectionAssumption
  <2> QED BY <1>1, <1>9, <2>1, Others DEF Acks
<1> HIDE DEF new, reply
<1>13. /\ recv' \in [Nodes -> RecvStreams] /\ recv'[n] = new
       /\ \A k \in Nodes \ {n} : recv'[k] = recv[k]
  BY <1>1, <1>4, <1>11 DEF Types
<1>14. Arrived(n)' = (1 .. e - 1) \cup beyond
  BY <1>11, <1>13 DEF Arrived, n
<1> QED
  <2>1. Arrived(n)' = (1 .. E - 1) \cup R \cup {m.seq}
    BY <1>5, <1>10, <1>14
  <2>2. \E r \in Acks : /\ r.to = Other(n) /\ Receive(m, {r})
                        /\ (1 .. r.ackSeq) \cup r.sack = Arrived(n)'
    BY <1>4, <1>12, <1>14
  <2> QED BY <1>4, <1>6, <1>11, <1>13, <2>1, <2>2 DEF n, E, R

\* a packet,
LEMMA OnDataTypes ==
  ASSUME Types, NEW m \in net, OnData(m)
  PROVE  Types'
<1>1. m.to \in Nodes /\ m.packet \in Seqs
  BY DatagramFields DEF OnData
<1>2. Conn(ConnOf(m.to).accepted, TRUE, FALSE) \in ConnType
  BY <1>1, ConnOfType, NewOpened, ConnIntro
<1>3. conn' \in [Nodes -> ConnType] /\ announced' \in [Nodes -> Nat]
  BY <1>1, <1>2, EstablishTypes DEF OnData
<1>4. recv' \in [Nodes -> RecvStreams]
  BY AdvancedStream
<1>5. got' \in [Nodes -> SUBSET Seqs]
  BY <1>1, AdvancedStream DEF Types
<1>6. net' \subseteq Datagrams
  <2>1. PICK reply \in Acks : Receive(m, {reply})
    BY AdvancedStream
  <2> QED BY <2>1 DEF Receive, Types, Datagrams
<1>7. \A k \in Nodes : Numbering(k)'
  BY DEF OnData, Types, Numbering
<1> QED BY <1>3, <1>4, <1>5, <1>6, <1>7 DEF OnData, Types

\* An acknowledgement removes the packets it covers from Pending, and changes
\* nothing else of the stream.
LEMMA AckedStream ==
  ASSUME Types, NEW m \in net, OnAck(m), send[m.to].open
  PROVE  /\ send' \in [Nodes -> SendStreams] /\ send'[m.to].open
         /\ send'[m.to].next = send[m.to].next
         /\ DOMAIN send'[m.to].pending = DOMAIN send[m.to].pending \ CoveredBy(m)
         /\ \A s \in DOMAIN send'[m.to].pending :
              send'[m.to].pending[s] = send[m.to].pending[s]
         /\ \A k \in Nodes \ {m.to} : send'[k] = send[k]
<1> DEFINE n == m.to
           old == send[n].pending
           P == [s \in DOMAIN old \ CoveredBy(m) |-> old[s]]
           new == [send[n] EXCEPT !.pending = P]
<1>1. n \in Nodes
  BY DatagramFields
<1>2. /\ send[n] \in [open : {TRUE}, next : 1 .. MaxPackets + 1, pending : Pendings]
      /\ DOMAIN old \subseteq 1 .. send[n].next - 1
  BY <1>1, OpenSend
<1>3. DOMAIN old \in SUBSET Seqs /\ old \in [DOMAIN old -> Waiting]
  BY <1>2, PendingsElim
<1>4. send' = [send EXCEPT ![n] = new]
  BY DEF OnAck
<1> HIDE DEF old
<1>5. /\ DOMAIN P = DOMAIN old \ CoveredBy(m)
      /\ \A s \in DOMAIN P : P[s] = old[s]
      /\ P \in [DOMAIN P -> Waiting]
  BY <1>3
<1> HIDE DEF P
<1>6. P \in Pendings
  BY <1>3, <1>5, PendingsIntro
<1>7. new \in SendStreams /\ new.open /\ new.next = send[n].next /\ new.pending = P
  <2>1. DOMAIN P \subseteq 1 .. send[n].next - 1
    BY <1>2, <1>5
  <2> HIDE DEF n
  <2> QED BY <1>2, <1>6, <2>1, PendingUpdate
<1> HIDE DEF new
<1>8. /\ send' \in [Nodes -> SendStreams] /\ send'[n] = new
      /\ \A k \in Nodes \ {n} : send'[k] = send[k]
  BY <1>1, <1>4, <1>7 DEF Types
<1> QED BY <1>5, <1>7, <1>8 DEF old

\* and an acknowledgement.
LEMMA OnAckTypes ==
  ASSUME Types, NEW m \in net, OnAck(m)
  PROVE  Types'
<1>1. m.to \in Nodes
  BY DatagramFields
<1>2. AfterAck(m) \in ConnType
  <2>1. conn[m.to] \in ConnType
    BY <1>1 DEF Types
  <2>2. conn[m.to].open => [conn[m.to] EXCEPT !.interrupted = FALSE] \in ConnType
    BY <2>1, ConnOpen, FlagUpdate, ConnIntro
  <2> QED BY <2>2, NothingTypes DEF AfterAck, NoConn, NoStream
<1>3. conn' \in [Nodes -> ConnType]
  BY <1>1, <1>2 DEF OnAck, Types
<1>4. net' \subseteq Datagrams
  BY DEF OnAck, Receive, Types
<1>5. CASE ~send[m.to].open
  BY <1>3, <1>4, <1>5 DEF OnAck, Types, Numbering
<1>6. CASE send[m.to].open
  <2>1. {send[m.to].pending[s].packet : s \in CoveredBy(m)} \subseteq Seqs
    <3>1. send[m.to].pending \in Pendings
      BY <1>1, <1>6, OpenSend
    <3>2. \A s \in DOMAIN send[m.to].pending : send[m.to].pending[s].packet \in Seqs
      BY <3>1, PendingsElim
    <3> QED BY <3>2 DEF CoveredBy
  <2>2. acked' \in [Nodes -> SUBSET Seqs]
    BY <1>1, <1>6, <2>1 DEF OnAck, Types
  <2>3. ASSUME NEW k \in Nodes PROVE Numbering(k)'
    BY <1>6, AckedStream DEF OnAck, Types, Numbering
  <2>4. send' \in [Nodes -> SendStreams]
    BY <1>6, AckedStream
  <2> QED BY <1>3, <1>4, <2>2, <2>3, <2>4 DEF OnAck, Types
<1> QED BY <1>5, <1>6

\* Every step of either thread, and of the network, keeps Types.
LEMMA NextTypes == Types /\ [Next]_vars => Types'
<1> SUFFICES ASSUME Types, [Next]_vars PROVE Types'
  OBVIOUS
<1>1. ASSUME NEW n \in Nodes, GameThread(n) PROVE Types'
  BY <1>1, SetListeningTypes, OpenForSendTypes, QueuePacketTypes, AcceptConnectionTypes,
     CloseConnectionTypes, PumpTypes, PumpTimedOutTypes DEF GameThread
<1>2. ASSUME NEW m \in net, OnDatagram(m) PROVE Types'
  BY <1>2, OnConnectRequestTypes, OnConnectAcceptTypes, OnConnectClosedTypes, OnDataTypes,
     OnAckTypes DEF OnDatagram
<1>3. ASSUME NEW m \in net, Lose(m) PROVE Types'
  BY <1>3, LoseTypes
<1>4. CASE UNCHANGED vars
  BY <1>4 DEF Types, Numbering, vars, connVars, streamVars, histVars
<1> QED BY <1>1, <1>2, <1>3, <1>4 DEF Next

\* The whole state keeps its type: streams and datagrams hold the numbers that
\* were given out and no others, however the two threads interleave.
LEMMA TypesInvariant == Spec => []Types
<1>1. Types /\ [Next]_vars => Types'
  BY NextTypes
<1> QED BY InitTypes, <1>1, PTL DEF Spec

\* Both threads, every loss, duplicate and delay: the connection table, the
\* streams and what was sent and received stay within their types.
THEOREM TypeCorrect == Spec => []TypeOK
<1>1. Types => TypeOK
  <2> SUFFICES ASSUME Types PROVE TypeOK
    OBVIOUS
  <2>1. ASSUME NEW n \in Nodes, send[n].open
        PROVE  /\ send[n].next \in 1 .. MaxPackets + 1
               /\ DOMAIN send[n].pending \subseteq 1 .. send[n].next - 1
               /\ \A s \in DOMAIN send[n].pending :
                    send[n].pending[s] \in [packet : Seqs, tries : 1 .. MaxTransmits + 1]
    BY <2>1, OpenSend, PendingsElim DEF Waiting
  <2>2. ASSUME NEW n \in Nodes, recv[n].open
        PROVE  /\ recv[n].expected \in 1 .. MaxPackets + 1
               /\ recv[n].received \subseteq recv[n].expected + 1 .. MaxPackets
    <3>1. RecvOf(n) = recv[n]
      BY <2>2 DEF RecvOf
    <3> QED BY <3>1, RecvOfType
  <2> QED BY <2>1, <2>2 DEF Types, TypeOK
<1> QED BY TypesInvariant, <1>1, PTL

---------------------------------------------------------------------------
(* A connection and its streams: RecvStreamHasConnection,                  *)
(* InterruptedHasCause and EstablishedOnce, for one peer.                  *)

Caused(n) ==
  conn[n].open /\ conn[n].interrupted =>
    /\ send[n].open
    /\ \E s \in DOMAIN send[n].pending : send[n].pending[s].tries > MaxTransmits

Told(n) == announced[n] = IF conn[n].open /\ conn[n].established THEN 1 ELSE 0

Tied(n) == (recv[n].open => conn[n].open) /\ Caused(n) /\ Told(n)

\* An action on one peer leaves the other as it was.
LEMMA TiedFrame ==
  ASSUME NEW k \in Nodes, Tied(k),
         conn'[k] = conn[k], announced'[k] = announced[k],
         send'[k] = send[k], recv'[k] = recv[k]
  PROVE  Tied(k)'
  BY DEF Tied, Caused, Told

\* Without a connection and without streams there is nothing to tie.
LEMMA DropTied ==
  ASSUME Types, NEW n \in Nodes, Drop(n), \A k \in Nodes : Tied(k)
  PROVE  \A k \in Nodes : Tied(k)'
<1> SUFFICES ASSUME NEW k \in Nodes PROVE Tied(k)'
  OBVIOUS
<1>1. CASE k # n
  BY <1>1, TiedFrame DEF Drop, Types
<1>2. CASE k = n
  <2>1. conn'[n] = NoConn /\ announced'[n] = 0 /\ recv'[n] = NoStream
    BY DEF Drop, Types
  <2>2. ~NoConn.open /\ ~NoStream.open
    BY DEF NoConn, NoStream
  <2> QED BY <1>2, <2>1, <2>2 DEF Tied, Caused, Told
<1> QED BY <1>1, <1>2

\* Establish announces a connection that was not established before.
LEMMA EstablishTold ==
  ASSUME Types, NEW n \in Nodes, Told(n), NEW c \in Opened, c.established, Establish(n, c)
  PROVE  /\ conn'[n] = c /\ Told(n)'
         /\ \A k \in Nodes \ {n} : conn'[k] = conn[k] /\ announced'[k] = announced[k]
<1>1. /\ conn'[n] = c
      /\ announced'[n] = IF ConnOf(n).established THEN announced[n] ELSE announced[n] + 1
      /\ \A k \in Nodes \ {n} : conn'[k] = conn[k] /\ announced'[k] = announced[k]
  BY DEF Establish, Types
<1>2. ConnOf(n).established <=> (conn[n].open /\ conn[n].established)
  BY ConnOfType
<1>3. announced'[n] = 1
  BY <1>1, <1>2 DEF Told
<1>4. c.open
  BY ConnIntro
<1> QED BY <1>1, <1>3, <1>4 DEF Told

\* A connection changes, the streams do not, and what interrupted it and what
\* established it are as before.
LEMMA ConnTied ==
  ASSUME Types, NEW n \in Nodes, \A k \in Nodes : Tied(k),
         UNCHANGED <<announced, streamVars>>,
         NEW c \in Opened, conn' = [conn EXCEPT ![n] = c],
         c.interrupted => ConnOf(n).interrupted,
         c.established = ConnOf(n).established
  PROVE  \A k \in Nodes : Tied(k)'
<1> SUFFICES ASSUME NEW k \in Nodes PROVE Tied(k)'
  OBVIOUS
<1>1. CASE k # n
  BY <1>1, TiedFrame DEF Types, streamVars
<1>2. CASE k = n
  <2>1. conn'[n] = c /\ announced' = announced /\ send' = send /\ recv' = recv
    BY DEF Types, streamVars
  <2>2. c.open
    BY ConnIntro
  <2>3. /\ c.established <=> (conn[n].open /\ conn[n].established)
        /\ c.interrupted => conn[n].open /\ conn[n].interrupted
    BY ConnOfType
  <2> QED BY <1>2, <2>1, <2>2, <2>3 DEF Tied, Caused, Told
<1> QED BY <1>1, <1>2

\* A connection that is opened for sending has no streams yet, or its own.
LEMMA OpenForSendTied ==
  ASSUME Types, \A k \in Nodes : Tied(k),
         NEW n \in Nodes, NEW autoAccept \in BOOLEAN, OpenForSend(n, autoAccept)
  PROVE  \A k \in Nodes : Tied(k)'
<1> DEFINE c == [ConnOf(n) EXCEPT !.accepted = TRUE]
<1>1. c \in Opened /\ c.established = ConnOf(n).established /\ c.interrupted = ConnOf(n).interrupted
  BY ConnOfType, FlagUpdate
<1>2. conn' = [conn EXCEPT ![n] = c] /\ UNCHANGED <<announced, streamVars>>
  BY DEF OpenForSend
<1> HIDE DEF c
<1> QED BY <1>1, <1>2, ConnTied

\* A packet is queued only to an open connection.
LEMMA QueuePacketTied ==
  ASSUME Types, \A k \in Nodes : Tied(k), NEW n \in Nodes, QueuePacket(n)
  PROVE  \A k \in Nodes : Tied(k)'
<1> SUFFICES ASSUME NEW k \in Nodes PROVE Tied(k)'
  OBVIOUS
<1>1. conn' = conn /\ announced' = announced /\ recv' = recv
  BY DEF QueuePacket, connVars
<1>2. CASE k # n
  BY <1>1, <1>2, QueuedStream, TiedFrame
<1>3. CASE k = n
  <2>1. send[n].open => SendOf(n) = send[n]
    BY DEF SendOf
  <2>2. Caused(n)'
    BY <1>1, <2>1, QueuedStream DEF Tied, Caused
  <2> QED BY <1>1, <1>3, <2>2 DEF Tied, Told
<1> QED BY <1>2, <1>3

\* Accepting establishes at once, and announces what was not yet established.
LEMMA AcceptConnectionTied ==
  ASSUME Types, \A k \in Nodes : Tied(k), NEW n \in Nodes, AcceptConnection(n)
  PROVE  \A k \in Nodes : Tied(k)'
<1> DEFINE c == Conn(TRUE, TRUE, ConnOf(n).interrupted)
<1>1. c \in Opened /\ c.established /\ c.interrupted = ConnOf(n).interrupted
  BY ConnOfType, NewOpened
<1>2. Establish(n, c) /\ send' = send /\ recv' = recv
  BY DEF AcceptConnection, MarkAccepted, streamVars
<1> HIDE DEF c
<1>3. /\ conn'[n] = c /\ Told(n)' /\ c.open
      /\ \A k \in Nodes \ {n} : conn'[k] = conn[k] /\ announced'[k] = announced[k]
  BY <1>1, <1>2, EstablishTold, ConnIntro DEF Tied
<1>4. Caused(n)'
  BY <1>1, <1>2, <1>3, ConnOfType DEF Tied, Caused
<1>5. Tied(n)'
  BY <1>3, <1>4 DEF Tied
<1> QED BY <1>2, <1>3, <1>5, TiedFrame

\* Pump interrupts a connection for a packet whose transmissions have run out,
\* and it counts that transmission too.
LEMMA PumpTied ==
  ASSUME Types, \A k \in Nodes : Tied(k),
         NEW n \in Nodes, NEW due \in SUBSET DOMAIN send[n].pending, Pump(n, due)
  PROVE  \A k \in Nodes : Tied(k)'
<1> SUFFICES ASSUME NEW k \in Nodes PROVE Tied(k)'
  OBVIOUS
<1>1. announced' = announced /\ recv' = recv /\ send[n].open
      /\ conn' = [conn EXCEPT ![n] = Interrupt(n, due)]
  BY DEF Pump
<1>2. CASE k # n
  BY <1>1, <1>2, PumpedStream, TiedFrame DEF Types
<1>3. CASE k = n
  <2>1. conn'[n] = Interrupt(n, due) /\ conn[n] \in ConnType
    BY <1>1 DEF Types
  <2>2. ASSUME NEW s \in DOMAIN send[n].pending
        PROVE  send[n].pending[s].tries \in 1 .. MaxTransmits + 1
    BY <1>1, OpenSend, PendingsElim
  <2>3. ASSUME NEW s \in DOMAIN send[n].pending, send[n].pending[s].tries > MaxTransmits
        PROVE  send'[n].pending[s].tries > MaxTransmits
    BY <2>2, <2>3, PumpedStream, ConnectionAssumption
  <2>4. ASSUME NEW s \in due, send[n].pending[s].tries >= MaxTransmits
        PROVE  send'[n].pending[s].tries > MaxTransmits
    BY <2>2, <2>4, PumpedStream, ConnectionAssumption
  <2>5. /\ DOMAIN send'[n].pending = DOMAIN send[n].pending /\ send'[n].open
    BY PumpedStream
  <2>6. CASE conn[n].open /\ \E s \in due : send[n].pending[s].tries >= MaxTransmits
    <3>1. /\ conn'[n] = [conn[n] EXCEPT !.interrupted = TRUE] /\ conn[n] \in Opened
      BY <2>1, <2>6, ConnOpen DEF Interrupt
    <3> DEFINE c == [conn[n] EXCEPT !.interrupted = TRUE]
    <3>a. c \in Opened /\ c.established = conn[n].established
      BY <3>1, FlagUpdate
    <3>b. conn'[n] = c
      BY <3>1
    <3> HIDE DEF c
    <3>2. conn'[n].established = conn[n].established /\ conn'[n].open
      BY <3>a, <3>b, ConnIntro
    <3>3. Caused(n)'
      BY <2>4, <2>5, <2>6 DEF Caused
    <3> QED BY <1>1, <1>3, <2>6, <3>2, <3>3 DEF Tied, Told
  <2>7. CASE ~(conn[n].open /\ \E s \in due : send[n].pending[s].tries >= MaxTransmits)
    <3>1. conn'[n] = conn[n]
      BY <2>1, <2>7 DEF Interrupt
    <3>2. Caused(n)'
      BY <2>3, <2>5, <3>1 DEF Tied, Caused
    <3> QED BY <1>1, <1>3, <3>1, <3>2 DEF Tied, Told
  <2> QED BY <2>6, <2>7
<1> QED BY <1>2, <1>3

\* A request that is accepted at once is established like the others.
LEMMA OnConnectRequestTied ==
  ASSUME Types, \A k \in Nodes : Tied(k), NEW m \in net, OnConnectRequest(m)
  PROVE  \A k \in Nodes : Tied(k)'
<1>1. m.to \in Nodes
  BY DatagramFields
<1>2. UNCHANGED <<announced, streamVars>>
  BY DEF OnConnectRequest
<1>3. CASE conn' = conn
  BY <1>2, <1>3, TiedFrame DEF streamVars
<1>4. CASE conn' = [conn EXCEPT ![m.to] = ConnOf(m.to)]
  <2>1. ConnOf(m.to) \in Opened
    BY <1>1, ConnOfType
  <2> QED BY <1>1, <1>2, <1>4, <2>1, ConnTied
<1> QED BY <1>3, <1>4 DEF OnConnectRequest

\* A connection that is established anew is not interrupted.
LEMMA RevivedTied ==
  ASSUME Types, \A k \in Nodes : Tied(k), NEW n \in Nodes,
         NEW c \in Opened, c.established, ~c.interrupted, Establish(n, c),
         send' = send, \A k \in Nodes \ {n} : recv'[k] = recv[k]
  PROVE  \A k \in Nodes : Tied(k)'
<1>1. /\ conn'[n] = c /\ Told(n)' /\ c.open
      /\ \A k \in Nodes \ {n} : conn'[k] = conn[k] /\ announced'[k] = announced[k]
  BY EstablishTold, ConnIntro DEF Tied
<1>2. Tied(n)'
  BY <1>1 DEF Tied, Caused
<1> QED BY <1>1, <1>2, TiedFrame

\* An acceptance establishes the connection, and ends its interruption.
LEMMA OnConnectAcceptTied ==
  ASSUME Types, \A k \in Nodes : Tied(k), NEW m \in net, OnConnectAccept(m)
  PROVE  \A k \in Nodes : Tied(k)'
<1> DEFINE c == Conn(TRUE, TRUE, FALSE)
<1>1. m.to \in Nodes
  BY DatagramFields
<1>2. c \in Opened /\ c.established /\ ~c.interrupted
  BY NewOpened
<1>3. Establish(m.to, c) /\ send' = send /\ recv' = recv
  BY DEF OnConnectAccept, streamVars
<1> HIDE DEF c
<1> QED BY <1>1, <1>2, <1>3, RevivedTied

\* A packet establishes a connection where there is none.
LEMMA OnDataTied ==
  ASSUME Types, \A k \in Nodes : Tied(k), NEW m \in net, OnData(m)
  PROVE  \A k \in Nodes : Tied(k)'
<1> DEFINE c == Conn(ConnOf(m.to).accepted, TRUE, FALSE)
<1>1. m.to \in Nodes
  BY DatagramFields
<1>2. c \in Opened /\ c.established /\ ~c.interrupted
  BY <1>1, ConnOfType, NewOpened
<1>3. Establish(m.to, c) /\ send' = send /\ \A k \in Nodes \ {m.to} : recv'[k] = recv[k]
  BY AdvancedStream DEF OnData
<1> HIDE DEF c
<1> QED BY <1>1, <1>2, <1>3, RevivedTied

\* An acknowledgement may remove the packet that interrupted a connection; it
\* is proof of life at the same time.
LEMMA OnAckTied ==
  ASSUME Types, \A k \in Nodes : Tied(k), NEW m \in net, OnAck(m)
  PROVE  \A k \in Nodes : Tied(k)'
<1> SUFFICES ASSUME NEW k \in Nodes PROVE Tied(k)'
  OBVIOUS
<1> DEFINE n == m.to
           c == [conn[n] EXCEPT !.interrupted = FALSE]
<1>1. n \in Nodes /\ conn[n] \in ConnType
  BY DatagramFields DEF Types
<1>2. announced' = announced /\ recv' = recv /\ conn' = [conn EXCEPT ![n] = AfterAck(m)]
  BY DEF OnAck
<1>3. CASE k # n
  <2>1. send'[k] = send[k]
    BY <1>3, AckedStream DEF OnAck
  <2> QED BY <1>2, <1>3, <2>1, TiedFrame DEF Types
<1>4. CASE k = n
  <2>1. conn'[n] = AfterAck(m)
    BY <1>1, <1>2 DEF Types
  <2>2. CASE conn[n].open
    <3>1. c \in Opened /\ c.established = conn[n].established /\ c.interrupted = FALSE
      BY <1>1, <2>2, ConnOpen, FlagUpdate
    <3>2. conn'[n] = c
      BY <2>1, <2>2 DEF AfterAck
    <3> HIDE DEF c
    <3>3. c.open
      BY <3>1, ConnIntro
    <3> QED BY <1>2, <1>4, <2>2, <3>1, <3>2, <3>3 DEF Tied, Caused, Told
  <2>3. CASE ~conn[n].open
    <3>1. ~conn'[n].open
      BY <2>1, <2>3 DEF AfterAck, NoConn
    <3> QED BY <1>2, <1>4, <2>3, <3>1 DEF Tied, Caused, Told
  <2> QED BY <2>2, <2>3
<1> QED BY <1>3, <1>4

\* Every step of either thread, and of the network, keeps both ends tied.
LEMMA NextTied ==
  Types /\ (\A k \in Nodes : Tied(k)) /\ [Next]_vars => \A k \in Nodes : Tied(k)'
<1> SUFFICES ASSUME Types, \A k \in Nodes : Tied(k), [Next]_vars
             PROVE  \A k \in Nodes : Tied(k)'
  OBVIOUS
<1> DEFINE Goal == \A k \in Nodes : Tied(k)'
<1>1. ASSUME NEW n \in Nodes, GameThread(n) PROVE Goal
  <2>1. ASSUME NEW on \in BOOLEAN, SetListening(n, on) PROVE Goal
    BY <2>1, TiedFrame DEF SetListening, connVars, streamVars
  <2>2. ASSUME NEW autoAccept \in BOOLEAN, OpenForSend(n, autoAccept) PROVE Goal
    BY <2>2, OpenForSendTied
  <2>3. CASE QueuePacket(n)
    BY <2>3, QueuePacketTied
  <2>4. CASE AcceptConnection(n)
    BY <2>4, AcceptConnectionTied
  <2>5. CASE CloseConnection(n)
    BY <2>5, DropTied DEF CloseConnection
  <2>6. ASSUME NEW due \in SUBSET DOMAIN send[n].pending, Pump(n, due) PROVE Goal
    BY <2>6, PumpTied
  <2>7. ASSUME NEW due \in SUBSET (IF send[n].open THEN DOMAIN send[n].pending ELSE {}),
               PumpTimedOut(n, due)
        PROVE  Goal
    BY <2>7, DropTied DEF PumpTimedOut
  <2> QED BY <1>1, <2>1, <2>2, <2>3, <2>4, <2>5, <2>6, <2>7 DEF GameThread
<1>2. ASSUME NEW m \in net, OnDatagram(m) PROVE Goal
  <2>1. CASE OnConnectClosed(m)
    BY <2>1, DropTied, DatagramFields DEF OnConnectClosed
  <2> QED BY <1>2, <2>1, OnConnectRequestTied, OnConnectAcceptTied, OnDataTied, OnAckTied
          DEF OnDatagram
<1>3. ASSUME NEW m \in net, Lose(m) PROVE Goal
  BY <1>3, TiedFrame DEF Lose, connVars, streamVars
<1>4. CASE UNCHANGED vars
  BY <1>4, TiedFrame DEF vars, connVars, streamVars
<1> QED BY <1>1, <1>2, <1>3, <1>4 DEF Next

\* A peer's connection and its streams stay tied together.
LEMMA TiedInvariant == Spec => [](\A k \in Nodes : Tied(k))
<1> DEFINE Inv == \A k \in Nodes : Tied(k)
<1>1. Init => Inv
  BY DEF Init, Tied, Caused, Told, NoConn, NoStream
<1>2. Types /\ Inv /\ [Next]_vars => Inv'
  BY NextTied
<1> QED BY TypesInvariant, <1>1, <1>2, PTL DEF Spec

\* P2PData opens the connection with the stream, and ClearStreams goes with every
\* erase: a RecvStream never outlives its connection.
THEOREM StreamsAreConnected == Spec => []RecvStreamHasConnection
<1>1. (\A k \in Nodes : Tied(k)) => RecvStreamHasConnection
  BY DEF Tied, RecvStreamHasConnection
<1> QED BY TiedInvariant, <1>1, PTL

\* Pump is the only place that interrupts, and accepts, data and acknowledgements
\* revive: an interrupted connection has a packet whose transmissions ran out.
THEOREM InterruptionIsCaused == Spec => []InterruptedHasCause
<1>1. (\A k \in Nodes : Tied(k)) => InterruptedHasCause
  BY DEF Tied, Caused, InterruptedHasCause
<1> QED BY TiedInvariant, <1>1, PTL

\* bEstablished: a connection announces itself once, whether AcceptConnection,
\* an accept or data establishes it first, and not again before it is erased.
THEOREM AnnouncedOnce == Spec => []EstablishedOnce
<1>1. (\A k \in Nodes : Tied(k)) => EstablishedOnce
  BY DEF Tied, Told, EstablishedOnce
<1> QED BY TiedInvariant, <1>1, PTL

---------------------------------------------------------------------------
(* Agreement is kept until a peer clears its streams.                      *)

\* What an end of the stream says of one peer depends on that peer alone.
LEMMA SameEnd ==
  ASSUME NEW k \in Nodes, NumbersArePackets(k), send'[k] = send[k], sent'[k] = sent[k]
  PROVE  NumbersArePackets(k)'
  BY DEF NumbersArePackets

\* What has arrived depends on the receive stream alone.
LEMMA SameArrived ==
  ASSUME NEW k \in Nodes, recv'[k] = recv[k]
  PROVE  Arrived(k)' = Arrived(k)
  BY DEF Arrived

\* What has arrived stays: a datagram that was true remains true.
LEMMA StillTrue ==
  ASSUME Types, NEW m \in net, TrueDatagram(m),
         \A k \in Nodes : got[k] \subseteq got'[k]
  PROVE  TrueDatagram(m)'
<1>1. Other(m.to) \in Nodes
  BY DatagramFields, Others
<1> QED BY <1>1 DEF TrueDatagram

\* Connections come and go, and control datagrams with them; the streams and
\* their agreement are not touched.
LEMMA QuietAgreement ==
  ASSUME Types, Agreement,
         UNCHANGED <<send, recv, sent, acked, got>>,
         \A m \in net' : m \in net \/ m.type \notin {"Data", "Ack"}
  PROVE  Agreement'
<1>1. \A n \in Nodes : NumbersArePackets(n)' /\ got'[n] = Arrived(n)'
  BY SameEnd, SameArrived DEF Agreement
<1>2. ASSUME NEW m \in net' PROVE TrueDatagram(m)'
  <2>1. CASE m \in net
    BY <2>1, StillTrue DEF Agreement
  <2>2. CASE m.type \notin {"Data", "Ack"}
    BY <2>2 DEF TrueDatagram
  <2> QED BY <2>1, <2>2
<1>3. AckedIsDelivered'
  BY DEF Agreement, AckedIsDelivered
<1> QED BY <1>1, <1>2, <1>3 DEF Agreement

\* A control datagram carries no packet and acknowledges none.
LEMMA ControlQuiet ==
  ASSUME NEW n, NEW t \in {"ConnectRequest", "ConnectAccept", "ConnectIgnored", "ConnectClose"}
  PROVE  Control(t, n).type \notin {"Data", "Ack"}
  BY DEF Control

\* SendPacket numbers its packets one after the other, without a gap.
LEMMA QueuePacketAgreement ==
  ASSUME Types, Agreement, NEW n \in Nodes, QueuePacket(n)
  PROVE  Agreement'
<1> DEFINE d == Data(n, SendOf(n).next, sent[n] + 1)
<1>1. /\ sent' = [sent EXCEPT ![n] = sent[n] + 1] /\ net' = net \cup {d}
      /\ recv' = recv /\ acked' = acked /\ got' = got
  BY DEF QueuePacket, histVars
<1>2. SendOf(n).next = sent[n] + 1
  <2>1. CASE send[n].open
    BY <2>1 DEF SendOf, Agreement, NumbersArePackets
  <2>2. CASE ~send[n].open
    <3>1. SendOf(n).next = 1
      BY <2>2 DEF SendOf, NewSend
    <3>2. sent[n] = 0
      BY <2>2 DEF Agreement, NumbersArePackets
    <3> QED BY <3>1, <3>2
  <2> QED BY <2>1, <2>2
<1>3. NumbersArePackets(n)'
  <2>1. sent'[n] = sent[n] + 1
    BY <1>1 DEF Types
  <2>2. ASSUME NEW s \in DOMAIN SendOf(n).pending PROVE send'[n].pending[s].packet = s
    <3>1. CASE send[n].open
      BY <3>1, <2>2, QueuedStream DEF SendOf, Agreement, NumbersArePackets
    <3>2. CASE ~send[n].open
      BY <3>2, <2>2 DEF SendOf, NewSend
    <3> QED BY <3>1, <3>2
  <2>3. send'[n].next = (sent[n] + 1) + 1 /\ send'[n].open
    BY <1>2, QueuedStream
  <2>4. \A s \in DOMAIN send'[n].pending : send'[n].pending[s].packet = s
    BY <1>2, <2>2, QueuedStream
  <2> QED BY <2>1, <2>3, <2>4 DEF NumbersArePackets
<1>4. ASSUME NEW k \in Nodes PROVE NumbersArePackets(k)' /\ got'[k] = Arrived(k)'
  <2>1. CASE k # n
    BY <1>1, <2>1, SameEnd, SameArrived, QueuedStream DEF Agreement, Types
  <2>2. CASE k = n
    BY <1>1, <1>3, <2>2, SameArrived DEF Agreement
  <2> QED BY <2>1, <2>2
<1>5. ASSUME NEW m, m = d PROVE TrueDatagram(m)'
  <2>1. d.type = "Data" /\ d.seq = sent[n] + 1 /\ d.packet = sent[n] + 1
    BY <1>2 DEF Data
  <2> QED BY <1>5, <2>1 DEF TrueDatagram
<1>6. ASSUME NEW m \in net' PROVE TrueDatagram(m)'
  <2>1. m \in net \/ m = d
    BY <1>1
  <2> QED BY <1>5, <2>1, StillTrue, <1>1 DEF Agreement
<1>7. AckedIsDelivered'
  BY <1>1 DEF Agreement, AckedIsDelivered
<1> QED BY <1>4, <1>6, <1>7 DEF Agreement

\* What Pump resends is the packet that first had the number.
LEMMA PumpAgreement ==
  ASSUME Types, Agreement,
         NEW n \in Nodes, NEW due \in SUBSET DOMAIN send[n].pending, Pump(n, due)
  PROVE  Agreement'
<1>1. /\ net' = net \cup {Data(n, s, send[n].pending[s].packet) : s \in due}
      /\ sent' = sent /\ recv' = recv /\ acked' = acked /\ got' = got /\ send[n].open
  BY DEF Pump, histVars
<1>2. NumbersArePackets(n)'
  BY <1>1, PumpedStream DEF Agreement, NumbersArePackets
<1>3. ASSUME NEW k \in Nodes PROVE NumbersArePackets(k)' /\ got'[k] = Arrived(k)'
  <2>1. CASE k # n
    BY <1>1, <2>1, SameEnd, SameArrived, PumpedStream DEF Agreement
  <2>2. CASE k = n
    BY <1>1, <1>2, <2>2, SameArrived DEF Agreement
  <2> QED BY <2>1, <2>2
<1>4. ASSUME NEW s \in due, NEW m, m = Data(n, s, send[n].pending[s].packet)
      PROVE  TrueDatagram(m)'
  <2>1. send[n].pending[s].packet = s
    BY <1>1 DEF Agreement, NumbersArePackets
  <2>2. m.type = "Data" /\ m.seq = s /\ m.packet = s
    BY <1>4, <2>1 DEF Data
  <2> QED BY <2>2 DEF TrueDatagram
<1>5. ASSUME NEW m \in net' PROVE TrueDatagram(m)'
  <2>1. CASE m \in net
    BY <1>1, <2>1, StillTrue DEF Agreement
  <2>2. CASE m \notin net
    <3>1. \E s \in due : m = Data(n, s, send[n].pending[s].packet)
      BY <1>1, <2>2
    <3> QED BY <3>1, <1>4
  <2> QED BY <2>1, <2>2
<1>6. AckedIsDelivered'
  BY <1>1 DEF Agreement, AckedIsDelivered
<1> QED BY <1>3, <1>5, <1>6 DEF Agreement

\* The P2PData handler records the packet under its number, and acknowledges
\* what has arrived and nothing else.
LEMMA OnDataAgreement ==
  ASSUME Types, Agreement, NEW m \in net, OnData(m)
  PROVE  Agreement'
<1> DEFINE n == m.to
<1>1. n \in Nodes /\ m.seq \in Seqs /\ m.packet = m.seq
  BY DatagramFields DEF OnData, Agreement, TrueDatagram
<1>2. got[n] = (1 .. RecvOf(n).expected - 1) \cup RecvOf(n).received
  <2>1. CASE recv[n].open
    BY <1>1, <2>1 DEF Agreement, Arrived, RecvOf
  <2>2. CASE ~recv[n].open
    <3>1. RecvOf(n).expected = 1 /\ RecvOf(n).received = {}
      BY <2>2 DEF RecvOf, NewRecv
    <3>2. got[n] = {}
      BY <1>1, <2>2 DEF Agreement, Arrived
    <3> QED BY <3>1, <3>2
  <2> QED BY <2>1, <2>2
<1>3. got'[n] = got[n] \cup {m.seq} /\ \A k \in Nodes \ {n} : got'[k] = got[k]
  BY <1>1, <1>2, AdvancedStream DEF Types
<1>4. Arrived(n)' = got[n] \cup {m.seq}
  BY <1>2, AdvancedStream
<1>5. \A k \in Nodes : got[k] \subseteq got'[k]
  BY <1>3
<1>6. send' = send /\ sent' = sent /\ acked' = acked
  BY DEF OnData
<1>7. ASSUME NEW k \in Nodes PROVE NumbersArePackets(k)' /\ got'[k] = Arrived(k)'
  <2>1. NumbersArePackets(k)'
    BY <1>6, SameEnd DEF Agreement
  <2>2. CASE k # n
    BY <1>3, <2>1, <2>2, SameArrived, AdvancedStream DEF Agreement
  <2>3. CASE k = n
    BY <1>3, <1>4, <2>1, <2>3
  <2> QED BY <2>2, <2>3
<1>8. \A d \in net' : TrueDatagram(d)'
  <2>1. PICK reply \in Acks : /\ reply.to = Other(n) /\ Receive(m, {reply})
                             /\ (1 .. reply.ackSeq) \cup reply.sack = Arrived(n)'
    BY AdvancedStream
  <2>2. Other(reply.to) = n
    BY <1>1, <2>1, Others
  <2>3. TrueDatagram(reply)'
    BY <1>3, <1>4, <2>1, <2>2 DEF TrueDatagram, Acks
  <2>4. \A d \in net : TrueDatagram(d)'
    BY <1>5, StillTrue DEF Agreement
  <2> QED BY <2>1, <2>3, <2>4 DEF Receive
<1>9. AckedIsDelivered'
  BY <1>5, <1>6, Others DEF Agreement, AckedIsDelivered
<1> QED BY <1>7, <1>8, <1>9 DEF Agreement

\* The P2PAck handler forgets what the acknowledgement covers, and that has
\* arrived.
LEMMA OnAckAgreement ==
  ASSUME Types, Agreement, NEW m \in net, OnAck(m)
  PROVE  Agreement'
<1> DEFINE n == m.to
<1>1. n \in Nodes /\ m.type = "Ack"
  BY DatagramFields DEF OnAck
<1>2. sent' = sent /\ recv' = recv /\ got' = got
  BY DEF OnAck
<1>3. \A d \in net' : TrueDatagram(d)'
  <2>1. net' \subseteq net
    BY DEF OnAck, Receive
  <2> QED BY <1>2, <2>1, StillTrue DEF Agreement
<1>4. CASE ~send[n].open
  <2>1. send' = send /\ acked' = acked
    BY <1>4 DEF OnAck
  <2>2. \A k \in Nodes : NumbersArePackets(k)' /\ got'[k] = Arrived(k)'
    BY <1>2, <2>1, SameEnd, SameArrived DEF Agreement
  <2>3. AckedIsDelivered'
    BY <1>2, <2>1 DEF Agreement, AckedIsDelivered
  <2> QED BY <1>3, <2>2, <2>3 DEF Agreement
<1>5. CASE send[n].open
  <2>1. NumbersArePackets(n)'
    BY <1>1, <1>2, <1>5, AckedStream DEF Agreement, NumbersArePackets
  <2>2. ASSUME NEW k \in Nodes PROVE NumbersArePackets(k)' /\ got'[k] = Arrived(k)'
    <3>1. CASE k # n
      BY <1>2, <1>5, <3>1, AckedStream, SameEnd, SameArrived DEF Agreement
    <3>2. CASE k = n
      BY <1>2, <2>1, <3>2, SameArrived DEF Agreement
    <3> QED BY <3>1, <3>2
  <2>3. ASSUME NEW s \in CoveredBy(m) PROVE send[n].pending[s].packet \in got[Other(n)]
    <3>1. s \in DOMAIN send[n].pending /\ (s <= m.ackSeq \/ s \in m.sack)
      BY DEF CoveredBy
    <3>2. s \in Seqs
      BY <1>1, <1>5, <3>1, OpenSend, PendingsElim
    <3>3. s \in (1 .. m.ackSeq) \cup m.sack
      BY <1>1, <3>1, <3>2, DatagramFields, ConnectionAssumption DEF Seqs
    <3>4. send[n].pending[s].packet = s
      BY <1>1, <1>5, <3>1 DEF Agreement, NumbersArePackets
    <3> QED BY <1>1, <3>3, <3>4 DEF Agreement, TrueDatagram
  <2>4. acked' = [acked EXCEPT ![n] = @ \cup {send[n].pending[s].packet : s \in CoveredBy(m)}]
    BY <1>5 DEF OnAck
  <2>5. ASSUME NEW k \in Nodes PROVE acked'[k] \subseteq got'[Other(k)]
    <3>1. acked[k] \subseteq got[Other(k)]
      BY DEF Agreement, AckedIsDelivered
    <3>2. CASE k # n
      BY <1>2, <2>4, <3>1, <3>2 DEF Types
    <3>3. CASE k = n
      BY <1>1, <1>2, <2>3, <2>4, <3>1, <3>3 DEF Types
    <3> QED BY <3>2, <3>3
  <2>6. AckedIsDelivered'
    BY <2>5 DEF AckedIsDelivered
  <2> QED BY <1>3, <2>2, <2>6 DEF Agreement
<1> QED BY <1>4, <1>5

\* While nobody clears its streams, every step keeps the two ends in agreement.
LEMMA NextAgreement ==
  Types /\ AgreementUntilCleared /\ [Next]_vars => AgreementUntilCleared'
<1> SUFFICES ASSUME Types, AgreementUntilCleared, [Next]_vars, ~cleared'
             PROVE  Agreement'
  BY DEF AgreementUntilCleared
<1> USE DEF AgreementUntilCleared
<1>1. ASSUME NEW n \in Nodes, GameThread(n) PROVE Agreement'
  <2>1. ASSUME NEW on \in BOOLEAN, SetListening(n, on) PROVE Agreement'
    BY <2>1, QuietAgreement DEF SetListening, streamVars, histVars
  <2>2. ASSUME NEW autoAccept \in BOOLEAN, OpenForSend(n, autoAccept) PROVE Agreement'
    BY <2>2, QuietAgreement, ControlQuiet DEF OpenForSend, streamVars, histVars
  <2>3. CASE QueuePacket(n)
    BY <2>3, QueuePacketAgreement DEF QueuePacket
  <2>4. CASE AcceptConnection(n)
    BY <2>4, QuietAgreement, ControlQuiet DEF AcceptConnection, streamVars, histVars
  <2>5. ~CloseConnection(n)
    BY DEF CloseConnection, Drop
  <2>6. ASSUME NEW due \in SUBSET DOMAIN send[n].pending, Pump(n, due) PROVE Agreement'
    BY <2>6, PumpAgreement DEF Pump
  <2>7. \A due : ~PumpTimedOut(n, due)
    BY DEF PumpTimedOut, Drop
  <2> QED BY <1>1, <2>1, <2>2, <2>3, <2>4, <2>5, <2>6, <2>7 DEF GameThread
<1>2. ASSUME NEW m \in net, OnDatagram(m) PROVE Agreement'
  <2>1. CASE OnConnectRequest(m)
    BY <2>1, QuietAgreement, ControlQuiet DEF OnConnectRequest, Receive, streamVars, histVars
  <2>2. CASE OnConnectAccept(m)
    BY <2>2, QuietAgreement DEF OnConnectAccept, Receive, streamVars, histVars
  <2>3. ~OnConnectClosed(m)
    BY DEF OnConnectClosed, Drop
  <2>4. CASE OnData(m)
    BY <2>4, OnDataAgreement DEF OnData
  <2>5. CASE OnAck(m)
    BY <2>5, OnAckAgreement DEF OnAck
  <2> QED BY <1>2, <2>1, <2>2, <2>3, <2>4, <2>5 DEF OnDatagram
<1>3. ASSUME NEW m \in net, Lose(m) PROVE Agreement'
  BY <1>3, QuietAgreement DEF Lose, streamVars, histVars
<1>4. CASE UNCHANGED vars
  BY <1>4, QuietAgreement DEF vars, streamVars, histVars
<1> QED BY <1>1, <1>2, <1>3, <1>4 DEF Next

\* P2PAck handler, "everything up to AckSeq is delivered": as long as no peer has
\* closed or timed out, a packet leaves Pending only when the other peer has it.
\* Afterwards the two ends may number different packets alike.
THEOREM AcknowledgedHasArrived == Spec => []ReliableUntilCleared
<1>1. Init => AgreementUntilCleared
  BY DEF Init, AgreementUntilCleared, Agreement, NumbersArePackets, Arrived, AckedIsDelivered, NoStream
<1>2. Types /\ AgreementUntilCleared /\ [Next]_vars => AgreementUntilCleared'
  BY NextAgreement
<1>3. AgreementUntilCleared => ReliableUntilCleared
  BY DEF AgreementUntilCleared, Agreement, ReliableUntilCleared
<1> QED BY TypesInvariant, <1>1, <1>2, <1>3, PTL DEF Spec
===========================================================================
