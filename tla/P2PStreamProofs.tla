------------------------- MODULE P2PStreamProofs -------------------------
(***************************************************************************)
(* Proofs that the reliable stream of P2PStream keeps its invariants, for  *)
(* every width of the wire numbers and of the selective mask, every packet *)
(* size and every queue size, and that it implements ReliableChannel.      *)
(*                                                                         *)
(* The heart is Extend32Exact: a number extended from its low bits is the  *)
(* number that was sent, as long as the two peers are within half the wire *)
(* space.  SenderInv keeps them that close: the oldest unacknowledged      *)
(* packet is at most Window behind, and everything older has arrived.      *)
(***************************************************************************)
EXTENDS P2PStream, SequenceTheorems, TLAPS

\* Division by a positive modulus, as the facts about % the prover needs.
LEMMA DivMod ==
  ASSUME NEW m \in Nat \ {0}, NEW x \in Nat
  PROVE  /\ x % m \in 0 .. m - 1
         /\ x \div m \in Nat
         /\ x = m * (x \div m) + (x % m)
  OBVIOUS

\* Packets of one size: more of them are as many bytes or more.
LEMMA MulMono ==
  ASSUME NEW m \in Nat, NEW a \in Int, NEW b \in Int, a <= b
  PROVE  m * a <= m * b
  OBVIOUS

\* Bounds as membership in an interval.
LEMMA InRange ==
  ASSUME NEW a \in Int, NEW b \in Int, NEW x \in Int, a <= x, x < b
  PROVE  x \in a .. b - 1
  OBVIOUS

\* The predecessor of a positive number.
LEMMA PredNat == ASSUME NEW x \in Nat, x >= 1 PROVE x - 1 \in Nat
  OBVIOUS

\* Extend32 restores what Low cut off, of any number that is less than half of the
\* range away from the reference.
LEMMA Extend32Exact ==
  ASSUME NEW ref \in Nat, NEW seq \in Nat, seq - ref < Half, ref - seq <= Half
  PROVE  Extend32(ref, Low(seq)) = seq
<1> DEFINE a == seq \div WireMod
           b == ref \div WireMod
           candidate == (ref - (ref % WireMod)) + (seq % WireMod)
<1>1. WireMod \in Nat \ {0} /\ WireMod = 2 * Half /\ Half \in Nat \ {0}
  BY StreamAssumption DEF WireMod
<1>2. /\ seq % WireMod \in 0 .. WireMod - 1
      /\ ref % WireMod \in 0 .. WireMod - 1
      /\ a \in Nat /\ b \in Nat
      /\ seq = WireMod * a + (seq % WireMod)
      /\ ref = WireMod * b + (ref % WireMod)
  BY <1>1, DivMod
<1> HIDE DEF a, b
<1>3. a - b \in {-1, 0, 1}
  <2>1. ASSUME a >= b + 2 PROVE FALSE
    <3>1. WireMod * (b + 2) <= WireMod * a
      BY <1>1, <1>2, <2>1, MulMono
    <3>2. WireMod * (b + 2) = WireMod * b + 2 * WireMod
      BY <1>1, <1>2
    <3> QED BY <3>1, <3>2, <1>1, <1>2
  <2>2. ASSUME b >= a + 2 PROVE FALSE
    <3>1. WireMod * (a + 2) <= WireMod * b
      BY <1>1, <1>2, <2>2, MulMono
    <3>2. WireMod * (a + 2) = WireMod * a + 2 * WireMod
      BY <1>1, <1>2
    <3> QED BY <3>1, <3>2, <1>1, <1>2
  <2> QED BY <1>2, <2>1, <2>2
<1>4. seq = candidate \/ seq = candidate + WireMod \/ seq = candidate - WireMod
  <2>1. CASE a = b
    BY <2>1, <1>1, <1>2
  <2>2. CASE a = b + 1
    <3>1. WireMod * (b + 1) = WireMod * b + WireMod
      BY <1>1, <1>2
    <3> QED BY <3>1, <2>2, <1>1, <1>2
  <2>3. CASE b = a + 1
    <3>1. WireMod * (a + 1) = WireMod * a + WireMod
      BY <1>1, <1>2
    <3> QED BY <3>1, <2>3, <1>1, <1>2
  <2> QED BY <1>2, <1>3, <2>1, <2>2, <2>3
<1>5. Extend32(ref, Low(seq)) = IF candidate + Half < ref THEN candidate + WireMod
                                ELSE IF candidate >= ref + Half /\ candidate >= WireMod
                                     THEN candidate - WireMod ELSE candidate
  BY DEF Extend32, Low
<1>6. candidate \in Int
  BY <1>1, <1>2
<1> HIDE DEF candidate
<1> QED BY <1>1, <1>4, <1>5, <1>6

---------------------------------------------------------------------------
\* At first nothing is sent, and the inbox is empty.
LEMMA InitIInv == Init => IInv
<1> SUFFICES ASSUME Init PROVE IInv
  OBVIOUS
<1> USE StreamAssumption DEF Init
<1>1. Seqs = {} /\ Got = {} /\ InInbox = {} /\ Taken = {} /\ DOMAIN buffer = {}
  BY DEF Seqs, Got, InInbox, Taken
<1>2. TypeOK
  <2>1. inbox \in Seq(Seqs) /\ taken \in Seq(Seqs)
    BY EmptySeq
  <2>2. DOMAIN buffer \subseteq Seqs /\ buffer \in [DOMAIN buffer -> Seqs]
    BY <1>1
  <2>3. maxInboxBytes \in Nat /\ fullPosted \in BOOLEAN /\ foreign \in Nat /\ inboxBytes \in Nat
    OBVIOUS
  <2>4. received \subseteq nextExpected + 1 .. nextSeq - 1 /\ pending \subseteq Seqs
        /\ dataNet \subseteq Seqs /\ ackNet \subseteq AckType /\ discarded \subseteq Seqs
    OBVIOUS
  <2>5. nextSeq \in Nat \ {0} /\ nextExpected \in 1 .. nextSeq /\ nextToDeliver \in 1 .. nextExpected
    OBVIOUS
  <2> QED BY <2>1, <2>2, <2>3, <2>4, <2>5 DEF TypeOK
<1>3. SenderInv /\ AckInv
  BY <1>1 DEF SenderInv, AckInv
<1>4. PlaceInv
  BY <1>1 DEF PlaceInv, ExactlyOnce, Buffered
<1>5. OrderInv
  BY <1>1 DEF OrderInv
<1>6. InboxAccounting
  BY DEF InboxAccounting
<1>7. BlockedIsNotified
  BY <1>1 DEF BlockedIsNotified, Blocked, Ready
<1> QED BY <1>2, <1>3, <1>4, <1>5, <1>6, <1>7 DEF IInv

\* SendPacket: the next number is used, inside the window.
LEMMA SendPacketIInv == IInv /\ SendPacket => IInv'
<1> SUFFICES ASSUME IInv, SendPacket PROVE IInv'
  OBVIOUS
<1> USE StreamAssumption DEF SendPacket, recvVars, inboxVars, histVars
<1>0. TypeOK /\ SenderInv /\ AckInv /\ PlaceInv /\ OrderInv /\ InboxAccounting /\ BlockedIsNotified
  BY DEF IInv
<1>1. /\ Seqs' = Seqs \cup {nextSeq} /\ Seqs \subseteq Seqs'
      /\ Got' = Got /\ InInbox' = InInbox /\ Taken' = Taken /\ Buffered' = Buffered
  <2>1. nextSeq \in Nat \ {0} /\ nextSeq' = nextSeq + 1
    BY <1>0 DEF TypeOK
  <2>2. 1 .. (nextSeq + 1) - 1 = (1 .. nextSeq - 1) \cup {nextSeq}
    BY <2>1
  <2>3. Seqs' = Seqs \cup {nextSeq}
    BY <2>1, <2>2 DEF Seqs
  <2>4. Got' = Got /\ InInbox' = InInbox /\ Taken' = Taken /\ Buffered' = Buffered
    BY DEF Got, InInbox, Taken, Buffered
  <2> QED BY <2>3, <2>4
<1>2. TypeOK'
  <2>1. inbox' \in Seq(Seqs') /\ taken' \in Seq(Seqs')
    BY <1>0, <1>1, SeqMonotonic DEF TypeOK
  <2>2. /\ nextSeq' \in Nat \ {0} /\ nextExpected' \in 1 .. nextSeq'
        /\ nextToDeliver' \in 1 .. nextExpected'
    BY <1>0 DEF TypeOK
  <2>3. received' \subseteq nextExpected' + 1 .. nextSeq' - 1
    <3>1. received \subseteq nextExpected + 1 .. nextSeq - 1
      BY <1>0 DEF TypeOK
    <3>2. nextExpected \in Int /\ nextSeq \in Int
      BY <1>0 DEF TypeOK
    <3>3. \A low, high \in Int : low .. high - 1 \subseteq low .. (high + 1) - 1
      OBVIOUS
    <3>4. nextExpected + 1 .. nextSeq - 1 \subseteq nextExpected + 1 .. (nextSeq + 1) - 1
      BY <3>2, <3>3
    <3> QED BY <3>1, <3>4
  <2>4. pending' \subseteq Seqs' /\ dataNet' \subseteq Seqs' /\ ackNet' \subseteq AckType
    BY <1>0, <1>1 DEF TypeOK
  <2>5. /\ DOMAIN buffer' \subseteq Seqs' /\ buffer' \in [DOMAIN buffer' -> Seqs']
        /\ discarded' \subseteq Seqs'
    BY <1>0, <1>1 DEF TypeOK
  <2>6. /\ foreign' \in Nat /\ inboxBytes' \in Nat /\ maxInboxBytes' \in Nat
        /\ fullPosted' \in BOOLEAN
    BY <1>0 DEF TypeOK
  <2> QED BY <2>1, <2>2, <2>3, <2>4, <2>5, <2>6 DEF TypeOK
<1>3. SenderInv'
  <2>1. Seqs' \ pending' \subseteq Got'
    BY <1>0, <1>1 DEF SenderInv
  <2>2. ASSUME NEW s \in pending \cup {nextSeq} PROVE (nextSeq + 1) - s <= Window
    <3>1. nextSeq \in Nat /\ Window \in Nat \ {0}
      BY <1>0 DEF TypeOK
    <3>2. CASE s = nextSeq
      BY <3>1, <3>2
    <3>3. CASE s \in pending
      <4>1. s \in Int /\ nextSeq - s < Window
        BY <1>0, <3>3 DEF TypeOK, Seqs
      <4> QED BY <3>1, <4>1
    <3> QED BY <2>2, <3>2, <3>3
  <2> QED BY <2>1, <2>2 DEF SenderInv
<1>4. AckInv'
  BY <1>0, <1>1 DEF AckInv
<1>5. PlaceInv'
  BY <1>0, <1>1 DEF PlaceInv, ExactlyOnce
<1>6. OrderInv'
  BY <1>0, <1>1 DEF OrderInv
<1>7. InboxAccounting' /\ BlockedIsNotified'
  BY <1>0 DEF InboxAccounting, BlockedIsNotified, Blocked
<1> QED BY <1>2, <1>3, <1>4, <1>5, <1>6, <1>7 DEF IInv

\* OnAck: an acknowledgement takes packets from those that are pending.
LEMMA ReceiveAckIInv == ASSUME IInv, NEW a \in ackNet, ReceiveAck(a) PROVE IInv'
<1> USE StreamAssumption DEF ReceiveAck, recvVars, inboxVars, histVars
<1>0. TypeOK /\ SenderInv /\ AckInv /\ PlaceInv /\ OrderInv /\ InboxAccounting /\ BlockedIsNotified
  BY DEF IInv
<1>1. /\ Seqs' = Seqs /\ Got' = Got /\ InInbox' = InInbox /\ Taken' = Taken
      /\ Buffered' = Buffered
  BY DEF Seqs, Got, InInbox, Taken, Buffered
<1>2. TypeOK'
  BY <1>0, <1>1 DEF TypeOK
<1>3. a.ackSeq \in Nat /\ a.sack \subseteq 0 .. SackBits - 1 /\ a.ackSeq < nextExpected
  BY <1>0 DEF TypeOK, AckType, AckInv
<1>4. Extend32(nextSeq, Low(a.ackSeq)) = a.ackSeq
  <2>1. nextSeq \in Nat /\ a.ackSeq < nextSeq
    BY <1>0, <1>3 DEF TypeOK
  <2> QED BY <1>3, <2>1, Extend32Exact DEF Fresh
\* What the acknowledgement removes from pending has been received.
<1>5. SenderInv'
  <2>1. pending' \subseteq pending /\ nextSeq' = nextSeq
    OBVIOUS
  <2>2. ASSUME NEW s \in pending, s \notin pending' PROVE s \in Got
    <3>1. Covers(a.ackSeq, a.sack, s) /\ s \in Nat /\ s >= 1
      BY <1>0, <1>4, <2>2 DEF TypeOK, Seqs
    <3>2. CASE s <= a.ackSeq
      BY <3>1, <3>2, <1>0, <1>3 DEF Got, TypeOK
    <3>3. CASE s - (a.ackSeq + 2) \in a.sack
      <4>1. a.ackSeq + 2 + (s - (a.ackSeq + 2)) \in Got
        BY <1>0, <3>3 DEF AckInv
      <4> QED BY <4>1, <1>3, <3>1
    <3> QED BY <3>1, <3>2, <3>3 DEF Covers
  <2> QED BY <1>0, <1>1, <2>1, <2>2 DEF SenderInv
<1>6. AckInv'
  BY <1>0, <1>1 DEF AckInv
<1>7. PlaceInv'
  BY <1>0, <1>1 DEF PlaceInv, ExactlyOnce
<1>8. OrderInv' /\ InboxAccounting' /\ BlockedIsNotified'
  BY <1>0, <1>1 DEF OrderInv, InboxAccounting, BlockedIsNotified, Blocked
<1> QED BY <1>2, <1>5, <1>6, <1>7, <1>8 DEF IInv

\* ReceivePacket: the head of the inbox is handed to the game.
LEMMA ReceivePacketIInv == IInv /\ ReceivePacket => IInv'
<1> SUFFICES ASSUME IInv, ReceivePacket PROVE IInv'
  OBVIOUS
<1> USE StreamAssumption
<1>a. /\ inbox # <<>> /\ taken' = Append(taken, Head(inbox)) /\ inbox' = Tail(inbox)
      /\ inboxBytes' = inboxBytes - Size
  BY DEF ReceivePacket
<1>b. UNCHANGED <<nextSeq, pending, dataNet, ackNet, nextExpected, nextToDeliver, buffer,
                  received, foreign, maxInboxBytes, fullPosted, discarded>>
  BY DEF ReceivePacket, sendVars, recvVars
<1>0. TypeOK /\ SenderInv /\ AckInv /\ PlaceInv /\ OrderInv /\ InboxAccounting /\ BlockedIsNotified
  BY DEF IInv
<1>1. /\ inbox \in Seq(Seqs) /\ taken \in Seq(Seqs) /\ inbox # <<>>
      /\ Head(inbox) \in Seqs /\ Head(inbox) = inbox[1] /\ Len(inbox) \in Nat \ {0}
      /\ DOMAIN inbox = 1 .. Len(inbox) /\ DOMAIN taken = 1 .. Len(taken) /\ Len(taken) \in Nat
  BY <1>0, <1>a DEF TypeOK
<1>2. /\ inbox' \in Seq(Seqs) /\ Len(inbox') = Len(inbox) - 1
      /\ DOMAIN inbox' = 1 .. Len(inbox) - 1
      /\ \A i \in 1 .. Len(inbox) - 1 : inbox'[i] = inbox[i + 1]
  BY <1>1, <1>a, HeadTailProperties
<1>3. /\ taken' \in Seq(Seqs) /\ DOMAIN taken' = 1 .. Len(taken) + 1
      /\ \A i \in 1 .. Len(taken) : taken'[i] = taken[i]
      /\ taken'[Len(taken) + 1] = inbox[1]
  BY <1>1, <1>a, AppendProperties
<1>4. /\ Seqs' = Seqs /\ Got' = Got /\ Buffered' = Buffered
      /\ Taken' = Taken \cup {inbox[1]}
  BY <1>1, <1>3, <1>b DEF Seqs, Got, Buffered, Taken
<1>5. InInbox = InInbox' \cup {inbox[1]} /\ inbox[1] \notin InInbox'
  <2>1. \A i \in DOMAIN inbox' : i + 1 \in 2 .. Len(inbox) /\ inbox'[i] = inbox[i + 1]
    BY <1>1, <1>2
  <2>2. \A i \in 2 .. Len(inbox) : i - 1 \in DOMAIN inbox' /\ inbox'[i - 1] = inbox[i]
    BY <1>1, <1>2
  <2>3. InInbox' = {inbox[i] : i \in 2 .. Len(inbox)}
    BY <2>1, <2>2 DEF InInbox
  <2>4. InInbox = {inbox[i] : i \in 2 .. Len(inbox)} \cup {inbox[1]}
    BY <1>1 DEF InInbox
  <2>5. \A i \in 2 .. Len(inbox) : inbox[i] # inbox[1]
    BY <1>0, <1>1 DEF PlaceInv, ExactlyOnce
  <2> QED BY <2>3, <2>4, <2>5
<1>6. TypeOK' /\ InboxAccounting'
  <2> DEFINE all == Size * Len(inbox)
             rest == Size * (Len(inbox) - 1)
  <2>1. all = rest + Size /\ all \in Nat /\ rest \in Nat
    BY <1>1
  <2>2. inboxBytes = all + foreign /\ foreign \in Nat
    BY <1>0 DEF InboxAccounting, TypeOK
  <2>3. rest = Size * Len(inbox')
    BY <1>2
  <2> HIDE DEF all, rest
  <2>4. inboxBytes' = rest + foreign /\ inboxBytes' \in Nat
    BY <2>1, <2>2, <1>a
  <2>5. InboxAccounting'
    BY <2>3, <2>4, <1>b DEF InboxAccounting
  <2> QED BY <1>0, <1>b, <1>2, <1>3, <1>4, <2>4, <2>5 DEF TypeOK
<1>7. SenderInv' /\ AckInv'
  BY <1>0, <1>b, <1>4 DEF SenderInv, AckInv
<1>8. PlaceInv'
  <2>1. \A i, j \in DOMAIN taken' : taken'[i] = taken'[j] => i = j
    <3>1. inbox[1] \notin Taken
      BY <1>0, <1>1 DEF PlaceInv, ExactlyOnce, InInbox
    <3> QED BY <3>1, <1>0, <1>1, <1>3 DEF PlaceInv, ExactlyOnce, Taken
  <2>2. ASSUME NEW i \in DOMAIN inbox', NEW j \in DOMAIN inbox', inbox'[i] = inbox'[j]
        PROVE  i = j
    <3>1. i + 1 \in DOMAIN inbox /\ j + 1 \in DOMAIN inbox /\ i \in Int /\ j \in Int
      BY <1>1, <1>2
    <3>2. inbox[i + 1] = inbox[j + 1]
      BY <1>2, <2>2
    <3> QED BY <3>1, <3>2, <1>0 DEF PlaceInv, ExactlyOnce
  <2>3. Got' = DOMAIN buffer' \cup InInbox' \cup Taken' \cup discarded'
    BY <1>0, <1>b, <1>4, <1>5 DEF PlaceInv
  <2> QED BY <1>0, <1>b, <1>4, <1>5, <2>1, <2>2, <2>3 DEF PlaceInv, ExactlyOnce
<1>9. OrderInv'
  <2> SUFFICES ASSUME Ordered PROVE OrderInv'
    BY DEF OrderInv
  <2> DEFINE first == nextToDeliver - Len(inbox)
  <2>1. /\ first >= 1 /\ first \in Nat /\ nextToDeliver \in Nat
        /\ \A i \in DOMAIN inbox : inbox[i] = first + i - 1
        /\ Taken \cup discarded = 1 .. first - 1
        /\ \A i, j \in DOMAIN taken : i < j => taken[i] < taken[j]
    BY <1>0, <1>1 DEF OrderInv, TypeOK
  <2>2. nextToDeliver' - Len(inbox') = first + 1 /\ inbox[1] = first
    BY <1>1, <1>2, <1>b, <2>1
  <2>3. ASSUME NEW i \in DOMAIN inbox' PROVE inbox'[i] = (first + 1) + i - 1
    <3>1. i + 1 \in DOMAIN inbox /\ i \in Int /\ inbox'[i] = inbox[i + 1]
      BY <1>1, <1>2
    <3>2. inbox[i + 1] = first + (i + 1) - 1
      BY <3>1, <2>1
    <3> QED BY <3>1, <3>2, <2>1
  <2>4. Taken' \cup discarded' = 1 .. (first + 1) - 1
    <3>1. 1 .. (first + 1) - 1 = (1 .. first - 1) \cup {first}
      BY <2>1
    <3> QED BY <3>1, <1>4, <1>b, <2>1, <2>2
  <2>5. \A i, j \in DOMAIN taken' : i < j => taken'[i] < taken'[j]
    <3>1. \A i \in 1 .. Len(taken) : taken[i] \in 1 .. first - 1
      BY <1>1, <2>1 DEF Taken
    <3>2. inbox[1] = first /\ first \in Nat
      BY <2>1, <2>2
    <3> HIDE DEF first
    <3> SUFFICES ASSUME NEW i \in DOMAIN taken', NEW j \in DOMAIN taken', i < j
                 PROVE  taken'[i] < taken'[j]
      OBVIOUS
    <3>3. i \in 1 .. Len(taken) /\ taken'[i] = taken[i]
      BY <1>1, <1>3
    <3>4. CASE j \in 1 .. Len(taken)
      BY <3>3, <3>4, <1>1, <1>3, <2>1
    <3>5. CASE j = Len(taken) + 1
      BY <3>1, <3>2, <3>3, <3>5, <1>3
    <3> QED BY <3>4, <3>5, <1>1, <1>3
  <2> QED BY <1>0, <1>b, <2>1, <2>2, <2>3, <2>4, <2>5 DEF OrderInv
<1>10. BlockedIsNotified'
  BY <1>0, <1>b DEF BlockedIsNotified, Blocked
<1> QED BY <1>6, <1>7, <1>8, <1>9, <1>10 DEF IInv

\* On an ordered stream the inbox holds the packets just below nextToDeliver.
LEMMA InboxRun ==
  ASSUME TypeOK, OrderInv, Ordered
  PROVE  \E first \in 1 .. nextToDeliver :
           /\ first = nextToDeliver - Len(inbox)
           /\ InInbox = first .. nextToDeliver - 1
           /\ Taken \cup discarded = 1 .. first - 1
           /\ \A i \in DOMAIN inbox : inbox[i] = first + i - 1
<1> DEFINE first == nextToDeliver - Len(inbox)
<1>1. Len(inbox) \in Nat /\ DOMAIN inbox = 1 .. Len(inbox) /\ nextToDeliver \in Nat
  BY DEF TypeOK
<1>2. /\ first >= 1 /\ first \in Nat /\ nextToDeliver = first + Len(inbox)
      /\ \A i \in DOMAIN inbox : inbox[i] = first + i - 1
      /\ Taken \cup discarded = 1 .. first - 1
  BY <1>1 DEF OrderInv
<1> HIDE DEF first
<1>3. ASSUME NEW s \in first .. nextToDeliver - 1 PROVE s \in InInbox
  <2>1. s - first + 1 \in DOMAIN inbox /\ inbox[s - first + 1] = s
    BY <1>1, <1>2
  <2> QED BY <2>1 DEF InInbox
<1>4. ASSUME NEW i \in DOMAIN inbox PROVE inbox[i] \in first .. nextToDeliver - 1
  BY <1>1, <1>2
<1>5. InInbox = first .. nextToDeliver - 1
  BY <1>3, <1>4 DEF InInbox
<1>6. first \in 1 .. nextToDeliver
  BY <1>1, <1>2
<1> QED BY <1>2, <1>5, <1>6 DEF first

\* What ClearPacketQueue preserves, apart from the byte counts.
LEMMA DiscardPlaces ==
  ASSUME IInv, NEW bytes \in Nat, Discard(bytes), foreign' \in Nat
  PROVE  /\ TypeOK' /\ SenderInv' /\ AckInv' /\ PlaceInv' /\ OrderInv' /\ BlockedIsNotified'
         /\ inbox' = <<>> /\ inboxBytes' = bytes
<1> USE StreamAssumption
<1>0. TypeOK /\ SenderInv /\ AckInv /\ PlaceInv /\ OrderInv /\ BlockedIsNotified
  BY DEF IInv
<1>a. /\ discarded' = discarded \cup InInbox /\ inbox' = <<>> /\ inboxBytes' = bytes
      /\ UNCHANGED <<nextSeq, pending, dataNet, ackNet, nextExpected, nextToDeliver, buffer,
                     received, maxInboxBytes, fullPosted, taken>>
  BY DEF Discard, InInbox, sendVars, recvVars
<1>1. /\ Len(inbox) \in Nat /\ DOMAIN inbox = 1 .. Len(inbox)
      /\ \A i \in DOMAIN inbox : inbox[i] \in Seqs
      /\ Len(inbox') = 0 /\ DOMAIN inbox' = {} /\ InInbox \subseteq Seqs
  BY <1>0, <1>a DEF TypeOK, InInbox
<1>2. /\ Seqs' = Seqs /\ Got' = Got /\ Buffered' = Buffered /\ Taken' = Taken /\ InInbox' = {}
  BY <1>a, <1>1 DEF Seqs, Got, Buffered, Taken, InInbox
<1>3. TypeOK'
  <2>1. inbox' \in Seq(Seqs')
    BY <1>a, EmptySeq
  <2> QED BY <1>0, <1>a, <1>1, <1>2, <2>1 DEF TypeOK
<1>4. SenderInv' /\ AckInv'
  BY <1>0, <1>a, <1>2 DEF SenderInv, AckInv
<1>5. PlaceInv'
  BY <1>0, <1>a, <1>1, <1>2 DEF PlaceInv, ExactlyOnce
<1>6. OrderInv'
  <2> SUFFICES ASSUME Ordered PROVE OrderInv'
    BY DEF OrderInv
  <2>1. nextToDeliver \in Nat /\ nextToDeliver >= 1
    BY <1>0 DEF TypeOK
  <2>2. PICK first \in 1 .. nextToDeliver :
          /\ InInbox = first .. nextToDeliver - 1
          /\ Taken \cup discarded = 1 .. first - 1
    BY <1>0, InboxRun
  <2>3. Taken' \cup discarded' = 1 .. nextToDeliver - 1
    BY <1>a, <1>2, <2>1, <2>2
  <2> QED BY <1>0, <1>a, <1>1, <2>1, <2>3 DEF OrderInv
<1>7. BlockedIsNotified'
  BY <1>0, <1>a DEF BlockedIsNotified, Blocked
<1> QED BY <1>a, <1>3, <1>4, <1>5, <1>6, <1>7

\* ClearPacketQueue: the inbox of one peer is dropped,
LEMMA ClearPacketQueueIInv ==
  ASSUME IInv, NEW others \in 0 .. foreign, ClearPacketQueue(others)
  PROVE  IInv'
<1> DEFINE all == Size * Len(inbox)
<1>1. all \in Nat /\ foreign \in Nat /\ inboxBytes = all + foreign /\ others \in Nat /\ others <= foreign
  BY StreamAssumption DEF IInv, TypeOK, InboxAccounting
<1>2. foreign' = foreign - others /\ Discard(inboxBytes - all - others)
  BY DEF ClearPacketQueue
<1> HIDE DEF all
<1>3. inboxBytes - all - others = foreign' /\ foreign' \in Nat
  BY <1>1, <1>2
<1>4. Discard(foreign')
  BY <1>2, <1>3
<1>5. /\ TypeOK' /\ SenderInv' /\ AckInv' /\ PlaceInv' /\ OrderInv' /\ BlockedIsNotified'
      /\ inbox' = <<>> /\ inboxBytes' = foreign'
  BY <1>3, <1>4, DiscardPlaces
<1>6. Len(inbox') = 0 /\ Size * 0 = 0
  BY <1>5, StreamAssumption
<1>7. InboxAccounting'
  BY <1>3, <1>5, <1>6 DEF InboxAccounting
<1> QED BY <1>5, <1>7 DEF IInv

\* or that of all.
LEMMA ClearWholeQueueIInv == ASSUME IInv, ClearWholeQueue PROVE IInv'
<1>1. foreign' = 0 /\ Discard(0)
  BY DEF ClearWholeQueue
<1>2. /\ TypeOK' /\ SenderInv' /\ AckInv' /\ PlaceInv' /\ OrderInv' /\ BlockedIsNotified'
      /\ inbox' = <<>> /\ inboxBytes' = 0
  BY <1>1, DiscardPlaces
<1>3. Len(inbox') = 0 /\ Size * 0 = 0
  BY <1>2, StreamAssumption
<1>4. InboxAccounting'
  BY <1>1, <1>2, <1>3 DEF InboxAccounting
<1> QED BY <1>2, <1>4 DEF IInv

\* Steps that touch neither the stream's own packets nor its peers' views.
LEMMA OtherIInv ==
  ASSUME IInv,
         \/ \E bytes \in QueueSizes : SetPacketQueueSize(bytes)
         \/ ForeignArrives
         \/ ForeignTaken
         \/ \E m \in dataNet : LoseData(m)
         \/ \E a \in ackNet : LoseAck(a)
         \/ UNCHANGED vars
  PROVE  IInv'
<1> USE StreamAssumption
<1>0. TypeOK /\ SenderInv /\ AckInv /\ PlaceInv /\ OrderInv /\ InboxAccounting /\ BlockedIsNotified
  BY DEF IInv
<1> DEFINE all == Size * Len(inbox)
<1>1. /\ UNCHANGED <<nextSeq, pending, nextExpected, nextToDeliver, buffer, received, inbox,
                     fullPosted, taken, discarded>>
      /\ dataNet' \subseteq dataNet /\ ackNet' \subseteq ackNet
      /\ maxInboxBytes' \in QueueSizes \cup {maxInboxBytes}
      /\ \/ foreign' = foreign + 1 /\ inboxBytes' = inboxBytes + 1
         \/ foreign > 0 /\ foreign' = foreign - 1 /\ inboxBytes' = inboxBytes - 1
         \/ UNCHANGED <<foreign, inboxBytes>>
  BY DEF SetPacketQueueSize, ForeignArrives, ForeignTaken, LoseData, LoseAck, vars, sendVars,
         recvVars, inboxVars, histVars
<1>2. /\ Seqs' = Seqs /\ Got' = Got /\ Buffered' = Buffered /\ Taken' = Taken
      /\ InInbox' = InInbox /\ all' = all
  BY <1>1 DEF Seqs, Got, Buffered, Taken, InInbox
<1>3. all \in Nat /\ inboxBytes = all + foreign /\ foreign \in Nat
  BY <1>0 DEF TypeOK, InboxAccounting
<1>4. InboxAccounting' /\ inboxBytes' \in Nat /\ foreign' \in Nat
  <2> HIDE DEF all
  <2>1. inboxBytes' = all + foreign' /\ inboxBytes' \in Nat /\ foreign' \in Nat
    BY <1>1, <1>3
  <2> QED BY <1>2, <2>1 DEF InboxAccounting, all
<1>5. TypeOK'
  BY <1>0, <1>1, <1>2, <1>4 DEF TypeOK
<1>6. SenderInv' /\ AckInv'
  BY <1>0, <1>1, <1>2 DEF SenderInv, AckInv
<1>7. PlaceInv' /\ OrderInv' /\ BlockedIsNotified'
  BY <1>0, <1>1, <1>2 DEF PlaceInv, ExactlyOnce, OrderInv, BlockedIsNotified, Blocked
<1> QED BY <1>4, <1>5, <1>6, <1>7 DEF IInv

---------------------------------------------------------------------------
\* DrainRecvStream moves a run of distinct buffered packets to the inbox; on
\* an ordered stream the run continues exactly where delivery had stopped.
LEMMA DrainRuns ==
  ASSUME NEW buf, DOMAIN buf \subseteq Nat, nextToDeliver \in Nat, DrainRecvStream(buf)
  PROVE  \E run \in Seq(DOMAIN buf) :
           /\ Release(buf, run)
           /\ \A i, j \in DOMAIN run : run[i] = run[j] => i = j
           /\ Len(run) > 0 => InboxHasRoom(Size * Len(run))
           /\ Ordered => /\ nextToDeliver' = nextToDeliver + Len(run)
                         /\ \A i \in DOMAIN run : run[i] = nextToDeliver + i - 1
           /\ ~Ordered => nextToDeliver' = nextToDeliver
<1>1. CASE Ordered
  <2>1. DrainOrdered(buf)
    BY <1>1 DEF DrainRecvStream
  <2>2. PICK k \in 0 .. Cardinality(DOMAIN buf) :
          LET run == [i \in 1 .. k |-> nextToDeliver + i - 1] IN
          /\ \A i \in 1 .. k : run[i] \in DOMAIN buf
          /\ k > 0 => InboxHasRoom(Size * k)
          /\ Release(buf, run)
          /\ nextToDeliver' = nextToDeliver + k
    BY <2>1 DEF DrainOrdered
  <2> DEFINE run == [i \in 1 .. k |-> nextToDeliver + i - 1]
  <2>3. k \in Nat
    OBVIOUS
  <2>4. \A i \in 1 .. k : run[i] \in DOMAIN buf
    BY <2>2
  <2>5. run \in Seq(DOMAIN buf) /\ Len(run) = k
    BY <2>3, <2>4
  <2>6. \A i, j \in DOMAIN run : run[i] = run[j] => i = j
    BY <2>3
  <2> QED BY <1>1, <2>2, <2>3, <2>5, <2>6
<1>2. CASE ~Ordered
  <2>1. DrainUnordered(buf)
    BY <1>2 DEF DrainRecvStream
  <2>2. PICK run \in UNION {[1 .. k -> DOMAIN buf] : k \in 0 .. Cardinality(DOMAIN buf)} :
          /\ \A i, j \in DOMAIN run : i < j => run[i] < run[j]
          /\ run # <<>> => InboxHasRoom(Size * Len(run))
          /\ Release(buf, run)
          /\ nextToDeliver' = nextToDeliver
    BY <2>1 DEF DrainUnordered
  <2>3. PICK k \in 0 .. Cardinality(DOMAIN buf) : run \in [1 .. k -> DOMAIN buf]
    OBVIOUS
  <2>4. k \in Nat /\ run \in Seq(DOMAIN buf) /\ Len(run) = k /\ DOMAIN run = 1 .. k
    BY <2>3
  <2>5. ASSUME NEW i \in DOMAIN run, NEW j \in DOMAIN run, run[i] = run[j] PROVE i = j
    <3>1. i \in Int /\ j \in Int /\ run[i] \in Nat /\ run[j] \in Nat
      BY <2>3, <2>4
    <3> QED BY <3>1, <2>2, <2>5
  <2>6. Len(run) > 0 => run # <<>>
    BY <2>4
  <2> QED BY <1>2, <2>2, <2>4, <2>5, <2>6
<1> QED BY <1>1, <1>2

\* ReleaseBuffered moves a run of numbers to the end of the inbox.
LEMMA ReleasePlaces ==
  ASSUME NEW S, NEW buf, NEW run \in Seq(DOMAIN buf), Release(buf, run),
         inbox \in Seq(S), DOMAIN buf \subseteq S, \A s \in DOMAIN buf : buf[s] = s
  PROVE  /\ inbox' \in Seq(S) /\ Len(inbox') = Len(inbox) + Len(run)
         /\ \A i \in 1 .. Len(inbox) : inbox'[i] = inbox[i]
         /\ \A i \in 1 .. Len(run) : inbox'[Len(inbox) + i] = run[i]
         /\ InInbox' = InInbox \cup {run[i] : i \in DOMAIN run}
         /\ DOMAIN buffer' = DOMAIN buf \ {run[i] : i \in DOMAIN run}
         /\ \A s \in DOMAIN buffer' : buffer'[s] = s
         /\ inboxBytes' = inboxBytes + Size * Len(run) /\ foreign' = foreign
<1> DEFINE out == [i \in DOMAIN run |-> buf[run[i]]]
<1>1. /\ inbox' = inbox \o out
      /\ inboxBytes' = inboxBytes + Size * Len(run)
      /\ buffer' = [s \in DOMAIN buf \ {run[i] : i \in DOMAIN run} |-> buf[s]]
      /\ foreign' = foreign
  BY DEF Release
<1>2. DOMAIN run = 1 .. Len(run) /\ Len(run) \in Nat /\ \A i \in DOMAIN run : run[i] \in DOMAIN buf
  OBVIOUS
<1>3. out \in Seq(S) /\ Len(out) = Len(run) /\ \A i \in 1 .. Len(run) : out[i] = run[i]
  BY <1>2
<1> HIDE DEF out
<1>4. /\ inbox' \in Seq(S) /\ Len(inbox') = Len(inbox) + Len(out)
      /\ \A i \in 1 .. Len(inbox) + Len(out) :
           inbox'[i] = IF i <= Len(inbox) THEN inbox[i] ELSE out[i - Len(inbox)]
  BY <1>1, <1>3, ConcatProperties
<1>5. /\ Len(inbox) \in Nat /\ DOMAIN inbox = 1 .. Len(inbox)
      /\ DOMAIN inbox' = 1 .. Len(inbox) + Len(run)
  BY <1>2, <1>3, <1>4
<1>6. \A i \in 1 .. Len(inbox) : inbox'[i] = inbox[i]
  BY <1>2, <1>3, <1>4, <1>5
<1>7. ASSUME NEW i \in 1 .. Len(run) PROVE inbox'[Len(inbox) + i] = run[i]
  <2>1. Len(inbox) + i \in 1 .. Len(inbox) + Len(out) /\ ~(Len(inbox) + i <= Len(inbox))
        /\ (Len(inbox) + i) - Len(inbox) = i
    BY <1>2, <1>3, <1>5
  <2> QED BY <2>1, <1>3, <1>4
<1>8. InInbox' = InInbox \cup {run[i] : i \in DOMAIN run}
  <2>1. ASSUME NEW i \in DOMAIN inbox' PROVE inbox'[i] \in InInbox \cup {run[j] : j \in DOMAIN run}
    <3>1. CASE i \in 1 .. Len(inbox)
      BY <3>1, <1>5, <1>6 DEF InInbox
    <3>2. CASE i \in Len(inbox) + 1 .. Len(inbox) + Len(run)
      <4>1. i - Len(inbox) \in 1 .. Len(run) /\ Len(inbox) + (i - Len(inbox)) = i
        BY <3>2, <1>2, <1>5
      <4>2. inbox'[i] = run[i - Len(inbox)]
        BY <4>1, <1>7
      <4> QED BY <4>1, <4>2, <1>2
    <3> QED BY <3>1, <3>2, <1>2, <1>5
  <2>2. ASSUME NEW i \in DOMAIN inbox PROVE inbox[i] \in InInbox'
    <3>1. i \in DOMAIN inbox' /\ inbox'[i] = inbox[i]
      BY <1>2, <1>5, <1>6
    <3> QED BY <3>1 DEF InInbox
  <2>3. ASSUME NEW i \in DOMAIN run PROVE run[i] \in InInbox'
    <3>1. Len(inbox) + i \in DOMAIN inbox' /\ inbox'[Len(inbox) + i] = run[i]
      BY <1>2, <1>5, <1>7
    <3> QED BY <3>1 DEF InInbox
  <2> QED BY <2>1, <2>2, <2>3 DEF InInbox
<1> QED BY <1>1, <1>3, <1>4, <1>6, <1>7, <1>8

\* Draining a buffer that holds received, undelivered packets keeps every
\* packet in one place, the inbox in order and the byte count exact.
LEMMA DrainPlaces ==
  ASSUME IInv, NEW S, S \subseteq Nat \ {0}, Seqs \subseteq S,
         NEW buf, DOMAIN buf \subseteq S, \A s \in DOMAIN buf : buf[s] = s,
         DOMAIN buf \cap (InInbox \cup Taken \cup discarded) = {},
         Ordered => \A s \in DOMAIN buf : s >= nextToDeliver,
         UNCHANGED <<taken, discarded>>, DrainRecvStream(buf)
  PROVE  /\ inbox' \in Seq(S) /\ DOMAIN buffer' \subseteq DOMAIN buf
         /\ \A s \in DOMAIN buffer' : buffer'[s] = s
         /\ DOMAIN buffer' \cup InInbox' \cup Taken' \cup discarded' =
              DOMAIN buf \cup InInbox \cup Taken \cup discarded
         /\ ExactlyOnce' /\ OrderInv' /\ InboxAccounting'
         /\ inboxBytes' \in Nat /\ foreign' = foreign
         /\ nextToDeliver' \in Nat /\ nextToDeliver' >= nextToDeliver
         /\ Ordered => nextToDeliver .. nextToDeliver' - 1 \subseteq DOMAIN buf
         /\ ~Ordered => nextToDeliver' = nextToDeliver
         /\ inboxBytes' > inboxBytes => maxInboxBytes = 0 \/ inboxBytes' <= maxInboxBytes
         /\ Ready(buffer', nextToDeliver') # {} => Ready(buf, nextToDeliver) # {}
<1> USE StreamAssumption
<1>0. TypeOK /\ PlaceInv /\ ExactlyOnce /\ OrderInv /\ InboxAccounting
  BY DEF IInv, PlaceInv
<1>a. /\ nextToDeliver \in Nat /\ nextToDeliver >= 1 /\ inbox \in Seq(S) /\ Len(inbox) \in Nat
      /\ DOMAIN inbox = 1 .. Len(inbox)
      /\ taken' = taken /\ discarded' = discarded /\ Taken' = Taken
  <2>1. inbox \in Seq(S)
    BY <1>0, SeqMonotonic DEF TypeOK
  <2>2. nextToDeliver \in Nat /\ nextToDeliver >= 1
    BY <1>0 DEF TypeOK
  <2>3. taken' = taken /\ discarded' = discarded /\ Taken' = Taken
    BY DEF Taken
  <2> QED BY <2>1, <2>2, <2>3
<1>b. PICK run \in Seq(DOMAIN buf) :
        /\ Release(buf, run)
        /\ \A i, j \in DOMAIN run : run[i] = run[j] => i = j
        /\ Len(run) > 0 => InboxHasRoom(Size * Len(run))
        /\ Ordered => /\ nextToDeliver' = nextToDeliver + Len(run)
                      /\ \A i \in DOMAIN run : run[i] = nextToDeliver + i - 1
        /\ ~Ordered => nextToDeliver' = nextToDeliver
  <2>1. DOMAIN buf \subseteq Nat
    OBVIOUS
  <2> QED BY <2>1, <1>a, DrainRuns
<1> DEFINE out == {run[i] : i \in DOMAIN run}
           n == Len(inbox)
           r == Len(run)
<1>c. /\ inbox' \in Seq(S) /\ Len(inbox') = n + r
      /\ \A i \in 1 .. n : inbox'[i] = inbox[i]
      /\ \A i \in 1 .. r : inbox'[n + i] = run[i]
      /\ InInbox' = InInbox \cup out
      /\ DOMAIN buffer' = DOMAIN buf \ out
      /\ \A s \in DOMAIN buffer' : buffer'[s] = s
      /\ inboxBytes' = inboxBytes + Size * r /\ foreign' = foreign
  <2>1. Release(buf, run)
    BY <1>b
  <2> QED BY <2>1, <1>a, ReleasePlaces
<1>d. /\ r \in Nat /\ DOMAIN run = 1 .. r /\ out \subseteq DOMAIN buf
      /\ DOMAIN inbox' = 1 .. n + r
  BY <1>c
<1>e. Buffered' = DOMAIN buffer'
  BY <1>c DEF Buffered
<1> HIDE DEF out, n, r
<1>1. DOMAIN buffer' \cup InInbox' \cup Taken' \cup discarded' =
        DOMAIN buf \cup InInbox \cup Taken \cup discarded
  BY <1>a, <1>c, <1>d
<1>2. ExactlyOnce'
  <2>1. \A i, j \in DOMAIN taken' : taken'[i] = taken'[j] => i = j
    BY <1>0, <1>a DEF ExactlyOnce
  <2>2. ASSUME NEW i \in DOMAIN inbox', NEW j \in DOMAIN inbox', inbox'[i] = inbox'[j]
        PROVE  i = j
    <3>1. n \in Nat /\ r \in Nat /\ i \in Int /\ j \in Int
      BY <1>a, <1>d DEF n
    <3>2. ASSUME NEW k \in 1 .. n PROVE inbox'[k] \in InInbox /\ inbox'[k] = inbox[k]
      <4>1. inbox'[k] = inbox[k]
        BY <1>c
      <4>2. k \in DOMAIN inbox
        BY <1>a DEF n
      <4> QED BY <4>1, <4>2 DEF InInbox
    <3>3. ASSUME NEW k \in n + 1 .. n + r
          PROVE k - n \in DOMAIN run /\ inbox'[k] = run[k - n] /\ inbox'[k] \in DOMAIN buf
      <4>1. k - n \in 1 .. r /\ n + (k - n) = k
        BY <3>1
      <4> QED BY <4>1, <1>c, <1>d DEF out
    <3>4. CASE i \in 1 .. n /\ j \in 1 .. n
      BY <3>2, <3>4, <2>2, <1>0, <1>a DEF ExactlyOnce, n
    <3>5. CASE i \in n + 1 .. n + r /\ j \in n + 1 .. n + r
      <4>1. i - n = j - n
        BY <3>3, <3>5, <2>2, <1>b
      <4> QED BY <4>1, <3>1
    <3>6. CASE i \in 1 .. n /\ j \in n + 1 .. n + r
      BY <3>2, <3>3, <3>6, <2>2
    <3>7. CASE j \in 1 .. n /\ i \in n + 1 .. n + r
      BY <3>2, <3>3, <3>7, <2>2
    <3> QED BY <3>1, <3>4, <3>5, <3>6, <3>7, <1>d
  <2>3. \A s, t \in DOMAIN buffer' : buffer'[s] = buffer'[t] => s = t
    BY <1>c
  <2>4. /\ Taken' \cap InInbox' = {} /\ Buffered' \cap (Taken' \cup InInbox') = {}
        /\ discarded' \cap (Taken' \cup InInbox' \cup Buffered') = {}
    BY <1>0, <1>a, <1>c, <1>d, <1>e DEF ExactlyOnce
  <2> QED BY <2>1, <2>2, <2>3, <2>4 DEF ExactlyOnce
<1>3. /\ nextToDeliver' \in Nat /\ nextToDeliver' >= nextToDeliver
      /\ Ordered => /\ nextToDeliver' = nextToDeliver + r
                    /\ nextToDeliver .. nextToDeliver' - 1 = out
                    /\ \A i \in 1 .. r : run[i] = nextToDeliver + i - 1
      /\ ~Ordered => nextToDeliver' = nextToDeliver
  <2>1. CASE Ordered
    <3>1. nextToDeliver' = nextToDeliver + r /\ \A i \in 1 .. r : run[i] = nextToDeliver + i - 1
      BY <2>1, <1>b, <1>d DEF r
    <3>2. ASSUME NEW s \in nextToDeliver .. nextToDeliver' - 1 PROVE s \in out
      <4>1. s - nextToDeliver + 1 \in 1 .. r
        BY <3>1, <1>a, <1>d
      <4>2. run[s - nextToDeliver + 1] = s
        BY <3>1, <4>1, <1>a, <1>d
      <4> QED BY <4>1, <4>2, <1>d DEF out
    <3>3. ASSUME NEW i \in 1 .. r PROVE run[i] \in nextToDeliver .. nextToDeliver' - 1
      BY <3>1, <1>a, <1>d
    <3>4. out = nextToDeliver .. nextToDeliver' - 1
      BY <3>2, <3>3, <1>d DEF out
    <3> QED BY <2>1, <3>1, <3>4, <1>a, <1>d
  <2>2. CASE ~Ordered
    BY <2>2, <1>a, <1>b
  <2> QED BY <2>1, <2>2
<1>f. nextToDeliver \in Nat /\ nextToDeliver' \in Nat
  BY <1>a, <1>3
<1>4. OrderInv'
  <2> SUFFICES ASSUME Ordered PROVE OrderInv'
    BY DEF OrderInv
  <2> DEFINE first == nextToDeliver - Len(inbox)
  <2>0. /\ first >= 1
        /\ \A i \in DOMAIN inbox : inbox[i] = first + i - 1
        /\ Taken \cup discarded = 1 .. first - 1
        /\ \A i, j \in DOMAIN taken : i < j => taken[i] < taken[j]
    BY <1>0 DEF OrderInv
  <2>1. /\ first >= 1 /\ first \in Nat /\ nextToDeliver = first + n /\ n \in Nat
        /\ \A i \in 1 .. n : inbox[i] = first + i - 1
        /\ Taken \cup discarded = 1 .. first - 1
        /\ \A i, j \in DOMAIN taken : i < j => taken[i] < taken[j]
    <3>1. n = Len(inbox) /\ n \in Nat /\ DOMAIN inbox = 1 .. n
      BY <1>a DEF n
    <3>2. first \in Nat /\ nextToDeliver = first + n
      BY <2>0, <3>1, <1>f
    <3> QED BY <2>0, <3>1, <3>2
  <2>2. nextToDeliver' - Len(inbox') = first
    BY <2>1, <1>3, <1>c, <1>d
  <2> HIDE DEF first
  <2>3. ASSUME NEW i \in DOMAIN inbox' PROVE inbox'[i] = first + i - 1
    <3>1. CASE i \in 1 .. n
      BY <3>1, <2>1, <1>c
    <3>2. CASE i \in n + 1 .. n + r
      <4>1. i - n \in 1 .. r /\ n + (i - n) = i
        BY <3>2, <2>1, <1>d
      <4>2. inbox'[i] = nextToDeliver + (i - n) - 1
        BY <4>1, <1>3, <1>c
      <4> QED BY <4>1, <4>2, <2>1
    <3> QED BY <3>1, <3>2, <2>1, <1>d
  <2>4. ASSUME NEW s \in DOMAIN buffer' PROVE s >= nextToDeliver'
    <3>1. s \in DOMAIN buf /\ s \notin out /\ s \in Nat /\ s >= nextToDeliver
      BY <1>c
    <3> QED BY <3>1, <1>3, <1>a
  <2> QED BY <2>1, <2>2, <2>3, <2>4, <1>a DEF OrderInv
<1>5. /\ InboxAccounting' /\ inboxBytes' \in Nat
      /\ inboxBytes' > inboxBytes => maxInboxBytes = 0 \/ inboxBytes' <= maxInboxBytes
  <2> DEFINE a == Size * n
             b == Size * r
             c == Size * (n + r)
  <2>1. a \in Nat /\ b \in Nat /\ c = a + b /\ n \in Nat
    BY <1>a, <1>d DEF n
  <2>2. inboxBytes = a + foreign /\ foreign \in Nat
    BY <1>0 DEF InboxAccounting, TypeOK, n
  <2>3. r = 0 => b = 0
    BY <1>d
  <2>4. inboxBytes' = inboxBytes + b /\ foreign' = foreign
    BY <1>c
  <2>5. r > 0 => maxInboxBytes = 0 \/ inboxBytes + b <= maxInboxBytes
    BY <1>b DEF InboxHasRoom, r
  <2>6. InboxAccounting' <=> inboxBytes' = c + foreign'
    BY <1>c DEF InboxAccounting
  <2> HIDE DEF a, b, c
  <2>7. InboxAccounting' /\ inboxBytes' \in Nat
    BY <2>1, <2>2, <2>4, <2>6
  <2> QED BY <2>1, <2>2, <2>3, <2>4, <2>5, <2>7, <1>d
<1>6. Ready(buffer', nextToDeliver') # {} => Ready(buf, nextToDeliver) # {}
  <2>1. CASE ~Ordered
    BY <2>1, <1>c DEF Ready
  <2>2. CASE Ordered
    <3> SUFFICES ASSUME Ready(buffer', nextToDeliver') # {} PROVE nextToDeliver \in DOMAIN buf
      BY <2>2, <1>a DEF Ready
    <3>1. PICK s \in DOMAIN buffer' : s >= nextToDeliver' /\ \A t \in nextToDeliver' .. s : t \in DOMAIN buffer'
      BY <2>2 DEF Ready
    <3>a. DOMAIN buffer' \subseteq DOMAIN buf
      BY <1>c
    <3>b. s \in Nat
      BY <3>a
    <3>2. nextToDeliver' \in nextToDeliver' .. s
      BY <3>1, <3>b, <1>f
    <3>3. nextToDeliver' \in DOMAIN buf
      BY <3>1, <3>2, <1>c
    <3>4. CASE nextToDeliver' = nextToDeliver
      BY <3>3, <3>4
    <3>5. CASE nextToDeliver' > nextToDeliver
      <4>1. nextToDeliver' = nextToDeliver + r /\ 1 \in 1 .. r /\ run[1] = nextToDeliver
        <5>1. r \in Nat /\ nextToDeliver' = nextToDeliver + r /\ nextToDeliver \in Nat
          BY <2>2, <1>3, <1>d, <1>f
        <5>2. 1 \in 1 .. r
          BY <5>1, <3>5
        <5>3. run[1] = nextToDeliver + 1 - 1
          BY <5>2, <2>2, <1>3
        <5> QED BY <5>1, <5>2, <5>3
      <4> QED BY <4>1, <1>d DEF out
    <3> QED BY <3>4, <3>5, <1>3, <1>f
  <2> QED BY <2>1, <2>2
<1> QED BY <1>1, <1>2, <1>3, <1>4, <1>5, <1>6, <1>c, <1>d

\* Pump: what is due is sent again.
LEMMA PumpIInv == ASSUME IInv, NEW due \in SUBSET pending, Pump(due) PROVE IInv'
<1>0. TypeOK /\ SenderInv /\ AckInv /\ PlaceInv /\ OrderInv /\ InboxAccounting /\ BlockedIsNotified
  BY DEF IInv
<1>a. /\ DrainRecvStream(buffer) /\ fullPosted' = (fullPosted /\ Blocked')
      /\ dataNet' = dataNet \cup due
      /\ UNCHANGED <<nextSeq, pending, ackNet, nextExpected, received, maxInboxBytes, taken, discarded>>
  BY DEF Pump, sendVars, histVars
<1>1. /\ Seqs' = Seqs /\ Got' = Got /\ Taken' = Taken /\ Seqs \subseteq Nat \ {0}
  BY <1>0, <1>a DEF Seqs, Got, Taken, TypeOK
<1>2. /\ DOMAIN buffer \subseteq Seqs /\ \A s \in DOMAIN buffer : buffer[s] = s
      /\ DOMAIN buffer \cap (InInbox \cup Taken \cup discarded) = {}
      /\ Ordered => \A s \in DOMAIN buffer : s >= nextToDeliver
  <2>1. DOMAIN buffer = Buffered
    BY <1>0 DEF PlaceInv, Buffered
  <2> QED BY <2>1, <1>0 DEF TypeOK, PlaceInv, ExactlyOnce, OrderInv
<1>3. /\ inbox' \in Seq(Seqs) /\ DOMAIN buffer' \subseteq DOMAIN buffer
      /\ \A s \in DOMAIN buffer' : buffer'[s] = s
      /\ DOMAIN buffer' \cup InInbox' \cup Taken' \cup discarded' =
           DOMAIN buffer \cup InInbox \cup Taken \cup discarded
      /\ ExactlyOnce' /\ OrderInv' /\ InboxAccounting'
      /\ inboxBytes' \in Nat /\ foreign' = foreign
      /\ nextToDeliver' \in Nat /\ nextToDeliver' >= nextToDeliver
      /\ Ordered => nextToDeliver .. nextToDeliver' - 1 \subseteq DOMAIN buffer
      /\ ~Ordered => nextToDeliver' = nextToDeliver
      /\ Ready(buffer', nextToDeliver') # {} => Ready(buffer, nextToDeliver) # {}
  BY <1>a, <1>1, <1>2, DrainPlaces
<1>4. PlaceInv'
  BY <1>0, <1>1, <1>3 DEF PlaceInv
<1>5. nextToDeliver' \in 1 .. nextExpected
  <2>0. nextToDeliver \in Nat /\ nextToDeliver <= nextExpected /\ nextToDeliver' \in Nat
    BY <1>0, <1>3 DEF TypeOK
  <2>1. nextExpected \in Nat /\ nextToDeliver \in 1 .. nextExpected /\ nextExpected \notin Got
    BY <1>0 DEF TypeOK, Got
  <2>2. CASE nextToDeliver' <= nextExpected
    BY <2>1, <2>2, <1>3
  <2>3. CASE nextToDeliver' > nextExpected
    <3>1. Ordered
      BY <2>1, <2>3, <1>3
    <3>2. nextExpected \in nextToDeliver .. nextToDeliver' - 1
      <4>1. nextToDeliver \in Int /\ nextToDeliver' \in Int /\ nextExpected \in Int
            /\ nextToDeliver <= nextExpected /\ nextExpected < nextToDeliver'
        BY <2>0, <2>1, <2>3
      <4> QED BY <4>1, InRange
    <3>3. nextExpected \in DOMAIN buffer /\ DOMAIN buffer \subseteq Got
      BY <3>1, <3>2, <1>0, <1>3 DEF PlaceInv
    <3> QED BY <3>3, <2>1
  <2> QED BY <2>1, <2>2, <2>3, <1>3
<1>6. TypeOK'
  <2>1. fullPosted' \in BOOLEAN
    BY <1>a, <1>0 DEF TypeOK
  <2>2. DOMAIN buffer' \subseteq Seqs /\ buffer' \in [DOMAIN buffer' -> Seqs]
    <3>1. DOMAIN buffer' \subseteq Seqs /\ \A s \in DOMAIN buffer' : buffer'[s] \in Seqs
      BY <1>2, <1>3
    <3>2. buffer' = [s \in DOMAIN buffer' |-> buffer'[s]]
      <4>1. PICK run : Release(buffer, run)
        BY <1>a, <1>1, <1>2, <1>0, DrainRuns DEF TypeOK
      <4> QED BY <4>1 DEF Release
    <3> QED BY <3>1, <3>2
  <2>3. dataNet' \subseteq Seqs
    BY <1>0, <1>a DEF TypeOK
  <2> QED BY <1>0, <1>a, <1>1, <1>3, <1>5, <2>1, <2>2, <2>3 DEF TypeOK
<1>7. SenderInv' /\ AckInv'
  BY <1>0, <1>a, <1>1 DEF SenderInv, AckInv
<1>8. BlockedIsNotified'
  <2>1. Blocked' => Blocked
    BY <1>3 DEF Blocked
  <2> QED BY <2>1, <1>0, <1>a DEF BlockedIsNotified
<1> QED BY <1>3, <1>4, <1>6, <1>7, <1>8 DEF IInv

\* The receiver extends the 32 bits it gets to the number that was sent.
LEMMA DataExact ==
  ASSUME IInv, NEW m \in dataNet, Fresh(nextExpected, m)
  PROVE  Extend32(nextExpected, Low(m)) = m
<1>1. TypeOK /\ SenderInv
  BY DEF IInv
<1>2. m \in Nat /\ m >= 1 /\ m < nextSeq /\ nextSeq \in Nat /\ nextExpected \in Nat
      /\ nextExpected >= 1 /\ nextExpected <= nextSeq
  BY <1>1 DEF TypeOK, Seqs
<1>3. m - nextExpected < Half
  <2>1. CASE nextExpected = nextSeq
    BY <2>1, <1>2, StreamAssumption
  <2>2. CASE nextExpected < nextSeq
    <3>1. nextExpected \in Seqs /\ nextExpected \notin Got
      BY <1>1, <1>2, <2>2 DEF Seqs, Got, TypeOK
    <3>2. nextExpected \in pending
      BY <3>1, <1>1 DEF SenderInv
    <3> QED BY <3>2, <1>1, <1>2, StreamAssumption DEF SenderInv
  <2> QED BY <1>2, <2>1, <2>2
<1> QED BY <1>2, <1>3, Extend32Exact DEF Fresh

\* OnData: a packet is acknowledged, and delivered, kept or dropped.
LEMMA ReceiveDataIInv == ASSUME IInv, NEW m \in dataNet, ReceiveData(m) PROVE IInv'
<1>0. TypeOK /\ SenderInv /\ AckInv /\ PlaceInv /\ OrderInv /\ InboxAccounting /\ BlockedIsNotified
  BY DEF IInv
<1> DEFINE duplicate == IsDuplicate(m)
           rcvd == IF duplicate THEN received ELSE received \cup {m}
           buf == IF duplicate THEN buffer
                  ELSE [s \in DOMAIN buffer \cup {m} |-> IF s = m THEN m ELSE buffer[s]]
<1>a. /\ dataNet' \subseteq dataNet
      /\ \E n \in nextExpected .. nextExpected + Cardinality(rcvd) :
           /\ IsFirstHole(n, rcvd)
           /\ nextExpected' = n
           /\ received' = {s \in rcvd : s >= n}
      /\ DrainRecvStream(buf)
      /\ fullPosted' = Blocked'
      /\ ackNet' = ackNet \cup {AckFor(nextExpected', received')}
      /\ UNCHANGED <<nextSeq, pending, maxInboxBytes, taken, discarded>>
  <2>1. Extend32(nextExpected, Low(m)) = m
    BY DataExact DEF ReceiveData
  <2> QED BY <2>1 DEF ReceiveData, Prune, NotifyFull, sendVars, histVars
<1>b. m \in Seqs /\ m \in Nat /\ Seqs \subseteq Nat \ {0} /\ nextExpected \in Nat /\ nextSeq \in Nat
      /\ nextExpected >= 1 /\ nextToDeliver \in Nat /\ nextToDeliver <= nextExpected
      /\ nextExpected <= nextSeq /\ received \subseteq nextExpected + 1 .. nextSeq - 1
  BY <1>0 DEF TypeOK, Seqs
<1>c. IF duplicate THEN m \in Got ELSE m \notin Got /\ m >= nextExpected
  BY <1>b DEF IsDuplicate, Got
<1>d. DOMAIN buf = DOMAIN buffer \cup (IF duplicate THEN {} ELSE {m})
      /\ rcvd = received \cup (IF duplicate THEN {} ELSE {m})
  OBVIOUS
<1>e. \A s \in DOMAIN buf : buf[s] = s
  BY <1>0 DEF PlaceInv
<1> HIDE DEF duplicate, rcvd, buf
<1>1. /\ nextExpected' \in Nat /\ nextExpected' >= nextExpected /\ nextExpected' \notin rcvd
      /\ \A s \in nextExpected .. nextExpected' - 1 : s \in rcvd
      /\ received' = {s \in rcvd : s >= nextExpected'}
  BY <1>a, <1>b DEF IsFirstHole
<1>2. /\ nextExpected' <= nextSeq
      /\ received' \subseteq nextExpected' + 1 .. nextSeq - 1
      /\ (1 .. nextExpected' - 1) \cup received' = (1 .. nextExpected - 1) \cup rcvd
  <2>1. rcvd \in SUBSET (1 .. nextSeq - 1)
    BY <1>b, <1>d DEF Seqs
  <2>2. nextExpected \in 1 .. nextSeq
    BY <1>b
  <2>3. PICK n \in Nat : n = nextExpected'
    BY <1>1
  <2>4. nextSeq \in Nat /\ nextExpected \in Nat /\ n >= nextExpected /\ n \notin rcvd
        /\ nextExpected .. n - 1 \subseteq rcvd
        /\ received' = {s \in rcvd : s >= n}
    BY <2>3, <1>1, <1>b
  <2>5. n <= nextSeq
    <3>1. CASE nextSeq < n
      <4>1. nextSeq \in nextExpected .. n - 1
        BY <3>1, <2>2, <2>4, InRange
      <4> QED BY <4>1, <2>1, <2>4
    <3> QED BY <3>1, <2>4
  <2>6. ASSUME NEW s \in rcvd, s >= n PROVE s \in n + 1 .. nextSeq - 1
    <3>1. s \in Int /\ s # n /\ s <= nextSeq - 1
      BY <2>1, <2>4
    <3> QED BY <3>1, <2>4, <2>6
  <2>7. ASSUME NEW s \in 1 .. n - 1, s \notin 1 .. nextExpected - 1 PROVE s \in rcvd
    <3>1. s \in nextExpected .. n - 1
      BY <2>4, <2>7
    <3> QED BY <3>1, <2>4
  <2>8. ASSUME NEW s \in (1 .. nextExpected - 1) \cup rcvd PROVE s \in (1 .. n - 1) \cup received'
    BY <2>1, <2>4
  <2>9. (1 .. n - 1) \cup received' = (1 .. nextExpected - 1) \cup rcvd
    BY <2>4, <2>7, <2>8
  <2>10. received' \subseteq n + 1 .. nextSeq - 1
    BY <2>4, <2>6
  <2> QED BY <2>3, <2>5, <2>9, <2>10
<1>3. received' \subseteq nextExpected' + 1 .. nextSeq - 1
  BY <1>2
<1>4. Got' = Got \cup {m} /\ nextExpected' \notin Got'
  <2>1. Got' = (1 .. nextExpected - 1) \cup rcvd
    BY <1>1, <1>2 DEF Got
  <2>2. (1 .. nextExpected - 1) \cup rcvd = Got \cup {m}
    BY <1>c, <1>d DEF Got
  <2>3. nextExpected' \notin 1 .. nextExpected - 1
    BY <1>1, <1>b
  <2> QED BY <2>1, <2>2, <2>3, <1>1
<1>5. Seqs' = Seqs /\ Taken' = Taken /\ taken' = taken /\ discarded' = discarded
  BY <1>a DEF Seqs, Taken
<1>6. Buffered = DOMAIN buffer
  BY <1>0 DEF PlaceInv, Buffered
<1>7. /\ DOMAIN buf \subseteq Seqs
      /\ DOMAIN buf \cap (InInbox \cup Taken \cup discarded) = {}
      /\ Ordered => \A s \in DOMAIN buf : s >= nextToDeliver
      /\ DOMAIN buf \cup InInbox \cup Taken \cup discarded = Got'
  <2>1. DOMAIN buf \subseteq Seqs
    BY <1>0, <1>b, <1>d DEF TypeOK
  <2>2. Got = DOMAIN buffer \cup InInbox \cup Taken \cup discarded
        /\ DOMAIN buffer \cap (InInbox \cup Taken \cup discarded) = {}
    BY <1>0, <1>6 DEF PlaceInv, ExactlyOnce
  <2>3. ~duplicate => m \notin InInbox \cup Taken \cup discarded
    BY <2>2, <1>c
  <2>4. DOMAIN buf \cap (InInbox \cup Taken \cup discarded) = {}
    BY <2>2, <2>3, <1>d
  <2>5. ~duplicate => m >= nextToDeliver
    BY <1>b, <1>c
  <2>6. Ordered => \A s \in DOMAIN buf : s >= nextToDeliver
    BY <2>5, <1>0, <1>d DEF OrderInv
  <2>7. DOMAIN buf \cup InInbox \cup Taken \cup discarded = Got'
    BY <2>2, <1>4, <1>c, <1>d
  <2> QED BY <2>1, <2>4, <2>6, <2>7
<1>8. /\ inbox' \in Seq(Seqs) /\ DOMAIN buffer' \subseteq DOMAIN buf
      /\ \A s \in DOMAIN buffer' : buffer'[s] = s
      /\ DOMAIN buffer' \cup InInbox' \cup Taken' \cup discarded' = Got'
      /\ ExactlyOnce' /\ OrderInv' /\ InboxAccounting'
      /\ inboxBytes' \in Nat /\ foreign' = foreign
      /\ nextToDeliver' \in Nat /\ nextToDeliver' >= nextToDeliver
      /\ Ordered => nextToDeliver .. nextToDeliver' - 1 \subseteq DOMAIN buf
      /\ ~Ordered => nextToDeliver' = nextToDeliver
  BY <1>a, <1>b, <1>e, <1>5, <1>7, DrainPlaces
<1>9. PlaceInv'
  BY <1>8 DEF PlaceInv
<1>10. nextToDeliver' \in 1 .. nextExpected'
  <2>1. nextToDeliver' \in Nat /\ nextToDeliver' >= 1 /\ nextToDeliver \in Nat
        /\ nextToDeliver <= nextExpected' /\ nextExpected' \in Nat
    BY <1>0, <1>1, <1>8, <1>b DEF TypeOK
  <2>2. CASE nextToDeliver' <= nextExpected'
    BY <2>1, <2>2
  <2>3. CASE nextToDeliver' > nextExpected'
    <3>1. Ordered
      BY <2>1, <2>3, <1>8
    <3>2. nextExpected' \in nextToDeliver .. nextToDeliver' - 1
      <4>1. nextToDeliver \in Int /\ nextToDeliver' \in Int /\ nextExpected' \in Int
            /\ nextToDeliver <= nextExpected' /\ nextExpected' < nextToDeliver'
        BY <2>1, <2>3
      <4> QED BY <4>1, InRange
    <3>3. nextExpected' \in Got'
      BY <3>1, <3>2, <1>7, <1>8
    <3> QED BY <3>3, <1>4
  <2> QED BY <2>1, <2>2, <2>3
<1>11. TypeOK'
  <2>1. fullPosted' \in BOOLEAN
    BY <1>a DEF Blocked
  <2>2. DOMAIN buffer' \subseteq Seqs /\ buffer' \in [DOMAIN buffer' -> Seqs]
    <3>1. DOMAIN buffer' \subseteq Seqs /\ \A s \in DOMAIN buffer' : buffer'[s] \in Seqs
      BY <1>7, <1>8
    <3>2. buffer' = [s \in DOMAIN buffer' |-> buffer'[s]]
      <4>1. PICK run : Release(buf, run)
        BY <1>a, <1>b, <1>7, DrainRuns
      <4> QED BY <4>1 DEF Release
    <3> QED BY <3>1, <3>2
  <2>3. AckFor(nextExpected', received') \in AckType
    <3>1. nextExpected' - 1 \in Nat
      <4>1. nextExpected' \in Nat /\ nextExpected' >= 1
        BY <1>1, <1>b
      <4> QED BY <4>1, PredNat
    <3> QED BY <3>1 DEF AckFor, AckType
  <2>4. nextExpected' \in 1 .. nextSeq
    BY <1>1, <1>2, <1>b
  <2> QED BY <1>0, <1>a, <1>3, <1>5, <1>8, <1>10, <2>1, <2>2, <2>3, <2>4 DEF TypeOK
<1>12. SenderInv'
  BY <1>0, <1>a, <1>4, <1>5 DEF SenderInv
<1>13. AckInv'
  <2> SUFFICES ASSUME NEW a \in ackNet'
               PROVE  a.ackSeq < nextExpected' /\ \A b \in a.sack : a.ackSeq + 2 + b \in Got'
    BY DEF AckInv
  <2>1. CASE a \in ackNet
    <3>1. a.ackSeq < nextExpected /\ a.ackSeq \in Nat /\ \A b \in a.sack : a.ackSeq + 2 + b \in Got
      BY <2>1, <1>0 DEF AckInv, TypeOK, AckType
    <3> QED BY <3>1, <1>1, <1>4, <1>b
  <2>2. CASE a = AckFor(nextExpected', received')
    <3>1. a.ackSeq = nextExpected' - 1
          /\ a.sack = {b \in 0 .. SackBits - 1 : nextExpected' + 1 + b \in received'}
      BY <2>2 DEF AckFor
    <3>2. ASSUME NEW b \in a.sack PROVE a.ackSeq + 2 + b \in Got'
      <4>1. b \in Int /\ nextExpected' + 1 + b \in Got'
        BY <3>1, StreamAssumption DEF Got
      <4>2. a.ackSeq + 2 + b = nextExpected' + 1 + b
        BY <3>1, <4>1, <1>1
      <4> QED BY <4>1, <4>2
    <3> QED BY <3>1, <3>2, <1>1
  <2> QED BY <2>1, <2>2, <1>a
<1>14. BlockedIsNotified'
  BY <1>a DEF BlockedIsNotified
<1> QED BY <1>8, <1>9, <1>11, <1>12, <1>13, <1>14 DEF IInv

---------------------------------------------------------------------------
\* The invariant is inductive: every handler of P2P.cpp (sending, the two
\* datagram handlers, Pump, reading and clearing) keeps all its parts.
THEOREM Invariance == Spec => []IInv
<1>1. Init => IInv
  BY InitIInv
<1>2. IInv /\ [Next]_vars => IInv'
  <2> SUFFICES ASSUME IInv, [Next]_vars PROVE IInv'
    OBVIOUS
  <2>1. CASE SendPacket
    BY <2>1, SendPacketIInv
  <2>2. ASSUME NEW m \in dataNet, ReceiveData(m) PROVE IInv'
    BY <2>2, ReceiveDataIInv
  <2>3. ASSUME NEW a \in ackNet, ReceiveAck(a) PROVE IInv'
    BY <2>3, ReceiveAckIInv
  <2>4. ASSUME NEW due \in SUBSET pending, Pump(due) PROVE IInv'
    BY <2>4, PumpIInv
  <2>5. CASE ReceivePacket
    BY <2>5, ReceivePacketIInv
  <2>6. ASSUME NEW others \in 0 .. foreign, ClearPacketQueue(others) PROVE IInv'
    BY <2>6, ClearPacketQueueIInv
  <2>7. CASE ClearWholeQueue
    BY <2>7, ClearWholeQueueIInv
  <2>8. CASE \/ \E bytes \in QueueSizes : SetPacketQueueSize(bytes)
             \/ ForeignArrives
             \/ ForeignTaken
             \/ \E m \in dataNet : LoseData(m)
             \/ \E a \in ackNet : LoseAck(a)
             \/ UNCHANGED vars
    BY <2>8, OtherIInv
  <2> QED BY <2>1, <2>2, <2>3, <2>4, <2>5, <2>6, <2>7, <2>8 DEF Next
<1> QED BY <1>1, <1>2, PTL DEF Spec

\* The state of SendStream, RecvStream and Inbox_ keeps its types: no byte
\* count or sequence number runs below zero.
THEOREM TypeCorrect == Spec => []TypeOK
<1>1. IInv => TypeOK
  BY DEF IInv
<1> QED BY <1>1, Invariance, PTL

\* What P2PAck removes from Pending has reached the receiver and is not lost
\* there: for all wire widths, mask widths, windows and queue sizes.
THEOREM AckedIsNotLost == Spec => []NoAckedLoss
<1>1. IInv => NoAckedLoss
  <2> SUFFICES ASSUME IInv PROVE NoAckedLoss
    OBVIOUS
  <2>1. SenderInv /\ PlaceInv
    BY DEF IInv
  <2>2. Buffered = DOMAIN buffer
    BY <2>1 DEF PlaceInv, Buffered
  <2> QED BY <2>1, <2>2 DEF NoAckedLoss, SenderInv, PlaceInv
<1> QED BY <1>1, Invariance, PTL

\* The duplicate test of the P2PData handler lets no packet through twice.
THEOREM DeliveredOnce == Spec => []ExactlyOnce
<1>1. IInv => ExactlyOnce
  BY DEF IInv, PlaceInv
<1> QED BY <1>1, Invariance, PTL

\* DrainRecvStream hands an ordered stream to the application without gaps.
THEOREM DeliveredInOrder == Spec => []OrderedDelivery
<1>1. IInv => OrderedDelivery
  <2> SUFFICES ASSUME IInv, Ordered PROVE OrderedDelivery
    BY DEF OrderedDelivery
  <2>1. TypeOK /\ OrderInv
    BY DEF IInv
  <2> DEFINE first == nextToDeliver - Len(inbox)
  <2>2. /\ Taken \cup discarded = 1 .. first - 1
        /\ \A i, j \in DOMAIN taken : i < j => taken[i] < taken[j]
    BY <2>1 DEF OrderInv
  <2>3. first \in Int
    BY <2>1 DEF TypeOK
  <2> HIDE DEF first
  <2>4. ASSUME NEW i \in DOMAIN taken, NEW s \in 1 .. taken[i] PROVE s \in Taken \cup discarded
    <3>1. taken[i] \in 1 .. first - 1
      BY <2>2 DEF Taken
    <3>2. s \in 1 .. first - 1
      BY <3>1, <2>3
    <3> QED BY <3>2, <2>2
  <2> QED BY <2>2, <2>4 DEF OrderedDelivery
<1> QED BY <1>1, Invariance, PTL

\* InboxBytes_ never drifts from what Inbox_ holds.
THEOREM BytesAreExact == Spec => []InboxAccounting
<1>1. IInv => InboxAccounting
  BY DEF IInv
<1> QED BY <1>1, Invariance, PTL

\* Backpressure is never silent: the P2PData handler posts the queue-full
\* notification whenever it leaves a deliverable packet in Buffer.
THEOREM FullIsNotified == Spec => []BlockedIsNotified
<1>1. IInv => BlockedIsNotified
  BY DEF IInv
<1> QED BY <1>1, Invariance, PTL

\* DrainRecvStream stops at MaxInboxBytes_.
LEMMA DrainWithinLimit ==
  ASSUME NEW buf, DOMAIN buf \subseteq Nat, nextToDeliver \in Nat, inboxBytes \in Nat,
         DrainRecvStream(buf), inboxBytes' > inboxBytes
  PROVE  maxInboxBytes = 0 \/ inboxBytes' <= maxInboxBytes
<1>1. PICK run \in Seq(DOMAIN buf) :
        Release(buf, run) /\ (Len(run) > 0 => InboxHasRoom(Size * Len(run)))
  BY DrainRuns
<1>2. inboxBytes' = inboxBytes + Size * Len(run) /\ Len(run) \in Nat
  BY <1>1 DEF Release
<1>3. Len(run) = 0 => Size * Len(run) = 0
  BY StreamAssumption
<1>4. Len(run) > 0
  BY <1>2, <1>3
<1> QED BY <1>1, <1>2, <1>4 DEF InboxHasRoom

\* Whatever fills the inbox, DrainRecvStream or a packet of another stream,
\* checks InboxHasRoom against the whole of what it adds.
THEOREM LimitRespected == Spec => QueueLimit
<1>1. ASSUME IInv, [Next]_vars, inboxBytes' > inboxBytes
      PROVE  maxInboxBytes = 0 \/ inboxBytes' <= maxInboxBytes
  <2>0. TypeOK /\ PlaceInv /\ InboxAccounting /\ SenderInv
    BY <1>1 DEF IInv
  <2>a. inboxBytes \in Nat /\ nextToDeliver \in Nat /\ foreign \in Nat /\ Size \in Nat
        /\ DOMAIN buffer \subseteq Nat
    BY <2>0, StreamAssumption DEF TypeOK, Seqs
  <2>1. ASSUME NEW m \in dataNet, ReceiveData(m)
        PROVE  maxInboxBytes = 0 \/ inboxBytes' <= maxInboxBytes
    <3>1. Extend32(nextExpected, Low(m)) = m /\ m \in Nat
      BY <2>1, <2>0, <1>1, DataExact DEF ReceiveData, TypeOK, Seqs
    <3>2. PICK buf : DOMAIN buf \subseteq Nat /\ DrainRecvStream(buf)
      BY <2>1, <2>a, <3>1 DEF ReceiveData
    <3> QED BY <3>2, <2>a, <1>1, DrainWithinLimit
  <2>2. ASSUME NEW due \in SUBSET pending, Pump(due)
        PROVE  maxInboxBytes = 0 \/ inboxBytes' <= maxInboxBytes
    <3>1. DrainRecvStream(buffer)
      BY <2>2 DEF Pump
    <3> QED BY <3>1, <2>a, <1>1, DrainWithinLimit
  <2>3. CASE ForeignArrives
    BY <2>3 DEF ForeignArrives, InboxHasRoom
  <2>4. CASE ReceivePacket \/ ForeignTaken
    BY <2>4, <2>a, <1>1 DEF ReceivePacket, ForeignTaken
  <2>5. ASSUME NEW others \in 0 .. foreign, ClearPacketQueue(others) PROVE FALSE
    <3> DEFINE all == Size * Len(inbox)
    <3>1. all \in Nat /\ inboxBytes' = inboxBytes - all - others
      BY <2>0, <2>5, <2>a DEF ClearPacketQueue, Discard, TypeOK
    <3> HIDE DEF all
    <3> QED BY <3>1, <2>a, <1>1
  <2>6. ASSUME ClearWholeQueue PROVE FALSE
    BY <2>6, <2>a, <1>1 DEF ClearWholeQueue, Discard
  <2>7. CASE \/ SendPacket
             \/ \E a \in ackNet : ReceiveAck(a) \/ LoseAck(a)
             \/ \E m \in dataNet : LoseData(m)
             \/ \E bytes \in QueueSizes : SetPacketQueueSize(bytes)
             \/ UNCHANGED vars
    <3>1. inboxBytes' = inboxBytes
      BY <2>7 DEF SendPacket, ReceiveAck, LoseAck, LoseData, SetPacketQueueSize, vars, inboxVars
    <3> QED BY <3>1, <2>a, <1>1
  <2> QED BY <2>1, <2>2, <2>3, <2>4, <2>5, <2>6, <2>7, <1>1 DEF Next
<1>2. IInv /\ [Next]_vars =>
        [inboxBytes' > inboxBytes => maxInboxBytes = 0 \/ inboxBytes' <= maxInboxBytes]_vars
  BY <1>1
<1> QED BY <1>2, Invariance, PTL DEF Spec, QueueLimit

---------------------------------------------------------------------------
\* The packets that are sent and neither read nor cleared.
Waiting == Seqs \ (Taken \cup discarded)

\* What is in the inbox has been sent, and neither received nor discarded.
LEMMA InboxIsWaiting == ASSUME IInv PROVE InInbox \subseteq Waiting
<1>1. InInbox \subseteq Seqs
  BY DEF IInv, TypeOK, InInbox
<1>2. InInbox \cap (Taken \cup discarded) = {}
  BY DEF IInv, PlaceInv, ExactlyOnce
<1> QED BY <1>1, <1>2 DEF Waiting

\* SendPacket is a Send of the channel,
LEMMA SendRefines == ASSUME IInv, SendPacket PROVE Channel!Send
<1>1. nextSeq \in Nat /\ nextSeq \notin Taken \cup discarded /\ taken \in Seq(Seqs)
  <2>1. nextSeq \notin Seqs /\ discarded \subseteq Seqs /\ Taken \subseteq Seqs /\ nextSeq \in Nat
    BY DEF IInv, TypeOK, Seqs, Taken
  <2> QED BY <2>1 DEF IInv, TypeOK
<1>2. nextSeq' = nextSeq + 1 /\ taken' = taken /\ discarded' = discarded
  BY DEF SendPacket, histVars
<1>3. Seqs' = Seqs \cup {nextSeq} /\ Taken' = Taken
  BY <1>1, <1>2 DEF Seqs, Taken, IInv, TypeOK
<1>4. Waiting' = Waiting \cup {(nextSeq - 1) + 1}
  BY <1>1, <1>2, <1>3 DEF Waiting
<1>5. (nextSeq - 1)' = (nextSeq - 1) + 1
  BY <1>1, <1>2
<1> QED BY <1>2, <1>4, <1>5 DEF Channel!Send, Waiting

\* ReceivePacket a Receive of what it hands out,
LEMMA ReceiveRefines == ASSUME IInv, ReceivePacket PROVE \E p \in Waiting : Channel!Receive(p)
<1> DEFINE p == Head(inbox)
<1>1. /\ p = inbox[1] /\ 1 \in DOMAIN inbox /\ p \in InInbox
      /\ taken \in Seq(Seqs)
  BY DEF ReceivePacket, InInbox, IInv, TypeOK
<1>2. /\ taken' = Append(taken, p) /\ nextSeq' = nextSeq /\ discarded' = discarded
      /\ Seqs' = Seqs
  BY DEF ReceivePacket, sendVars, Seqs
<1>3. p \in Waiting
  BY <1>1, InboxIsWaiting
<1>4. Taken' = Taken \cup {p}
  <2> HIDE DEF p
  <2>1. /\ DOMAIN taken' = 1 .. Len(taken) + 1 /\ DOMAIN taken = 1 .. Len(taken)
        /\ Len(taken) \in Nat /\ taken'[Len(taken) + 1] = p
        /\ \A i \in 1 .. Len(taken) : taken'[i] = taken[i]
    <3>1. p \in Seqs
      BY <1>3 DEF Waiting
    <3> QED BY <3>1, <1>1, <1>2, AppendProperties
  <2> QED BY <2>1 DEF Taken
<1>5. Waiting' = Waiting \ {p}
  BY <1>2, <1>4 DEF Waiting
<1>6. Ordered => \A q \in Waiting : p <= q
  <2> SUFFICES ASSUME Ordered, NEW q \in Waiting PROVE p <= q
    OBVIOUS
  <2>1. TypeOK /\ OrderInv
    BY DEF IInv
  <2>2. PICK first \in 1 .. nextToDeliver :
          /\ Taken \cup discarded = 1 .. first - 1
          /\ \A i \in DOMAIN inbox : inbox[i] = first + i - 1
    BY <2>1, InboxRun
  <2>3. p = first + 1 - 1 /\ first \in Int
    BY <1>1, <2>2
  <2>4. q \in Int /\ q >= 1 /\ q \notin 1 .. first - 1
    BY <2>2 DEF Waiting, Seqs
  <2> HIDE DEF p
  <2> QED BY <2>3, <2>4
<1> HIDE DEF p
<1>7. Channel!Receive(p)
  BY <1>2, <1>3, <1>5, <1>6 DEF Channel!Receive, Waiting
<1> QED BY <1>3, <1>7

\* and what ClearPacketQueue drops a Clear.
LEMMA ClearRefines ==
  ASSUME IInv, NEW bytes, Discard(bytes)
  PROVE  \E arrived \in SUBSET Waiting : Channel!Clear(arrived)
<1>1. /\ discarded' = discarded \cup InInbox /\ taken' = taken /\ nextSeq' = nextSeq
      /\ Seqs' = Seqs /\ Taken' = Taken
  BY DEF Discard, InInbox, sendVars, Seqs, Taken
<1>2. InInbox \subseteq Waiting /\ Waiting' = Waiting \ InInbox
  BY <1>1, InboxIsWaiting DEF Waiting
<1>3. Ordered => \A s \in InInbox, q \in Waiting \ InInbox : s < q
  <2> SUFFICES ASSUME Ordered, NEW s \in InInbox, NEW q \in Waiting \ InInbox PROVE s < q
    OBVIOUS
  <2>1. TypeOK /\ OrderInv
    BY DEF IInv
  <2>2. PICK first \in 1 .. nextToDeliver :
          /\ InInbox = first .. nextToDeliver - 1
          /\ Taken \cup discarded = 1 .. first - 1
    BY <2>1, InboxRun
  <2>3. q \in Int /\ q >= 1 /\ q \notin 1 .. first - 1 /\ q \notin first .. nextToDeliver - 1
        /\ s \in first .. nextToDeliver - 1 /\ first \in Int /\ nextToDeliver \in Int
    BY <2>1, <2>2 DEF Waiting, Seqs, TypeOK
  <2> QED BY <2>3
<1>4. Channel!Clear(InInbox)
  BY <1>1, <1>2, <1>3 DEF Channel!Clear, Waiting
<1> QED BY <1>2, <1>4

\* Retransmission, the wire representation of sequence numbers, selective
\* acknowledgements and backpressure add up to a reliable channel: SendPacket
\* is its Send, ReceivePacket its Receive, ClearPacketQueue its Clear, and
\* the datagram handlers and Pump are invisible.
THEOREM Implementation == Spec => RefinesChannel
<1>1. Init => Channel!Init
  <2> SUFFICES ASSUME Init PROVE Channel!Init
    OBVIOUS
  <2>1. Seqs = {} /\ nextSeq - 1 = 0 /\ taken = <<>>
    BY DEF Init, Seqs
  <2> QED BY <2>1 DEF Channel!Init
<1>2. IInv /\ [Next]_vars => [Channel!Next]_(Channel!vars)
  <2> SUFFICES ASSUME IInv, [Next]_vars PROVE Channel!Next \/ UNCHANGED Channel!vars
    OBVIOUS
  <2>1. CASE SendPacket
    BY <2>1, SendRefines DEF Channel!Next
  <2>2. CASE ReceivePacket
    BY <2>2, ReceiveRefines DEF Channel!Next, Waiting
  <2>3. CASE ClearWholeQueue \/ \E others \in 0 .. foreign : ClearPacketQueue(others)
    <3>1. PICK bytes : Discard(bytes)
      BY <2>3 DEF ClearWholeQueue, ClearPacketQueue
    <3> QED BY <3>1, ClearRefines DEF Channel!Next, Waiting
  <2>4. CASE \/ \E m \in dataNet : ReceiveData(m) \/ LoseData(m)
             \/ \E a \in ackNet : ReceiveAck(a) \/ LoseAck(a)
             \/ \E due \in SUBSET pending : Pump(due)
             \/ \E bytes \in QueueSizes : SetPacketQueueSize(bytes)
             \/ ForeignArrives \/ ForeignTaken \/ UNCHANGED vars
    <3>1. UNCHANGED <<nextSeq, taken, discarded>>
      BY <2>4 DEF ReceiveData, LoseData, ReceiveAck, LoseAck, Pump, SetPacketQueueSize,
           ForeignArrives, ForeignTaken, vars, sendVars, histVars
    <3> QED BY <3>1 DEF Channel!vars, Seqs, Taken
  <2> QED BY <2>1, <2>2, <2>3, <2>4 DEF Next
<1> QED BY <1>1, <1>2, Invariance, PTL DEF Spec, RefinesChannel, Channel!Spec
===========================================================================
