--------------------------- MODULE LobbyProofs ---------------------------
(***************************************************************************)
(* Proofs about the replication of a lobby, for any number of nodes, calls *)
(* and duplicated datagrams: Known_, MemberOf_ and Owned_ agree, a record  *)
(* stays well formed wherever it is copied to, and an owner changes its    *)
(* record only under a new version that it announces.                      *)
(*                                                                         *)
(* AuthorityIsBacked needs the form of every copy: the record a node takes *)
(* comes from an announce, which came from another node's table, which may *)
(* have come from a details handle.  That an owner's record changes only   *)
(* under a new version needs to know that nothing of a lobby exists before *)
(* it is created.                                                          *)
(***************************************************************************)
EXTENDS Lobby, DispatcherProofs

Proper ==
  {rec \in Record : IsInjective(rec.members) /\ rec.flagged \subseteq ToSet(rec.members)}

Kept == Proper \cup {NoLobby}

Sound(d) ==
  /\ d.to \in Nodes /\ d.msg \in Message
  /\ d.msg.type = "LobbyAnnounce" => d.msg.rec \in Proper

CopiesInv == known \in [Nodes -> Kept] /\ details \in [Nodes -> Kept]

BackedInv ==
  /\ memberOf \subseteq Nodes /\ owned \subseteq Nodes
  /\ \A n \in memberOf : known[n] \in Proper
  /\ \A n \in owned : known[n] \in Proper /\ known[n].owner = n

NetInv == \A d \in net : Sound(d)

BoundInv ==
  /\ created \in BOOLEAN /\ alive \subseteq Nodes
  /\ calls \in 0 .. MaxCalls /\ dups \in 0 .. MaxDuplicates

\* Before CreateLobby there is no copy of a record, and nothing to receive.
FreshInv ==
  ~created => /\ owned = {} /\ net = {}
              /\ \A n \in Nodes : known[n] = NoLobby /\ details[n] = NoLobby

IInv == CopiesInv /\ BackedInv /\ NetInv /\ BoundInv /\ FreshInv

---------------------------------------------------------------------------
(* Records.                                                                *)

\* Version 0 is no record, and every record is a later version.
LEMMA KeptIsProper ==
  ASSUME NEW rec \in Kept
  PROVE  (rec # NoLobby <=> rec \in Proper) /\ (rec.version > 0 <=> rec \in Proper)
<1>1. CASE rec = NoLobby
  <2>1. rec.version = 0
    BY <1>1 DEF NoLobby
  <2>2. rec \notin Proper
    BY <2>1 DEF Proper, Record
  <2> QED BY <1>1, <2>1, <2>2
<1>2. CASE rec \in Proper
  <2>1. rec.version \in Nat \ {0}
    BY <1>2 DEF Proper, Record
  <2>2. rec # NoLobby
    BY <2>1 DEF NoLobby
  <2> QED BY <1>2, <2>1, <2>2
<1> QED BY <1>1, <1>2 DEF Kept

\* A record whose members and their attributes are left alone stays well formed.
LEMMA ProperUpdates ==
  ASSUME NEW rec \in Proper, NEW p \in Nodes, NEW host \in Nodes \cup {NoNode}, NEW max \in Nat
  PROVE  /\ Bumped(rec) \in Proper /\ Bumped(rec).version = rec.version + 1
         /\ Bumped(rec).owner = rec.owner
         /\ OwnedBy(rec, p) \in Proper
         /\ [rec EXCEPT !.host = host] \in Proper
         /\ [rec EXCEPT !.host = host].host = host
         /\ [rec EXCEPT !.max = max] \in Proper
         /\ [rec EXCEPT !.max = max].owner = rec.owner
         /\ [rec EXCEPT !.max = max].version = rec.version
<1>0. rec \in Record /\ IsInjective(rec.members) /\ rec.flagged \subseteq ToSet(rec.members)
  BY DEF Proper
<1>1. /\ Bumped(rec) \in Proper /\ Bumped(rec).version = rec.version + 1
      /\ Bumped(rec).owner = rec.owner
  <2> DEFINE new == Bumped(rec)
  <2>1. /\ new \in Record /\ new.members = rec.members /\ new.flagged = rec.flagged
        /\ new.version = rec.version + 1 /\ new.owner = rec.owner
    BY <1>0 DEF Record, Bumped
  <2> HIDE DEF new
  <2>2. new \in Proper
    BY <1>0, <2>1 DEF Proper
  <2> QED BY <2>1, <2>2 DEF new
<1>2. OwnedBy(rec, p) \in Proper
  <2> DEFINE new == OwnedBy(rec, p)
  <2>1. new \in Record /\ new.members = rec.members /\ new.flagged = rec.flagged
    BY <1>0 DEF Record, OwnedBy
  <2> HIDE DEF new
  <2>2. new \in Proper
    BY <1>0, <2>1 DEF Proper
  <2> QED BY <2>2 DEF new
<1>3. [rec EXCEPT !.host = host] \in Proper /\ [rec EXCEPT !.host = host].host = host
  <2> DEFINE new == [rec EXCEPT !.host = host]
  <2>1. /\ new \in Record /\ new.members = rec.members /\ new.flagged = rec.flagged
        /\ new.host = host
    BY <1>0 DEF Record
  <2> HIDE DEF new
  <2>2. new \in Proper
    BY <1>0, <2>1 DEF Proper
  <2> QED BY <2>1, <2>2 DEF new
<1>4. /\ [rec EXCEPT !.max = max] \in Proper
      /\ [rec EXCEPT !.max = max].owner = rec.owner
      /\ [rec EXCEPT !.max = max].version = rec.version
  <2> DEFINE new == [rec EXCEPT !.max = max]
  <2>1. /\ new \in Record /\ new.members = rec.members /\ new.flagged = rec.flagged
        /\ new.owner = rec.owner /\ new.version = rec.version
    BY <1>0 DEF Record
  <2> HIDE DEF new
  <2>2. new \in Proper
    BY <1>0, <2>1 DEF Proper
  <2> QED BY <2>1, <2>2 DEF new
<1> QED BY <1>1, <1>2, <1>3, <1>4

\* Attributes are those of a member.
LEMMA ProperFlag ==
  ASSUME NEW rec \in Proper, NEW p \in Nodes, NEW on \in BOOLEAN
  PROVE  /\ WithFlag(rec, p, on) \in Proper
         /\ WithFlag(rec, p, on).owner = rec.owner
         /\ WithFlag(rec, p, on).version = rec.version
<1>0. rec \in Record /\ IsInjective(rec.members) /\ rec.flagged \subseteq ToSet(rec.members)
  BY DEF Proper
<1>1. CASE p \in ToSet(rec.members)
  <2> DEFINE flagged == IF on THEN rec.flagged \cup {p} ELSE rec.flagged \ {p}
             new == [rec EXCEPT !.flagged = flagged]
  <2>1. flagged \subseteq Nodes /\ flagged \subseteq ToSet(rec.members)
    BY <1>0, <1>1 DEF Record
  <2>2. WithFlag(rec, p, on) = new
    BY <1>1 DEF WithFlag, IsMember
  <2> HIDE DEF flagged
  <2>3. /\ new \in Record /\ new.members = rec.members /\ new.flagged = flagged
        /\ new.owner = rec.owner /\ new.version = rec.version
    BY <1>0, <2>1 DEF Record
  <2> HIDE DEF new
  <2>4. new \in Proper
    BY <1>0, <2>1, <2>3 DEF Proper
  <2> QED BY <2>2, <2>3, <2>4
<1>2. CASE p \notin ToSet(rec.members)
  BY <1>2 DEF WithFlag, IsMember
<1> QED BY <1>1, <1>2

\* Somebody who is not a member becomes the last one, without attributes.
LEMMA ProperAppend ==
  ASSUME NEW rec \in Proper, NEW p \in Nodes, ~IsMember(rec, p)
  PROVE  /\ [rec EXCEPT !.members = Append(@, p)] \in Proper
         /\ [rec EXCEPT !.members = Append(@, p)].owner = rec.owner
         /\ [rec EXCEPT !.members = Append(@, p)].version = rec.version
<1>0. /\ rec \in Record /\ rec.members \in Seq(Nodes)
      /\ IsInjective(rec.members) /\ rec.flagged \subseteq ToSet(rec.members)
  BY DEF Proper, Record
<1> DEFINE members == Append(rec.members, p)
           new == [rec EXCEPT !.members = members]
<1>1. members \in Seq(Nodes) /\ ToSet(members) = ToSet(rec.members) \cup {p}
  BY <1>0, AppendRoster
<1>2. IsInjective(members)
  BY <1>0, AppendInjectiveRoster DEF IsMember
<1> HIDE DEF members
<1>3. /\ new \in Record /\ new.members = members /\ new.flagged = rec.flagged
      /\ new.owner = rec.owner /\ new.version = rec.version
  BY <1>0, <1>1 DEF Record
<1> HIDE DEF new
<1>4. new \in Proper
  BY <1>0, <1>1, <1>2, <1>3 DEF Proper
<1> QED BY <1>3, <1>4 DEF new, members

\* Who joins a well-formed record leaves it well formed, with its owner.
LEMMA ProperJoin ==
  ASSUME NEW rec \in Proper, NEW p \in Nodes
  PROVE  /\ WithMember(rec, p) \in Proper /\ WithMember(rec, p).owner = rec.owner
         /\ IsMember(rec, p) => WithMember(rec, p) = rec
<1>1. CASE IsMember(rec, p)
  BY <1>1 DEF WithMember
<1>2. CASE ~IsMember(rec, p)
  BY <1>2, ProperAppend DEF WithMember
<1> QED BY <1>1, <1>2

\* A member goes with its attributes.
LEMMA ProperLeave ==
  ASSUME NEW rec \in Proper, NEW p \in Nodes
  PROVE  /\ WithoutMember(rec, p) \in Proper
         /\ WithoutMember(rec, p).owner = rec.owner
         /\ WithoutMember(rec, p).version = rec.version
<1>0. /\ rec \in Record /\ rec.members \in Seq(Nodes)
      /\ IsInjective(rec.members) /\ rec.flagged \subseteq ToSet(rec.members)
  BY DEF Proper, Record
<1>1. CASE IsMember(rec, p)
  <2> DEFINE i == CHOOSE i \in DOMAIN rec.members : rec.members[i] = p
             members == RemoveAt(rec.members, i)
             new == [rec EXCEPT !.members = members, !.flagged = rec.flagged \ {p}]
  <2>1. i \in DOMAIN rec.members /\ rec.members[i] = p
    BY <1>1 DEF IsMember, ToSet
  <2>2. WithoutMember(rec, p) = new
    BY <1>1 DEF WithoutMember
  <2> HIDE DEF i
  <2>3. /\ members \in Seq(Nodes) /\ IsInjective(members)
        /\ ToSet(members) = ToSet(rec.members) \ {p}
    BY <1>0, <2>1, RemoveAtPlaces, RemoveAtRoster
  <2> HIDE DEF members
  <2>4. /\ new \in Record /\ new.members = members /\ new.flagged = rec.flagged \ {p}
        /\ new.owner = rec.owner /\ new.version = rec.version
    BY <1>0, <2>3 DEF Record
  <2> HIDE DEF new
  <2>5. new \in Proper
    BY <1>0, <2>3, <2>4 DEF Proper
  <2> QED BY <2>2, <2>4, <2>5
<1>2. CASE ~IsMember(rec, p)
  BY <1>2 DEF WithoutMember
<1> QED BY <1>1, <1>2

---------------------------------------------------------------------------
(* Datagrams.                                                              *)

\* What a node announces is a copy of its record without the host endpoint.
LEMMA AnnounceSound ==
  ASSUME NEW n \in Nodes, NEW rec \in Proper, BoundInv, NEW d \in Broadcast(n, Announce(n, rec))
  PROVE  Sound(d)
<1> DEFINE new == [rec EXCEPT !.host = NoNode]
<1>1. new \in Proper /\ new.host = NoNode
  <2>1. \A p \in Nodes : new \in Proper /\ new.host = NoNode
    BY ProperUpdates, LobbyAssumption, 0 \in Nat
  <2> QED BY <2>1
<1>2. d.to \in Nodes /\ d.msg = [type |-> "LobbyAnnounce", from |-> n, rec |-> new]
  BY DEF Broadcast, Announce, BoundInv
<1> HIDE DEF new
<1>3. d.msg \in Message
  BY <1>1, <1>2 DEF Message, Proper
<1> QED BY <1>1, <1>2, <1>3 DEF Sound

\* A leave message claims nothing that could be false.
LEMMA LeaveSound ==
  ASSUME NEW n \in Nodes, NEW p \in Nodes, NEW status \in {"CLOSED", "LEFT", "KICKED"}, BoundInv,
         NEW d \in Broadcast(n, Leave(p, status))
  PROVE  Sound(d)
<1>1. d.to \in Nodes /\ d.msg = Leave(p, status)
  BY DEF Broadcast, BoundInv
<1>2. Leave(p, status) \in Message /\ Leave(p, status).type = "LobbyLeave"
  BY DEF Leave, Message
<1> QED BY <1>1, <1>2 DEF Sound

\* A member asks the owner, at the endpoint its record came from.
LEMMA AskSound ==
  ASSUME NEW rec \in Proper, NEW m, NEW p \in Nodes, NEW on \in BOOLEAN,
         m = JoinRequest(p) \/ m = Update(p, on), NEW d \in Unicast(rec.host, m)
  PROVE  Sound(d)
<1>1. m \in Message /\ m.type # "LobbyAnnounce"
  BY DEF JoinRequest, Update, Message
<1>2. d.to \in Nodes /\ d.msg = m
  BY DEF Unicast, Proper, Record
<1> QED BY <1>1, <1>2 DEF Sound

\* Only sound messages are sent, so that only sound ones are on their way.
LEMMA SendNet ==
  ASSUME NetInv, BoundInv, NEW out, Send(out), \A d \in out : Sound(d)
  PROVE  NetInv' /\ dups' \in 0 .. MaxDuplicates
<1>1. net' = net \cup out /\ dups' = dups
  BY DEF Send
<1>2. \A d \in net' : Sound(d)
  BY <1>1 DEF NetInv
<1> QED BY <1>1, <1>2 DEF NetInv, Sound, BoundInv

\* The same when one is received, answered, or delivered twice.
LEMMA ReceiveNet ==
  ASSUME NetInv, BoundInv, NEW d, NEW out, Receive(d, out), \A e \in out : Sound(e)
  PROVE  NetInv' /\ dups' \in 0 .. MaxDuplicates
<1>1. net' \subseteq net \cup out
  BY DEF Receive
<1>2. \A e \in net' : Sound(e)
  BY <1>1 DEF NetInv
<1>3. dups' \in 0 .. MaxDuplicates
  BY LobbyAssumption DEF Receive, BoundInv
<1> QED BY <1>2, <1>3 DEF NetInv, Sound

---------------------------------------------------------------------------
(* IInv is kept by every action.                                           *)

\* At first no process knows a lobby, and nothing is on its way.
LEMMA InitIInv == Init => IInv
<1> SUFFICES ASSUME Init PROVE IInv
  OBVIOUS
<1>1. NoLobby \in Kept
  BY DEF Kept
<1>2. CopiesInv
  BY <1>1 DEF Init, CopiesInv
<1>3. BackedInv /\ NetInv /\ FreshInv
  BY DEF Init, BackedInv, NetInv, FreshInv
<1>4. BoundInv
  <2>1. 0 \in 0 .. MaxCalls /\ 0 \in 0 .. MaxDuplicates
    BY LobbyAssumption
  <2> QED BY <2>1 DEF Init, BoundInv
<1> QED BY <1>2, <1>3, <1>4 DEF IInv

\* What the handlers and the calls share: a node replaces or erases its record,
\* and belongs to it or owns it only if that record says so.
LEMMA StoreIInv ==
  ASSUME IInv, NEW n \in Nodes, NEW rec \in Kept, Store(n, rec), details' = details,
         memberOf' \subseteq memberOf \cup {n}, n \in memberOf' => rec \in Proper,
         owned' \subseteq owned \cup {n}, n \in owned' => rec \in Proper /\ rec.owner = n,
         created', NetInv', BoundInv'
  PROVE  IInv'
<1>1. /\ known' \in [Nodes -> Kept] /\ known'[n] = rec
      /\ \A k \in Nodes \ {n} : known'[k] = known[k]
  BY DEF Store, IInv, CopiesInv
<1>2. CopiesInv'
  BY <1>1 DEF IInv, CopiesInv
<1>3. memberOf' \subseteq Nodes /\ owned' \subseteq Nodes
  BY DEF IInv, BackedInv
<1>4. ASSUME NEW k \in memberOf' PROVE known'[k] \in Proper
  BY <1>1, <1>3 DEF IInv, BackedInv
<1>5. ASSUME NEW k \in owned' PROVE known'[k] \in Proper /\ known'[k].owner = k
  BY <1>1, <1>3 DEF IInv, BackedInv
<1>6. BackedInv'
  BY <1>3, <1>4, <1>5 DEF BackedInv
<1> QED BY <1>2, <1>6 DEF IInv, FreshInv

\* A node that has a record, or is sent something, is past CreateLobby.
LEMMA PastCreation ==
  ASSUME IInv, NEW n \in Nodes,
         n \in owned \/ known[n] # NoLobby \/ details[n] # NoLobby \/ net # {}
  PROVE  created
  BY DEF IInv, FreshInv

\* A call of the game is counted.
LEMMA CallBound ==
  ASSUME BoundInv, NEW n \in Nodes, Call(n), dups' \in 0 .. MaxDuplicates,
         created' \in BOOLEAN, alive' \subseteq alive
  PROVE  BoundInv'
  BY LobbyAssumption DEF BoundInv, Call

\* A lobby begins with its creator as owner and only member.
LEMMA CreateLobbyIInv ==
  ASSUME IInv, NEW n \in Nodes, NEW max \in Sizes, NEW migrates \in BOOLEAN,
         CreateLobby(n, max, migrates)
  PROVE  IInv'
<1> DEFINE rec == [version |-> 1, owner |-> n, members |-> <<n>>, flagged |-> {},
                   max |-> max, migrates |-> migrates, host |-> NoNode]
<1>1. rec \in Proper /\ rec.owner = n
  <2>1. <<n>> \in Seq(Nodes) /\ IsInjective(<<n>>)
    BY DEF IsInjective
  <2>2. rec \in Record
    BY <2>1, LobbyAssumption DEF Record
  <2> QED BY <2>1, <2>2 DEF Proper
<1>2. /\ Store(n, rec) /\ Send(Broadcast(n, Announce(n, rec))) /\ Call(n) /\ created' = TRUE
      /\ memberOf' = memberOf \cup {n} /\ owned' = owned \cup {n}
      /\ details' = details /\ alive' = alive
  BY DEF CreateLobby
<1> HIDE DEF rec
<1>3. NetInv' /\ dups' \in 0 .. MaxDuplicates
  BY <1>1, <1>2, AnnounceSound, SendNet DEF IInv
<1>4. BoundInv'
  BY <1>2, <1>3, CallBound DEF IInv
<1> QED BY <1>1, <1>2, <1>3, <1>4, StoreIInv DEF Kept

\* The owner changes the record and announces the next version.
LEMMA AsOwnerIInv ==
  ASSUME IInv, NEW n \in owned, NEW rec \in Proper, rec.owner = n, Store(n, rec),
         UNCHANGED <<created, memberOf, owned, details>>, NetInv', BoundInv'
  PROVE  IInv'
<1>1. n \in Nodes
  BY DEF IInv, BackedInv
<1>2. created'
  BY <1>1, PastCreation DEF IInv
<1> QED BY <1>1, <1>2, StoreIInv DEF Kept

\* What holds of the record of an owner.
LEMMA OwnersRecord ==
  ASSUME IInv, NEW n \in owned
  PROVE  n \in Nodes /\ known[n] \in Proper /\ known[n].owner = n /\ known[n].version \in Nat
  BY DEF IInv, BackedInv, Proper, Record

\* The record after UpdateLobby by the owner.
LEMMA OwnersUpdate ==
  ASSUME IInv, NEW n \in owned, NEW max \in Sizes, NEW on \in BOOLEAN, NEW rec,
         rec = Bumped(WithFlag([known[n] EXCEPT !.max = max], n, on))
  PROVE  rec \in Proper /\ rec.owner = n /\ rec.version = known[n].version + 1
<1> DEFINE sized == [known[n] EXCEPT !.max = max]
           flagged == WithFlag(sized, n, on)
<1>1. n \in Nodes /\ known[n] \in Proper /\ known[n].owner = n /\ max \in Nat
  BY OwnersRecord, LobbyAssumption
<1>2. sized \in Proper /\ sized.owner = n /\ sized.version = known[n].version
  BY <1>1, ProperUpdates
<1> HIDE DEF sized
<1>3. flagged \in Proper /\ flagged.owner = n /\ flagged.version = known[n].version
  BY <1>1, <1>2, ProperFlag
<1>4. rec = Bumped(flagged)
  BY DEF sized
<1> HIDE DEF flagged
<1> QED BY <1>1, <1>3, <1>4, ProperUpdates

\* UpdateLobby of the owner: the changed record is announced, one version up.
LEMMA UpdateAsOwnerIInv ==
  ASSUME IInv, NEW n \in Nodes, NEW max \in Sizes, NEW on \in BOOLEAN, UpdateAsOwner(n, max, on)
  PROVE  IInv'
<1> DEFINE rec == Bumped(WithFlag([known[n] EXCEPT !.max = max], n, on))
<1>1. /\ n \in owned /\ Call(n) /\ Store(n, rec) /\ Send(Broadcast(n, Announce(n, rec)))
      /\ UNCHANGED <<created, memberOf, owned, details, alive>>
  BY DEF UpdateAsOwner
<1>2. rec \in Proper /\ rec.owner = n
  BY <1>1, OwnersUpdate
<1> HIDE DEF rec
<1>3. NetInv' /\ dups' \in 0 .. MaxDuplicates
  BY <1>1, <1>2, AnnounceSound, SendNet DEF IInv
<1>4. BoundInv'
  BY <1>1, <1>3, CallBound DEF IInv, BoundInv
<1> QED BY <1>1, <1>2, <1>3, <1>4, AsOwnerIInv

\* A member changes its own attributes in its own copy and asks the owner to.
LEMMA UpdateAsMemberIInv ==
  ASSUME IInv, NEW n \in Nodes, NEW on \in BOOLEAN, UpdateAsMember(n, on)
  PROVE  IInv'
<1> DEFINE rec == WithFlag(known[n], n, on)
           m == Update(n, on)
<1>1. /\ n \in memberOf /\ n \notin owned /\ Call(n) /\ Store(n, rec)
      /\ Send(Unicast(known[n].host, m))
      /\ UNCHANGED <<created, memberOf, owned, details, alive>>
  BY DEF UpdateAsMember
<1>2. known[n] \in Proper
  BY <1>1 DEF IInv, BackedInv
<1>3. rec \in Proper
  BY <1>2, ProperFlag
<1>4. created
  BY <1>2, KeptIsProper, PastCreation DEF IInv, CopiesInv
<1> HIDE DEF rec
<1>5. \A d \in Unicast(known[n].host, m) : Sound(d)
  BY <1>2, AskSound
<1> HIDE DEF m
<1>6. NetInv' /\ dups' \in 0 .. MaxDuplicates
  BY <1>1, <1>5, SendNet DEF IInv
<1>7. BoundInv'
  BY <1>1, <1>6, CallBound DEF IInv, BoundInv
<1> QED BY <1>1, <1>3, <1>4, <1>6, <1>7, StoreIInv DEF Kept

\* The record is erased, with MemberOf_ and Owned_.
LEMMA EraseIInv ==
  ASSUME IInv, NEW n \in Nodes, Store(n, NoLobby), memberOf' = memberOf \ {n},
         owned' = owned \ {n}, details' = details, created', NetInv', BoundInv'
  PROVE  IInv'
  BY StoreIInv DEF Kept

\* DestroyLobby: the owner forgets the lobby and tells the others.
LEMMA DestroyLobbyIInv ==
  ASSUME IInv, NEW n \in Nodes, DestroyLobby(n)
  PROVE  IInv'
<1>1. /\ n \in owned /\ Call(n) /\ Store(n, NoLobby) /\ Send(Broadcast(n, Leave(n, "CLOSED")))
      /\ memberOf' = memberOf \ {n} /\ owned' = owned \ {n}
      /\ UNCHANGED <<created, details, alive>>
  BY DEF DestroyLobby
<1>2. NetInv' /\ dups' \in 0 .. MaxDuplicates
  BY <1>1, LeaveSound, SendNet DEF IInv
<1>3. BoundInv' /\ created'
  BY <1>1, <1>2, CallBound, PastCreation DEF IInv, BoundInv
<1> QED BY <1>1, <1>2, <1>3, EraseIInv

\* The game takes a copy of a record that the node knows.
LEMMA CopyDetailsIInv ==
  ASSUME IInv, NEW n \in Nodes, CopyDetails(n)
  PROVE  IInv'
<1>1. known[n] \in Kept
  BY DEF IInv, CopiesInv
<1>2. known[n] # NoLobby
  BY DEF CopyDetails, Knows, NoLobby
<1>3. details' \in [Nodes -> Kept]
  BY <1>1 DEF CopyDetails, IInv, CopiesInv
<1>4. created
  BY <1>2, PastCreation
<1> QED BY <1>3, <1>4 DEF CopyDetails, nodeVars, IInv, CopiesInv, BackedInv, NetInv, BoundInv,
    FreshInv

\* What both ways to join share: the node is a member of the record it keeps
\* from then on, and asks the owner to add it.
LEMMA JoinIInv ==
  ASSUME IInv, NEW n \in Nodes, NEW base \in Proper, NEW asked \in Proper,
         n \in owned => base = known[n], created,
         Call(n), Store(n, WithMember(base, n)), memberOf' = memberOf \cup {n},
         Send(Unicast(asked.host, JoinRequest(n))), UNCHANGED <<created, owned, details, alive>>
  PROVE  IInv'
<1> DEFINE rec == WithMember(base, n)
           m == JoinRequest(n)
<1>1. rec \in Proper /\ rec.owner = base.owner
  BY ProperJoin
<1>2. \A d \in Unicast(asked.host, m) : Sound(d)
  <2>1. \A on \in BOOLEAN : \A d \in Unicast(asked.host, m) : Sound(d)
    BY AskSound
  <2> QED BY <2>1
<1> HIDE DEF rec, m
<1>3. NetInv' /\ dups' \in 0 .. MaxDuplicates
  BY <1>2, SendNet DEF IInv, m
<1>4. BoundInv'
  BY <1>3, CallBound DEF IInv, BoundInv
<1>5. n \in owned => rec.owner = n
  BY <1>1, OwnersRecord
<1> QED BY <1>1, <1>3, <1>4, <1>5, StoreIInv DEF Kept, rec

\* JoinLobby: the joiner adds itself to its copy before the owner has agreed.
LEMMA JoinLobbyIInv ==
  ASSUME IInv, NEW n \in Nodes, JoinLobby(n)
  PROVE  IInv'
<1> DEFINE base == IF Knows(n) THEN known[n] ELSE details[n]
<1>1. known[n] \in Kept /\ details[n] \in Proper
  BY KeptIsProper DEF JoinLobby, IInv, CopiesInv
<1>2. base \in Proper
  BY <1>1, KeptIsProper DEF Knows
<1>3. n \in owned => base = known[n]
  BY OwnersRecord, KeptIsProper DEF Knows, Kept
<1>4. created
  BY PastCreation DEF JoinLobby
<1> HIDE DEF base
<1> QED BY <1>1, <1>2, <1>3, <1>4, JoinIInv DEF JoinLobby, base

\* JoinLobbyById: the joiner adds itself to the copy it knows, and asks its host.
LEMMA JoinLobbyByIdIInv ==
  ASSUME IInv, NEW n \in Nodes, JoinLobbyById(n)
  PROVE  IInv'
<1>1. known[n] \in Proper
  BY KeptIsProper DEF JoinLobbyById, Knows, IInv, CopiesInv
<1>2. created
  BY <1>1, KeptIsProper, PastCreation DEF Kept
<1> QED BY <1>1, <1>2, JoinIInv DEF JoinLobbyById

\* The record of an owner that leaves goes to the first member that remains.
LEMMA LeaveLobbyIInv ==
  ASSUME IInv, NEW n \in Nodes, LeaveLobby(n)
  PROVE  IInv'
<1> DEFINE rest == WithoutMember(known[n], n)
           migrate == n \in owned /\ rest.migrates /\ rest.members # <<>>
           handed == Bumped(OwnedBy(rest, Head(rest.members)))
           rec == IF migrate THEN handed ELSE NoLobby
           out == Broadcast(n, Leave(n, "LEFT"))
                    \cup IF migrate THEN Broadcast(n, Announce(n, handed)) ELSE {}
<1>1. /\ n \in memberOf /\ Call(n) /\ Store(n, rec) /\ Send(out)
      /\ memberOf' = memberOf \ {n} /\ owned' = owned \ {n}
      /\ UNCHANGED <<created, details, alive>>
  BY DEF LeaveLobby
<1>2. known[n] \in Proper
  BY <1>1 DEF IInv, BackedInv
<1>3. rest \in Proper
  BY <1>2, ProperLeave
<1> HIDE DEF rest
<1>4. migrate => handed \in Proper
  <2> SUFFICES ASSUME migrate PROVE handed \in Proper
    OBVIOUS
  <2>1. rest.members \in Seq(Nodes) /\ rest.members # <<>>
    BY <1>3 DEF Proper, Record
  <2>2. Head(rest.members) \in Nodes
    BY <2>1, HeadTailProperties
  <2>3. \A p \in Nodes : OwnedBy(rest, p) \in Proper
    BY <1>3, ProperUpdates, 0 \in Nat
  <2>4. \A r \in Proper : Bumped(r) \in Proper
    BY ProperUpdates, 0 \in Nat, <1>1
  <2> QED BY <2>2, <2>3, <2>4
<1> HIDE DEF handed
<1>5. \A d \in out : Sound(d)
  BY <1>4, AnnounceSound, LeaveSound DEF IInv
<1>6. rec \in Kept
  BY <1>4 DEF Kept
<1> HIDE DEF out, rec
<1>7. NetInv' /\ dups' \in 0 .. MaxDuplicates
  BY <1>1, <1>5, SendNet DEF IInv
<1>8. BoundInv' /\ created'
  BY <1>1, <1>2, <1>7, CallBound, KeptIsProper, PastCreation DEF IInv, BoundInv, Kept
<1> QED BY <1>1, <1>6, <1>7, <1>8, StoreIInv

\* The owner names another, and is the owner no longer.
LEMMA PromoteMemberIInv ==
  ASSUME IInv, NEW n \in Nodes, NEW p \in Nodes, PromoteMember(n, p)
  PROVE  IInv'
<1> DEFINE rec == Bumped(OwnedBy(known[n], p))
<1>1. /\ n \in owned /\ Call(n) /\ Store(n, rec) /\ Send(Broadcast(n, Announce(n, rec)))
      /\ owned' = owned \ {n} /\ UNCHANGED <<created, memberOf, details, alive>>
  BY DEF PromoteMember
<1>2. known[n] \in Proper
  BY <1>1, OwnersRecord
<1>3. OwnedBy(known[n], p) \in Proper
  BY <1>2, ProperUpdates, 0 \in Nat
<1>4. rec \in Proper
  BY <1>3, ProperUpdates, 0 \in Nat
<1> HIDE DEF rec
<1>5. NetInv' /\ dups' \in 0 .. MaxDuplicates
  BY <1>1, <1>4, AnnounceSound, SendNet DEF IInv
<1>6. BoundInv' /\ created'
  BY <1>1, <1>5, CallBound, PastCreation DEF IInv, BoundInv
<1> QED BY <1>1, <1>4, <1>5, <1>6, StoreIInv DEF Kept

\* The record after KickMember, and after a member left.
LEMMA OwnersRemoval ==
  ASSUME IInv, NEW n \in owned, NEW p \in Nodes, NEW rec, rec = Bumped(WithoutMember(known[n], p))
  PROVE  rec \in Proper /\ rec.owner = n /\ rec.version = known[n].version + 1
<1> DEFINE rest == WithoutMember(known[n], p)
<1>1. rest \in Proper /\ rest.owner = n /\ rest.version = known[n].version
  BY OwnersRecord, ProperLeave
<1>2. rec = Bumped(rest)
  OBVIOUS
<1> HIDE DEF rest
<1>3. \A r \in Proper : /\ Bumped(r) \in Proper /\ Bumped(r).owner = r.owner
                        /\ Bumped(r).version = r.version + 1
  BY OwnersRecord, ProperUpdates, 0 \in Nat
<1> QED BY <1>1, <1>2, <1>3

\* KickMember: the owner announces a record without the member.
LEMMA KickMemberIInv ==
  ASSUME IInv, NEW n \in Nodes, NEW p \in Nodes, KickMember(n, p)
  PROVE  IInv'
<1> DEFINE rec == Bumped(WithoutMember(known[n], p))
           out == Broadcast(n, Leave(p, "KICKED")) \cup Broadcast(n, Announce(n, rec))
<1>1. /\ n \in owned /\ Call(n) /\ Store(n, rec) /\ Send(out)
      /\ UNCHANGED <<created, memberOf, owned, details, alive>>
  BY DEF KickMember
<1>2. rec \in Proper /\ rec.owner = n
  BY <1>1, OwnersRemoval
<1> HIDE DEF rec
<1>3. \A d \in out : Sound(d)
  BY <1>2, AnnounceSound, LeaveSound DEF IInv
<1> HIDE DEF out
<1>4. NetInv' /\ dups' \in 0 .. MaxDuplicates
  BY <1>1, <1>3, SendNet DEF IInv
<1>5. BoundInv'
  BY <1>1, <1>4, CallBound DEF IInv, BoundInv
<1> QED BY <1>1, <1>2, <1>4, <1>5, AsOwnerIInv

\* PeriodicAnnounce: the owner repeats its record, which is its latest.
LEMMA PeriodicAnnounceIInv ==
  ASSUME IInv, NEW n \in Nodes, PeriodicAnnounce(n)
  PROVE  IInv'
<1> DEFINE out == Broadcast(n, Announce(n, known[n]))
<1>1. /\ n \in owned /\ Send(out) /\ UNCHANGED <<created, nodeVars, details, alive, calls>>
  BY DEF PeriodicAnnounce
<1>2. \A d \in out : Sound(d)
  BY <1>1, OwnersRecord, AnnounceSound DEF IInv
<1> HIDE DEF out
<1>3. NetInv' /\ dups' \in 0 .. MaxDuplicates
  BY <1>1, <1>2, SendNet DEF IInv
<1>4. created
  BY <1>1, PastCreation
<1> QED BY <1>1, <1>3, <1>4 DEF nodeVars, IInv, CopiesInv, BackedInv, BoundInv, FreshInv

\* A process that ends leaves only what it has sent to others.
LEMMA ExitIInv ==
  ASSUME IInv, NEW n \in Nodes, Exit(n)
  PROVE  IInv'
<1>1. NoLobby \in Kept
  BY DEF Kept
<1>2. /\ known' = [known EXCEPT ![n] = NoLobby] /\ details' = [details EXCEPT ![n] = NoLobby]
      /\ memberOf' = memberOf \ {n} /\ owned' = owned \ {n} /\ net' \subseteq net
      /\ Call(n) /\ alive' \subseteq alive /\ UNCHANGED <<created, dups>>
  BY DEF Exit, Store
<1>3. CopiesInv'
  BY <1>1, <1>2 DEF IInv, CopiesInv
<1>4. BackedInv'
  BY <1>2 DEF IInv, CopiesInv, BackedInv
<1>5. NetInv'
  BY <1>2 DEF IInv, NetInv, Sound
<1>6. BoundInv'
  BY <1>2, CallBound DEF IInv, BoundInv
<1>7. FreshInv'
  BY <1>2 DEF IInv, CopiesInv, FreshInv
<1> QED BY <1>3, <1>4, <1>5, <1>6, <1>7 DEF IInv

---------------------------------------------------------------------------
(* Handlers.                                                               *)

\* A node that is not the owner takes the record it hears, and becomes the owner
\* when that record names it and it is a member.
LEMMA OnAnnounceIInv ==
  ASSUME IInv, NEW d \in net, d.to \in Nodes, OnAnnounce(d.to, d), created', details' = details,
         BoundInv'
  PROVE  IInv'
<1> DEFINE n == d.to
           fresh == [d.msg.rec EXCEPT !.host = d.msg.from]
<1>1. d.msg.type = "LobbyAnnounce" /\ Receive(d, {})
  BY DEF OnAnnounce
<1>2. d.msg \in Message /\ d.msg.rec \in Proper
  BY <1>1 DEF IInv, NetInv, Sound
<1>3. d.msg.from \in Nodes
  BY <1>1, <1>2 DEF Message
<1>4. fresh \in Proper
  BY <1>2, <1>3, ProperUpdates, 0 \in Nat
<1>5. NetInv'
  BY <1>1, ReceiveNet DEF IInv
<1>6. CASE n \in owned
  <2>1. UNCHANGED nodeVars
    BY <1>6 DEF OnAnnounce, Takes
  <2> QED BY <1>5, <2>1 DEF nodeVars, IInv, CopiesInv, BackedInv, FreshInv
<1>7. CASE n \notin owned
  <2>1. /\ Store(n, fresh) /\ memberOf' = memberOf
        /\ owned' = IF n \in memberOf /\ fresh.owner = n THEN owned \cup {n} ELSE owned
    BY <1>7 DEF OnAnnounce, Takes
  <2> HIDE DEF fresh
  <2> QED BY <1>4, <1>5, <1>7, <2>1, StoreIInv DEF Kept
<1> QED BY <1>6, <1>7

\* The record after an update or a join request.
LEMMA OwnersUpdateOfMember ==
  ASSUME IInv, NEW n \in owned, NEW p \in Nodes, NEW on \in BOOLEAN, NEW rec,
         rec = Bumped(WithFlag(known[n], p, on))
  PROVE  rec \in Proper /\ rec.owner = n /\ rec.version = known[n].version + 1
<1> DEFINE flagged == WithFlag(known[n], p, on)
<1>1. flagged \in Proper /\ flagged.owner = n /\ flagged.version = known[n].version
  BY OwnersRecord, ProperFlag
<1>2. rec = Bumped(flagged)
  OBVIOUS
<1> HIDE DEF flagged
<1>3. \A r \in Proper : /\ Bumped(r) \in Proper /\ Bumped(r).owner = r.owner
                        /\ Bumped(r).version = r.version + 1
  BY OwnersRecord, ProperUpdates, 0 \in Nat
<1> QED BY <1>1, <1>2, <1>3

\* What the owner makes of its record when it admits a member.
LEMMA OwnersAdmission ==
  ASSUME IInv, NEW n \in owned, NEW p \in Nodes, ~IsMember(known[n], p), NEW rec,
         rec = Admitted(known[n], p)
  PROVE  rec \in Proper /\ rec.owner = n /\ rec.version = known[n].version + 1
<1> DEFINE larger == [known[n] EXCEPT !.members = Append(@, p)]
<1>1. larger \in Proper /\ larger.owner = n /\ larger.version = known[n].version
  BY OwnersRecord, ProperAppend
<1>2. rec = Bumped(larger)
  BY DEF Admitted
<1> HIDE DEF larger
<1>3. \A r \in Proper : /\ Bumped(r) \in Proper /\ Bumped(r).owner = r.owner
                        /\ Bumped(r).version = r.version + 1
  BY OwnersRecord, ProperUpdates, 0 \in Nat
<1> QED BY <1>1, <1>2, <1>3

\* The owner answers a datagram with the next version of its record.
LEMMA AnsweredIInv ==
  ASSUME IInv, NEW d, NEW n \in owned, NEW rec \in Proper, rec.owner = n, Store(n, rec),
         Receive(d, Broadcast(n, Announce(n, rec))), UNCHANGED <<created, memberOf, owned, details>>,
         dups' \in 0 .. MaxDuplicates => BoundInv'
  PROVE  IInv'
<1> DEFINE out == Broadcast(n, Announce(n, rec))
<1>1. \A e \in out : Sound(e)
  BY OwnersRecord, AnnounceSound DEF IInv
<1> HIDE DEF out
<1>2. NetInv' /\ dups' \in 0 .. MaxDuplicates
  BY <1>1, ReceiveNet DEF IInv, out
<1> QED BY <1>2, AsOwnerIInv

\* A datagram that changes nothing here.
LEMMA IgnoredIInv ==
  ASSUME IInv, NEW d, UNCHANGED <<created, nodeVars, details>>, Receive(d, {}), created,
         dups' \in 0 .. MaxDuplicates => BoundInv'
  PROVE  IInv'
<1>1. NetInv' /\ dups' \in 0 .. MaxDuplicates
  BY ReceiveNet DEF IInv
<1> QED BY <1>1 DEF nodeVars, IInv, CopiesInv, BackedInv, FreshInv

\* An update or a join request: the owner answers with the next version.
LEMMA OnRequestIInv ==
  ASSUME IInv, NEW d \in net, d.to \in Nodes, OnUpdate(d.to, d) \/ OnJoinRequest(d.to, d),
         UNCHANGED <<created, details>>, created,
         dups' \in 0 .. MaxDuplicates => BoundInv'
  PROVE  IInv'
<1> DEFINE n == d.to
<1>0. d.msg \in Message
  BY DEF IInv, NetInv, Sound
<1>1. CASE OnUpdate(n, d)
  <2> DEFINE rec == Bumped(WithFlag(known[n], d.msg.member, d.msg.on))
  <2>1. d.msg.member \in Nodes /\ d.msg.on \in BOOLEAN
    BY <1>0, <1>1 DEF OnUpdate, Message
  <2>2. n \in owned => rec \in Proper /\ rec.owner = n
    BY <2>1, OwnersUpdateOfMember
  <2>3. \/ /\ n \in owned /\ Store(n, rec) /\ Receive(d, Broadcast(n, Announce(n, rec)))
           /\ UNCHANGED <<memberOf, owned>>
        \/ UNCHANGED nodeVars /\ Receive(d, {})
    BY <1>1 DEF OnUpdate, nodeVars
  <2> HIDE DEF rec
  <2> QED BY <2>2, <2>3, AnsweredIInv, IgnoredIInv
<1>2. CASE OnJoinRequest(n, d)
  <2> DEFINE rec == Admitted(known[n], d.msg.joiner)
  <2>1. d.msg.joiner \in Nodes
    BY <1>0, <1>2 DEF OnJoinRequest, Message
  <2>2. n \in owned /\ ~IsMember(known[n], d.msg.joiner) => rec \in Proper /\ rec.owner = n
    BY <2>1, OwnersAdmission
  <2>3. \/ /\ n \in owned /\ ~IsMember(known[n], d.msg.joiner)
           /\ Store(n, rec) /\ Receive(d, Broadcast(n, Announce(n, rec)))
           /\ UNCHANGED <<memberOf, owned>>
        \/ UNCHANGED nodeVars /\ Receive(d, {})
    BY <1>2 DEF OnJoinRequest, Admits, nodeVars
  <2> HIDE DEF rec
  <2> QED BY <2>2, <2>3, AnsweredIInv, IgnoredIInv
<1> QED BY <1>1, <1>2

\* A close: the receiver forgets the lobby.
LEMMA OnClosedIInv ==
  ASSUME IInv, NEW d \in net, d.to \in Nodes, OnClosed(d.to, d), UNCHANGED <<created, details>>,
         created, dups' \in 0 .. MaxDuplicates => BoundInv'
  PROVE  IInv'
<1>1. Receive(d, {})
  BY DEF OnClosed
<1>2. CASE UNCHANGED nodeVars
  BY <1>1, <1>2, IgnoredIInv
<1>3. CASE /\ Store(d.to, NoLobby) /\ memberOf' = memberOf \ {d.to} /\ owned' = owned \ {d.to}
  <2>1. NetInv' /\ dups' \in 0 .. MaxDuplicates
    BY <1>1, ReceiveNet DEF IInv
  <2> QED BY <1>3, <2>1, EraseIInv
<1> QED BY <1>2, <1>3 DEF OnClosed

\* The subject of a leave goes from the record; the owner announces that.
LEMMA OnLeaveIInv ==
  ASSUME IInv, NEW d \in net, d.to \in Nodes, OnLeave(d.to, d), UNCHANGED <<created, details>>,
         created, dups' \in 0 .. MaxDuplicates => BoundInv'
  PROVE  IInv'
<1> DEFINE n == d.to
           p == d.msg.subject
           rest == WithoutMember(known[n], p)
           rec == IF n \in owned THEN Bumped(rest) ELSE rest
           out == IF n \in owned THEN Broadcast(n, Announce(n, rec)) ELSE {}
<1>0. p \in Nodes
  <2>1. d.msg \in Message /\ d.msg.type = "LobbyLeave"
    BY DEF OnLeave, IInv, NetInv, Sound
  <2> QED BY <2>1 DEF Message
<1>1. CASE ~Knows(n)
  BY <1>1, IgnoredIInv DEF OnLeave, nodeVars
<1>2. CASE Knows(n)
  <2>1. known[n] \in Proper
    BY <1>2, KeptIsProper DEF Knows, IInv, CopiesInv
  <2>2. rest \in Proper
    BY <1>0, <2>1, ProperLeave
  <2>3. n \in owned => Bumped(rest) \in Proper /\ Bumped(rest).owner = n
    BY <1>0, OwnersRemoval
  <2>4. rec \in Proper /\ (n \in owned => rec.owner = n)
    BY <2>2, <2>3
  <2>5. /\ Store(n, rec) /\ Receive(d, out) /\ memberOf' \subseteq memberOf /\ owned' = owned
    BY <1>2 DEF OnLeave
  <2> HIDE DEF rec
  <2>6. \A e \in out : Sound(e)
    BY <2>4, AnnounceSound DEF IInv
  <2> HIDE DEF out
  <2>7. NetInv' /\ dups' \in 0 .. MaxDuplicates
    BY <2>5, <2>6, ReceiveNet DEF IInv
  <2> QED BY <2>4, <2>5, <2>7, StoreIInv DEF Kept
<1> QED BY <1>1, <1>2

\* OnDatagram, whatever the message.
LEMMA OnDatagramIInv ==
  ASSUME IInv, NEW d \in net, OnDatagram(d)
  PROVE  IInv'
<1>1. d.to \in Nodes /\ created
  BY PastCreation DEF IInv, NetInv, Sound
<1>2. UNCHANGED <<created, details, alive, calls>>
  BY DEF OnDatagram
<1>3. dups' \in 0 .. MaxDuplicates => BoundInv'
  BY <1>2 DEF IInv, BoundInv
<1>4. CASE OnAnnounce(d.to, d)
  <2>1. BoundInv'
    BY <1>3, <1>4, ReceiveNet DEF OnAnnounce, IInv
  <2> QED BY <1>1, <1>2, <1>4, <2>1, OnAnnounceIInv
<1>5. CASE OnUpdate(d.to, d) \/ OnJoinRequest(d.to, d)
  BY <1>1, <1>2, <1>3, <1>5, OnRequestIInv
<1>6. CASE OnClosed(d.to, d)
  BY <1>1, <1>2, <1>3, <1>6, OnClosedIInv
<1>7. CASE OnLeave(d.to, d)
  BY <1>1, <1>2, <1>3, <1>7, OnLeaveIInv
<1> QED BY <1>4, <1>5, <1>6, <1>7 DEF OnDatagram

\* A message is lost, or nothing happens.
LEMMA QuietIInv ==
  ASSUME IInv, UNCHANGED <<created, nodeVars, details, alive, calls, dups>>, net' \subseteq net
  PROVE  IInv'
<1>1. NetInv'
  BY DEF IInv, NetInv, Sound
<1>2. FreshInv'
  BY DEF nodeVars, IInv, FreshInv
<1> QED BY <1>1, <1>2 DEF nodeVars, IInv, CopiesInv, BackedInv, BoundInv

\* Every call, every handler and the network keep IInv.
LEMMA NextIInv == IInv /\ [Next]_vars => IInv'
<1> SUFFICES ASSUME IInv, [Next]_vars PROVE IInv'
  OBVIOUS
<1>1. ASSUME NEW n \in Nodes, Step(n) PROVE IInv'
  <2>1. CASE \E max \in Sizes, yes \in BOOLEAN :
               CreateLobby(n, max, yes) \/ UpdateAsOwner(n, max, yes)
    BY <2>1, CreateLobbyIInv, UpdateAsOwnerIInv
  <2>2. CASE \E on \in BOOLEAN : UpdateAsMember(n, on)
    BY <2>2, UpdateAsMemberIInv
  <2>3. CASE \/ DestroyLobby(n) \/ CopyDetails(n) \/ JoinLobby(n) \/ JoinLobbyById(n)
             \/ LeaveLobby(n)
    BY <2>3, DestroyLobbyIInv, CopyDetailsIInv, JoinLobbyIInv, JoinLobbyByIdIInv, LeaveLobbyIInv
  <2>4. CASE \E p \in Nodes : PromoteMember(n, p) \/ KickMember(n, p)
    BY <2>4, PromoteMemberIInv, KickMemberIInv
  <2>5. CASE PeriodicAnnounce(n) \/ Exit(n)
    BY <2>5, PeriodicAnnounceIInv, ExitIInv
  <2> QED BY <1>1, <2>1, <2>2, <2>3, <2>4, <2>5 DEF Step
<1>2. ASSUME NEW d \in net, OnDatagram(d) PROVE IInv'
  BY <1>2, OnDatagramIInv
<1>3. ASSUME NEW d \in net, Lose(d) PROVE IInv'
  BY <1>3, QuietIInv DEF Lose
<1>4. CASE UNCHANGED vars
  BY <1>4, QuietIInv DEF vars
<1> QED BY <1>1, <1>2, <1>3, <1>4 DEF Next

---------------------------------------------------------------------------
(* What a step may do to the record of an owner.                           *)

\* What ChangeIsAnnounced says of one owner in one step.
Announced(n) ==
  n \in owned' /\ known'[n] # known[n] /\ IsMember(known[n], n) =>
    /\ known'[n].version > known[n].version
    /\ Broadcast(n, Announce(n, known'[n])) \subseteq net'

\* A record that is stored one version up and sent to all is announced.
LEMMA NextVersionAnnounced ==
  ASSUME IInv, NEW n \in owned, NEW rec, Store(n, rec), rec.version = known[n].version + 1,
         Broadcast(n, Announce(n, rec)) \subseteq net'
  PROVE  Announced(n)
<1>1. n \in Nodes /\ known'[n] = rec
  BY DEF Store, IInv, CopiesInv, BackedInv
<1>2. known[n].version \in Nat
  BY OwnersRecord
<1>3. rec.version > known[n].version
  BY <1>2
<1> QED BY <1>1, <1>3 DEF Announced

\* A call of the owner itself.
LEMMA OwnersCallAnnounced ==
  ASSUME IInv, NEW n \in owned, Step(n)
  PROVE  Announced(n)
<1>0. n \in Nodes /\ known[n] \in Proper
  BY OwnersRecord
<1>1. ASSUME NEW max \in Sizes, NEW migrates \in BOOLEAN, CreateLobby(n, max, migrates)
      PROVE  Announced(n)
  BY <1>1 DEF CreateLobby, IInv, FreshInv
<1>2. ASSUME NEW max \in Sizes, NEW on \in BOOLEAN, UpdateAsOwner(n, max, on)
      PROVE  Announced(n)
  <2> DEFINE rec == Bumped(WithFlag([known[n] EXCEPT !.max = max], n, on))
  <2>1. Store(n, rec) /\ Broadcast(n, Announce(n, rec)) \subseteq net'
    BY <1>2 DEF UpdateAsOwner, Send
  <2>2. rec.version = known[n].version + 1
    BY OwnersUpdate
  <2> HIDE DEF rec
  <2> QED BY <2>1, <2>2, NextVersionAnnounced
<1>3. ASSUME NEW p \in Nodes, KickMember(n, p) PROVE Announced(n)
  <2> DEFINE rec == Bumped(WithoutMember(known[n], p))
  <2>1. Store(n, rec) /\ Broadcast(n, Announce(n, rec)) \subseteq net'
    BY <1>3 DEF KickMember, Send
  <2>2. rec.version = known[n].version + 1
    BY OwnersRemoval
  <2> HIDE DEF rec
  <2> QED BY <2>1, <2>2, NextVersionAnnounced
<1>4. CASE JoinLobby(n) \/ JoinLobbyById(n)
  <2>1. Knows(n)
    BY <1>0, KeptIsProper DEF Knows, Kept
  <2>2. Store(n, WithMember(known[n], n))
    BY <1>4, <2>1 DEF JoinLobby, JoinLobbyById
  <2>3. IsMember(known[n], n) => WithMember(known[n], n) = known[n]
    BY <1>0, ProperJoin
  <2> QED BY <1>0, <2>2, <2>3 DEF Store, Announced, IInv, CopiesInv
<1>5. CASE \/ DestroyLobby(n) \/ LeaveLobby(n) \/ Exit(n) \/ \E p \in Nodes : PromoteMember(n, p)
  BY <1>5 DEF DestroyLobby, LeaveLobby, Exit, PromoteMember, Announced
<1>6. CASE CopyDetails(n) \/ PeriodicAnnounce(n) \/ \E on \in BOOLEAN : UpdateAsMember(n, on)
  BY <1>6 DEF CopyDetails, PeriodicAnnounce, UpdateAsMember, nodeVars, Announced
<1> QED BY <1>1, <1>2, <1>3, <1>4, <1>5, <1>6 DEF Step

\* A datagram that reaches the owner.
LEMMA OwnersDatagramAnnounced ==
  ASSUME IInv, NEW d \in net, d.to \in owned, OnDatagram(d)
  PROVE  Announced(d.to)
<1> DEFINE n == d.to
<1>0. d.msg \in Message
  BY DEF IInv, NetInv, Sound
<1>1. CASE UNCHANGED known
  BY <1>1 DEF Announced
<1>2. CASE OnUpdate(n, d) /\ ~UNCHANGED known
  <2> DEFINE rec == Bumped(WithFlag(known[n], d.msg.member, d.msg.on))
  <2>1. Store(n, rec) /\ Broadcast(n, Announce(n, rec)) \subseteq net'
    BY <1>2 DEF OnUpdate, Receive
  <2>2. d.msg.member \in Nodes /\ d.msg.on \in BOOLEAN
    BY <1>0, <1>2 DEF OnUpdate, Message
  <2>3. rec.version = known[n].version + 1
    BY <2>2, OwnersUpdateOfMember
  <2> HIDE DEF rec
  <2> QED BY <2>1, <2>3, NextVersionAnnounced
<1>3. CASE OnJoinRequest(n, d) /\ ~UNCHANGED known
  <2> DEFINE rec == Admitted(known[n], d.msg.joiner)
  <2>1. /\ Store(n, rec) /\ Broadcast(n, Announce(n, rec)) \subseteq net'
        /\ ~IsMember(known[n], d.msg.joiner)
    BY <1>3 DEF OnJoinRequest, Receive, Admits
  <2>2. d.msg.joiner \in Nodes
    BY <1>0, <1>3 DEF OnJoinRequest, Message
  <2>3. rec.version = known[n].version + 1
    BY <2>1, <2>2, OwnersAdmission
  <2> HIDE DEF rec
  <2> QED BY <2>1, <2>3, NextVersionAnnounced
<1>4. CASE OnLeave(n, d) /\ ~UNCHANGED known
  <2> DEFINE rec == Bumped(WithoutMember(known[n], d.msg.subject))
  <2>1. Store(n, rec) /\ Broadcast(n, Announce(n, rec)) \subseteq net'
    BY <1>4 DEF OnLeave, Receive
  <2>2. d.msg.subject \in Nodes
    BY <1>0, <1>4 DEF OnLeave, Message
  <2>3. rec.version = known[n].version + 1
    BY <2>2, OwnersRemoval
  <2> HIDE DEF rec
  <2> QED BY <2>1, <2>3, NextVersionAnnounced
<1>5. CASE OnClosed(n, d)
  BY <1>5 DEF OnClosed, nodeVars, Announced
<1>6. CASE OnAnnounce(n, d)
  BY <1>6 DEF OnAnnounce, Takes, nodeVars, Announced
<1> QED BY <1>1, <1>2, <1>3, <1>4, <1>5, <1>6 DEF OnDatagram

\* A step of one node leaves the record of every other alone.
LEMMA OthersRecord ==
  ASSUME IInv, NEW n \in Nodes, NEW k \in Nodes \ {n},
         Step(n) \/ \E d \in net : d.to = n /\ OnDatagram(d)
  PROVE  known'[k] = known[k]
<1>1. ASSUME NEW rec, Store(n, rec) PROVE known'[k] = known[k]
  BY <1>1 DEF Store, IInv, CopiesInv
<1>2. CASE Step(n)
  <2>1. (\E rec : Store(n, rec)) \/ UNCHANGED known
    <3>1. CASE \E max \in Sizes, yes \in BOOLEAN :
                 CreateLobby(n, max, yes) \/ UpdateAsOwner(n, max, yes)
      BY <3>1 DEF CreateLobby, UpdateAsOwner
    <3>2. CASE \/ \E on \in BOOLEAN : UpdateAsMember(n, on)
               \/ \E p \in Nodes : PromoteMember(n, p) \/ KickMember(n, p)
      BY <3>2 DEF UpdateAsMember, PromoteMember, KickMember
    <3>3. CASE DestroyLobby(n) \/ JoinLobby(n) \/ JoinLobbyById(n) \/ LeaveLobby(n) \/ Exit(n)
      BY <3>3 DEF DestroyLobby, JoinLobby, JoinLobbyById, LeaveLobby, Exit
    <3>4. CASE CopyDetails(n) \/ PeriodicAnnounce(n)
      BY <3>4 DEF CopyDetails, PeriodicAnnounce, nodeVars
    <3> QED BY <1>2, <3>1, <3>2, <3>3, <3>4 DEF Step
  <2> QED BY <1>1, <2>1
<1>3. CASE \E d \in net : d.to = n /\ OnDatagram(d)
  <2>1. (\E rec : Store(n, rec)) \/ UNCHANGED known
    BY <1>3 DEF OnDatagram, OnAnnounce, OnUpdate, OnJoinRequest, OnClosed, OnLeave, nodeVars
  <2> QED BY <1>1, <2>1
<1> QED BY <1>2, <1>3

\* Every step of an owner that changes its record announces the change.
LEMMA NextAnnounced ==
  ASSUME IInv, [Next]_vars, NEW n \in owned
  PROVE  Announced(n)
<1>0. n \in Nodes
  BY OwnersRecord
<1>1. ASSUME NEW k \in Nodes, Step(k) PROVE Announced(n)
  BY <1>0, <1>1, OwnersCallAnnounced, OthersRecord DEF Announced
<1>2. ASSUME NEW d \in net, OnDatagram(d) PROVE Announced(n)
  <2>1. d.to \in Nodes
    BY DEF IInv, NetInv, Sound
  <2> QED BY <1>0, <1>2, <2>1, OwnersDatagramAnnounced, OthersRecord DEF Announced
<1>3. ASSUME NEW d \in net, Lose(d) PROVE Announced(n)
  BY <1>3 DEF Lose, nodeVars, Announced
<1>4. CASE UNCHANGED vars
  BY <1>4 DEF vars, nodeVars, Announced
<1> QED BY <1>1, <1>2, <1>3, <1>4 DEF Next

---------------------------------------------------------------------------
\* Wherever a record is, it is well formed, and the bookkeeping of every node
\* agrees with its copy.
THEOREM CopiesAreProper == Spec => []IInv
<1>1. IInv /\ [Next]_vars => IInv'
  BY NextIInv
<1> QED BY InitIInv, <1>1, PTL DEF Spec

\* Known_, the details handles and the announces on their way hold well-formed
\* records only: LobbyRecord keeps a member once, and attributes with a member.
THEOREM TypeCorrect == Spec => []TypeOK
<1>1. IInv => TypeOK
  <2> SUFFICES ASSUME IInv PROVE TypeOK
    OBVIOUS
  <2>1. \A rec \in Kept : Formed(rec)
    BY DEF Kept, Proper, Formed
  <2>2. \A rec \in Proper : Formed(rec)
    BY DEF Proper, Formed
  <2>3. \A n \in Nodes : Formed(known[n]) /\ Formed(details[n])
    BY <2>1 DEF IInv, CopiesInv
  <2>4. \A d \in net : /\ d.to \in Nodes /\ d.msg \in Message
                       /\ d.msg.type = "LobbyAnnounce" => Formed(d.msg.rec)
    BY <2>2 DEF IInv, NetInv, Sound
  <2> QED BY <2>3, <2>4 DEF IInv, CopiesInv, BackedInv, BoundInv, TypeOK
<1> QED BY CopiesAreProper, <1>1, PTL

\* A node in MemberOf_ knows the lobby and a node in Owned_ is the owner its own
\* record names, however announces, promotions, kicks and exits interleave.
THEOREM AuthorityHasRecord == Spec => []AuthorityIsBacked
<1>1. IInv => AuthorityIsBacked
  <2> SUFFICES ASSUME IInv PROVE AuthorityIsBacked
    OBVIOUS
  <2>1. \A n \in Nodes : known[n] \in Proper => Knows(n)
    BY KeptIsProper DEF Knows, Kept
  <2> QED BY <2>1 DEF IInv, BackedInv, AuthorityIsBacked
<1> QED BY CopiesAreProper, <1>1, PTL

\* Lobby.cpp:4: the owner "broadcasts it on every change": no call and no
\* handler changes an owner's record without a new version, announced to all.
THEOREM OwnersAnnounce == Spec => ChangeIsAnnounced
<1>1. IInv /\ [Next]_vars =>
        [\A n \in owned :
           n \in owned' /\ known'[n] # known[n] /\ IsMember(known[n], n) =>
             /\ known'[n].version > known[n].version
             /\ Broadcast(n, Announce(n, known'[n])) \subseteq net']_vars
  BY NextAnnounced DEF Announced
<1> QED BY CopiesAreProper, <1>1, PTL DEF Spec, ChangeIsAnnounced
==========================================================================
