-------------------------- MODULE SessionsProofs -------------------------
(***************************************************************************)
(* Proofs about sessions on the LAN, for any number of nodes, names and    *)
(* session ids and any number of calls: the tables keep their types, and   *)
(* a session that is discovered leads to the node that created it.         *)
(*                                                                         *)
(* HostIsOwner alone is not inductive: what a node announces is a record   *)
(* of its own table, which may have come from a copy that the game held,   *)
(* which came from an earlier announce.  IInv says of every place where a  *)
(* record can be - the local table, a details handle, an overlay event, a  *)
(* datagram - that its host address is that of its owner, or is open and   *)
(* the record is still with its owner, who alone announces it then.        *)
(***************************************************************************)
EXTENDS Sessions, DispatcherProofs

\* What a record kept at n, or announced by n, may say about its host.
Addressed(n, rec) == rec.host = rec.owner \/ (rec.host = NoNode /\ rec.owner = n)

Proper(n) == {rec \in Record : IsInjective(rec.players) /\ Addressed(n, rec)}

Heard(id) ==
  {rec \in Record : /\ rec.id = id /\ rec.public /\ IsInjective(rec.players)
                   /\ rec.host = rec.owner}

Sound(d) ==
  /\ d.to \in Nodes /\ d.msg \in Message
  /\ d.msg.type = "SessionAnnounce" => d.msg.rec \in Proper(d.msg.from) /\ d.msg.rec.public

LocalInv ==
  /\ local \in [Nodes -> [Names -> Kept]]
  /\ \A n \in Nodes, name \in Names : Exists(local[n][name]) => local[n][name] \in Proper(n)

OwnedInv ==
  /\ owned \in [Nodes -> SUBSET Names]
  /\ \A n \in Nodes : \A name \in owned[n] : Exists(local[n][name])

KnownInv ==
  /\ known \in [Nodes -> [Ids -> Kept]]
  /\ \A n \in Nodes, id \in Ids : Exists(known[n][id]) => known[n][id] \in Heard(id)

GameInv ==
  /\ uiEvents \in [Nodes -> Seq(Record)] /\ details \in [Nodes -> Kept]
  /\ \A n \in Nodes :
       /\ uiEvents[n] \in Seq(Proper(n))
       /\ Exists(details[n]) => details[n] \in Proper(n)

InviteInv == invites \in [Nodes -> Seq([id : Ids, from : Nodes])]

NetInv == \A d \in net : Sound(d)

BoundInv ==
  /\ used \subseteq Ids /\ alive \subseteq Nodes
  /\ calls \in 0 .. MaxCalls /\ dups \in 0 .. MaxDuplicates

IInv ==
  LocalInv /\ OwnedInv /\ KnownInv /\ GameInv /\ InviteInv /\ NetInv /\ BoundInv

---------------------------------------------------------------------------
(* Records.                                                                *)

\* No record is version 0, and every record is some version.
LEMMA RecordExists ==
  ASSUME NEW rec \in Kept
  PROVE  Exists(rec) <=> rec \in Record
  BY DEF Kept, Record, NoSession, Exists

\* A record is a session that exists,
LEMMA Recorded == \A rec \in Record : rec \in Kept /\ Exists(rec)
  BY DEF Kept, Record, Exists

\* and no session is none.
LEMMA NothingKept == NoSession \in Kept /\ ~Exists(NoSession)
  BY DEF Kept, NoSession, Exists

\* A new version, a permission and a state leave players, owner and host alone.
LEMMA ProperUpdates ==
  ASSUME NEW n \in Nodes, NEW rec \in Proper(n), NEW public \in BOOLEAN,
         NEW state \in {"Pending", "InProgress", "Ended"}
  PROVE  /\ Bumped(rec) \in Proper(n) /\ Bumped(rec).public = rec.public
         /\ [rec EXCEPT !.public = public] \in Proper(n)
         /\ [rec EXCEPT !.state = state] \in Proper(n)
<1>1. rec \in Record /\ IsInjective(rec.players) /\ Addressed(n, rec)
  BY DEF Proper
<1>2. Bumped(rec) \in Proper(n) /\ Bumped(rec).public = rec.public
  <2>1. /\ Bumped(rec) \in Record /\ Bumped(rec).players = rec.players
        /\ Bumped(rec).host = rec.host /\ Bumped(rec).owner = rec.owner
        /\ Bumped(rec).public = rec.public
    BY <1>1 DEF Bumped, Record
  <2> QED BY <1>1, <2>1 DEF Proper, Addressed
<1>3. [rec EXCEPT !.public = public] \in Proper(n)
  <2> DEFINE new == [rec EXCEPT !.public = public]
  <2>1. new \in Record /\ new.players = rec.players /\ new.host = rec.host /\ new.owner = rec.owner
    BY <1>1 DEF Record
  <2> HIDE DEF new
  <2>2. new \in Proper(n)
    BY <1>1, <2>1 DEF Proper, Addressed
  <2> QED BY <2>2 DEF new
<1>4. [rec EXCEPT !.state = state] \in Proper(n)
  <2> DEFINE new == [rec EXCEPT !.state = state]
  <2>1. new \in Record /\ new.players = rec.players /\ new.host = rec.host /\ new.owner = rec.owner
    BY <1>1 DEF Record
  <2> HIDE DEF new
  <2>2. new \in Proper(n)
    BY <1>1, <2>1 DEF Proper, Addressed
  <2> QED BY <2>2 DEF new
<1> QED BY <1>2, <1>3, <1>4

\* Other players leave the owner and the host of a record alone.
LEMMA ProperPlayers ==
  ASSUME NEW n \in Nodes, NEW rec \in Proper(n), NEW players \in Seq(Nodes), IsInjective(players)
  PROVE  [rec EXCEPT !.players = players] \in Proper(n)
<1> DEFINE new == [rec EXCEPT !.players = players]
<1>1. rec \in Record /\ Addressed(n, rec)
  BY DEF Proper
<1>2. new \in Record /\ new.players = players /\ new.host = rec.host /\ new.owner = rec.owner
  BY <1>1 DEF Record
<1> HIDE DEF new
<1>3. new \in Proper(n)
  BY <1>1, <1>2 DEF Proper, Addressed
<1> QED BY <1>3 DEF new

\* A player registers once and is found when it unregisters.
LEMMA ProperRoster ==
  ASSUME NEW n \in Nodes, NEW rec \in Proper(n), NEW p \in Nodes
  PROVE  WithPlayer(rec, p) \in Proper(n) /\ WithoutPlayer(rec, p) \in Proper(n)
<1>1. rec.players \in Seq(Nodes) /\ IsInjective(rec.players)
  BY DEF Proper, Record
<1>2. CASE p \in ToSet(rec.players)
  <2> DEFINE i == CHOOSE i \in DOMAIN rec.players : rec.players[i] = p
  <2>1. i \in DOMAIN rec.players
    BY <1>2 DEF ToSet
  <2> HIDE DEF i
  <2>2. /\ RemoveAt(rec.players, i) \in Seq(Nodes)
        /\ IsInjective(RemoveAt(rec.players, i))
    BY <1>1, <2>1, RemoveAtPlaces, RemoveAtRoster
  <2>3. WithoutPlayer(rec, p) = [rec EXCEPT !.players = RemoveAt(rec.players, i)]
    BY <1>2 DEF WithoutPlayer, i
  <2>4. WithPlayer(rec, p) = rec
    BY <1>2 DEF WithPlayer
  <2> QED BY <2>2, <2>3, <2>4, ProperPlayers
<1>3. CASE p \notin ToSet(rec.players)
  <2>1. Append(rec.players, p) \in Seq(Nodes) /\ IsInjective(Append(rec.players, p))
    BY <1>1, <1>3, AppendRoster, AppendInjectiveRoster
  <2>2. WithPlayer(rec, p) = [rec EXCEPT !.players = Append(rec.players, p)]
    BY <1>3 DEF WithPlayer
  <2>3. WithoutPlayer(rec, p) = rec
    BY <1>3 DEF WithoutPlayer
  <2> QED BY <2>1, <2>2, <2>3, ProperPlayers
<1> QED BY <1>2, <1>3

\* A receiver completes an open address with that of the announcer, which is
\* the owner.
LEMMA StampedHeard ==
  ASSUME NEW n \in Nodes, NEW rec \in Proper(n), rec.public
  PROVE  Stamped(rec, n) \in Heard(rec.id) /\ Stamped(rec, n).id = rec.id
<1>1. rec \in Record /\ IsInjective(rec.players) /\ Addressed(n, rec)
  BY DEF Proper
<1>2. CASE rec.host = NoNode
  <2>1. rec.owner = n
    BY <1>1, <1>2, SessionsAssumption DEF Addressed, Record
  <2> DEFINE new == [rec EXCEPT !.host = n]
  <2>2. /\ new \in Record /\ new.players = rec.players /\ new.host = n /\ new.owner = rec.owner
        /\ new.id = rec.id /\ new.public = rec.public
    BY <1>1 DEF Record
  <2>3. Stamped(rec, n) = new
    BY <1>2 DEF Stamped
  <2> HIDE DEF new
  <2> QED BY <1>1, <2>1, <2>2, <2>3 DEF Heard
<1>3. CASE rec.host # NoNode
  <2>1. rec.host = rec.owner
    BY <1>1, <1>3 DEF Addressed
  <2> QED BY <1>1, <1>3, <2>1 DEF Heard, Stamped
<1> QED BY <1>2, <1>3

\* What is discovered may be joined and announced by anybody.
LEMMA HeardProper ==
  ASSUME NEW n \in Nodes, NEW id \in Ids
  PROVE  Heard(id) \subseteq Proper(n)
  BY DEF Heard, Proper, Addressed

---------------------------------------------------------------------------
(* Tables and datagrams.                                                   *)

\* A node replaces, or erases, what one of its names stands for.
LEMMA StoreLocal ==
  ASSUME LocalInv, NEW n \in Nodes, NEW name \in Names, NEW rec, Store(n, name, rec),
         rec \in Proper(n) \/ rec = NoSession
  PROVE  /\ LocalInv' /\ local'[n][name] = rec
         /\ \A k \in Nodes, m \in Names : k # n \/ m # name => local'[k][m] = local[k][m]
<1>1. rec \in Kept
  BY Recorded, NothingKept DEF Proper
<1>2. /\ local' \in [Nodes -> [Names -> Kept]] /\ local'[n][name] = rec
      /\ \A k \in Nodes, m \in Names : k # n \/ m # name => local'[k][m] = local[k][m]
  BY <1>1 DEF Store, LocalInv
<1>3. Exists(rec) => rec \in Proper(n)
  BY NothingKept
<1>4. ASSUME NEW k \in Nodes, NEW m \in Names, Exists(local'[k][m])
      PROVE  local'[k][m] \in Proper(k)
  BY <1>2, <1>3, <1>4 DEF LocalInv
<1> QED BY <1>2, <1>4 DEF LocalInv

\* A name in Owned_ still stands for a session when another is stored.
LEMMA StoreOwned ==
  ASSUME LocalInv, OwnedInv, NEW n \in Nodes, NEW name \in Names, NEW rec \in Proper(n),
         Store(n, name, rec),
         owned' = owned \/ owned' = [owned EXCEPT ![n] = @ \cup {name}]
  PROVE  OwnedInv'
<1>1. /\ local'[n][name] = rec
      /\ \A k \in Nodes, m \in Names : k # n \/ m # name => local'[k][m] = local[k][m]
  BY StoreLocal
<1>2. Exists(rec)
  BY Recorded DEF Proper
<1>3. /\ owned' \in [Nodes -> SUBSET Names]
      /\ \A k \in Nodes : \A m \in owned'[k] : m \in owned[k] \/ (k = n /\ m = name)
  BY DEF OwnedInv
<1>4. ASSUME NEW k \in Nodes, NEW m \in owned'[k] PROVE Exists(local'[k][m])
  BY <1>1, <1>2, <1>3 DEF OwnedInv
<1> QED BY <1>3, <1>4 DEF OwnedInv

\* What a node announces is a record of its own table.
LEMMA AdvertiseSound ==
  ASSUME NEW n \in Nodes, NEW rec \in Proper(n), alive \subseteq Nodes,
         NEW d \in Advertise(n, rec)
  PROVE  Sound(d)
<1>1. rec.public /\ d \in Broadcast(n, Announce(n, rec))
  BY DEF Advertise
<1>2. d.to \in Nodes /\ d.msg = Announce(n, rec)
  BY <1>1 DEF Broadcast
<1>3. /\ Announce(n, rec).type = "SessionAnnounce" /\ Announce(n, rec).from = n
      /\ Announce(n, rec).rec = rec
  BY DEF Announce
<1>4. Announce(n, rec) \in Message
  BY DEF Announce, Message, Proper
<1> QED BY <1>1, <1>2, <1>3, <1>4 DEF Sound

\* A withdrawal claims nothing that could be false.
LEMMA WithdrawSound ==
  ASSUME NEW n \in Nodes, NEW id \in Ids, alive \subseteq Nodes,
         NEW d \in Broadcast(n, Withdraw(id))
  PROVE  Sound(d)
<1>1. d.to \in Nodes /\ d.msg = Withdraw(id)
  BY DEF Broadcast
<1>2. Withdraw(id).type = "SessionWithdraw" /\ Withdraw(id) \in Message
  BY DEF Withdraw, Message
<1> QED BY <1>1, <1>2 DEF Sound

\* Only sound messages are sent, so that only sound ones are on their way.
LEMMA SendNet ==
  ASSUME NetInv, NEW out, Send(out), \A d \in out : Sound(d)
  PROVE  NetInv' /\ dups' = dups
<1>1. net' = net \cup out /\ dups' = dups
  BY DEF Send
<1>2. \A d \in net' : Sound(d)
  BY <1>1 DEF NetInv
<1> QED BY <1>1, <1>2 DEF NetInv, Sound

---------------------------------------------------------------------------
(* IInv is kept by every action.                                           *)

\* At first no process has a session, and nothing is on its way.
LEMMA InitIInv == Init => IInv
<1> SUFFICES ASSUME Init PROVE IInv
  OBVIOUS
<1> USE DEF Init
<1>1. LocalInv /\ OwnedInv /\ KnownInv
  BY NothingKept DEF LocalInv, OwnedInv, KnownInv
<1>2. <<>> \in Seq(Record) /\ \A n \in Nodes : <<>> \in Seq(Proper(n))
  BY EmptySeq
<1>3. GameInv
  BY <1>2, NothingKept DEF GameInv
<1>4. InviteInv
  BY EmptySeq DEF InviteInv
<1>5. NetInv /\ BoundInv
  BY SessionsAssumption DEF NetInv, BoundInv
<1> QED BY <1>1, <1>3, <1>4, <1>5 DEF IInv

\* The record that a session begins with: no host address yet, the creator its
\* owner and only player.
LEMMA CreateSessionIInv ==
  ASSUME IInv, NEW n \in Nodes, NEW name \in Names, NEW id \in Ids, NEW public \in BOOLEAN,
         CreateSession(n, name, id, public)
  PROVE  IInv'
<1> DEFINE rec == [id |-> id, owner |-> n, public |-> public, players |-> <<n>>,
                   state |-> "Pending", version |-> 1, host |-> NoNode]
<1>1. rec \in Proper(n)
  <2>1. <<n>> \in Seq(Nodes) /\ IsInjective(<<n>>)
    BY DEF IsInjective
  <2>2. rec \in Record
    BY <2>1 DEF Record
  <2> QED BY <2>1, <2>2 DEF Proper, Addressed
<1>2. Store(n, name, rec) /\ Send(Advertise(n, rec)) /\ owned' = [owned EXCEPT ![n] = @ \cup {name}]
  BY DEF CreateSession
<1> HIDE DEF rec
<1>3. LocalInv' /\ OwnedInv'
  BY <1>1, <1>2, StoreLocal, StoreOwned DEF IInv
<1>4. NetInv' /\ dups' = dups
  BY <1>1, <1>2, AdvertiseSound, SendNet DEF IInv, BoundInv
<1>5. BoundInv'
  BY <1>4, SessionsAssumption DEF CreateSession, Call, IInv, BoundInv
<1>6. KnownInv' /\ GameInv' /\ InviteInv'
  BY DEF CreateSession, heardVars, gameVars, IInv, KnownInv, GameInv, InviteInv
<1> QED BY <1>3, <1>4, <1>5, <1>6 DEF IInv

\* What the calls that change one's own copy share.
LEMMA StoreIInv ==
  ASSUME IInv, NEW n \in Nodes, NEW name \in Names, NEW rec \in Proper(n),
         Call(n), Store(n, name, rec),
         UNCHANGED <<owned, heardVars, gameVars, used, alive>>,
         NetInv', dups' = dups
  PROVE  IInv'
<1>1. LocalInv' /\ OwnedInv'
  BY StoreLocal, StoreOwned DEF IInv
<1>2. BoundInv'
  BY SessionsAssumption DEF Call, IInv, BoundInv
<1>3. KnownInv' /\ GameInv' /\ InviteInv'
  BY DEF heardVars, gameVars, IInv, KnownInv, GameInv, InviteInv
<1> QED BY <1>1, <1>2, <1>3 DEF IInv

\* UpdateSession of a session that exists: the changed record is announced.
LEMMA UpdateSessionIInv ==
  ASSUME IInv, NEW n \in Nodes, NEW name \in Names, NEW public \in BOOLEAN,
         UpdateSession(n, name, public)
  PROVE  IInv'
<1> DEFINE rec == Bumped([local[n][name] EXCEPT !.public = public])
<1>1. local[n][name] \in Proper(n)
  BY DEF UpdateSession, IInv, LocalInv
<1>2. rec \in Proper(n)
  BY <1>1, ProperUpdates
<1>3. /\ Call(n) /\ Store(n, name, rec) /\ Send(Advertise(n, rec))
      /\ UNCHANGED <<owned, heardVars, gameVars, used, alive>>
  BY DEF UpdateSession
<1> HIDE DEF rec
<1>4. NetInv' /\ dups' = dups
  BY <1>2, <1>3, AdvertiseSound, SendNet DEF IInv, BoundInv
<1> QED BY <1>2, <1>3, <1>4, StoreIInv

\* Start, End, Register and Unregister: the record is changed one version up.
LEMMA ChangeIInv ==
  ASSUME IInv, NEW n \in Nodes, NEW name \in Names, NEW rec \in Proper(n), Change(n, name, rec)
  PROVE  IInv'
<1>1. Bumped(rec) \in Proper(n)
  BY ProperUpdates
<1>2. /\ Call(n) /\ Store(n, name, Bumped(rec))
      /\ Send(IF name \in owned[n] THEN Advertise(n, Bumped(rec)) ELSE {})
      /\ UNCHANGED <<owned, heardVars, gameVars, used, alive>>
  BY DEF Change
<1>3. NetInv' /\ dups' = dups
  BY <1>1, <1>2, AdvertiseSound, SendNet DEF IInv, BoundInv
<1> QED BY <1>1, <1>2, <1>3, StoreIInv

\* Start, End, Register and Unregister change the node's own copy.
LEMMA OwnCopyIInv ==
  ASSUME IInv, NEW n \in Nodes, NEW name \in Names, NEW p \in Nodes,
         \/ StartSession(n, name) \/ EndSession(n, name)
         \/ RegisterPlayers(n, name, p) \/ UnregisterPlayers(n, name, p)
  PROVE  IInv'
<1> DEFINE rec == local[n][name]
<1>1. rec \in Proper(n)
  BY DEF StartSession, EndSession, RegisterPlayers, UnregisterPlayers, Change, IInv, LocalInv
<1>2. CASE StartSession(n, name)
  <2>1. [rec EXCEPT !.state = "InProgress"] \in Proper(n)
    BY <1>1, ProperUpdates
  <2> QED BY <1>2, <2>1, ChangeIInv DEF StartSession
<1>3. CASE EndSession(n, name)
  <2>1. [rec EXCEPT !.state = "Ended"] \in Proper(n)
    BY <1>1, ProperUpdates
  <2> QED BY <1>3, <2>1, ChangeIInv DEF EndSession
<1>4. CASE RegisterPlayers(n, name, p)
  BY <1>1, <1>4, ProperRoster, ChangeIInv DEF RegisterPlayers
<1>5. CASE UnregisterPlayers(n, name, p)
  BY <1>1, <1>5, ProperRoster, ChangeIInv DEF UnregisterPlayers
<1> QED BY <1>2, <1>3, <1>4, <1>5

\* A session that is erased leaves Owned_ with Local_.
LEMMA DestroySessionIInv ==
  ASSUME IInv, NEW n \in Nodes, NEW name \in Names, DestroySession(n, name)
  PROVE  IInv'
<1>1. /\ Call(n) /\ Store(n, name, NoSession) /\ Exists(local[n][name])
      /\ owned' = [owned EXCEPT ![n] = @ \ {name}]
      /\ Send(IF name \in owned[n] THEN Broadcast(n, Withdraw(local[n][name].id)) ELSE {})
      /\ UNCHANGED <<heardVars, gameVars, used, alive>>
  BY DEF DestroySession
<1>2. /\ LocalInv'
      /\ \A k \in Nodes, m \in Names : k # n \/ m # name => local'[k][m] = local[k][m]
  BY <1>1, StoreLocal DEF IInv
<1>3. OwnedInv'
  <2>1. /\ owned' \in [Nodes -> SUBSET Names]
        /\ \A k \in Nodes : \A m \in owned'[k] : m \in owned[k] /\ (k # n \/ m # name)
    BY <1>1 DEF IInv, OwnedInv
  <2> QED BY <1>2, <2>1 DEF IInv, OwnedInv
<1>4. local[n][name].id \in Ids
  BY <1>1 DEF IInv, LocalInv, Proper, Record
<1>5. NetInv' /\ dups' = dups
  BY <1>1, <1>4, WithdrawSound, SendNet DEF IInv, BoundInv
<1>6. BoundInv'
  BY <1>1, <1>5, SessionsAssumption DEF Call, IInv, BoundInv
<1>7. KnownInv' /\ GameInv' /\ InviteInv'
  BY <1>1 DEF heardVars, gameVars, IInv, KnownInv, GameInv, InviteInv
<1> QED BY <1>2, <1>3, <1>5, <1>6, <1>7 DEF IInv

\* The joiner keeps the copy it held, under its own name, as one more player.
LEMMA JoinSessionIInv ==
  ASSUME IInv, NEW n \in Nodes, NEW name \in Names, JoinSession(n, name)
  PROVE  IInv'
<1>1. details[n] \in Proper(n)
  BY DEF JoinSession, IInv, GameInv
<1>2. WithPlayer(details[n], n) \in Proper(n)
  BY <1>1, ProperRoster
<1>3. NetInv' /\ dups' = dups
  BY DEF JoinSession, IInv, NetInv, Sound
<1> QED BY <1>2, <1>3, StoreIInv DEF JoinSession

\* Everything a node hosts is in its table.
LEMMA PeriodicAnnounceIInv ==
  ASSUME IInv, NEW n \in Nodes, PeriodicAnnounce(n)
  PROVE  IInv'
<1> DEFINE hosted == {m \in owned[n] : Exists(local[n][m])}
           out == UNION {Advertise(n, local[n][name]) : name \in hosted}
<1>1. \A name \in hosted : local[n][name] \in Proper(n)
  BY DEF IInv, LocalInv, OwnedInv
<1>2. \A d \in out : Sound(d)
  BY <1>1, AdvertiseSound DEF IInv, BoundInv
<1>3. Send(out) /\ UNCHANGED <<localVars, heardVars, gameVars, used, alive, calls>>
  BY DEF PeriodicAnnounce
<1> HIDE DEF out
<1>4. NetInv' /\ dups' = dups
  BY <1>2, <1>3, SendNet DEF IInv
<1>5. LocalInv' /\ OwnedInv' /\ KnownInv' /\ GameInv' /\ InviteInv' /\ BoundInv'
  BY <1>3, <1>4 DEF localVars, heardVars, gameVars, IInv, LocalInv, OwnedInv, KnownInv, GameInv,
     InviteInv, BoundInv
<1> QED BY <1>4, <1>5 DEF IInv

\* The game takes a copy of what it finds, discovered or its own.
LEMMA HoldIInv ==
  ASSUME IInv, NEW n \in Nodes, NEW rec \in Proper(n), details' = [details EXCEPT ![n] = rec],
         UNCHANGED <<localVars, heardVars, uiEvents, used, alive, net, calls, dups>>
  PROVE  IInv'
<1>1. rec \in Kept
  BY Recorded DEF Proper
<1>2. GameInv'
  BY <1>1 DEF IInv, GameInv
<1>3. LocalInv' /\ OwnedInv' /\ KnownInv' /\ InviteInv' /\ NetInv' /\ BoundInv'
  BY DEF localVars, heardVars, IInv, LocalInv, OwnedInv, KnownInv, InviteInv, NetInv, BoundInv
<1> QED BY <1>2, <1>3 DEF IInv

\* The game copies a search result,
LEMMA CopyDetailsIInv ==
  ASSUME IInv, NEW n \in Nodes, CopyDetails(n)
  PROVE  IInv'
<1>1. PICK rec \in Found(n) : details' = [details EXCEPT ![n] = rec]
  BY DEF CopyDetails
<1>2. Exists(rec) /\ (\/ \E id \in Ids : rec = known[n][id]
                     \/ \E name \in owned[n] : rec = local[n][name])
  BY DEF Found
<1>3. rec \in Proper(n)
  <2>1. CASE \E id \in Ids : rec = known[n][id]
    BY <1>2, <2>1, HeardProper DEF IInv, KnownInv
  <2>2. CASE \E name \in owned[n] : rec = local[n][name]
    BY <1>2, <2>2 DEF IInv, LocalInv, OwnedInv
  <2> QED BY <1>2, <2>1, <2>2
<1> QED BY <1>1, <1>3, HoldIInv DEF CopyDetails

\* or what a join from the overlay is about.
LEMMA CopyDetailsByUiEventIdIInv ==
  ASSUME IInv, NEW n \in Nodes, NEW i \in DOMAIN uiEvents[n], CopyDetailsByUiEventId(n, i)
  PROVE  IInv'
<1>1. uiEvents[n][i] \in Proper(n)
  <2>1. uiEvents[n] \in Seq(Proper(n))
    BY DEF IInv, GameInv
  <2> QED BY <2>1, ElementOfSeq, LenProperties
<1> QED BY <1>1, HoldIInv DEF CopyDetailsByUiEventId

\* An invite names the session by its id only.
LEMMA SendInviteIInv ==
  ASSUME IInv, NEW n \in Nodes, NEW name \in Names, NEW to \in alive \ {n},
         SendInvite(n, name, to)
  PROVE  IInv'
<1>1. local[n][name].id \in Ids
  BY DEF SendInvite, IInv, LocalInv, Proper, Record
<1> DEFINE id == local[n][name].id
           d == [to |-> to, msg |-> Invite(id, n)]
<1>2. Send({d}) /\ UNCHANGED <<localVars, heardVars, gameVars, used, alive>> /\ Call(n)
  BY DEF SendInvite
<1> HIDE DEF id
<1>3. d.to \in Nodes /\ d.msg = Invite(id, n)
  BY DEF IInv, BoundInv
<1>4. Invite(id, n).type = "SessionInvite" /\ Invite(id, n) \in Message
  BY <1>1 DEF Invite, Message, id
<1>5. Sound(d)
  BY <1>3, <1>4 DEF Sound
<1> HIDE DEF d
<1>6. NetInv' /\ dups' = dups
  BY <1>2, <1>5, SendNet DEF IInv
<1>7. BoundInv'
  BY <1>2, <1>6, SessionsAssumption DEF Call, IInv, BoundInv
<1>8. LocalInv' /\ OwnedInv' /\ KnownInv' /\ GameInv' /\ InviteInv'
  BY <1>2 DEF localVars, heardVars, gameVars, IInv, LocalInv, OwnedInv, KnownInv, GameInv, InviteInv
<1> QED BY <1>6, <1>7, <1>8 DEF IInv

\* RejectInvite: the invitation is removed.
LEMMA RejectInviteIInv ==
  ASSUME IInv, NEW n \in Nodes, NEW i \in DOMAIN invites[n], RejectInvite(n, i)
  PROVE  IInv'
<1>1. invites[n] \in Seq([id : Ids, from : Nodes])
  BY DEF IInv, InviteInv
<1>2. RemoveAt(invites[n], i) \in Seq([id : Ids, from : Nodes])
  BY <1>1, RemoveAtPlaces
<1>3. InviteInv'
  BY <1>2 DEF RejectInvite, IInv, InviteInv
<1>4. BoundInv'
  BY SessionsAssumption DEF RejectInvite, Call, IInv, BoundInv
<1>5. LocalInv' /\ OwnedInv' /\ KnownInv' /\ GameInv' /\ NetInv'
  BY DEF RejectInvite, localVars, gameVars, IInv, LocalInv, OwnedInv, KnownInv, GameInv, NetInv
<1> QED BY <1>3, <1>4, <1>5 DEF IInv

\* The events of the overlay change, at one node.
LEMMA UiEventsIInv ==
  ASSUME IInv, NEW n \in Nodes, NEW events \in Seq(Proper(n)),
         uiEvents' = [uiEvents EXCEPT ![n] = events],
         UNCHANGED <<localVars, heardVars, details, net>>, BoundInv'
  PROVE  IInv'
<1>1. Proper(n) \subseteq Record
  BY DEF Proper
<1>2. events \in Seq(Record)
  BY <1>1, SeqMonotonic
<1>3. GameInv'
  BY <1>2 DEF IInv, GameInv
<1>4. LocalInv' /\ OwnedInv' /\ KnownInv' /\ InviteInv' /\ NetInv'
  BY DEF localVars, heardVars, IInv, LocalInv, OwnedInv, KnownInv, InviteInv, NetInv
<1> QED BY <1>3, <1>4 DEF IInv

\* The overlay asks the game to join a session it knows.
LEMMA BeginJoinFromOverlayIInv ==
  ASSUME IInv, NEW n \in Nodes, NEW id \in Ids, BeginJoinFromOverlay(n, id)
  PROVE  IInv'
<1>1. known[n][id] \in Proper(n)
  BY HeardProper DEF BeginJoinFromOverlay, IInv, KnownInv
<1>2. uiEvents[n] \in Seq(Proper(n))
  BY DEF IInv, GameInv
<1>3. Append(uiEvents[n], known[n][id]) \in Seq(Proper(n))
  BY <1>1, <1>2, AppendRoster
<1>4. BoundInv'
  BY SessionsAssumption DEF BeginJoinFromOverlay, Call, IInv, BoundInv
<1> QED BY <1>3, <1>4, UiEventsIInv DEF BeginJoinFromOverlay

\* The game has answered.
LEMMA AcknowledgeUiEventIInv ==
  ASSUME IInv, NEW n \in Nodes, NEW i \in DOMAIN uiEvents[n], AcknowledgeUiEvent(n, i)
  PROVE  IInv'
<1>1. uiEvents[n] \in Seq(Proper(n))
  BY DEF IInv, GameInv
<1>2. RemoveAt(uiEvents[n], i) \in Seq(Proper(n))
  BY <1>1, RemoveAtPlaces
<1>3. BoundInv'
  BY DEF AcknowledgeUiEvent, IInv, BoundInv
<1> QED BY <1>2, <1>3, UiEventsIInv DEF AcknowledgeUiEvent

\* A process that ends leaves nothing but what it has sent.
LEMMA ExitIInv ==
  ASSUME IInv, NEW n \in Nodes, Exit(n)
  PROVE  IInv'
<1>1. LocalInv' /\ OwnedInv'
  BY NothingKept DEF Exit, IInv, LocalInv, OwnedInv
<1>2. KnownInv'
  BY NothingKept DEF Exit, IInv, KnownInv
<1>3. GameInv'
  <2>1. <<>> \in Seq(Record) /\ <<>> \in Seq(Proper(n))
    BY EmptySeq
  <2> QED BY <2>1, NothingKept DEF Exit, IInv, GameInv
<1>4. InviteInv'
  BY EmptySeq DEF Exit, IInv, InviteInv
<1>5. NetInv'
  BY DEF Exit, IInv, NetInv
<1>6. BoundInv'
  BY SessionsAssumption DEF Exit, Call, IInv, BoundInv
<1> QED BY <1>1, <1>2, <1>3, <1>4, <1>5, <1>6 DEF IInv

\* An announce is filed under its own id, from whichever node it comes.
LEMMA OnAnnounceIInv ==
  ASSUME IInv, NEW d \in net, OnAnnounce(d.to, d)
  PROVE  KnownInv'
<1> DEFINE n == d.to
           rec == Stamped(d.msg.rec, d.msg.from)
<1>1. Sound(d) /\ d.msg.type = "SessionAnnounce"
  BY DEF OnAnnounce, IInv, NetInv
<1>2. n \in Nodes /\ d.msg.from \in Nodes /\ d.msg.rec \in Proper(d.msg.from) /\ d.msg.rec.public
  BY <1>1 DEF Sound, Message
<1>3. rec \in Heard(rec.id)
  BY <1>2, StampedHeard
<1>4. known' = [known EXCEPT ![n][rec.id] = rec]
  BY DEF OnAnnounce, Takes
<1> HIDE DEF rec
<1>5. rec \in Kept /\ rec.id \in Ids
  BY <1>3, Recorded DEF Heard, Record
<1> QED BY <1>2, <1>3, <1>4, <1>5 DEF IInv, KnownInv

\* OnDatagram, whatever the message.
LEMMA OnDatagramIInv ==
  ASSUME IInv, NEW d \in net, OnDatagram(d)
  PROVE  IInv'
<1>1. Sound(d) /\ d.to \in Nodes
  BY DEF IInv, NetInv, Sound
<1>2. KnownInv' /\ InviteInv'
  <2>1. CASE OnAnnounce(d.to, d)
    BY <2>1, OnAnnounceIInv DEF OnAnnounce, IInv, InviteInv
  <2>2. CASE OnWithdraw(d.to, d)
    BY <1>1, <2>2, NothingKept DEF OnWithdraw, IInv, KnownInv, InviteInv
  <2>3. CASE OnInvite(d.to, d)
    <3>1. invites[d.to] \in Seq([id : Ids, from : Nodes])
      BY <1>1 DEF IInv, InviteInv
    <3>2. [id |-> d.msg.id, from |-> d.msg.from] \in [id : Ids, from : Nodes]
      BY <1>1, <2>3 DEF OnInvite, Sound, Message
    <3>3. Append(invites[d.to], [id |-> d.msg.id, from |-> d.msg.from])
            \in Seq([id : Ids, from : Nodes])
      BY <3>1, <3>2, AppendRoster
    <3> QED BY <2>3, <3>3 DEF OnInvite, IInv, KnownInv, InviteInv
  <2> QED BY <2>1, <2>2, <2>3 DEF OnDatagram
<1>3. NetInv' /\ BoundInv'
  <2>1. net' \subseteq net /\ dups' \in 0 .. MaxDuplicates
    BY SessionsAssumption DEF OnDatagram, Receive, IInv, BoundInv
  <2> QED BY <2>1 DEF OnDatagram, IInv, NetInv, BoundInv
<1>4. LocalInv' /\ OwnedInv' /\ GameInv'
  BY DEF OnDatagram, localVars, gameVars, IInv, LocalInv, OwnedInv, GameInv
<1> QED BY <1>2, <1>3, <1>4 DEF IInv

\* A message is lost, or nothing happens.
LEMMA QuietIInv ==
  ASSUME IInv, UNCHANGED <<localVars, heardVars, gameVars, used, alive, calls, dups>>,
         net' \subseteq net
  PROVE  IInv'
<1>1. LocalInv' /\ OwnedInv' /\ KnownInv' /\ GameInv' /\ InviteInv'
  BY DEF localVars, heardVars, gameVars, IInv, LocalInv, OwnedInv, KnownInv, GameInv, InviteInv
<1>2. NetInv' /\ BoundInv'
  BY DEF IInv, NetInv, BoundInv
<1> QED BY <1>1, <1>2 DEF IInv

\* Every call, every handler and the network keep IInv.
LEMMA NextIInv == IInv /\ [Next]_vars => IInv'
<1> SUFFICES ASSUME IInv, [Next]_vars PROVE IInv'
  OBVIOUS
<1>1. ASSUME NEW n \in Nodes, Step(n) PROVE IInv'
  <2>1. ASSUME NEW name \in Names,
               \/ \E id \in Ids, public \in BOOLEAN : CreateSession(n, name, id, public)
               \/ \E public \in BOOLEAN : UpdateSession(n, name, public)
               \/ DestroySession(n, name) \/ JoinSession(n, name)
               \/ \E to \in alive \ {n} : SendInvite(n, name, to)
        PROVE  IInv'
    BY <2>1, CreateSessionIInv, UpdateSessionIInv, DestroySessionIInv, JoinSessionIInv,
       SendInviteIInv
  <2>2. ASSUME NEW name \in Names,
               \/ StartSession(n, name) \/ EndSession(n, name)
               \/ \E p \in Nodes : RegisterPlayers(n, name, p) \/ UnregisterPlayers(n, name, p)
        PROVE  IInv'
    BY <2>2, OwnCopyIInv
  <2>3. CASE \/ PeriodicAnnounce(n) \/ CopyDetails(n) \/ Exit(n)
             \/ \E i \in DOMAIN invites[n] : RejectInvite(n, i)
    BY <2>3, PeriodicAnnounceIInv, CopyDetailsIInv, ExitIInv, RejectInviteIInv
  <2>4. CASE \/ \E id \in Ids : BeginJoinFromOverlay(n, id)
             \/ \E i \in DOMAIN uiEvents[n] :
                  CopyDetailsByUiEventId(n, i) \/ AcknowledgeUiEvent(n, i)
    BY <2>4, BeginJoinFromOverlayIInv, CopyDetailsByUiEventIdIInv, AcknowledgeUiEventIInv
  <2> QED BY <1>1, <2>1, <2>2, <2>3, <2>4 DEF Step
<1>2. ASSUME NEW d \in net, OnDatagram(d) PROVE IInv'
  BY <1>2, OnDatagramIInv
<1>3. ASSUME NEW d \in net, Lose(d) PROVE IInv'
  BY <1>3, QuietIInv DEF Lose
<1>4. CASE UNCHANGED vars
  BY <1>4, QuietIInv DEF vars
<1> QED BY <1>1, <1>2, <1>3, <1>4 DEF Next

\* Wherever a record can be - in a table, with the game, on its way - it is well
\* formed and leads to its owner.
THEOREM RecordsAreProper == Spec => []IInv
<1>1. IInv /\ [Next]_vars => IInv'
  BY NextIInv
<1> QED BY InitIInv, <1>1, PTL DEF Spec

\* Local_, Owned_, Known_ and Invites_ keep their types through every call,
\* handler, loss, duplicate and exit: a hosted name stands for a session, and a
\* discovered session is public, filed under its id and lists nobody twice.
THEOREM TypeCorrect == Spec => []TypeOK
<1>1. IInv => TypeOK
  <2> SUFFICES ASSUME IInv PROVE TypeOK
    OBVIOUS
  <2>1. \A n \in Nodes : owned[n] \subseteq {name \in Names : Exists(local[n][name])}
    BY DEF IInv, OwnedInv
  <2>2. \A n \in Nodes, id \in Ids : Exists(known[n][id]) =>
          known[n][id].id = id /\ known[n][id].public /\ IsInjective(known[n][id].players)
    BY DEF IInv, KnownInv, Heard
  <2>3. \A d \in net : d.to \in Nodes /\ d.msg \in Message
    BY DEF IInv, NetInv, Sound
  <2> QED BY <2>1, <2>2, <2>3 DEF IInv, LocalInv, KnownInv, GameInv, InviteInv, BoundInv, TypeOK
<1> QED BY RecordsAreProper, <1>1, PTL

\* Sessions.cpp, header: the host address "carries the LAN endpoint, which is
\* exactly where a joiner reads it back": for any number of nodes that join and
\* announce their copies, a discovered session leads to the node that created it.
THEOREM DiscoveredLeadsToOwner == Spec => []HostIsOwner
<1>1. IInv => HostIsOwner
  BY DEF IInv, KnownInv, Heard, HostIsOwner
<1> QED BY RecordsAreProper, <1>1, PTL
==========================================================================
