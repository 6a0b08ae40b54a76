----------------------------- MODULE Sessions -----------------------------
(***************************************************************************)
(* Sessions on the LAN (src/interfaces/Sessions.cpp).  The host of a       *)
(* session keeps its record under a local name of its own choice and       *)
(* broadcasts it; every other node caches what it hears, by session id, to *)
(* answer searches.  There is no replication of players and no answer to a *)
(* join: a node that joins keeps a copy under a local name and lives on.   *)
(*                                                                         *)
(* The game thread alone writes Local_, Owned_ and UiEvents_, the receive  *)
(* thread Known_ and, with the game thread, Invites_; each holds Mutex_,   *)
(* so a call and a handler are one action each.  The network loses, delays,*)
(* reorders and, up to a bound, repeats datagrams.                         *)
(*                                                                         *)
(* A record is reduced to its owner, whether its permission is             *)
(* PublicAdvertised, its players, state, version and host address, which   *)
(* the game leaves to the emulator; a join names its local user.           *)
(***************************************************************************)
EXTENDS Integers, FiniteSets, SequencesExt

CONSTANTS
  Nodes,          \* the processes on the LAN, one local user each
  NoNode,         \* not a node: the host address "0.0.0.0:<port>"
  Names,          \* local session names
  Ids,            \* session ids; no two created sessions share one
  MaxCalls,       \* bound: EOS_Sessions_* calls, overlay joins and exits
  MaxDuplicates   \* bound: deliveries after which a datagram is delivered again

ASSUME SessionsAssumption ==
  /\ NoNode \notin Nodes
  /\ MaxCalls \in Nat
  /\ MaxDuplicates \in Nat

VARIABLES
  local,      \* Local_: the record a node keeps under a name, or NoSession
  owned,      \* Owned_: the names of the sessions a node hosts
  known,      \* Known_: the record a node has heard of an id, or NoSession
  invites,    \* Invites_: invitations received, in order
  uiEvents,   \* UiEvents_: the record behind each join from the overlay
  details,    \* the record in the SessionDetails handle the game holds
  used,       \* session ids minted so far
  alive,      \* the nodes whose process runs
  net,        \* datagrams in flight
  calls, dups \* bounds used up

localVars == <<local, owned>>
heardVars == <<known, invites>>
gameVars == <<uiEvents, details>>
vars == <<localVars, heardVars, gameVars, used, alive, net, calls, dups>>

---------------------------------------------------------------------------
(* SessionRecord.  Version starts at 1, so version 0 is no record at all.  *)

NoSession == [version |-> 0]
Exists(rec) == rec.version > 0

WithPlayer(rec, p) ==
  IF p \in ToSet(rec.players) THEN rec ELSE [rec EXCEPT !.players = Append(@, p)]

WithoutPlayer(rec, p) ==
  IF p \in ToSet(rec.players)
  THEN [rec EXCEPT !.players = RemoveAt(@, CHOOSE i \in DOMAIN @ : @[i] = p)]
  ELSE rec

Bumped(rec) == [rec EXCEPT !.version = @ + 1]

---------------------------------------------------------------------------
(* Datagrams.                                                              *)

Announce(n, rec) == [type |-> "SessionAnnounce", from |-> n, rec |-> rec]
Withdraw(id) == [type |-> "SessionWithdraw", id |-> id]
Invite(id, from) == [type |-> "SessionInvite", id |-> id, from |-> from]

\* A node drops its own broadcasts by their SenderTag.
Broadcast(n, m) == {[to |-> d, msg |-> m] : d \in alive \ {n}}

\* Only public sessions are advertised.
Advertise(n, rec) == IF rec.public THEN Broadcast(n, Announce(n, rec)) ELSE {}

Send(out) == net' = net \cup out /\ UNCHANGED dups

\* The handler of d takes it from the network, or the network keeps a copy.
Receive(d) ==
  \/ net' = net \ {d} /\ UNCHANGED dups
  \/ dups < MaxDuplicates /\ dups' = dups + 1 /\ UNCHANGED net

Call(n) == n \in alive /\ calls < MaxCalls /\ calls' = calls + 1

Store(n, name, rec) == local' = [local EXCEPT ![n][name] = rec]

---------------------------------------------------------------------------
Init ==
  /\ local = [n \in Nodes |-> [name \in Names |-> NoSession]]
  /\ owned = [n \in Nodes |-> {}]
  /\ known = [n \in Nodes |-> [id \in Ids |-> NoSession]]
  /\ invites = [n \in Nodes |-> <<>>]
  /\ uiEvents = [n \in Nodes |-> <<>>]
  /\ details = [n \in Nodes |-> NoSession]
  /\ used = {} /\ alive = Nodes /\ net = {} /\ calls = 0 /\ dups = 0

\* UpdateSession with a modification that creates.  Whatever the name stood
\* for before is replaced, and not withdrawn.
CreateSession(n, name, id, public) ==
  /\ Call(n)
  /\ id \notin used /\ used' = used \cup {id}
  /\ LET rec == [id |-> id, owner |-> n, public |-> public, players |-> <<n>>,
                 state |-> "Pending", version |-> 1, host |-> NoNode]
     IN Store(n, name, rec) /\ Send(Advertise(n, rec))
  /\ owned' = [owned EXCEPT ![n] = @ \cup {name}]
  /\ UNCHANGED <<heardVars, gameVars, alive>>

\* UpdateSession with a modification that updates: by a host or by a node
\* that has joined, which announces its copy too.
UpdateSession(n, name, public) ==
  /\ Call(n)
  /\ Exists(local[n][name])
  /\ LET rec == Bumped([local[n][name] EXCEPT !.public = public])
     IN Store(n, name, rec) /\ Send(Advertise(n, rec))
  /\ UNCHANGED <<owned, heardVars, gameVars, used, alive>>

MutDestroyKeepsOwned(n, name) ==
  /\ Call(n)
  /\ Exists(local[n][name])
  /\ Store(n, name, NoSession)
  /\ Send(IF name \in owned[n] THEN Broadcast(n, Withdraw(local[n][name].id)) ELSE {})
  /\ UNCHANGED <<owned, heardVars, gameVars, used, alive>>

DestroySession(n, name) ==
  /\ Call(n)
  /\ Exists(local[n][name])
  /\ Store(n, name, NoSession)
  /\ owned' = [owned EXCEPT ![n] = @ \ {name}]
  /\ Send(IF name \in owned[n] THEN Broadcast(n, Withdraw(local[n][name].id)) ELSE {})
  /\ UNCHANGED <<heardVars, gameVars, used, alive>>

\* JoinSession.  The record replaces what the name stood for; Owned_ is left
\* alone.
JoinSession(n, name) ==
  /\ Call(n)
  /\ Exists(details[n])
  /\ Store(n, name, WithPlayer(details[n], n))
  /\ UNCHANGED <<owned, heardVars, gameVars, used, alive, net, dups>>

\* What Start, End, Register and Unregister share: the record changes under a
\* new version, and a host announces it.
Change(n, name, rec) ==
  /\ Call(n)
  /\ Exists(local[n][name])
  /\ Store(n, name, Bumped(rec))
  /\ Send(IF name \in owned[n] THEN Advertise(n, Bumped(rec)) ELSE {})
  /\ UNCHANGED <<owned, heardVars, gameVars, used, alive>>

StartSession(n, name) == Change(n, name, [local[n][name] EXCEPT !.state = "InProgress"])
EndSession(n, name) == Change(n, name, [local[n][name] EXCEPT !.state = "Ended"])
RegisterPlayers(n, name, p) == Change(n, name, WithPlayer(local[n][name], p))
UnregisterPlayers(n, name, p) == Change(n, name, WithoutPlayer(local[n][name], p))

\* From EOS_Platform_Tick, every two seconds.
PeriodicAnnounce(n) ==
  /\ n \in alive
  /\ Send(UNION {Advertise(n, local[n][name]) : name \in {m \in owned[n] : Exists(local[n][m])}})
  /\ UNCHANGED <<localVars, heardVars, gameVars, used, alive, calls>>

---------------------------------------------------------------------------
(* Searches, invites and the overlay.                                      *)

\* What a search may return: discovered sessions and those hosted here.
Found(n) ==
  {rec \in {known[n][id] : id \in Ids} \cup {local[n][name] : name \in owned[n]} : Exists(rec)}

\* SessionSearch_Find and CopySearchResult, or CopySessionHandleByInviteId:
\* the game holds a copy that nothing refreshes.
CopyDetails(n) ==
  /\ n \in alive
  /\ \E rec \in Found(n) : details' = [details EXCEPT ![n] = rec]
  /\ UNCHANGED <<localVars, heardVars, uiEvents, used, alive, net, calls, dups>>

SendInvite(n, name, to) ==
  /\ Call(n)
  /\ Exists(local[n][name])
  /\ Send({[to |-> to, msg |-> Invite(local[n][name].id, n)]})
  /\ UNCHANGED <<localVars, heardVars, gameVars, used, alive>>

\* RejectInvite, by the game or from the overlay.
RejectInvite(n, i) ==
  /\ Call(n)
  /\ i \in DOMAIN invites[n]
  /\ invites' = [invites EXCEPT ![n] = RemoveAt(@, i)]
  /\ UNCHANGED <<localVars, known, gameVars, used, alive, net, dups>>

\* The user joins a session from the overlay: its record is kept for the
\* game, which copies it by the id of the event and acknowledges the event.
BeginJoinFromOverlay(n, id) ==
  /\ Call(n)
  /\ Exists(known[n][id])
  /\ uiEvents' = [uiEvents EXCEPT ![n] = Append(@, known[n][id])]
  /\ UNCHANGED <<localVars, heardVars, details, used, alive, net, dups>>

CopyDetailsByUiEventId(n, i) ==
  /\ n \in alive
  /\ i \in DOMAIN uiEvents[n]
  /\ details' = [details EXCEPT ![n] = uiEvents[n][i]]
  /\ UNCHANGED <<localVars, heardVars, uiEvents, used, alive, net, calls, dups>>

AcknowledgeUiEvent(n, i) ==
  /\ n \in alive
  /\ i \in DOMAIN uiEvents[n]
  /\ uiEvents' = [uiEvents EXCEPT ![n] = RemoveAt(@, i)]
  /\ UNCHANGED <<localVars, heardVars, details, used, alive, net, calls, dups>>

\* The process ends, without a word to the other nodes.
Exit(n) ==
  /\ Call(n)
  /\ alive' = alive \ {n}
  /\ local' = [local EXCEPT ![n] = [name \in Names |-> NoSession]]
  /\ owned' = [owned EXCEPT ![n] = {}]
  /\ known' = [known EXCEPT ![n] = [id \in Ids |-> NoSession]]
  /\ invites' = [invites EXCEPT ![n] = <<>>]
  /\ uiEvents' = [uiEvents EXCEPT ![n] = <<>>]
  /\ details' = [details EXCEPT ![n] = NoSession]
  /\ net' = {d \in net : d.to # n}
  /\ UNCHANGED <<used, dups>>

---------------------------------------------------------------------------
(* OnDatagram, on node n = d.to.                                           *)

\* A host address without an IP is completed by the source of the datagram.
MutStampedAlways(rec, from) == [rec EXCEPT !.host = from]

Stamped(rec, from) == IF rec.host = NoNode THEN [rec EXCEPT !.host = from] ELSE rec

MutTakesNewer(n, rec) == rec.version > known[n][rec.id].version

\* Every announce is taken, whatever its version.
Takes(n, rec) == TRUE

OnAnnounce(n, d) ==
  LET rec == Stamped(d.msg.rec, d.msg.from) IN
  /\ d.msg.type = "SessionAnnounce"
  /\ known' = IF Takes(n, rec) THEN [known EXCEPT ![n][rec.id] = rec] ELSE known
  /\ UNCHANGED invites

OnWithdraw(n, d) ==
  /\ d.msg.type = "SessionWithdraw"
  /\ known' = [known EXCEPT ![n][d.msg.id] = NoSession]
  /\ UNCHANGED invites

OnInvite(n, d) ==
  /\ d.msg.type = "SessionInvite"
  /\ invites' = [invites EXCEPT ![n] = Append(@, [id |-> d.msg.id, from |-> d.msg.from])]
  /\ UNCHANGED known

OnDatagram(d) ==
  /\ d.to \in alive
  /\ OnAnnounce(d.to, d) \/ OnWithdraw(d.to, d) \/ OnInvite(d.to, d)
  /\ Receive(d)
  /\ UNCHANGED <<localVars, gameVars, used, alive, calls>>

Lose(d) ==
  /\ net' = net \ {d}
  /\ UNCHANGED <<localVars, heardVars, gameVars, used, alive, calls, dups>>

---------------------------------------------------------------------------
Step(n) ==
  \/ \E name \in Names :
       \/ \E id \in Ids, public \in BOOLEAN : CreateSession(n, name, id, public)
       \/ \E public \in BOOLEAN : UpdateSession(n, name, public)
       \/ DestroySession(n, name) \/ JoinSession(n, name)
       \/ StartSession(n, name) \/ EndSession(n, name)
       \/ \E p \in Nodes : RegisterPlayers(n, name, p) \/ UnregisterPlayers(n, name, p)
       \/ \E to \in alive \ {n} : SendInvite(n, name, to)
  \/ PeriodicAnnounce(n) \/ CopyDetails(n) \/ Exit(n)
  \/ \E i \in DOMAIN invites[n] : RejectInvite(n, i)
  \/ \E id \in Ids : BeginJoinFromOverlay(n, id)
  \/ \E i \in DOMAIN uiEvents[n] : CopyDetailsByUiEventId(n, i) \/ AcknowledgeUiEvent(n, i)

Next == (\E n \in Nodes : Step(n)) \/ (\E d \in net : OnDatagram(d) \/ Lose(d))

Spec == Init /\ [][Next]_vars

---------------------------------------------------------------------------
(* Properties.                                                             *)

Record ==
  [id : Ids, owner : Nodes, public : BOOLEAN, players : Seq(Nodes),
   state : {"Pending", "InProgress", "Ended"}, version : Nat \ {0}, host : Nodes \cup {NoNode}]

Kept == Record \cup {NoSession}

Message ==
  [type : {"SessionAnnounce"}, from : Nodes, rec : Record]
    \cup [type : {"SessionWithdraw"}, id : Ids]
    \cup [type : {"SessionInvite"}, id : Ids, from : Nodes]

\* The tables have their types, a name in Owned_ stands for a session in
\* Local_, and Known_ files a record under its own id.
TypeOK ==
  /\ local \in [Nodes -> [Names -> Kept]]
  /\ \A n \in Nodes : owned[n] \subseteq {name \in Names : Exists(local[n][name])}
  /\ known \in [Nodes -> [Ids -> Kept]]
  /\ \A n \in Nodes, id \in Ids : Exists(known[n][id]) =>
       known[n][id].id = id /\ known[n][id].public /\ IsInjective(known[n][id].players)
  /\ invites \in [Nodes -> Seq([id : Ids, from : Nodes])]
  /\ uiEvents \in [Nodes -> Seq(Record)]
  /\ details \in [Nodes -> Kept]
  /\ used \subseteq Ids /\ alive \subseteq Nodes
  /\ \A d \in net : d.to \in Nodes /\ d.msg \in Message
  /\ calls \in 0 .. MaxCalls /\ dups \in 0 .. MaxDuplicates

\* Sessions.cpp, header: the host address "carries the LAN endpoint, which is
\* exactly where a joiner reads it back".  Whoever announced it, and through
\* however many joined copies it travelled, a discovered session carries the
\* address of the node that created it.
HostIsOwner ==
  \A n \in Nodes, id \in Ids : Exists(known[n][id]) => known[n][id].host = known[n][id].owner

Hosts(id) ==
  {h \in Nodes \X Names : h[2] \in owned[h[1]] /\ local[h[1]][h[2]].id = id}

\* "the owner broadcasts a SessionAnnounce (periodically + on change) and every
\* node caches it": while one node alone hosts a public session, every other
\* node ends up with its record, whatever was lost, late or announced by a
\* node that had joined.
SearchersConverge ==
  \A id \in Ids, o \in Nodes, name \in Names :
    <>[](Hosts(id) = {<<o, name>>} /\ local[o][name].public) =>
      <>[](/\ Exists(local[o][name])
          /\ \A n \in alive \ {o} : known[n][id] = Stamped(local[o][name], o))

\* What Tick and the LAN guarantee: a node keeps announcing what it hosts, and
\* of the announces of a session a node keeps sending to another some arrive.
Fairness ==
  /\ \A n \in Nodes : WF_vars(PeriodicAnnounce(n))
  /\ \A o \in Nodes : \A n \in Nodes \ {o}, id \in Ids :
       SF_vars(\E d \in net : /\ d.to = n /\ d.msg.type = "SessionAnnounce"
                             /\ d.msg.from = o /\ d.msg.rec.id = id /\ OnDatagram(d))

FairSpec == Spec /\ Fairness
===========================================================================
