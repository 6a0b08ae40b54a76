------------------------------ MODULE Lobby ------------------------------
(***************************************************************************)
(* The replication of one lobby over the LAN (src/interfaces/Lobby.cpp).   *)
(* A node that owns the lobby holds the authoritative LobbyRecord and      *)
(* broadcasts it; every other node caches what it hears, and members ask   *)
(* the owner for changes by unicast.                                       *)
(*                                                                         *)
(* Every handler reads and writes the state below under Mutex_, so a       *)
(* handler is one action.  What it sends goes out after the unlock; a      *)
(* datagram that is sent later is one that spent longer in the network,    *)
(* which loses, delays, reorders and duplicates (a broadcast goes to the   *)
(* limited and to each directed broadcast address).                        *)
(*                                                                         *)
(* The data of a record is reduced to what the handlers decide on: its     *)
(* settings to MaxMembers and host migration, the attributes of a member   *)
(* to one flag.  Notifications to the game are left out.                   *)
(***************************************************************************)
EXTENDS Integers, FiniteSets, SequencesExt

CONSTANTS
  Nodes,          \* the processes on the LAN, one local user each
  NoNode,         \* not a node: an endpoint that is not valid
  Sizes,          \* values the game gives MaxMembers
  MaxCalls,       \* bound: EOS_Lobby_* calls and exits in a behaviour
  MaxDuplicates   \* bound: deliveries after which a datagram is delivered again

ASSUME LobbyAssumption ==
  /\ NoNode \notin Nodes
  /\ Sizes \subseteq Nat
  /\ MaxCalls \in Nat
  /\ MaxDuplicates \in Nat

VARIABLES
  created,    \* CreateLobby has minted the lobby id
  known,      \* Known_: each node's copy of the record, or NoLobby
  memberOf,   \* the nodes that have the lobby in MemberOf_
  owned,      \* the nodes that have the lobby in Owned_
  details,    \* the record in the LobbyDetails handle the game holds, or NoLobby
  alive,      \* the nodes whose process runs
  net,        \* datagrams in flight
  calls, dups \* bounds used up

nodeVars == <<known, memberOf, owned>>
vars == <<created, nodeVars, details, alive, net, calls, dups>>

---------------------------------------------------------------------------
(* LobbyRecord.  Version starts at 1, so version 0 is no record at all.    *)

NoLobby == [version |-> 0]
Knows(n) == known[n].version > 0

IsMember(rec, p) == p \in ToSet(rec.members)

AvailableSlots(rec) == IF rec.max > Len(rec.members) THEN rec.max - Len(rec.members) ELSE 0

\* The optimistic join, and the owner's: a member without attributes.
WithMember(rec, p) ==
  IF IsMember(rec, p) THEN rec ELSE [rec EXCEPT !.members = Append(@, p)]

MutWithoutMemberKeepsFlag(rec, p) ==
  IF IsMember(rec, p)
  THEN [rec EXCEPT !.members = RemoveAt(@, CHOOSE i \in DOMAIN @ : @[i] = p)]
  ELSE rec

WithoutMember(rec, p) ==
  IF IsMember(rec, p)
  THEN [rec EXCEPT !.members = RemoveAt(@, CHOOSE i \in DOMAIN @ : @[i] = p),
                   !.flagged = @ \ {p}]
  ELSE rec

\* ApplyMemberAttrs, on the member's own entry.
WithFlag(rec, p, on) ==
  IF ~IsMember(rec, p) THEN rec
  ELSE [rec EXCEPT !.flagged = IF on THEN @ \cup {p} ELSE @ \ {p}]

Bumped(rec) == [rec EXCEPT !.version = @ + 1]
OwnedBy(rec, p) == [rec EXCEPT !.owner = p]

---------------------------------------------------------------------------
(* Datagrams.  HostEndpoint is not serialized: the receiver fills it in.   *)

Announce(n, rec) == [type |-> "LobbyAnnounce", from |-> n, rec |-> [rec EXCEPT !.host = NoNode]]
Leave(subject, status) == [type |-> "LobbyLeave", subject |-> subject, status |-> status]
JoinRequest(p) == [type |-> "LobbyJoinRequest", joiner |-> p]
Update(p, on) == [type |-> "LobbyUpdate", member |-> p, on |-> on]

\* A node drops its own broadcasts by their SenderTag.
Broadcast(n, m) == {[to |-> d, msg |-> m] : d \in alive \ {n}}

\* SendTo, by callers that check Endpoint.Valid() first.
Unicast(to, m) == IF to = NoNode THEN {} ELSE {[to |-> to, msg |-> m]}

Send(out) == net' = net \cup out /\ UNCHANGED dups

\* The handler of d takes it from the network, or the network keeps a copy.
Receive(d, out) ==
  \/ net' = (net \ {d}) \cup out /\ UNCHANGED dups
  \/ dups < MaxDuplicates /\ dups' = dups + 1 /\ net' = net \cup out

\* A game calls into the interface.
Call(n) == n \in alive /\ calls < MaxCalls /\ calls' = calls + 1

Store(n, rec) == known' = [known EXCEPT ![n] = rec]

---------------------------------------------------------------------------
Init ==
  /\ created = FALSE
  /\ known = [n \in Nodes |-> NoLobby]
  /\ memberOf = {} /\ owned = {}
  /\ details = [n \in Nodes |-> NoLobby]
  /\ alive = Nodes
  /\ net = {} /\ calls = 0 /\ dups = 0

CreateLobby(n, max, migrates) ==
  /\ Call(n)
  /\ ~created /\ created' = TRUE
  /\ LET rec == [version |-> 1, owner |-> n, members |-> <<n>>, flagged |-> {},
                 max |-> max, migrates |-> migrates, host |-> NoNode]
     IN Store(n, rec) /\ Send(Broadcast(n, Announce(n, rec)))
  /\ memberOf' = memberOf \cup {n} /\ owned' = owned \cup {n}
  /\ UNCHANGED <<details, alive>>

\* UpdateLobby by the owner: any settings, and its own attributes.
UpdateAsOwner(n, max, on) ==
  /\ Call(n)
  /\ n \in owned
  /\ LET rec == Bumped(WithFlag([known[n] EXCEPT !.max = max], n, on))
     IN Store(n, rec) /\ Send(Broadcast(n, Announce(n, rec)))
  /\ UNCHANGED <<created, memberOf, owned, details, alive>>

\* UpdateLobby by another member, of its own attributes only: applied here
\* at once, and forwarded to the owner.
UpdateAsMember(n, on) ==
  /\ Call(n)
  /\ Knows(n) /\ n \in memberOf \ owned
  /\ Store(n, WithFlag(known[n], n, on))
  /\ Send(Unicast(known[n].host, Update(n, on)))
  /\ UNCHANGED <<created, memberOf, owned, details, alive>>

DestroyLobby(n) ==
  /\ Call(n)
  /\ n \in owned
  /\ Store(n, NoLobby)
  /\ memberOf' = memberOf \ {n} /\ owned' = owned \ {n}
  /\ Send(Broadcast(n, Leave(n, "CLOSED")))
  /\ UNCHANGED <<created, details, alive>>

\* LobbySearch_Find or an invite, then a CopyLobbyDetails call: the game
\* holds a copy of the record that nothing refreshes.
CopyDetails(n) ==
  /\ n \in alive
  /\ Knows(n)
  /\ details' = [details EXCEPT ![n] = known[n]]
  /\ UNCHANGED <<created, nodeVars, alive, net, calls, dups>>

JoinLobby(n) ==
  /\ Call(n)
  /\ details[n] # NoLobby
  /\ Store(n, WithMember(IF Knows(n) THEN known[n] ELSE details[n], n))
  /\ memberOf' = memberOf \cup {n}
  /\ Send(Unicast(details[n].host, JoinRequest(n)))
  /\ UNCHANGED <<created, owned, details, alive>>

JoinLobbyById(n) ==
  /\ Call(n)
  /\ Knows(n)
  /\ Store(n, WithMember(known[n], n))
  /\ memberOf' = memberOf \cup {n}
  /\ Send(Unicast(known[n].host, JoinRequest(n)))
  /\ UNCHANGED <<created, owned, details, alive>>

\* With host migration the first remaining member is told, once, that it owns
\* the lobby; without it the lobby is left behind without an owner.
LeaveLobby(n) ==
  LET rest == WithoutMember(known[n], n)
      migrate == n \in owned /\ rest.migrates /\ rest.members # <<>>
      handed == Bumped(OwnedBy(rest, Head(rest.members)))
  IN /\ Call(n)
     /\ Knows(n) /\ n \in memberOf
     /\ Store(n, IF migrate THEN handed ELSE NoLobby)
     /\ memberOf' = memberOf \ {n} /\ owned' = owned \ {n}
     /\ Send(Broadcast(n, Leave(n, "LEFT"))
             \cup IF migrate THEN Broadcast(n, Announce(n, handed)) ELSE {})
     /\ UNCHANGED <<created, details, alive>>

PromoteMember(n, p) ==
  /\ Call(n)
  /\ n \in owned /\ IsMember(known[n], p)
  /\ LET rec == Bumped(OwnedBy(known[n], p))
     IN Store(n, rec) /\ Send(Broadcast(n, Announce(n, rec)))
  /\ owned' = owned \ {n}
  /\ UNCHANGED <<created, memberOf, details, alive>>

KickMember(n, p) ==
  /\ Call(n)
  /\ n \in owned
  /\ LET rec == Bumped(WithoutMember(known[n], p))
     IN /\ Store(n, rec)
        /\ Send(Broadcast(n, Leave(p, "KICKED")) \cup Broadcast(n, Announce(n, rec)))
  /\ UNCHANGED <<created, memberOf, owned, details, alive>>

\* From EOS_Platform_Tick, every two seconds.
PeriodicAnnounce(n) ==
  /\ n \in alive \cap owned
  /\ Send(Broadcast(n, Announce(n, known[n])))
  /\ UNCHANGED <<created, nodeVars, details, alive, calls>>

\* The process ends.  Nothing in the interface tells the other nodes.
Exit(n) ==
  /\ Call(n)
  /\ alive' = alive \ {n}
  /\ Store(n, NoLobby)
  /\ memberOf' = memberOf \ {n} /\ owned' = owned \ {n}
  /\ details' = [details EXCEPT ![n] = NoLobby]
  /\ net' = {d \in net : d.to # n}
  /\ UNCHANGED <<created, dups>>

---------------------------------------------------------------------------
(* OnDatagram, on node n = d.to.                                           *)

\* An owner ignores announces.  Everybody else takes what it hears, whatever
\* its version, and a member that is named the owner takes over.
MutTakesAlways(n, fresh) == TRUE
MutTakesNewer(n, fresh) == n \notin owned /\ fresh.version > known[n].version

Takes(n, fresh) == n \notin owned

OnAnnounce(n, d) ==
  LET m == d.msg
      fresh == [m.rec EXCEPT !.host = m.from]
  IN /\ m.type = "LobbyAnnounce"
     /\ IF Takes(n, fresh)
        THEN /\ Store(n, fresh)
             /\ owned' = IF n \in memberOf /\ fresh.owner = n THEN owned \cup {n} ELSE owned
             /\ UNCHANGED memberOf
        ELSE UNCHANGED nodeVars
     /\ Receive(d, {})

\* The owner merges a member's attributes and announces.
OnUpdate(n, d) ==
  LET m == d.msg
      rec == Bumped(WithFlag(known[n], m.member, m.on))
  IN /\ m.type = "LobbyUpdate"
     /\ IF n \in owned /\ IsMember(known[n], m.member)
        THEN Store(n, rec) /\ Receive(d, Broadcast(n, Announce(n, rec)))
        ELSE UNCHANGED known /\ Receive(d, {})
     /\ UNCHANGED <<memberOf, owned>>

Admits(rec, p) == ~IsMember(rec, p) /\ AvailableSlots(rec) > 0

MutAdmittedSilently(rec, p) == [rec EXCEPT !.members = Append(@, p)]

Admitted(rec, p) == Bumped([rec EXCEPT !.members = Append(@, p)])

\* The owner adds the joiner, if there is room, and announces.
OnJoinRequest(n, d) ==
  LET m == d.msg
      rec == Admitted(known[n], m.joiner)
  IN /\ m.type = "LobbyJoinRequest"
     /\ IF n \in owned /\ Admits(known[n], m.joiner)
        THEN Store(n, rec) /\ Receive(d, Broadcast(n, Announce(n, rec)))
        ELSE UNCHANGED known /\ Receive(d, {})
     /\ UNCHANGED <<memberOf, owned>>

OnClosed(n, d) ==
  /\ d.msg.type = "LobbyLeave" /\ d.msg.status = "CLOSED"
  /\ IF Knows(n)
     THEN /\ Store(n, NoLobby)
          /\ memberOf' = memberOf \ {n} /\ owned' = owned \ {n}
     ELSE UNCHANGED nodeVars
  /\ Receive(d, {})

\* A member left or was kicked.  The owner announces, and the subject itself
\* stops being a member.
OnLeave(n, d) ==
  LET m == d.msg
      rest == WithoutMember(known[n], m.subject)
      rec == IF n \in owned THEN Bumped(rest) ELSE rest
  IN /\ m.type = "LobbyLeave" /\ m.status # "CLOSED"
     /\ IF Knows(n)
        THEN /\ Store(n, rec)
             /\ memberOf' = IF m.subject = n THEN memberOf \ {n} ELSE memberOf
             /\ Receive(d, IF n \in owned THEN Broadcast(n, Announce(n, rec)) ELSE {})
        ELSE UNCHANGED <<known, memberOf>> /\ Receive(d, {})
     /\ UNCHANGED owned

OnDatagram(d) ==
  /\ d.to \in alive
  /\ \/ OnAnnounce(d.to, d) \/ OnUpdate(d.to, d) \/ OnJoinRequest(d.to, d)
     \/ OnClosed(d.to, d) \/ OnLeave(d.to, d)
  /\ UNCHANGED <<created, details, alive, calls>>

Lose(d) ==
  /\ net' = net \ {d}
  /\ UNCHANGED <<created, nodeVars, details, alive, calls, dups>>

---------------------------------------------------------------------------
Step(n) ==
  \/ \E max \in Sizes, yes \in BOOLEAN : CreateLobby(n, max, yes) \/ UpdateAsOwner(n, max, yes)
  \/ \E on \in BOOLEAN : UpdateAsMember(n, on)
  \/ DestroyLobby(n) \/ CopyDetails(n) \/ JoinLobby(n) \/ JoinLobbyById(n) \/ LeaveLobby(n)
  \/ \E p \in Nodes : PromoteMember(n, p) \/ KickMember(n, p)
  \/ PeriodicAnnounce(n) \/ Exit(n)

Next == (\E n \in Nodes : Step(n)) \/ (\E d \in net : OnDatagram(d) \/ Lose(d))

Spec == Init /\ [][Next]_vars

---------------------------------------------------------------------------
(* Properties.                                                             *)

Record ==
  [version : Nat \ {0}, owner : Nodes, members : Seq(Nodes), flagged : SUBSET Nodes,
   max : Nat, migrates : BOOLEAN, host : Nodes \cup {NoNode}]

Message ==
  [type : {"LobbyAnnounce"}, from : Nodes, rec : {r \in Record : r.host = NoNode}]
    \cup [type : {"LobbyLeave"}, subject : Nodes, status : {"CLOSED", "LEFT", "KICKED"}]
    \cup [type : {"LobbyJoinRequest"}, joiner : Nodes]
    \cup [type : {"LobbyUpdate"}, member : Nodes, on : BOOLEAN]

\* A record is a lobby as the code keeps it: nobody is listed twice, and the
\* attributes live in the entry of a member, so there are none without it.
Formed(rec) ==
  rec # NoLobby =>
    /\ rec \in Record /\ IsInjective(rec.members)
    /\ rec.flagged \subseteq ToSet(rec.members)

\* Every copy of the record, in a node, a handle or an announce, is well
\* formed, and the bookkeeping has its types.
TypeOK ==
  /\ created \in BOOLEAN
  /\ memberOf \subseteq Nodes /\ owned \subseteq Nodes /\ alive \subseteq Nodes
  /\ DOMAIN known = Nodes /\ DOMAIN details = Nodes
  /\ \A n \in Nodes : Formed(known[n]) /\ Formed(details[n])
  /\ \A d \in net : d.to \in Nodes /\ d.msg \in Message
  /\ \A d \in net : d.msg.type = "LobbyAnnounce" => Formed(d.msg.rec)
  /\ calls \in 0..MaxCalls /\ dups \in 0..MaxDuplicates

\* Known_, MemberOf_ and Owned_ agree: a lobby a node belongs to is one it
\* knows, and a node that owns the lobby is the owner its own record names,
\* through promotions, migrations and announces that arrive late.
AuthorityIsBacked ==
  /\ \A n \in memberOf : Knows(n)
  /\ \A n \in owned : Knows(n) /\ known[n].owner = n

\* The authoritative record changes only under a new version that is announced
\* to everyone.  The exception is an owner that is not in its own record (it
\* kicked itself, or a stale KICKED reached it): when it joins again it changes
\* the record under the old version.
ChangeIsAnnounced ==
  [][\A n \in owned :
       n \in owned' /\ known'[n] # known[n] /\ IsMember(known[n], n) =>
         /\ known'[n].version > known[n].version
         /\ Broadcast(n, Announce(n, known'[n])) \subseteq net']_vars

\* Copies that differ in nothing but the endpoint they came from.
Same(r, s) == r # NoLobby /\ s # NoLobby /\ [r EXCEPT !.host = NoNode] = [s EXCEPT !.host = NoNode]

\* Lobby.cpp:4: the owner announces "on every change and periodically (so late
\* searchers and members converge)".  Once a single node stays the owner, every
\* running node ends up with its record, whatever was lost, late or optimistic.
Converges ==
  \A o \in Nodes :
    <>[](owned = {o}) => <>[](\A n \in alive : Same(known[n], known[o]))

\* What Tick and the LAN guarantee: an owner keeps announcing, and of the
\* announces an owner keeps sending to a node some keep arriving.
Fairness ==
  /\ \A n \in Nodes : WF_vars(PeriodicAnnounce(n))
  /\ \A n, o \in Nodes :
       SF_vars(\E d \in net : /\ d.to = n /\ d.msg.type = "LobbyAnnounce" /\ d.msg.from = o
                             /\ OnDatagram(d))

FairSpec == Spec /\ Fairness

\* Lobby.cpp:4: "the owner holds the authoritative LobbyRecord": there is one.
OneAuthority == Cardinality(owned) <= 1
==========================================================================
