----------------------------- MODULE Platform ----------------------------
(***************************************************************************)
(* The platform object of one process (src/core/Platform.cpp), its peer    *)
(* directory (src/core/Peers.cpp) and the interfaces that show the         *)
(* directory to the game: Presence, Friends and UserInfo.                  *)
(*                                                                         *)
(* Three threads share this state.  The game's thread calls Tick, whose    *)
(* steps are separate actions, and runs the game's callbacks inside Drain; *)
(* the receive thread runs OnDatagram, which changes the directory under   *)
(* its lock and posts a notification afterwards; any thread of the game    *)
(* may call SetPresence, which writes the presence under one lock and      *)
(* marks the Hello dirty afterwards.  The other peers are the environment: *)
(* what they send is lost, late or duplicated as the LAN likes.            *)
(*                                                                         *)
(* A presence (status, rich text, join info, data records and product) is  *)
(* one value; SetPresence, whose setters change parts of it, gives it a    *)
(* new value.  Time is counted in Hello periods of two seconds, and an age  *)
(* saturates where the code stops telling it apart; whether a Hello is due *)
(* when Tick is called is left open.                                       *)
(***************************************************************************)
EXTENDS Dispatcher, FiniteSets, TLC

CONSTANTS
  Peers,            \* the other processes on the LAN
  Nobody,           \* not a peer
  Local,            \* the local user
  Presences,        \* the presence a Hello can announce
  StartPresence,    \* [Presence] RichText of the configuration
  PeerTimeoutSeconds, \* [Network] PeerTimeoutSeconds, 0 when it is not set
  SearchLatency,    \* kSearchLatencyMs, in periods, rounded up
  MaxCalls,         \* bound: queries, searches and SetPresence calls
  MaxPlatforms,     \* bound: EOS_Platform_Create calls that succeed
  MaxPosted         \* bound: closures that wait when a datagram arrives

ASSUME PlatformAssumption ==
  /\ Nobody \notin Peers /\ Local \notin Peers
  /\ StartPresence \in Presences
  /\ PeerTimeoutSeconds \in Nat
  /\ SearchLatency \in Nat
  /\ MaxCalls \in Nat /\ MaxPlatforms \in Nat /\ MaxPosted \in Nat

VARIABLES
  sdk,          \* "fresh", "initialized" or "shutdown": the lifecycle flags
  platforms,    \* platforms created so far; g_Platform is live or null
  live,
  peers,        \* Peers_: what the directory holds of each peer
  blob,         \* LocalPresence_: the local user's presence that Hello carries
  helloDirty,   \* HelloDirty_
  heard,        \* the presence of our last Hello
  setter,       \* where SetPresence is: "idle", "written" or "marked"
  at,           \* where Tick is
  gone,         \* peers that MarkStale returned and Tick has yet to announce
  rx,           \* the peer the receive thread has yet to announce
  observing,    \* an OnPresenceChanged handler is registered
  view,         \* what the game has read of the presence of each peer
  befriended,   \* the peers the game has listed or looked up as friends
  left,         \* peers that have stopped for ever
  calls

lifecycleVars == <<sdk, platforms, live>>
ownVars == <<blob, helloDirty, setter>>
tickVars == <<at, gone>>
gameVars == <<observing, view, befriended>>
vars == <<lifecycleVars, dispatchVars, peers, ownVars, heard, tickVars,
          rx, gameVars, left, calls>>

---------------------------------------------------------------------------
(* Configure: the liveness timeout, clamped.                               *)

Period == 2   \* seconds

PeerTimeout ==
  LET seconds == IF PeerTimeoutSeconds = 0 THEN 10
                 ELSE IF PeerTimeoutSeconds < 4 THEN 4 ELSE PeerTimeoutSeconds
  IN seconds \div Period

(* PeerInfo.  An age is kept while the peer is online, which is as long as *)
(* MarkStale compares it.                                                  *)

Stranger == [known |-> FALSE]
Online(presence) == [known |-> TRUE, online |-> TRUE, presence |-> presence, age |-> 0]
Offline(info) == [info EXCEPT !.online = FALSE, !.age = 0]

Known(p) == peers[p].known
IsOnline(p) == Known(p) /\ peers[p].online

\* FindByEpic: every Hello names the Epic account of its sender.
FindByEpic(p) == Known(p)

\* CopyPresence: an offline peer keeps what it last announced, and reads offline.
CopyPresence(p) ==
  IF FindByEpic(p) THEN [online |-> peers[p].online, presence |-> peers[p].presence]
  ELSE Stranger

\* The friends are the peers of the directory that have a name to list.
FriendSnapshot == {p \in Peers : FindByEpic(p)}

GetStatus(p) == IF FindByEpic(p) THEN "Friends" ELSE "NotFriends"

\* CopyUserInfo of a peer: its display name, or EOS_NotFound.
DisplayNameFor(p) == IF FindByEpic(p) THEN {p} ELSE {}

---------------------------------------------------------------------------
(* The closures that are posted.                                           *)

PresenceChanged(who) == [kind |-> "presence", who |-> who]
SetPresenceDone == [kind |-> "set", who |-> Local]
QueryDone(who) == [kind |-> "query", who |-> who]
InfoDone(who) == [kind |-> "info", who |-> who]
ListDone == [kind |-> "list", who |-> Local]
FindDone == [kind |-> "find", who |-> Local]

\* NotifyPresenceChanged: the handlers are those registered at this moment.
NotifyPresenceChanged(who) == IF observing THEN <<PresenceChanged(who)>> ELSE <<>>

---------------------------------------------------------------------------
(* The lifecycle of the SDK and of its one platform.                       *)

NewPlatform ==
  /\ peers' = [p \in Peers |-> Stranger]
  /\ blob' = StartPresence
  /\ helloDirty' = FALSE /\ heard' = "none"
  /\ observing' = FALSE /\ view' = [p \in Peers |-> Stranger]
  /\ befriended' = {}

EOS_Initialize ==
  /\ sdk = "fresh"
  /\ sdk' = "initialized"
  /\ UNCHANGED <<platforms, live, dispatchVars, peers, ownVars, heard,
                 tickVars, rx, gameVars, left, calls>>

\* The game releases its platform first; the code does not insist.
EOS_Shutdown ==
  /\ sdk = "initialized" /\ ~live
  /\ sdk' = "shutdown"
  /\ UNCHANGED <<platforms, live, dispatchVars, peers, ownVars, heard,
                 tickVars, rx, gameVars, left, calls>>

EOS_Platform_Create ==
  /\ sdk = "initialized" /\ ~live
  /\ platforms < MaxPlatforms
  /\ live' = TRUE /\ platforms' = platforms + 1
  /\ NewPlatform
  /\ UNCHANGED <<sdk, dispatchVars, setter, tickVars, rx, left, calls>>

MutReleaseBeforeJoin ==
  /\ live /\ at = "idle" /\ ~draining /\ setter = "idle"
  /\ live' = FALSE
  /\ Discarded
  /\ NewPlatform
  /\ UNCHANGED <<sdk, platforms, setter, tickVars, rx, left, calls>>

\* delete P: Goodbye goes out, the receive thread is joined, the queue dies.
\* The game releases between frames, with no other call in progress.
EOS_Platform_Release ==
  /\ live /\ at = "idle" /\ ~draining /\ setter = "idle" /\ rx = Nobody
  /\ live' = FALSE
  /\ Discarded
  /\ NewPlatform
  /\ UNCHANGED <<sdk, platforms, setter, tickVars, rx, left, calls>>

---------------------------------------------------------------------------
(* The receive thread.                                                     *)

\* Peers_.Observe, from a Hello of a peer that is still there.
MutChangesContentOnly(p, presence) == ~Known(p) \/ peers[p].presence # presence

Changes(p, presence) == ~IsOnline(p) \/ peers[p].presence # presence

Observe(p, presence) ==
  /\ peers' = [peers EXCEPT ![p] = Online(presence)]
  /\ rx' = IF Changes(p, presence) THEN p ELSE Nobody

OnHello(p, presence) ==
  /\ live /\ rx = Nobody /\ p \notin left
  /\ Len(pending) < MaxPosted
  /\ Observe(p, presence)
  /\ UNCHANGED <<lifecycleVars, dispatchVars, ownVars, heard, tickVars,
                 gameVars, left, calls>>

\* Peers_.MarkOffline: only the transition is announced.
OnGoodbye(p) ==
  /\ live /\ rx = Nobody /\ IsOnline(p)
  /\ Len(pending) < MaxPosted
  /\ peers' = [peers EXCEPT ![p] = Offline(@)]
  /\ rx' = p
  /\ UNCHANGED <<lifecycleVars, dispatchVars, ownVars, heard, tickVars,
                 gameVars, left, calls>>

\* After the directory is unlocked, the observers are posted.
RxNotify ==
  /\ rx # Nobody
  /\ Post(NotifyPresenceChanged(rx))
  /\ rx' = Nobody
  /\ UNCHANGED <<lifecycleVars, delayed, ready, draining, peers,
                 ownVars, heard, tickVars, gameVars, left, calls>>

\* A peer crashes or leaves for good; it may or may not say Goodbye.
Leave(p) ==
  /\ p \notin left
  /\ left' = left \cup {p}
  /\ UNCHANGED <<lifecycleVars, dispatchVars, peers, ownVars, heard,
                 tickVars, rx, gameVars, calls>>

Older(age, limit) == IF age < limit THEN age + 1 ELSE limit

PeriodPasses ==
  /\ live
  /\ peers' = [p \in Peers |->
       IF IsOnline(p) THEN [peers[p] EXCEPT !.age = Older(@, PeerTimeout + 1)]
       ELSE peers[p]]
  /\ delayed' = Elapsed
  /\ UNCHANGED <<lifecycleVars, pending, ready, draining, ownVars,
                 heard, tickVars, rx, gameVars, left, calls>>

---------------------------------------------------------------------------
(* Platform::Tick, on the game's thread.  The periodic announces of the    *)
(* lobbies and sessions, and the pumps of P2P, RTC and UI, are the subject *)
(* of those modules.                                                       *)

TickBegins ==
  /\ live /\ at = "idle" /\ ~draining
  /\ \E helloDue \in BOOLEAN :
       at' = IF helloDirty \/ helloDue THEN "hello" ELSE "stale"
  /\ helloDirty' = FALSE
  /\ UNCHANGED <<lifecycleVars, dispatchVars, peers, blob, setter, heard,
                 gone, rx, gameVars, left, calls>>

BroadcastHello ==
  /\ at = "hello"
  /\ heard' = blob
  /\ at' = "stale"
  /\ UNCHANGED <<lifecycleVars, dispatchVars, peers, ownVars, gone,
                 rx, gameVars, left, calls>>

Stale(p) == IsOnline(p) /\ peers[p].age > PeerTimeout

MarkStale ==
  /\ at = "stale"
  /\ gone' = {p \in Peers : Stale(p)}
  /\ peers' = [p \in Peers |-> IF Stale(p) THEN Offline(peers[p]) ELSE peers[p]]
  /\ at' = "notify"
  /\ UNCHANGED <<lifecycleVars, dispatchVars, ownVars, heard, rx, gameVars,
                 left, calls>>

MutNotifyNobody(p) ==
  /\ at = "notify" /\ p \in gone
  /\ gone' = gone \ {p}
  /\ UNCHANGED <<lifecycleVars, dispatchVars, peers, ownVars, heard, at, rx,
                 gameVars, left, calls>>

NotifyPeerOffline(p) ==
  /\ at = "notify" /\ p \in gone
  /\ gone' = gone \ {p}
  /\ Post(NotifyPresenceChanged(p))
  /\ UNCHANGED <<lifecycleVars, delayed, ready, draining, peers,
                 ownVars, heard, at, rx, gameVars, left, calls>>

DrainBegins ==
  /\ at = "notify" /\ gone = {}
  /\ Drain
  /\ at' = "idle"
  /\ UNCHANGED <<lifecycleVars, peers, ownVars, heard, gone, rx, gameVars,
                 left, calls>>

\* The callback of the closure at the head.  OnPresenceChanged reads the
\* presence of the peer; the completions of the queries list the friends and
\* look up a name; that of a presence query may ask for the next user at once,
\* which is how a game polls.
MutRunTaskInBatch ==
  /\ draining /\ ready # <<>>
  /\ UNCHANGED <<view, befriended>>
  /\ \/ ready' = Tail(ready)
     \/ /\ Head(ready).kind = "query"
        /\ \E who \in Peers \cup {Local} : ready' = Append(Tail(ready), QueryDone(who))
  /\ UNCHANGED <<lifecycleVars, pending, delayed, draining, peers, ownVars,
                 heard, tickVars, rx, observing, left, calls>>

RunTask ==
  /\ draining /\ ready # <<>>
  /\ LET task == Head(ready) IN
     /\ \/ Work(<<>>)
        \/ task.kind = "query" /\ \E who \in Peers \cup {Local} : Work(<<QueryDone(who)>>)
     /\ view' = IF task.kind = "presence" /\ task.who \in Peers
                THEN [view EXCEPT ![task.who] = CopyPresence(task.who)] ELSE view
     /\ befriended' = CASE task.kind = "list" -> befriended \cup FriendSnapshot
                        [] task.kind = "info" -> befriended \cup DisplayNameFor(task.who)
                        [] OTHER -> befriended
  /\ UNCHANGED <<lifecycleVars, peers, ownVars, heard, tickVars, rx,
                 observing, left, calls>>

TickReturns ==
  /\ DrainReturns
  /\ UNCHANGED <<lifecycleVars, peers, ownVars, heard, tickVars, rx,
                 gameVars, left, calls>>

---------------------------------------------------------------------------
(* The calls of the game, between frames or inside a callback.             *)

InGame == live /\ at = "idle"
Call == calls < MaxCalls /\ calls' = calls + 1

\* The game registers its handler and reads what is there already.
AddNotifyOnPresenceChanged ==
  /\ InGame /\ ~observing
  /\ observing' = TRUE
  /\ view' = [p \in Peers |-> CopyPresence(p)]
  /\ UNCHANGED <<lifecycleVars, dispatchVars, peers, ownVars, heard,
                 tickVars, rx, befriended, left, calls>>

\* What was posted before still runs.
RemoveNotifyOnPresenceChanged ==
  /\ InGame /\ observing
  /\ observing' = FALSE
  /\ UNCHANGED <<lifecycleVars, dispatchVars, peers, ownVars, heard,
                 tickVars, rx, view, befriended, left, calls>>

QueryPresence(p) ==
  /\ InGame /\ Call
  /\ Post(<<QueryDone(p)>>)
  /\ UNCHANGED <<lifecycleVars, delayed, ready, draining, peers,
                 ownVars, heard, tickVars, rx, gameVars, left>>

\* QueryFriends, and the invite calls that LAN friends do not need.
QueryFriends ==
  /\ InGame /\ Call
  /\ Post(<<ListDone>>)
  /\ UNCHANGED <<lifecycleVars, delayed, ready, draining, peers,
                 ownVars, heard, tickVars, rx, gameVars, left>>

QueryUserInfo(p) ==
  /\ InGame /\ Call
  /\ Post(<<InfoDone(p)>>)
  /\ UNCHANGED <<lifecycleVars, delayed, ready, draining, peers,
                 ownVars, heard, tickVars, rx, gameVars, left>>

EOS_LobbySearch_Find ==
  /\ InGame /\ Call
  /\ PostAfter(SearchLatency, FindDone)
  /\ UNCHANGED <<lifecycleVars, pending, ready, draining, peers,
                 ownVars, heard, tickVars, rx, gameVars, left>>

---------------------------------------------------------------------------
(* SetPresence, on any thread: the interface's mutex is held up to the     *)
(* dirty mark; the observers are posted after that.                        *)

SetPresence(presence) ==
  /\ live /\ setter = "idle" /\ Call
  /\ blob' = presence
  /\ setter' = "written"
  /\ UNCHANGED <<lifecycleVars, dispatchVars, peers, helloDirty, heard,
                 tickVars, rx, gameVars, left>>

MutMarkHello ==
  /\ setter = "written"
  /\ setter' = "marked"
  /\ UNCHANGED <<lifecycleVars, dispatchVars, peers, blob, helloDirty,
                 heard, tickVars, rx, gameVars, left, calls>>

MarkHello ==
  /\ setter = "written"
  /\ helloDirty' = TRUE
  /\ setter' = "marked"
  /\ UNCHANGED <<lifecycleVars, dispatchVars, peers, blob, heard,
                 tickVars, rx, gameVars, left, calls>>

SetPresencePosts ==
  /\ setter = "marked"
  /\ Post(NotifyPresenceChanged(Local) \o <<SetPresenceDone>>)
  /\ setter' = "idle"
  /\ UNCHANGED <<lifecycleVars, delayed, ready, draining, peers,
                 blob, helloDirty, heard, tickVars, rx, gameVars, left, calls>>

---------------------------------------------------------------------------
Init ==
  /\ sdk = "fresh" /\ platforms = 0 /\ live = FALSE
  /\ DispatcherInit
  /\ peers = [p \in Peers |-> Stranger]
  /\ blob = StartPresence /\ helloDirty = FALSE /\ setter = "idle"
  /\ heard = "none"
  /\ at = "idle" /\ gone = {} /\ rx = Nobody
  /\ observing = FALSE /\ view = [p \in Peers |-> Stranger] /\ befriended = {}
  /\ left = {} /\ calls = 0

Lifecycle ==
  EOS_Initialize \/ EOS_Shutdown \/ EOS_Platform_Create \/ EOS_Platform_Release

\* OnDatagram, and the silence of a peer.
Network ==
  \/ \E p \in Peers : OnGoodbye(p) \/ Leave(p)
  \/ \E p \in Peers, presence \in Presences : OnHello(p, presence)

Tick ==
  \/ TickBegins \/ BroadcastHello \/ MarkStale
  \/ \E p \in Peers : NotifyPeerOffline(p)
  \/ DrainBegins \/ RunTask \/ TickReturns

GameCalls ==
  \/ AddNotifyOnPresenceChanged \/ RemoveNotifyOnPresenceChanged
  \/ \E p \in Peers : QueryPresence(p) \/ QueryUserInfo(p)
  \/ QueryFriends \/ EOS_LobbySearch_Find
  \/ \E presence \in Presences : SetPresence(presence)

Next ==
  \/ Lifecycle \/ Network \/ RxNotify \/ PeriodPasses \/ Tick \/ GameCalls
  \/ MarkHello \/ SetPresencePosts

Spec == Init /\ [][Next]_vars

\* A game calls EOS_Platform_Tick every frame and every callback returns, a
\* thread that has begun a call goes on, and time passes.
Fairness ==
  /\ WF_vars(Tick) /\ WF_vars(PeriodPasses) /\ WF_vars(RxNotify)
  /\ WF_vars(MarkHello) /\ WF_vars(SetPresencePosts)

FairSpec == Spec /\ Fairness

---------------------------------------------------------------------------
(* Properties.                                                             *)

Infos == {Stranger} \cup [known : {TRUE}, online : BOOLEAN, presence : Presences,
                          age : 0..PeerTimeout + 1]
Views == {Stranger} \cup [online : BOOLEAN, presence : Presences]
Tasks == [kind : {"presence", "set", "query", "info", "list", "find"},
          who : Peers \cup {Local}]

\* The type of the state, and what the positions of the threads imply: Tick
\* has peers to announce only between MarkStale and Drain, a batch exists only
\* inside Drain, and without a platform no thread is in the library.
TypeOK ==
  /\ sdk \in {"fresh", "initialized", "shutdown"}
  /\ platforms \in 0..MaxPlatforms /\ live \in BOOLEAN
  /\ ToSet(Line) \subseteq Tasks
  /\ \A i \in DOMAIN delayed : delayed[i].wait \in 0..SearchLatency /\ delayed[i].work \in Tasks
  /\ ~draining => ready = <<>>
  /\ peers \in [Peers -> Infos]
  /\ blob \in Presences /\ helloDirty \in BOOLEAN
  /\ heard \in Presences \cup {"none"}
  /\ setter \in {"idle", "written", "marked"}
  /\ at \in {"idle", "hello", "stale", "notify"}
  /\ gone \subseteq Peers /\ (gone # {} => at = "notify" /\ ~draining)
  /\ rx \in Peers \cup {Nobody}
  /\ observing \in BOOLEAN /\ view \in [Peers -> Views]
  /\ befriended \subseteq Peers /\ left \subseteq Peers /\ calls \in 0..MaxCalls
  /\ ~live => at = "idle" /\ ~draining /\ rx = Nobody /\ setter = "idle" /\ pending = <<>>

Announcing(p) ==
  \/ rx = p \/ p \in gone
  \/ PresenceChanged(p) \in ToSet(Line)

\* The game is not left with a stale friend: while it observes presence, what
\* it last read of a peer is what the directory holds, or a notification for
\* that peer is still to run.  This is why Observe reports a peer that comes
\* back with the same presence (Peers.cpp:20-23), and why Tick announces what
\* MarkStale returns.  And whom it has listed or looked up stays a friend
\* through silence and return (Platform.cpp:450).
PresenceSettled ==
  /\ observing => \A p \in Peers : view[p] = CopyPresence(p) \/ Announcing(p)
  /\ \A p \in befriended : GetStatus(p) = "Friends"

\* A presence that the game has set is announced: once the LAN has heard a
\* Hello, it has heard the current presence, or the Hello is dirty, or the
\* thread that sets it has yet to mark it, or Tick is about to read it
\* (Platform.cpp:434, and SetLocalPresence in Platform.h).
PresenceAnnounced ==
  heard = "none" \/ heard = blob \/ helloDirty \/ setter = "written" \/ at = "hello"

\* "so a self-reposting task cannot starve the frame" (Dispatch.h:50): a
\* frame ends although the callbacks query again each time they complete.
FrameEnds == draining ~> ~draining

\* A friend that has stopped for ever, without a Goodbye or with one that was
\* lost, is one day read as offline by a game that observes presence
\* (Platform.cpp:447-455).
SilentIsSeen ==
  \A p \in Peers :
    (p \in left /\ observing) ~> (~observing \/ view[p] = Stranger \/ ~view[p].online)
==========================================================================
