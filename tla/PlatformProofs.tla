-------------------------- MODULE PlatformProofs -------------------------
(***************************************************************************)
(* Proofs about the platform object, for any number of peers, presences,   *)
(* calls and closures and any timeout and delay: its state keeps its type, *)
(* a game that observes presence is not left with a stale friend, what it  *)
(* sets is announced, and the closures run in one line.                    *)
(*                                                                         *)
(* PresenceSettled counts on a notification that is still to run, and the  *)
(* line where it waits is changed by Tick, by the receive thread and by    *)
(* the thread that calls SetPresence; so it needs to know what each        *)
(* critical section of the Dispatcher does to the line (DispatcherProofs), *)
(* where Tick can be while a batch runs, and that the peers MarkStale      *)
(* returned have been announced before the next Drain.                     *)
(***************************************************************************)
EXTENDS Platform, DispatcherProofs

\* The closures the interfaces post.
Closures == {t \in Tasks : t.kind = "info" => t.who \in Peers}

LifeInv ==
  /\ sdk \in {"fresh", "initialized", "shutdown"}
  /\ platforms \in 0 .. MaxPlatforms /\ live \in BOOLEAN
  /\ left \subseteq Peers /\ calls \in 0 .. MaxCalls

QueueInv == QueueOf(Closures, SearchLatency)

DirectoryInv == peers \in [Peers -> Infos]

OwnInv ==
  /\ blob \in Presences /\ helloDirty \in BOOLEAN
  /\ heard \in Presences \cup {"none"}
  /\ setter \in {"idle", "written", "marked"}

\* Tick is not inside Drain while it is on its way there, it has peers to
\* announce only before Drain, and without a platform no thread is in the library.
ThreadInv ==
  /\ at \in {"idle", "hello", "stale", "notify"}
  /\ at # "idle" => ~draining
  /\ gone \subseteq Peers /\ (gone # {} => at = "notify")
  /\ rx \in Peers \cup {Nobody}
  /\ ~live => at = "idle" /\ ~draining /\ rx = Nobody /\ setter = "idle" /\ pending = <<>>

GameInv == observing \in BOOLEAN /\ view \in [Peers -> Views] /\ befriended \subseteq Peers

TypeInv == LifeInv /\ QueueInv /\ DirectoryInv /\ OwnInv /\ ThreadInv /\ GameInv

IInv == TypeInv /\ PresenceSettled /\ PresenceAnnounced

---------------------------------------------------------------------------
(* The line of closures.                                                   *)

\* What each posting call posts.
LEMMA PostedClosures ==
  ASSUME GameInv
  PROVE  /\ \A p \in Peers \cup {Local} :
              <<QueryDone(p)>> \in Seq(Closures) /\ NotifyPresenceChanged(p) \in Seq(Closures)
         /\ \A p \in Peers : <<InfoDone(p)>> \in Seq(Closures)
         /\ <<ListDone>> \in Seq(Closures) /\ <<SetPresenceDone>> \in Seq(Closures)
         /\ FindDone \in Closures /\ <<>> \in Seq(Closures)
<1>1. \A p \in Peers \cup {Local} : QueryDone(p) \in Closures /\ PresenceChanged(p) \in Closures
  BY DEF QueryDone, PresenceChanged, Closures, Tasks
<1>2. \A p \in Peers : InfoDone(p) \in Closures
  BY DEF InfoDone, Closures, Tasks
<1>3. ListDone \in Closures /\ SetPresenceDone \in Closures /\ FindDone \in Closures
  BY DEF ListDone, SetPresenceDone, FindDone, Closures, Tasks
<1>4. \A c \in Closures : <<c>> \in Seq(Closures)
  OBVIOUS
<1>5. <<>> \in Seq(Closures)
  BY EmptySeq
<1>6. \A p \in Peers \cup {Local} : NotifyPresenceChanged(p) \in Seq(Closures)
  BY <1>1, <1>4, <1>5 DEF NotifyPresenceChanged
<1> QED BY <1>1, <1>2, <1>3, <1>4, <1>5, <1>6

\* What a step does to the Dispatcher.
Quiet ==
  /\ UNCHANGED <<pending, ready, draining>>
  /\ delayed' \in Seq([wait : 0 .. SearchLatency, work : Closures])

Posts == \E works \in Seq(Closures) : Post(works) /\ UNCHANGED <<delayed, ready, draining>>

Runs == \E posted \in Seq(Closures) : Work(posted)

\* The steps that leave Pending_ and the batch alone.
LEMMA QuietSteps ==
  ASSUME TypeInv,
         \/ EOS_Initialize \/ EOS_Shutdown \/ EOS_Platform_Create
         \/ \E p \in Peers : OnGoodbye(p) \/ Leave(p)
         \/ \E p \in Peers, presence \in Presences : OnHello(p, presence)
         \/ PeriodPasses \/ TickBegins \/ BroadcastHello \/ MarkStale
         \/ AddNotifyOnPresenceChanged \/ RemoveNotifyOnPresenceChanged \/ EOS_LobbySearch_Find
         \/ \E presence \in Presences : SetPresence(presence)
         \/ MarkHello \/ UNCHANGED vars
  PROVE  Quiet
<1>0. delayed \in Seq([wait : 0 .. SearchLatency, work : Closures])
  BY DEF TypeInv, QueueInv, QueueOf
<1>1. CASE UNCHANGED dispatchVars
  BY <1>0, <1>1 DEF Quiet, dispatchVars
<1>2. CASE PeriodPasses
  <2>1. Elapsed \in Seq([wait : 0 .. SearchLatency, work : Closures])
    BY <1>0, PlatformAssumption, ElapsedIsSeq
  <2> QED BY <1>2, <2>1 DEF PeriodPasses, Quiet
<1>3. CASE EOS_LobbySearch_Find
  <2> DEFINE d == [wait |-> SearchLatency, work |-> FindDone]
             D == [wait : 0 .. SearchLatency, work : Closures]
  <2>1. FindDone \in Closures
    BY PostedClosures DEF TypeInv
  <2>2. d \in D
    BY <2>1, PlatformAssumption
  <2>3. delayed' = Append(delayed, d) /\ UNCHANGED <<pending, ready, draining>>
    BY <1>3 DEF EOS_LobbySearch_Find, PostAfter
  <2>4. delayed \in Seq(D)
    BY <1>0
  <2> HIDE DEF d, D
  <2>5. delayed' \in Seq(D)
    BY <2>2, <2>3, <2>4, AppendProperties
  <2> QED BY <2>3, <2>5 DEF Quiet, D
<1>4. ASSUME NEW p \in Peers, OnGoodbye(p) \/ Leave(p) PROVE UNCHANGED dispatchVars
  BY <1>4 DEF OnGoodbye, Leave
<1>5. ASSUME NEW p \in Peers, NEW presence \in Presences, OnHello(p, presence)
      PROVE  UNCHANGED dispatchVars
  BY <1>5 DEF OnHello
<1>6. CASE EOS_Initialize \/ EOS_Shutdown \/ EOS_Platform_Create
  BY <1>1, <1>6 DEF EOS_Initialize, EOS_Shutdown, EOS_Platform_Create
<1>7. CASE TickBegins \/ BroadcastHello \/ MarkStale
  BY <1>1, <1>7 DEF TickBegins, BroadcastHello, MarkStale
<1>8. CASE \/ AddNotifyOnPresenceChanged \/ RemoveNotifyOnPresenceChanged
           \/ \E presence \in Presences : SetPresence(presence)
  BY <1>1, <1>8 DEF AddNotifyOnPresenceChanged, RemoveNotifyOnPresenceChanged, SetPresence
<1>9. CASE MarkHello \/ UNCHANGED vars
  BY <1>1, <1>9 DEF MarkHello, vars
<1> QED BY <1>1, <1>2, <1>3, <1>4, <1>5, <1>6, <1>7, <1>8, <1>9

\* The steps that post.
LEMMA PostingSteps ==
  ASSUME TypeInv,
         \/ RxNotify \/ SetPresencePosts \/ QueryFriends
         \/ \E p \in Peers : NotifyPeerOffline(p) \/ QueryPresence(p) \/ QueryUserInfo(p)
  PROVE  Posts
<1>1. CASE RxNotify
  <2>1. rx \in Peers
    BY <1>1 DEF RxNotify, TypeInv, ThreadInv
  <2>2. NotifyPresenceChanged(rx) \in Seq(Closures)
    BY <2>1, PostedClosures DEF TypeInv
  <2> QED BY <1>1, <2>2 DEF RxNotify, Posts
<1>2. CASE SetPresencePosts
  <2> DEFINE works == NotifyPresenceChanged(Local) \o <<SetPresenceDone>>
  <2>1. NotifyPresenceChanged(Local) \in Seq(Closures) /\ <<SetPresenceDone>> \in Seq(Closures)
    BY PostedClosures DEF TypeInv
  <2>2. works \in Seq(Closures)
    BY <2>1, ConcatProperties
  <2>3. Post(works) /\ UNCHANGED <<delayed, ready, draining>>
    BY <1>2 DEF SetPresencePosts
  <2> HIDE DEF works
  <2> QED BY <2>2, <2>3 DEF Posts
<1>3. CASE QueryFriends
  BY <1>3, PostedClosures DEF QueryFriends, Posts, TypeInv
<1>4. ASSUME NEW p \in Peers, NotifyPeerOffline(p) \/ QueryPresence(p) \/ QueryUserInfo(p)
      PROVE  Posts
  <2>1. /\ NotifyPresenceChanged(p) \in Seq(Closures) /\ <<QueryDone(p)>> \in Seq(Closures)
        /\ <<InfoDone(p)>> \in Seq(Closures)
    BY PostedClosures DEF TypeInv
  <2> QED BY <1>4, <2>1 DEF NotifyPeerOffline, QueryPresence, QueryUserInfo, Posts
<1> QED BY <1>1, <1>2, <1>3, <1>4

\* A closure that runs in Drain is one of those the line holds.
LEMMA RunTaskRuns == TypeInv /\ RunTask => Runs
<1> SUFFICES ASSUME TypeInv, RunTask PROVE Runs
  OBVIOUS
<1>1. \/ Work(<<>>) \/ \E who \in Peers \cup {Local} : Work(<<QueryDone(who)>>)
  BY DEF RunTask
<1>2. \A who \in Peers \cup {Local} : <<QueryDone(who)>> \in Seq(Closures)
  BY PostedClosures DEF TypeInv
<1>3. <<>> \in Seq(Closures)
  BY PostedClosures DEF TypeInv
<1> QED BY <1>1, <1>2, <1>3 DEF Runs

\* Every step of the platform is a step of the abstract queue, or leaves the
\* line alone, and keeps the queue well formed.
LEMMA QueueSteps ==
  ASSUME TypeInv, [Next]_vars
  PROVE  QueueInv' /\ [Queue!QNext]_Line
<1> DEFINE Done == QueueInv' /\ [Queue!QNext]_Line
<1> SUFFICES Done
  OBVIOUS
<1>0. QueueOf(Closures, SearchLatency)
  BY DEF TypeInv, QueueInv
<1>1. ASSUME Quiet PROVE Done
  BY <1>0, <1>1, LineStays DEF Quiet, QueueInv
<1>2. ASSUME Posts PROVE Done
  <2>1. PICK works \in Seq(Closures) : Post(works) /\ UNCHANGED <<delayed, ready, draining>>
    BY <1>2 DEF Posts
  <2> QED BY <1>0, <2>1, PostJoins DEF QueueInv, Queue!QNext
<1>3. ASSUME Drain PROVE Done
  BY <1>0, <1>3, DrainJoins DEF QueueInv, Queue!QNext
<1>4. ASSUME Runs PROVE Done
  <2>1. PICK posted \in Seq(Closures) : Work(posted)
    BY <1>4 DEF Runs
  <2> QED BY <1>0, <2>1, WorkRunsHead DEF QueueInv, Queue!QNext
<1>5. ASSUME DrainReturns PROVE Done
  BY <1>0, <1>5, DrainReturnsLeavesLine DEF QueueInv
<1>6. ASSUME Discarded PROVE Done
  BY <1>0, <1>6, DiscardedEmpties DEF QueueInv, Queue!QNext
<1> HIDE DEF Done
<1>7. CASE Lifecycle
  BY <1>1, <1>6, <1>7, QuietSteps DEF Lifecycle, EOS_Platform_Release
<1>8. CASE Network
  BY <1>1, <1>8, QuietSteps DEF Network
<1>9. CASE Tick
  <2>1. CASE TickBegins \/ BroadcastHello \/ MarkStale
    BY <1>1, <2>1, QuietSteps
  <2>2. CASE \E p \in Peers : NotifyPeerOffline(p)
    BY <1>2, <2>2, PostingSteps
  <2>3. CASE DrainBegins
    BY <1>3, <2>3 DEF DrainBegins
  <2>4. CASE RunTask
    BY <1>4, <2>4, RunTaskRuns
  <2>5. CASE TickReturns
    BY <1>5, <2>5 DEF TickReturns
  <2> QED BY <1>9, <2>1, <2>2, <2>3, <2>4, <2>5 DEF Tick
<1>10. CASE GameCalls
  <2>1. CASE \/ AddNotifyOnPresenceChanged \/ RemoveNotifyOnPresenceChanged \/ EOS_LobbySearch_Find
             \/ \E presence \in Presences : SetPresence(presence)
    BY <1>1, <2>1, QuietSteps
  <2>2. CASE QueryFriends \/ \E p \in Peers : QueryPresence(p) \/ QueryUserInfo(p)
    BY <1>2, <2>2, PostingSteps
  <2> QED BY <1>10, <2>1, <2>2 DEF GameCalls
<1>11. CASE RxNotify \/ SetPresencePosts
  BY <1>2, <1>11, PostingSteps
<1>12. CASE PeriodPasses \/ MarkHello \/ UNCHANGED vars
  BY <1>1, <1>12, QuietSteps
<1> QED BY <1>7, <1>8, <1>9, <1>10, <1>11, <1>12 DEF Next

---------------------------------------------------------------------------
(* The directory, the local presence and the threads.                      *)

\* The timeout of a peer is a number of announcement periods.
LEMMA TimeoutIsNat == PeerTimeout \in Nat
<1>1. /\ PeerTimeoutSeconds \in Nat /\ 10 \div 2 = 5 /\ 4 \div 2 = 2
      /\ PeerTimeoutSeconds \div 2 \in Nat
  BY PlatformAssumption
<1> QED BY <1>1 DEF PeerTimeout, Period

\* An entry of the directory: fresh, going offline, or a period older.
LEMMA InfoUpdates ==
  ASSUME NEW info \in Infos
  PROVE  /\ \A presence \in Presences : Online(presence) \in Infos /\ Online(presence).known
         /\ Stranger \in Infos /\ ~Stranger.known
         /\ info.known => /\ Offline(info) \in Infos
                          /\ Offline(info).known /\ ~Offline(info).online
                          /\ Offline(info).presence = info.presence
         /\ info.known =>
              LET older == [info EXCEPT !.age = Older(info.age, PeerTimeout + 1)]
              IN /\ older \in Infos /\ older.known = info.known
                 /\ older.online = info.online /\ older.presence = info.presence
<1> DEFINE Entries == [known : {TRUE}, online : BOOLEAN, presence : Presences,
                       age : 0 .. PeerTimeout + 1]
<1>0. PeerTimeout \in Nat
  BY TimeoutIsNat
<1>1. \A presence \in Presences : Online(presence) \in Entries /\ Online(presence).known
  BY <1>0 DEF Online
<1>2. ~Stranger.known
  BY DEF Stranger
<1>3. info.known => info \in Entries
  BY <1>2 DEF Infos
<1>4. ASSUME info.known
      PROVE  /\ Offline(info) \in Entries
             /\ Offline(info).known /\ ~Offline(info).online
             /\ Offline(info).presence = info.presence
  <2>1. info \in Entries
    BY <1>3, <1>4
  <2>2. Offline(info) \in [known : {TRUE}, online : {FALSE}, presence : {info.presence}, age : {0}]
    BY <2>1 DEF Offline
  <2>3. 0 \in 0 .. PeerTimeout + 1 /\ info.presence \in Presences
    BY <1>0, <2>1
  <2> HIDE DEF Entries
  <2>4. Offline(info).known /\ ~Offline(info).online /\ Offline(info).presence = info.presence
    BY <2>2
  <2>5. Offline(info) \in Entries
    BY <2>2, <2>3 DEF Entries
  <2> QED BY <2>4, <2>5
<1>5. ASSUME info.known
      PROVE  LET older == [info EXCEPT !.age = Older(info.age, PeerTimeout + 1)]
             IN /\ older \in Entries /\ older.known = info.known
                /\ older.online = info.online /\ older.presence = info.presence
  <2>1. info \in Entries
    BY <1>3, <1>5
  <2>2. info.age \in 0 .. PeerTimeout + 1
    BY <2>1
  <2>3. Older(info.age, PeerTimeout + 1) \in 0 .. PeerTimeout + 1
    BY <1>0, <2>2 DEF Older
  <2> QED BY <2>1, <2>3
<1> QED BY <1>1, <1>2, <1>4, <1>5 DEF Infos

\* EOS_Initialize, Create, Release and Shutdown keep the state of the SDK.
LEMMA LifeStep ==
  ASSUME TypeInv, [Next]_vars
  PROVE  LifeInv'
<1> USE DEF TypeInv, LifeInv, lifecycleVars
<1>1. CASE Lifecycle
  <2>1. CASE EOS_Platform_Create
    <3>1. platforms \in 0 .. MaxPlatforms /\ platforms < MaxPlatforms /\ MaxPlatforms \in Nat
      BY <2>1, PlatformAssumption DEF EOS_Platform_Create
    <3>2. platforms + 1 \in 0 .. MaxPlatforms
      BY <3>1
    <3> QED BY <2>1, <3>2 DEF EOS_Platform_Create
  <2>2. CASE EOS_Initialize \/ EOS_Shutdown \/ EOS_Platform_Release
    BY <2>2 DEF EOS_Initialize, EOS_Shutdown, EOS_Platform_Release
  <2> QED BY <1>1, <2>1, <2>2 DEF Lifecycle
<1>2. CASE Network
  BY <1>2 DEF Network, OnGoodbye, Leave, OnHello
<1>3. CASE Tick
  BY <1>3 DEF Tick, TickBegins, BroadcastHello, MarkStale, NotifyPeerOffline, DrainBegins, RunTask,
     TickReturns
<1>4. CASE GameCalls
  <2>1. CASE AddNotifyOnPresenceChanged \/ RemoveNotifyOnPresenceChanged
    BY <2>1 DEF AddNotifyOnPresenceChanged, RemoveNotifyOnPresenceChanged
  <2>2. CASE Call /\ UNCHANGED <<sdk, platforms, live, left>>
    <3>1. calls \in 0 .. MaxCalls /\ calls < MaxCalls /\ MaxCalls \in Nat
      BY <2>2, PlatformAssumption DEF Call
    <3>2. calls + 1 \in 0 .. MaxCalls
      BY <3>1
    <3> QED BY <2>2, <3>2 DEF Call
  <2> QED BY <1>4, <2>1, <2>2 DEF GameCalls, QueryPresence, QueryUserInfo, QueryFriends,
      EOS_LobbySearch_Find, SetPresence
<1>5. CASE RxNotify \/ SetPresencePosts \/ PeriodPasses \/ MarkHello \/ UNCHANGED vars
  BY <1>5 DEF RxNotify, SetPresencePosts, PeriodPasses, MarkHello, vars
<1> QED BY <1>1, <1>2, <1>3, <1>4, <1>5 DEF Next

\* What a step does to the directory entry of a peer: its owner stays known
\* until the platform goes, and what CopyPresence reads changes only when the
\* receive thread or Tick has somebody to announce.
LEMMA DirectoryStep ==
  ASSUME TypeInv, [Next]_vars
  PROVE  /\ DirectoryInv'
         /\ \A p \in Peers : Known(p) => Known(p)' \/ (~observing' /\ befriended' = {})
         /\ \A p \in Peers :
              \/ CopyPresence(p)' = CopyPresence(p)
              \/ (rx = Nobody /\ rx' = p)
              \/ (at = "stale" /\ p \in gone')
              \/ ~observing'
<1>0. peers \in [Peers -> Infos] /\ \A p \in Peers : peers[p] \in Infos
  BY DEF TypeInv, DirectoryInv
<1>1. ASSUME UNCHANGED peers
      PROVE  /\ DirectoryInv' /\ \A p \in Peers : CopyPresence(p)' = CopyPresence(p)
             /\ \A p \in Peers : Known(p)' = Known(p)
  BY <1>0, <1>1 DEF DirectoryInv, CopyPresence, FindByEpic, Known
<1>2. ASSUME EOS_Platform_Create \/ EOS_Platform_Release
      PROVE  DirectoryInv' /\ ~observing' /\ befriended' = {}
  BY <1>2, InfoUpdates, <1>0 DEF EOS_Platform_Create, EOS_Platform_Release, NewPlatform,
     DirectoryInv, Infos
<1>3. ASSUME NEW p \in Peers, NEW presence \in Presences, OnHello(p, presence)
      PROVE  /\ DirectoryInv' /\ \A q \in Peers : Known(q) => Known(q)'
             /\ \A q \in Peers : CopyPresence(q)' = CopyPresence(q) \/ (rx = Nobody /\ rx' = q)
  <2>1. Online(presence) \in Infos /\ Online(presence).known
    BY <1>0, InfoUpdates
  <2>2. /\ peers' = [peers EXCEPT ![p] = Online(presence)] /\ rx = Nobody
        /\ rx' = IF Changes(p, presence) THEN p ELSE Nobody
    BY <1>3 DEF OnHello, Observe
  <2>3. DirectoryInv' /\ peers'[p] = Online(presence) /\ \A q \in Peers \ {p} : peers'[q] = peers[q]
    BY <1>0, <2>1, <2>2 DEF DirectoryInv
  <2>4. \A q \in Peers \ {p} : CopyPresence(q)' = CopyPresence(q) /\ Known(q)' = Known(q)
    BY <2>3 DEF CopyPresence, FindByEpic, Known
  <2>5. Known(p)'
    BY <2>1, <2>3 DEF Known
  <2>6. ~Changes(p, presence) => CopyPresence(p)' = CopyPresence(p)
    <3> SUFFICES ASSUME ~Changes(p, presence) PROVE CopyPresence(p)' = CopyPresence(p)
      OBVIOUS
    <3>1. Known(p) /\ peers[p].online /\ peers[p].presence = presence
      BY DEF Changes, IsOnline
    <3>2. Online(presence).online = TRUE /\ Online(presence).presence = presence
      BY DEF Online
    <3>3. peers[p].online = TRUE
      BY <1>0, <3>1 DEF Infos, Known, Stranger
    <3> QED BY <2>3, <2>5, <3>1, <3>2, <3>3 DEF CopyPresence, FindByEpic
  <2> QED BY <2>2, <2>3, <2>4, <2>5, <2>6
<1>4. ASSUME NEW p \in Peers, OnGoodbye(p)
      PROVE  /\ DirectoryInv' /\ \A q \in Peers : Known(q) => Known(q)'
             /\ \A q \in Peers : CopyPresence(q)' = CopyPresence(q) \/ (rx = Nobody /\ rx' = q)
  <2>1. /\ peers' = [peers EXCEPT ![p] = Offline(peers[p])] /\ rx = Nobody /\ rx' = p /\ peers[p].known
    BY <1>4 DEF OnGoodbye, IsOnline, Known
  <2>2. Offline(peers[p]) \in Infos /\ Offline(peers[p]).known
    BY <1>0, <2>1, InfoUpdates
  <2>3. /\ DirectoryInv' /\ peers'[p] = Offline(peers[p])
        /\ \A q \in Peers \ {p} : peers'[q] = peers[q]
    BY <1>0, <2>1, <2>2 DEF DirectoryInv
  <2>4. \A q \in Peers \ {p} : CopyPresence(q)' = CopyPresence(q) /\ Known(q)' = Known(q)
    BY <2>3 DEF CopyPresence, FindByEpic, Known
  <2>5. Known(p)'
    BY <2>2, <2>3 DEF Known
  <2> QED BY <2>1, <2>3, <2>4, <2>5
<1>5. ASSUME PeriodPasses
      PROVE  /\ DirectoryInv' /\ \A q \in Peers : Known(q) => Known(q)'
             /\ \A q \in Peers : CopyPresence(q)' = CopyPresence(q)
  <2> DEFINE new(p) == IF IsOnline(p)
                       THEN [peers[p] EXCEPT !.age = Older(peers[p].age, PeerTimeout + 1)]
                       ELSE peers[p]
  <2>1. peers' = [p \in Peers |-> new(p)]
    BY <1>5 DEF PeriodPasses
  <2>2. ASSUME NEW p \in Peers
        PROVE  /\ new(p) \in Infos /\ new(p).known = peers[p].known
               /\ peers[p].known => /\ new(p).online = peers[p].online
                                    /\ new(p).presence = peers[p].presence
    BY <1>0, InfoUpdates DEF IsOnline, Known
  <2> HIDE DEF new
  <2>3. DirectoryInv' /\ \A p \in Peers : peers'[p] = new(p)
    BY <2>1, <2>2 DEF DirectoryInv
  <2> QED BY <2>2, <2>3 DEF CopyPresence, FindByEpic, Known
<1>6. ASSUME MarkStale
      PROVE  /\ DirectoryInv' /\ \A q \in Peers : Known(q) => Known(q)'
             /\ at = "stale" /\ \A q \in Peers : CopyPresence(q)' = CopyPresence(q) \/ q \in gone'
  <2> DEFINE new(p) == IF Stale(p) THEN Offline(peers[p]) ELSE peers[p]
  <2>1. /\ peers' = [p \in Peers |-> new(p)] /\ at = "stale"
        /\ gone' = {p \in Peers : Stale(p)}
    BY <1>6 DEF MarkStale
  <2>2. ASSUME NEW p \in Peers
        PROVE  /\ new(p) \in Infos
               /\ peers[p].known => new(p).known
               /\ ~Stale(p) => new(p) = peers[p]
    BY <1>0, InfoUpdates DEF Stale, IsOnline, Known
  <2> HIDE DEF new
  <2>3. DirectoryInv' /\ \A p \in Peers : peers'[p] = new(p)
    BY <2>1, <2>2 DEF DirectoryInv
  <2> QED BY <2>1, <2>2, <2>3 DEF CopyPresence, FindByEpic, Known
<1>7. CASE Lifecycle
  BY <1>1, <1>2, <1>7 DEF Lifecycle, EOS_Initialize, EOS_Shutdown
<1>8. CASE Network
  <2>1. ASSUME NEW p \in Peers, Leave(p) PROVE UNCHANGED peers
    BY <2>1 DEF Leave
  <2> QED BY <1>1, <1>3, <1>4, <1>8, <2>1 DEF Network
<1>9. CASE Tick
  <2>1. \/ MarkStale \/ UNCHANGED peers
    BY <1>9 DEF Tick, TickBegins, BroadcastHello, NotifyPeerOffline, DrainBegins, RunTask,
       TickReturns
  <2> QED BY <1>1, <1>6, <2>1
<1>10. CASE GameCalls
  <2>1. UNCHANGED peers
    BY <1>10 DEF GameCalls, AddNotifyOnPresenceChanged, RemoveNotifyOnPresenceChanged, QueryPresence,
       QueryUserInfo, QueryFriends, EOS_LobbySearch_Find, SetPresence
  <2> QED BY <1>1, <2>1
<1>11. CASE RxNotify \/ SetPresencePosts \/ MarkHello \/ UNCHANGED vars
  <2>1. UNCHANGED peers
    BY <1>11 DEF RxNotify, SetPresencePosts, MarkHello, vars
  <2> QED BY <1>1, <2>1
<1>12. CASE PeriodPasses
  BY <1>5, <1>12
<1> QED BY <1>7, <1>8, <1>9, <1>10, <1>11, <1>12 DEF Next

\* The presence of the local user, and the thread that sets it.
LEMMA OwnStep ==
  ASSUME TypeInv, [Next]_vars
  PROVE  OwnInv'
<1> USE DEF TypeInv, OwnInv, ownVars
<1>1. CASE Lifecycle
  BY <1>1, PlatformAssumption DEF Lifecycle, EOS_Initialize, EOS_Shutdown, EOS_Platform_Create,
     EOS_Platform_Release, NewPlatform
<1>2. CASE Network
  BY <1>2 DEF Network, OnGoodbye, Leave, OnHello
<1>3. CASE Tick
  BY <1>3 DEF Tick, TickBegins, BroadcastHello, MarkStale, NotifyPeerOffline, DrainBegins, RunTask,
     TickReturns
<1>4. CASE GameCalls
  BY <1>4 DEF GameCalls, AddNotifyOnPresenceChanged, RemoveNotifyOnPresenceChanged, QueryPresence,
     QueryUserInfo, QueryFriends, EOS_LobbySearch_Find, SetPresence
<1>5. CASE RxNotify \/ SetPresencePosts \/ PeriodPasses \/ MarkHello \/ UNCHANGED vars
  BY <1>5 DEF RxNotify, SetPresencePosts, PeriodPasses, MarkHello, vars
<1> QED BY <1>1, <1>2, <1>3, <1>4, <1>5 DEF Next

\* The threads are where they can be: in particular Drain begins only when all
\* whom MarkStale returned are announced, and the platform goes when all have
\* returned.
LEMMA ThreadStep ==
  ASSUME TypeInv, [Next]_vars
  PROVE  ThreadInv'
<1> USE DEF TypeInv, ThreadInv, OwnInv, LifeInv, lifecycleVars, dispatchVars, ownVars, tickVars
<1>0. draining \in BOOLEAN
  BY DEF QueueInv, QueueOf
<1>1. CASE Lifecycle
  BY <1>0, <1>1 DEF Lifecycle, EOS_Initialize, EOS_Shutdown, EOS_Platform_Create,
     EOS_Platform_Release, Discarded
<1>2. CASE Network
  BY <1>0, <1>2 DEF Network, OnGoodbye, Leave, OnHello, Observe
<1>3. CASE Tick
  <2>1. CASE TickBegins \/ BroadcastHello
    BY <1>0, <2>1 DEF TickBegins, BroadcastHello
  <2>2. CASE MarkStale
    BY <1>0, <2>2 DEF MarkStale
  <2>3. CASE \E p \in Peers : NotifyPeerOffline(p)
    BY <1>0, <2>3 DEF NotifyPeerOffline
  <2>4. CASE DrainBegins
    BY <1>0, <2>4 DEF DrainBegins, Drain
  <2>5. CASE RunTask
    BY <1>0, <2>5 DEF RunTask, Work
  <2>6. CASE TickReturns
    BY <1>0, <2>6 DEF TickReturns, DrainReturns
  <2> QED BY <1>3, <2>1, <2>2, <2>3, <2>4, <2>5, <2>6 DEF Tick
<1>4. CASE GameCalls
  <2>1. CASE \/ AddNotifyOnPresenceChanged \/ RemoveNotifyOnPresenceChanged
             \/ \E presence \in Presences : SetPresence(presence)
    BY <1>0, <2>1 DEF AddNotifyOnPresenceChanged, RemoveNotifyOnPresenceChanged, SetPresence
  <2>2. CASE \/ QueryFriends \/ EOS_LobbySearch_Find
             \/ \E p \in Peers : QueryPresence(p) \/ QueryUserInfo(p)
    BY <1>0, <2>2 DEF QueryPresence, QueryUserInfo, QueryFriends, EOS_LobbySearch_Find, InGame
  <2> QED BY <1>4, <2>1, <2>2 DEF GameCalls
<1>5. CASE RxNotify \/ SetPresencePosts
  BY <1>0, <1>5 DEF RxNotify, SetPresencePosts
<1>6. CASE PeriodPasses \/ MarkHello \/ UNCHANGED vars
  BY <1>0, <1>6 DEF PeriodPasses, MarkHello, vars
<1> QED BY <1>1, <1>2, <1>3, <1>4, <1>5, <1>6 DEF Next

\* What the game reads of a peer.
LEMMA CopyIsView ==
  ASSUME DirectoryInv, NEW p \in Peers
  PROVE  CopyPresence(p) \in Views
<1>1. peers[p] \in Infos
  BY DEF DirectoryInv
<1>2. CASE Known(p)
  <2>0. peers[p] # Stranger
    BY <1>2, InfoUpdates, <1>1 DEF Known
  <2>1. peers[p] \in [known : {TRUE}, online : BOOLEAN, presence : Presences,
                      age : 0 .. PeerTimeout + 1]
    BY <1>1, <2>0 DEF Infos
  <2>2. peers[p].online \in BOOLEAN /\ peers[p].presence \in Presences
    BY <2>1
  <2> QED BY <1>2, <2>2 DEF CopyPresence, FindByEpic, Views
<1>3. CASE ~Known(p)
  BY <1>3 DEF CopyPresence, FindByEpic, Views
<1> QED BY <1>2, <1>3

\* The step in which the game's callback runs.
LEMMA RunTaskReads ==
  ASSUME TypeInv, RunTask
  PROVE  /\ Head(ready) \in Closures
         /\ view' = IF Head(ready).kind = "presence" /\ Head(ready).who \in Peers
                    THEN [view EXCEPT ![Head(ready).who] = CopyPresence(Head(ready).who)] ELSE view
         /\ befriended \subseteq befriended'
         /\ \A p \in befriended' \ befriended : p \in Peers /\ Known(p)
<1>1. Head(ready) \in Closures
  <2>1. ready \in Seq(Closures) /\ ready # <<>>
    BY DEF TypeInv, QueueInv, QueueOf, RunTask
  <2> QED BY <2>1, HeadTailProperties
<1> DEFINE task == Head(ready)
<1>2. /\ view' = IF task.kind = "presence" /\ task.who \in Peers
                 THEN [view EXCEPT ![task.who] = CopyPresence(task.who)] ELSE view
      /\ befriended' = CASE task.kind = "list" -> befriended \cup FriendSnapshot
                         [] task.kind = "info" -> befriended \cup DisplayNameFor(task.who)
                         [] OTHER -> befriended
  BY DEF RunTask
<1>3. task.kind = "info" => task.who \in Peers
  BY <1>1 DEF Closures
<1> HIDE DEF task
<1>4. FriendSnapshot \subseteq {p \in Peers : Known(p)}
  BY DEF FriendSnapshot, FindByEpic
<1>5. task.who \in Peers => DisplayNameFor(task.who) \subseteq {p \in Peers : Known(p)}
  BY DEF DisplayNameFor, FindByEpic
<1>6. /\ befriended \subseteq befriended'
      /\ \A p \in befriended' \ befriended : p \in Peers /\ Known(p)
  <2>1. CASE task.kind = "list"
    BY <1>2, <1>4, <2>1
  <2>2. CASE task.kind = "info"
    BY <1>2, <1>3, <1>5, <2>2
  <2>3. CASE task.kind # "list" /\ task.kind # "info"
    BY <1>2, <2>3
  <2> QED BY <2>1, <2>2, <2>3
<1> QED BY <1>1, <1>2, <1>6 DEF task

\* What the game has read: kept until it is told of a change, and read afresh
\* when it registers its handler.
LEMMA GameStep ==
  ASSUME TypeInv, [Next]_vars
  PROVE  /\ GameInv'
         /\ \/ observing' => observing
            \/ \A p \in Peers : view'[p] = CopyPresence(p) /\ CopyPresence(p)' = CopyPresence(p)
         /\ \/ ~observing'
            \/ UNCHANGED view
            \/ RunTask
            \/ \A p \in Peers : view'[p] = CopyPresence(p) /\ CopyPresence(p)' = CopyPresence(p)
         /\ \/ befriended' = {}
            \/ UNCHANGED befriended
            \/ RunTask
<1> USE DEF TypeInv, GameInv, gameVars
<1>1. ASSUME UNCHANGED <<observing, view, befriended>> PROVE GameInv'
  BY <1>1
<1>2. CASE AddNotifyOnPresenceChanged
  <2>1. \A p \in Peers : CopyPresence(p) \in Views
    BY CopyIsView
  <2>2. /\ view' = [p \in Peers |-> CopyPresence(p)] /\ observing' = TRUE /\ UNCHANGED befriended
        /\ peers' = peers
    BY <1>2 DEF AddNotifyOnPresenceChanged
  <2>3. \A p \in Peers : CopyPresence(p)' = CopyPresence(p)
    BY <2>2 DEF CopyPresence, FindByEpic, Known
  <2> QED BY <2>1, <2>2, <2>3
<1>3. CASE RunTask
  <2>1. UNCHANGED observing
    BY <1>3 DEF RunTask
  <2>2. view' \in [Peers -> Views] /\ befriended' \subseteq Peers
    BY <1>3, RunTaskReads, CopyIsView
  <2> QED BY <1>3, <2>1, <2>2
<1>4. CASE EOS_Platform_Create \/ EOS_Platform_Release
  <2>1. Stranger \in Views
    BY DEF Views
  <2>2. /\ observing' = FALSE /\ view' = [p \in Peers |-> Stranger] /\ befriended' = {}
    BY <1>4 DEF EOS_Platform_Create, EOS_Platform_Release, NewPlatform
  <2> QED BY <2>1, <2>2
<1>5. CASE RemoveNotifyOnPresenceChanged
  BY <1>5 DEF RemoveNotifyOnPresenceChanged
<1>6. CASE EOS_Initialize \/ EOS_Shutdown \/ Network
  BY <1>6 DEF EOS_Initialize, EOS_Shutdown, Network, OnGoodbye, Leave, OnHello
<1>7. CASE \/ TickBegins \/ BroadcastHello \/ MarkStale \/ DrainBegins \/ TickReturns
           \/ \E p \in Peers : NotifyPeerOffline(p)
  BY <1>7 DEF TickBegins, BroadcastHello, MarkStale, NotifyPeerOffline, DrainBegins, TickReturns
<1>8. CASE \/ \E p \in Peers : QueryPresence(p) \/ QueryUserInfo(p)
           \/ QueryFriends \/ EOS_LobbySearch_Find
           \/ \E presence \in Presences : SetPresence(presence)
  <2>1. UNCHANGED <<observing, view, befriended>>
    BY <1>8 DEF QueryPresence, QueryUserInfo, QueryFriends, EOS_LobbySearch_Find, SetPresence
  <2> QED BY <1>1, <2>1
<1>9. CASE RxNotify \/ SetPresencePosts \/ PeriodPasses \/ MarkHello \/ UNCHANGED vars
  BY <1>9 DEF RxNotify, SetPresencePosts, PeriodPasses, MarkHello, vars
<1> QED BY <1>2, <1>3, <1>4, <1>5, <1>6, <1>7, <1>8, <1>9 DEF Next, Lifecycle, Tick, GameCalls

---------------------------------------------------------------------------
(* What waits to be announced.                                             *)

\* What is posted is in the line, and so is what was there before.
LEMMA PostedInLine ==
  ASSUME TypeInv, NEW works \in Seq(Closures), Post(works), UNCHANGED <<delayed, ready, draining>>
  PROVE  ToSet(Line') = ToSet(Line) \cup ToSet(works)
<1>1. QueueOf(Closures, SearchLatency)
  BY DEF TypeInv, QueueInv
<1>2. Line' = Line \o works
  BY <1>1, PostJoins
<1>3. Line \in Seq(Closures)
  BY <1>1, ConcatProperties DEF QueueOf, Line
<1> QED BY <1>2, <1>3, ConcatRoster

\* A closure leaves the line when it runs, or with its platform.
LEMMA LineKeeps ==
  ASSUME TypeInv, [Next]_vars
  PROVE  \/ ToSet(Line) \subseteq ToSet(Line')
         \/ RunTask /\ ToSet(Line) \subseteq ToSet(Line') \cup {Head(ready)}
         \/ EOS_Platform_Release
<1> DEFINE Kept == \/ ToSet(Line) \subseteq ToSet(Line')
                   \/ RunTask /\ ToSet(Line) \subseteq ToSet(Line') \cup {Head(ready)}
                   \/ EOS_Platform_Release
<1> SUFFICES Kept
  OBVIOUS
<1>0. QueueOf(Closures, SearchLatency)
  BY DEF TypeInv, QueueInv
<1>1. ASSUME Quiet PROVE Kept
  BY <1>0, <1>1, LineStays DEF Quiet
<1>2. ASSUME Posts PROVE Kept
  BY <1>2, PostedInLine DEF Posts
<1>3. ASSUME Drain PROVE Kept
  BY <1>0, <1>3, DrainJoins
<1>4. ASSUME RunTask PROVE Kept
  <2>1. PICK posted \in Seq(Closures) : Work(posted)
    BY <1>4, RunTaskRuns DEF Runs
  <2> QED BY <1>0, <1>4, <2>1, WorkRunsHead
<1>5. ASSUME DrainReturns PROVE Kept
  BY <1>0, <1>5, DrainReturnsLeavesLine
<1>6. EOS_Platform_Release => Kept
  OBVIOUS
<1> HIDE DEF Kept
<1>7. CASE Lifecycle
  BY <1>1, <1>6, <1>7, QuietSteps DEF Lifecycle
<1>8. CASE Network
  BY <1>1, <1>8, QuietSteps DEF Network
<1>9. CASE Tick
  <2>1. CASE TickBegins \/ BroadcastHello \/ MarkStale
    BY <1>1, <2>1, QuietSteps
  <2>2. CASE \E p \in Peers : NotifyPeerOffline(p)
    BY <1>2, <2>2, PostingSteps
  <2>3. CASE DrainBegins
    BY <1>3, <2>3 DEF DrainBegins
  <2>4. CASE TickReturns
    BY <1>5, <2>4 DEF TickReturns
  <2> QED BY <1>4, <1>9, <2>1, <2>2, <2>3, <2>4 DEF Tick
<1>10. CASE GameCalls
  <2>1. CASE \/ AddNotifyOnPresenceChanged \/ RemoveNotifyOnPresenceChanged \/ EOS_LobbySearch_Find
             \/ \E presence \in Presences : SetPresence(presence)
    BY <1>1, <2>1, QuietSteps
  <2>2. CASE QueryFriends \/ \E p \in Peers : QueryPresence(p) \/ QueryUserInfo(p)
    BY <1>2, <2>2, PostingSteps
  <2> QED BY <1>10, <2>1, <2>2 DEF GameCalls
<1>11. CASE RxNotify \/ SetPresencePosts
  BY <1>2, <1>11, PostingSteps
<1>12. CASE PeriodPasses \/ MarkHello \/ UNCHANGED vars
  BY <1>1, <1>12, QuietSteps
<1> QED BY <1>7, <1>8, <1>9, <1>10, <1>11, <1>12 DEF Next

\* Whom the receive thread or Tick has yet to announce is forgotten only by
\* the step that posts the announcement.
LEMMA OwedUntilPosted ==
  ASSUME TypeInv, [Next]_vars
  PROVE  /\ rx' = rx \/ rx = Nobody \/ RxNotify
         /\ gone \subseteq gone' \/ \E p \in gone : NotifyPeerOffline(p) /\ gone' = gone \ {p}
<1>1. CASE Lifecycle
  BY <1>1 DEF Lifecycle, EOS_Initialize, EOS_Shutdown, EOS_Platform_Create, EOS_Platform_Release,
     tickVars
<1>2. CASE Network
  BY <1>2 DEF Network, OnGoodbye, Leave, OnHello, tickVars
<1>3. CASE Tick
  <2>1. CASE MarkStale
    <3>1. gone = {} /\ rx' = rx
      BY <2>1 DEF MarkStale, TypeInv, ThreadInv
    <3> QED BY <3>1
  <2>2. ASSUME NEW p \in Peers, NotifyPeerOffline(p)
        PROVE  p \in gone /\ gone' = gone \ {p} /\ rx' = rx
    BY <2>2 DEF NotifyPeerOffline
  <2>3. CASE TickBegins \/ BroadcastHello \/ DrainBegins \/ RunTask \/ TickReturns
    BY <2>3 DEF TickBegins, BroadcastHello, DrainBegins, RunTask, TickReturns, tickVars
  <2> QED BY <1>3, <2>1, <2>2, <2>3 DEF Tick
<1>4. CASE GameCalls
  BY <1>4 DEF GameCalls, AddNotifyOnPresenceChanged, RemoveNotifyOnPresenceChanged, QueryPresence,
     QueryUserInfo, QueryFriends, EOS_LobbySearch_Find, SetPresence, tickVars
<1>5. CASE RxNotify
  BY <1>5 DEF RxNotify, tickVars
<1>6. CASE SetPresencePosts \/ PeriodPasses \/ MarkHello \/ UNCHANGED vars
  BY <1>6 DEF SetPresencePosts, PeriodPasses, MarkHello, tickVars, vars
<1> QED BY <1>1, <1>2, <1>3, <1>4, <1>5, <1>6 DEF Next

\* What a posting thread announces is in the line afterwards, if the game observes.
LEMMA AnnouncedInLine ==
  ASSUME TypeInv, observing, NEW p \in Peers, Post(NotifyPresenceChanged(p)),
         UNCHANGED <<delayed, ready, draining>>
  PROVE  PresenceChanged(p) \in ToSet(Line')
<1>1. NotifyPresenceChanged(p) = <<PresenceChanged(p)>>
  BY DEF NotifyPresenceChanged
<1>2. NotifyPresenceChanged(p) \in Seq(Closures)
  BY PostedClosures DEF TypeInv
<1>3. PresenceChanged(p) \in ToSet(<<PresenceChanged(p)>>)
  BY DEF ToSet
<1> QED BY <1>1, <1>2, <1>3, PostedInLine

\* A peer that is being announced stays so until the game's callback has read
\* what the directory holds of it.
LEMMA AnnouncingStays ==
  ASSUME TypeInv, [Next]_vars, observing, observing', NEW p \in Peers, Announcing(p)
  PROVE  view'[p] = CopyPresence(p)' \/ Announcing(p)'
<1>0. ~EOS_Platform_Release
  BY DEF EOS_Platform_Release, NewPlatform
<1>1. CASE rx = p
  <2>1. CASE rx' = rx
    BY <1>1, <2>1 DEF Announcing
  <2>2. CASE RxNotify
    <3>1. Post(NotifyPresenceChanged(p)) /\ UNCHANGED <<delayed, ready, draining>>
      BY <1>1, <2>2 DEF RxNotify
    <3> QED BY <3>1, AnnouncedInLine DEF Announcing
  <2>3. rx # Nobody
    BY <1>1, PlatformAssumption
  <2> QED BY <2>1, <2>2, <2>3, OwedUntilPosted
<1>2. CASE p \in gone
  <2>1. CASE gone \subseteq gone'
    BY <1>2, <2>1 DEF Announcing
  <2>2. ASSUME NEW q \in gone, NotifyPeerOffline(q), gone' = gone \ {q}
        PROVE  Announcing(p)'
    <3>1. CASE q # p
      BY <1>2, <2>2, <3>1 DEF Announcing
    <3>2. CASE q = p
      <4>1. Post(NotifyPresenceChanged(p)) /\ UNCHANGED <<delayed, ready, draining>>
        BY <2>2, <3>2 DEF NotifyPeerOffline
      <4> QED BY <4>1, AnnouncedInLine DEF Announcing
    <3> QED BY <3>1, <3>2
  <2> QED BY <2>1, <2>2, OwedUntilPosted
<1>3. CASE PresenceChanged(p) \in ToSet(Line)
  <2>1. CASE PresenceChanged(p) \in ToSet(Line')
    BY <2>1 DEF Announcing
  <2>2. CASE RunTask /\ Head(ready) = PresenceChanged(p)
    <3>1. Head(ready).kind = "presence" /\ Head(ready).who = p
      BY <2>2 DEF PresenceChanged
    <3>2. view' = [view EXCEPT ![p] = CopyPresence(p)]
      BY <2>2, <3>1, RunTaskReads
    <3>3. view'[p] = CopyPresence(p)
      BY <3>2 DEF TypeInv, GameInv
    <3>4. peers' = peers
      BY <2>2 DEF RunTask
    <3>5. CopyPresence(p)' = CopyPresence(p)
      BY <3>4 DEF CopyPresence, FindByEpic, Known
    <3> QED BY <3>3, <3>5
  <2> QED BY <1>0, <1>3, <2>1, <2>2, LineKeeps
<1> QED BY <1>1, <1>2, <1>3 DEF Announcing

\* PresenceSettled: whatever moves a peer out of what the game has seen leaves a
\* notification to come.
LEMMA SettledStep ==
  ASSUME TypeInv, PresenceSettled, [Next]_vars
  PROVE  PresenceSettled'
<1>1. ASSUME observing', NEW p \in Peers
      PROVE  view'[p] = CopyPresence(p)' \/ Announcing(p)'
  <2>1. CASE \A q \in Peers : view'[q] = CopyPresence(q) /\ CopyPresence(q)' = CopyPresence(q)
    BY <2>1
  <2>2. CASE observing /\ Announcing(p)
    BY <1>1, <2>2, AnnouncingStays
  <2>3. CASE observing /\ view[p] = CopyPresence(p) /\ (RunTask \/ UNCHANGED view)
    <3>1. view'[p] = CopyPresence(p)
      <4>1. CASE UNCHANGED view
        BY <2>3, <4>1
      <4>2. CASE RunTask
        BY <2>3, <4>2, RunTaskReads DEF TypeInv, GameInv
      <4> QED BY <2>3, <4>1, <4>2
    <3>2. \/ CopyPresence(p)' = CopyPresence(p)
          \/ rx' = p
          \/ p \in gone'
      BY <1>1, DirectoryStep
    <3> QED BY <3>1, <3>2 DEF Announcing
  <2>4. observing => view[p] = CopyPresence(p) \/ Announcing(p)
    BY DEF PresenceSettled
  <2> QED BY <1>1, <2>1, <2>2, <2>3, <2>4, GameStep
<1>2. ASSUME NEW p \in befriended'
      PROVE  GetStatus(p)' = "Friends"
  <2>1. p \in Peers /\ Known(p)
    <3>1. CASE p \in befriended
      <4>1. GetStatus(p) = "Friends" /\ p \in Peers
        BY <3>1 DEF PresenceSettled, TypeInv, GameInv
      <4> QED BY <4>1 DEF GetStatus, FindByEpic
    <3>2. CASE p \notin befriended
      <4>1. RunTask
        BY <1>2, <3>2, GameStep
      <4> QED BY <1>2, <3>2, <4>1, RunTaskReads
    <3> QED BY <3>1, <3>2
  <2>2. Known(p)'
    BY <1>2, <2>1, DirectoryStep
  <2> QED BY <2>2 DEF GetStatus, FindByEpic
<1> QED BY <1>1, <1>2 DEF PresenceSettled

\* The presence is marked dirty after it is written, and Tick takes the mark
\* before it reads the presence, so the latest one is always still to be heard.
LEMMA AnnouncedStep ==
  ASSUME PresenceAnnounced, [Next]_vars
  PROVE  PresenceAnnounced'
<1> USE DEF PresenceAnnounced, ownVars, tickVars
<1>1. CASE Lifecycle
  BY <1>1 DEF Lifecycle, EOS_Initialize, EOS_Shutdown, EOS_Platform_Create, EOS_Platform_Release,
     NewPlatform
<1>2. CASE Network
  BY <1>2 DEF Network, OnGoodbye, Leave, OnHello
<1>3. CASE Tick
  <2>1. CASE TickBegins
    BY <2>1 DEF TickBegins
  <2>2. CASE BroadcastHello
    BY <2>2 DEF BroadcastHello
  <2>3. CASE MarkStale \/ DrainBegins \/ RunTask \/ TickReturns \/ \E p \in Peers : NotifyPeerOffline(p)
    BY <2>3 DEF MarkStale, NotifyPeerOffline, DrainBegins, RunTask, TickReturns
  <2> QED BY <1>3, <2>1, <2>2, <2>3 DEF Tick
<1>4. CASE GameCalls
  BY <1>4 DEF GameCalls, AddNotifyOnPresenceChanged, RemoveNotifyOnPresenceChanged, QueryPresence,
     QueryUserInfo, QueryFriends, EOS_LobbySearch_Find, SetPresence
<1>5. CASE MarkHello \/ SetPresencePosts
  BY <1>5 DEF MarkHello, SetPresencePosts
<1>6. CASE RxNotify \/ PeriodPasses \/ UNCHANGED vars
  BY <1>6 DEF RxNotify, PeriodPasses, vars
<1> QED BY <1>1, <1>2, <1>3, <1>4, <1>5, <1>6 DEF Next

---------------------------------------------------------------------------
(* The theorems.                                                           *)

\* At first nothing is initialized, and no closure waits.
LEMMA InitIInv == Init => IInv /\ Queue!QInit
<1> SUFFICES ASSUME Init PROVE IInv /\ Queue!QInit
  OBVIOUS
<1>0. /\ pending = <<>> /\ delayed = <<>> /\ ready = <<>> /\ draining = FALSE
      /\ \A S : <<>> \in Seq(S)
      /\ <<>> \o <<>> = <<>>
  BY EmptySeq, ConcatEmptySeq DEF Init, DispatcherInit
<1>1. LifeInv
  <2>1. sdk = "fresh" /\ platforms = 0 /\ live = FALSE /\ left = {} /\ calls = 0
    BY DEF Init
  <2>2. 0 \in 0 .. MaxPlatforms /\ 0 \in 0 .. MaxCalls
    BY PlatformAssumption
  <2> QED BY <2>1, <2>2 DEF LifeInv
<1>2. QueueInv
  BY <1>0 DEF QueueInv, QueueOf
<1>3. DirectoryInv /\ GameInv
  BY DEF Init, DirectoryInv, GameInv, Infos, Views
<1>4. OwnInv /\ ThreadInv
  BY <1>0, PlatformAssumption DEF Init, OwnInv, ThreadInv
<1>5. PresenceSettled /\ PresenceAnnounced
  BY DEF Init, PresenceSettled, PresenceAnnounced
<1>6. Queue!QInit
  BY <1>0 DEF Line, Queue!QInit
<1> QED BY <1>1, <1>2, <1>3, <1>4, <1>5, <1>6 DEF IInv, TypeInv

\* Each action keeps the invariant,
LEMMA NextIInv == IInv /\ [Next]_vars => IInv'
<1> SUFFICES ASSUME IInv, [Next]_vars PROVE IInv'
  OBVIOUS
<1>1. TypeInv /\ PresenceSettled /\ PresenceAnnounced
  BY DEF IInv
<1>2. TypeInv'
  <2>1. LifeInv' /\ QueueInv' /\ DirectoryInv'
    BY <1>1, LifeStep, QueueSteps, DirectoryStep
  <2>2. OwnInv' /\ ThreadInv' /\ GameInv'
    BY <1>1, OwnStep, ThreadStep, GameStep
  <2> QED BY <2>1, <2>2 DEF TypeInv
<1>3. PresenceSettled' /\ PresenceAnnounced'
  BY <1>1, SettledStep, AnnouncedStep
<1> QED BY <1>2, <1>3 DEF IInv

\* so that it always holds.
LEMMA IInvAlways == Spec => []IInv
<1>1. Init => IInv
  BY InitIInv
<1> QED BY <1>1, NextIInv, PTL DEF Spec

\* The state of the platform has its type, whatever the threads do
\* (Platform.cpp, Peers.cpp, Dispatch.h).
THEOREM TypeCorrect == Spec => []TypeOK
<1>1. IInv => TypeOK
  <2> SUFFICES ASSUME IInv PROVE TypeOK
    OBVIOUS
  <2>1. /\ pending \in Seq(Closures) /\ ready \in Seq(Closures) /\ (~draining => ready = <<>>)
        /\ delayed \in Seq([wait : 0 .. SearchLatency, work : Closures])
    BY DEF IInv, TypeInv, QueueInv, QueueOf
  <2>2. ToSet(Line) \subseteq Tasks
    <3>1. ToSet(ready) \subseteq Closures /\ ToSet(pending) \subseteq Closures
      BY <2>1, ElementOfSeq, LenProperties DEF ToSet
    <3>2. ToSet(Line) = ToSet(ready) \cup ToSet(pending)
      BY <2>1, ConcatRoster DEF Line
    <3> QED BY <3>1, <3>2 DEF Closures
  <2>3. \A i \in DOMAIN delayed : delayed[i].wait \in 0 .. SearchLatency /\ delayed[i].work \in Tasks
    <3>1. \A i \in DOMAIN delayed : delayed[i] \in [wait : 0 .. SearchLatency, work : Closures]
      BY <2>1, ElementOfSeq, LenProperties
    <3> QED BY <3>1 DEF Closures
  <2>4. LifeInv /\ DirectoryInv /\ OwnInv /\ ThreadInv /\ GameInv
    BY DEF IInv, TypeInv
  <2> QED BY <2>1, <2>2, <2>3, <2>4 DEF TypeOK, LifeInv, DirectoryInv, OwnInv, ThreadInv, GameInv
<1> QED BY <1>1, IInvAlways, PTL

\* A game that observes presence is not left with a stale friend, and whom it
\* has listed stays a friend: OnDatagram changes the directory first and posts
\* the notification after the unlock, Tick does so for whom MarkStale returns,
\* and the callback reads the directory when it runs (Peers.cpp:20-23,
\* Platform.cpp:447-455).
THEOREM FriendsAreSettled == Spec => []PresenceSettled
<1>1. IInv => PresenceSettled
  BY DEF IInv
<1> QED BY <1>1, IInvAlways, PTL

\* What the game sets is announced, on whichever thread SetPresence runs while
\* Tick takes the dirty mark (Platform.cpp:434).
THEOREM PresenceIsAnnounced == Spec => []PresenceAnnounced
<1>1. IInv => PresenceAnnounced
  BY DEF IInv
<1> QED BY <1>1, IInvAlways, PTL

\* Refinement: the closures that are due, wherever the Dispatcher keeps them,
\* are one line that others join only at its end and that runs from its head
\* (Dispatch.h:49).
THEOREM ClosuresInLine == Spec => FIFO
<1>1. Init => Queue!QInit
  BY InitIInv
<1>2. IInv /\ [Next]_vars => [Queue!QNext]_Line
  BY QueueSteps DEF IInv
<1> QED BY <1>1, <1>2, IInvAlways, PTL DEF Spec, FIFO, Queue!QSpec
==========================================================================
