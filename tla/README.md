# EOSEmu in TLA+

EOSEmu is a replacement for the Epic Online Services SDK: a library a game
loads in place of Epic's own, which answers the API locally and replaces Epic's
servers by UDP on the local network.  This directory models the parts of it in
which several nodes, two threads of a node, or a lossy network interact; checks
the models with TLC on small instances; and proves the central results with
TLAPS for all sizes.  Source paths below are relative to the repository
(`src/src/interfaces/P2P.cpp` is written `interfaces/P2P.cpp`).

## 1. The system

**Threads.** A process has the game thread, which calls `EOS_*` functions and
`EOS_Platform_Tick`, and the receive thread of `net/Lan.cpp`, which hands every
datagram to `Platform::OnDatagram` and from there to the interface concerned.
Each interface has one mutex.  A tick (`core/Platform.cpp`, `Tick`) does, in this
order: broadcast Hello and let Lobby and Sessions announce what they own (every
two seconds), mark silent peers offline, `P2P.Pump`, `RTC.PumpTick`,
`UI.PumpTick`, and last drain the Dispatcher, the one place where callbacks of
the game run.

**Network.** `net/Lan.cpp` sends each broadcast to several broadcast addresses and
to loopback, so that a node may hear it more than once, and drops a node's own
broadcasts by their tag.  Unicast goes to the endpoint a datagram came from.
Datagrams are lost, duplicated and reordered; two sockets are polled in a fixed
order, which reorders broadcast against unicast.

| Component | State | Operations | Hard behaviour |
|---|---|---|---|
| P2P streams (`interfaces/P2P.cpp`) | `SendStreams_`, `RecvStreams_`, `Inbox_`, `InboxBytes_` | send, data and ack handlers, `Pump`, receive, clear queue, queue size | loss, duplication, reordering; 32-bit wire numbers; a full inbox |
| P2P connections (same file) | `Connections_`: accepted, established, interrupted | connect request / accept / ignore / close, interruption, timeout | two threads, two lock regions in `SendPacket`; each side clears its streams alone |
| Lobby (`interfaces/Lobby.cpp`) | `Known_`, `MemberOf_`, `Owned_`, details handles | create, update, join, leave, promote, kick, destroy, announce; five datagram handlers | replication without versions, ownership by broadcast, optimistic joins |
| Sessions (`interfaces/Sessions.cpp`) | `Local_`, `Owned_`, `Known_` | update, destroy, join, start, end, register, invites, announce | snapshots sent after the unlock, local names that are reused |
| Platform (`core/Platform.cpp`) | lifecycle flags, timers, dirty Hello | Initialize, Create, Release, Shutdown, Tick, OnDatagram | three threads; the order of a tick; release inside a callback |
| Dispatcher (`core/Dispatch.h`) | pending and delayed tasks | Post, PostAfter, Drain | tasks posted by tasks |
| Peer directory (`core/Peers.cpp`), Presence, Friends, UserInfo | peers with last-seen time; the game's observers | Observe, MarkStale, MarkOffline, queries, SetPresence | late Hello against timeout and Goodbye; two locks in SetPresence |
| Invites (`Lobby.cpp`, `Sessions.cpp`, `CustomInvites.cpp`) | `Invites_`, `UiEvents_`, one payload | receive, accept, reject, join from the overlay | filed under the lock, posted after it; stale rows |
| RTC rooms (`interfaces/RTC.cpp`) | rooms, participants | PumpTick, join and leave of rooms | snapshot of lobby membership |
| Social overlay (`interfaces/UI.cpp`, `overlay/`) | visibility, pause, panel, requests of the user | show, hide, pause, PumpTick; the rendering thread | user, Tick and game at once; hide while paused |
| Player data storage (`interfaces/PlayerDataStorage.cpp`) | files, mirror on disk, requests | read, write, duplicate, delete, release | faults of the disk, death, release during a transfer |
| Title storage (`interfaces/TitleStorage.cpp`) | names found | query, read, release | indices into what was found |
| Auth, Connect | login status, observers, Steam id | login, logout, notifications | callbacks that log in and out |
| Stats, Achievements, Ecom, Mods, Sanctions, Reports | process-wide maps, lists of the configuration | ingest, unlock, redeem, install, report | unlocks on two threads; stores that outlive the platform |
| API memory (`core/Memory.cpp`) | blocks and their attachments | allocate, attach, free | alignment |
| Overlay drawing, generated stubs, configuration, logging, ids, attributes | | | I/O or sequential |

What makes each part correct:

* *streams*: nothing acknowledged is lost, nothing is delivered twice, an ordered
  stream is read in order, the inbox is accounted for and bounded, everything is
  delivered in the end;
* *connections*: a receiving stream lives and dies with its connection (a sending one
  may be orphaned, section 5), one notification per connection, an interruption has a
  cause;
* *Lobby*: the three tables of a node agree, one node has the authority, a change
  is announced, all copies converge;
* *Sessions*: only the owner announces, a withdrawn session disappears;
* *Dispatcher and Platform*: every posted callback runs once, in order; a frame ends;
* *peers*: the game is not left with a stale view, a silent peer is seen offline, a
  presence that was set is announced;
* *invites and overlay*: an invite is settled once, observers and the window agree with
  the state of the interface;
* *RTC*: what the game is told adds up to the rooms; *storage*: what was saved is there
  after a restart, as far as its name is the name of a file; *services*: observers are told the truth, once; *memory*: blocks
  stay in their allocation.

`PROJECT.json` lists the hazards behind these properties at their source lines.

## 2. Modules

| Module | Models |
|---|---|
| `ReliableChannel` | abstract: what a reliable stream promises to the two games |
| `P2PStream` | one reliable stream: sender, receiver, inbox, network |
| `P2PStreamProofs` | its invariants and that it implements `ReliableChannel`, proved |
| `P2PConnection` | the connection between two peers and the streams it creates and clears |
| `P2PConnectionProofs` | its types, streams, notifications and reliability, proved |
| `Lobby` | one lobby replicated over several nodes |
| `LobbyProofs` | its records, authority and announcements, proved |
| `Sessions` | sessions hosted, announced, discovered and joined on several nodes |
| `SessionsProofs` | that what is discovered leads to its owner, proved |
| `TaskQueue` | abstract: what the Dispatcher promises to those who post |
| `Dispatcher` | the queue of closures, as operators for the modules that post |
| `DispatcherProofs` | facts about lists; what the critical sections do to the line of closures, for all who post; what a line makes its listener believe |
| `Platform` | lifecycle, Tick, receive thread, peers, Presence, Friends, UserInfo |
| `PlatformProofs` | that the game is not left with a stale view, that what it sets is announced, and that the Dispatcher implements `TaskQueue`, proved |
| `Invites`, `RTCRooms`, `SocialOverlay` | invites and joinable games, RTC rooms, the overlay |
| `Social` | these three, composed by Tick |
| `PlayerDataStorage`, `TitleStorage` | the files of a player and of the title |
| `Storage` | both over one dispatcher |
| `Accounts`, `LocalStores`, `Catalog`, `Memory` | logins; stats and achievements; mods, entitlements, reports, sanctions; API blocks |
| `Services` | these four in one process |
| `ServicesProofs` | its types, `StatusTold`, `UnlockToldOnce` and `BlocksStayInside`, proved |
| `StorageSocialProofs` | the types and all invariants of `Storage` and `Social`, proved |
| `MC...` | sets of nodes, names and bounds for TLC |

### P2PStream

A stream is the traffic of one (peer, socket, channel, reliability).  `nextSeq` and
`pending` are the `SendStream`; `nextExpected`, `nextToDeliver`, `buffer` and
`received` the `RecvStream`; `inbox` is this stream's part of `Inbox_`, `foreign`
the bytes of all the rest of it.  `SendPacket`, `ReceiveData`, `ReceiveAck`, `Pump`,
`ReceivePacket`, `ClearPacketQueue`, `ClearWholeQueue` and `SetPacketQueueSize` are
the functions and handlers of the same names; each holds `Mutex_` and is one
action.  What they send leaves after the unlock, which is no different from a
slower network.  A datagram is represented by its full sequence number, which
also stands for its payload, and the handlers see only `Low` of it and rebuild the
number with `Extend32`, as the code does.  `Pump` may resend any set of pending
packets: the retransmission timers are abstracted to "some time".

The window is an assumption.  The code comments (`P2P.cpp:82-84`) that `Extend32`
is valid while the peers are within 2^31 of each other; nothing in `SendPacket`
enforces it.  The model sends only while the oldest unacknowledged packet is less
than `Window < Half` behind, and delivers no datagram older than `Half`
(`Fresh`).  2^31 unacknowledged packets do not fit in the memory of a process.

### P2PConnection

Two peers, one socket, one ordered channel.  `conn`, `send` and `recv` are
`Connections_`, `SendStreams_` and `RecvStreams_`; absent entries are `NoConn` and
`NoStream`.  Every other call is one action, but `SendPacket` takes the mutex
twice, so it is two (`OpenForSend`, `QueuePacket`) and the receive thread of the
same peer runs in between; `sending` keeps the game thread out of other calls
meanwhile.  `acked`, `got`, `announced` and `cleared` are history.  Wire numbers and
backpressure are `P2PStream`'s subject and are left out here.

### Lobby

One lobby id, any number of nodes.  `known[n]` is node n's entry in `Known_`,
`memberOf` and `owned` are the nodes that have the lobby in `MemberOf_` and
`Owned_`, `details[n]` is the copy of the record in the `LobbyDetails` handle of the
game, which `JoinLobby` trusts.  A record keeps what the handlers decide on: owner,
member list in order, one attribute flag per member, `MaxMembers`, host migration,
version, and the host endpoint (not serialized: the receiver fills in the sender's).
Calls that fail without changing state have no action.  `Exit` is the end of a
process at any moment: the interface says nothing to the others.

### Sessions

`local[n]` is `Local_`, by the game's own names; `owned[n]` are the names in `Owned_`;
`known[n]` is `Known_`, by session id; `invites`, `uiEvents` and `details` are what a
game may join from: a search, an invitation or an overlay event, each of them a
copy that nothing refreshes.  The game thread alone writes `Local_` and `Owned_`,
so `PeriodicAnnounce` cannot be overtaken by a call of its own node and is one
action.  `Start`, `End`, `Register` and `UnregisterPlayers` share `Change`: only a host
announces.  `UpdateSession` announces for anyone, as in the code.  The host address
is what the receivers complete from the source of the datagram (`Stamped`).  Two
sessions never share an id: a game that overrides the id chooses a new one.

### Dispatcher, Platform

`pending` and `delayed` are `Pending_` and `Delayed_`; `ready` is the batch that the
`Drain` on the stack has taken.  The operators `Post`, `PostAfter`, `Drain` are
conjuncts: every module that posts extends `Dispatcher` and is one critical section
per operator.  `TaskQueue` says what the posters rely on; `Dispatcher` maps
`ready \o pending` to its queue, and the run checks that every step of Tick, of the
receive thread and of the game is a step of the queue (`FIFO`).

In `Platform` a Tick is the sequence `TickBegins`, `BroadcastHello`, `MarkStale`,
`NotifyPeerOffline`, `DrainBegins`, `RunTask`..., `TickReturns`, and the receive thread
works between any two of them: it changes the directory under the lock (`OnHello`,
`OnGoodbye`) and posts afterwards (`RxNotify`).  `SetPresence` has three steps for the
same reason: it writes the presence, marks the Hello dirty, and posts.  `view` is what
the game last read of a peer, as its callbacks do.  Abstractions: time advances in
Hello periods and whether one is due is left open; a presence is one value; every
Hello names an Epic id; Release happens between frames and Shutdown after Release.

### Social: Invites, RTCRooms, SocialOverlay

One process.  How lobby and session records come about is the subject of `Lobby` and
`Sessions`; here games appear, fill up and disappear at will (`GameChanges`), as do
members (`RosterChanges`).  The receive thread files an invite under the lock and
posts afterwards, the rendering thread draws a copy of the rows and queues clicks on
them, Tick pumps RTC, then the social panel, routes the collected actions one at a
time, takes the user's visibility request and fires the display notification; only
then it drains.  `reported` is whom the game believes in each room after the events it has
been called with, `WillBelieve` whom it will after those in the line; `outcomes` keeps what
it was told about each invite.  Abstractions: the game calls on the thread
that ticks; the audio and data events of a join are one with the join; a room of lobby
`g` is called `g`; one observer per invite registry, always there; the order in which
a set is walked is arbitrary; the hook backend counts as a running thread; PumpSocial's
snapshots, its publish and its consume are one step.

### Storage: PlayerDataStorage, TitleStorage

A name is a sequence of characters because the mirror keeps it percent-encoded
(`EncodeName`, `DecodeName`) on a file system.  That is external: on Windows, for which
`EOSSDK-Win64-Shipping.dll` is built, it folds case, drops the dots at the end of a name,
and keeps no file under a name of dots alone or under the name of a device.  `Capital` and
`Devices` say which letters and names these are; `Key` is what a directory goes by, `Entry`
the file that a name opens.  `PersistWrite` and `PersistDelete` go through them, so that two
files of the store may be one on disk, and a file of the store none.  `OwnFile` are the names
to which neither happens.  A transfer is `BeginTransfer`, any number of `TakeData` or
`PullData`, `CommitWrite` and `FinishTransfer`; the lock is free between them and other
calls of the game run.  The disk may refuse a file or cut it short, the process may die
between any two steps (`Dies`); what a file may lose then is in `exposed`, and nothing
else may differ for such a name.  A request carries its reference count, as `shared_ptr` does.
Abstractions: one player; persistence is on or off for a whole run; a death in the
middle of a write is a fault of the disk followed by a death; the game releases a
title request only after its completion.

### Services: Accounts, LocalStores, Catalog, Memory

Two platforms, one after the other, in one process: the stores outlive them.  Login
completions run the game's callback before the announcement of the new status, and the
callback may log in or out again (`firing`).  Unlocking is two critical sections per
thread.  A sum that does not fit an `int32_t` is undefined, so `IngestStat` then leaves any
value of the type.  In `Memory` an address is a number, and the
allocator returns any aligned base in the heap where the bytes overlap nothing that is
allocated, so that a base is used again after it was freed.  Abstractions: login calls come from the thread
that ticks; observers may be posted in any order; the configuration lists a mod once;
alignments are powers of two; allocation succeeds; the game frees before Shutdown.

## 3. What TLC checks

| Run | Instance | Checks |
|---|---|---|
| `stream_ordered` | 3 packets, selective mask of 1 bit, inbox limits 0, 1 and 2 that change at any time, 1 foreign byte | `TypeOK`, `NoAckedLoss`, `OrderedDelivery`, `InboxAccounting`, `BlockedIsNotified`, `QueueLimit`, `RefinesChannel` |
| `stream_unordered` | unordered, 6 packets over 6 wire numbers, window 2, 3 datagrams at a time, no inbox limit | `ExactlyOnce` across the wrap |
| `stream_live` | 2 packets, inbox of 1, fair | `AllDelivered`, `AllAcknowledged` |
| `connection` | 2 peers, 1 sender, 2 packets, interruption after 2 transmissions, 3 datagrams at a time | `TypeOK`, `RecvStreamHasConnection`, `InterruptedHasCause`, `EstablishedOnce`, `ReliableUntilCleared` |
| `lobby` | 2 nodes, sizes 1 and 2, 3 calls, any number of datagrams, fair | `TypeOK`, `AuthorityIsBacked`, `ChangeIsAnnounced`, `Converges` |
| `lobby_two_owners` | 2 nodes, 6 calls, 1 duplicate delivery | `OneAuthority`, violated: section 5 |
| `sessions` | 2 nodes, 1 name on each, 2 ids, 3 calls, 1 duplicate delivery, fair | `TypeOK`, `HostIsOwner`, `SearchersConverge` |
| `platform` | 1 peer, 2 presences, 1 call of the game beside SetPresence, 2 waiting closures from outside Drain, fair | `TypeOK`, `PresenceSettled`, `PresenceAnnounced`, `FIFO`, `FrameEnds`, `SilentIsSeen` |
| `storage` | names empty, `/`, `%2F`, `f` and `f.`, of up to 2 characters for a write; files of up to 1 byte; 2 calls, 2 requests, 2 faults or deaths; 2 title names, one unsafe | `StorageTypeOK`, `PlayerDataSurvives`, `RequestOutlivesTransfer` |
| `storage_names` | the same, names empty and `.` | `WritesAreMirrored`, violated: section 5 |
| `services` | 4 calls, 2 platforms, 2 unlocking threads, 2 observers, 2 achievements, stats from -4 to 3, a heap of 5 units of the largest alignment, 1 block with 2 attachments | `TypeOK`, `StatusTold`, `UnlockToldOnce`, `BlocksStayInside` |
| `social` | 1 lobby and 1 session id, 1 invite of each kind, 2 users, 1 custom room, 4 key combinations, 4 calls, datagrams or acts of the user, automatic accept and join on | `TypeOK`, `DisplayTold`, `ShownIsVisible`, `RoomsReported`, `InvitesSettle` |

**Why the bounds are enough.** A stream needs three packets for a hole, a packet
past it and one before it, and an inbox smaller than the run that becomes ready
at once; a second foreign byte or a wider mask repeats these cases, and the proofs
cover all values.  Wire numbers wrap when there are as many packets
as numbers; `stream_unordered` looks at that alone, and the inbox limits of an
unordered stream, and that it implements the channel, are left to the proofs.
A connection needs two packets to be cleared between them, and two transmissions
to tell the first from the last.  Three lobby calls create, join and change the lobby while any number of the owner's
announces and periodic announces travel, are lost and overtake each other; what a third
node adds is left to the proofs, which are for all sets of nodes.  Six calls suffice for an
ownership that goes there and back.  Three session calls create two sessions and join one under the
name of the other, or create, join and announce a joined copy.  The bound on datagrams
in the network (`FewDatagrams`) is a constraint: TLC does not explore beyond a state
that exceeds it.  The fair runs have none, since a constraint can hide a cycle.

Peers do not interact in the directory, so one peer shows what happens to each; its
Hellos, Goodbyes, silence and returns are unbounded, only the game's calls are.
Two storage calls are a transfer and the call that disturbs it, and two faults are a
disk fault and a death after it; `/` and `%2F` are the names that a careless encoding
confuses, `f` and `f.` two names of one file, beside which the others must stay whole.  Two
unlocking threads and two platforms are the fewest that race and that outlive each other.  Four social acts are, for instance, an invite, its rejection by
the game, and two clicks on the rows that were drawn before.

**Fairness.** `P2PStream`: Tick keeps calling `Pump` and retransmission intervals are
at most `kMaxRto`, so every pending packet is resent again and again (WF); a
datagram that is sent again and again arrives some time (SF); the receiving game
keeps calling `ReceivePacket` (WF).  Nothing is assumed of sends, clears or queue
sizes.  `Lobby`: an owner announces every two seconds from Tick (WF), and of the
announces one node keeps sending to another some keep arriving (SF).  `Sessions`:
the same, per session.  `Platform`: a game calls Tick every frame and its callbacks
return, a thread that has begun a call goes on, and time passes (all WF); nothing is
assumed of the network.  These are what a running game and a LAN that is not cut
provide; without them no liveness property is claimed.

**Deadlock** is checked in the P2P runs.  In the others the bounded calls may all be
used up with nothing left to do: stopping is legitimate there.

Each property is also checked to be breakable: `mutants` in `PROJECT.json` names, for
each, a plausible mistake in the code (a dropped guard, a missing reset, a swapped
order) under which TLC finds it violated.

## 4. What is proved

TLC shows a property on the instances of section 3; the theorems below say it for
every value of the constants that meets the assumption of the component.  The assumptions
ask that bounds and sizes are natural numbers, that the markers for "nothing" are not
things, that configured lists and the sets of observers, users and games are finite, and
otherwise only for a window below half the wire range (`P2PStream`, section 2), two peers
(`P2PConnection`, whose state is per pair of peers), seeds within their sets and a
stat within its width (`LocalStores`), alignments that divide the largest one when
they are below it (`Memory`: they are powers of two), file names made of characters, each
of which stays a name without the dots at its end, and letters and devices that the
encoding leaves alone (`PlayerDataStorage`), the local user among the users (`RTCRooms`) and a default key
combination that is itself a valid one (`SocialOverlay`).

| Component | Theorem | Property | For all |
|---|---|---|---|
| stream | `Extend32Exact` | the number rebuilt from its low bits is the number sent | ranges, and distances below half of them |
| | `Invariance` | `Spec => []IInv` | widths, packet and queue sizes, numbers of packets |
| | `TypeCorrect`, `AckedIsNotLost`, `DeliveredOnce`, `DeliveredInOrder`, `BytesAreExact`, `FullIsNotified` | `TypeOK`, `NoAckedLoss`, `ExactlyOnce`, `OrderedDelivery`, `InboxAccounting`, `BlockedIsNotified` | |
| | `LimitRespected` | the action property `QueueLimit` | |
| | `Implementation` | refinement: `RefinesChannel` | |
| connection | `TypeCorrect` | `TypeOK` | numbers of packets, of transmissions, and senders |
| | `StreamsAreConnected`, `InterruptionIsCaused`, `AnnouncedOnce` | `RecvStreamHasConnection`, `InterruptedHasCause`, `EstablishedOnce` | |
| | `AcknowledgedHasArrived` | `ReliableUntilCleared` | |
| lobby | `CopiesAreProper` | `Spec => []IInv` | sets of nodes, sizes, calls, duplicates |
| | `TypeCorrect`, `AuthorityHasRecord` | `TypeOK`, `AuthorityIsBacked` | |
| | `OwnersAnnounce` | the action property `ChangeIsAnnounced` | |
| sessions | `RecordsAreProper` | `Spec => []IInv` | sets of nodes, names and ids, calls, duplicates |
| | `TypeCorrect`, `DiscoveredLeadsToOwner` | `TypeOK`, `HostIsOwner` | |
| platform | `TypeCorrect`, `FriendsAreSettled`, `PresenceIsAnnounced` | `TypeOK`, `PresenceSettled`, `PresenceAnnounced` | peers, presences, timeouts, latencies, calls |
| | `ClosuresInLine` | refinement: `FIFO` | |
| services | `TypeCorrect`, `StatusIsTold`, `UnlockAnnouncedOnce`, `BlocksInside` | `TypeOK`, `StatusTold`, `UnlockToldOnce`, `BlocksStayInside` | stats, achievements, observers, threads, sizes, calls |
| storage | `StorageInvariant` | `StorageSpec => []StorageInv` | sets of names, letters and devices, contents, requests, calls, faults, deaths |
| | `StorageTypes`, `DataSurvives`, `RequestOutlives` | `StorageTypeOK`, `PlayerDataSurvives`, `RequestOutlivesTransfer` | |
| social | `SocialInvariant` | `Spec => []SocialInv` | games, invites, users, rooms, observers, key combinations, calls |
| | `SocialTypes`, `RoomsTell`, `DisplaysTell` | `TypeOK`, `RoomsReported`, `DisplayTold` | |
| | `ShownStaysVisible`, `InvitesStaySettled` | `ShownIsVisible`, `InvitesSettle` | |

None of these properties is inductive alone.  What each proof adds, and why:

**Stream.**  `NoAckedLoss` needs to know that
acknowledgements in flight claim only what the receiver has (`AckInv`), which needs
that a rebuilt number is the right one, which needs that everything more than a
window behind has arrived (`SenderInv`), which is `NoAckedLoss` again: they hold
together.  Uniqueness needs that the numbers the receiver counts as received are
exactly the packets in buffer, inbox, taken and discarded, each in one of them
(`PlaceInv`); order needs that the inbox is the run of numbers just below
`nextToDeliver` (`OrderInv`).  `IInv` is their conjunction with the type invariant,
`InboxAccounting` and `BlockedIsNotified`.  The proof has a lemma per action; the two
that drain the buffer share `DrainRuns`, `ReleasePlaces` and `DrainPlaces`.
`Implementation` maps `waiting` to the packets neither taken nor discarded; all steps
except send, receive and clear are stutters of the channel.

**Connection.**  Three invariants, each on top of the one before.  `Types` adds to
`TypeOK` the shape of the streams and that the numbers stay below what was handed to
`SendPacket`, which between its two lock regions depends on the packet still to be
numbered.  `Tied(n)` ties a connection to its streams, its interruption to a packet whose
transmissions ran out, and its flag to the count of its notifications; every handler may
break or restore the tie, the receive thread also while the game thread is inside
`SendPacket`.  `AgreementUntilCleared` is the reason for
`ReliableUntilCleared`: while no stream has been cleared, the number of a packet is the
packet, the next number belongs to the next packet, `NextExpected` and `Received`
describe exactly what has arrived, and an acknowledgement in flight covers nothing else.

**Lobby.**  A node takes its record from an announce, which came from another node's
table, which may have come from a details handle: so the form of a record (`Proper`) must
hold of every copy (`CopiesInv`) and of every datagram (`NetInv`), for `AuthorityIsBacked`
(`BackedInv`) to be kept by a step that stores one.  `ChangeIsAnnounced` needs in addition
that nothing of a lobby exists before it is created (`FreshInv`).

**Sessions.**  `HostIsOwner` speaks of what is discovered; a discovered record was announced
from a node's own table, where the game may have put a copy it held, which came from an
earlier announce.  `IInv` says of each of these places that the host address of the record
is that of its owner, or still open and with the owner, the only one who then announces it.

**Platform.**  `PresenceSettled` counts on a notification that is still to run in the line
`ready \o pending`.  `DispatcherProofs` says once what a critical section does to it:
`Post` and `PostAfter` only add, a Drain moves the line into the batch and may add closures
whose delay is over, a closure that runs is the head.  On top, `ThreadInv` says where
Tick and the receive thread can be when they still owe a notification (`gone`, `rx`), and
that Tick is not inside a batch on its way there.  `ClosuresInLine` maps `ready \o pending` to the queue of
`TaskQueue` and needs the type of the queue only.

**Services.**  `StatusTold` needs to know of each login which announcement waits last in the
line: it tells the status the login has, or there is none and the one being made, between
a completion callback and its announcement, does, or nothing is owed (`Settled`).
`UnlockToldOnce` needs the state between the two critical sections of `UnlockAchievements`:
what a thread has newly unlocked is in the store and with no other thread (`NewlyOnce`), and
what is in the line or has been told is with none (`ToldOnce`).  `BlocksStayInside` needs
that no allocation is empty and each belongs to one block (`MemoryInv`): otherwise a block
could get the base of another, or its release could free what hangs from another.  The
rounding stays within the prefix because it moves an address up by less than the alignment
(`AlignUpAligns`), and what is aligned as the largest type is aligned as any smaller one
(`Aligned`).

**Lists.**  What a loop over a list leaves behind is a fact about all lists, and an
induction over data as a rule of the library is out of the provers' reach.
`DispatcherProofs` proves the few it needs over sets of natural numbers: the smallest place
where a claim fails has a predecessor where it holds.  From this come what
`Picked`, `FlattenSeq` and `SetToSeq` return, which are the loops of the code, and that
a recursion over the places of a name defines a function, which is what `DecodeName` is.

**Storage.**  `PlayerDataSurvives` speaks of names through the encoding.  `NameComesBack`
says that `DecodeName` undoes `EncodeName` for all names: in the encoded name each
character has become a part (`EncodedParts`, `EncodedSoFar`), and from the start of a part the
decoder takes exactly this part (`DecodeSteps`), since `%` itself is always escaped.  So no two
names are encoded alike.  On disk some of them still meet: `EncodeCommutes` says that the file
system does to the encoded name what it does to the name, since an escape has no dot and no
small letter, so that two names meet on disk only if they meet already without case and without
the dots at their ends (`KeysDiffer`).  An `OwnFile` therefore has an entry of its own
(`OwnEntry`), and a write, a removal or a fault at another name does not touch it
(`MirrorStays`).  `StoreInv` holds `files`, `mirror` and `saved` together for these names, and
needs to know that nothing is exposed before the mirror is read back (`Untouched`).  About the
other names nothing is claimed beyond what this process reads.  `RequestOutlivesTransfer` counts places of the line; `RequestInv`
adds that a request has at most one transfer, waiting or running, which is what keeps
the count right when the game releases the request from another call, and when the platform
goes down with transfers in the line.  `TransferInv` says that a write hands on
what it was handed and that its result is known before it commits.

**Social.**  `RoomsReported` and `DisplayTold` are about what is still in the line, like
`StatusTold`: the last event that matters to a participant, or an observer, decides.
`Believes` is that statement for any list, any set of events that matter and the one
event that convinces; `BelievesConcat` takes two lists one after the other, `BelievesTail` a
closure that runs.  For a `PumpTick` the lists of events are built in a loop over rooms, in
any order, and in each over those who joined and those who left: `JoinedSays`,
`LeftSays` and `GoneSays` say what each makes the game believe, `ReconcileSays` and
`ViewsSay` that a room's list leads from the old participants to the new ones and no room's
list matters to another.  `ShownInv` excuses what `notify` owes; the steps of the overlay
post nothing but `Plain` closures and may only raise `notify` (`Quiet`, `Owed`), so
`RoomsInv` and `ShownInv` are kept by them in one lemma each.  `InvitesSettle` needs that
ids are not given out twice and that what was rejected has left `Invites_` (`AnswersOK`):
a click on a stale row then finds nothing.  That the window is shown only while visible
is inductive with the types (`SwitchInv`).

**Only model-checked.**

* Liveness: `AllDelivered`, `AllAcknowledged`, `Converges`, `SearchersConverge`, `FrameEnds`,
  `SilentIsSeen`.  The prover has no rules for fairness and `ENABLED`.
* `OneAuthority` and `WritesAreMirrored` are false (section 5).

Every other property that a run checks is stated by a theorem.

## 5. Findings

`lobby_two_owners`: an announce is applied whatever its version (`Lobby.cpp:1055`), so
a late copy of an old promotion makes a second owner (`Lobby.cpp:1059-1062`).  Owners
ignore announces, so both remain.  What the lobby does guarantee in spite of it is
checked: the tables of each node agree (`AuthorityIsBacked`), and once one owner
remains all copies converge (`Converges`).

`storage_names`: `CheckFilename` accepts `.` and `..` and `EncodeName` leaves them as they
are (`PlayerDataStorage.cpp:83`); they name directories, so the mirror is never opened
(`PlayerDataStorage.cpp:202`).  The write is reported as Success, the game reads the file
until it ends, and the next start does not find it, although the disk never failed; the file
comment says that every write is mirrored and survives restarts.

What remains true is `PlayerDataSurvives`, for the names that have a file of their own.

Weaknesses met while modelling, which no run asserts; most are in `hazards`:

* between the two lock regions of `SendPacket` (`P2P.cpp:384`) the receive thread may
  drop the connection; the packet then sits on a stream without one, is retransmitted
  for ever, and neither interruption nor timeout happens;
* when one peer clears its streams and the other does not, new packets start at 1
  again and are acknowledged and dropped as duplicates (`P2P.cpp:640`);
  `ReliableUntilCleared` is what holds before that;
* a stale KICKED erases `MemberOf_` and not `Owned_` (`Lobby.cpp:1240`); an owner that
  promotes itself gives up its ownership to nobody (`Lobby.cpp:597`); a lost handoff
  announce, or an owner that exits, leaves a lobby without owner (`Lobby.cpp:551`);
* `JoinSession` under a name the node hosts leaves `Owned_` alone (`Sessions.cpp:304`):
  the node announces the joined session and withdraws it when it leaves; a session that
  is made private or whose host exits is never withdrawn (`Sessions.cpp:239`);
* `Extend32` assumes peers within 2^31 of each other, which nothing enforces; a packet
  larger than the queue limit blocks an ordered stream; a reliable send to a peer
  without an endpoint succeeds and drops the packet (`P2P.cpp:365`);
* names of player files that differ only in case, or in dots at the end, are two files in
  the store and one on disk, where the file system takes them for one as Windows does
  (`EncodeName`, `PlayerDataStorage.cpp:80-108`): the later write replaces the earlier and
  deleting one deletes both, against the comment at `PlayerDataStorage.cpp:86` ("one stored
  file maps to one flat on-disk name, reversibly").  The model does this too, and
  `WritesAreMirrored` fails in it for `f` and `F` as for `.`;
* a write of player data whose mirror fails is reported as Success
  (`PlayerDataStorage.cpp:202`); a `DeleteFile` after a `WriteFile` in the same frame acts
  first; a write callback that continues without data keeps Tick for ever;
* releasing a title request before its Tick leaves the closure with freed memory
  (`TitleStorage.cpp:330`), which player storage guards against;
* Connect's Logout leaves `bLoggedIn_` as it was, and logins that create or link a user
  announce nothing (`Connect.cpp:258`): `silent` excuses exactly these changes in
  `StatusTold`; a stat that overflows is undefined (`Stats.cpp:67`); deprecated achievement observers are
  never called, against the comment at `Achievements.cpp:209`; a second platform
  overwrites ingested stats with the configured ones (`Stats.cpp:43`);
* a player modal is shown without asking whether there is an overlay (`UI.cpp:220`);
  hiding while paused is undone by the unpause (`UI.cpp:204`); a hide and a toggle before
  one Tick leave the window hidden while the game is told it is visible;
* an automatic accept may be posted before the notification that the invite arrived
  (`Lobby.cpp:1272`); an automatic join is marked as handled before its record is found
  (`UI.cpp:287`); a custom room that has the name of a lobby's room is not handed over
  to the lobby (`RTC.cpp:133`).

Some state is carried because the code carries it and no property is about it: the content
of a presence beyond its being announced, custom invite payloads, the entries of the catalog,
the Steam id.  `DisplayTold` compares with the display that was last announced; whether each
change of the display leads to an announcement is not part of it.

## 6. Not modelled

Argument checks and field copies of the C API (`Lobby_Exports.cpp`,
`Sessions_Exports.cpp`, versions of option structures), logging, byte encoding and
sockets: I/O or sequential.  Retransmission timing and RTT estimation: real time,
replaced by nondeterministic choice.  Sends to peers without an endpoint, NAT and relay
settings.  The order in which P2P, lobby and session notifications run, and the
observers that are registered and never called.  Search predicates and attribute
comparison: pure functions over typed values.  Release of the platform inside one of
its callbacks, which the code does not survive.  Drawing, toasts and the Direct3D hook.
Audio devices and data packets of RTC.  Offers, catalog, tokens and leaderboards, which
answer from the configuration or from the stats.  Generated stubs return constants.
See `components` in `PROJECT.json` for every part and what of it is left out.

## 7. Plan

Done: the modules of section 2, and the proofs of section 4 for all of them.  Further
modelling, if wanted: search predicates and attribute comparison as operators against
reference definitions; P2P notifications composed with the `Dispatcher`, for the
hazard at `P2P.cpp:866`.
