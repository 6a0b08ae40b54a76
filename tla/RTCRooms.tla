----------------------------- MODULE RTCRooms ----------------------------
(***************************************************************************)
(* The RTC rooms (src/interfaces/RTC.cpp, RTCAudio.cpp, RTCData.cpp).      *)
(* Every Tick reconciles the rooms with the lobbies of the local user; the *)
(* game joins and leaves rooms of its own.  No media flows: a room is its  *)
(* list of participants, and what the game knows of it are the events that *)
(* the reconciliation posts.  The room of lobby g has the name "rtc_" and  *)
(* g, here g; a game may also join a room of its own under that name.      *)
(***************************************************************************)
EXTENDS Invites

CONSTANTS
  Pids,         \* product user ids
  LocalPid,
  CustomRooms,  \* names of rooms without a lobby
  NoRoom        \* the name is not in Rooms_

RoomNames == Games \cup CustomRooms
Rooms == [managed : BOOLEAN, participants : SUBSET Pids, audio : {"Disabled", "Enabled"}]

ASSUME RTCAssumption == IsFiniteSet(Pids) /\ LocalPid \in Pids /\ NoRoom \notin Rooms

VARIABLES
  roster,       \* the members in the Known_ record of each lobby
  rooms,        \* Rooms_
  reported      \* the participants of a room, as its events have told the game

rtcVars == <<rooms, reported>>

NewRoom(managed, participants) ==
  [managed |-> managed, participants |-> participants, audio |-> "Disabled"]

RTCInit ==
  /\ roster = [g \in Games |-> {}]
  /\ rooms = [r \in RoomNames |-> NoRoom]
  /\ reported = [r \in RoomNames |-> {}]

\* FireParticipantJoinedBundle and FireParticipantStatus.  The audio and the
\* data closure that follow each Joined repeat its participant.
Joined(r, pids) ==
  [i \in 1..Cardinality(pids) |-> [kind |-> "joined", room |-> r, pid |-> SetToSeq(pids)[i]]]
Left(r, pids) ==
  [i \in 1..Cardinality(pids) |-> [kind |-> "left", room |-> r, pid |-> SetToSeq(pids)[i]]]
\* FireLobbyRoomConnection, and the completion of LeaveRoom: the game starts
\* again from an empty room.
Connected(r) == [kind |-> "connected", room |-> r]
Gone(r) == [kind |-> "gone", room |-> r]

\* What the game makes of one event.
Heard(view, task) ==
  CASE task.kind = "joined" -> [view EXCEPT ![task.room] = @ \cup {task.pid}]
    [] task.kind = "left" -> [view EXCEPT ![task.room] = @ \ {task.pid}]
    [] task.kind \in {"connected", "gone"} -> [view EXCEPT ![task.room] = {}]
    [] OTHER -> view

\* The record of a lobby names other members.
RosterChanges(g, pids) ==
  /\ roster[g] # pids
  /\ roster' = [roster EXCEPT ![g] = pids]
  /\ UNCHANGED <<gameVars, inviteVars, rtcVars, dispatchVars>>

SnapshotRTCRooms == {g \in joined["lobby"] : known["lobby"][g] # "none"}

InRoom(r) == rooms[r] # NoRoom

\* One view of the loop over the lobbies.
Reconcile(g) ==
  IF InRoom(g) THEN Joined(g, roster[g] \ rooms[g].participants)
                      \o Left(g, rooms[g].participants \ roster[g])
               ELSE <<Connected(g)>> \o Joined(g, roster[g])

MutReconciled(r) ==
  IF r \in SnapshotRTCRooms /\ InRoom(r) THEN rooms[r]
  ELSE IF r \in SnapshotRTCRooms THEN NewRoom(TRUE, roster[r])
  ELSE IF InRoom(r) /\ rooms[r].managed THEN NoRoom ELSE rooms[r]

\* A room that the game joined first keeps LobbyManaged FALSE: nothing
\* removes it when the lobby is left.
Reconciled(r) ==
  IF r \in SnapshotRTCRooms /\ InRoom(r) THEN [rooms[r] EXCEPT !.participants = roster[r]]
  ELSE IF r \in SnapshotRTCRooms THEN NewRoom(TRUE, roster[r])
  ELSE IF InRoom(r) /\ rooms[r].managed THEN NoRoom ELSE rooms[r]

LeftLobbies == {r \in RoomNames \ SnapshotRTCRooms : InRoom(r) /\ rooms[r].managed}

RTCPumpTick ==
  /\ Post(FlattenSeq([i \in 1..Cardinality(SnapshotRTCRooms) |->
                        Reconcile(SetToSeq(SnapshotRTCRooms)[i])])
          \o [i \in 1..Cardinality(LeftLobbies) |-> Gone(SetToSeq(LeftLobbies)[i])])
  /\ rooms' = [r \in RoomNames |-> Reconciled(r)]
  /\ UNCHANGED <<reported, roster, gameVars, inviteVars, delayed, ready, draining>>

\* EOS_RTC_JoinRoom: AccessDenied for the room of a lobby, Success for one
\* that is already joined.
JoinRoom(r) ==
  /\ IF InRoom(r) THEN Post(<<Plain>>) /\ UNCHANGED rooms
     ELSE /\ rooms' = [rooms EXCEPT ![r] = NewRoom(FALSE, {LocalPid})]
          /\ Post(Joined(r, {LocalPid}) \o <<Plain>>)
  /\ UNCHANGED <<reported, roster, gameVars, inviteVars, delayed, ready, draining>>

LeaveRoom(r) ==
  /\ IF InRoom(r) /\ ~rooms[r].managed
     THEN rooms' = [rooms EXCEPT ![r] = NoRoom] /\ Post(<<Gone(r)>>)
     ELSE Post(<<Plain>>) /\ UNCHANGED rooms
  /\ UNCHANGED <<reported, roster, gameVars, inviteVars, delayed, ready, draining>>

\* EOS_RTCAudio_UpdateSending; a change posts an audio update first.
UpdateSending(r, status) ==
  /\ InRoom(r)
  /\ rooms' = [rooms EXCEPT ![r].audio = status]
  /\ Post(IF rooms[r].audio = status THEN <<Plain>> ELSE <<Plain, Plain>>)
  /\ UNCHANGED <<reported, roster, gameVars, inviteVars, delayed, ready, draining>>

\* Calls that complete and change nothing: block, receive and volume calls,
\* devices and platform users, the data channel, a room that is not joined.
RTCCall == Post(<<Plain>>)
           /\ UNCHANGED <<rtcVars, roster, gameVars, inviteVars, delayed, ready, draining>>

RunRoomEvent ==
  /\ Work(<<>>)
  /\ Head(ready).kind \in {"joined", "left", "connected", "gone"}
  /\ reported' = Heard(reported, Head(ready))
  /\ UNCHANGED rooms

RTCTypeOK ==
  /\ roster \in [Games -> SUBSET Pids]
  /\ \A r \in RoomNames : InRoom(r) => rooms[r] \in Rooms /\ (rooms[r].managed => r \in Games)

\* The places in the line of the events of room r that tell of a participant:
\* a Joined and a Left of one's own, and the events that empty the room.
Telling(r, pid) ==
  {i \in DOMAIN Line :
     \/ Line[i].kind \in {"joined", "left"} /\ Line[i].room = r /\ Line[i].pid = pid
     \/ Line[i].kind \in {"connected", "gone"} /\ Line[i].room = r}

\* The game believes that pid is in the room once the line is empty.
WillBelieve(r, pid) ==
  \/ \E i \in Telling(r, pid) : Line[i].kind = "joined" /\ \A j \in Telling(r, pid) : j <= i
  \/ Telling(r, pid) = {} /\ pid \in reported[r]

\* A game that has run all the events that are queued knows the participants
\* of every room it is in, and believes nobody in a room it has left: the
\* differences that PumpTick posts, the rooms the game joins and leaves
\* between two pumps, under the name of a lobby too, and a lobby that is left
\* and entered again all leave one consistent story.
RoomsReported ==
  \A r \in RoomNames, pid \in Pids :
    WillBelieve(r, pid) <=> InRoom(r) /\ pid \in rooms[r].participants
==========================================================================
