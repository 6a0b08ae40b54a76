------------------------------ MODULE Invites ----------------------------
(***************************************************************************)
(* Invites and joinable games, as the social overlay sees them: the part   *)
(* that LobbyInterface and SessionsInterface have in common                *)
(* (src/interfaces/Lobby.cpp, Sessions.cpp), and the custom invites        *)
(* (src/interfaces/CustomInvites.cpp).  The receive thread files an        *)
(* invite; Tick and the calls of the game take it from there.  How the     *)
(* records of the games come about is the matter of Lobby and Sessions;    *)
(* here a game becomes known, fills up, is joined and disappears at will.  *)
(***************************************************************************)
EXTENDS Dispatcher, FiniteSets

CONSTANTS
  Games,        \* lobby ids and session ids
  NoInvite,     \* the receive thread is not between filing and posting
  MaxInvites    \* bound: invites of each kind

ASSUME InvitesAssumption == IsFiniteSet(Games) /\ MaxInvites \in Nat

Kinds == {"lobby", "session"}

VARIABLES
  invites,      \* Invites_ of each interface
  nextInvite,   \* NextInvite_ of each, and of the custom invites
  arriving,     \* the invite filed and not yet posted by the receive thread
  known,        \* Known_: is there a record, and has it a free slot?
  joined,       \* MemberOf_ and Owned_; the session ids in Local_
  uiEvents,     \* UiEvents_ of each interface
  nextUiEvent,  \* the counter of NextUiEventId, shared by both
  payload,      \* OutgoingPayload_ of the custom invites
  outcomes      \* history: what the game was told about each invite, in order

gameVars == <<known, joined>>
inviteVars == <<invites, nextInvite, arriving, uiEvents, nextUiEvent, payload, outcomes>>

InviteIds == 1..MaxInvites

InvitesInit ==
  /\ invites = [k \in Kinds |-> <<>>]
  /\ nextInvite = [k \in Kinds \cup {"custom"} |-> 1]
  /\ arriving = NoInvite
  /\ known = [k \in Kinds |-> [g \in Games |-> "none"]]
  /\ joined = [k \in Kinds |-> {}]
  /\ uiEvents = [k \in Kinds |-> {}] /\ nextUiEvent = 1
  /\ payload = ""
  /\ outcomes = [k \in Kinds |-> [i \in InviteIds |-> <<>>]]

\* A closure whose callback changes nothing here, whatever it reports.
Plain == [kind |-> "plain"]

Filed(k) == {invites[k][i].id : i \in DOMAIN invites[k]}

\* The record of a game is replaced, filled or erased by the receive thread.
GameChanges(k, g, record) ==
  /\ known[k][g] # record
  /\ known' = [known EXCEPT ![k][g] = record]
  /\ UNCHANGED <<joined, inviteVars, dispatchVars>>

\* The game enters or leaves a lobby or a session.
EnterGame(k, g) ==
  /\ known[k][g] # "none" /\ g \notin joined[k]
  /\ joined' = [joined EXCEPT ![k] = @ \cup {g}]
  /\ Post(<<Plain>>)
  /\ UNCHANGED <<known, inviteVars, delayed, ready, draining>>

QuitGame(k, g) ==
  /\ g \in joined[k]
  /\ joined' = [joined EXCEPT ![k] = @ \ {g}]
  /\ Post(<<Plain>>)
  /\ UNCHANGED <<known, inviteVars, delayed, ready, draining>>

---------------------------------------------------------------------------
(* The receive thread files an invite under its lock and posts the         *)
(* notification after it: Tick may come in between.                        *)

FileInvite(k, g) ==
  /\ arriving = NoInvite /\ nextInvite[k] <= MaxInvites
  /\ invites' = [invites EXCEPT ![k] = Append(@, [id |-> nextInvite[k], game |-> g])]
  /\ nextInvite' = [nextInvite EXCEPT ![k] = @ + 1]
  /\ arriving' = k
  /\ UNCHANGED <<gameVars, uiEvents, nextUiEvent, payload, outcomes, dispatchVars>>

FileCustomInvite ==
  /\ arriving = NoInvite /\ nextInvite["custom"] <= MaxInvites
  /\ nextInvite' = [nextInvite EXCEPT !["custom"] = @ + 1]
  /\ arriving' = "custom"
  /\ UNCHANGED <<gameVars, invites, uiEvents, nextUiEvent, payload, outcomes, dispatchVars>>

PostInviteReceived ==
  /\ arriving # NoInvite
  /\ arriving' = NoInvite
  /\ Post(<<Plain>>)
  /\ UNCHANGED <<gameVars, invites, nextInvite, uiEvents, nextUiEvent, payload, outcomes,
                 delayed, ready, draining>>

---------------------------------------------------------------------------
(* Calls of the game.                                                      *)

Without(k, i) ==
  [invites EXCEPT ![k] = Picked(@, {n \in DOMAIN @ : @[n].id # i})]

Told(k, i, what) == [outcomes EXCEPT ![k][i] = Append(@, what)]

RejectInvite(k, i) ==
  /\ i < nextInvite[k]
  /\ invites' = Without(k, i)
  /\ outcomes' = IF i \in Filed(k) THEN Told(k, i, "rejected") ELSE outcomes
  /\ Post(<<Plain>>)
  /\ UNCHANGED <<gameVars, nextInvite, arriving, uiEvents, nextUiEvent, payload,
                 delayed, ready, draining>>

\* SendInvite and QueryInvites complete, and change nothing of the sender's.
SendInvite == Post(<<Plain>>) /\ UNCHANGED <<gameVars, inviteVars, delayed, ready, draining>>

SetCustomInvite(text) ==
  /\ payload' = text
  /\ UNCHANGED <<gameVars, invites, nextInvite, arriving, uiEvents, nextUiEvent, outcomes,
                 dispatchVars>>

\* SendCustomInvite and the request-to-join calls.
SendCustomInvite ==
  Post(<<Plain>>) /\ UNCHANGED <<gameVars, inviteVars, delayed, ready, draining>>

\* AcknowledgeEventId asks both interfaces.
AcknowledgeEventId(e) ==
  /\ e < nextUiEvent
  /\ uiEvents' = [k \in Kinds |-> uiEvents[k] \ {e}]
  /\ UNCHANGED <<gameVars, invites, nextInvite, arriving, nextUiEvent, payload, outcomes,
                 dispatchVars>>

---------------------------------------------------------------------------
(* What the overlay asks of Lobby and Sessions, in Tick.                   *)

SnapshotInvites(k) ==
  Picked(invites[k], {n \in DOMAIN invites[k] : invites[k][n].game \notin joined[k]})

SnapshotJoinable(k) == {g \in Games \ joined[k] : known[k][g] = "open"}

MutAcceptInviteFromOverlay(k, i) ==
  /\ outcomes' = Told(k, i, "accepted") /\ Post(<<Plain>>)
  /\ UNCHANGED <<gameVars, invites, nextInvite, arriving, uiEvents, nextUiEvent, payload,
                 delayed, ready, draining>>

\* The invite stays filed, for the game to look it up from its callback.
AcceptInviteFromOverlay(k, i) ==
  /\ IF i \in Filed(k) THEN outcomes' = Told(k, i, "accepted") /\ Post(<<Plain>>)
                       ELSE UNCHANGED <<outcomes, pending>>
  /\ UNCHANGED <<gameVars, invites, nextInvite, arriving, uiEvents, nextUiEvent, payload,
                 delayed, ready, draining>>

RejectInviteFromOverlay(k, i) ==
  /\ invites' = Without(k, i)
  /\ IF i \in Filed(k) THEN outcomes' = Told(k, i, "rejected") /\ Post(<<Plain>>)
                       ELSE UNCHANGED <<outcomes, pending>>
  /\ UNCHANGED <<gameVars, nextInvite, arriving, uiEvents, nextUiEvent, payload,
                 delayed, ready, draining>>

MutNextUiEventId == UNCHANGED nextUiEvent

NextUiEventId == nextUiEvent' = nextUiEvent + 1

\* The record is kept under a fresh event id until the game acknowledges it.
BeginJoinFromOverlay(k, g) ==
  /\ IF known[k][g] = "none" THEN UNCHANGED <<uiEvents, nextUiEvent, pending>>
     ELSE /\ uiEvents' = [uiEvents EXCEPT ![k] = @ \cup {nextUiEvent}]
          /\ NextUiEventId
          /\ Post(<<Plain>>)
  /\ UNCHANGED <<gameVars, invites, nextInvite, arriving, payload, outcomes,
                 delayed, ready, draining>>

InvitesTypeOK ==
  /\ \A k \in Kinds : IsInjective([i \in DOMAIN invites[k] |-> invites[k][i].id])
  /\ nextInvite \in [Kinds \cup {"custom"} -> 1..MaxInvites + 1]
  /\ arriving \in Kinds \cup {"custom", NoInvite}
  /\ known \in [Kinds -> [Games -> {"none", "open", "full"}]]
  /\ joined \in [Kinds -> SUBSET Games]
  /\ uiEvents["lobby"] \cap uiEvents["session"] = {}
  /\ \A k \in Kinds : uiEvents[k] \subseteq 1..nextUiEvent - 1
==========================================================================
