------------------------------ MODULE Social -----------------------------
(***************************************************************************)
(* What Tick does for the social interfaces of one process, and what goes  *)
(* on around it: RTC.PumpTick, UI.PumpTick and then the callbacks, on the  *)
(* thread of the game, with the receive thread and the rendering thread    *)
(* beside it (src/core/Platform.cpp, Tick).                                *)
(***************************************************************************)
EXTENDS RTCRooms, SocialOverlay

CONSTANT MaxCalls   \* bound: calls of the game, datagrams, and acts of the user

ASSUME SocialAssumption == MaxCalls \in Nat

VARIABLES
  stage,    \* where Tick is before it drains; "game" when the game or a callback runs
  calls

vars == <<stage, calls, rtcVars, roster, gameVars, inviteVars, overlayVars, dispatchVars>>

Init ==
  /\ stage = "game" /\ calls = 0
  /\ DispatcherInit /\ InvitesInit /\ RTCInit /\ OverlayInit

TickBegins ==
  /\ stage = "game" /\ ~draining /\ stage' = "social"
  /\ RTCPumpTick
  /\ UNCHANGED <<calls, overlayVars>>

SocialPumped ==
  /\ stage = "social" /\ stage' = "route"
  /\ PumpSocial
  /\ UNCHANGED <<calls, rtcVars, roster>>

ActionRouted ==
  /\ stage = "route" /\ UNCHANGED stage
  /\ RouteAction \/ ConsumeUserVisibilityRequest
  /\ UNCHANGED <<calls, rtcVars, roster>>

DisplayPumped ==
  /\ stage = "route" /\ stage' = "drain"
  /\ FireDisplaySettings
  /\ UNCHANGED <<calls, rtcVars, roster>>

DrainBegins ==
  /\ stage = "drain" /\ stage' = "game"
  /\ Drain
  /\ UNCHANGED <<calls, rtcVars, roster, gameVars, inviteVars, overlayVars>>

RunTask ==
  /\ stage = "game"
  /\ \/ RunRoomEvent /\ UNCHANGED <<roster, gameVars, inviteVars, overlayVars>>
     \/ RunDisplayTask /\ UNCHANGED <<rtcVars, roster>>
     \/ /\ Work(<<>>) /\ Head(ready).kind = "plain"
        /\ UNCHANGED <<rtcVars, roster, gameVars, inviteVars, overlayVars>>
  /\ UNCHANGED <<stage, calls>>

TickReturns ==
  /\ stage = "game" /\ DrainReturns
  /\ UNCHANGED <<stage, calls, rtcVars, roster, gameVars, inviteVars, overlayVars>>

Call == calls < MaxCalls /\ calls' = calls + 1 /\ UNCHANGED stage

\* The game calls between two frames, or from a callback.
UICalls ==
  \/ ShowFriends \/ HideFriends \/ ShowPlayerModal
  \/ PauseSocialOverlay \/ ResumeSocialOverlay
  \/ \E o \in Observers :
       AddNotifyDisplaySettingsUpdated(o) \/ RemoveNotifyDisplaySettingsUpdated(o)
  \/ \E combo \in Combos : SetToggleKey(combo)
  \/ SetPreference("Start", preferences.location) \/ SetPreference(preferences.button, "TopLeft")

RTCCalls ==
  \/ \E r \in RoomNames :
       \/ JoinRoom(r) \/ LeaveRoom(r)
       \/ \E status \in {"Enabled", "Disabled"} : UpdateSending(r, status)
  \/ RTCCall

InviteCalls ==
  \/ \E k \in Kinds, g \in Games : EnterGame(k, g) \/ QuitGame(k, g)
  \/ \E k \in Kinds, i \in InviteIds : RejectInvite(k, i)
  \/ SendInvite \/ SetCustomInvite("hello") \/ SendCustomInvite
  \/ \E e \in 1..MaxCalls : AcknowledgeEventId(e)

GameCall ==
  /\ stage = "game" /\ Call
  /\ \/ UICalls /\ UNCHANGED <<rtcVars, roster>>
     \/ RTCCalls /\ UNCHANGED overlayVars
     \/ InviteCalls /\ UNCHANGED <<rtcVars, roster, overlayVars>>

\* The receive thread, at any time.
Datagram ==
  /\ Call
  /\ \/ \E k \in Kinds, g \in Games :
          \/ \E record \in {"none", "open", "full"} : GameChanges(k, g, record)
          \/ FileInvite(k, g)
     \/ FileCustomInvite
  /\ UNCHANGED <<rtcVars, roster, overlayVars>>

MembersChange ==
  /\ Call
  /\ \E g \in Games, pids \in SUBSET Pids : RosterChanges(g, pids)
  /\ UNCHANGED overlayVars

InvitePosted ==
  /\ PostInviteReceived
  /\ UNCHANGED <<stage, calls, rtcVars, roster, overlayVars>>

\* The user, at any time.
UserActs ==
  /\ Call
  /\ \/ PollHotkey(TRUE) \/ CloseWindow
     \/ \E row \in drawn, action \in {"Accept", "Reject", "Join"} : QueueAction(row, action)
     \/ UpdateExclusive(TRUE)
  /\ UNCHANGED <<rtcVars, roster>>

\* The rest of the rendering thread.
ThreadSteps ==
  /\ \/ ThreadStarts \/ PollHotkey(FALSE) \/ RequestToggle \/ RequestHide
     \/ UpdateExclusive(FALSE) \/ DrawSocialPanel
  /\ UNCHANGED <<stage, calls, rtcVars, roster>>

Next ==
  \/ TickBegins \/ SocialPumped \/ ActionRouted \/ DisplayPumped \/ DrainBegins
  \/ RunTask \/ TickReturns
  \/ GameCall \/ Datagram \/ MembersChange \/ InvitePosted
  \/ UserActs \/ ThreadSteps

Spec == Init /\ [][Next]_vars

\* The types of the parts; Tick finishes its actions before it drains.
TypeOK ==
  /\ stage \in {"game", "social", "route", "drain"} /\ calls \in 0..MaxCalls
  /\ InvitesTypeOK /\ RTCTypeOK /\ OverlayTypeOK
  /\ stage # "route" => actions = <<>>
  /\ stage # "game" => ~draining
==========================================================================
