-------------------------- MODULE SocialOverlay --------------------------
(***************************************************************************)
(* The social overlay: the state that the UI interface owns                *)
(* (src/interfaces/UI.cpp), the state that it shares with the thread that  *)
(* renders (src/overlay/OverlayInternal.h, Overlay.cpp), and the routing   *)
(* of what the user clicks, and of the automatic accepts and joins, to the *)
(* lobby and session interfaces.  The game and Tick are on one thread; the *)
(* user acts through the rendering thread at any time.                     *)
(***************************************************************************)
EXTENDS Invites

CONSTANTS
  Combos,       \* key combinations: [mods, key], with the None of the SDK
  NoCombo, DefaultToggle,
  Observers,    \* display-settings observers
  AutoAccept, AutoJoin,   \* EOSEMU_OVERLAY_AUTOACCEPT, EOSEMU_OVERLAY_AUTOJOIN
  Nothing       \* no request; an observer that was not told yet

\* A modifier, and one of the keys that EosKeyToVk knows.
IsValidKeyCombination(combo) == combo.mods # {} /\ combo.key \in {"F3", "Tab"}

ASSUME OverlayAssumption ==
  /\ IsFiniteSet(Observers) /\ Nothing \notin BOOLEAN
  /\ DefaultToggle \in Combos /\ IsValidKeyCombination(DefaultToggle)

VARIABLES
  visible, paused, wasVisible,   \* Visible_, Paused_, WasVisibleBeforePause_
  last,         \* LastVisible_ and LastExclusive_
  notify,       \* PendingInitialNotify_
  observers,    \* DisplayNotifies_
  toldDisplay,  \* what each observer was last called with
  toggleKey,    \* ToggleKey_
  preferences,  \* ToggleButton_ and NotifyLocation_
  handled,      \* HandledInvites_ and HandledJoins_, in the order of the insertions
  actions,      \* Actions, the local of the PumpSocial on the stack
  thread,       \* the rendering thread: "off", "starting" or "running"
  want,         \* WantVisible
  exclusive,    \* Exclusive
  request,      \* HasRequest and RequestVisible
  hotkey,       \* HotkeyWasDown
  polled,       \* the Target of the RequestToggle on the stack
  closing,      \* RequestHide is between its request and its store
  rows,         \* SocialItems
  drawn,        \* Items, the local of the DrawSocialPanel on the stack
  clicks        \* SocialActions

uiVars == <<visible, paused, wasVisible, last, notify, observers, toldDisplay, toggleKey,
            preferences>>
socialVars == <<handled, actions, rows, drawn, clicks>>
threadVars == <<thread, want, exclusive, request, hotkey, polled, closing>>
overlayVars == <<uiVars, socialVars, threadVars>>
elsewhere == <<gameVars, inviteVars>>

Display(v, e) == [visible |-> v, exclusive |-> e]

OverlayInit ==
  /\ visible = FALSE /\ paused = FALSE /\ wasVisible = FALSE
  /\ last = Display(FALSE, FALSE) /\ notify = FALSE /\ observers = {}
  /\ toldDisplay = [o \in Observers |-> Nothing]
  /\ toggleKey = DefaultToggle
  /\ preferences = [button |-> "None", location |-> "BottomRight"]
  /\ handled = <<>> /\ actions = <<>> /\ rows = {} /\ drawn = {} /\ clicks = <<>>
  /\ thread \in {"off", "starting"}
  /\ want = FALSE /\ exclusive = FALSE /\ request = Nothing
  /\ hotkey = FALSE /\ polled = Nothing /\ closing = FALSE

Available == thread # "off"

---------------------------------------------------------------------------
(* The thread that renders.                                                *)

\* ThreadMain creates its window and its device, or gives up.
ThreadStarts ==
  /\ thread = "starting" /\ thread' \in {"off", "running"}
  /\ UNCHANGED <<uiVars, socialVars, want, exclusive, request, hotkey, polled, closing,
                 elsewhere, dispatchVars>>

\* PollHotkey, for a shortcut that is down or not; a rising edge is a
\* RequestToggle, which reads WantVisible before it takes the lock.
PollHotkey(down) ==
  /\ thread = "running" /\ polled = Nothing /\ ~closing /\ hotkey # down
  /\ hotkey' = down
  /\ polled' = IF down THEN ~want ELSE Nothing
  /\ UNCHANGED <<uiVars, socialVars, thread, want, exclusive, request, closing,
                 elsewhere, dispatchVars>>

RequestToggle ==
  /\ polled # Nothing
  /\ request' = polled /\ polled' = Nothing
  /\ UNCHANGED <<uiVars, socialVars, thread, want, exclusive, hotkey, closing,
                 elsewhere, dispatchVars>>

\* WM_CLOSE: RequestHide files its request, then hides the window itself.
CloseWindow ==
  /\ thread = "running" /\ polled = Nothing /\ ~closing /\ want
  /\ request' = FALSE /\ closing' = TRUE
  /\ UNCHANGED <<uiVars, socialVars, thread, want, exclusive, hotkey, polled,
                 elsewhere, dispatchVars>>

RequestHide ==
  /\ closing /\ closing' = FALSE /\ want' = FALSE
  /\ UNCHANGED <<uiVars, socialVars, thread, exclusive, request, hotkey, polled,
                 elsewhere, dispatchVars>>

\* The end of one turn of the loop: the window is in front, or not.
UpdateExclusive(front) ==
  /\ thread = "running" /\ polled = Nothing /\ ~closing
  /\ exclusive' = (want /\ front) /\ exclusive' # exclusive
  /\ UNCHANGED <<uiVars, socialVars, thread, want, request, hotkey, polled, closing,
                 elsewhere, dispatchVars>>

\* DrawSocialPanel copies the rows; the user clicks a button of one that is
\* drawn, which may no longer be published.
DrawSocialPanel ==
  /\ thread = "running" /\ want /\ drawn # rows
  /\ drawn' = rows
  /\ UNCHANGED <<uiVars, handled, actions, rows, clicks, threadVars, elsewhere, dispatchVars>>

QueueAction(row, action) ==
  /\ thread = "running" /\ row \in drawn
  /\ action \in (IF row.row = "invite" THEN {"Accept", "Reject"} ELSE {"Join"})
  /\ clicks' = Append(clicks, [row |-> row, action |-> action])
  /\ UNCHANGED <<uiVars, handled, actions, rows, drawn, threadVars, elsewhere, dispatchVars>>

---------------------------------------------------------------------------
(* Calls of the game.                                                      *)

MutSetVisibleInternal(v) == visible' = v /\ want' = (want \/ v)

SetVisibleInternal(v) ==
  /\ visible' = v
  /\ want' = IF visible = v THEN want ELSE v

PauseSocialOverlay ==
  /\ ~paused /\ paused' = TRUE
  /\ wasVisible' = visible
  /\ SetVisibleInternal(FALSE)
  /\ UNCHANGED <<last, notify, observers, toldDisplay, toggleKey, preferences, socialVars,
                 thread, exclusive, request, hotkey, polled, closing, elsewhere, dispatchVars>>

ResumeSocialOverlay ==
  /\ paused /\ paused' = FALSE
  /\ IF wasVisible THEN SetVisibleInternal(TRUE) ELSE UNCHANGED <<visible, want>>
  /\ notify' = TRUE
  /\ UNCHANGED <<wasVisible, last, observers, toldDisplay, toggleKey, preferences, socialVars,
                 thread, exclusive, request, hotkey, polled, closing, elsewhere, dispatchVars>>

\* NotConfigured without an overlay; a paused overlay appears when resumed.
ShowFriends ==
  /\ IF Available /\ ~paused THEN SetVisibleInternal(TRUE) ELSE UNCHANGED <<visible, want>>
  /\ wasVisible' = (wasVisible \/ (Available /\ paused))
  /\ Post(<<Plain>>)
  /\ UNCHANGED <<paused, last, notify, observers, toldDisplay, toggleKey, preferences,
                 socialVars, thread, exclusive, request, hotkey, polled, closing, elsewhere,
                 delayed, ready, draining>>

HideFriends ==
  /\ SetVisibleInternal(FALSE)
  /\ Post(<<Plain>>)
  /\ UNCHANGED <<paused, wasVisible, last, notify, observers, toldDisplay, toggleKey,
                 preferences, socialVars, thread, exclusive, request, hotkey, polled, closing,
                 elsewhere, delayed, ready, draining>>

\* ShowBlockPlayer, ShowReportPlayer and ShowNativeProfile do not ask whether
\* there is an overlay.
ShowPlayerModal ==
  /\ IF paused THEN UNCHANGED <<visible, want>> ELSE SetVisibleInternal(TRUE)
  /\ Post(<<Plain>>)
  /\ UNCHANGED <<paused, wasVisible, last, notify, observers, toldDisplay, toggleKey,
                 preferences, socialVars, thread, exclusive, request, hotkey, polled, closing,
                 elsewhere, delayed, ready, draining>>

AddNotifyDisplaySettingsUpdated(o) ==
  /\ o \notin observers /\ observers' = observers \cup {o}
  /\ notify' = TRUE
  /\ UNCHANGED <<visible, paused, wasVisible, last, toldDisplay, toggleKey, preferences,
                 socialVars, threadVars, elsewhere, dispatchVars>>

RemoveNotifyDisplaySettingsUpdated(o) ==
  /\ o \in observers /\ observers' = observers \ {o}
  /\ UNCHANGED <<visible, paused, wasVisible, last, notify, toldDisplay, toggleKey,
                 preferences, socialVars, threadVars, elsewhere, dispatchVars>>

SetToggleKey(combo) ==
  /\ combo = NoCombo \/ IsValidKeyCombination(combo)
  /\ toggleKey' = IF combo = NoCombo THEN DefaultToggle ELSE combo
  /\ UNCHANGED <<visible, paused, wasVisible, last, notify, observers, toldDisplay,
                 preferences, socialVars, threadVars, elsewhere, dispatchVars>>

SetPreference(button, location) ==
  /\ preferences' = [button |-> button, location |-> location]
  /\ UNCHANGED <<visible, paused, wasVisible, last, notify, observers, toldDisplay,
                 toggleKey, socialVars, threadVars, elsewhere, dispatchVars>>

---------------------------------------------------------------------------
(* UIInterface::PumpTick.                                                  *)

InviteRow(k, i) == [row |-> "invite", kind |-> k, id |-> i]
JoinRow(k, g) == [row |-> "join", kind |-> k, id |-> g]

InviteRows(k) == [i \in DOMAIN SnapshotInvites(k) |-> InviteRow(k, SnapshotInvites(k)[i].id)]
JoinRows(k) == SetToSeq({JoinRow(k, g) : g \in SnapshotJoinable(k)})

\* The rows that the automation hooks act on, in the order of the code.
AutoRows ==
  (IF AutoAccept THEN InviteRows("lobby") \o InviteRows("session") ELSE <<>>)
    \o (IF AutoJoin THEN JoinRows("lobby") \o JoinRows("session") ELSE <<>>)

NewRows == Picked(AutoRows, {n \in DOMAIN AutoRows : AutoRows[n] \notin ToSet(handled)})

Automatic(row) == [row |-> row, action |-> IF row.row = "invite" THEN "Accept" ELSE "Join"]

\* The rows are published and the clicks taken only with an overlay.
PumpSocial ==
  /\ rows' = IF Available THEN UNION {ToSet(InviteRows(k)) \cup ToSet(JoinRows(k)) : k \in Kinds}
                          ELSE rows
  /\ actions' = (IF Available THEN clicks ELSE <<>>)
                  \o [i \in DOMAIN NewRows |-> Automatic(NewRows[i])]
  /\ clicks' = IF Available THEN <<>> ELSE clicks
  /\ handled' = handled \o NewRows
  /\ UNCHANGED <<drawn, uiVars, threadVars, elsewhere, dispatchVars>>

RouteAction ==
  /\ actions # <<>>
  /\ actions' = Tail(actions)
  /\ LET row == Head(actions).row
     IN  CASE Head(actions).action = "Accept" -> AcceptInviteFromOverlay(row.kind, row.id)
           [] Head(actions).action = "Reject" -> RejectInviteFromOverlay(row.kind, row.id)
           [] OTHER -> BeginJoinFromOverlay(row.kind, row.id)
  /\ UNCHANGED <<uiVars, handled, rows, drawn, clicks, threadVars>>

\* Swallowed while the overlay is paused.
ConsumeUserVisibilityRequest ==
  /\ actions = <<>> /\ request # Nothing
  /\ request' = Nothing
  /\ IF paused THEN UNCHANGED <<visible, want>> ELSE SetVisibleInternal(request)
  /\ UNCHANGED <<paused, wasVisible, last, notify, observers, toldDisplay, toggleKey,
                 preferences, socialVars, thread, exclusive, hotkey, polled, closing,
                 elsewhere, dispatchVars>>

\* FireDisplaySettings: one closure for each observer.
DisplayTasks ==
  LET os == SetToSeq(observers)
  IN  [i \in DOMAIN os |-> [kind |-> "display", observer |-> os[i],
                            display |-> Display(visible, exclusive)]]

DisplayChanged == notify \/ last # Display(visible, exclusive)

MutFireDisplaySettings ==
  /\ actions = <<>> /\ request = Nothing
  /\ notify' = FALSE
  /\ IF ~paused /\ DisplayChanged
     THEN Post(DisplayTasks) /\ last' = Display(visible, exclusive)
     ELSE UNCHANGED <<pending, last>>
  /\ UNCHANGED <<visible, paused, wasVisible, observers, toldDisplay, toggleKey, preferences,
                 socialVars, threadVars, elsewhere, delayed, ready, draining>>

FireDisplaySettings ==
  /\ actions = <<>> /\ request = Nothing
  /\ IF ~paused /\ DisplayChanged
     THEN Post(DisplayTasks) /\ last' = Display(visible, exclusive) /\ notify' = FALSE
     ELSE UNCHANGED <<pending, last, notify>>
  /\ UNCHANGED <<visible, paused, wasVisible, observers, toldDisplay, toggleKey, preferences,
                 socialVars, threadVars, elsewhere, delayed, ready, draining>>

RunDisplayTask ==
  /\ Work(<<>>)
  /\ Head(ready).kind = "display"
  /\ toldDisplay' = [toldDisplay EXCEPT ![Head(ready).observer] = Head(ready).display]
  /\ UNCHANGED <<visible, paused, wasVisible, last, notify, observers, toggleKey, preferences,
                 socialVars, threadVars, elsewhere>>

OverlayTypeOK ==
  /\ visible \in BOOLEAN /\ paused \in BOOLEAN /\ wasVisible \in BOOLEAN /\ notify \in BOOLEAN
  /\ last \in [visible : BOOLEAN, exclusive : BOOLEAN]
  /\ observers \subseteq Observers
  /\ toggleKey \in Combos /\ IsValidKeyCombination(toggleKey)
  /\ thread \in {"off", "starting", "running"}
  /\ want \in BOOLEAN /\ exclusive \in BOOLEAN /\ closing \in BOOLEAN
  /\ request \in BOOLEAN \cup {Nothing} /\ polled \in BOOLEAN \cup {Nothing}
  /\ \A i \in DOMAIN clicks : clicks[i].action \in {"Accept", "Reject", "Join"}

---------------------------------------------------------------------------
\* The places in the line of what observer o is going to be told.
Announced(o) == {i \in DOMAIN Line : Line[i].kind = "display" /\ Line[i].observer = o}

\* What an observer will have been told when the line is empty.
WillBeShown(o, display) ==
  \/ \E i \in Announced(o) : Line[i].display = display /\ \A j \in Announced(o) : j <= i
  \/ Announced(o) = {} /\ toldDisplay[o] = display

\* UI.cpp:396-410 and 321-348: every registered observer has been told the
\* state that was last announced, or will be by what is queued, unless an
\* announcement is owed; a pause, which holds announcements back, loses none.
DisplayTold == notify \/ \A o \in observers : WillBeShown(o, last)

\* OverlayInternal.h:52, UI.cpp:102: the overlay is never up, over the game
\* and its input, while the interface tells the game that it is hidden:
\* whatever the user, the game and Tick do to it in between.
ShownIsVisible == want => visible

\* UI.cpp:280 "each fires exactly once", Lobby.cpp:803: no invite is accepted
\* automatically twice, and an invite that was rejected, by the game or by a
\* click, is not accepted afterwards by a click or an automatic accept that
\* was collected before.
InvitesSettle ==
  /\ IsInjective(handled)
  /\ \A k \in Kinds : \A i \in InviteIds : \A n \in DOMAIN outcomes[k][i] :
       outcomes[k][i][n] = "rejected" => n = Len(outcomes[k][i])
==========================================================================
