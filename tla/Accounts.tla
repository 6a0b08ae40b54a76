----------------------------- MODULE Accounts ----------------------------
(***************************************************************************)
(* Auth and Connect (src/interfaces/Auth.cpp, Connect.cpp), the two logins *)
(* of the local user, and the source of the Steam id that Connect reports  *)
(* (src/core/Platform.cpp).  A login succeeds at once; its completion, and *)
(* the notification that the status has changed, run in Tick.  The game    *)
(* makes these calls on the thread that ticks, between frames or inside a  *)
(* callback: nothing guards bLoggedIn_.                                    *)
(***************************************************************************)
EXTENDS Dispatcher

CONSTANTS
  SteamPinned,      \* [Identity] SteamId is set
  NoStatus          \* no status is about to be announced

ASSUME AccountsAssumption ==
  NoStatus \notin [kind : {"status"}, login : {"auth", "connect"}, changes : BOOLEAN, now : BOOLEAN]

Logins == {"auth", "connect"}

VARIABLES
  loggedIn,    \* bLoggedIn_ of each interface
  watching,    \* a login-status observer is registered
  told,        \* the status that the observer has last been told or has read
  silent,      \* history: the last change of the status had no announcement
  firing,      \* the announcement that follows a completion callback
  provider,    \* ExternalType_
  steamId,     \* where SteamId_ came from, "none" when it is 0
  steamReady   \* the game's own steam_api module can name the user

accountVars == <<loggedIn, watching, told, silent, firing, provider, steamId, steamReady>>

\* AccountTypeFromCredential, for a Steam ticket and for all others.
AccountTypeFromCredential(credential) ==
  IF credential = "steamTicket" THEN "steam" ELSE "epic"

LocalSteamId == IF steamId = "none" /\ steamReady THEN "module" ELSE steamId

\* NoteSteamSessionTicket: the ticket fills in when nothing else does.
NoteSteamSessionTicket(credential) ==
  steamId' = IF credential # "steamTicket" THEN steamId
             ELSE IF LocalSteamId # "none" THEN LocalSteamId ELSE "ticket"

\* ExternalAccountId, which asks the module again each time it is needed.
CopyExternalAccount ==
  /\ provider = "steam"
  /\ steamId' = LocalSteamId
  /\ UNCHANGED <<loggedIn, watching, told, silent, firing, provider, steamReady, dispatchVars>>

\* A completion callback with the change of status that it announces.
Status(login, was, now) ==
  [kind |-> "status", login |-> login, changes |-> was # now, now |-> now]
Plain == [kind |-> "plain"]

\* What Login of both does: without a callback nothing is posted.
LoggedIn(login, hasCallback) ==
  /\ loggedIn' = [loggedIn EXCEPT ![login] = TRUE]
  /\ Post(IF hasCallback THEN <<Status(login, loggedIn[login], TRUE)>> ELSE <<>>)
  /\ silent' = [silent EXCEPT ![login] = @ \/ (~hasCallback /\ ~loggedIn[login])]
  /\ UNCHANGED <<watching, told, firing, steamReady, delayed, ready, draining>>

AuthLogin(credential, hasCallback) ==
  /\ NoteSteamSessionTicket(credential)
  /\ LoggedIn("auth", hasCallback)
  /\ UNCHANGED provider

\* Connect also keeps the provider, which the external accounts report.
ConnectLogin(credential, hasCallback) ==
  /\ provider' = AccountTypeFromCredential(credential)
  /\ NoteSteamSessionTicket(credential)
  /\ LoggedIn("connect", hasCallback)

\* Connect's CreateUser logs in without a word to the observers.
CreateUser(hasCallback) ==
  /\ loggedIn' = [loggedIn EXCEPT !["connect"] = TRUE]
  /\ Post(IF hasCallback THEN <<Plain>> ELSE <<>>)
  /\ silent' = [silent EXCEPT !["connect"] = @ \/ ~loggedIn["connect"]]
  /\ UNCHANGED <<watching, told, firing, provider, steamId, steamReady,
                 delayed, ready, draining>>

\* Auth's Logout posts whether or not there is a callback.
MutLogout(hasCallback) ==
  /\ loggedIn' = [loggedIn EXCEPT !["auth"] = FALSE]
  /\ Post(IF hasCallback THEN <<Status("auth", loggedIn["auth"], FALSE)>> ELSE <<>>)
  /\ silent' = [silent EXCEPT !["auth"] = @ /\ ~loggedIn["auth"]]
  /\ UNCHANGED <<watching, told, firing, provider, steamId, steamReady,
                 delayed, ready, draining>>

Logout(hasCallback) ==
  /\ loggedIn' = [loggedIn EXCEPT !["auth"] = FALSE]
  /\ Post(<<Status("auth", loggedIn["auth"], FALSE)>>)
  /\ silent' = [silent EXCEPT !["auth"] = @ /\ ~loggedIn["auth"]]
  /\ UNCHANGED <<watching, told, firing, provider, steamId, steamReady,
                 delayed, ready, draining>>

\* A call that only reports success, when it is given a callback.
PostSimple(hasCallback) ==
  /\ Post(IF hasCallback THEN <<Plain>> ELSE <<>>)
  /\ UNCHANGED <<accountVars, delayed, ready, draining>>

\* Auth's link, verify and token calls.
AuthCall(hasCallback) == PostSimple(hasCallback)

\* Connect's Logout, which leaves bLoggedIn_ set, and its link, device and
\* mapping calls.
ConnectCall(hasCallback) == PostSimple(hasCallback)

\* The changes of status that are still to be announced: where they wait in
\* the line, behind the one that is being announced.
Changes(login) == [kind : {"status"}, login : {login}, changes : {TRUE}, now : BOOLEAN]
Coming(login) == {i \in DOMAIN Line : Line[i] \in Changes(login)}
Owed(login) == firing \in Changes(login) \/ Coming(login) # {}

\* The game registers an observer and reads the status as it is.
AddNotifyLoginStatusChanged(login) ==
  /\ ~watching[login]
  /\ watching' = [watching EXCEPT ![login] = TRUE]
  /\ told' = [told EXCEPT ![login] = loggedIn[login]]
  /\ silent' = [silent EXCEPT ![login] = @ /\ Owed(login)]
  /\ UNCHANGED <<loggedIn, firing, provider, steamId, steamReady, dispatchVars>>

RemoveNotifyLoginStatusChanged(login) ==
  /\ watching[login]
  /\ watching' = [watching EXCEPT ![login] = FALSE]
  /\ UNCHANGED <<loggedIn, told, silent, firing, provider, steamId, steamReady, dispatchVars>>

\* The closure calls the completion; the observers are those registered when
\* that has returned.
RunStatus ==
  /\ Work(<<>>)
  /\ Head(ready).kind = "status"
  /\ firing' = IF Head(ready).changes THEN Head(ready) ELSE NoStatus
  /\ UNCHANGED <<loggedIn, watching, told, silent, provider, steamId, steamReady>>

FireStatusChanged ==
  /\ firing # NoStatus
  /\ told' = IF watching[firing.login] THEN [told EXCEPT ![firing.login] = firing.now] ELSE told
  /\ firing' = NoStatus
  /\ UNCHANGED <<loggedIn, watching, silent, provider, steamId, steamReady, dispatchVars>>

\* The game's own SteamAPI_Init returns.
SteamInitialized ==
  /\ ~steamReady
  /\ steamReady' = TRUE
  /\ UNCHANGED <<loggedIn, watching, told, silent, firing, provider, steamId, dispatchVars>>

NewAccounts ==
  /\ loggedIn' = [l \in Logins |-> FALSE] /\ watching' = [l \in Logins |-> FALSE]
  /\ told' = [l \in Logins |-> FALSE] /\ silent' = [l \in Logins |-> FALSE]
  /\ firing' = NoStatus /\ provider' = "epic"
  /\ steamId' = IF SteamPinned THEN "pinned" ELSE "none"
  /\ UNCHANGED steamReady

AccountsInit ==
  /\ loggedIn = [l \in Logins |-> FALSE] /\ watching = [l \in Logins |-> FALSE]
  /\ told = [l \in Logins |-> FALSE] /\ silent = [l \in Logins |-> FALSE]
  /\ firing = NoStatus /\ provider = "epic" /\ steamId = "none" /\ steamReady = FALSE

AccountsTypeOK ==
  /\ loggedIn \in [Logins -> BOOLEAN] /\ watching \in [Logins -> BOOLEAN]
  /\ told \in [Logins -> BOOLEAN] /\ silent \in [Logins -> BOOLEAN]
  /\ firing # NoStatus => draining /\ firing.changes
  /\ provider \in {"epic", "steam"}
  /\ steamId \in {"none", "pinned", "module", "ticket"}

\* What the observer will have been told once the queue is empty.
WillBeTold(login, status) ==
  \/ \E i \in Coming(login) : Line[i].now = status /\ \A j \in Coming(login) : j <= i
  \/ Coming(login) = {} /\ firing \in Changes(login) /\ firing.now = status
  \/ ~Owed(login) /\ told[login] = status

\* An observer of the login status ends with the status that the interface
\* reports, in whatever order the game logs in and out, also from inside the
\* completion callbacks, unless the login was made without a callback or by
\* CreateUser, neither of which announces anything (Auth.cpp:74-117,
\* Connect.cpp:103-155).
StatusTold ==
  \A l \in Logins : watching[l] /\ ~silent[l] => WillBeTold(l, loggedIn[l])
==========================================================================
