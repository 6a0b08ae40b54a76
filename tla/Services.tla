----------------------------- MODULE Services ----------------------------
(***************************************************************************)
(* The services that need no network, in one process and over the one      *)
(* dispatcher: the logins, the local stores, the catalog of the            *)
(* configuration, and the memory of what Copy calls return.                *)
(***************************************************************************)
EXTENDS Accounts, LocalStores, Catalog, Memory

CONSTANTS
  MaxCalls,       \* bound: calls of whatever kind
  MaxPlatforms    \* bound: platforms that are created

ASSUME ServicesAssumption == MaxCalls \in Nat /\ MaxPlatforms \in Nat

VARIABLES live, platforms, calls

vars == <<live, platforms, calls, dispatchVars, accountVars, storeVars, catalogVars,
          memoryVars>>

Init ==
  /\ live = FALSE /\ platforms = 0 /\ calls = 0
  /\ DispatcherInit /\ AccountsInit /\ StoresInit /\ CatalogInit /\ MemoryInit

\* Configure seeds the stores of the process.
EOS_Platform_Create ==
  /\ ~live /\ platforms < MaxPlatforms
  /\ live' = TRUE /\ platforms' = platforms + 1
  /\ NewAccounts /\ NewCatalog /\ Seed
  /\ UNCHANGED <<calls, dispatchVars, observers, unlocking, heardOf, memoryVars>>

\* No other thread is in the library when the game releases its platform.
EOS_Platform_Release ==
  /\ live /\ \A t \in Threads : unlocking[t] = NotUnlocking
  /\ live' = FALSE
  /\ Discarded
  /\ NewAccounts /\ NewCatalog
  /\ UNCHANGED <<platforms, calls, storeVars, memoryVars>>

Call == calls < MaxCalls /\ calls' = calls + 1

AccountCalls ==
  \/ \E credential \in {"steamTicket", "token"}, hasCallback \in BOOLEAN :
       AuthLogin(credential, hasCallback) \/ ConnectLogin(credential, hasCallback)
  \/ \E hasCallback \in BOOLEAN :
       \/ CreateUser(hasCallback) \/ Logout(hasCallback)
       \/ AuthCall(hasCallback) \/ ConnectCall(hasCallback)
  \/ \E login \in Logins :
       AddNotifyLoginStatusChanged(login) \/ RemoveNotifyLoginStatusChanged(login)
  \/ CopyExternalAccount \/ SteamInitialized

StoreCalls ==
  \/ \E s \in Stats, amount \in Amounts : IngestStat(s, amount, live)
  \/ \E t \in Threads, a \in Achievements : RecordUnlock(t, a)
  \/ \E o \in Observers :
       AddNotifyAchievementsUnlocked(o) \/ RemoveNotifyAchievementsUnlocked(o)
  \/ live /\ QueryStore

CatalogCalls ==
  \/ QueryOwnership \/ QueryActivePlayerSanctions
  \/ \E ids \in {<<>>} \cup {<<e, e>> : e \in Entitlements} : RedeemEntitlements(ids)
  \/ \E m \in Mods : InstallMod(m) \/ UninstallMod(m) \/ UpdateMod(m)
  \/ \E type \in {"installed", "all"} : EnumerateMods(type)
  \/ \E accepted, cacheDirectory \in BOOLEAN :
       SendPlayerBehaviorReport(accepted, cacheDirectory)

MemoryCalls ==
  \/ \E size \in Sizes, alignment \in Alignments :
       \/ AllocApiBlock(size, alignment)
       \/ \E i \in 1..MaxBlocks : AttachBytes(i, size, alignment)
  \/ \E i \in 1..MaxBlocks : FreeApiBlock(i)

GameCall ==
  /\ Call
  /\ \/ live /\ AccountCalls /\ UNCHANGED <<storeVars, catalogVars, memoryVars>>
     \/ StoreCalls /\ UNCHANGED <<accountVars, catalogVars, memoryVars>>
     \/ live /\ CatalogCalls /\ UNCHANGED <<accountVars, storeVars, memoryVars>>
     \/ MemoryCalls /\ UNCHANGED <<accountVars, storeVars, catalogVars, dispatchVars>>
  /\ UNCHANGED <<live, platforms>>

UnlockPosts ==
  /\ \E t \in Threads : PostUnlock(t, live)
  /\ UNCHANGED <<live, platforms, calls, accountVars, catalogVars, memoryVars>>

TickBegins ==
  /\ live /\ Line # <<>> /\ Drain
  /\ UNCHANGED <<live, platforms, calls, accountVars, storeVars, catalogVars, memoryVars>>

TickReturns ==
  /\ firing = NoStatus /\ DrainReturns
  /\ UNCHANGED <<live, platforms, calls, accountVars, storeVars, catalogVars, memoryVars>>

RunTask ==
  /\ firing = NoStatus
  /\ \/ RunStatus /\ UNCHANGED storeVars
     \/ RunUnlocked /\ UNCHANGED accountVars
     \/ /\ Work(<<>>) /\ Head(ready).kind \in {"plain", "mod"}
        /\ UNCHANGED <<accountVars, storeVars>>
  /\ UNCHANGED <<live, platforms, calls, catalogVars, memoryVars>>

StatusChanges ==
  /\ FireStatusChanged
  /\ UNCHANGED <<live, platforms, calls, storeVars, catalogVars, memoryVars>>

Next ==
  \/ EOS_Platform_Create \/ EOS_Platform_Release
  \/ GameCall \/ UnlockPosts
  \/ TickBegins \/ RunTask \/ StatusChanges \/ TickReturns

Spec == Init /\ [][Next]_vars

\* The types of the parts; without a platform nothing is queued.
TypeOK ==
  /\ live \in BOOLEAN /\ platforms \in 0..MaxPlatforms /\ calls \in 0..MaxCalls
  /\ AccountsTypeOK /\ StoresTypeOK /\ CatalogTypeOK
  /\ ~live => Line = <<>> /\ ~draining /\ firing = NoStatus
==========================================================================
