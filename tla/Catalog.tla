----------------------------- MODULE Catalog -----------------------------
(***************************************************************************)
(* The interfaces that answer from the configuration: the entitlements     *)
(* (src/interfaces/Ecom.cpp), the mods (Mods.cpp), the sanctions           *)
(* (Sanctions.cpp) and the report log (Reports.cpp).  Each acts when it is *)
(* called, keeps the result, and completes in the next Tick.               *)
(***************************************************************************)
EXTENDS Dispatcher, FiniteSets

CONSTANTS
  Entitlements,      \* the ids that [Ecom] lists
  Mods, ConfigMods,  \* item ids of mods, and those that [Mods] lists
  MaxReports         \* bound: lines of the report log

ASSUME CatalogAssumption == IsFiniteSet(ConfigMods) /\ MaxReports \in Nat

VARIABLES
  redeemed,        \* the entitlements with Redeemed set
  lastRedeemed,    \* LastRedeemed_
  modList,         \* Mods_ in order, with Installed
  modsLoaded,      \* Loaded_ of Mods
  enumerated,      \* the enumeration types that EnumerateMods was called for
  reports          \* lines of eosemu_reports.log

catalogVars == <<redeemed, lastRedeemed, modList, modsLoaded, enumerated, reports>>

Done == <<[kind |-> "plain"]>>

\* IsOwned: what an entitlement grants is owned.
QueryOwnership ==
  /\ Post(Done)
  /\ UNCHANGED <<catalogVars, delayed, ready, draining>>

\* Redeem: an id may be asked for twice, and is then listed twice.
Redeem(ids) ==
  /\ lastRedeemed' = Picked(ids, {i \in DOMAIN ids : ids[i] \in Entitlements})
  /\ redeemed' = redeemed \cup (ToSet(ids) \cap Entitlements)

RedeemEntitlements(ids) ==
  /\ Redeem(ids)
  /\ Post(Done)
  /\ UNCHANGED <<modList, modsLoaded, enumerated, reports, delayed, ready, draining>>

---------------------------------------------------------------------------
\* EnsureLoaded: the list of the configuration, each mod installed.
LoadedMods ==
  IF modsLoaded THEN modList
  ELSE [i \in 1..Cardinality(ConfigMods) |->
         [id |-> SetToSeq(ConfigMods)[i], installed |-> TRUE]]

Exists(m) == \E i \in DOMAIN LoadedMods : LoadedMods[i].id = m

\* The answer of Install, Uninstall and Update is known before they post.
Answer(result) == Post(<<[kind |-> "mod", result |-> result]>>)

MutInstall(m) == modList' = Append(LoadedMods, [id |-> m, installed |-> TRUE])

\* Install: a mod that is listed is installed again, another is added.
Install(m) ==
  modList' = IF Exists(m)
             THEN [i \in DOMAIN LoadedMods |->
                    IF LoadedMods[i].id = m THEN [LoadedMods[i] EXCEPT !.installed = TRUE]
                    ELSE LoadedMods[i]]
             ELSE Append(LoadedMods, [id |-> m, installed |-> TRUE])

InstallMod(m) ==
  /\ modsLoaded' = TRUE
  /\ Install(m) /\ Answer("Success")
  /\ UNCHANGED <<redeemed, lastRedeemed, enumerated, reports, delayed, ready, draining>>

\* Uninstall: the mod stays in the list.
IsInstalled(m) == \E i \in DOMAIN LoadedMods : LoadedMods[i] = [id |-> m, installed |-> TRUE]
Uninstall(m) ==
  modList' = [i \in DOMAIN LoadedMods |->
    IF LoadedMods[i].id = m THEN [LoadedMods[i] EXCEPT !.installed = FALSE] ELSE LoadedMods[i]]

UninstallMod(m) ==
  /\ modsLoaded' = TRUE
  /\ Uninstall(m) /\ Answer(IF IsInstalled(m) THEN "Success" ELSE "NotFound")
  /\ UNCHANGED <<redeemed, lastRedeemed, enumerated, reports, delayed, ready, draining>>

UpdateMod(m) ==
  /\ modsLoaded' = TRUE /\ modList' = LoadedMods
  /\ Answer(IF Exists(m) THEN "Success" ELSE "NotFound")
  /\ UNCHANGED <<redeemed, lastRedeemed, enumerated, reports, delayed, ready, draining>>

EnumerateMods(type) ==
  /\ enumerated' = enumerated \cup {type}
  /\ Post(Done)
  /\ UNCHANGED <<redeemed, lastRedeemed, modList, modsLoaded, reports,
                 delayed, ready, draining>>

\* CopyModInfo: NotFound until that type has been enumerated.
CopyModInfo(type) ==
  IF type \notin enumerated THEN "NotFound"
  ELSE SelectSeq(LoadedMods, LAMBDA mod : type = "all" \/ mod.installed)

---------------------------------------------------------------------------
\* A report is logged unless it is refused; with no cache directory it is not.
SendPlayerBehaviorReport(accepted, cacheDirectory) ==
  /\ reports' = IF accepted /\ cacheDirectory /\ reports < MaxReports
                THEN reports + 1 ELSE reports
  /\ Post(Done)
  /\ UNCHANGED <<redeemed, lastRedeemed, modList, modsLoaded, enumerated,
                 delayed, ready, draining>>

\* The sanctions calls read the configuration, and only complete.
QueryActivePlayerSanctions == QueryOwnership

\* The platform's interfaces start afresh; the log is a file.
NewCatalog ==
  /\ redeemed' = {} /\ lastRedeemed' = <<>>
  /\ modList' = <<>> /\ modsLoaded' = FALSE /\ enumerated' = {}
  /\ UNCHANGED reports

CatalogInit ==
  /\ redeemed = {} /\ lastRedeemed = <<>>
  /\ modList = <<>> /\ modsLoaded = FALSE /\ enumerated = {} /\ reports = 0

\* An item is in the list of mods once, and what was redeemed last is redeemed.
CatalogTypeOK ==
  /\ redeemed \subseteq Entitlements /\ ToSet(lastRedeemed) \subseteq redeemed
  /\ \A i, j \in DOMAIN modList : modList[i].id = modList[j].id => i = j
  /\ enumerated \subseteq {"installed", "all"} /\ reports \in 0..MaxReports
==========================================================================
