--------------------------- MODULE LocalStores ---------------------------
(***************************************************************************)
(* The stats and the achievements of the local user (src/interfaces/       *)
(* Stats.cpp, Achievements.cpp).  Both stores belong to the process and    *)
(* outlive the platform, as do the observers of unlocks; each platform     *)
(* seeds them from its configuration.  Unlocking takes two critical        *)
(* sections, so that two threads can be between them at once.              *)
(***************************************************************************)
EXTENDS Dispatcher, FiniteSets

CONSTANTS
  Stats, SeedValue,    \* the stats, and the value that [Stats] gives each
  Amounts,             \* bound: amounts that are ingested
  StatLimit,           \* 2^31: a stat is an int32_t
  Achievements, Seeded, \* the achievements, and those of [Achievements] Unlocked
  Observers,           \* handlers that can be registered
  Threads,             \* threads that unlock
  NotUnlocking

ASSUME LocalStoresAssumption ==
  /\ StatLimit \in Nat \ {0} /\ SeedValue \in -StatLimit..StatLimit - 1 /\ Amounts \subseteq Int
  /\ IsFiniteSet(Achievements) /\ Seeded \subseteq Achievements
  /\ IsFiniteSet(Observers)
  /\ NotUnlocking \notin {<<>>} \cup {<<a>> : a \in Achievements}

VARIABLES
  stats,       \* g_Stats of the local user
  unlocked,    \* g_Unlocked of the local user
  observers,   \* g_NotifyV2; those of g_NotifyV1 are never called
  unlocking,   \* per thread, Newly between the two critical sections
  heardOf      \* history: how often an observer was told of an achievement

storeVars == <<stats, unlocked, observers, unlocking, heardOf>>

StatValues == -StatLimit..StatLimit - 1

\* Configure: the stats are set anew, the achievements only added to.
Seed ==
  /\ stats' = [s \in Stats |-> SeedValue]
  /\ unlocked' = unlocked \o SetToSeq(Seeded \ ToSet(unlocked))

\* What an int32_t holds after amount is added to it: the overflow of a signed
\* integer is undefined, so that any value may be there.
Sums(value, amount) ==
  IF value + amount \in StatValues THEN {value + amount} ELSE StatValues

\* Without a platform the amount counts, and nobody is told.
IngestStat(s, amount, platform) ==
  /\ \E sum \in Sums(stats[s], amount) : stats' = [stats EXCEPT ![s] = sum]
  /\ Post(IF platform THEN <<[kind |-> "plain"]>> ELSE <<>>)
  /\ UNCHANGED <<unlocked, observers, unlocking, heardOf, delayed, ready, draining>>

\* The first critical section of UnlockAchievements.
MutRecordUnlock(t, a) ==
  /\ unlocking[t] = NotUnlocking
  /\ unlocked' = unlocked \o (IF a \in ToSet(unlocked) THEN <<>> ELSE <<a>>)
  /\ unlocking' = [unlocking EXCEPT ![t] = <<a>>]
  /\ UNCHANGED <<stats, observers, heardOf, dispatchVars>>

RecordUnlock(t, a) ==
  LET newly == IF a \in ToSet(unlocked) THEN <<>> ELSE <<a>> IN
  /\ unlocking[t] = NotUnlocking
  /\ unlocked' = unlocked \o newly
  /\ unlocking' = [unlocking EXCEPT ![t] = newly]
  /\ UNCHANGED <<stats, observers, heardOf, dispatchVars>>

Unlocked(o, a) == [kind |-> "unlocked", observer |-> o, id |-> a]

\* The second: the observers are copied, then posted one by one, and the
\* completion after them.
PostUnlock(t, platform) ==
  /\ unlocking[t] # NotUnlocking
  /\ \E order \in SetToSeqs(observers) :
       Post(IF ~platform THEN <<>>
            ELSE (IF unlocking[t] = <<>> THEN <<>>
                  ELSE [i \in DOMAIN order |-> Unlocked(order[i], unlocking[t][1])])
                 \o <<[kind |-> "plain"]>>)
  /\ unlocking' = [unlocking EXCEPT ![t] = NotUnlocking]
  /\ UNCHANGED <<stats, unlocked, observers, heardOf, delayed, ready, draining>>

AddNotifyAchievementsUnlocked(o) ==
  /\ o \notin observers
  /\ observers' = observers \cup {o}
  /\ UNCHANGED <<stats, unlocked, unlocking, heardOf, dispatchVars>>

\* A notification that is posted already still comes.
RemoveNotifyAchievementsUnlocked(o) ==
  /\ o \in observers
  /\ observers' = observers \ {o}
  /\ UNCHANGED <<stats, unlocked, unlocking, heardOf, dispatchVars>>

\* The queries of stats, achievements and leaderboards, whose catalogs are
\* empty, only succeed.
QueryStore ==
  /\ Post(<<[kind |-> "plain"]>>)
  /\ UNCHANGED <<storeVars, delayed, ready, draining>>

RunUnlocked ==
  /\ Work(<<>>)
  /\ LET t == Head(ready) IN
     /\ t.kind = "unlocked"
     /\ heardOf' = [heardOf EXCEPT ![t.observer][t.id] = @ + 1]
  /\ UNCHANGED <<stats, unlocked, observers, unlocking>>

StoresInit ==
  /\ stats = [s \in Stats |-> 0] /\ unlocked = <<>>
  /\ observers = {} /\ unlocking = [t \in Threads |-> NotUnlocking]
  /\ heardOf = [o \in Observers |-> [a \in Achievements |-> 0]]

StoresTypeOK ==
  /\ \A s \in Stats : stats[s] \in StatValues
  /\ ToSet(unlocked) \subseteq Achievements /\ observers \subseteq Observers

\* An achievement is announced to an observer at most once, whichever threads
\* unlock it, again or at once, and whether or not the platform that seeded
\* it has been replaced; and only what the store has is announced
\* (Achievements.cpp:172-219).
UnlockToldOnce ==
  /\ IsInjective(unlocked)
  /\ \A o \in Observers, a \in Achievements :
       /\ heardOf[o][a] <= 1
       /\ \A i \in DOMAIN Line : Line[i] = Unlocked(o, a) =>
            /\ heardOf[o][a] = 0 /\ \A j \in DOMAIN Line : Line[j] = Line[i] => j = i
            /\ a \in ToSet(unlocked)
==========================================================================
