-------------------------- MODULE ServicesProofs -------------------------
(***************************************************************************)
(* Proofs about the services of one process, for any stats, achievements,  *)
(* observers, threads, sizes and bounds.                                   *)
(*                                                                         *)
(* StatusTold needs to know, of each login, which announcement waits last  *)
(* in the line: it tells the status the login has, or there is none and    *)
(* the one that is being made does (Settled).  UnlockToldOnce needs the    *)
(* state between the two critical sections of UnlockAchievements: what a   *)
(* thread has newly unlocked is in the store and with no other thread      *)
(* (NewlyOnce), and what is announced is with none (ToldOnce).             *)
(* BlocksStayInside needs that an allocation is not empty and belongs to   *)
(* one block, or a new one could share the base of an old one, and the     *)
(* release of a block could free what hangs from another.                  *)
(***************************************************************************)
EXTENDS Services, DispatcherProofs

\* What the services post.
Completions == [kind : {"plain"}] \cup [kind : {"mod"}, result : {"Success", "NotFound"}]
Unlocks == [kind : {"unlocked"}, observer : Observers, id : Achievements]
Statuses == [kind : {"status"}, login : Logins, changes : BOOLEAN, now : BOOLEAN]
Closures == Completions \cup Unlocks \cup Statuses

\* Nothing is delayed, and without a platform nothing is queued.
QueueInv ==
  /\ QueueOf(Closures, 0) /\ delayed = <<>>
  /\ ~live => Line = <<>> /\ ~draining /\ firing = NoStatus

LifeInv == live \in BOOLEAN /\ platforms \in 0..MaxPlatforms /\ calls \in 0..MaxCalls

---------------------------------------------------------------------------
(* The line of closures.                                                   *)

\* A step that does nothing to the Dispatcher, or posts closures of S.
Posts(S) ==
  \/ UNCHANGED dispatchVars
  \/ \E works \in Seq(S) : Post(works) /\ UNCHANGED <<delayed, ready, draining>>

\* Closures of S join the line at its end.
Joins(S) == \E works \in Seq(S) : Line' = Line \o works

\* The line is a list of closures of the services.
LEMMA LineIsSeq ==
  ASSUME QueueInv
  PROVE  Line \in Seq(Closures)
BY ConcatProperties DEF QueueInv, QueueOf, Line

\* What is posted joins the line, and the rest of the Dispatcher stays.
LEMMA PostsJoin ==
  ASSUME NEW CONSTANT S, S \subseteq Closures, QueueInv, Posts(S)
  PROVE  QueueOf(Closures, 0)' /\ UNCHANGED <<delayed, draining>> /\ Joins(S)
<1>1. QueueOf(Closures, 0) /\ Line \in Seq(Closures)
  BY LineIsSeq DEF QueueInv
<1>2. CASE UNCHANGED dispatchVars
  <2>1. Line' = Line
    BY <1>2 DEF dispatchVars, Line
  <2>2. <<>> \in Seq(S) /\ Line \o <<>> = Line
    BY <1>1, EmptySeq, ConcatEmptySeq
  <2> QED BY <1>1, <1>2, <2>1, <2>2 DEF dispatchVars, QueueOf, Joins
<1>3. CASE \E works \in Seq(S) : Post(works) /\ UNCHANGED <<delayed, ready, draining>>
  <2>1. PICK works \in Seq(S) : Post(works) /\ UNCHANGED <<delayed, ready, draining>>
    BY <1>3
  <2>2. works \in Seq(Closures)
    OBVIOUS
  <2>3. QueueOf(Closures, 0)' /\ Line' = Line \o works
    BY <1>1, <2>1, <2>2, PostJoins
  <2> QED BY <2>1, <2>3 DEF Joins
<1> QED BY <1>2, <1>3 DEF Posts

\* No closure of M joins the line.
Thins(M) ==
  \A x \in M : (Once(Line, x) => Once(Line', x)) /\ (x \in ToSet(Line') => x \in ToSet(Line))

\* What joins is of another kind.
LEMMA JoinsThins ==
  ASSUME NEW CONSTANT S, NEW CONSTANT M, S \cap M = {}, S \subseteq Closures,
         Line \in Seq(Closures), Joins(S)
  PROVE  Thins(M)
<1>1. PICK works \in Seq(S) : Line' = Line \o works
  BY DEF Joins
<1>2. works \in Seq(Closures) /\ ToSet(works) \subseteq S
  <2>1. \A i \in DOMAIN works : works[i] \in S
    BY LenProperties, ElementOfSeq
  <2> QED BY <2>1 DEF ToSet
<1>3. ASSUME NEW x \in M, Once(Line, x) PROVE Once(Line', x)
  <2>1. x \notin ToSet(works)
    BY <1>2
  <2>2. Once(works, x)
    BY <2>1 DEF Once, ToSet
  <2> QED BY <1>1, <1>2, <1>3, <2>1, <2>2, OnceInConcat
<1>4. ToSet(Line') = ToSet(Line) \cup ToSet(works)
  BY <1>1, <1>2, ConcatRoster
<1> QED BY <1>2, <1>3, <1>4 DEF Thins

\* The head leaves, or the line is emptied, or stays as it is.
LEMMA LeavesThins ==
  ASSUME NEW CONSTANT M, Line \in Seq(Closures),
         (Line # <<>> /\ Line' = Tail(Line)) \/ Line' = <<>> \/ Line' = Line
  PROVE  Thins(M)
<1>1. CASE Line # <<>> /\ Line' = Tail(Line)
  <2>1. ToSet(Line') \subseteq ToSet(Line)
    BY <1>1, TailRoster
  <2>2. \A x : Once(Line, x) => Once(Line', x)
    BY <1>1, OnceInTail
  <2> QED BY <2>1, <2>2 DEF Thins
<1>2. CASE Line' = <<>>
  BY <1>2 DEF Thins, Once, ToSet
<1>3. CASE Line' = Line
  BY <1>3 DEF Thins
<1> QED BY <1>1, <1>2, <1>3

---------------------------------------------------------------------------
(* What each call posts.                                                   *)

\* A completion by itself, or nothing.
LEMMA PlainPosts ==
  /\ [kind |-> "plain"] \in Completions
  /\ \A r \in {"Success", "NotFound"} : [kind |-> "mod", result |-> r] \in Completions
  /\ \A x \in Completions : <<x>> \in Seq(Completions)
  /\ \A S : <<>> \in Seq(S)
<1>1. \A S : <<>> \in Seq(S)
  BY EmptySeq
<1> QED BY <1>1 DEF Completions

\* The calls of Auth and Connect post completions, some of which announce a status.
LEMMA AccountCallsPost ==
  ASSUME AccountCalls
  PROVE  Posts(Completions \cup Statuses)
<1> DEFINE S == Completions \cup Statuses
<1>0. <<>> \in Seq(S) /\ <<Plain>> \in Seq(S) /\ \A x \in Statuses : <<x>> \in Seq(S)
  BY PlainPosts, EmptySeq DEF Plain
<1>1. ASSUME NEW l \in Logins, NEW b \in BOOLEAN PROVE <<Status(l, loggedIn[l], b)>> \in Seq(S)
  <2>1. Status(l, loggedIn[l], b) \in Statuses
    BY DEF Status, Statuses
  <2> QED BY <1>0, <2>1
<1>2. "auth" \in Logins /\ "connect" \in Logins
  BY DEF Logins
<1> HIDE DEF S
<1>3. ASSUME NEW l \in Logins, NEW hasCallback \in BOOLEAN, LoggedIn(l, hasCallback) PROVE Posts(S)
  BY <1>0, <1>1, <1>3 DEF LoggedIn, Posts
<1>4. ASSUME NEW hasCallback \in BOOLEAN, PostSimple(hasCallback) PROVE Posts(S)
  BY <1>0, <1>4 DEF PostSimple, Posts
<1>5. ASSUME NEW credential, NEW hasCallback \in BOOLEAN,
             AuthLogin(credential, hasCallback) \/ ConnectLogin(credential, hasCallback)
      PROVE  Posts(S)
  BY <1>2, <1>3, <1>5 DEF AuthLogin, ConnectLogin
<1>6. ASSUME NEW hasCallback \in BOOLEAN, CreateUser(hasCallback) PROVE Posts(S)
  BY <1>0, <1>6 DEF CreateUser, Posts
<1>7. ASSUME NEW hasCallback \in BOOLEAN, Logout(hasCallback) PROVE Posts(S)
  BY <1>1, <1>2, <1>7 DEF Logout, Posts
<1>8. ASSUME NEW l \in Logins,
             AddNotifyLoginStatusChanged(l) \/ RemoveNotifyLoginStatusChanged(l)
      PROVE  Posts(S)
  BY <1>8 DEF AddNotifyLoginStatusChanged, RemoveNotifyLoginStatusChanged, Posts
<1>9. ASSUME CopyExternalAccount \/ SteamInitialized PROVE Posts(S)
  BY <1>9 DEF CopyExternalAccount, SteamInitialized, Posts
<1>10. Posts(S)
  BY <1>4, <1>5, <1>6, <1>7, <1>8, <1>9 DEF AccountCalls, AuthCall, ConnectCall
<1> QED BY <1>10 DEF S

\* Without a platform nothing is posted.
LEMMA StoreCallsPost ==
  ASSUME StoreCalls
  PROVE  Posts(Completions) /\ (~live => Posts({}))
<1>1. ASSUME NEW s \in Stats, NEW amount \in Amounts, IngestStat(s, amount, live)
      PROVE  Posts(Completions) /\ (~live => Posts({}))
  BY <1>1, PlainPosts DEF IngestStat, Posts
<1>2. ASSUME NEW t \in Threads, NEW a \in Achievements, RecordUnlock(t, a)
      PROVE  UNCHANGED dispatchVars
  BY <1>2 DEF RecordUnlock
<1>3. ASSUME NEW o \in Observers,
             AddNotifyAchievementsUnlocked(o) \/ RemoveNotifyAchievementsUnlocked(o)
      PROVE  UNCHANGED dispatchVars
  BY <1>3 DEF AddNotifyAchievementsUnlocked, RemoveNotifyAchievementsUnlocked
<1>4. ASSUME live, QueryStore PROVE Posts(Completions) /\ (~live => Posts({}))
  BY <1>4, PlainPosts DEF QueryStore, Posts
<1>5. UNCHANGED dispatchVars => Posts(Completions) /\ Posts({})
  BY DEF Posts
<1> QED BY <1>1, <1>2, <1>3, <1>4, <1>5 DEF StoreCalls

\* The calls of Ecom, Mods, Sanctions and Reports post one completion each.
LEMMA CatalogCallsPost ==
  ASSUME CatalogCalls
  PROVE  Posts(Completions)
<1>1. Done \in Seq(Completions)
  BY PlainPosts DEF Done
<1>2. \A r \in {"Success", "NotFound"} : <<[kind |-> "mod", result |-> r]>> \in Seq(Completions)
  BY PlainPosts
<1>3. CASE QueryOwnership \/ QueryActivePlayerSanctions
  BY <1>1, <1>3 DEF QueryOwnership, QueryActivePlayerSanctions, Posts
<1>4. ASSUME NEW ids, RedeemEntitlements(ids) PROVE Posts(Completions)
  BY <1>1, <1>4 DEF RedeemEntitlements, Posts
<1>5. ASSUME NEW m \in Mods, InstallMod(m) PROVE Posts(Completions)
  BY <1>2, <1>5 DEF InstallMod, Answer, Posts
<1>6. ASSUME NEW m \in Mods, UninstallMod(m) PROVE Posts(Completions)
  BY <1>2, <1>6 DEF UninstallMod, Answer, Posts
<1>7. ASSUME NEW m \in Mods, UpdateMod(m) PROVE Posts(Completions)
  BY <1>2, <1>7 DEF UpdateMod, Answer, Posts
<1>8. ASSUME NEW type, EnumerateMods(type) PROVE Posts(Completions)
  BY <1>1, <1>8 DEF EnumerateMods, Posts
<1>9. ASSUME NEW accepted, NEW cacheDirectory, SendPlayerBehaviorReport(accepted, cacheDirectory)
      PROVE  Posts(Completions)
  BY <1>1, <1>9 DEF SendPlayerBehaviorReport, Posts
<1> QED BY <1>3, <1>4, <1>5, <1>6, <1>7, <1>8, <1>9 DEF CatalogCalls

\* The observers of an achievement are told of it in any order.
Announcements(a, works) ==
  \E order \in SetToSeqs(observers) :
    works = [i \in DOMAIN order |-> Unlocked(order[i], a)] \o <<[kind |-> "plain"]>>
\* The second critical section of UnlockAchievements posts to each observer once,
\* since it copies them from a set, and then completes.
LEMMA AnnouncedOnce ==
  ASSUME observers \subseteq Observers, NEW a \in Achievements, NEW works, Announcements(a, works)
  PROVE  /\ works \in Seq(Closures)
         /\ ToSet(works) \subseteq Completions \cup {Unlocked(o, a) : o \in Observers}
         /\ \A o \in Observers : Once(works, Unlocked(o, a))
<1>1. PICK order \in SetToSeqs(observers) :
        works = [i \in DOMAIN order |-> Unlocked(order[i], a)] \o <<[kind |-> "plain"]>>
  BY DEF Announcements
<1>2. IsFiniteSet(observers)
  BY LocalStoresAssumption, FS_Subset DEF LocalStoresAssumption
<1>3. Cardinality(observers) \in Nat
  BY <1>2, FS_CardinalityType
<1>4. /\ order \in [1..Cardinality(observers) -> observers]
      /\ \A i, j \in 1..Cardinality(observers) : i # j => order[i] # order[j]
  BY DEF SetToSeqs
<1> DEFINE told1 == [i \in DOMAIN order |-> Unlocked(order[i], a)]
           done == <<[kind |-> "plain"]>>
<1>5. \A o \in Observers : Unlocked(o, a) \in Unlocks
  BY DEF Unlocked, Unlocks
<1>6. told1 \in Seq(Unlocks) /\ ToSet(told1) \subseteq {Unlocked(o, a) : o \in Observers}
  <2>1. told1 \in [1..Cardinality(observers) -> Unlocks]
    BY <1>4, <1>5
  <2>2. told1 \in Seq(Unlocks)
    BY <1>3, <2>1, SeqDef
  <2> QED BY <1>4, <2>2 DEF ToSet
<1>7. \A o \in Observers : Once(told1, Unlocked(o, a))
  <2> SUFFICES ASSUME NEW o \in Observers,
                      NEW i \in 1..Cardinality(observers), NEW j \in 1..Cardinality(observers),
                      Unlocked(order[i], a) = Unlocked(o, a), Unlocked(order[j], a) = Unlocked(o, a)
               PROVE  i = j
    BY <1>4 DEF Once
  <2>1. order[i] = o /\ order[j] = o
    BY DEF Unlocked
  <2> QED BY <1>4, <2>1
<1>8. done \in Seq(Completions) /\ ToSet(done) \subseteq Completions
      /\ \A o \in Observers : Unlocked(o, a) \notin ToSet(done) /\ Once(done, Unlocked(o, a))
  <2>1. DOMAIN done = {1} /\ done[1] = [kind |-> "plain"]
    OBVIOUS
  <2>2. \A o \in Observers : Unlocked(o, a) # [kind |-> "plain"]
    BY DEF Unlocked
  <2>3. done \in Seq(Completions)
    BY PlainPosts
  <2> HIDE DEF done
  <2>4. ToSet(done) = {[kind |-> "plain"]}
    BY <2>1 DEF ToSet
  <2> QED BY <2>1, <2>2, <2>3, <2>4, PlainPosts DEF Once
<1>9. told1 \in Seq(Closures) /\ done \in Seq(Closures)
  BY <1>6, <1>8 DEF Closures
<1>10. works = told1 \o done
  BY <1>1
<1> HIDE DEF told1, done
<1>11. works \in Seq(Closures) /\ ToSet(works) = ToSet(told1) \cup ToSet(done)
  BY <1>9, <1>10, ConcatRoster
<1>12. \A o \in Observers : Once(works, Unlocked(o, a))
  BY <1>7, <1>8, <1>9, <1>10, OnceInConcat
<1> QED BY <1>6, <1>8, <1>11, <1>12

---------------------------------------------------------------------------
(* The queue.                                                              *)

\* A closure runs.
LEMMA RunsHead ==
  ASSUME QueueInv, Work(<<>>)
  PROVE  /\ live /\ draining /\ QueueOf(Closures, 0)' /\ UNCHANGED <<delayed, draining>>
         /\ Line \in Seq(Closures) /\ Line # <<>> /\ Line' = Tail(Line)
         /\ Head(Line) = Head(ready) /\ Head(ready) \in Closures
<1>1. QueueOf(Closures, 0) /\ <<>> \in Seq(Closures)
  BY EmptySeq DEF QueueInv
<1>2. /\ QueueOf(Closures, 0)' /\ Head(ready) \in Closures
      /\ Line \in Seq(Closures) /\ Line # <<>> /\ Head(Line) = Head(ready)
      /\ Line' = Tail(Line) \o <<>>
  BY <1>1, WorkRunsHead
<1>3. Tail(Line) \in Seq(Closures)
  BY <1>2, HeadTailProperties
<1>4. Tail(Line) \o <<>> = Tail(Line)
  BY <1>3, ConcatEmptySeq
<1>5. draining /\ UNCHANGED <<delayed, draining>>
  BY DEF Work
<1> QED BY <1>2, <1>4, <1>5 DEF QueueInv
---------------------------------------------------------------------------
(* The local stores.                                                       *)

StoreTypes ==
  /\ stats \in [Stats -> StatValues]
  /\ unlocked \in Seq(Achievements) /\ IsInjective(unlocked)
  /\ observers \subseteq Observers
  /\ unlocking \in [Threads -> {NotUnlocking, <<>>} \cup {<<a>> : a \in Achievements}]
  /\ heardOf \in [Observers -> [Achievements -> 0..1]]

\* What one thread has just unlocked is in the store, and no other has it.
NewlyOnce ==
  \A t \in Threads, a \in Achievements :
    unlocking[t] = <<a>> =>
      a \in ToSet(unlocked) /\ \A u \in Threads : unlocking[u] = <<a>> => u = t

\* An announcement is in the line once, and only if it has not been made; what
\* is announced is in the store, and no thread is about to announce it again.
ToldOnce ==
  \A o \in Observers, a \in Achievements :
    /\ Once(Line, Unlocked(o, a))
    /\ Unlocked(o, a) \in ToSet(Line) => heardOf[o][a] = 0
    /\ Unlocked(o, a) \in ToSet(Line) \/ heardOf[o][a] # 0 =>
         a \in ToSet(unlocked) /\ \A t \in Threads : unlocking[t] # <<a>>

StoreInv == StoreTypes /\ NewlyOnce /\ ToldOnce

\* The second critical section of UnlockAchievements.
LEMMA PostUnlockPosts ==
  ASSUME StoreTypes, NEW t \in Threads, PostUnlock(t, live)
  PROVE  \/ ~live /\ Posts({})
         \/ live /\ unlocking[t] = <<>> /\ Posts(Completions)
         \/ live /\ \E a \in Achievements, works \in Seq(Closures) :
              /\ unlocking[t] = <<a>> /\ Announcements(a, works)
              /\ Post(works) /\ UNCHANGED <<delayed, ready, draining>>
<1>1. PICK order \in SetToSeqs(observers) :
        Post(IF ~live THEN <<>>
             ELSE (IF unlocking[t] = <<>> THEN <<>>
                   ELSE [i \in DOMAIN order |-> Unlocked(order[i], unlocking[t][1])])
                  \o <<[kind |-> "plain"]>>)
  BY DEF PostUnlock
<1>2. UNCHANGED <<delayed, ready, draining>> /\ unlocking[t] # NotUnlocking
  BY DEF PostUnlock
<1>3. CASE ~live
  BY <1>1, <1>2, <1>3, EmptySeq DEF Posts
<1>4. CASE live /\ unlocking[t] = <<>>
  <2>1. <<[kind |-> "plain"]>> \in Seq(Completions)
    BY PlainPosts
  <2>2. <<>> \o <<[kind |-> "plain"]>> = <<[kind |-> "plain"]>>
    BY <2>1, ConcatEmptySeq
  <2>3. Post(<<[kind |-> "plain"]>>)
    BY <1>1, <1>4, <2>2
  <2> QED BY <1>2, <1>4, <2>1, <2>3 DEF Posts
<1>5. CASE live /\ unlocking[t] # <<>>
  <2>1. PICK a \in Achievements : unlocking[t] = <<a>>
    BY <1>2, <1>5 DEF StoreTypes
  <2> DEFINE works == [i \in DOMAIN order |-> Unlocked(order[i], a)] \o <<[kind |-> "plain"]>>
  <2>2. unlocking[t][1] = a
    BY <2>1
  <2>3. Post(works)
    BY <1>1, <1>5, <2>2
  <2>4. Announcements(a, works)
    BY DEF Announcements
  <2> HIDE DEF works
  <2>5. works \in Seq(Closures)
    BY <2>4, AnnouncedOnce DEF StoreTypes
  <2> QED BY <1>2, <1>5, <2>1, <2>3, <2>4, <2>5
<1> QED BY <1>3, <1>4, <1>5

\* As long as no announcement joins and no thread is about to make one.
LEMMA StoresStay ==
  ASSUME StoreInv, Thins(Unlocks), ToSet(unlocked) \subseteq ToSet(unlocked'),
         UNCHANGED <<unlocking, heardOf>>
  PROVE  (NewlyOnce /\ ToldOnce)'
<1>1. NewlyOnce'
  BY DEF StoreInv, NewlyOnce
<1>2. \A o \in Observers, a \in Achievements : Unlocked(o, a) \in Unlocks
  BY DEF Unlocked, Unlocks
<1>3. ToldOnce'
  BY <1>2 DEF StoreInv, ToldOnce, Thins
<1> QED BY <1>1, <1>3

\* A step of another interface.
LEMMA StoresUnchanged ==
  ASSUME StoreInv, Thins(Unlocks), UNCHANGED storeVars
  PROVE  StoreInv'
<1>1. ToSet(unlocked) \subseteq ToSet(unlocked') /\ UNCHANGED <<unlocking, heardOf>>
  BY DEF storeVars
<1>2. (NewlyOnce /\ ToldOnce)'
  BY <1>1, StoresStay
<1>3. StoreTypes'
  BY DEF StoreInv, StoreTypes, storeVars
<1> QED BY <1>2, <1>3 DEF StoreInv

\* What a new platform seeds is added to what was unlocked.
LEMMA SeedStores ==
  ASSUME StoreInv, Seed, UNCHANGED <<dispatchVars, observers, unlocking, heardOf>>, QueueInv
  PROVE  StoreInv'
<1> DEFINE more == Seeded \ ToSet(unlocked)
           added == SetToSeq(more)
<1>1. IsFiniteSet(more) /\ more \subseteq Achievements
  BY LocalStoresAssumption, FS_Subset DEF LocalStoresAssumption
<1>2. added \in Seq(more) /\ IsInjective(added)
  BY <1>1, ListOfSet
<1>3. unlocked' = unlocked \o added /\ unlocked \in Seq(Achievements) /\ IsInjective(unlocked)
  BY DEF Seed, StoreInv, StoreTypes
<1> HIDE DEF added
<1>4. added \in Seq(Achievements) /\ ToSet(added) \subseteq more
  <2>1. \A i \in DOMAIN added : added[i] \in more
    BY <1>2, LenProperties, ElementOfSeq
  <2> QED BY <1>1, <1>2, <2>1 DEF ToSet
<1>5. /\ unlocked' \in Seq(Achievements) /\ ToSet(unlocked) \subseteq ToSet(unlocked')
      /\ IsInjective(unlocked')
  BY <1>2, <1>3, <1>4, ConcatRoster, ConcatInjective
<1>6. stats' \in [Stats -> StatValues]
  BY LocalStoresAssumption DEF LocalStoresAssumption, Seed, StatValues
<1>7. StoreTypes'
  BY <1>5, <1>6 DEF StoreInv, StoreTypes
<1>8. Line' = Line
  BY DEF dispatchVars, Line
<1>9. (NewlyOnce /\ ToldOnce)'
  BY <1>5, <1>8, LineIsSeq, LeavesThins, StoresStay
<1> QED BY <1>7, <1>9 DEF StoreInv

\* IngestStat: a stat of 32 bits stays one, whatever an overflow makes of it.
LEMMA IngestStatIInv ==
  ASSUME QueueInv, StoreInv, NEW s \in Stats, NEW amount \in Amounts, IngestStat(s, amount, live)
  PROVE  StoreInv'
<1>1. Posts(Completions)
  BY StoreCallsPost DEF StoreCalls
<1>2. Completions \cap Unlocks = {} /\ Completions \subseteq Closures
  BY DEF Completions, Unlocks, Closures
<1>3. Thins(Unlocks)
  BY <1>1, <1>2, PostsJoin, LineIsSeq, JoinsThins
<1>4. (NewlyOnce /\ ToldOnce)'
  BY <1>3, StoresStay DEF IngestStat
<1>5. PICK sum \in Sums(stats[s], amount) : stats' = [stats EXCEPT ![s] = sum]
  BY DEF IngestStat
<1>6. StoreTypes'
  <2>1. sum \in StatValues
    BY <1>5 DEF Sums
  <2> QED BY <1>5, <2>1 DEF IngestStat, StoreInv, StoreTypes
<1> QED BY <1>4, <1>6 DEF StoreInv

\* The first critical section: what is newly unlocked no thread has and no
\* observer was told of.
LEMMA RecordUnlockIInv ==
  ASSUME QueueInv, StoreInv, NEW t \in Threads, NEW a \in Achievements, RecordUnlock(t, a)
  PROVE  StoreInv'
<1>1. Line' = Line
  BY DEF RecordUnlock, dispatchVars, Line
<1>2. /\ unlocked \in Seq(Achievements) /\ IsInjective(unlocked)
      /\ unlocking \in [Threads -> {NotUnlocking, <<>>} \cup {<<b>> : b \in Achievements}]
  BY DEF StoreInv, StoreTypes
<1>3. CASE a \in ToSet(unlocked)
  <2>1. unlocked' = unlocked /\ unlocking' = [unlocking EXCEPT ![t] = <<>>]
    BY <1>2, <1>3, ConcatEmptySeq DEF RecordUnlock
  <2>2. StoreTypes'
    BY <2>1 DEF RecordUnlock, StoreInv, StoreTypes
  <2>3. \A u \in Threads, b \in Achievements : unlocking'[u] = <<b>> => unlocking[u] = <<b>>
    BY <1>2, <2>1
  <2>4. NewlyOnce'
    BY <2>1, <2>3 DEF StoreInv, NewlyOnce
  <2>5. ToldOnce'
    BY <1>1, <2>1, <2>3 DEF RecordUnlock, StoreInv, ToldOnce
  <2> QED BY <2>2, <2>4, <2>5 DEF StoreInv
<1>4. CASE a \notin ToSet(unlocked)
  <2>1. unlocked' = unlocked \o <<a>> /\ unlocking' = [unlocking EXCEPT ![t] = <<a>>]
    BY <1>4 DEF RecordUnlock
  <2> DEFINE one == <<a>>
  <2>2. one \in Seq(Achievements) /\ IsInjective(one) /\ ToSet(one) = {a}
    <3>1. one \in Seq(Achievements) /\ DOMAIN one = {1} /\ one[1] = a
      OBVIOUS
    <3> HIDE DEF one
    <3> QED BY <3>1 DEF IsInjective, ToSet
  <2>3. unlocked' = unlocked \o one
    BY <2>1
  <2> HIDE DEF one
  <2>4. /\ unlocked' \in Seq(Achievements) /\ ToSet(unlocked') = ToSet(unlocked) \cup {a}
        /\ IsInjective(unlocked')
    BY <1>2, <1>4, <2>2, <2>3, ConcatRoster, ConcatInjective
  <2>5. StoreTypes'
    BY <2>1, <2>4 DEF RecordUnlock, StoreInv, StoreTypes
  <2>6. \A u \in Threads, b \in Achievements :
          unlocking'[u] = <<b>> => (u = t /\ b = a) \/ (u # t /\ b # a /\ unlocking[u] = <<b>>)
    <3>1. \A u \in Threads : unlocking[u] # <<a>>
      BY <1>4 DEF StoreInv, NewlyOnce
    <3> SUFFICES ASSUME NEW u \in Threads, NEW b \in Achievements, unlocking'[u] = <<b>>
                 PROVE  (u = t /\ b = a) \/ (u # t /\ b # a /\ unlocking[u] = <<b>>)
      OBVIOUS
    <3>2. CASE u = t
      <4>1. <<a>> = <<b>>
        BY <1>2, <2>1, <3>2
      <4> QED BY <3>2, <4>1
    <3>3. CASE u # t
      BY <1>2, <2>1, <3>1, <3>3
    <3> QED BY <3>2, <3>3
  <2>7. NewlyOnce'
    BY <2>4, <2>6 DEF StoreInv, NewlyOnce
  <2>8. ToldOnce'
    <3> SUFFICES ASSUME NEW o \in Observers, NEW b \in Achievements
                 PROVE  /\ Once(Line, Unlocked(o, b))
                        /\ Unlocked(o, b) \in ToSet(Line) => heardOf[o][b] = 0
                        /\ Unlocked(o, b) \in ToSet(Line) \/ heardOf[o][b] # 0 =>
                             b \in ToSet(unlocked') /\ \A u \in Threads : unlocking'[u] # <<b>>
      BY <1>1 DEF RecordUnlock, ToldOnce
    <3>1. Unlocked(o, b) \in ToSet(Line) \/ heardOf[o][b] # 0 => b # a
      BY <1>4 DEF StoreInv, ToldOnce
    <3> QED BY <2>4, <2>6, <3>1 DEF StoreInv, ToldOnce
  <2> QED BY <2>5, <2>7, <2>8 DEF StoreInv
<1> QED BY <1>3, <1>4

\* The second: the observers are told of what this thread has unlocked.
LEMMA PostUnlockIInv ==
  ASSUME QueueInv, StoreInv, NEW t \in Threads, PostUnlock(t, live)
  PROVE  StoreInv'
<1>0. Line \in Seq(Closures) /\ QueueOf(Closures, 0) /\ StoreTypes
  BY LineIsSeq DEF QueueInv, StoreInv
<1>1. /\ unlocking' = [unlocking EXCEPT ![t] = NotUnlocking]
      /\ UNCHANGED <<stats, unlocked, observers, heardOf>>
      /\ unlocking \in [Threads -> {NotUnlocking, <<>>} \cup {<<b>> : b \in Achievements}]
  BY <1>0 DEF PostUnlock, StoreTypes
<1>2. StoreTypes'
  BY <1>0, <1>1 DEF StoreTypes
<1>3. \A u \in Threads, b \in Achievements :
        unlocking'[u] = <<b>> => u # t /\ unlocking[u] = <<b>>
  BY <1>1, LocalStoresAssumption DEF LocalStoresAssumption
<1>4. NewlyOnce'
  BY <1>1, <1>3 DEF StoreInv, NewlyOnce
<1>5. ASSUME NEW CONSTANT S, S \subseteq Completions, Posts(S) PROVE ToldOnce'
  <2>1. S \cap Unlocks = {} /\ S \subseteq Closures
    BY <1>5 DEF Completions, Unlocks, Closures
  <2>2. Thins(Unlocks)
    BY <1>0, <1>5, <2>1, PostsJoin, JoinsThins
  <2>3. \A o \in Observers, b \in Achievements : Unlocked(o, b) \in Unlocks
    BY DEF Unlocked, Unlocks
  <2> QED BY <1>1, <1>3, <2>2, <2>3 DEF StoreInv, ToldOnce, Thins
<1>6. ASSUME NEW a \in Achievements, NEW works \in Seq(Closures), unlocking[t] = <<a>>,
             Announcements(a, works), Post(works), UNCHANGED <<delayed, ready, draining>>
      PROVE  ToldOnce'
  <2>1. Line' = Line \o works
    BY <1>0, <1>6, PostJoins
  <2>2. ToSet(works) \subseteq Completions \cup {Unlocked(o, a) : o \in Observers}
        /\ \A o \in Observers : Once(works, Unlocked(o, a))
    BY <1>0, <1>6, AnnouncedOnce DEF StoreTypes
  <2>3. ToSet(Line') = ToSet(Line) \cup ToSet(works)
    BY <1>0, <2>1, ConcatRoster
  <2>4. ASSUME NEW o \in Observers, NEW b \in Achievements
        PROVE  /\ Once(Line', Unlocked(o, b))
               /\ Unlocked(o, b) \in ToSet(Line') => heardOf[o][b] = 0
               /\ Unlocked(o, b) \in ToSet(Line') \/ heardOf[o][b] # 0 =>
                    b \in ToSet(unlocked) /\ \A u \in Threads : unlocking'[u] # <<b>>
    <3>1. CASE b = a
      <4>1. Unlocked(o, a) \notin ToSet(Line) /\ heardOf[o][a] = 0
        BY <1>0, <1>6 DEF StoreInv, ToldOnce, StoreTypes
      <4>2. Once(Line, Unlocked(o, a))
        BY DEF StoreInv, ToldOnce
      <4>3. Once(Line', Unlocked(o, a))
        BY <1>0, <2>1, <2>2, <4>1, <4>2, OnceInConcat
      <4>4. a \in ToSet(unlocked) /\ \A u \in Threads : unlocking[u] = <<a>> => u = t
        BY <1>6 DEF StoreInv, NewlyOnce
      <4>5. \A u \in Threads : unlocking'[u] # <<a>>
        BY <1>3, <4>4
      <4> QED BY <3>1, <4>1, <4>3, <4>4, <4>5
    <3>2. CASE b # a
      <4>1. Unlocked(o, b) \notin ToSet(works)
        <5>1. Unlocked(o, b) \notin Completions
          BY DEF Unlocked, Completions
        <5>2. \A p \in Observers : Unlocked(o, b) # Unlocked(p, a)
          BY <3>2 DEF Unlocked
        <5> QED BY <2>2, <5>1, <5>2
      <4>2. Once(works, Unlocked(o, b))
        BY <4>1 DEF Once, ToSet
      <4>3. Once(Line, Unlocked(o, b))
        BY DEF StoreInv, ToldOnce
      <4>4. Once(Line', Unlocked(o, b))
        BY <1>0, <2>1, <4>1, <4>2, <4>3, OnceInConcat
      <4> QED BY <1>3, <2>3, <4>1, <4>4 DEF StoreInv, ToldOnce
    <3> QED BY <3>1, <3>2
  <2> QED BY <1>1, <2>4 DEF ToldOnce
<1>7. ToldOnce'
  BY <1>0, <1>5, <1>6, PostUnlockPosts
<1> QED BY <1>2, <1>4, <1>7 DEF StoreInv

\* A notification that comes leaves the line, and no other like it is there.
LEMMA RunUnlockedIInv ==
  ASSUME QueueInv, StoreInv, RunUnlocked
  PROVE  StoreInv'
<1>1. /\ Line \in Seq(Closures) /\ Line # <<>> /\ Line' = Tail(Line)
      /\ Head(Line) = Head(ready) /\ Head(ready) \in Closures
  BY RunsHead DEF RunUnlocked
<1>2. Head(ready) \in Unlocks
  <2>1. Head(ready).kind = "unlocked"
    BY DEF RunUnlocked
  <2> QED BY <1>1, <2>1 DEF Closures, Completions, Statuses
<1>3. PICK o \in Observers, a \in Achievements : Head(Line) = Unlocked(o, a)
  BY <1>1, <1>2 DEF Unlocks, Unlocked
<1>4. heardOf' = [heardOf EXCEPT ![o][a] = heardOf[o][a] + 1]
      /\ UNCHANGED <<stats, unlocked, observers, unlocking>>
  <2>1. Head(ready).observer = o /\ Head(ready).id = a
    BY <1>1, <1>3 DEF Unlocked
  <2>2. heardOf' = [heardOf EXCEPT ![Head(ready).observer][Head(ready).id] =
                                      heardOf[Head(ready).observer][Head(ready).id] + 1]
    BY DEF RunUnlocked
  <2>3. UNCHANGED <<stats, unlocked, observers, unlocking>>
    BY DEF RunUnlocked
  <2> QED BY <2>1, <2>2, <2>3
<1>5. Unlocked(o, a) \in ToSet(Line)
  <2>1. Len(Line) \in Nat \ {0} /\ DOMAIN Line = 1..Len(Line) /\ Head(Line) = Line[1]
    BY <1>1, TailPlaces
  <2>2. 1 \in DOMAIN Line
    BY <2>1
  <2> QED BY <1>3, <2>1, <2>2 DEF ToSet
<1>6. heardOf[o][a] = 0 /\ a \in ToSet(unlocked) /\ \A t \in Threads : unlocking[t] # <<a>>
  BY <1>5 DEF StoreInv, ToldOnce
<1>7. heardOf \in [Observers -> [Achievements -> 0..1]]
  BY DEF StoreInv, StoreTypes
<1>8. /\ heardOf' \in [Observers -> [Achievements -> 0..1]]
      /\ \A p \in Observers, b \in Achievements :
           ~(p = o /\ b = a) => heardOf'[p][b] = heardOf[p][b]
  BY <1>4, <1>6, <1>7
<1>9. StoreTypes'
  BY <1>4, <1>8 DEF StoreInv, StoreTypes
<1>10. NewlyOnce'
  BY <1>4 DEF StoreInv, NewlyOnce
<1>11. ASSUME NEW p \in Observers, NEW b \in Achievements
       PROVE  /\ Once(Line', Unlocked(p, b))
              /\ Unlocked(p, b) \in ToSet(Line') => heardOf'[p][b] = 0
              /\ Unlocked(p, b) \in ToSet(Line') \/ heardOf'[p][b] # 0 =>
                   b \in ToSet(unlocked) /\ \A t \in Threads : unlocking[t] # <<b>>
  <2>1. Once(Line, Unlocked(p, b))
    BY DEF StoreInv, ToldOnce
  <2>2. Once(Line', Unlocked(p, b))
        /\ (Head(Line) = Unlocked(p, b) => Unlocked(p, b) \notin ToSet(Line'))
    BY <1>1, <2>1, OnceInTail
  <2>3. ToSet(Line') \subseteq ToSet(Line)
    BY <1>1, TailRoster
  <2>4. CASE p = o /\ b = a
    BY <1>3, <1>6, <2>2, <2>4
  <2>5. CASE ~(p = o /\ b = a)
    BY <1>8, <2>2, <2>3, <2>5 DEF StoreInv, ToldOnce
  <2> QED BY <2>4, <2>5
<1>12. ToldOnce'
  BY <1>4, <1>11 DEF ToldOnce
<1> QED BY <1>9, <1>10, <1>12 DEF StoreInv

\* The calls of Stats and Achievements.
LEMMA StoreCallsIInv ==
  ASSUME QueueInv, StoreInv, StoreCalls
  PROVE  StoreInv'
<1>1. ASSUME NEW o, AddNotifyAchievementsUnlocked(o) \/ RemoveNotifyAchievementsUnlocked(o),
             o \in Observers
      PROVE  StoreInv'
  <2>1. Line' = Line
    BY <1>1 DEF AddNotifyAchievementsUnlocked, RemoveNotifyAchievementsUnlocked, dispatchVars, Line
  <2>2. observers' \subseteq Observers /\ UNCHANGED <<stats, unlocked, unlocking, heardOf>>
    BY <1>1 DEF AddNotifyAchievementsUnlocked, RemoveNotifyAchievementsUnlocked,
                StoreInv, StoreTypes
  <2>3. (NewlyOnce /\ ToldOnce)'
    BY <2>1, <2>2, LineIsSeq, LeavesThins, StoresStay
  <2>4. StoreTypes'
    BY <2>2 DEF StoreInv, StoreTypes
  <2> QED BY <2>3, <2>4 DEF StoreInv
<1>2. ASSUME QueryStore PROVE StoreInv'
  <2>1. Posts(Completions) /\ UNCHANGED storeVars
    BY <1>2, PlainPosts DEF QueryStore, Posts
  <2>2. Completions \cap Unlocks = {} /\ Completions \subseteq Closures
    BY DEF Completions, Unlocks, Closures
  <2>3. Thins(Unlocks)
    BY <2>1, <2>2, PostsJoin, LineIsSeq, JoinsThins
  <2> QED BY <2>1, <2>3, StoresUnchanged
<1> QED BY <1>1, <1>2, IngestStatIInv, RecordUnlockIInv DEF StoreCalls
---------------------------------------------------------------------------
(* The logins.                                                             *)

AccountTypes ==
  /\ loggedIn \in [Logins -> BOOLEAN] /\ watching \in [Logins -> BOOLEAN]
  /\ told \in [Logins -> BOOLEAN] /\ silent \in [Logins -> BOOLEAN]
  /\ firing = NoStatus \/ \E l \in Logins : firing \in Changes(l)
  /\ firing # NoStatus => draining
  /\ provider \in {"epic", "steam"}
  /\ steamId \in {"none", "pinned", "module", "ticket"}

\* Nothing in the line tells of a change of l.
NoneComing(l) == ToSet(Line) \cap Changes(l) = {}

\* The last change of l that is still to be announced is to the status it has;
\* an observer of a status that is not to be announced has been told of it.
Settled(l) ==
  ~silent[l] =>
    \/ \E c \in Changes(l) : c.now = loggedIn[l] /\ LastOf(Line, Changes(l), c)
    \/ NoneComing(l) /\ firing \in Changes(l) /\ firing.now = loggedIn[l]
    \/ NoneComing(l) /\ firing \notin Changes(l) /\ (watching[l] => told[l] = loggedIn[l])

AccountInv == AccountTypes /\ \A l \in Logins : Settled(l)

\* What waits in the line of M, and what is the last of it, stays.
Keeps(M) ==
  /\ \A x \in M : LastOf(Line, M, x) => LastOf(Line', M, x)
  /\ ToSet(Line) \cap M = {} => ToSet(Line') \cap M = {}

\* What joins the line and announces no status of the login leaves what is owed.
LEMMA JoinsKeeps ==
  ASSUME NEW CONSTANT S, NEW CONSTANT M, S \cap M = {}, S \subseteq Closures,
         Line \in Seq(Closures), Joins(S)
  PROVE  Keeps(M)
<1>1. PICK works \in Seq(S) : Line' = Line \o works
  BY DEF Joins
<1>2. works \in Seq(Closures) /\ ToSet(works) \subseteq S
  <2>1. \A i \in DOMAIN works : works[i] \in S
    BY LenProperties, ElementOfSeq
  <2> QED BY <2>1 DEF ToSet
<1>3. ToSet(works) \cap M = {}
  BY <1>2
<1>4. \A x \in M : LastOf(Line, M, x) => LastOf(Line', M, x)
  BY <1>1, <1>2, <1>3, LastInConcat
<1>5. ToSet(Line') = ToSet(Line) \cup ToSet(works)
  BY <1>1, <1>2, ConcatRoster
<1> QED BY <1>3, <1>4, <1>5 DEF Keeps

\* So does a closure that runs and announces none.
LEMMA LeavesKeeps ==
  ASSUME NEW CONSTANT M, Line \in Seq(Closures), Line # <<>>, Line' = Tail(Line), Head(Line) \notin M
  PROVE  Keeps(M)
<1>1. \A x \in M : LastOf(Line, M, x) => LastOf(Line', M, x)
  BY LastInTail
<1>2. ToSet(Line') \subseteq ToSet(Line)
  BY TailRoster
<1> QED BY <1>1, <1>2 DEF Keeps

\* An announcement of a status is one of one login, and no other closure.
LEMMA StatusKind ==
  /\ \A l \in Logins : Changes(l) \subseteq Statuses /\ Changes(l) \cap Completions = {}
                       /\ Changes(l) \cap Unlocks = {}
  /\ \A l, m \in Logins : l # m => Changes(l) \cap Changes(m) = {}
  /\ \A l \in Logins : NoStatus \notin Changes(l)
<1>1. \A l \in Logins : Changes(l) \subseteq Statuses
  BY DEF Changes, Statuses
<1>2. \A l \in Logins : Changes(l) \cap Completions = {} /\ Changes(l) \cap Unlocks = {}
  BY DEF Changes, Completions, Unlocks
<1>3. \A l, m \in Logins : l # m => Changes(l) \cap Changes(m) = {}
  BY DEF Changes
<1>4. NoStatus \notin Statuses
  BY AccountsAssumption DEF AccountsAssumption, Statuses, Logins
<1> QED BY <1>1, <1>2, <1>3, <1>4

\* As long as nothing happens to the login or to what tells of it.
LEMMA SettledStays ==
  ASSUME NEW l \in Logins, Settled(l), Keeps(Changes(l)),
         ~silent'[l] => ~silent[l], loggedIn'[l] = loggedIn[l],
         firing' = firing \/ (firing \notin Changes(l) /\ firing' \notin Changes(l)),
         watching'[l] => watching[l] /\ told'[l] = told[l]
  PROVE  Settled(l)'
<1>1. SUFFICES ASSUME ~silent[l], ~silent'[l] PROVE Settled(l)'
  BY DEF Settled
<1>2. CASE \E c \in Changes(l) : c.now = loggedIn[l] /\ LastOf(Line, Changes(l), c)
  BY <1>2 DEF Settled, Keeps, Changes
<1>3. CASE NoneComing(l) /\ firing \in Changes(l) /\ firing.now = loggedIn[l]
  <2>1. NoneComing(l)'
    BY <1>3 DEF NoneComing, Keeps, Changes
  <2> QED BY <1>3, <2>1 DEF Settled, Changes
<1>4. CASE NoneComing(l) /\ firing \notin Changes(l) /\ (watching[l] => told[l] = loggedIn[l])
  <2>1. NoneComing(l)'
    BY <1>4 DEF NoneComing, Keeps, Changes
  <2> QED BY <1>4, <2>1 DEF Settled, Changes
<1> QED BY <1>1, <1>2, <1>3, <1>4 DEF Settled
\* A change of status that is announced, or is none, or is not: the last is
\* what silent remembers.
LEMMA StatusPosted ==
  ASSUME QueueInv, AccountInv, NEW l \in Logins, NEW now \in BOOLEAN, NEW posts \in BOOLEAN,
         loggedIn' = [loggedIn EXCEPT ![l] = now],
         Post(IF posts THEN <<Status(l, loggedIn[l], now)>> ELSE <<>>),
         UNCHANGED <<delayed, ready, draining, watching, told, firing>>,
         \A m \in Logins : m # l /\ ~silent'[m] => ~silent[m],
         ~silent'[l] => posts \/ loggedIn[l] = now,
         ~silent'[l] => ~silent[l] \/ loggedIn[l] # now
  PROVE  \A m \in Logins : Settled(m)'
<1> DEFINE c == Status(l, loggedIn[l], now)
           works == IF posts THEN <<c>> ELSE <<>>
<1>1. Line \in Seq(Closures) /\ QueueOf(Closures, 0)
  BY LineIsSeq DEF QueueInv
<1>2. c \in Statuses
  BY DEF Status, Statuses
<1>3. works \in Seq({c})
  <2>1. <<c>> \in Seq({c}) /\ <<>> \in Seq({c})
    BY EmptySeq
  <2> QED BY <2>1
<1>4. works \in Seq(Closures)
  <2>1. c \in Closures
    BY <1>2 DEF Closures
  <2> HIDE DEF works, c
  <2> QED BY <1>3, <2>1
<1>5. Line' = Line \o works
  BY <1>1, <1>4, PostJoins
<1>6. ToSet(works) \subseteq {c}
  <2>1. \A i \in DOMAIN works : works[i] \in {c}
    BY <1>3, LenProperties, ElementOfSeq
  <2> QED BY <2>1 DEF ToSet
<1>7. posts => DOMAIN works = {1} /\ works[1] = c
  OBVIOUS
<1>8. c.login = l /\ c.now = now /\ c.changes = (loggedIn[l] # now)
  BY DEF Status
<1> HIDE DEF works, c
<1>9. ASSUME NEW m \in Logins, c \notin Changes(m) PROVE Keeps(Changes(m))
  <2>1. ToSet(works) \cap Changes(m) = {}
    BY <1>6, <1>9
  <2>2. \A x \in Changes(m) : LastOf(Line, Changes(m), x) => LastOf(Line', Changes(m), x)
    BY <1>1, <1>4, <1>5, <2>1, LastInConcat
  <2>3. ToSet(Line') = ToSet(Line) \cup ToSet(works)
    BY <1>1, <1>4, <1>5, ConcatRoster
  <2> QED BY <2>1, <2>2, <2>3 DEF Keeps
<1>10. loggedIn \in [Logins -> BOOLEAN]
  BY DEF AccountInv, AccountTypes
<1>11. ASSUME NEW m \in Logins, m # l PROVE Settled(m)'
  <2>1. c \notin Changes(m)
    BY <1>8, <1>11 DEF Changes
  <2>2. loggedIn'[m] = loggedIn[m]
    BY <1>10, <1>11
  <2>3. Settled(m)
    BY DEF AccountInv
  <2>4. Keeps(Changes(m))
    BY <1>9, <2>1
  <2> QED BY <1>11, <2>2, <2>3, <2>4, SettledStays
<1>12. loggedIn'[l] = now
  BY <1>10
<1>13. Settled(l)'
  <2>1. CASE silent'[l]
    BY <2>1 DEF Settled
  <2>2. CASE ~silent'[l] /\ loggedIn[l] = now
    <3>1. c \notin Changes(l)
      BY <1>8, <2>2 DEF Changes
    <3>2. loggedIn'[l] = loggedIn[l] /\ Settled(l) /\ ~silent[l]
      BY <1>12, <2>2 DEF AccountInv
    <3>3. Keeps(Changes(l))
      BY <1>9, <3>1
    <3> QED BY <3>2, <3>3, SettledStays
  <2>3. CASE ~silent'[l] /\ loggedIn[l] # now
    <3>1. posts
      BY <2>3
    <3>2. c \in Changes(l)
      BY <1>2, <1>8, <2>3 DEF Changes, Statuses
    <3>3. LastOf(works, Changes(l), c)
      BY <1>7, <3>1, <3>2 DEF LastOf
    <3>4. LastOf(Line', Changes(l), c)
      BY <1>1, <1>4, <1>5, <3>3, LastInConcat
    <3>5. c.now = loggedIn'[l]
      BY <1>8, <1>12
    <3> QED BY <3>2, <3>4, <3>5 DEF Settled, Changes
  <2> QED BY <2>1, <2>2, <2>3
<1> QED BY <1>11, <1>13

\* Login of both interfaces.
LEMMA LoggedInIInv ==
  ASSUME QueueInv, AccountInv, NEW l \in Logins, NEW hasCallback \in BOOLEAN,
         LoggedIn(l, hasCallback),
         provider' \in {"epic", "steam"}, steamId' \in {"none", "pinned", "module", "ticket"}
  PROVE  AccountInv'
<1>1. /\ loggedIn \in [Logins -> BOOLEAN] /\ silent \in [Logins -> BOOLEAN]
      /\ loggedIn' = [loggedIn EXCEPT ![l] = TRUE]
      /\ silent' = [silent EXCEPT ![l] = silent[l] \/ (~hasCallback /\ ~loggedIn[l])]
      /\ UNCHANGED <<watching, told, firing, delayed, ready, draining>>
      /\ Post(IF hasCallback THEN <<Status(l, loggedIn[l], TRUE)>> ELSE <<>>)
  BY DEF AccountInv, AccountTypes, LoggedIn
<1>2. /\ loggedIn' \in [Logins -> BOOLEAN] /\ silent' \in [Logins -> BOOLEAN]
      /\ silent'[l] = (silent[l] \/ (~hasCallback /\ ~loggedIn[l]))
      /\ \A m \in Logins : m # l => silent'[m] = silent[m]
  BY <1>1
<1>3. AccountTypes'
  BY <1>1, <1>2 DEF AccountInv, AccountTypes, Changes
<1>4. /\ ~silent'[l] => hasCallback \/ loggedIn[l] = TRUE
      /\ ~silent'[l] => ~silent[l] \/ loggedIn[l] # TRUE
      /\ \A m \in Logins : m # l /\ ~silent'[m] => ~silent[m]
  BY <1>1, <1>2
<1>5. \A m \in Logins : Settled(m)'
  BY <1>1, <1>4, StatusPosted
<1> QED BY <1>3, <1>5 DEF AccountInv

\* Login of Auth and of Connect.
LEMMA LoginIInv ==
  ASSUME QueueInv, AccountInv, NEW credential \in {"steamTicket", "token"},
         NEW hasCallback \in BOOLEAN,
         AuthLogin(credential, hasCallback) \/ ConnectLogin(credential, hasCallback)
  PROVE  AccountInv'
<1>1. provider \in {"epic", "steam"} /\ steamId \in {"none", "pinned", "module", "ticket"}
  BY DEF AccountInv, AccountTypes
<1>2. NoteSteamSessionTicket(credential) => steamId' \in {"none", "pinned", "module", "ticket"}
  BY <1>1 DEF NoteSteamSessionTicket, LocalSteamId
<1>3. AccountTypeFromCredential(credential) \in {"epic", "steam"}
  BY DEF AccountTypeFromCredential
<1>4. "auth" \in Logins /\ "connect" \in Logins
  BY DEF Logins
<1>5. CASE AuthLogin(credential, hasCallback)
  BY <1>1, <1>2, <1>4, <1>5, LoggedInIInv DEF AuthLogin
<1>6. CASE ConnectLogin(credential, hasCallback)
  BY <1>2, <1>3, <1>4, <1>6, LoggedInIInv DEF ConnectLogin
<1> QED BY <1>5, <1>6

\* Logout of Auth, which posts the change whether or not there is a callback.
LEMMA LogoutIInv ==
  ASSUME QueueInv, AccountInv, NEW hasCallback \in BOOLEAN, Logout(hasCallback)
  PROVE  AccountInv'
<1> DEFINE l == "auth"
<1>0. l \in Logins
  BY DEF Logins
<1>1. /\ loggedIn \in [Logins -> BOOLEAN] /\ silent \in [Logins -> BOOLEAN]
      /\ loggedIn' = [loggedIn EXCEPT ![l] = FALSE]
      /\ silent' = [silent EXCEPT ![l] = silent[l] /\ ~loggedIn[l]]
      /\ UNCHANGED <<watching, told, firing, delayed, ready, draining, provider, steamId>>
      /\ Post(<<Status(l, loggedIn[l], FALSE)>>)
  BY DEF AccountInv, AccountTypes, Logout
<1> HIDE DEF l
<1>2. /\ loggedIn' \in [Logins -> BOOLEAN] /\ silent' \in [Logins -> BOOLEAN]
      /\ silent'[l] = (silent[l] /\ ~loggedIn[l])
      /\ \A m \in Logins : m # l => silent'[m] = silent[m]
  BY <1>0, <1>1
<1>3. AccountTypes'
  BY <1>1, <1>2 DEF AccountInv, AccountTypes, Changes
<1>4. /\ ~silent'[l] => TRUE \/ loggedIn[l] = FALSE
      /\ ~silent'[l] => ~silent[l] \/ loggedIn[l] # FALSE
      /\ \A m \in Logins : m # l /\ ~silent'[m] => ~silent[m]
  BY <1>0, <1>1, <1>2
<1>5. Post(IF TRUE THEN <<Status(l, loggedIn[l], FALSE)>> ELSE <<>>)
  BY <1>1
<1>6. \A m \in Logins : Settled(m)'
  BY <1>0, <1>1, <1>4, <1>5, StatusPosted
<1> QED BY <1>3, <1>6 DEF AccountInv
\* CreateUser announces nothing: the status is settled only if it was so.
LEMMA CreateUserIInv ==
  ASSUME QueueInv, AccountInv, NEW hasCallback \in BOOLEAN, CreateUser(hasCallback)
  PROVE  AccountInv'
<1> DEFINE l == "connect"
<1>0. l \in Logins
  BY DEF Logins
<1>1. /\ loggedIn \in [Logins -> BOOLEAN] /\ silent \in [Logins -> BOOLEAN]
      /\ loggedIn' = [loggedIn EXCEPT ![l] = TRUE]
      /\ silent' = [silent EXCEPT ![l] = silent[l] \/ ~loggedIn[l]]
      /\ UNCHANGED <<watching, told, firing, delayed, ready, draining, provider, steamId>>
  BY DEF AccountInv, AccountTypes, CreateUser
<1>2. Posts(Completions)
  BY PlainPosts DEF CreateUser, Posts, Plain
<1> HIDE DEF l
<1>3. /\ loggedIn' \in [Logins -> BOOLEAN] /\ silent' \in [Logins -> BOOLEAN]
      /\ \A m \in Logins : ~silent'[m] => ~silent[m] /\ loggedIn'[m] = loggedIn[m]
  BY <1>0, <1>1
<1>4. AccountTypes'
  BY <1>1, <1>3 DEF AccountInv, AccountTypes, Changes
<1>5. ASSUME NEW m \in Logins PROVE Settled(m)'
  <2>1. CASE silent'[m]
    BY <2>1 DEF Settled
  <2>2. CASE ~silent'[m]
    <3>1. Completions \cap Changes(m) = {} /\ Completions \subseteq Closures
      BY StatusKind DEF Closures
    <3>2. Keeps(Changes(m))
      BY <1>2, <3>1, LineIsSeq, PostsJoin, JoinsKeeps
    <3>3. Settled(m) /\ loggedIn'[m] = loggedIn[m] /\ ~silent[m]
      BY <1>3, <2>2 DEF AccountInv
    <3> QED BY <1>1, <3>2, <3>3, SettledStays
  <2> QED BY <2>1, <2>2
<1> QED BY <1>4, <1>5 DEF AccountInv

\* Nothing happens to the logins, and no change of status joins the line or
\* leaves it.
LEMMA AccountsStay ==
  ASSUME AccountInv, UNCHANGED <<loggedIn, watching, told, silent, firing, provider>>,
         steamId' \in {"none", "pinned", "module", "ticket"}, firing # NoStatus => draining',
         \A l \in Logins : Keeps(Changes(l))
  PROVE  AccountInv'
<1>1. AccountTypes'
  BY DEF AccountInv, AccountTypes, Changes
<1>2. \A l \in Logins : Settled(l)'
  BY SettledStays DEF AccountInv
<1> QED BY <1>1, <1>2 DEF AccountInv

\* Completions and announcements tell of no change of status.
LEMMA PostsKeep ==
  ASSUME NEW CONSTANT S, S \subseteq Completions \cup Unlocks, QueueInv, Posts(S)
  PROVE  \A l \in Logins : Keeps(Changes(l))
<1> SUFFICES ASSUME NEW l \in Logins PROVE Keeps(Changes(l))
  OBVIOUS
<1>1. S \cap Changes(l) = {} /\ S \subseteq Closures
  BY StatusKind DEF Closures
<1> QED BY <1>1, LineIsSeq, PostsJoin, JoinsKeeps

\* Who registers has read the status as it is; who leaves need not be told.
LEMMA NotifyIInv ==
  ASSUME QueueInv, AccountInv, NEW l \in Logins,
         AddNotifyLoginStatusChanged(l) \/ RemoveNotifyLoginStatusChanged(l)
  PROVE  AccountInv'
<1>0. /\ watching \in [Logins -> BOOLEAN] /\ told \in [Logins -> BOOLEAN]
      /\ loggedIn \in [Logins -> BOOLEAN] /\ silent \in [Logins -> BOOLEAN]
  BY DEF AccountInv, AccountTypes
<1>1. Line' = Line /\ UNCHANGED <<loggedIn, firing, provider, steamId, draining>>
  BY DEF AddNotifyLoginStatusChanged, RemoveNotifyLoginStatusChanged, dispatchVars, Line
<1>2. \A m \in Logins : Keeps(Changes(m)) /\ Settled(m)
  BY <1>1 DEF Keeps, AccountInv
<1>3. CASE AddNotifyLoginStatusChanged(l)
  <2>1. /\ watching' = [watching EXCEPT ![l] = TRUE]
        /\ told' = [told EXCEPT ![l] = loggedIn[l]]
        /\ silent' = [silent EXCEPT ![l] = silent[l] /\ Owed(l)]
    BY <1>3 DEF AddNotifyLoginStatusChanged
  <2>2. /\ watching' \in [Logins -> BOOLEAN] /\ told' \in [Logins -> BOOLEAN]
        /\ silent' \in [Logins -> BOOLEAN]
        /\ told'[l] = loggedIn[l] /\ silent'[l] = (silent[l] /\ Owed(l))
    BY <1>0, <2>1
  <2>3. \A m \in Logins : m # l =>
          watching'[m] = watching[m] /\ told'[m] = told[m] /\ silent'[m] = silent[m]
    BY <1>0, <2>1
  <2>4. AccountTypes'
    BY <1>1, <2>2 DEF AccountInv, AccountTypes, Changes
  <2>5. ASSUME NEW m \in Logins, m # l PROVE Settled(m)'
    BY <1>1, <1>2, <2>3, <2>5, SettledStays
  <2>6. Settled(l)'
    <3>1. CASE ~Owed(l)
      <4>1. NoneComing(l) /\ firing \notin Changes(l)
        BY <3>1 DEF Owed, Coming, NoneComing, ToSet
      <4>2. NoneComing(l)' /\ firing' \notin Changes(l) /\ told'[l] = loggedIn'[l]
        BY <1>1, <2>2, <4>1 DEF NoneComing, Changes
      <4> QED BY <4>2 DEF Settled, Changes
    <3>2. CASE Owed(l)
      <4>1. \/ ~NoneComing(l)
            \/ firing \in Changes(l)
        BY <3>2 DEF Owed, Coming, NoneComing, ToSet
      <4>2. ~silent'[l] => ~silent[l]
        BY <2>2, <3>2
      <4>3. CASE NoneComing(l)
        <5>1. NoneComing(l)' /\ firing' \in Changes(l) /\ firing' = firing
          BY <1>1, <4>1, <4>3 DEF NoneComing, Changes
        <5>2. ~silent'[l] => firing.now = loggedIn[l]
          <6>1. ASSUME NEW c, LastOf(Line, Changes(l), c) PROVE FALSE
            BY <4>3, <6>1 DEF NoneComing, LastOf, ToSet
          <6> QED BY <1>2, <4>1, <4>2, <6>1 DEF Settled
        <5> QED BY <1>1, <5>1, <5>2 DEF Settled, Changes
      <4>4. CASE ~NoneComing(l)
        <5>1. ~silent'[l] => \E c \in Changes(l) : c.now = loggedIn[l] /\ LastOf(Line, Changes(l), c)
          BY <1>2, <4>2, <4>4 DEF Settled
        <5> QED BY <1>1, <5>1 DEF Settled, Changes
      <4> QED BY <4>3, <4>4
    <3> QED BY <3>1, <3>2
  <2> QED BY <2>4, <2>5, <2>6 DEF AccountInv
<1>4. CASE RemoveNotifyLoginStatusChanged(l)
  <2>1. watching' = [watching EXCEPT ![l] = FALSE] /\ UNCHANGED <<told, silent>>
    BY <1>4 DEF RemoveNotifyLoginStatusChanged
  <2>2. watching' \in [Logins -> BOOLEAN] /\ \A m \in Logins : watching'[m] => watching[m]
    BY <1>0, <2>1
  <2>3. AccountTypes'
    BY <1>1, <2>1, <2>2 DEF AccountInv, AccountTypes, Changes
  <2>4. ASSUME NEW m \in Logins PROVE Settled(m)'
    BY <1>1, <1>2, <2>1, <2>2, SettledStays
  <2> QED BY <2>3, <2>4 DEF AccountInv
<1> QED BY <1>3, <1>4

\* The calls of Auth and Connect.
LEMMA AccountCallsIInv ==
  ASSUME QueueInv, AccountInv, AccountCalls
  PROVE  AccountInv'
<1>0. steamId \in {"none", "pinned", "module", "ticket"} /\ (firing # NoStatus => draining)
  BY DEF AccountInv, AccountTypes
<1>1. ASSUME NEW hasCallback \in BOOLEAN, PostSimple(hasCallback) PROVE AccountInv'
  <2>1. Posts(Completions)
    BY <1>1, PlainPosts DEF PostSimple, Posts, Plain
  <2>2. \A l \in Logins : Keeps(Changes(l))
    BY <2>1, PostsKeep
  <2>3. UNCHANGED <<loggedIn, watching, told, silent, firing, provider, steamId, draining>>
    BY <1>1 DEF PostSimple, accountVars
  <2> QED BY <1>0, <2>2, <2>3, AccountsStay
<1>2. ASSUME CopyExternalAccount \/ SteamInitialized PROVE AccountInv'
  <2>1. /\ UNCHANGED <<loggedIn, watching, told, silent, firing, provider, draining>>
        /\ Line' = Line
    BY <1>2 DEF CopyExternalAccount, SteamInitialized, dispatchVars, Line
  <2>2. steamId' \in {"none", "pinned", "module", "ticket"}
    BY <1>0, <1>2 DEF CopyExternalAccount, SteamInitialized, LocalSteamId
  <2>3. \A l \in Logins : Keeps(Changes(l))
    BY <2>1 DEF Keeps
  <2> QED BY <1>0, <2>1, <2>2, <2>3, AccountsStay
<1> QED BY <1>1, <1>2, LoginIInv, LogoutIInv, CreateUserIInv, NotifyIInv
        DEF AccountCalls, AuthCall, ConnectCall
\* A completion leaves the line, and the change that it announces is made
\* known next.
LEMMA RunStatusIInv ==
  ASSUME QueueInv, AccountInv, firing = NoStatus, RunStatus
  PROVE  AccountInv'
<1>1. /\ draining /\ UNCHANGED draining
      /\ Line \in Seq(Closures) /\ Line # <<>> /\ Line' = Tail(Line)
      /\ Head(Line) = Head(ready) /\ Head(ready) \in Closures
  BY RunsHead DEF RunStatus
<1> DEFINE c == Head(ready)
<1>2. /\ c.kind = "status" /\ firing' = IF c.changes THEN c ELSE NoStatus
      /\ UNCHANGED <<loggedIn, watching, told, silent, provider, steamId>>
  BY DEF RunStatus
<1> HIDE DEF c
<1>3. c \in Statuses
  BY <1>1, <1>2 DEF c, Closures, Completions, Unlocks
<1>4. c.changes => c \in Changes(c.login) /\ c.login \in Logins
  BY <1>3 DEF Statuses, Changes
<1>5. ~c.changes => \A l \in Logins : c \notin Changes(l)
  BY DEF Changes
<1>6. AccountTypes'
  <2>1. firing' = NoStatus \/ \E l \in Logins : firing' \in Changes(l)
    BY <1>2, <1>4
  <2> QED BY <1>1, <1>2, <2>1 DEF AccountInv, AccountTypes, Changes
<1>7. ASSUME NEW l \in Logins, c \notin Changes(l) PROVE Settled(l)'
  <2>1. Keeps(Changes(l))
    BY <1>1, <1>7, LeavesKeeps DEF c
  <2>2. firing \notin Changes(l) /\ firing' \notin Changes(l)
    BY <1>2, <1>7, StatusKind
  <2>3. Settled(l)
    BY DEF AccountInv
  <2> QED BY <1>2, <2>1, <2>2, <2>3, SettledStays
<1>8. ASSUME NEW l \in Logins, c \in Changes(l) PROVE Settled(l)'
  <2>1. firing' = c
    BY <1>2, <1>8 DEF Changes
  <2>2. Head(Line) = c /\ c \in ToSet(Line)
    <3>1. Len(Line) \in Nat \ {0} /\ DOMAIN Line = 1..Len(Line) /\ Head(Line) = Line[1]
      BY <1>1, TailPlaces
    <3>2. 1 \in DOMAIN Line
      BY <3>1
    <3> QED BY <1>1, <3>1, <3>2 DEF ToSet, c
  <2>3. ~NoneComing(l)
    BY <1>8, <2>2 DEF NoneComing
  <2> SUFFICES ASSUME ~silent'[l] PROVE Settled(l)'
    BY DEF Settled
  <2>4. PICK x \in Changes(l) : x.now = loggedIn[l] /\ LastOf(Line, Changes(l), x)
    BY <1>2, <2>3 DEF AccountInv, Settled
  <2>5. LastOf(Tail(Line), Changes(l), x) \/ (x = Head(Line) /\ ToSet(Tail(Line)) \cap Changes(l) = {})
    BY <1>1, <2>4, LastInTail
  <2>6. CASE LastOf(Tail(Line), Changes(l), x)
    <3>1. LastOf(Line', Changes(l), x) /\ x.now = loggedIn'[l]
      BY <1>1, <1>2, <2>4, <2>6
    <3> QED BY <2>4, <3>1 DEF Settled, Changes
  <2>7. CASE x = Head(Line) /\ ToSet(Tail(Line)) \cap Changes(l) = {}
    <3>1. NoneComing(l)' /\ firing' = x /\ x.now = loggedIn'[l]
      BY <1>1, <1>2, <2>1, <2>2, <2>4, <2>7 DEF NoneComing, Changes
    <3> QED BY <2>4, <3>1 DEF Settled, Changes
  <2> QED BY <2>5, <2>6, <2>7
<1>9. \A l \in Logins : Settled(l)'
  BY <1>7, <1>8
<1> QED BY <1>6, <1>9 DEF AccountInv

\* The observer, if there still is one, is told.
LEMMA FireStatusChangedIInv ==
  ASSUME AccountInv, FireStatusChanged
  PROVE  AccountInv'
<1>1. /\ firing # NoStatus /\ firing' = NoStatus /\ Line' = Line
      /\ UNCHANGED <<loggedIn, watching, silent, provider, steamId, draining>>
      /\ told' = IF watching[firing.login] THEN [told EXCEPT ![firing.login] = firing.now]
                 ELSE told
  BY DEF FireStatusChanged, dispatchVars, Line
<1>2. PICK l \in Logins : firing \in Changes(l)
  BY <1>1 DEF AccountInv, AccountTypes
<1>3. firing.login = l /\ firing.now \in BOOLEAN
  BY <1>2 DEF Changes
<1>4. told \in [Logins -> BOOLEAN]
  BY DEF AccountInv, AccountTypes
<1>5. /\ told' \in [Logins -> BOOLEAN]
      /\ watching[l] => told'[l] = firing.now
      /\ \A m \in Logins : m # l => told'[m] = told[m]
  BY <1>1, <1>3, <1>4
<1>6. AccountTypes'
  BY <1>1, <1>5 DEF AccountInv, AccountTypes, Changes
<1>7. ASSUME NEW m \in Logins, m # l PROVE Settled(m)'
  <2>1. firing \notin Changes(m) /\ firing' \notin Changes(m)
    BY <1>1, <1>2, <1>7, StatusKind
  <2>2. Keeps(Changes(m)) /\ Settled(m)
    BY <1>1 DEF Keeps, AccountInv
  <2>3. ~silent'[m] => ~silent[m]
    BY <1>1
  <2> QED BY <1>1, <1>5, <1>7, <2>1, <2>2, <2>3, SettledStays
<1>8. Settled(l)'
  <2>1. firing' \notin Changes(l)
    BY <1>1, StatusKind
  <2> SUFFICES ASSUME ~silent[l] PROVE Settled(l)'
    BY <1>1 DEF Settled
  <2>2. Settled(l)
    BY DEF AccountInv
  <2>3. CASE \E c \in Changes(l) : c.now = loggedIn[l] /\ LastOf(Line, Changes(l), c)
    BY <1>1, <2>3 DEF Settled, Changes
  <2>4. CASE NoneComing(l) /\ firing \in Changes(l) /\ firing.now = loggedIn[l]
    <3>1. NoneComing(l)' /\ (watching'[l] => told'[l] = loggedIn'[l])
      BY <1>1, <1>5, <2>4 DEF NoneComing, Changes
    <3> QED BY <2>1, <3>1 DEF Settled, Changes
  <2> QED BY <1>2, <2>2, <2>3, <2>4 DEF Settled
<1> QED BY <1>6, <1>7, <1>8 DEF AccountInv

\* A new platform, or none: nobody is logged in, and nobody watches.
LEMMA NewAccountsIInv ==
  ASSUME AccountInv, NewAccounts, Line' = <<>>
  PROVE  AccountInv'
<1>1. AccountTypes'
  BY DEF NewAccounts, AccountTypes
<1>2. \A l \in Logins : NoneComing(l)'
  BY DEF NoneComing, ToSet, Changes
<1>3. ASSUME NEW l \in Logins PROVE Settled(l)'
  <2>1. firing' \notin Changes(l)
    BY StatusKind DEF NewAccounts
  <2>2. told'[l] = loggedIn'[l]
    BY DEF NewAccounts
  <2> QED BY <1>2, <2>1, <2>2 DEF Settled, Changes
<1> QED BY <1>1, <1>3 DEF AccountInv

\* What StatusTold says of the places of the line.
LEMMA SettledIsTold ==
  ASSUME AccountInv
  PROVE  AccountsTypeOK /\ StatusTold
<1>1. AccountsTypeOK
  BY DEF AccountInv, AccountTypes, AccountsTypeOK, Changes
<1>2. ASSUME NEW l \in Logins, watching[l], ~silent[l] PROVE WillBeTold(l, loggedIn[l])
  <2>1. Settled(l)
    BY DEF AccountInv
  <2>2. CASE \E c \in Changes(l) : c.now = loggedIn[l] /\ LastOf(Line, Changes(l), c)
    <3>1. PICK c \in Changes(l) : c.now = loggedIn[l] /\ LastOf(Line, Changes(l), c)
      BY <2>2
    <3>2. PICK i \in DOMAIN Line : Line[i] = c /\ \A j \in DOMAIN Line : Line[j] \in Changes(l) => j <= i
      BY <3>1 DEF LastOf
    <3> QED BY <3>1, <3>2 DEF WillBeTold, Coming
  <2>3. NoneComing(l) => Coming(l) = {}
    BY DEF NoneComing, Coming, ToSet
  <2> QED BY <1>2, <2>1, <2>2, <2>3 DEF Settled, WillBeTold, Owed
<1> QED BY <1>1, <1>2 DEF StatusTold
---------------------------------------------------------------------------
(* The catalog.                                                            *)

ModInfos == [id : Mods \cup ConfigMods, installed : BOOLEAN]

\* Each item has one entry.
OneEach(list) == \A i, j \in DOMAIN list : list[i].id = list[j].id => i = j

CatalogInv ==
  /\ redeemed \subseteq Entitlements /\ ToSet(lastRedeemed) \subseteq redeemed
  /\ modList \in Seq(ModInfos) /\ OneEach(modList)
  /\ enumerated \subseteq {"installed", "all"} /\ reports \in 0..MaxReports

\* The list of the configuration has each item once, too.
LEMMA LoadedModsOnce ==
  ASSUME CatalogInv
  PROVE  LoadedMods \in Seq(ModInfos) /\ OneEach(LoadedMods)
<1> DEFINE ids == SetToSeq(ConfigMods)
           fresh == [i \in 1..Cardinality(ConfigMods) |-> [id |-> ids[i], installed |-> TRUE]]
<1>1. /\ ids \in Seq(ConfigMods) /\ DOMAIN ids = 1..Cardinality(ConfigMods)
      /\ IsInjective(ids) /\ Cardinality(ConfigMods) \in Nat
  BY CatalogAssumption, ListOfSet DEF CatalogAssumption
<1>2. LoadedMods = IF modsLoaded THEN modList ELSE fresh
  BY DEF LoadedMods
<1> HIDE DEF ids
<1>3. \A i \in 1..Cardinality(ConfigMods) : ids[i] \in ConfigMods
  BY <1>1, LenProperties, ElementOfSeq
<1>4. fresh \in [1..Cardinality(ConfigMods) -> ModInfos]
  <2> SUFFICES ASSUME NEW i \in 1..Cardinality(ConfigMods)
               PROVE  [id |-> ids[i], installed |-> TRUE] \in ModInfos
    OBVIOUS
  <2> QED BY <1>3 DEF ModInfos
<1>5. OneEach(fresh)
  BY <1>1 DEF OneEach, IsInjective
<1> HIDE DEF fresh
<1>6. fresh \in Seq(ModInfos)
  BY <1>1, <1>4, SeqDef
<1> QED BY <1>2, <1>5, <1>6 DEF CatalogInv

\* Redeem lists what was asked for and is there to be redeemed.
LEMMA RedeemedLast ==
  ASSUME NEW ids \in Seq(Entitlements)
  PROVE  ToSet(Picked(ids, {i \in DOMAIN ids : ids[i] \in Entitlements}))
           \subseteq ToSet(ids) \cap Entitlements
<1> DEFINE I == {i \in DOMAIN ids : ids[i] \in Entitlements}
<1>1. Len(ids) \in Nat /\ DOMAIN ids = 1..Len(ids)
  BY LenProperties
<1>2. I \in SUBSET (1..Len(ids))
  BY <1>1
<1>3. \A i \in I : ids[i] \in ToSet(ids) \cap Entitlements
  BY DEF ToSet
<1> HIDE DEF I
<1>4. \A k \in 1..Cardinality(I) : Place(I, k) \in I
  BY <1>1, <1>2, PlaceExists
<1>5. DOMAIN Picked(ids, I) = 1..Cardinality(I)
      /\ \A k \in 1..Cardinality(I) : Picked(ids, I)[k] = ids[Place(I, k)]
  BY DEF Picked
<1>6. ToSet(Picked(ids, I)) \subseteq ToSet(ids) \cap Entitlements
  BY <1>3, <1>4, <1>5 DEF ToSet
<1> QED BY <1>6 DEF I

\* RedeemEntitlements: the redeemed entitlements grow by those that are listed.
LEMMA RedeemEntitlementsIInv ==
  ASSUME CatalogInv, NEW ids \in Seq(Entitlements), RedeemEntitlements(ids)
  PROVE  CatalogInv'
<1>1. /\ redeemed' = redeemed \cup (ToSet(ids) \cap Entitlements)
      /\ lastRedeemed' = Picked(ids, {i \in DOMAIN ids : ids[i] \in Entitlements})
      /\ UNCHANGED <<modList, enumerated, reports>>
  BY DEF RedeemEntitlements, Redeem
<1>2. ToSet(lastRedeemed') \subseteq redeemed'
  BY <1>1, RedeemedLast
<1> QED BY <1>1, <1>2 DEF CatalogInv, OneEach

\* A mod that is listed keeps its place, another is added behind.
LEMMA ModCallsIInv ==
  ASSUME CatalogInv, NEW m \in Mods, InstallMod(m) \/ UninstallMod(m) \/ UpdateMod(m)
  PROVE  CatalogInv'
<1> DEFINE list == LoadedMods
<1>1. list \in Seq(ModInfos) /\ OneEach(list)
  BY LoadedModsOnce
<1>2. UNCHANGED <<redeemed, lastRedeemed, enumerated, reports>>
  BY DEF InstallMod, UninstallMod, UpdateMod
<1>3. Exists(m) <=> \E i \in DOMAIN list : list[i].id = m
  BY DEF Exists
<1>4. InstallMod(m) => modList' = IF Exists(m)
             THEN [i \in DOMAIN list |->
                    IF list[i].id = m THEN [list[i] EXCEPT !.installed = TRUE] ELSE list[i]]
             ELSE Append(list, [id |-> m, installed |-> TRUE])
  BY DEF InstallMod, Install
<1>5. UninstallMod(m) => modList' = [i \in DOMAIN list |->
    IF list[i].id = m THEN [list[i] EXCEPT !.installed = FALSE] ELSE list[i]]
  BY DEF UninstallMod, Uninstall
<1>6. UpdateMod(m) => modList' = list
  BY DEF UpdateMod
<1> HIDE DEF list
<1>7. Len(list) \in Nat /\ DOMAIN list = 1..Len(list) /\ \A i \in 1..Len(list) : list[i] \in ModInfos
  BY <1>1, LenProperties, ElementOfSeq
<1>8. ASSUME NEW b \in BOOLEAN,
             modList' = [i \in DOMAIN list |->
               IF list[i].id = m THEN [list[i] EXCEPT !.installed = b] ELSE list[i]]
      PROVE  modList' \in Seq(ModInfos) /\ OneEach(modList')
  <2>1. \A x \in ModInfos : [x EXCEPT !.installed = b] \in ModInfos
                            /\ [x EXCEPT !.installed = b].id = x.id
    BY DEF ModInfos
  <2>2. /\ modList' \in [1..Len(list) -> ModInfos]
        /\ \A i \in 1..Len(list) : modList'[i].id = list[i].id
    BY <1>7, <1>8, <2>1
  <2>3. modList' \in Seq(ModInfos)
    BY <1>7, <2>2, SeqDef
  <2>4. OneEach(modList')
    BY <1>1, <1>7, <2>2 DEF OneEach
  <2> QED BY <2>3, <2>4
<1>9. ASSUME ~Exists(m), modList' = Append(list, [id |-> m, installed |-> TRUE])
      PROVE  modList' \in Seq(ModInfos) /\ OneEach(modList')
  <2> DEFINE x == [id |-> m, installed |-> TRUE]
  <2>1. x \in ModInfos /\ x.id = m
    BY DEF ModInfos
  <2>2. modList' = Append(list, x)
    BY <1>9
  <2> HIDE DEF x
  <2>3. /\ modList' \in Seq(ModInfos) /\ DOMAIN modList' = 1..Len(list) + 1
        /\ \A i \in 1..Len(list) : modList'[i] = list[i]
        /\ modList'[Len(list) + 1] = x
    BY <1>1, <1>7, <2>1, <2>2, AppendProperties, LenProperties
  <2>4. ASSUME NEW i \in 1..Len(list) + 1, NEW j \in 1..Len(list) + 1,
               modList'[i].id = modList'[j].id
        PROVE  i = j
    <3>1. \A k \in 1..Len(list) : list[k].id # m
      BY <1>3, <1>7, <1>9
    <3>2. CASE i \in 1..Len(list) /\ j \in 1..Len(list)
      BY <1>1, <1>7, <2>3, <2>4, <3>2 DEF OneEach
    <3>3. CASE i = Len(list) + 1 \/ j = Len(list) + 1
      BY <1>7, <2>1, <2>3, <2>4, <3>1, <3>3
    <3> QED BY <1>7, <3>2, <3>3
  <2> QED BY <2>3, <2>4 DEF OneEach
<1>10. modList' \in Seq(ModInfos) /\ OneEach(modList')
  BY <1>1, <1>4, <1>5, <1>6, <1>8, <1>9
<1> QED BY <1>2, <1>10 DEF CatalogInv, OneEach

\* The calls of Ecom, Mods, Sanctions and Reports.
LEMMA CatalogCallsIInv ==
  ASSUME CatalogInv, CatalogCalls
  PROVE  CatalogInv'
<1>1. UNCHANGED catalogVars => CatalogInv'
  BY DEF catalogVars, CatalogInv, OneEach
<1>2. CASE QueryOwnership \/ QueryActivePlayerSanctions
  BY <1>1, <1>2 DEF QueryOwnership, QueryActivePlayerSanctions
<1>3. ASSUME NEW ids \in {<<>>} \cup {<<e, e>> : e \in Entitlements}, RedeemEntitlements(ids)
      PROVE  CatalogInv'
  <2>1. \A e \in Entitlements : <<e, e>> \in Seq(Entitlements)
    OBVIOUS
  <2>2. <<>> \in Seq(Entitlements)
    BY EmptySeq
  <2>3. ids \in Seq(Entitlements)
    BY <2>1, <2>2
  <2> QED BY <1>3, <2>3, RedeemEntitlementsIInv
<1>4. ASSUME NEW type \in {"installed", "all"}, EnumerateMods(type) PROVE CatalogInv'
  BY <1>4 DEF EnumerateMods, CatalogInv, OneEach
<1>5. ASSUME NEW accepted, NEW cacheDirectory, SendPlayerBehaviorReport(accepted, cacheDirectory)
      PROVE  CatalogInv'
  <2>1. reports \in 0..MaxReports /\ MaxReports \in Nat
    BY CatalogAssumption DEF CatalogAssumption, CatalogInv
  <2>2. reports' \in 0..MaxReports
    BY <1>5, <2>1 DEF SendPlayerBehaviorReport
  <2> QED BY <1>5, <2>2 DEF SendPlayerBehaviorReport, CatalogInv, OneEach
<1> QED BY <1>2, <1>3, <1>4, <1>5, ModCallsIInv DEF CatalogCalls

\* A new platform starts with what the configuration lists.
LEMMA NewCatalogIInv ==
  ASSUME CatalogInv, NewCatalog
  PROVE  CatalogInv'
<1>1. <<>> \in Seq(ModInfos) /\ ToSet(<<>>) = {} /\ OneEach(<<>>)
  BY EmptySeq DEF ToSet, OneEach
<1> QED BY <1>1 DEF NewCatalog, CatalogInv, OneEach
---------------------------------------------------------------------------
(* The memory.                                                             *)

Pieces == [base : Nat, at : Int, size : Nat, align : Nat]
Blocks == [base : Nat, at : Int, size : Nat, align : Nat, attached : Seq(Pieces)]

\* Fits, in a heap h; and a block does with all that hangs from it.
FitsIn(h, piece, head) ==
  /\ piece.base \in DOMAIN h
  /\ piece.base + head <= piece.at
  /\ piece.at + piece.size <= piece.base + h[piece.base]
  /\ piece.align > 0 => piece.at % piece.align = 0

BlockFits(h, block) ==
  /\ FitsIn(h, block, HeaderSize)
  /\ \A j \in DOMAIN block.attached : FitsIn(h, block.attached[j], NodeSize)

\* Allocations are not empty, and each belongs to one block.
MemoryInv ==
  /\ \A b \in DOMAIN heap : b \in Nat /\ heap[b] \in Nat \ {0}
  /\ blocks \in Seq(Blocks)
  /\ \A i \in DOMAIN blocks : BlockFits(heap, blocks[i])
  /\ \A b : b \in DOMAIN heap <=> \E i \in DOMAIN blocks : b \in Bases(blocks[i])
  /\ \A i, j \in DOMAIN blocks : i # j => Bases(blocks[i]) \cap Bases(blocks[j]) = {}

\* A multiple of a number leaves no rest,
LEMMA Multiple ==
  ASSUME NEW a \in Nat \ {0}, NEW q \in Int
  PROVE  (a * q) % a = 0
OBVIOUS

\* nor does a multiple of a multiple.
LEMMA MultipleOfMultiple ==
  ASSUME NEW a \in Nat \ {0}, NEW b \in Nat \ {0}, NEW x \in Int, x % a = 0, a % b = 0
  PROVE  x % b = 0
<1>1. x = a * (x \div a) + (x % a) /\ x \div a \in Int
  OBVIOUS
<1>2. a = b * (a \div b) + (a % b) /\ a \div b \in Int
  OBVIOUS
<1> DEFINE q == x \div a
           p == a \div b
<1>3. x = a * q /\ a = b * p /\ q \in Int /\ p \in Int
  BY <1>1, <1>2
<1> HIDE DEF q, p
<1>4. x = b * (p * q) /\ p * q \in Int
  BY <1>3
<1> QED BY <1>4, Multiple

\* AlignUp returns an aligned address that is not lower, by less than alignment.
LEMMA AlignUpAligns ==
  ASSUME NEW address \in Nat, NEW a \in Nat \ {0}
  PROVE  /\ AlignUp(address, a) \in Int /\ AlignUp(address, a) % a = 0
         /\ address <= AlignUp(address, a) /\ AlignUp(address, a) <= address + a - 1
<1> DEFINE past == address + a - 1
<1>1. past \in Int /\ AlignUp(address, a) = past - (past % a)
  BY DEF AlignUp
<1>2. past % a \in 0..a - 1 /\ (past - (past % a)) % a = 0
  <2> HIDE DEF past
  <2>1. past = a * (past \div a) + (past % a) /\ past % a \in 0..a - 1 /\ past \div a \in Int
    BY <1>1
  <2> DEFINE q == past \div a
  <2>2. past - (past % a) = a * q /\ q \in Int
    BY <1>1, <2>1
  <2> HIDE DEF q
  <2> QED BY <2>1, <2>2, Multiple
<1> QED BY <1>1, <1>2

\* The alignment that is used is one that fulfils what was asked for.
LEMMA Aligned ==
  ASSUME NEW alignment \in Alignments
  PROVE  /\ RoundUpPow2(alignment) \in Nat \ {0} /\ alignment \in Nat
         /\ \A x \in Int : alignment > 0 /\ x % RoundUpPow2(alignment) = 0 => x % alignment = 0
<1>1. /\ MaxAlign \in Nat \ {0} /\ alignment \in Nat
      /\ alignment > 0 /\ alignment < MaxAlign => MaxAlign % alignment = 0
  BY MemoryAssumption DEF MemoryAssumption
<1>2. RoundUpPow2(alignment) \in Nat \ {0}
  BY <1>1 DEF RoundUpPow2
<1>3. ASSUME NEW x \in Int, alignment > 0, x % RoundUpPow2(alignment) = 0
      PROVE  x % alignment = 0
  <2>1. CASE alignment < MaxAlign
    <3>1. x % MaxAlign = 0 /\ MaxAlign % alignment = 0 /\ alignment \in Nat \ {0}
      BY <1>1, <1>3, <2>1 DEF RoundUpPow2
    <3> QED BY <1>1, <3>1, MultipleOfMultiple
  <2>2. CASE ~(alignment < MaxAlign)
    BY <1>3, <2>2 DEF RoundUpPow2
  <2> QED BY <2>1, <2>2
<1> QED BY <1>1, <1>2, <1>3

\* What is allocated for a struct and the head in front of it holds both.
LEMMA NewPieceFits ==
  ASSUME MemoryInv, NEW head \in Nat, NEW size \in Sizes, NEW alignment \in Alignments,
         NEW bytes, bytes = Prefix(head, RoundUpPow2(alignment)) + size,
         NEW base \in Alloc(bytes), NEW at, at = AlignUp(base + head, RoundUpPow2(alignment)),
         NEW piece, piece.base = base, piece.at = at, piece.size = size, piece.align = alignment
  PROVE  /\ base \in Nat /\ base \notin DOMAIN heap /\ bytes \in Nat \ {0}
         /\ at \in Int /\ size \in Nat /\ alignment \in Nat
         /\ FitsIn(With(heap, base, bytes), piece, head)
<1> DEFINE a == RoundUpPow2(alignment)
<1>1. /\ a \in Nat \ {0} /\ alignment \in Nat
      /\ \A x \in Int : alignment > 0 /\ x % a = 0 => x % alignment = 0
  BY Aligned
<1>2. MaxAlign \in Nat \ {0} /\ size \in Nat /\ MaxUnits \in Nat
  BY MemoryAssumption DEF MemoryAssumption
<1>3. bytes = head + a + size /\ at = AlignUp(base + head, a)
  BY DEF Prefix
<1> HIDE DEF a
<1>4. PICK k \in 1..MaxUnits : base = MaxAlign * k
  BY DEF Alloc
<1>5. base \in Nat
  BY <1>2, <1>4
<1>6. bytes \in Nat \ {0}
  BY <1>1, <1>2, <1>3
<1>7. base \notin DOMAIN heap
  <2> SUFFICES ASSUME base \in DOMAIN heap PROVE FALSE
    OBVIOUS
  <2>1. base + bytes <= base \/ base + heap[base] <= base
    BY DEF Alloc
  <2>2. heap[base] \in Nat \ {0}
    BY DEF MemoryInv
  <2> QED BY <1>5, <1>6, <2>1, <2>2
<1>8. base + head \in Nat
  BY <1>5
<1>9. at \in Int /\ at % a = 0 /\ base + head <= at /\ at <= base + head + a - 1
  BY <1>1, <1>3, <1>8, AlignUpAligns
<1>10. at + size <= base + bytes
  BY <1>1, <1>2, <1>3, <1>5, <1>9
<1>11. base \in DOMAIN With(heap, base, bytes) /\ With(heap, base, bytes)[base] = bytes
  BY DEF With
<1>12. alignment > 0 => at % alignment = 0
  BY <1>1, <1>9
<1> QED BY <1>1, <1>2, <1>5, <1>6, <1>7, <1>9, <1>10, <1>11, <1>12 DEF FitsIn

\* A block stays where its allocations do.
LEMMA BlockStays ==
  ASSUME NEW h, NEW g, NEW block, BlockFits(h, block),
         \A b \in Bases(block) : b \in DOMAIN g /\ g[b] = h[b]
  PROVE  BlockFits(g, block)
<1>1. block.base \in Bases(block) /\ \A j \in DOMAIN block.attached : block.attached[j].base \in Bases(block)
  BY DEF Bases
<1> QED BY <1>1 DEF BlockFits, FitsIn
\* AllocApiBlock: the new block is the only one at its base.
LEMMA AllocApiBlockIInv ==
  ASSUME MemoryInv, NEW size \in Sizes, NEW alignment \in Alignments,
         AllocApiBlock(size, alignment)
  PROVE  MemoryInv'
<1> DEFINE a == RoundUpPow2(alignment)
           bytes == Prefix(HeaderSize, a) + size
<1>1. PICK base \in Alloc(bytes) :
        /\ heap' = With(heap, base, bytes)
        /\ blocks' = Append(blocks,
             [base |-> base, at |-> AlignUp(base + HeaderSize, a), size |-> size,
              align |-> alignment, attached |-> <<>>])
  BY DEF AllocApiBlock
<1> DEFINE at == AlignUp(base + HeaderSize, a)
           new == [base |-> base, at |-> at, size |-> size, align |-> alignment,
                   attached |-> <<>>]
<1>2. HeaderSize \in Nat
  BY MemoryAssumption DEF MemoryAssumption
<1>3. /\ bytes = Prefix(HeaderSize, RoundUpPow2(alignment)) + size
      /\ at = AlignUp(base + HeaderSize, RoundUpPow2(alignment))
      /\ new.base = base /\ new.at = at /\ new.size = size /\ new.align = alignment
      /\ new.attached = <<>>
      /\ new = [base |-> base, at |-> at, size |-> size, align |-> alignment, attached |-> <<>>]
  OBVIOUS
<1>4. blocks' = Append(blocks, new)
  BY <1>1
<1> HIDE DEF a, bytes, at, new
<1>5. /\ base \in Nat /\ base \notin DOMAIN heap /\ bytes \in Nat \ {0}
      /\ at \in Int /\ size \in Nat /\ alignment \in Nat
      /\ FitsIn(heap', new, HeaderSize)
  BY <1>1, <1>2, <1>3, NewPieceFits
<1>6. /\ DOMAIN heap' = DOMAIN heap \cup {base}
      /\ \A b \in DOMAIN heap : heap'[b] = heap[b]
      /\ \A b \in DOMAIN heap' : b \in Nat /\ heap'[b] \in Nat \ {0}
  BY <1>1, <1>5 DEF With, MemoryInv
<1>7. new \in Blocks
  <2>1. <<>> \in Seq(Pieces)
    BY EmptySeq
  <2> QED BY <1>3, <1>5, <2>1 DEF Blocks
<1>8. blocks \in Seq(Blocks)
  BY DEF MemoryInv
<1>9. /\ Len(blocks) \in Nat /\ DOMAIN blocks = 1..Len(blocks)
      /\ blocks' \in Seq(Blocks) /\ DOMAIN blocks' = 1..Len(blocks) + 1
      /\ \A i \in 1..Len(blocks) : blocks'[i] = blocks[i]
      /\ blocks'[Len(blocks) + 1] = new
  BY <1>4, <1>7, <1>8, AppendProperties, LenProperties
<1>10. Bases(new) = {base}
  BY <1>3 DEF Bases
<1>11. \A i \in 1..Len(blocks) : \A b \in Bases(blocks[i]) : b \in DOMAIN heap /\ b # base
  BY <1>5, <1>9 DEF MemoryInv
<1>12. ASSUME NEW i \in 1..Len(blocks) PROVE BlockFits(heap', blocks[i])
  <2>1. BlockFits(heap, blocks[i])
    BY <1>9 DEF MemoryInv
  <2>2. \A b \in Bases(blocks[i]) : b \in DOMAIN heap' /\ heap'[b] = heap[b]
    BY <1>6, <1>11
  <2> QED BY <2>1, <2>2, BlockStays
<1>13. BlockFits(heap', new)
  BY <1>3, <1>5 DEF BlockFits
<1>14. \A i \in DOMAIN blocks' : i \in 1..Len(blocks) \/ i = Len(blocks) + 1
  BY <1>9
<1>15. \A i \in DOMAIN blocks' : BlockFits(heap', blocks'[i])
  BY <1>9, <1>12, <1>13, <1>14
<1>16. ASSUME NEW b
       PROVE  b \in DOMAIN heap' <=> \E i \in DOMAIN blocks' : b \in Bases(blocks'[i])
  <2>1. (\E i \in DOMAIN blocks' : b \in Bases(blocks'[i]))
          <=> (b \in Bases(new) \/ \E i \in 1..Len(blocks) : b \in Bases(blocks[i]))
    <3>1. Len(blocks) + 1 \in DOMAIN blocks' /\ 1..Len(blocks) \subseteq DOMAIN blocks'
      BY <1>9
    <3> QED BY <1>9, <1>14, <3>1
  <2>2. b \in DOMAIN heap <=> \E i \in 1..Len(blocks) : b \in Bases(blocks[i])
    BY <1>9 DEF MemoryInv
  <2> QED BY <1>6, <1>10, <2>1, <2>2
<1>17. ASSUME NEW i \in DOMAIN blocks', NEW j \in DOMAIN blocks', i # j
       PROVE  Bases(blocks'[i]) \cap Bases(blocks'[j]) = {}
  <2>1. CASE i \in 1..Len(blocks) /\ j \in 1..Len(blocks)
    BY <1>9, <1>17, <2>1 DEF MemoryInv
  <2>2. CASE i = Len(blocks) + 1 /\ j \in 1..Len(blocks)
    BY <1>9, <1>10, <1>11, <2>2
  <2>3. CASE j = Len(blocks) + 1 /\ i \in 1..Len(blocks)
    BY <1>9, <1>10, <1>11, <2>3
  <2> QED BY <1>14, <1>17, <2>1, <2>2, <2>3
<1> QED BY <1>6, <1>9, <1>15, <1>16, <1>17 DEF MemoryInv

\* AttachBytes: the new piece hangs in front of the chain of one block.
LEMMA AttachBytesIInv ==
  ASSUME MemoryInv, NEW i \in 1..MaxBlocks, NEW size \in Sizes, NEW alignment \in Alignments,
         AttachBytes(i, size, alignment)
  PROVE  MemoryInv'
<1> DEFINE a == RoundUpPow2(alignment)
           bytes == Prefix(NodeSize, a) + size
<1>1. i \in DOMAIN blocks
  BY DEF AttachBytes
<1>2. PICK base \in Alloc(bytes) :
        /\ heap' = With(heap, base, bytes)
        /\ blocks' = [blocks EXCEPT ![i].attached =
             <<[base |-> base, at |-> AlignUp(base + NodeSize, a), size |-> size,
                align |-> alignment]>> \o blocks[i].attached]
  BY DEF AttachBytes
<1> DEFINE at == AlignUp(base + NodeSize, a)
           new == [base |-> base, at |-> at, size |-> size, align |-> alignment]
           chain == <<new>> \o blocks[i].attached
           grown == [blocks[i] EXCEPT !.attached = chain]
<1>3. NodeSize \in Nat
  BY MemoryAssumption DEF MemoryAssumption
<1>4. /\ bytes = Prefix(NodeSize, RoundUpPow2(alignment)) + size
      /\ at = AlignUp(base + NodeSize, RoundUpPow2(alignment))
      /\ new.base = base /\ new.at = at /\ new.size = size /\ new.align = alignment
  OBVIOUS
<1>5. blocks' = [blocks EXCEPT ![i] = grown]
  BY <1>2
<1>6. new = [base |-> base, at |-> at, size |-> size, align |-> alignment]
  OBVIOUS
<1> HIDE DEF a, bytes, at, new
<1>7. /\ base \in Nat /\ base \notin DOMAIN heap /\ bytes \in Nat \ {0}
      /\ at \in Int /\ size \in Nat /\ alignment \in Nat
      /\ FitsIn(heap', new, NodeSize)
  BY <1>2, <1>3, <1>4, NewPieceFits
<1>8. /\ DOMAIN heap' = DOMAIN heap \cup {base}
      /\ \A b \in DOMAIN heap : heap'[b] = heap[b]
      /\ \A b \in DOMAIN heap' : b \in Nat /\ heap'[b] \in Nat \ {0}
  BY <1>2, <1>7 DEF With, MemoryInv
<1>9. /\ blocks \in Seq(Blocks) /\ Len(blocks) \in Nat /\ DOMAIN blocks = 1..Len(blocks)
      /\ blocks[i] \in Blocks
  BY <1>1, LenProperties, ElementOfSeq DEF MemoryInv
<1>10. new \in Pieces /\ blocks[i].attached \in Seq(Pieces)
  BY <1>6, <1>7, <1>9 DEF Pieces, Blocks
<1>11. <<new>> \in Seq(Pieces) /\ Len(<<new>>) = 1 /\ <<new>>[1] = new
  BY <1>10
<1>12. chain \in Seq(Pieces) /\ ToSet(chain) = {new} \cup ToSet(blocks[i].attached)
  <2> DEFINE one == <<new>>
             old == blocks[i].attached
  <2>1. one \in Seq(Pieces) /\ DOMAIN one = {1} /\ one[1] = new /\ old \in Seq(Pieces)
    BY <1>10, <1>11
  <2>2. chain = one \o old
    OBVIOUS
  <2> HIDE DEF one, old, chain
  <2>3. ToSet(one) = {new}
    BY <2>1 DEF ToSet
  <2>4. chain \in Seq(Pieces) /\ ToSet(chain) = ToSet(one) \cup ToSet(old)
    BY <2>1, <2>2, ConcatRoster
  <2> QED BY <2>3, <2>4 DEF old
<1> HIDE DEF chain
<1>13. /\ grown \in Blocks /\ grown.attached = chain
       /\ grown.base = blocks[i].base /\ grown.at = blocks[i].at
       /\ grown.size = blocks[i].size /\ grown.align = blocks[i].align
  BY <1>9, <1>12 DEF Blocks
<1> HIDE DEF grown
<1>14. /\ blocks' \in Seq(Blocks) /\ DOMAIN blocks' = DOMAIN blocks
       /\ blocks'[i] = grown /\ \A j \in DOMAIN blocks : j # i => blocks'[j] = blocks[j]
  <2>1. DOMAIN blocks' = DOMAIN blocks /\ blocks'[i] = grown
        /\ \A j \in DOMAIN blocks : j # i => blocks'[j] = blocks[j]
    BY <1>1, <1>5
  <2>2. blocks' \in Seq(Blocks)
    BY <1>1, <1>5, <1>9, <1>13, ExceptSeq
  <2> QED BY <2>1, <2>2
<1>15. Bases(grown) = Bases(blocks[i]) \cup {base}
  <2>1. \A p \in Seq(Pieces) : {p[j].base : j \in DOMAIN p} = {x.base : x \in ToSet(p)}
    BY DEF ToSet
  <2>2. {chain[j].base : j \in DOMAIN chain} = {x.base : x \in {new} \cup ToSet(blocks[i].attached)}
    BY <1>12, <2>1
  <2>3. {blocks[i].attached[j].base : j \in DOMAIN blocks[i].attached}
          = {x.base : x \in ToSet(blocks[i].attached)}
    BY <1>10, <2>1
  <2>4. Bases(grown) = {blocks[i].base} \cup {chain[j].base : j \in DOMAIN chain}
    BY <1>13 DEF Bases
  <2>5. Bases(blocks[i]) = {blocks[i].base} \cup {x.base : x \in ToSet(blocks[i].attached)}
    BY <2>3 DEF Bases
  <2> QED BY <1>4, <2>2, <2>4, <2>5
<1>16. \A j \in DOMAIN blocks : \A b \in Bases(blocks[j]) : b \in DOMAIN heap /\ b # base
  BY <1>7 DEF MemoryInv
<1>17. ASSUME NEW j \in DOMAIN blocks PROVE BlockFits(heap', blocks[j])
  <2>1. BlockFits(heap, blocks[j])
    BY DEF MemoryInv
  <2>2. \A b \in Bases(blocks[j]) : b \in DOMAIN heap' /\ heap'[b] = heap[b]
    BY <1>8, <1>16
  <2> QED BY <2>1, <2>2, BlockStays
<1>18. BlockFits(heap', grown)
  <2>1. FitsIn(heap', blocks[i], HeaderSize)
        /\ \A x \in ToSet(blocks[i].attached) : FitsIn(heap', x, NodeSize)
    BY <1>1, <1>17 DEF BlockFits, ToSet
  <2>2. FitsIn(heap', grown, HeaderSize)
    BY <1>13, <2>1 DEF FitsIn
  <2>3. \A j \in DOMAIN chain : chain[j] \in {new} \cup ToSet(blocks[i].attached)
    BY <1>12 DEF ToSet
  <2> QED BY <1>7, <1>13, <2>1, <2>2, <2>3 DEF BlockFits
<1>19. \A j \in DOMAIN blocks' : BlockFits(heap', blocks'[j])
  BY <1>14, <1>17, <1>18
<1>20. ASSUME NEW b
       PROVE  b \in DOMAIN heap' <=> \E j \in DOMAIN blocks' : b \in Bases(blocks'[j])
  <2>1. b \in DOMAIN heap <=> \E j \in DOMAIN blocks : b \in Bases(blocks[j])
    BY DEF MemoryInv
  <2>2. \A j \in DOMAIN blocks : b \in Bases(blocks'[j]) <=> b \in Bases(blocks[j]) \/ (j = i /\ b = base)
    BY <1>14, <1>15
  <2> QED BY <1>1, <1>8, <1>14, <2>1, <2>2
<1>21. ASSUME NEW j \in DOMAIN blocks', NEW k \in DOMAIN blocks', j # k
       PROVE  Bases(blocks'[j]) \cap Bases(blocks'[k]) = {}
  <2>1. Bases(blocks[j]) \cap Bases(blocks[k]) = {}
    BY <1>14, <1>21 DEF MemoryInv
  <2>2. CASE j = i
    BY <1>14, <1>15, <1>16, <1>21, <2>1, <2>2
  <2>3. CASE k = i
    BY <1>14, <1>15, <1>16, <1>21, <2>1, <2>3
  <2>4. CASE j # i /\ k # i
    BY <1>14, <2>1, <2>4
  <2> QED BY <2>2, <2>3, <2>4
<1> QED BY <1>8, <1>14, <1>19, <1>20, <1>21 DEF MemoryInv

\* Release frees what belongs to the block and nothing else.
LEMMA FreeApiBlockIInv ==
  ASSUME MemoryInv, NEW i \in 1..MaxBlocks, FreeApiBlock(i)
  PROVE  MemoryInv'
<1>1. /\ i \in DOMAIN blocks /\ blocks' = RemoveAt(blocks, i)
      /\ heap' = [b \in DOMAIN heap \ Bases(blocks[i]) |-> heap[b]]
      /\ blocks \in Seq(Blocks)
  BY DEF FreeApiBlock, MemoryInv
<1>2. /\ Len(blocks) \in Nat /\ DOMAIN blocks = 1..Len(blocks)
      /\ blocks' \in Seq(Blocks) /\ DOMAIN blocks' = 1..Len(blocks) - 1
      /\ \A k \in 1..Len(blocks) - 1 : blocks'[k] = IF k < i THEN blocks[k] ELSE blocks[k + 1]
  BY <1>1, RemoveAtPlaces, LenProperties
<1> DEFINE place(k) == IF k < i THEN k ELSE k + 1
<1>3. \A k \in DOMAIN blocks' : place(k) \in DOMAIN blocks /\ place(k) # i
                                /\ blocks'[k] = blocks[place(k)]
  BY <1>1, <1>2
<1>4. \A j, k \in DOMAIN blocks' : j # k => place(j) # place(k)
  BY <1>1, <1>2
<1>5. \A j \in DOMAIN blocks : j # i => \E k \in DOMAIN blocks' : place(k) = j
  <2> SUFFICES ASSUME NEW j \in DOMAIN blocks, j # i PROVE \E k \in DOMAIN blocks' : place(k) = j
    OBVIOUS
  <2>1. CASE j < i
    <3>1. j \in DOMAIN blocks' /\ place(j) = j
      BY <1>1, <1>2, <2>1
    <3> QED BY <3>1
  <2>2. CASE j > i
    <3>1. j - 1 \in DOMAIN blocks' /\ place(j - 1) = j
      BY <1>1, <1>2, <2>2
    <3> QED BY <3>1
  <2> QED BY <1>1, <1>2, <2>1, <2>2
<1> HIDE DEF place
<1>6. /\ DOMAIN heap' = DOMAIN heap \ Bases(blocks[i])
      /\ \A b \in DOMAIN heap' : heap'[b] = heap[b]
  BY <1>1
<1>7. \A j \in DOMAIN blocks : j # i => Bases(blocks[j]) \cap Bases(blocks[i]) = {}
  BY <1>1 DEF MemoryInv
<1>8. \A b \in DOMAIN heap' : b \in Nat /\ heap'[b] \in Nat \ {0}
  BY <1>6 DEF MemoryInv
<1>9. ASSUME NEW k \in DOMAIN blocks' PROVE BlockFits(heap', blocks'[k])
  <2>1. BlockFits(heap, blocks'[k])
    BY <1>3 DEF MemoryInv
  <2>2. \A b \in Bases(blocks'[k]) : b \in DOMAIN heap /\ b \notin Bases(blocks[i])
    BY <1>3, <1>7 DEF MemoryInv
  <2>3. \A b \in Bases(blocks'[k]) : b \in DOMAIN heap' /\ heap'[b] = heap[b]
    BY <1>6, <2>2
  <2> QED BY <2>1, <2>3, BlockStays
<1>10. ASSUME NEW b
       PROVE  b \in DOMAIN heap' <=> \E k \in DOMAIN blocks' : b \in Bases(blocks'[k])
  <2>1. b \in DOMAIN heap <=> \E j \in DOMAIN blocks : b \in Bases(blocks[j])
    BY DEF MemoryInv
  <2>2. ASSUME b \in DOMAIN heap' PROVE \E k \in DOMAIN blocks' : b \in Bases(blocks'[k])
    <3>1. PICK j \in DOMAIN blocks : b \in Bases(blocks[j]) /\ j # i
      BY <1>6, <2>1, <2>2
    <3> QED BY <1>3, <1>5, <3>1
  <2>3. ASSUME NEW k \in DOMAIN blocks', b \in Bases(blocks'[k]) PROVE b \in DOMAIN heap'
    BY <1>3, <1>6, <1>7, <2>1, <2>3
  <2> QED BY <2>2, <2>3
<1>11. \A j, k \in DOMAIN blocks' : j # k => Bases(blocks'[j]) \cap Bases(blocks'[k]) = {}
  BY <1>3, <1>4 DEF MemoryInv
<1> QED BY <1>2, <1>8, <1>9, <1>10, <1>11 DEF MemoryInv

\* The calls of Memory.cpp.
LEMMA MemoryCallsIInv ==
  ASSUME MemoryInv, MemoryCalls
  PROVE  MemoryInv'
BY AllocApiBlockIInv, AttachBytesIInv, FreeApiBlockIInv DEF MemoryCalls

\* What BlocksStayInside says of the places of the list of blocks.
LEMMA BlocksFit ==
  ASSUME MemoryInv
  PROVE  BlocksStayInside
<1>1. DOMAIN heap = UNION {Bases(blocks[i]) : i \in DOMAIN blocks}
  <2>1. \A b : b \in DOMAIN heap <=> \E i \in DOMAIN blocks : b \in Bases(blocks[i])
    BY DEF MemoryInv
  <2>2. \A b : b \in UNION {Bases(blocks[i]) : i \in DOMAIN blocks}
                <=> \E i \in DOMAIN blocks : b \in Bases(blocks[i])
    OBVIOUS
  <2> QED BY <2>1, <2>2
<1>2. \A i \in DOMAIN blocks :
        /\ Fits(blocks[i], HeaderSize)
        /\ \A j \in DOMAIN blocks[i].attached : Fits(blocks[i].attached[j], NodeSize)
  BY DEF MemoryInv, BlockFits, FitsIn, Fits
<1> QED BY <1>1, <1>2 DEF BlocksStayInside
---------------------------------------------------------------------------
(* The specification.                                                      *)

IInv ==
  LifeInv /\ QueueInv /\ AccountInv /\ StoreInv /\ CatalogInv /\ MemoryInv

\* At first there is no platform, nobody is logged in, and nothing is allocated.
LEMMA InitIInv ==
  ASSUME Init
  PROVE  IInv
<1>1. LifeInv
  <2>1. 0 \in 0..MaxPlatforms /\ 0 \in 0..MaxCalls
    BY ServicesAssumption DEF ServicesAssumption
  <2> QED BY <2>1 DEF Init, LifeInv
<1>2. \A S : <<>> \in Seq(S)
  BY EmptySeq
<1>3. Line = <<>>
  BY <1>2, ConcatEmptySeq DEF Init, DispatcherInit, Line
<1>4. QueueInv
  BY <1>2, <1>3 DEF Init, DispatcherInit, AccountsInit, QueueInv, QueueOf
<1>5. AccountInv
  <2>1. AccountTypes
    BY DEF Init, AccountsInit, AccountTypes
  <2>2. \A l \in Logins : NoneComing(l) /\ firing \notin Changes(l) /\ told[l] = loggedIn[l]
    BY <1>3, StatusKind DEF Init, AccountsInit, NoneComing, ToSet
  <2> QED BY <2>1, <2>2 DEF AccountInv, Settled
<1>6. StoreInv
  <2>1. StoreTypes
    <3>1. 0 \in StatValues
      BY LocalStoresAssumption DEF LocalStoresAssumption, StatValues
    <3> QED BY <1>2, <3>1 DEF Init, StoresInit, StoreTypes, IsInjective
  <2>2. \A t \in Threads, a \in Achievements : unlocking[t] # <<a>>
    BY LocalStoresAssumption DEF LocalStoresAssumption, Init, StoresInit
  <2>3. \A o \in Observers, a \in Achievements : heardOf[o][a] = 0
    BY DEF Init, StoresInit
  <2>4. NewlyOnce /\ ToldOnce
    BY <1>3, <2>2, <2>3 DEF NewlyOnce, ToldOnce, Once, ToSet
  <2> QED BY <2>1, <2>4 DEF StoreInv
<1>7. CatalogInv
  <2>1. 0 \in 0..MaxReports
    BY CatalogAssumption DEF CatalogAssumption
  <2> QED BY <1>2, <2>1 DEF Init, CatalogInit, CatalogInv, OneEach, ToSet
<1>8. MemoryInv
  BY <1>2 DEF Init, MemoryInit, MemoryInv
<1> QED BY <1>1, <1>4, <1>5, <1>6, <1>7, <1>8 DEF IInv

\* The parts that a step leaves alone.
LEMMA AccountsUnchanged ==
  ASSUME AccountInv, UNCHANGED accountVars, firing # NoStatus => draining',
         \A l \in Logins : Keeps(Changes(l))
  PROVE  AccountInv'
<1>1. steamId \in {"none", "pinned", "module", "ticket"}
  BY DEF AccountInv, AccountTypes
<1>2. /\ UNCHANGED <<loggedIn, watching, told, silent, firing, provider>>
      /\ steamId' \in {"none", "pinned", "module", "ticket"}
  BY <1>1 DEF accountVars
<1> QED BY <1>2, AccountsStay

\* The same for the catalog,
LEMMA CatalogUnchanged ==
  ASSUME CatalogInv, UNCHANGED catalogVars
  PROVE  CatalogInv'
BY DEF CatalogInv, OneEach, catalogVars

\* and for the memory.
LEMMA MemoryUnchanged ==
  ASSUME MemoryInv, UNCHANGED memoryVars
  PROVE  MemoryInv'
<1>1. heap' = heap /\ blocks' = blocks
  BY DEF memoryVars
<1>2. \A i \in DOMAIN blocks' : BlockFits(heap', blocks'[i])
  BY <1>1 DEF MemoryInv
<1>3. \A b : b \in DOMAIN heap' <=> \E i \in DOMAIN blocks' : b \in Bases(blocks'[i])
  BY <1>1 DEF MemoryInv
<1>4. \A i, j \in DOMAIN blocks' : i # j => Bases(blocks'[i]) \cap Bases(blocks'[j]) = {}
  BY <1>1 DEF MemoryInv
<1>5. (\A b \in DOMAIN heap' : b \in Nat /\ heap'[b] \in Nat \ {0}) /\ blocks' \in Seq(Blocks)
  BY <1>1 DEF MemoryInv
<1> QED BY <1>2, <1>3, <1>4, <1>5 DEF MemoryInv

\* Posting keeps the queue; nothing joins it without a platform.
LEMMA PostsQueueInv ==
  ASSUME NEW CONSTANT S, S \subseteq Closures, QueueInv, Posts(S), UNCHANGED live,
         ~live => firing' = firing /\ Posts({})
  PROVE  QueueInv' /\ UNCHANGED draining
<1>1. QueueOf(Closures, 0)' /\ UNCHANGED <<delayed, draining>>
  BY PostsJoin
<1>2. ~live => Line' = <<>>
  <2> SUFFICES ASSUME ~live PROVE Line' = <<>>
    OBVIOUS
  <2>1. Joins({})
    BY PostsJoin
  <2>2. PICK works \in Seq({}) : Line' = Line \o works
    BY <2>1 DEF Joins
  <2>3. works = <<>>
    OBVIOUS
  <2>4. Line = <<>> /\ <<>> \o <<>> = <<>>
    BY ConcatEmptySeq, EmptySeq DEF QueueInv
  <2> QED BY <2>2, <2>3, <2>4
<1> QED BY <1>1, <1>2 DEF QueueInv

\* EOS_Platform_Create: the stores are seeded and the rest starts afresh.
LEMMA CreateIInv ==
  ASSUME IInv, EOS_Platform_Create
  PROVE  IInv'
<1>1. Line' = <<>> /\ UNCHANGED dispatchVars /\ live'
  BY DEF EOS_Platform_Create, IInv, QueueInv, dispatchVars, Line
<1>2. LifeInv'
  <2>1. platforms \in 0..MaxPlatforms /\ platforms < MaxPlatforms /\ MaxPlatforms \in Nat
    BY ServicesAssumption DEF ServicesAssumption, EOS_Platform_Create, IInv, LifeInv
  <2>2. platforms + 1 \in 0..MaxPlatforms
    BY <2>1
  <2> QED BY <2>2 DEF EOS_Platform_Create, IInv, LifeInv
<1>3. QueueInv'
  BY <1>1 DEF IInv, QueueInv, QueueOf, dispatchVars
<1>4. AccountInv'
  BY <1>1, NewAccountsIInv DEF EOS_Platform_Create, IInv
<1>5. StoreInv'
  <2>1. Seed /\ UNCHANGED <<dispatchVars, observers, unlocking, heardOf>>
    BY DEF EOS_Platform_Create
  <2> QED BY <2>1, SeedStores DEF IInv
<1>6. CatalogInv'
  BY NewCatalogIInv DEF EOS_Platform_Create, IInv
<1>7. MemoryInv'
  <2>1. UNCHANGED memoryVars
    BY DEF EOS_Platform_Create
  <2> QED BY <2>1, MemoryUnchanged DEF IInv
<1> QED BY <1>2, <1>3, <1>4, <1>5, <1>6, <1>7 DEF IInv

\* EOS_Platform_Release: what is queued is discarded.
LEMMA ReleaseIInv ==
  ASSUME IInv, EOS_Platform_Release
  PROVE  IInv'
<1>1. /\ Discarded /\ ~live' /\ NewAccounts /\ NewCatalog
      /\ UNCHANGED <<platforms, calls>> /\ UNCHANGED storeVars /\ UNCHANGED memoryVars
  BY DEF EOS_Platform_Release
<1>2. QueueOf(Closures, 0)' /\ Line' = <<>>
  BY <1>1, DiscardedEmpties DEF IInv, QueueInv, Queue!Discard
<1>3. ~draining' /\ delayed' = <<>> /\ firing' = NoStatus
  BY <1>1 DEF Discarded, NewAccounts
<1>4. LifeInv'
  BY <1>1 DEF EOS_Platform_Release, IInv, LifeInv
<1>5. QueueInv'
  BY <1>2, <1>3 DEF QueueInv
<1>6. AccountInv'
  BY <1>1, <1>2, NewAccountsIInv DEF IInv
<1>7. StoreInv'
  BY <1>1, <1>2, LineIsSeq, LeavesThins, StoresUnchanged DEF IInv
<1>8. CatalogInv' /\ MemoryInv'
  BY <1>1, NewCatalogIInv, MemoryUnchanged DEF IInv
<1> QED BY <1>4, <1>5, <1>6, <1>7, <1>8 DEF IInv

\* Completions that are posted, and statuses, announce no achievement.
LEMMA PostsThin ==
  ASSUME NEW CONSTANT S, S \subseteq Completions \cup Statuses, QueueInv, Posts(S)
  PROVE  Thins(Unlocks)
<1>1. S \cap Unlocks = {} /\ S \subseteq Closures
  BY DEF Completions, Statuses, Unlocks, Closures
<1> QED BY <1>1, LineIsSeq, PostsJoin, JoinsThins

\* A call of the game changes one part, and posts.
LEMMA GameCallIInv ==
  ASSUME IInv, GameCall
  PROVE  IInv'
<1>0. QueueInv /\ AccountInv /\ StoreInv /\ CatalogInv /\ MemoryInv /\ LifeInv
  BY DEF IInv
<1>1. UNCHANGED <<live, platforms>> /\ Call
  BY DEF GameCall
<1>2. LifeInv'
  <2>1. calls \in 0..MaxCalls /\ calls < MaxCalls /\ MaxCalls \in Nat
    BY <1>0, <1>1, ServicesAssumption DEF ServicesAssumption, Call, LifeInv
  <2>2. calls + 1 \in 0..MaxCalls
    BY <2>1
  <2> QED BY <1>0, <1>1, <2>2 DEF Call, LifeInv
<1>3. firing # NoStatus => draining
  BY <1>0 DEF AccountInv, AccountTypes
<1>4. CASE live /\ AccountCalls /\ UNCHANGED <<storeVars, catalogVars, memoryVars>>
  <2>1. Posts(Completions \cup Statuses) /\ Completions \cup Statuses \subseteq Closures
    BY <1>4, AccountCallsPost DEF Closures
  <2>2. QueueInv'
    BY <1>0, <1>1, <1>4, <2>1, PostsQueueInv
  <2>3. AccountInv'
    BY <1>0, <1>4, AccountCallsIInv
  <2>4. StoreInv'
    BY <1>0, <1>4, <2>1, PostsThin, StoresUnchanged
  <2>5. CatalogInv' /\ MemoryInv'
    BY <1>0, <1>4, CatalogUnchanged, MemoryUnchanged
  <2> QED BY <1>2, <2>2, <2>3, <2>4, <2>5 DEF IInv
<1>5. CASE StoreCalls /\ UNCHANGED <<accountVars, catalogVars, memoryVars>>
  <2>1. Posts(Completions) /\ (~live => Posts({})) /\ Completions \subseteq Closures
    BY <1>5, StoreCallsPost DEF Closures
  <2>2. QueueInv' /\ UNCHANGED draining
    BY <1>0, <1>1, <1>5, <2>1, PostsQueueInv DEF accountVars
  <2>3. AccountInv'
    <3>1. \A l \in Logins : Keeps(Changes(l))
      BY <1>0, <2>1, PostsKeep
    <3> QED BY <1>0, <1>3, <1>5, <2>2, <3>1, AccountsUnchanged
  <2>4. StoreInv'
    BY <1>0, <1>5, StoreCallsIInv
  <2>5. CatalogInv' /\ MemoryInv'
    BY <1>0, <1>5, CatalogUnchanged, MemoryUnchanged
  <2> QED BY <1>2, <2>2, <2>3, <2>4, <2>5 DEF IInv
<1>6. CASE live /\ CatalogCalls /\ UNCHANGED <<accountVars, storeVars, memoryVars>>
  <2>1. Posts(Completions) /\ Completions \subseteq Closures
    BY <1>6, CatalogCallsPost DEF Closures
  <2>2. QueueInv' /\ UNCHANGED draining
    BY <1>0, <1>1, <1>6, <2>1, PostsQueueInv
  <2>3. AccountInv'
    <3>1. \A l \in Logins : Keeps(Changes(l))
      BY <1>0, <2>1, PostsKeep
    <3> QED BY <1>0, <1>3, <1>6, <2>2, <3>1, AccountsUnchanged
  <2>4. StoreInv'
    BY <1>0, <1>6, <2>1, PostsThin, StoresUnchanged
  <2>5. CatalogInv' /\ MemoryInv'
    BY <1>0, <1>6, CatalogCallsIInv, MemoryUnchanged
  <2> QED BY <1>2, <2>2, <2>3, <2>4, <2>5 DEF IInv
<1>7. CASE MemoryCalls /\ UNCHANGED <<accountVars, storeVars, catalogVars, dispatchVars>>
  <2>1. Posts({})
    BY <1>7 DEF Posts
  <2>2. QueueInv' /\ UNCHANGED draining
    BY <1>0, <1>1, <1>7, <2>1, PostsQueueInv DEF accountVars
  <2>3. AccountInv'
    <3>1. \A l \in Logins : Keeps(Changes(l))
      BY <1>0, <2>1, PostsKeep
    <3> QED BY <1>0, <1>3, <1>7, <2>2, <3>1, AccountsUnchanged
  <2>4. StoreInv'
    BY <1>0, <1>7, <2>1, PostsThin, StoresUnchanged
  <2>5. CatalogInv' /\ MemoryInv'
    BY <1>0, <1>7, CatalogUnchanged, MemoryCallsIInv
  <2> QED BY <1>2, <2>2, <2>3, <2>4, <2>5 DEF IInv
<1> QED BY <1>4, <1>5, <1>6, <1>7 DEF GameCall
\* A thread comes to the second critical section of UnlockAchievements.
LEMMA UnlockPostsIInv ==
  ASSUME IInv, UnlockPosts
  PROVE  IInv'
<1>0. QueueInv /\ AccountInv /\ StoreInv /\ CatalogInv /\ MemoryInv /\ LifeInv /\ StoreTypes
  BY DEF IInv, StoreInv
<1>1. PICK t \in Threads : PostUnlock(t, live)
  BY DEF UnlockPosts
<1>2. /\ UNCHANGED <<live, platforms, calls>> /\ UNCHANGED accountVars
      /\ UNCHANGED catalogVars /\ UNCHANGED memoryVars
  BY DEF UnlockPosts
<1> DEFINE S == Completions \cup Unlocks
<1>3. Posts(S) /\ (~live => Posts({}))
  <2>1. ASSUME NEW CONSTANT R, R \subseteq S, Posts(R) PROVE Posts(S)
    BY <2>1 DEF Posts
  <2>2. ASSUME NEW a \in Achievements, NEW works \in Seq(Closures), Announcements(a, works),
               Post(works), UNCHANGED <<delayed, ready, draining>>
        PROVE  Posts(S)
    <3>1. ToSet(works) \subseteq S
      <4>1. ToSet(works) \subseteq Completions \cup {Unlocked(o, a) : o \in Observers}
        BY <1>0, <2>2, AnnouncedOnce DEF StoreTypes
      <4>2. \A o \in Observers : Unlocked(o, a) \in Unlocks
        BY DEF Unlocked, Unlocks
      <4> QED BY <4>1, <4>2
    <3>2. /\ Len(works) \in Nat /\ DOMAIN works = 1..Len(works)
          /\ works \in [1..Len(works) -> Closures]
      BY LenProperties
    <3>3. works \in [1..Len(works) -> S]
      <4>1. \A i \in 1..Len(works) : works[i] \in S
        BY <3>1, <3>2 DEF ToSet
      <4> HIDE DEF S
      <4> QED BY <3>2, <4>1
    <3>4. works \in Seq(S)
      BY <3>2, <3>3, SeqDef
    <3> QED BY <2>2, <3>4 DEF Posts
  <2>3. Completions \subseteq S /\ {} \subseteq S
    OBVIOUS
  <2> HIDE DEF S
  <2>4. CASE ~live /\ Posts({})
    BY <2>1, <2>3, <2>4
  <2>5. CASE live /\ unlocking[t] = <<>> /\ Posts(Completions)
    BY <2>1, <2>3, <2>5
  <2>6. CASE live /\ \E a \in Achievements, works \in Seq(Closures) :
               /\ unlocking[t] = <<a>> /\ Announcements(a, works)
               /\ Post(works) /\ UNCHANGED <<delayed, ready, draining>>
    BY <2>2, <2>6
  <2> QED BY <1>0, <1>1, <2>4, <2>5, <2>6, PostUnlockPosts
<1>4. S \subseteq Closures /\ S \subseteq Completions \cup Unlocks
  BY DEF Closures
<1> HIDE DEF S
<1>5. QueueInv' /\ UNCHANGED draining
  BY <1>0, <1>2, <1>3, <1>4, PostsQueueInv DEF accountVars
<1>6. AccountInv'
  <2>1. \A l \in Logins : Keeps(Changes(l))
    BY <1>0, <1>3, <1>4, PostsKeep
  <2>2. firing # NoStatus => draining
    BY <1>0 DEF AccountInv, AccountTypes
  <2> QED BY <1>0, <1>2, <1>5, <2>1, <2>2, AccountsUnchanged
<1>7. StoreInv'
  BY <1>0, <1>1, PostUnlockIInv
<1>8. CatalogInv' /\ MemoryInv' /\ LifeInv'
  BY <1>0, <1>2, CatalogUnchanged, MemoryUnchanged DEF LifeInv
<1> QED BY <1>5, <1>6, <1>7, <1>8 DEF IInv

\* Tick goes into Drain, or comes out of it.
LEMMA DrainIInv ==
  ASSUME IInv, TickBegins \/ TickReturns
  PROVE  IInv'
<1>0. QueueInv /\ AccountInv /\ StoreInv /\ CatalogInv /\ MemoryInv /\ LifeInv
  BY DEF IInv
<1>1. /\ UNCHANGED <<live, platforms, calls>> /\ UNCHANGED accountVars /\ UNCHANGED storeVars
      /\ UNCHANGED catalogVars /\ UNCHANGED memoryVars
  BY DEF TickBegins, TickReturns
<1>2. QueueOf(Closures, 0) /\ delayed = <<>>
  BY <1>0 DEF QueueInv
<1>3. QueueOf(Closures, 0)' /\ Line' = Line /\ delayed' = <<>> /\ live
      /\ (firing # NoStatus => draining')
  <2>1. CASE TickBegins
    <3>1. Drain /\ live
      BY <2>1 DEF TickBegins
    <3>2. QueueOf(Closures, 0)' /\ Line' = Line /\ delayed' = <<>>
      BY <1>2, <3>1, DrainJoins, DrainOfNothingDelayed
    <3>3. draining'
      BY <3>1 DEF Drain
    <3> QED BY <3>1, <3>2, <3>3
  <2>2. CASE TickReturns
    <3>1. DrainReturns /\ firing = NoStatus
      BY <2>2 DEF TickReturns
    <3>2. QueueOf(Closures, 0)' /\ Line' = Line
      BY <1>2, <3>1, DrainReturnsLeavesLine
    <3>3. draining /\ delayed' = delayed
      BY <3>1 DEF DrainReturns
    <3>4. live
      BY <1>0, <3>3 DEF QueueInv
    <3> QED BY <1>2, <3>1, <3>2, <3>3, <3>4
  <2> QED BY <2>1, <2>2
<1>4. QueueInv'
  BY <1>1, <1>3 DEF QueueInv
<1>5. AccountInv'
  <2>1. \A l \in Logins : Keeps(Changes(l))
    BY <1>3 DEF Keeps
  <2> QED BY <1>0, <1>1, <1>3, <2>1, AccountsUnchanged
<1>6. StoreInv'
  BY <1>0, <1>1, <1>3, LineIsSeq, LeavesThins, StoresUnchanged
<1>7. CatalogInv' /\ MemoryInv' /\ LifeInv'
  BY <1>0, <1>1, CatalogUnchanged, MemoryUnchanged DEF LifeInv
<1> QED BY <1>4, <1>5, <1>6, <1>7 DEF IInv

\* Drain runs a closure.
LEMMA RunTaskIInv ==
  ASSUME IInv, RunTask
  PROVE  IInv'
<1>0. QueueInv /\ AccountInv /\ StoreInv /\ CatalogInv /\ MemoryInv /\ LifeInv
  BY DEF IInv
<1>1. /\ firing = NoStatus /\ UNCHANGED <<live, platforms, calls>>
      /\ UNCHANGED catalogVars /\ UNCHANGED memoryVars /\ Work(<<>>)
  BY DEF RunTask, RunStatus, RunUnlocked
<1>2. /\ live /\ draining /\ QueueOf(Closures, 0)' /\ UNCHANGED <<delayed, draining>>
      /\ Line \in Seq(Closures) /\ Line # <<>> /\ Line' = Tail(Line)
      /\ Head(Line) = Head(ready)
  BY <1>0, <1>1, RunsHead
<1>3. QueueInv'
  BY <1>0, <1>1, <1>2 DEF QueueInv
<1>4. UNCHANGED storeVars => StoreInv'
  BY <1>0, <1>2, LeavesThins, StoresUnchanged
<1>5. UNCHANGED accountVars /\ Head(ready).kind # "status" => AccountInv'
  <2> SUFFICES ASSUME UNCHANGED accountVars, Head(ready).kind # "status" PROVE AccountInv'
    OBVIOUS
  <2>1. \A l \in Logins : Head(Line) \notin Changes(l)
    BY <1>2 DEF Changes
  <2>2. \A l \in Logins : Keeps(Changes(l))
    BY <1>2, <2>1, LeavesKeeps
  <2> QED BY <1>0, <1>2, <2>2, AccountsUnchanged
<1>6. AccountInv' /\ StoreInv'
  <2>1. CASE RunStatus /\ UNCHANGED storeVars
    BY <1>0, <1>1, <1>4, <2>1, RunStatusIInv
  <2>2. CASE RunUnlocked /\ UNCHANGED accountVars
    <3>1. Head(ready).kind = "unlocked"
      BY <2>2 DEF RunUnlocked
    <3> QED BY <1>0, <1>5, <2>2, <3>1, RunUnlockedIInv
  <2>3. CASE /\ Head(ready).kind \in {"plain", "mod"}
             /\ UNCHANGED <<accountVars, storeVars>>
    <3>1. UNCHANGED accountVars /\ UNCHANGED storeVars
      BY <2>3
    <3> QED BY <1>4, <1>5, <2>3, <3>1
  <2> QED BY <2>1, <2>2, <2>3 DEF RunTask
<1>7. CatalogInv' /\ MemoryInv' /\ LifeInv'
  BY <1>0, <1>1, CatalogUnchanged, MemoryUnchanged DEF LifeInv
<1> QED BY <1>3, <1>6, <1>7 DEF IInv

\* The observers of a login are told, behind the completion.
LEMMA StatusChangesIInv ==
  ASSUME IInv, StatusChanges
  PROVE  IInv'
<1>0. QueueInv /\ AccountInv /\ StoreInv /\ CatalogInv /\ MemoryInv /\ LifeInv
  BY DEF IInv
<1>1. /\ FireStatusChanged /\ UNCHANGED <<live, platforms, calls>> /\ UNCHANGED storeVars
      /\ UNCHANGED catalogVars /\ UNCHANGED memoryVars
  BY DEF StatusChanges
<1>2. UNCHANGED dispatchVars /\ firing' = NoStatus
  BY <1>1 DEF FireStatusChanged
<1>3. Line' = Line
  BY <1>2 DEF dispatchVars, Line
<1>4. QueueInv'
  BY <1>0, <1>1, <1>2, <1>3 DEF QueueInv, QueueOf, dispatchVars
<1>5. AccountInv'
  BY <1>0, <1>1, FireStatusChangedIInv
<1>6. StoreInv'
  BY <1>0, <1>1, <1>3, LineIsSeq, LeavesThins, StoresUnchanged
<1>7. CatalogInv' /\ MemoryInv' /\ LifeInv'
  BY <1>0, <1>1, CatalogUnchanged, MemoryUnchanged DEF LifeInv
<1> QED BY <1>4, <1>5, <1>6, <1>7 DEF IInv

\* A step that changes nothing.
LEMMA StutterIInv ==
  ASSUME IInv, UNCHANGED vars
  PROVE  IInv'
<1>0. QueueInv /\ AccountInv /\ StoreInv /\ CatalogInv /\ MemoryInv /\ LifeInv
  BY DEF IInv
<1>1. /\ UNCHANGED <<live, platforms, calls>> /\ UNCHANGED dispatchVars /\ UNCHANGED accountVars
      /\ UNCHANGED storeVars /\ UNCHANGED catalogVars /\ UNCHANGED memoryVars
  BY DEF vars
<1>2. Line' = Line /\ draining' = draining
  BY <1>1 DEF dispatchVars, Line
<1>3. QueueInv'
  BY <1>0, <1>1, <1>2 DEF QueueInv, QueueOf, dispatchVars, accountVars
<1>4. AccountInv'
  <2>1. \A l \in Logins : Keeps(Changes(l))
    BY <1>2 DEF Keeps
  <2>2. firing # NoStatus => draining'
    BY <1>0, <1>2 DEF AccountInv, AccountTypes
  <2> QED BY <1>0, <1>1, <2>1, <2>2, AccountsUnchanged
<1>5. StoreInv'
  BY <1>0, <1>1, <1>2, LineIsSeq, LeavesThins, StoresUnchanged
<1>6. CatalogInv' /\ MemoryInv' /\ LifeInv'
  BY <1>0, <1>1, CatalogUnchanged, MemoryUnchanged DEF LifeInv
<1> QED BY <1>3, <1>4, <1>5, <1>6 DEF IInv

\* Each action keeps the invariant.
LEMMA NextIInv ==
  ASSUME IInv, [Next]_vars
  PROVE  IInv'
BY CreateIInv, ReleaseIInv, GameCallIInv, UnlockPostsIInv, DrainIInv, RunTaskIInv,
   StatusChangesIInv, StutterIInv DEF Next

\* What UnlockToldOnce says of the places of the line.
LEMMA StoresTold ==
  ASSUME StoreInv
  PROVE  StoresTypeOK /\ UnlockToldOnce
<1>1. ToSet(unlocked) \subseteq Achievements
  <2>1. \A i \in DOMAIN unlocked : unlocked[i] \in Achievements
    BY LenProperties, ElementOfSeq DEF StoreInv, StoreTypes
  <2> QED BY <2>1 DEF ToSet
<1>2. StoresTypeOK
  BY <1>1 DEF StoreInv, StoreTypes, StoresTypeOK
<1>3. ASSUME NEW o \in Observers, NEW a \in Achievements
      PROVE  /\ heardOf[o][a] <= 1
             /\ \A i \in DOMAIN Line : Line[i] = Unlocked(o, a) =>
                  /\ heardOf[o][a] = 0 /\ \A j \in DOMAIN Line : Line[j] = Line[i] => j = i
                  /\ a \in ToSet(unlocked)
  <2>1. heardOf[o][a] \in 0..1
    BY DEF StoreInv, StoreTypes
  <2>2. Once(Line, Unlocked(o, a))
        /\ (Unlocked(o, a) \in ToSet(Line) => heardOf[o][a] = 0 /\ a \in ToSet(unlocked))
    BY DEF StoreInv, ToldOnce
  <2>3. \A i \in DOMAIN Line : Line[i] \in ToSet(Line)
    BY DEF ToSet
  <2> QED BY <2>1, <2>2, <2>3 DEF Once
<1> QED BY <1>2, <1>3 DEF UnlockToldOnce, StoreInv, StoreTypes

\* Whatever the game calls, in whatever order and from whichever thread, and
\* however often it replaces its platform, the stores of Auth.cpp, Connect.cpp,
\* Stats.cpp, Achievements.cpp, Ecom.cpp, Mods.cpp and Reports.cpp keep their
\* types: a stat stays 32 bits wide, a mod has one entry, what was redeemed
\* last is redeemed, and without a platform nothing is queued.
THEOREM TypeCorrect == Spec => []TypeOK
<1>1. IInv => TypeOK
  <2> SUFFICES ASSUME IInv PROVE TypeOK
    OBVIOUS
  <2>1. AccountsTypeOK /\ StoresTypeOK
    BY SettledIsTold, StoresTold DEF IInv
  <2>2. CatalogTypeOK
    BY DEF IInv, CatalogInv, OneEach, CatalogTypeOK
  <2> QED BY <2>1, <2>2 DEF IInv, LifeInv, QueueInv, TypeOK
<1> QED BY InitIInv, NextIInv, <1>1, PTL DEF Spec

\* UnlockAchievements leaves its lock between writing the store and posting to
\* the observers (Achievements.cpp:172-219), so that two threads can unlock the
\* same achievement at once and a platform can be replaced between; still each
\* observer hears of an achievement at most once, and only if the store has it.
THEOREM UnlockAnnouncedOnce == Spec => []UnlockToldOnce
<1>1. IInv => UnlockToldOnce
  BY StoresTold DEF IInv
<1> QED BY InitIInv, NextIInv, <1>1, PTL DEF Spec

\* An observer of the login status ends with the status the interface reports,
\* whatever logins and logouts are queued behind each other (Auth.cpp:74-117,
\* Connect.cpp:103-155), but for the changes that are announced to nobody.
THEOREM StatusIsTold == Spec => []StatusTold
<1>1. IInv => StatusTold
  BY SettledIsTold DEF IInv
<1> QED BY InitIInv, NextIInv, <1>1, PTL DEF Spec

\* What AllocApiBlock and AttachBytes return lies, aligned as asked for, behind
\* its header and inside what was allocated, for every size, alignment and
\* header; and FreeApiBlock frees all that belongs to a block and nothing that
\* belongs to another (Memory.cpp:159-254).
THEOREM BlocksInside == Spec => []BlocksStayInside
<1>1. IInv => BlocksStayInside
  BY BlocksFit DEF IInv
<1> QED BY InitIInv, NextIInv, <1>1, PTL DEF Spec
==========================================================================
