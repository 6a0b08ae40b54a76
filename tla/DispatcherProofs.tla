------------------------- MODULE DispatcherProofs ------------------------
(***************************************************************************)
(* Facts about the lists of the code and about the Dispatcher.             *)
(*                                                                         *)
(* The lists are the rosters of the records, where a member or a player is *)
(* added at the end (std::vector::push_back) and removed where it stands   *)
(* (erase), and the lines of closures, where what is posted joins at the   *)
(* end and the closure at the head is taken off.  The modules without a    *)
(* Dispatcher cite these too.                                              *)
(*                                                                         *)
(* Each critical section of the Dispatcher keeps the queue well formed,    *)
(* and does to the line of closures what TaskQueue allows, for closures    *)
(* and delays of any kind.                                                 *)
(*                                                                         *)
(* Last comes what the one at the end of the line, who takes each event at *)
(* its word, believes when the line is empty.                              *)
(***************************************************************************)
EXTENDS Dispatcher, SequenceTheorems, FiniteSetTheorems, WellFoundedInduction, TLAPS

---------------------------------------------------------------------------
(* Rosters.                                                                *)

\* Who is listed after somebody is added.
LEMMA AppendRoster ==
  ASSUME NEW S, NEW seq \in Seq(S), NEW p \in S
  PROVE  Append(seq, p) \in Seq(S) /\ ToSet(Append(seq, p)) = ToSet(seq) \cup {p}
<1>1. /\ Append(seq, p) \in Seq(S)
      /\ Len(Append(seq, p)) = Len(seq) + 1
      /\ \A i \in 1 .. Len(seq) : Append(seq, p)[i] = seq[i]
      /\ Append(seq, p)[Len(seq) + 1] = p
  BY AppendProperties
<1>2. Len(seq) \in Nat /\ DOMAIN seq = 1 .. Len(seq)
      /\ DOMAIN Append(seq, p) = 1 .. Len(seq) + 1
  BY <1>1, LenProperties
<1> DEFINE new == Append(seq, p)
<1> HIDE DEF new
<1>3. 1 .. Len(seq) + 1 = (1 .. Len(seq)) \cup {Len(seq) + 1}
  BY <1>2
<1>4. ToSet(new) = ToSet(seq) \cup {p}
  BY <1>1, <1>2, <1>3 DEF ToSet, new
<1> QED BY <1>1, <1>4 DEF new

\* Somebody who is not listed may be added.
LEMMA AppendInjectiveRoster ==
  ASSUME NEW S, NEW seq \in Seq(S), NEW p \in S, IsInjective(seq), p \notin ToSet(seq)
  PROVE  IsInjective(Append(seq, p))
<1> DEFINE new == Append(seq, p)
<1>1. /\ Len(seq) \in Nat /\ DOMAIN seq = 1 .. Len(seq)
      /\ DOMAIN new = 1 .. Len(seq) + 1
      /\ \A i \in 1 .. Len(seq) : new[i] = seq[i]
      /\ new[Len(seq) + 1] = p
  BY AppendProperties, LenProperties
<1> HIDE DEF new
<1>2. \A i \in 1 .. Len(seq) : seq[i] # p
  BY <1>1 DEF ToSet
<1>3. ASSUME NEW i \in 1 .. Len(seq) + 1, NEW j \in 1 .. Len(seq) + 1, new[i] = new[j]
      PROVE  i = j
  <2>1. CASE i \in 1 .. Len(seq) /\ j \in 1 .. Len(seq)
    BY <1>1, <1>3, <2>1 DEF IsInjective
  <2>2. CASE i = Len(seq) + 1
    BY <1>1, <1>2, <1>3, <2>2
  <2>3. CASE j = Len(seq) + 1
    BY <1>1, <1>2, <1>3, <2>3
  <2> QED BY <1>1, <2>1, <2>2, <2>3
<1>4. IsInjective(new)
  BY <1>1, <1>3 DEF IsInjective
<1> QED BY <1>4 DEF new

\* The list after somebody is removed: the places before it are the same, those
\* after it move up by one.
LEMMA RemoveAtPlaces ==
  ASSUME NEW S, NEW seq \in Seq(S), NEW i \in DOMAIN seq
  PROVE  /\ RemoveAt(seq, i) \in Seq(S)
         /\ DOMAIN RemoveAt(seq, i) = 1 .. Len(seq) - 1
         /\ \A k \in 1 .. Len(seq) - 1 :
              RemoveAt(seq, i)[k] = IF k < i THEN seq[k] ELSE seq[k + 1]
<1> DEFINE a == SubSeq(seq, 1, i - 1)
           b == SubSeq(seq, i + 1, Len(seq))
<1>1. Len(seq) \in Nat /\ DOMAIN seq = 1 .. Len(seq) /\ i \in 1 .. Len(seq)
  BY LenProperties
<1>2. /\ a \in Seq(S) /\ Len(a) = i - 1
      /\ \A k \in 1 .. i - 1 : a[k] = seq[k]
  <2>1. \A k \in 1 .. i - 1 : seq[k] \in S
    BY <1>1, ElementOfSeq
  <2> QED BY <1>1, <2>1, SubSeqProperties
<1>3. /\ b \in Seq(S) /\ Len(b) = Len(seq) - i
      /\ \A k \in 1 .. Len(seq) - i : b[k] = seq[i + k]
  <2>1. \A k \in i + 1 .. Len(seq) : seq[k] \in S
    BY <1>1, ElementOfSeq
  <2> QED BY <1>1, <2>1, SubSeqProperties
<1>4. RemoveAt(seq, i) = a \o b
  BY DEF RemoveAt
<1> HIDE DEF a, b
<1>5. /\ a \o b \in Seq(S) /\ Len(a \o b) = Len(seq) - 1
      /\ \A k \in 1 .. Len(seq) - 1 :
           (a \o b)[k] = IF k <= i - 1 THEN a[k] ELSE b[k - (i - 1)]
  <2>1. /\ a \o b \in Seq(S) /\ Len(a \o b) = Len(a) + Len(b)
        /\ \A k \in 1 .. Len(a) + Len(b) :
             (a \o b)[k] = IF k <= Len(a) THEN a[k] ELSE b[k - Len(a)]
    BY <1>2, <1>3, ConcatProperties
  <2>2. Len(a) + Len(b) = Len(seq) - 1
    BY <1>1, <1>2, <1>3
  <2> QED BY <1>2, <2>1, <2>2
<1>6. DOMAIN (a \o b) = 1 .. Len(seq) - 1
  BY <1>5, LenProperties
<1>7. ASSUME NEW k \in 1 .. Len(seq) - 1
      PROVE  (a \o b)[k] = IF k < i THEN seq[k] ELSE seq[k + 1]
  <2>1. CASE k < i
    <3>1. k \in 1 .. i - 1 /\ k <= i - 1
      BY <1>1, <2>1
    <3> QED BY <1>2, <1>5, <2>1, <3>1
  <2>2. CASE k >= i
    <3>1. k - (i - 1) \in 1 .. Len(seq) - i /\ i + (k - (i - 1)) = k + 1
      BY <1>1, <2>2
    <3>2. (a \o b)[k] = b[k - (i - 1)]
      <4>1. ~(k <= i - 1)
        BY <1>1, <2>2
      <4>2. (a \o b)[k] = IF k <= i - 1 THEN a[k] ELSE b[k - (i - 1)]
        BY <1>5
      <4> QED BY <4>1, <4>2, Zenon
    <3>3. b[k - (i - 1)] = seq[i + (k - (i - 1))]
      BY <1>3, <3>1
    <3>4. (a \o b)[k] = seq[k + 1]
      BY <3>1, <3>2, <3>3
    <3>5. ~(k < i)
      BY <1>1, <2>2
    <3> QED BY <3>4, <3>5, Zenon
  <2>3. k < i \/ k >= i
    BY <1>1
  <2> QED BY <2>1, <2>2, <2>3, Zenon
<1> QED BY <1>4, <1>5, <1>6, <1>7

\* Who is removed is listed no longer, everybody else is, and nobody twice.
LEMMA RemoveAtRoster ==
  ASSUME NEW S, NEW seq \in Seq(S), NEW i \in DOMAIN seq, IsInjective(seq)
  PROVE  IsInjective(RemoveAt(seq, i)) /\ ToSet(RemoveAt(seq, i)) = ToSet(seq) \ {seq[i]}
<1> DEFINE new == RemoveAt(seq, i)
<1>1. /\ Len(seq) \in Nat /\ DOMAIN seq = 1 .. Len(seq) /\ i \in 1 .. Len(seq)
      /\ DOMAIN new = 1 .. Len(seq) - 1
      /\ \A k \in 1 .. Len(seq) - 1 : new[k] = IF k < i THEN seq[k] ELSE seq[k + 1]
  BY LenProperties, RemoveAtPlaces
<1> HIDE DEF new
<1>2. \A j, k \in 1 .. Len(seq) : seq[j] = seq[k] => j = k
  BY <1>1 DEF IsInjective
<1>3. IsInjective(new)
  <2> SUFFICES ASSUME NEW j \in 1 .. Len(seq) - 1, NEW k \in 1 .. Len(seq) - 1,
                      new[j] = new[k]
               PROVE  j = k
    BY <1>1 DEF IsInjective
  <2> DEFINE place(m) == IF m < i THEN m ELSE m + 1
  <2>1. \A m \in 1 .. Len(seq) - 1 : place(m) \in 1 .. Len(seq) /\ new[m] = seq[place(m)]
    BY <1>1
  <2>2. place(j) = place(k)
    BY <1>2, <2>1
  <2> QED BY <1>1, <2>2
<1>4. ASSUME NEW x \in ToSet(new) PROVE x \in ToSet(seq) \ {seq[i]}
  <2>1. PICK k \in 1 .. Len(seq) - 1 : x = new[k]
    BY <1>1 DEF ToSet
  <2>2. PICK j \in 1 .. Len(seq) : j # i /\ x = seq[j]
    <3>1. CASE k < i
      BY <1>1, <2>1, <3>1
    <3>2. CASE k >= i
      BY <1>1, <2>1, <3>2
    <3> QED BY <1>1, <3>1, <3>2
  <2> QED BY <1>1, <1>2, <2>2 DEF ToSet
<1>5. ASSUME NEW x \in ToSet(seq) \ {seq[i]} PROVE x \in ToSet(new)
  <2>1. PICK j \in 1 .. Len(seq) : j # i /\ x = seq[j]
    BY <1>1 DEF ToSet
  <2>2. CASE j < i
    BY <1>1, <2>1, <2>2 DEF ToSet
  <2>3. CASE j > i
    <3>1. j - 1 \in 1 .. Len(seq) - 1 /\ ~(j - 1 < i) /\ (j - 1) + 1 = j
      BY <1>1, <2>3
    <3>2. new[j - 1] = seq[j]
      BY <1>1, <3>1
    <3> QED BY <1>1, <2>1, <3>1, <3>2 DEF ToSet
  <2> QED BY <1>1, <2>1, <2>2, <2>3
<1> QED BY <1>3, <1>4, <1>5 DEF new

---------------------------------------------------------------------------
\* Who waits in two lines, one behind the other.
LEMMA ConcatRoster ==
  ASSUME NEW S, NEW a \in Seq(S), NEW b \in Seq(S)
  PROVE  a \o b \in Seq(S) /\ ToSet(a \o b) = ToSet(a) \cup ToSet(b)
<1> DEFINE new == a \o b
<1>1. /\ new \in Seq(S) /\ Len(new) = Len(a) + Len(b)
      /\ \A k \in 1 .. Len(a) + Len(b) :
           new[k] = IF k <= Len(a) THEN a[k] ELSE b[k - Len(a)]
  BY ConcatProperties
<1>2. /\ Len(a) \in Nat /\ DOMAIN a = 1 .. Len(a) /\ Len(b) \in Nat /\ DOMAIN b = 1 .. Len(b)
      /\ DOMAIN new = 1 .. Len(a) + Len(b)
  BY <1>1, LenProperties
<1> HIDE DEF new
<1>3. ASSUME NEW x \in ToSet(new) PROVE x \in ToSet(a) \cup ToSet(b)
  <2>1. PICK k \in 1 .. Len(a) + Len(b) : x = new[k]
    BY <1>2, <1>3 DEF ToSet
  <2>2. CASE k <= Len(a)
    <3>1. k \in 1 .. Len(a)
      BY <1>2, <2>2
    <3>2. new[k] = a[k]
      BY <1>1, <2>2
    <3> QED BY <1>2, <2>1, <3>1, <3>2 DEF ToSet
  <2>3. CASE ~(k <= Len(a))
    <3>1. k - Len(a) \in 1 .. Len(b)
      BY <1>2, <2>3
    <3>2. new[k] = b[k - Len(a)]
      BY <1>1, <2>3
    <3> QED BY <1>2, <2>1, <3>1, <3>2 DEF ToSet
  <2> QED BY <2>2, <2>3
<1>4. ASSUME NEW x \in ToSet(a) PROVE x \in ToSet(new)
  <2>1. PICK k \in 1 .. Len(a) : x = a[k]
    BY <1>2, <1>4 DEF ToSet
  <2>2. k \in 1 .. Len(a) + Len(b) /\ k <= Len(a)
    BY <1>2
  <2>3. new[k] = a[k]
    BY <1>1, <2>2
  <2> QED BY <1>2, <2>1, <2>2, <2>3 DEF ToSet
<1>5. ASSUME NEW x \in ToSet(b) PROVE x \in ToSet(new)
  <2>1. PICK k \in 1 .. Len(b) : x = b[k]
    BY <1>2, <1>5 DEF ToSet
  <2> DEFINE j == Len(a) + k
  <2>2. j \in 1 .. Len(a) + Len(b) /\ ~(j <= Len(a)) /\ j - Len(a) = k
    BY <1>2
  <2> HIDE DEF j
  <2>3. new[j] = b[k]
    BY <1>1, <2>2
  <2> QED BY <1>2, <2>1, <2>2, <2>3 DEF ToSet
<1>6. ToSet(new) = ToSet(a) \cup ToSet(b)
  BY <1>3, <1>4, <1>5
<1> QED BY <1>1, <1>6 DEF new

\* Who waits behind the head.
LEMMA TailRoster ==
  ASSUME NEW S, NEW a \in Seq(S), a # <<>>
  PROVE  /\ Head(a) \in S /\ Tail(a) \in Seq(S)
         /\ ToSet(a) \subseteq ToSet(Tail(a)) \cup {Head(a)}
         /\ ToSet(Tail(a)) \subseteq ToSet(a)
<1> DEFINE rest == Tail(a)
<1>1. /\ Head(a) \in S /\ rest \in Seq(S) /\ Len(rest) = Len(a) - 1
      /\ \A i \in 1 .. Len(rest) : rest[i] = a[i + 1]
  BY HeadTailProperties
<1>2. /\ Len(a) \in Nat /\ DOMAIN a = 1 .. Len(a) /\ DOMAIN rest = 1 .. Len(a) - 1
  BY <1>1, LenProperties
<1>3. Head(a) = a[1]
  OBVIOUS
<1> HIDE DEF rest
<1>4. ASSUME NEW x \in ToSet(a) PROVE x \in ToSet(rest) \cup {Head(a)}
  <2>1. PICK k \in 1 .. Len(a) : x = a[k]
    BY <1>2, <1>4 DEF ToSet
  <2>2. CASE k = 1
    BY <1>3, <2>1, <2>2
  <2>3. CASE k # 1
    <3>1. k - 1 \in 1 .. Len(a) - 1 /\ (k - 1) + 1 = k
      BY <1>2, <2>3
    <3>2. rest[k - 1] = a[k]
      BY <1>1, <3>1
    <3> QED BY <1>2, <2>1, <3>1, <3>2 DEF ToSet
  <2> QED BY <2>2, <2>3
<1>5. ASSUME NEW x \in ToSet(rest) PROVE x \in ToSet(a)
  <2>1. PICK k \in 1 .. Len(a) - 1 : x = rest[k]
    BY <1>2, <1>5 DEF ToSet
  <2>2. k + 1 \in 1 .. Len(a) /\ rest[k] = a[k + 1]
    BY <1>1, <1>2
  <2> QED BY <1>2, <2>1, <2>2 DEF ToSet
<1> QED BY <1>1, <1>4, <1>5 DEF rest

\* The head of a line is that of its first part, and the rest stands behind it.
LEMMA TailOfConcat ==
  ASSUME NEW S, NEW a \in Seq(S), NEW b \in Seq(S), a # <<>>
  PROVE  a \o b # <<>> /\ Tail(a \o b) = Tail(a) \o b
<1>1. a \o b \in Seq(S) /\ a \o b # <<>>
  BY ConcatProperties, ConcatEqualIffEmpty
<1>2. Tail(a) \in Seq(S)
  BY HeadTailProperties
<1>3. Tail(a \o b) = Tail(a) \o b
  <2> DEFINE l == Tail(a \o b)
             r == Tail(a) \o b
  <2>1. /\ l \in Seq(S) /\ Len(l) = Len(a \o b) - 1
        /\ \A i \in 1 .. Len(l) : l[i] = (a \o b)[i + 1]
    BY <1>1, HeadTailProperties
  <2>2. /\ r \in Seq(S) /\ Len(r) = Len(Tail(a)) + Len(b)
        /\ \A i \in 1 .. Len(Tail(a)) + Len(b) :
             r[i] = IF i <= Len(Tail(a)) THEN Tail(a)[i] ELSE b[i - Len(Tail(a))]
    BY <1>2, ConcatProperties
  <2>3. /\ Len(Tail(a)) = Len(a) - 1
        /\ \A i \in 1 .. Len(Tail(a)) : Tail(a)[i] = a[i + 1]
    BY HeadTailProperties
  <2>4. /\ Len(a \o b) = Len(a) + Len(b)
        /\ \A i \in 1 .. Len(a) + Len(b) :
             (a \o b)[i] = IF i <= Len(a) THEN a[i] ELSE b[i - Len(a)]
    BY ConcatProperties
  <2>5. Len(a) \in Nat \ {0} /\ Len(b) \in Nat
    BY LenProperties, EmptySeq
  <2>6. Len(l) = Len(r) /\ Len(l) = Len(a) + Len(b) - 1
    BY <2>1, <2>2, <2>3, <2>4, <2>5
  <2> HIDE DEF l, r
  <2>7. ASSUME NEW i \in 1 .. Len(l) PROVE l[i] = r[i]
    <3>1. i \in 1 .. Len(a) + Len(b) - 1 /\ i + 1 \in 1 .. Len(a) + Len(b)
      BY <2>5, <2>6
    <3>2. CASE i <= Len(a) - 1
      <4>1. i + 1 <= Len(a) /\ i \in 1 .. Len(a) - 1
        BY <2>5, <3>1, <3>2
      <4>2. l[i] = a[i + 1]
        BY <2>1, <2>4, <3>1, <4>1
      <4>3. r[i] = a[i + 1]
        BY <2>2, <2>3, <2>5, <3>1, <4>1
      <4> QED BY <4>2, <4>3
    <3>3. CASE ~(i <= Len(a) - 1)
      <4>1. ~(i + 1 <= Len(a)) /\ (i + 1) - Len(a) = i - (Len(a) - 1)
        BY <2>5, <3>1, <3>3
      <4>2. l[i] = b[(i + 1) - Len(a)]
        BY <2>1, <2>4, <3>1, <4>1
      <4>3. r[i] = b[i - (Len(a) - 1)]
        BY <2>2, <2>3, <2>5, <3>1, <3>3
      <4> QED BY <4>1, <4>2, <4>3
    <3> QED BY <3>2, <3>3
  <2>8. l = r
    BY <2>1, <2>2, <2>6, <2>7, SeqEqual
  <2> QED BY <2>8 DEF l, r
<1> QED BY <1>1, <1>3

\* A line is a prefix of itself with others behind it.
LEMMA PrefixOfConcat ==
  ASSUME NEW S, NEW a \in Seq(S), NEW b \in Seq(S)
  PROVE  IsPrefix(a, a \o b)
<1>1. Len(a) \in Nat /\ Len(b) \in Nat /\ Len(a \o b) = Len(a) + Len(b) /\ a \o b \in Seq(S)
  BY ConcatProperties, LenProperties
<1>2. Len(a) <= Len(a \o b)
  BY <1>1
<1>3. CASE Len(a) = 0
  <2>1. SubSeq(a, 1, 0) = <<>> /\ SubSeq(a \o b, 1, 0) = <<>>
    BY SubSeqEmpty
  <2> QED BY <1>2, <1>3, <2>1 DEF IsPrefix
<1>4. CASE Len(a) # 0
  <2>1. 1 \in 1 .. Len(a) /\ Len(a) \in 1 .. Len(a)
    BY <1>1, <1>4
  <2>2. SubSeq(a \o b, 1, Len(a)) = SubSeq(a, 1, Len(a))
    BY <2>1, SubSeqOfConcat1
  <2> QED BY <1>2, <2>2 DEF IsPrefix
<1> QED BY <1>3, <1>4

---------------------------------------------------------------------------
(* Single elements of a line.                                              *)

\* x is in the list at most once.
Once(s, x) == \A i, j \in DOMAIN s : s[i] = x /\ s[j] = x => i = j

\* x is the last in the list of those that are in M.
LastOf(s, M, x) ==
  x \in M /\ \E i \in DOMAIN s : s[i] = x /\ \A j \in DOMAIN s : s[j] \in M => j <= i

\* The places of a list behind which another joins.
LEMMA ConcatPlaces ==
  ASSUME NEW S, NEW a \in Seq(S), NEW b \in Seq(S)
  PROVE  /\ Len(a) \in Nat /\ DOMAIN a = 1 .. Len(a) /\ Len(b) \in Nat /\ DOMAIN b = 1 .. Len(b)
         /\ DOMAIN (a \o b) = 1 .. Len(a) + Len(b)
         /\ \A k \in 1 .. Len(a) : (a \o b)[k] = a[k]
         /\ \A k \in 1 .. Len(b) : (a \o b)[Len(a) + k] = b[k]
         /\ \A k \in Len(a) + 1 .. Len(a) + Len(b) :
              k - Len(a) \in 1 .. Len(b) /\ (a \o b)[k] = b[k - Len(a)]
<1> DEFINE new == a \o b
<1>1. /\ new \in Seq(S) /\ Len(new) = Len(a) + Len(b)
      /\ \A k \in 1 .. Len(a) + Len(b) :
           new[k] = IF k <= Len(a) THEN a[k] ELSE b[k - Len(a)]
  BY ConcatProperties
<1>2. /\ Len(a) \in Nat /\ DOMAIN a = 1 .. Len(a) /\ Len(b) \in Nat /\ DOMAIN b = 1 .. Len(b)
      /\ DOMAIN new = 1 .. Len(a) + Len(b)
  BY <1>1, LenProperties
<1> HIDE DEF new
<1>3. \A k \in 1 .. Len(a) : new[k] = a[k]
  BY <1>1, <1>2
<1>4. \A k \in Len(a) + 1 .. Len(a) + Len(b) : k - Len(a) \in 1 .. Len(b) /\ new[k] = b[k - Len(a)]
  BY <1>1, <1>2
<1>5. \A k \in 1 .. Len(b) : new[Len(a) + k] = b[k]
  <2> SUFFICES ASSUME NEW k \in 1 .. Len(b) PROVE new[Len(a) + k] = b[k]
    OBVIOUS
  <2>1. Len(a) + k \in Len(a) + 1 .. Len(a) + Len(b) /\ (Len(a) + k) - Len(a) = k
    BY <1>2
  <2> QED BY <1>4, <2>1
<1> QED BY <1>2, <1>3, <1>4, <1>5 DEF new

\* The places of a list whose head is taken off.
LEMMA TailPlaces ==
  ASSUME NEW S, NEW a \in Seq(S), a # <<>>
  PROVE  /\ Len(a) \in Nat \ {0} /\ DOMAIN a = 1 .. Len(a) /\ Head(a) = a[1]
         /\ DOMAIN Tail(a) = 1 .. Len(a) - 1
         /\ \A k \in 1 .. Len(a) - 1 : k + 1 \in 1 .. Len(a) /\ Tail(a)[k] = a[k + 1]
         /\ \A k \in 2 .. Len(a) : k - 1 \in 1 .. Len(a) - 1 /\ Tail(a)[k - 1] = a[k]
<1> DEFINE rest == Tail(a)
<1>1. /\ rest \in Seq(S) /\ Len(rest) = Len(a) - 1
      /\ \A i \in 1 .. Len(rest) : rest[i] = a[i + 1]
  BY HeadTailProperties
<1>2. /\ Len(a) \in Nat \ {0} /\ DOMAIN a = 1 .. Len(a) /\ DOMAIN rest = 1 .. Len(a) - 1
  BY <1>1, LenProperties, EmptySeq
<1>3. Head(a) = a[1]
  OBVIOUS
<1> HIDE DEF rest
<1>4. \A k \in 1 .. Len(a) - 1 : k + 1 \in 1 .. Len(a) /\ rest[k] = a[k + 1]
  BY <1>1, <1>2
<1>5. \A k \in 2 .. Len(a) : k - 1 \in 1 .. Len(a) - 1 /\ rest[k - 1] = a[k]
  <2> SUFFICES ASSUME NEW k \in 2 .. Len(a) PROVE k - 1 \in 1 .. Len(a) - 1 /\ rest[k - 1] = a[k]
    OBVIOUS
  <2>1. k - 1 \in 1 .. Len(a) - 1 /\ (k - 1) + 1 = k
    BY <1>2
  <2> QED BY <1>4, <2>1
<1> QED BY <1>2, <1>3, <1>4, <1>5 DEF rest

\* An element of one of two lists is once in both, one behind the other.
LEMMA OnceInConcat ==
  ASSUME NEW S, NEW a \in Seq(S), NEW b \in Seq(S), NEW x, Once(a, x), Once(b, x),
         x \notin ToSet(a) \/ x \notin ToSet(b)
  PROVE  Once(a \o b, x)
<1> DEFINE new == a \o b
<1>1. /\ Len(a) \in Nat /\ DOMAIN a = 1 .. Len(a) /\ Len(b) \in Nat /\ DOMAIN b = 1 .. Len(b)
      /\ DOMAIN new = 1 .. Len(a) + Len(b)
      /\ \A k \in 1 .. Len(a) : new[k] = a[k]
      /\ \A k \in Len(a) + 1 .. Len(a) + Len(b) :
           k - Len(a) \in 1 .. Len(b) /\ new[k] = b[k - Len(a)]
  BY ConcatPlaces
<1> HIDE DEF new
<1>2. SUFFICES ASSUME NEW i \in 1 .. Len(a) + Len(b), NEW j \in 1 .. Len(a) + Len(b),
                      new[i] = x, new[j] = x
               PROVE  i = j
  BY <1>1 DEF Once, new
<1>3. CASE x \notin ToSet(b)
  <2>1. \A k \in 1 .. Len(b) : b[k] # x
    BY <1>1, <1>3 DEF ToSet
  <2>2. i \in 1 .. Len(a) /\ j \in 1 .. Len(a)
    BY <1>1, <1>2, <2>1
  <2> QED BY <1>1, <1>2, <2>2 DEF Once
<1>4. CASE x \notin ToSet(a)
  <2>1. \A k \in 1 .. Len(a) : a[k] # x
    BY <1>1, <1>4 DEF ToSet
  <2>2. i \in Len(a) + 1 .. Len(a) + Len(b) /\ j \in Len(a) + 1 .. Len(a) + Len(b)
    BY <1>1, <1>2, <2>1
  <2>3. i - Len(a) = j - Len(a)
    BY <1>1, <1>2, <2>2 DEF Once
  <2> QED BY <1>1, <2>2, <2>3
<1> QED BY <1>3, <1>4

\* An element that is once in a list and leaves it is no longer there.
LEMMA OnceInTail ==
  ASSUME NEW S, NEW a \in Seq(S), a # <<>>, NEW x, Once(a, x)
  PROVE  Once(Tail(a), x) /\ (Head(a) = x => x \notin ToSet(Tail(a)))
<1> DEFINE rest == Tail(a)
<1>1. /\ Len(a) \in Nat \ {0} /\ DOMAIN a = 1 .. Len(a) /\ Head(a) = a[1]
      /\ DOMAIN rest = 1 .. Len(a) - 1
      /\ \A k \in 1 .. Len(a) - 1 : k + 1 \in 1 .. Len(a) /\ rest[k] = a[k + 1]
  BY TailPlaces
<1> HIDE DEF rest
<1>2. ASSUME NEW i \in 1 .. Len(a) - 1, NEW j \in 1 .. Len(a) - 1, rest[i] = x, rest[j] = x
      PROVE  i = j
  <2>1. i + 1 = j + 1
    BY <1>1, <1>2 DEF Once
  <2> QED BY <1>1, <2>1
<1>3. ASSUME Head(a) = x, NEW i \in 1 .. Len(a) - 1, rest[i] = x PROVE FALSE
  <2>1. i + 1 = 1
    <3>1. 1 \in 1 .. Len(a)
      BY <1>1
    <3> QED BY <1>1, <1>3, <3>1 DEF Once
  <2> QED BY <1>1, <2>1
<1> QED BY <1>1, <1>2, <1>3 DEF Once, ToSet, rest

\* The last of M in two lists, one behind the other.
LEMMA LastInConcat ==
  ASSUME NEW S, NEW a \in Seq(S), NEW b \in Seq(S), NEW M, NEW x
  PROVE  /\ LastOf(a, M, x) /\ ToSet(b) \cap M = {} => LastOf(a \o b, M, x)
         /\ LastOf(b, M, x) => LastOf(a \o b, M, x)
<1> DEFINE new == a \o b
<1>1. /\ Len(a) \in Nat /\ DOMAIN a = 1 .. Len(a) /\ Len(b) \in Nat /\ DOMAIN b = 1 .. Len(b)
      /\ DOMAIN new = 1 .. Len(a) + Len(b)
      /\ \A k \in 1 .. Len(a) : new[k] = a[k]
      /\ \A k \in 1 .. Len(b) : new[Len(a) + k] = b[k]
      /\ \A k \in Len(a) + 1 .. Len(a) + Len(b) :
           k - Len(a) \in 1 .. Len(b) /\ new[k] = b[k - Len(a)]
  BY ConcatPlaces
<1> HIDE DEF new
<1>2. ASSUME LastOf(a, M, x), ToSet(b) \cap M = {} PROVE LastOf(new, M, x)
  <2>1. \A k \in 1 .. Len(b) : b[k] \notin M
    BY <1>1, <1>2 DEF ToSet
  <2>2. PICK i \in 1 .. Len(a) : a[i] = x /\ \A j \in 1 .. Len(a) : a[j] \in M => j <= i
    BY <1>1, <1>2 DEF LastOf
  <2>3. i \in 1 .. Len(a) + Len(b) /\ new[i] = x
    BY <1>1, <2>2
  <2>4. ASSUME NEW j \in 1 .. Len(a) + Len(b), new[j] \in M PROVE j <= i
    <3>1. j \in 1 .. Len(a)
      BY <1>1, <2>1, <2>4
    <3> QED BY <1>1, <2>2, <2>4, <3>1
  <2> QED BY <1>1, <1>2, <2>3, <2>4 DEF LastOf
<1>3. ASSUME LastOf(b, M, x) PROVE LastOf(new, M, x)
  <2>1. PICK i \in 1 .. Len(b) : b[i] = x /\ \A j \in 1 .. Len(b) : b[j] \in M => j <= i
    BY <1>1, <1>3 DEF LastOf
  <2>2. Len(a) + i \in 1 .. Len(a) + Len(b) /\ new[Len(a) + i] = x
    BY <1>1, <2>1
  <2>3. ASSUME NEW j \in 1 .. Len(a) + Len(b), new[j] \in M PROVE j <= Len(a) + i
    <3>1. CASE j \in 1 .. Len(a)
      BY <1>1, <3>1
    <3>2. CASE j \in Len(a) + 1 .. Len(a) + Len(b)
      <4>1. j - Len(a) <= i
        BY <1>1, <2>1, <2>3, <3>2
      <4> QED BY <1>1, <4>1
    <3> QED BY <1>1, <3>1, <3>2
  <2> QED BY <1>1, <1>3, <2>2, <2>3 DEF LastOf
<1> QED BY <1>2, <1>3 DEF new

\* The last of M stays so when the head leaves, unless it is the head.
LEMMA LastInTail ==
  ASSUME NEW S, NEW a \in Seq(S), a # <<>>, NEW M, NEW x, LastOf(a, M, x)
  PROVE  LastOf(Tail(a), M, x) \/ (x = Head(a) /\ ToSet(Tail(a)) \cap M = {})
<1> DEFINE rest == Tail(a)
<1>1. /\ Len(a) \in Nat \ {0} /\ DOMAIN a = 1 .. Len(a) /\ Head(a) = a[1]
      /\ DOMAIN rest = 1 .. Len(a) - 1
      /\ \A k \in 1 .. Len(a) - 1 : k + 1 \in 1 .. Len(a) /\ rest[k] = a[k + 1]
      /\ \A k \in 2 .. Len(a) : k - 1 \in 1 .. Len(a) - 1 /\ rest[k - 1] = a[k]
  BY TailPlaces
<1> HIDE DEF rest
<1>2. PICK i \in 1 .. Len(a) : a[i] = x /\ \A j \in 1 .. Len(a) : a[j] \in M => j <= i
  BY <1>1 DEF LastOf
<1>3. \A k \in 1 .. Len(a) - 1 : rest[k] \in M => k + 1 <= i
  BY <1>1, <1>2
<1>4. CASE i = 1
  <2>1. \A k \in 1 .. Len(a) - 1 : rest[k] \notin M
    BY <1>1, <1>3, <1>4
  <2>2. ToSet(rest) \cap M = {}
    BY <1>1, <2>1 DEF ToSet
  <2> QED BY <1>1, <1>2, <1>4, <2>2 DEF rest
<1>5. CASE i \in 2 .. Len(a)
  <2>1. i - 1 \in 1 .. Len(a) - 1 /\ rest[i - 1] = x
    BY <1>1, <1>2, <1>5
  <2>2. \A k \in 1 .. Len(a) - 1 : rest[k] \in M => k <= i - 1
    BY <1>1, <1>3
  <2>3. x \in M
    BY DEF LastOf
  <2>4. LastOf(rest, M, x)
    BY <1>1, <2>1, <2>2, <2>3 DEF LastOf
  <2> QED BY <2>4 DEF rest
<1> QED BY <1>1, <1>4, <1>5

---------------------------------------------------------------------------
(* Lists that are put together.                                            *)

\* Two lists that have nothing in common, one behind the other.
LEMMA ConcatInjective ==
  ASSUME NEW S, NEW a \in Seq(S), NEW b \in Seq(S), IsInjective(a), IsInjective(b),
         ToSet(a) \cap ToSet(b) = {}
  PROVE  IsInjective(a \o b)
<1>1. \A x : Once(a, x) /\ Once(b, x)
  BY DEF IsInjective, Once
<1>2. \A x : Once(a \o b, x)
  <2> SUFFICES ASSUME NEW x PROVE Once(a \o b, x)
    OBVIOUS
  <2>1. x \notin ToSet(a) \/ x \notin ToSet(b)
    OBVIOUS
  <2> QED BY <1>1, <2>1, OnceInConcat
<1> QED BY <1>2 DEF IsInjective, Once

\* A finite set as a list.
LEMMA ListOfSet ==
  ASSUME NEW S, IsFiniteSet(S)
  PROVE  /\ SetToSeq(S) \in Seq(S) /\ DOMAIN SetToSeq(S) = 1..Cardinality(S)
         /\ IsInjective(SetToSeq(S)) /\ Cardinality(S) \in Nat
<1>1. Cardinality(S) \in Nat /\ ExistsBijection(1..Cardinality(S), S)
  BY FS_CardinalityType
<1>2. PICK f \in Bijection(1..Cardinality(S), S) : TRUE
  BY <1>1 DEF ExistsBijection
<1>3. f \in [1..Cardinality(S) -> S] /\ IsInjective(f)
  BY <1>2 DEF Bijection, Injection
<1>4. SetToSeq(S) \in [1..Cardinality(S) -> S] /\ IsInjective(SetToSeq(S))
  BY <1>3 DEF SetToSeq
<1> QED BY <1>1, <1>4, SeqDef

\* What holds of 0, and of each successor of a number it holds of, holds of
\* every number.
LEMMA Induct ==
  ASSUME NEW T, 0 \in T, \A n \in Nat : n \in T => n + 1 \in T
  PROVE  Nat \subseteq T
<1>1. SUFFICES ASSUME Nat \ T # {} PROVE FALSE
  OBVIOUS
<1>2. Nat \ T \subseteq Nat
  OBVIOUS
<1>3. PICK x \in Nat \ T : \A y \in Nat \ T : ~ (<<y, x>> \in OpToRel(<, Nat))
  BY <1>1, <1>2, NatLessThanWellFounded, WFMin, Zenon
<1>4. x # 0 /\ x - 1 \in Nat /\ (x - 1) + 1 = x /\ x - 1 < x
  OBVIOUS
<1>5. x - 1 \notin T
  BY <1>4
<1>6. <<x - 1, x>> \in Nat \X Nat /\ <<x - 1, x>>[1] = x - 1 /\ <<x - 1, x>>[2] = x
  BY <1>4
<1>7. <<x - 1, x>> \in OpToRel(<, Nat)
  BY <1>4, <1>6 DEF OpToRel
<1> QED BY <1>3, <1>4, <1>5, <1>7

\* FlattenSeq puts the lists of a list one behind the other: there are the
\* lists that it has after each.
LEMMA FlattenSteps ==
  ASSUME NEW S, NEW seqs \in Seq(Seq(S))
  PROVE  \E F \in [0 .. Len(seqs) -> Seq(S)] :
           /\ F[0] = <<>> /\ FlattenSeq(seqs) = F[Len(seqs)]
           /\ \A i \in 1 .. Len(seqs) : F[i] = F[i - 1] \o seqs[i]
<1>1. /\ Len(seqs) \in Nat /\ DOMAIN seqs = 1 .. Len(seqs)
      /\ \A i \in 1 .. Len(seqs) : seqs[i] \in Seq(S)
  BY LenProperties, ElementOfSeq
<1>2. <<>> \in Seq(S)
  BY EmptySeq
<1>3. CASE Len(seqs) = 0
  <2>1. FlattenSeq(seqs) = <<>>
    BY <1>3, EmptySeq DEF FlattenSeq
  <2> DEFINE F == [i \in 0 .. Len(seqs) |-> <<>>]
  <2>2. /\ F \in [0 .. Len(seqs) -> Seq(S)] /\ F[0] = <<>> /\ F[Len(seqs)] = <<>>
        /\ \A i \in 1 .. Len(seqs) : FALSE
    BY <1>2, <1>3
  <2> QED BY <2>1, <2>2
<1>4. CASE Len(seqs) # 0
  <2> DEFINE Built(n, F) ==
               F = [i \in 1 .. n |-> IF i = 1 THEN seqs[i] ELSE F[i - 1] \o seqs[i]]
             T == {n \in Nat : \E F : Built(n, F)}
  <2>1. 0 \in T
    <3>1. Built(0, [i \in 1 .. 0 |-> <<>>])
      OBVIOUS
    <3> QED BY <3>1
  <2>2. ASSUME NEW n \in Nat, n \in T PROVE n + 1 \in T
    <3>1. PICK F : Built(n, F)
      BY <2>2
    <3> DEFINE G == [i \in 1 .. n + 1 |->
                       IF i = n + 1 THEN IF n = 0 THEN seqs[1] ELSE F[n] \o seqs[n + 1] ELSE F[i]]
    <3>2. \A i \in 1 .. n : G[i] = F[i]
      OBVIOUS
    <3>3. \A i \in 1 .. n : F[i] = IF i = 1 THEN seqs[i] ELSE F[i - 1] \o seqs[i]
      BY <3>1
    <3>4. \A i \in 1 .. n + 1 : G[i] = IF i = 1 THEN seqs[i] ELSE G[i - 1] \o seqs[i]
      <4>1. ASSUME NEW i \in 1 .. n
            PROVE  G[i] = IF i = 1 THEN seqs[i] ELSE G[i - 1] \o seqs[i]
        <5>1. CASE i = 1
          BY <3>2, <3>3, <5>1
        <5>2. CASE i # 1
          <6>1. i - 1 \in 1 .. n
            BY <5>2
          <6>2. G[i - 1] = F[i - 1] /\ G[i] = F[i]
            BY <3>2, <6>1
          <6> HIDE DEF G
          <6> QED BY <3>3, <5>2, <6>2
        <5> QED BY <5>1, <5>2
      <4>2. G[n + 1] = IF n + 1 = 1 THEN seqs[n + 1] ELSE G[(n + 1) - 1] \o seqs[n + 1]
        <5>1. CASE n = 0
          BY <5>1
        <5>2. CASE n # 0
          <6>1. n \in 1 .. n /\ (n + 1) - 1 = n /\ n + 1 # 1 /\ n + 1 \in 1 .. n + 1
            BY <5>2
          <6>2. G[n] = F[n] /\ G[n + 1] = F[n] \o seqs[n + 1]
            BY <3>2, <5>2, <6>1
          <6> HIDE DEF G
          <6> QED BY <6>1, <6>2
        <5> QED BY <5>1, <5>2
      <4>3. \A i \in 1 .. n + 1 : i \in 1 .. n \/ i = n + 1
        OBVIOUS
      <4> HIDE DEF G
      <4> QED BY <4>1, <4>2, <4>3
    <3>5. G = [i \in 1 .. n + 1 |-> G[i]]
      OBVIOUS
    <3> HIDE DEF G
    <3>6. Built(n + 1, G)
      BY <3>4, <3>5
    <3> HIDE DEF Built
    <3>7. \E H : Built(n + 1, H)
      BY <3>6
    <3> QED BY <3>7
  <2>3. Nat \subseteq T
    <3> HIDE DEF T
    <3> QED BY <2>1, <2>2, Induct
  <2>4. PICK F0 : Built(Len(seqs), F0)
    BY <1>1, <2>3
  <2>5. \E F : /\ FlattenSeq(seqs) = F[Len(seqs)]
               /\ F = [i \in 1 .. Len(seqs) |-> IF i = 1 THEN seqs[i] ELSE F[i - 1] \o seqs[i]]
    BY <1>4, <2>4, Zenon DEF FlattenSeq
  <2>6. PICK F : /\ FlattenSeq(seqs) = F[Len(seqs)]
                 /\ F = [i \in 1 .. Len(seqs) |-> IF i = 1 THEN seqs[i] ELSE F[i - 1] \o seqs[i]]
    BY <2>5
  <2>7. \A i \in 1 .. Len(seqs) : F[i] = IF i = 1 THEN seqs[i] ELSE F[i - 1] \o seqs[i]
    BY <2>6
  <2> DEFINE G == [i \in 0 .. Len(seqs) |-> IF i = 0 THEN <<>> ELSE F[i]]
             U == {n \in Nat : n <= Len(seqs) => G[n] \in Seq(S)}
  <2>8. G[0] = <<>> /\ (\A i \in 1 .. Len(seqs) : G[i] = F[i]) /\ G[Len(seqs)] = F[Len(seqs)]
    BY <1>1, <1>4
  <2>9. ASSUME NEW i \in 1 .. Len(seqs) PROVE G[i] = G[i - 1] \o seqs[i]
    <3>1. CASE i = 1
      <4>1. G[i] = seqs[i] /\ G[i - 1] = <<>>
        BY <2>7, <2>8, <3>1
      <4> HIDE DEF G
      <4> QED BY <1>1, <4>1, ConcatEmptySeq
    <3>2. CASE i # 1
      <4>1. i - 1 \in 1 .. Len(seqs)
        BY <1>1, <3>2
      <4>2. G[i - 1] = F[i - 1] /\ G[i] = F[i]
        BY <2>8, <4>1
      <4> HIDE DEF G
      <4> QED BY <2>7, <3>2, <4>2
    <3> QED BY <3>1, <3>2
  <2> HIDE DEF G
  <2>10. 0 \in U
    BY <1>2, <2>8
  <2>11. ASSUME NEW n \in Nat, n \in U PROVE n + 1 \in U
    <3> SUFFICES ASSUME n + 1 <= Len(seqs) PROVE G[n + 1] \in Seq(S)
      OBVIOUS
    <3>1. n + 1 \in 1 .. Len(seqs) /\ n <= Len(seqs) /\ (n + 1) - 1 = n
      BY <1>1
    <3>2. G[n] \in Seq(S) /\ seqs[n + 1] \in Seq(S) /\ G[n + 1] = G[n] \o seqs[n + 1]
      BY <1>1, <2>9, <2>11, <3>1
    <3> QED BY <3>2, ConcatProperties
  <2>12. Nat \subseteq U
    <3> HIDE DEF U
    <3> QED BY <2>10, <2>11, Induct
  <2>13. \A n \in 0 .. Len(seqs) : G[n] \in Seq(S)
    BY <1>1, <2>12
  <2>14. G \in [0 .. Len(seqs) -> Seq(S)]
    BY <2>13 DEF G
  <2> QED BY <2>6, <2>8, <2>9, <2>14
<1> QED BY <1>3, <1>4

\* How many places of a list hold something of M.
CountOf(seq, M) == Cardinality({i \in DOMAIN seq : seq[i] \in M})

\* Of two lists, one behind the other, the counts add up.
LEMMA CountConcat ==
  ASSUME NEW S, NEW a \in Seq(S), NEW b \in Seq(S), NEW M
  PROVE  /\ CountOf(a, M) \in Nat /\ CountOf(b, M) \in Nat
         /\ CountOf(a \o b, M) = CountOf(a, M) + CountOf(b, M)
<1> DEFINE new == a \o b
           A == {i \in 1 .. Len(a) : a[i] \in M}
           B == {i \in 1 .. Len(b) : b[i] \in M}
           C == {i \in 1 .. Len(a) + Len(b) : new[i] \in M}
           D == C \ A
           shift == [i \in B |-> Len(a) + i]
<1>1. /\ Len(a) \in Nat /\ DOMAIN a = 1 .. Len(a) /\ Len(b) \in Nat /\ DOMAIN b = 1 .. Len(b)
      /\ DOMAIN new = 1 .. Len(a) + Len(b)
      /\ \A k \in 1 .. Len(a) : new[k] = a[k]
      /\ \A k \in 1 .. Len(b) : new[Len(a) + k] = b[k]
      /\ \A k \in Len(a) + 1 .. Len(a) + Len(b) :
           k - Len(a) \in 1 .. Len(b) /\ new[k] = b[k - Len(a)]
  BY ConcatPlaces
<1>2. IsFiniteSet(1 .. Len(a)) /\ IsFiniteSet(1 .. Len(b))
  BY <1>1, FS_Interval
<1>3. IsFiniteSet(A) /\ IsFiniteSet(B)
  BY <1>2, FS_Subset
<1>4. Cardinality(A) \in Nat /\ Cardinality(B) \in Nat
  BY <1>3, FS_CardinalityType
<1> HIDE DEF new
<1>5. A \subseteq C
  BY <1>1
<1>6. ASSUME NEW k PROVE k \in D <=> k \in Len(a) + 1 .. Len(a) + Len(b) /\ new[k] \in M
  BY <1>1
<1>7. shift \in Bijection(B, D)
  <2>1. ASSUME NEW i \in B PROVE shift[i] \in D
    <3>1. i \in 1 .. Len(b) /\ b[i] \in M /\ shift[i] = Len(a) + i
      OBVIOUS
    <3>2. Len(a) + i \in Len(a) + 1 .. Len(a) + Len(b) /\ new[Len(a) + i] \in M
      BY <1>1, <3>1
    <3> HIDE DEF D, shift
    <3> QED BY <1>6, <3>1, <3>2
  <2>2. ASSUME NEW i \in B, NEW j \in B, shift[i] = shift[j] PROVE i = j
    <3>1. Len(a) + i = Len(a) + j /\ i \in Nat /\ j \in Nat
      BY <2>2
    <3> QED BY <1>1, <3>1
  <2>3. ASSUME NEW k \in D PROVE \E i \in B : shift[i] = k
    <3>1. k \in Len(a) + 1 .. Len(a) + Len(b) /\ new[k] \in M
      BY <1>6
    <3>2. k - Len(a) \in B /\ Len(a) + (k - Len(a)) = k
      BY <1>1, <3>1
    <3>3. shift[k - Len(a)] = k
      BY <3>2
    <3> QED BY <3>2, <3>3
  <2>4. shift \in [B -> D]
    <3> HIDE DEF D
    <3>1. shift \in [B -> {shift[i] : i \in B}]
      OBVIOUS
    <3> HIDE DEF shift, B
    <3> QED BY <2>1, <3>1
  <2> HIDE DEF shift, B, D
  <2> QED BY <2>2, <2>3, <2>4 DEF Bijection, Injection, Surjection, IsInjective
<1>8. IsFiniteSet(D) /\ Cardinality(D) = Cardinality(B)
  <2> HIDE DEF B, D, shift
  <2>1. ExistsBijection(B, D)
    BY <1>7 DEF ExistsBijection
  <2> QED BY <1>3, <2>1, FS_Bijection
<1>9. C = A \cup D /\ A \cap D = {}
  <2> HIDE DEF A, C
  <2> QED BY <1>5
<1>10. Cardinality(C) = Cardinality(A) + Cardinality(B)
  <2>1. Cardinality(A \cup D) = Cardinality(A) + Cardinality(D) - Cardinality(A \cap D)
    <3> HIDE DEF A, D
    <3> QED BY <1>3, <1>8, FS_Union
  <2>2. Cardinality({}) = 0
    BY FS_EmptySet
  <2>3. Cardinality(A \cap D) = 0 /\ Cardinality(C) = Cardinality(A \cup D)
    <3> HIDE DEF A, B, C, D
    <3> QED BY <1>9, <2>2, Zenon
  <2> HIDE DEF A, B, C, D
  <2> QED BY <1>4, <1>8, <2>1, <2>3
<1>11. CountOf(a, M) = Cardinality(A) /\ CountOf(b, M) = Cardinality(B)
       /\ CountOf(new, M) = Cardinality(C)
  BY <1>1 DEF CountOf
<1> HIDE DEF A, B, C, D, shift
<1>12. CountOf(a \o b, M) = Cardinality(C)
  BY <1>11 DEF new
<1> QED BY <1>4, <1>10, <1>11, <1>12

\* Of a list of one, and of the empty one.
LEMMA CountFew ==
  ASSUME NEW M, NEW x
  PROVE  CountOf(<<>>, M) = 0 /\ CountOf(<<x>>, M) = IF x \in M THEN 1 ELSE 0
<1>1. {i \in DOMAIN <<>> : <<>>[i] \in M} = {}
  OBVIOUS
<1>2. {i \in DOMAIN <<x>> : <<x>>[i] \in M} = IF x \in M THEN {1} ELSE {}
  OBVIOUS
<1> QED BY <1>1, <1>2, FS_EmptySet, FS_Singleton DEF CountOf

\* The head counts for one if it is of M.
LEMMA CountTail ==
  ASSUME NEW S, NEW a \in Seq(S), a # <<>>, NEW M
  PROVE  /\ CountOf(Tail(a), M) \in Nat
         /\ CountOf(a, M) = (IF Head(a) \in M THEN 1 ELSE 0) + CountOf(Tail(a), M)
<1> DEFINE one == <<Head(a)>>
           rest == Tail(a)
<1>1. one \in Seq(S) /\ rest \in Seq(S) /\ a = one \o rest
  BY HeadTailProperties
<1>2. CountOf(one, M) = IF Head(a) \in M THEN 1 ELSE 0
  BY CountFew
<1> HIDE DEF one, rest
<1>3. CountOf(rest, M) \in Nat /\ CountOf(a, M) = CountOf(one, M) + CountOf(rest, M)
  BY <1>1, CountConcat
<1> QED BY <1>2, <1>3 DEF rest

---------------------------------------------------------------------------
(* The queue.                                                              *)

\* Closures of W everywhere, delays of at most limit, and a batch only inside
\* Drain.
QueueOf(W, limit) ==
  /\ pending \in Seq(W) /\ ready \in Seq(W)
  /\ delayed \in Seq([wait : 0 .. limit, work : W])
  /\ draining \in BOOLEAN
  /\ ~draining => ready = <<>>

---------------------------------------------------------------------------
(* Delayed_.                                                               *)

\* Each of the first Cardinality(I) numbers is the rank of a place in I.
LEMMA PlaceExists ==
  ASSUME NEW n \in Nat, NEW I \in SUBSET (1 .. n), NEW k \in 1 .. Cardinality(I)
  PROVE  /\ IsFiniteSet(I) /\ Place(I, k) \in I
         /\ Cardinality({j \in I : j <= Place(I, k)}) = k
<1> DEFINE upTo(i) == {j \in I : j <= i}
           rank == [i \in I |-> Cardinality(upTo(i))]
<1>0. \A i \in I : i \in Nat
  OBVIOUS
<1>1. IsFiniteSet(I)
  <2>1. IsFiniteSet(1 .. n)
    BY FS_Interval
  <2> QED BY <2>1, FS_Subset
<1>2. ASSUME NEW i \in I
      PROVE  /\ IsFiniteSet(upTo(i)) /\ rank[i] \in 1 .. Cardinality(I)
  <2>1. IsFiniteSet(upTo(i)) /\ Cardinality(upTo(i)) <= Cardinality(I)
    BY <1>1, FS_Subset
  <2>2. i \in upTo(i)
    OBVIOUS
  <2>3. Cardinality(upTo(i)) # 0
    BY <2>1, <2>2, FS_EmptySet
  <2>4. Cardinality(upTo(i)) \in Nat /\ Cardinality(I) \in Nat
    BY <1>1, <2>1, FS_CardinalityType
  <2>5. Cardinality(upTo(i)) \in 1 .. Cardinality(I)
    BY <2>1, <2>3, <2>4
  <2> QED BY <2>1, <2>5
<1>3. ASSUME NEW i \in I, NEW j \in I, i < j PROVE rank[i] # rank[j]
  <2>1. upTo(i) \in SUBSET upTo(j)
    <3>1. i \in Nat /\ j \in Nat
      BY <1>0
    <3>2. \A m \in I : m <= i => m <= j
      BY <1>0, <1>3, <3>1
    <3> QED BY <3>2
  <2>2. j \in upTo(j) /\ j \notin upTo(i)
    BY <1>3
  <2>3. Cardinality(upTo(i)) # Cardinality(upTo(j))
    BY <1>2, <2>1, <2>2, FS_Subset
  <2> QED BY <2>3
<1>4. rank \in Injection(I, 1 .. Cardinality(I))
  <2>1. rank \in [I -> 1 .. Cardinality(I)]
    BY <1>2
  <2>2. \A i, j \in I : i # j => rank[i] # rank[j]
    <3> SUFFICES ASSUME NEW i \in I, NEW j \in I, i # j PROVE rank[i] # rank[j]
      OBVIOUS
    <3>1. i < j \/ j < i
      OBVIOUS
    <3> HIDE DEF rank
    <3> QED BY <1>3, <3>1
  <2> HIDE DEF rank
  <2> QED BY <2>1, <2>2 DEF Injection, IsInjective
<1>5. Cardinality(I) \in Nat /\ IsFiniteSet(1 .. Cardinality(I))
      /\ Cardinality(1 .. Cardinality(I)) = Cardinality(I)
  <2>1. Cardinality(I) \in Nat
    BY <1>1, FS_CardinalityType
  <2> QED BY <2>1, FS_Interval
<1> HIDE DEF rank
<1>6. rank \in Surjection(I, 1 .. Cardinality(I))
  BY <1>4, <1>5, FS_Injection
<1>7. PICK i \in I : rank[i] = k
  BY <1>6 DEF Surjection
<1>8. Cardinality(upTo(i)) = k
  BY <1>7 DEF rank
<1> QED BY <1>1, <1>8 DEF Place

\* What the scan takes out of a list, or leaves in it, is a list of the same.
LEMMA PickedIsSeq ==
  ASSUME NEW D, NEW ds \in Seq(D), NEW I \in SUBSET DOMAIN ds
  PROVE  Picked(ds, I) \in Seq(D)
<1>1. Len(ds) \in Nat /\ DOMAIN ds = 1 .. Len(ds) /\ \A i \in 1 .. Len(ds) : ds[i] \in D
  BY LenProperties, ElementOfSeq
<1>2. IsFiniteSet(I)
  <2>1. IsFiniteSet(1 .. Len(ds))
    BY <1>1, FS_Interval
  <2> QED BY <1>1, <2>1, FS_Subset
<1>3. Cardinality(I) \in Nat
  BY <1>2, FS_CardinalityType
<1>4. \A k \in 1 .. Cardinality(I) : Place(I, k) \in I
  BY <1>1, PlaceExists
<1>5. \A k \in 1 .. Cardinality(I) : ds[Place(I, k)] \in D
  BY <1>1, <1>4
<1>6. Picked(ds, I) \in [1 .. Cardinality(I) -> D]
  BY <1>5 DEF Picked
<1> QED BY <1>3, <1>6, SeqDef

\* What is picked is of the list, each of another place of I.
LEMMA PickedPlaces ==
  ASSUME NEW D, NEW ds \in Seq(D), NEW I \in SUBSET DOMAIN ds
  PROVE  /\ DOMAIN Picked(ds, I) = 1 .. Cardinality(I)
         /\ \A k \in 1 .. Cardinality(I) : Place(I, k) \in I /\ Picked(ds, I)[k] = ds[Place(I, k)]
         /\ \A j, k \in 1 .. Cardinality(I) : Place(I, j) = Place(I, k) => j = k
<1>1. Len(ds) \in Nat /\ DOMAIN ds = 1 .. Len(ds)
  BY LenProperties
<1>2. \A k \in 1 .. Cardinality(I) :
        Place(I, k) \in I /\ Cardinality({j \in I : j <= Place(I, k)}) = k
  BY <1>1, PlaceExists
<1>3. ASSUME NEW j \in 1 .. Cardinality(I), NEW k \in 1 .. Cardinality(I),
             Place(I, j) = Place(I, k)
      PROVE  j = k
  <2>1. Cardinality({i \in I : i <= Place(I, j)}) = j
    BY <1>2
  <2>2. Cardinality({i \in I : i <= Place(I, k)}) = k
    BY <1>2
  <2> QED BY <1>3, <2>1, <2>2, Zenon
<1> QED BY <1>2, <1>3 DEF Picked

\* The closures of a list of delayed ones, in its order.
LEMMA WorksIsSeq ==
  ASSUME NEW W, NEW Waits, NEW ds \in Seq([wait : Waits, work : W])
  PROVE  Works(ds) \in Seq(W)
<1>1. /\ Len(ds) \in Nat /\ DOMAIN ds = 1 .. Len(ds)
      /\ \A i \in 1 .. Len(ds) : ds[i] \in [wait : Waits, work : W]
  BY LenProperties, ElementOfSeq
<1>2. Works(ds) \in [1 .. Len(ds) -> W]
  BY <1>1 DEF Works
<1> QED BY <1>1, <1>2, SeqDef

\* Time only shortens what is left of a delay, down to 0.
LEMMA ElapsedIsSeq ==
  ASSUME NEW W, NEW limit \in Nat, delayed \in Seq([wait : 0 .. limit, work : W])
  PROVE  Elapsed \in Seq([wait : 0 .. limit, work : W])
<1> DEFINE D == [wait : 0 .. limit, work : W]
<1>1. /\ Len(delayed) \in Nat /\ DOMAIN delayed = 1 .. Len(delayed)
      /\ \A i \in 1 .. Len(delayed) : delayed[i] \in D
  BY LenProperties, ElementOfSeq
<1>2. ASSUME NEW d \in D
      PROVE  [d EXCEPT !.wait = IF d.wait > 0 THEN d.wait - 1 ELSE 0] \in D
  <2>1. (IF d.wait > 0 THEN d.wait - 1 ELSE 0) \in 0 .. limit
    OBVIOUS
  <2> QED BY <2>1
<1>3. Elapsed \in [1 .. Len(delayed) -> D]
  BY <1>1, <1>2 DEF Elapsed
<1> HIDE DEF D
<1>4. Elapsed \in Seq(D)
  BY <1>1, <1>3, SeqDef
<1> QED BY <1>4 DEF D

---------------------------------------------------------------------------
(* The critical sections.                                                  *)

\* What is posted while the batch b waits stands at the end of the line.
LEMMA BehindLine ==
  ASSUME NEW S, NEW b \in Seq(S), pending \in Seq(S), NEW works \in Seq(S)
  PROVE  (b \o pending) \o works = b \o (pending \o works)
  BY ConcatAssociative

\* A line behind which others join is what TaskQueue calls joined.
LEMMA LongerLine ==
  ASSUME NEW S, NEW a \in Seq(S), NEW b \in Seq(S)
  PROVE  Queue!IsPrefix(a, a \o b)
  BY PrefixOfConcat DEF IsPrefix, Queue!IsPrefix

\* Post: the closures join the line at its end.
LEMMA PostJoins ==
  ASSUME NEW CONSTANT W, NEW CONSTANT limit, QueueOf(W, limit), NEW works \in Seq(W), Post(works),
         UNCHANGED <<delayed, ready, draining>>
  PROVE  QueueOf(W, limit)' /\ Line' = Line \o works /\ Queue!Join
<1>1. pending' \in Seq(W)
  BY ConcatProperties DEF Post, QueueOf
<1>2. QueueOf(W, limit)'
  BY <1>1 DEF QueueOf
<1>3. Line' = Line \o works
  <2>1. ready \in Seq(W) /\ pending \in Seq(W)
    BY DEF QueueOf
  <2>2. (ready \o pending) \o works = ready \o (pending \o works)
    BY <2>1, BehindLine, Zenon
  <2> QED BY <2>2 DEF Line, Post
<1>4. Line \in Seq(W)
  BY ConcatProperties DEF Line, QueueOf
<1>5. Queue!IsPrefix(Line, Line')
  BY <1>3, <1>4, LongerLine
<1> QED BY <1>2, <1>3, <1>5 DEF Queue!Join

\* The lists are as they were, or others of the same kind are delayed.
LEMMA LineStays ==
  ASSUME NEW CONSTANT W, NEW CONSTANT limit, QueueOf(W, limit), UNCHANGED <<pending, ready, draining>>,
         delayed' \in Seq([wait : 0 .. limit, work : W])
  PROVE  QueueOf(W, limit)' /\ Line' = Line
  BY DEF QueueOf, Line

\* Drain: what is due joins the line at its end, and the line is the batch.
LEMMA DrainJoins ==
  ASSUME NEW CONSTANT W, NEW CONSTANT limit, QueueOf(W, limit), Drain
  PROVE  QueueOf(W, limit)' /\ ToSet(Line) \subseteq ToSet(Line') /\ Queue!Join
<1> DEFINE D == [wait : 0 .. limit, work : W]
           works == Works(Picked(delayed, Due))
<1>1. delayed \in Seq(D) /\ Due \in SUBSET DOMAIN delayed
  BY DEF QueueOf, Due
<1>2. Picked(delayed, Due) \in Seq(D) /\ Picked(delayed, DOMAIN delayed \ Due) \in Seq(D)
  BY <1>1, PickedIsSeq
<1>3. works \in Seq(W)
  BY <1>2, WorksIsSeq
<1>4. /\ pending \in Seq(W) /\ ready = <<>>
      /\ ready' = pending \o works /\ pending' = <<>> /\ draining' = TRUE
      /\ delayed' = Picked(delayed, DOMAIN delayed \ Due)
  BY DEF QueueOf, Drain
<1> HIDE DEF works
<1>5. pending \o works \in Seq(W) /\ <<>> \in Seq(W)
  BY <1>3, <1>4, ConcatProperties, EmptySeq
<1>6. QueueOf(W, limit)'
  BY <1>2, <1>4, <1>5 DEF QueueOf
<1>7. Line = pending /\ Line' = pending \o works
  BY <1>4, <1>5, ConcatEmptySeq DEF Line
<1>8. Queue!IsPrefix(Line, Line') /\ ToSet(Line) \subseteq ToSet(Line')
  BY <1>3, <1>4, <1>7, LongerLine, ConcatRoster
<1> QED BY <1>6, <1>8 DEF Queue!Join

\* With nothing delayed the line is only moved into the batch.
LEMMA DrainOfNothingDelayed ==
  ASSUME NEW CONSTANT W, NEW CONSTANT limit, QueueOf(W, limit), delayed = <<>>, Drain
  PROVE  Line' = Line /\ delayed' = <<>>
<1>1. Due = {} /\ DOMAIN delayed \ Due = {}
  BY DEF Due
<1>2. 1 .. Cardinality({}) = {}
  BY FS_EmptySet
<1>3. Picked(delayed, {}) = <<>>
  BY <1>2 DEF Picked
<1>4. Works(<<>>) = <<>>
  BY DEF Works
<1>5. /\ pending \in Seq(W) /\ ready = <<>>
      /\ ready' = pending \o <<>> /\ pending' = <<>> /\ delayed' = <<>>
  BY <1>1, <1>3, <1>4 DEF QueueOf, Drain
<1>6. pending \o <<>> = pending /\ <<>> \o pending = pending
  BY <1>5, ConcatEmptySeq
<1> QED BY <1>5, <1>6 DEF Line

\* A closure runs: it leaves the line at its head, and what it posts joins at
\* the end, behind what other threads have posted meanwhile.
LEMMA WorkRunsHead ==
  ASSUME NEW CONSTANT W, NEW CONSTANT limit, QueueOf(W, limit), NEW posted \in Seq(W), Work(posted)
  PROVE  /\ QueueOf(W, limit)' /\ Head(ready) \in W /\ Queue!RunHead
         /\ ToSet(Line) \subseteq ToSet(Line') \cup {Head(ready)}
         /\ Line \in Seq(W) /\ Line # <<>> /\ Head(Line) = Head(ready)
         /\ Line' = Tail(Line) \o posted
<1>1. /\ pending \in Seq(W) /\ ready \in Seq(W) /\ ready # <<>> /\ draining
      /\ ready' = Tail(ready) /\ pending' = pending \o posted
      /\ UNCHANGED <<delayed, draining>>
  BY DEF QueueOf, Work, Post
<1>2. /\ Head(ready) \in W /\ Tail(ready) \in Seq(W)
      /\ ToSet(ready) \subseteq ToSet(Tail(ready)) \cup {Head(ready)}
  BY <1>1, TailRoster
<1>3. pending \o posted \in Seq(W)
  BY <1>1, ConcatProperties
<1>4. QueueOf(W, limit)'
  BY <1>1, <1>2, <1>3 DEF QueueOf
<1> DEFINE rest == Tail(ready) \o pending
<1>5. Line # <<>> /\ Tail(Line) = rest
  BY <1>1, TailOfConcat DEF Line
<1>6. rest \in Seq(W)
  BY <1>1, <1>2, ConcatProperties
<1>7. Line' = rest \o posted
  <2>1. (Tail(ready) \o pending) \o posted = Tail(ready) \o (pending \o posted)
    BY <1>1, <1>2, BehindLine, Zenon
  <2> QED BY <1>1, <2>1 DEF Line
<1>8. ToSet(Line) = ToSet(ready) \cup ToSet(pending)
  BY <1>1, ConcatRoster DEF Line
<1>9. ToSet(rest) = ToSet(Tail(ready)) \cup ToSet(pending)
  <2> DEFINE left == Tail(ready)
  <2>1. left \in Seq(W) /\ pending \in Seq(W) /\ rest = left \o pending
    BY <1>1, <1>2
  <2> HIDE DEF left, rest
  <2>2. ToSet(left \o pending) = ToSet(left) \cup ToSet(pending)
    BY <2>1, ConcatRoster
  <2> QED BY <2>1, <2>2 DEF left
<1> HIDE DEF rest
<1>10. Queue!IsPrefix(Tail(Line), Line') /\ ToSet(rest) \subseteq ToSet(Line')
  <2>1. Queue!IsPrefix(rest, rest \o posted)
    BY <1>6, LongerLine
  <2>2. ToSet(rest) \subseteq ToSet(rest \o posted)
    BY <1>6, ConcatRoster
  <2> QED BY <1>5, <1>7, <2>1, <2>2
<1>11. ToSet(Line) \subseteq ToSet(Line') \cup {Head(ready)}
  BY <1>2, <1>8, <1>9, <1>10
<1>12. Line \in Seq(W)
  BY <1>1, ConcatProperties DEF Line
<1>13. Head(Line) = Head(ready)
  <2>1. /\ Len(ready) \in Nat \ {0} /\ Head(ready) = ready[1]
        /\ \A k \in 1 .. Len(ready) : Line[k] = ready[k]
    BY <1>1, TailPlaces, ConcatPlaces DEF Line
  <2>2. Line[1] = ready[1]
    BY <2>1
  <2>3. Head(Line) = Line[1]
    BY <1>5, <1>12, TailPlaces
  <2> QED BY <2>1, <2>2, <2>3
<1> QED BY <1>2, <1>4, <1>5, <1>7, <1>10, <1>11, <1>12, <1>13 DEF Queue!RunHead

\* Drain returns to Tick when its batch is used up.
LEMMA DrainReturnsLeavesLine ==
  ASSUME NEW CONSTANT W, NEW CONSTANT limit, QueueOf(W, limit), DrainReturns
  PROVE  QueueOf(W, limit)' /\ Line' = Line
  BY DEF QueueOf, DrainReturns, Line

\* The queue dies with the platform.
LEMMA DiscardedEmpties ==
  ASSUME NEW CONSTANT W, NEW CONSTANT limit, QueueOf(W, limit), Discarded
  PROVE  QueueOf(W, limit)' /\ Queue!Discard
<1>1. /\ ready = <<>> /\ ready' = ready /\ pending' = <<>> /\ delayed' = <<>>
      /\ draining' = draining /\ draining \in BOOLEAN
  BY DEF QueueOf, Discarded
<1>2. \A S : <<>> \in Seq(S) /\ <<>> \o <<>> = <<>>
  BY EmptySeq, ConcatEmptySeq
<1> QED BY <1>1, <1>2 DEF QueueOf, Line, Queue!Discard

---------------------------------------------------------------------------
(* What a list of events leads its listener to believe.                    *)

\* The list of a set has each element of it.
LEMMA ListHasAll ==
  ASSUME NEW S, IsFiniteSet(S)
  PROVE  ToSet(SetToSeq(S)) = S
<1> DEFINE n == Cardinality(S)
           f == SetToSeq(S)
<1>1. f \in Seq(S) /\ DOMAIN f = 1..n /\ IsInjective(f) /\ n \in Nat
  BY ListOfSet
<1>2. f \in [1..n -> S]
  <2>1. Len(f) = n
    BY <1>1, LenProperties
  <2> QED BY <1>1, <2>1, ElementOfSeq, LenProperties
<1>3. f \in Injection(1..n, S)
  BY <1>1, <1>2 DEF Injection, IsInjective
<1>4. IsFiniteSet(1..n) /\ Cardinality(1..n) = n
  BY <1>1, FS_Interval
<1> HIDE DEF n, f
<1>5. f \in Surjection(1..n, S)
  BY <1>3, <1>4, FS_Injection DEF n
<1>6. \A s \in S : \E i \in 1..n : f[i] = s
  BY <1>5 DEF Surjection
<1>7. ToSet(f) = S
  BY <1>1, <1>2, <1>6 DEF ToSet
<1> QED BY <1>7 DEF f

\* Of the events in M, x alone makes the listener believe; the one who hears
\* none of them believes what he did.
Believes(s, M, x, b) == LastOf(s, M, x) \/ (ToSet(s) \cap M = {} /\ b)

\* Of one list behind another, the second is heard with what the first left.
LEMMA BelievesConcat ==
  ASSUME NEW S, NEW a \in Seq(S), NEW c \in Seq(S), NEW M, NEW x, NEW b
  PROVE  Believes(a \o c, M, x, b) <=> Believes(c, M, x, Believes(a, M, x, b))
<1> DEFINE new == a \o c
<1>1. ToSet(new) = ToSet(a) \cup ToSet(c)
  BY ConcatRoster
<1>2. /\ LastOf(a, M, x) /\ ToSet(c) \cap M = {} => LastOf(new, M, x)
      /\ LastOf(c, M, x) => LastOf(new, M, x)
  BY LastInConcat
<1>3. /\ Len(a) \in Nat /\ DOMAIN a = 1 .. Len(a) /\ Len(c) \in Nat /\ DOMAIN c = 1 .. Len(c)
      /\ DOMAIN new = 1 .. Len(a) + Len(c)
      /\ \A k \in 1 .. Len(a) : new[k] = a[k]
      /\ \A k \in 1 .. Len(c) : new[Len(a) + k] = c[k]
      /\ \A k \in Len(a) + 1 .. Len(a) + Len(c) :
           k - Len(a) \in 1 .. Len(c) /\ new[k] = c[k - Len(a)]
  BY ConcatPlaces
<1> HIDE DEF new
<1>4. ASSUME LastOf(new, M, x)
      PROVE  LastOf(c, M, x) \/ (LastOf(a, M, x) /\ ToSet(c) \cap M = {})
  <2>1. PICK i \in 1 .. Len(a) + Len(c) :
               new[i] = x /\ \A j \in 1 .. Len(a) + Len(c) : new[j] \in M => j <= i
    BY <1>3, <1>4 DEF LastOf
  <2>2. x \in M
    BY <1>4 DEF LastOf
  <2>3. \A k \in 1 .. Len(c) : Len(a) + k \in 1 .. Len(a) + Len(c)
    BY <1>3
  <2>4. \A k \in 1 .. Len(a) : k \in 1 .. Len(a) + Len(c)
    BY <1>3
  <2>5. CASE i \in 1 .. Len(a)
    <3>1. \A k \in 1 .. Len(c) : Len(a) + k > i
      BY <1>3, <2>5
    <3>2. \A k \in 1 .. Len(c) : c[k] \notin M
      BY <1>3, <2>1, <2>3, <3>1
    <3>3. ToSet(c) \cap M = {}
      BY <1>3, <3>2 DEF ToSet
    <3>4. a[i] = x /\ \A j \in 1 .. Len(a) : a[j] \in M => j <= i
      BY <1>3, <2>1, <2>4, <2>5
    <3> QED BY <1>3, <2>2, <2>5, <3>3, <3>4 DEF LastOf
  <2>6. CASE i \in Len(a) + 1 .. Len(a) + Len(c)
    <3>1. i - Len(a) \in 1 .. Len(c) /\ c[i - Len(a)] = x
      BY <1>3, <2>1, <2>6
    <3>2. \A k \in 1 .. Len(c) : c[k] \in M => Len(a) + k <= i
      BY <1>3, <2>1, <2>3
    <3>3. \A k \in 1 .. Len(c) : c[k] \in M => k <= i - Len(a)
      BY <1>3, <2>1, <3>2
    <3> QED BY <1>3, <2>2, <3>1, <3>3 DEF LastOf
  <2> QED BY <1>3, <2>1, <2>5, <2>6
<1>5. LastOf(c, M, x) => ~(ToSet(c) \cap M = {})
  BY DEF LastOf, ToSet
<1>6. ASSUME ToSet(new) \cap M = {} PROVE ToSet(a) \cap M = {} /\ ToSet(c) \cap M = {}
  BY <1>1, <1>6
<1>7. ASSUME ToSet(a) \cap M = {}, ToSet(c) \cap M = {} PROVE ToSet(new) \cap M = {}
  BY <1>1, <1>7
<1>8. Believes(new, M, x, b) <=> Believes(c, M, x, Believes(a, M, x, b))
  BY <1>2, <1>4, <1>5, <1>6, <1>7 DEF Believes
<1> QED BY <1>8 DEF new

\* A list without events of M changes no belief.
LEMMA BelievesNothingNew ==
  ASSUME NEW s, NEW M, NEW x, NEW b \in BOOLEAN, ToSet(s) \cap M = {}
  PROVE  Believes(s, M, x, b) <=> b
<1>1. ~LastOf(s, M, x)
  BY DEF LastOf, ToSet
<1> QED BY <1>1 DEF Believes

\* A list that has events of M, and not x, makes the listener disbelieve.
LEMMA BelievesOther ==
  ASSUME NEW s, NEW M, NEW x, NEW b \in BOOLEAN, x \notin ToSet(s)
  PROVE  Believes(s, M, x, b) <=> (ToSet(s) \cap M = {} /\ b)
<1>1. ~LastOf(s, M, x)
  BY DEF LastOf, ToSet
<1> QED BY <1>1 DEF Believes

\* A list that has no event of M but x, and that once.
LEMMA BelievesOne ==
  ASSUME NEW S, NEW s \in Seq(S), NEW M, NEW x \in M, NEW b \in BOOLEAN,
         IsInjective(s), ToSet(s) \cap M \subseteq {x}
  PROVE  Believes(s, M, x, b) <=> (x \in ToSet(s) \/ b)
<1>1. Len(s) \in Nat /\ DOMAIN s = 1..Len(s)
  BY LenProperties
<1>2. CASE x \in ToSet(s)
  <2>1. PICK i \in 1..Len(s) : s[i] = x
    BY <1>1, <1>2 DEF ToSet
  <2>2. \A j \in 1..Len(s) : s[j] \in M => j = i
    BY <1>1, <2>1 DEF ToSet, IsInjective
  <2>3. LastOf(s, M, x)
    BY <1>1, <2>1, <2>2 DEF LastOf
  <2> QED BY <1>2, <2>3 DEF Believes
<1>3. CASE x \notin ToSet(s)
  <2>1. ToSet(s) \cap M = {}
    BY <1>3
  <2> QED BY <1>3, <2>1, BelievesNothingNew
<1> QED BY <1>2, <1>3

\* One event.
LEMMA BelievesOneEvent ==
  ASSUME NEW h, NEW M, NEW x \in M, NEW b \in BOOLEAN
  PROVE  Believes(<<h>>, M, x, b) <=> (h = x \/ (h \notin M /\ b))
<1>1. ToSet(<<h>>) = {h}
  BY DEF ToSet
<1>2. DOMAIN <<h>> = {1} /\ <<h>>[1] = h
  OBVIOUS
<1>3. LastOf(<<h>>, M, x) <=> h = x
  BY <1>2 DEF LastOf
<1> QED BY <1>1, <1>3 DEF Believes

\* The head of a list is heard first.
LEMMA BelievesTail ==
  ASSUME NEW S, NEW a \in Seq(S), a # <<>>, NEW M, NEW x \in M, NEW b \in BOOLEAN
  PROVE  Believes(a, M, x, b) <=> Believes(Tail(a), M, x, Head(a) = x \/ (Head(a) \notin M /\ b))
<1> DEFINE one == <<Head(a)>>
           rest == Tail(a)
           c == Believes(one, M, x, b)
           d == (Head(a) = x \/ (Head(a) \notin M /\ b))
<1>1. one \in Seq(S) /\ rest \in Seq(S) /\ a = one \o rest
  BY HeadTailProperties
<1>2. c <=> d
  BY BelievesOneEvent
<1>3. c \in BOOLEAN /\ d \in BOOLEAN
  BY DEF Believes
<1> HIDE DEF one, rest
<1>4. Believes(a, M, x, b) <=> Believes(rest, M, x, c)
  BY <1>1, BelievesConcat
<1> HIDE DEF c, d
<1>5. c = d
  BY <1>2, <1>3
<1>6. Believes(rest, M, x, c) <=> Believes(rest, M, x, d)
  BY <1>5
<1>7. Believes(a, M, x, b) <=> Believes(rest, M, x, d)
  BY <1>4, <1>6
<1> QED BY <1>7 DEF d, rest

\* One after the other: what two lists make believe.
LEMMA InTurn ==
  ASSUME NEW S, NEW a \in Seq(S), NEW c \in Seq(S),
         NEW M, NEW x, NEW b, NEW mid \in BOOLEAN, Believes(a, M, x, b) <=> mid
  PROVE  Believes(a \o c, M, x, b) <=> Believes(c, M, x, mid)
<1> DEFINE new == Believes(a, M, x, b)
<1>1. new \in BOOLEAN
  BY DEF Believes
<1>2. Believes(a \o c, M, x, b) <=> Believes(c, M, x, new)
  BY BelievesConcat
<1>3. new <=> mid
  OBVIOUS
<1> HIDE DEF new
<1>4. new = mid
  BY <1>1, <1>3
<1> QED BY <1>2, <1>4
============================================================================
