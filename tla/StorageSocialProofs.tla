----------------------- MODULE StorageSocialProofs -----------------------
(***************************************************************************)
(* The types and the invariants of the storages and of the social          *)
(* interfaces, for names, files, requests, users, rooms, observers and     *)
(* calls without bound.                                                    *)
(*                                                                         *)
(* Storage. An escape that EncodeName writes is one that DecodeName reads, *)
(* and reading goes on behind it (NameComesBack): no two names are encoded *)
(* alike. The file system still takes some for one file, or for none; but  *)
(* what it does to an encoded name it does to the name (EncodeCommutes),   *)
(* so the names that meet on disk are those that meet without their case   *)
(* and their last dots, and the others have an entry that no write of      *)
(* another touches (OwnEntry). StoreInv says that such an entry holds what *)
(* was saved, also before the mirror is read back. A request is freed when *)
(* its count is zero; RequestInv says where each reference is: with the    *)
(* registry, with the transfer that runs, or with the one closure in the   *)
(* line that is to run it.                                                 *)
(*                                                                         *)
(* Social. The game and the display observers are told by closures that    *)
(* run later and in order. So what they know is what the line will make    *)
(* them believe, and every step that changes a room (RoomsInv) or the      *)
(* display (ShownInv) posts the events that lead there; for a room these   *)
(* are the lists of the loops that compare it with the members of its      *)
(* lobby. The invites of an interface have different ids, and an invite    *)
(* that was rejected has left the list (InviteInv), whichever of the game, *)
(* the overlay's rows and the automatic accept answers it. SwitchInv is    *)
(* about visibility and pause, RowsInv about the rows that were drawn and  *)
(* the clicks on them, TickInv about how far Tick has come.                *)
(***************************************************************************)
EXTENDS Storage, Social, DispatcherProofs

---------------------------------------------------------------------------
(* The names on disk.                                                      *)

\* What a name is made of, before and after it is encoded.
Chars == STRING \cup {"%", "/", "2", "5", "F"}

\* EncodeName makes one of these of each character, in its place.
Encoded(c) == IF IsPlainChar(c) THEN <<c>> ELSE <<"%">> \o Hex[c]

\* What DecodeName asks of a place: is there an escape, and of which byte.
EscapeAt(encoded, i) ==
  /\ encoded[i] = "%" /\ i + 2 <= Len(encoded)
  /\ <<encoded[i + 1], encoded[i + 2]>> \in {Hex[c] : c \in DOMAIN Hex}
MeantAt(encoded, i) ==
  CHOOSE c \in DOMAIN Hex : Hex[c] = <<encoded[i + 1], encoded[i + 2]>>

\* f[i] is the first part of what is built from place i on.
Backwards(L, first, next, f) ==
  f = [i \in 1 .. L + 3 |-> IF i > L THEN <<>> ELSE first[i] \o f[next[i]]]

\* A recursion that only looks behind each place defines a function.
LEMMA BackwardsExists ==
  ASSUME NEW L \in Nat, NEW first, NEW next,
         \A i \in 1..L : next[i] \in i + 1 .. L + 3
  PROVE  \E f : Backwards(L, first, next, f)
<1> DEFINE Built(n, f) ==
             f = [i \in L + 4 - n .. L + 3 |-> IF i > L THEN <<>> ELSE first[i] \o f[next[i]]]
           T == {n \in Nat : n <= L + 3 => \E f : Built(n, f)}
<1>1. 0 \in T
  <2>1. L + 4 - 0 .. L + 3 = {}
    OBVIOUS
  <2>2. Built(0, [i \in {} |-> <<>>])
    BY <2>1
  <2> QED BY <2>2
<1>2. ASSUME NEW n \in Nat, n \in T PROVE n + 1 \in T
  <2> SUFFICES ASSUME n + 1 <= L + 3 PROVE \E f : Built(n + 1, f)
    <3> HIDE DEF Built
    <3> QED OBVIOUS
  <2>1. n <= L + 3
    OBVIOUS
  <2>2. PICK f : Built(n, f)
    BY <1>2, <2>1
  <2> DEFINE j == L + 3 - n
             G == [i \in j .. L + 3 |->
                     IF i = j THEN IF i > L THEN <<>> ELSE first[i] \o f[next[i]] ELSE f[i]]
  <2>3. /\ j \in Nat \ {0} /\ L + 4 - (n + 1) = j /\ L + 4 - n = j + 1
        /\ \A i \in j .. L + 3 : i = j \/ i \in j + 1 .. L + 3
        /\ \A i \in j + 1 .. L + 3 : i # j /\ i \in j .. L + 3
    OBVIOUS
  <2>4. \A i \in j + 1 .. L + 3 : f[i] = IF i > L THEN <<>> ELSE first[i] \o f[next[i]]
    BY <2>2, <2>3
  <2>5. \A i \in j + 1 .. L + 3 : G[i] = f[i]
    BY <2>3
  <2>6. ASSUME NEW i \in j .. L + 3, ~ (i > L) PROVE next[i] \in j + 1 .. L + 3
    <3>1. i \in 1 .. L
      BY <2>3, <2>6
    <3>2. next[i] \in i + 1 .. L + 3
      BY <3>1
    <3> QED BY <3>2
  <2>7. \A i \in j .. L + 3 : G[i] = IF i > L THEN <<>> ELSE first[i] \o f[next[i]]
    <3>1. G[j] = IF j > L THEN <<>> ELSE first[j] \o f[next[j]]
      BY <2>3
    <3> HIDE DEF j, G
    <3> QED BY <2>3, <2>4, <2>5, <3>1
  <2>8. \A i \in j .. L + 3 : G[i] = IF i > L THEN <<>> ELSE first[i] \o G[next[i]]
    <3> HIDE DEF j, G
    <3> QED BY <2>5, <2>6, <2>7
  <2>9. G = [i \in j .. L + 3 |-> G[i]]
    OBVIOUS
  <2>10. Built(n + 1, G)
    <3> HIDE DEF G
    <3>1. G = [i \in j .. L + 3 |-> IF i > L THEN <<>> ELSE first[i] \o G[next[i]]]
      <4> HIDE DEF j
      <4> QED BY <2>8, <2>9
    <3> QED BY <2>3, <3>1
  <2> HIDE DEF Built, G, j
  <2> QED BY <2>10
<1>3. Nat \subseteq T
  <2> HIDE DEF T
  <2> QED BY <1>1, <1>2, Induct
<1>4. L + 3 \in Nat /\ L + 4 - (L + 3) = 1
  OBVIOUS
<1>5. PICK f : Built(L + 3, f)
  <2> HIDE DEF Built
  <2> QED BY <1>3, <1>4
<1>6. Backwards(L, first, next, f)
  BY <1>4, <1>5 DEF Backwards
<1> QED BY <1>6

\* DecodeName goes through the name from its front, and builds the result.
LEMMA DecodeSteps ==
  ASSUME NEW encoded \in Seq(Chars)
  PROVE  \E f : /\ DecodeName(encoded) = f[1]
                /\ \A i \in 1 .. Len(encoded) + 3 :
                     f[i] = IF i > Len(encoded) THEN <<>>
                            ELSE IF EscapeAt(encoded, i) THEN <<MeantAt(encoded, i)>> \o f[i + 3]
                            ELSE <<encoded[i]>> \o f[i + 1]
<1> DEFINE L == Len(encoded)
           first == [i \in 1..L |-> IF EscapeAt(encoded, i) THEN <<MeantAt(encoded, i)>>
                                    ELSE <<encoded[i]>>]
           next == [i \in 1..L |-> IF EscapeAt(encoded, i) THEN i + 3 ELSE i + 1]
           Is(f) == f = [i \in 1 .. L + 3 |->
                           IF i > L THEN <<>>
                           ELSE IF EscapeAt(encoded, i) THEN <<MeantAt(encoded, i)>> \o f[i + 3]
                           ELSE <<encoded[i]>> \o f[i + 1]]
<1>1. L \in Nat
  BY LenProperties
<1>2. \A i \in 1..L : next[i] \in i + 1 .. L + 3
  <2>1. \A i \in 1..L : EscapeAt(encoded, i) => i + 2 <= L
    BY DEF EscapeAt
  <2> QED BY <1>1, <2>1
<1>3. \E f : Backwards(L, first, next, f)
  <2> HIDE DEF L, first, next
  <2> QED BY <1>1, <1>2, BackwardsExists, Zenon
<1>4. PICK f0 : f0 = [i \in 1 .. L + 3 |-> IF i > L THEN <<>> ELSE first[i] \o f0[next[i]]]
  BY <1>3 DEF Backwards
<1>5. Is(f0)
  <2>1. \A i \in 1 .. L + 3 : f0[i] = IF i > L THEN <<>> ELSE first[i] \o f0[next[i]]
    BY <1>4
  <2>2. ASSUME NEW i \in 1 .. L + 3
        PROVE  f0[i] = IF i > L THEN <<>>
                       ELSE IF EscapeAt(encoded, i) THEN <<MeantAt(encoded, i)>> \o f0[i + 3]
                       ELSE <<encoded[i]>> \o f0[i + 1]
    <3>1. CASE i > L
      BY <2>1, <3>1
    <3>2. CASE ~ (i > L)
      <4>1. i \in 1..L
        BY <1>1, <3>2
      <4>2. f0[i] = first[i] \o f0[next[i]]
        BY <2>1, <3>2
      <4>3. EscapeAt(encoded, i) => first[i] = <<MeantAt(encoded, i)>> /\ next[i] = i + 3
        BY <4>1
      <4>4. ~EscapeAt(encoded, i) => first[i] = <<encoded[i]>> /\ next[i] = i + 1
        BY <4>1
      <4> HIDE DEF first, next, L
      <4> QED BY <3>2, <4>2, <4>3, <4>4
    <3> QED BY <3>1, <3>2
  <2>3. f0 = [i \in 1 .. L + 3 |-> f0[i]]
    BY <1>4
  <2> HIDE DEF L, first, next
  <2> QED BY <2>2, <2>3
<1>6. \E f : DecodeName(encoded) = f[1] /\ Is(f)
  BY <1>5, Zenon DEF DecodeName, EscapeAt, MeantAt
<1>7. PICK f : DecodeName(encoded) = f[1] /\ Is(f)
  BY <1>6
<1>8. \A i \in 1 .. L + 3 :
        f[i] = IF i > L THEN <<>>
               ELSE IF EscapeAt(encoded, i) THEN <<MeantAt(encoded, i)>> \o f[i + 3]
               ELSE <<encoded[i]>> \o f[i + 1]
  BY <1>7
<1> QED BY <1>7, <1>8

\* The two bytes that are not plain, and what is made of them.
LEMMA HexDigits ==
  /\ DOMAIN Hex = {"%", "/"} /\ Hex["%"] = <<"2", "5">> /\ Hex["/"] = <<"2", "F">>
  /\ \A c \in DOMAIN Hex :
       /\ Hex[c] \in Seq(Chars) /\ Len(Hex[c]) = 2 /\ Hex[c] = <<Hex[c][1], Hex[c][2]>>
       /\ \A b \in DOMAIN Hex : Hex[b] = Hex[c] => b = c
<1>1. DOMAIN Hex = {"%", "/"} /\ Hex["%"] = <<"2", "5">> /\ Hex["/"] = <<"2", "F">>
  BY DEF Hex
<1>2. Hex["%"] # Hex["/"]
  <2>1. Hex["%"][2] = "5" /\ Hex["/"][2] = "F"
    BY <1>1
  <2> QED BY <2>1
<1>3. \A c \in DOMAIN Hex : Hex[c] \in Seq(Chars) /\ Len(Hex[c]) = 2
                           /\ Hex[c] = <<Hex[c][1], Hex[c][2]>>
  <2>1. \A x, y \in Chars : <<x, y>> \in Seq(Chars) /\ Len(<<x, y>>) = 2
    OBVIOUS
  <2>2. <<"2", "5">> \in Seq(Chars) /\ <<"2", "F">> \in Seq(Chars)
    BY <2>1 DEF Chars
  <2>3. Len(<<"2", "5">>) = 2 /\ Len(<<"2", "F">>) = 2
    OBVIOUS
  <2>4. <<"2", "5">> = <<<<"2", "5">>[1], <<"2", "5">>[2]>>
        /\ <<"2", "F">> = <<<<"2", "F">>[1], <<"2", "F">>[2]>>
    OBVIOUS
  <2>5. ASSUME NEW c \in {"%", "/"}
        PROVE  Hex[c] \in Seq(Chars) /\ Len(Hex[c]) = 2 /\ Hex[c] = <<Hex[c][1], Hex[c][2]>>
    <3>1. CASE c = "%"
      BY <1>1, <2>2, <2>3, <2>4, <3>1, Zenon
    <3>2. CASE c = "/"
      BY <1>1, <2>2, <2>3, <2>4, <3>2, Zenon
    <3> QED BY <3>1, <3>2
  <2> QED BY <1>1, <2>5
<1> QED BY <1>1, <1>2, <1>3

\* A plain character stands for itself, and is not the sign of an escape; of
\* another an escape is made that means it.
LEMMA EncodedParts ==
  ASSUME NEW c \in Chars
  PROVE  /\ Encoded(c) \in Seq(Chars)
         /\ IsPlainChar(c) => Encoded(c) = <<c>> /\ c # "%"
         /\ ~IsPlainChar(c) =>
              /\ Len(Encoded(c)) = 3 /\ Encoded(c)[1] = "%"
              /\ <<Encoded(c)[2], Encoded(c)[3]>> = Hex[c] /\ c \in DOMAIN Hex
<1>1. CASE IsPlainChar(c)
  <2>1. Encoded(c) = <<c>> /\ c # "%"
    BY <1>1, HexDigits DEF Encoded, IsPlainChar
  <2> QED BY <1>1, <2>1
<1>2. CASE ~IsPlainChar(c)
  <2>1. c \in DOMAIN Hex /\ Encoded(c) = <<"%">> \o Hex[c]
    BY <1>2 DEF Encoded, IsPlainChar
  <2>2. /\ Hex[c] \in Seq(Chars) /\ Len(Hex[c]) = 2 /\ Hex[c] = <<Hex[c][1], Hex[c][2]>>
    BY <2>1, HexDigits
  <2>3. <<"%">> \in Seq(Chars) /\ Len(<<"%">>) = 1
    BY DEF Chars
  <2> DEFINE sign == <<"%">>
             digits == Hex[c]
  <2>4. sign[1] = "%"
    OBVIOUS
  <2> HIDE DEF sign, digits
  <2>5. /\ sign \o digits \in Seq(Chars) /\ Len(sign \o digits) = 3
        /\ (sign \o digits)[1] = "%"
        /\ (sign \o digits)[2] = digits[1] /\ (sign \o digits)[3] = digits[2]
    <3>1. sign \in Seq(Chars) /\ Len(sign) = 1 /\ digits \in Seq(Chars) /\ Len(digits) = 2
      BY <2>2, <2>3 DEF sign, digits
    <3>2. /\ sign \o digits \in Seq(Chars) /\ Len(sign \o digits) = Len(sign) + Len(digits)
          /\ \A i \in 1 .. Len(sign) + Len(digits) :
               (sign \o digits)[i] = IF i <= Len(sign) THEN sign[i] ELSE digits[i - Len(sign)]
      BY <3>1, ConcatProperties
    <3> QED BY <2>4, <3>1, <3>2
  <2>6. Encoded(c) = sign \o digits
    BY <2>1 DEF sign, digits
  <2> QED BY <1>2, <2>1, <2>2, <2>5, <2>6 DEF digits
<1> QED BY <1>1, <1>2

\* What is encoded so far stays in front of what follows.
LEMMA EncodedSoFar ==
  ASSUME NEW n \in Nat, NEW parts \in [1..n -> Seq(Chars)], NEW F \in [0..n -> Seq(Chars)],
         \A i \in 1..n : F[i] = F[i - 1] \o parts[i]
  PROVE  \A k \in 1..n :
           /\ Len(F[k - 1]) \in Nat /\ Len(F[k]) = Len(F[k - 1]) + Len(parts[k])
           /\ Len(F[k]) <= Len(F[n])
           /\ \A q \in 1..Len(parts[k]) : F[n][Len(F[k - 1]) + q] = parts[k][q]
<1> DEFINE Kept(k, m) == Len(F[k]) <= Len(F[m]) /\ \A p \in 1..Len(F[k]) : F[m][p] = F[k][p]
           T == {m \in Nat : m <= n => \A k \in 0..m : Kept(k, m)}
<1>1. /\ \A k \in 0..n : F[k] \in Seq(Chars) /\ Len(F[k]) \in Nat
      /\ \A k \in 1..n : parts[k] \in Seq(Chars) /\ Len(parts[k]) \in Nat /\ k - 1 \in 0..n
                        /\ k \in 0..n
  BY LenProperties
<1>2. ASSUME NEW k \in 1..n
      PROVE  /\ Len(F[k]) = Len(F[k - 1]) + Len(parts[k])
             /\ \A p \in 1..Len(F[k - 1]) : F[k][p] = F[k - 1][p]
             /\ \A q \in 1..Len(parts[k]) : F[k][Len(F[k - 1]) + q] = parts[k][q]
  <2> DEFINE a == F[k - 1]
             b == parts[k]
  <2>1. a \in Seq(Chars) /\ b \in Seq(Chars) /\ F[k] = a \o b
    BY <1>1
  <2> HIDE DEF a, b
  <2>2. /\ Len(a \o b) = Len(a) + Len(b)
        /\ \A p \in 1..Len(a) : (a \o b)[p] = a[p]
        /\ \A q \in 1..Len(b) : (a \o b)[Len(a) + q] = b[q]
    BY <2>1, ConcatPlaces, ConcatProperties
  <2> QED BY <2>1, <2>2 DEF a, b
<1>3. 0 \in T
  BY <1>1
<1>4. ASSUME NEW m \in Nat, m \in T PROVE m + 1 \in T
  <2> SUFFICES ASSUME m + 1 <= n, NEW k \in 0 .. m + 1 PROVE Kept(k, m + 1)
    <3> HIDE DEF Kept
    <3> QED OBVIOUS
  <2>1. m + 1 \in 1..n /\ (m + 1) - 1 = m /\ m <= n /\ m \in 0..n /\ m + 1 \in 0..n
    OBVIOUS
  <2>2. /\ Len(F[m + 1]) = Len(F[m]) + Len(parts[m + 1])
        /\ \A p \in 1..Len(F[m]) : F[m + 1][p] = F[m][p]
    BY <1>2, <2>1
  <2>3. CASE k \in 0..m
    <3>1. Kept(k, m)
      <4> HIDE DEF Kept
      <4> QED BY <1>4, <2>1, <2>3
    <3>2. Len(F[k]) \in Nat /\ Len(F[m]) \in Nat /\ Len(parts[m + 1]) \in Nat
      BY <1>1, <2>1, <2>3
    <3>3. Len(F[k]) <= Len(F[m + 1])
      <4>1. Len(F[k]) <= Len(F[m]) /\ Len(F[m + 1]) = Len(F[m]) + Len(parts[m + 1])
        BY <2>2, <3>1
      <4>2. \A x, y, z \in Nat : x <= y => x <= y + z
        OBVIOUS
      <4> HIDE DEF T, Kept
      <4> QED BY <3>2, <4>1, <4>2
    <3>4. ASSUME NEW p \in 1..Len(F[k]) PROVE F[m + 1][p] = F[k][p]
      <4>1. p \in 1..Len(F[m])
        BY <3>1, <3>2
      <4> QED BY <2>2, <3>1, <4>1
    <3> QED BY <3>3, <3>4
  <2>4. CASE k = m + 1
    BY <1>1, <2>1, <2>4
  <2>5. k \in 0..m \/ k = m + 1
    OBVIOUS
  <2> QED BY <2>3, <2>4, <2>5
<1>5. Nat \subseteq T
  <2> HIDE DEF T
  <2> QED BY <1>3, <1>4, Induct
<1>6. \A k \in 0..n : Kept(k, n)
  <2> HIDE DEF Kept
  <2> QED BY <1>5
<1>7. ASSUME NEW k \in 1..n, NEW q \in 1..Len(parts[k])
      PROVE  F[n][Len(F[k - 1]) + q] = parts[k][q]
  <2>1. Len(F[k - 1]) \in Nat /\ Len(parts[k]) \in Nat /\ Len(F[k]) = Len(F[k - 1]) + Len(parts[k])
    BY <1>1, <1>2
  <2>2. Len(F[k - 1]) + q \in 1..Len(F[k])
    BY <2>1
  <2>3. F[n][Len(F[k - 1]) + q] = F[k][Len(F[k - 1]) + q]
    BY <1>1, <1>6, <2>2
  <2> QED BY <1>2, <2>3
<1> QED BY <1>1, <1>2, <1>6, <1>7

\* DecodeName undoes EncodeName, whatever characters the name has: no two names
\* share an entry of the mirror, and the next process finds the file again.
LEMMA NameComesBack ==
  ASSUME NEW name \in Seq(Chars)
  PROVE  EncodeName(name) \in Seq(Chars) /\ DecodeName(EncodeName(name)) = name
<1> DEFINE n == Len(name)
           parts == [i \in 1..n |-> Encoded(name[i])]
<1>1. n \in Nat /\ DOMAIN name = 1..n /\ \A i \in 1..n : name[i] \in Chars
  BY LenProperties, ElementOfSeq
<1>2. parts \in [1..n -> Seq(Chars)]
  BY <1>1, EncodedParts
<1>3. parts \in Seq(Seq(Chars)) /\ Len(parts) = n
  <2> HIDE DEF n, parts
  <2>1. parts \in Seq(Seq(Chars))
    BY <1>1, <1>2, SeqDef
  <2>2. Len(parts) = n
    BY <1>1, <1>2, <2>1, LenProperties
  <2> QED BY <2>1, <2>2
<1>4. EncodeName(name) = FlattenSeq(parts)
  BY <1>1 DEF EncodeName, Encoded
<1>5. \A i \in 1..n : parts[i] = Encoded(name[i])
  OBVIOUS
<1> HIDE DEF parts, n
<1>6. PICK F \in [0 .. n -> Seq(Chars)] :
        /\ F[0] = <<>> /\ FlattenSeq(parts) = F[n]
        /\ \A i \in 1 .. n : F[i] = F[i - 1] \o parts[i]
  BY <1>3, FlattenSteps
<1> DEFINE e == F[n]
<1>7. e \in Seq(Chars) /\ Len(e) \in Nat /\ EncodeName(name) = e
  BY <1>1, <1>4, <1>6, LenProperties
<1>8. \A k \in 1..n :
        /\ Len(F[k - 1]) \in Nat /\ Len(F[k]) = Len(F[k - 1]) + Len(parts[k])
        /\ Len(F[k]) <= Len(e)
        /\ \A q \in 1..Len(parts[k]) : e[Len(F[k - 1]) + q] = parts[k][q]
  BY <1>1, <1>2, <1>6, EncodedSoFar
<1> HIDE DEF e
<1>9. PICK f : /\ DecodeName(e) = f[1]
               /\ \A i \in 1 .. Len(e) + 3 :
                    f[i] = IF i > Len(e) THEN <<>>
                           ELSE IF EscapeAt(e, i) THEN <<MeantAt(e, i)>> \o f[i + 3]
                           ELSE <<e[i]>> \o f[i + 1]
  BY <1>7, DecodeSteps
<1> DEFINE T == {j \in Nat : j <= n => f[Len(F[n - j]) + 1] = SubSeq(name, n - j + 1, n)}
<1>10. 0 \in T
  <2>1. f[Len(e) + 1] = <<>>
    <3>1. Len(e) + 1 \in 1 .. Len(e) + 3 /\ Len(e) + 1 > Len(e)
      BY <1>7
    <3> QED BY <1>9, <3>1
  <2>2. SubSeq(name, n + 1, n) = <<>>
    BY <1>1, SubSeqEmpty
  <2>3. n - 0 = n /\ n - 0 + 1 = n + 1
    BY <1>1
  <2>4. Len(F[n - 0]) = Len(e)
    BY <2>3 DEF e
  <2> QED BY <2>1, <2>2, <2>3, <2>4
<1>11. ASSUME NEW j \in Nat, j \in T PROVE j + 1 \in T
  <2> SUFFICES ASSUME j + 1 <= n PROVE f[Len(F[n - (j + 1)]) + 1] = SubSeq(name, n - (j + 1) + 1, n)
    OBVIOUS
  <2> DEFINE k == n - j
             p == Len(F[k - 1])
             c == name[k]
  <2>1. k \in 1..n /\ n - (j + 1) = k - 1 /\ n - (j + 1) + 1 = k /\ n - j + 1 = k + 1 /\ j <= n
    BY <1>1
  <2>2. f[Len(F[k]) + 1] = SubSeq(name, k + 1, n)
    BY <1>11, <2>1
  <2>3. SubSeq(name, k, n) = <<c>> \o SubSeq(name, k + 1, n)
    <3> HIDE DEF k
    <3>1. k \in 1..Len(name) /\ n \in k..Len(name)
      BY <1>1, <2>1 DEF n
    <3> QED BY <3>1, SubSeqRecursiveFirst
  <2>4. /\ p \in Nat /\ Len(F[k]) = p + Len(Encoded(c)) /\ Len(F[k]) <= Len(e)
        /\ \A q \in 1..Len(Encoded(c)) : e[p + q] = Encoded(c)[q]
        /\ c \in Chars
    <3> HIDE DEF k
    <3>1. parts[k] = Encoded(c) /\ c \in Chars
      BY <1>1, <1>5, <2>1
    <3>2. /\ p \in Nat /\ Len(F[k]) = p + Len(parts[k]) /\ Len(F[k]) <= Len(e)
          /\ \A q \in 1..Len(parts[k]) : e[p + q] = parts[k][q]
      BY <1>8, <2>1
    <3> QED BY <3>1, <3>2
  <2> HIDE DEF k, p, c
  <2>5. f[p + 1] = <<c>> \o f[Len(F[k]) + 1]
    <3>1. CASE IsPlainChar(c)
      <4>1. Encoded(c) = <<c>> /\ c # "%"
        BY <2>4, <3>1, EncodedParts
      <4>2. Len(<<c>>) = 1 /\ <<c>>[1] = c
        OBVIOUS
      <4>3. Len(F[k]) = p + 1 /\ e[p + 1] = c
        BY <2>4, <4>1, <4>2
      <4>4. ~EscapeAt(e, p + 1)
        BY <4>1, <4>3 DEF EscapeAt
      <4>5. p + 1 \in 1 .. Len(e) + 3 /\ ~ (p + 1 > Len(e)) /\ (p + 1) + 1 = Len(F[k]) + 1
        <5>1. p \in Nat /\ Len(F[k]) = p + 1 /\ Len(F[k]) <= Len(e) /\ Len(e) \in Nat
          BY <1>7, <2>4, <4>3
        <5> QED BY <5>1
      <4> QED BY <1>9, <4>3, <4>4, <4>5
    <3>2. CASE ~IsPlainChar(c)
      <4>1. /\ Len(Encoded(c)) = 3 /\ Encoded(c)[1] = "%"
            /\ <<Encoded(c)[2], Encoded(c)[3]>> = Hex[c] /\ c \in DOMAIN Hex
        BY <2>4, <3>2, EncodedParts
      <4>2. Len(F[k]) = p + 3 /\ e[p + 1] = "%" /\ e[p + 2] = Encoded(c)[2] /\ e[p + 3] = Encoded(c)[3]
        BY <2>4, <4>1
      <4>3. /\ p + 1 \in 1 .. Len(e) + 3 /\ ~ (p + 1 > Len(e)) /\ (p + 1) + 3 = Len(F[k]) + 1
            /\ (p + 1) + 2 <= Len(e) /\ (p + 1) + 1 = p + 2 /\ (p + 1) + 2 = p + 3
        BY <1>7, <2>4, <4>2
      <4>4. <<e[(p + 1) + 1], e[(p + 1) + 2]>> = Hex[c]
        BY <4>1, <4>2, <4>3
      <4>5. EscapeAt(e, p + 1)
        BY <4>1, <4>2, <4>3, <4>4 DEF EscapeAt
      <4>6. MeantAt(e, p + 1) = c
        <5>1. \A b \in DOMAIN Hex : Hex[b] = Hex[c] => b = c
          BY <4>1, HexDigits
        <5> QED BY <4>1, <4>4, <5>1 DEF MeantAt
      <4> QED BY <1>9, <4>3, <4>5, <4>6
    <3> QED BY <3>1, <3>2
  <2>6. f[p + 1] = SubSeq(name, k, n)
    BY <2>2, <2>3, <2>5
  <2> QED BY <2>1, <2>6 DEF p
<1>12. Nat \subseteq T
  <2> HIDE DEF T
  <2> QED BY <1>10, <1>11, Induct
<1>13. f[Len(F[n - n]) + 1] = SubSeq(name, n - n + 1, n)
  BY <1>1, <1>12
<1>14. n - n = 0 /\ n - n + 1 = 1 /\ Len(F[0]) = 0
  BY <1>1, <1>6, EmptySeq
<1>15. f[1] = SubSeq(name, 1, n)
  BY <1>13, <1>14
<1>16. SubSeq(name, 1, n) = name
  BY SubSeqFull DEF n
<1> QED BY <1>7, <1>9, <1>15, <1>16

---------------------------------------------------------------------------
(* The names and the file system.                                          *)

\* One character more is encoded behind what is there.
LEMMA EncodeAppend ==
  ASSUME NEW s \in Seq(Chars), NEW c \in Chars
  PROVE  EncodeName(s \o <<c>>) = EncodeName(s) \o Encoded(c)
<1> DEFINE t == s \o <<c>>
           n == Len(s)
           sparts == [i \in 1..n |-> Encoded(s[i])]
           tparts == [i \in 1 .. n + 1 |-> Encoded(t[i])]
<1>1. /\ n \in Nat /\ DOMAIN s = 1..n /\ \A i \in 1..n : s[i] \in Chars
      /\ \A i \in 1..n : i \in 1 .. n + 1
  BY LenProperties, ElementOfSeq
<1>2. /\ t \in Seq(Chars) /\ Len(t) = n + 1 /\ DOMAIN t = 1 .. n + 1
      /\ t[n + 1] = c /\ \A i \in 1..n : t[i] = s[i]
  <2>1. <<c>> \in Seq(Chars) /\ Len(<<c>>) = 1 /\ <<c>>[1] = c
    OBVIOUS
  <2> DEFINE addition == <<c>>
  <2>2. addition \in Seq(Chars) /\ Len(addition) = 1 /\ addition[1] = c
    BY <2>1
  <2> HIDE DEF addition
  <2>3. /\ s \o addition \in Seq(Chars) /\ Len(s \o addition) = n + 1
        /\ \A i \in 1..n : (s \o addition)[i] = s[i]
        /\ (s \o addition)[n + 1] = c
    <3>1. /\ s \o addition \in Seq(Chars) /\ Len(s \o addition) = Len(s) + Len(addition)
          /\ \A i \in 1 .. Len(s) + Len(addition) :
               (s \o addition)[i] = IF i <= Len(s) THEN s[i] ELSE addition[i - Len(s)]
      BY <2>2, ConcatProperties
    <3>2. /\ n + 1 \in 1 .. n + 1 /\ ~ (n + 1 <= n) /\ n + 1 - n = 1
          /\ \A i \in 1..n : i \in 1 .. n + 1 /\ i <= n
      BY <1>1
    <3> QED BY <2>2, <3>1, <3>2
  <2>4. t = s \o addition
    BY DEF addition
  <2> HIDE DEF t
  <2> QED BY <1>1, <2>3, <2>4, LenProperties
<1>3. \A i \in 1 .. n + 1 : t[i] \in Chars
  BY <1>1, <1>2
<1>4. EncodeName(s) = FlattenSeq(sparts) /\ EncodeName(t) = FlattenSeq(tparts)
  <2>1. EncodeName(s) = FlattenSeq(sparts)
    BY <1>1 DEF EncodeName, Encoded
  <2>2. EncodeName(t) = FlattenSeq([i \in DOMAIN t |-> Encoded(t[i])])
    <3> HIDE DEF t
    <3> QED BY DEF EncodeName, Encoded
  <2> HIDE DEF t
  <2> QED BY <1>2, <2>1, <2>2
<1>5. /\ \A i \in 1..n : sparts[i] = Encoded(s[i]) /\ tparts[i] = sparts[i]
      /\ tparts[n + 1] = Encoded(c)
  BY <1>1, <1>2
<1> HIDE DEF t
<1>6. /\ sparts \in Seq(Seq(Chars)) /\ Len(sparts) = n
      /\ tparts \in Seq(Seq(Chars)) /\ Len(tparts) = n + 1
  <2>1. sparts \in [1..n -> Seq(Chars)] /\ tparts \in [1 .. n + 1 -> Seq(Chars)]
    BY <1>1, <1>3, EncodedParts
  <2> HIDE DEF sparts, tparts, n
  <2>2. sparts \in Seq(Seq(Chars)) /\ tparts \in Seq(Seq(Chars)) /\ n + 1 \in Nat
    BY <1>1, <2>1, SeqDef
  <2> QED BY <1>1, <2>1, <2>2, LenProperties
<1> HIDE DEF sparts, tparts, n
<1>7. PICK F \in [0 .. n -> Seq(Chars)] :
        /\ F[0] = <<>> /\ FlattenSeq(sparts) = F[n]
        /\ \A i \in 1 .. n : F[i] = F[i - 1] \o sparts[i]
  BY <1>6, FlattenSteps
<1>8. PICK G :
        /\ G[0] = <<>> /\ FlattenSeq(tparts) = G[n + 1]
        /\ \A i \in 1 .. n + 1 : G[i] = G[i - 1] \o tparts[i]
  <2>1. \E G \in [0 .. Len(tparts) -> Seq(Chars)] :
          /\ G[0] = <<>> /\ FlattenSeq(tparts) = G[Len(tparts)]
          /\ \A i \in 1 .. Len(tparts) : G[i] = G[i - 1] \o tparts[i]
    BY <1>6, FlattenSteps
  <2> QED BY <1>6, <2>1
<1> DEFINE T == {i \in Nat : i <= n => G[i] = F[i]}
<1>9. 0 \in T
  BY <1>7, <1>8
<1>10. ASSUME NEW i \in Nat, i \in T PROVE i + 1 \in T
  <2> SUFFICES ASSUME i + 1 <= n PROVE G[i + 1] = F[i + 1]
    OBVIOUS
  <2>1. i + 1 \in 1..n /\ i + 1 \in 1 .. n + 1 /\ (i + 1) - 1 = i /\ i <= n
    BY <1>1
  <2>2. G[i] = F[i]
    BY <1>10, <2>1
  <2> QED BY <1>5, <1>7, <1>8, <2>1, <2>2
<1>11. Nat \subseteq T
  <2> HIDE DEF T
  <2> QED BY <1>9, <1>10, Induct
<1>12. G[n] = F[n] /\ n + 1 \in 1 .. n + 1 /\ (n + 1) - 1 = n
  BY <1>1, <1>11
<1>13. G[n + 1] = F[n] \o Encoded(c)
  BY <1>5, <1>8, <1>12
<1> QED BY <1>4, <1>7, <1>8, <1>13 DEF t

\* A name ends somewhere, and only dots come after that.
LEMMA TrimmedIs ==
  ASSUME NEW s \in Seq(Chars)
  PROVE  \E k \in 0..Len(s) :
           /\ k = 0 \/ s[k] # "."
           /\ \A i \in k + 1 .. Len(s) : s[i] = "."
           /\ Trimmed(s) = SubSeq(s, 1, k)
<1> DEFINE n == Len(s)
           Ends(k, m) == (k = 0 \/ s[k] # ".") /\ \A i \in k + 1 .. m : s[i] = "."
           T == {m \in Nat : m <= n => \E k \in 0..m : Ends(k, m)}
<1>1. n \in Nat /\ DOMAIN s = 1..n
  BY LenProperties
<1>2. 0 \in T
  OBVIOUS
<1>3. ASSUME NEW m \in Nat, m \in T PROVE m + 1 \in T
  <2> SUFFICES ASSUME m + 1 <= n PROVE \E k \in 0 .. m + 1 : Ends(k, m + 1)
    <3> HIDE DEF Ends
    <3> QED OBVIOUS
  <2>1. PICK k \in 0..m : Ends(k, m)
    <3> HIDE DEF Ends
    <3> QED BY <1>1, <1>3
  <2>2. CASE s[m + 1] # "."
    <3>1. Ends(m + 1, m + 1) /\ m + 1 \in 0 .. m + 1
      BY <2>2
    <3> HIDE DEF Ends
    <3> QED BY <3>1
  <2>3. CASE s[m + 1] = "."
    <3>1. \A i \in k + 1 .. m + 1 : i \in k + 1 .. m \/ i = m + 1
      OBVIOUS
    <3>2. Ends(k, m + 1) /\ k \in 0 .. m + 1
      BY <2>1, <2>3, <3>1
    <3> HIDE DEF Ends
    <3> QED BY <3>2
  <2> QED BY <2>2, <2>3
<1>4. Nat \subseteq T
  <2> HIDE DEF T
  <2> QED BY <1>2, <1>3, Induct
<1>5. PICK k \in 0..n : Ends(k, n)
  <2> HIDE DEF Ends
  <2> QED BY <1>1, <1>4
<1> DEFINE ends == {0} \cup {i \in DOMAIN s : s[i] # "."}
<1>6. k \in ends /\ \A i \in ends : k >= i
  <2>1. k \in ends
    BY <1>1, <1>5
  <2>2. ASSUME NEW i \in ends PROVE k >= i
    <3>1. i = 0 \/ (i \in 1..n /\ i \notin k + 1 .. n)
      BY <1>1, <1>5
    <3> QED BY <1>1, <3>1
  <2> QED BY <2>1, <2>2
<1>7. ends \subseteq Nat
  BY <1>1
<1>8. Max(ends) = k
  <2> HIDE DEF ends
  <2>1. \A i \in ends : (\A j \in ends : i >= j) => i = k
    BY <1>6, <1>7
  <2> QED BY <1>6, <2>1 DEF Max
<1>9. Trimmed(s) = SubSeq(s, 1, k)
  BY <1>8 DEF Trimmed
<1> QED BY <1>5, <1>9

\* Where a name ends is where it is cut.
LEMMA TrimmedAt ==
  ASSUME NEW s \in Seq(Chars), NEW k \in 0..Len(s), k = 0 \/ s[k] # ".",
         \A i \in k + 1 .. Len(s) : s[i] = "."
  PROVE  Trimmed(s) = SubSeq(s, 1, k)
<1>1. PICK j \in 0..Len(s) :
        /\ j = 0 \/ s[j] # "."
        /\ \A i \in j + 1 .. Len(s) : s[i] = "."
        /\ Trimmed(s) = SubSeq(s, 1, j)
  BY TrimmedIs
<1>2. Len(s) \in Nat
  BY LenProperties
<1>3. ~ (j < k) /\ ~ (k < j)
  BY <1>1, <1>2
<1>4. j = k
  BY <1>2, <1>3
<1> QED BY <1>1, <1>4

\* A dot at the end is dropped, and what does not end with one is kept.
LEMMA TrimmedEnds ==
  ASSUME NEW s \in Seq(Chars), NEW t \in Seq(Chars)
  PROVE  /\ Trimmed(s) \in Seq(Chars) /\ Trimmed(<<>>) = <<>>
         /\ t # <<>> /\ t[Len(t)] # "." => Trimmed(s \o t) = s \o t
         /\ t = <<".">> => Trimmed(s \o t) = Trimmed(s)
<1>1. /\ Len(s) \in Nat /\ Len(t) \in Nat
      /\ s \o t \in Seq(Chars) /\ Len(s \o t) = Len(s) + Len(t)
      /\ \A i \in 1..Len(s) : (s \o t)[i] = s[i]
      /\ \A i \in 1..Len(t) : (s \o t)[Len(s) + i] = t[i]
  BY LenProperties, ConcatProperties, ConcatPlaces
<1>2. PICK k \in 0..Len(s) :
        /\ k = 0 \/ s[k] # "."
        /\ \A i \in k + 1 .. Len(s) : s[i] = "."
        /\ Trimmed(s) = SubSeq(s, 1, k)
  BY TrimmedIs
<1>3. Trimmed(s) \in Seq(Chars)
  <2>1. CASE k = 0
    BY <1>2, <2>1, SubSeqEmpty, EmptySeq
  <2>2. CASE k # 0
    <3>1. \A i \in 1..k : s[i] \in Chars
      BY <1>1, ElementOfSeq
    <3> QED BY <1>1, <1>2, <2>2, <3>1, SubSeqProperties
  <2> QED BY <2>1, <2>2
<1>4. Trimmed(<<>>) = <<>>
  <2>1. <<>> \in Seq(Chars) /\ Len(<<>>) = 0
    BY EmptySeq
  <2>2. PICK j \in 0..Len(<<>>) : Trimmed(<<>>) = SubSeq(<<>>, 1, j)
    BY <2>1, TrimmedIs
  <2>3. j = 0
    BY <2>1
  <2> QED BY <2>2, <2>3, SubSeqEmpty
<1> DEFINE u == s \o t
<1>5. /\ u \in Seq(Chars) /\ Len(u) = Len(s) + Len(t)
      /\ \A i \in 1..Len(s) : u[i] = s[i]
      /\ \A i \in 1..Len(t) : u[Len(s) + i] = t[i]
  BY <1>1
<1> HIDE DEF u
<1>6. ASSUME t # <<>>, t[Len(t)] # "." PROVE Trimmed(u) = u
  <2>1. Len(t) # 0 /\ Len(t) \in 1..Len(t)
    BY <1>1, <1>6, EmptySeq
  <2>2. Len(u) \in 0..Len(u) /\ u[Len(u)] # "." /\ \A i \in Len(u) + 1 .. Len(u) : u[i] = "."
    BY <1>1, <1>5, <1>6, <2>1
  <2>3. Trimmed(u) = SubSeq(u, 1, Len(u))
    BY <1>5, <2>2, TrimmedAt
  <2> QED BY <1>5, <2>3, SubSeqFull
<1>7. ASSUME t = <<".">> PROVE Trimmed(u) = Trimmed(s)
  <2>1. Len(t) = 1 /\ t[1] = "."
    BY <1>7
  <2>2. Len(u) = Len(s) + 1 /\ u[Len(s) + 1] = "."
    BY <1>5, <2>1
  <2>3. k \in 0..Len(u) /\ (k = 0 \/ u[k] # ".") /\ \A i \in k + 1 .. Len(u) : u[i] = "."
    <3>1. k \in 0..Len(u)
      BY <1>1, <2>2
    <3>2. k = 0 \/ u[k] # "."
      BY <1>1, <1>2, <1>5
    <3>3. \A i \in k + 1 .. Len(u) : i \in k + 1 .. Len(s) \/ i = Len(s) + 1
      BY <1>1, <2>2
    <3>4. \A i \in k + 1 .. Len(s) : i \in 1..Len(s)
      BY <1>1
    <3> QED BY <1>2, <1>5, <2>2, <3>1, <3>2, <3>3, <3>4
  <2>4. Trimmed(u) = SubSeq(u, 1, k)
    BY <1>5, <2>3, TrimmedAt
  <2>5. SubSeq(u, 1, k) = SubSeq(s, 1, k)
    <3>1. SubSeq(u, 1, k) = [i \in 1..k |-> u[i]] /\ SubSeq(s, 1, k) = [i \in 1..k |-> s[i]]
      BY <1>1, <1>5, <2>2
    <3>2. \A i \in 1..k : u[i] = s[i]
      BY <1>1, <1>5
    <3> QED BY <3>1, <3>2, Zenon
  <2> QED BY <1>2, <2>4, <2>5
<1> QED BY <1>3, <1>4, <1>6, <1>7 DEF u

\* The letter that the file system takes a character for.
Fold(c) == IF c \in DOMAIN Capital THEN Capital[c] ELSE c

\* Case is folded letter by letter.
LEMMA FoldedParts ==
  ASSUME NEW s \in Seq(Chars), NEW t \in Seq(Chars)
  PROVE  /\ \A c \in Chars : Fold(c) \in Chars
         /\ Folded(s) \in Seq(Chars) /\ Len(Folded(s)) = Len(s)
         /\ \A i \in 1..Len(s) : Folded(s)[i] = Fold(s[i])
         /\ Folded(s \o t) = Folded(s) \o Folded(t)
<1>1. \A c \in Chars : Fold(c) \in Chars
  BY FileSystemAssumption DEF FileSystemAssumption, Fold, Chars
<1>2. ASSUME NEW u \in Seq(Chars)
      PROVE  /\ Folded(u) \in Seq(Chars) /\ Len(Folded(u)) = Len(u)
             /\ \A i \in 1..Len(u) : Folded(u)[i] = Fold(u[i])
  <2>1. Folded(u) = [i \in 1..Len(u) |-> Fold(u[i])]
    BY LenProperties DEF Folded, Fold
  <2>2. Len(u) \in Nat /\ \A i \in 1..Len(u) : Fold(u[i]) \in Chars
    BY <1>1, ElementOfSeq, LenProperties
  <2>3. Folded(u) \in [1..Len(u) -> Chars]
    BY <2>1, <2>2
  <2>4. Folded(u) \in Seq(Chars)
    BY <2>2, <2>3, SeqDef
  <2>5. Len(Folded(u)) = Len(u)
    BY <2>2, <2>3, <2>4, LenProperties
  <2> QED BY <2>1, <2>4, <2>5
<1>3. /\ Len(s) \in Nat /\ Len(t) \in Nat
      /\ s \o t \in Seq(Chars) /\ Len(s \o t) = Len(s) + Len(t)
      /\ \A i \in 1 .. Len(s) + Len(t) :
           (s \o t)[i] = IF i <= Len(s) THEN s[i] ELSE t[i - Len(s)]
  BY ConcatProperties, LenProperties
<1> DEFINE a == Folded(s)
           b == Folded(t)
           u == s \o t
<1>4. /\ a \in Seq(Chars) /\ Len(a) = Len(s) /\ \A i \in 1..Len(s) : a[i] = Fold(s[i])
      /\ b \in Seq(Chars) /\ Len(b) = Len(t) /\ \A i \in 1..Len(t) : b[i] = Fold(t[i])
  BY <1>2
<1>5. /\ Folded(u) \in Seq(Chars) /\ Len(Folded(u)) = Len(u)
      /\ \A i \in 1..Len(u) : Folded(u)[i] = Fold(u[i])
  BY <1>2, <1>3
<1> HIDE DEF a, b
<1>6. /\ a \o b \in Seq(Chars) /\ Len(a \o b) = Len(s) + Len(t)
      /\ \A i \in 1 .. Len(s) + Len(t) :
           (a \o b)[i] = IF i <= Len(s) THEN a[i] ELSE b[i - Len(s)]
  <2>1. a \in Seq(Chars) /\ b \in Seq(Chars) /\ Len(a) = Len(s) /\ Len(b) = Len(t)
    BY <1>4
  <2>2. /\ a \o b \in Seq(Chars) /\ Len(a \o b) = Len(a) + Len(b)
        /\ \A i \in 1 .. Len(a) + Len(b) :
             (a \o b)[i] = IF i <= Len(a) THEN a[i] ELSE b[i - Len(a)]
    BY <2>1, ConcatProperties
  <2> QED BY <2>1, <2>2
<1>7. ASSUME NEW i \in 1 .. Len(s) + Len(t) PROVE Folded(u)[i] = (a \o b)[i]
  <2>1. Folded(u)[i] = Fold(u[i])
    BY <1>3, <1>5
  <2>2. CASE i <= Len(s)
    <3>1. i \in 1..Len(s) /\ u[i] = s[i] /\ (a \o b)[i] = a[i]
      BY <1>3, <1>6, <2>2
    <3> HIDE DEF u
    <3> QED BY <1>4, <2>1, <3>1
  <2>3. CASE ~ (i <= Len(s))
    <3>1. i - Len(s) \in 1..Len(t) /\ u[i] = t[i - Len(s)] /\ (a \o b)[i] = b[i - Len(s)]
      BY <1>3, <1>6, <2>3
    <3> HIDE DEF u
    <3> QED BY <1>4, <2>1, <3>1
  <2> QED BY <2>2, <2>3
<1>8. Folded(u) = a \o b
  <2>1. Len(Folded(u)) = Len(a \o b) /\ Len(a \o b) = Len(s) + Len(t)
    BY <1>3, <1>5, <1>6
  <2> HIDE DEF u
  <2> QED BY <1>5, <1>6, <1>7, <2>1, SeqEqual
<1> QED BY <1>1, <1>2, <1>8 DEF a, b

\* Neither the escapes nor the choice between them know case.
LEMMA FoldedEncoded ==
  ASSUME NEW c \in Chars
  PROVE  Folded(Encoded(c)) = Encoded(Fold(c)) /\ Folded(<<c>>) = <<Fold(c)>>
<1>1. \A x \in {"%", "2", "5", "F", "/"} : Fold(x) = x
  BY FileSystemAssumption DEF FileSystemAssumption, Fold, IsPlainChar, Hex
<1>2. \A x : Folded(<<x>>) = <<Fold(x)>>
  BY DEF Folded, Fold
<1>3. CASE IsPlainChar(c)
  <2>1. IsPlainChar(Fold(c))
    BY <1>3, FileSystemAssumption DEF FileSystemAssumption, Fold
  <2> QED BY <1>2, <1>3, <2>1 DEF Encoded
<1>4. CASE ~IsPlainChar(c)
  <2>1. c \in {"%", "/"} /\ Fold(c) = c
    BY <1>1, <1>4, HexDigits DEF IsPlainChar
  <2> DEFINE e == Encoded(c)
  <2>2. /\ e \in Seq(Chars) /\ Len(e) = 3 /\ e[1] = "%"
        /\ <<e[2], e[3]>> = Hex[c] /\ c \in DOMAIN Hex
    BY <1>4, EncodedParts
  <2> HIDE DEF e
  <2>3. e[1] = "%" /\ e[2] \in {"2"} /\ e[3] \in {"5", "F"}
    <3>1. e[2] = Hex[c][1] /\ e[3] = Hex[c][2]
      BY <2>2
    <3> QED BY <2>2, <3>1, HexDigits
  <2>4. Folded(e) = e
    <3>1. /\ Folded(e) \in Seq(Chars) /\ Len(Folded(e)) = Len(e)
          /\ \A i \in 1..Len(e) : Folded(e)[i] = Fold(e[i])
      BY <2>2, FoldedParts
    <3>2. \A i \in 1..Len(e) : Fold(e[i]) = e[i]
      <4>1. \A i \in 1..Len(e) : i = 1 \/ i = 2 \/ i = 3
        BY <2>2
      <4> QED BY <1>1, <2>3, <4>1
    <3> QED BY <2>2, <3>1, <3>2, SeqEqual
  <2>5. Folded(Encoded(c)) = Encoded(c)
    BY <2>4 DEF e
  <2> QED BY <1>2, <2>1, <2>5
<1> QED BY <1>3, <1>4

\* What ends an encoded character, unless the character is a dot, is no dot.
LEMMA EncodedEnds ==
  ASSUME NEW c \in Chars
  PROVE  /\ c = "." => Encoded(c) = <<".">>
         /\ c # "." => Encoded(c) # <<>> /\ Encoded(c)[Len(Encoded(c))] # "."
<1>1. ASSUME c = "." PROVE Encoded(c) = <<".">>
  BY <1>1, HexDigits DEF Encoded, IsPlainChar
<1>2. ASSUME c # ".", IsPlainChar(c)
      PROVE  Encoded(c) # <<>> /\ Encoded(c)[Len(Encoded(c))] # "."
  <2>1. Encoded(c) = <<c>>
    BY <1>2 DEF Encoded
  <2>2. <<c>> # <<>> /\ <<c>>[Len(<<c>>)] = c
    OBVIOUS
  <2> QED BY <1>2, <2>1, <2>2
<1>3. ASSUME ~IsPlainChar(c)
      PROVE  Encoded(c) # <<>> /\ Encoded(c)[Len(Encoded(c))] # "."
  <2>1. Len(Encoded(c)) = 3 /\ <<Encoded(c)[2], Encoded(c)[3]>> = Hex[c] /\ c \in DOMAIN Hex
    BY <1>3, EncodedParts
  <2>2. Hex[c][2] = "5" \/ Hex[c][2] = "F"
    BY <2>1, HexDigits
  <2>3. Encoded(c)[3] = Hex[c][2]
    BY <2>1
  <2>4. Encoded(c)[3] # "."
    BY <2>2, <2>3
  <2>5. Encoded(c) # <<>>
    <3>1. Len(<<>>) = 0
      OBVIOUS
    <3> DEFINE e == Encoded(c)
    <3>2. Len(e) = 3
      BY <2>1
    <3> HIDE DEF e
    <3>3. 3 # 0
      OBVIOUS
    <3>4. e # <<>>
      BY <3>1, <3>2, <3>3, Zenon
    <3> QED BY <3>4 DEF e
  <2> QED BY <2>1, <2>4, <2>5
<1> QED BY <1>1, <1>2, <1>3

\* Nothing becomes nothing.
LEMMA EncodeNothing == EncodeName(<<>>) = <<>>
<1>1. <<>> \in Seq(Seq(Chars)) /\ Len(<<>>) = 0
  BY EmptySeq
<1> DEFINE none == <<>>
<1>2. none \in Seq(Seq(Chars)) /\ Len(none) = 0
  BY <1>1
<1> HIDE DEF none
<1>3. \E F \in [0 .. Len(none) -> Seq(Chars)] :
        F[0] = <<>> /\ FlattenSeq(none) = F[Len(none)]
  BY <1>2, FlattenSteps
<1>4. FlattenSeq(<<>>) = <<>>
  BY <1>2, <1>3 DEF none
<1> QED BY <1>4 DEF EncodeName

\* What the file system does to an encoded name it does to the name.
LEMMA EncodeCommutes ==
  ASSUME NEW name \in Seq(Chars)
  PROVE  Folded(EncodeName(name)) = EncodeName(Folded(name))
         /\ Trimmed(EncodeName(name)) = EncodeName(Trimmed(name))
<1> DEFINE Goal(s) == /\ Folded(EncodeName(s)) = EncodeName(Folded(s))
                      /\ Trimmed(EncodeName(s)) = EncodeName(Trimmed(s))
           T == {n \in Nat : \A s \in Seq(Chars) : Len(s) = n => Goal(s)}
<1>1. EncodeName(<<>>) = <<>>
  BY EncodeNothing
<1>2. 0 \in T
  <2>1. Folded(<<>>) = <<>>
    BY DEF Folded
  <2>2. Trimmed(<<>>) = <<>>
    BY TrimmedEnds, EmptySeq
  <2>3. Goal(<<>>)
    BY <1>1, <2>1, <2>2
  <2>4. \A s \in Seq(Chars) : Len(s) = 0 => s = <<>>
    BY EmptySeq
  <2> HIDE DEF Goal
  <2> QED BY <2>3, <2>4
<1>3. ASSUME NEW n \in Nat, n \in T PROVE n + 1 \in T
  <2> SUFFICES ASSUME NEW u \in Seq(Chars), Len(u) = n + 1 PROVE Goal(u)
    <3> HIDE DEF Goal
    <3> QED OBVIOUS
  <2> DEFINE s == SubSeq(u, 1, n)
             c == u[n + 1]
  <2>1. s \in Seq(Chars) /\ Len(s) = n /\ c \in Chars
    <3>1. c \in Chars /\ \A i \in 1..n : u[i] \in Chars
      BY ElementOfSeq
    <3>2. CASE n = 0
      BY <3>1, <3>2, SubSeqEmpty, EmptySeq
    <3>3. CASE n # 0
      BY <3>1, <3>3, SubSeqProperties
    <3> QED BY <3>1, <3>2, <3>3
  <2>2. u = s \o <<c>>
    OBVIOUS
  <2>3. Goal(s)
    <3> HIDE DEF Goal, s
    <3> QED BY <1>3, <2>1
  <2> HIDE DEF s, c
  <2>4. <<c>> \in Seq(Chars) /\ <<Fold(c)>> \in Seq(Chars) /\ Fold(c) \in Chars
    <3>1. Fold(c) \in Chars
      BY <2>1, FoldedParts
    <3> QED BY <2>1, <3>1
  <2>5. EncodeName(u) = EncodeName(s) \o Encoded(c)
    BY <2>1, <2>2, EncodeAppend
  <2>6. EncodeName(s) \in Seq(Chars) /\ Encoded(c) \in Seq(Chars)
    BY <2>1, NameComesBack, EncodedParts
  <2>7. Folded(EncodeName(u)) = EncodeName(Folded(u))
    <3>1. Folded(EncodeName(u)) = Folded(EncodeName(s)) \o Folded(Encoded(c))
      BY <2>5, <2>6, FoldedParts
    <3>2. Folded(Encoded(c)) = Encoded(Fold(c)) /\ Folded(<<c>>) = <<Fold(c)>>
      BY <2>1, FoldedEncoded
    <3>3. Folded(u) = Folded(s) \o <<Fold(c)>> /\ Folded(s) \in Seq(Chars)
      <4>1. Folded(s \o <<c>>) = Folded(s) \o Folded(<<c>>) /\ Folded(s) \in Seq(Chars)
        BY <2>1, <2>4, FoldedParts
      <4> QED BY <2>2, <3>2, <4>1, Zenon
    <3>4. EncodeName(Folded(s) \o <<Fold(c)>>) = EncodeName(Folded(s)) \o Encoded(Fold(c))
      BY <2>4, <3>3, EncodeAppend
    <3> QED BY <2>3, <3>1, <3>2, <3>3, <3>4
  <2>8. Trimmed(EncodeName(u)) = EncodeName(Trimmed(u))
    <3>1. CASE c = "."
      <4>1. Encoded(c) = <<".">> /\ <<c>> = <<".">>
        BY <2>1, <3>1, EncodedEnds
      <4>2. Trimmed(EncodeName(u)) = Trimmed(EncodeName(s))
        BY <2>5, <2>6, <4>1, TrimmedEnds
      <4>3. Trimmed(u) = Trimmed(s)
        BY <2>1, <2>2, <2>4, <4>1, TrimmedEnds
      <4> QED BY <2>3, <4>2, <4>3
    <3>2. CASE c # "."
      <4>1. Encoded(c) # <<>> /\ Encoded(c)[Len(Encoded(c))] # "."
        BY <2>1, <3>2, EncodedEnds
      <4>2. Trimmed(EncodeName(u)) = EncodeName(u)
        <5>1. Trimmed(EncodeName(s) \o Encoded(c)) = EncodeName(s) \o Encoded(c)
          BY <2>6, <4>1, TrimmedEnds, Zenon
        <5> QED BY <2>5, <5>1, Zenon
      <4>3. <<c>> # <<>> /\ <<c>>[Len(<<c>>)] # "."
        <5>1. Len(<<c>>) = 1 /\ <<c>>[1] = c /\ <<c>> # <<>>
          OBVIOUS
        <5> QED BY <3>2, <5>1
      <4>4. Trimmed(u) = u
        BY <2>1, <2>2, <2>4, <4>3, TrimmedEnds
      <4> QED BY <4>2, <4>4
    <3> QED BY <3>1, <3>2
  <2> QED BY <2>7, <2>8
<1>4. Nat \subseteq T
  <2> HIDE DEF T
  <2> QED BY <1>2, <1>3, Induct
<1>5. Len(name) \in T
  BY <1>4, LenProperties
<1> QED BY <1>5

---------------------------------------------------------------------------
(* The store and its mirror.                                               *)

StoreTypes ==
  /\ live \in BOOLEAN /\ persist \in BOOLEAN /\ loaded \in BOOLEAN
  /\ DOMAIN files \subseteq Names /\ \A n \in DOMAIN files : files[n] \in Contents
  /\ DOMAIN mirror \subseteq {EncodeName(n) : n \in Names}
  /\ \A d \in DOMAIN mirror : mirror[d] \in Contents
  /\ saved \in [Names -> Contents \cup {Absent}] /\ exposed \subseteq Names

\* Before the mirror is read back nothing of it has been changed; without
\* Persist there is none.
Untouched ==
  /\ persist /\ ~loaded => exposed = {} /\ DOMAIN files = {}
  /\ ~persist => DOMAIN mirror = {}

\* The entry of the mirror for a name is what the next process loads for it:
\* before that for every name, and afterwards for those that share no file.
StoreInv ==
  /\ StoreTypes /\ Untouched
  /\ \A n \in Names :
       /\ loaded \/ ~persist => ContentOf(files, n) = saved[n]
       /\ OwnFile(n) \/ (persist /\ ~loaded) =>
            (n \notin exposed => ContentOf(mirror, EncodeName(n)) = saved[n])

\* No two files of the game are encoded alike.
LEMMA NamesDiffer ==
  /\ \A n \in Names : n \in Seq(Chars) /\ DecodeName(EncodeName(n)) = n
  /\ \A m, n \in Names : EncodeName(m) = EncodeName(n) => m = n
<1>1. \A n \in Names : n \in Seq(Chars) /\ DecodeName(EncodeName(n)) = n
  <2> SUFFICES ASSUME NEW n \in Names PROVE n \in Seq(Chars) /\ DecodeName(EncodeName(n)) = n
    OBVIOUS
  <2>1. n \in Seq(STRING) /\ STRING \subseteq Chars
    BY StorageAssumption DEF StorageAssumption, Chars
  <2>2. n \in Seq(Chars)
    <3>1. Len(n) \in Nat /\ n \in [1..Len(n) -> STRING]
      BY <2>1, LenProperties, ElementOfSeq
    <3>2. n \in [1..Len(n) -> Chars]
      BY <2>1, <3>1, Zenon
    <3> QED BY <3>1, <3>2, SeqDef
  <2> QED BY <2>2, NameComesBack
<1> QED BY <1>1, Zenon

\* The file system knows an encoded name by the encoding of what it would know
\* the name by; so names that meet on disk are names that meet.
LEMMA KeysDiffer ==
  ASSUME NEW m \in Names, NEW n \in Names
  PROVE  /\ Trimmed(EncodeName(n)) = EncodeName(Trimmed(n)) /\ Trimmed(n) \in Names
         /\ Key(n) \in Seq(Chars) /\ Key(EncodeName(n)) = EncodeName(Key(n))
         /\ Key(EncodeName(m)) = Key(EncodeName(n)) => Key(m) = Key(n)
<1>1. \A x \in Names : /\ Key(x) \in Seq(Chars) /\ Key(EncodeName(x)) = EncodeName(Key(x))
                       /\ Trimmed(EncodeName(x)) = EncodeName(Trimmed(x))
  <2> SUFFICES ASSUME NEW x \in Names
               PROVE  /\ Key(x) \in Seq(Chars) /\ Key(EncodeName(x)) = EncodeName(Key(x))
                      /\ Trimmed(EncodeName(x)) = EncodeName(Trimmed(x))
    OBVIOUS
  <2>1. x \in Seq(Chars)
    BY NamesDiffer
  <2>2. Trimmed(x) \in Seq(Chars) /\ Trimmed(EncodeName(x)) = EncodeName(Trimmed(x))
    BY <2>1, TrimmedEnds, EncodeCommutes
  <2>3. /\ Folded(Trimmed(x)) \in Seq(Chars)
        /\ Folded(EncodeName(Trimmed(x))) = EncodeName(Folded(Trimmed(x)))
    BY <2>2, FoldedParts, EncodeCommutes
  <2> QED BY <2>2, <2>3 DEF Key
<1>2. Trimmed(n) \in Names
  BY FileSystemAssumption DEF FileSystemAssumption
<1>3. ASSUME Key(EncodeName(m)) = Key(EncodeName(n)) PROVE Key(m) = Key(n)
  <2>1. EncodeName(Key(m)) = EncodeName(Key(n))
    BY <1>1, <1>3
  <2>2. DecodeName(EncodeName(Key(m))) = Key(m) /\ DecodeName(EncodeName(Key(n))) = Key(n)
    BY <1>1, NameComesBack
  <2> QED BY <2>1, <2>2
<1> QED BY <1>1, <1>2, <1>3

\* Whatever a write or a delete finds in the directory bears the encoding of a
\* name of the game.
LEMMA EntryIsName ==
  ASSUME StoreTypes, NEW n \in Names
  PROVE  \E m \in Names : Entry(EncodeName(n)) = EncodeName(m)
<1> DEFINE disk == EncodeName(n)
           found == {d \in DOMAIN mirror : Key(d) = Key(disk)}
<1>1. Entry(disk) = IF found = {} THEN Trimmed(disk) ELSE CHOOSE d \in found : TRUE
  BY DEF Entry
<1>2. CASE found = {}
  BY <1>1, <1>2, KeysDiffer
<1>3. CASE found # {}
  <2>1. (CHOOSE d \in found : TRUE) \in found
    BY <1>3
  <2>2. Entry(disk) \in DOMAIN mirror
    BY <1>1, <1>3, <2>1
  <2> QED BY <2>2 DEF StoreTypes
<1> QED BY <1>2, <1>3

\* A name with a file of its own is a file on disk, which its own writes and
\* deletes find, and no other's do.
LEMMA OwnEntry ==
  ASSUME StoreTypes, NEW n \in Names, OwnFile(n)
  PROVE  /\ IsFile(EncodeName(n)) /\ Entry(EncodeName(n)) = EncodeName(n)
         /\ \A m \in Names : m # n => Entry(EncodeName(m)) # EncodeName(n)
<1>1. /\ Key(n) # <<>> /\ Key(n) \notin Devices /\ Trimmed(n) = n
      /\ \A m \in Names : m # n => Key(m) # Key(n)
  BY DEF OwnFile, IsFile
<1>2. /\ \A m \in Names : /\ Trimmed(EncodeName(m)) = EncodeName(Trimmed(m)) /\ Trimmed(m) \in Names
                         /\ Key(EncodeName(m)) = Key(EncodeName(n)) => Key(m) = Key(n)
      /\ Key(n) \in Seq(Chars) /\ Key(EncodeName(n)) = EncodeName(Key(n))
  BY KeysDiffer
<1>3. IsFile(EncodeName(n))
  <2>1. DecodeName(EncodeName(Key(n))) = Key(n)
    BY <1>2, NameComesBack
  <2>2. ASSUME EncodeName(Key(n)) = <<>> PROVE FALSE
    <3>1. <<>> \in Seq(Chars)
      BY EmptySeq
    <3>2. EncodeName(<<>>) = <<>> /\ DecodeName(EncodeName(<<>>)) = <<>>
      BY <3>1, EncodeNothing, NameComesBack
    <3> QED BY <1>1, <2>1, <2>2, <3>2
  <2>3. ASSUME EncodeName(Key(n)) \in Devices PROVE FALSE
    <3>1. PICK d \in Devices : EncodeName(Key(n)) = d
      BY <2>3
    <3>2. EncodeName(d) = d /\ d \in Seq(Chars)
      <4>1. EncodeName(d) = d /\ d \in Seq(STRING)
        BY FileSystemAssumption DEF FileSystemAssumption
      <4>2. STRING \subseteq Chars
        BY DEF Chars
      <4>3. Len(d) \in Nat /\ d \in [1..Len(d) -> STRING]
        BY <4>1, LenProperties, ElementOfSeq
      <4>4. d \in [1..Len(d) -> Chars]
        BY <4>2, <4>3, Zenon
      <4> QED BY <4>1, <4>3, <4>4, SeqDef
    <3>3. DecodeName(EncodeName(d)) = d
      BY <3>2, NameComesBack
    <3>4. Key(n) = d
      BY <2>1, <3>1, <3>2, <3>3
    <3> QED BY <1>1, <3>4
  <2> QED BY <1>2, <2>2, <2>3 DEF IsFile
<1>4. ASSUME NEW m \in Names
      PROVE  Entry(EncodeName(m)) = EncodeName(n) <=> m = n
  <2> DEFINE found == {d \in DOMAIN mirror : Key(d) = Key(EncodeName(m))}
  <2>1. Entry(EncodeName(m)) = IF found = {} THEN Trimmed(EncodeName(m))
                               ELSE CHOOSE d \in found : TRUE
    BY DEF Entry
  <2>2. CASE found = {}
    <3>1. Entry(EncodeName(m)) = EncodeName(Trimmed(m)) /\ Trimmed(m) \in Names
      <4>1. Entry(EncodeName(m)) = Trimmed(EncodeName(m))
        <5> HIDE DEF found
        <5> QED BY <2>1, <2>2
      <4>2. Trimmed(EncodeName(m)) = EncodeName(Trimmed(m)) /\ Trimmed(m) \in Names
        BY KeysDiffer, Zenon
      <4> QED BY <4>1, <4>2, Zenon
    <3>2. Entry(EncodeName(m)) = EncodeName(n) <=> Trimmed(m) = n
      BY <3>1, NamesDiffer
    <3>3. Trimmed(m) = n => Key(m) = Key(n)
      BY <1>1 DEF Key
    <3> QED BY <1>1, <3>2, <3>3
  <2>3. CASE found # {}
    <3> DEFINE e == CHOOSE d \in found : TRUE
    <3>1. e \in found
      BY <2>3
    <3> HIDE DEF e
    <3>2. e \in DOMAIN mirror /\ Key(e) = Key(EncodeName(m))
      BY <3>1
    <3>3. PICK x \in Names : e = EncodeName(x)
      BY <3>2 DEF StoreTypes
    <3>4. Key(x) = Key(m)
      BY <3>2, <3>3, KeysDiffer
    <3>5. Entry(EncodeName(m)) = EncodeName(x)
      BY <2>1, <2>3, <3>3 DEF e
    <3>6. x = n <=> m = n
      BY <1>1, <3>4
    <3> QED BY <3>5, <3>6, NamesDiffer
  <2> QED BY <2>2, <2>3
<1> QED BY <1>3, <1>4

\* The mirror has one entry for a file, which bears its encoded name.
LEMMA MirroredIs ==
  ASSUME StoreTypes, NEW n \in Names
  PROVE  Mirrored(n) = ContentOf(mirror, EncodeName(n))
<1> DEFINE entries == {d \in DOMAIN mirror : DecodeName(d) = n}
<1>1. \A d \in DOMAIN mirror : d \in entries => d = EncodeName(n)
  BY NamesDiffer DEF StoreTypes
<1>2. EncodeName(n) \in DOMAIN mirror => EncodeName(n) \in entries
  BY NamesDiffer
<1>3. Mirrored(n) = IF entries = {} THEN Absent ELSE mirror[CHOOSE d \in entries : TRUE]
  BY DEF Mirrored
<1>4. CASE EncodeName(n) \in DOMAIN mirror
  <2>1. entries = {EncodeName(n)}
    BY <1>1, <1>2, <1>4
  <2>2. (CHOOSE d \in entries : TRUE) = EncodeName(n) /\ entries # {}
    BY <2>1
  <2> HIDE DEF entries
  <2> QED BY <1>3, <1>4, <2>2 DEF ContentOf
<1>5. CASE EncodeName(n) \notin DOMAIN mirror
  <2>1. entries = {}
    BY <1>1, <1>5
  <2> HIDE DEF entries
  <2> QED BY <1>3, <1>5, <2>1 DEF ContentOf
<1> QED BY <1>4, <1>5

\* A content of at most MaxFileBytes bytes.
LEMMA ContentsAre ==
  /\ \A c \in Seq(Bytes) : Len(c) <= MaxFileBytes => c \in Contents
  /\ \A c \in Contents : c \in Seq(Bytes) /\ Len(c) \in Nat /\ Len(c) <= MaxFileBytes
<1>0. MaxFileBytes \in Nat
  BY StorageAssumption DEF StorageAssumption
<1>1. ASSUME NEW c \in Seq(Bytes), Len(c) <= MaxFileBytes PROVE c \in Contents
  <2>1. Len(c) \in 0..MaxFileBytes /\ c \in [1..Len(c) -> Bytes]
    BY <1>0, <1>1, LenProperties, ElementOfSeq
  <2> QED BY <2>1 DEF Contents
<1>2. ASSUME NEW c \in Contents PROVE c \in Seq(Bytes) /\ Len(c) \in Nat /\ Len(c) <= MaxFileBytes
  <2>1. PICK k \in 0..MaxFileBytes : c \in [1..k -> Bytes]
    BY DEF Contents
  <2>2. k \in Nat
    BY <1>0
  <2>3. c \in Seq(Bytes)
    BY <2>1, <2>2, SeqDef
  <2>4. Len(c) \in Nat /\ DOMAIN c = 1..Len(c) /\ DOMAIN c = 1..k
    BY <2>1, <2>3, LenProperties
  <2>5. Len(c) = k
    <3>1. \A a, b \in Nat : 1..a = 1..b => a = b
      <4> SUFFICES ASSUME NEW a \in Nat, NEW b \in Nat, 1..a = 1..b PROVE a = b
        OBVIOUS
      <4>1. (a \in 1..a <=> a # 0) /\ (b \in 1..b <=> b # 0)
        OBVIOUS
      <4>2. (a \in 1..b => a <= b) /\ (b \in 1..a => b <= a)
        OBVIOUS
      <4>3. (a = 0 => b \notin 1..a) /\ (b = 0 => a \notin 1..b)
        OBVIOUS
      <4> QED BY <4>1, <4>2, <4>3
    <3>2. Len(c) \in Nat /\ 1..Len(c) = 1..k
      BY <2>4, Zenon
    <3> QED BY <2>2, <3>1, <3>2, Zenon
  <2> QED BY <1>0, <2>3, <2>5
<1> QED BY <1>1, <1>2

\* What a write that breaks off leaves is a beginning of the content.
LEMMA PartOfContent ==
  ASSUME NEW c \in Contents, NEW k \in 0..Len(c) - 1
  PROVE  SubSeq(c, 1, k) \in Contents
<1>1. c \in Seq(Bytes) /\ Len(c) \in Nat /\ Len(c) <= MaxFileBytes /\ MaxFileBytes \in Nat
  BY ContentsAre, StorageAssumption DEF StorageAssumption
<1>2. CASE k = 0
  <2>1. SubSeq(c, 1, k) = <<>>
    BY <1>2, SubSeqEmpty
  <2>2. <<>> \in Seq(Bytes) /\ Len(<<>>) <= MaxFileBytes
    BY <1>1
  <2> QED BY <2>1, <2>2, ContentsAre
<1>3. CASE k # 0
  <2>1. \A i \in 1..k : c[i] \in Bytes
    BY <1>1, <1>3, ElementOfSeq
  <2>2. SubSeq(c, 1, k) \in Seq(Bytes) /\ Len(SubSeq(c, 1, k)) = k
    <3>1. 1..k = 1..k /\ k - 1 + 1 = k /\ 1 <= k /\ k <= Len(c) /\ k \in Nat
      BY <1>1, <1>3
    <3> QED BY <1>1, <2>1, <3>1, SubSeqProperties
  <2>3. Len(SubSeq(c, 1, k)) <= MaxFileBytes
    BY <1>1, <2>2
  <2> QED BY <2>2, <2>3, ContentsAre
<1> QED BY <1>2, <1>3

\* Whoever uses the store of a running platform has loaded it.
LEMMA StoreIsSaved ==
  ASSUME StoreInv, live
  PROVE  /\ DOMAIN Store \subseteq Names /\ \A n \in DOMAIN Store : Store[n] \in Contents
         /\ \A n \in Names : ContentOf(Store, n) = saved[n]
<1>1. CASE ~Reload
  BY <1>1 DEF StoreInv, StoreTypes, Store, Reload
<1>2. CASE Reload
  <2> DEFINE found == {DecodeName(d) : d \in DOMAIN mirror \ {}}
  <2>1. persist /\ ~loaded /\ exposed = {} /\ DOMAIN files = {}
    BY <1>2 DEF StoreInv, Untouched, Reload
  <2>2. Store = [name \in found |-> Mirrored(name)]
    <3>1. Store = [name \in DOMAIN files \cup found |->
                     IF name \in DOMAIN files THEN files[name] ELSE Mirrored(name)]
      BY <1>2 DEF Store, LoadStore
    <3> HIDE DEF found
    <3> QED BY <2>1, <3>1
  <2>3. ASSUME NEW n PROVE n \in found <=> n \in Names /\ EncodeName(n) \in DOMAIN mirror
    BY NamesDiffer DEF StoreInv, StoreTypes
  <2> HIDE DEF found
  <2>4. \A n \in Names : Mirrored(n) = ContentOf(mirror, EncodeName(n))
    BY MirroredIs DEF StoreInv
  <2>5. ASSUME NEW n \in Names PROVE ContentOf(Store, n) = saved[n]
    <3>1. ContentOf(mirror, EncodeName(n)) = saved[n]
      BY <2>1 DEF StoreInv
    <3> QED BY <2>2, <2>3, <2>4, <3>1 DEF ContentOf
  <2>6. ASSUME NEW n \in DOMAIN Store PROVE n \in Names /\ Store[n] \in Contents
    <3>1. n \in found /\ n \in Names /\ EncodeName(n) \in DOMAIN mirror
      BY <2>2, <2>3
    <3>2. Store[n] = mirror[EncodeName(n)]
      BY <2>2, <2>4, <3>1 DEF ContentOf
    <3> QED BY <3>1, <3>2 DEF StoreInv, StoreTypes
  <2> QED BY <2>5, <2>6
<1> QED BY <1>1, <1>2

\* After EnsureLoadedLocked of a running platform.
LEMMA LoadedNow ==
  ASSUME StoreInv, live, EnsureLoaded
  PROVE  loaded' \in BOOLEAN /\ (loaded' \/ ~persist)
  BY DEF StoreInv, StoreTypes, EnsureLoaded, Reload

\* Reading the store loads it, and changes no file.
LEMMA LoadKeepsStore ==
  ASSUME StoreInv, live, EnsureLoaded,
         DOMAIN files' = DOMAIN Store, \A n \in DOMAIN Store : files'[n] = Store[n],
         UNCHANGED <<live, persist, mirror, saved, exposed>>
  PROVE  StoreInv'
<1>1. loaded' \in BOOLEAN /\ (loaded' \/ ~persist)
  BY LoadedNow
<1>2. /\ DOMAIN Store \subseteq Names /\ \A n \in DOMAIN Store : Store[n] \in Contents
      /\ \A n \in Names : ContentOf(Store, n) = saved[n]
  BY StoreIsSaved
<1>3. /\ DOMAIN files' \subseteq Names /\ \A n \in DOMAIN files' : files'[n] \in Contents
      /\ \A n \in Names : ContentOf(files', n) = ContentOf(Store, n)
  BY <1>2 DEF ContentOf
<1>4. StoreTypes'
  BY <1>1, <1>3 DEF StoreInv, StoreTypes
<1>5. Untouched'
  BY <1>1 DEF StoreInv, Untouched
<1>6. \A n \in Names :
        /\ ContentOf(files', n) = saved'[n]
        /\ OwnFile(n) => (n \notin exposed' => ContentOf(mirror', EncodeName(n)) = saved'[n])
  BY <1>2, <1>3 DEF StoreInv
<1> QED BY <1>1, <1>4, <1>5, <1>6 DEF StoreInv, ContentOf

\* The change of a file reaches the mirror, or the file is exposed; the entries
\* of the other files that have their own are left alone.
Repeated(name, content) ==
  /\ DOMAIN mirror' \subseteq {EncodeName(n) : n \in Names}
  /\ \A d \in DOMAIN mirror' : mirror'[d] \in Contents
  /\ \A n \in Names : OwnFile(n) /\ n # name =>
       ContentOf(mirror', EncodeName(n)) = ContentOf(mirror, EncodeName(n))
  /\ \/ exposed' = exposed \cup {name}
     \/ /\ exposed' = exposed \ {name}
        /\ OwnFile(name) => ContentOf(mirror', EncodeName(name)) = content
  /\ ~persist => mirror' = mirror

\* What becomes of the mirror when one entry is replaced, or taken away.
LEMMA OneEntry ==
  ASSUME StoreTypes, NEW disk, NEW part,
         \/ part \in Contents /\ mirror' = Stored(mirror, disk, part)
         \/ part = Absent /\ mirror' = Erased(mirror, disk)
  PROVE  /\ DOMAIN mirror' \subseteq DOMAIN mirror \cup {disk}
         /\ \A d \in DOMAIN mirror' : mirror'[d] \in Contents
         /\ \A d : d # disk => ContentOf(mirror', d) = ContentOf(mirror, d)
         /\ ContentOf(mirror', disk) = part
<1>1. \A d \in DOMAIN mirror : mirror[d] \in Contents
  BY DEF StoreTypes
<1>2. CASE part \in Contents /\ mirror' = Stored(mirror, disk, part)
  <2> DEFINE new == Stored(mirror, disk, part)
  <2>1. /\ DOMAIN new = DOMAIN mirror \cup {disk}
        /\ \A y \in DOMAIN mirror \cup {disk} : new[y] = IF y = disk THEN part ELSE mirror[y]
        /\ ContentOf(new, disk) = part
        /\ \A y : y # disk => ContentOf(new, y) = ContentOf(mirror, y)
    BY DEF Stored, ContentOf
  <2>2. mirror' = new
    BY <1>2
  <2> HIDE DEF new
  <2> QED BY <1>1, <1>2, <2>1, <2>2
<1>3. CASE part = Absent /\ mirror' = Erased(mirror, disk)
  <2> DEFINE new == Erased(mirror, disk)
  <2>1. /\ DOMAIN new = DOMAIN mirror \ {disk}
        /\ \A y \in DOMAIN mirror \ {disk} : new[y] = mirror[y]
        /\ ContentOf(new, disk) = Absent
        /\ \A y : y # disk => ContentOf(new, y) = ContentOf(mirror, y)
    BY DEF Erased, ContentOf
  <2>2. mirror' = new
    BY <1>3
  <2> HIDE DEF new
  <2> QED BY <1>1, <1>3, <2>1, <2>2
<1> QED BY <1>2, <1>3

\* A change of the entry of a name is a change of its file, and of no other.
LEMMA EntryChanges ==
  ASSUME StoreTypes, persist, NEW name \in Names, NEW part,
         \/ part \in Contents /\ mirror' = Stored(mirror, Entry(EncodeName(name)), part)
         \/ part = Absent /\ mirror' = Erased(mirror, Entry(EncodeName(name)))
  PROVE  /\ exposed' = exposed \cup {name} => \A content : Repeated(name, content)
         /\ exposed' = exposed \ {name} => Repeated(name, part)
<1> DEFINE disk == Entry(EncodeName(name))
<1>1. PICK m \in Names : disk = EncodeName(m)
  BY EntryIsName
<1>2. /\ OwnFile(name) => disk = EncodeName(name)
      /\ \A n \in Names : OwnFile(n) /\ n # name => disk # EncodeName(n)
  BY OwnEntry
<1> HIDE DEF disk
<1>3. /\ DOMAIN mirror' \subseteq DOMAIN mirror \cup {disk}
      /\ \A d \in DOMAIN mirror' : mirror'[d] \in Contents
      /\ \A d : d # disk => ContentOf(mirror', d) = ContentOf(mirror, d)
      /\ ContentOf(mirror', disk) = part
  BY OneEntry DEF disk
<1>4. DOMAIN mirror' \subseteq {EncodeName(n) : n \in Names}
  BY <1>1, <1>3 DEF StoreTypes
<1> QED BY <1>2, <1>3, <1>4 DEF Repeated

\* An exposed file is no matter of the mirror that was left alone.
LEMMA MirrorStays ==
  ASSUME StoreTypes, NEW name, mirror' = mirror, NEW content,
         \/ exposed' = exposed \cup {name}
         \/ exposed' = exposed \ {name} /\ ~OwnFile(name)
  PROVE  Repeated(name, content)
BY DEF Repeated, StoreTypes

\* A write repeats the new content in the mirror, or exposes the file, or the
\* name is not that of a file.
LEMMA WriteRepeats ==
  ASSUME StoreTypes, NEW name \in Names, NEW content \in Contents, PersistWrite(name, content)
  PROVE  Repeated(name, content)
<1> DEFINE disk == Entry(EncodeName(name))
<1>1. OwnFile(name) => IsFile(EncodeName(name))
  BY OwnEntry
<1>2. CASE /\ persist /\ IsFile(EncodeName(name))
           /\ mirror' = Stored(mirror, disk, content) /\ exposed' = exposed \ {name}
  BY <1>2, EntryChanges
<1>3. CASE /\ persist /\ exposed' = exposed \cup {name}
           /\ \E k \in 0..Len(content) - 1 :
                mirror' = Stored(mirror, disk, SubSeq(content, 1, k))
  <2>1. PICK k \in 0..Len(content) - 1 : mirror' = Stored(mirror, disk, SubSeq(content, 1, k))
    BY <1>3
  <2> DEFINE part == SubSeq(content, 1, k)
  <2>2. part \in Contents
    BY PartOfContent
  <2> HIDE DEF part
  <2>3. mirror' = Stored(mirror, disk, part)
    BY <2>1 DEF part
  <2> QED BY <1>3, <2>2, <2>3, EntryChanges
<1>4. CASE mirror' = mirror /\ exposed' = exposed \cup {name}
  BY <1>4, MirrorStays
<1>5. CASE ~IsFile(EncodeName(name)) /\ mirror' = mirror /\ exposed' = exposed \ {name}
  BY <1>1, <1>5, MirrorStays
<1> QED BY <1>2, <1>3, <1>4, <1>5 DEF PersistWrite

\* So does a delete.
LEMMA DeleteRepeats ==
  ASSUME StoreTypes, NEW name \in Names, PersistDelete(name)
  PROVE  Repeated(name, Absent)
<1> DEFINE disk == Entry(EncodeName(name))
<1>1. CASE persist /\ mirror' = Erased(mirror, disk) /\ exposed' = exposed \ {name}
  BY <1>1, EntryChanges
<1>2. CASE mirror' = mirror /\ exposed' = exposed \cup {name}
  BY <1>2, MirrorStays
<1> QED BY <1>1, <1>2 DEF PersistDelete

\* A change that is made in the store, repeated in the mirror and accepted keeps
\* the files what the player was told they are.
LEMMA ChangeKeepsStore ==
  ASSUME StoreInv, live, EnsureLoaded, NEW name \in Names, NEW content \in Contents \cup {Absent},
         Repeated(name, content),
         DOMAIN files' \subseteq Names, \A n \in DOMAIN files' : files'[n] \in Contents,
         ContentOf(files', name) = content,
         \A n \in Names : n # name => ContentOf(files', n) = ContentOf(Store, n),
         saved' = [saved EXCEPT ![name] = content],
         UNCHANGED <<live, persist>>
  PROVE  StoreInv'
<1>1. loaded' \in BOOLEAN /\ (loaded' \/ ~persist)
  BY LoadedNow
<1>2. \A n \in Names : ContentOf(Store, n) = saved[n]
  BY StoreIsSaved
<1>3. /\ saved \in [Names -> Contents \cup {Absent}] /\ exposed \subseteq Names
      /\ \A n \in Names : OwnFile(n) /\ n \notin exposed =>
           ContentOf(mirror, EncodeName(n)) = saved[n]
      /\ ~persist => DOMAIN mirror = {}
      /\ live \in BOOLEAN /\ persist \in BOOLEAN
  BY DEF StoreInv, StoreTypes, Untouched
<1>4. /\ saved' \in [Names -> Contents \cup {Absent}] /\ saved'[name] = content
      /\ \A n \in Names : n # name => saved'[n] = saved[n]
  BY <1>3
<1>5. DOMAIN mirror' \subseteq {EncodeName(n) : n \in Names} /\ exposed' \subseteq Names
  BY <1>3 DEF Repeated
<1>6. StoreTypes'
  <2>1. \A d \in DOMAIN mirror' : mirror'[d] \in Contents
    BY DEF Repeated
  <2> QED BY <1>1, <1>3, <1>4, <1>5, <2>1 DEF StoreTypes
<1>7. Untouched'
  BY <1>1, <1>3 DEF Untouched, Repeated
<1>8. ASSUME NEW n \in Names
      PROVE  /\ ContentOf(files', n) = saved'[n]
             /\ OwnFile(n) /\ n \notin exposed' => ContentOf(mirror', EncodeName(n)) = saved'[n]
  <2>1. CASE n = name
    BY <1>4, <2>1 DEF Repeated
  <2>2. CASE n # name
    <3>1. OwnFile(n) => ContentOf(mirror', EncodeName(n)) = ContentOf(mirror, EncodeName(n))
      BY <2>2 DEF Repeated
    <3>2. n \notin exposed' => n \notin exposed
      BY <2>2 DEF Repeated
    <3> QED BY <1>2, <1>3, <1>4, <2>2, <3>1, <3>2
  <2> QED BY <2>1, <2>2
<1> QED BY <1>1, <1>6, <1>7, <1>8 DEF StoreInv, ContentOf

---------------------------------------------------------------------------
(* The actions on the files.                                               *)

\* The store has its types whatever happens around it.
LEMMA StoreStays ==
  ASSUME StoreInv, live' \in BOOLEAN, UNCHANGED <<persist, files, loaded, mirror, saved, exposed>>
  PROVE  StoreInv'
BY DEF StoreInv, StoreTypes, Untouched, ContentOf

\* A store that was not read yet, over a directory that is empty or not there.
LEMMA StoreBegins == PdsInit => StoreInv
<1> SUFFICES ASSUME PdsInit PROVE StoreInv
  OBVIOUS
<1>1. /\ live = FALSE /\ persist \in BOOLEAN /\ files = <<>> /\ loaded = FALSE /\ mirror = <<>>
      /\ saved = [n \in Names |-> Absent] /\ exposed = {}
  BY DEF PdsInit
<1>2. DOMAIN files = {} /\ DOMAIN mirror = {}
  BY <1>1
<1>3. StoreTypes /\ Untouched
  BY <1>1, <1>2 DEF StoreTypes, Untouched
<1> QED BY <1>1, <1>2, <1>3 DEF StoreInv, ContentOf

\* A copy is what its original is.
LEMMA DuplicateKeepsStore ==
  ASSUME StoreInv, NEW from \in Names, NEW to \in Names, DuplicateFile(from, to)
  PROVE  StoreInv'
<1>1. live /\ EnsureLoaded /\ UNCHANGED <<live, persist>>
  BY DEF DuplicateFile, FileCall
<1>2. CASE from \notin DOMAIN Store
  BY <1>1, <1>2, LoadKeepsStore DEF DuplicateFile
<1>3. CASE from \in DOMAIN Store
  <2> DEFINE content == Store[from]
  <2>1. /\ DOMAIN Store \subseteq Names /\ \A n \in DOMAIN Store : Store[n] \in Contents
        /\ ContentOf(Store, from) = saved[from] /\ StoreTypes
    BY <1>1, StoreIsSaved DEF StoreInv
  <2>2. content \in Contents /\ content = saved[from]
    BY <1>3, <2>1 DEF ContentOf
  <2>3. /\ files' = Stored(Store, to, content) /\ PersistWrite(to, content)
        /\ saved' = [saved EXCEPT ![to] = saved[from]]
    BY <1>3 DEF DuplicateFile
  <2> HIDE DEF content
  <2>4. saved' = [saved EXCEPT ![to] = content]
    BY <2>2, <2>3
  <2>5. Repeated(to, content)
    BY <2>1, <2>2, <2>3, WriteRepeats
  <2>6. /\ DOMAIN files' \subseteq Names /\ \A n \in DOMAIN files' : files'[n] \in Contents
        /\ ContentOf(files', to) = content
        /\ \A n \in Names : n # to => ContentOf(files', n) = ContentOf(Store, n)
    BY <2>1, <2>2, <2>3 DEF Stored, ContentOf
  <2> QED BY <1>1, <2>2, <2>4, <2>5, <2>6, ChangeKeepsStore
<1> QED BY <1>2, <1>3

\* EOS_PlayerDataStorage_DeleteFile.
LEMMA DeleteKeepsStore ==
  ASSUME StoreInv, NEW name \in Names, DeleteFile(name)
  PROVE  StoreInv'
<1>1. live /\ EnsureLoaded /\ UNCHANGED <<live, persist>> /\ files' = Erased(Store, name)
  BY DEF DeleteFile, FileCall
<1>2. CASE name \notin DOMAIN Store
  <2>1. UNCHANGED <<mirror, saved, exposed>>
    BY <1>2 DEF DeleteFile
  <2>2. DOMAIN files' = DOMAIN Store /\ \A n \in DOMAIN Store : files'[n] = Store[n]
    BY <1>1, <1>2 DEF Erased
  <2> QED BY <1>1, <2>1, <2>2, LoadKeepsStore
<1>3. CASE name \in DOMAIN Store
  <2>1. /\ DOMAIN Store \subseteq Names /\ \A n \in DOMAIN Store : Store[n] \in Contents
        /\ StoreTypes
    BY <1>1, StoreIsSaved DEF StoreInv
  <2>2. PersistDelete(name) /\ saved' = [saved EXCEPT ![name] = Absent]
    BY <1>3 DEF DeleteFile
  <2>3. Repeated(name, Absent)
    BY <2>1, <2>2, DeleteRepeats
  <2>4. /\ DOMAIN files' \subseteq Names /\ \A n \in DOMAIN files' : files'[n] \in Contents
        /\ ContentOf(files', name) = Absent
        /\ \A n \in Names : n # name => ContentOf(files', n) = ContentOf(Store, n)
    BY <1>1, <2>1 DEF Erased, ContentOf
  <2> QED BY <1>1, <2>2, <2>3, <2>4, ChangeKeepsStore
<1> QED BY <1>2, <1>3

\* A write is stored, and in the mirror, exactly when the player is told so.
LEMMA CommitKeepsStore ==
  ASSUME StoreInv, live, CommitWrite, transfer.name \in Names,
         transfer.data = transfer.handed, transfer.data \in Seq(Bytes),
         transfer.result = "Success" <=> Accepted(transfer)
  PROVE  StoreInv'
<1> DEFINE name == transfer.name
           content == transfer.data
<1>1. CASE transfer.result # "Success"
  BY <1>1, StoreStays DEF CommitWrite, StoreInv, StoreTypes
<1>2. CASE transfer.result = "Success"
  <2>1. Accepted(transfer) /\ name \in Names /\ content \in Seq(Bytes) /\ content = transfer.handed
    BY <1>2
  <2>2. content \in Contents
    BY <2>1, ContentsAre DEF Accepted
  <2>3. /\ EnsureLoaded /\ PersistWrite(name, content) /\ files' = Stored(Store, name, content)
        /\ saved' = [saved EXCEPT ![name] = content] /\ UNCHANGED <<live, persist>>
    BY <1>2, <2>1 DEF CommitWrite
  <2> HIDE DEF content, name
  <2>4. /\ DOMAIN Store \subseteq Names /\ \A n \in DOMAIN Store : Store[n] \in Contents
        /\ StoreTypes
    BY StoreIsSaved DEF StoreInv
  <2>5. Repeated(name, content)
    BY <2>1, <2>2, <2>3, <2>4, WriteRepeats
  <2>6. /\ DOMAIN files' \subseteq Names /\ \A n \in DOMAIN files' : files'[n] \in Contents
        /\ ContentOf(files', name) = content
        /\ \A n \in Names : n # name => ContentOf(files', n) = ContentOf(Store, n)
    BY <2>1, <2>2, <2>3, <2>4 DEF Stored, ContentOf
  <2> QED BY <2>1, <2>2, <2>3, <2>5, <2>6, ChangeKeepsStore
<1> QED BY <1>1, <1>2

\* A file that cannot be opened is exposed: it is not in the store, and a later
\* process may find it.
LEMMA FailedLoadKeepsStore ==
  ASSUME StoreInv, LoadFails
  PROVE  StoreInv'
<1>1. persist /\ live /\ ~loaded /\ exposed = {} /\ DOMAIN files = {} /\ loaded' = TRUE
      /\ UNCHANGED <<mirror, live, persist>>
  BY DEF LoadFails, Reload, StoreInv, Untouched
<1>2. PICK d \in DOMAIN mirror :
        /\ files' = LoadStore({d})
        /\ saved' = [saved EXCEPT ![DecodeName(d)] = Absent]
        /\ exposed' = exposed \cup {DecodeName(d)}
  BY DEF LoadFails
<1>3. PICK name \in Names : d = EncodeName(name)
  BY DEF StoreInv, StoreTypes
<1>4. DecodeName(d) = name
  BY <1>3, NamesDiffer
<1> DEFINE found == {DecodeName(e) : e \in DOMAIN mirror \ {d}}
<1>5. files' = [n \in found |-> Mirrored(n)]
  <2>1. files' = [n \in DOMAIN files \cup found |->
                    IF n \in DOMAIN files THEN files[n] ELSE Mirrored(n)]
    BY <1>2 DEF LoadStore
  <2> HIDE DEF found
  <2> QED BY <1>1, <2>1
<1>6. ASSUME NEW n PROVE n \in found <=> n \in Names /\ n # name /\ EncodeName(n) \in DOMAIN mirror
  BY <1>3, NamesDiffer DEF StoreInv, StoreTypes
<1> HIDE DEF found
<1>7. \A n \in Names : Mirrored(n) = ContentOf(mirror, EncodeName(n)) /\ Mirrored(n) = saved[n]
  BY <1>1, MirroredIs DEF StoreInv
<1>8. /\ saved \in [Names -> Contents \cup {Absent}] /\ exposed' = {name}
      /\ saved' = [saved EXCEPT ![name] = Absent]
      /\ \A e \in DOMAIN mirror : mirror[e] \in Contents
  BY <1>1, <1>2, <1>4 DEF StoreInv, StoreTypes
<1>9. /\ saved' \in [Names -> Contents \cup {Absent}] /\ saved'[name] = Absent
      /\ \A n \in Names : n # name => saved'[n] = saved[n]
  BY <1>8
<1>10. ASSUME NEW n \in DOMAIN files' PROVE n \in Names /\ files'[n] \in Contents
  <2>1. n \in found /\ n \in Names /\ EncodeName(n) \in DOMAIN mirror
    BY <1>5, <1>6
  <2>2. files'[n] = mirror[EncodeName(n)]
    BY <1>5, <1>7, <2>1 DEF ContentOf
  <2> QED BY <1>8, <2>1, <2>2
<1>11. ASSUME NEW n \in Names PROVE ContentOf(files', n) = saved'[n]
  <2>1. CASE n = name
    BY <1>5, <1>6, <1>9, <2>1 DEF ContentOf
  <2>2. CASE n # name /\ EncodeName(n) \in DOMAIN mirror
    BY <1>5, <1>6, <1>7, <1>9, <2>2 DEF ContentOf
  <2>3. CASE n # name /\ EncodeName(n) \notin DOMAIN mirror
    BY <1>5, <1>6, <1>7, <1>9, <2>3 DEF ContentOf
  <2> QED BY <2>1, <2>2, <2>3
<1>12. StoreTypes' /\ Untouched'
  BY <1>1, <1>8, <1>9, <1>10 DEF StoreInv, StoreTypes, Untouched
<1>13. \A n \in Names : n \notin exposed' => ContentOf(mirror', EncodeName(n)) = saved'[n]
  BY <1>1, <1>7, <1>8, <1>9
<1> QED BY <1>11, <1>12, <1>13 DEF StoreInv, ContentOf

\* The next process has what the mirror has.
LEMMA DeathKeepsStore ==
  ASSUME StoreInv, Dies
  PROVE  StoreInv'
<1>1. /\ live' = FALSE /\ files' = <<>> /\ loaded' = FALSE /\ exposed' = {}
      /\ saved' = [n \in Names |-> IF n \in exposed \/ ~OwnFile(n) THEN Mirrored(n) ELSE saved[n]]
      /\ UNCHANGED <<persist, mirror>>
  BY DEF Dies
<1>2. \A n \in Names : Mirrored(n) = ContentOf(mirror, EncodeName(n))
  BY MirroredIs DEF StoreInv
<1>3. \A n \in Names : ContentOf(mirror, EncodeName(n)) \in Contents \cup {Absent}
  BY DEF StoreInv, StoreTypes, ContentOf
<1>4. DOMAIN files' = {}
  BY <1>1
<1>5. StoreTypes'
  BY <1>1, <1>2, <1>3, <1>4 DEF StoreInv, StoreTypes
<1>6. Untouched'
  BY <1>1, <1>4 DEF StoreInv, Untouched
<1>7. \A n \in Names : ContentOf(mirror', EncodeName(n)) = saved'[n]
  BY <1>1, <1>2 DEF StoreInv
<1>8. ASSUME ~persist, NEW n \in Names PROVE ContentOf(files', n) = saved'[n]
  BY <1>1, <1>2, <1>4, <1>7, <1>8 DEF StoreInv, Untouched, ContentOf
<1> QED BY <1>1, <1>5, <1>6, <1>7, <1>8 DEF StoreInv, ContentOf

---------------------------------------------------------------------------
(* The line of the storages, the transfer at its head, the references.     *)

TransferClosures == [kind : {"read", "write"}, req : RequestIds, name : Names, hasData : BOOLEAN]
NamedTitleClosures == [kind : {"titleQuery", "titleRead"}, name : TitleNames]
PlainClosures == [kind : {"completion", "query", "titleList"}]
StorageClosures == TransferClosures \cup NamedTitleClosures \cup PlainClosures

StorageQueueInv ==
  /\ QueueOf(StorageClosures, 0) /\ delayed = <<>>
  /\ live \in BOOLEAN /\ (draining => live)

\* A transfer hands on what it was handed, and knows before it commits whether
\* the player may count on it.
TransferOK(t) ==
  /\ t \in Transfers
  /\ t.kind = "read" => t.step \in {"data", "finish"}
  /\ t.kind = "write" => t.data = t.handed
  /\ t.kind = "write" /\ t.step = "data" =>
       t.result = "Success" /\ CheckFilename(t.name) = "Success"
  /\ t.step = "commit" => t.kind = "write" /\ (t.result = "Success" <=> Accepted(t))

TransferInv == transfer # NoTransfer => TransferOK(transfer) /\ draining

\* A request is the registry's, and of its transfer: the closure that waits for
\* it in the line, or the one that runs.
TransferOf(r) == {c \in TransferClosures : c.req = r}
Waiting(r) == CountOf(Line, TransferOf(r))
Running(r) == IF transfer # NoTransfer /\ transfer.req = r THEN 1 ELSE 0
Registered(r) == IF r \in registry THEN 1 ELSE 0

RequestInv ==
  /\ made \in 0..MaxRequests /\ registry \subseteq 1..made
  /\ requests \in [RequestIds -> [refs : 0..2, state : Results]]
  /\ \A r \in RequestIds :
       /\ Waiting(r) \in Nat
       /\ Waiting(r) + Running(r) <= 1
       /\ r > made => Waiting(r) + Running(r) = 0
       /\ requests[r].refs = Registered(r) + Running(r) + Waiting(r)

TitleInv ==
  /\ served \subseteq TitleNames
  /\ knownNames \in Seq(TitleNames \ UnsafeNames) /\ IsInjective(knownNames)

StorageInv == StoreInv /\ StorageQueueInv /\ TransferInv /\ RequestInv /\ TitleInv

\* A closure of the line, by its kind.
LEMMA StorageClosureKinds ==
  ASSUME NEW c \in StorageClosures
  PROVE  /\ c.kind \in {"read", "write", "completion", "query", "titleList", "titleQuery", "titleRead"}
         /\ c.kind \in {"read", "write"} =>
              c \in TransferClosures /\ c.req \in RequestIds /\ c.name \in Names /\ c.hasData \in BOOLEAN
         /\ c.kind \notin {"read", "write"} => \A r : c \notin TransferOf(r)
         /\ c.kind \in {"titleQuery", "titleRead"} => c.name \in TitleNames
BY DEF StorageClosures, TransferClosures, NamedTitleClosures, PlainClosures, TransferOf

\* The line, the batch and what waits behind it are lists of closures.
LEMMA LineIsOfStorage ==
  ASSUME StorageQueueInv
  PROVE  Line \in Seq(StorageClosures) /\ ready \in Seq(StorageClosures) /\ pending \in Seq(StorageClosures)
BY ConcatProperties DEF StorageQueueInv, QueueOf, Line

\* Holders counts what Waiting counts.
LEMMA HoldersCount ==
  ASSUME NEW line \in Seq(StorageClosures), NEW r \in RequestIds
  PROVE  Holders(line, r) = CountOf(line, TransferOf(r))
<1>1. Len(line) \in Nat /\ DOMAIN line = 1..Len(line) /\ \A i \in 1..Len(line) : line[i] \in StorageClosures
  BY LenProperties, ElementOfSeq
<1>2. ASSUME NEW i \in DOMAIN line
      PROVE  line[i].kind \in {"read", "write"} /\ line[i].req = r <=> line[i] \in TransferOf(r)
  BY <1>1, StorageClosureKinds DEF TransferOf
<1>3. {i \in DOMAIN line : line[i].kind \in {"read", "write"} /\ line[i].req = r}
        = {i \in DOMAIN line : line[i] \in TransferOf(r)}
  BY <1>2
<1> QED BY <1>3, Zenon DEF Holders, CountOf

\* Whoever posts a closure lengthens the line by it.
LEMMA StoragePosts ==
  ASSUME StorageQueueInv, NEW c \in StorageClosures, Post(<<c>>),
         UNCHANGED <<live, delayed, ready, draining>>
  PROVE  /\ StorageQueueInv'
         /\ \A r : /\ Waiting(r) \in Nat
                 /\ Waiting(r)' = Waiting(r) + (IF c \in TransferOf(r) THEN 1 ELSE 0)
<1> DEFINE works == <<c>>
<1>1. works \in Seq(StorageClosures)
  OBVIOUS
<1>2. QueueOf(StorageClosures, 0) /\ Post(works) /\ UNCHANGED <<delayed, ready, draining>>
  BY DEF StorageQueueInv
<1>3. \A M : CountOf(works, M) = IF c \in M THEN 1 ELSE 0
  BY CountFew
<1> HIDE DEF works
<1>4. QueueOf(StorageClosures, 0)' /\ Line' = Line \o works
  BY <1>1, <1>2, PostJoins
<1>5. StorageQueueInv'
  BY <1>4 DEF StorageQueueInv
<1>6. ASSUME NEW r PROVE /\ Waiting(r) \in Nat
                         /\ Waiting(r)' = Waiting(r) + (IF c \in TransferOf(r) THEN 1 ELSE 0)
  <2> DEFINE M == TransferOf(r)
  <2>1. CountOf(Line, M) \in Nat /\ CountOf(Line \o works, M) = CountOf(Line, M) + CountOf(works, M)
    <3> HIDE DEF M
    <3> QED BY <1>1, LineIsOfStorage, CountConcat
  <2>2. Waiting(r)' = CountOf(Line \o works, M)
    BY <1>4 DEF Waiting
  <2> QED BY <1>3, <2>1, <2>2 DEF Waiting
<1> QED BY <1>5, <1>6

\* The closure that runs leaves the line.
LEMMA StorageRunsHead ==
  ASSUME StorageQueueInv, Work(<<>>), UNCHANGED live
  PROVE  /\ StorageQueueInv' /\ draining /\ draining' = draining
         /\ Head(ready) \in StorageClosures
         /\ \A r : /\ Waiting(r)' \in Nat
                 /\ Waiting(r) = (IF Head(ready) \in TransferOf(r) THEN 1 ELSE 0) + Waiting(r)'
<1> DEFINE none == <<>>
<1>1. QueueOf(StorageClosures, 0) /\ none \in Seq(StorageClosures) /\ Work(none)
  BY DEF StorageQueueInv
<1> HIDE DEF none
<1>2. /\ QueueOf(StorageClosures, 0)' /\ Head(ready) \in StorageClosures
      /\ Line \in Seq(StorageClosures) /\ Line # <<>> /\ Head(Line) = Head(ready)
      /\ Line' = Tail(Line) \o none
  BY <1>1, WorkRunsHead
<1>3. Line' = Tail(Line)
  <2>1. Tail(Line) \in Seq(StorageClosures)
    BY <1>2, HeadTailProperties
  <2> QED BY <1>2, <2>1, ConcatEmptySeq DEF none
<1>4. StorageQueueInv' /\ draining /\ draining' = draining
  BY <1>2 DEF StorageQueueInv, Work
<1>5. ASSUME NEW r PROVE /\ Waiting(r)' \in Nat
                         /\ Waiting(r) = (IF Head(ready) \in TransferOf(r) THEN 1 ELSE 0) + Waiting(r)'
  <2> DEFINE M == TransferOf(r)
  <2>1. /\ CountOf(Tail(Line), M) \in Nat
        /\ CountOf(Line, M) = (IF Head(Line) \in M THEN 1 ELSE 0) + CountOf(Tail(Line), M)
    <3> HIDE DEF M
    <3> QED BY <1>2, CountTail
  <2>2. Waiting(r)' = CountOf(Tail(Line), M)
    BY <1>3 DEF Waiting
  <2> QED BY <1>2, <2>1, <2>2 DEF Waiting
<1> QED BY <1>2, <1>4, <1>5

\* While the line, the transfer and the requests are left alone, each request
\* has the references it had.
LEMMA RequestsStay ==
  ASSUME RequestInv, UNCHANGED <<requests, registry, made, transfer>>,
         \A r \in RequestIds : Waiting(r)' = Waiting(r)
  PROVE  RequestInv'
<1>1. ASSUME NEW r \in RequestIds
      PROVE  /\ Waiting(r)' = Waiting(r) /\ Running(r)' = Running(r)
             /\ Registered(r)' = Registered(r) /\ requests'[r].refs = requests[r].refs
  BY DEF Running, Registered
<1> QED BY <1>1 DEF RequestInv

\* The line is left alone.
LEMMA StorageLineStays ==
  ASSUME StorageQueueInv, UNCHANGED <<live, pending, delayed, ready, draining>>
  PROVE  /\ StorageQueueInv' /\ Line' = Line
         /\ \A r : Waiting(r) \in Nat /\ Waiting(r)' = Waiting(r)
<1>1. Line' = Line
  BY DEF Line
<1>2. StorageQueueInv'
  BY DEF StorageQueueInv, QueueOf
<1>3. ASSUME NEW r PROVE Waiting(r) \in Nat /\ Waiting(r)' = Waiting(r)
  <2> DEFINE none == <<>>
             M == TransferOf(r)
  <2>1. none \in Seq(StorageClosures)
    OBVIOUS
  <2> HIDE DEF none, M
  <2>2. CountOf(Line, M) \in Nat
    BY <2>1, LineIsOfStorage, CountConcat
  <2> QED BY <1>1, <2>2 DEF Waiting, M
<1> QED BY <1>1, <1>2, <1>3

\* Nobody touches the title's files.
LEMMA TitleStays ==
  ASSUME TitleInv, UNCHANGED <<served, knownNames>>
  PROVE  TitleInv'
BY DEF TitleInv

\* A call that posts a closure which is no transfer.
LEMMA CallKeepsRequests ==
  ASSUME StorageQueueInv, TransferInv, RequestInv, NEW c \in StorageClosures,
         c.kind \notin {"read", "write"}, Post(<<c>>),
         UNCHANGED <<live, delayed, ready, draining, transfer, requests, registry, made>>
  PROVE  StorageQueueInv' /\ TransferInv' /\ RequestInv'
<1>1. /\ StorageQueueInv'
      /\ \A r : Waiting(r) \in Nat /\ Waiting(r)' = Waiting(r) + (IF c \in TransferOf(r) THEN 1 ELSE 0)
  BY StoragePosts
<1>2. \A r : c \notin TransferOf(r)
  BY StorageClosureKinds
<1>3. \A r : Waiting(r)' = Waiting(r)
  BY <1>1, <1>2
<1>4. RequestInv'
  BY <1>3, RequestsStay
<1> QED BY <1>1, <1>4 DEF TransferInv

\* A closure runs that is no transfer.
LEMMA RunKeepsRequests ==
  ASSUME StorageQueueInv, TransferInv, RequestInv, Work(<<>>),
         Head(ready).kind \notin {"read", "write"},
         UNCHANGED <<live, transfer, requests, registry, made>>
  PROVE  StorageQueueInv' /\ TransferInv' /\ RequestInv'
<1> DEFINE c == Head(ready)
<1>1. /\ StorageQueueInv' /\ c \in StorageClosures /\ draining' = draining
      /\ \A r : /\ Waiting(r)' \in Nat
              /\ Waiting(r) = (IF c \in TransferOf(r) THEN 1 ELSE 0) + Waiting(r)'
  BY StorageRunsHead
<1>2. c.kind \notin {"read", "write"}
  OBVIOUS
<1> HIDE DEF c
<1>3. \A r : c \notin TransferOf(r)
  BY <1>1, <1>2, StorageClosureKinds
<1>4. \A r : Waiting(r)' = Waiting(r)
  BY <1>1, <1>3
<1>5. RequestInv'
  BY <1>4, RequestsStay
<1> QED BY <1>1, <1>5 DEF TransferInv

\* A transfer goes on: it stays the transfer of its request.
LEMMA TransferGoesOn ==
  ASSUME StorageQueueInv, TransferInv, RequestInv, transfer # NoTransfer,
         UNCHANGED <<live, pending, delayed, ready, draining, requests, registry, made>>,
         TransferOK(transfer'), transfer'.req = transfer.req
  PROVE  StorageQueueInv' /\ TransferInv' /\ RequestInv'
<1>1. StorageQueueInv' /\ Line' = Line /\ \A r : Waiting(r)' = Waiting(r)
  BY StorageLineStays
<1>2. transfer' # NoTransfer
  BY StorageAssumption DEF StorageAssumption, TransferOK
<1>3. TransferInv'
  BY DEF TransferInv
<1>4. ASSUME NEW r \in RequestIds
      PROVE  /\ Waiting(r)' = Waiting(r) /\ Running(r)' = Running(r)
             /\ Registered(r)' = Registered(r) /\ requests'[r].refs = requests[r].refs
  BY <1>1, <1>2 DEF Running, Registered
<1>5. RequestInv'
  BY <1>4 DEF RequestInv
<1> QED BY <1>1, <1>3, <1>5

\* The data callback of a read changes what the completion says.
LEMMA TakeDataKeeps ==
  ASSUME StorageInv, NEW said \in {"Continue", "Fail", "Cancel"}, TakeData(said),
         UNCHANGED <<served, knownNames>>
  PROVE  StorageInv'
<1>1. /\ transfer # NoTransfer /\ transfer.kind = "read" /\ transfer.step = "data"
      /\ UNCHANGED <<live, persist, files, loaded, mirror, saved, exposed, requests, registry,
                     made, pending, delayed, ready, draining>>
  BY DEF TakeData, fileVars, requestVars, dispatchVars
<1>2. TransferOK(transfer)
  BY <1>1 DEF StorageInv, TransferInv
<1> DEFINE answer == CASE said = "Fail" -> "UserErrorFromDataCallback"
                       [] said = "Cancel" -> "Canceled"
                       [] OTHER -> "Success"
<1>3. answer \in Results
  BY DEF Results
<1>4. transfer' = [transfer EXCEPT !.step = "finish", !.said = said, !.result = answer]
  BY DEF TakeData
<1> HIDE DEF answer
<1>5. transfer \in Transfers
  BY <1>2 DEF TransferOK
<1>6. transfer' \in Transfers /\ transfer'.req = transfer.req /\ transfer'.kind = "read"
      /\ transfer'.step = "finish"
  BY <1>1, <1>3, <1>4, <1>5 DEF Transfers
<1>7. TransferOK(transfer')
  BY <1>6 DEF TransferOK
<1>8. StorageQueueInv' /\ TransferInv' /\ RequestInv'
  BY <1>1, <1>6, <1>7, TransferGoesOn DEF StorageInv
<1>9. StoreInv'
  BY <1>1, StoreStays DEF StorageInv, StorageQueueInv
<1> QED BY <1>8, <1>9, TitleStays DEF StorageInv

\* The data callback of a write hands over what is stored, and decides with the
\* last chunk whether anything is.
LEMMA PullDataKeeps ==
  ASSUME StorageInv, NEW chunk \in Seq(Bytes),
         NEW said \in {"Continue", "Complete", "Fail", "Cancel"}, PullData(chunk, said),
         UNCHANGED <<served, knownNames>>
  PROVE  StorageInv'
<1>1. /\ transfer # NoTransfer /\ transfer.kind = "write" /\ transfer.step = "data"
      /\ UNCHANGED <<live, persist, files, loaded, mirror, saved, exposed, requests, registry,
                     made, pending, delayed, ready, draining>>
  BY DEF PullData, fileVars, requestVars, dispatchVars
<1>2. TransferOK(transfer) /\ transfer \in Transfers
  BY <1>1 DEF StorageInv, TransferInv, TransferOK
<1>3. /\ transfer.data = transfer.handed /\ transfer.result = "Success"
      /\ CheckFilename(transfer.name) = "Success"
  BY <1>1, <1>2 DEF TransferOK
<1> DEFINE assembled == transfer.data \o chunk
           tooLarge == Len(assembled) > MaxFileBytes
           next == IF said = "Continue" /\ ~tooLarge THEN "data" ELSE "commit"
           answer == CASE tooLarge -> "FileSizeTooLarge"
                       [] said = "Fail" -> "UserErrorFromDataCallback"
                       [] said = "Cancel" -> "Canceled"
                       [] OTHER -> "Success"
<1>4. transfer' = [transfer EXCEPT !.data = assembled, !.handed = transfer.handed \o chunk,
                                   !.said = said, !.step = next, !.result = answer]
  BY <1>3 DEF PullData
<1>5. assembled \in Seq(Bytes) /\ Len(assembled) \in Nat /\ MaxFileBytes \in Nat
  BY <1>2, ConcatProperties, LenProperties, StorageAssumption DEF StorageAssumption, Transfers
<1>6. /\ tooLarge \in BOOLEAN /\ answer \in Results /\ next \in {"data", "commit"}
      /\ answer = "Success" <=> ~tooLarge /\ said \in {"Continue", "Complete"}
      /\ next = "data" => answer = "Success"
      /\ next = "commit" => tooLarge \/ said # "Continue"
  BY DEF Results
<1>7. tooLarge <=> ~(Len(assembled) <= MaxFileBytes)
  BY <1>5
<1>8. transfer.handed \o chunk = assembled
  BY <1>3
<1> HIDE DEF assembled, tooLarge, next, answer
<1>9. transfer' = [transfer EXCEPT !.data = assembled, !.handed = assembled,
                                   !.said = said, !.step = next, !.result = answer]
  BY <1>4, <1>8
<1>10. /\ transfer' \in Transfers /\ transfer'.req = transfer.req /\ transfer'.kind = "write"
       /\ transfer'.data = assembled /\ transfer'.handed = assembled /\ transfer'.said = said
       /\ transfer'.step = next /\ transfer'.result = answer /\ transfer'.name = transfer.name
  BY <1>1, <1>2, <1>5, <1>6, <1>9 DEF Transfers
<1>11. 0 < Len(transfer.name) /\ Len(transfer.name) <= NameMax
  <2>1. transfer.name \in Seq(STRING) /\ NameMax \in Nat
    BY <1>2, StorageAssumption DEF StorageAssumption, Transfers
  <2>2. transfer.name # <<>> /\ ~(Len(transfer.name) > NameMax)
    BY <1>3 DEF CheckFilename
  <2>3. Len(transfer.name) \in Nat /\ Len(transfer.name) # 0
    BY <2>1, <2>2, EmptySeq, LenProperties
  <2> QED BY <2>1, <2>2, <2>3
<1>12. Accepted(transfer') <=> said = "Complete" /\ ~tooLarge
  BY <1>7, <1>10, <1>11 DEF Accepted
<1>13. TransferOK(transfer')
  BY <1>3, <1>6, <1>10, <1>12 DEF TransferOK
<1>14. StorageQueueInv' /\ TransferInv' /\ RequestInv'
  BY <1>1, <1>10, <1>13, TransferGoesOn DEF StorageInv
<1>15. StoreInv'
  BY <1>1, StoreStays DEF StorageInv, StorageQueueInv
<1> QED BY <1>14, <1>15, TitleStays DEF StorageInv

\* The write is stored, or the player is told that it is not.
LEMMA CommitKeeps ==
  ASSUME StorageInv, CommitWrite, UNCHANGED <<served, knownNames>>
  PROVE  StorageInv'
<1>1. /\ transfer # NoTransfer /\ transfer.step = "commit" /\ draining /\ live
      /\ transfer' = [transfer EXCEPT !.step = "finish"]
      /\ UNCHANGED <<live, persist, requests, registry, made, pending, delayed, ready, draining>>
  BY DEF CommitWrite, requestVars, dispatchVars, StorageInv, TransferInv, StorageQueueInv
<1>2. TransferOK(transfer) /\ transfer \in Transfers
  BY <1>1 DEF StorageInv, TransferInv, TransferOK
<1>3. /\ transfer.kind = "write" /\ transfer.data = transfer.handed /\ transfer.name \in Names
      /\ transfer.data \in Seq(Bytes) /\ (transfer.result = "Success" <=> Accepted(transfer))
  BY <1>1, <1>2 DEF TransferOK, Transfers
<1>4. StoreInv'
  BY <1>1, <1>3, CommitKeepsStore DEF StorageInv
<1>5. /\ transfer' \in Transfers /\ transfer'.req = transfer.req /\ transfer'.step = "finish"
      /\ transfer'.kind = "write" /\ transfer'.data = transfer'.handed
  BY <1>1, <1>2, <1>3 DEF Transfers
<1>6. TransferOK(transfer')
  BY <1>5 DEF TransferOK
<1>7. StorageQueueInv' /\ TransferInv' /\ RequestInv'
  BY <1>1, <1>5, <1>6, TransferGoesOn DEF StorageInv
<1> QED BY <1>4, <1>7, TitleStays DEF StorageInv

\* One reference more or less: what is counted of a request.
LEMMA CountsOfOne ==
  \A a, b, c, d \in Nat :
    /\ a + b <= 1 => a + b \in 0..1
    /\ c <= 1 /\ a + b <= 1 => c + a + b \in 0..2
    /\ 0 + a = a /\ a + 0 = a
    /\ 1 + a <= 1 => a = 0
OBVIOUS

\* The completion has run: the closure gives its reference back.
LEMMA FinishKeeps ==
  ASSUME StorageInv, FinishTransfer, UNCHANGED <<served, knownNames>>
  PROVE  StorageInv'
<1>1. /\ transfer # NoTransfer /\ transfer' = NoTransfer
      /\ requests' = DropReference([requests EXCEPT ![transfer.req].state = transfer.result],
                                    transfer.req)
      /\ UNCHANGED <<live, persist, files, loaded, mirror, saved, exposed, registry, made,
                     pending, delayed, ready, draining>>
  BY DEF FinishTransfer, fileVars, dispatchVars
<1>2. transfer \in Transfers
  BY <1>1 DEF StorageInv, TransferInv, TransferOK
<1> DEFINE q == transfer.req
           result == transfer.result
<1>3. q \in RequestIds /\ result \in Results
  BY <1>2 DEF Transfers
<1>4. StorageQueueInv' /\ \A r : Waiting(r) \in Nat /\ Waiting(r)' = Waiting(r)
  BY <1>1, StorageLineStays DEF StorageInv
<1>5. TransferInv'
  BY <1>1 DEF TransferInv
<1>6. /\ requests \in [RequestIds -> [refs : 0..2, state : Results]]
      /\ \A r \in RequestIds :
           /\ Waiting(r) + Running(r) <= 1
           /\ r > made => Waiting(r) + Running(r) = 0
           /\ requests[r].refs = Registered(r) + Running(r) + Waiting(r)
  BY DEF StorageInv, RequestInv
<1>7. Running(q) = 1 /\ (\A r \in RequestIds : r # q => Running(r) = 0)
      /\ \A r \in RequestIds : Running(r)' = 0 /\ Registered(r)' = Registered(r)
  BY <1>1 DEF Running, Registered
<1>8. \A r \in RequestIds : Registered(r) \in {0, 1}
  BY DEF Registered
<1>9. Waiting(q) = 0 /\ requests[q].refs = Registered(q) + 1 /\ requests[q].refs - 1 = Registered(q)
      /\ requests[q].refs - 1 \in 0..2
  BY <1>3, <1>4, <1>6, <1>7, <1>8
<1>10. requests' = [requests EXCEPT ![q] = [requests[q] EXCEPT !.state = result,
                                                               !.refs = requests[q].refs - 1]]
  <2>1. requests' = DropReference([requests EXCEPT ![q].state = result], q)
    BY <1>1
  <2> HIDE DEF q, result
  <2> QED BY <1>3, <1>6, <2>1 DEF DropReference
<1> HIDE DEF q, result
<1>11. requests[q] \in [refs : 0..2, state : Results]
  BY <1>3, <1>6
<1> DEFINE n == requests[q].refs - 1
           rec == [requests[q] EXCEPT !.state = result, !.refs = n]
<1>12. rec \in [refs : 0..2, state : Results] /\ rec.refs = Registered(q)
  <2>1. n \in 0..2 /\ n = Registered(q)
    BY <1>9
  <2> HIDE DEF n
  <2> QED BY <1>3, <1>11, <2>1
<1>13. requests' = [requests EXCEPT ![q] = rec]
  BY <1>10
<1> HIDE DEF rec
<1>14. /\ requests' \in [RequestIds -> [refs : 0..2, state : Results]]
       /\ requests'[q].refs = Registered(q)
       /\ \A r \in RequestIds : r # q => requests'[r] = requests[r]
  BY <1>3, <1>6, <1>12, <1>13
<1>15. ASSUME NEW r \in RequestIds
       PROVE  /\ Waiting(r)' \in Nat
              /\ Waiting(r)' + Running(r)' <= 1
              /\ r > made => Waiting(r)' + Running(r)' = 0
              /\ requests'[r].refs = Registered(r)' + Running(r)' + Waiting(r)'
  <2>1. Waiting(r)' = Waiting(r) /\ Running(r)' = 0 /\ Registered(r)' = Registered(r)
        /\ Waiting(r) \in Nat /\ Registered(r) \in {0, 1}
    BY <1>4, <1>7, <1>8
  <2>2. CASE r = q
    <3>1. Waiting(r) = 0 /\ requests'[r].refs = Registered(r)
      BY <1>9, <1>14, <2>2
    <3> QED BY <2>1, <3>1
  <2>3. CASE r # q
    <3>1. /\ Running(r) = 0 /\ requests'[r].refs = requests[r].refs
          /\ Waiting(r) + Running(r) <= 1 /\ (r > made => Waiting(r) + Running(r) = 0)
          /\ requests[r].refs = Registered(r) + Running(r) + Waiting(r)
      BY <1>6, <1>7, <1>14, <2>3
    <3> QED BY <2>1, <3>1
  <2> QED BY <2>2, <2>3
<1>16. RequestInv'
  BY <1>1, <1>14, <1>15 DEF StorageInv, RequestInv
<1>17. StoreInv'
  BY <1>1, StoreStays DEF StorageInv, StorageQueueInv
<1> QED BY <1>4, <1>5, <1>16, <1>17, TitleStays DEF StorageInv

\* Drain comes to a transfer: the reference passes from the line to it.
LEMMA BeginKeeps ==
  ASSUME StorageInv, transfer = NoTransfer, BeginTransfer, UNCHANGED <<served, knownNames>>
  PROVE  StorageInv'
<1> DEFINE c == Head(ready)
           found == c.name \in DOMAIN Store
<1>1. /\ Work(<<>>) /\ c.kind \in {"read", "write"} /\ StorageQueueInv /\ StoreInv
      /\ UNCHANGED <<live, persist, mirror, saved, exposed, requests, registry, made>>
  BY DEF BeginTransfer, requestVars, StorageInv
<1>2. /\ StorageQueueInv' /\ draining /\ draining' /\ live /\ c \in StorageClosures
      /\ \A r : /\ Waiting(r)' \in Nat
              /\ Waiting(r) = (IF c \in TransferOf(r) THEN 1 ELSE 0) + Waiting(r)'
  BY <1>1, StorageRunsHead DEF StorageQueueInv
<1>3. c \in TransferClosures /\ c.req \in RequestIds /\ c.name \in Names /\ c.hasData \in BOOLEAN
  <2> HIDE DEF c
  <2> QED BY <1>1, <1>2, StorageClosureKinds
<1>4. c.name \in Seq(STRING) /\ NameMax \in Nat /\ MaxFileBytes \in Nat
  BY <1>3, StorageAssumption DEF StorageAssumption
<1>5. CheckFilename(c.name) \in Results
      /\ (CheckFilename(c.name) = "Success" <=> 0 < Len(c.name) /\ Len(c.name) <= NameMax)
  <2> HIDE DEF c
  <2>1. Len(c.name) \in Nat /\ (Len(c.name) = 0 <=> c.name = <<>>)
    BY <1>4, EmptySeq, LenProperties
  <2> QED BY <1>4, <2>1 DEF CheckFilename, Results
<1>6. ASSUME c.kind = "write" PROVE StoreInv' /\ TransferOK(transfer') /\ transfer'.req = c.req
  <2> DEFINE result == CheckFilename(c.name)
             said == IF c.hasData THEN "Continue" ELSE "Complete"
             next == IF c.hasData /\ result = "Success" THEN "data" ELSE "commit"
             none == <<>>
             new == [kind |-> "write", req |-> c.req, name |-> c.name, data |-> none,
                     handed |-> none, said |-> said, result |-> result, step |-> next]
  <2>1. transfer' = new /\ UNCHANGED <<files, loaded>>
    BY <1>6 DEF BeginTransfer
  <2>2. none \in Seq(Bytes) /\ Len(none) = 0 /\ result \in Results
        /\ said \in {"Continue", "Complete"} /\ next \in {"data", "commit"}
        /\ (next = "data" => result = "Success") /\ (said = "Complete" <=> ~c.hasData)
        /\ (next = "commit" => ~c.hasData \/ result # "Success")
    BY <1>3, <1>5
  <2>3. result = "Success" <=> 0 < Len(c.name) /\ Len(c.name) <= NameMax
    BY <1>5
  <2> HIDE DEF c, result, said, next, none
  <2>4. new \in Transfers
    BY <1>3, <2>2 DEF Transfers
  <2>5. next = "commit" => (result = "Success" <=> Accepted(new))
    BY <1>4, <2>2, <2>3 DEF Accepted
  <2>6. TransferOK(new)
    BY <2>2, <2>4, <2>5 DEF TransferOK, result
  <2>7. StoreInv'
    BY <1>1, <1>2, <2>1, StoreStays DEF StorageQueueInv
  <2>8. TransferOK(transfer') /\ transfer'.req = c.req
    BY <2>1, <2>6
  <2> QED BY <2>7, <2>8
<1>7. ASSUME c.kind = "read" PROVE StoreInv' /\ TransferOK(transfer') /\ transfer'.req = c.req
  <2> DEFINE content == IF found THEN Store[c.name] ELSE <<>>
             result == IF found THEN "Success" ELSE "NotFound"
             next == IF found /\ c.hasData THEN "data" ELSE "finish"
             none == <<>>
             new == [kind |-> "read", req |-> c.req, name |-> c.name, data |-> content,
                     handed |-> none, said |-> "Continue", result |-> result, step |-> next]
  <2>1. transfer' = new /\ EnsureLoaded /\ files' = Store
    BY <1>7 DEF BeginTransfer
  <2>2. content \in Seq(Bytes) /\ none \in Seq(Bytes)
    <3>1. found => Store[c.name] \in Contents
      BY <1>1, <1>2, StoreIsSaved
    <3> QED BY <3>1, ContentsAre
  <2>3. result \in Results /\ next \in {"data", "finish"}
    BY DEF Results
  <2>4. StoreInv'
    BY <1>1, <1>2, <2>1, LoadKeepsStore
  <2> HIDE DEF c, result, next, none, content
  <2>5. new \in Transfers
    BY <1>3, <2>2, <2>3 DEF Transfers
  <2>6. TransferOK(new)
    BY <2>3, <2>5 DEF TransferOK
  <2>7. TransferOK(transfer') /\ transfer'.req = c.req
    BY <2>1, <2>6
  <2> QED BY <2>4, <2>7
<1>8. StoreInv' /\ TransferOK(transfer') /\ transfer'.req = c.req
  BY <1>1, <1>6, <1>7
<1> HIDE DEF c
<1>9. transfer' # NoTransfer
  BY <1>8, StorageAssumption DEF StorageAssumption, TransferOK
<1>10. TransferInv'
  BY <1>2, <1>8 DEF TransferInv
<1>11. \A r : c \in TransferOf(r) <=> r = c.req
  BY <1>3 DEF TransferOf
<1>12. ASSUME NEW r \in RequestIds
       PROVE  /\ Waiting(r)' + Running(r)' = Waiting(r) + Running(r)
              /\ Registered(r)' = Registered(r) /\ Waiting(r)' \in Nat
              /\ Registered(r) + Running(r)' + Waiting(r)' = Registered(r) + Running(r) + Waiting(r)
  <2>1. Running(r) = 0 /\ Running(r)' = (IF r = c.req THEN 1 ELSE 0)
    BY <1>8, <1>9 DEF Running
  <2>2. Waiting(r)' \in Nat /\ Waiting(r) = (IF r = c.req THEN 1 ELSE 0) + Waiting(r)'
    BY <1>2, <1>11
  <2>3. Registered(r)' = Registered(r) /\ Registered(r) \in {0, 1}
    BY <1>1 DEF Registered
  <2> QED BY <2>1, <2>2, <2>3
<1>13. RequestInv'
  BY <1>1, <1>12 DEF StorageInv, RequestInv
<1> QED BY <1>2, <1>8, <1>10, <1>13, TitleStays DEF StorageInv

\* A new request, with the registry's reference and, if there is a platform, the
\* one of the closure that will be its transfer.
LEMMA NewRequestKeeps ==
  ASSUME StorageInv, NEW kind \in {"read", "write"}, NEW name \in Names, NEW hasData \in BOOLEAN,
         NewRequest(kind, name, hasData), UNCHANGED <<served, knownNames>>
  PROVE  StorageInv'
<1> DEFINE q == made + 1
           c == [kind |-> kind, req |-> q, name |-> name, hasData |-> hasData]
           n == IF live THEN 2 ELSE 1
           rec == [NoRequest EXCEPT !.refs = n]
           one == IF live THEN 1 ELSE 0
<1>1. /\ made < MaxRequests /\ made' = q /\ registry' = registry \cup {q}
      /\ requests' = [requests EXCEPT ![q] = rec]
      /\ IF live THEN Post(<<c>>) ELSE UNCHANGED pending
      /\ UNCHANGED <<live, persist, files, loaded, mirror, saved, exposed, transfer,
                     delayed, ready, draining>>
  BY DEF NewRequest, fileVars
<1>2. /\ made \in 0..MaxRequests /\ registry \subseteq 1..made
      /\ requests \in [RequestIds -> [refs : 0..2, state : Results]]
      /\ StorageQueueInv /\ TransferInv
      /\ \A r \in RequestIds :
           /\ Waiting(r) \in Nat
           /\ Waiting(r) + Running(r) <= 1
           /\ r > made => Waiting(r) + Running(r) = 0
           /\ requests[r].refs = Registered(r) + Running(r) + Waiting(r)
  BY DEF StorageInv, RequestInv
<1>3. /\ MaxRequests \in Nat /\ made \in Nat /\ q \in RequestIds /\ q > made /\ q \notin registry
      /\ q \in 0..MaxRequests /\ registry \cup {q} \subseteq 1..q
      /\ \A r \in RequestIds : r > q => r > made
  BY <1>1, <1>2, StorageAssumption DEF StorageAssumption, RequestIds
<1>4. c \in TransferClosures /\ c \in StorageClosures /\ \A r : c \in TransferOf(r) <=> r = q
  BY <1>3 DEF TransferClosures, StorageClosures, TransferOf
<1>5. n \in 0..2 /\ n = 1 + one /\ one \in {0, 1}
  OBVIOUS
<1>6. rec \in [refs : 0..2, state : Results] /\ rec.refs = n
  BY <1>5 DEF NoRequest, Results
<1>7. StorageQueueInv' /\ \A r \in RequestIds : Waiting(r)' = Waiting(r) + (IF r = q THEN one ELSE 0)
  <2>1. CASE live
    <3>1. Post(<<c>>) /\ UNCHANGED <<live, delayed, ready, draining>>
      BY <1>1, <2>1
    <3> HIDE DEF c
    <3>2. /\ StorageQueueInv'
          /\ \A r : Waiting(r)' = Waiting(r) + (IF c \in TransferOf(r) THEN 1 ELSE 0)
      BY <1>2, <1>4, <3>1, StoragePosts
    <3>3. one = 1
      BY <2>1
    <3> HIDE DEF one, q
    <3> QED BY <1>4, <3>2, <3>3
  <2>2. CASE ~live
    <3>1. StorageQueueInv' /\ \A r : Waiting(r)' = Waiting(r)
      BY <1>1, <1>2, <2>2, StorageLineStays
    <3>2. one = 0
      BY <2>2
    <3> HIDE DEF one, q
    <3> QED BY <1>2, <3>1, <3>2
  <2> QED BY <2>1, <2>2
<1> HIDE DEF q, c, n, rec, one
<1>8. /\ requests' \in [RequestIds -> [refs : 0..2, state : Results]]
      /\ requests'[q].refs = 1 + one
      /\ \A r \in RequestIds : r # q => requests'[r] = requests[r]
  BY <1>1, <1>2, <1>3, <1>5, <1>6
<1>9. ASSUME NEW r \in RequestIds
      PROVE  /\ Waiting(r)' \in Nat
             /\ Waiting(r)' + Running(r)' <= 1
             /\ r > q => Waiting(r)' + Running(r)' = 0
             /\ requests'[r].refs = Registered(r)' + Running(r)' + Waiting(r)'
  <2>1. /\ Running(r)' = Running(r) /\ Running(r) \in {0, 1} /\ Registered(r) \in {0, 1}
        /\ Registered(r)' = (IF r = q THEN 1 ELSE Registered(r))
    BY <1>1 DEF Running, Registered
  <2>2. CASE r = q
    <3>1. Waiting(q) + Running(q) = 0 /\ Waiting(q) \in Nat /\ Running(q) \in {0, 1}
      BY <1>2, <1>3, <2>1, <2>2
    <3>2. Waiting(q) = 0 /\ Running(q) = 0
      BY <3>1
    <3>3. Waiting(r)' = one /\ Running(r)' = 0 /\ Registered(r)' = 1 /\ ~(r > q)
      BY <1>3, <1>5, <1>7, <2>1, <2>2, <3>2
    <3> QED BY <1>5, <1>8, <2>2, <3>3
  <2>3. CASE r # q
    <3>1. /\ Waiting(r)' = Waiting(r) /\ Registered(r)' = Registered(r)
          /\ requests'[r].refs = requests[r].refs
      BY <1>2, <1>7, <1>8, <2>1, <2>3
    <3> QED BY <1>2, <1>3, <2>1, <3>1
  <2> QED BY <2>2, <2>3
<1>10. RequestInv'
  BY <1>1, <1>3, <1>8, <1>9 DEF RequestInv
<1>11. TransferInv'
  BY <1>1, <1>2 DEF TransferInv
<1>12. StoreInv'
  BY <1>1, <1>2, StoreStays DEF StorageInv, StorageQueueInv
<1> QED BY <1>7, <1>10, <1>11, <1>12, TitleStays DEF StorageInv

\* The game releases a request: the registry's reference, and no other.
LEMMA ReleaseKeeps ==
  ASSUME StorageInv, NEW q \in RequestIds, Release(q), UNCHANGED <<served, knownNames>>
  PROVE  StorageInv'
<1>1. /\ q \in registry /\ registry' = registry \ {q}
      /\ requests' = DropReference(requests, q)
      /\ UNCHANGED <<live, persist, files, loaded, mirror, saved, exposed, made, transfer,
                     pending, delayed, ready, draining>>
  BY DEF Release, fileVars, dispatchVars
<1>2. /\ made \in 0..MaxRequests /\ registry \subseteq 1..made
      /\ requests \in [RequestIds -> [refs : 0..2, state : Results]]
      /\ \A r \in RequestIds :
           /\ Waiting(r) \in Nat
           /\ Waiting(r) + Running(r) <= 1
           /\ r > made => Waiting(r) + Running(r) = 0
           /\ requests[r].refs = Registered(r) + Running(r) + Waiting(r)
  BY DEF StorageInv, RequestInv
<1>3. StorageQueueInv' /\ \A r : Waiting(r)' = Waiting(r)
  BY <1>1, StorageLineStays DEF StorageInv
<1>4. \A r \in RequestIds : Running(r) \in {0, 1} /\ Running(r)' = Running(r)
  BY <1>1 DEF Running
<1> DEFINE n == requests[q].refs - 1
<1>5. Registered(q) = 1 /\ Registered(q)' = 0 /\ \A r \in RequestIds : r # q => Registered(r)' = Registered(r)
  BY <1>1 DEF Registered
<1>6. n = Running(q) + Waiting(q) /\ n \in 0..2
  BY <1>2, <1>4, <1>5
<1>7. requests' = [requests EXCEPT ![q] = [requests[q] EXCEPT !.refs = n]]
  BY <1>1, <1>2 DEF DropReference
<1> HIDE DEF n
<1>8. requests[q] \in [refs : 0..2, state : Results]
  BY <1>2
<1>9. [requests[q] EXCEPT !.refs = n] \in [refs : 0..2, state : Results]
      /\ [requests[q] EXCEPT !.refs = n].refs = n
  BY <1>6, <1>8
<1>10. /\ requests' \in [RequestIds -> [refs : 0..2, state : Results]]
       /\ requests'[q].refs = n /\ \A r \in RequestIds : r # q => requests'[r] = requests[r]
  BY <1>2, <1>7, <1>9
<1>11. ASSUME NEW r \in RequestIds
       PROVE  requests'[r].refs = Registered(r)' + Running(r)' + Waiting(r)'
  <2>1. CASE r = q
    BY <1>2, <1>3, <1>4, <1>5, <1>6, <1>10, <2>1
  <2>2. CASE r # q
    <3>1. requests'[r].refs = requests[r].refs /\ Registered(r)' = Registered(r)
      BY <1>5, <1>10, <2>2
    <3> QED BY <1>2, <1>3, <1>4, <3>1
  <2> QED BY <2>1, <2>2
<1>12. \A r \in RequestIds : Waiting(r)' = Waiting(r) /\ Running(r)' = Running(r)
  BY <1>3, <1>4
<1>13. RequestInv'
  BY <1>1, <1>2, <1>10, <1>11, <1>12 DEF RequestInv
<1>14. StoreInv' /\ TransferInv'
  BY <1>1, StoreStays DEF StorageInv, StorageQueueInv, TransferInv
<1> QED BY <1>3, <1>13, <1>14, TitleStays DEF StorageInv

\* The closures die with the dispatcher and give their references back.
LEMMA PlatformReleaseKeeps ==
  ASSUME StorageInv, EOS_Platform_Release, UNCHANGED <<served, knownNames>>
  PROVE  StorageInv'
<1>1. /\ live /\ transfer = NoTransfer /\ live' = FALSE /\ Discarded
      /\ requests' = [r \in RequestIds |->
                        [requests[r] EXCEPT !.refs = requests[r].refs - Holders(pending, r)]]
      /\ UNCHANGED <<persist, files, loaded, mirror, saved, exposed, registry, made, transfer>>
  BY DEF EOS_Platform_Release, fileVars
<1>2. /\ made \in 0..MaxRequests /\ registry \subseteq 1..made
      /\ requests \in [RequestIds -> [refs : 0..2, state : Results]]
      /\ \A r \in RequestIds :
           /\ Waiting(r) \in Nat
           /\ Waiting(r) + Running(r) <= 1
           /\ r > made => Waiting(r) + Running(r) = 0
           /\ requests[r].refs = Registered(r) + Running(r) + Waiting(r)
  BY DEF StorageInv, RequestInv
<1>3. /\ QueueOf(StorageClosures, 0)' /\ ~draining /\ draining' = draining
      /\ ready = <<>> /\ ready' = <<>> /\ pending' = <<>> /\ delayed' = <<>>
      /\ pending \in Seq(StorageClosures)
  BY <1>1, DiscardedEmpties DEF StorageInv, StorageQueueInv, QueueOf, Discarded
<1>4. Line = pending
  BY <1>3, ConcatEmptySeq DEF Line
<1>5. Line' = <<>>
  BY <1>3, ConcatEmptySeq, EmptySeq DEF Line
<1>6. StorageQueueInv'
  BY <1>1, <1>3 DEF StorageQueueInv
<1>7. ASSUME NEW r \in RequestIds
      PROVE  /\ Holders(pending, r) = Waiting(r) /\ Waiting(r)' = 0
             /\ Running(r) = 0 /\ Running(r)' = 0
             /\ Registered(r)' = Registered(r) /\ Registered(r) \in {0, 1}
  <2>1. Holders(pending, r) = Waiting(r)
    BY <1>3, <1>4, HoldersCount, Zenon DEF Waiting
  <2>2. CountOf(<<>>, TransferOf(r)) = 0
    BY CountFew
  <2>3. Waiting(r)' = 0
    BY <1>5, <2>2 DEF Waiting
  <2> QED BY <1>1, <2>1, <2>3 DEF Running, Registered
<1>8. ASSUME NEW r \in RequestIds
      PROVE  /\ requests'[r] \in [refs : 0..2, state : Results]
             /\ requests'[r].refs = Registered(r)
  <2> DEFINE n == requests[r].refs - Holders(pending, r)
  <2>1. n = Registered(r) /\ n \in 0..2
    BY <1>2, <1>7
  <2>2. requests'[r] = [requests[r] EXCEPT !.refs = n] /\ requests[r] \in [refs : 0..2, state : Results]
    BY <1>1, <1>2
  <2> HIDE DEF n
  <2> QED BY <2>1, <2>2
<1>9. requests' \in [RequestIds -> [refs : 0..2, state : Results]]
  BY <1>1, <1>8
<1>10. RequestInv'
  BY <1>1, <1>2, <1>7, <1>8, <1>9 DEF RequestInv
<1>11. StoreInv' /\ TransferInv'
  BY <1>1, StoreStays DEF StorageInv, TransferInv
<1> QED BY <1>6, <1>10, <1>11, TitleStays DEF StorageInv

\* A process that has just started: no request, an empty line, no name known.
Started ==
  /\ pending = <<>> /\ delayed = <<>> /\ ready = <<>> /\ draining = FALSE
  /\ live = FALSE /\ made = 0 /\ registry = {} /\ transfer = NoTransfer
  /\ requests = [r \in RequestIds |-> NoRequest]
  /\ served \subseteq TitleNames /\ knownNames = <<>>

\* Nothing is requested of a process that has just started.
LEMMA FreshProcess == Started => RequestInv /\ StorageQueueInv /\ TransferInv /\ TitleInv
<1> SUFFICES ASSUME Started PROVE RequestInv /\ StorageQueueInv /\ TransferInv /\ TitleInv
  OBVIOUS
<1> USE DEF Started
<1>1. MaxRequests \in Nat
  BY StorageAssumption DEF StorageAssumption
<1>2. requests \in [RequestIds -> [refs : 0..2, state : Results]]
  BY DEF NoRequest, Results
<1>3. Line = <<>>
  BY ConcatEmptySeq, EmptySeq DEF Line
<1>4. \A M : CountOf(<<>>, M) = 0
  BY CountFew
<1>5. \A r \in RequestIds : Waiting(r) = 0 /\ Running(r) = 0 /\ Registered(r) = 0 /\ requests[r].refs = 0
  BY <1>3, <1>4 DEF Waiting, Running, Registered, NoRequest
<1>6. RequestInv
  BY <1>1, <1>2, <1>5 DEF RequestInv
<1>7. \A S : <<>> \in Seq(S)
  BY EmptySeq
<1>8. StorageQueueInv
  BY <1>7 DEF StorageQueueInv, QueueOf
<1>9. TitleInv
  BY <1>7 DEF TitleInv, IsInjective
<1> QED BY <1>6, <1>8, <1>9 DEF TransferInv

\* The same of the process that a step starts.
LEMMA FreshAgain == Started' => RequestInv' /\ StorageQueueInv' /\ TransferInv' /\ TitleInv'
BY FreshProcess, PTL

\* The initial states.
LEMMA StorageBegins == StorageInit => StorageInv
<1> SUFFICES ASSUME StorageInit PROVE StorageInv
  OBVIOUS
<1>1. PdsInit /\ Started
  BY DEF StorageInit, PdsInit, DispatcherInit, TitleInit, Started
<1> QED BY <1>1, StoreBegins, FreshProcess DEF StorageInv

\* After a death the game starts again, with what the mirror has.
LEMMA DeathKeeps ==
  ASSUME StorageInv, Dies, TitleForgotten
  PROVE  StorageInv'
<1>1. Started'
  BY DEF Dies, TitleForgotten, StorageInv, TitleInv, Started
<1>2. StoreInv'
  BY DeathKeepsStore DEF StorageInv
<1> QED BY <1>1, <1>2, FreshAgain DEF StorageInv

\* The calls that act at once.
LEMMA FileCallsKeep ==
  ASSUME StorageInv, PdsCalls, UNCHANGED <<served, knownNames>>
  PROVE  StorageInv'
<1> USE DEF StorageInv
<1>1. Completion \in StorageClosures /\ Completion.kind \notin {"read", "write"}
  BY DEF Completion, StorageClosures, PlainClosures
<1>2. CASE \E name \in Names, hasData \in BOOLEAN :
             ReadFile(name, hasData) \/ WriteFile(name, hasData)
  <2>1. PICK name \in Names, hasData \in BOOLEAN :
               NewRequest("read", name, hasData) \/ NewRequest("write", name, hasData)
    BY <1>2 DEF ReadFile, WriteFile
  <2> QED BY <2>1, NewRequestKeeps
<1>3. CASE \E from, to \in Names : DuplicateFile(from, to)
  <2>1. PICK from \in Names, to \in Names : DuplicateFile(from, to)
    BY <1>3
  <2>2. StoreInv'
    BY <2>1, DuplicateKeepsStore
  <2>3. StorageQueueInv' /\ TransferInv' /\ RequestInv'
    BY <1>1, <2>1, CallKeepsRequests DEF DuplicateFile, requestVars
  <2> QED BY <2>2, <2>3, TitleStays
<1>4. CASE \E name \in Names : DeleteFile(name)
  <2>1. PICK name \in Names : DeleteFile(name)
    BY <1>4
  <2>2. StoreInv'
    BY <2>1, DeleteKeepsStore
  <2>3. StorageQueueInv' /\ TransferInv' /\ RequestInv'
    BY <1>1, <2>1, CallKeepsRequests DEF DeleteFile, requestVars
  <2> QED BY <2>2, <2>3, TitleStays
<1>5. CASE QueryFile \/ DeleteCache
  <2> DEFINE query == [kind |-> "query"]
  <2>1. query \in StorageClosures /\ query.kind \notin {"read", "write"}
    BY DEF StorageClosures, PlainClosures
  <2>2. /\ UNCHANGED <<live, persist, files, loaded, mirror, saved, exposed, requests, registry,
                      made, transfer, delayed, ready, draining>>
        /\ Post(<<query>>) \/ Post(<<Completion>>)
    BY <1>5 DEF QueryFile, DeleteCache, fileVars, requestVars
  <2> HIDE DEF query
  <2>3. StorageQueueInv' /\ TransferInv' /\ RequestInv'
    BY <1>1, <2>1, <2>2, CallKeepsRequests
  <2> QED BY <2>2, <2>3, StoreStays, TitleStays DEF StorageQueueInv
<1> QED BY <1>2, <1>3, <1>4, <1>5 DEF PdsCalls

\* A query loads the store; the other completions read nothing.
LEMMA CompletionKeeps ==
  ASSUME StorageInv, RunCompletion, UNCHANGED <<served, knownNames>>
  PROVE  StorageInv'
<1> USE DEF StorageInv
<1>1. /\ Work(<<>>) /\ Head(ready).kind \in {"query", "completion"}
      /\ UNCHANGED <<live, persist, mirror, saved, exposed, requests, registry, made, transfer>>
  BY DEF RunCompletion, requestVars
<1>2. StorageQueueInv' /\ TransferInv' /\ RequestInv'
  BY <1>1, RunKeepsRequests
<1>3. live
  BY <1>1, StorageRunsHead DEF StorageQueueInv
<1>4. StoreInv'
  <2>1. CASE Head(ready).kind = "query"
    BY <1>1, <1>3, <2>1, LoadKeepsStore DEF RunCompletion
  <2>2. CASE Head(ready).kind = "completion"
    BY <1>1, <2>2, StoreStays DEF RunCompletion, StorageQueueInv
  <2> QED BY <1>1, <2>1, <2>2
<1> QED BY <1>2, <1>4, TitleStays

\* A name is remembered once.
LEMMA RememberKeepsNames ==
  ASSUME TitleInv, NEW name \in TitleNames \ UnsafeNames, RememberLocked(name), served' = served
  PROVE  TitleInv'
<1> DEFINE S == TitleNames \ UnsafeNames
<1>1. knownNames \in Seq(S) /\ IsInjective(knownNames) /\ name \in S
  BY DEF TitleInv
<1>2. CASE name \in ToSet(knownNames)
  BY <1>2 DEF TitleInv, RememberLocked
<1>3. CASE name \notin ToSet(knownNames)
  <2>1. knownNames' = Append(knownNames, name)
    BY <1>3 DEF RememberLocked
  <2> HIDE DEF S
  <2>2. Append(knownNames, name) \in Seq(S) /\ IsInjective(Append(knownNames, name))
    BY <1>1, <1>3, AppendRoster, AppendInjectiveRoster
  <2> QED BY <2>1, <2>2 DEF TitleInv, S
<1> QED BY <1>2, <1>3

\* A closure of the title storage runs.
LEMMA TitleTaskKeeps ==
  ASSUME StorageInv, NEW said, RunTitleTask(said), UNCHANGED pdsVars
  PROVE  StorageInv'
<1> USE DEF StorageInv
<1> DEFINE c == Head(ready)
<1>1. /\ Work(<<>>) /\ served' = served
      /\ UNCHANGED <<live, persist, files, loaded, mirror, saved, exposed, requests, registry,
                     made, transfer>>
      /\ c.kind \in {"titleList", "titleQuery", "titleRead"}
      /\ \/ knownNames' = knownNames
         \/ c.kind \in {"titleQuery", "titleRead"} /\ ServedFileExists(c.name) /\ RememberLocked(c.name)
  BY DEF RunTitleTask, pdsVars, fileVars, requestVars
<1>2. c \in StorageClosures
  BY <1>1, StorageRunsHead
<1>3. StorageQueueInv' /\ TransferInv' /\ RequestInv'
  BY <1>1, RunKeepsRequests
<1> HIDE DEF c
<1>4. StoreInv'
  BY <1>1, StoreStays DEF StorageQueueInv
<1>5. CASE knownNames' = knownNames
  BY <1>1, <1>3, <1>4, <1>5, TitleStays
<1>6. CASE c.kind \in {"titleQuery", "titleRead"} /\ ServedFileExists(c.name) /\ RememberLocked(c.name)
  <2>1. c.name \in TitleNames
    BY <1>2, <1>6, StorageClosureKinds
  <2>2. c.name \in TitleNames \ UnsafeNames
    BY <1>6, <2>1 DEF ServedFileExists, SafeName
  <2>3. TitleInv'
    BY <1>1, <1>6, <2>2, RememberKeepsNames
  <2> QED BY <1>3, <1>4, <2>3
<1> QED BY <1>1, <1>5, <1>6

\* The calls of the title storage.
LEMMA TitleCallsKeep ==
  ASSUME StorageInv, TitleCalls, UNCHANGED pdsVars
  PROVE  StorageInv'
<1> USE DEF StorageInv
<1>1. UNCHANGED <<live, persist, files, loaded, mirror, saved, exposed, requests, registry,
                  made, transfer>>
  BY DEF pdsVars, fileVars, requestVars
<1>2. StoreInv'
  BY <1>1, StoreStays DEF StorageQueueInv
<1>3. CASE DirectoryChanges
  <2>1. UNCHANGED <<knownNames, pending, delayed, ready, draining>>
        /\ \E name \in TitleNames :
             served' = IF name \in served THEN served \ {name} ELSE served \cup {name}
    BY <1>3 DEF DirectoryChanges, dispatchVars
  <2>2. TitleInv'
    BY <2>1 DEF TitleInv
  <2>3. StorageQueueInv' /\ \A r : Waiting(r)' = Waiting(r)
    BY <1>1, <2>1, StorageLineStays
  <2>4. RequestInv' /\ TransferInv'
    BY <1>1, <2>1, <2>3, RequestsStay DEF TransferInv
  <2> QED BY <1>2, <2>2, <2>3, <2>4
<1>4. CASE \E c \in NamedTitleClosures \cup PlainClosures :
             Post(<<c>>) /\ UNCHANGED <<served, knownNames, delayed, ready, draining>>
  <2>1. PICK c \in NamedTitleClosures \cup PlainClosures :
          Post(<<c>>) /\ UNCHANGED <<served, knownNames, delayed, ready, draining>>
    BY <1>4
  <2>2. c \in StorageClosures /\ c.kind \notin {"read", "write"}
    BY DEF StorageClosures, NamedTitleClosures, PlainClosures
  <2>3. StorageQueueInv' /\ TransferInv' /\ RequestInv'
    BY <1>1, <2>1, <2>2, CallKeepsRequests
  <2> QED BY <1>2, <2>1, <2>3, TitleStays
<1>5. ASSUME NEW name \in TitleNames, TitleQueryFile(name) \/ TitleReadFile(name)
      PROVE  \E c \in NamedTitleClosures \cup PlainClosures :
               Post(<<c>>) /\ UNCHANGED <<served, knownNames, delayed, ready, draining>>
  BY <1>5 DEF NamedTitleClosures, TitleQueryFile, TitleReadFile
<1>6. ASSUME TitleQueryFileList
      PROVE  \E c \in NamedTitleClosures \cup PlainClosures :
               Post(<<c>>) /\ UNCHANGED <<served, knownNames, delayed, ready, draining>>
  BY <1>6 DEF PlainClosures, TitleQueryFileList
<1> QED BY <1>3, <1>4, <1>5, <1>6 DEF TitleCalls

\* Another closure of the line runs, whichever it is.
LEMMA ClosureKeeps ==
  ASSUME StorageInv, RunClosure
  PROVE  StorageInv'
<1>1. CASE BeginTransfer /\ UNCHANGED titleVars
  BY <1>1, BeginKeeps DEF RunClosure, titleVars
<1>2. CASE RunCompletion /\ UNCHANGED titleVars
  BY <1>2, CompletionKeeps DEF titleVars
<1>3. CASE \E said \in {"Continue", "Fail", "Cancel"} : RunTitleTask(said) /\ UNCHANGED pdsVars
  BY <1>3, TitleTaskKeeps
<1> QED BY <1>1, <1>2, <1>3 DEF RunClosure

\* A batch begins, and is done: the line stays the line.
LEMMA BatchKeeps ==
  ASSUME StorageInv, BatchBegins \/ BatchReturns
  PROVE  StorageInv'
<1> USE DEF StorageInv
<1>1. UNCHANGED <<live, persist, files, loaded, mirror, saved, exposed, requests, registry,
                  made, transfer, served, knownNames>>
  BY DEF BatchBegins, BatchReturns, pdsVars, titleVars, fileVars, requestVars
<1>2. transfer = NoTransfer
  BY DEF BatchBegins, BatchReturns, Drain, TransferInv
<1>3. StorageQueueInv' /\ Line' = Line
  <2>1. QueueOf(StorageClosures, 0) /\ delayed = <<>>
    BY DEF StorageQueueInv
  <2>2. CASE BatchBegins
    <3>1. live /\ Drain
      BY <2>2 DEF BatchBegins
    <3>2. QueueOf(StorageClosures, 0)' /\ Line' = Line /\ delayed' = <<>>
      BY <2>1, <3>1, DrainJoins, DrainOfNothingDelayed
    <3> QED BY <1>1, <3>1, <3>2 DEF StorageQueueInv
  <2>3. CASE BatchReturns
    <3>1. DrainReturns
      BY <2>3 DEF BatchReturns
    <3>2. QueueOf(StorageClosures, 0)' /\ Line' = Line
      BY <2>1, <3>1, DrainReturnsLeavesLine
    <3> QED BY <1>1, <2>1, <3>1, <3>2 DEF StorageQueueInv, DrainReturns
  <2> QED BY <2>2, <2>3
<1>4. \A r : Waiting(r)' = Waiting(r)
  BY <1>3 DEF Waiting
<1>5. RequestInv'
  BY <1>1, <1>4, RequestsStay
<1>6. StoreInv' /\ TransferInv'
  BY <1>1, <1>2, StoreStays DEF StorageQueueInv, TransferInv
<1> QED BY <1>1, <1>3, <1>5, <1>6, TitleStays

\* What leaves the line, the transfer and the requests alone, and keeps the
\* store and the names.
LEMMA AsideKeeps ==
  ASSUME StorageInv, StoreInv', TitleInv', live' \in BOOLEAN, draining => live',
         UNCHANGED <<pending, delayed, ready, draining, requests, registry, made, transfer>>
  PROVE  StorageInv'
<1> USE DEF StorageInv
<1>1. Line' = Line
  BY DEF Line
<1>2. \A r : Waiting(r)' = Waiting(r)
  BY <1>1 DEF Waiting
<1>3. RequestInv'
  BY <1>2, RequestsStay
<1>4. StorageQueueInv' /\ TransferInv'
  BY DEF StorageQueueInv, QueueOf, TransferInv
<1> QED BY <1>3, <1>4

\* The store is loaded, the platform is created, a title request is released.
LEMMA OthersKeep ==
  ASSUME StorageInv,
         \/ LoadFails /\ UNCHANGED <<titleVars, dispatchVars>>
         \/ CopyFileMetadata /\ UNCHANGED titleVars
         \/ EOS_Platform_Create /\ UNCHANGED titleVars
         \/ TitleRelease /\ UNCHANGED pdsVars
  PROVE  StorageInv'
<1> USE DEF StorageInv
<1>1. UNCHANGED <<pending, delayed, ready, draining, requests, registry, made, transfer,
                  served, knownNames>>
  BY DEF LoadFails, CopyFileMetadata, EOS_Platform_Create, TitleRelease, titleVars, pdsVars,
         dispatchVars, requestVars
<1>2. TitleInv'
  BY <1>1, TitleStays
<1>3. CASE LoadFails
  BY <1>1, <1>2, <1>3, FailedLoadKeepsStore, AsideKeeps DEF LoadFails, StorageQueueInv
<1>4. CASE CopyFileMetadata
  <2>1. live /\ EnsureLoaded /\ files' = Store /\ UNCHANGED <<live, persist, mirror, saved, exposed>>
    BY <1>4 DEF CopyFileMetadata, Reload
  <2> QED BY <1>1, <1>2, <2>1, LoadKeepsStore, AsideKeeps DEF StorageQueueInv
<1>5. CASE EOS_Platform_Create
  <2>1. live' = TRUE /\ UNCHANGED <<persist, files, loaded, mirror, saved, exposed>>
    BY <1>5 DEF EOS_Platform_Create, fileVars
  <2> QED BY <1>1, <1>2, <2>1, StoreStays, AsideKeeps
<1>6. CASE UNCHANGED pdsVars
  <2>1. UNCHANGED <<live, persist, files, loaded, mirror, saved, exposed>>
    BY <1>6 DEF pdsVars, fileVars
  <2> QED BY <1>1, <1>2, <2>1, StoreStays, AsideKeeps DEF StorageQueueInv
<1> QED BY <1>3, <1>4, <1>5, <1>6

\* No step of the storages breaks the invariant.
LEMMA StorageNextKeeps ==
  ASSUME StorageInv, [StorageNext]_storageVars
  PROVE  StorageInv'
<1>1. CASE UNCHANGED storageVars
  <2>1. /\ UNCHANGED <<live, persist, files, loaded, mirror, saved, exposed, requests, registry,
                       made, transfer, pending, delayed, ready, draining, served, knownNames>>
    BY <1>1 DEF storageVars, pdsVars, titleVars, dispatchVars, fileVars, requestVars
  <2> QED BY <2>1, StoreStays, TitleStays, AsideKeeps DEF StorageInv, StorageQueueInv
<1>2. CASE BatchBegins \/ BatchReturns \/ RunClosure
  BY <1>2, BatchKeeps, ClosureKeeps
<1>3. CASE \E said \in {"Continue", "Fail", "Cancel"} : TakeData(said) /\ UNCHANGED titleVars
  BY <1>3, TakeDataKeeps DEF titleVars
<1>4. CASE \E chunk \in {<<>>} \cup {<<b>> : b \in Bytes},
              said \in {"Continue", "Complete", "Fail", "Cancel"} :
                PullData(chunk, said) /\ UNCHANGED titleVars
  <2>1. <<>> \in Seq(Bytes) /\ \A b \in Bytes : <<b>> \in Seq(Bytes)
    BY EmptySeq
  <2>2. {<<>>} \cup {<<b>> : b \in Bytes} \subseteq Seq(Bytes)
    BY <2>1, Zenon
  <2> QED BY <1>4, <2>2, PullDataKeeps DEF titleVars
<1>5. CASE CommitWrite /\ UNCHANGED titleVars
  BY <1>5, CommitKeeps DEF titleVars
<1>6. CASE FinishTransfer /\ UNCHANGED titleVars
  BY <1>6, FinishKeeps DEF titleVars
<1>7. CASE PdsCalls /\ UNCHANGED titleVars
  BY <1>7, FileCallsKeep DEF titleVars
<1>8. CASE \E r \in RequestIds : Release(r) /\ UNCHANGED titleVars
  BY <1>8, ReleaseKeeps DEF titleVars
<1>9. CASE EOS_Platform_Release /\ UNCHANGED <<served, knownNames>>
  BY <1>9, PlatformReleaseKeeps
<1>10. CASE Dies /\ TitleForgotten
  BY <1>10, DeathKeeps
<1>11. CASE TitleCalls /\ UNCHANGED pdsVars
  BY <1>11, TitleCallsKeep
<1>12. CASE \/ LoadFails /\ UNCHANGED <<titleVars, dispatchVars>>
            \/ CopyFileMetadata /\ UNCHANGED titleVars
            \/ EOS_Platform_Create /\ UNCHANGED titleVars
            \/ TitleRelease /\ UNCHANGED pdsVars
  BY <1>12, OthersKeep
<1> QED BY <1>1, <1>2, <1>3, <1>4, <1>5, <1>6, <1>7, <1>8, <1>9, <1>10, <1>11, <1>12
        DEF StorageNext

\* PlayerDataStorage.cpp, TitleStorage.cpp: the invariant of the two stores, of
\* their requests and of the line of their closures.
THEOREM StorageInvariant == StorageSpec => []StorageInv
BY StorageBegins, StorageNextKeeps, PTL DEF StorageSpec

\* The invariant gives the types.
LEMMA StorageTypesFollow == StorageInv => StorageTypeOK
<1> SUFFICES ASSUME StorageInv PROVE StorageTypeOK
  OBVIOUS
<1>1. transfer # NoTransfer => /\ draining /\ live /\ transfer.step \in {"data", "commit", "finish"}
                              /\ transfer.result \in Results
  BY DEF StorageInv, TransferInv, TransferOK, StorageQueueInv, Transfers
<1>2. registry \subseteq RequestIds
  BY StorageAssumption DEF StorageInv, RequestInv, RequestIds, StorageAssumption
<1>3. PdsTypeOK
  BY <1>1, <1>2 DEF StorageInv, StoreInv, StoreTypes, RequestInv, PdsTypeOK
<1>4. ToSet(knownNames) \subseteq TitleNames \ UnsafeNames
  <2>1. \A i \in DOMAIN knownNames : knownNames[i] \in TitleNames \ UnsafeNames
    BY LenProperties, ElementOfSeq DEF StorageInv, TitleInv
  <2> QED BY <2>1 DEF ToSet
<1>5. ASSUME NEW i \in DOMAIN Line
      PROVE  Line[i].kind \in {"read", "write", "query", "completion", "titleQuery", "titleList", "titleRead"}
  <2>1. Line[i] \in StorageClosures
    BY LineIsOfStorage, LenProperties, ElementOfSeq DEF StorageInv
  <2> DEFINE c == Line[i]
  <2> HIDE DEF c
  <2>2. c \in StorageClosures
    BY <2>1 DEF c
  <2>3. c.kind \in {"read", "write", "completion", "query", "titleList", "titleQuery", "titleRead"}
    BY <2>2, StorageClosureKinds
  <2> QED BY <2>3 DEF c
<1> QED BY <1>3, <1>4, <1>5 DEF StorageTypeOK, StorageInv, TitleInv

\* PlayerDataStorage.cpp, TitleStorage.cpp: the state of the two stores is of its
\* types, whatever the game calls and however its process ends.
THEOREM StorageTypes == StorageSpec => []StorageTypeOK
BY StorageInvariant, StorageTypesFollow, PTL

\* The invariant says of every file of its own that nothing is lost.
LEMMA DataSurvivesFollows == StorageInv => PlayerDataSurvives
<1> SUFFICES ASSUME StorageInv, NEW n \in Names
             PROVE  /\ loaded \/ ~persist => ContentOf(files, n) = saved[n]
                    /\ OwnFile(n) /\ n \notin exposed => Mirrored(n) = saved[n]
  BY DEF PlayerDataSurvives
<1>1. Mirrored(n) = ContentOf(mirror, EncodeName(n))
  BY MirroredIs DEF StorageInv, StoreInv
<1> QED BY <1>1 DEF StorageInv, StoreInv

\* PlayerDataStorage.cpp, the mirror in LoadStoreLocked, WriteFile, DuplicateFile
\* and DeleteFile: what the player was told is saved is what this process reads,
\* whatever the file is called; and it is what the next one finds, unless the
\* disk failed, under every name that is a file on disk which no other name of
\* the game leads to.
THEOREM DataSurvives == StorageSpec => []PlayerDataSurvives
BY StorageInvariant, DataSurvivesFollows, PTL

\* The references of a request are counted by the invariant.
LEMMA RequestOutlivesFollows == StorageInv => RequestOutlivesTransfer
<1> SUFFICES ASSUME StorageInv, NEW r \in RequestIds
             PROVE  requests[r].refs =
                      (IF r \in registry THEN 1 ELSE 0)
                      + (IF transfer # NoTransfer /\ transfer.req = r THEN 1 ELSE 0)
                      + Holders(Line, r)
  BY DEF RequestOutlivesTransfer
<1>1. Holders(Line, r) = Waiting(r)
  BY LineIsOfStorage, HoldersCount DEF StorageInv, Waiting
<1>2. requests[r].refs = Registered(r) + Running(r) + Waiting(r)
  BY DEF StorageInv, RequestInv
<1> QED BY <1>1, <1>2 DEF Registered, Running

\* PlayerDataStorage.cpp, Request_Release and the closures that hold a request:
\* no request is freed while its closure waits or runs, and none is leaked.
THEOREM RequestOutlives == StorageSpec => []RequestOutlivesTransfer
BY StorageInvariant, RequestOutlivesFollows, PTL

---------------------------------------------------------------------------
(* The line of the social interfaces.                                      *)

Displays == [visible : BOOLEAN, exclusive : BOOLEAN]

PlainTasks == [kind : {"plain"}]
PersonEvents == [kind : {"joined", "left"}, room : RoomNames, pid : Pids]
RoomEvents == [kind : {"connected", "gone"}, room : RoomNames]
RoomNews == PersonEvents \cup RoomEvents
DisplayEvents == [kind : {"display"}, observer : Observers, display : Displays]
SocialClosures == PlainTasks \cup PersonEvents \cup RoomEvents \cup DisplayEvents

\* The events that tell of a participant of a room, and the one of them that
\* says that he is there.
Events(r, pid) ==
  {c \in PersonEvents : c.room = r /\ c.pid = pid} \cup {c \in RoomEvents : c.room = r}
Entered(r, pid) == [kind |-> "joined", room |-> r, pid |-> pid]

\* The announcements to an observer, and the one that tells a display.
Announcements(o) == {c \in DisplayEvents : c.observer = o}
Announcement(o, display) == [kind |-> "display", observer |-> o, display |-> display]

SocialQueueInv == QueueOf(SocialClosures, 0) /\ delayed = <<>>

\* A closure of the line, by its kind.
LEMMA SocialClosureKinds ==
  ASSUME NEW c \in SocialClosures
  PROVE  /\ c.kind = "plain" => c \in PlainTasks
         /\ c.kind \in {"joined", "left"} =>
              c \in PersonEvents /\ c.room \in RoomNames /\ c.pid \in Pids
         /\ c.kind \in {"connected", "gone"} => c \in RoomEvents /\ c.room \in RoomNames
         /\ c.kind = "display" =>
              c \in DisplayEvents /\ c.observer \in Observers /\ c.display \in Displays
         /\ c.kind \in {"plain", "joined", "left", "connected", "gone", "display"}
         /\ \A r, pid : c \in Events(r, pid) <=>
              \/ c.kind \in {"joined", "left"} /\ c.room = r /\ c.pid = pid
              \/ c.kind \in {"connected", "gone"} /\ c.room = r
         /\ \A o : c \in Announcements(o) <=> c.kind = "display" /\ c.observer = o
BY DEF SocialClosures, PlainTasks, PersonEvents, RoomEvents, DisplayEvents, Events, Announcements

\* The events and the announcements are closures, and no closure is both.
LEMMA EventsAreClosures ==
  /\ \A r \in RoomNames, pid \in Pids :
       Entered(r, pid) \in Events(r, pid) /\ Entered(r, pid) \in SocialClosures
  /\ \A r, pid : Events(r, pid) \subseteq RoomNews
  /\ \A o \in Observers, d \in Displays :
       Announcement(o, d) \in Announcements(o) /\ Announcement(o, d) \in SocialClosures
  /\ \A o : Announcements(o) \subseteq DisplayEvents
  /\ RoomNews \cap DisplayEvents = {}
  /\ PlainTasks \cap RoomNews = {} /\ PlainTasks \cap DisplayEvents = {}
  /\ Plain \in PlainTasks /\ Plain \in SocialClosures
BY DEF SocialClosures, PlainTasks, PersonEvents, RoomEvents, DisplayEvents, Events, Announcements,
       Entered, Announcement, Plain, RoomNews

\* The line, the batch and what waits behind it are lists of closures.
LEMMA SocialLine ==
  ASSUME SocialQueueInv
  PROVE  Line \in Seq(SocialClosures) /\ ready \in Seq(SocialClosures) /\ pending \in Seq(SocialClosures)
BY ConcatProperties DEF SocialQueueInv, QueueOf, Line

\* The step changes nothing of what the line will make anybody believe.
SameBeliefs(Ms) ==
  \A M \in Ms : \A x \in M : \A b \in BOOLEAN : Believes(Line', M, x, b) <=> Believes(Line, M, x, b)
RoomTales == {Events(r, pid) : r \in RoomNames, pid \in Pids}
DisplayTales == {Announcements(o) : o \in Observers}

\* The same line makes the same believe.
LEMMA SameLineSameBeliefs ==
  ASSUME Line' = Line
  PROVE  SameBeliefs(RoomTales) /\ SameBeliefs(DisplayTales)
BY DEF SameBeliefs

\* What is posted is heard after what is in the line.
LEMMA SocialPosts ==
  ASSUME SocialQueueInv, NEW works \in Seq(SocialClosures), Post(works),
         UNCHANGED <<delayed, ready, draining>>
  PROVE  /\ SocialQueueInv'
         /\ \A M, x, b : Believes(Line', M, x, b) <=> Believes(works, M, x, Believes(Line, M, x, b))
         /\ ToSet(works) \cap RoomNews = {} => SameBeliefs(RoomTales)
         /\ ToSet(works) \cap DisplayEvents = {} => SameBeliefs(DisplayTales)
<1>1. QueueOf(SocialClosures, 0)
  BY DEF SocialQueueInv
<1>2. QueueOf(SocialClosures, 0)' /\ Line' = Line \o works
  BY <1>1, PostJoins
<1>3. SocialQueueInv'
  BY <1>2 DEF SocialQueueInv
<1>4. Line \in Seq(SocialClosures)
  BY SocialLine
<1>5. ASSUME NEW M, NEW x, NEW b
      PROVE  Believes(Line', M, x, b) <=> Believes(works, M, x, Believes(Line, M, x, b))
  BY <1>2, <1>4, BelievesConcat
<1>6. ASSUME NEW M, ToSet(works) \cap M = {}, NEW x, NEW b \in BOOLEAN
      PROVE  Believes(Line', M, x, b) <=> Believes(Line, M, x, b)
  <2> DEFINE c == Believes(Line, M, x, b)
  <2>1. c \in BOOLEAN
    BY DEF Believes
  <2> HIDE DEF c
  <2>2. Believes(works, M, x, c) <=> c
    BY <1>6, <2>1, BelievesNothingNew
  <2> QED BY <1>5, <2>2 DEF c
<1>7. ASSUME ToSet(works) \cap RoomNews = {} PROVE SameBeliefs(RoomTales)
  <2>1. \A M \in RoomTales : ToSet(works) \cap M = {}
    BY <1>7, EventsAreClosures DEF RoomTales
  <2> QED BY <1>6, <2>1 DEF SameBeliefs
<1>8. ASSUME ToSet(works) \cap DisplayEvents = {} PROVE SameBeliefs(DisplayTales)
  <2>1. \A M \in DisplayTales : ToSet(works) \cap M = {}
    BY <1>8, EventsAreClosures DEF DisplayTales
  <2> QED BY <1>6, <2>1 DEF SameBeliefs
<1> QED BY <1>3, <1>5, <1>7, <1>8

\* What is of no event changes no belief.
LEMMA PlainPosts ==
  ASSUME SocialQueueInv, Post(<<Plain>>) \/ Post(<<Plain, Plain>>),
         UNCHANGED <<delayed, ready, draining>>
  PROVE  SocialQueueInv' /\ SameBeliefs(RoomTales) /\ SameBeliefs(DisplayTales)
<1>1. ASSUME NEW works \in {<<Plain>>, <<Plain, Plain>>}
      PROVE  works \in Seq(SocialClosures) /\ ToSet(works) = {Plain}
  <2>1. Plain \in SocialClosures
    BY EventsAreClosures
  <2>2. ASSUME NEW c \in SocialClosures
        PROVE  /\ <<c>> \in Seq(SocialClosures) /\ <<c, c>> \in Seq(SocialClosures)
               /\ ToSet(<<c>>) = {c} /\ ToSet(<<c, c>>) = {c}
    BY DEF ToSet
  <2> QED BY <2>1, <2>2
<1>2. Plain \notin RoomNews /\ Plain \notin DisplayEvents
  BY EventsAreClosures
<1>3. PICK works \in {<<Plain>>, <<Plain, Plain>>} : Post(works)
  OBVIOUS
<1> QED BY <1>1, <1>2, <1>3, SocialPosts

\* The closure at the head has been heard.
LEMMA SocialRunsHead ==
  ASSUME SocialQueueInv, Work(<<>>)
  PROVE  /\ SocialQueueInv' /\ draining /\ draining' = draining
         /\ Head(ready) \in SocialClosures
         /\ \A M : \A x \in M, b \in BOOLEAN :
              Believes(Line, M, x, b) <=>
                Believes(Line', M, x, Head(ready) = x \/ (Head(ready) \notin M /\ b))
<1> DEFINE none == <<>>
<1>1. QueueOf(SocialClosures, 0) /\ none \in Seq(SocialClosures) /\ Work(none)
  BY DEF SocialQueueInv
<1> HIDE DEF none
<1>2. /\ QueueOf(SocialClosures, 0)' /\ Head(ready) \in SocialClosures
      /\ Line \in Seq(SocialClosures) /\ Line # <<>> /\ Head(Line) = Head(ready)
      /\ Line' = Tail(Line) \o none
  BY <1>1, WorkRunsHead
<1>3. Line' = Tail(Line)
  <2>1. Tail(Line) \in Seq(SocialClosures)
    BY <1>2, HeadTailProperties
  <2> QED BY <1>2, <2>1, ConcatEmptySeq DEF none
<1>4. SocialQueueInv' /\ draining /\ draining' = draining
  BY <1>2 DEF SocialQueueInv, Work
<1>5. ASSUME NEW M, NEW x \in M, NEW b \in BOOLEAN
      PROVE  Believes(Line, M, x, b) <=>
               Believes(Line', M, x, Head(ready) = x \/ (Head(ready) \notin M /\ b))
  <2>1. Believes(Line, M, x, b) <=>
          Believes(Tail(Line), M, x, Head(Line) = x \/ (Head(Line) \notin M /\ b))
    BY <1>2, BelievesTail
  <2> QED BY <1>2, <1>3, <2>1
<1> QED BY <1>2, <1>4, <1>5

---------------------------------------------------------------------------
(* The rooms.                                                              *)

Present(r, pid) == InRoom(r) /\ pid \in rooms[r].participants

RoomTypes ==
  /\ rooms \in [RoomNames -> Rooms \cup {NoRoom}]
  /\ \A r \in RoomNames : InRoom(r) /\ rooms[r].managed => r \in Games
  /\ roster \in [Games -> SUBSET Pids]
  /\ reported \in [RoomNames -> SUBSET Pids]

\* The line leads the game from what it was told to who is in the room.
RoomsInv ==
  /\ RoomTypes
  /\ \A r \in RoomNames, pid \in Pids :
       Believes(Line, Events(r, pid), Entered(r, pid), pid \in reported[r]) <=> Present(r, pid)

\* A step that leaves the rooms, what was reported and the beliefs.
LEMMA RoomsStay ==
  ASSUME RoomsInv, SameBeliefs(RoomTales), UNCHANGED <<rooms, reported>>,
         roster' \in [Games -> SUBSET Pids]
  PROVE  RoomsInv'
<1>1. RoomTypes'
  BY DEF RoomsInv, RoomTypes, InRoom
<1>2. ASSUME NEW r \in RoomNames, NEW pid \in Pids
      PROVE  Believes(Line', Events(r, pid), Entered(r, pid), pid \in reported'[r]) <=> Present(r, pid)'
  <2>1. /\ Events(r, pid) \in RoomTales /\ (pid \in reported[r]) \in BOOLEAN
        /\ Entered(r, pid) \in Events(r, pid)
    BY EventsAreClosures DEF RoomTales
  <2>2. Believes(Line', Events(r, pid), Entered(r, pid), pid \in reported[r]) <=>
          Believes(Line, Events(r, pid), Entered(r, pid), pid \in reported[r])
    BY <2>1 DEF SameBeliefs
  <2>3. Present(r, pid)' <=> Present(r, pid)
    BY DEF Present, InRoom
  <2> QED BY <2>2, <2>3 DEF RoomsInv
<1> QED BY <1>1, <1>2 DEF RoomsInv

\* What is posted tells the difference between the rooms before and after.
LEMMA RoomsTold ==
  ASSUME RoomsInv, SocialQueueInv, NEW works \in Seq(SocialClosures), Post(works),
         UNCHANGED <<delayed, ready, draining, reported>>, RoomTypes',
         \A r \in RoomNames, pid \in Pids :
           Believes(works, Events(r, pid), Entered(r, pid), Present(r, pid)) <=> Present(r, pid)'
  PROVE  RoomsInv'
<1>1. ASSUME NEW r \in RoomNames, NEW pid \in Pids
      PROVE  Believes(Line', Events(r, pid), Entered(r, pid), pid \in reported'[r]) <=> Present(r, pid)'
  <2> DEFINE M == Events(r, pid)
             x == Entered(r, pid)
             b == pid \in reported[r]
             c == Believes(Line, M, x, b)
             d == Present(r, pid)
  <2>1. Believes(Line', M, x, b) <=> Believes(works, M, x, c)
    BY SocialPosts
  <2>2. c <=> d
    BY DEF RoomsInv
  <2>3. c \in BOOLEAN /\ d \in BOOLEAN
    BY DEF Believes, Present
  <2>4. Believes(works, M, x, d) <=> Present(r, pid)'
    OBVIOUS
  <2> HIDE DEF c, d
  <2>5. c = d
    BY <2>2, <2>3
  <2>6. Believes(Line', M, x, b) <=> Present(r, pid)'
    BY <2>1, <2>4, <2>5
  <2> QED BY <2>6
<1> QED BY <1>1 DEF RoomsInv

\* One Joined for each of the participants.
LEMMA JoinedList ==
  ASSUME NEW r \in RoomNames, NEW pids \in SUBSET Pids
  PROVE  /\ Joined(r, pids) \in Seq(PersonEvents) /\ IsInjective(Joined(r, pids))
         /\ ToSet(Joined(r, pids)) = {Entered(r, pid) : pid \in pids}
<1> DEFINE n == Cardinality(pids)
           list == SetToSeq(pids)
<1>1. IsFiniteSet(pids)
  BY RTCAssumption, FS_Subset DEF RTCAssumption
<1>2. list \in Seq(pids) /\ DOMAIN list = 1..n /\ IsInjective(list) /\ n \in Nat /\ ToSet(list) = pids
  BY <1>1, ListOfSet, ListHasAll
<1>3. Joined(r, pids) = [i \in 1..n |-> Entered(r, list[i])]
  BY DEF Joined, Entered
<1>4. \A i \in 1..n : list[i] \in pids
  BY <1>2 DEF ToSet
<1> HIDE DEF n, list
<1>5. Joined(r, pids) \in [1..n -> PersonEvents]
  BY <1>3, <1>4 DEF Entered, PersonEvents
<1>6. Joined(r, pids) \in Seq(PersonEvents)
  BY <1>2, <1>5, SeqDef
<1>7. \A p, q : Entered(r, p) = Entered(r, q) => p = q
  BY DEF Entered
<1>8. IsInjective(Joined(r, pids))
  BY <1>2, <1>3, <1>7 DEF IsInjective
<1>9. ToSet(Joined(r, pids)) = {Entered(r, pid) : pid \in pids}
  <2>1. ToSet(Joined(r, pids)) = {Entered(r, list[i]) : i \in 1..n}
    BY <1>3 DEF ToSet
  <2>2. pids = {list[i] : i \in 1..n}
    BY <1>2 DEF ToSet
  <2> QED BY <2>1, <2>2
<1> QED BY <1>6, <1>8, <1>9

\* One Left for each of the participants.
LEMMA LeftList ==
  ASSUME NEW r \in RoomNames, NEW pids \in SUBSET Pids
  PROVE  /\ Left(r, pids) \in Seq(PersonEvents)
         /\ ToSet(Left(r, pids)) = {[kind |-> "left", room |-> r, pid |-> pid] : pid \in pids}
<1> DEFINE n == Cardinality(pids)
           list == SetToSeq(pids)
           leaves(pid) == [kind |-> "left", room |-> r, pid |-> pid]
<1>1. IsFiniteSet(pids)
  BY RTCAssumption, FS_Subset DEF RTCAssumption
<1>2. DOMAIN list = 1..n /\ n \in Nat /\ ToSet(list) = pids
  BY <1>1, ListOfSet, ListHasAll
<1>3. Left(r, pids) = [i \in 1..n |-> leaves(list[i])]
  BY DEF Left
<1>4. \A i \in 1..n : list[i] \in pids
  BY <1>2 DEF ToSet
<1>5. \A pid \in Pids : leaves(pid) \in PersonEvents
  BY DEF PersonEvents
<1> HIDE DEF n, list, leaves
<1>6. Left(r, pids) \in [1..n -> PersonEvents]
  BY <1>3, <1>4, <1>5
<1>7. Left(r, pids) \in Seq(PersonEvents)
  BY <1>2, <1>6, SeqDef
<1>8. ToSet(Left(r, pids)) = {leaves(list[i]) : i \in 1..n}
  BY <1>3 DEF ToSet
<1>9. pids = {list[i] : i \in 1..n}
  BY <1>2 DEF ToSet
<1>10. ToSet(Left(r, pids)) = {leaves(pid) : pid \in pids}
  BY <1>8, <1>9
<1> QED BY <1>7, <1>10 DEF leaves

\* What the lists of a room make the game believe of a participant of a room.
LEMMA JoinedSays ==
  ASSUME NEW r \in RoomNames, NEW pids \in SUBSET Pids,
         NEW q \in RoomNames, NEW pid \in Pids, NEW b \in BOOLEAN
  PROVE  Believes(Joined(r, pids), Events(q, pid), Entered(q, pid), b) <=> (q = r /\ pid \in pids) \/ b
<1> DEFINE M == Events(q, pid)
           x == Entered(q, pid)
           s == Joined(r, pids)
<1>1. x \in M
  BY EventsAreClosures
<1>2. \A p : Entered(r, p) \in M <=> Entered(r, p) \in PersonEvents /\ q = r /\ p = pid
  BY DEF Events, Entered, PersonEvents, RoomEvents
<1>3. \A p \in Pids : Entered(r, p) = x <=> q = r /\ p = pid
  BY DEF Entered
<1>4. s \in Seq(PersonEvents) /\ IsInjective(s) /\ ToSet(s) = {Entered(r, p) : p \in pids}
  BY JoinedList
<1> HIDE DEF M, x, s
<1>5. ToSet(s) \cap M \subseteq {x} /\ (x \in ToSet(s) <=> q = r /\ pid \in pids)
  BY <1>2, <1>3, <1>4
<1>6. Believes(s, M, x, b) <=> (q = r /\ pid \in pids) \/ b
  BY <1>1, <1>4, <1>5, BelievesOne
<1> QED BY <1>6 DEF M, x, s

\* After the Left of some participants, none of them is believed to be there.
LEMMA LeftSays ==
  ASSUME NEW r \in RoomNames, NEW pids \in SUBSET Pids,
         NEW q \in RoomNames, NEW pid \in Pids, NEW b \in BOOLEAN
  PROVE  Believes(Left(r, pids), Events(q, pid), Entered(q, pid), b) <=> ~(q = r /\ pid \in pids) /\ b
<1> DEFINE M == Events(q, pid)
           x == Entered(q, pid)
           s == Left(r, pids)
           leaves(p) == [kind |-> "left", room |-> r, pid |-> p]
<1>1. \A p \in Pids : leaves(p) # x /\ (leaves(p) \in M <=> q = r /\ p = pid)
  BY DEF Events, Entered, PersonEvents, RoomEvents
<1>2. ToSet(s) = {leaves(p) : p \in pids}
  BY LeftList
<1> HIDE DEF M, x, s, leaves
<1>3. x \notin ToSet(s)
  BY <1>1, <1>2
<1>4. ASSUME q = r, pid \in pids PROVE ToSet(s) \cap M # {}
  <2>1. leaves(pid) \in M /\ leaves(pid) \in ToSet(s)
    BY <1>1, <1>2, <1>4
  <2> QED BY <2>1
<1>5. ASSUME ~(q = r /\ pid \in pids) PROVE ToSet(s) \cap M = {}
  BY <1>1, <1>2, <1>5
<1>6. Believes(s, M, x, b) <=> ~(q = r /\ pid \in pids) /\ b
  BY <1>3, <1>4, <1>5, BelievesOther
<1> QED BY <1>6 DEF M, x, s

\* A room that is connected to is empty at first.
LEMMA ConnectedSays ==
  ASSUME NEW r \in RoomNames, NEW q \in RoomNames, NEW pid \in Pids, NEW b \in BOOLEAN
  PROVE  Believes(<<Connected(r)>>, Events(q, pid), Entered(q, pid), b) <=> q # r /\ b
<1>1. Entered(q, pid) \in Events(q, pid)
  BY EventsAreClosures
<1>2. Connected(r) # Entered(q, pid) /\ (Connected(r) \in Events(q, pid) <=> q = r)
  BY DEF Events, Entered, PersonEvents, RoomEvents, Connected
<1> QED BY <1>1, <1>2, BelievesOneEvent

\* A room that is gone is empty.
LEMMA GoneSays ==
  ASSUME NEW r \in RoomNames, NEW q \in RoomNames, NEW pid \in Pids, NEW b \in BOOLEAN
  PROVE  Believes(<<Gone(r)>>, Events(q, pid), Entered(q, pid), b) <=> q # r /\ b
<1>1. Entered(q, pid) \in Events(q, pid)
  BY EventsAreClosures
<1>2. Gone(r) # Entered(q, pid) /\ (Gone(r) \in Events(q, pid) <=> q = r)
  BY DEF Events, Entered, PersonEvents, RoomEvents, Gone
<1> QED BY <1>1, <1>2, BelievesOneEvent

\* The lists of events are lists of news, and of closures.
LEMMA EventListsAreNews ==
  /\ Seq(PersonEvents) \subseteq Seq(RoomNews) /\ Seq(RoomEvents) \subseteq Seq(RoomNews)
  /\ Seq(RoomNews) \subseteq Seq(SocialClosures)
  /\ \A s \in Seq(RoomNews) : ToSet(s) \subseteq RoomNews
  /\ \A r \in RoomNames : Gone(r) \in RoomEvents /\ <<Connected(r)>> \in Seq(RoomNews)
                        /\ <<Gone(r)>> \in Seq(RoomNews)
<1>1. PersonEvents \subseteq RoomNews /\ RoomEvents \subseteq RoomNews /\ RoomNews \subseteq SocialClosures
  BY DEF SocialClosures, RoomNews
<1>2. ASSUME NEW A, NEW B, A \subseteq B PROVE Seq(A) \subseteq Seq(B)
  BY <1>2, LenProperties, ElementOfSeq, SeqDef
<1>3. ASSUME NEW s \in Seq(RoomNews) PROVE ToSet(s) \subseteq RoomNews
  BY LenProperties, ElementOfSeq DEF ToSet
<1>4. \A r \in RoomNames : Connected(r) \in RoomEvents /\ Gone(r) \in RoomEvents
  BY DEF Connected, Gone, RoomEvents
<1>5. \A c \in RoomNews : <<c>> \in Seq(RoomNews)
  OBVIOUS
<1> QED BY <1>1, <1>2, <1>3, <1>4, <1>5

\* The two lists of a view of a room that the game is in.
LEMMA ChangeSays ==
  ASSUME NEW r \in RoomNames, NEW come \in SUBSET Pids, NEW gone \in SUBSET Pids,
         NEW q \in RoomNames, NEW pid \in Pids, NEW b \in BOOLEAN
  PROVE  Believes(Joined(r, come) \o Left(r, gone), Events(q, pid), Entered(q, pid), b)
           <=> ~(q = r /\ pid \in gone) /\ ((q = r /\ pid \in come) \/ b)
<1> DEFINE M == Events(q, pid)
           x == Entered(q, pid)
           mid == (q = r /\ pid \in come) \/ b
           a == Joined(r, come)
           c == Left(r, gone)
<1>1. a \in Seq(RoomNews) /\ c \in Seq(RoomNews)
  BY JoinedList, LeftList, EventListsAreNews
<1>2. Believes(a, M, x, b) <=> mid
  BY JoinedSays
<1>3. mid \in BOOLEAN
  OBVIOUS
<1>4. \A d \in BOOLEAN : Believes(c, M, x, d) <=> ~(q = r /\ pid \in gone) /\ d
  BY LeftSays
<1> HIDE DEF M, x, mid, a, c
<1>5. Believes(a \o c, M, x, b) <=> Believes(c, M, x, mid)
  BY <1>1, <1>2, <1>3, InTurn
<1>6. Believes(a \o c, M, x, b) <=> ~(q = r /\ pid \in gone) /\ mid
  BY <1>3, <1>4, <1>5
<1> QED BY <1>6 DEF M, x, mid, a, c

\* The view of one lobby tells who came and who left, and nothing of the others.
LEMMA ReconcileSays ==
  ASSUME RoomTypes, NEW g \in Games
  PROVE  /\ Reconcile(g) \in Seq(RoomNews)
         /\ \A q \in RoomNames, pid \in Pids, b \in BOOLEAN :
              q # g => (Believes(Reconcile(g), Events(q, pid), Entered(q, pid), b) <=> b)
         /\ \A pid \in Pids :
              Believes(Reconcile(g), Events(g, pid), Entered(g, pid), Present(g, pid)) <=> pid \in roster[g]
<1>1. g \in RoomNames /\ roster[g] \in SUBSET Pids
  BY DEF RoomTypes, RoomNames
<1>2. \A q \in RoomNames, pid \in Pids : Present(q, pid) \in BOOLEAN
  BY DEF Present
<1>3. CASE InRoom(g)
  <2> DEFINE old == rooms[g].participants
             a == Joined(g, roster[g] \ old)
             c == Left(g, old \ roster[g])
  <2>1. old \in SUBSET Pids
    BY <1>1, <1>3 DEF RoomTypes, InRoom, Rooms
  <2>2. Reconcile(g) = a \o c
    BY <1>3 DEF Reconcile
  <2>3. roster[g] \ old \in SUBSET Pids /\ old \ roster[g] \in SUBSET Pids
    BY <1>1, <2>1
  <2>4. a \in Seq(RoomNews) /\ c \in Seq(RoomNews)
    BY <1>1, <2>3, JoinedList, LeftList, EventListsAreNews
  <2>5. \A pid : Present(g, pid) <=> pid \in old
    BY <1>3 DEF Present
  <2>6. Reconcile(g) \in Seq(RoomNews)
    BY <2>2, <2>4, ConcatProperties
  <2> HIDE DEF old
  <2>7. ASSUME NEW q \in RoomNames, NEW pid \in Pids, NEW b \in BOOLEAN
        PROVE  Believes(Reconcile(g), Events(q, pid), Entered(q, pid), b)
                 <=> ~(q = g /\ pid \in old \ roster[g]) /\ ((q = g /\ pid \in roster[g] \ old) \/ b)
    <3> DEFINE come == roster[g] \ old
               gone == old \ roster[g]
    <3>1. come \in SUBSET Pids /\ gone \in SUBSET Pids /\ Reconcile(g) = Joined(g, come) \o Left(g, gone)
      BY <2>2, <2>3
    <3> HIDE DEF come, gone
    <3>2. Believes(Reconcile(g), Events(q, pid), Entered(q, pid), b)
            <=> ~(q = g /\ pid \in gone) /\ ((q = g /\ pid \in come) \/ b)
      BY <1>1, <3>1, ChangeSays
    <3> QED BY <3>2 DEF come, gone
  <2>8. \A q \in RoomNames, pid \in Pids, b \in BOOLEAN :
          q # g => (Believes(Reconcile(g), Events(q, pid), Entered(q, pid), b) <=> b)
    BY <2>7
  <2>9. ASSUME NEW pid \in Pids
        PROVE  Believes(Reconcile(g), Events(g, pid), Entered(g, pid), Present(g, pid)) <=> pid \in roster[g]
    <3> DEFINE b == Present(g, pid)
    <3>1. b \in BOOLEAN /\ (b <=> pid \in old)
      BY <1>1, <1>2, <2>5
    <3> HIDE DEF b
    <3>2. Believes(Reconcile(g), Events(g, pid), Entered(g, pid), b)
                 <=> ~(pid \in old \ roster[g]) /\ ((pid \in roster[g] \ old) \/ b)
      BY <1>1, <2>7, <3>1
    <3> QED BY <3>1, <3>2 DEF b
  <2> QED BY <2>6, <2>8, <2>9
<1>4. CASE ~InRoom(g)
  <2> DEFINE a == <<Connected(g)>>
             c == Joined(g, roster[g])
  <2>1. Reconcile(g) = a \o c
    BY <1>4 DEF Reconcile
  <2>2. a \in Seq(RoomNews) /\ c \in Seq(RoomNews)
    BY <1>1, JoinedList, EventListsAreNews
  <2>3. ASSUME NEW q \in RoomNames, NEW pid \in Pids, NEW b \in BOOLEAN
        PROVE  /\ Believes(a, Events(q, pid), Entered(q, pid), b) <=> q # g /\ b
               /\ Believes(c, Events(q, pid), Entered(q, pid), b) <=> (q = g /\ pid \in roster[g]) \/ b
    BY <1>1, JoinedSays, ConnectedSays
  <2>4. Reconcile(g) \in Seq(RoomNews)
    BY <2>1, <2>2, ConcatProperties
  <2> HIDE DEF a, c
  <2>5. ASSUME NEW q \in RoomNames, NEW pid \in Pids, NEW b \in BOOLEAN
        PROVE  Believes(Reconcile(g), Events(q, pid), Entered(q, pid), b)
                 <=> (q = g /\ pid \in roster[g]) \/ (q # g /\ b)
    <3> DEFINE M == Events(q, pid)
               x == Entered(q, pid)
               mid == q # g /\ b
    <3>1. mid \in BOOLEAN /\ (Believes(a, M, x, b) <=> mid)
      BY <2>3
    <3>2. Believes(c, M, x, mid) <=> (q = g /\ pid \in roster[g]) \/ mid
      BY <2>3, <3>1
    <3> HIDE DEF M, x, mid
    <3>3. Believes(a \o c, M, x, b) <=> Believes(c, M, x, mid)
      BY <2>2, <3>1, InTurn
    <3> QED BY <2>1, <3>2, <3>3 DEF M, x, mid
  <2> QED BY <1>1, <1>2, <2>4, <2>5
<1> QED BY <1>3, <1>4

\* After the views of the first lobbies of the list, the game knows who is in
\* their rooms, and of the other rooms what it knew.
LEMMA ViewsSay ==
  ASSUME RoomTypes, NEW S \in SUBSET Games
  PROVE  LET seqs == [i \in 1..Cardinality(S) |-> Reconcile(SetToSeq(S)[i])]
         IN  /\ FlattenSeq(seqs) \in Seq(RoomNews)
             /\ \A q \in RoomNames, pid \in Pids :
                  Believes(FlattenSeq(seqs), Events(q, pid), Entered(q, pid), Present(q, pid))
                    <=> IF q \in S THEN pid \in roster[q] ELSE Present(q, pid)
<1> DEFINE n == Cardinality(S)
           list == SetToSeq(S)
           seqs == [i \in 1..n |-> Reconcile(list[i])]
<1>1. IsFiniteSet(S)
  BY InvitesAssumption, FS_Subset DEF InvitesAssumption
<1>2. list \in Seq(S) /\ DOMAIN list = 1..n /\ IsInjective(list) /\ n \in Nat /\ ToSet(list) = S
  BY <1>1, ListOfSet, ListHasAll
<1>3. /\ \A i \in 1..n : list[i] \in S /\ list[i] \in Games
      /\ S = {list[i] : i \in 1..n}
      /\ \A i, j \in 1..n : list[i] = list[j] => i = j
  BY <1>2 DEF ToSet, IsInjective
<1> HIDE DEF n, list
<1>4. seqs \in Seq(Seq(RoomNews)) /\ Len(seqs) = n
  <2>1. seqs \in [1..n -> Seq(RoomNews)]
    BY <1>3, ReconcileSays
  <2>2. seqs \in Seq(Seq(RoomNews))
    BY <1>2, <2>1, SeqDef
  <2> QED BY <1>2, <2>1, <2>2, LenProperties
<1>5. \A i \in 1..n : seqs[i] = Reconcile(list[i])
  OBVIOUS
<1> HIDE DEF seqs
<1>6. PICK F \in [0..n -> Seq(RoomNews)] :
             /\ F[0] = <<>> /\ FlattenSeq(seqs) = F[n]
             /\ \A i \in 1..n : F[i] = F[i - 1] \o seqs[i]
  BY <1>4, FlattenSteps
<1> DEFINE Knows(m, q, pid) == \/ q \in {list[i] : i \in 1..m} /\ pid \in roster[q]
                               \/ q \notin {list[i] : i \in 1..m} /\ Present(q, pid)
           Told1(m) == \A q \in RoomNames, pid \in Pids :
                        Believes(F[m], Events(q, pid), Entered(q, pid), Present(q, pid)) <=> Knows(m, q, pid)
           T == {m \in Nat : m <= n => Told1(m)}
<1>7. Told1(0)
  <2> SUFFICES ASSUME NEW q \in RoomNames, NEW pid \in Pids
               PROVE  Believes(F[0], Events(q, pid), Entered(q, pid), Present(q, pid)) <=> Knows(0, q, pid)
    OBVIOUS
  <2>1. ToSet(<<>>) \cap Events(q, pid) = {} /\ Present(q, pid) \in BOOLEAN
    BY DEF ToSet, Present
  <2>2. Believes(<<>>, Events(q, pid), Entered(q, pid), Present(q, pid)) <=> Present(q, pid)
    BY <2>1, BelievesNothingNew
  <2>3. {list[i] : i \in 1..0} = {}
    OBVIOUS
  <2> QED BY <1>6, <2>2, <2>3
<1>8. ASSUME NEW m \in Nat, m + 1 <= n, Told1(m)
      PROVE  Told1(m + 1)
  <2> DEFINE g == list[m + 1]
  <2>1. m \in 0..n /\ m + 1 \in 1..n /\ (m + 1) - 1 = m /\ g \in Games
    BY <1>2, <1>3, <1>8
  <2>2. F[m + 1] = F[m] \o Reconcile(g) /\ F[m] \in Seq(RoomNews)
    BY <1>5, <1>6, <2>1
  <2>3. {list[i] : i \in 1..m + 1} = {list[i] : i \in 1..m} \cup {g}
    <3>1. 1..m + 1 = 1..m \cup {m + 1}
      OBVIOUS
    <3> QED BY <3>1
  <2>4. g \notin {list[i] : i \in 1..m}
    <3>1. \A i \in 1..m : i \in 1..n /\ i # m + 1
      BY <1>2, <1>8
    <3> QED BY <1>3, <2>1, <3>1
  <2>5. ASSUME NEW q \in RoomNames, NEW pid \in Pids
        PROVE  Believes(F[m + 1], Events(q, pid), Entered(q, pid), Present(q, pid)) <=> Knows(m + 1, q, pid)
    <3> DEFINE M == Events(q, pid)
               x == Entered(q, pid)
               b == Present(q, pid)
               mid == Knows(m, q, pid)
    <3>1. Believes(F[m], M, x, b) <=> mid
      BY <1>8
    <3>2. mid \in BOOLEAN /\ b \in BOOLEAN
      BY DEF Present
    <3>3. q # g => (Knows(m + 1, q, pid) <=> mid)
      BY <2>3
    <3>4. q = g => (mid <=> b) /\ (Knows(m + 1, q, pid) <=> pid \in roster[g])
      BY <2>3, <2>4
    <3>5. Reconcile(g) \in Seq(RoomNews)
      BY <2>1, ReconcileSays
    <3>6. q # g => (Believes(Reconcile(g), M, x, mid) <=> mid)
      BY <2>1, <3>2, ReconcileSays
    <3>7. q = g => (Believes(Reconcile(g), M, x, b) <=> pid \in roster[g])
      BY <2>1, ReconcileSays
    <3> HIDE DEF M, x, b, mid, g, Knows
    <3>8. Believes(F[m] \o Reconcile(g), M, x, b) <=> Believes(Reconcile(g), M, x, mid)
      BY <2>2, <3>1, <3>2, <3>5, InTurn
    <3>9. q = g => mid = b
      BY <3>2, <3>4
    <3>10. Believes(F[m + 1], M, x, b) <=> Knows(m + 1, q, pid)
      BY <2>2, <3>3, <3>4, <3>6, <3>7, <3>8, <3>9
    <3> QED BY <3>10 DEF M, x, b
  <2> QED BY <2>5
<1> HIDE DEF Told1
<1>9. 0 \in T /\ \A m \in Nat : m \in T => m + 1 \in T
  <2>1. \A m \in Nat : m + 1 <= n => m <= n
    BY <1>2
  <2> QED BY <1>7, <1>8, <2>1
<1>10. Told1(n)
  <2>1. Nat \subseteq T
    <3> HIDE DEF T
    <3> QED BY <1>9, Induct
  <2> QED BY <1>2, <2>1
<1>11. F[n] \in Seq(RoomNews)
  BY <1>2, <1>6
<1>12. \A q \in RoomNames, pid \in Pids :
         Believes(FlattenSeq(seqs), Events(q, pid), Entered(q, pid), Present(q, pid))
           <=> IF q \in S THEN pid \in roster[q] ELSE Present(q, pid)
  BY <1>3, <1>6, <1>10 DEF Told1
<1> QED BY <1>6, <1>11, <1>12 DEF seqs, n, list

\* The list of the rooms of the lobbies that were left.
LEMMA GoneListSays ==
  ASSUME NEW G \in SUBSET RoomNames, IsFiniteSet(G)
  PROVE  LET s == [i \in 1..Cardinality(G) |-> Gone(SetToSeq(G)[i])]
         IN  /\ s \in Seq(RoomNews)
             /\ \A q \in RoomNames, pid \in Pids : \A b \in BOOLEAN :
                  Believes(s, Events(q, pid), Entered(q, pid), b) <=> q \notin G /\ b
<1> DEFINE n == Cardinality(G)
           list == SetToSeq(G)
           s == [i \in 1..n |-> Gone(list[i])]
<1>1. list \in Seq(G) /\ DOMAIN list = 1..n /\ n \in Nat /\ ToSet(list) = G
  BY ListOfSet, ListHasAll
<1>2. (\A i \in 1..n : list[i] \in G) /\ G = {list[i] : i \in 1..n}
  BY <1>1 DEF ToSet
<1> HIDE DEF n, list
<1>3. s \in [1..n -> RoomEvents]
  BY <1>2, EventListsAreNews
<1>4. s \in Seq(RoomEvents)
  BY <1>1, <1>3, SeqDef
<1>5. s \in Seq(RoomNews)
  BY <1>4, EventListsAreNews
<1>6. ToSet(s) = {Gone(list[i]) : i \in 1..n}
  BY <1>1 DEF ToSet
<1>7. ToSet(s) = {Gone(r) : r \in G}
  BY <1>2, <1>6
<1> HIDE DEF s
<1>8. ASSUME NEW q \in RoomNames, NEW pid \in Pids, NEW b \in BOOLEAN
      PROVE  Believes(s, Events(q, pid), Entered(q, pid), b) <=> q \notin G /\ b
  <2> DEFINE M == Events(q, pid)
             x == Entered(q, pid)
  <2>1. \A r \in RoomNames : Gone(r) # x /\ (Gone(r) \in M <=> q = r)
    BY DEF Events, Entered, PersonEvents, RoomEvents, Gone
  <2> HIDE DEF M, x
  <2>2. x \notin ToSet(s)
    BY <1>7, <2>1
  <2>3. q \in G => ToSet(s) \cap M # {}
    BY <1>7, <2>1
  <2>4. q \notin G => ToSet(s) \cap M = {}
    BY <1>7, <2>1
  <2>5. Believes(s, M, x, b) <=> q \notin G /\ b
    BY <2>2, <2>3, <2>4, BelievesOther
  <2> QED BY <2>5 DEF M, x
<1> QED BY <1>5, <1>8 DEF s, n, list

\* A room after PumpTick.
LEMMA ReconciledIsRoom ==
  ASSUME RoomTypes, SnapshotRTCRooms \subseteq Games, NEW r \in RoomNames, rooms'[r] = Reconciled(r)
  PROVE  /\ Reconciled(r) \in Rooms \cup {NoRoom}
         /\ InRoom(r)' /\ rooms'[r].managed => r \in Games
         /\ \A pid \in Pids :
              Present(r, pid)' <=>
                r \notin LeftLobbies /\ IF r \in SnapshotRTCRooms THEN pid \in roster[r] ELSE Present(r, pid)
<1>1. NoRoom \notin Rooms
  BY RTCAssumption
<1>2. CASE r \in SnapshotRTCRooms /\ InRoom(r)
  <2>1. rooms[r] \in Rooms /\ roster[r] \in SUBSET Pids /\ r \in Games
    BY <1>2 DEF RoomTypes, InRoom
  <2>2. Reconciled(r) = [rooms[r] EXCEPT !.participants = roster[r]]
    BY <1>2 DEF Reconciled
  <2>3. Reconciled(r) \in Rooms /\ Reconciled(r).participants = roster[r]
    BY <2>1, <2>2 DEF Rooms
  <2> QED BY <1>1, <1>2, <2>1, <2>3 DEF InRoom, Present, LeftLobbies
<1>3. CASE r \in SnapshotRTCRooms /\ ~InRoom(r)
  <2>1. roster[r] \in SUBSET Pids /\ r \in Games
    BY <1>3 DEF RoomTypes
  <2>2. Reconciled(r) = NewRoom(TRUE, roster[r])
    BY <1>3 DEF Reconciled
  <2>3. Reconciled(r) \in Rooms /\ Reconciled(r).participants = roster[r]
    BY <2>1, <2>2 DEF Rooms, NewRoom
  <2> QED BY <1>1, <1>3, <2>1, <2>3 DEF InRoom, Present, LeftLobbies
<1>4. CASE r \notin SnapshotRTCRooms /\ InRoom(r) /\ rooms[r].managed
  <2>1. Reconciled(r) = NoRoom
    BY <1>4 DEF Reconciled
  <2> QED BY <1>4, <2>1 DEF InRoom, Present, LeftLobbies
<1>5. CASE r \notin SnapshotRTCRooms /\ ~(InRoom(r) /\ rooms[r].managed)
  <2>1. Reconciled(r) = rooms[r]
    BY <1>5 DEF Reconciled
  <2> QED BY <1>5, <2>1 DEF InRoom, Present, LeftLobbies, RoomTypes
<1> QED BY <1>2, <1>3, <1>4, <1>5

\* PumpTick posts the difference.
LEMMA RoomsPumped ==
  ASSUME SocialQueueInv, RoomsInv, joined \in [Kinds -> SUBSET Games], RTCPumpTick
  PROVE  SocialQueueInv' /\ RoomsInv' /\ SameBeliefs(DisplayTales)
<1> DEFINE S == SnapshotRTCRooms
           G == LeftLobbies
           flat == FlattenSeq([i \in 1..Cardinality(S) |-> Reconcile(SetToSeq(S)[i])])
           gones == [i \in 1..Cardinality(G) |-> Gone(SetToSeq(G)[i])]
           works == flat \o gones
<1>1. RoomTypes
  BY DEF RoomsInv
<1>2. S \in SUBSET Games
  BY DEF SnapshotRTCRooms, Kinds
<1>3. G \in SUBSET Games /\ G \in SUBSET RoomNames
  BY <1>1 DEF LeftLobbies, RoomTypes
<1>4. IsFiniteSet(G)
  BY <1>3, InvitesAssumption, FS_Subset DEF InvitesAssumption
<1>5. /\ Post(works) /\ UNCHANGED <<delayed, ready, draining, reported, roster>>
      /\ rooms' = [r \in RoomNames |-> Reconciled(r)]
  BY DEF RTCPumpTick
<1>6. \A r \in RoomNames : rooms'[r] = Reconciled(r)
  BY <1>5
<1>7. RoomTypes'
  <2>1. rooms' \in [RoomNames -> Rooms \cup {NoRoom}]
    BY <1>1, <1>2, <1>5, <1>6, ReconciledIsRoom
  <2>2. \A r \in RoomNames : InRoom(r)' /\ rooms'[r].managed => r \in Games
    BY <1>1, <1>2, <1>6, ReconciledIsRoom
  <2> QED BY <1>1, <1>5, <2>1, <2>2 DEF RoomTypes, InRoom
<1>8. \A q \in RoomNames, pid \in Pids :
        Present(q, pid)' <=> q \notin G /\ IF q \in S THEN pid \in roster[q] ELSE Present(q, pid)
  BY <1>1, <1>2, <1>6, ReconciledIsRoom
<1> HIDE DEF S, G
<1>9. /\ flat \in Seq(RoomNews)
      /\ \A q \in RoomNames, pid \in Pids :
           Believes(flat, Events(q, pid), Entered(q, pid), Present(q, pid))
             <=> IF q \in S THEN pid \in roster[q] ELSE Present(q, pid)
  BY <1>1, <1>2, ViewsSay
<1>10. /\ gones \in Seq(RoomNews)
       /\ \A q \in RoomNames, pid \in Pids : \A b \in BOOLEAN :
            Believes(gones, Events(q, pid), Entered(q, pid), b) <=> q \notin G /\ b
  BY <1>3, <1>4, GoneListSays
<1> HIDE DEF flat, gones
<1>11. ASSUME NEW q \in RoomNames, NEW pid \in Pids
       PROVE  Believes(works, Events(q, pid), Entered(q, pid), Present(q, pid)) <=> Present(q, pid)'
  <2> DEFINE M == Events(q, pid)
             x == Entered(q, pid)
             b == Present(q, pid)
             mid == (q \in S /\ pid \in roster[q]) \/ (q \notin S /\ b)
  <2>1. Believes(flat, M, x, b) <=> mid
    BY <1>9
  <2>2. mid \in BOOLEAN
    OBVIOUS
  <2>3. Believes(gones, M, x, mid) <=> q \notin G /\ mid
    BY <1>10, <2>2
  <2>4. Present(q, pid)' <=> q \notin G /\ mid
    BY <1>8
  <2> HIDE DEF M, x, b, mid
  <2>5. Believes(flat \o gones, M, x, b) <=> Believes(gones, M, x, mid)
    BY <1>9, <1>10, <2>1, <2>2, InTurn
  <2> QED BY <2>3, <2>4, <2>5 DEF M, x, b
<1>12. works \in Seq(RoomNews)
  BY <1>9, <1>10, ConcatProperties
<1> HIDE DEF works
<1>13. works \in Seq(SocialClosures) /\ ToSet(works) \cap DisplayEvents = {}
  BY <1>12, EventListsAreNews, EventsAreClosures
<1>14. /\ SocialQueueInv' /\ SameBeliefs(DisplayTales)
       /\ \A M, x, b : Believes(Line', M, x, b) <=> Believes(works, M, x, Believes(Line, M, x, b))
  BY <1>5, <1>13, SocialPosts
<1>15. RoomsInv'
  BY <1>5, <1>7, <1>11, <1>13, RoomsTold
<1> QED BY <1>14, <1>15

\* A closure that is no event of a room, or no announcement, runs.
LEMMA HeadIsNoNews ==
  ASSUME SocialQueueInv, Work(<<>>)
  PROVE  /\ Head(ready) \notin RoomNews => SameBeliefs(RoomTales)
         /\ Head(ready) \notin DisplayEvents => SameBeliefs(DisplayTales)
<1>1. ASSUME NEW M, Head(ready) \notin M, NEW x \in M, NEW b \in BOOLEAN
      PROVE  Believes(Line', M, x, b) <=> Believes(Line, M, x, b)
  <2> DEFINE c == (Head(ready) = x \/ (Head(ready) \notin M /\ b))
  <2>1. Believes(Line, M, x, b) <=> Believes(Line', M, x, c)
    BY SocialRunsHead
  <2>2. c = b
    BY <1>1
  <2> HIDE DEF c
  <2> QED BY <2>1, <2>2
<1>2. ASSUME Head(ready) \notin RoomNews PROVE SameBeliefs(RoomTales)
  <2>1. \A M \in RoomTales : Head(ready) \notin M
    BY <1>2, EventsAreClosures DEF RoomTales
  <2> QED BY <1>1, <2>1 DEF SameBeliefs
<1>3. ASSUME Head(ready) \notin DisplayEvents PROVE SameBeliefs(DisplayTales)
  <2>1. \A M \in DisplayTales : Head(ready) \notin M
    BY <1>3, EventsAreClosures DEF DisplayTales
  <2> QED BY <1>1, <2>1 DEF SameBeliefs
<1> QED BY <1>2, <1>3

\* EOS_RTC_JoinRoom: the local user is alone in a room of the game's own.
LEMMA RoomJoined ==
  ASSUME SocialQueueInv, RoomsInv, NEW r \in RoomNames, JoinRoom(r)
  PROVE  SocialQueueInv' /\ RoomsInv' /\ SameBeliefs(DisplayTales)
<1>1. RoomTypes /\ UNCHANGED <<reported, roster, delayed, ready, draining>>
  BY DEF RoomsInv, JoinRoom
<1>2. CASE InRoom(r)
  <2>1. Post(<<Plain>>) /\ UNCHANGED rooms
    BY <1>2 DEF JoinRoom
  <2> QED BY <1>1, <2>1, PlainPosts, RoomsStay DEF RoomTypes
<1>3. CASE ~InRoom(r)
  <2> DEFINE me == {LocalPid}
             new == NewRoom(FALSE, me)
             a == Joined(r, me)
             c == <<Plain>>
             works == a \o c
  <2>1. rooms' = [rooms EXCEPT ![r] = new] /\ Post(works)
    BY <1>3 DEF JoinRoom
  <2>2. me \in SUBSET Pids /\ NoRoom \notin Rooms
    BY RTCAssumption DEF RTCAssumption
  <2>3. new \in Rooms /\ ~new.managed /\ new.participants = me
    BY <2>2 DEF NewRoom, Rooms
  <2> HIDE DEF new
  <2>4. RoomTypes'
    BY <1>1, <2>1, <2>3 DEF RoomTypes, InRoom
  <2>5. \A q \in RoomNames, pid \in Pids :
          Present(q, pid)' <=> (q = r /\ pid \in me) \/ Present(q, pid)
    BY <1>1, <1>3, <2>1, <2>2, <2>3 DEF Present, InRoom, RoomTypes
  <2>6. a \in Seq(RoomNews) /\ a \in Seq(SocialClosures)
    BY <2>2, JoinedList, EventListsAreNews
  <2>7. c \in Seq(SocialClosures) /\ ToSet(c) = {Plain}
    BY EventsAreClosures DEF ToSet
  <2> HIDE DEF a, c, me
  <2>8. works \in Seq(SocialClosures) /\ ToSet(works) = ToSet(a) \cup {Plain}
    BY <2>6, <2>7, ConcatRoster
  <2>9. ASSUME NEW q \in RoomNames, NEW pid \in Pids
        PROVE  Believes(works, Events(q, pid), Entered(q, pid), Present(q, pid)) <=> Present(q, pid)'
    <3> DEFINE M == Events(q, pid)
               x == Entered(q, pid)
               b == Present(q, pid)
               mid == (q = r /\ pid \in me) \/ b
    <3>1. b \in BOOLEAN /\ mid \in BOOLEAN
      BY DEF Present
    <3>2. Believes(a, M, x, b) <=> mid
      BY <2>2, <3>1, JoinedSays DEF a
    <3>3. ToSet(c) \cap M = {}
      BY <2>7, EventsAreClosures
    <3>4. Believes(c, M, x, mid) <=> mid
      <4> HIDE DEF mid, M, x
      <4> QED BY <3>1, <3>3, BelievesNothingNew
    <3>5. Present(q, pid)' <=> mid
      BY <2>5
    <3> HIDE DEF M, x, b, mid
    <3>6. Believes(a \o c, M, x, b) <=> Believes(c, M, x, mid)
      BY <2>6, <2>7, <3>1, <3>2, InTurn
    <3> QED BY <3>4, <3>5, <3>6 DEF M, x, b
  <2>10. ToSet(works) \cap DisplayEvents = {}
    BY <2>6, <2>8, EventListsAreNews, EventsAreClosures
  <2> HIDE DEF works
  <2>11. SocialQueueInv' /\ SameBeliefs(DisplayTales)
    BY <1>1, <2>1, <2>8, <2>10, SocialPosts
  <2>12. RoomsInv'
    BY <1>1, <2>1, <2>4, <2>8, <2>9, RoomsTold
  <2> QED BY <2>11, <2>12
<1> QED BY <1>2, <1>3

\* EOS_RTC_LeaveRoom.
LEMMA RoomLeft ==
  ASSUME SocialQueueInv, RoomsInv, NEW r \in RoomNames, LeaveRoom(r)
  PROVE  SocialQueueInv' /\ RoomsInv' /\ SameBeliefs(DisplayTales)
<1>1. RoomTypes /\ UNCHANGED <<reported, roster, delayed, ready, draining>>
  BY DEF RoomsInv, LeaveRoom
<1>2. CASE ~(InRoom(r) /\ ~rooms[r].managed)
  <2>1. Post(<<Plain>>) /\ UNCHANGED rooms
    BY <1>2 DEF LeaveRoom
  <2> QED BY <1>1, <2>1, PlainPosts, RoomsStay DEF RoomTypes
<1>3. CASE InRoom(r) /\ ~rooms[r].managed
  <2> DEFINE works == <<Gone(r)>>
  <2>1. rooms' = [rooms EXCEPT ![r] = NoRoom] /\ Post(works)
    BY <1>3 DEF LeaveRoom
  <2>2. RoomTypes'
    BY <1>1, <2>1 DEF RoomTypes, InRoom
  <2>3. \A q \in RoomNames, pid \in Pids : Present(q, pid)' <=> q # r /\ Present(q, pid)
    BY <1>1, <2>1 DEF Present, InRoom, RoomTypes
  <2>4. works \in Seq(RoomNews) /\ works \in Seq(SocialClosures)
    BY EventListsAreNews
  <2>5. ASSUME NEW q \in RoomNames, NEW pid \in Pids
        PROVE  Believes(works, Events(q, pid), Entered(q, pid), Present(q, pid)) <=> Present(q, pid)'
    <3>1. Present(q, pid) \in BOOLEAN
      BY DEF Present
    <3> QED BY <2>3, <3>1, GoneSays
  <2>6. ToSet(works) \cap DisplayEvents = {}
    BY <2>4, EventListsAreNews, EventsAreClosures
  <2> HIDE DEF works
  <2>7. SocialQueueInv' /\ SameBeliefs(DisplayTales)
    BY <1>1, <2>1, <2>4, <2>6, SocialPosts
  <2>8. RoomsInv'
    BY <1>1, <2>1, <2>2, <2>4, <2>5, RoomsTold
  <2> QED BY <2>7, <2>8
<1> QED BY <1>2, <1>3

\* EOS_RTCAudio_UpdateSending changes no list of participants.
LEMMA SendingUpdated ==
  ASSUME SocialQueueInv, RoomsInv, NEW r \in RoomNames, NEW status \in {"Enabled", "Disabled"},
         UpdateSending(r, status)
  PROVE  SocialQueueInv' /\ RoomsInv' /\ SameBeliefs(DisplayTales)
<1>1. /\ RoomTypes /\ UNCHANGED <<reported, roster, delayed, ready, draining>> /\ InRoom(r)
      /\ rooms' = [rooms EXCEPT ![r].audio = status]
      /\ Post(<<Plain>>) \/ Post(<<Plain, Plain>>)
  BY DEF RoomsInv, UpdateSending
<1>2. SocialQueueInv' /\ SameBeliefs(RoomTales) /\ SameBeliefs(DisplayTales)
  BY <1>1, PlainPosts
<1> DEFINE new == [rooms[r] EXCEPT !.audio = status]
<1>3. /\ new \in Rooms /\ NoRoom \notin Rooms
      /\ new.managed = rooms[r].managed /\ new.participants = rooms[r].participants
  BY <1>1, RTCAssumption DEF RoomTypes, InRoom, Rooms, RTCAssumption
<1>4. rooms' = [rooms EXCEPT ![r] = new]
  BY <1>1
<1> HIDE DEF new
<1>5. RoomTypes'
  BY <1>1, <1>3, <1>4 DEF RoomTypes, InRoom
<1>6. \A q \in RoomNames, pid \in Pids : Present(q, pid)' <=> Present(q, pid)
  BY <1>1, <1>3, <1>4 DEF Present, InRoom, RoomTypes
<1>7. ASSUME NEW q \in RoomNames, NEW pid \in Pids
      PROVE  Believes(Line', Events(q, pid), Entered(q, pid), pid \in reported'[q]) <=> Present(q, pid)'
  <2>1. Events(q, pid) \in RoomTales /\ Entered(q, pid) \in Events(q, pid)
    BY EventsAreClosures DEF RoomTales
  <2>2. (pid \in reported[q]) \in BOOLEAN
    OBVIOUS
  <2>3. Believes(Line', Events(q, pid), Entered(q, pid), pid \in reported[q])
          <=> Believes(Line, Events(q, pid), Entered(q, pid), pid \in reported[q])
    BY <1>2, <2>1, <2>2 DEF SameBeliefs
  <2> QED BY <1>1, <1>6, <2>3 DEF RoomsInv
<1> QED BY <1>2, <1>5, <1>7 DEF RoomsInv

\* The game hears an event of a room.
LEMMA RoomEventHeard ==
  ASSUME SocialQueueInv, RoomsInv, RunRoomEvent, UNCHANGED roster
  PROVE  SocialQueueInv' /\ RoomsInv' /\ SameBeliefs(DisplayTales)
<1> DEFINE h == Head(ready)
<1>1. /\ RoomTypes /\ Work(<<>>) /\ h.kind \in {"joined", "left", "connected", "gone"}
      /\ reported' = Heard(reported, h) /\ rooms' = rooms /\ roster' = roster
  BY DEF RoomsInv, RunRoomEvent
<1>2. /\ SocialQueueInv' /\ h \in SocialClosures
      /\ \A M : \A x \in M, b \in BOOLEAN :
           Believes(Line, M, x, b) <=> Believes(Line', M, x, h = x \/ (h \notin M /\ b))
  BY <1>1, SocialRunsHead
<1>3. /\ h.kind \in {"joined", "left"} => h.room \in RoomNames /\ h.pid \in Pids
      /\ h.kind \in {"connected", "gone"} => h.room \in RoomNames
      /\ h \in RoomNews
      /\ \A r, pid : h \in Events(r, pid) <=>
              \/ h.kind \in {"joined", "left"} /\ h.room = r /\ h.pid = pid
              \/ h.kind \in {"connected", "gone"} /\ h.room = r
  BY <1>1, <1>2, SocialClosureKinds DEF RoomNews
<1>4. \A r, pid : h = Entered(r, pid) <=> h.kind = "joined" /\ h.room = r /\ h.pid = pid
  <2>1. h.kind = "joined" => h = [kind |-> "joined", room |-> h.room, pid |-> h.pid]
    BY <1>3 DEF RoomNews, PersonEvents, RoomEvents
  <2> QED BY <2>1 DEF Entered
<1>5. SameBeliefs(DisplayTales)
  BY <1>1, <1>3, HeadIsNoNews, EventsAreClosures
<1> HIDE DEF h
<1>6. \A r \in RoomNames, pid \in Pids :
        pid \in reported'[r] <=> (h = Entered(r, pid) \/ (h \notin Events(r, pid) /\ pid \in reported[r]))
  <2>1. CASE h.kind = "joined"
    <3>1. reported' = [reported EXCEPT ![h.room] = @ \cup {h.pid}]
      BY <1>1, <2>1 DEF Heard
    <3> QED BY <1>1, <1>3, <1>4, <2>1, <3>1 DEF RoomTypes
  <2>2. CASE h.kind = "left"
    <3>1. reported' = [reported EXCEPT ![h.room] = @ \ {h.pid}]
      BY <1>1, <2>2 DEF Heard
    <3> QED BY <1>1, <1>3, <1>4, <2>2, <3>1 DEF RoomTypes
  <2>3. CASE h.kind \in {"connected", "gone"}
    <3>1. reported' = [reported EXCEPT ![h.room] = {}]
      BY <1>1, <2>3 DEF Heard
    <3> QED BY <1>1, <1>3, <1>4, <2>3, <3>1 DEF RoomTypes
  <2> QED BY <1>1, <2>1, <2>2, <2>3
<1>7. RoomTypes'
  <2>1. reported' \in [RoomNames -> SUBSET Pids]
    BY <1>1, <1>3 DEF RoomTypes, Heard
  <2> QED BY <1>1, <2>1 DEF RoomTypes, InRoom
<1>8. ASSUME NEW r \in RoomNames, NEW pid \in Pids
      PROVE  Believes(Line', Events(r, pid), Entered(r, pid), pid \in reported'[r]) <=> Present(r, pid)'
  <2> DEFINE M == Events(r, pid)
             x == Entered(r, pid)
             b == pid \in reported[r]
             c == (h = x \/ (h \notin M /\ b))
             d == pid \in reported'[r]
  <2>1. x \in M /\ b \in BOOLEAN /\ c \in BOOLEAN /\ d \in BOOLEAN
    BY EventsAreClosures
  <2>2. Believes(Line, M, x, b) <=> Believes(Line', M, x, c)
    BY <1>2, <2>1
  <2>3. Believes(Line, M, x, b) <=> Present(r, pid)
    BY DEF RoomsInv
  <2>4. Present(r, pid)' <=> Present(r, pid)
    BY <1>1 DEF Present, InRoom
  <2>5. c <=> d
    BY <1>6
  <2> HIDE DEF c, d, M, x
  <2>6. c = d
    BY <2>1, <2>5
  <2>7. Believes(Line', M, x, d) <=> Present(r, pid)'
    BY <2>2, <2>3, <2>4, <2>6
  <2> QED BY <2>7 DEF M, x, d
<1> QED BY <1>2, <1>5, <1>7, <1>8 DEF RoomsInv

\* What RTCRooms says of the line, in the words of these lemmas.
LEMMA WillBelieveIsBelieves ==
  ASSUME SocialQueueInv, NEW r \in RoomNames, NEW pid \in Pids
  PROVE  WillBelieve(r, pid) <=> Believes(Line, Events(r, pid), Entered(r, pid), pid \in reported[r])
<1> DEFINE M == Events(r, pid)
           x == Entered(r, pid)
           b == pid \in reported[r]
           T == Telling(r, pid)
<1>1. Line \in Seq(SocialClosures)
  BY SocialLine
<1>2. \A i \in DOMAIN Line : Line[i] \in SocialClosures
  BY <1>1, LenProperties, ElementOfSeq
<1>3. \A i \in DOMAIN Line : i \in T <=> Line[i] \in M
  BY <1>2, SocialClosureKinds DEF Telling
<1>4. T \subseteq DOMAIN Line
  BY DEF Telling
<1>5. \A i \in T : Line[i].kind = "joined" <=> Line[i] = x
  <2>1. \A c \in SocialClosures : c \in M => (c.kind = "joined" <=> c = x)
    <3> SUFFICES ASSUME NEW c \in SocialClosures, c \in M PROVE c.kind = "joined" <=> c = x
      OBVIOUS
    <3>1. c.kind = "joined" => c \in PersonEvents /\ c.room = r /\ c.pid = pid
      BY SocialClosureKinds
    <3>2. c.kind = "joined" => c = [kind |-> "joined", room |-> c.room, pid |-> c.pid]
      BY <3>1 DEF PersonEvents
    <3> QED BY <3>1, <3>2 DEF Entered
  <2> QED BY <1>2, <1>3, <1>4, <2>1
<1>6. x \in M
  BY EventsAreClosures
<1>7. WillBelieve(r, pid) <=>
        \/ \E i \in T : Line[i].kind = "joined" /\ \A j \in T : j <= i
        \/ T = {} /\ b
  BY DEF WillBelieve
<1> HIDE DEF M, x, b, T
<1>8. (\E i \in T : Line[i].kind = "joined" /\ \A j \in T : j <= i) <=> LastOf(Line, M, x)
  BY <1>3, <1>4, <1>5, <1>6 DEF LastOf
<1>9. T = {} <=> ToSet(Line) \cap M = {}
  BY <1>3, <1>4 DEF ToSet
<1>10. WillBelieve(r, pid) <=> Believes(Line, M, x, b)
  BY <1>7, <1>8, <1>9 DEF Believes
<1> QED BY <1>10 DEF M, x, b

\* The invariant says what the property says.
LEMMA RoomsReportedFollows == SocialQueueInv /\ RoomsInv => RoomsReported
BY WillBelieveIsBelieves DEF RoomsInv, RoomsReported, Present

---------------------------------------------------------------------------
(* The announcements of the display.                                       *)

ShownTypes ==
  /\ observers \subseteq Observers /\ last \in Displays
  /\ toldDisplay \in [Observers -> Displays \cup {Nothing}]

\* The line leads each observer to the display that was last announced.
ShownInv ==
  /\ ShownTypes
  /\ notify \/ \A o \in observers :
       Believes(Line, Announcements(o), Announcement(o, last), toldDisplay[o] = last)

\* A step that announces nothing, or leaves an announcement owed.
LEMMA ShownStays ==
  ASSUME ShownInv, SameBeliefs(DisplayTales), UNCHANGED <<last, toldDisplay>>,
         observers' \subseteq Observers, notify' \/ (notify' = notify /\ observers' \subseteq observers)
  PROVE  ShownInv'
<1>1. ShownTypes'
  BY DEF ShownInv, ShownTypes
<1>2. ASSUME ~notify', NEW o \in observers'
      PROVE  Believes(Line', Announcements(o), Announcement(o, last), toldDisplay[o] = last)
  <2>1. ~notify /\ o \in observers /\ o \in Observers /\ last \in Displays
    BY <1>2 DEF ShownInv, ShownTypes
  <2>2. Believes(Line, Announcements(o), Announcement(o, last), toldDisplay[o] = last)
    BY <2>1 DEF ShownInv
  <2>3. Announcements(o) \in DisplayTales /\ Announcement(o, last) \in Announcements(o)
    BY <2>1, EventsAreClosures DEF DisplayTales
  <2>4. (toldDisplay[o] = last) \in BOOLEAN
    OBVIOUS
  <2> QED BY <2>2, <2>3, <2>4 DEF SameBeliefs
<1> QED BY <1>1, <1>2 DEF ShownInv

\* The tasks of FireDisplaySettings.
LEMMA DisplayTasksList ==
  ASSUME ShownTypes, visible \in BOOLEAN, exclusive \in BOOLEAN
  PROVE  /\ Display(visible, exclusive) \in Displays
         /\ DisplayTasks \in Seq(DisplayEvents) /\ DisplayTasks \in Seq(SocialClosures)
         /\ IsInjective(DisplayTasks)
         /\ ToSet(DisplayTasks) = {Announcement(o, Display(visible, exclusive)) : o \in observers}
<1> DEFINE d == Display(visible, exclusive)
           n == Cardinality(observers)
           os == SetToSeq(observers)
           ts == [i \in DOMAIN os |-> Announcement(os[i], d)]
<1>1. d \in Displays
  BY DEF Display, Displays
<1>2. IsFiniteSet(observers)
  BY OverlayAssumption, FS_Subset DEF ShownTypes, OverlayAssumption
<1>3. DOMAIN os = 1..n /\ n \in Nat /\ IsInjective(os) /\ ToSet(os) = observers
  BY <1>2, ListOfSet, ListHasAll
<1>4. DisplayTasks = ts
  BY DEF DisplayTasks, Announcement
<1> HIDE DEF d, n, os
<1>5. /\ \A i \in 1..n : os[i] \in Observers
      /\ \A i, j \in 1..n : os[i] = os[j] => i = j
      /\ observers = {os[i] : i \in 1..n}
  BY <1>3 DEF ToSet, IsInjective, ShownTypes
<1>6. \A o \in Observers : Announcement(o, d) \in DisplayEvents
  BY <1>1 DEF Announcement, DisplayEvents
<1>7. ts \in [1..n -> DisplayEvents]
  BY <1>3, <1>5, <1>6
<1>8. ts \in Seq(DisplayEvents)
  BY <1>3, <1>7, SeqDef
<1>9. IsInjective(ts)
  <2>1. \A o, p : Announcement(o, d) = Announcement(p, d) => o = p
    BY DEF Announcement
  <2> QED BY <1>3, <1>5, <2>1 DEF IsInjective
<1>10. ToSet(ts) = {Announcement(os[i], d) : i \in 1..n}
  BY <1>3 DEF ToSet
<1>11. ToSet(ts) = {Announcement(o, d) : o \in observers}
  BY <1>5, <1>10
<1>12. Seq(DisplayEvents) \subseteq Seq(SocialClosures)
  <2>1. DisplayEvents \subseteq SocialClosures
    BY DEF SocialClosures
  <2> QED BY <2>1, LenProperties, ElementOfSeq, SeqDef
<1> HIDE DEF ts
<1> QED BY <1>1, <1>4, <1>8, <1>9, <1>11, <1>12 DEF d

\* FireDisplaySettings.
LEMMA DisplayFired ==
  ASSUME SocialQueueInv, ShownInv, visible \in BOOLEAN, exclusive \in BOOLEAN, FireDisplaySettings
  PROVE  SocialQueueInv' /\ ShownInv' /\ SameBeliefs(RoomTales)
<1> DEFINE d == Display(visible, exclusive)
           works == DisplayTasks
<1>1. ShownTypes /\ UNCHANGED <<observers, toldDisplay, delayed, ready, draining>>
  BY DEF ShownInv, FireDisplaySettings, uiVars
<1>2. CASE ~paused /\ DisplayChanged
  <2>1. Post(works) /\ last' = d /\ notify' = FALSE
    BY <1>2 DEF FireDisplaySettings
  <2>2. /\ d \in Displays /\ works \in Seq(DisplayEvents) /\ works \in Seq(SocialClosures)
        /\ IsInjective(works) /\ ToSet(works) = {Announcement(o, d) : o \in observers}
    BY <1>1, DisplayTasksList
  <2>3. ToSet(works) \subseteq DisplayEvents
    BY <2>2, LenProperties, ElementOfSeq DEF ToSet
  <2> HIDE DEF works, d
  <2>4. /\ SocialQueueInv' /\ SameBeliefs(RoomTales)
        /\ \A M, x, b : Believes(Line', M, x, b) <=> Believes(works, M, x, Believes(Line, M, x, b))
    BY <1>1, <2>1, <2>2, <2>3, SocialPosts, EventsAreClosures
  <2>5. ASSUME NEW o \in observers
        PROVE  Believes(Line', Announcements(o), Announcement(o, d), toldDisplay[o] = d)
    <3> DEFINE M == Announcements(o)
               x == Announcement(o, d)
               b == toldDisplay[o] = d
               c == Believes(Line, M, x, b)
    <3>1. x \in M /\ c \in BOOLEAN /\ x \in ToSet(works)
      BY <1>1, <2>2, EventsAreClosures DEF Believes, ShownTypes
    <3>2. ToSet(works) \cap M \subseteq {x}
      BY <2>2 DEF Announcements, Announcement
    <3> HIDE DEF M, x, c
    <3>3. Believes(works, M, x, c)
      BY <2>2, <3>1, <3>2, BelievesOne
    <3>4. Believes(Line', M, x, b)
      BY <2>4, <3>3 DEF c
    <3> QED BY <3>4 DEF M, x
  <2>6. ShownTypes'
    BY <1>1, <2>1, <2>2 DEF ShownTypes
  <2>7. ShownInv'
    BY <1>1, <2>1, <2>5, <2>6 DEF ShownInv
  <2> QED BY <2>4, <2>7
<1>3. CASE ~(~paused /\ DisplayChanged)
  <2>1. UNCHANGED <<pending, last, notify>>
    BY <1>3 DEF FireDisplaySettings
  <2>2. Line' = Line /\ SocialQueueInv'
    BY <1>1, <2>1 DEF Line, SocialQueueInv, QueueOf
  <2>3. SameBeliefs(RoomTales) /\ SameBeliefs(DisplayTales)
    BY <2>2, SameLineSameBeliefs
  <2>4. ShownInv'
    BY <1>1, <2>1, <2>3, ShownStays DEF ShownTypes
  <2> QED BY <2>2, <2>3, <2>4
<1> QED BY <1>2, <1>3

\* An observer is called.
LEMMA DisplayTaskRun ==
  ASSUME SocialQueueInv, ShownInv, RunDisplayTask
  PROVE  SocialQueueInv' /\ ShownInv' /\ SameBeliefs(RoomTales)
<1> DEFINE h == Head(ready)
<1>1. /\ ShownTypes /\ Work(<<>>) /\ h.kind = "display"
      /\ toldDisplay' = [toldDisplay EXCEPT ![h.observer] = h.display]
      /\ UNCHANGED <<last, notify, observers>>
  BY DEF ShownInv, RunDisplayTask
<1>2. /\ SocialQueueInv' /\ h \in SocialClosures
      /\ \A M : \A x \in M, b \in BOOLEAN :
           Believes(Line, M, x, b) <=> Believes(Line', M, x, h = x \/ (h \notin M /\ b))
  BY <1>1, SocialRunsHead
<1>3. /\ h \in DisplayEvents /\ h.observer \in Observers /\ h.display \in Displays
      /\ \A o : h \in Announcements(o) <=> h.observer = o
  BY <1>1, <1>2, SocialClosureKinds
<1>4. \A o, e : h = Announcement(o, e) <=> h.observer = o /\ h.display = e
  <2>1. h = [kind |-> "display", observer |-> h.observer, display |-> h.display]
    BY <1>3 DEF DisplayEvents
  <2> QED BY <2>1 DEF Announcement
<1>5. SameBeliefs(RoomTales)
  BY <1>1, <1>3, HeadIsNoNews, EventsAreClosures
<1> HIDE DEF h
<1>6. ShownTypes'
  BY <1>1, <1>3 DEF ShownTypes
<1>7. ASSUME ~notify, NEW o \in observers
      PROVE  Believes(Line', Announcements(o), Announcement(o, last), toldDisplay'[o] = last)
  <2> DEFINE M == Announcements(o)
             x == Announcement(o, last)
             b == toldDisplay[o] = last
             c == (h = x \/ (h \notin M /\ b))
             e == toldDisplay'[o] = last
  <2>1. x \in M /\ b \in BOOLEAN /\ c \in BOOLEAN /\ e \in BOOLEAN
    BY <1>1, EventsAreClosures DEF ShownTypes
  <2>2. Believes(Line, M, x, b) <=> Believes(Line', M, x, c)
    BY <1>2, <2>1
  <2>3. Believes(Line, M, x, b)
    BY <1>7 DEF ShownInv
  <2>4. c <=> e
    BY <1>1, <1>3, <1>4 DEF ShownTypes
  <2> HIDE DEF c, e, M, x
  <2>5. c = e
    BY <2>1, <2>4
  <2>6. Believes(Line', M, x, e)
    BY <2>2, <2>3, <2>5
  <2> QED BY <2>6 DEF M, x, e
<1>8. ShownInv'
  BY <1>1, <1>6, <1>7 DEF ShownInv
<1> QED BY <1>2, <1>5, <1>8

\* What SocialOverlay says of the line, in the words of these lemmas.
LEMMA WillBeShownIsBelieves ==
  ASSUME SocialQueueInv, NEW o \in Observers, NEW d \in Displays
  PROVE  WillBeShown(o, d) <=> Believes(Line, Announcements(o), Announcement(o, d), toldDisplay[o] = d)
<1> DEFINE M == Announcements(o)
           x == Announcement(o, d)
           b == toldDisplay[o] = d
           T == Announced(o)
<1>1. Line \in Seq(SocialClosures)
  BY SocialLine
<1>2. \A i \in DOMAIN Line : Line[i] \in SocialClosures
  BY <1>1, LenProperties, ElementOfSeq
<1>3. \A i \in DOMAIN Line : i \in T <=> Line[i] \in M
  BY <1>2, SocialClosureKinds DEF Announced
<1>4. T \subseteq DOMAIN Line
  BY DEF Announced
<1>5. \A i \in T : Line[i].display = d <=> Line[i] = x
  <2>1. \A c \in M : c.display = d <=> c = x
    BY DEF Announcements, Announcement, DisplayEvents
  <2> QED BY <1>3, <1>4, <2>1
<1>6. x \in M
  BY EventsAreClosures
<1>7. WillBeShown(o, d) <=>
        \/ \E i \in T : Line[i].display = d /\ \A j \in T : j <= i
        \/ T = {} /\ b
  BY DEF WillBeShown
<1> HIDE DEF M, x, b, T
<1>8. (\E i \in T : Line[i].display = d /\ \A j \in T : j <= i) <=> LastOf(Line, M, x)
  BY <1>3, <1>4, <1>5, <1>6 DEF LastOf
<1>9. T = {} <=> ToSet(Line) \cap M = {}
  BY <1>3, <1>4 DEF ToSet
<1>10. WillBeShown(o, d) <=> Believes(Line, M, x, b)
  BY <1>7, <1>8, <1>9 DEF Believes
<1> QED BY <1>10 DEF M, x, b

\* The invariant says what the property says.
LEMMA DisplayToldFollows == SocialQueueInv /\ ShownInv => DisplayTold
BY WillBeShownIsBelieves DEF ShownInv, ShownTypes, DisplayTold

---------------------------------------------------------------------------
(* The invites.                                                            *)

GameTypes ==
  /\ known \in [Kinds -> [Games -> {"none", "open", "full"}]]
  /\ joined \in [Kinds -> SUBSET Games]

InviteRecords == [id : InviteIds, game : Games]
Answers == {"accepted", "rejected"}

\* The invites of an interface have different ids, that it has given out.
ListOK(k) ==
  /\ invites[k] \in Seq(InviteRecords)
  /\ \A i \in DOMAIN invites[k] : invites[k][i].id < nextInvite[k]
  /\ \A i, j \in DOMAIN invites[k] : invites[k][i].id = invites[k][j].id => i = j

\* An invite that was rejected is filed no more, and is answered no more.
AnswersOK(k) ==
  \A i \in InviteIds :
    /\ outcomes[k][i] \in Seq(Answers)
    /\ \A n \in DOMAIN outcomes[k][i] :
         outcomes[k][i][n] = "rejected" => n = Len(outcomes[k][i]) /\ i \notin Filed(k)
    /\ i >= nextInvite[k] => outcomes[k][i] = <<>>

UiEventsOK ==
  /\ nextUiEvent \in Nat \ {0} /\ uiEvents \in [Kinds -> SUBSET (1..nextUiEvent - 1)]
  /\ uiEvents["lobby"] \cap uiEvents["session"] = {}

InviteInv ==
  /\ DOMAIN invites = Kinds /\ invites = [k \in Kinds |-> invites[k]]
  /\ outcomes = [k \in Kinds |-> [i \in InviteIds |-> outcomes[k][i]]]
  /\ nextInvite \in [Kinds \cup {"custom"} -> 1..MaxInvites + 1]
  /\ arriving \in Kinds \cup {"custom", NoInvite}
  /\ UiEventsOK
  /\ \A k \in Kinds : ListOK(k) /\ AnswersOK(k)

\* No invite is filed at first, and no game is known.
LEMMA InvitesBegin ==
  ASSUME InvitesInit
  PROVE  GameTypes /\ InviteInv
<1>1. GameTypes
  BY DEF InvitesInit, GameTypes
<1>2. UiEventsOK
  <2>1. nextUiEvent = 1 /\ uiEvents = [k \in Kinds |-> {}]
    BY DEF InvitesInit
  <2> QED BY <2>1 DEF UiEventsOK, Kinds
<1>3. ASSUME NEW k \in Kinds PROVE ListOK(k) /\ AnswersOK(k)
  <2>1. invites[k] = <<>> /\ \A i \in InviteIds : outcomes[k][i] = <<>>
    BY DEF InvitesInit
  <2>2. <<>> \in Seq(InviteRecords) /\ <<>> \in Seq(Answers) /\ DOMAIN <<>> = {}
    BY EmptySeq
  <2> QED BY <2>1, <2>2 DEF ListOK, AnswersOK
<1>4. nextInvite \in [Kinds \cup {"custom"} -> 1..MaxInvites + 1]
  <2>1. 1 \in 1..MaxInvites + 1
    BY InvitesAssumption DEF InvitesAssumption
  <2> QED BY <2>1 DEF InvitesInit
<1>5. /\ DOMAIN invites = Kinds /\ invites = [k \in Kinds |-> invites[k]]
      /\ outcomes = [k \in Kinds |-> [i \in InviteIds |-> outcomes[k][i]]]
      /\ arriving \in Kinds \cup {"custom", NoInvite}
  BY DEF InvitesInit
<1> QED BY <1>1, <1>2, <1>3, <1>4, <1>5 DEF InviteInv

\* A step that leaves the games.
LEMMA GamesStay ==
  ASSUME GameTypes, UNCHANGED gameVars
  PROVE  GameTypes'
BY DEF GameTypes, gameVars

\* A step that leaves the invites.
LEMMA InvitesStay ==
  ASSUME InviteInv,
         UNCHANGED <<invites, nextInvite, arriving, uiEvents, nextUiEvent, outcomes>>
  PROVE  InviteInv'
BY DEF InviteInv, UiEventsOK, ListOK, AnswersOK, Filed

\* A record of a game changes; the game is entered or left.
LEMMA GamesChange ==
  ASSUME GameTypes, NEW k \in Kinds, NEW g \in Games,
         \/ \E record \in {"none", "open", "full"} : GameChanges(k, g, record)
         \/ EnterGame(k, g) \/ QuitGame(k, g)
  PROVE  GameTypes'
<1>1. CASE \E record \in {"none", "open", "full"} : GameChanges(k, g, record)
  <2>1. PICK record \in {"none", "open", "full"} : GameChanges(k, g, record)
    BY <1>1
  <2>2. known' = [known EXCEPT ![k] = [known[k] EXCEPT ![g] = record]] /\ joined' = joined
    BY <2>1 DEF GameChanges
  <2>3. [known[k] EXCEPT ![g] = record] \in [Games -> {"none", "open", "full"}]
    BY <2>1 DEF GameTypes
  <2> QED BY <2>2, <2>3 DEF GameTypes
<1>2. CASE EnterGame(k, g)
  BY <1>2 DEF GameTypes, EnterGame
<1>3. CASE QuitGame(k, g)
  BY <1>3 DEF GameTypes, QuitGame
<1> QED BY <1>1, <1>2, <1>3

\* The answers of an interface stay good when its list loses invites.
LEMMA InviteAnswered ==
  ASSUME InviteInv, NEW k \in Kinds, NEW i \in InviteIds, NEW what \in Answers, i \in Filed(k),
         outcomes' = Told(k, i, what), UNCHANGED nextInvite,
         \A m \in Kinds : Filed(m)' \subseteq Filed(m),
         what = "rejected" => i \notin Filed(k)'
  PROVE  /\ outcomes' = [m \in Kinds |-> [j \in InviteIds |-> outcomes'[m][j]]]
         /\ \A m \in Kinds : AnswersOK(m)'
<1> DEFINE s == outcomes[k][i]
           new == Append(s, what)
<1>1. /\ outcomes = [m \in Kinds |-> [j \in InviteIds |-> outcomes[m][j]]]
      /\ \A m \in Kinds : AnswersOK(m)
  BY DEF InviteInv
<1>2. outcomes' = [outcomes EXCEPT ![k] = [outcomes[k] EXCEPT ![i] = new]]
  BY DEF Told
<1>3. outcomes[k] = [j \in InviteIds |-> outcomes[k][j]] /\ DOMAIN outcomes = Kinds
  BY <1>1
<1>4. /\ outcomes'[k][i] = new
      /\ \A m \in Kinds, j \in InviteIds : m # k \/ j # i => outcomes'[m][j] = outcomes[m][j]
  BY <1>2, <1>3
<1>5. outcomes' = [m \in Kinds |-> [j \in InviteIds |-> outcomes'[m][j]]]
  <2>1. outcomes'[k] = [j \in InviteIds |-> outcomes'[k][j]]
    BY <1>2, <1>3
  <2>2. \A m \in Kinds : m # k => outcomes'[m] = outcomes[m]
    BY <1>2, <1>3
  <2>3. \A m \in Kinds : outcomes'[m] = [j \in InviteIds |-> outcomes'[m][j]]
    BY <1>1, <2>1, <2>2
  <2>4. DOMAIN outcomes' = Kinds /\ outcomes' = [m \in Kinds |-> outcomes'[m]]
    BY <1>1, <1>2
  <2> QED BY <2>3, <2>4
<1>6. s \in Seq(Answers) /\ \A n \in DOMAIN s : s[n] # "rejected"
  BY <1>1 DEF AnswersOK
<1>7. /\ new \in Seq(Answers) /\ Len(s) \in Nat /\ Len(new) = Len(s) + 1
      /\ DOMAIN s = 1..Len(s) /\ DOMAIN new = 1..Len(s) + 1
      /\ \A n \in 1..Len(s) : new[n] = s[n]
      /\ new[Len(s) + 1] = what
  BY <1>6, AppendProperties, LenProperties
<1>8. i < nextInvite[k]
  BY DEF InviteInv, ListOK, Filed
<1> HIDE DEF s, new
<1>9. \A n \in DOMAIN new : new[n] = "rejected" => n = Len(new) /\ what = "rejected"
  <2> SUFFICES ASSUME NEW n \in DOMAIN new, new[n] = "rejected" PROVE n = Len(new) /\ what = "rejected"
    OBVIOUS
  <2>1. n \notin 1..Len(s)
    BY <1>6, <1>7
  <2>2. n = Len(s) + 1
    BY <1>7, <2>1
  <2> QED BY <1>7, <2>2
<1>10. nextInvite[k] \in Nat /\ i \in Nat /\ ~(i >= nextInvite[k])
  BY <1>8, InvitesAssumption DEF InviteInv, InvitesAssumption, InviteIds
<1>11. ASSUME NEW m \in Kinds PROVE AnswersOK(m)'
  <2> SUFFICES ASSUME NEW j \in InviteIds
               PROVE  /\ outcomes'[m][j] \in Seq(Answers)
                      /\ \A n \in DOMAIN outcomes'[m][j] :
                           outcomes'[m][j][n] = "rejected" => n = Len(outcomes'[m][j]) /\ j \notin Filed(m)'
                      /\ j >= nextInvite'[m] => outcomes'[m][j] = <<>>
    BY DEF AnswersOK, InviteIds
  <2>1. CASE m = k /\ j = i
    BY <1>4, <1>7, <1>9, <1>10, <2>1
  <2>2. CASE m # k \/ j # i
    <3>1. outcomes'[m][j] = outcomes[m][j]
      BY <1>4, <2>2
    <3>2. j \notin Filed(m) => j \notin Filed(m)'
      OBVIOUS
    <3> QED BY <1>1, <3>1, <3>2 DEF AnswersOK
  <2> QED BY <2>1, <2>2
<1> QED BY <1>5, <1>11

\* The list without an invite.
LEMMA InviteTaken ==
  ASSUME InviteInv, NEW k \in Kinds, NEW i, invites' = Without(k, i), UNCHANGED nextInvite
  PROVE  /\ DOMAIN invites' = Kinds /\ invites' = [m \in Kinds |-> invites'[m]]
         /\ \A m \in Kinds : ListOK(m)' /\ Filed(m)' \subseteq Filed(m)
         /\ i \notin Filed(k)'
<1> DEFINE old == invites[k]
           I == {n \in DOMAIN old : old[n].id # i}
           new == Picked(old, I)
<1>1. DOMAIN invites = Kinds /\ invites = [m \in Kinds |-> invites[m]] /\ \A m \in Kinds : ListOK(m)
  BY DEF InviteInv
<1>2. invites' = [invites EXCEPT ![k] = new]
  BY DEF Without
<1>3. old \in Seq(InviteRecords) /\ I \in SUBSET DOMAIN old
  BY <1>1 DEF ListOK
<1>4. new \in Seq(InviteRecords)
  BY <1>3, PickedIsSeq
<1>5. /\ DOMAIN new = 1..Cardinality(I)
      /\ \A n \in 1..Cardinality(I) : Place(I, n) \in I /\ new[n] = old[Place(I, n)]
      /\ \A m, n \in 1..Cardinality(I) : Place(I, m) = Place(I, n) => m = n
  BY <1>3, PickedPlaces
<1>6. \A n \in I : n \in DOMAIN old /\ old[n].id # i
  OBVIOUS
<1>7. /\ \A n \in DOMAIN old : old[n].id < nextInvite[k]
      /\ \A m, n \in DOMAIN old : old[m].id = old[n].id => m = n
  BY <1>1 DEF ListOK
<1> HIDE DEF old, I, new
<1>8. invites'[k] = new /\ \A m \in Kinds : m # k => invites'[m] = invites[m]
  BY <1>1, <1>2
<1>9. DOMAIN invites' = Kinds /\ invites' = [m \in Kinds |-> invites'[m]]
  BY <1>1, <1>2
<1>10. ListOK(k)'
  <2>1. \A n \in DOMAIN new : new[n].id < nextInvite[k]
    BY <1>5, <1>6, <1>7
  <2>2. \A m, n \in DOMAIN new : new[m].id = new[n].id => m = n
    BY <1>5, <1>6, <1>7
  <2> QED BY <1>4, <1>8, <2>1, <2>2 DEF ListOK
<1>11. ASSUME NEW m \in Kinds PROVE ListOK(m)' /\ Filed(m)' \subseteq Filed(m)
  <2>1. CASE m = k
    <3>1. Filed(k)' = {new[n].id : n \in DOMAIN new} /\ Filed(k) = {old[n].id : n \in DOMAIN old}
      BY <1>8 DEF Filed, old
    <3> QED BY <1>5, <1>6, <1>10, <2>1, <3>1
  <2>2. CASE m # k
    BY <1>1, <1>8, <2>2 DEF ListOK, Filed
  <2> QED BY <2>1, <2>2
<1>12. i \notin Filed(k)'
  <2>1. Filed(k)' = {new[n].id : n \in DOMAIN new}
    BY <1>8 DEF Filed
  <2> QED BY <1>5, <1>6, <2>1
<1> QED BY <1>9, <1>11, <1>12

\* The answers stay when the list loses invites.
LEMMA AnswersStay ==
  ASSUME InviteInv, UNCHANGED <<nextInvite, outcomes>>, \A m \in Kinds : Filed(m)' \subseteq Filed(m)
  PROVE  /\ outcomes' = [m \in Kinds |-> [j \in InviteIds |-> outcomes'[m][j]]]
         /\ \A m \in Kinds : AnswersOK(m)'
<1>1. ASSUME NEW m \in Kinds PROVE AnswersOK(m)'
  <2>1. AnswersOK(m) /\ Filed(m)' \subseteq Filed(m)
    BY DEF InviteInv
  <2> QED BY <2>1 DEF AnswersOK
<1> QED BY <1>1 DEF InviteInv

\* An invite is rejected, by the game or by a click.
LEMMA InviteRejected ==
  ASSUME InviteInv, NEW k \in Kinds, NEW i,
         invites' = Without(k, i),
         outcomes' = IF i \in Filed(k) THEN Told(k, i, "rejected") ELSE outcomes,
         UNCHANGED <<nextInvite, arriving, uiEvents, nextUiEvent>>
  PROVE  InviteInv'
<1>1. /\ DOMAIN invites' = Kinds /\ invites' = [m \in Kinds |-> invites'[m]]
      /\ \A m \in Kinds : ListOK(m)' /\ Filed(m)' \subseteq Filed(m)
      /\ i \notin Filed(k)'
  BY InviteTaken
<1>2. /\ outcomes' = [m \in Kinds |-> [j \in InviteIds |-> outcomes'[m][j]]]
      /\ \A m \in Kinds : AnswersOK(m)'
  <2>1. CASE i \in Filed(k)
    <3>1. i \in InviteIds
      <4>1. invites[k] \in Seq(InviteRecords)
        BY DEF InviteInv, ListOK
      <4>2. \A n \in DOMAIN invites[k] : invites[k][n] \in InviteRecords
        BY <4>1, LenProperties, ElementOfSeq
      <4> QED BY <2>1, <4>2 DEF Filed, InviteRecords
    <3>2. "rejected" \in Answers /\ outcomes' = Told(k, i, "rejected")
      BY <2>1 DEF Answers
    <3> QED BY <1>1, <2>1, <3>1, <3>2, InviteAnswered
  <2>2. CASE i \notin Filed(k)
    BY <1>1, <2>2, AnswersStay
  <2> QED BY <2>1, <2>2
<1>3. UiEventsOK'
  BY DEF InviteInv, UiEventsOK
<1> QED BY <1>1, <1>2, <1>3 DEF InviteInv

\* An invite is accepted, by a click or automatically; it stays filed.
LEMMA InviteAccepted ==
  ASSUME InviteInv, NEW k \in Kinds, NEW i,
         outcomes' = IF i \in Filed(k) THEN Told(k, i, "accepted") ELSE outcomes,
         UNCHANGED <<invites, nextInvite, arriving, uiEvents, nextUiEvent>>
  PROVE  InviteInv'
<1>1. \A m \in Kinds : ListOK(m)' /\ Filed(m)' = Filed(m)
  BY DEF InviteInv, ListOK, Filed
<1>2. /\ outcomes' = [m \in Kinds |-> [j \in InviteIds |-> outcomes'[m][j]]]
      /\ \A m \in Kinds : AnswersOK(m)'
  <2>1. CASE i \in Filed(k)
    <3>1. i \in InviteIds
      <4>1. invites[k] \in Seq(InviteRecords)
        BY DEF InviteInv, ListOK
      <4>2. \A n \in DOMAIN invites[k] : invites[k][n] \in InviteRecords
        BY <4>1, LenProperties, ElementOfSeq
      <4> QED BY <2>1, <4>2 DEF Filed, InviteRecords
    <3>2. "accepted" \in Answers /\ "accepted" # "rejected" /\ outcomes' = Told(k, i, "accepted")
      BY <2>1 DEF Answers
    <3> QED BY <1>1, <2>1, <3>1, <3>2, InviteAnswered
  <2>2. CASE i \notin Filed(k)
    BY <1>1, <2>2, AnswersStay
  <2> QED BY <2>1, <2>2
<1>3. UiEventsOK'
  BY DEF InviteInv, UiEventsOK
<1> QED BY <1>1, <1>2, <1>3 DEF InviteInv

\* The receive thread files an invite under a fresh id.
LEMMA InviteFiled ==
  ASSUME InviteInv, NEW k \in Kinds, NEW g \in Games, FileInvite(k, g)
  PROVE  InviteInv'
<1> DEFINE old == invites[k]
           id == nextInvite[k]
           r == [id |-> id, game |-> g]
           new == Append(old, r)
<1>1. /\ DOMAIN invites = Kinds /\ invites = [m \in Kinds |-> invites[m]]
      /\ nextInvite \in [Kinds \cup {"custom"} -> 1..MaxInvites + 1] /\ MaxInvites \in Nat
      /\ \A m \in Kinds : ListOK(m) /\ AnswersOK(m)
  BY InvitesAssumption DEF InviteInv, InvitesAssumption
<1>2. /\ invites' = [invites EXCEPT ![k] = new] /\ nextInvite' = [nextInvite EXCEPT ![k] = id + 1]
      /\ id <= MaxInvites /\ arriving' = k
      /\ UNCHANGED <<uiEvents, nextUiEvent, outcomes>>
  BY DEF FileInvite
<1>3. id \in InviteIds /\ id \in Nat /\ id + 1 \in 1..MaxInvites + 1
  BY <1>1, <1>2 DEF InviteIds
<1>4. old \in Seq(InviteRecords) /\ r \in InviteRecords
  BY <1>1, <1>3 DEF ListOK, InviteRecords
<1>5. /\ new \in Seq(InviteRecords) /\ Len(old) \in Nat
      /\ DOMAIN old = 1..Len(old) /\ DOMAIN new = 1..Len(old) + 1
      /\ \A n \in 1..Len(old) : new[n] = old[n]
      /\ new[Len(old) + 1] = r /\ r.id = id
  BY <1>4, AppendProperties, LenProperties
<1>6. /\ \A n \in DOMAIN old : old[n].id < id
      /\ \A m, n \in DOMAIN old : old[m].id = old[n].id => m = n
      /\ \A n \in DOMAIN old : old[n].id \in Nat
  <2>1. \A n \in DOMAIN old : old[n] \in InviteRecords
    BY <1>4, LenProperties, ElementOfSeq
  <2> QED BY <1>1, <2>1 DEF ListOK, InviteRecords, InviteIds
<1> HIDE DEF r, new, id
<1>7. \A n \in DOMAIN new : n \in DOMAIN old \/ n = Len(old) + 1
  BY <1>5
<1>8. ListOK(k)'
  <2>1. invites'[k] = new /\ nextInvite'[k] = id + 1
    BY <1>1, <1>2
  <2>2. \A n \in DOMAIN new : new[n].id < id + 1
    BY <1>3, <1>5, <1>6, <1>7
  <2>3. \A m, n \in DOMAIN new : new[m].id = new[n].id => m = n
    BY <1>3, <1>5, <1>6, <1>7
  <2> QED BY <1>5, <2>1, <2>2, <2>3 DEF ListOK
<1>9. /\ Filed(k)' = Filed(k) \cup {id} /\ \A m \in Kinds : m # k => ListOK(m)' /\ Filed(m)' = Filed(m)
  <2>1. invites'[k] = new /\ Filed(k)' = {new[n].id : n \in DOMAIN new}
    BY <1>1, <1>2 DEF Filed
  <2>2. Filed(k) = {old[n].id : n \in DOMAIN old}
    BY DEF Filed
  <2>3. Len(old) + 1 \in DOMAIN new /\ DOMAIN old \subseteq DOMAIN new
    BY <1>5
  <2>4. Filed(k)' = Filed(k) \cup {id}
    BY <1>5, <1>7, <2>1, <2>2, <2>3
  <2>5. ASSUME NEW m \in Kinds, m # k PROVE ListOK(m)' /\ Filed(m)' = Filed(m)
    <3>1. invites'[m] = invites[m] /\ nextInvite'[m] = nextInvite[m]
      BY <1>1, <1>2, <2>5
    <3> QED BY <1>1, <3>1 DEF ListOK, Filed
  <2> QED BY <2>4, <2>5
<1>10. ASSUME NEW m \in Kinds PROVE AnswersOK(m)'
  <2> SUFFICES ASSUME NEW j \in InviteIds
               PROVE  /\ outcomes[m][j] \in Seq(Answers)
                      /\ \A n \in DOMAIN outcomes[m][j] :
                           outcomes[m][j][n] = "rejected" => n = Len(outcomes[m][j]) /\ j \notin Filed(m)'
                      /\ j >= nextInvite'[m] => outcomes[m][j] = <<>>
    BY <1>2 DEF AnswersOK, InviteIds
  <2>1. /\ outcomes[m][j] \in Seq(Answers)
        /\ \A n \in DOMAIN outcomes[m][j] :
             outcomes[m][j][n] = "rejected" => n = Len(outcomes[m][j]) /\ j \notin Filed(m)
        /\ j >= nextInvite[m] => outcomes[m][j] = <<>>
    BY <1>1 DEF AnswersOK
  <2>2. nextInvite[m] \in Nat /\ j \in Nat
    BY <1>1 DEF InviteIds
  <2>3. CASE m # k
    <3>1. nextInvite'[m] = nextInvite[m] /\ Filed(m)' = Filed(m)
      BY <1>1, <1>2, <1>9, <2>3
    <3> QED BY <2>1, <3>1
  <2>4. CASE m = k /\ j = id
    <3>1. outcomes[m][j] = <<>>
      BY <2>1, <2>2, <2>4 DEF id
    <3>2. DOMAIN <<>> = {}
      OBVIOUS
    <3> QED BY <2>1, <3>1, <3>2
  <2>5. CASE m = k /\ j # id
    <3>1. nextInvite'[m] = id + 1 /\ nextInvite[m] = id /\ Filed(m)' = Filed(m) \cup {id}
      BY <1>1, <1>2, <1>9, <2>5 DEF id
    <3>2. j >= id + 1 => j >= id
      BY <1>3, <2>2
    <3> QED BY <2>1, <2>5, <3>1, <3>2
  <2> QED BY <2>3, <2>4, <2>5
<1>11. nextInvite' \in [Kinds \cup {"custom"} -> 1..MaxInvites + 1]
  BY <1>1, <1>2, <1>3
<1>12. DOMAIN invites' = Kinds /\ invites' = [m \in Kinds |-> invites'[m]]
  BY <1>1, <1>2
<1>13. UiEventsOK'
  BY <1>2 DEF InviteInv, UiEventsOK
<1>14. \A m \in Kinds : ListOK(m)'
  BY <1>8, <1>9
<1>15. outcomes' = [m \in Kinds |-> [j \in InviteIds |-> outcomes'[m][j]]]
  BY <1>2 DEF InviteInv
<1> QED BY <1>2, <1>10, <1>11, <1>12, <1>13, <1>14, <1>15 DEF InviteInv

\* A custom invite takes an id and is not filed.
LEMMA CustomInviteFiled ==
  ASSUME InviteInv, FileCustomInvite
  PROVE  InviteInv'
<1> DEFINE id == nextInvite["custom"]
<1>1. /\ nextInvite \in [Kinds \cup {"custom"} -> 1..MaxInvites + 1] /\ MaxInvites \in Nat
      /\ nextInvite' = [nextInvite EXCEPT !["custom"] = id + 1] /\ id <= MaxInvites
      /\ arriving' = "custom" /\ UNCHANGED <<invites, uiEvents, nextUiEvent, outcomes>>
  BY InvitesAssumption DEF InviteInv, InvitesAssumption, FileCustomInvite
<1>2. id + 1 \in 1..MaxInvites + 1
  BY <1>1
<1> HIDE DEF id
<1>3. /\ nextInvite' \in [Kinds \cup {"custom"} -> 1..MaxInvites + 1]
      /\ \A k \in Kinds : nextInvite'[k] = nextInvite[k]
  BY <1>1, <1>2 DEF Kinds
<1> QED BY <1>1, <1>3 DEF InviteInv, UiEventsOK, ListOK, AnswersOK, Filed

\* The record of a join waits under a fresh event id, until it is acknowledged.
LEMMA JoinBegun ==
  ASSUME InviteInv, NEW k \in Kinds, NEW g, BeginJoinFromOverlay(k, g)
  PROVE  InviteInv'
<1>1. UNCHANGED <<invites, nextInvite, arriving, outcomes>>
  BY DEF BeginJoinFromOverlay
<1>2. CASE known[k][g] = "none"
  BY <1>1, <1>2, InvitesStay DEF BeginJoinFromOverlay
<1>3. CASE known[k][g] # "none"
  <2> DEFINE e == nextUiEvent
  <2>1. uiEvents' = [uiEvents EXCEPT ![k] = @ \cup {e}] /\ nextUiEvent' = e + 1
    BY <1>3 DEF BeginJoinFromOverlay, NextUiEventId
  <2>2. /\ e \in Nat \ {0} /\ uiEvents \in [Kinds -> SUBSET (1..e - 1)]
        /\ uiEvents["lobby"] \cap uiEvents["session"] = {}
    BY DEF InviteInv, UiEventsOK
  <2>3. e + 1 \in Nat \ {0} /\ (e + 1) - 1 = e /\ 1..e - 1 \subseteq 1..e /\ e \in 1..e /\ e \notin 1..e - 1
    BY <2>2
  <2> HIDE DEF e
  <2>4. uiEvents' \in [Kinds -> SUBSET (1..e)]
    BY <2>1, <2>2, <2>3
  <2>5. uiEvents'["lobby"] \cap uiEvents'["session"] = {}
    <3>1. e \notin uiEvents["lobby"] /\ e \notin uiEvents["session"]
      BY <2>2, <2>3 DEF Kinds
    <3> QED BY <2>1, <2>2, <3>1 DEF Kinds
  <2>6. UiEventsOK'
    BY <2>1, <2>3, <2>4, <2>5 DEF UiEventsOK
  <2> QED BY <1>1, <2>6 DEF InviteInv, ListOK, AnswersOK, Filed
<1> QED BY <1>2, <1>3

\* The game acknowledges an event of the overlay.
LEMMA EventAcknowledged ==
  ASSUME InviteInv, NEW e, AcknowledgeEventId(e)
  PROVE  InviteInv'
<1>1. /\ uiEvents' = [k \in Kinds |-> uiEvents[k] \ {e}]
      /\ UNCHANGED <<invites, nextInvite, arriving, nextUiEvent, outcomes>>
  BY DEF AcknowledgeEventId
<1>2. UiEventsOK'
  BY <1>1 DEF InviteInv, UiEventsOK, Kinds
<1> QED BY <1>1, <1>2 DEF InviteInv, ListOK, AnswersOK, Filed

---------------------------------------------------------------------------
(* The rows of the overlay, and what is done with them.                    *)

InviteRowSet(k) == [row : {"invite"}, kind : {k}, id : InviteIds]
JoinRowSet(k) == [row : {"join"}, kind : {k}, id : Games]
AllRows == [row : {"invite"}, kind : Kinds, id : InviteIds] \cup [row : {"join"}, kind : Kinds, id : Games]
RowActions == [row : AllRows, action : {"Accept", "Reject", "Join"}]

RowsInv ==
  /\ handled \in Seq(AllRows) /\ IsInjective(handled)
  /\ rows \subseteq AllRows /\ drawn \subseteq AllRows
  /\ clicks \in Seq(RowActions) /\ actions \in Seq(RowActions)

\* A step that leaves the rows and the clicks.
LEMMA RowsStay ==
  ASSUME RowsInv, UNCHANGED socialVars
  PROVE  RowsInv'
BY DEF RowsInv, socialVars

\* The four lists that AutoRows is made of.
LEMMA RowLists ==
  ASSUME InviteInv, GameTypes, NEW k \in Kinds
  PROVE  /\ InviteRows(k) \in Seq(AllRows) /\ IsInjective(InviteRows(k))
         /\ ToSet(InviteRows(k)) \subseteq InviteRowSet(k)
         /\ JoinRows(k) \in Seq(AllRows) /\ IsInjective(JoinRows(k))
         /\ ToSet(JoinRows(k)) \subseteq JoinRowSet(k)
<1> DEFINE old == invites[k]
           I == {n \in DOMAIN old : old[n].game \notin joined[k]}
           snap == SnapshotInvites(k)
           new == [n \in DOMAIN snap |-> InviteRow(k, snap[n].id)]
           J == {JoinRow(k, g) : g \in SnapshotJoinable(k)}
           N == Cardinality(I)
<1>1. old \in Seq(InviteRecords) /\ I \in SUBSET DOMAIN old /\ snap = Picked(old, I)
  BY DEF InviteInv, ListOK, SnapshotInvites
<1>2. \A m, n \in DOMAIN old : old[m].id = old[n].id => m = n
  BY DEF InviteInv, ListOK
<1>7. I \subseteq DOMAIN old
  BY <1>1
<1> HIDE DEF old, I, snap
<1>3. /\ snap \in Seq(InviteRecords)
      /\ DOMAIN snap = 1..N
      /\ \A n \in 1..N : Place(I, n) \in I /\ snap[n] = old[Place(I, n)]
      /\ \A m, n \in 1..N : Place(I, m) = Place(I, n) => m = n
  BY <1>1, PickedIsSeq, PickedPlaces
<1>4. N \in Nat
  <2>1. Len(snap) \in Nat /\ DOMAIN snap = 1..Len(snap)
    BY <1>3, LenProperties
  <2>2. IsFiniteSet(DOMAIN old)
    BY <1>1, LenProperties, FS_Interval
  <2> QED BY <1>1, <2>2, FS_Subset, FS_CardinalityType
<1>5. InviteRows(k) = new
  BY DEF InviteRows, snap
<1>6. \A n \in 1..N : snap[n] \in InviteRecords /\ snap[n].id \in InviteIds
  <2>1. \A n \in DOMAIN old : old[n] \in InviteRecords
    BY <1>1, LenProperties, ElementOfSeq
  <2>2. \A n \in 1..N : snap[n] \in InviteRecords
    BY <1>3, <1>7, <2>1
  <2> QED BY <2>2 DEF InviteRecords
<1> HIDE DEF N
<1>8. \A i \in InviteIds : InviteRow(k, i) \in AllRows /\ InviteRow(k, i) \in InviteRowSet(k)
  BY DEF InviteRow, AllRows, InviteRowSet
<1>9. \A i, j : InviteRow(k, i) = InviteRow(k, j) => i = j
  BY DEF InviteRow
<1>10. DOMAIN new = 1..N /\ \A n \in 1..N : new[n] = InviteRow(k, snap[n].id)
  BY <1>3
<1>11. new \in [1..N -> AllRows]
  BY <1>3, <1>6, <1>8
<1>12. new \in Seq(AllRows)
  BY <1>4, <1>11, SeqDef
<1> HIDE DEF new
<1>13. IsInjective(new)
  <2> SUFFICES ASSUME NEW m \in 1..N, NEW n \in 1..N, new[m] = new[n] PROVE m = n
    BY <1>10 DEF IsInjective
  <2>1. snap[m].id = snap[n].id
    BY <1>9, <1>10
  <2>2. old[Place(I, m)].id = old[Place(I, n)].id
    BY <1>3, <2>1
  <2> QED BY <1>2, <1>3, <1>7, <2>2
<1>14. ToSet(new) \subseteq InviteRowSet(k)
  BY <1>6, <1>8, <1>10 DEF ToSet
<1>15. IsFiniteSet(J)
  <2>1. SnapshotJoinable(k) \subseteq Games
    BY DEF SnapshotJoinable
  <2>2. IsFiniteSet(SnapshotJoinable(k))
    BY <2>1, InvitesAssumption, FS_Subset DEF InvitesAssumption
  <2> DEFINE S == SnapshotJoinable(k)
             f == [g \in S |-> JoinRow(k, g)]
  <2>3. f \in Surjection(S, J)
    BY DEF Surjection
  <2> HIDE DEF f
  <2> QED BY <2>2, <2>3, FS_Surjection
<1>16. J \subseteq JoinRowSet(k) /\ J \subseteq AllRows
  BY DEF JoinRow, JoinRowSet, AllRows, SnapshotJoinable
<1>17. JoinRows(k) = SetToSeq(J)
  BY DEF JoinRows
<1> HIDE DEF J
<1>18. SetToSeq(J) \in Seq(J) /\ IsInjective(SetToSeq(J)) /\ ToSet(SetToSeq(J)) = J
  BY <1>15, ListOfSet, ListHasAll
<1>19. SetToSeq(J) \in Seq(AllRows)
  BY <1>16, <1>18, LenProperties, ElementOfSeq, SeqDef
<1> QED BY <1>5, <1>12, <1>13, <1>14, <1>16, <1>17, <1>18, <1>19

\* No row is twice among the automatic ones.
LEMMA AutoRowsDiffer ==
  ASSUME InviteInv, GameTypes
  PROVE  AutoRows \in Seq(AllRows) /\ IsInjective(AutoRows)
<1> DEFINE il == InviteRows("lobby")
           is == InviteRows("session")
           jl == JoinRows("lobby")
           js == JoinRows("session")
           a == IF AutoAccept THEN il \o is ELSE <<>>
           c == IF AutoJoin THEN jl \o js ELSE <<>>
           Is == InviteRowSet("lobby") \cup InviteRowSet("session")
           Js == JoinRowSet("lobby") \cup JoinRowSet("session")
<1>1. "lobby" \in Kinds /\ "session" \in Kinds
  BY DEF Kinds
<1>2. /\ il \in Seq(AllRows) /\ IsInjective(il) /\ ToSet(il) \subseteq InviteRowSet("lobby")
      /\ is \in Seq(AllRows) /\ IsInjective(is) /\ ToSet(is) \subseteq InviteRowSet("session")
      /\ jl \in Seq(AllRows) /\ IsInjective(jl) /\ ToSet(jl) \subseteq JoinRowSet("lobby")
      /\ js \in Seq(AllRows) /\ IsInjective(js) /\ ToSet(js) \subseteq JoinRowSet("session")
  BY <1>1, RowLists
<1>3. /\ InviteRowSet("lobby") \cap InviteRowSet("session") = {}
      /\ JoinRowSet("lobby") \cap JoinRowSet("session") = {}
      /\ Is \cap Js = {}
  BY DEF InviteRowSet, JoinRowSet
<1> HIDE DEF il, is, jl, js
<1>4. <<>> \in Seq(AllRows) /\ IsInjective(<<>>) /\ ToSet(<<>>) = {}
  BY EmptySeq DEF IsInjective, ToSet
<1>5. il \o is \in Seq(AllRows) /\ IsInjective(il \o is) /\ ToSet(il \o is) \subseteq Is
  BY <1>2, <1>3, ConcatInjective, ConcatRoster
<1>6. jl \o js \in Seq(AllRows) /\ IsInjective(jl \o js) /\ ToSet(jl \o js) \subseteq Js
  BY <1>2, <1>3, ConcatInjective, ConcatRoster
<1> HIDE DEF Is, Js
<1>7. a \in Seq(AllRows) /\ IsInjective(a) /\ ToSet(a) \subseteq Is
  BY <1>4, <1>5
<1>8. c \in Seq(AllRows) /\ IsInjective(c) /\ ToSet(c) \subseteq Js
  BY <1>4, <1>6
<1>9. AutoRows = a \o c
  BY DEF AutoRows, il, is, jl, js
<1> HIDE DEF a, c
<1>10. ToSet(a) \cap ToSet(c) = {}
  BY <1>3, <1>7, <1>8
<1> QED BY <1>7, <1>8, <1>9, <1>10, ConcatInjective, ConcatRoster

\* PumpSocial acts on no row twice.
LEMMA SocialIsPumped ==
  ASSUME InviteInv, GameTypes, RowsInv, PumpSocial
  PROVE  RowsInv'
<1> DEFINE auto == AutoRows
           I == {n \in DOMAIN auto : auto[n] \notin ToSet(handled)}
           new == Picked(auto, I)
           N == Cardinality(I)
           acts == [i \in DOMAIN new |-> Automatic(new[i])]
<1>1. auto \in Seq(AllRows) /\ IsInjective(auto)
  BY AutoRowsDiffer
<1>2. NewRows = new
  BY DEF NewRows
<1> HIDE DEF auto
<1>4. \A n \in I : n \in DOMAIN auto /\ auto[n] \notin ToSet(handled)
  OBVIOUS
<1>0. I \in SUBSET DOMAIN auto
  OBVIOUS
<1> HIDE DEF I
<1>3. /\ new \in Seq(AllRows) /\ DOMAIN new = 1..N
      /\ \A n \in 1..N : Place(I, n) \in I /\ new[n] = auto[Place(I, n)]
      /\ \A m, n \in 1..N : Place(I, m) = Place(I, n) => m = n
  BY <1>0, <1>1, PickedIsSeq, PickedPlaces
<1> HIDE DEF new, N
<1>5. IsInjective(new)
  BY <1>1, <1>3, <1>4 DEF IsInjective
<1>6. ToSet(handled) \cap ToSet(new) = {}
  <2>1. \A n \in 1..N : new[n] \notin ToSet(handled)
    BY <1>3, <1>4
  <2>2. ToSet(new) = {new[n] : n \in 1..N}
    BY <1>3 DEF ToSet
  <2> QED BY <2>1, <2>2
<1>7. handled' \in Seq(AllRows) /\ IsInjective(handled')
  BY <1>2, <1>3, <1>5, <1>6, ConcatInjective, ConcatProperties DEF RowsInv, PumpSocial
<1>8. acts \in Seq(RowActions)
  <2>1. Len(new) \in Nat /\ DOMAIN new = 1..Len(new) /\ \A n \in 1..Len(new) : new[n] \in AllRows
    BY <1>3, LenProperties, ElementOfSeq
  <2>2. \A row \in AllRows : Automatic(row) \in RowActions
    BY DEF Automatic, RowActions
  <2>3. acts \in [1..Len(new) -> RowActions]
    BY <2>1, <2>2
  <2> QED BY <2>1, <2>3, SeqDef
<1>9. <<>> \in Seq(RowActions) /\ clicks \in Seq(RowActions)
  BY EmptySeq DEF RowsInv
<1>10. actions' \in Seq(RowActions)
  <2>1. actions' = (IF Available THEN clicks ELSE <<>>) \o acts
    BY <1>2 DEF PumpSocial
  <2> HIDE DEF acts
  <2> QED BY <1>8, <1>9, <2>1, ConcatProperties
<1>11. clicks' \in Seq(RowActions)
  BY <1>9 DEF PumpSocial
<1>12. rows' \subseteq AllRows /\ drawn' \subseteq AllRows
  <2>1. \A k \in Kinds : ToSet(InviteRows(k)) \subseteq AllRows /\ ToSet(JoinRows(k)) \subseteq AllRows
    <3>1. \A s \in Seq(AllRows) : ToSet(s) \subseteq AllRows
      BY LenProperties, ElementOfSeq DEF ToSet
    <3> QED BY <3>1, RowLists
  <2>2. UNION {ToSet(InviteRows(k)) \cup ToSet(JoinRows(k)) : k \in Kinds} \subseteq AllRows
    BY <2>1
  <2> QED BY <2>2 DEF RowsInv, PumpSocial
<1> QED BY <1>7, <1>10, <1>11, <1>12 DEF RowsInv

\* The rows are drawn, and a button of one is clicked.
LEMMA RowDrawn ==
  ASSUME RowsInv,
         DrawSocialPanel \/ \E row \in drawn, action \in {"Accept", "Reject", "Join"} : QueueAction(row, action)
  PROVE  RowsInv'
<1>1. CASE DrawSocialPanel
  BY <1>1 DEF RowsInv, DrawSocialPanel
<1>2. ASSUME NEW row \in drawn, NEW action \in {"Accept", "Reject", "Join"}, QueueAction(row, action)
      PROVE  RowsInv'
  <2> DEFINE act == [row |-> row, action |-> action]
  <2>1. act \in RowActions
    BY DEF RowActions, RowsInv
  <2>2. clicks' = Append(clicks, act) /\ UNCHANGED <<handled, actions, rows, drawn>>
    BY <1>2 DEF QueueAction
  <2> HIDE DEF act
  <2>3. clicks' \in Seq(RowActions)
    BY <2>1, <2>2, AppendProperties DEF RowsInv
  <2> QED BY <2>2, <2>3 DEF RowsInv
<1> QED BY <1>1, <1>2

\* The first action goes to its interface.
LEMMA ActionIsRouted ==
  ASSUME InviteInv, RowsInv, RouteAction
  PROVE  InviteInv' /\ RowsInv' /\ UNCHANGED <<gameVars, delayed, ready, draining>>
         /\ (UNCHANGED pending \/ Post(<<Plain>>))
<1> DEFINE act == Head(actions)
           k == act.row.kind
           i == act.row.id
<1>1. actions # <<>> /\ actions \in Seq(RowActions) /\ actions' = Tail(actions)
  BY DEF RouteAction, RowsInv
<1>2. act \in RowActions /\ Tail(actions) \in Seq(RowActions)
  BY <1>1, HeadTailProperties
<1>3. RowsInv'
  BY <1>1, <1>2 DEF RowsInv, RouteAction
<1>4. k \in Kinds
  BY <1>2 DEF RowActions, AllRows
<1>5. \/ AcceptInviteFromOverlay(k, i) \/ RejectInviteFromOverlay(k, i) \/ BeginJoinFromOverlay(k, i)
  BY DEF RouteAction
<1> HIDE DEF act, k, i
<1>6. CASE AcceptInviteFromOverlay(k, i)
  <2>1. /\ outcomes' = IF i \in Filed(k) THEN Told(k, i, "accepted") ELSE outcomes
        /\ UNCHANGED <<gameVars, invites, nextInvite, arriving, uiEvents, nextUiEvent, delayed, ready, draining>>
        /\ UNCHANGED pending \/ Post(<<Plain>>)
    BY <1>6 DEF AcceptInviteFromOverlay
  <2>2. InviteInv'
    BY <1>4, <2>1, InviteAccepted
  <2> QED BY <1>3, <2>1, <2>2
<1>7. CASE RejectInviteFromOverlay(k, i)
  <2>1. /\ outcomes' = IF i \in Filed(k) THEN Told(k, i, "rejected") ELSE outcomes
        /\ invites' = Without(k, i)
        /\ UNCHANGED <<gameVars, nextInvite, arriving, uiEvents, nextUiEvent, delayed, ready, draining>>
        /\ UNCHANGED pending \/ Post(<<Plain>>)
    BY <1>7 DEF RejectInviteFromOverlay
  <2>2. InviteInv'
    BY <1>4, <2>1, InviteRejected
  <2> QED BY <1>3, <2>1, <2>2
<1>8. CASE BeginJoinFromOverlay(k, i)
  <2>1. InviteInv'
    BY <1>4, <1>8, JoinBegun
  <2>2. /\ UNCHANGED <<gameVars, delayed, ready, draining>> /\ (UNCHANGED pending \/ Post(<<Plain>>))
    BY <1>8 DEF BeginJoinFromOverlay
  <2> QED BY <1>3, <2>1, <2>2
<1> QED BY <1>5, <1>6, <1>7, <1>8

---------------------------------------------------------------------------
(* The switches of the overlay.                                            *)

Switches == <<visible, paused, wasVisible, toggleKey, threadVars>>

SwitchInv ==
  /\ visible \in BOOLEAN /\ paused \in BOOLEAN /\ wasVisible \in BOOLEAN
  /\ toggleKey \in Combos /\ IsValidKeyCombination(toggleKey)
  /\ thread \in {"off", "starting", "running"}
  /\ want \in BOOLEAN /\ exclusive \in BOOLEAN /\ closing \in BOOLEAN
  /\ request \in BOOLEAN \cup {Nothing} /\ polled \in BOOLEAN \cup {Nothing}
  /\ ShownIsVisible

\* The step posts nothing that anybody is told, or nothing at all.
Quiet == UNCHANGED <<delayed, ready, draining>> /\ (UNCHANGED pending \/ Post(<<Plain>>))

\* The observers, and what is owed to them.
Owed ==
  /\ notify \in BOOLEAN => notify' \in BOOLEAN
  /\ UNCHANGED <<last, toldDisplay>>
  /\ observers \subseteq Observers => observers' \subseteq Observers
  /\ notify' \/ (notify' = notify /\ observers' \subseteq observers)

\* A step that leaves the switches.
LEMMA SwitchesStay ==
  ASSUME SwitchInv, UNCHANGED Switches
  PROVE  SwitchInv'
BY DEF SwitchInv, Switches, threadVars, ShownIsVisible

\* A step that leaves the variables of the interface owes no announcement.
LEMMA OwedStays ==
  ASSUME UNCHANGED uiVars
  PROVE  Owed
BY DEF Owed, uiVars

\* SetVisibleInternal never leaves the overlay up and reported hidden.
LEMMA VisibilitySet ==
  ASSUME SwitchInv, NEW v \in BOOLEAN, SetVisibleInternal(v)
  PROVE  visible' \in BOOLEAN /\ want' \in BOOLEAN /\ ShownIsVisible'
BY DEF SwitchInv, SetVisibleInternal, ShownIsVisible

\* PauseSocialOverlay.
LEMMA PauseKeeps ==
  ASSUME SwitchInv, PauseSocialOverlay
  PROVE  SwitchInv' /\ Owed /\ Quiet /\ UNCHANGED <<socialVars, elsewhere>>
<1>1. /\ SetVisibleInternal(FALSE) /\ paused' = TRUE /\ wasVisible' = visible
      /\ UNCHANGED <<last, notify, observers, toldDisplay, toggleKey, socialVars,
                 thread, exclusive, request, hotkey, polled, closing, elsewhere, dispatchVars>>
  BY DEF PauseSocialOverlay
<1>2. visible' \in BOOLEAN /\ want' \in BOOLEAN /\ ShownIsVisible'
  BY <1>1, VisibilitySet
<1>3. SwitchInv'
  BY <1>1, <1>2 DEF SwitchInv
<1> QED BY <1>1, <1>3 DEF Owed, Quiet, dispatchVars

\* ResumeSocialOverlay.
LEMMA ResumeKeeps ==
  ASSUME SwitchInv, ResumeSocialOverlay
  PROVE  SwitchInv' /\ Owed /\ Quiet /\ UNCHANGED <<socialVars, elsewhere>>
<1>1. /\ SetVisibleInternal(TRUE) \/ UNCHANGED <<visible, want>>
      /\ paused' = FALSE /\ notify' = TRUE
      /\ UNCHANGED <<wasVisible, last, observers, toldDisplay, toggleKey, socialVars,
                 thread, exclusive, request, hotkey, polled, closing, elsewhere, dispatchVars>>
  BY DEF ResumeSocialOverlay
<1>2. visible' \in BOOLEAN /\ want' \in BOOLEAN /\ ShownIsVisible'
  <2>1. CASE SetVisibleInternal(TRUE)
    BY <2>1, VisibilitySet
  <2>2. CASE UNCHANGED <<visible, want>>
    BY <2>2 DEF SwitchInv, ShownIsVisible
  <2> QED BY <1>1, <2>1, <2>2
<1>3. SwitchInv'
  BY <1>1, <1>2 DEF SwitchInv
<1> QED BY <1>1, <1>3 DEF Owed, Quiet, dispatchVars

\* ShowFriends, HideFriends and the modals: the game shows the overlay or hides it.
LEMMA ShowKeeps ==
  ASSUME SwitchInv, ShowFriends \/ HideFriends \/ ShowPlayerModal
  PROVE  SwitchInv' /\ Owed /\ Quiet /\ UNCHANGED <<socialVars, elsewhere>>
<1>1. /\ SetVisibleInternal(TRUE) \/ SetVisibleInternal(FALSE) \/ UNCHANGED <<visible, want>>
      /\ wasVisible' = wasVisible \/ wasVisible' = (wasVisible \/ (Available /\ paused))
      /\ Post(<<Plain>>)
      /\ UNCHANGED <<paused, last, notify, observers, toldDisplay, toggleKey, socialVars,
                 thread, exclusive, request, hotkey, polled, closing, elsewhere,
                 delayed, ready, draining>>
  <2>1. CASE ShowFriends
    BY <2>1 DEF ShowFriends
  <2>2. CASE HideFriends
    BY <2>2 DEF HideFriends
  <2>3. CASE ShowPlayerModal
    BY <2>3 DEF ShowPlayerModal
  <2> QED BY <2>1, <2>2, <2>3
<1>2. visible' \in BOOLEAN /\ want' \in BOOLEAN /\ ShownIsVisible'
  <2>1. CASE SetVisibleInternal(TRUE)
    BY <2>1, VisibilitySet
  <2>2. CASE SetVisibleInternal(FALSE)
    BY <2>2, VisibilitySet
  <2>3. CASE UNCHANGED <<visible, want>>
    BY <2>3 DEF SwitchInv, ShownIsVisible
  <2> QED BY <1>1, <2>1, <2>2, <2>3
<1>3. wasVisible' \in BOOLEAN
  BY <1>1 DEF SwitchInv
<1>4. SwitchInv'
  BY <1>1, <1>2, <1>3 DEF SwitchInv
<1> QED BY <1>1, <1>4 DEF Owed, Quiet

\* The other calls of the game.
LEMMA SettingsKeep ==
  ASSUME SwitchInv,
         \/ \E o \in Observers :
              AddNotifyDisplaySettingsUpdated(o) \/ RemoveNotifyDisplaySettingsUpdated(o)
         \/ \E combo \in Combos : SetToggleKey(combo)
         \/ \E button, location : SetPreference(button, location)
  PROVE  SwitchInv' /\ Owed /\ Quiet /\ UNCHANGED <<socialVars, elsewhere>>
<1>1. ASSUME NEW o \in Observers,
             AddNotifyDisplaySettingsUpdated(o) \/ RemoveNotifyDisplaySettingsUpdated(o)
      PROVE  SwitchInv' /\ Owed /\ Quiet /\ UNCHANGED <<socialVars, elsewhere>>
  <2>1. /\ UNCHANGED <<visible, paused, wasVisible, last, toldDisplay, toggleKey, preferences,
                 socialVars, threadVars, elsewhere, dispatchVars>>
        /\ \/ observers' = observers \cup {o} /\ notify' = TRUE
           \/ observers' = observers \ {o} /\ notify' = notify
    BY <1>1 DEF AddNotifyDisplaySettingsUpdated, RemoveNotifyDisplaySettingsUpdated
  <2>2. SwitchInv'
    BY <2>1, SwitchesStay DEF Switches
  <2> QED BY <2>1, <2>2 DEF Owed, Quiet, dispatchVars
<1>2. ASSUME NEW combo \in Combos, SetToggleKey(combo)
      PROVE  SwitchInv' /\ Owed /\ Quiet /\ UNCHANGED <<socialVars, elsewhere>>
  <2>1. /\ UNCHANGED <<visible, paused, wasVisible, last, notify, observers, toldDisplay,
                 preferences, socialVars, threadVars, elsewhere, dispatchVars>>
        /\ combo = NoCombo \/ IsValidKeyCombination(combo)
        /\ toggleKey' = IF combo = NoCombo THEN DefaultToggle ELSE combo
    BY <1>2 DEF SetToggleKey
  <2>2. DefaultToggle \in Combos /\ IsValidKeyCombination(DefaultToggle)
    BY OverlayAssumption DEF OverlayAssumption
  <2>3. toggleKey' \in Combos /\ IsValidKeyCombination(toggleKey')
    BY <2>1, <2>2
  <2>4. SwitchInv'
    BY <2>1, <2>3 DEF SwitchInv, threadVars, ShownIsVisible, IsValidKeyCombination
  <2> QED BY <2>1, <2>4 DEF Owed, Quiet, dispatchVars
<1>3. ASSUME NEW button, NEW location, SetPreference(button, location)
      PROVE  SwitchInv' /\ Owed /\ Quiet /\ UNCHANGED <<socialVars, elsewhere>>
  <2>1. UNCHANGED <<visible, paused, wasVisible, last, notify, observers, toldDisplay,
                 toggleKey, socialVars, threadVars, elsewhere, dispatchVars>>
    BY <1>3 DEF SetPreference
  <2>2. SwitchInv'
    BY <2>1, SwitchesStay DEF Switches
  <2> QED BY <2>1, <2>2 DEF Owed, Quiet, dispatchVars
<1> QED BY <1>1, <1>2, <1>3

\* The calls of the UI interface.
LEMMA UICallsKeep ==
  ASSUME SwitchInv, UICalls
  PROVE  SwitchInv' /\ Owed /\ Quiet /\ UNCHANGED <<socialVars, elsewhere>>
BY PauseKeeps, ResumeKeeps, ShowKeeps, SettingsKeep DEF UICalls

\* The thread that renders, and the user at it.
LEMMA ThreadKeeps ==
  ASSUME SwitchInv,
         \/ ThreadStarts \/ (\E down \in BOOLEAN : PollHotkey(down)) \/ RequestToggle
         \/ CloseWindow \/ RequestHide \/ (\E front \in BOOLEAN : UpdateExclusive(front))
  PROVE  SwitchInv' /\ UNCHANGED <<uiVars, socialVars, elsewhere, dispatchVars>>
<1>1. CASE ThreadStarts
  BY <1>1 DEF ThreadStarts, SwitchInv, ShownIsVisible, uiVars
<1>2. ASSUME NEW down \in BOOLEAN, PollHotkey(down)
      PROVE  SwitchInv' /\ UNCHANGED <<uiVars, socialVars, elsewhere, dispatchVars>>
  <2>1. /\ polled' = IF down THEN ~want ELSE Nothing
        /\ UNCHANGED <<uiVars, socialVars, thread, want, exclusive, request, closing,
                 elsewhere, dispatchVars>>
    BY <1>2 DEF PollHotkey
  <2>2. polled' \in BOOLEAN \cup {Nothing}
    BY <2>1 DEF SwitchInv
  <2> QED BY <2>1, <2>2 DEF SwitchInv, ShownIsVisible, uiVars
<1>3. CASE RequestToggle
  BY <1>3 DEF RequestToggle, SwitchInv, ShownIsVisible, uiVars
<1>4. CASE CloseWindow
  BY <1>4 DEF CloseWindow, SwitchInv, ShownIsVisible, uiVars
<1>5. CASE RequestHide
  BY <1>5 DEF RequestHide, SwitchInv, ShownIsVisible, uiVars
<1>6. ASSUME NEW front \in BOOLEAN, UpdateExclusive(front)
      PROVE  SwitchInv' /\ UNCHANGED <<uiVars, socialVars, elsewhere, dispatchVars>>
  BY <1>6 DEF UpdateExclusive, SwitchInv, ShownIsVisible, uiVars
<1> QED BY <1>1, <1>2, <1>3, <1>4, <1>5, <1>6

\* Tick takes the request of the user.
LEMMA RequestConsumed ==
  ASSUME SwitchInv, ConsumeUserVisibilityRequest
  PROVE  SwitchInv' /\ Owed /\ UNCHANGED <<socialVars, elsewhere, dispatchVars>>
<1>1. /\ request # Nothing /\ request' = Nothing
      /\ SetVisibleInternal(request) \/ UNCHANGED <<visible, want>>
      /\ UNCHANGED <<paused, wasVisible, last, notify, observers, toldDisplay, toggleKey,
                 socialVars, thread, exclusive, hotkey, polled, closing, elsewhere, dispatchVars>>
  BY DEF ConsumeUserVisibilityRequest
<1>2. visible' \in BOOLEAN /\ want' \in BOOLEAN /\ ShownIsVisible'
  <2>1. CASE SetVisibleInternal(request)
    <3>1. request \in BOOLEAN
      BY <1>1 DEF SwitchInv
    <3> QED BY <2>1, <3>1, VisibilitySet
  <2>2. CASE UNCHANGED <<visible, want>>
    BY <2>2 DEF SwitchInv, ShownIsVisible
  <2> QED BY <1>1, <2>1, <2>2
<1>3. SwitchInv'
  BY <1>1, <1>2 DEF SwitchInv
<1> QED BY <1>1, <1>3 DEF Owed

---------------------------------------------------------------------------
(* The steps of the social interfaces.                                     *)

TickInv ==
  /\ stage \in {"game", "social", "route", "drain"} /\ calls \in 0..MaxCalls
  /\ notify \in BOOLEAN
  /\ stage # "route" => actions = <<>>
  /\ stage # "game" => ~draining

SocialInv ==
  /\ SocialQueueInv /\ RoomsInv /\ ShownInv /\ SwitchInv
  /\ GameTypes /\ InviteInv /\ RowsInv /\ TickInv

\* The initial states.
LEMMA SocialBegins == Init => SocialInv
<1> SUFFICES ASSUME Init PROVE SocialInv
  OBVIOUS
<1>0. DispatcherInit /\ InvitesInit /\ RTCInit /\ OverlayInit /\ stage = "game" /\ calls = 0
  BY DEF Init
<1>1. SocialQueueInv /\ Line = <<>> /\ draining = FALSE
  <2>1. \A S : <<>> \in Seq(S) /\ <<>> \o <<>> = <<>>
    BY EmptySeq, ConcatEmptySeq
  <2> QED BY <1>0, <2>1 DEF DispatcherInit, SocialQueueInv, QueueOf, Line
<1>2. GameTypes /\ InviteInv
  BY <1>0, InvitesBegin
<1>3. ToSet(<<>>) = {} /\ \A M, x : ~LastOf(<<>>, M, x)
  BY DEF ToSet, LastOf
<1>4. RoomsInv
  <2>1. RoomTypes
    BY <1>0 DEF RTCInit, RoomTypes, InRoom
  <2>2. \A r \in RoomNames, pid \in Pids : ~(pid \in reported[r]) /\ ~Present(r, pid)
    BY <1>0 DEF RTCInit, Present, InRoom
  <2> QED BY <1>1, <1>3, <2>1, <2>2 DEF RoomsInv, Believes
<1>5. ShownInv
  BY <1>0 DEF OverlayInit, ShownInv, ShownTypes, Display, Displays
<1>6. SwitchInv
  <2>1. DefaultToggle \in Combos /\ IsValidKeyCombination(DefaultToggle)
    BY OverlayAssumption DEF OverlayAssumption
  <2> QED BY <1>0, <2>1 DEF OverlayInit, SwitchInv, ShownIsVisible
<1>7. RowsInv
  <2>1. \A S : <<>> \in Seq(S)
    BY EmptySeq
  <2>2. IsInjective(<<>>)
    BY DEF IsInjective
  <2> QED BY <1>0, <2>1, <2>2 DEF OverlayInit, RowsInv
<1>8. TickInv
  <2>1. 0 \in 0..MaxCalls
    BY SocialAssumption DEF SocialAssumption
  <2>2. notify = FALSE /\ actions = <<>>
    BY <1>0 DEF OverlayInit
  <2> QED BY <1>0, <2>1, <2>2 DEF TickInv
<1> QED BY <1>1, <1>2, <1>4, <1>5, <1>6, <1>7, <1>8 DEF SocialInv

\* A quiet step leaves what the line makes believe.
LEMMA QuietLine ==
  ASSUME SocialQueueInv, Quiet
  PROVE  SocialQueueInv' /\ SameBeliefs(RoomTales) /\ SameBeliefs(DisplayTales) /\ draining' = draining
<1>1. UNCHANGED <<delayed, ready, draining>>
  BY DEF Quiet
<1>2. CASE UNCHANGED pending
  <2>1. Line' = Line /\ SocialQueueInv'
    BY <1>1, <1>2 DEF Line, SocialQueueInv, QueueOf
  <2> QED BY <1>1, <2>1, SameLineSameBeliefs
<1>3. CASE Post(<<Plain>>)
  BY <1>1, <1>3, PlainPosts
<1> QED BY <1>2, <1>3 DEF Quiet

\* A step beside the rooms.
LEMMA RoomsKept ==
  ASSUME RoomsInv, SameBeliefs(RoomTales), UNCHANGED <<rtcVars, roster>>
  PROVE  RoomsInv'
BY RoomsStay DEF RoomsInv, RoomTypes, rtcVars

\* A step beside the announcements.
LEMMA ShownKept ==
  ASSUME ShownInv, SameBeliefs(DisplayTales), Owed
  PROVE  ShownInv'
BY ShownStays DEF Owed, ShownInv, ShownTypes

\* A call is counted; Tick does not move.
LEMMA CallCounts ==
  ASSUME TickInv, Call, UNCHANGED actions, draining' = draining, notify' \in BOOLEAN
  PROVE  TickInv'
<1>1. calls < MaxCalls /\ calls' = calls + 1 /\ stage' = stage /\ calls \in 0..MaxCalls /\ MaxCalls \in Nat
  BY SocialAssumption DEF Call, TickInv, SocialAssumption
<1>2. calls + 1 \in 0..MaxCalls
  BY <1>1
<1> QED BY <1>1, <1>2 DEF TickInv

\* Tick reconciles the rooms.
LEMMA TickBeginsKeeps ==
  ASSUME SocialInv, TickBegins
  PROVE  SocialInv'
<1>1. /\ stage = "game" /\ ~draining /\ stage' = "social" /\ RTCPumpTick
      /\ UNCHANGED <<calls, uiVars, socialVars, threadVars>>
      /\ UNCHANGED <<roster, gameVars, inviteVars, draining>>
  BY DEF TickBegins, overlayVars, RTCPumpTick
<1>2. SocialQueueInv' /\ RoomsInv' /\ SameBeliefs(DisplayTales)
  BY <1>1, RoomsPumped DEF SocialInv, GameTypes
<1>3. ShownInv'
  BY <1>1, <1>2, OwedStays, ShownKept DEF SocialInv
<1>4. SwitchInv'
  BY <1>1, SwitchesStay DEF SocialInv, Switches, uiVars
<1>5. GameTypes' /\ InviteInv'
  BY <1>1, GamesStay, InvitesStay DEF SocialInv, inviteVars
<1>6. RowsInv'
  BY <1>1, RowsStay DEF SocialInv
<1>7. TickInv'
  BY <1>1 DEF SocialInv, TickInv, uiVars, socialVars
<1> QED BY <1>2, <1>3, <1>4, <1>5, <1>6, <1>7 DEF SocialInv

\* Tick collects what the overlay has to do.
LEMMA SocialPumpedKeeps ==
  ASSUME SocialInv, SocialPumped
  PROVE  SocialInv'
<1>1. /\ stage = "social" /\ stage' = "route" /\ PumpSocial
      /\ UNCHANGED <<calls, rtcVars, roster, uiVars, threadVars, elsewhere, dispatchVars>>
  BY DEF SocialPumped, PumpSocial
<1>2. Quiet
  BY <1>1 DEF Quiet, dispatchVars
<1>3. SocialQueueInv' /\ SameBeliefs(RoomTales) /\ SameBeliefs(DisplayTales) /\ draining' = draining
  BY <1>2, QuietLine DEF SocialInv
<1>4. RoomsInv' /\ ShownInv'
  BY <1>1, <1>3, RoomsKept, OwedStays, ShownKept DEF SocialInv
<1>5. SwitchInv'
  BY <1>1, SwitchesStay DEF SocialInv, Switches, uiVars
<1>6. GameTypes' /\ InviteInv'
  BY <1>1, GamesStay, InvitesStay DEF SocialInv, elsewhere, inviteVars
<1>7. RowsInv'
  BY <1>1, SocialIsPumped DEF SocialInv
<1>8. TickInv'
  BY <1>1, <1>3 DEF SocialInv, TickInv, uiVars
<1> QED BY <1>3, <1>4, <1>5, <1>6, <1>7, <1>8 DEF SocialInv

\* Tick hands on one action, or the request of the user.
LEMMA ActionRoutedKeeps ==
  ASSUME SocialInv, ActionRouted
  PROVE  SocialInv'
<1>1. stage = "route" /\ stage' = stage /\ UNCHANGED <<calls, rtcVars, roster>>
  BY DEF ActionRouted
<1>2. CASE RouteAction
  <2>1. /\ InviteInv' /\ RowsInv' /\ UNCHANGED <<gameVars, delayed, ready, draining>>
        /\ (UNCHANGED pending \/ Post(<<Plain>>))
    BY <1>2, ActionIsRouted DEF SocialInv
  <2>2. UNCHANGED <<uiVars, threadVars>>
    BY <1>2 DEF RouteAction
  <2>3. SocialQueueInv' /\ SameBeliefs(RoomTales) /\ SameBeliefs(DisplayTales) /\ draining' = draining
    BY <2>1, QuietLine DEF SocialInv, Quiet
  <2>4. RoomsInv' /\ ShownInv'
    BY <1>1, <2>2, <2>3, RoomsKept, OwedStays, ShownKept DEF SocialInv
  <2>5. SwitchInv' /\ GameTypes'
    BY <2>1, <2>2, SwitchesStay, GamesStay DEF SocialInv, Switches, uiVars
  <2>6. TickInv'
    BY <1>1, <2>2, <2>3 DEF SocialInv, TickInv, uiVars
  <2> QED BY <2>1, <2>3, <2>4, <2>5, <2>6 DEF SocialInv
<1>3. CASE ConsumeUserVisibilityRequest
  <2>1. SwitchInv' /\ Owed /\ UNCHANGED <<socialVars, elsewhere, dispatchVars>>
    BY <1>3, RequestConsumed DEF SocialInv
  <2>2. Quiet
    BY <2>1 DEF Quiet, dispatchVars
  <2>3. SocialQueueInv' /\ SameBeliefs(RoomTales) /\ SameBeliefs(DisplayTales) /\ draining' = draining
    BY <2>2, QuietLine DEF SocialInv
  <2>4. RoomsInv' /\ ShownInv'
    BY <1>1, <2>1, <2>3, RoomsKept, ShownKept DEF SocialInv
  <2>5. GameTypes' /\ InviteInv' /\ RowsInv'
    BY <2>1, GamesStay, InvitesStay, RowsStay DEF SocialInv, elsewhere, inviteVars
  <2>6. TickInv'
    BY <1>1, <2>1, <2>3 DEF SocialInv, TickInv, Owed, socialVars
  <2> QED BY <2>1, <2>3, <2>4, <2>5, <2>6 DEF SocialInv
<1> QED BY <1>2, <1>3 DEF ActionRouted

\* Tick announces the display.
LEMMA DisplayPumpedKeeps ==
  ASSUME SocialInv, DisplayPumped
  PROVE  SocialInv'
<1>1. /\ stage = "route" /\ stage' = "drain" /\ FireDisplaySettings /\ actions = <<>>
      /\ UNCHANGED <<calls, rtcVars, roster, visible, paused, wasVisible, toggleKey,
                     socialVars, threadVars, elsewhere, draining>>
      /\ notify' = FALSE \/ notify' = notify
  BY DEF DisplayPumped, FireDisplaySettings
<1>2. SocialQueueInv' /\ ShownInv' /\ SameBeliefs(RoomTales)
  BY <1>1, DisplayFired DEF SocialInv, SwitchInv
<1>3. RoomsInv'
  BY <1>1, <1>2, RoomsKept DEF SocialInv
<1>4. SwitchInv' /\ GameTypes' /\ InviteInv' /\ RowsInv'
  BY <1>1, SwitchesStay, GamesStay, InvitesStay, RowsStay DEF SocialInv, Switches, elsewhere, inviteVars
<1>5. TickInv'
  BY <1>1 DEF SocialInv, TickInv, socialVars
<1> QED BY <1>2, <1>3, <1>4, <1>5 DEF SocialInv

\* The steps that leave all but the line and what is heard of it.
LEMMA LineMoves ==
  ASSUME SocialInv, SocialQueueInv', SameBeliefs(RoomTales), SameBeliefs(DisplayTales),
         UNCHANGED <<rtcVars, roster, gameVars, inviteVars, overlayVars>>
  PROVE  RoomsInv' /\ ShownInv' /\ SwitchInv' /\ GameTypes' /\ InviteInv' /\ RowsInv'
<1>1. RoomsInv' /\ ShownInv'
  BY RoomsKept, OwedStays, ShownKept DEF SocialInv, overlayVars
<1>2. SwitchInv' /\ RowsInv'
  BY SwitchesStay, RowsStay DEF SocialInv, overlayVars, Switches, uiVars
<1>3. GameTypes' /\ InviteInv'
  BY GamesStay, InvitesStay DEF SocialInv, inviteVars
<1> QED BY <1>1, <1>2, <1>3

\* Tick drains the queue.
LEMMA DrainBeginsKeeps ==
  ASSUME SocialInv, DrainBegins
  PROVE  SocialInv'
<1>1. /\ stage = "drain" /\ stage' = "game" /\ Drain
      /\ UNCHANGED <<calls, rtcVars, roster, gameVars, inviteVars, overlayVars>>
  BY DEF DrainBegins
<1>2. QueueOf(SocialClosures, 0) /\ delayed = <<>>
  BY DEF SocialInv, SocialQueueInv
<1>3. QueueOf(SocialClosures, 0)' /\ Line' = Line /\ delayed' = <<>>
  BY <1>1, <1>2, DrainJoins, DrainOfNothingDelayed
<1>4. SocialQueueInv' /\ SameBeliefs(RoomTales) /\ SameBeliefs(DisplayTales)
  BY <1>3, SameLineSameBeliefs DEF SocialQueueInv
<1>5. RoomsInv' /\ ShownInv' /\ SwitchInv' /\ GameTypes' /\ InviteInv' /\ RowsInv'
  BY <1>1, <1>4, LineMoves
<1>6. TickInv'
  BY <1>1 DEF SocialInv, TickInv, overlayVars, uiVars, socialVars
<1> QED BY <1>4, <1>5, <1>6 DEF SocialInv

\* The batch is empty.
LEMMA TickReturnsKeeps ==
  ASSUME SocialInv, TickReturns
  PROVE  SocialInv'
<1>1. /\ stage = "game" /\ DrainReturns
      /\ UNCHANGED <<stage, calls, rtcVars, roster, gameVars, inviteVars, overlayVars>>
  BY DEF TickReturns
<1>2. QueueOf(SocialClosures, 0) /\ delayed = <<>>
  BY DEF SocialInv, SocialQueueInv
<1>3. QueueOf(SocialClosures, 0)' /\ Line' = Line /\ delayed' = <<>>
  BY <1>1, <1>2, DrainReturnsLeavesLine DEF DrainReturns
<1>4. SocialQueueInv' /\ SameBeliefs(RoomTales) /\ SameBeliefs(DisplayTales)
  BY <1>3, SameLineSameBeliefs DEF SocialQueueInv
<1>5. RoomsInv' /\ ShownInv' /\ SwitchInv' /\ GameTypes' /\ InviteInv' /\ RowsInv'
  BY <1>1, <1>4, LineMoves
<1>6. TickInv'
  BY <1>1 DEF SocialInv, TickInv, overlayVars, uiVars, socialVars
<1> QED BY <1>4, <1>5, <1>6 DEF SocialInv

\* A closure runs.
LEMMA RunTaskKeeps ==
  ASSUME SocialInv, RunTask
  PROVE  SocialInv'
<1>1. stage = "game" /\ UNCHANGED <<stage, calls>>
  BY DEF RunTask
<1>2. CASE RunRoomEvent /\ UNCHANGED <<roster, gameVars, inviteVars, overlayVars>>
  <2>1. SocialQueueInv' /\ RoomsInv' /\ SameBeliefs(DisplayTales)
    BY <1>2, RoomEventHeard DEF SocialInv
  <2>2. ShownInv' /\ SwitchInv' /\ RowsInv'
    BY <1>2, <2>1, OwedStays, ShownKept, SwitchesStay, RowsStay DEF SocialInv, overlayVars, Switches, uiVars
  <2>3. GameTypes' /\ InviteInv'
    BY <1>2, GamesStay, InvitesStay DEF SocialInv, inviteVars
  <2>4. TickInv'
    BY <1>1, <1>2 DEF SocialInv, TickInv, overlayVars, uiVars, socialVars
  <2> QED BY <2>1, <2>2, <2>3, <2>4 DEF SocialInv
<1>3. CASE RunDisplayTask /\ UNCHANGED <<rtcVars, roster>>
  <2>1. SocialQueueInv' /\ ShownInv' /\ SameBeliefs(RoomTales)
    BY <1>3, DisplayTaskRun DEF SocialInv
  <2>2. UNCHANGED <<visible, paused, wasVisible, toggleKey, notify, socialVars, threadVars, elsewhere>>
    BY <1>3 DEF RunDisplayTask
  <2>3. RoomsInv' /\ SwitchInv' /\ RowsInv'
    BY <1>3, <2>1, <2>2, RoomsKept, SwitchesStay, RowsStay DEF SocialInv, Switches
  <2>4. GameTypes' /\ InviteInv'
    BY <2>2, GamesStay, InvitesStay DEF SocialInv, elsewhere, inviteVars
  <2>5. TickInv'
    BY <1>1, <2>2 DEF SocialInv, TickInv, socialVars
  <2> QED BY <2>1, <2>3, <2>4, <2>5 DEF SocialInv
<1>4. CASE /\ Work(<<>>) /\ Head(ready).kind = "plain"
           /\ UNCHANGED <<rtcVars, roster, gameVars, inviteVars, overlayVars>>
  <2>1. SocialQueueInv' /\ Head(ready) \in SocialClosures
    BY <1>4, SocialRunsHead DEF SocialInv
  <2>2. SameBeliefs(RoomTales) /\ SameBeliefs(DisplayTales)
    <3>1. Head(ready) \in PlainTasks
      BY <1>4, <2>1, SocialClosureKinds
    <3>2. Head(ready) \notin RoomNews /\ Head(ready) \notin DisplayEvents
      BY <3>1, EventsAreClosures
    <3> QED BY <1>4, <3>2, HeadIsNoNews DEF SocialInv
  <2>3. RoomsInv' /\ ShownInv' /\ SwitchInv' /\ GameTypes' /\ InviteInv' /\ RowsInv'
    BY <1>4, <2>1, <2>2, LineMoves
  <2>4. TickInv'
    BY <1>1, <1>4 DEF SocialInv, TickInv, overlayVars, uiVars, socialVars
  <2> QED BY <2>1, <2>3, <2>4 DEF SocialInv
<1> QED BY <1>2, <1>3, <1>4 DEF RunTask

\* The calls of the game.
LEMMA UICallMade ==
  ASSUME SocialInv, Call, UICalls, UNCHANGED <<rtcVars, roster>>
  PROVE  SocialInv'
<1>1. SwitchInv' /\ Owed /\ Quiet /\ UNCHANGED <<socialVars, elsewhere>>
  BY UICallsKeep DEF SocialInv
<1>2. SocialQueueInv' /\ SameBeliefs(RoomTales) /\ SameBeliefs(DisplayTales) /\ draining' = draining
  BY <1>1, QuietLine DEF SocialInv
<1>3. RoomsInv' /\ ShownInv' /\ RowsInv'
  BY <1>1, <1>2, RoomsKept, ShownKept, RowsStay DEF SocialInv
<1>4. GameTypes' /\ InviteInv'
  BY <1>1, GamesStay, InvitesStay DEF SocialInv, elsewhere, inviteVars
<1>5. TickInv'
  BY <1>1, <1>2, CallCounts DEF SocialInv, TickInv, Owed, socialVars
<1> QED BY <1>1, <1>2, <1>3, <1>4, <1>5 DEF SocialInv

\* The calls of the RTC interfaces.
LEMMA RTCCallMade ==
  ASSUME SocialInv, Call, RTCCalls, UNCHANGED overlayVars
  PROVE  SocialInv'
<1>1. /\ SocialQueueInv' /\ RoomsInv' /\ SameBeliefs(DisplayTales)
      /\ UNCHANGED <<gameVars, inviteVars, draining>>
  <2>1. ASSUME NEW r \in RoomNames, JoinRoom(r)
        PROVE  /\ SocialQueueInv' /\ RoomsInv' /\ SameBeliefs(DisplayTales)
               /\ UNCHANGED <<gameVars, inviteVars, draining>>
    BY <2>1, RoomJoined DEF SocialInv, JoinRoom
  <2>2. ASSUME NEW r \in RoomNames, LeaveRoom(r)
        PROVE  /\ SocialQueueInv' /\ RoomsInv' /\ SameBeliefs(DisplayTales)
               /\ UNCHANGED <<gameVars, inviteVars, draining>>
    BY <2>2, RoomLeft DEF SocialInv, LeaveRoom
  <2>3. ASSUME NEW r \in RoomNames, NEW status \in {"Enabled", "Disabled"}, UpdateSending(r, status)
        PROVE  /\ SocialQueueInv' /\ RoomsInv' /\ SameBeliefs(DisplayTales)
               /\ UNCHANGED <<gameVars, inviteVars, draining>>
    BY <2>3, SendingUpdated DEF SocialInv, UpdateSending
  <2>4. ASSUME RTCCall
        PROVE  /\ SocialQueueInv' /\ RoomsInv' /\ SameBeliefs(DisplayTales)
               /\ UNCHANGED <<gameVars, inviteVars, draining>>
    <3>1. Post(<<Plain>>) /\ UNCHANGED <<rtcVars, roster, gameVars, inviteVars, delayed, ready, draining>>
      BY <2>4 DEF RTCCall
    <3>2. SocialQueueInv' /\ SameBeliefs(RoomTales) /\ SameBeliefs(DisplayTales)
      BY <3>1, QuietLine DEF SocialInv, Quiet
    <3> QED BY <3>1, <3>2, RoomsKept DEF SocialInv
  <2> QED BY <2>1, <2>2, <2>3, <2>4 DEF RTCCalls
<1>2. ShownInv' /\ SwitchInv' /\ RowsInv'
  BY <1>1, OwedStays, ShownKept, SwitchesStay, RowsStay DEF SocialInv, overlayVars, Switches, uiVars
<1>3. GameTypes' /\ InviteInv'
  BY <1>1, GamesStay, InvitesStay DEF SocialInv, inviteVars
<1>4. TickInv'
  BY <1>1, CallCounts DEF SocialInv, TickInv, overlayVars, uiVars, socialVars
<1> QED BY <1>1, <1>2, <1>3, <1>4 DEF SocialInv

\* What the calls about invites and the receive thread do to the games and the invites.
LEMMA InviteStepsKeep ==
  ASSUME GameTypes, InviteInv,
         \/ InviteCalls
         \/ \E k \in Kinds, g \in Games :
              \/ \E record \in {"none", "open", "full"} : GameChanges(k, g, record)
              \/ FileInvite(k, g)
         \/ FileCustomInvite \/ PostInviteReceived
  PROVE  GameTypes' /\ InviteInv' /\ Quiet
<1>1. ASSUME NEW k \in Kinds, NEW g \in Games,
             \/ \E record \in {"none", "open", "full"} : GameChanges(k, g, record)
             \/ EnterGame(k, g) \/ QuitGame(k, g)
      PROVE  GameTypes' /\ InviteInv' /\ Quiet
  <2>1. UNCHANGED inviteVars /\ Quiet
    BY <1>1 DEF GameChanges, EnterGame, QuitGame, Quiet, dispatchVars
  <2> QED BY <1>1, <2>1, GamesChange, InvitesStay DEF inviteVars
<1>2. ASSUME NEW k \in Kinds, NEW i \in InviteIds, RejectInvite(k, i)
      PROVE  GameTypes' /\ InviteInv' /\ Quiet
  <2>1. /\ invites' = Without(k, i)
        /\ outcomes' = IF i \in Filed(k) THEN Told(k, i, "rejected") ELSE outcomes
        /\ UNCHANGED <<gameVars, nextInvite, arriving, uiEvents, nextUiEvent>> /\ Quiet
    BY <1>2 DEF RejectInvite, Quiet
  <2> QED BY <2>1, InviteRejected, GamesStay
<1>3. CASE SendInvite \/ SetCustomInvite("hello") \/ SendCustomInvite \/ PostInviteReceived
  <2>1. /\ UNCHANGED <<gameVars, invites, nextInvite, uiEvents, nextUiEvent, outcomes>> /\ Quiet
        /\ arriving' = arriving \/ arriving' = NoInvite
    BY <1>3 DEF SendInvite, SetCustomInvite, SendCustomInvite, PostInviteReceived, Quiet, inviteVars,
                dispatchVars
  <2>2. InviteInv'
    BY <2>1 DEF InviteInv, UiEventsOK, ListOK, AnswersOK, Filed
  <2> QED BY <2>1, <2>2, GamesStay
<1>4. ASSUME NEW e \in 1..MaxCalls, AcknowledgeEventId(e)
      PROVE  GameTypes' /\ InviteInv' /\ Quiet
  <2>1. UNCHANGED gameVars /\ Quiet
    BY <1>4 DEF AcknowledgeEventId, Quiet, dispatchVars
  <2> QED BY <1>4, <2>1, EventAcknowledged, GamesStay
<1>5. ASSUME NEW k \in Kinds, NEW g \in Games, FileInvite(k, g)
      PROVE  GameTypes' /\ InviteInv' /\ Quiet
  <2>1. UNCHANGED gameVars /\ Quiet
    BY <1>5 DEF FileInvite, Quiet, dispatchVars
  <2> QED BY <1>5, <2>1, InviteFiled, GamesStay
<1>6. CASE FileCustomInvite
  <2>1. UNCHANGED gameVars /\ Quiet
    BY <1>6 DEF FileCustomInvite, Quiet, dispatchVars
  <2> QED BY <1>6, <2>1, CustomInviteFiled, GamesStay
<1>7. CASE InviteCalls
  BY <1>1, <1>2, <1>3, <1>4, <1>7 DEF InviteCalls
<1> QED BY <1>1, <1>3, <1>5, <1>6, <1>7

\* A step of the games and the invites, and of nothing else.
LEMMA InviteStepMade ==
  ASSUME SocialInv, UNCHANGED <<rtcVars, roster, overlayVars>>,
         GameTypes', InviteInv', Quiet, Call \/ UNCHANGED <<stage, calls>>
  PROVE  SocialInv'
<1>1. SocialQueueInv' /\ SameBeliefs(RoomTales) /\ SameBeliefs(DisplayTales) /\ draining' = draining
  BY QuietLine DEF SocialInv
<1>2. RoomsInv' /\ ShownInv' /\ SwitchInv' /\ RowsInv'
  BY <1>1, RoomsKept, OwedStays, ShownKept, SwitchesStay, RowsStay
     DEF SocialInv, overlayVars, Switches, uiVars
<1>3. TickInv'
  <2>1. actions' = actions /\ notify' = notify /\ TickInv
    BY DEF SocialInv, overlayVars, uiVars, socialVars
  <2>2. notify' \in BOOLEAN
    BY <2>1 DEF TickInv
  <2>3. CASE Call
    BY <1>1, <2>1, <2>2, <2>3, CallCounts
  <2>4. CASE UNCHANGED <<stage, calls>>
    BY <1>1, <2>1, <2>4 DEF TickInv
  <2> QED BY <2>3, <2>4
<1> QED BY <1>1, <1>2, <1>3 DEF SocialInv

\* The game calls.
LEMMA GameCallKeeps ==
  ASSUME SocialInv, GameCall
  PROVE  SocialInv'
<1>1. Call
  BY DEF GameCall
<1>2. CASE UICalls /\ UNCHANGED <<rtcVars, roster>>
  BY <1>1, <1>2, UICallMade
<1>3. CASE RTCCalls /\ UNCHANGED overlayVars
  BY <1>1, <1>3, RTCCallMade
<1>4. CASE InviteCalls /\ UNCHANGED <<rtcVars, roster, overlayVars>>
  <2>1. GameTypes' /\ InviteInv' /\ Quiet
    BY <1>4, InviteStepsKeep DEF SocialInv
  <2> QED BY <1>1, <1>4, <2>1, InviteStepMade
<1> QED BY <1>2, <1>3, <1>4 DEF GameCall

\* The receive thread files an invite or a record, or posts a notification.
LEMMA DatagramKeeps ==
  ASSUME SocialInv, Datagram \/ InvitePosted
  PROVE  SocialInv'
<1>1. GameTypes' /\ InviteInv' /\ Quiet
  BY InviteStepsKeep DEF SocialInv, Datagram, InvitePosted
<1>2. UNCHANGED <<rtcVars, roster, overlayVars>> /\ (Call \/ UNCHANGED <<stage, calls>>)
  BY DEF Datagram, InvitePosted
<1> QED BY <1>1, <1>2, InviteStepMade

\* The receive thread files a record with other members.
LEMMA MembersChangeKeeps ==
  ASSUME SocialInv, MembersChange
  PROVE  SocialInv'
<1>1. PICK g \in Games, pids \in SUBSET Pids : RosterChanges(g, pids)
  BY DEF MembersChange
<1>2. /\ roster' = [roster EXCEPT ![g] = pids] /\ Call
      /\ UNCHANGED <<gameVars, inviteVars, rtcVars, dispatchVars, overlayVars>>
  BY <1>1 DEF RosterChanges, MembersChange
<1>3. Quiet
  BY <1>2 DEF Quiet, dispatchVars
<1>4. SocialQueueInv' /\ SameBeliefs(RoomTales) /\ SameBeliefs(DisplayTales) /\ draining' = draining
  BY <1>3, QuietLine DEF SocialInv
<1>5. RoomsInv'
  BY <1>2, <1>4, RoomsStay DEF SocialInv, RoomsInv, RoomTypes, rtcVars
<1>6. ShownInv' /\ SwitchInv' /\ RowsInv'
  BY <1>2, <1>4, OwedStays, ShownKept, SwitchesStay, RowsStay
     DEF SocialInv, overlayVars, Switches, uiVars
<1>7. GameTypes' /\ InviteInv'
  BY <1>2, GamesStay, InvitesStay DEF SocialInv, inviteVars
<1>8. TickInv'
  BY <1>2, <1>4, CallCounts DEF SocialInv, TickInv, overlayVars, uiVars, socialVars
<1> QED BY <1>4, <1>5, <1>6, <1>7, <1>8 DEF SocialInv

\* The user, and the thread that renders.
LEMMA OverlayStepMade ==
  ASSUME SocialInv, UNCHANGED <<rtcVars, roster, uiVars, actions, elsewhere, dispatchVars>>,
         SwitchInv', RowsInv', Call \/ UNCHANGED <<stage, calls>>
  PROVE  SocialInv'
<1>1. Quiet
  BY DEF Quiet, dispatchVars
<1>2. SocialQueueInv' /\ SameBeliefs(RoomTales) /\ SameBeliefs(DisplayTales) /\ draining' = draining
  BY <1>1, QuietLine DEF SocialInv
<1>3. RoomsInv' /\ ShownInv'
  BY <1>2, RoomsKept, OwedStays, ShownKept DEF SocialInv
<1>4. GameTypes' /\ InviteInv'
  BY GamesStay, InvitesStay DEF SocialInv, elsewhere, inviteVars
<1>5. TickInv'
  <2>1. notify' = notify /\ TickInv
    BY DEF SocialInv, uiVars
  <2>2. notify' \in BOOLEAN
    BY <2>1 DEF TickInv
  <2>3. CASE Call
    BY <1>2, <2>1, <2>2, <2>3, CallCounts
  <2>4. CASE UNCHANGED <<stage, calls>>
    BY <1>2, <2>1, <2>4 DEF TickInv
  <2> QED BY <2>3, <2>4
<1> QED BY <1>2, <1>3, <1>4, <1>5 DEF SocialInv

\* The user, and the thread that renders.
LEMMA UserActsKeeps ==
  ASSUME SocialInv, UserActs \/ ThreadSteps
  PROVE  SocialInv'
<1>1. UNCHANGED <<rtcVars, roster>> /\ (Call \/ UNCHANGED <<stage, calls>>)
  BY DEF UserActs, ThreadSteps
<1>2. CASE \/ ThreadStarts \/ (\E down \in BOOLEAN : PollHotkey(down)) \/ RequestToggle
           \/ CloseWindow \/ RequestHide \/ (\E front \in BOOLEAN : UpdateExclusive(front))
  <2>1. SwitchInv' /\ UNCHANGED <<uiVars, socialVars, elsewhere, dispatchVars>>
    BY <1>2, ThreadKeeps DEF SocialInv
  <2>2. RowsInv' /\ UNCHANGED actions
    BY <2>1, RowsStay DEF SocialInv, socialVars
  <2> QED BY <1>1, <2>1, <2>2, OverlayStepMade
<1>3. CASE DrawSocialPanel \/ \E row \in drawn, action \in {"Accept", "Reject", "Join"} : QueueAction(row, action)
  <2>1. UNCHANGED <<uiVars, actions, threadVars, elsewhere, dispatchVars>>
    BY <1>3 DEF DrawSocialPanel, QueueAction
  <2>2. RowsInv'
    BY <1>3, RowDrawn DEF SocialInv
  <2>3. SwitchInv'
    BY <2>1, SwitchesStay DEF SocialInv, Switches, uiVars
  <2> QED BY <1>1, <2>1, <2>2, <2>3, OverlayStepMade
<1> QED BY <1>2, <1>3 DEF UserActs, ThreadSteps

\* A step that changes nothing.
LEMMA SocialStutters ==
  ASSUME SocialInv, UNCHANGED vars
  PROVE  SocialInv'
<1>1. Quiet /\ UNCHANGED <<stage, calls, rtcVars, roster, gameVars, inviteVars, overlayVars>>
  BY DEF vars, Quiet, dispatchVars
<1>2. GameTypes' /\ InviteInv'
  BY <1>1, GamesStay, InvitesStay DEF SocialInv, inviteVars
<1> QED BY <1>1, <1>2, InviteStepMade

\* Every step keeps the invariant.
LEMMA SocialNextKeeps == SocialInv /\ [Next]_vars => SocialInv'
BY TickBeginsKeeps, SocialPumpedKeeps, ActionRoutedKeeps, DisplayPumpedKeeps, DrainBeginsKeeps,
   RunTaskKeeps, TickReturnsKeeps, GameCallKeeps, DatagramKeeps, MembersChangeKeeps, UserActsKeeps,
   SocialStutters DEF Next

\* RTC.cpp, UI.cpp, Overlay.cpp, Lobby.cpp and Sessions.cpp around Tick: the
\* invariant of the rooms, the overlay and the invites, with the line between.
THEOREM SocialInvariant == Spec => []SocialInv
BY SocialBegins, SocialNextKeeps, PTL DEF Spec

\* The invariant gives the types.
LEMMA SocialTypesFollow == SocialInv => TypeOK
<1> SUFFICES ASSUME SocialInv PROVE TypeOK
  OBVIOUS
<1>1. InvitesTypeOK
  <2>1. ASSUME NEW k \in Kinds PROVE IsInjective([i \in DOMAIN invites[k] |-> invites[k][i].id])
    BY DEF SocialInv, InviteInv, ListOK, IsInjective
  <2> QED BY <2>1 DEF SocialInv, InviteInv, GameTypes, UiEventsOK, InvitesTypeOK
<1>2. RTCTypeOK
  BY DEF SocialInv, RoomsInv, RoomTypes, RTCTypeOK, InRoom
<1>3. OverlayTypeOK
  <2>1. \A i \in DOMAIN clicks : clicks[i].action \in {"Accept", "Reject", "Join"}
    <3>1. \A i \in DOMAIN clicks : clicks[i] \in RowActions
      BY LenProperties, ElementOfSeq DEF SocialInv, RowsInv
    <3> QED BY <3>1 DEF RowActions
  <2> QED BY <2>1 DEF SocialInv, SwitchInv, ShownInv, ShownTypes, TickInv, OverlayTypeOK, Displays
<1> QED BY <1>1, <1>2, <1>3 DEF SocialInv, TickInv, TypeOK

\* The invariant says it of each invite.
LEMMA InvitesSettleFollows == SocialInv => InvitesSettle
BY DEF SocialInv, RowsInv, InviteInv, AnswersOK, InvitesSettle

\* Platform.cpp, Tick: the state of the social interfaces is of its types, and
\* Tick has handed on all its actions before it drains.
THEOREM SocialTypes == Spec => []TypeOK
BY SocialInvariant, SocialTypesFollow, PTL

\* RTC.cpp, PumpTick, JoinRoom and LeaveRoom: a game that has heard the queued
\* events knows the participants of each room it is in, and of no other.
THEOREM RoomsTell == Spec => []RoomsReported
BY SocialInvariant, RoomsReportedFollows, PTL DEF SocialInv

\* UI.cpp, FireDisplaySettings: each observer has been told the display that was
\* last announced, or will be by what is queued, unless an announcement is owed.
THEOREM DisplaysTell == Spec => []DisplayTold
BY SocialInvariant, DisplayToldFollows, PTL DEF SocialInv

\* UI.cpp, SetVisibleInternal, and Overlay.cpp, RequestHide: the overlay is never
\* up while the interface reports it hidden.
THEOREM ShownStaysVisible == Spec => []ShownIsVisible
BY SocialInvariant, PTL DEF SocialInv, SwitchInv

\* Lobby.cpp, Sessions.cpp and UI.cpp, PumpSocial: no invite is accepted twice
\* automatically, and one that was rejected is answered no more.
THEOREM InvitesStaySettled == Spec => []InvitesSettle
BY SocialInvariant, InvitesSettleFollows, PTL
==========================================================================
