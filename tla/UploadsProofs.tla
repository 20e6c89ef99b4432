---------------------------- MODULE UploadsProofs ----------------------------
(***************************************************************************)
(* Proofs about Uploads, for any users, walks, ids and limits.             *)
(*                                                                         *)
(* The inductive invariant says where a walk stands: all it has seen is in *)
(* the list of its user, newest first and no older than the cursor, and of *)
(* what was in the list at the start only what is older than the cursor is *)
(* still to come (Standing).  A record never leaves a list once it is in.  *)
(***************************************************************************)
EXTENDS Uploads, FiniteSetTheorems, SequenceTheorems, TLAPS

Descending(s) == \A m, n \in DOMAIN s : m < n => s[m] > s[n]

Standing(w) ==
    /\ Descending(seen[w])
    /\ pc[w] = "idle" => seen[w] = <<>> /\ cursor[w] = 0
    /\ pc[w] # "idle" => ToSet(seen[w]) \cup had[w] \subseteq Owned(user[w])
    /\ pc[w] = "walking" =>
        /\ cursor[w] # 0
        /\ \A i \in ToSet(seen[w]) : i >= cursor[w]
        /\ \A i \in had[w] : i >= cursor[w] => i \in ToSet(seen[w])
    /\ pc[w] = "done" => had[w] \subseteq ToSet(seen[w])

ServedRightly ==
    \A s \in served : Stored(s[2]) /\ (s[3] # "share" => owner[s[2]] = s[1])

IInv ==
    /\ TypeOK
    /\ \A w \in Walks : Standing(w)
    /\ ServedRightly

-----------------------------------------------------------------------------
(* Lemmas about the operators. *)

(* The limit of a page is at least one and at most MaxLimit, whatever is asked. *)
LEMMA ClampedLimit ==
  ASSUME NEW asked \in Int
  PROVE  ClampLimit(asked) \in 1 .. MaxLimit
BY UploadsAssumption DEF ClampLimit

(* The rows of a query are a sequence over the set, not longer than asked. *)
LEMMA NewestType ==
  ASSUME NEW S, NEW n \in Nat, NEW rows \in Newest(S, n)
  PROVE  rows \in Seq(S) /\ Len(rows) \in 0 .. n /\ DOMAIN rows = 1 .. Len(rows)
<1>1. PICK m \in 0 .. n : rows \in [1 .. m -> S]  BY DEF Newest, SeqOf
<1> QED BY <1>1

(* A set of naturals has a least element. *)
LEMMA LeastNatural ==
  ASSUME NEW T, T \subseteq Nat, T # {}
  PROVE  \E n \in T : \A m \in T : n <= m
<1> DEFINE R == OpToRel(<, Nat)
<1>1. \A m, n \in Nat : m < n => <<m, n>> \in R  BY DEF OpToRel
<1>2. IsWellFoundedOn(R, Nat)  BY NatLessThanWellFounded
<1> HIDE DEF R
<1>3. PICK n \in T : \A m \in T : ~ (<<m, n>> \in R)  BY <1>2, WFMin
<1>4. ASSUME NEW m \in T PROVE n <= m
  <2>1. m \in Nat /\ n \in Nat /\ ~(m < n)  BY <1>1, <1>3
  <2> QED BY <2>1
<1> QED BY <1>4

(* ... and a set of ids a greatest. *)
LEMMA GreatestId ==
  ASSUME NEW T \in SUBSET Ids, T # {}
  PROVE  \E i \in T : \A j \in T : j <= i
<1> USE UploadsAssumption
<1> DEFINE D == {MaxId - i : i \in T}
<1>1. \A i \in T : i \in Int /\ i <= MaxId  BY DEF Ids
<1>2. D \subseteq Nat /\ D # {}  BY <1>1
<1>3. PICK d \in D : \A e \in D : d <= e
  <2> HIDE DEF D
  <2> QED BY <1>2, LeastNatural
<1>4. PICK i \in T : d = MaxId - i  OBVIOUS
<1>5. ASSUME NEW j \in T PROVE j <= i
  <2>1. d <= MaxId - j  BY <1>3
  <2> QED BY <1>1, <1>4, <2>1
<1> QED BY <1>5

(* However long the answer may be, there is one: row after row, the greatest  *)
(* id not yet taken is appended.                                              *)
LEMMA NewestExists ==
  ASSUME NEW S \in SUBSET Ids, NEW n \in Nat
  PROVE  Newest(S, n) # {}
<1> USE UploadsAssumption
<1> DEFINE Bad == {m \in Nat : Newest(S, m) = {}}
<1> SUFFICES ASSUME Bad # {} PROVE FALSE
  OBVIOUS
<1>1. PICK m \in Bad : \A k \in Bad : m <= k
  <2>1. Bad \subseteq Nat /\ Bad # {}  OBVIOUS
  <2> HIDE DEF Bad
  <2> QED BY <2>1, LeastNatural
<1>2. m # 0
  <2>1. <<>> \in [1 .. 0 -> S] /\ DOMAIN <<>> = {} /\ Len(<<>>) = 0  OBVIOUS
  <2>2. <<>> \in SeqOf(S, 0)  BY <2>1 DEF SeqOf
  <2>3. <<>> \in Newest(S, 0)  BY <2>1, <2>2 DEF Newest
  <2> QED BY <2>3
<1>3. m \in Nat /\ Newest(S, m) = {} /\ m - 1 \in Nat /\ m - 1 \notin Bad  BY <1>1, <1>2
<1> DEFINE p == m - 1
<1>4. PICK rows : rows \in Newest(S, p)  BY <1>3
<1>5. p \in Nat /\ p + 1 = m  BY <1>3
<1> HIDE DEF p, Bad
<1>6. /\ rows \in Seq(S) /\ Len(rows) \in 0 .. p /\ DOMAIN rows = 1 .. Len(rows)
      /\ rows \in [1 .. Len(rows) -> S]
  BY <1>4, <1>5, NewestType, LenProperties
<1>7. /\ \A j, k \in 1 .. Len(rows) : j < k => rows[j] > rows[k]
      /\ \A i \in S \ ToSet(rows) :
            Len(rows) = p /\ \A k \in 1 .. Len(rows) : rows[k] > i
  BY <1>4, <1>6 DEF Newest
<1>8. \A i \in S : i \in Int  BY DEF Ids
<1>9. CASE S \ ToSet(rows) = {}
  <2>1. Len(rows) \in 0 .. m  BY <1>5, <1>6
  <2>2. rows \in SeqOf(S, m)  BY <1>6, <2>1 DEF SeqOf
  <2>3. rows \in Newest(S, m)  BY <1>6, <1>7, <1>9, <2>2 DEF Newest
  <2> QED BY <1>3, <2>3
<1>10. CASE S \ ToSet(rows) # {}
  <2>1. PICK x \in S \ ToSet(rows) : \A i \in S \ ToSet(rows) : i <= x
    BY <1>10, GreatestId
  <2>2. Len(rows) = p /\ \A k \in 1 .. p : rows[k] > x  BY <1>7
  <2> DEFINE longer == [k \in 1 .. m |-> IF k = m THEN x ELSE rows[k]]
  <2>3. \A k \in 1 .. m : k = m \/ k \in 1 .. p  BY <1>5
  <2>4. /\ longer \in [1 .. m -> S] /\ DOMAIN longer = 1 .. m
        /\ longer[m] = x /\ \A k \in 1 .. p : longer[k] = rows[k]
    BY <1>2, <1>3, <1>5, <1>6, <2>2, <2>3
  <2>5. longer \in SeqOf(S, m)
    <3>1. m \in 0 .. m  BY <1>3
    <3> HIDE DEF longer
    <3> QED BY <2>4, <3>1 DEF SeqOf
  <2>6. Len(longer) = m
    <3> HIDE DEF longer
    <3>1. longer \in Seq(S)  BY <1>3, <2>4
    <3> QED BY <1>3, <2>4, <3>1, LenProperties
  <2> HIDE DEF longer
  <2>7. ASSUME NEW j \in 1 .. m, NEW k \in 1 .. m, j < k PROVE longer[j] > longer[k]
    <3>1. j \in 1 .. p  BY <1>5, <2>7
    <3>2. CASE k = m  BY <2>2, <2>4, <3>1, <3>2
    <3>3. CASE k \in 1 .. p  BY <1>7, <2>2, <2>4, <2>7, <3>1, <3>3
    <3> QED BY <2>3, <3>2, <3>3
  <2>8. ASSUME NEW i \in S \ ToSet(longer) PROVE \A k \in 1 .. m : longer[k] > i
    <3>1. m \in 1 .. m  BY <1>2, <1>3
    <3>2. i # x  BY <2>4, <3>1 DEF ToSet
    <3>3. i \notin ToSet(rows)
      <4> SUFFICES ASSUME NEW k \in 1 .. p, rows[k] = i PROVE FALSE
        BY <1>6, <2>2 DEF ToSet
      <4>1. k \in 1 .. m  BY <1>5
      <4> QED BY <2>4, <4>1 DEF ToSet
    <3>4. i < x  BY <1>8, <2>1, <3>2, <3>3
    <3>5. \A k \in 1 .. p : rows[k] > i  BY <1>7, <2>2, <3>3
    <3> QED BY <2>3, <2>4, <3>4, <3>5
  <2>9. longer \in Newest(S, m)
    BY <2>4, <2>5, <2>6, <2>7, <2>8 DEF Newest
  <2> QED BY <1>3, <2>9
<1> QED BY <1>9, <1>10

(* Where two answers agree on all rows before the k-th, neither has the       *)
(* greater k-th row.                                                          *)
LEMMA SameRow ==
  ASSUME NEW S \in SUBSET Ids, NEW n \in Nat,
         NEW r \in Newest(S, n), NEW s \in Newest(S, n), NEW k \in 1 .. Len(r),
         \A j \in 1 .. Len(r) : j < k => j <= Len(s) /\ r[j] = s[j]
  PROVE  k <= Len(s) /\ r[k] <= s[k]
<1>1. /\ Len(r) \in 0 .. n /\ DOMAIN r = 1 .. Len(r) /\ r \in [1 .. Len(r) -> S]
      /\ Len(s) \in 0 .. n /\ DOMAIN s = 1 .. Len(s) /\ s \in [1 .. Len(s) -> S]
  BY NewestType, LenProperties
<1>2. /\ \A i, j \in 1 .. Len(r) : i < j => r[i] > r[j]
      /\ \A i, j \in 1 .. Len(s) : i < j => s[i] > s[j]
      /\ \A i \in S \ ToSet(s) : Len(s) = n /\ \A j \in 1 .. Len(s) : s[j] > i
  BY <1>1 DEF Newest
<1>3. /\ \A i \in S : i \in Int
      /\ \A j \in 1 .. Len(r) : r[j] \in Int
      /\ \A j \in 1 .. Len(s) : s[j] \in Int
  <2>1. \A i \in S : i \in Int  BY DEF Ids
  <2> QED BY <1>1, <2>1
<1>4. ASSUME NEW j \in 1 .. Len(s), s[j] = r[k] PROVE k <= j
  <2> SUFFICES ASSUME j < k PROVE FALSE
    BY <1>1
  <2>1. j \in 1 .. Len(r) /\ r[j] = s[j]  BY <1>1
  <2> QED BY <1>2, <1>3, <1>4, <2>1
<1>5. CASE r[k] \in ToSet(s)
  <2>1. PICK j \in 1 .. Len(s) : s[j] = r[k]  BY <1>1, <1>5 DEF ToSet
  <2>2. k <= j  BY <1>4, <2>1
  <2>3. k \in 1 .. Len(s)  BY <1>1, <2>2
  <2>4. k = j \/ s[k] > s[j]  BY <1>2, <2>2, <2>3
  <2> QED BY <1>3, <2>1, <2>3, <2>4
<1>6. CASE r[k] \notin ToSet(s)
  <2>1. r[k] \in S  BY <1>1
  <2>2. Len(s) = n /\ \A j \in 1 .. Len(s) : s[j] > r[k]  BY <1>2, <1>6, <2>1
  <2>3. k \in 1 .. Len(s)  BY <1>1, <2>2
  <2> QED BY <1>3, <2>2, <2>3
<1> QED BY <1>5, <1>6

(* An answer agrees with another one as far as it goes. *)
LEMMA SamePrefix ==
  ASSUME NEW S \in SUBSET Ids, NEW n \in Nat, NEW r \in Newest(S, n), NEW s \in Newest(S, n)
  PROVE  \A k \in 1 .. Len(r) : k <= Len(s) /\ r[k] = s[k]
<1> DEFINE Differ == {k \in 1 .. Len(r) : ~(k <= Len(s) /\ r[k] = s[k])}
<1> SUFFICES ASSUME Differ # {} PROVE FALSE
  OBVIOUS
<1>1. /\ Len(r) \in Nat /\ r \in [1 .. Len(r) -> S]
      /\ Len(s) \in Nat /\ s \in [1 .. Len(s) -> S]
  BY NewestType, LenProperties
<1>2. PICK k \in Differ : \A j \in Differ : k <= j
  <2>1. Differ \subseteq Nat  BY <1>1
  <2> HIDE DEF Differ
  <2> QED BY <2>1, LeastNatural
<1>3. k \in 1 .. Len(r) /\ ~(k <= Len(s) /\ r[k] = s[k])  OBVIOUS
<1>4. \A j \in 1 .. Len(r) : j < k => j <= Len(s) /\ r[j] = s[j]
  BY <1>1, <1>2, <1>3
<1> HIDE DEF Differ
<1>5. k <= Len(s) /\ r[k] <= s[k]  BY <1>3, <1>4, SameRow
<1>6. k \in 1 .. Len(s)  BY <1>1, <1>3, <1>5
<1>7. \A j \in 1 .. Len(s) : j < k => j <= Len(r) /\ s[j] = r[j]
  BY <1>1, <1>3, <1>4
<1>8. s[k] <= r[k]  BY <1>6, <1>7, SameRow
<1>9. r[k] \in Int /\ s[k] \in Int
  <2>1. \A i \in S : i \in Int  BY DEF Ids
  <2> QED BY <1>1, <1>3, <1>6, <2>1
<1> QED BY <1>3, <1>5, <1>8, <1>9

(* A strictly descending sequence of ids is not longer than there are ids. *)
LEMMA DescendingIsShort ==
  ASSUME NEW s \in Seq(Ids), Descending(s)
  PROVE  Len(s) <= MaxId
<1> USE UploadsAssumption
<1>1. Len(s) \in Nat /\ s \in [1 .. Len(s) -> Ids] /\ DOMAIN s = 1 .. Len(s)
  BY LenProperties
<1>2. s \in Injection(1 .. Len(s), Ids)
  BY <1>1 DEF Injection, IsInjective, Descending, Ids
<1>3. IsFiniteSet(Ids) /\ Cardinality(Ids) = MaxId  BY FS_Interval DEF Ids
<1>4. Cardinality(1 .. Len(s)) = Len(s)  BY <1>1, FS_Interval
<1> QED BY <1>2, <1>3, <1>4, FS_Injection

(* Appending a descending page of older ids keeps the order and adds the page. *)
LEMMA Appended ==
  ASSUME NEW s \in Seq(Ids), NEW p \in Seq(Ids), Descending(s), Descending(p),
         \A i \in ToSet(s), j \in ToSet(p) : i > j
  PROVE  /\ s \o p \in Seq(Ids)
         /\ Descending(s \o p)
         /\ ToSet(s \o p) = ToSet(s) \cup ToSet(p)
<1> DEFINE t == s \o p
<1>1. /\ Len(s) \in Nat /\ DOMAIN s = 1 .. Len(s)
      /\ Len(p) \in Nat /\ DOMAIN p = 1 .. Len(p)
      /\ \A k \in DOMAIN s : s[k] \in Ids
      /\ \A k \in DOMAIN p : p[k] \in Ids
  BY LenProperties, ElementOfSeq
<1>2. /\ t \in Seq(Ids) /\ Len(t) = Len(s) + Len(p) /\ DOMAIN t = 1 .. Len(s) + Len(p)
      /\ \A k \in DOMAIN t : t[k] = IF k <= Len(s) THEN s[k] ELSE p[k - Len(s)]
  BY ConcatProperties, LenProperties
<1> HIDE DEF t
<1>3. ASSUME NEW m \in DOMAIN t, NEW n \in DOMAIN t, m < n PROVE t[m] > t[n]
  <2>1. CASE n <= Len(s)  BY <1>1, <1>2, <1>3, <2>1 DEF Descending
  <2>2. CASE m > Len(s)
    <3>1. m - Len(s) \in DOMAIN p /\ n - Len(s) \in DOMAIN p  BY <1>1, <1>2, <1>3, <2>2
    <3>2. p[m - Len(s)] > p[n - Len(s)]  BY <1>1, <1>2, <1>3, <3>1 DEF Descending
    <3> QED BY <1>1, <1>2, <1>3, <2>2, <3>2
  <2>3. CASE m <= Len(s) /\ n > Len(s)
    <3>1. m \in DOMAIN s /\ n - Len(s) \in DOMAIN p  BY <1>1, <1>2, <2>3
    <3>2. s[m] > p[n - Len(s)]  BY <3>1 DEF ToSet
    <3> QED BY <1>1, <1>2, <2>3, <3>2
  <2> QED BY <1>1, <1>2, <2>1, <2>2, <2>3
<1>4. ToSet(t) \subseteq ToSet(s) \cup ToSet(p)
  <2> SUFFICES ASSUME NEW k \in DOMAIN t PROVE t[k] \in ToSet(s) \cup ToSet(p)
    BY DEF ToSet
  <2>1. CASE k <= Len(s)  BY <1>1, <1>2, <2>1 DEF ToSet
  <2>2. CASE k > Len(s)
    <3>1. k - Len(s) \in DOMAIN p  BY <1>1, <1>2, <2>2
    <3> QED BY <1>1, <1>2, <2>2, <3>1 DEF ToSet
  <2> QED BY <1>1, <1>2, <2>1, <2>2
<1>5. ToSet(s) \subseteq ToSet(t)
  BY <1>1, <1>2 DEF ToSet
<1>6. ToSet(p) \subseteq ToSet(t)
  <2> SUFFICES ASSUME NEW k \in DOMAIN p PROVE p[k] \in ToSet(t)
    BY DEF ToSet
  <2>1. k + Len(s) \in DOMAIN t /\ t[k + Len(s)] = p[k]
    <3>1. k + Len(s) \in DOMAIN t /\ ~(k + Len(s) <= Len(s)) /\ (k + Len(s)) - Len(s) = k
      BY <1>1, <1>2
    <3> QED BY <1>2, <3>1
  <2> QED BY <2>1 DEF ToSet
<1>7. Descending(t)  BY <1>3 DEF Descending
<1> QED BY <1>2, <1>4, <1>5, <1>6, <1>7 DEF t

(* What a page holds, and what having more, or not, says of the list. *)
PageOf(rows, limit) == IF Len(rows) > limit THEN SubSeq(rows, 1, limit) ELSE rows

(* A page is descending and of the list; with a row more it ends above the rest, *)
(* without it is the whole rest.                                                 *)
LEMMA PageHolds ==
  ASSUME NEW S \in SUBSET Ids, NEW limit \in Nat \ {0}, NEW rows \in Newest(S, limit + 1)
  PROVE  LET page == PageOf(rows, limit)
         IN  /\ page \in Seq(Ids) /\ Descending(page) /\ ToSet(page) \subseteq S
             /\ Len(rows) > limit =>
                  /\ Last(page) \in S
                  /\ \A i \in ToSet(page) : i >= Last(page)
                  /\ \A i \in S : i >= Last(page) => i \in ToSet(page)
             /\ ~(Len(rows) > limit) => S \subseteq ToSet(page)
<1> DEFINE page == PageOf(rows, limit)
<1> USE UploadsAssumption
<1>1. limit + 1 \in Nat /\ limit \in Nat  OBVIOUS
<1>2. rows \in Seq(S) /\ Len(rows) \in 0 .. limit + 1 /\ DOMAIN rows = 1 .. Len(rows)
  <2> DEFINE n == limit + 1
  <2>1. n \in Nat /\ rows \in Newest(S, n)  BY <1>1
  <2> HIDE DEF n
  <2>2. rows \in Seq(S) /\ Len(rows) \in 0 .. n /\ DOMAIN rows = 1 .. Len(rows)
    BY <2>1, NewestType
  <2> QED BY <2>2 DEF n
<1>3. \A k \in 1 .. Len(rows) : rows[k] \in S /\ rows[k] \in Int
  <2>1. rows \in [1 .. Len(rows) -> S]  BY <1>2, LenProperties
  <2>2. \A i \in S : i \in Int  BY DEF Ids
  <2> QED BY <2>1, <2>2
<1>4. \A j, k \in 1 .. Len(rows) : j < k => rows[j] > rows[k]
  BY <1>2 DEF Newest
<1>5. \A i \in S \ ToSet(rows) :
         Len(rows) = limit + 1 /\ \A k \in 1 .. Len(rows) : rows[k] > i
  BY <1>2 DEF Newest
<1>6. Len(rows) \in Nat /\ Len(rows) <= limit + 1  BY <1>1, <1>2
<1>7. CASE Len(rows) > limit
  <2>1. Len(rows) = limit + 1  BY <1>1, <1>7, <1>6
  <2>2. page = SubSeq(rows, 1, limit)  BY <1>7 DEF PageOf
  <2>3. \A k \in 1 .. limit : rows[k] \in Ids  BY <1>3, <2>1
  <2>4. /\ page \in Seq(Ids) /\ Len(page) = limit
        /\ \A k \in 1 .. limit : page[k] = rows[k]
    <3> HIDE DEF page
    <3>1. 1 \in Int /\ limit \in Int /\ 1 <= limit /\ limit - 1 + 1 = limit  OBVIOUS
    <3>2. \A k \in 1 .. limit : 1 + k - 1 = k  OBVIOUS
    <3> QED BY <2>2, <2>3, <3>1, <3>2, SubSeqProperties
  <2> HIDE DEF page
  <2>5. DOMAIN page = 1 .. limit  BY <2>4, LenProperties
  <2>6. Last(page) = rows[limit]  BY <2>4 DEF Last
  <2>7. Descending(page)  BY <1>4, <2>1, <2>4, <2>5 DEF Descending
  <2>8. ToSet(page) \subseteq S  BY <1>3, <2>1, <2>4, <2>5 DEF ToSet
  <2>9. \A i \in ToSet(page) : i >= Last(page)
    <3> SUFFICES ASSUME NEW k \in 1 .. limit PROVE rows[k] >= rows[limit]
      BY <2>4, <2>5, <2>6 DEF ToSet
    <3> QED BY <1>3, <1>4, <2>1
  <2>10. ASSUME NEW i \in S, i >= Last(page) PROVE i \in ToSet(page)
    <3>1. i \in ToSet(rows)
      BY <1>3, <1>5, <2>1, <2>6, <2>10 DEF Ids
    <3>2. PICK k \in 1 .. limit + 1 : rows[k] = i  BY <1>2, <2>1, <3>1 DEF ToSet
    <3>3. k # limit + 1  BY <1>3, <1>4, <2>1, <2>6, <2>10, <3>2
    <3>4. k \in 1 .. limit  BY <3>3
    <3> QED BY <2>4, <2>5, <3>2, <3>4 DEF ToSet
  <2>11. Last(page) \in S  BY <1>3, <2>1, <2>6
  <2> QED BY <1>7, <2>4, <2>7, <2>8, <2>9, <2>10, <2>11 DEF page
<1>8. CASE ~(Len(rows) > limit)
  <2>1. page = rows  BY <1>8 DEF PageOf
  <2>2. rows \in Seq(Ids)  BY <1>2, <1>8
  <2>3. Descending(rows)  BY <1>2, <1>4 DEF Descending
  <2>4. ToSet(rows) \subseteq S  BY <1>2, <1>3 DEF ToSet
  <2>5. S \subseteq ToSet(rows)
    <3>1. Len(rows) # limit + 1  BY <1>1, <1>6, <1>8
    <3> QED BY <1>5, <3>1
  <2> QED BY <1>8, <2>1, <2>2, <2>3, <2>4, <2>5
<1> QED BY <1>7, <1>8

-----------------------------------------------------------------------------
(* The inductive invariant. *)

(* What a step leaves alone stays as it was said to be. *)
LEMMA WalkKept ==
  ASSUME NEW w \in Walks, Standing(w), \A u : Owned(u) \subseteq Owned(u)',
         seen'[w] = seen[w], pc'[w] = pc[w], cursor'[w] = cursor[w],
         user'[w] = user[w], had'[w] = had[w]
  PROVE  Standing(w)'
BY DEF Standing, Descending

(* A page that is fetched from where a walk stands takes it a page further.   *)
LEMMA PageTaken ==
  ASSUME IInv, NEW w \in Walks, NEW asked \in Limits, Page(w, asked),
         had'[w] \subseteq Owned(user'[w]),
         ToSet(seen[w]) \subseteq Owned(user'[w]),
         \A i \in ToSet(seen[w]) : cursor[w] # 0 /\ i >= cursor[w],
         \A i \in had'[w] : ~Older(i, cursor[w]) => i \in ToSet(seen[w])
  PROVE  /\ seen'[w] \in Seq(Ids) /\ cursor'[w] \in 0 .. MaxId
         /\ Standing(w)'
         /\ pc'[w] = "done" =>
               {i \in Owned(user'[w]) : Older(i, cursor[w])} \subseteq ToSet(seen'[w])
<1> USE UploadsAssumption
<1> DEFINE limit == ClampLimit(asked)
           S == {i \in Owned(user'[w]) : Older(i, cursor[w])}
<1>1. PICK rows \in Newest(S, limit + 1) :
        /\ seen' = [seen EXCEPT ![w] = seen[w] \o PageOf(rows, limit)]
        /\ cursor' = [cursor EXCEPT ![w] =
                        IF Len(rows) > limit THEN Last(PageOf(rows, limit)) ELSE 0]
        /\ pc' = [pc EXCEPT ![w] = IF Len(rows) > limit THEN "walking" ELSE "done"]
        /\ UNCHANGED docVars
  BY DEF Page, Fetched, PageOf
<1>2. limit \in Nat \ {0}  BY ClampedLimit
<1>3. S \in SUBSET Ids  BY DEF Owned
<1> DEFINE page == PageOf(rows, limit)
           more == Len(rows) > limit
<1>4. /\ page \in Seq(Ids) /\ Descending(page) /\ ToSet(page) \subseteq S
      /\ more => /\ Last(page) \in S
                 /\ \A i \in ToSet(page) : i >= Last(page)
                 /\ \A i \in S : i >= Last(page) => i \in ToSet(page)
      /\ ~more => S \subseteq ToSet(page)
  <2> HIDE DEF limit, S
  <2> QED BY <1>1, <1>2, <1>3, PageHolds
<1>5. /\ seen[w] \in Seq(Ids) /\ cursor[w] \in 0 .. MaxId /\ Descending(seen[w])
      /\ pc \in [Walks -> {"idle", "walking", "done"}]
      /\ cursor \in [Walks -> 0 .. MaxId]
  BY DEF IInv, TypeOK, Standing
<1>6. seen'[w] = seen[w] \o page
  <2>1. w \in DOMAIN seen  BY DEF IInv, TypeOK
  <2> QED BY <1>1, <2>1
<1>7. /\ cursor'[w] = (IF more THEN Last(page) ELSE 0)
      /\ pc'[w] = (IF more THEN "walking" ELSE "done")
  BY <1>1, <1>5
<1> HIDE DEF page, more, limit
<1>8. \A i \in ToSet(seen[w]), j \in ToSet(page) : i > j
  <2> SUFFICES ASSUME NEW i \in ToSet(seen[w]), NEW j \in ToSet(page) PROVE i > j
    OBVIOUS
  <2>1. cursor[w] # 0 /\ i >= cursor[w] /\ i \in Ids  BY DEF Owned
  <2>2. j \in Ids /\ j < cursor[w]  BY <1>4, <2>1 DEF Older, Owned
  <2> QED BY <1>5, <2>1, <2>2 DEF Ids
<1>9. /\ seen'[w] \in Seq(Ids) /\ Descending(seen'[w])
      /\ ToSet(seen'[w]) = ToSet(seen[w]) \cup ToSet(page)
  BY <1>4, <1>5, <1>6, <1>8, Appended
<1>10. Owned(user'[w]) = Owned(user[w])'  BY <1>1 DEF docVars, Owned, Stored
<1>11. ToSet(seen'[w]) \subseteq Owned(user'[w])  BY <1>4, <1>9
<1>12. CASE more
  <2>1. /\ cursor'[w] = Last(page) /\ pc'[w] = "walking"
        /\ Last(page) \in S /\ Last(page) \in Ids
    BY <1>3, <1>4, <1>7, <1>12
  <2>2. cursor'[w] # 0 /\ cursor'[w] \in 0 .. MaxId  BY <2>1 DEF Ids
  <2>3. ASSUME NEW i \in ToSet(seen'[w]) PROVE i >= cursor'[w]
    <3>1. CASE i \in ToSet(page)  BY <1>4, <1>12, <2>1, <3>1
    <3>2. CASE i \in ToSet(seen[w])
      <4>1. cursor[w] # 0 /\ i >= cursor[w] /\ i \in Ids  BY <3>2 DEF Owned
      <4> QED BY <1>5, <2>1, <4>1 DEF Older, Ids
    <3> QED BY <1>9, <3>1, <3>2
  <2>4. ASSUME NEW i \in had'[w], i >= cursor'[w] PROVE i \in ToSet(seen'[w])
    <3>1. CASE Older(i, cursor[w])  BY <1>4, <1>9, <1>12, <2>1, <2>4, <3>1
    <3>2. CASE ~Older(i, cursor[w])  BY <1>9, <3>2
    <3> QED BY <3>1, <3>2
  <2> QED BY <1>9, <1>10, <1>11, <2>1, <2>2, <2>3, <2>4 DEF Standing, Descending
<1>13. CASE ~more
  <2>1. cursor'[w] = 0 /\ pc'[w] = "done"  BY <1>7, <1>13
  <2>2. S \subseteq ToSet(seen'[w])  BY <1>4, <1>9, <1>13
  <2>3. had'[w] \subseteq ToSet(seen'[w])  BY <1>9, <2>2
  <2> QED BY <1>9, <1>10, <1>11, <2>1, <2>2, <2>3 DEF Standing, Descending
<1> QED BY <1>12, <1>13

(* The inductive invariant holds at the start. *)
LEMMA InitInv == Init => IInv
<1> SUFFICES ASSUME Init PROVE IInv
  OBVIOUS
<1> USE UploadsAssumption DEF Init
<1>1. <<>> \in Seq(Ids) /\ Len(<<>>) = 0 /\ DOMAIN <<>> = {}  OBVIOUS
<1>2. TypeOK  BY <1>1 DEF TypeOK, Ids
<1>3. \A w \in Walks : Standing(w)  BY <1>1 DEF Standing, Descending
<1> QED BY <1>2, <1>3 DEF IInv, ServedRightly

(* A record is in the list of its owner from the insert on. *)
LEMMA ListsGrow == TypeOK /\ [Next]_vars => \A u : Owned(u) \subseteq Owned(u)'
<1> SUFFICES ASSUME TypeOK, [Next]_vars, NEW u, NEW i \in Owned(u) PROVE i \in Owned(u)'
  OBVIOUS
<1> USE DEF Owned, Stored, TypeOK
<1>1. ASSUME DrawId PROVE i \in Owned(u)'
  BY <1>1 DEF DrawId, Ids
<1>2. ASSUME NEW j \in Ids, Insert(j) PROVE i \in Owned(u)'
  BY <1>2 DEF Insert
<1>3. ASSUME NEW v \in Users, NEW j \in Ids, MarkReady(v, j) PROVE i \in Owned(u)'
  BY <1>3 DEF MarkReady
<1>4. ASSUME UNCHANGED <<stage, owner>> PROVE i \in Owned(u)'
  BY <1>4
<1> QED
  BY <1>1, <1>2, <1>3, <1>4
  DEF Next, vars, docVars, Share, Download, DownloadWeb, Serve, FirstPage, NextPage, Page

(* A walk that begins with its first page... *)
LEMMA FirstPageTaken ==
  ASSUME IInv, NEW w \in Walks, FirstPage(w)
  PROVE  /\ user' \in [Walks -> Users \cup {NoUser}] /\ had' \in [Walks -> SUBSET Ids]
         /\ \A v \in Walks \ {w} : user'[v] = user[v] /\ had'[v] = had[v]
         /\ \E asked \in Limits : Page(w, asked)
         /\ seen'[w] \in Seq(Ids) /\ cursor'[w] \in 0 .. MaxId
         /\ Standing(w)'
         /\ pc'[w] = "done" =>
               {i \in Owned(user'[w]) : Older(i, cursor[w])} \subseteq ToSet(seen'[w])
<1>1. PICK u \in Users : /\ user' = [user EXCEPT ![w] = u]
                         /\ had' = [had EXCEPT ![w] = Owned(u)]
  BY DEF FirstPage
<1>2. PICK asked \in Limits : Page(w, asked)  BY DEF FirstPage
<1>3. seen[w] = <<>> /\ cursor[w] = 0  BY DEF FirstPage, IInv, Standing
<1>4. ToSet(seen[w]) = {}  BY <1>3 DEF ToSet
<1>5. /\ user'[w] = u /\ had'[w] = Owned(u)
      /\ user' \in [Walks -> Users \cup {NoUser}] /\ had' \in [Walks -> SUBSET Ids]
      /\ \A v \in Walks \ {w} : user'[v] = user[v] /\ had'[v] = had[v]
  BY <1>1 DEF IInv, TypeOK, Owned
<1>6. \A i \in had'[w] : Older(i, cursor[w])  BY <1>3 DEF Older
<1> QED BY <1>2, <1>4, <1>5, <1>6, PageTaken

(* ... and a walk that goes on with the next. *)
LEMMA NextPageTaken ==
  ASSUME IInv, NEW w \in Walks, NextPage(w)
  PROVE  /\ UNCHANGED <<user, had>>
         /\ \E asked \in Limits : Page(w, asked)
         /\ seen'[w] \in Seq(Ids) /\ cursor'[w] \in 0 .. MaxId
         /\ Standing(w)'
         /\ pc'[w] = "done" =>
               {i \in Owned(user'[w]) : Older(i, cursor[w])} \subseteq ToSet(seen'[w])
<1>1. pc[w] = "walking" /\ UNCHANGED <<user, had>>  BY DEF NextPage
<1>2. PICK asked \in Limits : Page(w, asked)  BY DEF NextPage
<1>3. /\ ToSet(seen[w]) \cup had[w] \subseteq Owned(user[w])
      /\ cursor[w] # 0
      /\ \A i \in ToSet(seen[w]) : i >= cursor[w]
      /\ \A i \in had[w] : i >= cursor[w] => i \in ToSet(seen[w])
  BY <1>1 DEF IInv, Standing
<1>4. PICK i \in Ids : i = cursor[w]
  BY <1>3, UploadsAssumption DEF IInv, TypeOK, Ids
<1>5. \A j \in had[w] : ~Older(j, cursor[w]) => j \in ToSet(seen[w])
  <2> SUFFICES ASSUME NEW j \in had[w], ~Older(j, cursor[w]) PROVE j >= cursor[w]
    BY <1>3
  <2>1. j \in Ids  BY <1>3 DEF Owned
  <2> QED BY <1>4, <2>1, UploadsAssumption DEF Older, Ids
<1> QED BY <1>1, <1>2, <1>3, <1>5, PageTaken

(* A page taken by one walk leaves a good state. *)
LEMMA PageInv ==
  ASSUME IInv, [Next]_vars, NEW w \in Walks, NEW asked \in Limits, Page(w, asked),
         user' \in [Walks -> Users \cup {NoUser}], had' \in [Walks -> SUBSET Ids],
         \A v \in Walks \ {w} : user'[v] = user[v] /\ had'[v] = had[v],
         seen'[w] \in Seq(Ids), cursor'[w] \in 0 .. MaxId, Standing(w)'
  PROVE  IInv'
<1> USE UploadsAssumption
<1> DEFINE page == seen'[w]
<1>1. /\ UNCHANGED <<docVars, served>>
      /\ \E p, c : seen' = [seen EXCEPT ![w] = p] /\ cursor' = [cursor EXCEPT ![w] = c]
      /\ \E to \in {"walking", "done"} : pc' = [pc EXCEPT ![w] = to]
  BY DEF Page
<1>2. \A v \in Walks \ {w} : /\ seen'[v] = seen[v] /\ cursor'[v] = cursor[v]
                             /\ pc'[v] = pc[v]
  BY <1>1 DEF IInv, TypeOK
<1>3. ASSUME NEW v \in Walks PROVE Standing(v)'
  <2>1. CASE v = w  BY <2>1
  <2>2. CASE v # w
    BY <1>2, <2>2, ListsGrow, WalkKept DEF IInv
  <2> QED BY <2>1, <2>2
<1>4. TypeOK'
  <2>1. seen' \in [Walks -> Seq(Ids)] /\ cursor' \in [Walks -> 0 .. MaxId]
    BY <1>1 DEF IInv, TypeOK
  <2>2. pc' \in [Walks -> {"idle", "walking", "done"}]  BY <1>1 DEF IInv, TypeOK
  <2>3. \A v \in Walks : Len(seen'[v]) <= MaxId
    <3> SUFFICES ASSUME NEW v \in Walks PROVE Len(seen'[v]) <= MaxId
      OBVIOUS
    <3>1. Descending(seen'[v]) /\ seen'[v] \in Seq(Ids)
      BY <1>3, <2>1 DEF Standing, Descending
    <3> QED BY <3>1, DescendingIsShort
  <2> QED BY <1>1, <2>1, <2>2, <2>3 DEF IInv, TypeOK, docVars, Ids
<1>5. ServedRightly'
  BY <1>1 DEF IInv, ServedRightly, docVars, Stored
<1> QED BY <1>3, <1>4, <1>5 DEF IInv

(* A download serves a record that is there, to its owner unless shared. *)
LEMMA ServeInv ==
  ASSUME IInv, NEW who \in Users \cup {NoUser}, NEW i \in Ids, NEW route,
         Stored(i), route # "share" => owner[i] = who, Serve(who, i, route)
  PROVE  IInv'
<1>1. served' = {<<who, i, route>>} /\ route \in Routes /\ UNCHANGED <<docVars, walkVars>>
  BY DEF Serve
<1>2. TypeOK'  BY <1>1 DEF IInv, TypeOK, docVars, walkVars, Ids
<1>3. ServedRightly'  BY <1>1 DEF ServedRightly, docVars, Stored
<1>4. ASSUME NEW w \in Walks PROVE Standing(w)'
  BY <1>1 DEF IInv, Standing, Descending, Owned, Stored, docVars, walkVars
<1> QED BY <1>2, <1>3, <1>4 DEF IInv

(* No step leaves the inductive invariant. *)
LEMMA NextInv == IInv /\ [Next]_vars => IInv'
<1> SUFFICES ASSUME IInv, [Next]_vars PROVE IInv'
  OBVIOUS
<1> USE UploadsAssumption
<1>1. ASSUME UNCHANGED walkVars PROVE \A w \in Walks : Standing(w)'
  BY <1>1, ListsGrow, WalkKept DEF walkVars, IInv
<1>2. ASSUME DrawId PROVE IInv'
  <2>1. TypeOK'  BY <1>2 DEF DrawId, IInv, TypeOK, walkVars, Ids
  <2>2. ServedRightly'
    <3> SUFFICES ASSUME NEW s \in served
                 PROVE  Stored(s[2])' /\ (s[3] # "share" => owner'[s[2]] = s[1])
      BY <1>2 DEF DrawId, ServedRightly
    <3>1. s[2] \in Ids  BY DEF IInv, TypeOK
    <3> QED BY <1>2, <3>1 DEF DrawId, IInv, TypeOK, ServedRightly, Stored, Ids
  <2> QED BY <1>1, <1>2, <2>1, <2>2 DEF DrawId, IInv
<1>3. ASSUME NEW i \in Ids, Insert(i) PROVE IInv'
  <2>1. TypeOK'  BY <1>3 DEF Insert, IInv, TypeOK, walkVars, Ids
  <2>2. ServedRightly'  BY <1>3 DEF Insert, IInv, TypeOK, ServedRightly, Stored
  <2> QED BY <1>1, <1>3, <2>1, <2>2 DEF Insert, IInv
<1>4. ASSUME NEW u \in Users, NEW i \in Ids, MarkReady(u, i) PROVE IInv'
  <2>1. TypeOK'  BY <1>4 DEF MarkReady, IInv, TypeOK, walkVars, Ids
  <2>2. ServedRightly'  BY <1>4 DEF MarkReady, Matches, ServedRightly, Stored
  <2> QED BY <1>1, <1>4, <2>1, <2>2 DEF MarkReady, IInv
<1>5. ASSUME NEW u \in Users, NEW i \in Ids, Download(u, i) PROVE IInv'
  BY <1>5, ServeInv DEF Download, Matches
<1>6. ASSUME NEW i \in Ids, DownloadWeb(i) PROVE IInv'
  BY <1>6, ServeInv DEF DownloadWeb, FoundByWeb
<1>7. ASSUME NEW i \in Ids, Share(i) PROVE IInv'
  BY <1>7, ServeInv DEF Share
<1>8. ASSUME NEW w \in Walks, FirstPage(w) PROVE IInv'
  BY <1>8, FirstPageTaken, PageInv
<1>9. ASSUME NEW w \in Walks, NextPage(w) PROVE IInv'
  <2>1. user' \in [Walks -> Users \cup {NoUser}] /\ had' \in [Walks -> SUBSET Ids]
    BY <1>9, NextPageTaken DEF IInv, TypeOK
  <2> QED BY <1>9, <2>1, NextPageTaken, PageInv
<1>10. ASSUME UNCHANGED vars PROVE IInv'
  <2>1. TypeOK' /\ ServedRightly'
    BY <1>10 DEF vars, docVars, walkVars, IInv, TypeOK, ServedRightly, Stored, Ids
  <2> QED BY <1>1, <1>10, <2>1 DEF vars, IInv
<1> QED
  BY <1>2, <1>3, <1>4, <1>5, <1>6, <1>7, <1>8, <1>9, <1>10 DEF Next

(* ... and so it is an invariant. *)
LEMMA Invariance == Spec => []IInv
BY InitInv, NextInv, PTL DEF Spec

-----------------------------------------------------------------------------
(* The theorems. *)

(* Whatever is asked of whatever list, there is exactly one answer: the query *)
(* of ListByOwner is a function of the records, and no walk can get stuck.    *)
THEOREM OneAnswer ==
  ASSUME NEW S \in SUBSET Ids, NEW n \in Nat
  PROVE  \E rows : Newest(S, n) = {rows}
<1>1. PICK rows : rows \in Newest(S, n)  BY NewestExists
<1>2. ASSUME NEW other \in Newest(S, n) PROVE other = rows
  <2>1. rows \in Seq(S) /\ Len(rows) \in Nat /\ other \in Seq(S) /\ Len(other) \in Nat
    BY <1>1, NewestType
  <2>2. /\ \A k \in 1 .. Len(rows) : k <= Len(other) /\ rows[k] = other[k]
        /\ \A k \in 1 .. Len(other) : k <= Len(rows) /\ other[k] = rows[k]
    BY <1>1, SamePrefix
  <2>3. Len(rows) = Len(other)
    <3>1. Len(rows) = 0 \/ Len(rows) \in 1 .. Len(rows)  BY <2>1
    <3>2. Len(other) = 0 \/ Len(other) \in 1 .. Len(other)  BY <2>1
    <3>3. Len(rows) <= Len(other)  BY <2>1, <2>2, <3>1
    <3>4. Len(other) <= Len(rows)  BY <2>1, <2>2, <3>2
    <3> QED BY <2>1, <3>3, <3>4
  <2> QED BY <2>1, <2>2, <2>3, SeqEqual
<1> QED BY <1>1, <1>2

(* Every variable of the records keeps its type: no walk is ever given more   *)
(* items than there are uploads.                                              *)
THEOREM TypeCorrect == Spec => []TypeOK
<1>1. IInv => TypeOK  BY DEF IInv
<1> QED BY Invariance, <1>1, PTL

(* A walk over pages of any sizes, with uploads coming in on both sides of    *)
(* its cursor, gives nothing twice, newest first, and all that was there when *)
(* it began (Service.List, Repo.ListByOwner).                                 *)
THEOREM WalksAreExact == Spec => []WalkExact
<1>1. IInv => WalkExact  BY DEF IInv, Standing, Descending, WalkExact
<1> QED BY Invariance, <1>1, PTL

(* The answer that there is no more is true when it is given, also of records *)
(* whose insert came after younger ones (Service.List).                       *)
THEOREM LastPagesAreLast == Spec => LastPageIsLast
<1> DEFINE Left(w) == {i \in Owned(user'[w]) : Older(i, cursor[w])}
           Ends == \A w \in Walks : pc[w] # "done" /\ pc'[w] = "done" =>
                     Left(w) \subseteq ToSet(seen'[w])
<1>1. IInv /\ [Next]_vars => [Ends]_vars
  <2> SUFFICES ASSUME IInv, [Next]_vars,
                      NEW w \in Walks, pc[w] # "done", pc'[w] = "done"
               PROVE  Left(w) \subseteq ToSet(seen'[w])
    OBVIOUS
  <2>1. PICK v \in Walks : FirstPage(v) \/ NextPage(v)
    BY DEF Next, vars, walkVars, DrawId, Insert, MarkReady, Download, DownloadWeb, Share, Serve
  <2>2. PICK asked \in Limits : Page(v, asked)  BY <2>1 DEF FirstPage, NextPage
  <2>3. v = w  BY <2>2 DEF Page, IInv, TypeOK
  <2> QED BY <2>1, <2>3, FirstPageTaken, NextPageTaken
<1> QED BY Invariance, <1>1, PTL DEF Spec, LastPageIsLast

(* The lists and the routes by owner lead to own uploads only, the web route  *)
(* to web uploads only (Repo.FindByIDOwner, FindByIDWeb, ListByOwner).        *)
THEOREM OwnersAreIsolated == Spec => []OwnersIsolated
<1>1. IInv => OwnersIsolated
  <2> SUFFICES ASSUME IInv PROVE OwnersIsolated
    OBVIOUS
  <2>1. ASSUME NEW w \in Walks, NEW i \in ToSet(seen[w]) PROVE owner[i] = user[w]
    <3>1. CASE pc[w] = "idle"  BY <2>1, <3>1 DEF IInv, Standing, ToSet
    <3>2. CASE pc[w] # "idle"  BY <2>1, <3>2 DEF IInv, Standing, Owned
    <3> QED BY <3>1, <3>2
  <2> QED BY <2>1 DEF IInv, ServedRightly, OwnersIsolated
<1> QED BY Invariance, <1>1, PTL
==============================================================================
