--------------------------- MODULE RateLimitProofs ---------------------------
(***************************************************************************)
(* Proofs about RateLimit, for any finite set of requests, any limit,      *)
(* window and slack, any number of retries, and any set of faults.         *)
(*                                                                         *)
(* The inductive invariant numbers the lives of a counter (Lived): each is *)
(* at least a window and the slack after the one before, and lets no more  *)
(* than the limit through.  A counter is never ahead of the INCRs of its   *)
(* requests (Covered).                                                     *)
(***************************************************************************)
EXTENDS RateLimit, FiniteSetTheorems, TLAPS

Keys == Clients \X Buckets

(* Where the limiter stands with a request. *)
Placed(q) ==
    /\ pc[q] = "idle" => count[q] = 0 /\ unheard[q] = 0 /\ fate[q] = "none"
    /\ pc[q] # "idle" => client[q] \in Clients /\ since[q] <= now
    /\ pc[q] \in Steps => fate[q] = "none"
    /\ pc[q] = "incr" => count[q] = 0 /\ unheard[q] <= MaxRetries
    /\ pc[q] \in {"expire", "judge"} => count[q] # 0
    /\ fate[q] = "passed" => count[q] \in 1 .. Limit
    /\ fate[q] = "limited" => count[q] > Limit

(* The requests that were given a number within the limit, and how many of   *)
(* them the counter's present life may have: as many as it was incremented.  *)
Let(k)    == {q \in Reqs : count[q] \in 1 .. Limit /\ Key(q) = k}
Share(k)  == IF hits[k] <= Limit THEN hits[k] ELSE Limit

(* The counter has had n lives before this one, each of them as long as a TTL *)
(* at least, and each let no more than the limit through.                     *)
LivedTimes(k, n) ==
    /\ hits[k] = 0 => n = 0
    /\ hits[k] # 0 => k[2] + n * Lifetime <= now
    /\ until[k] # Never => hits[k] # 0 /\ k[2] + n * Lifetime + Lifetime <= until[k]
    /\ Cardinality(Let(k)) <= n * Limit + Share(k)

Lived(k) == \E n \in Nat : LivedTimes(k, n)

(* The requests that were counted in a window, and the INCRs of a request *)
(* whose answers were lost, numbered.                                     *)
Attempts   == 1 .. MaxRetries + 1
Counts(k)  == {q \in Reqs : count[q] # 0 /\ Key(q) = k}
Resends(k) == {r \in Reqs \X Attempts : r[2] <= unheard[r[1]] /\ Key(r[1]) = k}
Paid(k)    == Cardinality(Counts(k)) + Cardinality(Resends(k))

Covered(k) ==
    /\ hits[k] <= Paid(k)
    /\ \A q \in Reqs : count[q] # 0 /\ Key(q) = k => count[q] <= Paid(k)

IInv ==
    /\ TypeOK
    /\ \A q \in Reqs : Placed(q)
    /\ \A k \in Keys : Lived(k)
    /\ \A k \in Keys : Covered(k)

-----------------------------------------------------------------------------
(* Division *)

(* What is left of a number when the rest is taken off is a multiple. *)
LEMMA Truncated ==
  ASSUME NEW s \in Nat, NEW w \in Nat \ {0}
  PROVE  /\ s - (s % w) \in 0 .. s /\ s < s - (s % w) + w
         /\ (s - (s % w)) % w = 0
<1> DEFINE d == s \div w
<1>1. d \in Nat  BY SMT
<1>2. s % w \in 0 .. w - 1  BY SMT
<1>3. s = w * d + (s % w)  BY SMT
<1>4. s - (s % w) = w * d  BY <1>1, <1>2, <1>3
<1>5. s - (s % w) \in 0 .. s  BY SMT
<1> HIDE DEF d
<1>6. (w * d) % w = 0  BY <1>1
<1> QED BY <1>2, <1>4, <1>5, <1>6

(* Multiples of a number, without division. *)
LEMMA Multiples ==
  ASSUME NEW n \in Nat, NEW d \in Nat
  PROVE  /\ n * d \in Nat
         /\ (n + 1) * d = n * d + d
         /\ \A m \in Nat : n <= m => n * d <= m * d
         /\ \A m \in Nat : n * d < m * d => n < m
<1>1. n * d \in Nat /\ (n + 1) * d = n * d + d  BY SMT
<1>2. ASSUME NEW m \in Nat, n <= m PROVE n * d <= m * d  BY <1>2, SMT
<1>3. ASSUME NEW m \in Nat, n * d < m * d PROVE n < m
  <2>1. CASE m <= n
    <3>1. m * d <= n * d  BY <2>1, SMT
    <3> QED BY <1>1, <1>3, <3>1, SMT
  <2> QED BY <2>1
<1> QED BY <1>1, <1>2, <1>3

(* The counter of a request that has arrived, and when its window is. *)
LEMMA KeyType ==
  ASSUME TypeOK, NEW q \in Reqs, client[q] \in Clients
  PROVE  /\ Key(q) \in Keys /\ Key(q)[2] = Bucket(q) /\ Bucket(q) \in Nat
         /\ Bucket(q) <= since[q] /\ since[q] < Bucket(q) + Window
<1>1. since[q] \in Nat /\ since[q] <= MaxTime /\ Window \in Nat \ {0} /\ MaxTime \in Nat
  BY LimitAssumption DEF TypeOK
<1>2. Bucket(q) \in 0 .. since[q] /\ since[q] < Bucket(q) + Window /\ Bucket(q) % Window = 0
  BY <1>1, Truncated DEF Bucket
<1>3. Bucket(q) \in Buckets  BY <1>1, <1>2 DEF Buckets
<1> QED BY <1>1, <1>2, <1>3 DEF Key, Keys

(* The sets of requests are finite. *)
LEMMA PaidType ==
  ASSUME NEW k
  PROVE  /\ IsFiniteSet(Counts(k)) /\ Cardinality(Counts(k)) \in Nat
         /\ IsFiniteSet(Resends(k)) /\ Cardinality(Resends(k)) \in Nat
         /\ Paid(k) \in Nat
<1>1. IsFiniteSet(Reqs) /\ IsFiniteSet(Attempts)
  BY LimitAssumption, FS_Interval DEF Attempts
<1>2. IsFiniteSet(Reqs \X Attempts)  BY <1>1, FS_Product
<1>3. Counts(k) \subseteq Reqs /\ Resends(k) \subseteq Reqs \X Attempts  BY DEF Counts, Resends
<1>4. IsFiniteSet(Counts(k)) /\ IsFiniteSet(Resends(k))
  BY <1>1, <1>2, <1>3, FS_Subset
<1> QED BY <1>4, FS_CardinalityType DEF Paid

-----------------------------------------------------------------------------
(* The initial states satisfy the invariant. *)
LEMMA InitInv == Init => IInv
<1> SUFFICES ASSUME Init PROVE IInv
  OBVIOUS
<1> USE LimitAssumption DEF Init
<1>1. TypeOK  BY DEF TypeOK, Buckets, Never
<1>2. \A q \in Reqs : Placed(q)  BY DEF Placed, Steps
<1>3. ASSUME NEW k \in Keys PROVE Lived(k)
  <2>1. hits[k] = 0 /\ until[k] = Never /\ Share(k) = 0  BY DEF Keys, Share
  <2>2. Let(k) = {}  BY DEF Let
  <2>3. Cardinality(Let(k)) = 0 /\ 0 * Limit = 0  BY <2>2, FS_EmptySet
  <2>4. LivedTimes(k, 0)  BY <2>1, <2>3 DEF LivedTimes
  <2> QED BY <2>4 DEF Lived
<1>4. \A k \in Keys : Covered(k)
  <2>1. \A k \in Keys : hits[k] = 0  BY DEF Keys
  <2> QED BY <2>1, PaidType DEF Covered
<1> QED BY <1>1, <1>2, <1>3, <1>4 DEF IInv

(* No step leaves the types. *)
LEMMA NextType == IInv /\ [Next]_vars => TypeOK'
<1> SUFFICES ASSUME IInv, [Next]_vars PROVE TypeOK'
  OBVIOUS
<1> USE LimitAssumption DEF TypeOK, Steps, Goto, Decide, Never
<1>0. TypeOK /\ Buckets \subseteq Nat /\ \A q \in Reqs : Placed(q)  BY DEF IInv, Buckets
<1>1. ASSUME NEW q \in Reqs, pc[q] \in Steps PROVE Key(q) \in Clients \X Buckets
  BY <1>0, <1>1, KeyType DEF Placed, Keys
<1>2. ASSUME NEW k \in Clients \X Buckets, Counted(k)
      PROVE  /\ hits' \in [Clients \X Buckets -> Nat] /\ hits'[k] \in Nat
             /\ until' \in [Clients \X Buckets -> 0 .. MaxTime + Window + Slack \cup {Never}]
  BY <1>0, <1>2 DEF Counted
<1>3. ASSUME NEW q \in Reqs, Arrive(q) PROVE TypeOK'
  BY <1>0, <1>3 DEF Arrive
<1>4. ASSUME NEW q \in Reqs, Incr(q) PROVE TypeOK'
  BY <1>0, <1>1, <1>2, <1>4 DEF Incr
<1>5. ASSUME NEW q \in Reqs, IncrRefused(q) PROVE TypeOK'
  BY <1>0, <1>5 DEF IncrRefused
<1>6. ASSUME NEW q \in Reqs, IncrAckLost(q) PROVE TypeOK'
  <2>1. pc[q] = "incr" /\ unheard[q] \in 0 .. MaxRetries
    BY <1>0, <1>6 DEF IncrAckLost, Placed
  <2>2. unheard' \in [Reqs -> 0 .. MaxRetries + 1]  BY <1>0, <1>6, <2>1 DEF IncrAckLost
  <2>3. /\ pc' \in [Reqs -> Steps \cup {"idle", "done"}]
        /\ fate' \in [Reqs -> {"none", "passed", "failedOpen", "limited", "lost"}]
    BY <1>0, <1>6 DEF IncrAckLost
  <2>4. /\ hits' \in [Clients \X Buckets -> Nat]
        /\ until' \in [Clients \X Buckets -> 0 .. MaxTime + Window + Slack \cup {Never}]
    BY <1>1, <1>2, <1>6, <2>1 DEF IncrAckLost
  <2>5. UNCHANGED <<now, client, since, count>>  BY <1>6 DEF IncrAckLost
  <2> QED BY <1>0, <2>2, <2>3, <2>4, <2>5
<1>7. ASSUME NEW q \in Reqs, Expire(q) PROVE TypeOK'
  BY <1>0, <1>1, <1>7 DEF Expire
<1>8. ASSUME NEW q \in Reqs, Judge(q) PROVE TypeOK'
  BY <1>0, <1>8 DEF Judge
<1>9. CASE Tick  BY <1>0, <1>9 DEF Tick
<1>10. CASE Crash  BY <1>0, <1>10 DEF Crash
<1>11. CASE UNCHANGED vars  BY <1>0, <1>11 DEF vars
<1> QED
  BY <1>3, <1>4, <1>5, <1>6, <1>7, <1>8, <1>9, <1>10, <1>11 DEF Next, Handle

(* No step misplaces a request. *)
LEMMA NextPlaced == IInv /\ [Next]_vars => \A q \in Reqs : Placed(q)'
<1> SUFFICES ASSUME IInv, [Next]_vars, NEW p \in Reqs PROVE Placed(p)'
  OBVIOUS
<1> USE LimitAssumption DEF Placed, Steps, Goto, Decide
<1>0. TypeOK /\ TypeOK' /\ Placed(p)  BY NextType DEF IInv
<1> USE DEF TypeOK
<1>1. ASSUME NEW q \in Reqs, pc[q] \in Steps PROVE Key(q) \in Clients \X Buckets
  BY <1>0, <1>1, KeyType DEF IInv, Keys
<1>2. ASSUME NEW q \in Reqs, Arrive(q) PROVE Placed(p)'
  BY <1>0, <1>2 DEF Arrive
<1>3. ASSUME NEW q \in Reqs, Incr(q) PROVE Placed(p)'
  <2>1. hits'[Key(q)] \in Nat \ {0}
    BY <1>0, <1>1, <1>3 DEF Incr, Counted, Live
  <2> QED BY <1>0, <1>3, <2>1 DEF Incr
<1>4. ASSUME NEW q \in Reqs, IncrRefused(q) \/ IncrAckLost(q) PROVE Placed(p)'
  BY <1>0, <1>4 DEF IncrRefused, IncrAckLost
<1>5. ASSUME NEW q \in Reqs, Expire(q) PROVE Placed(p)'
  BY <1>0, <1>5 DEF Expire
<1>6. ASSUME NEW q \in Reqs, Judge(q) PROVE Placed(p)'
  BY <1>0, <1>6 DEF Judge, Allowed
<1>7. CASE Tick  BY <1>0, <1>7 DEF Tick
<1>8. CASE Crash  BY <1>0, <1>8 DEF Crash
<1>9. CASE UNCHANGED vars  BY <1>0, <1>9 DEF vars
<1> QED
  BY <1>2, <1>3, <1>4, <1>5, <1>6, <1>7, <1>8, <1>9 DEF Next, Handle

(* Every step but Arrive leaves the requests in their windows, and Arrive moves *)
(* a request that was not counted yet.                                          *)
LEMMA NextKeys ==
  ASSUME IInv, [Next]_vars, NEW p \in Reqs
  PROVE  \/ Key(p)' = Key(p)
         \/ count[p] = 0 /\ count'[p] = 0 /\ unheard[p] = 0 /\ unheard'[p] = 0
<1> USE DEF Key, Bucket, Goto, Decide
<1>0. TypeOK /\ Placed(p)  BY DEF IInv
<1>1. ASSUME NEW q \in Reqs, Arrive(q)
      PROVE  \/ Key(p)' = Key(p)
             \/ count[p] = 0 /\ count'[p] = 0 /\ unheard[p] = 0 /\ unheard'[p] = 0
  BY <1>0, <1>1 DEF Arrive, Placed, TypeOK
<1>2. ASSUME NEW q \in Reqs, Handle(q) PROVE Key(p)' = Key(p)
  BY <1>2 DEF Handle, Incr, IncrRefused, IncrAckLost, Expire, Judge
<1>3. ASSUME Tick \/ Crash \/ UNCHANGED vars PROVE Key(p)' = Key(p)
  BY <1>3 DEF Tick, Crash, vars
<1> QED BY <1>1, <1>2, <1>3 DEF Next

-----------------------------------------------------------------------------
(* Lives of a counter *)

(* The requests a window let through, and the share of the counter, are finite. *)
LEMMA LetType ==
  ASSUME TypeOK, NEW k \in Keys
  PROVE  /\ Let(k) \subseteq Reqs /\ IsFiniteSet(Let(k)) /\ Cardinality(Let(k)) \in Nat
         /\ Share(k) \in Nat /\ hits[k] \in Nat /\ k[2] \in Nat /\ k \in Clients \X Buckets
         /\ until[k] \in Int /\ (until[k] # Never => until[k] \in Nat)
<1>1. Let(k) \subseteq Reqs  BY DEF Let
<1>2. IsFiniteSet(Let(k))  BY <1>1, LimitAssumption, FS_Subset
<1>3. Cardinality(Let(k)) \in Nat  BY <1>2, FS_CardinalityType
<1>4. /\ k \in Clients \X Buckets /\ k[2] \in Nat /\ hits[k] \in Nat
      /\ until[k] \in 0 .. MaxTime + Window + Slack \cup {Never}
  BY DEF TypeOK, Keys, Buckets
<1>5. Share(k) \in Nat  BY <1>4, LimitAssumption DEF Share
<1>6. until[k] \in Int /\ (until[k] # Never => until[k] \in Nat)
  BY <1>4, LimitAssumption DEF Never
<1> QED BY <1>1, <1>2, <1>3, <1>4, <1>5, <1>6

(* A step that counts nobody leaves the requests that were let through. *)
LEMMA LetSame ==
  ASSUME IInv, [Next]_vars, count' = count, NEW k
  PROVE  Let(k)' = Let(k)
<1>1. \A p \in Reqs : count[p] \in 1 .. Limit => Key(p)' = Key(p)
  BY NextKeys, LimitAssumption
<1>2. \A p \in Reqs : count[p] \in 1 .. Limit /\ Key(p)' = k <=> count[p] \in 1 .. Limit /\ Key(p) = k
  BY <1>1
<1> QED BY <1>2 DEF Let

(* An INCR goes on with the counter's life or begins another: there is room in *)
(* it for the request, unless its number is beyond the limit.                  *)
LEMMA Incremented ==
  ASSUME TypeOK, TypeOK', NEW k \in Keys, Lived(k), Counted(k), k[2] <= now
  PROVE  \E m \in Nat :
            /\ hits'[k] # 0
            /\ k[2] + m * Lifetime <= now
            /\ until'[k] # Never => k[2] + m * Lifetime + Lifetime <= until'[k]
            /\ Cardinality(Let(k)) <= m * Limit + Share(k)'
            /\ hits'[k] <= Limit => Cardinality(Let(k)) + 1 <= m * Limit + Share(k)'
<1>0. /\ Limit \in Nat /\ Limit > 0 /\ Lifetime \in Nat /\ now \in Nat
      /\ Cardinality(Let(k)) \in Nat /\ Share(k) \in Nat /\ hits[k] \in Nat /\ k[2] \in Nat
      /\ until[k] \in Int /\ k \in Clients \X Buckets
  BY LetType, LimitAssumption DEF Lifetime, TypeOK
<1>1. PICK n \in Nat : LivedTimes(k, n)  BY DEF Lived
<1>2. /\ n * Limit \in Nat /\ (n + 1) * Limit = n * Limit + Limit
      /\ n * Lifetime \in Nat /\ (n + 1) * Lifetime = n * Lifetime + Lifetime
  BY <1>0, Multiples
<1>3. /\ hits'[k] = IF Live(k) THEN hits[k] + 1 ELSE 1
      /\ until'[k] = IF Live(k) THEN until[k] ELSE Never
  BY <1>0 DEF Counted, TypeOK
<1>4. CASE Live(k)
  <2>1. /\ hits'[k] = hits[k] + 1 /\ until'[k] = until[k] /\ hits[k] # 0
    BY <1>0, <1>3, <1>4 DEF Live
  <2>2. Share(k)' = IF hits[k] + 1 <= Limit THEN hits[k] + 1 ELSE Limit  BY <2>1 DEF Share
  <2>3. Share(k) <= Share(k)' /\ (hits[k] + 1 <= Limit => Share(k)' = Share(k) + 1)
    BY <1>0, <2>2 DEF Share
  <2>4. Share(k)' \in Nat  BY <1>0, <2>2
  <2>5. /\ hits'[k] # 0 /\ k[2] + n * Lifetime <= now
        /\ until'[k] # Never => k[2] + n * Lifetime + Lifetime <= until'[k]
    BY <1>0, <1>1, <2>1 DEF LivedTimes
  <2>6. Cardinality(Let(k)) <= n * Limit + Share(k)  BY <1>1 DEF LivedTimes
  <2>7. /\ Cardinality(Let(k)) <= n * Limit + Share(k)'
        /\ hits'[k] <= Limit => Cardinality(Let(k)) + 1 <= n * Limit + Share(k)'
    <3> DEFINE c == Cardinality(Let(k))  a == n * Limit  x == Share(k)  y == Share(k)'
    <3>1. c \in Nat /\ a \in Nat /\ x \in Nat /\ y \in Nat /\ c <= a + x /\ x <= y
      BY <1>0, <1>2, <2>3, <2>4, <2>6
    <3>2. hits'[k] <= Limit => y = x + 1  BY <2>1, <2>3
    <3> HIDE DEF c, a, x, y
    <3>3. c <= a + y /\ (hits'[k] <= Limit => c + 1 <= a + y)  BY <3>1, <3>2
    <3> QED BY <3>3 DEF c, a, x, y
  <2> QED BY <2>5, <2>7
<1>5. CASE ~Live(k) /\ hits[k] = 0
  <2>1. /\ hits'[k] = 1 /\ until'[k] = Never  BY <1>3, <1>5
  <2>2. Share(k)' = 1  BY <1>0, <2>1 DEF Share
  <2>3. n = 0 /\ n * Lifetime = 0 /\ n * Limit = 0  BY <1>0, <1>1, <1>5 DEF LivedTimes
  <2>4. Cardinality(Let(k)) <= 0  BY <1>0, <1>1, <1>5, <2>3 DEF LivedTimes, Share
  <2> QED BY <1>0, <2>1, <2>2, <2>3, <2>4
<1>6. CASE ~Live(k) /\ hits[k] # 0
  <2>1. hits'[k] = 1 /\ until'[k] = Never  BY <1>3, <1>6
  <2>2. until[k] # Never /\ until[k] <= now  BY <1>0, <1>6 DEF Live
  <2>3. k[2] + n * Lifetime + Lifetime <= now
    <3>1. k[2] + n * Lifetime + Lifetime <= until[k]  BY <1>1, <2>2 DEF LivedTimes
    <3> QED BY <1>0, <1>2, <2>2, <3>1
  <2>4. k[2] + (n + 1) * Lifetime <= now
    <3> DEFINE a == n * Lifetime  b == (n + 1) * Lifetime
    <3>1. a \in Nat /\ b = a + Lifetime /\ k[2] + a + Lifetime <= now  BY <1>2, <2>3
    <3> HIDE DEF a, b
    <3>2. k[2] + b <= now  BY <1>0, <3>1
    <3> QED BY <3>2 DEF b
  <2>5. Share(k)' = 1 /\ Share(k) <= Limit  BY <1>0, <2>1 DEF Share
  <2>6. Cardinality(Let(k)) <= n * Limit + Share(k)  BY <1>1 DEF LivedTimes
  <2>7. Cardinality(Let(k)) + 1 <= (n + 1) * Limit + 1
    <3> DEFINE c == Cardinality(Let(k))  a == n * Limit  b == (n + 1) * Limit
    <3>1. c \in Nat /\ a \in Nat /\ b = a + Limit /\ c <= a + Share(k)  BY <1>0, <1>2, <2>6
    <3> HIDE DEF c, a, b
    <3>2. c + 1 <= b + 1  BY <1>0, <2>5, <3>1
    <3> QED BY <3>2 DEF c, b
  <2>8. Cardinality(Let(k)) <= (n + 1) * Limit + 1  BY <1>0, <1>2, <2>7
  <2> QED BY <1>0, <2>1, <2>4, <2>5, <2>7, <2>8
<1> QED BY <1>4, <1>5, <1>6

(* No step lets more through in one life, or cuts one short. *)
LEMMA NextLived == IInv /\ [Next]_vars => \A k \in Keys : Lived(k)'
<1> SUFFICES ASSUME IInv, [Next]_vars, NEW k \in Keys PROVE Lived(k)'
  OBVIOUS
<1>0. /\ TypeOK /\ TypeOK' /\ Lived(k) /\ k \in Clients \X Buckets
      /\ \A q \in Reqs : Placed(q)
      /\ Lifetime \in Nat /\ now \in Nat /\ now' \in Nat /\ Limit \in Nat
      /\ hits[k] \in Nat /\ until[k] \in Int /\ k[2] \in Nat
  BY NextType, LetType, LimitAssumption DEF IInv, Keys, Lifetime, TypeOK
<1>1. PICK n \in Nat : LivedTimes(k, n)  BY <1>0 DEF Lived
<1>2. n * Lifetime \in Nat  BY <1>0, Multiples
<1>3. ASSUME now <= now', hits'[k] = hits[k], until'[k] = until[k], Let(k)' = Let(k)
      PROVE  Lived(k)'
  <2>1. Share(k)' = Share(k)  BY <1>3 DEF Share
  <2>2. hits[k] # 0 => k[2] + n * Lifetime <= now'
    <3>1. hits[k] # 0 => k[2] + n * Lifetime <= now  BY <1>1 DEF LivedTimes
    <3> QED BY <1>0, <1>2, <1>3, <3>1
  <2>3. LivedTimes(k, n)'  BY <1>1, <1>3, <2>1, <2>2 DEF LivedTimes
  <2> QED BY <2>3 DEF Lived
<1>4. ASSUME NEW q \in Reqs, pc[q] = "incr", now' = now, Counted(Key(q)),
             Key(q) # k \/ ( /\ hits'[k] > Limit => Let(k)' = Let(k)
                             /\ Let(k)' \subseteq Let(k) \cup {q}),
             Key(q) # k => Let(k)' = Let(k)
      PROVE  Lived(k)'
  <2>1. client[q] \in Clients /\ since[q] <= now /\ since[q] \in Nat
    BY <1>0, <1>4 DEF Placed, TypeOK
  <2>2. Key(q) \in Keys /\ Key(q)[2] <= now  BY <1>0, <2>1, KeyType
  <2>3. CASE Key(q) # k
    <3>1. hits'[k] = hits[k] /\ until'[k] = until[k]
      BY <1>0, <1>4, <2>2, <2>3 DEF Counted, TypeOK
    <3> QED BY <1>0, <1>3, <1>4, <2>3, <3>1
  <2>4. CASE Key(q) = k
    <3>1. PICK m \in Nat :
             /\ hits'[k] # 0
             /\ k[2] + m * Lifetime <= now
             /\ until'[k] # Never => k[2] + m * Lifetime + Lifetime <= until'[k]
             /\ Cardinality(Let(k)) <= m * Limit + Share(k)'
             /\ hits'[k] <= Limit => Cardinality(Let(k)) + 1 <= m * Limit + Share(k)'
      BY <1>0, <1>4, <2>2, <2>4, Incremented
    <3>2. Cardinality(Let(k)') <= m * Limit + Share(k)'
      <4>1. CASE hits'[k] > Limit  BY <1>4, <2>4, <3>1, <4>1
      <4>2. CASE hits'[k] <= Limit
        <5>1. IsFiniteSet(Let(k)) /\ Cardinality(Let(k)) \in Nat  BY <1>0, LetType
        <5>2. /\ IsFiniteSet(Let(k) \cup {q})
              /\ Cardinality(Let(k) \cup {q}) \in Nat
              /\ Cardinality(Let(k) \cup {q}) <= Cardinality(Let(k)) + 1
          <6>1. /\ IsFiniteSet(Let(k) \cup {q})
                /\ \/ Cardinality(Let(k) \cup {q}) = Cardinality(Let(k))
                   \/ Cardinality(Let(k) \cup {q}) = Cardinality(Let(k)) + 1
            BY <5>1, FS_AddElement
          <6> QED BY <5>1, <6>1
        <5>3. /\ IsFiniteSet(Let(k)') /\ Cardinality(Let(k)') \in Nat
              /\ Cardinality(Let(k)') <= Cardinality(Let(k) \cup {q})
          BY <1>4, <2>4, <5>2, FS_Subset, FS_CardinalityType
        <5>4. m * Limit \in Nat  BY <1>0, Multiples
        <5>5. Share(k)' \in Nat  BY <1>0, LetType, LimitAssumption DEF Share, TypeOK
        <5>6. Cardinality(Let(k)) + 1 <= m * Limit + Share(k)'  BY <3>1, <4>2
        <5> DEFINE c == Cardinality(Let(k))  d == Cardinality(Let(k)')
                   e == Cardinality(Let(k) \cup {q})  b == m * Limit + Share(k)'
        <5>7. c \in Nat /\ d \in Nat /\ e \in Nat /\ b \in Nat /\ d <= e /\ e <= c + 1 /\ c + 1 <= b
          BY <5>1, <5>2, <5>3, <5>4, <5>5, <5>6
        <5> HIDE DEF b, c, d, e
        <5>8. d <= b  BY <5>7
        <5> QED BY <5>8 DEF b, d
      <4>3. hits'[k] \in Nat  BY <1>0 DEF TypeOK
      <4> QED BY <1>0, <4>1, <4>2, <4>3
    <3>3. LivedTimes(k, m)'  BY <1>4, <3>1, <3>2 DEF LivedTimes
    <3> QED BY <3>3 DEF Lived
  <2> QED BY <2>3, <2>4
<1>5. ASSUME NEW q \in Reqs, Incr(q) PROVE Lived(k)'
  <2>1. /\ pc[q] = "incr" /\ now' = now /\ Counted(Key(q)) /\ count[q] = 0
        /\ \A p \in Reqs \ {q} : count'[p] = count[p]
        /\ count'[q] = hits'[Key(q)]
    BY <1>0, <1>5 DEF Incr, Placed, TypeOK
  <2>2. \A p \in Reqs : Key(p)' = Key(p)  BY <1>5 DEF Incr, Key, Bucket
  <2>3. Let(k)' \subseteq Let(k) \cup {q}  BY <2>1, <2>2 DEF Let
  <2>4. ASSUME Key(q) # k \/ ~(hits'[k] <= Limit) PROVE Let(k)' = Let(k)
    <3>1. q \notin Let(k)
      BY <2>1 DEF Let
    <3>2. q \notin Let(k)'
      BY <2>1, <2>2, <2>4 DEF Let
    <3>3. \A p \in Reqs \ {q} : p \in Let(k)' <=> p \in Let(k)  BY <2>1, <2>2 DEF Let
    <3> QED BY <3>1, <3>2, <3>3 DEF Let
  <2>5. hits'[k] > Limit => ~(hits'[k] <= Limit)
    BY <1>0 DEF TypeOK
  <2> QED BY <1>4, <2>1, <2>3, <2>4, <2>5
<1>6. ASSUME NEW q \in Reqs, IncrAckLost(q) PROVE Lived(k)'
  <2>1. pc[q] = "incr" /\ now' = now /\ Counted(Key(q)) /\ count' = count
    BY <1>6 DEF IncrAckLost
  <2>2. Let(k)' = Let(k)  BY <2>1, LetSame
  <2> QED BY <1>4, <2>1, <2>2
<1>7. ASSUME NEW q \in Reqs, Expire(q) PROVE Lived(k)'
  <2>1. now' = now /\ hits' = hits /\ count' = count  BY <1>7 DEF Expire
  <2>2. Let(k)' = Let(k)  BY <2>1, LetSame
  <2>3. CASE until'[k] = until[k]  BY <1>0, <1>3, <2>1, <2>2, <2>3
  <2>4. CASE until'[k] # until[k]
    <3>1. /\ hits[k] # 0 /\ until'[k] = now + Lifetime
      <4>1. until' = [until EXCEPT ![Key(q)] = IF Live(Key(q)) THEN now + Window + Slack ELSE @]
        BY <1>7, <2>4 DEF Expire
      <4>2. Key(q) = k /\ Live(k) /\ until'[k] = now + Window + Slack
        BY <1>0, <2>4, <4>1 DEF TypeOK
      <4>3. hits[k] # 0  BY <1>0, <4>2 DEF Live
      <4>4. now + Window + Slack = now + Lifetime  BY <1>0, LimitAssumption DEF Lifetime
      <4> QED BY <4>2, <4>3, <4>4
    <3>2. k[2] + n * Lifetime <= now  BY <1>1, <3>1 DEF LivedTimes
    <3>3. k[2] + n * Lifetime + Lifetime <= until'[k]
      BY <1>0, <1>2, <3>1, <3>2
    <3>4. Share(k)' = Share(k)  BY <2>1 DEF Share
    <3>5. LivedTimes(k, n)'  BY <1>1, <2>1, <2>2, <3>1, <3>2, <3>3, <3>4 DEF LivedTimes
    <3> QED BY <3>5 DEF Lived
  <2> QED BY <2>3, <2>4
<1>8. CASE now <= now' /\ UNCHANGED <<hits, until, count>>  BY <1>3, <1>8, LetSame
<1>9. ASSUME NEW q \in Reqs, Arrive(q) \/ IncrRefused(q) \/ Judge(q) PROVE Lived(k)'
  <2>1. now' = now /\ UNCHANGED <<hits, until, count>>
    BY <1>9 DEF Arrive, IncrRefused, Judge
  <2> QED BY <1>0, <1>8, <2>1
<1>10. CASE Tick \/ Crash \/ UNCHANGED vars
  <2>1. now <= now' /\ UNCHANGED <<hits, until, count>>
    BY <1>0, <1>10 DEF Tick, Crash, vars
  <2> QED BY <1>8, <2>1
<1> QED
  BY <1>5, <1>6, <1>7, <1>9, <1>10 DEF Next, Handle

-----------------------------------------------------------------------------
(* Numbers and INCRs *)

(* A request is counted, and an INCR unheard, for good and in its own window. *)
LEMMA PaidGrows ==
  ASSUME IInv, [Next]_vars, NEW k,
         \A p \in Reqs : /\ count[p] # 0 => count'[p] # 0
                         /\ unheard[p] <= unheard'[p]
  PROVE  /\ Paid(k)' \in Nat /\ Paid(k) <= Paid(k)'
         /\ \A q \in Reqs :
                /\ Key(q)' = k
                /\ (count[q] = 0 /\ count'[q] # 0) \/ unheard'[q] = unheard[q] + 1
                => Paid(k) + 1 <= Paid(k)'
<1>0. /\ TypeOK /\ TypeOK' /\ MaxRetries \in Nat
      /\ \A p \in Reqs : unheard[p] \in Nat /\ unheard'[p] \in Nat /\ unheard'[p] <= MaxRetries + 1
  BY NextType, LimitAssumption DEF IInv, TypeOK
<1>1. ASSUME NEW p \in Reqs, count[p] # 0 \/ unheard[p] # 0 PROVE Key(p)' = Key(p)
  BY <1>1, NextKeys
<1>2. Counts(k) \subseteq Counts(k)'
  BY <1>1 DEF Counts
<1>3. Resends(k) \subseteq Resends(k)'
  <2> SUFFICES ASSUME NEW r \in Resends(k) PROVE r \in Resends(k)'
    OBVIOUS
  <2>1. r \in Reqs \X Attempts /\ r[2] <= unheard[r[1]] /\ Key(r[1]) = k /\ r[1] \in Reqs
    BY DEF Resends
  <2>2. r[2] \in Nat /\ r[2] >= 1  BY <1>0, <2>1 DEF Attempts
  <2>3. Key(r[1])' = k  BY <1>0, <1>1, <2>1, <2>2
  <2>4. r[2] <= unheard'[r[1]]  BY <1>0, <2>1, <2>2
  <2> QED BY <2>1, <2>3, <2>4 DEF Resends
<1>4. /\ IsFiniteSet(Counts(k)') /\ IsFiniteSet(Resends(k)')
      /\ Cardinality(Counts(k)') \in Nat /\ Cardinality(Resends(k)') \in Nat
  <2>1. IsFiniteSet(Reqs) /\ IsFiniteSet(Attempts)
    BY LimitAssumption, FS_Interval DEF Attempts
  <2>2. IsFiniteSet(Reqs \X Attempts)  BY <2>1, FS_Product
  <2>3. Counts(k)' \subseteq Reqs /\ Resends(k)' \subseteq Reqs \X Attempts
    BY DEF Counts, Resends
  <2> QED BY <2>1, <2>2, <2>3, FS_Subset, FS_CardinalityType
<1>5. /\ Cardinality(Counts(k)) <= Cardinality(Counts(k)')
      /\ Cardinality(Resends(k)) <= Cardinality(Resends(k)')
  BY <1>2, <1>3, <1>4, FS_Subset
<1>6. /\ Paid(k)' = Cardinality(Counts(k)') + Cardinality(Resends(k)')
      /\ Paid(k) = Cardinality(Counts(k)) + Cardinality(Resends(k))
  BY DEF Paid
<1>7. Cardinality(Counts(k)) \in Nat /\ Cardinality(Resends(k)) \in Nat
  BY PaidType
<1>8. ASSUME NEW q \in Reqs, Key(q)' = k,
             \/ count[q] = 0 /\ count'[q] # 0
             \/ unheard'[q] = unheard[q] + 1
      PROVE  Paid(k) + 1 <= Paid(k)'
  <2>1. CASE count[q] = 0 /\ count'[q] # 0
    <3>1. q \in Counts(k)' /\ q \notin Counts(k)  BY <1>8, <2>1 DEF Counts
    <3>2. Cardinality(Counts(k)) # Cardinality(Counts(k)')
      BY <1>2, <1>4, <3>1, FS_Subset
    <3> QED BY <1>4, <1>5, <1>6, <1>7, <3>2
  <2>2. CASE unheard'[q] = unheard[q] + 1
    <3> DEFINE r == <<q, unheard'[q]>>
    <3>1. unheard'[q] \in Attempts /\ ~(unheard'[q] <= unheard[q])
      BY <1>0, <2>2 DEF Attempts
    <3>2. r \in Reqs \X Attempts /\ r[1] = q /\ r[2] = unheard'[q]  BY <3>1
    <3>3. unheard'[q] <= unheard'[q]  BY <1>0
    <3>4. r \in Resends(k)'  BY <1>8, <3>2, <3>3 DEF Resends
    <3>5. r \notin Resends(k)  BY <3>1, <3>2 DEF Resends
    <3>6. Cardinality(Resends(k)) # Cardinality(Resends(k)')
      BY <1>3, <1>4, <3>4, <3>5, FS_Subset
    <3> QED BY <1>4, <1>5, <1>6, <1>7, <3>6
  <2> QED BY <1>8, <2>1, <2>2
<1> QED BY <1>4, <1>5, <1>6, <1>7, <1>8

(* No step lets a counter get ahead of the INCRs that were executed. *)
LEMMA NextCovered == IInv /\ [Next]_vars => \A k \in Keys : Covered(k)'
<1> SUFFICES ASSUME IInv, [Next]_vars, NEW k \in Keys PROVE Covered(k)'
  OBVIOUS
<1>0. /\ TypeOK /\ Covered(k) /\ \A p \in Reqs : Placed(p) /\ count[p] \in Nat
      /\ Paid(k) \in Nat /\ hits[k] \in Nat
  BY PaidType DEF IInv, Keys, TypeOK
<1>1. ASSUME NEW p \in Reqs, count[p] # 0 PROVE Key(p)' = Key(p)
  BY <1>1, NextKeys
<1>2. ASSUME UNCHANGED <<hits, count, unheard>> PROVE Covered(k)'
  <2>1. Paid(k)' \in Nat /\ Paid(k) <= Paid(k)'
    <3>1. \A p \in Reqs : unheard[p] <= unheard'[p]
      BY <1>0, <1>2, LimitAssumption DEF TypeOK
    <3> QED BY <1>2, <3>1, PaidGrows
  <2>2. hits'[k] <= Paid(k)'  BY <1>0, <1>2, <2>1 DEF Covered
  <2>3. ASSUME NEW p \in Reqs, count'[p] # 0, Key(p)' = k PROVE count'[p] <= Paid(k)'
    BY <1>0, <1>1, <1>2, <2>1, <2>3 DEF Covered
  <2> QED BY <2>2, <2>3 DEF Covered
<1>3. ASSUME NEW q \in Reqs, Incr(q) \/ IncrAckLost(q) PROVE Covered(k)'
  <2>1. /\ pc[q] = "incr" /\ Key(q) \in Keys /\ Key(q)' = Key(q)
        /\ hits' = [hits EXCEPT ![Key(q)] = IF Live(Key(q)) THEN @ + 1 ELSE 1]
        /\ \/ count' = [count EXCEPT ![q] = hits'[Key(q)]] /\ unheard' = unheard
           \/ count' = count /\ unheard' = [unheard EXCEPT ![q] = unheard[q] + 1]
    <3>1. pc[q] = "incr" /\ client[q] \in Clients
      BY <1>0, <1>3 DEF Incr, IncrAckLost, Goto, Placed
    <3> QED
      BY <1>0, <1>3, <3>1, KeyType
      DEF Incr, IncrAckLost, Goto, Counted, Key, Bucket, Placed
  <2>2. count[q] = 0  BY <1>0, <2>1 DEF Placed
  <2>3. hits'[Key(q)] \in Nat \ {0}  BY <1>0, <2>1 DEF TypeOK, Keys, Live
  <2>4. \A p \in Reqs : /\ count[p] # 0 => count'[p] = count[p] /\ count'[p] # 0
                        /\ unheard[p] <= unheard'[p]
    BY <1>0, <2>1, <2>2, LimitAssumption DEF TypeOK
  <2>5. /\ Paid(k)' \in Nat /\ Paid(k) <= Paid(k)'
        /\ Key(q) = k => Paid(k) + 1 <= Paid(k)'
    <3>1. (count[q] = 0 /\ count'[q] # 0) \/ unheard'[q] = unheard[q] + 1
      BY <1>0, <2>1, <2>2, <2>3 DEF TypeOK
    <3> QED BY <2>1, <2>4, <3>1, PaidGrows
  <2>6. /\ Key(q) = k => hits'[k] <= Paid(k)'
        /\ Key(q) # k => hits'[k] = hits[k]
    BY <1>0, <2>1, <2>3, <2>5 DEF TypeOK, Keys, Covered, Live
  <2>7. hits'[k] <= Paid(k)'  BY <1>0, <2>5, <2>6 DEF Covered
  <2>8. ASSUME NEW p \in Reqs, count'[p] # 0, Key(p)' = k PROVE count'[p] <= Paid(k)'
    <3>1. CASE count[p] # 0  BY <1>0, <1>1, <2>4, <2>5, <2>8, <3>1 DEF Covered
    <3>2. CASE count[p] = 0
      <4>1. p = q /\ count'[q] = hits'[Key(q)]  BY <1>0, <2>1, <2>8, <3>2 DEF TypeOK
      <4> QED BY <2>1, <2>7, <2>8, <4>1
    <3> QED BY <3>1, <3>2
  <2> QED BY <2>7, <2>8 DEF Covered
<1> QED
  BY <1>2, <1>3
  DEF Next, Handle, Arrive, IncrRefused, Expire, Judge, Tick, Crash, vars

-----------------------------------------------------------------------------
(* The invariant holds in every reachable state. *)
LEMMA Invariance == Spec => []IInv
<1>1. IInv /\ [Next]_vars => IInv'
  <2> SUFFICES ASSUME IInv, [Next]_vars PROVE IInv'
    OBVIOUS
  <2>1. TypeOK'  BY NextType
  <2>2. \A q \in Reqs : Placed(q)'  BY NextPlaced
  <2>3. \A k \in Keys : Lived(k)' /\ Covered(k)'  BY NextLived, NextCovered
  <2> QED BY <2>1, <2>2, <2>3 DEF IInv, Keys, Buckets
<1> QED BY InitInv, <1>1, PTL DEF Spec

(* The variables keep their types, whatever the requests and the faults. *)
THEOREM TypeCorrect == Spec => []TypeOK
<1>1. IInv => TypeOK  BY DEF IInv
<1> QED BY <1>1, Invariance, PTL

(* No client passes more than the limit in a window until a TTL after its   *)
(* start, and no more than the limit in each TTL after that, however late,   *)
(* often and successfully INCR and EXPIRE of its requests reach Redis.       *)
THEOREM WindowIsHonoured == Spec => []WindowHonoured
<1>1. ASSUME IInv PROVE WindowHonoured
  <2> SUFFICES ASSUME NEW k \in Clients \X Buckets, NEW m \in 1 .. MaxTime + 1, Within(k, m)
               PROVE  Cardinality(Passed(k)) <= m * Limit
    BY DEF WindowHonoured
  <2>0. /\ m \in Nat /\ m >= 1 /\ Limit \in Nat /\ Lifetime \in Nat /\ Lifetime > 0 /\ now \in Nat
        /\ k \in Keys /\ TypeOK
    BY <1>1, LimitAssumption DEF Lifetime, Keys, IInv, TypeOK
  <2>1. /\ IsFiniteSet(Let(k)) /\ Cardinality(Let(k)) \in Nat
        /\ Share(k) \in Nat /\ hits[k] \in Nat /\ k[2] \in Nat
    BY <2>0, LetType
  <2>2. PICK n \in Nat : LivedTimes(k, n)  BY <1>1, <2>0 DEF IInv, Lived
  <2>3. Passed(k) \subseteq Let(k)  BY <1>1 DEF IInv, Placed, Passed, Let
  <2>4. Cardinality(Passed(k)) \in Nat /\ Cardinality(Passed(k)) <= Cardinality(Let(k))
    BY <2>1, <2>3, FS_Subset, FS_CardinalityType
  <2>5. n * Lifetime \in Nat /\ m * Lifetime \in Nat /\ n * Limit \in Nat /\ m * Limit \in Nat
    BY <2>0, Multiples
  <2>6. Share(k) <= Limit /\ (hits[k] = 0 => Share(k) = 0)  BY <2>0, <2>1 DEF Share
  <2>7. n * Limit + Share(k) <= m * Limit
    <3>1. CASE hits[k] = 0
      <4>1. n = 0 /\ n * Limit = 0  BY <2>0, <2>2, <3>1 DEF LivedTimes
      <4> QED BY <2>5, <2>6, <3>1, <4>1
    <3>2. CASE hits[k] # 0
      <4>1. k[2] + n * Lifetime <= now /\ now < k[2] + m * Lifetime
        BY <2>2, <3>2 DEF LivedTimes, Within
      <4>2. n * Lifetime < m * Lifetime
        <5> DEFINE a == n * Lifetime  b == m * Lifetime
        <5>1. a \in Nat /\ b \in Nat /\ k[2] + a <= now /\ now < k[2] + b  BY <2>5, <4>1
        <5> HIDE DEF a, b
        <5>2. a < b  BY <2>0, <2>1, <5>1
        <5> QED BY <5>2 DEF a, b
      <4>3. n < m  BY <2>0, <4>2, Multiples
      <4>4. n + 1 <= m /\ n + 1 \in Nat  BY <2>0, <4>3
      <4>5. (n + 1) * Limit <= m * Limit  BY <2>0, <4>4, Multiples
      <4>6. (n + 1) * Limit = n * Limit + Limit  BY <2>0, Multiples
      <4> DEFINE a == n * Limit  b == m * Limit  c == (n + 1) * Limit
      <4>7. a \in Nat /\ b \in Nat /\ c <= b /\ c = a + Limit  BY <2>5, <4>5, <4>6
      <4> HIDE DEF a, b, c
      <4>8. a + Share(k) <= b  BY <2>0, <2>1, <2>6, <4>7
      <4> QED BY <4>8 DEF a, b
    <3> QED BY <3>1, <3>2
  <2>8. Cardinality(Let(k)) <= n * Limit + Share(k)  BY <2>2 DEF LivedTimes
  <2> DEFINE p == Cardinality(Passed(k))  c == Cardinality(Let(k))
             a == n * Limit + Share(k)  b == m * Limit
  <2>9. p \in Nat /\ c \in Nat /\ a \in Nat /\ b \in Nat /\ p <= c /\ c <= a /\ a <= b
    BY <2>1, <2>4, <2>5, <2>7, <2>8
  <2> HIDE DEF p, c, a, b
  <2>10. p <= b  BY <2>9
  <2> QED BY <2>10 DEF p, b
<1> QED BY <1>1, Invariance, PTL

(* A request is throttled only when more INCRs than the limit were executed *)
(* for its own client in its own window.                                    *)
THEOREM ThrottledForOwn == Spec => []NoSpurious429
<1>1. ASSUME IInv PROVE NoSpurious429
  <2> SUFFICES ASSUME NEW q \in Reqs, fate[q] = "limited"
               PROVE  LET same == {p \in Reqs : client[p] = client[q] /\ Bucket(p) = Bucket(q)} IN
                      Cardinality(same)
                        + Cardinality({r \in same \X (1 .. MaxRetries + 1) : r[2] <= unheard[r[1]]})
                          > Limit
    BY DEF NoSpurious429
  <2> DEFINE same == {p \in Reqs : client[p] = client[q] /\ Bucket(p) = Bucket(q)}
             lost == {r \in same \X (1 .. MaxRetries + 1) : r[2] <= unheard[r[1]]}
  <2>1. count[q] \in Nat /\ Limit \in Nat /\ count[q] > Limit
    BY <1>1, LimitAssumption DEF IInv, Placed, TypeOK
  <2>2. Key(q) \in Keys
    <3>1. client[q] \in Clients  BY <1>1 DEF IInv, Placed
    <3> QED BY <1>1, <3>1, KeyType DEF IInv
  <2>3. count[q] <= Paid(Key(q))  BY <1>1, <2>1, <2>2 DEF IInv, Covered
  <2>4. Counts(Key(q)) \subseteq same  BY DEF Counts, Key
  <2>5. Resends(Key(q)) = lost  BY DEF Resends, Key, Attempts
  <2>6. IsFiniteSet(same)  BY LimitAssumption, FS_Subset
  <2>7. /\ Cardinality(Counts(Key(q))) <= Cardinality(same)
        /\ Cardinality(same) \in Nat
    BY <2>4, <2>6, FS_Subset, FS_CardinalityType
  <2>8. Cardinality(Counts(Key(q))) \in Nat /\ Cardinality(lost) \in Nat
    BY <2>5, PaidType
  <2>9. Paid(Key(q)) = Cardinality(Counts(Key(q))) + Cardinality(lost)  BY <2>5 DEF Paid
  <2> HIDE DEF same, lost
  <2>10. Cardinality(same) + Cardinality(lost) > Limit
    BY <2>1, <2>3, <2>7, <2>8, <2>9
  <2> QED BY <2>10 DEF same, lost
<1> QED BY <1>1, Invariance, PTL
=============================================================================
