---------------------------- MODULE PresignProofs ----------------------------
(***************************************************************************)
(* Proofs about Presign, for every finite set of requests, every cap,      *)
(* every calendar and every set of faults.                                 *)
(*                                                                         *)
(* The inductive invariant is TypeOK, Bookkeeping and the bounds of the    *)
(* counter together.  Bookkeeping is what makes the others inductive: that *)
(* a missing document counts nothing (so that the insert of the upsert     *)
(* raises a count from 0), that a handler has named its document before it *)
(* sends a command, and that no request is charged or compensated twice.   *)
(*                                                                         *)
(* The cap on accepted uploads, the promise of the package and the cost of *)
(* a failure hold under premises only; the sections that prove them say    *)
(* which, and what goes wrong without.                                     *)
(***************************************************************************)
EXTENDS Presign, FiniteSetTheorems, TLAPS

(* The initial states are well typed. *)
LEMMA InitType == Init => TypeOK
<1> USE QuotaAssumption, PresignAssumption
<1> QED
  BY DEF Init, QuotaInit, TypeOK, QuotaTypeOK, DocIds, Months, Steps, Statuses

(* The document a handler names is one of the counter's. *)
LEMMA NamedDocument ==
  ASSUME TypeOK, NEW r \in Reqs
  PROVE  DocID(ScopeOf[r]) \in DocIds
BY PresignAssumption DEF TypeOK, QuotaTypeOK, DocID, DocIds

(* The commands on the counter keep its type. *)
LEMMA CommandType ==
  ASSUME QuotaTypeOK, NEW d \in DocIds,
         Incremented(d) \/ Inserted(d) \/ Collided(d) \/ Decremented(d) \/ NextMonth
  PROVE  QuotaTypeOK'
<1> USE QuotaAssumption DEF QuotaTypeOK
<1>1. CASE Incremented(d)   BY <1>1 DEF Incremented, DocIds, Months
<1>2. CASE Inserted(d)      BY <1>2 DEF Inserted, DocIds, Months
<1>3. CASE Collided(d)      BY <1>3 DEF Collided, quotaVars, DocIds, Months
<1>4. CASE Decremented(d)   BY <1>4 DEF Decremented, DocIds, Months
<1>5. CASE NextMonth        BY <1>5 DEF NextMonth, DocIds, Months
<1> QED BY <1>1, <1>2, <1>3, <1>4, <1>5

(* No step leaves the type invariant. *)
LEMMA NextType == TypeOK /\ Bookkeeping /\ [Next]_vars => TypeOK'
<1> SUFFICES ASSUME TypeOK, Bookkeeping, [Next]_vars PROVE TypeOK'
  OBVIOUS
<1> USE PresignAssumption DEF Steps, Statuses
<1>1. ASSUME NEW r \in Reqs, Reject(r) PROVE TypeOK'
  BY <1>1
  DEF Reject, Answer, Goto, NotCharged, quotaVars, handlerVars, TypeOK, QuotaTypeOK, DocIds, Months
<1>2. ASSUME NEW r \in Reqs, Admit(r) PROVE TypeOK'
  BY NamedDocument, <1>2
  DEF Admit, Answer, Goto, NotCharged, quotaVars, Used, TypeOK, QuotaTypeOK, DocIds, Months
<1>3. ASSUME NEW r \in Reqs, ReserveHit(r) PROVE TypeOK'
  <2>1. doc[r] \in DocIds  BY <1>3 DEF ReserveHit, Answer, Goto, Bookkeeping
  <2>2. QuotaTypeOK'  BY <2>1, <1>3, CommandType DEF ReserveHit, TypeOK
  <2> QED
    BY <2>1, <2>2, <1>3
    DEF ReserveHit, Answer, Goto, NotCharged, TypeOK, QuotaTypeOK, Incremented, Inserted, DocIds, Months
<1>4. ASSUME NEW r \in Reqs, ReserveMiss(r) PROVE TypeOK'
  BY <1>4
  DEF ReserveMiss, Answer, Goto, NotCharged, quotaVars, handlerVars, TypeOK, QuotaTypeOK, DocIds, Months
<1>5. ASSUME NEW r \in Reqs, ReserveInsert(r) PROVE TypeOK'
  <2>1. doc[r] \in DocIds  BY <1>5 DEF ReserveInsert, Answer, Goto, Bookkeeping
  <2>2. QuotaTypeOK'  BY <2>1, <1>5, CommandType DEF ReserveInsert, TypeOK
  <2> QED
    BY <2>1, <2>2, <1>5
    DEF ReserveInsert, Answer, Goto, NotCharged, TypeOK, QuotaTypeOK, Incremented, Inserted, DocIds, Months
<1>6. ASSUME NEW r \in Reqs, ReserveCollide(r) PROVE TypeOK'
  <2>1. doc[r] \in DocIds  BY <1>6 DEF ReserveCollide, Answer, Goto, Bookkeeping
  <2>2. QuotaTypeOK'  BY <2>1, <1>6, CommandType DEF ReserveCollide, TypeOK
  <2> QED
    BY <2>1, <2>2, <1>6
    DEF ReserveCollide, Answer, Goto, NotCharged, TypeOK, QuotaTypeOK, Incremented, Inserted, DocIds, Months
<1>7. ASSUME NEW r \in Reqs, Recheck(r) PROVE TypeOK'
  <2>1. DocID(ScopeOf[r]) \in DocIds  BY NamedDocument
  <2>2. Used(ScopeOf[r]) \in Int  BY <2>1 DEF Used, TypeOK, QuotaTypeOK
  <2>3. /\ used' \in [Reqs -> Int]
        /\ pc' \in [Reqs -> Steps \cup {"idle", "done", "lost"}]
        /\ resp' \in [Reqs -> Statuses]
    BY <2>2, <1>7 DEF Recheck, Answer, Goto, TypeOK
  <2> QED
    BY <2>3, <1>7 DEF Recheck, NotCharged, quotaVars, TypeOK, QuotaTypeOK, DocIds, Months
<1>8. ASSUME NEW r \in Reqs, ReserveRefused(r) PROVE TypeOK'
  BY <1>8
  DEF ReserveRefused, Answer, Goto, NotCharged, quotaVars, handlerVars, TypeOK, QuotaTypeOK, DocIds, Months
<1>9. ASSUME NEW r \in Reqs, ReserveAckLost(r) PROVE TypeOK'
  <2>1. doc[r] \in DocIds  BY <1>9 DEF ReserveAckLost, Answer, Goto, Bookkeeping
  <2>2. QuotaTypeOK'  BY <2>1, <1>9, CommandType DEF ReserveAckLost, TypeOK
  <2>3. /\ pc' \in [Reqs -> Steps \cup {"idle", "done", "lost"}]
        /\ resp' \in [Reqs -> Statuses]
    BY <1>9 DEF ReserveAckLost, Answer, Goto, TypeOK
  <2>4. UNCHANGED <<doc, used, recs, pend, stats, gave>>  BY <1>9 DEF ReserveAckLost
  <2>5. slot' \in [Reqs -> DocIds \cup {NoDoc}]  BY <2>1, <1>9 DEF ReserveAckLost, TypeOK
  <2>6. DocIds' = DocIds  BY DEF DocIds, Months
  <2> QED
    BY <2>2, <2>3, <2>4, <2>5, <2>6 DEF TypeOK
<1>10. ASSUME NEW r \in Reqs, Sign(r) PROVE TypeOK'
  BY <1>10
  DEF Sign, Answer, Goto, NotCharged, quotaVars, handlerVars, TypeOK, QuotaTypeOK, DocIds, Months
<1>11. ASSUME NEW r \in Reqs, Insert(r) PROVE TypeOK'
  BY <1>11
  DEF Insert, Answer, Goto, NotCharged, quotaVars, handlerVars, TypeOK, QuotaTypeOK, DocIds, Months
<1>12. ASSUME NEW r \in Reqs, InsertError(r) PROVE TypeOK'
  BY <1>12
  DEF InsertError, Answer, Goto, NotCharged, quotaVars, handlerVars, TypeOK, QuotaTypeOK, DocIds, Months
<1>13. ASSUME NEW r \in Reqs, Release(r) PROVE TypeOK'
  <2>1. DocID(ScopeOf[r]) \in DocIds  BY NamedDocument
  <2>2. QuotaTypeOK'
    BY <2>1, <1>13, CommandType DEF Release, TypeOK, QuotaTypeOK, quotaVars, DocIds, Months
  <2> QED
    BY <2>1, <2>2, <1>13 DEF Release, Answer, Goto, TypeOK, Decremented, quotaVars, QuotaTypeOK, DocIds, Months
<1>14. ASSUME NEW r \in Reqs, Reply(r) PROVE TypeOK'
  BY <1>14
  DEF Reply, Answer, Goto, NotCharged, quotaVars, handlerVars, TypeOK, QuotaTypeOK, DocIds, Months
<1>15. ASSUME NEW r \in Reqs, StatsIncrement(r) PROVE TypeOK'
  BY <1>15
  DEF StatsIncrement, Answer, Goto, NotCharged, quotaVars, handlerVars, TypeOK, QuotaTypeOK, DocIds, Months
<1>16. ASSUME Crash PROVE TypeOK'
  BY <1>16 DEF Crash, InFlight, NotCharged, quotaVars, TypeOK, QuotaTypeOK, DocIds, Months
<1>17. ASSUME NewMonth PROVE TypeOK'
  BY <1>17, QuotaAssumption
  DEF NewMonth, NextMonth, NotCharged, handlerVars, TypeOK, QuotaTypeOK, DocIds, Months
<1>18. ASSUME UNCHANGED vars PROVE TypeOK'
  BY <1>18 DEF vars, handlerVars, quotaVars, TypeOK, QuotaTypeOK, DocIds, Months
<1> QED
  BY <1>1, <1>2, <1>3, <1>4, <1>5, <1>6, <1>7, <1>8, <1>9, <1>10, <1>11, <1>12, <1>13, <1>14, <1>15, <1>16, <1>17, <1>18 DEF Next, Handle

(* No step breaks the bookkeeping. *)
LEMMA NextBookkeeping == TypeOK /\ Bookkeeping /\ [Next]_vars => Bookkeeping'
<1> SUFFICES ASSUME TypeOK, Bookkeeping, [Next]_vars PROVE Bookkeeping'
  OBVIOUS
<1> USE PresignAssumption DEF Steps, Bookkeeping, TypeOK, QuotaTypeOK, DocIds, Months
<1>1. ASSUME NEW r \in Reqs, Reject(r) PROVE Bookkeeping'
  BY <1>1
  DEF Reject, Answer, Goto, NotCharged, quotaVars, handlerVars
<1>2. ASSUME NEW r \in Reqs, Admit(r) PROVE Bookkeeping'
  BY <1>2, NamedDocument
  DEF Admit, Answer, Goto, NotCharged, quotaVars, handlerVars, DocID
<1>3. ASSUME NEW r \in Reqs, ReserveHit(r) PROVE Bookkeeping'
  BY <1>3
  DEF ReserveHit, Answer, Goto, NotCharged, quotaVars, handlerVars, Incremented, Matches
<1>4. ASSUME NEW r \in Reqs, ReserveMiss(r) PROVE Bookkeeping'
  BY <1>4
  DEF ReserveMiss, Answer, Goto, NotCharged, quotaVars, handlerVars
<1>5. ASSUME NEW r \in Reqs, ReserveInsert(r) PROVE Bookkeeping'
  BY <1>5
  DEF ReserveInsert, Answer, Goto, NotCharged, quotaVars, handlerVars, Inserted
<1>6. ASSUME NEW r \in Reqs, ReserveCollide(r) PROVE Bookkeeping'
  BY <1>6
  DEF ReserveCollide, Answer, Goto, NotCharged, quotaVars, handlerVars, Collided
<1>7. ASSUME NEW r \in Reqs, Recheck(r) PROVE Bookkeeping'
  BY <1>7, NamedDocument
  DEF Recheck, Answer, Goto, NotCharged, quotaVars, handlerVars
<1>8. ASSUME NEW r \in Reqs, ReserveRefused(r) PROVE Bookkeeping'
  BY <1>8
  DEF ReserveRefused, Answer, Goto, NotCharged, quotaVars, handlerVars
<1>9. ASSUME NEW r \in Reqs, ReserveAckLost(r) PROVE Bookkeeping'
  BY <1>9
  DEF ReserveAckLost, Answer, Goto, NotCharged, quotaVars, handlerVars, Incremented, Inserted, Matches
<1>10. ASSUME NEW r \in Reqs, Sign(r) PROVE Bookkeeping'
  BY <1>10
  DEF Sign, Answer, Goto, NotCharged, quotaVars, handlerVars
<1>11. ASSUME NEW r \in Reqs, Insert(r) PROVE Bookkeeping'
  BY <1>11
  DEF Insert, Answer, Goto, NotCharged, quotaVars, handlerVars
<1>12. ASSUME NEW r \in Reqs, InsertError(r) PROVE Bookkeeping'
  BY <1>12
  DEF InsertError, Answer, Goto, NotCharged, quotaVars, handlerVars
<1>13. ASSUME NEW r \in Reqs, Release(r) PROVE Bookkeeping'
  BY <1>13, NamedDocument
  DEF Release, Answer, Goto, NotCharged, quotaVars, handlerVars, Decremented, Decrementable, DocID
<1>14. ASSUME NEW r \in Reqs, Reply(r) PROVE Bookkeeping'
  BY <1>14
  DEF Reply, Answer, Goto, NotCharged, quotaVars, handlerVars
<1>15. ASSUME NEW r \in Reqs, StatsIncrement(r) PROVE Bookkeeping'
  BY <1>15
  DEF StatsIncrement, Answer, Goto, NotCharged, quotaVars, handlerVars
<1>16. ASSUME Crash PROVE Bookkeeping'
  BY <1>16 DEF Crash, InFlight, NotCharged, quotaVars
<1>17. ASSUME NewMonth PROVE Bookkeeping'
  BY <1>17 DEF NewMonth, NextMonth, NotCharged, handlerVars
<1>18. ASSUME UNCHANGED vars PROVE Bookkeeping'
  BY <1>18 DEF vars, handlerVars, quotaVars
<1> QED
  BY <1>1, <1>2, <1>3, <1>4, <1>5, <1>6, <1>7, <1>8, <1>9, <1>10, <1>11, <1>12, <1>13, <1>14, <1>15, <1>16, <1>17, <1>18 DEF Next, Handle

-----------------------------------------------------------------------------
(* The bounds of the counter. *)

(* A command raises a count only by the guarded increment or the insert. *)
LEMMA CommandBounds ==
  ASSUME QuotaTypeOK, CountInBounds, NEW d \in DocIds,
         Incremented(d) \/ Inserted(d) \/ Collided(d) \/ Decremented(d) \/ NextMonth
  PROVE  CountInBounds'
<1> USE QuotaAssumption DEF QuotaTypeOK, CountInBounds, CountWithinCap, CountNotNegative
<1>0. DocIds' = DocIds  BY DEF DocIds, Months
<1>1. CASE Incremented(d)   BY <1>0, <1>1 DEF Incremented, Matches
<1>2. CASE Inserted(d)      BY <1>0, <1>2 DEF Inserted
<1>3. CASE Collided(d)      BY <1>0, <1>3 DEF Collided, quotaVars
<1>4. CASE Decremented(d)   BY <1>0, <1>4 DEF Decremented, Decrementable
<1>5. CASE NextMonth        BY <1>0, <1>5 DEF NextMonth
<1> QED BY <1>1, <1>2, <1>3, <1>4, <1>5

(* Every step is a command on one document or leaves the counter alone. *)
LEMMA StepIsCommand ==
  ASSUME TypeOK, Bookkeeping, [Next]_vars
  PROVE  \/ \E r \in Reqs, d \in DocIds :
               Incremented(d) \/ Inserted(d) \/ Collided(d) \/ Decremented(d)
         \/ NextMonth
         \/ UNCHANGED quotaVars
<1> USE DEF Steps
<1>1. ASSUME NEW r \in Reqs, ReserveHit(r) \/ ReserveInsert(r) \/ ReserveCollide(r) \/ ReserveAckLost(r)
      PROVE  \E d \in DocIds : Incremented(d) \/ Inserted(d) \/ Collided(d)
  <2>1. doc[r] \in DocIds
    BY <1>1 DEF ReserveHit, ReserveInsert, ReserveCollide, ReserveAckLost, Answer, Goto, Bookkeeping
  <2> QED
    BY <2>1, <1>1 DEF ReserveHit, ReserveInsert, ReserveCollide, ReserveAckLost
<1>2. ASSUME NEW r \in Reqs, Release(r)
      PROVE  (\E d \in DocIds : Decremented(d)) \/ UNCHANGED quotaVars
  BY <1>2, NamedDocument DEF Release
<1>3. ASSUME NEW r \in Reqs,
             \/ Reject(r) \/ Admit(r) \/ ReserveMiss(r) \/ Recheck(r) \/ ReserveRefused(r)
             \/ Sign(r) \/ Insert(r) \/ InsertError(r) \/ Reply(r) \/ StatsIncrement(r)
      PROVE  UNCHANGED quotaVars
  BY <1>3 DEF Reject, Admit, ReserveMiss, Recheck, ReserveRefused, Sign, Insert, InsertError,
              Reply, StatsIncrement
<1>4. Crash => UNCHANGED quotaVars  BY DEF Crash
<1>5. NewMonth => NextMonth  BY DEF NewMonth
<1>6. UNCHANGED vars => UNCHANGED quotaVars  BY DEF vars
<1> QED BY <1>1, <1>2, <1>3, <1>4, <1>5, <1>6 DEF Next, Handle

(* No step takes a count over the cap or below zero. *)
LEMMA NextBounds == TypeOK /\ Bookkeeping /\ CountInBounds /\ [Next]_vars => CountInBounds'
<1> SUFFICES ASSUME TypeOK, Bookkeeping, CountInBounds, [Next]_vars PROVE CountInBounds'
  OBVIOUS
<1>1. QuotaTypeOK  BY DEF TypeOK
<1>2. ASSUME UNCHANGED quotaVars PROVE CountInBounds'
  BY <1>2 DEF quotaVars, CountInBounds, CountWithinCap, CountNotNegative, DocIds, Months
<1>3. ASSUME NextMonth PROVE CountInBounds'
  BY <1>3 DEF NextMonth, CountInBounds, CountWithinCap, CountNotNegative, DocIds, Months
<1>4. ASSUME NEW d \in DocIds, Incremented(d) \/ Inserted(d) \/ Collided(d) \/ Decremented(d)
      PROVE  CountInBounds'
  BY <1>1, <1>4, CommandBounds
<1> QED BY <1>2, <1>3, <1>4, StepIsCommand

-----------------------------------------------------------------------------
(* The inductive invariant and what follows from it. *)

IInv == TypeOK /\ Bookkeeping /\ CountInBounds

(* The inductive invariant holds at the start. *)
LEMMA InitInv == Init => IInv
<1> USE QuotaAssumption, PresignAssumption
<1>1. Init => Bookkeeping  BY DEF Init, QuotaInit, Bookkeeping, DocIds, Months, Steps
<1>2. Init => CountInBounds
  BY DEF Init, QuotaInit, CountInBounds, CountWithinCap, CountNotNegative
<1> QED BY InitType, <1>1, <1>2 DEF IInv

(* ... and is kept by every step. *)
LEMMA Invariance == Spec => []IInv
<1>1. IInv /\ [Next]_vars => IInv'
  BY NextType, NextBookkeeping, NextBounds DEF IInv
<1> QED BY InitInv, <1>1, PTL DEF Spec

(* Every variable of the model keeps its type, whatever fails. *)
THEOREM TypeCorrect == Spec => []TypeOK
<1>1. IInv => TypeOK  BY DEF IInv
<1> QED BY Invariance, <1>1, PTL

(* No document of upload_counts ever counts more than the cap (or one, when   *)
(* the cap is below one), or less than zero: the guarded increment of         *)
(* quota.Reserve and the guarded decrement of quota.Release keep it so for    *)
(* any number of concurrent requests.                                         *)
THEOREM CountBounded == Spec => []CountInBounds
<1>1. IInv => CountInBounds  BY DEF IInv
<1> QED BY Invariance, <1>1, PTL

(* The bookkeeping of the handlers is an invariant. *)
THEOREM BookkeepingHolds == Spec => []Bookkeeping
<1>1. IInv => Bookkeeping  BY DEF IInv
<1> QED BY Invariance, <1>1, PTL

(* With a cap of at least one, every step that raises a count finds it below  *)
(* the cap: also the insert of the upsert, because the document was missing.  *)
THEOREM IncrementsBelowCap ==
  ASSUME Cap >= 1
  PROVE  Spec => IncrementOnlyBelowCap
<1> DEFINE Below == \A d \in DocIds : count'[d] > count[d] => count[d] < Cap
<1>1. IInv /\ [Next]_vars => [Below]_vars
  <2> SUFFICES ASSUME IInv, [Next]_vars PROVE Below
    OBVIOUS
  <2> USE QuotaAssumption DEF IInv, TypeOK, QuotaTypeOK
  <2>1. ASSUME NEW e \in DocIds, Incremented(e) PROVE Below
    BY <2>1 DEF Incremented, Matches
  <2>2. ASSUME NEW e \in DocIds, Inserted(e) PROVE Below
    BY <2>2 DEF Inserted, Bookkeeping
  <2>3. ASSUME NEW e \in DocIds, Decremented(e) PROVE Below
    BY <2>3 DEF Decremented
  <2>4. ASSUME UNCHANGED count PROVE Below
    BY <2>4
  <2> QED
    BY <2>1, <2>2, <2>3, <2>4, StepIsCommand DEF Collided, NextMonth, quotaVars
<1> QED BY Invariance, <1>1, PTL DEF Spec, IncrementOnlyBelowCap

(* A client that was told 201 has its upload in the collection, also after a  *)
(* crash: the answer is only ever written after the insert was acknowledged,  *)
(* and uploads are never removed.                                             *)
THEOREM AnswersAreDurable == Spec => []AnsweredIsDurable
<1>1. Init => AnsweredIsDurable  BY DEF Init, AnsweredIsDurable
<1>2. IInv /\ AnsweredIsDurable /\ [Next]_vars => AnsweredIsDurable'
  <2> SUFFICES ASSUME IInv, AnsweredIsDurable, [Next]_vars, NEW q \in Reqs, resp'[q] = 201
               PROVE  q \in recs'
    BY DEF AnsweredIsDurable
  <2> USE DEF IInv, TypeOK, AnsweredIsDurable
  <2>1. recs \subseteq recs'
    BY DEF Next, Handle, vars, handlerVars, Reject, Admit, ReserveHit, ReserveMiss, ReserveInsert,
           ReserveCollide, Recheck, ReserveRefused, ReserveAckLost, Sign, Insert, InsertError,
           Release, Reply, StatsIncrement, Crash, NewMonth
  <2>2. ASSUME NEW r \in Reqs, Reply(r) PROVE q \in recs
    BY <2>2 DEF Reply, Answer, Goto, Bookkeeping, Steps
  <2>3. ASSUME NEW r \in Reqs, Reject(r) \/ Recheck(r) PROVE resp[q] = 201
    BY <2>3 DEF Reject, Recheck, Answer, Goto
  <2>4. ASSUME NEW r \in Reqs, ReserveRefused(r) \/ ReserveAckLost(r) \/ Release(r)
        PROVE  resp[q] = 201
    BY <2>4 DEF ReserveRefused, ReserveAckLost, Release, Answer, Goto
  <2>5. ASSUME NEW r \in Reqs,
               \/ Admit(r) \/ ReserveHit(r) \/ ReserveMiss(r) \/ ReserveInsert(r)
               \/ ReserveCollide(r) \/ Sign(r) \/ Insert(r) \/ InsertError(r) \/ StatsIncrement(r)
        PROVE  resp[q] = 201
    BY <2>5 DEF Admit, ReserveHit, ReserveMiss, ReserveInsert, ReserveCollide, Sign, Insert,
                InsertError, StatsIncrement, handlerVars
  <2>6. Crash \/ NewMonth \/ UNCHANGED vars => resp[q] = 201
    BY DEF Crash, NewMonth, handlerVars, vars
  <2> QED BY <2>1, <2>2, <2>3, <2>4, <2>5, <2>6 DEF Next, Handle
<1> QED BY Invariance, <1>1, <1>2, PTL DEF Spec

-----------------------------------------------------------------------------
(* What a count consists of. *)

(* Both sets of the accounting are finite. *)
LEMMA AccountsFinite ==
  ASSUME NEW d
  PROVE  /\ IsFiniteSet(Charged(d))  /\ Cardinality(Charged(d)) \in Nat
         /\ IsFiniteSet(GaveBack(d)) /\ Cardinality(GaveBack(d)) \in Nat
<1>1. Charged(d) \in SUBSET Reqs /\ GaveBack(d) \in SUBSET Reqs
  BY DEF Charged, GaveBack
<1> QED BY <1>1, FS_Subset, FS_CardinalityType, PresignAssumption

(* Counting a request that was not counted before adds one to its document. *)
LEMMA Charging ==
  ASSUME TypeOK, CountAccounted, NEW r \in Reqs, NEW d \in DocIds,
         slot[r] = NoDoc, slot' = [slot EXCEPT ![r] = d], UNCHANGED gave,
         count' = [count EXCEPT ![d] = count[d] + 1]
  PROVE  CountAccounted'
<1> USE PresignAssumption
<1> SUFFICES ASSUME NEW e \in DocIds
             PROVE  count'[e] = Cardinality(Charged(e)') - Cardinality(GaveBack(e)')
  BY DEF CountAccounted, DocIds, Months
<1>0. count[e] = Cardinality(Charged(e)) - Cardinality(GaveBack(e))
  BY DEF CountAccounted
<1>1. GaveBack(e)' = GaveBack(e)  BY DEF GaveBack
<1>2. d # NoDoc /\ r \notin Charged(d)  BY DEF DocIds, Months, Charged
<1>3. CASE e = d
  <2>1. Charged(e)' = Charged(e) \cup {r}  BY <1>2, <1>3 DEF Charged, TypeOK
  <2>2. Cardinality(Charged(e)') = Cardinality(Charged(e)) + 1
    BY <1>2, <1>3, <2>1, AccountsFinite, FS_AddElement
  <2>3. count'[e] = count[e] + 1  BY <1>3 DEF TypeOK, QuotaTypeOK
  <2> QED BY <1>0, <1>1, <2>2, <2>3, AccountsFinite
<1>4. CASE e # d
  <2>1. Charged(e)' = Charged(e)  BY <1>2, <1>4 DEF Charged, TypeOK, DocIds, Months
  <2>2. count'[e] = count[e]  BY <1>4 DEF TypeOK, QuotaTypeOK
  <2> QED BY <1>0, <1>1, <2>1, <2>2
<1> QED BY <1>3, <1>4

(* A decrement that is booked to a request for the first time takes one off. *)
LEMMA GivingBack ==
  ASSUME TypeOK, CountAccounted, NEW r \in Reqs, NEW d \in DocIds,
         gave[r] = NoDoc, gave' = [gave EXCEPT ![r] = d], UNCHANGED slot,
         count' = [count EXCEPT ![d] = count[d] - 1]
  PROVE  CountAccounted'
<1> USE PresignAssumption
<1> SUFFICES ASSUME NEW e \in DocIds
             PROVE  count'[e] = Cardinality(Charged(e)') - Cardinality(GaveBack(e)')
  BY DEF CountAccounted, DocIds, Months
<1>0. count[e] = Cardinality(Charged(e)) - Cardinality(GaveBack(e))
  BY DEF CountAccounted
<1>1. Charged(e)' = Charged(e)  BY DEF Charged
<1>2. d # NoDoc /\ r \notin GaveBack(d)  BY DEF DocIds, Months, GaveBack
<1>3. CASE e = d
  <2>1. GaveBack(e)' = GaveBack(e) \cup {r}  BY <1>2, <1>3 DEF GaveBack, TypeOK
  <2>2. Cardinality(GaveBack(e)') = Cardinality(GaveBack(e)) + 1
    BY <1>2, <1>3, <2>1, AccountsFinite, FS_AddElement
  <2>3. count'[e] = count[e] - 1  BY <1>3 DEF TypeOK, QuotaTypeOK
  <2> QED BY <1>0, <1>1, <2>2, <2>3, AccountsFinite
<1>4. CASE e # d
  <2>1. GaveBack(e)' = GaveBack(e)  BY <1>2, <1>4 DEF GaveBack, TypeOK, DocIds, Months
  <2>2. count'[e] = count[e]  BY <1>4 DEF TypeOK, QuotaTypeOK
  <2> QED BY <1>0, <1>1, <2>1, <2>2
<1> QED BY <1>3, <1>4

(* No step changes a count without booking it to a request. *)
LEMMA NextAccounted == IInv /\ CountAccounted /\ [Next]_vars => CountAccounted'
<1> SUFFICES ASSUME IInv, CountAccounted, [Next]_vars PROVE CountAccounted'
  OBVIOUS
<1> USE DEF Steps
<1>0. TypeOK /\ Bookkeeping  BY DEF IInv
<1>1. ASSUME UNCHANGED <<count, slot, gave>> PROVE CountAccounted'
  BY <1>1 DEF CountAccounted, Charged, GaveBack, DocIds, Months
<1>2. ASSUME NEW r \in Reqs, ReserveHit(r) \/ ReserveInsert(r) \/ ReserveAckLost(r)
      PROVE  CountAccounted'
  <2>1. doc[r] \in DocIds /\ slot[r] = NoDoc
    BY <1>0, <1>2 DEF ReserveHit, ReserveInsert, ReserveAckLost, Answer, Goto, Bookkeeping
  <2>2. slot' = [slot EXCEPT ![r] = doc[r]] /\ UNCHANGED gave
    BY <1>2 DEF ReserveHit, ReserveInsert, ReserveAckLost
  <2>3. Incremented(doc[r]) \/ Inserted(doc[r])
    BY <1>2 DEF ReserveHit, ReserveInsert, ReserveAckLost
  <2>4. count' = [count EXCEPT ![doc[r]] = count[doc[r]] + 1]
    BY <1>0, <2>1, <2>3 DEF Incremented, Inserted, Bookkeeping, TypeOK, QuotaTypeOK
  <2> QED BY <1>0, <2>1, <2>2, <2>4, Charging
<1>3. ASSUME NEW r \in Reqs, Release(r) PROVE CountAccounted'
  <2> DEFINE d == DocID(ScopeOf[r])
  <2>1. d \in DocIds  BY <1>0, NamedDocument
  <2>2. gave[r] = NoDoc  BY <1>0, <1>3 DEF Release, Answer, Goto, Bookkeeping
  <2>3. UNCHANGED slot  BY <1>3 DEF Release
  <2>4. CASE Decremented(d) /\ Decrementable(d) /\ gave' = [gave EXCEPT ![r] = d]
    <3>1. count' = [count EXCEPT ![d] = count[d] - 1]  BY <2>4 DEF Decremented
    <3> HIDE DEF d
    <3> QED BY <1>0, <2>1, <2>2, <2>3, <2>4, <3>1, GivingBack
  <2>5. CASE UNCHANGED <<count, gave>>  BY <1>1, <2>3, <2>5
  <2> QED BY <1>3, <2>4, <2>5 DEF Release, Decremented, quotaVars
<1>4. ASSUME NEW r \in Reqs,
             \/ Reject(r) \/ Admit(r) \/ ReserveMiss(r) \/ ReserveCollide(r) \/ Recheck(r)
             \/ ReserveRefused(r) \/ Sign(r) \/ Insert(r) \/ InsertError(r) \/ Reply(r)
             \/ StatsIncrement(r)
      PROVE  UNCHANGED <<count, slot, gave>>
  BY <1>4 DEF Reject, Admit, ReserveMiss, ReserveCollide, Collided, Recheck, ReserveRefused,
              Sign, Insert, InsertError, Reply, StatsIncrement, NotCharged, quotaVars
<1>5. Crash \/ NewMonth \/ UNCHANGED vars => UNCHANGED <<count, slot, gave>>
  BY DEF Crash, NewMonth, NextMonth, NotCharged, quotaVars, vars
<1> QED BY <1>1, <1>2, <1>3, <1>4, <1>5 DEF Next, Handle

(* A count is the number of requests that incremented it less the number that *)
(* gave a slot back, through every error, crash and change of month.          *)
THEOREM CountIsAccounted == Spec => []CountAccounted
<1>1. Init => CountAccounted
  <2> SUFFICES ASSUME Init, NEW d \in DocIds
               PROVE  count[d] = Cardinality(Charged(d)) - Cardinality(GaveBack(d))
    BY DEF CountAccounted
  <2>1. Charged(d) = {} /\ GaveBack(d) = {} /\ count[d] = 0
    BY PresignAssumption DEF Init, QuotaInit, Charged, GaveBack, DocIds, Months
  <2> QED BY <2>1, FS_EmptySet
<1> QED BY Invariance, <1>1, NextAccounted, PTL DEF Spec

-----------------------------------------------------------------------------
(* The sets behind a refusal only grow. *)
LEMMA ChargedGrows ==
  ASSUME IInv, [Next]_vars, NEW d \in DocIds
  PROVE  Charged(d) \subseteq Charged(d)'
<1> USE DEF IInv, TypeOK, Charged
<1>0. d # NoDoc  BY PresignAssumption DEF DocIds, Months
<1>1. ASSUME NEW r \in Reqs, ReserveHit(r) \/ ReserveInsert(r) \/ ReserveAckLost(r)
      PROVE  Charged(d) \subseteq Charged(d)'
  <2>1. slot[r] = NoDoc
    BY <1>1 DEF ReserveHit, ReserveInsert, ReserveAckLost, Answer, Goto, Bookkeeping
  <2>2. slot' = [slot EXCEPT ![r] = doc[r]]
    BY <1>1 DEF ReserveHit, ReserveInsert, ReserveAckLost
  <2> QED BY <1>0, <2>1, <2>2
<1>2. ASSUME NEW r \in Reqs,
             \/ Reject(r) \/ Admit(r) \/ ReserveMiss(r) \/ ReserveCollide(r) \/ Recheck(r)
             \/ ReserveRefused(r) \/ Sign(r) \/ Insert(r) \/ InsertError(r) \/ Reply(r)
             \/ StatsIncrement(r) \/ Release(r)
      PROVE  UNCHANGED slot
  BY <1>2 DEF Reject, Admit, ReserveMiss, ReserveCollide, Recheck, ReserveRefused, Sign,
              Insert, InsertError, Reply, StatsIncrement, Release, NotCharged
<1>3. Crash \/ NewMonth \/ UNCHANGED vars => UNCHANGED slot
  BY DEF Crash, NewMonth, NotCharged, vars
<1> QED BY <1>1, <1>2, <1>3 DEF Next, Handle

(* A client is told 403 only if a full month of slots of its scope was handed *)
(* out: the recheck of quota.Reserve cannot report a quota full that is not.  *)
THEOREM FullMeansFull == Spec => []NoSpuriousFull
<1> DEFINE Taken(r) == \E m \in Months : Cardinality(Charged(<<ScopeOf[r], m>>)) >= Cap
<1>1. Init => NoSpuriousFull  BY DEF Init, NoSpuriousFull
<1>2. IInv /\ CountAccounted /\ NoSpuriousFull /\ [Next]_vars => NoSpuriousFull'
  <2> SUFFICES ASSUME IInv, CountAccounted, NoSpuriousFull, [Next]_vars,
                      NEW q \in Reqs, resp'[q] = 403
               PROVE  Taken(q)'
    BY DEF NoSpuriousFull
  <2> USE PresignAssumption, QuotaAssumption DEF IInv
  <2>1. Taken(q) => Taken(q)'
    <3> SUFFICES ASSUME NEW m \in Months, Cardinality(Charged(<<ScopeOf[q], m>>)) >= Cap
                 PROVE  Cardinality(Charged(<<ScopeOf[q], m>>)') >= Cap
      BY DEF Months
    <3> DEFINE d == <<ScopeOf[q], m>>
    <3>1. d \in DocIds  BY DEF DocIds
    <3>2. Charged(d) \subseteq Charged(d)'  BY <3>1, ChargedGrows
    <3>3. Charged(d)' \in SUBSET Reqs  BY DEF Charged
    <3>4. IsFiniteSet(Charged(d)')  BY <3>3, FS_Subset
    <3>5. Cardinality(Charged(d)') \in Nat  BY <3>4, FS_CardinalityType
    <3>6. Cardinality(Charged(d)) <= Cardinality(Charged(d)')  BY <3>2, <3>4, FS_Subset
    <3>7. Cardinality(Charged(d)) \in Nat  BY AccountsFinite
    <3> QED BY <3>5, <3>6, <3>7
  <2>2. resp[q] = 403 => Taken(q)  BY DEF NoSpuriousFull
  <2>3. ASSUME NEW r \in Reqs, Recheck(r), r = q, ~Grants(Used(ScopeOf[r])) PROVE Taken(q)
    <3> DEFINE d == DocID(ScopeOf[q])
    <3>1. d \in DocIds  BY NamedDocument
    <3>2. count[d] >= Cap  BY <2>3, <3>1 DEF Grants, Used, TypeOK, QuotaTypeOK
    <3>3. Cardinality(Charged(d)) \in Nat /\ Cardinality(GaveBack(d)) \in Nat
      BY AccountsFinite
    <3>4. count[d] = Cardinality(Charged(d)) - Cardinality(GaveBack(d))
      BY <3>1 DEF CountAccounted
    <3>5. Cardinality(Charged(d)) >= Cap  BY <3>2, <3>3, <3>4
    <3> QED BY <3>5 DEF DocID, TypeOK, QuotaTypeOK
  <2>4. ASSUME NEW r \in Reqs, Recheck(r), ~(r = q /\ ~Grants(Used(ScopeOf[r])))
        PROVE  resp[q] = 403
    BY <2>4 DEF Recheck, Answer, Goto, TypeOK
  <2>5. ASSUME NEW r \in Reqs,
               \/ Reject(r) \/ Reply(r) \/ ReserveRefused(r) \/ ReserveAckLost(r) \/ Release(r)
        PROVE  resp[q] = 403
    BY <2>5 DEF Reject, Reply, ReserveRefused, ReserveAckLost, Release, Answer, Goto, TypeOK
  <2>6. ASSUME NEW r \in Reqs,
               \/ Admit(r) \/ ReserveHit(r) \/ ReserveMiss(r) \/ ReserveInsert(r)
               \/ ReserveCollide(r) \/ Sign(r) \/ Insert(r) \/ InsertError(r) \/ StatsIncrement(r)
        PROVE  resp[q] = 403
    BY <2>6 DEF Admit, ReserveHit, ReserveMiss, ReserveInsert, ReserveCollide, Sign, Insert,
                InsertError, StatsIncrement, handlerVars
  <2>7. Crash \/ NewMonth \/ UNCHANGED vars => resp[q] = 403
    BY DEF Crash, NewMonth, handlerVars, vars
  <2> HIDE DEF Taken
  <2> QED BY <2>1, <2>2, <2>3, <2>4, <2>5, <2>6, <2>7 DEF Next, Handle
<1> QED BY Invariance, CountIsAccounted, <1>1, <1>2, PTL DEF Spec

(* What the quota answers is true: 201 means stored, 403 means full.          *)
THEOREM AnswersHold == Spec => []AnswersAreTrue
<1>1. AnsweredIsDurable /\ NoSpuriousFull => AnswersAreTrue  BY DEF AnswersAreTrue
<1> QED BY AnswersAreDurable, FullMeansFull, <1>1, PTL
-----------------------------------------------------------------------------
(* The global statistics. *)

Told201 == {r \in Reqs : resp[r] = 201}

(* A request is answered once, at its end, and only an accepted one has a     *)
(* statistics goroutine.  This is why Reply adds the request to both sides of *)
(* StatsNeverAhead.                                                           *)
StatsInv ==
    /\ \A r \in Reqs : resp[r] # 0 => pc[r] = "done"
    /\ pend \subseteq Told201
    /\ StatsNeverAhead

(* The sets that StatsNeverAhead counts are finite. *)
LEMMA StatsFinite ==
  ASSUME NEW S, S \subseteq Reqs
  PROVE  IsFiniteSet(S) /\ Cardinality(S) \in Nat
BY FS_Subset, FS_CardinalityType, PresignAssumption

(* A step that answers no request with 201 and starts no goroutine. *)
LEMMA StatsUntouched ==
  ASSUME TypeOK, StatsInv, NEW r \in Reqs, NEW from, NEW status, status # 201,
         Answer(r, from, status), from # "done", UNCHANGED <<pend, stats>>
  PROVE  StatsInv'
<1> USE DEF Answer, Goto, StatsInv, TypeOK
<1>1. Told201' = Told201  BY DEF Told201
<1>2. StatsNeverAhead'  BY <1>1 DEF StatsNeverAhead, Told201
<1> QED BY <1>1, <1>2

(* No step lets the statistics run ahead. *)
LEMMA NextStats == TypeOK /\ StatsInv /\ [Next]_vars => StatsInv'
<1> SUFFICES ASSUME TypeOK, StatsInv, [Next]_vars PROVE StatsInv'
  OBVIOUS
<1> USE DEF TypeOK
<1>1. ASSUME NEW r \in Reqs, Reply(r) PROVE StatsInv'
  <2> USE DEF Reply, Answer, Goto
  <2>1. resp[r] = 0 /\ r \notin Told201 /\ r \notin pend
    BY <1>1 DEF StatsInv, Told201
  <2>2. Told201' = Told201 \cup {r} /\ pend' = pend \cup {r} /\ UNCHANGED stats
    BY <1>1 DEF Told201
  <2>3. /\ IsFiniteSet(Told201) /\ Cardinality(Told201) \in Nat
        /\ IsFiniteSet(pend) /\ Cardinality(pend) \in Nat
    BY StatsFinite DEF Told201
  <2>4. /\ Cardinality(Told201') = Cardinality(Told201) + 1
        /\ Cardinality(pend') = Cardinality(pend) + 1
    BY <2>1, <2>2, <2>3, FS_AddElement
  <2>5. StatsNeverAhead'
    BY <2>2, <2>3, <2>4 DEF StatsInv, StatsNeverAhead, Told201
  <2> QED BY <1>1, <2>2, <2>5 DEF StatsInv
<1>2. ASSUME NEW r \in Reqs, StatsIncrement(r) PROVE StatsInv'
  <2> USE DEF StatsIncrement, handlerVars
  <2>1. r \in pend /\ pend' = pend \ {r} /\ UNCHANGED <<pc, resp>>  BY <1>2
  <2>2. Told201' = Told201  BY <2>1 DEF Told201
  <2>3. /\ IsFiniteSet(Told201) /\ Cardinality(Told201) \in Nat
        /\ IsFiniteSet(pend) /\ Cardinality(pend) \in Nat
    BY StatsFinite DEF Told201
  <2>4. Cardinality(pend') = Cardinality(pend) - 1
    BY <2>1, <2>3, FS_RemoveElement
  <2>5. stats' <= stats + 1 /\ stats' \in Nat  BY <1>2
  <2>6. stats + Cardinality(pend) <= Cardinality(Told201)
    BY DEF StatsInv, StatsNeverAhead, Told201
  <2>7. stats' + Cardinality(pend') <= Cardinality(Told201')
    BY <2>2, <2>3, <2>4, <2>5, <2>6
  <2>8. StatsNeverAhead'  BY <2>7 DEF StatsNeverAhead, Told201
  <2> QED BY <2>1, <2>2, <2>8 DEF StatsInv
<1>3. ASSUME Crash PROVE StatsInv'
  <2> USE DEF Crash
  <2>1. pend' = {} /\ UNCHANGED <<resp, stats>>  BY <1>3
  <2>2. Told201' = Told201  BY <2>1 DEF Told201
  <2>3. Cardinality(pend) \in Nat /\ Cardinality(pend') = 0 /\ Cardinality(Told201) \in Nat
    BY <2>1, StatsFinite, FS_EmptySet DEF Told201
  <2>4. StatsNeverAhead'
    BY <2>1, <2>2, <2>3 DEF StatsInv, StatsNeverAhead, Told201
  <2> QED BY <1>3, <2>1, <2>2, <2>4 DEF StatsInv, InFlight, Steps
<1>4. ASSUME NEW r \in Reqs, Reject(r) \/ ReserveRefused(r) \/ ReserveAckLost(r) \/ Release(r)
      PROVE  StatsInv'
  <2>1. /\ UNCHANGED <<pend, stats>>
        /\ \E from \in {"idle", "reserve", "upsert", "recheck", "release"},
              status \in {400, 413, 500} : Answer(r, from, status)
    BY <1>4 DEF Reject, ReserveRefused, ReserveAckLost, Release
  <2> QED BY <2>1, StatsUntouched
<1>5. ASSUME NEW r \in Reqs, Recheck(r), Answer(r, "recheck", 403) PROVE StatsInv'
  BY <1>5, StatsUntouched DEF Recheck
<1>6. ASSUME NEW r \in Reqs, NEW from, NEW to, from # "done", Goto(r, from, to),
             UNCHANGED <<resp, pend, stats>>
      PROVE  StatsInv'
  BY <1>6 DEF Goto, StatsInv, StatsNeverAhead, Told201
<1>7. ASSUME NEW r \in Reqs, Recheck(r), ~Answer(r, "recheck", 403) PROVE StatsInv'
  BY <1>6, <1>7 DEF Recheck
<1>8. ASSUME NEW r \in Reqs,
             \/ Admit(r) \/ ReserveHit(r) \/ ReserveMiss(r) \/ ReserveInsert(r)
             \/ ReserveCollide(r) \/ Sign(r) \/ Insert(r) \/ InsertError(r)
      PROVE  StatsInv'
  <2>1. /\ UNCHANGED <<resp, pend, stats>>
        /\ \E from, to \in Steps \cup {"idle"} : Goto(r, from, to)
    BY <1>8 DEF Admit, ReserveHit, ReserveMiss, ReserveInsert, ReserveCollide, Sign, Insert,
                InsertError, Steps
  <2> QED BY <1>6, <2>1 DEF Steps
<1>9. ASSUME NewMonth \/ UNCHANGED vars PROVE StatsInv'
  <2>1. UNCHANGED <<pc, resp, pend, stats>>  BY <1>9 DEF NewMonth, handlerVars, vars
  <2> QED BY <2>1 DEF StatsInv, StatsNeverAhead, Told201
<1> QED
  BY <1>1, <1>2, <1>3, <1>4, <1>5, <1>7, <1>8, <1>9 DEF Next, Handle

(* The public total never exceeds the uploads that were answered with 201,    *)
(* whatever fails: every answer starts one goroutine of IncrementAsync, which *)
(* counts at most once and dies with the process.                             *)
THEOREM StatsStayBehind == Spec => []StatsNeverAhead
<1>1. Init => StatsInv
  <2> SUFFICES ASSUME Init PROVE StatsInv
    OBVIOUS
  <2>1. Told201 = {} /\ pend = {} /\ stats = 0  BY DEF Init, Told201
  <2>2. StatsNeverAhead  BY <2>1, FS_EmptySet DEF StatsNeverAhead, Told201
  <2> QED BY <2>1, <2>2 DEF Init, StatsInv
<1>2. StatsInv => StatsNeverAhead  BY DEF StatsInv
<1> QED BY TypeCorrect, <1>1, <1>2, NextStats, PTL DEF Spec
-----------------------------------------------------------------------------
(* What one handler does to the others: nothing. *)

Same(q) ==
    /\ pc'[q] = pc[q] /\ doc'[q] = doc[q] /\ used'[q] = used[q] /\ resp'[q] = resp[q]
    /\ slot'[q] = slot[q] /\ gave'[q] = gave[q] /\ (q \in recs' <=> q \in recs)

(* A step of one request leaves what is kept of every other as it is. *)
LEMMA OthersKept ==
  ASSUME NEW r \in Reqs, Reject(r) \/ Admit(r) \/ Handle(r), NEW q \in Reqs \ {r}, TypeOK
  PROVE  Same(q)
<1> USE DEF TypeOK, Same, Answer, Goto, NotCharged
<1>1. ASSUME Reject(r) \/ ReserveRefused(r) PROVE Same(q)
  BY <1>1 DEF Reject, ReserveRefused
<1>2. ASSUME Admit(r) \/ ReserveMiss(r) \/ Sign(r) PROVE Same(q)
  BY <1>2 DEF Admit, ReserveMiss, Sign
<1>3. ASSUME ReserveHit(r) \/ ReserveInsert(r) \/ ReserveCollide(r) PROVE Same(q)
  BY <1>3 DEF ReserveHit, ReserveInsert, ReserveCollide
<1>4. ASSUME Recheck(r) \/ ReserveAckLost(r) PROVE Same(q)
  BY <1>4 DEF Recheck, ReserveAckLost
<1>5. ASSUME Insert(r) \/ InsertError(r) \/ Reply(r) PROVE Same(q)
  BY <1>5 DEF Insert, InsertError, Reply
<1>6. ASSUME Release(r) PROVE Same(q)
  BY <1>6 DEF Release
<1> QED BY <1>1, <1>2, <1>3, <1>4, <1>5, <1>6 DEF Handle

(* A request keeps to its scope; it is answered at its end, and its upload is *)
(* not in the collection before it has been inserted.                         *)
Early == {"idle", "reserve", "upsert", "recheck", "sign", "insert"}

Course(r) ==
    /\ resp[r] # 0 => pc[r] = "done"
    /\ pc[r] \in Early => r \notin recs
    /\ pc[r] \in Steps => doc[r] \in {ScopeOf[r]} \X Months
    /\ slot[r] # NoDoc => slot[r] \in {ScopeOf[r]} \X Months

OnCourse == \A r \in Reqs : Course(r)

(* Every request keeps its course. *)
LEMMA NextCourse == TypeOK /\ OnCourse /\ [Next]_vars => OnCourse'
<1> SUFFICES ASSUME TypeOK, OnCourse, [Next]_vars, NEW q \in Reqs PROVE Course(q)'
  BY DEF OnCourse
<1>0. Course(q)  BY DEF OnCourse
<1>1. ASSUME Same(q) PROVE Course(q)'
  BY <1>0, <1>1 DEF Course, Same, Early, Steps, Months
<1> USE DEF Course, Early, Steps, Answer, Goto, NotCharged, TypeOK
<1>2. ASSUME Reject(q) \/ ReserveRefused(q) PROVE Course(q)'
  BY <1>0, <1>2 DEF Reject, ReserveRefused, Months
<1>3. ASSUME Admit(q) PROVE Course(q)'
  <2>1. doc'[q] = <<ScopeOf[q], month>>  BY <1>3 DEF Admit, DocID
  <2>2. month \in Months /\ Months' = Months  BY DEF QuotaTypeOK, Months
  <2> QED BY <1>0, <1>3, <2>1, <2>2 DEF Admit
<1>4. ASSUME ReserveHit(q) \/ ReserveInsert(q) \/ ReserveAckLost(q) PROVE Course(q)'
  BY <1>0, <1>4 DEF ReserveHit, ReserveInsert, ReserveAckLost, Months
<1>5. ASSUME ReserveMiss(q) \/ ReserveCollide(q) \/ Sign(q) PROVE Course(q)'
  BY <1>0, <1>5 DEF ReserveMiss, ReserveCollide, Sign, Months
<1>6. ASSUME Recheck(q) PROVE Course(q)'
  BY <1>0, <1>6 DEF Recheck, Months
<1>7. ASSUME Insert(q) \/ InsertError(q) \/ Reply(q) PROVE Course(q)'
  BY <1>0, <1>7 DEF Insert, InsertError, Reply, Months
<1>8. ASSUME Release(q) PROVE Course(q)'
  BY <1>0, <1>8 DEF Release, Months
<1>9. ASSUME Crash PROVE Course(q)'
  BY <1>0, <1>9 DEF Crash, InFlight, Months
<1>10. ASSUME NewMonth \/ UNCHANGED vars \/ \E r \in Reqs : StatsIncrement(r) PROVE Same(q)
  BY <1>10 DEF NewMonth, StatsIncrement, vars, handlerVars, Same
<1>11. ASSUME NEW r \in Reqs, r # q, Reject(r) \/ Admit(r) \/ Handle(r) PROVE Same(q)
  BY <1>11, OthersKept
<1> QED
  BY <1>1, <1>2, <1>3, <1>4, <1>5, <1>6, <1>7, <1>8, <1>9, <1>10, <1>11 DEF Next, Handle

(* ... and so from the start on. *)
LEMMA CourseKept == Spec => []OnCourse
<1>1. Init => OnCourse
  BY DEF Init, OnCourse, Course, Early, Steps
<1> QED BY TypeCorrect, NextCourse, <1>1, PTL DEF Spec

-----------------------------------------------------------------------------
(* The cap while the document exists and nothing has been given back.         *)
(*                                                                            *)
(* Only a request that has missed its update can be granted without being     *)
(* counted.  It has missed because the document was full, and a full document *)
(* stays full as long as nothing is given back, so that the recheck finds it  *)
(* full as well (Missed).  Whoever is granted is therefore counted, and the   *)
(* usages that were told are the counts of different increments.              *)

Granted(r) ==
    pc[r] \in {"sign", "insert", "release", "reply"} \/ resp[r] = 201 \/ r \in recs

Missed(d) ==
    \A r \in Reqs : doc[r] = d /\ pc[r] \in {"upsert", "recheck"} => count[d] >= Cap

Counted(d) ==
    \A r \in Reqs : doc[r] = d /\ Granted(r) => slot[r] = d /\ used[r] <= count[d]

Distinct(d) ==
    \A q, r \in Reqs :
        doc[q] = d /\ doc[r] = d /\ Granted(q) /\ Granted(r) /\ q # r => used[q] # used[r]

WarmDocs == Warm \X {0}

Full == \A d \in WarmDocs : d \in docs /\ (Cap >= 0 => count[d] <= Cap)

Quiet == \A d \in WarmDocs : Unreturned(d) => Missed(d) /\ Counted(d) /\ Distinct(d)

(* The documents that were there at the start are documents of the counter. *)
LEMMA WarmDocsExist == WarmDocs \subseteq DocIds
BY QuotaAssumption DEF WarmDocs, DocIds, Months

(* What has not been given back now was not given back before, and a document *)
(* from which nothing is taken does not count down.                           *)
LEMMA Counting ==
  ASSUME IInv, Full, [Next]_vars, NEW d \in WarmDocs, Unreturned(d)'
  PROVE  Unreturned(d) /\ d \in docs' /\ count'[d] \in Int /\ count'[d] >= count[d]
<1> USE QuotaAssumption, PresignAssumption
<1>0. /\ d \in DocIds /\ d \in docs /\ d # NoDoc /\ month \in Nat
      /\ count \in [DocIds -> Int] /\ gave \in [Reqs -> DocIds \cup {NoDoc}]
  BY WarmDocsExist DEF Full, IInv, TypeOK, QuotaTypeOK, Months, DocIds
<1>1. ASSUME UNCHANGED <<month, docs, count, gave>>
      PROVE  Unreturned(d) /\ d \in docs' /\ count'[d] \in Int /\ count'[d] >= count[d]
  BY <1>0, <1>1 DEF Unreturned, GaveBack
<1>2. ASSUME NEW r \in Reqs,
             \/ Reject(r) \/ Admit(r) \/ ReserveMiss(r) \/ ReserveCollide(r) \/ Recheck(r)
             \/ ReserveRefused(r) \/ Sign(r) \/ Insert(r) \/ InsertError(r) \/ Reply(r)
             \/ StatsIncrement(r)
      PROVE  UNCHANGED <<month, docs, count, gave>>
  BY <1>2 DEF Reject, Admit, ReserveMiss, ReserveCollide, Collided, Recheck, ReserveRefused,
              Sign, Insert, InsertError, Reply, StatsIncrement, NotCharged, quotaVars
<1>3. ASSUME NEW r \in Reqs, ReserveHit(r) \/ ReserveInsert(r) \/ ReserveAckLost(r)
      PROVE  Unreturned(d) /\ d \in docs' /\ count'[d] \in Int /\ count'[d] >= count[d]
  <2>1. UNCHANGED <<gave, month>> /\ (Incremented(doc[r]) \/ Inserted(doc[r]))
    BY <1>3 DEF ReserveHit, ReserveInsert, ReserveAckLost, Incremented, Inserted
  <2>2. Unreturned(d)  BY <2>1 DEF Unreturned, GaveBack
  <2>3. CASE Incremented(doc[r])  BY <1>0, <2>2, <2>3 DEF Incremented
  <2>4. CASE Inserted(doc[r])  BY <1>0, <2>2, <2>4 DEF Inserted
  <2> QED BY <2>1, <2>3, <2>4
<1>4. ASSUME NEW r \in Reqs, Release(r)
      PROVE  Unreturned(d) /\ d \in docs' /\ count'[d] \in Int /\ count'[d] >= count[d]
  <2> DEFINE e == DocID(ScopeOf[r])
  <2>1. gave[r] = NoDoc  BY <1>4 DEF Release, Answer, Goto, IInv, Bookkeeping, Steps
  <2>2. UNCHANGED <<month, docs>>  BY <1>4 DEF Release, Decremented, quotaVars
  <2>3. CASE Decremented(e) /\ Decrementable(e) /\ gave' = [gave EXCEPT ![r] = e]
    <3> HIDE DEF e
    <3>1. gave'[r] = e  BY <1>0, <2>3
    <3>2. r \notin GaveBack(d)'  BY DEF Unreturned
    <3>3. e # d  BY <3>1, <3>2 DEF GaveBack
    <3>4. GaveBack(d) \subseteq GaveBack(d)'  BY <1>0, <2>1, <2>3 DEF GaveBack
    <3>5. count'[d] = count[d]  BY <1>0, <2>3, <3>3 DEF Decremented
    <3> QED BY <1>0, <2>2, <3>4, <3>5 DEF Unreturned
  <2>4. CASE UNCHANGED <<count, gave>>  BY <1>1, <2>2, <2>4
  <2> QED BY <1>4, <2>2, <2>3, <2>4 DEF Release, Decremented, quotaVars
<1>5. ASSUME NewMonth
      PROVE  Unreturned(d) /\ d \in docs' /\ count'[d] \in Int /\ count'[d] >= count[d]
  <2>1. month' = month + 1 /\ month' = 0  BY <1>5 DEF NewMonth, NextMonth, Unreturned
  <2> QED BY <1>0, <2>1
<1>6. Crash \/ UNCHANGED vars => UNCHANGED <<month, docs, count, gave>>
  BY DEF Crash, NotCharged, quotaVars, vars
<1> QED BY <1>1, <1>2, <1>3, <1>4, <1>5, <1>6 DEF Next, Handle

(* A document that was there at the start never counts beyond the cap. *)
LEMMA NextFull == IInv /\ Full /\ [Next]_vars => Full'
<1> SUFFICES ASSUME IInv, Full, [Next]_vars, NEW d \in WarmDocs
             PROVE  d \in docs' /\ (Cap >= 0 => count'[d] <= Cap)
  BY DEF Full, WarmDocs
<1> USE QuotaAssumption
<1>0. d \in DocIds /\ d \in docs /\ count \in [DocIds -> Int] /\ (Cap >= 0 => count[d] <= Cap)
  BY WarmDocsExist DEF Full, IInv, TypeOK, QuotaTypeOK
<1>1. ASSUME NEW e \in DocIds, Incremented(e) \/ Inserted(e) \/ Collided(e) \/ Decremented(e)
      PROVE  d \in docs' /\ (Cap >= 0 => count'[d] <= Cap)
  <2>1. CASE Incremented(e)  BY <1>0, <2>1 DEF Incremented, Matches
  <2>2. CASE Inserted(e)  BY <1>0, <2>2 DEF Inserted
  <2>3. CASE Collided(e)  BY <1>0, <2>3 DEF Collided, quotaVars
  <2>4. CASE Decremented(e)  BY <1>0, <2>4 DEF Decremented
  <2> QED BY <1>1, <2>1, <2>2, <2>3, <2>4
<1>2. ASSUME NextMonth \/ UNCHANGED quotaVars
      PROVE  d \in docs' /\ (Cap >= 0 => count'[d] <= Cap)
  BY <1>0, <1>2 DEF NextMonth, quotaVars
<1>3. TypeOK /\ Bookkeeping  BY DEF IInv
<1> QED BY <1>1, <1>2, <1>3, StepIsCommand

(* How a request stands to a document from which nothing was given back: a    *)
(* miss finds it full, and a new grant is an increment.                       *)
LEMMA OneRequest ==
  ASSUME IInv, OnCourse, Full, Quiet, [Next]_vars,
         NEW d \in WarmDocs, Unreturned(d)', NEW q \in Reqs, doc'[q] = d
  PROVE  /\ pc'[q] \in {"upsert", "recheck"} => count'[d] >= Cap
         /\ Granted(q)' => /\ slot'[q] = d /\ used'[q] <= count'[d]
                           /\ \/ Granted(q) /\ doc[q] = d /\ used'[q] = used[q]
                              \/ ReserveHit(q) /\ used'[q] = count[d] + 1
<1> DEFINE Goal ==
      /\ pc'[q] \in {"upsert", "recheck"} => count'[d] >= Cap
      /\ Granted(q)' => /\ slot'[q] = d /\ used'[q] <= count'[d]
                        /\ \/ Granted(q) /\ doc[q] = d /\ used'[q] = used[q]
                           \/ ReserveHit(q) /\ used'[q] = count[d] + 1
<1> USE QuotaAssumption, PresignAssumption
<1>0. /\ Unreturned(d) /\ count'[d] \in Int /\ count'[d] >= count[d] /\ d \in docs
      /\ d \in DocIds /\ count \in [DocIds -> Int] /\ count[d] \in Int
      /\ used \in [Reqs -> Int] /\ used[q] \in Int
  BY Counting, WarmDocsExist DEF Full, IInv, TypeOK, QuotaTypeOK
<1>1. /\ doc[q] = d /\ pc[q] \in {"upsert", "recheck"} => count[d] >= Cap
      /\ doc[q] = d /\ Granted(q) => slot[q] = d /\ used[q] <= count[d]
  BY <1>0 DEF Quiet, Missed, Counted
<1>2. Course(q)  BY DEF OnCourse
<1>3. ASSUME Same(q) PROVE Goal
  BY <1>0, <1>1, <1>3 DEF Same, Granted
<1>4. TypeOK  BY DEF IInv
<1> USE DEF Answer, Goto, NotCharged, Granted
<1>5. ASSUME Reject(q) \/ ReserveRefused(q) \/ Admit(q) \/ ReserveAckLost(q) PROVE Goal
  <2>1. /\ pc[q] \in Early /\ q \notin recs /\ resp[q] = 0 /\ q \notin recs'
        /\ resp'[q] # 201 /\ pc'[q] \in {"done", "reserve"}
    BY <1>2, <1>4, <1>5
    DEF Reject, ReserveRefused, Admit, ReserveAckLost, Course, Early, TypeOK
  <2> QED BY <2>1
<1>6. ASSUME ReserveHit(q) PROVE Goal
  <2>1. /\ doc[q] = d /\ pc'[q] = "sign" /\ slot'[q] = d /\ used'[q] = count'[d]
        /\ count'[d] = count[d] + 1
    BY <1>0, <1>4, <1>6 DEF ReserveHit, Incremented, TypeOK
  <2> QED BY <1>0, <1>6, <2>1
<1>7. ASSUME ReserveMiss(q) PROVE Goal
  <2>1. /\ doc[q] = d /\ ~Matches(d) /\ pc'[q] = "upsert" /\ pc[q] = "reserve"
        /\ UNCHANGED <<count, recs, resp>>
    BY <1>4, <1>7 DEF ReserveMiss, TypeOK, quotaVars
  <2>2. count[d] >= Cap  BY <1>0, <2>1 DEF Matches
  <2> QED BY <1>2, <2>1, <2>2 DEF Course, Early
<1>8. ASSUME ReserveInsert(q) PROVE Goal
  <2>1. doc[q] = d /\ d \notin docs  BY <1>8 DEF ReserveInsert, Inserted
  <2> QED BY <1>0, <2>1
<1>9. ASSUME ReserveCollide(q) PROVE Goal
  <2>1. /\ doc[q] = d /\ pc'[q] = "recheck" /\ pc[q] = "upsert"
        /\ UNCHANGED <<count, recs, resp>>
    BY <1>4, <1>9 DEF ReserveCollide, Collided, TypeOK, quotaVars
  <2> QED BY <1>1, <1>2, <2>1 DEF Course, Early
<1>10. ASSUME Recheck(q) PROVE Goal
  <2>1. doc[q] = d /\ pc[q] = "recheck" /\ UNCHANGED recs  BY <1>10 DEF Recheck
  <2>2. d = <<ScopeOf[q], 0>> /\ month = 0
    BY <1>0, <1>2, <2>1 DEF Course, Steps, WarmDocs, Unreturned
  <2>3. Used(ScopeOf[q]) = count[d]  BY <2>2 DEF Used, DocID
  <2>4. ~Grants(Used(ScopeOf[q]))  BY <1>0, <1>1, <2>1, <2>3 DEF Grants
  <2>5. pc'[q] = "done" /\ resp'[q] = 403  BY <1>4, <1>10, <2>4 DEF Recheck, TypeOK
  <2> QED BY <1>2, <2>1, <2>5 DEF Course, Early
<1>11. ASSUME Sign(q) \/ Insert(q) \/ InsertError(q) \/ Reply(q) PROVE Goal
  <2>1. /\ Granted(q) /\ doc[q] = d /\ UNCHANGED <<used, slot>>
        /\ pc'[q] \in {"insert", "release", "reply", "done"}
    BY <1>4, <1>11 DEF Sign, Insert, InsertError, Reply, TypeOK
  <2> QED BY <1>0, <1>1, <2>1
<1>12. ASSUME Release(q) PROVE Goal
  <2>1. Granted(q) /\ doc[q] = d /\ UNCHANGED <<used, slot>> /\ pc'[q] = "done"
    BY <1>4, <1>12 DEF Release, TypeOK
  <2> QED BY <1>0, <1>1, <2>1
<1>13. ASSUME Crash PROVE Goal
  <2>1. /\ UNCHANGED <<doc, used, resp, recs, slot>>
        /\ pc'[q] = pc[q] \/ pc'[q] = "lost"
    BY <1>13 DEF Crash
  <2> QED BY <1>0, <1>1, <2>1
<1>14. ASSUME NewMonth \/ UNCHANGED vars \/ \E r \in Reqs : StatsIncrement(r) PROVE Same(q)
  BY <1>14 DEF NewMonth, StatsIncrement, vars, handlerVars, Same
<1>15. ASSUME NEW r \in Reqs, r # q, Reject(r) \/ Admit(r) \/ Handle(r) PROVE Same(q)
  BY <1>4, <1>15, OthersKept
<1> HIDE DEF Goal
<1>16. Goal
  BY <1>3, <1>5, <1>6, <1>7, <1>8, <1>9, <1>10, <1>11, <1>12, <1>13, <1>14, <1>15
  DEF Next, Handle
<1> QED BY <1>16 DEF Goal

(* As long as nothing has been given back, nobody is granted uncounted and no *)
(* usage is told twice.                                                       *)
LEMMA NextQuiet == IInv /\ OnCourse /\ Full /\ Quiet /\ [Next]_vars => Quiet'
<1> SUFFICES ASSUME IInv, OnCourse, Full, Quiet, [Next]_vars, NEW d \in WarmDocs,
                    Unreturned(d)'
             PROVE  Missed(d)' /\ Counted(d)' /\ Distinct(d)'
  BY DEF Quiet, WarmDocs
<1>1. Missed(d)'  BY OneRequest DEF Missed
<1>2. Counted(d)'  BY OneRequest DEF Counted
<1>3. Distinct(d)'
  <2> SUFFICES ASSUME NEW q \in Reqs, NEW r \in Reqs, q # r, doc'[q] = d, doc'[r] = d,
                      Granted(q)', Granted(r)'
               PROVE  used'[q] # used'[r]
    BY DEF Distinct
  <2> DEFINE Old(p) == Granted(p) /\ doc[p] = d /\ used'[p] = used[p]
             New(p) == ReserveHit(p) /\ used'[p] = count[d] + 1
  <2>1. (Old(q) \/ New(q)) /\ (Old(r) \/ New(r))  BY OneRequest
  <2>2. Unreturned(d)  BY Counting
  <2>3. \A p \in Reqs : Old(p) => used[p] <= count[d]
    BY <2>2 DEF Quiet, Counted
  <2>4. Old(q) /\ Old(r) => used[q] # used[r]
    BY <2>2 DEF Quiet, Distinct
  <2>5. ~ (New(q) /\ New(r))
    BY DEF ReserveHit, Goto, IInv, TypeOK
  <2>6. count[d] \in Int /\ used[q] \in Int /\ used[r] \in Int
    BY WarmDocsExist DEF IInv, TypeOK, QuotaTypeOK
  <2>7. /\ Old(q) => used'[q] = used[q]
        /\ Old(r) => used'[r] = used[r]
        /\ New(q) => used'[q] = count[d] + 1
        /\ New(r) => used'[r] = count[d] + 1
    OBVIOUS
  <2> HIDE DEF Old, New
  <2> QED BY <2>1, <2>3, <2>4, <2>5, <2>6, <2>7
<1> QED BY <1>1, <1>2, <1>3

(* So it is from the start on. *)
LEMMA QuietHolds == Spec => [](Full /\ Quiet)
<1>1. Init => Full /\ Quiet
  <2> SUFFICES ASSUME Init PROVE Full /\ Quiet
    OBVIOUS
  <2>1. Full  BY WarmDocsExist DEF Init, QuotaInit, Full, WarmDocs
  <2>2. \A r \in Reqs : ~Granted(r) /\ pc[r] = "idle"  BY DEF Init, Granted
  <2>3. Quiet  BY <2>2 DEF Quiet, Missed, Counted, Distinct
  <2> QED BY <2>1, <2>3
<1> QED BY Invariance, CourseKept, NextFull, NextQuiet, <1>1, PTL DEF Spec

(* The size of a part of the requests that incremented a document. *)
LEMMA PartOfCharged ==
  ASSUME NEW d, NEW S, S \subseteq Charged(d)
  PROVE  /\ Cardinality(S) \in Nat
         /\ Cardinality(S) <= Cardinality(Charged(d))
         /\ Cardinality(S) = Cardinality(Charged(d)) => S = Charged(d)
<1>1. IsFiniteSet(Charged(d)) /\ Cardinality(Charged(d)) \in Nat  BY AccountsFinite
<1>2. IsFiniteSet(S)  BY <1>1, FS_Subset
<1> QED BY <1>1, <1>2, FS_CardinalityType, FS_Subset

(* Through every fault: as long as the month is the first of a scope whose    *)
(* document exists and no slot has been given back, the collection holds at   *)
(* most Cap uploads of that month.                                            *)
THEOREM CapHoldsUntilReturn ==
  ASSUME Cap >= 0
  PROVE  Spec => []CapUntilReturn
<1>1. IInv /\ CountAccounted /\ Full /\ Quiet => CapUntilReturn
  <2> SUFFICES ASSUME IInv, CountAccounted, Full, Quiet, NEW d \in DocIds, Unreturned(d)
               PROVE  Cardinality({r \in recs : doc[r] = d}) <= Cap
    BY DEF CapUntilReturn
  <2> DEFINE S == {r \in recs : doc[r] = d}
  <2>1. d \in WarmDocs  BY DEF Unreturned, WarmDocs
  <2>2. S \subseteq Charged(d)
    BY <2>1 DEF Quiet, Counted, Granted, Charged, IInv, TypeOK
  <2>3. Cardinality(S) \in Nat /\ Cardinality(S) <= Cardinality(Charged(d))
    BY <2>2, PartOfCharged
  <2>4. Cardinality(GaveBack(d)) = 0  BY FS_EmptySet DEF Unreturned
  <2>5. count[d] = Cardinality(Charged(d)) - Cardinality(GaveBack(d))
    BY DEF CountAccounted
  <2>6. Cardinality(Charged(d)) \in Nat  BY AccountsFinite
  <2>7. count[d] <= Cap  BY <2>1 DEF Full
  <2> HIDE DEF S
  <2>8. Cardinality(S) <= Cap  BY <2>3, <2>4, <2>5, <2>6, <2>7, QuotaAssumption
  <2> QED BY <2>8 DEF S
<1> QED BY Invariance, CountIsAccounted, QuietHolds, <1>1, PTL

(* And nobody is told a usage of that month that somebody else was told: each *)
(* accepted upload is an increment of its own.                                *)
THEOREM UsagesAreDistinct == Spec => []UsageDistinct
<1>1. IInv /\ Full /\ Quiet => UsageDistinct
  <2> SUFFICES ASSUME IInv, Quiet, NEW q \in Reqs, NEW r \in Reqs,
                      resp[q] = 201, resp[r] = 201, q # r, doc[q] = doc[r],
                      Unreturned(doc[q])
               PROVE  used[q] # used[r]
    BY DEF UsageDistinct
  <2>1. doc[q] \in WarmDocs  BY DEF Unreturned, WarmDocs
  <2>2. Distinct(doc[q])  BY <2>1 DEF Quiet
  <2> QED BY <2>2 DEF Distinct, Granted
<1> QED BY Invariance, QuietHolds, <1>1, PTL

-----------------------------------------------------------------------------
(* The promise of the package, while nothing can be given back: one month, in *)
(* which every scope has its document, and no failure but a crash or a failed *)
(* Release.  A request that is compensated after it was granted uncounted, or *)
(* in another month than its own, takes the slot of somebody who holds it.    *)

Calm == LastMonth = 0 /\ Warm = Scopes /\ Faults \subseteq {"crash", "release"}

NothingReturned == \A r \in Reqs : pc[r] # "release" /\ gave[r] = NoDoc

(* No handler comes to compensate. *)
LEMMA NothingIsReturned ==
  ASSUME Calm
  PROVE  Spec => []NothingReturned
<1>1. Init => NothingReturned  BY DEF Init, NothingReturned
<1>2. TypeOK /\ NothingReturned /\ [Next]_vars => NothingReturned'
  <2> SUFFICES ASSUME TypeOK, NothingReturned, [Next]_vars, NEW q \in Reqs
               PROVE  pc'[q] # "release" /\ gave'[q] = NoDoc
    BY DEF NothingReturned
  <2> USE DEF TypeOK, NothingReturned, Answer, Goto, NotCharged
  <2>1. ASSUME NEW r \in Reqs, Reject(r) \/ Admit(r) \/ ReserveHit(r) \/ ReserveMiss(r)
        PROVE  pc'[q] # "release" /\ gave'[q] = NoDoc
    BY <2>1 DEF Reject, Admit, ReserveHit, ReserveMiss
  <2>2. ASSUME NEW r \in Reqs, ReserveInsert(r) \/ ReserveCollide(r) \/ Recheck(r)
        PROVE  pc'[q] # "release" /\ gave'[q] = NoDoc
    BY <2>2 DEF ReserveInsert, ReserveCollide, Recheck
  <2>3. ASSUME NEW r \in Reqs, ReserveRefused(r) \/ ReserveAckLost(r)
        PROVE  pc'[q] # "release" /\ gave'[q] = NoDoc
    BY <2>3 DEF ReserveRefused, ReserveAckLost
  <2>4. ASSUME NEW r \in Reqs, Sign(r) \/ Insert(r) \/ InsertError(r)
        PROVE  pc'[q] # "release" /\ gave'[q] = NoDoc
    BY <2>4 DEF Calm, Sign, Insert, InsertError
  <2>5. ASSUME NEW r \in Reqs, Release(r) PROVE pc'[q] # "release" /\ gave'[q] = NoDoc
    BY <2>5 DEF Release
  <2>6. ASSUME NEW r \in Reqs, Reply(r) \/ StatsIncrement(r)
        PROVE  pc'[q] # "release" /\ gave'[q] = NoDoc
    BY <2>6 DEF Reply, StatsIncrement, handlerVars
  <2>7. Crash \/ NewMonth \/ UNCHANGED vars => pc'[q] # "release" /\ gave'[q] = NoDoc
    BY DEF Crash, NewMonth, handlerVars, vars
  <2> QED BY <2>1, <2>2, <2>3, <2>4, <2>5, <2>6, <2>7 DEF Next, Handle
<1> QED BY TypeCorrect, <1>1, <1>2, PTL DEF Spec

(* So every document is one of those the bounds above are about. *)
LEMMA AlwaysUnreturned ==
  ASSUME Calm, TypeOK, NothingReturned, NEW d \in DocIds
  PROVE  d \in WarmDocs /\ month = 0 /\ Unreturned(d)
<1>1. d # NoDoc  BY PresignAssumption DEF DocIds, Months
<1>2. GaveBack(d) = {}  BY <1>1 DEF GaveBack, NothingReturned
<1>3. month = 0  BY DEF Calm, TypeOK, QuotaTypeOK, Months
<1>4. d \in WarmDocs  BY DEF Calm, DocIds, Months, WarmDocs
<1> QED BY <1>2, <1>3, <1>4 DEF Unreturned, WarmDocs

(* "Concurrent requests can't race past the cap" (internal/quota), as far as  *)
(* it is true: at most Cap uploads of a scope and month are accepted.         *)
THEOREM CapHoldsWhenCalm ==
  ASSUME Cap >= 0, Calm
  PROVE  Spec => []UploadsWithinCap
<1>1. TypeOK /\ NothingReturned /\ CapUntilReturn => UploadsWithinCap
  BY AlwaysUnreturned DEF CapUntilReturn, UploadsWithinCap
<1> QED BY TypeCorrect, NothingIsReturned, CapHoldsUntilReturn, <1>1, PTL

(* A request becomes a holder by an increment and stays one. *)
LEMMA HolderStep ==
  ASSUME Calm, IInv, OnCourse, Full, Quiet, NothingReturned, [Next]_vars,
         NEW q \in Reqs, NEW d \in DocIds
  PROVE  /\ q \in Holders(d)' <=> q \in Holders(d) \/ (ReserveHit(q) /\ doc[q] = d)
         /\ ReserveHit(q) => \A e \in DocIds : q \notin Holders(e)
<1> DEFINE Goal ==
      /\ q \in Holders(d)' <=> q \in Holders(d) \/ (ReserveHit(q) /\ doc[q] = d)
      /\ ReserveHit(q) => \A e \in DocIds : q \notin Holders(e)
<1>0. TypeOK /\ Bookkeeping /\ Course(q)  BY DEF IInv, OnCourse
<1>1. d # NoDoc /\ d \in docs /\ month = 0
  BY <1>0, AlwaysUnreturned, PresignAssumption DEF Full, DocIds, Months
<1>2. pc[q] # "release" /\ gave[q] = NoDoc  BY DEF NothingReturned
<1>3. doc[q] \in DocIds => /\ Granted(q) => slot[q] = doc[q]
                           /\ pc[q] \in {"upsert", "recheck"} => count[doc[q]] >= Cap
                           /\ doc[q] \in docs /\ doc[q] \in Scopes \X {0}
  BY <1>0, AlwaysUnreturned DEF Quiet, Counted, Missed, Full, WarmDocs, Calm
<1>4. pc[q] \in {"idle", "reserve", "upsert", "recheck"} => \A e \in DocIds : q \notin Holders(e)
  BY <1>0 DEF Course, Holders
<1>5. /\ ReserveHit(q) => Goto(q, "reserve", "sign")
      /\ pc \in [Reqs -> Steps \cup {"idle", "done", "lost"}]
  BY <1>0 DEF ReserveHit, TypeOK
<1>6. pc[q] # "reserve" => ~ReserveHit(q)  BY <1>5 DEF Goto
<1>7. ASSUME UNCHANGED <<pc[q], doc[q], resp[q], slot[q]>> PROVE Goal
  <2>1. ~ReserveHit(q)  BY <1>5, <1>7 DEF Goto
  <2> QED BY <1>7, <2>1 DEF Holders
<1>8. ASSUME pc[q] \in {"idle", "reserve", "upsert", "recheck"}, ~ReserveHit(q),
             \/ pc'[q] \in {"reserve", "upsert", "recheck"} /\ resp'[q] = resp[q]
             \/ pc'[q] = "done" /\ resp'[q] \in {400, 403, 413, 500}
      PROVE  Goal
  BY <1>0, <1>4, <1>8 DEF Course, Holders
<1> USE DEF Answer, Goto, NotCharged, TypeOK
<1>9. ASSUME Reject(q) \/ ReserveRefused(q) \/ Admit(q) \/ ReserveMiss(q) \/ ReserveCollide(q)
      PROVE  Goal
  <2>1. ~ReserveHit(q)
    BY <1>0, <1>5, <1>9
    DEF Reject, ReserveRefused, Admit, ReserveMiss, ReserveCollide
  <2>2. pc[q] \in {"idle", "reserve", "upsert", "recheck"}
    BY <1>9 DEF Reject, ReserveRefused, Admit, ReserveMiss, ReserveCollide
  <2>3. \/ pc'[q] \in {"reserve", "upsert", "recheck"} /\ resp'[q] = resp[q]
        \/ pc'[q] = "done" /\ resp'[q] \in {400, 403, 413, 500}
    BY <1>0, <1>9 DEF Reject, ReserveRefused, Admit, ReserveMiss, ReserveCollide
  <2> HIDE DEF Goal
  <2> QED BY <1>8, <2>1, <2>2, <2>3
<1>10. ASSUME ReserveHit(q) PROVE Goal
  <2>1. pc[q] = "reserve" /\ pc'[q] = "sign" /\ doc'[q] = doc[q] /\ resp'[q] = 0
    BY <1>0, <1>10 DEF ReserveHit, Course
  <2> QED BY <1>4, <1>10, <2>1 DEF Holders
<1>11. ASSUME ReserveInsert(q) PROVE FALSE
  <2>1. doc[q] \notin docs /\ pc[q] = "upsert"  BY <1>11 DEF ReserveInsert, Inserted
  <2> QED BY <1>0, <1>3, <2>1 DEF Bookkeeping, Steps
<1>12. ASSUME Recheck(q) PROVE Goal
  <2>1. pc[q] = "recheck"  BY <1>12 DEF Recheck
  <2>2. doc[q] \in DocIds /\ doc[q] = <<ScopeOf[q], 0>>
    BY <1>0, <1>3, <2>1 DEF Bookkeeping, Steps, Course
  <2>3. Used(ScopeOf[q]) = count[doc[q]]  BY <1>1, <2>2 DEF Used, DocID
  <2>4. ~Grants(Used(ScopeOf[q]))
    BY <1>0, <1>3, <2>1, <2>2, <2>3, QuotaAssumption DEF Grants, QuotaTypeOK
  <2>5. pc'[q] = "done" /\ resp'[q] = 403  BY <1>0, <1>12, <2>4 DEF Recheck
  <2> QED BY <1>6, <1>8, <2>1, <2>5
<1>13. ASSUME Sign(q) \/ Insert(q) \/ InsertError(q) \/ Reply(q) PROVE Goal
  <2>1. /\ pc[q] \in {"sign", "insert", "reply"} /\ UNCHANGED <<doc, slot>>
        /\ \/ pc'[q] \in {"insert", "release", "reply"} /\ resp'[q] = resp[q]
           \/ pc'[q] = "done" /\ resp'[q] = 201
    BY <1>0, <1>13 DEF Sign, Insert, InsertError, Reply
  <2> QED BY <1>6, <2>1 DEF Holders
<1>14. ASSUME Crash PROVE Goal
  <2>1. \/ UNCHANGED <<doc, resp, slot>> /\ pc[q] \in Steps /\ pc'[q] = "lost"
        \/ UNCHANGED <<pc[q], doc[q], resp[q], slot[q]>>
    BY <1>0, <1>14 DEF Crash, InFlight
  <2>2. CASE pc[q] \in Steps /\ pc'[q] = "lost" /\ UNCHANGED <<doc, resp, slot>>
    <3>1. doc[q] \in DocIds /\ resp[q] = 0  BY <1>0, <2>2 DEF Bookkeeping, Course, Steps
    <3>2. ~ReserveHit(q)  BY <1>5, <2>2
    <3>3. CASE pc[q] \in {"reserve", "upsert", "recheck"}
      BY <1>0, <1>1, <1>4, <2>2, <3>1, <3>2, <3>3 DEF Holders, Bookkeeping
    <3>4. CASE pc[q] \in {"sign", "insert", "release", "reply"}
      BY <1>3, <2>2, <3>1, <3>2, <3>4 DEF Holders, Granted
    <3> QED BY <2>2, <3>3, <3>4 DEF Steps
  <2> QED BY <1>7, <2>1, <2>2
<1>15. ASSUME NewMonth \/ UNCHANGED vars \/ \E r \in Reqs : StatsIncrement(r) PROVE Goal
  <2>1. UNCHANGED <<pc, doc, resp, slot>>
    BY <1>15 DEF NewMonth, StatsIncrement, vars, handlerVars
  <2> QED BY <1>7, <2>1
<1>16. ASSUME NEW r \in Reqs, r # q, Reject(r) \/ Admit(r) \/ Handle(r) PROVE Goal
  BY <1>0, <1>7, <1>16, OthersKept DEF Same
<1>17. ~Release(q) /\ ~ReserveAckLost(q)
  BY <1>2 DEF Release, ReserveAckLost, Calm
<1> HIDE DEF Goal
<1>18. Goal
  BY <1>9, <1>10, <1>11, <1>12, <1>13, <1>14, <1>15, <1>16, <1>17 DEF Next, Handle
<1> QED BY <1>18 DEF Goal

(* Every step takes one free slot of the promise or leaves its holders alone. *)
LEMMA PromiseStep ==
  ASSUME Calm, IInv, OnCourse, CountAccounted, Full, Quiet, NothingReturned, [Next]_vars
  PROVE  [Promise!Next]_[d \in DocIds |-> Holders(d)]
<1> DEFINE h == [d \in DocIds |-> Holders(d)]
<1>0. DocIds' = DocIds  BY DEF DocIds, Months
<1>1. CASE \A r \in Reqs : ~ReserveHit(r)
  <2>1. \A d \in DocIds : Holders(d)' = Holders(d)
    BY <1>1, HolderStep DEF Holders
  <2>2. h' = h  BY <1>0, <2>1
  <2> QED BY <2>2
<1>2. CASE \E r \in Reqs : ReserveHit(r)
  <2> PICK r \in Reqs : ReserveHit(r)  BY <1>2
  <2> DEFINE d == doc[r]
  <2>1. d \in DocIds /\ d \in docs /\ count[d] < Cap
    BY DEF ReserveHit, Incremented, Matches, Goto, IInv, Bookkeeping, Steps
  <2>2. \A q \in Reqs \ {r} : ~ReserveHit(q)
    BY DEF ReserveHit, Goto, IInv, TypeOK
  <2>3. \A e \in DocIds : r \notin Holders(e)  BY HolderStep
  <2>4. \A e \in DocIds : Holders(e)' = IF e = d THEN Holders(e) \cup {r} ELSE Holders(e)
    <3> SUFFICES ASSUME NEW e \in DocIds, NEW q
                 PROVE  q \in Holders(e)' <=>
                          q \in (IF e = d THEN Holders(e) \cup {r} ELSE Holders(e))
      OBVIOUS
    <3>1. CASE q \notin Reqs  BY <3>1 DEF Holders
    <3>2. CASE q \in Reqs
      <4>1. q \in Holders(e)' <=> q \in Holders(e) \/ (ReserveHit(q) /\ doc[q] = e)
        BY <3>2, HolderStep
      <4> QED BY <2>2, <3>2, <4>1
    <3> QED BY <3>1, <3>2
  <2>5. Holders(d) \subseteq Charged(d)
    <3>1. d \in WarmDocs /\ Unreturned(d)  BY <2>1, AlwaysUnreturned DEF IInv
    <3> QED BY <3>1 DEF Quiet, Counted, Granted, Holders, Charged
  <2>6. Cardinality(Holders(d)) < Cap
    <3> HIDE DEF d
    <3>1. Cardinality(Holders(d)) \in Nat /\ Cardinality(Holders(d)) <= Cardinality(Charged(d))
      BY <2>5, PartOfCharged
    <3>2. GaveBack(d) = {}  BY <2>1, AlwaysUnreturned DEF IInv, Unreturned
    <3>3. count[d] = Cardinality(Charged(d))
      BY <2>1, <3>2, FS_EmptySet, AccountsFinite DEF CountAccounted
    <3> QED BY <2>1, <3>1, <3>3, AccountsFinite, QuotaAssumption
  <2> HIDE DEF d
  <2>7. h' = [h EXCEPT ![d] = h[d] \cup {r}]  BY <1>0, <2>1, <2>4
  <2>8. Promise!Take(r, d)
    <3>1. \A e \in DocIds : r \notin h[e]  BY <2>3
    <3>2. Cardinality(h[d]) < Cap  BY <2>1, <2>6
    <3>3. \A S : Promise!Cardinality(S) = Cardinality(S)
      BY Zenon DEF Promise!Cardinality, Cardinality
    <3> QED BY <2>7, <3>1, <3>2, <3>3 DEF Promise!Take
  <2> QED BY <2>1, <2>8 DEF Promise!Next
<1> QED BY <1>1, <1>2

(* The handlers implement the promise of the package: a slot is taken by one  *)
(* request that holds none, only while fewer than Cap are held, and whoever   *)
(* dies with a slot keeps it.                                                 *)
THEOREM PromiseIsKept ==
  ASSUME Calm
  PROVE  Spec => KeepsPromise
<1>1. Init => [d \in DocIds |-> Holders(d)] = [d \in DocIds |-> {}]
  <2> SUFFICES ASSUME Init PROVE \A d \in DocIds : Holders(d) = {}
    OBVIOUS
  <2> QED BY DEF Init, Holders
<1>2. Init => Promise!Init  BY <1>1 DEF Promise!Init
<1> QED
  BY Invariance, CourseKept, CountIsAccounted, QuietHolds, NothingIsReturned, PromiseStep,
     <1>2, PTL DEF Spec, KeepsPromise, Promise!Spec

-----------------------------------------------------------------------------
(* What a failure costs, while there is a slot for every request of a scope.  *)
(* Then no update misses, so that every grant is counted and every Release    *)
(* gives back the slot of its own request.  With fewer slots, with a missing  *)
(* document or after the end of the month it may give back that of another.   *)

Room ==
    /\ LastMonth = 0 /\ Warm = Scopes /\ Faults \subseteq {"refused", "sign"}
    /\ \A s \in Scopes : Cardinality({r \in Reqs : ScopeOf[r] = s}) <= Cap

Settled(r) ==
    /\ pc[r] \notin {"upsert", "recheck", "lost"}
    /\ pc[r] \in {"sign", "insert", "release", "reply"} => slot[r] = doc[r]
    /\ pc[r] = "release" => r \notin recs
    /\ pc[r] = "done" => IF r \in recs THEN slot[r] = doc[r] /\ gave[r] = NoDoc
                                       ELSE gave[r] = slot[r]

AllSettled == \A r \in Reqs : Settled(r)

(* Nothing is given back that was not charged, and nothing but what was       *)
(* charged and not given back has been stored.                                *)
LEMMA OwnSlots ==
  ASSUME IInv, OnCourse, AllSettled, NEW d \in DocIds
  PROVE  /\ GaveBack(d) \subseteq Charged(d)
         /\ InFlight = {} => {r \in recs : doc[r] = d} = Charged(d) \ GaveBack(d)
<1>0. d # NoDoc  BY PresignAssumption DEF DocIds, Months
<1>1. ASSUME NEW r \in Reqs
      PROVE  pc[r] = "done" \/ (gave[r] = NoDoc /\ (pc[r] \in Steps \/ pc[r] = "idle"))
  BY DEF IInv, TypeOK, Bookkeeping, AllSettled, Settled
<1>2. GaveBack(d) \subseteq Charged(d)
  BY <1>0, <1>1 DEF AllSettled, Settled, GaveBack, Charged
<1>3. ASSUME InFlight = {}, NEW r \in Reqs
      PROVE  r \in recs /\ doc[r] = d <=> slot[r] = d /\ gave[r] # d
  <2>1. pc[r] \notin Steps  BY <1>3 DEF InFlight
  <2>2. CASE pc[r] = "done"  BY <1>0, <2>2 DEF AllSettled, Settled
  <2>3. CASE pc[r] = "idle"
    BY <1>0, <2>3 DEF OnCourse, Course, Early, IInv, Bookkeeping
  <2> QED BY <1>1, <2>1, <2>2, <2>3
<1>4. recs \subseteq Reqs  BY DEF IInv, TypeOK
<1> QED BY <1>2, <1>3, <1>4 DEF GaveBack, Charged

(* With room for every request no update misses its document. *)
LEMMA NoMiss ==
  ASSUME Room, IInv, OnCourse, CountAccounted, Full, NEW q \in Reqs, pc[q] = "reserve"
  PROVE  Matches(doc[q])
<1> DEFINE d == doc[q]
           Mine == {r \in Reqs : ScopeOf[r] = ScopeOf[q]}
<1>1. d \in DocIds /\ d \in {ScopeOf[q]} \X Months /\ slot[q] = NoDoc /\ d # NoDoc
  BY PresignAssumption DEF IInv, Bookkeeping, OnCourse, Course, Steps, DocIds, Months
<1>2. d \in docs  BY <1>1 DEF Full, WarmDocs, Room, DocIds, Months
<1>3. Charged(d) \subseteq Mine /\ q \in Mine /\ q \notin Charged(d)
  BY <1>1 DEF Charged, OnCourse, Course
<1>4. IsFiniteSet(Mine) /\ Cardinality(Mine) \in Nat
  <2>1. Mine \subseteq Reqs  OBVIOUS
  <2> QED BY <2>1, FS_Subset, FS_CardinalityType, PresignAssumption
<1>5. Cardinality(Mine) <= Cap  BY PresignAssumption DEF Room
<1>6. count[d] = Cardinality(Charged(d)) - Cardinality(GaveBack(d))
  BY <1>1 DEF CountAccounted
<1> HIDE DEF d, Mine
<1>7. Cardinality(Charged(d)) < Cardinality(Mine)
  BY <1>3, <1>4, FS_Subset, AccountsFinite
<1>8. Cardinality(Charged(d)) \in Nat /\ Cardinality(GaveBack(d)) \in Nat
  BY AccountsFinite
<1>9. count[d] < Cap  BY <1>4, <1>5, <1>6, <1>7, <1>8, QuotaAssumption
<1> QED BY <1>2, <1>9 DEF Matches, d

(* ... and a Release finds the slot of its own request. *)
LEMMA OwnRelease ==
  ASSUME Room, IInv, OnCourse, CountAccounted, Full, AllSettled,
         NEW q \in Reqs, pc[q] = "release"
  PROVE  DocID(ScopeOf[q]) = slot[q] /\ Decrementable(DocID(ScopeOf[q]))
<1> DEFINE d == doc[q]
<1>1. d \in DocIds /\ d \in {ScopeOf[q]} \X Months /\ slot[q] = d /\ gave[q] = NoDoc
  BY DEF IInv, Bookkeeping, OnCourse, Course, Steps, AllSettled, Settled
<1>2. month = 0 /\ Months = {0}  BY DEF Room, Months, IInv, TypeOK, QuotaTypeOK
<1>3. d = DocID(ScopeOf[q]) /\ d # NoDoc
  BY <1>1, <1>2, PresignAssumption DEF DocID, DocIds, Months
<1>4. d \in docs  BY <1>1, <1>2 DEF Full, WarmDocs, Room, DocIds
<1>5. GaveBack(d) \subseteq Charged(d) /\ q \in Charged(d) /\ q \notin GaveBack(d)
  BY <1>1, <1>3, OwnSlots DEF Charged, GaveBack
<1>6. count[d] = Cardinality(Charged(d)) - Cardinality(GaveBack(d))
  BY <1>1 DEF CountAccounted
<1> HIDE DEF d
<1>7. Cardinality(GaveBack(d)) <= Cardinality(Charged(d))
      /\ Cardinality(GaveBack(d)) # Cardinality(Charged(d))
  BY <1>5, PartOfCharged
<1>8. count[d] > 0  BY <1>6, <1>7, AccountsFinite
<1> QED BY <1>1, <1>3, <1>4, <1>8 DEF Decrementable, d

(* Every request stays settled. *)
LEMMA NextSettled ==
  ASSUME Room, IInv, OnCourse, CountAccounted, Full, AllSettled, [Next]_vars
  PROVE  AllSettled'
<1> SUFFICES ASSUME NEW q \in Reqs PROVE Settled(q)'
  BY DEF AllSettled
<1>0. /\ TypeOK /\ Bookkeeping /\ Course(q) /\ Settled(q)
  BY DEF IInv, OnCourse, AllSettled
<1>1. ASSUME Same(q) PROVE Settled(q)'
  BY <1>0, <1>1 DEF Settled, Same
<1> USE DEF Settled, Answer, Goto, NotCharged, TypeOK
<1>2. ASSUME Reject(q) \/ Admit(q) \/ ReserveRefused(q) PROVE Settled(q)'
  <2>1. /\ pc[q] \in {"idle", "reserve"} /\ UNCHANGED <<slot, gave, recs>>
        /\ pc'[q] \in {"reserve", "done"}
    BY <1>0, <1>2 DEF Reject, Admit, ReserveRefused
  <2> QED BY <1>0, <2>1 DEF Bookkeeping, Course, Early, Steps
<1>3. ASSUME ReserveHit(q) PROVE Settled(q)'
  BY <1>0, <1>3 DEF ReserveHit
<1>4. ~ReserveMiss(q)
  BY NoMiss DEF ReserveMiss
<1>5. ~ReserveInsert(q) /\ ~ReserveCollide(q) /\ ~Recheck(q) /\ ~ReserveAckLost(q)
  BY <1>0 DEF ReserveInsert, ReserveCollide, Recheck, ReserveAckLost, Room
<1>6. ASSUME Sign(q) \/ Insert(q) \/ Reply(q) PROVE Settled(q)'
  BY <1>0, <1>6 DEF Sign, Insert, Reply, Bookkeeping, Course, Early, Steps
<1>7. ASSUME InsertError(q) PROVE Settled(q)'
  BY <1>0, <1>7 DEF InsertError, Room, Course, Early
<1>8. ASSUME Release(q) PROVE Settled(q)'
  <2> DEFINE d == DocID(ScopeOf[q])
  <2>1. pc[q] = "release" /\ pc'[q] = "done" /\ UNCHANGED <<slot, recs>>
    BY <1>0, <1>8 DEF Release
  <2>2. d = slot[q] /\ Decrementable(d)  BY <2>1, OwnRelease
  <2>3. gave' = [gave EXCEPT ![q] = d]  BY <1>8, <2>2 DEF Release, Room
  <2> HIDE DEF d
  <2>4. gave'[q] = slot'[q]  BY <1>0, <2>1, <2>2, <2>3
  <2> QED BY <1>0, <2>1, <2>4
<1>9. ~Crash  BY DEF Crash, Room
<1>10. ASSUME NewMonth \/ UNCHANGED vars \/ \E r \in Reqs : StatsIncrement(r) PROVE Same(q)
  BY <1>10 DEF NewMonth, StatsIncrement, vars, handlerVars, Same
<1>11. ASSUME NEW r \in Reqs, r # q, Reject(r) \/ Admit(r) \/ Handle(r) PROVE Same(q)
  BY <1>0, <1>11, OthersKept
<1> HIDE DEF Settled
<1> QED
  BY <1>1, <1>2, <1>3, <1>4, <1>5, <1>6, <1>7, <1>8, <1>9, <1>10, <1>11 DEF Next, Handle

(* With a slot for every request of a scope, its document in place and the    *)
(* month not over, a request that the database or the signer fails has cost   *)
(* its scope nothing in the end: what is counted is what is stored.           *)
THEOREM FailuresAreFree ==
  ASSUME Room
  PROVE  Spec => []FailuresCostNothing
<1>1. Init => AllSettled  BY DEF Init, AllSettled, Settled
<1>2. IInv /\ OnCourse /\ CountAccounted /\ AllSettled => FailuresCostNothing
  <2> SUFFICES ASSUME IInv, OnCourse, CountAccounted, AllSettled, InFlight = {},
                      NEW d \in DocIds
               PROVE  count[d] = Cardinality({r \in recs : doc[r] = d})
    BY DEF FailuresCostNothing
  <2>1. GaveBack(d) \subseteq Charged(d)
        /\ {r \in recs : doc[r] = d} = Charged(d) \ GaveBack(d)
    BY OwnSlots
  <2>2. Cardinality(Charged(d) \ GaveBack(d))
          = Cardinality(Charged(d)) - Cardinality(Charged(d) \cap GaveBack(d))
    BY AccountsFinite, FS_Difference
  <2>3. Charged(d) \cap GaveBack(d) = GaveBack(d)  BY <2>1
  <2>4. count[d] = Cardinality(Charged(d)) - Cardinality(GaveBack(d))
    BY DEF CountAccounted
  <2> QED BY <2>1, <2>2, <2>3, <2>4
<1> QED
  BY Invariance, CourseKept, CountIsAccounted, QuietHolds, NextSettled, <1>1, <1>2, PTL
  DEF Spec
==============================================================================
