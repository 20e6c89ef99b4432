------------------------------- MODULE Presign -------------------------------
(***************************************************************************)
(* The presign request of both surfaces, POST /uploads/presign (uploads)   *)
(* and POST /web/presign (webuploads): validate, reserve a slot of the     *)
(* month, sign the two URLs, persist the pending upload, answer, and count *)
(* the upload in the global statistics behind the client's back.  The two  *)
(* handlers differ in the name of the scope and the wording of the answer. *)
(*                                                                         *)
(* Every request runs in a goroutine of its own; between two of its steps  *)
(* any other request, the calendar or a crash of the process may step.     *)
(***************************************************************************)
EXTENDS QuotaCounter, FiniteSets

CONSTANTS Reqs,      \* the presign requests
          ScopeOf,   \* the scope each request is charged to
          Faults,    \* which of FaultKinds may happen
          NoDoc      \* no document

(* MongoDB refuses a write or a read; it applies a write and the answer is *)
(* lost; the storage SDK cannot sign; the Release of a failed request fails *)
(* too, because the client hung up and the request context is canceled; the *)
(* process dies.                                                            *)
FaultKinds == {"refused", "ackLost", "sign", "release", "crash"}

ASSUME PresignAssumption ==
    /\ ScopeOf \in [Reqs -> Scopes]
    /\ Faults \subseteq FaultKinds
    /\ NoDoc \notin Scopes \X (0 .. LastMonth)
    /\ IsFiniteSet(Reqs)

VARIABLES pc,      \* where the handler of each request is
          doc,     \* the document Reserve named when it was called
          used,    \* the usage Reserve returned
          resp,    \* the status the client got, 0 before
          recs,    \* the requests whose upload is in the uploads collection
          pend,    \* the statistics goroutines that have not run yet
          stats,   \* the count of the global statistics document
          slot,    \* history: the document this request incremented
          gave     \* history: the document the Release of this request decremented

handlerVars == <<pc, doc, used, resp>>
vars == <<quotaVars, handlerVars, recs, pend, stats, slot, gave>>

Steps    == {"reserve", "upsert", "recheck", "sign", "insert", "release", "reply"}
Statuses == {0, 201, 400, 403, 413, 500}

TypeOK ==
    /\ QuotaTypeOK
    /\ pc \in [Reqs -> Steps \cup {"idle", "done", "lost"}]
    /\ doc \in [Reqs -> DocIds \cup {NoDoc}]
    /\ used \in [Reqs -> Int]
    /\ resp \in [Reqs -> Statuses]
    /\ recs \subseteq Reqs
    /\ pend \subseteq Reqs
    /\ stats \in Nat
    /\ slot \in [Reqs -> DocIds \cup {NoDoc}]
    /\ gave \in [Reqs -> DocIds \cup {NoDoc}]

Init ==
    /\ QuotaInit
    /\ pc = [r \in Reqs |-> "idle"]
    /\ doc = [r \in Reqs |-> NoDoc]
    /\ used = [r \in Reqs |-> 0]
    /\ resp = [r \in Reqs |-> 0]
    /\ recs = {}
    /\ pend = {}
    /\ stats = 0
    /\ slot = [r \in Reqs |-> NoDoc]
    /\ gave = [r \in Reqs |-> NoDoc]

-----------------------------------------------------------------------------
(* Control of one handler. *)
Goto(r, from, to) == pc[r] = from /\ pc' = [pc EXCEPT ![r] = to]
Answer(r, from, status) == Goto(r, from, "done") /\ resp' = [resp EXCEPT ![r] = status]

NotCharged == UNCHANGED <<slot, gave>>

(* The request is refused before the quota is touched: the body (or, on the *)
(* web, the fingerprint) is invalid, or the file is too large.              *)
Reject(r) ==
    /\ \E status \in {400, 413} : Answer(r, "idle", status)
    /\ NotCharged
    /\ UNCHANGED <<quotaVars, doc, used, recs, pend, stats>>

(* Reserve names its document once, before the command is sent. *)
Admit(r) ==
    /\ Goto(r, "idle", "reserve")
    /\ doc' = [doc EXCEPT ![r] = DocID(ScopeOf[r])]
    /\ NotCharged
    /\ UNCHANGED <<quotaVars, used, resp, recs, pend, stats>>

ReserveHit(r) ==
    /\ Goto(r, "reserve", "sign")
    /\ Incremented(doc[r])
    /\ used' = [used EXCEPT ![r] = count'[doc[r]]]
    /\ slot' = [slot EXCEPT ![r] = doc[r]]
    /\ UNCHANGED <<doc, resp, recs, pend, stats, gave>>

ReserveMiss(r) ==
    /\ Goto(r, "reserve", "upsert")
    /\ ~Matches(doc[r])
    /\ NotCharged
    /\ UNCHANGED <<quotaVars, doc, used, resp, recs, pend, stats>>

ReserveInsert(r) ==
    /\ Goto(r, "upsert", "sign")
    /\ Inserted(doc[r])
    /\ used' = [used EXCEPT ![r] = 1]
    /\ slot' = [slot EXCEPT ![r] = doc[r]]
    /\ UNCHANGED <<doc, resp, recs, pend, stats, gave>>

ReserveCollide(r) ==
    /\ Goto(r, "upsert", "recheck")
    /\ Collided(doc[r])
    /\ NotCharged
    /\ UNCHANGED <<doc, used, resp, recs, pend, stats>>

(* Mutant of Grants: the comparison is off by one. *)
GrantsAtCap(u) == u <= Cap

(* After the duplicate key the usage is read, with the month read again, and *)
(* a usage under the cap is reported as a reservation: nothing is counted.   *)
Grants(u) == u < Cap

Recheck(r) ==
    LET u == Used(ScopeOf[r])
    IN  /\ used' = [used EXCEPT ![r] = u]
        /\ \/ Grants(u) /\ Goto(r, "recheck", "sign") /\ UNCHANGED resp
           \/ ~Grants(u) /\ Answer(r, "recheck", 403)
        /\ NotCharged
        /\ UNCHANGED <<quotaVars, doc, recs, pend, stats>>

(* MongoDB answers the reservation with an error, whether it applied it or not: *)
(* the handler fails and compensates nothing.                                   *)
ReserveRefused(r) ==
    /\ "refused" \in Faults
    /\ \E step \in {"reserve", "upsert", "recheck"} : Answer(r, step, 500)
    /\ NotCharged
    /\ UNCHANGED <<quotaVars, doc, used, recs, pend, stats>>

ReserveAckLost(r) ==
    /\ "ackLost" \in Faults
    /\ \/ Answer(r, "reserve", 500) /\ Incremented(doc[r])
       \/ Answer(r, "upsert", 500) /\ Inserted(doc[r])
    /\ slot' = [slot EXCEPT ![r] = doc[r]]
    /\ UNCHANGED <<doc, used, recs, pend, stats, gave>>

-----------------------------------------------------------------------------
(* The slot is held: sign, persist, answer; compensate when a step fails. *)
Sign(r) ==
    /\ \/ Goto(r, "sign", "insert")
       \/ "sign" \in Faults /\ Goto(r, "sign", "release")
    /\ NotCharged
    /\ UNCHANGED <<quotaVars, doc, used, resp, recs, pend, stats>>

(* Mutant of Insert: the handler goes on to answer without waiting for the write. *)
InsertSkipped(r) ==
    /\ Goto(r, "insert", "reply")
    /\ NotCharged
    /\ UNCHANGED <<quotaVars, doc, used, resp, recs, pend, stats>>

Insert(r) ==
    /\ Goto(r, "insert", "reply")
    /\ recs' = recs \cup {r}
    /\ NotCharged
    /\ UNCHANGED <<quotaVars, doc, used, resp, pend, stats>>

(* The insert fails; an acknowledgement that was lost leaves the upload behind. *)
InsertError(r) ==
    /\ Goto(r, "insert", "release")
    /\ \/ "refused" \in Faults /\ UNCHANGED recs
       \/ "ackLost" \in Faults /\ recs' = recs \cup {r}
    /\ NotCharged
    /\ UNCHANGED <<quotaVars, doc, used, resp, pend, stats>>

(* Mutant of Release: the failed request keeps its slot. *)
ReleaseForgotten(r) ==
    /\ Answer(r, "release", 500)
    /\ NotCharged
    /\ UNCHANGED <<quotaVars, doc, used, recs, pend, stats>>

(* Release names the document of the month it runs in; its error is dropped. *)
Release(r) ==
    LET d == DocID(ScopeOf[r])
    IN  /\ Answer(r, "release", 500)
        /\ \/ /\ Decremented(d)
              /\ gave' = IF Decrementable(d) THEN [gave EXCEPT ![r] = d] ELSE gave
           \/ "release" \in Faults /\ UNCHANGED <<quotaVars, gave>>
        /\ UNCHANGED <<doc, used, recs, pend, stats, slot>>

(* Mutant of Reply: a status the endpoint does not have. *)
ReplyOK(r) ==
    /\ Answer(r, "reply", 200)
    /\ pend' = pend \cup {r}
    /\ NotCharged
    /\ UNCHANGED <<quotaVars, doc, used, recs, stats>>

(* The answer is written, then the statistics goroutine is started. *)
Reply(r) ==
    /\ Answer(r, "reply", 201)
    /\ pend' = pend \cup {r}
    /\ NotCharged
    /\ UNCHANGED <<quotaVars, doc, used, recs, stats>>

-----------------------------------------------------------------------------
(* Mutants of StatsIncrement: a retry that counts twice; a count read at one *)
(* moment and written back at another (here: written back too small).        *)
StatsIncrementTwice(r) ==
    /\ r \in pend
    /\ pend' = pend \ {r}
    /\ stats' = stats + 2
    /\ NotCharged
    /\ UNCHANGED <<quotaVars, handlerVars, recs>>
StatsIncrementLost(r) ==
    /\ r \in pend
    /\ pend' = pend \ {r}
    /\ stats' = 1
    /\ NotCharged
    /\ UNCHANGED <<quotaVars, handlerVars, recs>>

(* The statistics goroutine runs once and drops its error. *)
StatsIncrement(r) ==
    /\ r \in pend
    /\ pend' = pend \ {r}
    /\ \/ stats' = stats + 1
       \/ "refused" \in Faults /\ UNCHANGED stats
    /\ NotCharged
    /\ UNCHANGED <<quotaVars, handlerVars, recs>>

InFlight == {r \in Reqs : pc[r] \in Steps}

(* The process dies and restarts: the handlers and goroutines are gone, *)
(* what MongoDB holds stays.                                            *)
Crash ==
    /\ "crash" \in Faults
    /\ InFlight \cup pend # {}
    /\ pc' = [r \in Reqs |-> IF r \in InFlight THEN "lost" ELSE pc[r]]
    /\ pend' = {}
    /\ NotCharged
    /\ UNCHANGED <<quotaVars, doc, used, resp, recs, stats>>

NewMonth ==
    /\ NextMonth
    /\ NotCharged
    /\ UNCHANGED <<handlerVars, recs, pend, stats>>

Handle(r) ==
    \/ ReserveHit(r) \/ ReserveMiss(r) \/ ReserveInsert(r) \/ ReserveCollide(r)
    \/ Recheck(r) \/ ReserveRefused(r) \/ ReserveAckLost(r)
    \/ Sign(r) \/ Insert(r) \/ InsertError(r) \/ Release(r) \/ Reply(r)

Next ==
    \/ \E r \in Reqs : Reject(r) \/ Admit(r) \/ Handle(r) \/ StatsIncrement(r)
    \/ Crash
    \/ NewMonth

(* A started handler and a started goroutine run on: the Go scheduler is fair  *)
(* and every call the handler makes returns.  No client need ever come, the    *)
(* process need not crash and no month need end while the model looks.         *)
Spec ==
    /\ Init /\ [][Next]_vars
    /\ \A r \in Reqs : WF_vars(Handle(r)) /\ WF_vars(StatsIncrement(r))

-----------------------------------------------------------------------------
(* Properties *)

Charged(d)  == {r \in Reqs : slot[r] = d}
GaveBack(d) == {r \in Reqs : gave[r] = d}

(* No document ever counts more than the cap: the filter and the increment are *)
(* one step, whatever the order of the requests (quota.Reserve).  The insert   *)
(* of the upsert checks no cap, so a cap below one still lets one upload in.   *)
CountWithinCap == \A d \in DocIds : count[d] <= (IF Cap < 1 THEN 1 ELSE Cap)

(* A count never goes below zero, although a request that was granted without  *)
(* being counted also calls Release when it fails (quota.Release).             *)
CountNotNegative == \A d \in DocIds : count[d] >= 0

(* Both bounds, through the races of Reserve and the compensations of requests *)
(* that were never counted (quota.Reserve, quota.Release).                     *)
CountInBounds == CountWithinCap /\ CountNotNegative

(* The code only increments a count that is under the cap (quota.Reserve).     *)
IncrementOnlyBelowCap ==
    [][\A d \in DocIds : count'[d] > count[d] => count[d] < Cap]_vars

(* A count is what the requests put into it less what they took out, through   *)
(* errors, crashes and the change of the month (quota.Reserve, quota.Release). *)
CountAccounted ==
    \A d \in DocIds : count[d] = Cardinality(Charged(d)) - Cardinality(GaveBack(d))

(* A client told 201 has an upload that survives a crash (Service.Presign).    *)
AnsweredIsDurable == \A r \in Reqs : resp[r] = 201 => r \in recs

(* A client told 403 belongs to a scope to which a full month of slots had     *)
(* been charged: the quota is never reported full with slots left unused.      *)
NoSpuriousFull ==
    \A r \in Reqs : resp[r] = 403 =>
        \E m \in Months : Cardinality(Charged(<<ScopeOf[r], m>>)) >= Cap

(* Both final answers of the quota can be relied on, in every order of the     *)
(* failures: 201 and 403 (Service.Presign, quota.Reserve).                     *)
AnswersAreTrue == AnsweredIsDurable /\ NoSpuriousFull

(* The bookkeeping behind the invariants above: a missing document counts      *)
(* nothing, Reserve has named a document before it is used, nothing is charged *)
(* before the increment or given back before the end, and the answer 201 is    *)
(* due only once the upload is stored.                                         *)
Bookkeeping ==
    /\ \A d \in DocIds \ docs : count[d] = 0
    /\ \A r \in Reqs :
        /\ pc[r] \in Steps => doc[r] \in DocIds
        /\ pc[r] \in Steps \cup {"idle"} => gave[r] = NoDoc
        /\ pc[r] \in {"idle", "reserve", "upsert", "recheck"} => slot[r] = NoDoc
        /\ pc[r] = "reply" => r \in recs

(* Among the uploads of a scope and month at most Cap were accepted: what the  *)
(* package promises ("concurrent requests can't race past the cap").           *)
UploadsWithinCap ==
    \A d \in DocIds : Cardinality({r \in recs : doc[r] = d}) <= Cap

(* The first month of a scope whose document exists, and nothing given back:   *)
(* what the two bounds that follow need, and all they need (quota.Reserve).    *)
Unreturned(d) == d \in Warm \X {0} /\ month = 0 /\ GaveBack(d) = {}

(* The cap holds through every fault while that is so.                         *)
CapUntilReturn ==
    \A d \in DocIds : Unreturned(d) => Cardinality({r \in recs : doc[r] = d}) <= Cap

(* And two uploads of one month are then never told the same usage: every      *)
(* grant is an increment of its own.                                           *)
UsageDistinct ==
    \A q, r \in Reqs :
        /\ resp[q] = 201 /\ resp[r] = 201 /\ q # r
        /\ doc[q] = doc[r] /\ Unreturned(doc[q])
        => used[q] # used[r]

(* When no handler runs, exactly the stored uploads are counted: a failed      *)
(* request has put its slot back.                                              *)
FailuresCostNothing ==
    InFlight = {} => \A d \in DocIds : count[d] = Cardinality({r \in recs : doc[r] = d})

(* The public total never runs ahead of the uploads that were answered with    *)
(* 201, counting the goroutines still to run (IncrementAsync).                 *)
StatsNeverAhead == stats + Cardinality(pend) <= Cardinality({r \in Reqs : resp[r] = 201})

(* If nothing fails, the public total catches up with the uploads answered.    *)
StatsCatchUp == <>[](stats = Cardinality({r \in Reqs : resp[r] = 201}))

(* Who holds a slot of a document: who was told so and has not failed, and who *)
(* died with it, for a crash gives nothing back.                               *)
Holders(d) ==
    {r \in Reqs :
        \/ doc[r] = d /\ (pc[r] \in {"sign", "insert", "release", "reply"} \/ resp[r] = 201)
        \/ slot[r] = d /\ pc[r] = "lost"}

(* The promise of the package: a slot is taken only while one is free.         *)
Promise == INSTANCE QuotaPromise WITH
    Callers <- Reqs,
    Docs    <- DocIds,
    holders <- [d \in DocIds |-> Holders(d)]
KeepsPromise == Promise!Spec
==============================================================================
