---------------------------- MODULE QuotaCounter ----------------------------
(***************************************************************************)
(* The monthly upload counter of internal/quota, as the commands the       *)
(* package sends to MongoDB.  A document of "upload_counts" is named by a  *)
(* scope and a calendar month; it is created by the first reservation of   *)
(* the month and never deleted.  MongoDB runs the update of one existing   *)
(* document atomically, but an upsert is a search followed by an insert:   *)
(* two upserts of a missing document can both search first, and then the   *)
(* unique _id lets only one insert succeed.                                *)
(***************************************************************************)
EXTENDS Integers

CONSTANTS Scopes,     \* "user:<id>" of a hosted user, "web:<ip>:<fp>" of a browser
          Cap,        \* UPLOAD_CAP, any integer the environment holds
          LastMonth,  \* bound: months 0 .. LastMonth pass
          Warm        \* scopes whose document of month 0 exists at the start

ASSUME QuotaAssumption ==
    /\ Cap \in Int
    /\ LastMonth \in Nat
    /\ Warm \subseteq Scopes

VARIABLES month,   \* the UTC calendar month of time.Now()
          docs,    \* the documents that exist in upload_counts
          count    \* the count field of each document (0 while it is missing)

quotaVars == <<month, docs, count>>

Months == 0 .. LastMonth
DocIds == Scopes \X Months

QuotaTypeOK ==
    /\ month \in Months
    /\ docs \subseteq DocIds
    /\ count \in [DocIds -> Int]

QuotaInit ==
    /\ month = 0
    /\ docs = Warm \X {0}
    /\ count = [d \in DocIds |-> 0]

-----------------------------------------------------------------------------
(* Every command names its document afresh: the month is read at the call. *)
DocID(s) == <<s, month>>

(* The filter of the update: the document exists and its count is under the cap. *)
Matches(d) == d \in docs /\ count[d] < Cap

(* Mutant of Incremented: the update matches the document and leaves it as it is. *)
MatchedOnly(d) == Matches(d) /\ UNCHANGED quotaVars

(* The update found its document: check and increment are one atomic step. *)
Incremented(d) ==
    /\ Matches(d)
    /\ count' = [count EXCEPT ![d] = @ + 1]
    /\ UNCHANGED <<month, docs>>

(* Mutant of Inserted: the document is replaced when it exists. *)
InsertedOver(d) ==
    /\ docs' = docs \cup {d}
    /\ count' = [count EXCEPT ![d] = 1]
    /\ UNCHANGED month

(* The search found no document to update and the insert of the upsert succeeds. *)
Inserted(d) ==
    /\ d \notin docs
    /\ docs' = docs \cup {d}
    /\ count' = [count EXCEPT ![d] = 1]
    /\ UNCHANGED month

(* The search found no document to update and the insert meets an existing _id. *)
Collided(d) == d \in docs /\ UNCHANGED quotaVars

(* What Used returns: a missing document counts as 0. *)
Used(s) == count[DocID(s)]

(* Mutant of Decrementable: the guard on the count is left out. *)
DecrementableAlways(d) == d \in docs

(* The update of Release: never below zero, no upsert. *)
Decrementable(d) == d \in docs /\ count[d] > 0

Decremented(d) ==
    /\ count' = IF Decrementable(d) THEN [count EXCEPT ![d] = @ - 1] ELSE count
    /\ UNCHANGED <<month, docs>>

(* The calendar moves on; the documents of past months stay. *)
NextMonth ==
    /\ month < LastMonth
    /\ month' = month + 1
    /\ UNCHANGED <<docs, count>>
=============================================================================
