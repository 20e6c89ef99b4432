---------------------------- MODULE QuotaPromise ----------------------------
(***************************************************************************)
(* What the quota package promises its callers, without the database: a    *)
(* document has Cap slots, a caller takes a free one and may give it back. *)
(***************************************************************************)
EXTENDS Integers, FiniteSets

CONSTANTS Callers, Docs, Cap

VARIABLE holders    \* the callers that hold a slot of each document

Init == holders = [d \in Docs |-> {}]

Take(c, d) ==
    /\ \A e \in Docs : c \notin holders[e]
    /\ Cardinality(holders[d]) < Cap
    /\ holders' = [holders EXCEPT ![d] = @ \cup {c}]

GiveBack(c, d) ==
    /\ c \in holders[d]
    /\ holders' = [holders EXCEPT ![d] = @ \ {c}]

Next == \E c \in Callers, d \in Docs : Take(c, d) \/ GiveBack(c, d)

Spec == Init /\ [][Next]_holders
=============================================================================
