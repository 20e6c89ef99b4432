------------------------------ MODULE RateLimit ------------------------------
(***************************************************************************)
(* The fixed-window limiter in front of the redeem of a share code: INCR   *)
(* the counter of the client and the window, give the counter a TTL if     *)
(* this was its first hit, then let the request through or answer 429.     *)
(* Two calls to Redis and the clock: other requests, the end of the        *)
(* window, an error or a crash come between them.                          *)
(***************************************************************************)
EXTENDS Integers, FiniteSets

CONSTANTS Reqs,      \* the requests
          Clients,   \* the addresses they come from
          Limit,     \* redeemLimit
          Window,    \* redeemWindow
          Slack,     \* the second the TTL is longer than the window
          MaxRetries,  \* how often the client library repeats a command
          MaxTime,   \* bound: the clock of a run
          Faults,    \* which of FaultKinds may happen
          NoClient

(* Redis does not execute an INCR, or an EXPIRE, and says so; it executes one *)
(* whose answer is lost, and the client library sends it again, MaxRetries    *)
(* times at most; the server goes down and is started again.                  *)
FaultKinds == {"incr", "expire", "ackLost", "crash"}

ASSUME LimitAssumption ==
    /\ IsFiniteSet(Reqs)
    /\ Limit \in Nat \ {0} /\ Window \in Nat \ {0}
    /\ Slack \in Nat /\ MaxRetries \in Nat /\ MaxTime \in Nat
    /\ Faults \subseteq FaultKinds
    /\ NoClient \notin Clients

VARIABLES now,     \* the clock
          hits,    \* ratelimit:{name}:{ip}:{bucket}: the counter, 0 if never set
          until,   \* when the counter runs out, Never without a TTL
          pc,      \* where the limiter is with each request
          client,  \* the address of a request
          since,   \* when the limiter read the clock
          count,   \* what INCR returned, 0 before
          fate,    \* what the limiter did with the request
          unheard  \* history: how many INCRs of a request were executed, their answers lost

vars == <<now, hits, until, pc, client, since, count, fate, unheard>>

Never == -1
Buckets == {t \in 0 .. MaxTime : t % Window = 0}
Steps == {"incr", "expire", "judge"}

TypeOK ==
    /\ now \in 0 .. MaxTime
    /\ hits \in [Clients \X Buckets -> Nat]
    /\ until \in [Clients \X Buckets -> 0 .. MaxTime + Window + Slack \cup {Never}]
    /\ pc \in [Reqs -> Steps \cup {"idle", "done"}]
    /\ client \in [Reqs -> Clients \cup {NoClient}]
    /\ since \in [Reqs -> 0 .. MaxTime]
    /\ count \in [Reqs -> Nat]
    /\ fate \in [Reqs -> {"none", "passed", "failedOpen", "limited", "lost"}]
    /\ unheard \in [Reqs -> 0 .. MaxRetries + 1]

Init ==
    /\ now = 0
    /\ hits = [k \in Clients \X Buckets |-> 0]
    /\ until = [k \in Clients \X Buckets |-> Never]
    /\ pc = [q \in Reqs |-> "idle"]
    /\ client = [q \in Reqs |-> NoClient]
    /\ since = [q \in Reqs |-> 0]
    /\ count = [q \in Reqs |-> 0]
    /\ fate = [q \in Reqs |-> "none"]
    /\ unheard = [q \in Reqs |-> 0]

Goto(q, from, to) == pc[q] = from /\ pc' = [pc EXCEPT ![q] = to]
Decide(q, from, f) == Goto(q, from, "done") /\ fate' = [fate EXCEPT ![q] = f]

(* Mutant of Key: every window has the counter of the first. *)
KeyOfClient(q) == <<client[q], 0>>

(* The clock is truncated to the window. *)
Bucket(q) == since[q] - (since[q] % Window)
Key(q) == <<client[q], Bucket(q)>>

(* A counter that has run out is not there. *)
Live(k) == hits[k] > 0 /\ (until[k] = Never \/ now < until[k])

(* INCR keeps the TTL of a counter that is there; a new one has none. *)
Counted(k) ==
    /\ hits' = [hits EXCEPT ![k] = IF Live(k) THEN @ + 1 ELSE 1]
    /\ until' = [until EXCEPT ![k] = IF Live(k) THEN @ ELSE Never]

-----------------------------------------------------------------------------
Arrive(q) ==
    /\ Goto(q, "idle", "incr")
    /\ \E c \in Clients : client' = [client EXCEPT ![q] = c]
    /\ since' = [since EXCEPT ![q] = now]
    /\ UNCHANGED <<now, hits, until, count, fate, unheard>>

Incr(q) ==
    /\ pc[q] = "incr"
    /\ Counted(Key(q))
    /\ count' = [count EXCEPT ![q] = hits'[Key(q)]]
    /\ Goto(q, "incr", IF hits'[Key(q)] = 1 THEN "expire" ELSE "judge")
    /\ UNCHANGED <<now, client, since, fate, unheard>>

(* A Redis error lets the request through. *)
IncrRefused(q) ==
    /\ "incr" \in Faults
    /\ Decide(q, "incr", "failedOpen")
    /\ UNCHANGED <<now, hits, until, client, since, count, unheard>>

(* The INCR was executed and its answer is lost: it is sent again, or the *)
(* client library gives up and the error lets the request through.        *)
IncrAckLost(q) ==
    /\ "ackLost" \in Faults
    /\ pc[q] = "incr"
    /\ Counted(Key(q))
    /\ unheard' = [unheard EXCEPT ![q] = @ + 1]
    /\ \/ unheard[q] < MaxRetries /\ Goto(q, "incr", "incr") /\ UNCHANGED fate
       \/ Decide(q, "incr", "failedOpen")
    /\ UNCHANGED <<now, client, since, count>>

(* Mutant of Expire: the counter ends with its window. *)
ExpireAtWindow(q) ==
    /\ Goto(q, "expire", "judge")
    /\ until' = [until EXCEPT ![Key(q)] = Bucket(q) + Window]
    /\ UNCHANGED <<now, hits, client, since, count, fate, unheard>>

(* Mutant of Expire: a time is given for a duration. *)
ExpireAbsolute(q) ==
    /\ Goto(q, "expire", "judge")
    /\ until' = [until EXCEPT ![Key(q)] = now + (now + Window + Slack)]
    /\ UNCHANGED <<now, hits, client, since, count, fate, unheard>>

(* EXPIRE sets the TTL of a counter that is there; its error is dropped, and *)
(* one whose answer is lost may be sent again later.                         *)
Expire(q) ==
    /\ \/ Goto(q, "expire", "judge")
       \/ "ackLost" \in Faults /\ Goto(q, "expire", "expire")
    /\ \/ until' = [until EXCEPT ![Key(q)] = IF Live(Key(q)) THEN now + Window + Slack ELSE @]
       \/ "expire" \in Faults /\ UNCHANGED until
    /\ UNCHANGED <<now, hits, client, since, count, fate, unheard>>

Allowed(q) == count[q] <= Limit

Judge(q) ==
    /\ Decide(q, "judge", IF Allowed(q) THEN "passed" ELSE "limited")
    /\ UNCHANGED <<now, hits, until, client, since, count, unheard>>

-----------------------------------------------------------------------------
(* The clock moves on, also while a request waits for Redis. *)
Tick ==
    /\ now < MaxTime
    /\ now' = now + 1
    /\ UNCHANGED <<hits, until, pc, client, since, count, fate, unheard>>

(* The server goes down: the requests in flight are lost, Redis stays. *)
Crash ==
    /\ "crash" \in Faults
    /\ \E q \in Reqs : pc[q] \in Steps
    /\ pc' = [q \in Reqs |-> IF pc[q] \in Steps THEN "done" ELSE pc[q]]
    /\ fate' = [q \in Reqs |-> IF pc[q] \in Steps THEN "lost" ELSE fate[q]]
    /\ UNCHANGED <<now, hits, until, client, since, count, unheard>>

Handle(q) == Incr(q) \/ IncrRefused(q) \/ IncrAckLost(q) \/ Expire(q) \/ Judge(q)

Next == (\E q \in Reqs : Arrive(q) \/ Handle(q)) \/ Tick \/ Crash

Spec == Init /\ [][Next]_vars
-----------------------------------------------------------------------------
(* Properties *)

Passed(k) == {q \in Reqs : fate[q] = "passed" /\ Key(q) = k}

(* The TTL of a counter, and how many times that since its window began. *)
Lifetime == Window + Slack
Within(k, n) == now < k[2] + n * Lifetime

(* However the calls of the requests interleave, fail or repeat: up to a TTL   *)
(* after its start, no client passes more than Limit requests of one window    *)
(* that Redis counted, and no more than Limit others in each TTL after that.   *)
(* (A request that is so late that its INCR finds the counter gone starts a    *)
(* new one.  It takes a delay of more than the slack.)                         *)
WindowHonoured ==
    \A k \in Clients \X Buckets, n \in 1 .. MaxTime + 1 :
        Within(k, n) => Cardinality(Passed(k)) <= n * Limit

(* A client is throttled for its own requests of that very window only: more   *)
(* INCRs than Limit were executed for them (one that was sent again, and whose *)
(* answers were lost, counts as often as it was executed).                     *)
NoSpurious429 ==
    \A q \in Reqs : fate[q] = "limited" =>
        LET same == {p \in Reqs : client[p] = client[q] /\ Bucket(p) = Bucket(q)} IN
        Cardinality(same) + Cardinality({r \in same \X (1 .. MaxRetries + 1) : r[2] <= unheard[r[1]]})
            > Limit
=============================================================================
