---------------------------- MODULE DownloadCache ----------------------------
(***************************************************************************)
(* Storage.PresignDownload and the three handlers that answer with it      *)
(* (uploads download, web download, redeem of a share code): look the URL  *)
(* up in Redis, else sign a new one and store it, then read the clock once *)
(* more for the expiry that is told to the client.                         *)
(*                                                                         *)
(* A URL stands for the moment it was signed: it works for Life from then. *)
(* DOWNLOAD_URL_TTL is any Go duration, zero and negative ones included.   *)
(***************************************************************************)
EXTENDS Integers

CONSTANTS Gets,      \* the download requests
          Keys,      \* the object keys asked for
          TTLs,      \* the values DOWNLOAD_URL_TTL may have
          Minute,    \* the margin PresignDownload subtracts
          DefaultLife,  \* how long a URL works that is signed for no time at all
          MaxDelay,  \* the longest a handler takes from one clock reading to the next
          MaxTime,   \* bound: the clock of a run
          Faults,    \* which of FaultKinds may happen
          NoURL, NoKey

(* Redis does not answer the read or the write; the URL cannot be signed. *)
FaultKinds == {"redis", "sign"}

ASSUME CacheAssumption ==
    /\ TTLs \subseteq Int
    /\ Minute \in Nat \ {0} /\ DefaultLife \in Nat \ {0}
    /\ MaxDelay \in Nat /\ MaxTime \in Nat
    /\ Faults \subseteq FaultKinds
    /\ NoURL \notin Nat
    /\ NoKey \notin Keys

VARIABLES ttl,     \* DOWNLOAD_URL_TTL of this deployment
          now,     \* the clock, shared by the server, Redis and the storage service
          cache,   \* dluri:{key}: the URL, and when the entry runs out
          pc,      \* where the handler of each request is
          key,     \* the object key a request asks for
          url,     \* the URL the handler holds, as its moment of signing
          cached,  \* whether it came from the cache
          mark,    \* when the handler got hold of the URL
          told,    \* the expiry the client was told
          resp     \* the status it was answered with, 0 before

reqVars == <<key, url, cached, mark, told>>
vars == <<ttl, now, cache, pc, reqVars, resp>>

Steps == {"lookup", "sign", "store", "expiry"}
Never == -1   \* the key has no TTL
Entries == [url : Nat \cup {NoURL}, until : Nat \cup {Never}]

TypeOK ==
    /\ ttl \in TTLs
    /\ now \in Nat
    /\ cache \in [Keys -> Entries]
    /\ pc \in [Gets -> Steps \cup {"idle", "done"}]
    /\ key \in [Gets -> Keys \cup {NoKey}]
    /\ url \in [Gets -> Nat \cup {NoURL}]
    /\ cached \in [Gets -> BOOLEAN]
    /\ mark \in [Gets -> Nat]
    /\ told \in [Gets -> Int]
    /\ resp \in [Gets -> {0, 200, 404, 500}]

Init ==
    /\ ttl \in TTLs
    /\ now = 0
    /\ cache = [k \in Keys |-> [url |-> NoURL, until |-> 0]]
    /\ pc = [g \in Gets |-> "idle"]
    /\ key = [g \in Gets |-> NoKey]
    /\ url = [g \in Gets |-> NoURL]
    /\ cached = [g \in Gets |-> FALSE]
    /\ mark = [g \in Gets |-> 0]
    /\ told = [g \in Gets |-> 0]
    /\ resp = [g \in Gets |-> 0]

Goto(g, from, to) == pc[g] = from /\ pc' = [pc EXCEPT ![g] = to]
Answer(g, from, status) == Goto(g, from, "done") /\ resp' = [resp EXCEPT ![g] = status]

(* A key of Redis is there until its time has come; one without a TTL stays. *)
Fresh(k) == cache[k].url # NoURL /\ (cache[k].until = Never \/ now < cache[k].until)

(* Mutant of EntryTTL: the entry lives as long as the signature. *)
EntryTTLWhole == ttl

(* The lifetime of an entry: shorter than the signature, unless the signature *)
(* itself is not longer than the margin.                                      *)
EntryTTL == IF ttl - Minute <= 0 THEN ttl ELSE ttl - Minute

(* The signer has a default for a lifetime of zero. *)
Life == IF ttl = 0 THEN DefaultLife ELSE ttl

(* The client library sends a TTL with the SET only if it is positive. *)
RunsOut == IF EntryTTL > 0 THEN now + EntryTTL ELSE Never

-----------------------------------------------------------------------------
(* The upload behind the request is found, or not. *)
Find(g) ==
    /\ \/ \E k \in Keys : Goto(g, "idle", "lookup") /\ key' = [key EXCEPT ![g] = k] /\ UNCHANGED resp
       \/ Answer(g, "idle", 404) /\ UNCHANGED key
    /\ UNCHANGED <<ttl, now, cache, url, cached, mark, told>>

(* Mutant of Hit: a hit starts the life of the entry anew. *)
HitSliding(g) ==
    /\ Goto(g, "lookup", "expiry")
    /\ Fresh(key[g])
    /\ cache' = [cache EXCEPT ![key[g]].until = RunsOut]
    /\ url' = [url EXCEPT ![g] = cache[key[g]].url]
    /\ cached' = [cached EXCEPT ![g] = TRUE]
    /\ mark' = [mark EXCEPT ![g] = now]
    /\ UNCHANGED <<ttl, now, key, told, resp>>

Hit(g) ==
    /\ Goto(g, "lookup", "expiry")
    /\ Fresh(key[g])
    /\ url' = [url EXCEPT ![g] = cache[key[g]].url]
    /\ cached' = [cached EXCEPT ![g] = TRUE]
    /\ mark' = [mark EXCEPT ![g] = now]
    /\ UNCHANGED <<ttl, now, cache, key, told, resp>>

(* No entry, or Redis does not answer: the URL is signed afresh either way. *)
Miss(g) ==
    /\ Goto(g, "lookup", "sign")
    /\ ~Fresh(key[g]) \/ "redis" \in Faults
    /\ UNCHANGED <<ttl, now, cache, reqVars, resp>>

(* The signer refuses a negative lifetime. *)
Sign(g) ==
    /\ \/ /\ ttl >= 0
          /\ Goto(g, "sign", "store")
          /\ url' = [url EXCEPT ![g] = now]
          /\ mark' = [mark EXCEPT ![g] = now]
          /\ UNCHANGED resp
       \/ /\ ttl < 0 \/ "sign" \in Faults
          /\ Answer(g, "sign", 500)
          /\ UNCHANGED <<url, mark>>
    /\ UNCHANGED <<ttl, now, cache, key, cached, told>>

(* SET, whose error is dropped; a later writer replaces the entry. *)
Store(g) ==
    /\ Goto(g, "store", "expiry")
    /\ \/ cache' = [cache EXCEPT ![key[g]] = [url |-> url[g], until |-> RunsOut]]
       \/ "redis" \in Faults /\ UNCHANGED cache
    /\ UNCHANGED <<ttl, now, reqVars, resp>>

(* Mutant of Expiry: a status the endpoints do not have. *)
ExpiryCreated(g) ==
    /\ Answer(g, "expiry", 201)
    /\ told' = [told EXCEPT ![g] = now + ttl]
    /\ UNCHANGED <<ttl, now, cache, key, url, cached, mark>>

(* DownloadExpiry reads the clock: the expiry told is ttl from then. *)
Expiry(g) ==
    /\ Answer(g, "expiry", 200)
    /\ told' = [told EXCEPT ![g] = now + ttl]
    /\ UNCHANGED <<ttl, now, cache, key, url, cached, mark>>

(* The clock moves on, but no handler that holds a URL takes longer than *)
(* MaxDelay: the calls to Redis it may still make have a timeout.        *)
Tick ==
    /\ now < MaxTime
    /\ \A g \in Gets : pc[g] \in {"store", "expiry"} => now < mark[g] + MaxDelay
    /\ now' = now + 1
    /\ UNCHANGED <<ttl, cache, pc, reqVars, resp>>

Handle(g) == Hit(g) \/ Miss(g) \/ Sign(g) \/ Store(g) \/ Expiry(g)

Next == (\E g \in Gets : Find(g) \/ Handle(g)) \/ Tick

Spec == Init /\ [][Next]_vars
-----------------------------------------------------------------------------
(* Properties *)

Answered(g) == told[g] - ttl             \* when the request was answered
Left(g) == url[g] + Life - Answered(g)   \* the life its URL had left then
Overrun(g) == told[g] - (url[g] + Life)  \* how much longer the client was told

(* What PresignDownload sets aside: nothing, if the signature is not longer. *)
Margin == IF ttl > Minute THEN Minute ELSE 0

(* The entries of the cache run out, or the URL is not from the cache.  (With  *)
(* DOWNLOAD_URL_TTL=0s they do not: the SET carries no TTL, and a URL is       *)
(* handed out from the cache long after its default life.)                     *)
Bounded(g) == ttl > 0 \/ ~cached[g]

(* With a positive DOWNLOAD_URL_TTL, a URL that is handed out, from the cache  *)
(* or not, has the margin left that PresignDownload sets aside, less the time  *)
(* the handlers took: one that stored it late, one that answered late.         *)
(* Without a margin it may be dead by that time, and by no more.  With a TTL   *)
(* of zero the same holds of a URL just signed.                                *)
NeverNearDead ==
    \A g \in Gets : resp[g] = 200 /\ Bounded(g) => Left(g) > Margin - 2 * MaxDelay

(* With a positive DOWNLOAD_URL_TTL, the client is told at most the life of a  *)
(* cache entry more than the URL has; a URL just signed is off by the          *)
(* handler's own delay only, with a TTL of zero too.  (The expiry told of a    *)
(* URL from the cache is later than its end: it is not the moment from which a *)
(* client that stores the URL must ask again.)                                 *)
OverrunBounded ==
    \A g \in Gets : resp[g] = 200 /\ Bounded(g) =>
        IF cached[g] THEN Overrun(g) < EntryTTL + 2 * MaxDelay ELSE Overrun(g) <= MaxDelay
=============================================================================
