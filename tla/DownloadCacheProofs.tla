------------------------ MODULE DownloadCacheProofs ------------------------
(***************************************************************************)
(* Proofs about DownloadCache, for any requests, keys and deployments, any *)
(* duration for DOWNLOAD_URL_TTL, zero and negative ones included, any     *)
(* margin and delay, with or without failures of Redis and the signer.     *)
(*                                                                         *)
(* The inductive invariant dates everything: an entry runs out at most a   *)
(* delay and its lifetime after the signature it holds, and a handler got  *)
(* hold of its URL at most a delay ago.  The two together bound the age of *)
(* what a client is handed.  With a TTL of zero entries have no end, and   *)
(* only what was just signed has a date.                                   *)
(***************************************************************************)
EXTENDS DownloadCache, TLAPS

(* An entry was stored at most a delay after its URL was signed. *)
Entered(k) ==
    cache[k].url # NoURL =>
        /\ ttl >= 0
        /\ ttl > 0 => cache[k].until # Never /\ cache[k].until <= cache[k].url + MaxDelay + EntryTTL

(* A handler that has its URL got it at most a delay ago, from the signer or  *)
(* from an entry that had not run out.                                        *)
Held(g) ==
    /\ pc[g] \in Steps => key[g] \in Keys
    /\ pc[g] \in {"idle", "lookup", "sign", "store"} => ~cached[g]
    /\ pc[g] \in {"store", "expiry"} =>
        /\ ttl >= 0
        /\ url[g] \in Nat
        /\ mark[g] <= now /\ now <= mark[g] + MaxDelay
        /\ ~cached[g] => url[g] = mark[g]
        /\ cached[g] /\ ttl > 0 => mark[g] < url[g] + MaxDelay + EntryTTL

(* What was told to a client that got a URL. *)
Told(g) ==
    /\ resp[g] # 0 => pc[g] = "done"
    /\ resp[g] = 200 =>
        /\ ttl >= 0
        /\ url[g] \in Nat
        /\ ~cached[g] => told[g] <= url[g] + MaxDelay + ttl
        /\ cached[g] /\ ttl > 0 => told[g] < url[g] + 2 * MaxDelay + EntryTTL + ttl

IInv ==
    /\ TypeOK
    /\ \A k \in Keys : Entered(k)
    /\ \A g \in Gets : Held(g) /\ Told(g)

(* The lifetime of an entry: the signature's less the margin, and a natural *)
(* number when the signature has a lifetime.                                *)
LEMMA EntryTTLType ==
  ASSUME TypeOK
  PROVE  /\ EntryTTL \in Int /\ ttl \in Int /\ EntryTTL = ttl - Margin
         /\ ttl > 0 => EntryTTL > 0
         /\ ttl <= 0 => Margin = 0
         /\ Margin \in Nat
BY CacheAssumption DEF TypeOK, EntryTTL, Margin

(* The initial states satisfy the invariant. *)
LEMMA InitInv == Init => IInv
BY CacheAssumption DEF Init, IInv, TypeOK, Entries, Entered, Held, Told, Steps, Never

(* Every step keeps it. *)
LEMMA NextInv == IInv /\ [Next]_vars => IInv'
<1> SUFFICES ASSUME IInv, [Next]_vars PROVE IInv'
  OBVIOUS
<1> USE CacheAssumption DEF IInv, TypeOK, Entries, Steps, Goto, Answer, reqVars, Never
<1>0. EntryTTL \in Int /\ ttl \in Int /\ (ttl > 0 => EntryTTL > 0)  BY EntryTTLType
<1>1. ASSUME NEW g \in Gets, Find(g) PROVE IInv'
  BY <1>0, <1>1 DEF Find, Entered, Held, Told, EntryTTL
<1>2. ASSUME NEW g \in Gets, Hit(g) PROVE IInv'
  <2> DEFINE k == key[g]
  <2>1. k \in Keys /\ ~cached[g] /\ pc[g] = "lookup"  BY <1>2 DEF Hit, Held
  <2>2. /\ cache[k].url \in Nat /\ ttl >= 0
        /\ ttl > 0 => now < cache[k].url + MaxDelay + EntryTTL
    BY <1>0, <1>2, <2>1 DEF Hit, Fresh, Entered
  <2>3. EntryTTL' = EntryTTL  BY <1>2 DEF Hit, EntryTTL
  <2>4. TypeOK'  BY <1>2, <2>1, <2>2 DEF Hit
  <2>5. \A j \in Keys : Entered(j)'  BY <1>2, <2>3 DEF Hit, Entered
  <2>6. ASSUME NEW h \in Gets PROVE Held(h)' /\ Told(h)'
    <3>1. CASE h = g  BY <1>0, <1>2, <2>1, <2>2, <2>3, <3>1 DEF Hit, Held, Told
    <3>2. CASE h # g  BY <1>2, <2>3, <3>2 DEF Hit, Held, Told
    <3> QED BY <3>1, <3>2
  <2> QED BY <2>4, <2>5, <2>6
<1>3. ASSUME NEW g \in Gets, Miss(g) PROVE IInv'
  BY <1>0, <1>3 DEF Miss, Entered, Held, Told, EntryTTL
<1>4. ASSUME NEW g \in Gets, Sign(g) PROVE IInv'
  <2>1. EntryTTL' = EntryTTL  BY <1>4 DEF Sign, EntryTTL
  <2>2. TypeOK'  BY <1>4 DEF Sign
  <2>3. \A j \in Keys : Entered(j)'  BY <1>4, <2>1 DEF Sign, Entered
  <2>4. ASSUME NEW h \in Gets PROVE Held(h)' /\ Told(h)'
    BY <1>0, <1>4, <2>1 DEF Sign, Held, Told
  <2> QED BY <2>2, <2>3, <2>4
<1>5. ASSUME NEW g \in Gets, Store(g) PROVE IInv'
  <2>1. EntryTTL' = EntryTTL  BY <1>5 DEF Store, EntryTTL
  <2>2. key[g] \in Keys /\ url[g] \in Nat /\ now <= url[g] + MaxDelay /\ ttl >= 0
    BY <1>0, <1>5 DEF Store, Held
  <2>3. /\ RunsOut \in Nat \cup {Never}
        /\ ttl > 0 => RunsOut # Never /\ RunsOut <= url[g] + MaxDelay + EntryTTL
    BY <1>0, <2>2 DEF RunsOut
  <2>4. TypeOK'  BY <1>5, <2>2, <2>3 DEF Store
  <2>5. ASSUME NEW j \in Keys PROVE Entered(j)'
    <3>1. CASE cache'[j] = cache[j]
      BY <1>5, <2>1, <3>1 DEF Store, Entered
    <3>2. CASE cache'[j].url = url[g] /\ cache'[j].until = RunsOut
      <4>1. ttl' = ttl  BY <1>5 DEF Store
      <4> HIDE DEF IInv, TypeOK, Never
      <4> QED BY <2>1, <2>2, <2>3, <3>2, <4>1 DEF Entered
    <3> QED BY <1>5, <2>2, <3>1, <3>2 DEF Store
  <2>6. ASSUME NEW h \in Gets PROVE Held(h)' /\ Told(h)'
    BY <1>0, <1>5, <2>1 DEF Store, Held, Told
  <2> QED BY <2>4, <2>5, <2>6
<1>6. ASSUME NEW g \in Gets, Expiry(g) PROVE IInv'
  <2>1. EntryTTL' = EntryTTL  BY <1>6 DEF Expiry, EntryTTL
  <2>2. TypeOK'  BY <1>0, <1>6 DEF Expiry
  <2>3. \A j \in Keys : Entered(j)'  BY <1>6, <2>1 DEF Expiry, Entered
  <2>4. ASSUME NEW h \in Gets PROVE Held(h)' /\ Told(h)'
    <3>1. CASE h = g  BY <1>0, <1>6, <2>1, <3>1 DEF Expiry, Held, Told
    <3>2. CASE h # g  BY <1>6, <2>1, <3>2 DEF Expiry, Held, Told
    <3> QED BY <3>1, <3>2
  <2> QED BY <2>2, <2>3, <2>4
<1>7. CASE Tick
  <2>1. EntryTTL' = EntryTTL  BY <1>7 DEF Tick, EntryTTL
  <2>2. TypeOK'  BY <1>7 DEF Tick
  <2>3. \A j \in Keys : Entered(j)'  BY <1>7, <2>1 DEF Tick, Entered
  <2>4. ASSUME NEW h \in Gets PROVE Held(h)' /\ Told(h)'
    BY <1>0, <1>7, <2>1 DEF Tick, Held, Told
  <2> QED BY <2>2, <2>3, <2>4
<1>8. CASE UNCHANGED vars
  BY <1>8 DEF vars, Entered, Held, Told, EntryTTL
<1> QED BY <1>1, <1>2, <1>3, <1>4, <1>5, <1>6, <1>7, <1>8 DEF Next, Handle

(* The invariant holds throughout. *)
LEMMA Invariance == Spec => []IInv
BY InitInv, NextInv, PTL DEF Spec

(* Every variable of the model keeps its type. *)
THEOREM TypeCorrect == Spec => []TypeOK
<1>1. IInv => TypeOK  BY DEF IInv
<1> QED BY Invariance, <1>1, PTL

(* With a positive DOWNLOAD_URL_TTL, what a client is told about a URL is off *)
(* by less than the life of a cache entry and two delays; with that of zero   *)
(* too, it is off by one delay at most if the URL was just signed.            *)
THEOREM OverrunIsBounded == Spec => []OverrunBounded
<1>1. IInv => OverrunBounded
  <2> SUFFICES ASSUME IInv, NEW g \in Gets, resp[g] = 200, Bounded(g)
               PROVE  IF cached[g] THEN Overrun(g) < EntryTTL + 2 * MaxDelay
                      ELSE Overrun(g) <= MaxDelay
    BY DEF OverrunBounded
  <2>1. EntryTTL \in Int /\ ttl \in Int  BY EntryTTLType DEF IInv
  <2>2. /\ url[g] \in Nat /\ told[g] \in Int /\ MaxDelay \in Nat /\ cached[g] \in BOOLEAN
        /\ Life \in Nat /\ ttl <= Life
    BY CacheAssumption, <2>1 DEF IInv, Told, TypeOK, Life
  <2>3. Told(g) /\ (ttl > 0 => Life = ttl)  BY <2>1 DEF IInv, Life
  <2> QED BY <2>1, <2>2, <2>3 DEF Told, Overrun, Bounded
<1> QED BY Invariance, <1>1, PTL

(* With a positive DOWNLOAD_URL_TTL no URL is handed out with less life than  *)
(* the margin, but for two delays of the handlers: also when two misses store *)
(* their URLs in the opposite order of signing, for Entered speaks of         *)
(* whatever entry is there.  With a TTL of zero it holds of the URLs that do  *)
(* not come from the cache.                                                   *)
THEOREM MarginIsKept == Spec => []NeverNearDead
<1>1. IInv => NeverNearDead
  <2> SUFFICES ASSUME IInv, NEW g \in Gets, resp[g] = 200, Bounded(g)
               PROVE  Left(g) > Margin - 2 * MaxDelay
    BY DEF NeverNearDead
  <2>1. /\ EntryTTL \in Int /\ ttl \in Int /\ EntryTTL = ttl - Margin /\ Margin \in Nat
        /\ ttl > 0 => EntryTTL > 0
        /\ ttl <= 0 => Margin = 0
    <3>1. TypeOK  BY DEF IInv
    <3> QED BY <3>1, EntryTTLType
  <2>2. /\ url[g] \in Nat /\ told[g] \in Int /\ MaxDelay \in Nat /\ cached[g] \in BOOLEAN
        /\ Life \in Nat /\ Life > 0 /\ ttl <= Life
    BY CacheAssumption, <2>1 DEF IInv, Told, TypeOK, Life
  <2>3. Told(g) /\ (ttl > 0 => Life = ttl)  BY <2>1 DEF IInv, Life
  <2> QED BY <2>1, <2>2, <2>3 DEF Told, Left, Answered, Bounded
<1> QED BY Invariance, <1>1, PTL
=============================================================================
