# A verification of file-salad-api-service

TLA+ models of the concurrent and stateful parts of the file-salad backend, TLC
configurations that check them on small instances, and TLAPS proofs about the
quota and the presign request, the upload records, sessions and accounts, the
download-URL cache, share codes, the rate limiter, the request chain, and the life of
a server. The definitions follow the Go code; names of actions and
variables are those of the functions and fields they stand for, and `PROJECT.json`
maps every definition to its lines.

## The system

A Gin server in front of MongoDB (accounts, upload records, quota counters, one
statistics document), Redis (refresh sessions, download-URL cache, share codes,
rate-limit counters) and an S3 bucket it only signs URLs for. Every request runs
in a goroutine of its own; the process keeps no state between requests but for its
connections, so all interaction between requests goes through documents and keys, one command at a
time, and every sequence of two commands can be interleaved, cut off by an error,
or cut off by the end of the process.

| Part | State | Operations | What makes it correct |
|---|---|---|---|
| quota (`internal/quota`) | `upload_counts`: a count per scope and month | Used, Reserve, Release | never over the cap, never below zero, every count accounted for, 403 only when full |
| presign (`uploads`, `webuploads`) | `uploads`, the handler's own step | presign: validate, reserve, sign, insert, compensate, answer | 201 means stored; failures cost nothing; within the cap |
| statistics (`internal/stats`) | one document, goroutines in flight | IncrementAsync, Total | never ahead of the uploads answered |
| sessions (`internal/session`) | `refresh:*`, `user_sessions:*` | Create, Rotate, Revoke, RevokeAll | a token is used once, has one successor, never comes back |
| accounts (`features/auth`) | `users` | register, login, refresh, logout, /me | one account per mailbox; sessions stay with their user |
| download cache (`internal/storage`) | `dluri:*`, the clock | PresignDownload, DownloadExpiry | no dead URL is handed out, the expiry told is near the truth |
| share codes (`internal/sharecode`, `features/share`) | `share:*` | create, redeem | a live code means one file; the loop ends |
| rate limiter (`middleware`) | `ratelimit:*`, the clock | INCR, EXPIRE, verdict | at most the limit per window; nobody pays for others |
| upload records (`features/uploads`) | `uploads` | complete, list, download | a walk through the pages is exact; owners are isolated |
| request chain (`internal/app`, `middleware`, `response`) | response writer, error list | the layers around a handler | no failure is answered as success; no handler behind a guard that refused |
| start and shutdown (`cmd/server`, `internal/db`, `internal/redis`) | the connections, what is mounted, the listener, the unique index of `users` | connect, ensure indexes, wire, listen, signal, Shutdown, Disconnect | fails fast; nothing listens half configured; a shutdown cuts nothing off before its deadline, and ends |
| configuration (`internal/env`) | – | Load | refuses everything main cannot live with |
| logging, ids, crypto, health, feature flags | – | – | not modelled, see below |

The hard behaviours, each with its line and properties under "hazards" in
`PROJECT.json`: an upsert that is a search and an insert; usage re-read after a
failed command; a month read again at Release; compensations with a canceled
context; Redis operations of several commands (Rotate, RevokeAll, INCR+EXPIRE);
lost answers and the client library's retries; a cache older than what is said
about it; pages read while records arrive out of order; layers that see the
response before it is final; a start that goes on after a failure, and a shutdown
that shares one deadline between handlers and connections.

## The modules

**QuotaCounter** – the commands `internal/quota` sends. A document is a pair of
scope and month. `Incremented` is the guarded `$inc` (one atomic step),
`Inserted` and `Collided` are the two ends of the upsert after a search that
matched nothing, `Decremented` is Release's guarded update. MongoDB's own
behaviour is modelled as far as the package relies on it: the update of one
document is atomic, the upsert of a missing one is not, `_id` is unique.

**Presign** (extends QuotaCounter) – the presign handler of both surfaces; they
differ in the scope's name and the answer's wording. `pc` is the call the
handler is about to make: `reserve` (search), `upsert` (insert), `recheck`
(Used), `sign`, `insert`, `release`, `reply`. `slot` and `gave` are history
variables: the document each request incremented and decremented. Faults are a
constant set: a refused command, a lost answer, a failed signature, a canceled
Release, the death of the process. **QuotaPromise** is what callers are promised
(a semaphore of Cap slots per document); `KeepsPromise` is the refinement, where
a request holds a slot from the grant to its compensation, and for good if it died
with one (`Holders`).
**PresignProofs** holds the theorems.

**SessionStore** and **Auth** – the Redis commands of `internal/session` (a
command or a MULTI is one step), and the handlers of `features/auth` as
sequences of them. Every Create gives its token and the set of the user the same TTL
from now; deadlines are ranks in that order (`due`, `setDue`), and `Expire` passes any
of them and removes what was due, tokens and sets alike, so that a set which outlives
its tokens is a result and not an assumption. `RefreshTTL` may be any integer: with none
that is positive, SET carries no expiry and EXPIRE deletes the set. A client may present any token it was ever handed, as often
as it likes; a token the server never issued behaves like one that is gone.
**TokenLife** is the life of a token as a client may rely on it; `KeepsTokenLife`
is the refinement (a token taken by a refresh that has not yet minted its
successor is "rotating"). **AuthProofs** holds the theorems.

**DownloadCache** – `PresignDownload` and `DownloadExpiry` against a clock. A URL
is represented by the moment it was signed. `mark` is when the handler got hold
of the URL; `Tick` keeps a handler from taking more than `MaxDelay` from there,
the only assumption on timing (go-redis bounds its calls by timeouts). `ttl` is a
variable that no step changes: a run takes every TTL of a set, above the margin
and below it, zero and negative. The signer refuses a negative one and takes its
default (`DefaultLife`) for zero, which go-redis in turn takes for no expiry (`RunsOut`). **DownloadCacheProofs** holds the theorems.

**ShareCodes** – `Store.Create`'s loop and the redeem of a code. `held` is history:
the mints that claimed a code since it last expired. **ShareCodesProofs**
holds the theorems.

**RateLimit** – `INCR`, `EXPIRE` and the verdict as separate steps, keys by client
and window, with errors, an INCR or EXPIRE whose answer is lost and that is sent again
(`MaxRetries` times at most; go-redis has three), and the end of the process. The clock
moves on whatever the requests wait for: a call may take any time.
**RateLimitProofs** holds the theorems.

**Uploads** – the records after presign: drawing the id and inserting the record are
two steps, `Page` is one `ListByOwner` with the cut of the extra row, a walk is a
client following `next_cursor`. `Newest` is what a sorted and limited query may return,
stated as what the package relies on: descending, and nothing left out but what is older.
A page is read in one step: at most 51 documents fit the first batch of the Mongo cursor.
`served` is history: to whom the last upload was given, or for whom completed.
**UploadsProofs** holds the theorems.

**RequestChain** – one request through the layers of `app.Build`, from Recovery to
the handler and back. The response writer is a status, a body, and whether the
header has gone out; `err` is the last attached error, `line` the logged status.
`found` is what main could connect to, from which `Wired` follows as in `buildDeps`.
**RequestChainProofs** holds the theorems.

**Env** – what `env.Load` makes of the environment: of each variable it counts
whether it is set and whether its value will do. `Problems` is the list Load
aggregates. That an address has no valid form is found by `Connect`, so it is not
among them.

**Server** (extends Env) – one or more processes, each with its `main`, its
connections, its listener; the requests they serve; and the state they share in
MongoDB that the start decides on: the unique index on `users.email` and the
accounts. `phase` is the call main is in. A handler is one call to MongoDB, which
may take any time; `bump` is the statistics goroutine a presign leaves behind.
`Exits` is the end of a process, with everything that runs in it. A process lives
once: a restart, or a rolling deployment, is another process. What the operating
system and the libraries do is modelled as main relies on it: a signal kills a
process that has not called Notify; `Shutdown` closes the listener and then waits
for handlers, and keeps a listener that comes late from opening; a connection accepted
before may still bring a request while `Shutdown` waits (`Lingering`), which net/http
takes on and waits for or closes unanswered; the driver's
`Disconnect` refuses new calls, waits for those in flight, and closes their
connections at the deadline; an index on a collection with duplicates cannot be
made. **ServerProofs** holds the theorems.

The modules do not share variables, and neither do the parts they model except
in three places: Presign uses QuotaCounter, Auth uses SessionStore (both
composed by EXTENDS), and the redeem of a share code ends in DownloadCache,
whose `Find` stands for any of the three lookups. RateLimit is the `Throttle` of
RequestChain; RequestChain's `Handler` stands for all of the handlers. Server is
what the others run in: its `Exits` is the `Crash` of Presign, Auth and RateLimit,
its `mounted` the `Wired` of RequestChain, and its handlers are Presign and Auth
reduced to the one call that a shutdown can tear off.

## The runs

`MCX.tla` names the model values of the runs of module `X`; `MCX_<run>.cfg` is a
run. All counts of requests, tokens, codes, ids, months and ticks are bounds of the
runs; the modules name them (`LastMonth`, `MaxTime`, `MaxId`, ...). Deadlock
checking is off because the requests of a run are finitely many and the system
stops when they are answered.

Runs that pass:

| Run | Instance | Shows |
|---|---|---|
| `MCPresign_faults` | 3 requests, 1 scope, cap 2, 3 months of which the first has its document, all faults | bounds and accounting of the counts, durability of 201, honesty of 403, statistics never ahead; until a slot is given back, the cap and distinct usages |
| `MCPresign_warm` | 4 requests, 2 scopes, documents exist, no faults, fairness | refinement of QuotaPromise, but for its `GiveBack`: without faults nothing is given back; statistics catch up |
| `MCPresign_room` | requests no more than slots, refused commands and signatures | failures leave exactly the stored uploads counted |
| `MCAuth_sessions` | 3 operations of every kind, 4 tokens, 3 spellings of 2 mailboxes, a positive refresh TTL with keys and sets running out, all faults | one successor, logout is final, live tokens are listed, the first RevokeAll is complete, one account per mailbox, refinement of TokenLife |
| `MCDownloadCache_margin` | 3 downloads of one object, TTLs 6, 2, 0 and -1, margin 3, default life 4, delay 1, Redis failing | the margin is kept up to the delay; how wrong the told expiry can be |
| `MCShareCodes_codes` | 2 mints, 1 redeem, 2 codes, 2 files, errors, lost answers, expiry, fairness | a live code means its file; the loop ends, and gives up only after the last collision |
| `MCRateLimit_window` | 3 requests, 2 clients, limit 1, windows of 2 ticks, clock to 3 (both windows, and a counter of the first that has run out), 1 resend of an INCR, any delay, all faults | the limit per window and life of a counter, throttled for one's own requests only |
| `MCUploads_records` | 4 ids, 2 users and the web, pages of 1 or 2, inserts out of order | a walk is descending and without gaps, has_more is true, owners are isolated |
| `MCRequestChain_stack` | every kind of request; any of MongoDB, Redis, storage missing | errors reach the client, guards hold |
| `MCServer_lifecycle` | 2 processes, 2 requests, 1 mailbox, 7 environments (one with a malformed duration), all faults, fairness | nothing half configured listens, a missing index is warned of, a shutdown is graceful until its deadline, and ends |

Runs that end in a violation, each of a sentence in the repository (quoted under
"findings" in `PROJECT.json`):

| Run | The trace |
|---|---|
| `MCPresign_cold` | requests race to create the month's document; the loser is granted without being counted |
| `MCRequestChain_logged` | a request answered 4xx or 5xx is logged as 200 |

**Known behaviour that no run is for.** The models show more places where the code
and a comment part; they are smaller, and the properties above are stated so that
they hold beside them:

- A full document also answers the upsert with a duplicate key. If another request
  releases its slot before the recheck, the caller is granted that slot without
  taking it, and it is granted again (`quota.go:83-91`).
- A request that reserves on one side of midnight of the first and fails on the
  other gives back a slot of the new month (`quota.go:98`); the books stay right
  (`CountAccounted`), the slot is another's.
- A slot is lost for the month when the answer of the increment is lost
  (`service.go:48`), when the process ends before the insert (`service.go:47`) or when
  the client has hung up and Release is canceled with it (`service.go:60`). An insert
  whose answer is lost gives a slot back for an upload that is stored (`service.go:87`).
- With a cap of zero or less the insert admits one upload per scope and month
  (`CountInBounds` says "or one", the theorem `IncrementsBelowCap` assumes a cap
  of at least one).
- A second RevokeAll can miss a token: the login that wrote it was between the
  SMEMBERS and the MULTI of the first (`session.go:102-114`). No handler calls
  RevokeAll yet.
- A logout that comes while a refresh holds its token answers 204, and the successor is
  minted all the same (`session.go:92`).
- A registration whose session cannot be created answers 500 and leaves the account,
  so that the retry answers 409 (`service.go:70` of auth).
- With `JWT_REFRESH_EXPIRES_IN` zero or negative (`main.go:182` takes what parses) the
  tokens have no expiry and the set is deleted by its EXPIRE: sessions live until they
  are used, and RevokeAll finds none (`session.go:49-51`).
- With `DOWNLOAD_URL_TTL=0s` (`env.go:115` takes it) the SET carries no expiry while the
  URL in it lives for the signer's default: a dead URL is handed out from then on, against
  `storage.go:126-127` (`NeverNearDead` and `OverrunBounded` speak of URLs just signed there).
- A URL from the cache is told to live a whole TTL from the answer
  (`storage.go:84`); `OverrunBounded` says by how much that is wrong. With a TTL of
  at most a minute the entry lives as long as the URL, and a URL may be dead by the
  handlers' own delays (`storage.go:129`); `NeverNearDead` says by no more.
- Nothing reads an upload's `expires_at`: it is downloaded and shared after it as
  before, though `env.go:51` and `README.md:145` call it the public link's lifetime.
- A production server starts without storage and mounts no uploads, though
  `env.go:33-35` says the storage variables are required in production and that main
  enforces it; main only warns (`main.go:176`).
- `Load` does not look at the two JWT durations: main replaces one that does not
  parse by a fallback (`main.go:182`), as it does with the default of the refresh
  token, `30d`, which is no Go duration (`env.go:143`). `env.go:1-3` says the process
  refuses to start on a malformed variable.
- Until `signal.Notify` (`main.go:98`) a SIGTERM kills a server that is already
  listening, with its requests.
- Once two accounts of a mailbox stand in `users`, no later start can create the
  index, and each goes on with a warning (`main.go:132`).
- An expired share code can be drawn again for another file (`sharecode.go:69`).
- A failed EXPIRE leaves the counter of one window in Redis for ever
  (`rate_limit.go:43`). An INCR that arrives after the counter of its window has run out
  starts a new one, which lets the limit through again (`rate_limit.go:34`).
- Without MongoDB or Redis the auth routes are mounted all the same and answer 400,
  401 or 500, not 404 (`app.go:57`).

Why the bounds are enough: the races need two requests and, to show on the
count, one more beside them; three requests with a cap of two have the empty,
the partly filled and the full document, each reached in either order with a
failure on any of them. Three months are one whose document exists and two that begin
without one, with a change of month for a request to cross at either. Three operations on four tokens have a chain of two
rotations with a third operation racing either link. Windows and TTLs are the
smallest for which "before", "at" and "after" an edge are different ticks, the
delay of a download is shorter than its margin, and a counter of the limiter can run out
under a late INCR. One resend of an INCR is the first that counts a request twice; the
proofs are for any number. Two server processes are a
predecessor that leaves accounts behind, or runs beside its successor, and that
successor; two requests are two registrations of one mailbox, or one handler in
flight beside one statistics goroutine. In `Uploads`, four ids with pages of
one or two have lists that end inside a page, on its edge and after it.

**Fairness.** `WF` on each handler and each statistics goroutine: the Go scheduler
runs every goroutine and every call to MongoDB or Redis returns, with an answer or
an error. Presign and ShareCodes state it. Nothing is assumed of clients (a request
need not come), of the calendar, or of crashes. A step that loops back, like
ShareCodes' draw, ends by its counter and not by fairness. Server assumes less:
`WF` on main (its calls at the start have timeouts of three seconds, `Shutdown` and
`Disconnect` a deadline) and on that deadline, and nothing of handlers and
statistics goroutines: that a shutdown ends must not hang on them. Auth, DownloadCache, RateLimit, Uploads and RequestChain
state safety only and have no fairness.

**Premises inside properties.** `WindowHonoured` has the limit for a window as long as its first TTL lasts, and
the limit once more for each TTL after that: a late INCR starts a new counter.
`NeverNearDead` and `OverrunBounded` leave out the URLs from a cache without expiry
(`Bounded`: a TTL of zero). `LiveIsListed` speaks of
users nobody has revoked, `FirstRevokeAllComplete` of runs with one RevokeAll, both of a
positive refresh TTL (`Expiring`).
`DrainIsGraceful` and `CountsInFlightKept` let go what is still running when the ten
seconds are over, or when the process is killed; `StopsWhenTold` is about a process
whose main has called Notify. `CapUntilReturn` and `UsageDistinct` are about the first
month of a scope whose document exists, while no slot has been given back: the finding
`presign_cold` and the two entries on quota above are what happens otherwise.

**Mutants.** For every property of a passing run a mutated operator beside the
original (its comment says which mistake it is) makes TLC find the property
violated; nothing else uses these operators.

## The proofs

Each theorem module proves about the specification its runs check, for every value
of the constants that the module's `ASSUME` admits; TLC evaluates the `ASSUME`s in
every run.

`PresignProofs`, for any number of requests, scopes and months, any cap and any set
of faults:

| Theorem | States |
|---|---|
| `TypeCorrect` | `Spec => []TypeOK` |
| `CountBounded` | every count is within the cap (or one) and not below zero |
| `IncrementsBelowCap` | with `Cap >= 1`, a count is raised only below the cap |
| `BookkeepingHolds` | the handlers' control state agrees with what they charged, gave back and stored |
| `CountIsAccounted` | each count is its charges less its returns |
| `AnswersHold` | 201 means stored (`AnswersAreDurable`), 403 means a full month of slots was handed out (`FullMeansFull`) |
| `StatsStayBehind` | the public total, with the goroutines still to run, never exceeds the uploads answered with 201 |
| `CapHoldsUntilReturn` | `CapUntilReturn`, with `Cap >= 0` and through every fault |
| `UsagesAreDistinct` | `UsageDistinct`, through every fault |
| `CapHoldsWhenCalm` | `UploadsWithinCap`, with `Cap >= 0` and `Calm` |
| `PromiseIsKept` | `Spec => KeepsPromise` with `Calm`: the refinement of QuotaPromise |
| `FailuresAreFree` | `FailuresCostNothing` with `Room` |

The assumptions are that the cap is an integer, requests are finitely many
(`Cardinality` needs it), each has a scope, and `NoDoc` is no document.

The inductive invariant `IInv` is `TypeOK /\ Bookkeeping /\ CountInBounds`. The
bounds are not inductive alone: the insert of the upsert sets a count to one, which
stays in bounds only because a missing document counts nothing, and a step needs its
handler to have named a document; both are conjuncts of `Bookkeeping`. One lemma per
invariant has one step per action (`NextType`, `NextBookkeeping`, `NextBounds`).
`StepIsCommand` reduces the bounds to the five commands of QuotaCounter, so that they
are argued about commands and not about actions. `CountIsAccounted` is by two lemmas
on cardinalities: booking a request that was not booked before adds one to exactly
one document (`Charging`, `GivingBack`). `FullMeansFull` rests on it: the recheck saw
a usage at the cap, the usage is charges less returns, so there were at least as many
charges, and charges only grow (`ChargedGrows`). `StatsStayBehind` needs that a request
is answered once and that only an accepted one has a goroutine (`StatsInv`).

The cap on accepted uploads is not the cap on counts: `Recheck` can grant without
counting, and does so in `presign_cold`. `Quiet` says why it cannot while the document
exists and nothing has been given back. A request only comes to the recheck by missing
its update, its document was then full, and stays full, since nothing is taken out of it
(`Missed`); so the recheck refuses. Whoever is granted has therefore incremented, and was
told a usage no higher than the count (`Counted`), the next increment tells a higher one
(`Distinct`). `OneRequest` says this of one request and one step, from `Counting`, that
a document from which nothing is given back does not count down. No premise on faults is
needed: what a lost answer, an error or a crash does is to charge without granting.

Two premises are about a whole run. `Calm` is one month, every document in place, and no
fault but the crash and the failed Release, so that no handler ever compensates: only
then is the promise kept to the end. Each part is needed. A Release makes room for a
request between its miss and its recheck; a missing document is `presign_cold`; in a new
month a document is missing again. Under `Calm` an increment is the only step that makes
a holder, and holders are charged, so that a count under the cap is a free slot
(`HolderStep`, `PromiseStep`). `Room` is one month, every document in place, refused
commands and failed signatures, and no more requests of a scope than it has slots: no
update misses (`NoMiss`), so every Release finds the slot of its own request
(`OwnRelease`), and `Settled` follows each request to a state in which it is either
stored and charged, or charged and given back. With a slot less a request may be granted
uncounted, and if it fails give back another's.

`UploadsProofs`, for any users, walks, ids, limits and routes:

| Theorem | States |
|---|---|
| `TypeCorrect` | `Spec => []TypeOK`, with the bound on the length of a walk |
| `OneAnswer` | `Newest` has exactly one member: the model of the query leaves nothing open |
| `WalksAreExact` | `WalkExact`: descending, nothing twice, nothing missed that was there at the start |
| `LastPagesAreLast` | the action property `LastPageIsLast` |
| `OwnersAreIsolated` | `OwnersIsolated` |

`Standing` is where a walk stands: all it has seen is in the list of its user, newest
first and no older than the cursor, and whatever of the list at the start is not older
than the cursor has been seen. A record is only ever added to a list (`ListsGrow`), on
either side of the cursor, so a walk that does not move keeps its standing (`WalkKept`).
`PageHolds` is what a page says of the list, with a row more and without, and `PageTaken`
appends it. That the query always has an answer (`NewestExists`) is an induction on the
limit that adds the greatest id left; it is put as a least counterexample, from
`LeastNatural`, because the induction theorems of the library cannot be instantiated by
the provers installed. That it has only one is `SamePrefix`: two answers agree row by row.

`AuthProofs`, for any requests, tokens, accounts and spellings, any kinds of request and
any set of faults:

| Theorem | States |
|---|---|
| `TypeCorrect` | `Spec => []TypeOK` |
| `ChainsDoNotFork` | `OneSuccessor`: one rotation per token |
| `LogoutEnds` | `LogoutIsFinal`: what a logout took is dead and has no successor |
| `MailboxesAreUnique` | `OneAccountPerMailbox` |
| `SetsAreComplete` | `LiveIsListed`, which has a positive refresh TTL |
| `FirstRevokeHolds` | `FirstRevokeAllComplete`, likewise |
| `TokenLifeKept` | `Spec => KeepsTokenLife`: the refinement of TokenLife |

The assumptions are those of `AuthAssumption` and `SessionAssumption`: normalizing is
idempotent, account ids are fresh, and the missing values are not among the others.

Between the GETDEL of a refresh and its Create the right to a successor is nowhere in
Redis; `Sessions` says where it is: a token that was taken is held by at most one refresh
(`Held`), and a live token or one not drawn yet was never used (`Sound`). A set has a
user's live tokens and a deadline no earlier than theirs (`Covers`), since no deadline is
later than the last one set (`Timed`) and every Create renews that of the set; whatever
deadline passes, a set goes only when its tokens have gone. From there
`Listing` follows the first RevokeAll from its beginning, where the set is complete,
over SMEMBERS, after which `seen` covers what is left of `before`, to the MULTI. The
steps are argued by kind: `StepKinds` divides them into takes, mints and the rest, which
let tokens only fade, and the three lemmas on the invariant (`TakeSessions`,
`CreateSessions`, `FadingSessions`) have their counterparts in the refinement
(`TakeLife`, `CreateLife`, `FadingLife`): a rotation begins, succeeds or a login grants,
and whatever fades is ended, several tokens at once when the process dies.

`DownloadCacheProofs`, for any requests, objects, margin and delay, and any integers as TTLs:

| Theorem | States |
|---|---|
| `TypeCorrect` | `Spec => []TypeOK` |
| `MarginIsKept` | `NeverNearDead`: what is left of a URL when it is handed out, for a positive TTL, and for a URL just signed with a TTL of zero |
| `OverrunIsBounded` | how much longer than the URL lives the client is told, in the same cases |

Neither bound is inductive: what a client was told is a sum of three ages. `IInv`
dates each of them where it arises: an entry runs out at most a delay and its
lifetime after the signature it holds (`Entered`), a handler got its URL at most a
delay ago from an entry that had not run out (`Held`), and what was told follows
(`Told`). With a TTL of zero only the last two steps are left, of a URL just signed: its
entry has no end. With a negative one nothing is ever signed. The only fact about the
clock is the guard of `Tick`.

`ServerProofs`, for any processes, environments, requests and mailboxes, and any set
of faults:

| Theorem | States |
|---|---|
| `TypeCorrect` | `Spec => []TypeOK` |
| `FailsFastHolds` | nothing listens that Load or main should have stopped |
| `IndexedOrWarned` | duplicates only without the index, and only where a server was warned |
| `ShutdownIsGraceful` | the action property `DrainIsGraceful` |
| `CountsKept` | the action property `CountsInFlightKept` |

`IInv` has a part per process and a part per request. `ProcOK` is what main has done
by each phase: nothing is mounted before `BuildAuth`, the auth routes are mounted
only with the index or the warning, and in production the phases after the
connections have them. `ReqOK` relates a running call to the phase of its server's
main: while `Disconnect` runs, a handler is only there because the deadline is over,
and after it, so is a count in flight. A request that comes while `Shutdown` waits finds
the phase before that, and is waited for like the others. Both action properties are that relation at
the step that ends the process (`ExitOfRequest`) or closes a connection. The steps of
main that go on share one lemma (`MovesOn`), the steps of one request another
(`HandledInv`), and every end of a process a third (`ExitsInv`).

`ShareCodesProofs`, for any requests, codes and files, any number of attempts and any
answers lost:

| Theorem | States |
|---|---|
| `TypeCorrect` | `Spec => []TypeOK` |
| `CodesAreStable` | `CodeMeansItsFile`: a live code means the file of the mint that claimed it |
| `ExhaustionIsTrue` | `NoFalseExhaustion`: the loop gives up only after its last collision |

`IInv` has a part for codes and one for mints. `Named` adds that a code that is not
live is held by nobody, without which a code set anew would inherit holders. `Drawn`
counts the collisions of a mint against its attempts; the theorem on exhaustion is that
count at the step that answers 500.

`RateLimitProofs`, for any finite set of requests, any clients, limit, window and slack,
any number of retries, and any set of faults:

| Theorem | States |
|---|---|
| `TypeCorrect` | `Spec => []TypeOK` |
| `WindowIsHonoured` | `WindowHonoured`: no client passes more than the limit in a window while its first TTL lasts, nor more than that again in each TTL after |
| `ThrottledForOwn` | a 429 means more INCRs than the limit for that client and window |

`WindowHonoured` is about a set of requests and the counter is a number that may start
again. `IInv` numbers the lives of a counter (`Lived`): a life that had a TTL lasted a
window and the slack at least, each began after the one before, and of the requests let
through at most the limit belong to each past life and no more than the counter shows to
the present one (`LivedTimes`). So before the n-th TTL is over at most n lives have
begun. That needs a little multiplication, `Multiples`. No bound on the delay
is needed. The 429 needs no timing: a counter is never ahead of the INCRs that were
executed (`Covered`), and those, the resent ones numbered, are finite sets that only
grow (`PaidGrows`).

`RequestChainProofs`, for any set of requests:

| Theorem | States |
|---|---|
| `TypeCorrect` | `Spec => []TypeOK` |
| `ErrorsReachClients` | `ErrorReachesClient`: an attached error is the answer |
| `GuardsHold` | `NeverPastAGuard`: no handler without what its guard asks for, none that answers data without the dependencies of its feature |

An error is attached in one layer and written in another: `Pending` says what must stay
true in between, that no header has gone out; it holds because whoever attaches an error
writes nothing (`Inward`: nothing was written before), and a panic, which skips
the translation, comes before any error (`Broken`). The steps of a request leave the
others alone (`StepOfRequest`).

Model-checked only: liveness under fairness (`StopsWhenTold`, `StatsCatchUp`,
`EveryMintEnds`), which this prover does not reach. Every invariant and action property
of a passing run is stated by a theorem: `KeepsPromise`, `FailuresCostNothing`,
`CapUntilReturn` and `UsageDistinct` under the premises of the theorem, the others under
those the property itself states. What the code does outside those
premises is in the findings and the list of known behaviour.

## Not modelled

Password hashing, JWT and S3 signatures (pure, from libraries: a token is valid,
expired, forged or malformed; a signature succeeds or fails); ids (fresh names); the
numbers the environment yields (constants of the modules; that a cap of zero passes
is among the hazards); logging but for the status of the line; headers, request bodies
and the wording of answers; health and feature flags, which answer from the
configuration and keep nothing; a failing single read that is answered 500 and
changes nothing, in Uploads; an upload's `expires_at`, which nothing reads; the
closing of Redis, which is the last thing main does and nothing waits for; in
Server, the calls of handlers to Redis and S3, which a shutdown does not touch.

Branches left out because they cannot be taken: the `ErrNoDocuments` of Reserve
(`quota.go:78-82`), which an upsert that returns the document after it does not give, and
the error of `generate` (`sharecode.go:66-68`), since `rand.Read` does not fail. A MULTI
whose answer was lost is not sent again by go-redis. Times are whole ticks of one clock
that does not go back: durations below a second, which Redis and the signer round, and
signatures of more than the seven days S3 allows are left out. So is what a deployment
with another TTL left in Redis: URLs cached under the TTL before, or a session set whose
life a shorter refresh TTL cuts below that of its older tokens.

## Plan

Done: the modules above, first quota and presign as the part with the most at stake,
then sessions, the URL cache, share codes, the limiter, the records and the chain,
then start, configuration and shutdown; proofs about all of them.

Next, extending the models:
1. A composition of Presign, Uploads and ShareCodes over the one `uploads`
   collection: what a client can do with an upload whose presign was answered 500
   but whose record exists.
2. Auth: the access token's own life beside the session's (it outlives a logout and
   a RevokeAll), and /me after that.
3. Two server processes on one MongoDB and Redis with clocks that differ, for the
   limiter's windows, the months of the quota and the told expiries.

Next, proving more:
1. How much more than the cap can be accepted: a bound on the uncounted grants by the
   number of slots given back and of requests that raced for a missing document.
2. `FailuresCostNothing` with a weaker `Room`: a scope may have more requests than
   slots as long as none of them fails.
3. The steps of `StatsCatchUp` and `EveryMintEnds` that are not temporal: the measure
   that every step of a mint decreases.
