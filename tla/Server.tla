-------------------------------- MODULE Server --------------------------------
(***************************************************************************)
(* cmd/server/main.go, from the environment to the end of the process:     *)
(* connect to MongoDB and Redis, ensure the indexes and wire the features, *)
(* listen, wait for a signal, shut the HTTP server down, disconnect.       *)
(* Beside main run the listener, the handlers and the statistics           *)
(* goroutines.  A process lives once; a restart, or a rolling one, is      *)
(* another process on the same MongoDB.                                    *)
(***************************************************************************)
EXTENDS Env, Integers

CONSTANTS Procs,         \* the server processes, one after the other or side by side
          Environments,  \* the environments they may be given
          Requests,      \* the requests
          Mails,         \* the mailboxes that register
          Faults,        \* which of FaultKinds may happen
          NoProc, NoMail

(* MongoDB or Redis cannot be reached at the start; ensuring an index fails; *)
(* the port cannot be had, or lost; the process is killed.                   *)
FaultKinds == {"mongo", "redis", "index", "bind", "kill"}

ASSUME ServerAssumption ==
    /\ Environments \subseteq [Names -> Values]
    /\ Faults \subseteq FaultKinds
    /\ NoProc \notin Procs /\ NoMail \notin Mails

VARIABLES raw,       \* the environment, the same for all
          proc,      \* each process: main, its connections, its listener
          req,       \* each request, and the statistics goroutine it leaves behind
          indexed,   \* users has its unique index on the address
          accounts   \* how many accounts users holds of each mailbox

vars == <<raw, proc, req, indexed, accounts>>

Booting  == {"mongo", "redis", "auth", "uploads", "notify"}
Stopping == {"drain", "disconnect", "close"}
Phases   == {"down", "wait", "exited"} \cup Booting \cup Stopping
Working  == {"running", "calling"}

Process == [phase : Phases,
            mongo : {"none", "open", "closing", "closed"},
            redis : {"none", "open"},
            mounted : SUBSET {"auth", "uploads", "web", "share"},
            unindexed : BOOLEAN,   \* EnsureIndexes of users failed: a warning
            lis : {"none", "starting", "serving",
                   "closed",       \* served until Shutdown closed it
                   "stopped"},     \* never served
            told : BOOLEAN,        \* a signal is in the channel
            late : BOOLEAN,        \* the ten seconds are over
            exit : {"none", "ok", "failure", "killed"}]

Request == [at : Procs \cup {NoProc},
            kind : {"none", "register", "presign"},
            mail : Mails \cup {NoMail},
            st : {"unsent", "answered", "failed", "cut"} \cup Working,
            bump : {"none", "spawned", "calling", "lost"}]

TypeOK ==
    /\ raw \in Environments
    /\ proc \in [Procs -> Process]
    /\ req \in [Requests -> Request]
    /\ indexed \in BOOLEAN
    /\ accounts \in [Mails -> Nat]

(* A process before it starts. *)
Down == [phase |-> "down", mongo |-> "none", redis |-> "none", mounted |-> {},
         unindexed |-> FALSE, lis |-> "none", told |-> FALSE, late |-> FALSE, exit |-> "none"]

(* A request before it is sent; when it is over only the end of it is kept. *)
Unsent == [at |-> NoProc, kind |-> "none", mail |-> NoMail, st |-> "unsent", bump |-> "none"]

Init ==
    /\ raw \in Environments
    /\ proc = [p \in Procs |-> Down]
    /\ req = [r \in Requests |-> Unsent]
    /\ indexed = FALSE
    /\ accounts = [m \in Mails |-> 0]

Duplicates == \E m \in Mails : accounts[m] > 1
HandledBy(p) == {r \in Requests : req[r].at = p /\ req[r].st \in Working}
Pending(p) == {r \in Requests : req[r].at = p /\ req[r].bump \in {"spawned", "calling"}}
Alive(p) == proc[p].phase \notin {"down", "exited"}

(* The end of the process takes its handlers and goroutines with it; what is *)
(* kept is whether it was warned of the missing index.                       *)
Exits(p, code) ==
    /\ proc' = [proc EXCEPT ![p] = [Down EXCEPT !.phase = "exited", !.exit = code,
                                                !.unindexed = proc[p].unindexed]]
    /\ req' = [r \in Requests |->
                IF r \in HandledBy(p) THEN [Unsent EXCEPT !.st = "cut"]
                ELSE IF r \in Pending(p) THEN [Unsent EXCEPT !.st = "answered", !.bump = "lost"]
                ELSE req[r]]

Same == UNCHANGED <<raw, indexed, accounts>>

-----------------------------------------------------------------------------
(* main, up to the listener *)

LoadEnv(p) ==
    /\ proc[p].phase = "down"
    /\ IF Problems(raw) = {} THEN proc' = [proc EXCEPT ![p].phase = "mongo"] /\ UNCHANGED req
       ELSE Exits(p, "failure")
    /\ Same

(* A failed connection ends a production server; any other goes on without. *)
Unreachable(p, next) ==
    IF IsProduction(raw) THEN Exits(p, "failure")
    ELSE proc' = [proc EXCEPT ![p].phase = next] /\ UNCHANGED req

(* Mutant of ConnectMongo: the client of a failed ping is kept, half open. *)
ConnectMongoHalfOpen(p) ==
    /\ proc[p].phase = "mongo"
    /\ proc' = [proc EXCEPT ![p].phase = "redis", ![p].mongo = "half"]
    /\ UNCHANGED req /\ Same

ConnectMongo(p) ==
    /\ proc[p].phase = "mongo"
    /\ \/ /\ raw["MONGODB_URI"] = "good"
          /\ proc' = [proc EXCEPT ![p].phase = "redis", ![p].mongo = "open"]
          /\ UNCHANGED req
       \/ (raw["MONGODB_URI"] = "bad" \/ "mongo" \in Faults) /\ Unreachable(p, "redis")
    /\ Same

(* Mutant of ConnectRedis: a warning in production, too. *)
ConnectRedisTolerant(p) ==
    /\ proc[p].phase = "redis"
    /\ \/ raw["REDIS_URL"] = "good" /\ proc' = [proc EXCEPT ![p].phase = "auth", ![p].redis = "open"]
       \/ (raw["REDIS_URL"] = "bad" \/ "redis" \in Faults) /\ proc' = [proc EXCEPT ![p].phase = "auth"]
    /\ UNCHANGED req
    /\ Same

ConnectRedis(p) ==
    /\ proc[p].phase = "redis"
    /\ \/ /\ raw["REDIS_URL"] = "good"
          /\ proc' = [proc EXCEPT ![p].phase = "auth", ![p].redis = "open"]
          /\ UNCHANGED req
       \/ (raw["REDIS_URL"] = "bad" \/ "redis" \in Faults) /\ Unreachable(p, "auth")
    /\ Same

(* CreateOne: with duplicates in the collection it cannot succeed; a failure *)
(* is only warned of, and its answer may be all that was lost.               *)
EnsureIndexed(ok) ==
    \/ ok /\ ~Duplicates /\ indexed' = TRUE
    \/ /\ ~ok
       /\ Duplicates \/ "index" \in Faults
       /\ UNCHANGED indexed \/ (~Duplicates /\ indexed' = TRUE)

BuildAuth(p) ==
    /\ proc[p].phase = "auth"
    /\ IF proc[p].mongo = "open" /\ proc[p].redis = "open"
       THEN \E ok \in BOOLEAN :
                /\ EnsureIndexed(ok)
                /\ proc' = [proc EXCEPT ![p].phase = "uploads", ![p].mounted = {"auth"},
                                        ![p].unindexed = ~ok]
       ELSE proc' = [proc EXCEPT ![p].phase = "uploads"] /\ UNCHANGED indexed
    /\ UNCHANGED <<raw, req, accounts>>

(* The indexes of uploads are not unique on anything a client chooses: whether  *)
(* ensuring them fails makes no difference here.  Then the listener is started;  *)
(* until Notify a signal has its default effect.                                 *)
BuildUploads(p) ==
    /\ proc[p].phase = "uploads"
    /\ LET built == IF proc[p].mongo # "open" \/ ~StorageConfigured(raw) THEN {}
                    ELSE {"uploads", "web"} \cup (IF proc[p].redis = "open" THEN {"share"} ELSE {})
       IN  proc' = [proc EXCEPT ![p].phase = "notify", ![p].lis = "starting", ![p].mounted = @ \cup built]
    /\ UNCHANGED req /\ Same

Notify(p) ==
    /\ proc[p].phase = "notify"
    /\ proc' = [proc EXCEPT ![p].phase = "wait"]
    /\ UNCHANGED req /\ Same

-----------------------------------------------------------------------------
(* main, from the signal on *)

(* Shutdown closes the listener before it waits; what it accepted stays open. *)
TakeSignal(p) ==
    /\ proc[p].phase = "wait" /\ proc[p].told
    /\ proc' = [proc EXCEPT ![p].phase = "drain", ![p].told = FALSE,
                            ![p].lis = IF @ = "serving" THEN "closed" ELSE @]
    /\ UNCHANGED req /\ Same

(* Disconnect begins: nobody gets a connection of the pool any more. *)
Disconnecting(p) ==
    proc' = [proc EXCEPT ![p].phase = "disconnect", ![p].mongo = IF @ = "open" THEN "closing" ELSE @]

(* Mutants of Drained: main does not wait for the handlers; or it waits for *)
(* them whatever time it takes.                                             *)
DrainedAtOnce(p) == proc[p].phase = "drain" /\ Disconnecting(p) /\ UNCHANGED req /\ Same
DrainedUnbounded(p) ==
    proc[p].phase = "drain" /\ HandledBy(p) = {} /\ Disconnecting(p) /\ UNCHANGED req /\ Same

(* Shutdown returns when no handler is left, or with the error of its context. *)
Drained(p) ==
    /\ proc[p].phase = "drain"
    /\ HandledBy(p) = {} \/ proc[p].late
    /\ Disconnecting(p)
    /\ UNCHANGED req /\ Same

(* The calls that hold a connection. *)
InUse(p) == {r \in Requests : req[r].at = p /\ (req[r].st = "calling" \/ req[r].bump = "calling")}

(* Mutant of Disconnected: the connections in use are closed like the others. *)
DisconnectedAtOnce(p) ==
    /\ proc[p].phase = "disconnect"
    /\ proc' = [proc EXCEPT ![p].phase = "close", ![p].mongo = IF @ = "closing" THEN "closed" ELSE @]
    /\ UNCHANGED req /\ Same

(* The driver waits for connections in use until the same context is over. *)
Disconnected(p) ==
    /\ proc[p].phase = "disconnect"
    /\ proc[p].mongo = "none" \/ InUse(p) = {} \/ proc[p].late
    /\ proc' = [proc EXCEPT ![p].phase = "close", ![p].mongo = IF @ = "closing" THEN "closed" ELSE @]
    /\ UNCHANGED req /\ Same

(* Redis is closed, main returns. *)
Return(p) == proc[p].phase = "close" /\ Exits(p, "ok") /\ Same

Main(p) ==
    \/ LoadEnv(p) \/ ConnectMongo(p) \/ ConnectRedis(p) \/ BuildAuth(p) \/ BuildUploads(p)
    \/ Notify(p)
    \/ TakeSignal(p) \/ Drained(p) \/ Disconnected(p) \/ Return(p)

(* The ten seconds of the context that Shutdown and Disconnect share. *)
Deadline(p) ==
    /\ proc[p].phase \in Stopping /\ ~proc[p].late
    /\ proc' = [proc EXCEPT ![p].late = TRUE]
    /\ UNCHANGED req /\ Same

-----------------------------------------------------------------------------
(* The listener, and what comes from outside *)

(* ListenAndServe returns at once when Shutdown was called before it. *)
Listen(p) ==
    /\ proc[p].lis = "starting"
    /\ proc' = [proc EXCEPT ![p].lis = IF proc[p].phase \in Stopping THEN "stopped" ELSE "serving"]
    /\ UNCHANGED req /\ Same

ListenFails(p) ==
    /\ "bind" \in Faults
    /\ proc[p].lis \in {"starting", "serving"} /\ proc[p].phase \notin Stopping
    /\ Exits(p, "failure")
    /\ Same

(* The default effect before Notify; after the first one nobody listens any more. *)
Signal(p) ==
    /\ \/ proc[p].phase \in Booting /\ Exits(p, "killed")
       \/ /\ proc[p].phase = "wait" /\ ~proc[p].told
          /\ proc' = [proc EXCEPT ![p].told = TRUE]
          /\ UNCHANGED req
    /\ Same

Kill(p) == "kill" \in Faults /\ Alive(p) /\ Exits(p, "killed") /\ Same

-----------------------------------------------------------------------------
(* Handlers: the whole of their work on MongoDB is one call, which may take *)
(* any time.                                                                *)

Over(r, end) == req' = [req EXCEPT ![r] = [Unsent EXCEPT !.st = end]]

(* A route that is not mounted and auth without its dependencies answer at once. *)
Mounted(p, kind) == (IF kind = "register" THEN "auth" ELSE "uploads") \in proc[p].mounted

(* The request reaches the router of p. *)
Dispatch(r, p) ==
    \E k \in {"register", "presign"}, m \in Mails :
        IF Mounted(p, k)
        THEN req' = [req EXCEPT ![r] = [at |-> p, kind |-> k, mail |-> m, st |-> "running",
                                        bump |-> "none"]]
        ELSE Over(r, "answered")

(* While Shutdown polls, a connection accepted before may still bring a request. *)
(* net/http takes it on and waits for it, or closes the connection unanswered,   *)
(* as it does with whatever it reads later: then the request never arrives.      *)
Lingering(p) == proc[p].phase = "drain" /\ proc[p].lis = "closed"

Arrive(r) ==
    /\ req[r].st = "unsent"
    /\ \E p \in Procs : (proc[p].lis = "serving" \/ Lingering(p)) /\ Dispatch(r, p)
    /\ UNCHANGED proc /\ Same

Call(r) ==
    /\ req[r].st = "running"
    /\ IF proc[req[r].at].mongo = "open" THEN req' = [req EXCEPT ![r].st = "calling"]
       ELSE Over(r, "failed")
    /\ UNCHANGED proc /\ Same

(* Mutant of Taken: the index is of no use. *)
TakenNever(m) == FALSE

(* The insert finds the address in the unique index, if there is one. *)
Taken(m) == indexed /\ accounts[m] > 0

(* The call returns and the answer is written. *)
Registered(r) ==
    /\ req[r].kind = "register" /\ req[r].st = "calling"
    /\ proc[req[r].at].mongo # "closed"
    /\ accounts' = IF Taken(req[r].mail) THEN accounts
                   ELSE [accounts EXCEPT ![req[r].mail] = @ + 1]
    /\ Over(r, "answered")
    /\ UNCHANGED <<raw, proc, indexed>>

(* A presign starts the statistics goroutine behind its answer. *)
Presigned(r) ==
    /\ req[r].kind = "presign" /\ req[r].st = "calling"
    /\ proc[req[r].at].mongo # "closed"
    /\ req' = [req EXCEPT ![r] = [Unsent EXCEPT !.st = "answered", !.at = req[r].at,
                                                !.bump = "spawned"]]
    /\ UNCHANGED proc /\ Same

(* The connection was closed under the call. *)
TornOff(r) ==
    /\ req[r].st = "calling" /\ proc[req[r].at].mongo = "closed"
    /\ Over(r, "failed")
    /\ UNCHANGED proc /\ Same

Bumped(r, end) == req' = [req EXCEPT ![r] = [Unsent EXCEPT !.st = "answered", !.bump = end]]

(* IncrementAsync: nobody waits for it, and its error is dropped. *)
BumpCalls(r) ==
    /\ req[r].bump = "spawned"
    /\ IF proc[req[r].at].mongo = "open" THEN req' = [req EXCEPT ![r].bump = "calling"]
       ELSE Bumped(r, "lost")
    /\ UNCHANGED proc /\ Same

(* With an error of its own, or its five seconds over, it is over all the same. *)
BumpReturns(r) ==
    /\ req[r].bump = "calling"
    /\ Bumped(r, IF proc[req[r].at].mongo = "closed" THEN "lost" ELSE "none")
    /\ UNCHANGED proc /\ Same

Handle(r) ==
    /\ req[r].at # NoProc
    /\ \/ Call(r) \/ Registered(r) \/ Presigned(r) \/ TornOff(r)
       \/ BumpCalls(r) \/ BumpReturns(r)

Next ==
    \/ \E p \in Procs : Main(p) \/ Deadline(p) \/ Listen(p) \/ ListenFails(p) \/ Signal(p) \/ Kill(p)
    \/ \E r \in Requests : Arrive(r) \/ Handle(r)

(* main runs on and its ten seconds pass.  Nothing is assumed of the handlers: a *)
(* call without a timeout, or a client that reads slowly, may last for ever.     *)
Spec ==
    /\ Init /\ [][Next]_vars
    /\ \A p \in Procs : WF_vars(Main(p)) /\ WF_vars(Deadline(p))
-----------------------------------------------------------------------------
(* Properties *)

(* A server that was told to stop, and stops by itself within the ten seconds,  *)
(* cuts no request off that it had taken on, and lets none find MongoDB gone:   *)
(* Shutdown before Disconnect (main.go).                                        *)
DrainIsGraceful ==
    [][\A r \in Requests : req[r].st \in Working =>
         LET p == req[r].at IN
         /\ req'[r].st = "cut" => proc[p].late \/ proc'[p].exit # "ok"
         /\ req'[r].st = "failed" => proc[p].late]_vars

(* A count on its way to MongoDB is torn off only when the ten seconds are over *)
(* or the process dies: Disconnect waits where nobody else does (stats.go).     *)
CountsInFlightKept ==
    [][\A r \in Requests : req[r].bump = "calling" /\ req'[r].bump = "lost" =>
         proc[req[r].at].late \/ proc'[req[r].at].exit \in {"failure", "killed"}]_vars

(* Nothing listens with a setting of its environment missing or malformed that  *)
(* Load asks for, and in production nothing listens without MongoDB and Redis,  *)
(* hence without accounts (env.go, main.go).                                    *)
FailsFast ==
    \A p \in Procs : proc[p].lis = "serving" =>
        /\ \A n \in Secrets \cup Addresses : raw[n] # "unset"
        /\ \A n \in Secrets \cup Parsed : raw[n] # "bad"
        /\ IsProduction(raw) => proc[p].redis = "open" /\ "auth" \in proc[p].mounted

(* Two accounts of one mailbox stand in the collection only if a server was     *)
(* warned that it runs without the index, and then no server ever gets the      *)
(* index: where it exists the addresses are unique, whoever else was warned.    *)
OneAccountOrWarned ==
    Duplicates => ~indexed /\ \E p \in Procs : proc[p].unindexed

(* A process that is told to stop ends, however long its handlers take and      *)
(* whatever they hold: both waits of the shutdown are under the ten seconds.    *)
StopsWhenTold ==
    \A p \in Procs : proc[p].phase = "wait" /\ proc[p].told ~> proc[p].phase = "exited"
=============================================================================
