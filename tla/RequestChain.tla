---------------------------- MODULE RequestChain ----------------------------
(***************************************************************************)
(* One HTTP request on its way through the middleware that app.Build       *)
(* stacks around the handlers: Recovery, ErrorHandler, RequestID,          *)
(* RequestLog, the headers and CORS on the way in, then the route's own    *)
(* guard and its handler, and the same stack on the way out.  The response *)
(* writer, with the status set on it and the body written to it, and the   *)
(* list of errors are what the layers share.                               *)
(***************************************************************************)
EXTENDS Integers

CONSTANT Reqs   \* the requests

VARIABLES found,   \* what main found at the start: MongoDB, Redis, the storage's configuration
          pc,      \* the layer each request is in
          req,     \* what the request asks, and the token it carries
          status,  \* the status set on the writer
          body,    \* what has been written to it
          sentAt,  \* the header has gone out: the status can no longer change
          err,     \* the status of the last error attached, 0 for none
          aborted, \* the rest of the chain is skipped
          line,    \* the status in the log line of the request, 0 without a line
          ran,     \* history: the handler ran
          panicked \* history: a handler or a guard panicked

writer == <<status, body, sentAt>>
vars == <<found, pc, req, writer, err, aborted, line, ran, panicked>>

(* The routes of the features, by the guard in front of their handlers. *)
Routes == {<<"health", "open">>, <<"auth", "open">>, <<"auth", "bearer">>, <<"uploads", "open">>,
           <<"uploads", "bearer">>, <<"share", "open">>, <<"share", "limit">>}
Tokens == {"none", "valid", "expired", "forged", "malformed"}
Requests == [options : BOOLEAN, route : Routes, token : Tokens]

Services == {"mongo", "redis", "storage"}
Refusals == {400, 401, 403, 404, 409, 413, 500}   \* the errors that handlers attach

TypeOK ==
    /\ found \in SUBSET Services
    /\ pc \in [Reqs -> {"idle", "cors", "guard", "handler", "log", "translate", "panic",
                        "flush", "done"}]
    /\ req \in [Reqs -> Requests]
    /\ status \in [Reqs -> {200, 201, 204, 429} \cup Refusals]
    /\ body \in [Reqs -> {"none", "data", "error"}]
    /\ sentAt \in [Reqs -> BOOLEAN]
    /\ err \in [Reqs -> {0, 429} \cup Refusals]
    /\ aborted \in [Reqs -> BOOLEAN]
    /\ line \in [Reqs -> {0, 200, 201, 204, 429} \cup Refusals]
    /\ ran \in [Reqs -> BOOLEAN]
    /\ panicked \in [Reqs -> BOOLEAN]

Init ==
    /\ found \in SUBSET Services
    /\ pc = [r \in Reqs |-> "idle"]
    /\ req \in [Reqs -> Requests]
    /\ status = [r \in Reqs |-> 200]
    /\ body = [r \in Reqs |-> "none"]
    /\ sentAt = [r \in Reqs |-> FALSE]
    /\ err = [r \in Reqs |-> 0]
    /\ aborted = [r \in Reqs |-> FALSE]
    /\ line = [r \in Reqs |-> 0]
    /\ ran = [r \in Reqs |-> FALSE]
    /\ panicked = [r \in Reqs |-> FALSE]

Feature(r) == req[r].route[1]
Guard(r) == req[r].route[2]

(* buildDeps: what each feature needs. *)
Needs == [health |-> {}, auth |-> {"mongo", "redis"},
          uploads |-> {"mongo", "storage"}, share |-> Services]
Wired(feature) == Needs[feature] \subseteq found

(* auth is mounted in any case, the other features only when they are wired. *)
Mounted(r) == Feature(r) = "auth" \/ Wired(Feature(r))

Goto(r, from, to) == pc[r] = from /\ pc' = [pc EXCEPT ![r] = to]
SetStatus(r, s) == status' = [status EXCEPT ![r] = s]

(* A body goes out with the status. *)
Write(r, s, b) ==
    /\ SetStatus(r, s)
    /\ body' = [body EXCEPT ![r] = b]
    /\ sentAt' = [sentAt EXCEPT ![r] = TRUE]

Attach(r, s) == err' = [err EXCEPT ![r] = s]
Panic(r, from) == Goto(r, from, "panic") /\ panicked' = [panicked EXCEPT ![r] = TRUE]

-----------------------------------------------------------------------------
(* On the way in *)

(* Recovery, ErrorHandler, RequestID, RequestLog and the security headers do *)
(* nothing to the response but set headers.                                  *)
Arrive(r) ==
    /\ Goto(r, "idle", "cors")
    /\ UNCHANGED <<found, req, writer, err, aborted, line, ran, panicked>>

(* An OPTIONS request is answered here, whatever its route. *)
Preflight(r) ==
    /\ req[r].options
    /\ Goto(r, "cors", "log")
    /\ SetStatus(r, 204)
    /\ sentAt' = [sentAt EXCEPT ![r] = TRUE]
    /\ aborted' = [aborted EXCEPT ![r] = TRUE]
    /\ UNCHANGED <<found, req, body, err, line, ran, panicked>>

CorsPass(r) ==
    /\ ~req[r].options
    /\ Goto(r, "cors", "guard")
    /\ UNCHANGED <<found, req, writer, err, aborted, line, ran, panicked>>

NoRoute(r) ==
    /\ ~Mounted(r)
    /\ Goto(r, "guard", "log")
    /\ Write(r, 404, "error")
    /\ UNCHANGED <<found, req, err, aborted, line, ran, panicked>>

Refuse(r, s) ==
    /\ Goto(r, "guard", "log")
    /\ Attach(r, s)
    /\ aborted' = [aborted EXCEPT ![r] = TRUE]
    /\ UNCHANGED <<found, req, writer, line, ran, panicked>>

(* Without the signer, a token that parses is a nil dereference. *)
NoSigner(r) == Feature(r) = "auth" /\ ~Wired("auth")

(* Mutant of BearerRefused: the error is attached, the chain goes on. *)
BearerRefusedOnly(r) ==
    /\ Mounted(r) /\ Guard(r) = "bearer"
    /\ \/ req[r].token \in {"none", "malformed"}
       \/ req[r].token \in {"expired", "forged"} /\ ~NoSigner(r)
    /\ Goto(r, "guard", "handler")
    /\ Attach(r, 401)
    /\ UNCHANGED <<found, req, writer, aborted, line, ran, panicked>>

BearerRefused(r) ==
    /\ Mounted(r) /\ Guard(r) = "bearer"
    /\ \/ req[r].token \in {"none", "malformed"}
       \/ req[r].token \in {"expired", "forged"} /\ ~NoSigner(r)
    /\ Refuse(r, 401)

BearerPanic(r) ==
    /\ Mounted(r) /\ Guard(r) = "bearer"
    /\ req[r].token \in {"valid", "expired", "forged"} /\ NoSigner(r)
    /\ Panic(r, "guard")
    /\ UNCHANGED <<found, req, writer, err, aborted, line, ran>>

(* Mutant of Throttle: another status than the one the limiter is known by. *)
ThrottleUnavailable(r) == Mounted(r) /\ Guard(r) = "limit" /\ Refuse(r, 503)

Throttle(r) == Mounted(r) /\ Guard(r) = "limit" /\ Refuse(r, 429)

GuardPass(r) ==
    /\ Mounted(r)
    /\ Guard(r) = "bearer" => req[r].token = "valid" /\ ~NoSigner(r)
    /\ Goto(r, "guard", "handler")
    /\ UNCHANGED <<found, req, writer, err, aborted, line, ran, panicked>>

-----------------------------------------------------------------------------
(* The handlers: data, a status without a body (logout), or an error attached; *)
(* without its dependencies, auth has only the validation of the body.         *)
Handler(r) ==
    /\ Goto(r, "handler", "log")
    /\ ran' = [ran EXCEPT ![r] = TRUE]
    /\ \/ \E s \in Refusals :
             /\ Feature(r) # "health" /\ (NoSigner(r) => s = 400)
             /\ Attach(r, s) /\ UNCHANGED writer
       \/ ~NoSigner(r) /\ \E s \in {200, 201} : Write(r, s, "data") /\ UNCHANGED err
       \/ ~NoSigner(r) /\ Feature(r) = "auth" /\ SetStatus(r, 204) /\ UNCHANGED <<body, sentAt, err>>
    /\ UNCHANGED <<found, req, aborted, line, panicked>>

HandlerPanic(r) ==
    /\ NoSigner(r)
    /\ Panic(r, "handler")
    /\ ran' = [ran EXCEPT ![r] = TRUE]
    /\ UNCHANGED <<found, req, writer, err, aborted, line>>

-----------------------------------------------------------------------------
(* On the way out *)

(* RequestLog reads the status that is set on the writer by now. *)
Log(r) ==
    /\ Goto(r, "log", "translate")
    /\ line' = [line EXCEPT ![r] = status[r]]
    /\ UNCHANGED <<found, req, writer, err, aborted, ran, panicked>>

(* Mutant of Translate: an aborted request is left alone. *)
TranslateUnlessAborted(r) ==
    /\ Goto(r, "translate", "flush")
    /\ IF err[r] # 0 /\ ~sentAt[r] /\ ~aborted[r] THEN Write(r, err[r], "error") ELSE UNCHANGED writer
    /\ UNCHANGED <<found, req, err, aborted, line, ran, panicked>>

(* ErrorHandler: the last error becomes the response, unless one went out. *)
Translate(r) ==
    /\ Goto(r, "translate", "flush")
    /\ IF err[r] # 0 /\ ~sentAt[r] THEN Write(r, err[r], "error") ELSE UNCHANGED writer
    /\ UNCHANGED <<found, req, err, aborted, line, ran, panicked>>

(* A panic unwinds past the log and the translation to Recovery. *)
Recover(r) ==
    /\ Goto(r, "panic", "flush")
    /\ IF sentAt[r] THEN UNCHANGED writer
       ELSE SetStatus(r, 500) /\ sentAt' = [sentAt EXCEPT ![r] = TRUE] /\ UNCHANGED body
    /\ aborted' = [aborted EXCEPT ![r] = TRUE]
    /\ UNCHANGED <<found, req, err, line, ran, panicked>>

(* What was only set goes out when the engine is done with the request. *)
Flush(r) ==
    /\ Goto(r, "flush", "done")
    /\ sentAt' = [sentAt EXCEPT ![r] = TRUE]
    /\ UNCHANGED <<found, req, status, body, err, aborted, line, ran, panicked>>

Handle(r) ==
    \/ Preflight(r) \/ CorsPass(r)
    \/ NoRoute(r) \/ BearerRefused(r) \/ BearerPanic(r) \/ Throttle(r) \/ GuardPass(r)
    \/ Handler(r) \/ HandlerPanic(r)
    \/ Log(r) \/ Translate(r) \/ Recover(r) \/ Flush(r)

Next == \E r \in Reqs : Arrive(r) \/ Handle(r)

Spec == Init /\ [][Next]_vars
-----------------------------------------------------------------------------
(* Properties *)

Done(r) == pc[r] = "done"

(* A failure is never answered as a success: an error that any layer attached *)
(* is the status the client gets, with the error envelope, though it is       *)
(* attached in one layer and written in another.                              *)
ErrorReachesClient ==
    \A r \in Reqs : Done(r) /\ err[r] # 0 => status[r] = err[r] /\ body[r] = "error"

(* A handler behind RequireAuth runs for a valid token only.  A feature whose  *)
(* dependencies are missing answers no data: none of its handlers runs but the *)
(* public ones of auth, and they get no further than the validation of the     *)
(* body.  Once a guard has refused a request nothing but the refusal is        *)
(* answered.                                                                   *)
NeverPastAGuard ==
    \A r \in Reqs :
        /\ ran[r] /\ Guard(r) = "bearer" => req[r].token = "valid"
        /\ ran[r] /\ ~Wired(Feature(r)) =>
              /\ req[r].route = <<"auth", "open">>
              /\ body[r] # "data" /\ (err[r] = 400 \/ panicked[r])
        /\ aborted[r] => body[r] # "data" /\ (ran[r] => panicked[r])

(* RequestLog "logs one line per request after it completes, with ... status": *)
(* the line has the status the client got.                                    *)
LoggedIsSent == \A r \in Reqs : Done(r) => line[r] = status[r]
=============================================================================
