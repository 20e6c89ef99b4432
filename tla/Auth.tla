--------------------------------- MODULE Auth ---------------------------------
(***************************************************************************)
(* The account and session operations of features/auth on top of the users *)
(* collection and SessionStore: register, login, refresh, logout, and the  *)
(* RevokeAll the store offers.  Each is a handler in a goroutine of its    *)
(* own, one step per call to MongoDB or Redis.  A client may send any      *)
(* token it was ever given, as often and as concurrently as it likes.      *)
(***************************************************************************)
EXTENDS SessionStore, FiniteSets

CONSTANTS Ops,        \* the requests
          Kinds,      \* which kinds of request the clients send
          Spellings,  \* the e-mail addresses clients type
          Lower,      \* normalizeEmail, from spellings to spellings
          seedMail,   \* the address of seedUser, as it is stored
          Faults,     \* which of FaultKinds may happen
          NoToken, NoMail

AllKinds == {"register", "login", "refresh", "logout", "revokeAll"}

(* A command is refused; it is applied and its answer is lost; the access *)
(* token cannot be signed; the process dies.                              *)
FaultKinds == {"refused", "ackLost", "sign", "crash"}

ASSUME AuthAssumption ==
    /\ Users = Ops \cup {seedUser}    \* a registration draws its account id
    /\ Kinds \subseteq AllKinds
    /\ Lower \in [Spellings -> Spellings]
    /\ \A s \in Spellings : Lower[Lower[s]] = Lower[s]
    /\ seedMail \in Spellings /\ Lower[seedMail] = seedMail
    /\ Faults \subseteq FaultKinds
    /\ NoToken \notin Tokens
    /\ NoMail \notin Spellings
    /\ seedUser \notin Ops

VARIABLES pc,      \* where the handler of each request is
          kind,    \* what each request asks for
          tok,     \* the token a request presents
          uid,     \* the account a request works for
          mail,    \* the normalized e-mail address of a request
          new,     \* the token a request has minted
          resp,    \* the status it was answered with, 0 before
          seen,    \* the hashes a RevokeAll has read
          email,   \* the users collection: the address of each account
          handed,  \* the tokens clients were given
          parent,  \* history: the token each token was minted from by a rotation
          ended,   \* history: the tokens a logout took
          before   \* history: the user's live tokens when a RevokeAll began

reqVars == <<kind, tok, uid, mail, new, seen, before>>
vars == <<storeVars, pc, resp, reqVars, email, handed, parent, ended>>

Steps == {"insert", "find", "create", "take", "unlist", "members", "drop", "reply"}
Statuses == {0, 200, 201, 204, 400, 401, 409, 500}

TypeOK ==
    /\ StoreTypeOK
    /\ pc \in [Ops -> Steps \cup {"idle", "done", "lost"}]
    /\ kind \in [Ops -> Kinds \cup {"none"}]
    /\ tok \in [Ops -> Tokens \cup {NoToken}]
    /\ uid \in [Ops -> Users \cup {NoUser}]
    /\ mail \in [Ops -> Spellings \cup {NoMail}]
    /\ new \in [Ops -> Tokens \cup {NoToken}]
    /\ resp \in [Ops -> Statuses]
    /\ seen \in [Ops -> SUBSET Tokens]
    /\ email \in [Users -> Spellings \cup {NoMail}]
    /\ handed \subseteq stored
    /\ parent \in [Tokens -> Tokens \cup {NoToken}]
    /\ ended \subseteq Tokens
    /\ before \in [Ops -> SUBSET Tokens]

Init ==
    /\ StoreInit
    /\ pc = [q \in Ops |-> "idle"]
    /\ kind = [q \in Ops |-> "none"]
    /\ tok = [q \in Ops |-> NoToken]
    /\ uid = [q \in Ops |-> NoUser]
    /\ mail = [q \in Ops |-> NoMail]
    /\ new = [q \in Ops |-> NoToken]
    /\ resp = [q \in Ops |-> 0]
    /\ seen = [q \in Ops |-> {}]
    /\ email = [u \in Users |-> IF u = seedUser THEN seedMail ELSE NoMail]
    /\ handed = Seeds
    /\ parent = [t \in Tokens |-> NoToken]
    /\ ended = {}
    /\ before = [q \in Ops |-> {}]

-----------------------------------------------------------------------------
(* Control of one handler. *)
Goto(q, from, to) == pc[q] = from /\ pc' = [pc EXCEPT ![q] = to]
Answer(q, from, status) == Goto(q, from, "done") /\ resp' = [resp EXCEPT ![q] = status]

(* An answered error changes nothing else. *)
Only(q, from, status) ==
    Answer(q, from, status) /\ UNCHANGED <<storeVars, reqVars, email, handed, parent, ended>>

(* The schema refuses the body, or a refresh its token of blanks. *)
Reject(q) == Only(q, "idle", 400) \/ Only(q, "idle", 401)

(* Mutant of BeginAccount: the address is stored and sought as it was typed. *)
BeginAccountAsTyped(q) ==
    /\ \E k \in Kinds \cap {"register", "login"}, s \in Spellings :
        /\ Goto(q, "idle", IF k = "register" THEN "insert" ELSE "find")
        /\ kind' = [kind EXCEPT ![q] = k]
        /\ mail' = [mail EXCEPT ![q] = s]
    /\ UNCHANGED <<storeVars, resp, tok, uid, new, seen, before, email, handed, parent, ended>>

(* The shape of the body was valid: the e-mail address is normalized. *)
BeginAccount(q) ==
    /\ \E k \in Kinds \cap {"register", "login"}, s \in Spellings :
        /\ Goto(q, "idle", IF k = "register" THEN "insert" ELSE "find")
        /\ kind' = [kind EXCEPT ![q] = k]
        /\ mail' = [mail EXCEPT ![q] = Lower[s]]
    /\ UNCHANGED <<storeVars, resp, tok, uid, new, seen, before, email, handed, parent, ended>>

(* A client presents any token it holds, live or not. *)
BeginToken(q) ==
    /\ \E k \in Kinds \cap {"refresh", "logout"}, t \in handed :
        /\ Goto(q, "idle", "take")
        /\ kind' = [kind EXCEPT ![q] = k]
        /\ tok' = [tok EXCEPT ![q] = t]
    /\ UNCHANGED <<storeVars, resp, uid, mail, new, seen, before, email, handed, parent, ended>>

BeginRevokeAll(q) ==
    /\ "revokeAll" \in Kinds
    /\ \E u \in {v \in Users : email[v] # NoMail} :
        /\ Goto(q, "idle", "members")
        /\ kind' = [kind EXCEPT ![q] = "revokeAll"]
        /\ uid' = [uid EXCEPT ![q] = u]
        /\ before' = [before EXCEPT ![q] = {t \in live : owner[t] = u}]
    /\ UNCHANGED <<storeVars, resp, tok, mail, new, seen, email, handed, parent, ended>>

-----------------------------------------------------------------------------
(* Accounts. *)
EmailTaken(m) == \E u \in Users : email[u] = m

InsertUser(q) ==
    /\ \/ /\ EmailTaken(mail[q])
          /\ Answer(q, "insert", 409)
          /\ UNCHANGED <<email, uid>>
       \/ /\ ~EmailTaken(mail[q])
          /\ email' = [email EXCEPT ![q] = mail[q]]
          /\ \/ /\ Goto(q, "insert", "create")
                /\ uid' = [uid EXCEPT ![q] = q]
                /\ UNCHANGED resp
             \/ "ackLost" \in Faults /\ Answer(q, "insert", 500) /\ UNCHANGED uid
    /\ UNCHANGED <<storeVars, kind, tok, mail, new, seen, before, handed, parent, ended>>

FindUser(q) ==
    /\ \/ /\ \E u \in Users : email[u] = mail[q] /\ uid' = [uid EXCEPT ![q] = u]
          /\ Goto(q, "find", "create")
          /\ UNCHANGED resp
       \/ Answer(q, "find", 401) /\ UNCHANGED uid   \* unknown, or the wrong password
    /\ UNCHANGED <<storeVars, kind, tok, mail, new, seen, before, email, handed, parent, ended>>

-----------------------------------------------------------------------------
(* Sessions. *)

(* Create: a rotation records which token the new one replaces. *)
Mint(q, t) ==
    /\ Stored(t, uid[q])
    /\ parent' = [parent EXCEPT ![t] = tok[q]]
    /\ UNCHANGED <<kind, tok, uid, mail, seen, before, email, handed, ended>>

Create(q) ==
    /\ Goto(q, "create", "reply")
    /\ \E t \in Tokens : Mint(q, t) /\ new' = [new EXCEPT ![q] = t]
    /\ UNCHANGED resp

(* The MULTI was executed, the client gets a 500: a session nobody holds. *)
CreateAckLost(q) ==
    /\ "ackLost" \in Faults
    /\ Answer(q, "create", 500)
    /\ \E t \in Tokens : Mint(q, t)
    /\ UNCHANGED new

(* GETDEL found the token: the user is known from its value. *)
Take(q) ==
    /\ Goto(q, "take", "unlist")
    /\ Taken(tok[q])
    /\ uid' = [uid EXCEPT ![q] = owner[tok[q]]]
    /\ ended' = IF kind[q] = "logout" THEN ended \cup {tok[q]} ELSE ended
    /\ UNCHANGED <<resp, kind, tok, mail, new, seen, before, email, handed, parent>>

(* GETDEL found nothing: a refresh is rejected, a logout is already done. *)
TakeMissing(q) ==
    /\ Answer(q, "take", IF kind[q] = "logout" THEN 204 ELSE 401)
    /\ Missing(tok[q])
    /\ UNCHANGED <<reqVars, email, handed, parent, ended>>

(* GETDEL took the token and the answer was lost: the client library may   *)
(* have sent the command again, and then it found nothing.                 *)
TakeAckLost(q) ==
    /\ "ackLost" \in Faults
    /\ \/ Answer(q, "take", 500)
       \/ Answer(q, "take", IF kind[q] = "logout" THEN 204 ELSE 401)
    /\ Taken(tok[q])
    /\ ended' = IF kind[q] = "logout" THEN ended \cup {tok[q]} ELSE ended
    /\ UNCHANGED <<reqVars, email, handed, parent>>

(* SREM, then a rotation goes on to create and a logout is done. *)
Unlist(q) ==
    /\ \/ kind[q] = "refresh" /\ Goto(q, "unlist", "create") /\ UNCHANGED resp
       \/ kind[q] = "logout" /\ Answer(q, "unlist", 204)
       \/ "ackLost" \in Faults /\ Answer(q, "unlist", 500)
    /\ Unlisted(tok[q], uid[q])
    /\ UNCHANGED <<reqVars, email, handed, parent, ended>>

(* SMEMBERS, then the MULTI that drops what it returned. *)
Members(q) ==
    /\ Goto(q, "members", "drop")
    /\ seen' = [seen EXCEPT ![q] = listed[uid[q]]]
    /\ UNCHANGED <<storeVars, resp, kind, tok, uid, mail, new, before, email, handed, parent, ended>>

Drop(q) ==
    /\ \/ Answer(q, "drop", 204)
       \/ "ackLost" \in Faults /\ Answer(q, "drop", 500)
    /\ Dropped(seen[q], uid[q])
    /\ UNCHANGED <<reqVars, email, handed, parent, ended>>

(* A call to MongoDB or Redis fails without effect: the handler stops there, *)
(* whatever it did before stays.                                             *)
Refused(q) ==
    /\ "refused" \in Faults
    /\ \E step \in Steps \ {"reply"} : Only(q, step, 500)

(* issue signs before it creates the session, Refresh after. *)
SignFails(q) ==
    /\ "sign" \in Faults
    /\ \/ kind[q] \in {"register", "login"} /\ Only(q, "create", 500)
       \/ kind[q] = "refresh" /\ Only(q, "reply", 500)

(* Mutant of Reply: a status the endpoints do not have. *)
ReplyAccepted(q) ==
    /\ Answer(q, "reply", 202)
    /\ handed' = handed \cup {new[q]}
    /\ UNCHANGED <<storeVars, reqVars, email, parent, ended>>

Reply(q) ==
    /\ Answer(q, "reply", IF kind[q] = "register" THEN 201 ELSE 200)
    /\ handed' = handed \cup {new[q]}
    /\ UNCHANGED <<storeVars, reqVars, email, parent, ended>>

-----------------------------------------------------------------------------
InFlight == {q \in Ops : pc[q] \in Steps}

Crash ==
    /\ "crash" \in Faults
    /\ InFlight # {}
    /\ pc' = [q \in Ops |-> IF q \in InFlight THEN "lost" ELSE pc[q]]
    /\ UNCHANGED <<storeVars, resp, reqVars, email, handed, parent, ended>>

Expire ==
    /\ \E d \in 0..turn : Expired(d)
    /\ UNCHANGED <<pc, resp, reqVars, email, handed, parent, ended>>

Begin(q) == Reject(q) \/ BeginAccount(q) \/ BeginToken(q) \/ BeginRevokeAll(q)

Handle(q) ==
    \/ InsertUser(q) \/ FindUser(q)
    \/ Create(q) \/ CreateAckLost(q)
    \/ Take(q) \/ TakeMissing(q) \/ TakeAckLost(q) \/ Unlist(q)
    \/ Members(q) \/ Drop(q)
    \/ Refused(q) \/ SignFails(q) \/ Reply(q)

Next == (\E q \in Ops : Begin(q) \/ Handle(q)) \/ Crash \/ Expire

Spec == Init /\ [][Next]_vars
-----------------------------------------------------------------------------
(* Properties *)

Successors(t) == {s \in Tokens : parent[s] = t}

(* However often and concurrently a token is presented, at most one rotation   *)
(* succeeds with it: the sessions of a login form a chain, and a replayed      *)
(* token forks none (session.Rotate).                                          *)
OneSuccessor == \A t \in Tokens : \A r, s \in Successors(t) : r = s

(* A token a logout took is never rotated, before or after, and a token whose  *)
(* logout was answered with 204 is dead (session.Revoke).                      *)
LogoutIsFinal ==
    /\ \A t \in ended : Successors(t) = {} /\ t \notin live
    /\ \A q \in Ops : kind[q] = "logout" /\ resp[q] = 204 => tok[q] \notin live

(* As long as nobody was revoked, the set of a user lists every live token of  *)
(* the user, whatever logins, rotations, errors and expiries went before: the  *)
(* premise of "revoke all is one op" (session.Create, Rotate, Revoke).  It     *)
(* takes a positive TTL, and a set that never runs out before its tokens.      *)
LiveIsListed ==
    Expiring => \A t \in live :
        (\A q \in Ops : kind[q] = "revokeAll" => uid[q] # owner[t]) => t \in listed[owner[t]]

(* One mailbox has one account, however its address is typed and however many  *)
(* registrations race (the unique index on the normalized address).            *)
OneAccountPerMailbox ==
    \A u, v \in Users :
        email[u] # NoMail /\ email[v] # NoMail /\ Lower[email[u]] = Lower[email[v]] => u = v

(* The first RevokeAll leaves none of the tokens the user had when it was      *)
(* called, whatever logins and rotations it races with.  (A second one may: a  *)
(* login between the SMEMBERS and the MULTI of the first has its hash deleted  *)
(* with the set, and its token is found by no later RevokeAll.)  The sets only *)
(* exist with a positive TTL.                                                  *)
FirstRevokeAllComplete ==
    Expiring => \A q \in Ops :
        /\ kind[q] = "revokeAll" /\ resp[q] = 204
        /\ \A p \in Ops \ {q} : kind[p] # "revokeAll"
        => before[q] \cap live = {}

(* Where each token is in its life, as a client may rely on it. *)
Rotations == {t \in Tokens : \E q \in Ops : tok[q] = t /\ kind[q] = "refresh" /\ pc[q] \in {"unlist", "create"}}
TokenStatus == [t \in Tokens |->
    IF t \notin stored THEN "unborn"
    ELSE IF t \in live THEN "active"
    ELSE IF t \in Rotations THEN "rotating" ELSE "over"]

(* A token is used once, for one end or for one successor, and what is over    *)
(* never comes back (Create, Rotate, Revoke and RevokeAll of internal/session).*)
Life == INSTANCE TokenLife WITH status <- TokenStatus
KeepsTokenLife == Life!Spec
================================================================================
