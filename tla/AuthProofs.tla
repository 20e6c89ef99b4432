----------------------------- MODULE AuthProofs -----------------------------
(***************************************************************************)
(* Proofs about Auth and SessionStore, for any requests, tokens, accounts  *)
(* and spellings, any kinds of request and any set of faults.              *)
(*                                                                         *)
(* The inductive invariant has four parts.  Control: what a handler knows  *)
(* at each of its steps.  Sessions: a token that was taken is in the hands *)
(* of one refresh, or of none, and a token was used once.  Accounts: the   *)
(* addresses are normalized and distinct.  Listing: a user's set has all   *)
(* live tokens until the user is revoked, and the first RevokeAll gets     *)
(* them all.  The steps are of three kinds for a token: GETDEL takes it,   *)
(* Create mints it, and every other step can only let it fade.             *)
(***************************************************************************)
EXTENDS Auth, TLAPS

(* A refresh that has taken its token and has not minted the next. *)
Refreshing(q) == kind[q] = "refresh" /\ pc[q] \in {"unlist", "create"}

(* Where the handler stands with a request. *)
Placed(q) ==
    /\ pc[q] = "idle" => kind[q] = "none"
    /\ kind[q] = "none" => pc[q] \in {"idle", "done"} /\ resp[q] # 204
    /\ resp[q] # 0 => pc[q] = "done"
    /\ pc[q] = "insert" => kind[q] = "register"
    /\ pc[q] = "find" => kind[q] = "login"
    /\ pc[q] \in {"take", "unlist"} => kind[q] \in {"refresh", "logout"}
    /\ pc[q] \in {"create", "reply"} => kind[q] \in {"register", "login", "refresh"}
    /\ pc[q] \in {"members", "drop"} => kind[q] = "revokeAll"
    /\ kind[q] = "revokeAll" \/ pc[q] \in {"unlist", "create", "reply"} => uid[q] \in Users
    /\ IF kind[q] \in {"refresh", "logout"} THEN tok[q] \in stored ELSE tok[q] = NoToken
    /\ pc[q] = "reply" => new[q] \in stored
    /\ pc[q] \in {"insert", "find"} => mail[q] \in Spellings /\ Lower[mail[q]] = mail[q]

Owners == \A t \in stored : owner[t] \in Users

(* A logout that has found its token, or found it gone. *)
Closed(q) == kind[q] = "logout" /\ (pc[q] = "unlist" \/ resp[q] = 204)

(* What a token is good for: a live one, and one not drawn yet, was never used; *)
(* one that a logout took has no successor; none has two.                       *)
Sound(t) ==
    /\ t \in live \/ t \notin stored => t \notin ended /\ \A s \in Tokens : parent[s] # t
    /\ t \notin stored => parent[t] = NoToken
    /\ t \in ended => \A s \in Tokens : parent[s] # t
    /\ \A r, s \in Tokens : parent[r] = t /\ parent[s] = t => r = s

(* The refresh that took a token is alone with it and has the right to its *)
(* successor; a logout that is past its GETDEL left no live token.         *)
Held(q) ==
    /\ Refreshing(q) =>
          /\ tok[q] \notin live /\ tok[q] \notin ended
          /\ \A s \in Tokens : parent[s] # tok[q]
          /\ \A p \in Ops : Refreshing(p) /\ tok[p] = tok[q] => p = q
    /\ Closed(q) => tok[q] \notin live

Sessions == (\A t \in Tokens : Sound(t)) /\ (\A q \in Ops : Held(q))

(* No key has a deadline that was not set yet. *)
Timed == \A t \in Tokens : due[t] <= turn

Control == TypeOK /\ Owners /\ Timed /\ \A q \in Ops : Placed(q)

-----------------------------------------------------------------------------
(* The initial states have the control state right. *)
LEMMA InitControl == Init => Control
<1> SUFFICES ASSUME Init PROVE Control
  OBVIOUS
<1> USE AuthAssumption, SessionAssumption DEF Init, StoreInit
<1>1. TypeOK  BY DEF TypeOK, StoreTypeOK, Statuses
<1>2. Owners  BY DEF Owners
<1>3. \A q \in Ops : Placed(q)  BY DEF Placed
<1>4. Timed
  <2>1. ASSUME NEW t \in Tokens PROVE due[t] = 0 /\ turn = 0  OBVIOUS
  <2>2. 0 <= 0  OBVIOUS
  <2>3. ASSUME NEW t \in Tokens PROVE due[t] <= turn
    <3> HIDE DEF Init, StoreInit
    <3>1. due[t] = 0 /\ turn = 0  BY <2>1
    <3> QED BY <2>2, <3>1
  <2> QED BY <2>3 DEF Timed
<1> QED BY <1>1, <1>2, <1>3, <1>4 DEF Control

(* No step leaves the types, and every token that is stored has its user. *)
LEMMA NextType == Control /\ [Next]_vars => TypeOK' /\ Owners'
<1> SUFFICES ASSUME Control, [Next]_vars PROVE TypeOK' /\ Owners'
  OBVIOUS
<1> USE AuthAssumption DEF TypeOK, StoreTypeOK, Owners, Goto, Answer, Only, Steps, Statuses,
        storeVars, dues, reqVars
<1>0. TypeOK /\ Owners /\ \A q \in Ops : Placed(q)  BY DEF Control
<1>1. ASSUME NEW q \in Ops, NEW s \in Steps \cup {"idle"}, NEW n \in Statuses, Only(q, s, n)
      PROVE  TypeOK' /\ Owners'
  BY <1>0, <1>1
<1>2. ASSUME NEW q \in Ops, Reject(q) \/ Refused(q) \/ SignFails(q) PROVE TypeOK' /\ Owners'
  <2>1. \E s \in Steps \cup {"idle"}, n \in Statuses : Only(q, s, n)
    <3> HIDE DEF Only, TypeOK, StoreTypeOK
    <3> QED BY <1>2 DEF Reject, Refused, SignFails
  <2> HIDE DEF Only, TypeOK, Owners
  <2> QED BY <1>1, <2>1
<1>3. ASSUME NEW q \in Ops, BeginAccount(q) PROVE TypeOK' /\ Owners'
  BY <1>0, <1>3 DEF BeginAccount
<1>4. ASSUME NEW q \in Ops, BeginToken(q) PROVE TypeOK' /\ Owners'
  BY <1>0, <1>4 DEF BeginToken
<1>5. ASSUME NEW q \in Ops, BeginRevokeAll(q) PROVE TypeOK' /\ Owners'
  BY <1>0, <1>5 DEF BeginRevokeAll
<1>6. ASSUME NEW q \in Ops, InsertUser(q) PROVE TypeOK' /\ Owners'
  <2>1. mail[q] \in Spellings \cup {NoMail} /\ q \in Users  BY <1>0
  <2>2. UNCHANGED <<storeVars, kind, tok, mail, new, seen, before, handed, parent, ended>>
    BY <1>6 DEF InsertUser
  <2>3. /\ pc' \in [Ops -> Steps \cup {"idle", "done", "lost"}]
        /\ resp' \in [Ops -> Statuses]
        /\ uid' \in [Ops -> Users \cup {NoUser}]
        /\ email' \in [Users -> Spellings \cup {NoMail}]
    <3> HIDE DEF StoreTypeOK, Owners
    <3> QED BY <1>0, <1>6, <2>1 DEF InsertUser
  <2> QED BY <1>0, <2>2, <2>3
<1>7. ASSUME NEW q \in Ops, FindUser(q) PROVE TypeOK' /\ Owners'
  BY <1>0, <1>7 DEF FindUser
<1>8. ASSUME NEW q \in Ops, NEW t \in Tokens, pc[q] = "create", Mint(q, t)
      PROVE  /\ StoreTypeOK' /\ Owners' /\ handed' \subseteq stored'
             /\ parent' \in [Tokens -> Tokens \cup {NoToken}]
  <2>1. uid[q] \in Users /\ tok[q] \in Tokens \cup {NoToken}  BY <1>0, <1>8 DEF Placed
  <2> QED BY <1>0, <1>8, <2>1 DEF Mint, Stored, Keyed
<1>9. ASSUME NEW q \in Ops, Create(q) PROVE TypeOK' /\ Owners'
  <2>1. PICK t \in Tokens :
             /\ pc[q] = "create" /\ Mint(q, t)
             /\ new' \in [Ops -> Tokens \cup {NoToken}]
    BY <1>0, <1>9 DEF Create
  <2>2. /\ StoreTypeOK' /\ Owners' /\ handed' \subseteq stored'
        /\ parent' \in [Tokens -> Tokens \cup {NoToken}]
    <3> HIDE DEF StoreTypeOK, Owners, TypeOK
    <3> QED BY <1>8, <2>1
  <2>3. UNCHANGED <<kind, tok, uid, mail, seen, before, email, ended>>  BY <2>1 DEF Mint
  <2>4. /\ pc' \in [Ops -> Steps \cup {"idle", "done", "lost"}]
        /\ resp' \in [Ops -> Statuses]
    BY <1>0, <1>9 DEF Create
  <2> HIDE DEF StoreTypeOK, Owners
  <2> QED BY <1>0, <2>1, <2>2, <2>3, <2>4
<1>10. ASSUME NEW q \in Ops, CreateAckLost(q) PROVE TypeOK' /\ Owners'
  <2>1. PICK t \in Tokens :
             /\ pc[q] = "create" /\ Mint(q, t)
             /\ new' \in [Ops -> Tokens \cup {NoToken}]
    BY <1>0, <1>10 DEF CreateAckLost
  <2>2. /\ StoreTypeOK' /\ Owners' /\ handed' \subseteq stored'
        /\ parent' \in [Tokens -> Tokens \cup {NoToken}]
    <3> HIDE DEF StoreTypeOK, Owners, TypeOK
    <3> QED BY <1>8, <2>1
  <2>3. UNCHANGED <<kind, tok, uid, mail, seen, before, email, ended>>  BY <2>1 DEF Mint
  <2>4. /\ pc' \in [Ops -> Steps \cup {"idle", "done", "lost"}]
        /\ resp' \in [Ops -> Statuses]
    BY <1>0, <1>10 DEF CreateAckLost
  <2> HIDE DEF StoreTypeOK, Owners
  <2> QED BY <1>0, <2>1, <2>2, <2>3, <2>4
<1>11. ASSUME NEW q \in Ops, Take(q) PROVE TypeOK' /\ Owners'
  BY <1>0, <1>11 DEF Take, Taken
<1>12. ASSUME NEW q \in Ops, TakeMissing(q) PROVE TypeOK' /\ Owners'
  BY <1>0, <1>12 DEF TakeMissing, Missing
<1>13. ASSUME NEW q \in Ops, TakeAckLost(q) PROVE TypeOK' /\ Owners'
  BY <1>0, <1>13 DEF TakeAckLost, Taken
<1>14. ASSUME NEW q \in Ops, Unlist(q) PROVE TypeOK' /\ Owners'
  <2>1. Unlisted(tok[q], uid[q])  BY <1>14 DEF Unlist
  <2>2. listed' \in [Users -> SUBSET Tokens]
    <3>1. listed \in [Users -> SUBSET Tokens]  BY <1>0
    <3>2. listed' = [listed EXCEPT ![uid[q]] = listed[uid[q]] \ {tok[q]}]
      BY <2>1 DEF Unlisted
    <3> QED BY <3>1, <3>2
  <2>3. StoreTypeOK' /\ Owners' /\ stored' = stored  BY <1>0, <2>1, <2>2 DEF Unlisted
  <2>4. /\ pc' \in [Ops -> Steps \cup {"idle", "done", "lost"}]
        /\ resp' \in [Ops -> Statuses]
    <3> HIDE DEF StoreTypeOK, Owners, AuthAssumption
    <3> QED BY <1>0, <1>14 DEF Unlist
  <2>5. UNCHANGED <<reqVars, email, handed, parent, ended>>  BY <1>14 DEF Unlist
  <2> HIDE DEF StoreTypeOK, Owners
  <2> QED BY <1>0, <2>3, <2>4, <2>5
<1>15. ASSUME NEW q \in Ops, Members(q) PROVE TypeOK' /\ Owners'
  <2>1. listed[uid[q]] \in SUBSET Tokens
    BY <1>0, <1>15 DEF Members, Placed
  <2> QED BY <1>0, <1>15, <2>1 DEF Members
<1>16. ASSUME NEW q \in Ops, Drop(q) PROVE TypeOK' /\ Owners'
  <2>1. StoreTypeOK' /\ Owners' /\ stored' = stored  BY <1>0, <1>16 DEF Drop, Dropped
  <2>2. /\ pc' \in [Ops -> Steps \cup {"idle", "done", "lost"}]
        /\ resp' \in [Ops -> Statuses]
    <3> HIDE DEF StoreTypeOK, Owners, AuthAssumption
    <3> QED BY <1>0, <1>16 DEF Drop
  <2>3. UNCHANGED <<reqVars, email, handed, parent, ended>>  BY <1>16 DEF Drop
  <2> HIDE DEF StoreTypeOK, Owners
  <2> QED BY <1>0, <2>1, <2>2, <2>3
<1>17. ASSUME NEW q \in Ops, Reply(q) PROVE TypeOK' /\ Owners'
  BY <1>0, <1>17 DEF Reply, Placed
<1>18. CASE Crash  BY <1>0, <1>18 DEF Crash
<1>19. CASE Expire  BY <1>0, <1>19 DEF Expire, Expired
<1>20. CASE UNCHANGED vars  BY <1>0, <1>20 DEF vars
<1> QED
  BY <1>2, <1>3, <1>4, <1>5, <1>6, <1>7, <1>9, <1>10, <1>11, <1>12, <1>13, <1>14, <1>15,
     <1>16, <1>17, <1>18, <1>19, <1>20
  DEF Next, Begin, Handle

(* Deadlines are set in order. *)
LEMMA NextTimed == Control /\ [Next]_vars => Timed'
<1> SUFFICES ASSUME Control, [Next]_vars PROVE Timed'
  OBVIOUS
<1>0. Timed /\ due \in [Tokens -> Nat] /\ turn \in Nat
  BY DEF Control, TypeOK, StoreTypeOK
<1>1. CASE UNCHANGED dues  BY <1>0, <1>1 DEF dues, Timed
<1>2. ASSUME NEW q \in Ops, NEW t \in Tokens, Mint(q, t) PROVE Timed'
  BY <1>0, <1>2 DEF Mint, Stored, Keyed, Timed
<1> QED
  BY <1>1, <1>2
  DEF Next, Begin, Handle, Reject, Only, BeginAccount, BeginToken, BeginRevokeAll, InsertUser,
      FindUser, Create, CreateAckLost, Take, Taken, TakeMissing, Missing, TakeAckLost, Unlist,
      Unlisted, Members, Drop, Dropped, Refused, SignFails, Reply, Crash, Expire, Expired,
      vars, storeVars

(* No step misplaces a request. *)
LEMMA NextPlaced == Control /\ [Next]_vars => \A p \in Ops : Placed(p)'
<1> SUFFICES ASSUME Control, [Next]_vars, NEW p \in Ops PROVE Placed(p)'
  OBVIOUS
<1>0. TypeOK /\ Owners /\ Placed(p)  BY DEF Control
<1> USE AuthAssumption DEF Placed, Goto, Answer, Steps, storeVars, dues, reqVars
<1>1. ASSUME NEW q \in Ops, NEW s \in Steps \cup {"idle"}, NEW n \in {400, 401, 500}, Only(q, s, n)
      PROVE  Placed(p)'
  BY <1>0, <1>1 DEF Only, TypeOK
<1>2. ASSUME NEW q \in Ops, Reject(q) \/ Refused(q) \/ SignFails(q) PROVE Placed(p)'
  <2>1. \E s \in Steps \cup {"idle"}, n \in {400, 401, 500} : Only(q, s, n)
    <3> HIDE DEF Placed, Goto, Answer
    <3> QED BY <1>2 DEF Reject, Refused, SignFails
  <2> HIDE DEF Placed
  <2> QED BY <1>1, <2>1
<1>3. ASSUME NEW q \in Ops, BeginAccount(q) PROVE Placed(p)'
  BY <1>0, <1>3 DEF BeginAccount, TypeOK
<1>4. ASSUME NEW q \in Ops, BeginToken(q) PROVE Placed(p)'
  BY <1>0, <1>4 DEF BeginToken, TypeOK
<1>5. ASSUME NEW q \in Ops, BeginRevokeAll(q) PROVE Placed(p)'
  BY <1>0, <1>5 DEF BeginRevokeAll, TypeOK
<1>6. ASSUME NEW q \in Ops, InsertUser(q) PROVE Placed(p)'
  BY <1>0, <1>6 DEF InsertUser, TypeOK
<1>7. ASSUME NEW q \in Ops, FindUser(q) PROVE Placed(p)'
  BY <1>0, <1>7 DEF FindUser, TypeOK
<1>8. ASSUME NEW q \in Ops, Create(q) PROVE Placed(p)'
  BY <1>0, <1>8 DEF Create, Mint, Stored, Keyed, TypeOK
<1>9. ASSUME NEW q \in Ops, CreateAckLost(q) PROVE Placed(p)'
  BY <1>0, <1>9 DEF CreateAckLost, Mint, Stored, Keyed, TypeOK
<1>10. ASSUME NEW q \in Ops, Take(q) PROVE Placed(p)'
  BY <1>0, <1>10 DEF Take, Taken, TypeOK, StoreTypeOK, Owners
<1>11. ASSUME NEW q \in Ops, TakeMissing(q) \/ TakeAckLost(q) PROVE Placed(p)'
  BY <1>0, <1>11 DEF TakeMissing, Missing, TakeAckLost, Taken, TypeOK
<1>12. ASSUME NEW q \in Ops, Unlist(q) PROVE Placed(p)'
  BY <1>0, <1>12 DEF Unlist, Unlisted, TypeOK
<1>13. ASSUME NEW q \in Ops, Members(q) PROVE Placed(p)'
  BY <1>0, <1>13 DEF Members, TypeOK
<1>14. ASSUME NEW q \in Ops, Drop(q) PROVE Placed(p)'
  BY <1>0, <1>14 DEF Drop, Dropped, TypeOK
<1>15. ASSUME NEW q \in Ops, Reply(q) PROVE Placed(p)'
  BY <1>0, <1>15 DEF Reply, TypeOK
<1>16. CASE Crash  BY <1>0, <1>16 DEF Crash, InFlight, TypeOK
<1>17. CASE Expire  BY <1>0, <1>17 DEF Expire, Expired
<1>18. CASE UNCHANGED vars  BY <1>0, <1>18 DEF vars
<1> QED
  BY <1>2, <1>3, <1>4, <1>5, <1>6, <1>7, <1>8, <1>9, <1>10, <1>11, <1>12, <1>13, <1>14, <1>15,
     <1>16, <1>17, <1>18
  DEF Next, Begin, Handle

-----------------------------------------------------------------------------
(* Tokens *)

(* A step that uses no token: it may let some die, or give up a rotation. *)
Fading ==
    /\ live' \subseteq live
    /\ UNCHANGED <<stored, owner, parent, ended>>
    /\ \A p \in Ops : /\ Refreshing(p)' => Refreshing(p) /\ tok'[p] = tok[p]
                      /\ Closed(p)' => tok'[p] \notin live \/ (Closed(p) /\ tok'[p] = tok[p])

(* Every step fades, presents a token to GETDEL, or mints one. *)
LEMMA StepKinds ==
  ASSUME Control, [Next]_vars
  PROVE  \/ Fading
         \/ \E q \in Ops : Take(q) \/ TakeAckLost(q)
         \/ \E q \in Ops : Create(q) \/ CreateAckLost(q)
<1> USE DEF Fading, Refreshing, Closed, Goto, Answer, storeVars, dues, reqVars, TypeOK
<1>0. TypeOK /\ \A q \in Ops : Placed(q)  BY DEF Control
<1>1. ASSUME NEW q \in Ops, NEW s \in Steps \cup {"idle"}, NEW n \in {400, 401, 500}, Only(q, s, n)
      PROVE  Fading
  BY <1>0, <1>1 DEF Only
<1>2. ASSUME NEW q \in Ops, Reject(q) \/ Refused(q) \/ SignFails(q) PROVE Fading
  <2>1. \E s \in Steps \cup {"idle"}, n \in {400, 401, 500} : Only(q, s, n)
    <3> HIDE DEF Fading, TypeOK, Goto, Answer
    <3> QED BY <1>2 DEF Reject, Refused, SignFails, Steps
  <2> HIDE DEF Fading
  <2> QED BY <1>1, <2>1
<1>3. ASSUME NEW q \in Ops, BeginAccount(q) \/ BeginToken(q) \/ BeginRevokeAll(q) PROVE Fading
  BY <1>0, <1>3 DEF BeginAccount, BeginToken, BeginRevokeAll, Placed
<1>4. ASSUME NEW q \in Ops, InsertUser(q) \/ FindUser(q) PROVE Fading
  BY <1>0, <1>4 DEF InsertUser, FindUser, Placed
<1>5. ASSUME NEW q \in Ops, TakeMissing(q) PROVE Fading
  BY <1>0, <1>5 DEF TakeMissing, Missing
<1>6. ASSUME NEW q \in Ops, Unlist(q) PROVE Fading
  BY <1>0, <1>6 DEF Unlist, Unlisted
<1>7. ASSUME NEW q \in Ops, Members(q) \/ Drop(q) PROVE Fading
  BY <1>0, <1>7 DEF Members, Drop, Dropped, Placed
<1>8. ASSUME NEW q \in Ops, Reply(q) PROVE Fading
  BY <1>0, <1>8 DEF Reply, Placed
<1>9. CASE Crash  BY <1>0, <1>9 DEF Crash, InFlight
<1>10. CASE Expire  BY <1>0, <1>10 DEF Expire, Expired
<1>11. CASE UNCHANGED vars  BY <1>0, <1>11 DEF vars
<1> HIDE DEF Fading
<1> QED
  BY <1>2, <1>3, <1>4, <1>5, <1>6, <1>7, <1>8, <1>9, <1>10, <1>11 DEF Next, Begin, Handle

(* A token that fades was not used, and needs no proof that it was. *)
LEMMA FadingSessions == Sessions /\ Fading => Sessions'
<1> SUFFICES ASSUME Sessions, Fading PROVE Sessions'
  OBVIOUS
<1>1. ASSUME NEW t \in Tokens PROVE Sound(t)'
  BY <1>1 DEF Sessions, Fading, Sound
<1>2. ASSUME NEW q \in Ops PROVE Held(q)'
  BY <1>2 DEF Sessions, Fading, Held
<1> QED BY <1>1, <1>2 DEF Sessions

(* GETDEL of a live token: no other refresh holds it, and none ever will. *)
LEMMA TakeSessions ==
  ASSUME Control, Sessions, NEW q \in Ops, Take(q) \/ TakeAckLost(q)
  PROVE  Sessions'
<1> USE DEF Goto, Answer, reqVars, Taken
<1>0. /\ TypeOK /\ Placed(q) /\ \A p \in Ops : Held(p)
      /\ \A t \in Tokens : Sound(t)
  BY DEF Control, Sessions
<1>1. /\ pc[q] = "take" /\ kind[q] \in {"refresh", "logout"} /\ tok[q] \in live
      /\ live' = live \ {tok[q]} /\ UNCHANGED <<stored, parent, tok, kind>>
      /\ ended' = IF kind[q] = "logout" THEN ended \cup {tok[q]} ELSE ended
      /\ \A p \in Ops \ {q} : pc'[p] = pc[p] /\ resp'[p] = resp[p]
  BY <1>0 DEF Take, TakeAckLost, Placed, TypeOK
<1>2. tok[q] \in Tokens /\ tok[q] \in stored  BY <1>0, <1>1 DEF TypeOK, StoreTypeOK
<1>3. Sound(tok[q])  BY <1>0, <1>2
<1>4. ASSUME NEW t \in Tokens PROVE Sound(t)'
  BY <1>0, <1>1, <1>2, <1>3, <1>4 DEF Sound
<1>5. \A p \in Ops \ {q} : ~(Refreshing(p) /\ tok[p] = tok[q])
  BY <1>0, <1>1 DEF Held
<1>6. \A p \in Ops \ {q} : /\ Refreshing(p)' <=> Refreshing(p)
                           /\ Closed(p)' <=> Closed(p)
  BY <1>1 DEF Refreshing, Closed
<1>7. Refreshing(q)' => kind[q] = "refresh"  BY <1>1 DEF Refreshing
<1>8. Held(q)'  BY <1>1, <1>3, <1>5, <1>6, <1>7 DEF Held, Sound
<1>9. ASSUME NEW p \in Ops \ {q} PROVE Held(p)'
  BY <1>0, <1>1, <1>5, <1>6, <1>9 DEF Held
<1> QED BY <1>4, <1>8, <1>9 DEF Sessions

(* Create: the rotation spends its right, the new token is fresh. *)
LEMMA CreateSessions ==
  ASSUME Control, Sessions, NEW q \in Ops, Create(q) \/ CreateAckLost(q)
  PROVE  Sessions'
<1> USE DEF Goto, Answer, reqVars, Mint, Stored, Keyed
<1>0. /\ TypeOK /\ Placed(q) /\ \A p \in Ops : Held(p)
      /\ \A t \in Tokens : Sound(t)
  BY DEF Control, Sessions
<1>1. PICK n \in Tokens :
           /\ n \notin stored /\ live' = live \cup {n} /\ stored' = stored \cup {n}
           /\ parent' = [parent EXCEPT ![n] = tok[q]]
  BY DEF Create, CreateAckLost
<1>2. /\ pc[q] = "create" /\ kind[q] \in {"register", "login", "refresh"}
      /\ UNCHANGED <<tok, kind, ended>> /\ pc'[q] \in {"reply", "done"}
      /\ \A p \in Ops \ {q} : pc'[p] = pc[p] /\ resp'[p] = resp[p]
  BY <1>0 DEF Create, CreateAckLost, Placed, TypeOK
<1>3. \A p \in Ops : tok[p] \in Tokens => tok[p] # n
  <2>1. \A p \in Ops : tok[p] \in Tokens => tok[p] \in stored
    BY AuthAssumption DEF Control, Placed
  <2> QED BY <1>1, <2>1
<1>4. /\ kind[q] = "refresh" => /\ tok[q] \in stored /\ tok[q] \notin live /\ tok[q] \notin ended
                                /\ \A s \in Tokens : parent[s] # tok[q]
      /\ kind[q] # "refresh" => tok[q] = NoToken
  BY <1>0, <1>2 DEF Held, Refreshing, Placed
<1>5. \A s \in Tokens : parent'[s] = IF s = n THEN tok[q] ELSE parent[s]
  BY <1>0, <1>1 DEF TypeOK
<1>6. ASSUME NEW t \in Tokens PROVE Sound(t)'
  <2>1. Sound(t) /\ Sound(n) /\ NoToken \notin Tokens  BY <1>0, AuthAssumption
  <2> QED BY <1>1, <1>2, <1>4, <1>5, <2>1 DEF Sound
<1>7. \A p \in Ops \ {q} : /\ Refreshing(p)' <=> Refreshing(p)
                           /\ Closed(p)' <=> Closed(p)
  BY <1>2 DEF Refreshing, Closed
<1>8. ~Refreshing(q)' /\ ~Closed(q)'  BY <1>2 DEF Refreshing, Closed
<1>9. ASSUME NEW p \in Ops \ {q} PROVE Held(p)'
  <2>1. Held(p) /\ Held(q) /\ Placed(p) /\ NoToken \notin Tokens
    BY <1>0, <1>9, AuthAssumption DEF Control
  <2>2. Refreshing(p) \/ Closed(p) => tok[p] \in Tokens
    BY <1>0, <2>1 DEF Placed, Refreshing, Closed, TypeOK, StoreTypeOK
  <2>3. Refreshing(p) => tok[p] # tok[q]
    BY <1>2, <1>4, <2>1, <2>2 DEF Held, Refreshing
  <2> QED BY <1>1, <1>2, <1>3, <1>5, <1>7, <1>8, <1>9, <2>1, <2>2, <2>3 DEF Held
<1> QED BY <1>6, <1>8, <1>9 DEF Sessions, Held

-----------------------------------------------------------------------------
(* Accounts *)

(* An address is stored as normalizeEmail leaves it, and once. *)
Accounts ==
    /\ \A u \in Users : email[u] # NoMail => Lower[email[u]] = email[u]
    /\ \A u, v \in Users : email[u] # NoMail /\ email[u] = email[v] => u = v

(* The unique index keeps the addresses apart. *)
LEMMA NextAccounts == Control /\ Accounts /\ [Next]_vars => Accounts'
<1> SUFFICES ASSUME Control, Accounts, [Next]_vars PROVE Accounts'
  OBVIOUS
<1>1. ASSUME NEW q \in Ops, InsertUser(q) PROVE Accounts'
  <2>1. q \in Users /\ Lower[mail[q]] = mail[q] /\ email \in [Users -> Spellings \cup {NoMail}]
    BY <1>1, AuthAssumption DEF InsertUser, Control, TypeOK, Placed, Answer, Goto
  <2>2. \/ email' = email
        \/ ~EmailTaken(mail[q]) /\ email' = [email EXCEPT ![q] = mail[q]]
    BY <1>1 DEF InsertUser
  <2> QED BY <2>1, <2>2 DEF Accounts, EmailTaken
<1>2. ASSUME UNCHANGED email PROVE Accounts'
  BY <1>2 DEF Accounts
<1> QED
  BY <1>1, <1>2
  DEF Next, Begin, Handle, Reject, Only, BeginAccount, BeginToken, BeginRevokeAll, FindUser,
      Create, CreateAckLost, Mint, Take, TakeMissing, TakeAckLost, Unlist, Members, Drop,
      Refused, SignFails, Reply, Crash, Expire, vars

-----------------------------------------------------------------------------
(* RevokeAll *)

(* A set has a token and outlives it. *)
Covers(u, t) == t \in listed[u] /\ due[t] <= setDue[u]

(* The set of a user has all of the user's live tokens, for as long as they live. *)
Lists(u) == \A t \in live : owner[t] = u => Covers(u, t)

Revokes(q) == kind[q] = "revokeAll"

(* What the only RevokeAll relies on at each of its steps: a complete set, then *)
(* what it read there, and at last that it deleted what it read.                *)
RevokesAll(q) ==
    /\ before[q] \subseteq stored
    /\ \A t \in before[q] : owner[t] = uid[q]
    /\ pc[q] = "members" => Lists(uid[q])
    /\ pc[q] = "drop" => before[q] \cap live \subseteq seen[q]
    /\ resp[q] = 204 => before[q] \cap live = {}

(* As long as nobody was revoked the sets are complete. *)
Listing ==
    Expiring =>
        /\ \A u \in Users : (\A q \in Ops : Revokes(q) => uid[q] # u) => Lists(u)
        /\ \A q \in Ops : Revokes(q) /\ (\A p \in Ops \ {q} : ~Revokes(p)) => RevokesAll(q)

(* What most steps do: no set loses a live token, a new one is listed, and no *)
(* RevokeAll begins or goes on.                                               *)
Listed ==
    /\ stored \subseteq stored'
    /\ live' \cap stored \subseteq live
    /\ \A t \in stored : owner'[t] = owner[t]
    /\ \A t \in live', u \in Users : owner'[t] = u => Covers(u, t)' \/ (t \in stored /\ ~Covers(u, t))
    /\ \A q \in Ops : /\ Revokes(q)' <=> Revokes(q)
                      /\ Revokes(q) => /\ uid'[q] = uid[q] /\ before'[q] = before[q]
                                       /\ seen'[q] = seen[q]
                                       /\ pc'[q] \in {"members", "drop"} => pc'[q] = pc[q]
                                       /\ resp'[q] = 204 => resp[q] = 204

(* Such a step keeps the sets complete, and what a RevokeAll relies on. *)
LEMMA ListedListing == Control /\ Listing /\ Listed => Listing'
<1> SUFFICES ASSUME Control, Listing, Listed, Expiring PROVE Listing'
  BY DEF Listing, Expiring
<1>0. live \subseteq stored /\ \A q \in Ops : Revokes(q) => uid[q] \in Users
  BY DEF Control, TypeOK, StoreTypeOK, Placed, Revokes
<1>1. ASSUME NEW u \in Users, Lists(u) PROVE Lists(u)'
  BY <1>0, <1>1 DEF Lists, Listed
<1>2. ASSUME NEW u \in Users, \A q \in Ops : Revokes(q)' => uid'[q] # u PROVE Lists(u)'
  BY <1>0, <1>1, <1>2 DEF Listing, Listed
<1>3. ASSUME NEW q \in Ops, Revokes(q)', \A p \in Ops \ {q} : ~Revokes(p)'
      PROVE  RevokesAll(q)'
  <2>1. /\ Revokes(q) /\ \A p \in Ops \ {q} : ~Revokes(p)
        /\ uid'[q] = uid[q] /\ before'[q] = before[q] /\ seen'[q] = seen[q]
        /\ pc'[q] \in {"members", "drop"} => pc'[q] = pc[q]
        /\ resp'[q] = 204 => resp[q] = 204
    BY <1>3 DEF Listed
  <2>2. RevokesAll(q)  BY <2>1 DEF Listing
  <2>3. pc'[q] = "members" => Lists(uid[q])'
    <3>1. \A u \in Users : u = uid[q] /\ pc'[q] = "members" => Lists(u)'
      BY <1>1, <2>1, <2>2 DEF RevokesAll
    <3> QED BY <1>0, <2>1, <3>1 DEF Lists, Covers
  <2> QED BY <2>1, <2>2, <2>3 DEF Listed, RevokesAll
<1> QED BY <1>2, <1>3 DEF Listing

(* The steps that leave every set complete. *)
LEMMA StepLists ==
  ASSUME Control, Sessions, Expiring, [Next]_vars,
         \A q \in Ops : ~BeginRevokeAll(q) /\ ~Members(q) /\ ~Drop(q)
  PROVE  Listed
<1> USE DEF Listed, Covers, Revokes, Goto, Answer, storeVars, dues, reqVars, TypeOK, StoreTypeOK
<1>0. TypeOK /\ Timed /\ \A q \in Ops : Placed(q)  BY DEF Control
<1>1. ASSUME NEW q \in Ops, NEW s \in Steps \cup {"idle"}, NEW n \in {400, 401, 500}, Only(q, s, n)
      PROVE  Listed
  BY <1>0, <1>1 DEF Only
<1>2. ASSUME NEW q \in Ops, Reject(q) \/ Refused(q) \/ SignFails(q) PROVE Listed
  <2>1. \E s \in Steps \cup {"idle"}, n \in {400, 401, 500} : Only(q, s, n)
    <3> HIDE DEF Listed, TypeOK, StoreTypeOK, Goto, Answer
    <3> QED BY <1>2 DEF Reject, Refused, SignFails, Steps
  <2> HIDE DEF Listed
  <2> QED BY <1>1, <2>1
<1>3. ASSUME NEW q \in Ops, BeginAccount(q) \/ BeginToken(q) PROVE Listed
  BY <1>0, <1>3 DEF BeginAccount, BeginToken, Placed
<1>4. ASSUME NEW q \in Ops, InsertUser(q) \/ FindUser(q) PROVE Listed
  BY <1>0, <1>4 DEF InsertUser, FindUser, Placed
<1>5. ASSUME NEW q \in Ops, Create(q) \/ CreateAckLost(q) PROVE Listed
  <2>1. PICK t \in Tokens : Stored(t, uid[q])  BY <1>5 DEF Create, CreateAckLost, Mint
  <2>2. pc[q] = "create" /\ uid[q] \in Users /\ ~Revokes(q)
    BY <1>0, <1>5 DEF Create, CreateAckLost, Placed
  <2>3. /\ UNCHANGED <<kind, uid, before, seen>>
        /\ \A p \in Ops \ {q} : pc'[p] = pc[p] /\ resp'[p] = resp[p]
    BY <1>0, <1>5 DEF Create, CreateAckLost, Mint
  <2>4. /\ stored \subseteq stored' /\ live' \cap stored \subseteq live
        /\ \A x \in stored : owner'[x] = owner[x]
        /\ \A x \in live', u \in Users : owner'[x] = u =>
               Covers(u, x)' \/ (x \in stored /\ ~Covers(u, x))
    BY <1>0, <2>1, <2>2 DEF Stored, Keyed, Timed
  <2> QED BY <2>2, <2>3, <2>4
<1>6. ASSUME NEW q \in Ops, Take(q) \/ TakeMissing(q) \/ TakeAckLost(q) PROVE Listed
  BY <1>0, <1>6 DEF Take, TakeMissing, TakeAckLost, Taken, Missing, Placed
<1>7. ASSUME NEW q \in Ops, Unlist(q) PROVE Listed
  <2>1. pc[q] = "unlist" /\ Unlisted(tok[q], uid[q]) /\ ~Revokes(q)
    BY <1>0, <1>7 DEF Unlist, Placed
  <2>2. tok[q] \notin live
    BY <1>0, <2>1 DEF Placed, Sessions, Held, Refreshing, Closed
  <2>3. /\ UNCHANGED <<kind, uid, before, seen>>
        /\ \A p \in Ops \ {q} : pc'[p] = pc[p] /\ resp'[p] = resp[p]
    BY <1>0, <1>7 DEF Unlist
  <2>4. /\ UNCHANGED <<stored, live, owner, due, setDue>>
        /\ \A x \in live, u \in Users : x \in listed[u] => x \in listed'[u]
    BY <1>0, <2>1, <2>2 DEF Unlisted
  <2> QED BY <1>0, <2>1, <2>3, <2>4
<1>8. ASSUME NEW q \in Ops, Reply(q) PROVE Listed
  BY <1>0, <1>8 DEF Reply, Placed
<1>9. CASE Crash  BY <1>0, <1>9 DEF Crash, InFlight
<1>10. CASE Expire  BY <1>0, <1>10 DEF Expire, Expired
<1>11. CASE UNCHANGED vars  BY <1>0, <1>11 DEF vars
<1> HIDE DEF Listed
<1> QED
  BY <1>2, <1>3, <1>4, <1>5, <1>6, <1>7, <1>8, <1>9, <1>10, <1>11 DEF Next, Begin, Handle

(* The steps of a RevokeAll: it begins, reads the set, deletes what it read. *)
LEMMA RevokeLists ==
  ASSUME Control, Listing, Expiring, NEW q \in Ops, BeginRevokeAll(q) \/ Members(q) \/ Drop(q)
  PROVE  Listing'
<1> USE DEF Revokes, Goto, Answer, storeVars, dues, reqVars
<1>0. /\ TypeOK /\ Placed(q) /\ live \subseteq stored
      /\ \A p \in Ops : Revokes(p) => uid[p] \in Users
  BY DEF Control, TypeOK, StoreTypeOK, Placed
<1>1. Revokes(q)' /\ UNCHANGED <<stored, owner, due, setDue>>
  BY <1>0 DEF BeginRevokeAll, Members, Drop, Dropped, Placed, TypeOK
<1>2. \A p \in Ops \ {q} : kind'[p] = kind[p] /\ uid'[p] = uid[p]
  BY <1>0 DEF BeginRevokeAll, Members, Drop, TypeOK
<1>3. ASSUME NEW u \in Users, \A p \in Ops : Revokes(p)' => uid'[p] # u PROVE Lists(u)'
  <2>1. CASE BeginRevokeAll(q)
    <3>1. \A p \in Ops : Revokes(p) => uid[p] # u
      BY <1>0, <1>2, <1>3, <2>1 DEF BeginRevokeAll, Placed
    <3> QED BY <2>1, <3>1 DEF BeginRevokeAll, Listing, Lists, Covers
  <2>2. CASE Members(q)  BY <1>3, <2>2 DEF Members, Listing, Lists, Covers
  <2>3. CASE Drop(q)
    <3>1. UNCHANGED <<kind, uid>> /\ Dropped(seen[q], uid[q])  BY <2>3 DEF Drop
    <3>2. Lists(u) /\ uid[q] # u  BY <1>1, <1>3, <3>1 DEF Listing
    <3> QED BY <1>0, <3>1, <3>2 DEF Dropped, Lists, Covers, TypeOK, StoreTypeOK
  <2> QED BY <2>1, <2>2, <2>3
<1>4. ASSUME \A p \in Ops \ {q} : ~Revokes(p)'
      PROVE  RevokesAll(q)'
  <2>1. \A p \in Ops \ {q} : ~Revokes(p)  BY <1>2, <1>4
  <2>2. CASE BeginRevokeAll(q)
    <3>1. PICK u \in Users : /\ uid' = [uid EXCEPT ![q] = u]
                             /\ before' = [before EXCEPT ![q] = {t \in live : owner[t] = u}]
      BY <2>2 DEF BeginRevokeAll
    <3>2. kind[q] = "none" /\ resp[q] = 0 /\ pc'[q] = "members"
          /\ UNCHANGED <<live, listed, owner, stored, due, setDue, resp>>
      BY <1>0, <2>2 DEF BeginRevokeAll, Placed, TypeOK
    <3>3. Lists(u)  BY <2>1, <3>2 DEF Listing
    <3>4. uid'[q] = u /\ before'[q] = {t \in live : owner[t] = u}
      BY <1>0, <3>1 DEF TypeOK
    <3> QED BY <1>0, <3>2, <3>3, <3>4 DEF Lists, Covers, RevokesAll
  <2>3. CASE Members(q)
    <3>1. /\ kind[q] = "revokeAll" /\ Lists(uid[q]) /\ pc[q] = "members" /\ pc'[q] = "drop"
          /\ before[q] \subseteq stored /\ \A t \in before[q] : owner[t] = uid[q]
      BY <1>0, <2>1, <2>3 DEF Members, Placed, Listing, RevokesAll, TypeOK
    <3>2. /\ seen'[q] = listed[uid[q]] /\ UNCHANGED <<live, owner, stored, uid, before, resp>>
      BY <1>0, <2>3 DEF Members, TypeOK
    <3> QED BY <1>0, <3>1, <3>2 DEF Lists, Covers, Placed, RevokesAll
  <2>4. CASE Drop(q)
    <3>1. /\ kind[q] = "revokeAll" /\ pc[q] = "drop" /\ pc'[q] = "done"
          /\ before[q] \subseteq stored /\ \A t \in before[q] : owner[t] = uid[q]
          /\ before[q] \cap live \subseteq seen[q]
      BY <1>0, <2>1, <2>4 DEF Drop, Placed, Listing, RevokesAll, TypeOK
    <3>2. live' = live \ seen[q] /\ UNCHANGED <<owner, stored, uid, before>>
      BY <2>4 DEF Drop, Dropped
    <3> QED BY <3>1, <3>2 DEF RevokesAll
  <2> QED BY <2>2, <2>3, <2>4
<1> QED
  <2>1. ASSUME NEW p \in Ops, Revokes(p)', \A r \in Ops \ {p} : ~Revokes(r)' PROVE p = q
    BY <1>1, <2>1
  <2>2. ASSUME NEW p \in Ops, Revokes(p)', \A r \in Ops \ {p} : ~Revokes(r)'
        PROVE  RevokesAll(p)'
    <3>1. p = q /\ \A r \in Ops \ {q} : ~Revokes(r)'  BY <2>1, <2>2
    <3> QED BY <1>4, <3>1
  <2> QED BY <1>3, <2>2 DEF Listing

-----------------------------------------------------------------------------
(* The invariant *)

IInv == Control /\ Sessions /\ Accounts /\ Listing

(* The initial states satisfy it. *)
LEMMA InitInv == Init => IInv
<1> SUFFICES ASSUME Init PROVE IInv
  OBVIOUS
<1> USE AuthAssumption, SessionAssumption DEF Init, StoreInit
<1>1. Control  BY InitControl
<1>2. Sessions  BY DEF Sessions, Sound, Held, Refreshing, Closed
<1>3. Accounts  BY DEF Accounts
<1>4. Listing
  <2>1. \A q \in Ops : ~Revokes(q)  BY DEF Revokes
  <2>2. /\ live = Seeds /\ due = [t \in Tokens |-> 0] /\ setDue = [u \in Users |-> 0]
        /\ owner = [t \in Tokens |-> IF t \in Seeds THEN seedUser ELSE NoUser]
        /\ listed = [u \in Users |-> IF u = seedUser /\ Expiring THEN Seeds ELSE {}]
    OBVIOUS
  <2> HIDE DEF Init, StoreInit
  <2>3. ASSUME NEW u \in Users, Expiring PROVE Lists(u)
    BY <2>2, <2>3 DEF Lists, Covers
  <2> QED BY <2>1, <2>3 DEF Listing
<1> QED BY <1>1, <1>2, <1>3, <1>4 DEF IInv

(* Every step keeps it, part by part. *)
LEMMA NextInv == IInv /\ [Next]_vars => IInv'
<1> SUFFICES ASSUME IInv, [Next]_vars PROVE IInv'
  OBVIOUS
<1>1. Control'  BY NextType, NextTimed, NextPlaced DEF IInv, Control
<1>2. Sessions'
  BY StepKinds, FadingSessions, TakeSessions, CreateSessions DEF IInv
<1>3. Accounts'  BY NextAccounts DEF IInv
<1>4. ASSUME Expiring PROVE Listing'
  <2>1. Listing'  BY <1>4, StepLists, ListedListing, RevokeLists DEF IInv
  <2> QED BY <2>1
<1>5. Listing'  BY <1>4 DEF Listing, Expiring
<1> QED BY <1>1, <1>2, <1>3, <1>5 DEF IInv

(* It holds in every reachable state. *)
LEMMA Invariance == Spec => []IInv
BY InitInv, NextInv, PTL DEF Spec

-----------------------------------------------------------------------------
(* The life of a token *)

(* The tokens of earlier logins are active, the others unborn. *)
LEMMA InitLife == Init => Life!Init
BY SessionAssumption DEF Init, StoreInit, Life!Init, TokenStatus, Rotations

(* What the invariant says of it. *)
LEMMA StatusFacts ==
  ASSUME IInv
  PROVE  /\ live \subseteq stored /\ stored \subseteq Tokens
         /\ \A q \in Ops : Refreshing(q) => /\ tok[q] \in stored /\ tok[q] \notin live
                                            /\ \A p \in Ops : Refreshing(p) /\ tok[p] = tok[q] => p = q
         /\ Rotations = {tok[q] : q \in {p \in Ops : Refreshing(p)}}
<1>1. TypeOK /\ \A q \in Ops : Placed(q) /\ Held(q)  BY DEF IInv, Control, Sessions
<1>2. /\ live \subseteq stored /\ stored \subseteq Tokens
      /\ \A q \in Ops : Refreshing(q) => /\ tok[q] \in stored /\ tok[q] \notin live
                                         /\ \A p \in Ops : Refreshing(p) /\ tok[p] = tok[q] => p = q
  BY <1>1 DEF TypeOK, StoreTypeOK, Placed, Held, Refreshing
<1> QED BY <1>2 DEF Rotations, Refreshing

(* A token that fades was active or rotating and is over. *)
LEMMA FadingLife ==
  ASSUME IInv, Fading
  PROVE  \E ends \in SUBSET Tokens : Life!End(ends)
<1> DEFINE ends == {t \in Tokens : TokenStatus'[t] # TokenStatus[t]}
<1>1. Rotations' \subseteq Rotations
  BY DEF Fading, Refreshing, Rotations
<1>2. live' \subseteq live /\ stored' = stored /\ parent' = parent  BY DEF Fading
<1>3. Rotations \subseteq stored /\ Rotations \cap live = {}
  BY StatusFacts
<1>4. ASSUME NEW t \in Tokens
      PROVE  /\ t \in ends => TokenStatus[t] \in {"active", "rotating"}
             /\ TokenStatus'[t] = IF t \in ends THEN "over" ELSE TokenStatus[t]
  BY <1>1, <1>2, <1>3 DEF TokenStatus
<1>5. TokenStatus' = [t \in Tokens |-> IF t \in ends THEN "over" ELSE TokenStatus[t]]
  <2> HIDE DEF ends
  <2>1. TokenStatus' = [t \in Tokens |-> TokenStatus'[t]]  BY DEF TokenStatus
  <2> QED BY <1>4, <2>1
<1>6. ends \in SUBSET Tokens  OBVIOUS
<1> HIDE DEF ends
<1>7. Life!End(ends)
  BY <1>2, <1>4, <1>5, <1>6 DEF Life!End
<1> QED BY <1>6, <1>7

(* A GETDEL begins a rotation, or is the end of its token. *)
LEMMA TakeLife ==
  ASSUME IInv, NEW q \in Ops, Take(q) \/ TakeAckLost(q)
  PROVE  Life!StartRotation(tok[q]) \/ Life!End({tok[q]})
<1>0. /\ TypeOK /\ Placed(q) /\ Rotations = {tok[p] : p \in {r \in Ops : Refreshing(r)}}
      /\ live \subseteq stored /\ stored \subseteq Tokens
      /\ \A p \in Ops : Refreshing(p) => tok[p] \in stored /\ tok[p] \notin live
  BY StatusFacts DEF IInv, Control
<1>1. /\ pc[q] = "take" /\ tok[q] \in live /\ live' = live \ {tok[q]}
      /\ UNCHANGED <<stored, parent, tok, kind>>
      /\ \A p \in Ops \ {q} : pc'[p] = pc[p]
      /\ pc'[q] \in {"unlist", "done"}
  BY <1>0 DEF Take, TakeAckLost, Taken, Goto, Answer, reqVars, TypeOK
<1>2. \A p \in Ops \ {q} : Refreshing(p)' <=> Refreshing(p)
  BY <1>1 DEF Refreshing
<1>3. ~Refreshing(q)  BY <1>1 DEF Refreshing
<1>4. tok[q] \in Tokens  BY <1>0, <1>1
<1>5. Rotations' = {tok[p] : p \in {r \in Ops : Refreshing(r)'}}
  <2>1. \A p \in Ops : Refreshing(p)' => tok[p] \in Tokens  BY <1>0, <1>2, <1>4
  <2> QED BY <1>1, <2>1 DEF Rotations, Refreshing
<1>6. CASE Refreshing(q)'
  <2>1. Rotations' = Rotations \cup {tok[q]}  BY <1>0, <1>2, <1>5, <1>6
  <2>2. TokenStatus' = [TokenStatus EXCEPT ![tok[q]] = "rotating"]
    BY <1>0, <1>1, <1>4, <2>1 DEF TokenStatus
  <2>3. TokenStatus[tok[q]] = "active"  BY <1>0, <1>1, <1>4 DEF TokenStatus
  <2> QED BY <1>1, <2>2, <2>3 DEF Life!StartRotation
<1>7. CASE ~Refreshing(q)'
  <2>1. Rotations' = Rotations /\ tok[q] \notin Rotations  BY <1>0, <1>1, <1>2, <1>3, <1>5, <1>7
  <2>2. TokenStatus' = [t \in Tokens |-> IF t \in {tok[q]} THEN "over" ELSE TokenStatus[t]]
    BY <1>0, <1>1, <1>4, <2>1 DEF TokenStatus
  <2>3. TokenStatus[tok[q]] = "active"  BY <1>0, <1>1, <1>4 DEF TokenStatus
  <2> QED BY <1>1, <2>2, <2>3 DEF Life!End
<1> QED BY <1>6, <1>7

(* Create grants a token, or ends a rotation with its successor. *)
LEMMA CreateLife ==
  ASSUME IInv, NEW q \in Ops, Create(q) \/ CreateAckLost(q)
  PROVE  \E t, n \in Tokens : Life!Grant(n) \/ Life!Succeed(t, n)
<1>0. /\ TypeOK /\ Placed(q) /\ Rotations = {tok[p] : p \in {r \in Ops : Refreshing(r)}}
      /\ live \subseteq stored /\ stored \subseteq Tokens
      /\ \A p \in Ops : Refreshing(p) =>
             /\ tok[p] \in stored /\ tok[p] \notin live
             /\ \A r \in Ops : Refreshing(r) /\ tok[r] = tok[p] => r = p
      /\ \A t \in Tokens : t \notin stored => parent[t] = NoToken
  BY StatusFacts DEF IInv, Control, Sessions, Sound
<1>1. PICK n \in Tokens :
           /\ n \notin stored /\ live' = live \cup {n} /\ stored' = stored \cup {n}
           /\ parent' = [parent EXCEPT ![n] = tok[q]]
  BY DEF Create, CreateAckLost, Mint, Stored, Keyed
<1>2. /\ pc[q] = "create" /\ kind[q] \in {"register", "login", "refresh"}
      /\ UNCHANGED <<tok, kind>> /\ pc'[q] \in {"reply", "done"}
      /\ \A p \in Ops \ {q} : pc'[p] = pc[p]
  BY <1>0 DEF Create, CreateAckLost, Mint, Goto, Answer, Placed, TypeOK
<1>3. /\ ~Refreshing(q)'
      /\ \A p \in Ops \ {q} : Refreshing(p)' <=> Refreshing(p)
  BY <1>2 DEF Refreshing
<1>4. Rotations' = {tok[p] : p \in {r \in Ops : Refreshing(r)'}}
  <2>1. \A p \in Ops : Refreshing(p)' => tok[p] \in Tokens  BY <1>0, <1>3
  <2> QED BY <1>2, <2>1 DEF Rotations, Refreshing
<1>5. CASE Refreshing(q)
  <2>1. Rotations' = Rotations \ {tok[q]}
    BY <1>0, <1>3, <1>4, <1>5
  <2>2. tok[q] \in Tokens /\ tok[q] # n /\ tok[q] \notin live /\ tok[q] \in stored
    BY <1>0, <1>1, <1>5
  <2>3. TokenStatus[tok[q]] = "rotating" /\ TokenStatus[n] = "unborn"
    BY <1>0, <1>1, <1>5, <2>2 DEF TokenStatus
  <2>4. ASSUME NEW t \in Tokens
        PROVE  TokenStatus'[t] = IF t = n THEN "active" ELSE IF t = tok[q] THEN "over" ELSE TokenStatus[t]
    BY <1>1, <2>1, <2>2 DEF TokenStatus
  <2>5. TokenStatus' = [TokenStatus EXCEPT ![tok[q]] = "over", ![n] = "active"]
    <3>1. /\ TokenStatus' = [t \in Tokens |-> TokenStatus'[t]]
          /\ TokenStatus = [t \in Tokens |-> TokenStatus[t]]
      BY DEF TokenStatus
    <3> QED BY <2>2, <2>4, <3>1
  <2>6. Life!Succeed(tok[q], n)  BY <1>1, <2>3, <2>5 DEF Life!Succeed
  <2> QED BY <2>2, <2>6
<1>6. CASE ~Refreshing(q)
  <2>1. tok[q] = NoToken  BY <1>0, <1>2, <1>6 DEF Placed, Refreshing
  <2>2. parent' = parent  BY <1>0, <1>1, <2>1 DEF TypeOK
  <2>3. Rotations' = Rotations /\ n \notin Rotations
    BY <1>0, <1>1, <1>3, <1>4, <1>6
  <2>4. TokenStatus' = [TokenStatus EXCEPT ![n] = "active"]
    BY <1>0, <1>1, <2>3 DEF TokenStatus
  <2>5. TokenStatus[n] = "unborn"  BY <1>1 DEF TokenStatus
  <2>6. Life!Grant(n)  BY <2>2, <2>4, <2>5 DEF Life!Grant
  <2> QED BY <2>6
<1> QED BY <1>5, <1>6

-----------------------------------------------------------------------------
(* The variables keep their types, for any requests and any faults. *)
THEOREM TypeCorrect == Spec => []TypeOK
<1>1. IInv => TypeOK  BY DEF IInv, Control
<1> QED BY <1>1, Invariance, PTL

(* A refresh token has one successor, however often and concurrently it is *)
(* presented (session.Rotate).                                             *)
THEOREM ChainsDoNotFork == Spec => []OneSuccessor
<1>1. IInv => OneSuccessor  BY DEF IInv, Sessions, Sound, OneSuccessor, Successors
<1> QED BY <1>1, Invariance, PTL

(* A token that a logout took is never rotated, and dead when its client is *)
(* told (session.Revoke).                                                   *)
THEOREM LogoutEnds == Spec => []LogoutIsFinal
<1>1. ASSUME IInv PROVE LogoutIsFinal
  <2>1. ended \subseteq Tokens  BY <1>1 DEF IInv, Control, TypeOK
  <2> QED BY <1>1, <2>1 DEF IInv, Sessions, Sound, Held, Closed, LogoutIsFinal, Successors
<1> QED BY <1>1, Invariance, PTL

(* Registrations that race, in whatever spelling, make one account of a mailbox *)
(* (normalizeEmail and the unique index on users.email).                        *)
THEOREM MailboxesAreUnique == Spec => []OneAccountPerMailbox
<1>1. IInv => OneAccountPerMailbox
  BY DEF IInv, Accounts, OneAccountPerMailbox
<1> QED BY <1>1, Invariance, PTL

(* The set of a user who was not revoked lists every live token of the user *)
(* (session.Create, Rotate, Revoke).                                        *)
THEOREM SetsAreComplete == Spec => []LiveIsListed
<1>1. ASSUME IInv PROVE LiveIsListed
  <2>1. \A t \in live : owner[t] \in Users
    BY <1>1 DEF IInv, Control, Owners, TypeOK, StoreTypeOK
  <2> QED BY <1>1, <2>1 DEF IInv, Listing, Lists, Covers, Revokes, LiveIsListed
<1> QED BY <1>1, Invariance, PTL

(* The first RevokeAll ends every session the user had when it was called, *)
(* whatever it races with (session.RevokeAll).                             *)
THEOREM FirstRevokeHolds == Spec => []FirstRevokeAllComplete
<1>1. IInv => FirstRevokeAllComplete
  BY DEF IInv, Listing, RevokesAll, Revokes, FirstRevokeAllComplete
<1> QED BY <1>1, Invariance, PTL

(* Every step of the handlers is a step in the life of a token as a client may *)
(* rely on it, or none: Auth implements TokenLife.                             *)
THEOREM TokenLifeKept == Spec => KeepsTokenLife
<1>1. Init => Life!Init  BY InitLife
<1>2. IInv /\ [Next]_vars => [Life!Next]_<<TokenStatus, parent>>
  <2> SUFFICES ASSUME IInv, [Next]_vars PROVE [Life!Next]_<<TokenStatus, parent>>
    OBVIOUS
  <2>1. CASE Fading  BY <2>1, FadingLife DEF Life!Next
  <2>2. ASSUME NEW q \in Ops, Take(q) \/ TakeAckLost(q) PROVE Life!Next
    <3>1. tok[q] \in Tokens
      BY <2>2, StatusFacts DEF Take, TakeAckLost, Taken
    <3> QED BY <2>2, <3>1, TakeLife DEF Life!Next
  <2>3. ASSUME NEW q \in Ops, Create(q) \/ CreateAckLost(q) PROVE Life!Next
    BY <2>3, CreateLife DEF Life!Next
  <2> QED BY <2>1, <2>2, <2>3, StepKinds DEF IInv
<1> QED BY <1>1, <1>2, Invariance, PTL DEF Spec, KeepsTokenLife, Life!Spec
=============================================================================
