---------------------------- MODULE SessionStore ----------------------------
(***************************************************************************)
(* The refresh-token sessions of internal/session, as the commands the     *)
(* package sends to Redis.  refresh:{hash} names the user of a live token; *)
(* user_sessions:{user} lists the hashes of a user's tokens.  A command,   *)
(* or a MULTI of several, is atomic; the operations of the package are     *)
(* sequences of them (see Auth).  A token stands for its hash as well.     *)
(*                                                                         *)
(* Deadlines are ranks: every Create adds the same TTL to a clock that     *)
(* does not go back, so keys run out in the order in which they were set.  *)
(***************************************************************************)
EXTENDS Integers

CONSTANTS Tokens,   \* bound: the refresh tokens that can be drawn
          Users,    \* account ids
          NoUser,   \* no account
          Seeds,    \* tokens of earlier logins, live at the start
          seedUser, \* their user
          RefreshTTL \* Store.ttl, in any unit

ASSUME SessionAssumption ==
    /\ Seeds \subseteq Tokens
    /\ seedUser \in Users
    /\ NoUser \notin Users
    /\ RefreshTTL \in Int

VARIABLES live,    \* the tokens with a refresh:{hash} key
          owner,   \* the value of that key, kept here after the key is gone
          listed,  \* user_sessions:{user}, empty when the key is missing
          due,     \* the deadline of each refresh:{hash}
          setDue,  \* the deadline of each user_sessions:{user}
          turn,    \* the latest deadline that was set
          stored   \* history: the tokens that ever had a key

dues == <<due, setDue, turn>>
storeVars == <<live, owner, listed, dues, stored>>

(* SET leaves out an expiry that is not positive, and EXPIRE then deletes the set. *)
Expiring == RefreshTTL > 0

StoreTypeOK ==
    /\ live \subseteq stored
    /\ stored \subseteq Tokens
    /\ owner \in [Tokens -> Users \cup {NoUser}]
    /\ listed \in [Users -> SUBSET Tokens]
    /\ due \in [Tokens -> Nat]
    /\ setDue \in [Users -> Nat]
    /\ turn \in Nat

StoreInit ==
    /\ live = Seeds
    /\ stored = Seeds
    /\ owner = [t \in Tokens |-> IF t \in Seeds THEN seedUser ELSE NoUser]
    /\ listed = [u \in Users |-> IF u = seedUser /\ Expiring THEN Seeds ELSE {}]
    /\ due = [t \in Tokens |-> 0]
    /\ setDue = [u \in Users |-> 0]
    /\ turn = 0

-----------------------------------------------------------------------------
(* SET with EX: the key of a token just drawn, never seen before, and its deadline. *)
Keyed(t, u) ==
    /\ t \notin stored
    /\ live' = live \cup {t}
    /\ stored' = stored \cup {t}
    /\ owner' = [owner EXCEPT ![t] = u]
    /\ due' = [due EXCEPT ![t] = turn + 1]
    /\ turn' = turn + 1

(* Mutant of Stored: the hash is not added to the set of the user. *)
StoredUnlisted(t, u) == Keyed(t, u) /\ UNCHANGED <<listed, setDue>>

(* Mutant of Stored: the life of a set that exists is not renewed. *)
StoredUnrenewed(t, u) ==
    /\ Keyed(t, u)
    /\ listed' = [listed EXCEPT ![u] = IF Expiring THEN @ \cup {t} ELSE {}]
    /\ setDue' = [setDue EXCEPT ![u] = IF listed[u] = {} THEN turn + 1 ELSE @]

(* MULTI SET, SADD, EXPIRE: the set gets the hash, and a new deadline of its own. *)
Stored(t, u) ==
    /\ Keyed(t, u)
    /\ listed' = [listed EXCEPT ![u] = IF Expiring THEN @ \cup {t} ELSE {}]
    /\ setDue' = [setDue EXCEPT ![u] = turn + 1]

(* Mutant of Taken: the token is read and left in place. *)
TakenRead(t) == t \in live /\ UNCHANGED storeVars

(* GETDEL of a live token: read and deleted in one command. *)
Taken(t) ==
    /\ t \in live
    /\ live' = live \ {t}
    /\ UNCHANGED <<owner, listed, dues, stored>>

(* GETDEL of a token that has no key. *)
Missing(t) == t \notin live /\ UNCHANGED storeVars

(* SREM of the hash of a token that was taken. *)
Unlisted(t, u) ==
    /\ listed' = [listed EXCEPT ![u] = @ \ {t}]
    /\ UNCHANGED <<live, owner, dues, stored>>

(* MULTI DEL of the keys read before, and of the set. *)
Dropped(hashes, u) ==
    /\ live' = live \ hashes
    /\ listed' = [listed EXCEPT ![u] = {}]
    /\ UNCHANGED <<owner, dues, stored>>

(* The clock passes deadline d: the keys that were due are gone, tokens and *)
(* sets alike.  The hash of a token stays in a set that is not.             *)
Expired(d) ==
    /\ Expiring
    /\ live' = {t \in live : due[t] > d}
    /\ listed' = [u \in Users |-> IF setDue[u] > d THEN listed[u] ELSE {}]
    /\ UNCHANGED <<owner, dues, stored>>
=============================================================================
