------------------------------- MODULE Uploads -------------------------------
(***************************************************************************)
(* The upload records and what is read from and written to them after      *)
(* presign: the paginated list of an owner, complete, and the three ways   *)
(* to a download URL.  Ids are ULIDs, here numbers in the order they are   *)
(* drawn; the record of a smaller id may be inserted after that of a       *)
(* larger one.  A client walks its list from page to page with the cursor  *)
(* it was given, while uploads come in.                                    *)
(***************************************************************************)
EXTENDS Integers, FiniteSets, SequencesExt

CONSTANTS Users,         \* the accounts
          Walks,         \* the walks through a list
          MaxId,         \* bound: the uploads of a run
          DefaultLimit,  \* defaultLimit, maxLimit of clampLimit
          MaxLimit,
          Limits,        \* what clients ask for as limit; 0 is empty or no number
          Routes,        \* bound: the routes to a download that a run takes
          NoUser         \* owner of a web upload, and user of a walk not begun

ASSUME UploadsAssumption ==
    /\ MaxId \in Nat
    /\ DefaultLimit \in Nat \ {0} /\ MaxLimit \in Nat \ {0} /\ DefaultLimit <= MaxLimit
    /\ Limits \subseteq Int /\ Routes \subseteq {"hosted", "web", "share"}
    /\ NoUser \notin Users

VARIABLES stage,   \* what there is of each upload: nothing, an id, or a record
          owner,   \* its owner_id; NoUser on the web surface
          ready,   \* its status is ready
          pc,      \* where each walk is
          user,    \* whose list it walks
          cursor,  \* the next_cursor it was given, 0 for none
          seen,    \* the ids it was given, page after page
          had,     \* history: what was in the list when the walk began
          served   \* history: the last upload given or completed: to whom, which, by which route

docVars == <<stage, owner, ready>>
walkVars == <<pc, user, cursor, seen, had>>
vars == <<docVars, walkVars, served>>

Ids == 1 .. MaxId

TypeOK ==
    /\ stage \in [Ids -> {"none", "drawn", "stored", "dropped"}]
    /\ owner \in [Ids -> Users \cup {NoUser}]
    /\ ready \in [Ids -> BOOLEAN]
    /\ pc \in [Walks -> {"idle", "walking", "done"}]
    /\ user \in [Walks -> Users \cup {NoUser}]
    /\ cursor \in [Walks -> 0 .. MaxId]
    /\ seen \in [Walks -> Seq(Ids)] /\ \A w \in Walks : Len(seen[w]) <= MaxId
    /\ had \in [Walks -> SUBSET Ids]
    /\ served \subseteq (Users \cup {NoUser}) \X Ids \X (Routes \cup {"complete"})

Init ==
    /\ stage = [i \in Ids |-> "none"]
    /\ owner = [i \in Ids |-> NoUser]
    /\ ready = [i \in Ids |-> FALSE]
    /\ pc = [w \in Walks |-> "idle"]
    /\ user = [w \in Walks |-> NoUser]
    /\ cursor = [w \in Walks |-> 0]
    /\ seen = [w \in Walks |-> <<>>]
    /\ had = [w \in Walks |-> {}]
    /\ served = {}

Stored(i) == stage[i] = "stored"
Owned(u) == {i \in Ids : Stored(i) /\ owner[i] = u}

-----------------------------------------------------------------------------
(* A presign request draws the id of its upload, for a user or for the web... *)
DrawId ==
    \E i \in Ids, u \in Users \cup {NoUser} :
        /\ \A j \in Ids : (stage[j] = "none") <=> (j >= i)
        /\ stage' = [stage EXCEPT ![i] = "drawn"]
        /\ owner' = [owner EXCEPT ![i] = u]
        /\ UNCHANGED <<ready, walkVars, served>>

(* ... and inserts the record later, or fails to. *)
Insert(i) ==
    /\ stage[i] = "drawn"
    /\ \E s \in {"stored", "dropped"} : stage' = [stage EXCEPT ![i] = s]
    /\ UNCHANGED <<owner, ready, walkVars, served>>

(* The filter of FindByIDOwner and MarkReady. *)
Matches(u, i) == Stored(i) /\ owner[i] = u

(* complete: FindOneAndUpdate sets the status whatever it was, and the answer *)
(* is the upload.                                                             *)
MarkReady(u, i) ==
    /\ Matches(u, i)
    /\ ready' = [ready EXCEPT ![i] = TRUE]
    /\ served' = {<<u, i, "complete">>}
    /\ UNCHANGED <<stage, owner, walkVars>>

-----------------------------------------------------------------------------
(* Downloads: neither the status nor expires_at of the record is looked at. *)
Serve(who, i, route) ==
    /\ route \in Routes
    /\ served' = {<<who, i, route>>}
    /\ UNCHANGED <<docVars, walkVars>>

Download(u, i) == Matches(u, i) /\ Serve(u, i, "hosted")

(* Mutant of FoundByWeb: the id alone is enough. *)
FoundById(i) == Stored(i)

(* The filter of FindByIDWeb. *)
FoundByWeb(i) == Stored(i) /\ owner[i] = NoUser

DownloadWeb(i) == FoundByWeb(i) /\ Serve(NoUser, i, "web")

(* A share code is minted for any upload by its id, and redeemed by anybody. *)
Share(i) == Stored(i) /\ Serve(NoUser, i, "share")

-----------------------------------------------------------------------------
(* The list. *)

(* The default for no limit or a bad one, at most MaxLimit. *)
ClampLimit(n) ==
    IF n <= 0 THEN DefaultLimit ELSE IF n > MaxLimit THEN MaxLimit ELSE n

(* Mutant of Older: a page begins with the last item of the page before. *)
OlderOrSame(i, c) == c = 0 \/ i <= c

(* After the cursor, under the descending order of the ids. *)
Older(i, c) == c = 0 \/ i < c

(* What a query sorted by descending id with a limit of n may return from S:  *)
(* newest first, and nothing is left out but what is older than n rows.       *)
Newest(S, n) ==
    {rows \in SeqOf(S, n) :
        /\ \A j, k \in DOMAIN rows : j < k => rows[j] > rows[k]
        /\ \A i \in S \ ToSet(rows) :
              Len(rows) = n /\ \A k \in DOMAIN rows : rows[k] > i}

(* Mutant of Fetched: only what the page holds, nothing to tell has_more from. *)
FetchedPageOnly(u, c, limit) == Newest({i \in Owned(u) : Older(i, c)}, limit)

(* ListByOwner: one row more than the page holds. *)
Fetched(u, c, limit) == Newest({i \in Owned(u) : Older(i, c)}, limit + 1)

(* Service.List: the extra row is cut off and says that there is more; the   *)
(* cursor is the last row of the page.                                        *)
Page(w, asked) ==
    LET limit == ClampLimit(asked)
    IN  \E rows \in Fetched(user'[w], cursor[w], limit) :
            LET hasMore == Len(rows) > limit
                page == IF hasMore THEN SubSeq(rows, 1, limit) ELSE rows
            IN  /\ seen' = [seen EXCEPT ![w] = @ \o page]
                /\ cursor' = [cursor EXCEPT ![w] = IF hasMore THEN Last(page) ELSE 0]
                /\ pc' = [pc EXCEPT ![w] = IF hasMore THEN "walking" ELSE "done"]
                /\ UNCHANGED <<docVars, served>>

FirstPage(w) ==
    /\ pc[w] = "idle"
    /\ \E u \in Users :
        /\ user' = [user EXCEPT ![w] = u]
        /\ had' = [had EXCEPT ![w] = Owned(u)]
    /\ \E asked \in Limits : Page(w, asked)

NextPage(w) ==
    /\ pc[w] = "walking"
    /\ UNCHANGED <<user, had>>
    /\ \E asked \in Limits : Page(w, asked)

Next ==
    \/ DrawId
    \/ \E i \in Ids : Insert(i) \/ DownloadWeb(i) \/ Share(i)
    \/ \E u \in Users, i \in Ids : MarkReady(u, i) \/ Download(u, i)
    \/ \E w \in Walks : FirstPage(w) \/ NextPage(w)

Spec == Init /\ [][Next]_vars
-----------------------------------------------------------------------------
(* Properties *)

(* Over all the pages of a walk, whatever is inserted between them, a client   *)
(* sees its uploads newest first and nothing twice; and told that there is no  *)
(* more it has seen every upload that was in the list when it began.           *)
WalkExact ==
    \A w \in Walks :
        /\ \A m, n \in DOMAIN seen[w] : m < n => seen[w][m] > seen[w][n]
        /\ pc[w] = "done" => had[w] \subseteq ToSet(seen[w])

(* has_more is true of the moment it is answered: the walk ends only when      *)
(* nothing older than where it stood is left, a record whose insert came late  *)
(* included.                                                                   *)
LastPageIsLast ==
    [][\A w \in Walks : pc[w] # "done" /\ pc'[w] = "done" =>
          {i \in Owned(user'[w]) : Older(i, cursor[w])} \subseteq ToSet(seen'[w])]_vars

(* A user sees, completes and is given own uploads only; the web route gives   *)
(* web uploads only.  Across owners only a share code leads.                   *)
OwnersIsolated ==
    /\ \A w \in Walks : \A i \in ToSet(seen[w]) : owner[i] = user[w]
    /\ \A s \in served : s[3] # "share" => owner[s[2]] = s[1]
=============================================================================
