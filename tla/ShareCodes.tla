----------------------------- MODULE ShareCodes -----------------------------
(***************************************************************************)
(* Share codes: POST /share mints a short code for an upload, GET          *)
(* /share/:code resolves it.  A code is drawn at random and claimed with   *)
(* SETNX, at most MaxAttempts times; Redis drops it after its TTL, and a   *)
(* code that was dropped can be drawn again.  The second half of a redeem, *)
(* signing the URL of the object found, is in DownloadCache.               *)
(***************************************************************************)
EXTENDS Integers

CONSTANTS Mints,        \* the requests for a code
          Redeems,      \* the requests to redeem one
          Codes,        \* the codes that can be drawn
          Files,        \* the uploads that exist, by object
          MaxAttempts,  \* maxAttempts
          Faults,       \* which of FaultKinds may happen
          NoFile, NoCode

(* Redis does not execute a command; it executes a SETNX whose answer is lost, *)
(* and the client library sends it again.                                      *)
FaultKinds == {"refused", "ackLost"}

ASSUME ShareAssumption ==
    /\ MaxAttempts \in Nat \ {0}
    /\ Faults \subseteq FaultKinds
    /\ NoFile \notin Files /\ NoCode \notin Codes
    /\ Mints \cap Redeems = {}

VARIABLES target,    \* share:{code}: the object a live code stands for
          pc,        \* where the handler of each request is
          file,      \* the object a mint is for, or a redeem has found
          code,      \* the code a mint has drawn, or a redeem presents
          attempts,  \* the draws a mint has made
          resp,      \* the status each request was answered with, 0 before
          held,      \* history: the mints that claimed a code since it last expired
          taken      \* history: how often the code a mint has drawn was taken

reqVars == <<file, code, attempts>>
vars == <<target, pc, reqVars, resp, held, taken>>

Reqs == Mints \cup Redeems

TypeOK ==
    /\ target \in [Codes -> Files \cup {NoFile}]
    /\ pc \in [Reqs -> {"idle", "draw", "claim", "again", "reply", "resolve", "done"}]
    /\ file \in [Reqs -> Files \cup {NoFile}]
    /\ code \in [Reqs -> Codes \cup {NoCode}]
    /\ attempts \in [Mints -> 0 .. MaxAttempts]
    /\ resp \in [Reqs -> {0, 200, 201, 400, 404, 500}]
    /\ held \in [Codes -> SUBSET Mints]
    /\ taken \in [Mints -> 0 .. MaxAttempts]

Init ==
    /\ target = [c \in Codes |-> NoFile]
    /\ pc = [r \in Reqs |-> "idle"]
    /\ file = [r \in Reqs |-> NoFile]
    /\ code = [r \in Reqs |-> NoCode]
    /\ attempts = [m \in Mints |-> 0]
    /\ resp = [r \in Reqs |-> 0]
    /\ held = [c \in Codes |-> {}]
    /\ taken = [m \in Mints |-> 0]

Goto(r, from, to) == pc[r] = from /\ pc' = [pc EXCEPT ![r] = to]
Answer(r, from, status) == Goto(r, from, "done") /\ resp' = [resp EXCEPT ![r] = status]
Only(r, from, status) ==
    Answer(r, from, status) /\ UNCHANGED <<target, reqVars, held, taken>>

-----------------------------------------------------------------------------
(* Mint a code. *)

(* The body is invalid, or the upload is unknown. *)
MintReject(m) == Only(m, "idle", 400) \/ Only(m, "idle", 404)

MintBegin(m) ==
    /\ Goto(m, "idle", "draw")
    /\ \E f \in Files : file' = [file EXCEPT ![m] = f]
    /\ UNCHANGED <<target, code, attempts, resp, held, taken>>

(* Mutants of Draw: one draw more than allowed; draws that are not counted. *)
DrawOnceMore(m) ==
    /\ Goto(m, "draw", "claim")
    /\ attempts[m] <= MaxAttempts
    /\ attempts' = [attempts EXCEPT ![m] = @ + 1]
    /\ \E c \in Codes : code' = [code EXCEPT ![m] = c]
    /\ UNCHANGED <<target, file, resp, held, taken>>
DrawUncounted(m) ==
    /\ Goto(m, "draw", "claim")
    /\ \E c \in Codes : code' = [code EXCEPT ![m] = c]
    /\ UNCHANGED <<target, file, attempts, resp, held, taken>>

(* generate draws any code, live or not. *)
Draw(m) ==
    /\ Goto(m, "draw", "claim")
    /\ attempts[m] < MaxAttempts
    /\ attempts' = [attempts EXCEPT ![m] = @ + 1]
    /\ \E c \in Codes : code' = [code EXCEPT ![m] = c]
    /\ UNCHANGED <<target, file, resp, held, taken>>

(* Mutant of Exhausted: the last attempt is not made. *)
ExhaustedEarly(m) == attempts[m] = MaxAttempts - 1 /\ Only(m, "draw", 500)

(* Every attempt found its code taken. *)
Exhausted(m) == attempts[m] = MaxAttempts /\ Only(m, "draw", 500)

(* Mutant of Claimed: SET, which replaces a key that is there. *)
ClaimedOver(m) ==
    /\ target' = [target EXCEPT ![code[m]] = file[m]]
    /\ held' = [held EXCEPT ![code[m]] = @ \cup {m}]

(* SETNX sets a key that is not there and says so. *)
Claimed(m) ==
    /\ target[code[m]] = NoFile
    /\ target' = [target EXCEPT ![code[m]] = file[m]]
    /\ held' = [held EXCEPT ![code[m]] = @ \cup {m}]

Claim(m) ==
    /\ Goto(m, "claim", "reply")
    /\ Claimed(m)
    /\ UNCHANGED <<reqVars, resp, taken>>

(* The code is taken: the loop draws again. *)
Taken(m, from) ==
    /\ Goto(m, from, "draw")
    /\ target[code[m]] # NoFile
    /\ taken' = [taken EXCEPT ![m] = IF @ < MaxAttempts THEN @ + 1 ELSE @]
    /\ UNCHANGED <<target, reqVars, resp, held>>

Collide(m) == Taken(m, "claim")

(* The first SETNX was executed and its answer lost: sent again, it finds the *)
(* key it has just set, and the loop draws another code.                      *)
ClaimAckLost(m) ==
    /\ "ackLost" \in Faults
    /\ Goto(m, "claim", "again")
    /\ Claimed(m)
    /\ UNCHANGED <<reqVars, resp, taken>>

ClaimAgain(m) ==
    \/ Goto(m, "again", "reply") /\ Claimed(m) /\ UNCHANGED <<reqVars, resp, taken>>
    \/ Taken(m, "again")

(* The error of a SETNX: only lost answers leave a key behind. *)
ClaimRefused(m) == "refused" \in Faults /\ (Only(m, "claim", 500) \/ Only(m, "again", 500))

MintReply(m) == Only(m, "reply", 201)

-----------------------------------------------------------------------------
(* Redeem a code: known codes and any other a client types. *)
RedeemBegin(r) ==
    /\ Goto(r, "idle", "resolve")
    /\ \E c \in Codes : code' = [code EXCEPT ![r] = c]
    /\ UNCHANGED <<target, file, attempts, resp, held, taken>>

Resolve(r) ==
    /\ pc[r] = "resolve" /\ target[code[r]] # NoFile
    /\ Answer(r, "resolve", 200)
    /\ file' = [file EXCEPT ![r] = target[code[r]]]
    /\ UNCHANGED <<target, code, attempts, held, taken>>

(* Unknown or expired: the answer is the same. *)
ResolveNone(r) == pc[r] = "resolve" /\ target[code[r]] = NoFile /\ Only(r, "resolve", 404)

ResolveRefused(r) == "refused" \in Faults /\ Only(r, "resolve", 500)

-----------------------------------------------------------------------------
(* The TTL of a code has passed. *)
Expire(c) ==
    /\ target[c] # NoFile
    /\ target' = [target EXCEPT ![c] = NoFile]
    /\ held' = [held EXCEPT ![c] = {}]
    /\ UNCHANGED <<pc, reqVars, resp, taken>>

HandleMint(m) ==
    \/ Draw(m) \/ Exhausted(m) \/ Claim(m) \/ Collide(m) \/ ClaimAckLost(m) \/ ClaimAgain(m)
    \/ ClaimRefused(m) \/ MintReply(m)

HandleRedeem(r) == Resolve(r) \/ ResolveNone(r) \/ ResolveRefused(r)

Next ==
    \/ \E m \in Mints : MintReject(m) \/ MintBegin(m) \/ HandleMint(m)
    \/ \E r \in Redeems : RedeemBegin(r) \/ HandleRedeem(r)
    \/ \E c \in Codes : Expire(c)

(* A started handler runs on, and the calls it makes return. *)
Spec ==
    /\ Init /\ [][Next]_vars
    /\ \A m \in Mints : WF_vars(HandleMint(m))
    /\ \A r \in Redeems : WF_vars(HandleRedeem(r))
-----------------------------------------------------------------------------
(* Properties *)

(* A live code means the file of the request that got it, and of no other:    *)
(* no mint, a repeated SETNX included, ever moves a live code to another file *)
(* ("a new code can never collide with a live one").                          *)
CodeMeansItsFile == \A c \in Codes : \A m \in held[c] : target[c] = file[m]

(* A mint gives up only after MaxAttempts draws that all met a live code; one *)
(* of these may be a code it has itself claimed without learning of it.       *)
NoFalseExhaustion ==
    [][\A m \in Mints : pc[m] = "draw" /\ resp'[m] = 500 => taken[m] = MaxAttempts]_vars

(* However many codes are live, a mint ends, with a code or with an error.    *)
EveryMintEnds == \A m \in Mints : pc[m] = "draw" ~> pc[m] = "done"
===============================================================================
