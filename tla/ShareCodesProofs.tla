-------------------------- MODULE ShareCodesProofs --------------------------
(***************************************************************************)
(* Proofs about ShareCodes, for any requests, codes and files, any number  *)
(* of attempts, with or without errors and lost answers.                   *)
(*                                                                         *)
(* The inductive invariant has a part for codes and a part for mints: a    *)
(* code that is not live is held by nobody, and who holds a live one has   *)
(* its file (Named); a mint that draws has met a live code with each of    *)
(* its draws, and one that waits for a SETNX with all but the last (Drawn).*)
(***************************************************************************)
EXTENDS ShareCodes, TLAPS

Named(c) ==
    /\ target[c] = NoFile => held[c] = {}
    /\ \A m \in held[c] : target[c] = file[m] /\ pc[m] # "idle"

Drawn(m) ==
    /\ pc[m] # "resolve"
    /\ resp[m] # 0 => pc[m] = "done"
    /\ pc[m] \in {"draw", "claim", "again", "reply"} => file[m] \in Files
    /\ pc[m] \in {"claim", "again"} => code[m] \in Codes
    /\ pc[m] = "idle" => taken[m] = 0 /\ attempts[m] = 0
    /\ pc[m] = "draw" => taken[m] = attempts[m]
    /\ pc[m] \in {"claim", "again"} => attempts[m] = taken[m] + 1

Redeeming(r) == pc[r] = "resolve" => code[r] \in Codes

IInv ==
    /\ TypeOK
    /\ \A c \in Codes : Named(c)
    /\ \A m \in Mints : Drawn(m)
    /\ \A r \in Redeems : Redeeming(r)

(* The initial states satisfy the invariant. *)
LEMMA InitInv == Init => IInv
BY ShareAssumption DEF Init, IInv, TypeOK, Named, Drawn, Redeeming, Reqs

-----------------------------------------------------------------------------
(* What a step of one request may not forget. *)
LEMMA StepOfRequest ==
  ASSUME IInv, TypeOK', NEW q \in Reqs,
         \A r \in Reqs : r # q => /\ pc'[r] = pc[r] /\ file'[r] = file[r]
                                  /\ code'[r] = code[r] /\ resp'[r] = resp[r],
         \A m \in Mints : m # q => attempts'[m] = attempts[m] /\ taken'[m] = taken[m],
         q \in Mints => Drawn(q)',
         q \in Redeems => Redeeming(q)',
         \A c \in Codes : Named(c)'
  PROVE  IInv'
BY DEF IInv, Drawn, Redeeming, Reqs

(* The steps of a mint keep the invariant. *)
LEMMA MintInv ==
  ASSUME IInv, NEW m \in Mints, MintReject(m) \/ MintBegin(m) \/ HandleMint(m)
  PROVE  IInv'
<1> USE ShareAssumption DEF IInv, Goto, Answer, Only, reqVars
<1>0. TypeOK /\ m \in Reqs /\ Drawn(m) /\ m \notin Redeems  BY DEF Reqs
<1>1. CASE MintReject(m)
  <2>1. TypeOK'  BY <1>0, <1>1 DEF MintReject, TypeOK
  <2>2. Drawn(m)'  BY <1>0, <1>1 DEF MintReject, TypeOK, Drawn
  <2>3. \A c \in Codes : Named(c)'  BY <1>0, <1>1 DEF MintReject, TypeOK, Named, Reqs
  <2> QED BY <1>0, <1>1, <2>1, <2>2, <2>3, StepOfRequest DEF MintReject, TypeOK
<1>2. CASE MintBegin(m)
  <2>1. TypeOK'  BY <1>0, <1>2 DEF MintBegin, TypeOK
  <2>2. Drawn(m)'  BY <1>0, <1>2 DEF MintBegin, TypeOK, Drawn
  <2>3. \A c \in Codes : Named(c)'  BY <1>0, <1>2 DEF MintBegin, TypeOK, Named, Reqs
  <2> QED BY <1>0, <1>2, <2>1, <2>2, <2>3, StepOfRequest DEF MintBegin, TypeOK
<1>3. CASE Draw(m)
  <2>1. TypeOK'  BY <1>0, <1>3 DEF Draw, TypeOK
  <2>2. Drawn(m)' /\ \A c \in Codes : Named(c)'  BY <1>0, <1>3 DEF Draw, TypeOK, Drawn, Named
  <2> QED BY <1>0, <1>3, <2>1, <2>2, StepOfRequest DEF Draw, TypeOK
<1>4. CASE Exhausted(m) \/ ClaimRefused(m) \/ MintReply(m)
  <2>1. TypeOK'  BY <1>0, <1>4 DEF Exhausted, ClaimRefused, MintReply, TypeOK
  <2>2. Drawn(m)'  BY <1>0, <1>4 DEF Exhausted, ClaimRefused, MintReply, TypeOK, Drawn
  <2>3. \A c \in Codes : Named(c)'
    BY <1>0, <1>4 DEF Exhausted, ClaimRefused, MintReply, TypeOK, Named, Reqs
  <2> QED BY <1>0, <1>4, <2>1, <2>2, <2>3, StepOfRequest DEF Exhausted, ClaimRefused, MintReply, TypeOK
<1>5. ASSUME pc[m] \in {"claim", "again"}, Claimed(m), UNCHANGED <<reqVars, resp, taken>>,
             NEW to \in {"reply", "again"}, pc' = [pc EXCEPT ![m] = to],
             to = "again" => pc[m] = "claim"
      PROVE  IInv'
  <2>1. code[m] \in Codes /\ file[m] \in Files  BY <1>0, <1>5 DEF Drawn
  <2>2. TypeOK'  BY <1>0, <1>5, <2>1 DEF Claimed, TypeOK
  <2>3. Drawn(m)'  BY <1>0, <1>5 DEF TypeOK, Drawn
  <2>4. \A c \in Codes : Named(c)'  BY <1>0, <1>5, <2>1 DEF Claimed, TypeOK, Named
  <2> QED BY <1>0, <1>5, <2>2, <2>3, <2>4, StepOfRequest DEF TypeOK
<1>6. ASSUME NEW from \in {"claim", "again"}, Taken(m, from) PROVE IInv'
  <2>1. TypeOK'  BY <1>0, <1>6 DEF Taken, TypeOK
  <2>2. Drawn(m)'  BY <1>0, <1>6 DEF Taken, TypeOK, Drawn
  <2>3. \A c \in Codes : Named(c)'  BY <1>0, <1>6 DEF Taken, TypeOK, Named
  <2> QED BY <1>0, <1>6, <2>1, <2>2, <2>3, StepOfRequest DEF Taken, TypeOK
<1> QED
  BY <1>1, <1>2, <1>3, <1>4, <1>5, <1>6
  DEF HandleMint, Claim, Collide, ClaimAckLost, ClaimAgain

(* The steps of a redeem keep it. *)
LEMMA RedeemInv ==
  ASSUME IInv, NEW r \in Redeems, RedeemBegin(r) \/ HandleRedeem(r)
  PROVE  IInv'
<1> USE ShareAssumption DEF IInv, Goto, Answer, Only, reqVars
<1>0. TypeOK /\ r \in Reqs /\ r \notin Mints /\ Redeeming(r)  BY DEF Reqs
<1>1. TypeOK'
  <2>1. CASE RedeemBegin(r)  BY <1>0, <2>1 DEF RedeemBegin, TypeOK
  <2>2. CASE Resolve(r)  BY <1>0, <2>2 DEF Resolve, TypeOK, Redeeming
  <2>3. CASE ResolveNone(r) \/ ResolveRefused(r)
    BY <1>0, <2>3 DEF ResolveNone, ResolveRefused, TypeOK
  <2> QED BY <2>1, <2>2, <2>3 DEF HandleRedeem
<1>2. Redeeming(r)'
  BY <1>0 DEF RedeemBegin, HandleRedeem, Resolve, ResolveNone, ResolveRefused, TypeOK, Redeeming
<1>3. /\ \A q \in Reqs : q # r => /\ pc'[q] = pc[q] /\ file'[q] = file[q]
                                  /\ code'[q] = code[q] /\ resp'[q] = resp[q]
      /\ UNCHANGED <<target, held, attempts, taken>>
  BY <1>0 DEF RedeemBegin, HandleRedeem, Resolve, ResolveNone, ResolveRefused, TypeOK
<1>4. \A c \in Codes : Named(c)'
  BY <1>0, <1>3 DEF Named, TypeOK, Reqs
<1> QED BY <1>0, <1>1, <1>2, <1>3, <1>4, StepOfRequest

(* Every step keeps it. *)
LEMMA NextInv == IInv /\ [Next]_vars => IInv'
<1> SUFFICES ASSUME IInv, [Next]_vars PROVE IInv'
  OBVIOUS
<1>1. ASSUME NEW c \in Codes, Expire(c) PROVE IInv'
  <2> USE ShareAssumption, <1>1 DEF IInv, Expire, reqVars
  <2>1. TypeOK'  BY DEF TypeOK
  <2>2. \A d \in Codes : Named(d)'  BY DEF TypeOK, Named
  <2>3. \A m \in Mints : Drawn(m)'  BY DEF Drawn
  <2>4. \A r \in Redeems : Redeeming(r)'  BY DEF Redeeming
  <2> QED BY <2>1, <2>2, <2>3, <2>4
<1>2. CASE UNCHANGED vars
  BY <1>2 DEF vars, reqVars, IInv, TypeOK, Named, Drawn, Redeeming
<1> QED BY <1>1, <1>2, MintInv, RedeemInv DEF Next

(* The invariant holds throughout. *)
LEMMA Invariance == Spec => []IInv
BY InitInv, NextInv, PTL DEF Spec

-----------------------------------------------------------------------------
(* The variables keep their types; a mint draws no more than MaxAttempts codes. *)
THEOREM TypeCorrect == Spec => []TypeOK
<1>1. IInv => TypeOK  BY DEF IInv
<1> QED BY Invariance, <1>1, PTL

(* While a code is live it means the file of the mint that claimed it: SETNX   *)
(* (Store.Create) moves no live code, however many mints draw it, and whatever *)
(* answers are lost.                                                           *)
THEOREM CodesAreStable == Spec => []CodeMeansItsFile
<1>1. IInv => CodeMeansItsFile  BY DEF IInv, Named, CodeMeansItsFile
<1> QED BY Invariance, <1>1, PTL

(* The error of the loop of Store.Create is true: each of its attempts met a *)
(* live code.                                                                *)
THEOREM ExhaustionIsTrue == Spec => NoFalseExhaustion
<1> DEFINE Met == \A m \in Mints : pc[m] = "draw" /\ resp'[m] = 500 => taken[m] = MaxAttempts
<1>1. IInv /\ [Next]_vars => [Met]_vars
  <2> SUFFICES ASSUME IInv, [Next]_vars, NEW m \in Mints, pc[m] = "draw", resp'[m] = 500
               PROVE  taken[m] = MaxAttempts
    OBVIOUS
  <2> USE ShareAssumption DEF Goto, Answer, Only
  <2>1. TypeOK /\ Drawn(m) /\ m \in Reqs /\ m \notin Redeems  BY DEF IInv, Reqs
  <2>2. resp[m] # resp'[m]  BY <2>1 DEF Drawn
  <2>3. ASSUME NEW n \in Mints, n # m, MintReject(n) \/ MintBegin(n) \/ HandleMint(n)
        PROVE  FALSE
    BY <2>1, <2>2, <2>3
    DEF TypeOK, Reqs, MintReject, MintBegin, HandleMint, Draw, Exhausted, Claim, Collide, Taken,
        ClaimAckLost, ClaimAgain, ClaimRefused, MintReply
  <2>4. ASSUME MintReject(m) \/ MintBegin(m) \/ HandleMint(m) PROVE Exhausted(m)
    BY <2>1, <2>2, <2>4
    DEF TypeOK, MintReject, MintBegin, HandleMint, Draw, Claim, Collide, Taken,
        ClaimAckLost, ClaimAgain, ClaimRefused, MintReply
  <2>5. ASSUME NEW r \in Redeems, RedeemBegin(r) \/ HandleRedeem(r) PROVE FALSE
    BY <2>1, <2>2, <2>5
    DEF TypeOK, Reqs, RedeemBegin, HandleRedeem, Resolve, ResolveNone, ResolveRefused
  <2>6. ~UNCHANGED vars /\ \A c \in Codes : ~Expire(c)  BY <2>2 DEF vars, Expire
  <2>7. Exhausted(m)  BY <2>3, <2>4, <2>5, <2>6 DEF Next
  <2> QED BY <2>1, <2>7 DEF Exhausted, Drawn
<1> QED BY Invariance, <1>1, PTL DEF Spec, NoFalseExhaustion
=============================================================================
