------------------------- MODULE RequestChainProofs -------------------------
(***************************************************************************)
(* Proofs about RequestChain, for any set of requests.                     *)
(*                                                                         *)
(* The inductive invariant says what each layer finds on the way in        *)
(* (Inward), what an error may rely on until it is translated (Pending),   *)
(* what a panic leaves (Broken), and what a handler that ran may rely on   *)
(* (Guarded).                                                              *)
(***************************************************************************)
EXTENDS RequestChain, TLAPS

(* Nothing has happened to the response before the guard has let it pass. *)
Inward(r) ==
    pc[r] \in {"idle", "cors", "guard", "handler"} =>
        err[r] = 0 /\ body[r] = "none" /\ ~sentAt[r] /\ ~aborted[r] /\ ~ran[r]

(* An error finds the header not yet sent, and is the response when the *)
(* request leaves ErrorHandler.                                         *)
Pending(r) ==
    err[r] # 0 => /\ pc[r] \in {"log", "translate"} => ~sentAt[r]
                  /\ pc[r] \in {"flush", "done"} => status[r] = err[r] /\ body[r] = "error"

(* A panic comes before any response. *)
Broken(r) ==
    /\ pc[r] = "panic" => panicked[r]
    /\ panicked[r] => pc[r] \in {"panic", "flush", "done"} /\ err[r] = 0 /\ body[r] = "none"

(* What NeverPastAGuard promises, and that the handler is not reached without it. *)
Guarded(r) ==
    /\ Guard(r) = "bearer" /\ (pc[r] = "handler" \/ ran[r]) =>
           req[r].token = "valid" /\ ~NoSigner(r)
    /\ pc[r] = "handler" \/ ran[r] => Mounted(r)
    /\ ran[r] /\ NoSigner(r) => body[r] # "data" /\ (err[r] = 400 \/ panicked[r])
    /\ aborted[r] => body[r] # "data" /\ (ran[r] => panicked[r])

ChainOK(r) == Inward(r) /\ Pending(r) /\ Broken(r) /\ Guarded(r)

IInv == TypeOK /\ \A r \in Reqs : ChainOK(r)

(* The initial states satisfy the invariant. *)
LEMMA InitInv == Init => IInv
<1> SUFFICES ASSUME Init PROVE IInv
  OBVIOUS
<1>1. TypeOK  BY DEF Init, TypeOK, writer
<1>2. \A r \in Reqs : ChainOK(r)
  BY DEF Init, ChainOK, Inward, Pending, Broken, Guarded
<1> QED BY <1>1, <1>2 DEF IInv

-----------------------------------------------------------------------------
(* A step of one request leaves the others, and what main found, alone. *)
LEMMA StepOfRequest ==
  ASSUME IInv, NEW q \in Reqs, Arrive(q) \/ Handle(q), NEW r \in Reqs, r # q
  PROVE  ChainOK(r)'
<1> USE DEF Goto, SetStatus, Write, Attach, Panic, Refuse, writer, TypeOK
<1>0. TypeOK /\ ChainOK(r)  BY DEF IInv
<1>1. /\ pc'[r] = pc[r] /\ err'[r] = err[r] /\ body'[r] = body[r] /\ status'[r] = status[r]
      /\ sentAt'[r] = sentAt[r] /\ aborted'[r] = aborted[r] /\ ran'[r] = ran[r]
      /\ panicked'[r] = panicked[r] /\ req' = req /\ found' = found
  <2>1. CASE Arrive(q)  BY <1>0, <2>1 DEF Arrive
  <2>2. CASE Preflight(q) \/ CorsPass(q)  BY <1>0, <2>2 DEF Preflight, CorsPass
  <2>3. CASE NoRoute(q) \/ BearerRefused(q) \/ BearerPanic(q) \/ Throttle(q) \/ GuardPass(q)
    BY <1>0, <2>3 DEF NoRoute, BearerRefused, BearerPanic, Throttle, GuardPass
  <2>4. CASE Handler(q) \/ HandlerPanic(q)
    BY <1>0, <2>4 DEF Handler, HandlerPanic
  <2>5. CASE Log(q) \/ Translate(q) \/ Recover(q) \/ Flush(q)
    BY <1>0, <2>5 DEF Log, Translate, Recover, Flush
  <2> QED BY <2>1, <2>2, <2>3, <2>4, <2>5 DEF Handle
<1> QED
  BY <1>0, <1>1
  DEF ChainOK, Inward, Pending, Broken, Guarded, Guard, NoSigner, Mounted, Feature, Wired

(* The steps on the way in keep the invariant of their request. *)
LEMMA InwardStep ==
  ASSUME IInv, NEW r \in Reqs,
         \/ Arrive(r) \/ Preflight(r) \/ CorsPass(r) \/ NoRoute(r)
         \/ BearerRefused(r) \/ BearerPanic(r) \/ Throttle(r) \/ GuardPass(r)
  PROVE  TypeOK' /\ ChainOK(r)'
<1> USE DEF Goto, SetStatus, Write, Attach, Panic, Refuse, writer, TypeOK, ChainOK,
            Inward, Pending, Broken, Guarded, Refusals
<1>0. TypeOK /\ ChainOK(r)  BY DEF IInv
<1>1. Guard(r)' = Guard(r) /\ NoSigner(r)' = NoSigner(r) /\ Mounted(r)' = Mounted(r)
  BY DEF Guard, NoSigner, Mounted, Feature, Wired, Arrive, Preflight, CorsPass, NoRoute,
         BearerRefused, BearerPanic, Throttle, GuardPass
<1>2. CASE Arrive(r)  BY <1>0, <1>1, <1>2 DEF Arrive
<1>3. CASE Preflight(r)  BY <1>0, <1>1, <1>3 DEF Preflight
<1>4. CASE CorsPass(r)  BY <1>0, <1>1, <1>4 DEF CorsPass
<1>5. CASE NoRoute(r)  BY <1>0, <1>1, <1>5 DEF NoRoute
<1>6. CASE BearerRefused(r)  BY <1>0, <1>1, <1>6 DEF BearerRefused
<1>7. CASE BearerPanic(r)  BY <1>0, <1>1, <1>7 DEF BearerPanic
<1>8. CASE Throttle(r)  BY <1>0, <1>1, <1>8 DEF Throttle
<1>9. CASE GuardPass(r)  BY <1>0, <1>1, <1>9 DEF GuardPass
<1> QED BY <1>2, <1>3, <1>4, <1>5, <1>6, <1>7, <1>8, <1>9

(* The handler, and the steps on the way out, keep it too. *)
LEMMA OutwardStep ==
  ASSUME IInv, NEW r \in Reqs,
         \/ Handler(r) \/ HandlerPanic(r)
         \/ Log(r) \/ Translate(r) \/ Recover(r) \/ Flush(r)
  PROVE  TypeOK' /\ ChainOK(r)'
<1> USE DEF Goto, SetStatus, Write, Attach, Panic, writer, TypeOK, ChainOK,
            Inward, Pending, Broken, Guarded, Refusals
<1>0. TypeOK /\ ChainOK(r)  BY DEF IInv
<1>1. Guard(r)' = Guard(r) /\ NoSigner(r)' = NoSigner(r) /\ Mounted(r)' = Mounted(r)
  BY DEF Guard, NoSigner, Mounted, Feature, Wired, Handler, HandlerPanic, Log, Translate, Recover, Flush
<1>2. CASE Handler(r)
  <2>1. ASSUME NEW s \in Refusals, Attach(r, s), UNCHANGED writer PROVE TypeOK' /\ ChainOK(r)'
    <3>1. TypeOK'  BY <1>0, <1>2, <2>1 DEF Handler
    <3>2. ChainOK(r)'  BY <1>0, <1>1, <1>2, <2>1 DEF Handler
    <3> QED BY <3>1, <3>2
  <2>2. ASSUME NEW s \in {200, 201}, Write(r, s, "data"), UNCHANGED err
        PROVE  TypeOK' /\ ChainOK(r)'
    <3>1. TypeOK'  BY <1>0, <1>2, <2>2 DEF Handler
    <3>2. ChainOK(r)'  BY <1>0, <1>1, <1>2, <2>2 DEF Handler
    <3> QED BY <3>1, <3>2
  <2>3. ASSUME SetStatus(r, 204), UNCHANGED <<body, sentAt, err>>
        PROVE  TypeOK' /\ ChainOK(r)'
    <3>1. TypeOK'  BY <1>0, <1>2, <2>3 DEF Handler
    <3>2. ChainOK(r)'  BY <1>0, <1>1, <1>2, <2>3 DEF Handler
    <3> QED BY <3>1, <3>2
  <2> QED BY <1>2, <2>1, <2>2, <2>3 DEF Handler
<1>3. CASE HandlerPanic(r)  BY <1>0, <1>1, <1>3 DEF HandlerPanic
<1>4. CASE Log(r)  BY <1>0, <1>1, <1>4 DEF Log
<1>5. CASE Translate(r)
  <2>1. CASE err[r] # 0
    <3>1. Write(r, err[r], "error")  BY <1>0, <1>5, <2>1 DEF Translate
    <3>2. TypeOK'  BY <1>0, <1>5, <3>1 DEF Translate
    <3>3. ChainOK(r)'  BY <1>0, <1>1, <1>5, <2>1, <3>1 DEF Translate
    <3> QED BY <3>2, <3>3
  <2>2. CASE err[r] = 0  BY <1>0, <1>1, <1>5, <2>2 DEF Translate
  <2> QED BY <2>1, <2>2
<1>6. CASE Recover(r)
  <2>0. err[r] = 0 /\ body[r] = "none" /\ panicked[r]  BY <1>0, <1>6 DEF Recover
  <2>1. CASE sentAt[r]  BY <1>0, <1>1, <1>6, <2>0, <2>1 DEF Recover
  <2>2. CASE ~sentAt[r]
    <3>1. TypeOK'
      <4>1. /\ status' = [status EXCEPT ![r] = 500] /\ sentAt' = [sentAt EXCEPT ![r] = TRUE]
            /\ aborted' = [aborted EXCEPT ![r] = TRUE] /\ pc' = [pc EXCEPT ![r] = "flush"]
            /\ UNCHANGED <<found, req, body, err, line, ran, panicked>>
        BY <1>6, <2>2 DEF Recover
      <4> HIDE DEF ChainOK, Inward, Pending, Broken, Guarded
      <4>2. status' \in [Reqs -> {200, 201, 204, 429} \cup Refusals]
        BY <1>0, <4>1
      <4> QED BY <1>0, <4>1, <4>2
    <3>2. ChainOK(r)'  BY <1>0, <1>1, <1>6, <2>0, <2>2 DEF Recover
    <3> QED BY <3>1, <3>2
  <2> QED BY <2>1, <2>2
<1>7. CASE Flush(r)  BY <1>0, <1>1, <1>7 DEF Flush
<1> QED BY <1>2, <1>3, <1>4, <1>5, <1>6, <1>7

(* The invariant holds in every reachable state. *)
LEMMA Invariance == Spec => []IInv
<1>1. IInv /\ [Next]_vars => IInv'
  <2> SUFFICES ASSUME IInv, [Next]_vars PROVE IInv'
    OBVIOUS
  <2>1. ASSUME NEW q \in Reqs, Arrive(q) \/ Handle(q) PROVE IInv'
    <3>1. TypeOK' /\ ChainOK(q)'  BY <2>1, InwardStep, OutwardStep DEF Handle
    <3>2. \A r \in Reqs \ {q} : ChainOK(r)'  BY <2>1, StepOfRequest
    <3> QED BY <3>1, <3>2 DEF IInv
  <2>2. CASE UNCHANGED vars
    BY <2>2
    DEF IInv, vars, writer, TypeOK, ChainOK, Inward, Pending, Broken, Guarded, Guard,
        NoSigner, Mounted, Feature, Wired
  <2> QED BY <2>1, <2>2 DEF Next
<1> QED BY InitInv, <1>1, PTL DEF Spec

(* The variables keep their types, for any set of requests. *)
THEOREM TypeCorrect == Spec => []TypeOK
<1>1. IInv => TypeOK  BY DEF IInv
<1> QED BY <1>1, Invariance, PTL

(* The error that a guard or a handler attaches (c.Error) is the answer of   *)
(* ErrorHandler: no layer between the two has sent anything before.          *)
THEOREM ErrorsReachClients == Spec => []ErrorReachesClient
<1>1. IInv => ErrorReachesClient
  BY DEF IInv, ChainOK, Pending, ErrorReachesClient, Done
<1> QED BY <1>1, Invariance, PTL

(* No handler behind RequireAuth runs without a valid token, none of a feature *)
(* without its dependencies answers data, and neither does an aborted chain.   *)
THEOREM GuardsHold == Spec => []NeverPastAGuard
<1>1. ASSUME IInv PROVE NeverPastAGuard
  <2> SUFFICES ASSUME NEW r \in Reqs
               PROVE  /\ ran[r] /\ Guard(r) = "bearer" => req[r].token = "valid"
                      /\ ran[r] /\ ~Wired(Feature(r)) =>
                            /\ req[r].route = <<"auth", "open">>
                            /\ body[r] # "data" /\ (err[r] = 400 \/ panicked[r])
                      /\ aborted[r] => body[r] # "data" /\ (ran[r] => panicked[r])
    BY DEF NeverPastAGuard
  <2>1. Guarded(r)  BY <1>1 DEF IInv, ChainOK
  <2>2. ASSUME ran[r], ~Wired(Feature(r))
        PROVE  NoSigner(r) /\ Guard(r) # "bearer"
    BY <2>1, <2>2 DEF Guarded, Mounted, NoSigner
  <2>3. ASSUME NoSigner(r), Guard(r) # "bearer"
        PROVE  req[r].route = <<"auth", "open">>
    <3>1. req[r].route \in Routes  BY <1>1 DEF IInv, TypeOK, Requests
    <3>2. req[r].route[1] = "auth" /\ req[r].route[2] # "bearer"
      BY <2>3 DEF NoSigner, Feature, Guard
    <3> QED BY <3>1, <3>2 DEF Routes
  <2> QED BY <2>1, <2>2, <2>3 DEF Guarded
<1> QED BY <1>1, Invariance, PTL
=============================================================================
