---------------------------- MODULE ServerProofs ----------------------------
(***************************************************************************)
(* Proofs about Server, for any processes, environments, requests and      *)
(* mailboxes, and any set of faults.                                       *)
(*                                                                         *)
(* The inductive invariant says where main stands of what it has opened    *)
(* (ProcOK), and where main stands of the calls that are still running     *)
(* (ReqOK): once Disconnect has begun, a handler runs only beyond the ten  *)
(* seconds, and once it has returned, so does a count on its way.          *)
(***************************************************************************)
EXTENDS Server, TLAPS

Unbuilt == {"down", "mongo", "redis", "auth"}
Serving == {"notify", "wait"} \cup Stopping

(* What main has done by each phase. *)
ProcOK(p) ==
    /\ proc[p].phase \in Unbuilt => proc[p].mounted = {} /\ ~proc[p].unindexed
    /\ proc[p].phase \notin {"down", "exited"} => Problems(raw) = {}
    /\ proc[p].lis # "none" => proc[p].phase \in Serving
    /\ proc[p].lis = "serving" => proc[p].phase \in {"notify", "wait"}
    /\ "auth" \in proc[p].mounted => indexed \/ proc[p].unindexed
    /\ proc[p].mounted # {} => proc[p].mongo # "none"
    /\ proc[p].mongo = "open" => proc[p].phase \notin {"disconnect", "close"}
    /\ proc[p].mongo = "closing" => proc[p].phase = "disconnect"
    /\ proc[p].mongo = "closed" => proc[p].phase = "close"
    /\ IsProduction(raw) =>
        /\ proc[p].phase \in {"redis", "auth"} => proc[p].mongo = "open"
        /\ proc[p].phase \in {"auth", "uploads"} \cup Serving => proc[p].redis = "open"
        /\ proc[p].phase \in {"uploads"} \cup Serving => "auth" \in proc[p].mounted

(* Where a request, or the count behind it, may still be running. *)
ReqOK(r) ==
    /\ req[r].st \in Working =>
        /\ req[r].at \in Procs
        /\ proc[req[r].at].phase \in Serving /\ proc[req[r].at].mongo # "none"
        /\ proc[req[r].at].phase \in {"disconnect", "close"} => proc[req[r].at].late
        /\ req[r].kind \in {"register", "presign"} /\ req[r].mail \in Mails
        /\ req[r].kind = "register" => "auth" \in proc[req[r].at].mounted
    /\ req[r].bump \in {"spawned", "calling"} =>
        /\ req[r].at \in Procs
        /\ proc[req[r].at].phase \in Serving /\ proc[req[r].at].mongo # "none"
        /\ req[r].bump = "calling" /\ proc[req[r].at].phase = "close" => proc[req[r].at].late

IInv ==
    /\ TypeOK
    /\ \A p \in Procs : ProcOK(p)
    /\ \A r \in Requests : ReqOK(r)
    /\ OneAccountOrWarned

(* The initial states satisfy the invariant. *)
LEMMA InitInv == Init => IInv
<1> SUFFICES ASSUME Init PROVE IInv
  OBVIOUS
<1> USE ServerAssumption DEF Init, Down, Unsent, Phases, Booting, Stopping, Working, Unbuilt, Serving
<1>1. TypeOK
  BY DEF TypeOK, Process, Request
<1>2. \A p \in Procs : ProcOK(p)
  BY DEF ProcOK
<1>3. \A r \in Requests : ReqOK(r)
  BY DEF ReqOK
<1>4. OneAccountOrWarned
  BY DEF OneAccountOrWarned, Duplicates
<1> QED BY <1>1, <1>2, <1>3, <1>4 DEF IInv

-----------------------------------------------------------------------------
(* The end of a process leaves nothing running in it, and the warning behind. *)
LEMMA ExitsInv ==
  ASSUME IInv, NEW p \in Procs, NEW code \in {"ok", "failure", "killed"},
         Exits(p, code), Same
  PROVE  IInv'
<1> USE ServerAssumption DEF IInv, TypeOK, Exits, Same, Down, Unsent, HandledBy, Pending
<1>1. TypeOK'
  <2>1. proc[p] \in Process  OBVIOUS
  <2>2. proc' \in [Procs -> Process]  BY <2>1 DEF Process, Phases
  <2>3. req' \in [Requests -> Request]  BY DEF Request
  <2> QED BY <2>2, <2>3
<1>2. ASSUME NEW q \in Procs PROVE ProcOK(q)'
  BY DEF ProcOK, Unbuilt, Serving, Stopping
<1>3. ASSUME NEW r \in Requests PROVE ReqOK(r)'
  BY DEF ReqOK, Working, Serving, Stopping
<1>4. OneAccountOrWarned'
  BY DEF OneAccountOrWarned, Duplicates
<1> QED BY <1>1, <1>2, <1>3, <1>4

(* A step of main, its deadline or its listener that goes on. *)
Onward(p) ==
    \/ LoadEnv(p) \/ ConnectMongo(p) \/ ConnectRedis(p) \/ BuildUploads(p) \/ Notify(p)
    \/ TakeSignal(p) \/ Drained(p) \/ Disconnected(p)
    \/ Deadline(p) \/ Listen(p) \/ Signal(p)

(* What a step of one process may not forget. *)
LEMMA MovesOn ==
  ASSUME IInv, UNCHANGED req, Same, NEW p \in Procs, NEW s \in Process,
         proc' = [proc EXCEPT ![p] = s],
         s.unindexed = proc[p].unindexed,
         ProcOK(p)',
         \A r \in Requests : req[r].at = p => ReqOK(r)'
  PROVE  IInv'
<1>1. TypeOK'  BY DEF IInv, TypeOK, Same
<1>2. \A q \in Procs : q # p => proc'[q] = proc[q]  BY DEF IInv, TypeOK
<1>3. proc'[p] = s  BY DEF IInv, TypeOK
<1>4. \A q \in Procs : ProcOK(q)'
  BY <1>2 DEF IInv, ProcOK, Same
<1>5. \A r \in Requests : ReqOK(r)'
  <2> SUFFICES ASSUME NEW r \in Requests, req[r].at # p PROVE ReqOK(r)'
    OBVIOUS
  <2>1. req[r].at \in Procs => proc'[req[r].at] = proc[req[r].at]  BY <1>2
  <2> QED BY <2>1 DEF IInv, ReqOK
<1>6. \A q \in Procs : proc'[q].unindexed = proc[q].unindexed  BY <1>2, <1>3
<1>7. OneAccountOrWarned'
  BY <1>6 DEF IInv, OneAccountOrWarned, Duplicates, Same
<1> QED BY <1>1, <1>4, <1>5, <1>7 DEF IInv

(* Main goes on, and is where it says it is. *)
LEMMA OnwardInv ==
  ASSUME IInv, NEW p \in Procs, Onward(p)
  PROVE  IInv' \/ \E code \in {"ok", "failure", "killed"} : Exits(p, code)
<1> SUFFICES ASSUME UNCHANGED req, Same,
                    ~\E code \in {"ok", "failure", "killed"} : Exits(p, code)
             PROVE  IInv'
  BY DEF Onward, LoadEnv, ConnectMongo, ConnectRedis, Unreachable, BuildUploads, Notify,
         TakeSignal, Drained, Disconnected, Deadline, Listen, Signal
<1> DEFINE s == proc'[p]
<1>0. ProcOK(p) /\ proc[p] \in Process /\ DOMAIN proc = Procs /\ \A r \in Requests : ReqOK(r)
  BY DEF IInv, TypeOK
<1> USE DEF Same, Phases, Booting, Stopping, Working, Unbuilt, Serving
<1>1. SUFFICES /\ s \in Process /\ s.unindexed = proc[p].unindexed
               /\ proc' = [proc EXCEPT ![p] = s]
               /\ ProcOK(p)'
               /\ \A r \in Requests : req[r].at = p => ReqOK(r)'
  BY MovesOn
<1>2. CASE LoadEnv(p)
  <2>1. s \in Process /\ s.unindexed = proc[p].unindexed /\ proc' = [proc EXCEPT ![p] = s]
    BY <1>0, <1>2 DEF LoadEnv, Process
  <2>2. ProcOK(p)'  BY <1>0, <1>2 DEF LoadEnv, ProcOK, Process
  <2>3. \A r \in Requests : req[r].at = p => ReqOK(r)'
    BY <1>0, <1>2 DEF LoadEnv, ReqOK, ProcOK, Process
  <2> QED BY <2>1, <2>2, <2>3
<1>3. CASE ConnectMongo(p)
  <2>1. s \in Process /\ s.unindexed = proc[p].unindexed /\ proc' = [proc EXCEPT ![p] = s]
    BY <1>0, <1>3 DEF ConnectMongo, Unreachable, Process
  <2>2. ProcOK(p)'  BY <1>0, <1>3 DEF ConnectMongo, Unreachable, ProcOK, Process
  <2>3. \A r \in Requests : req[r].at = p => ReqOK(r)'
    BY <1>0, <1>3 DEF ConnectMongo, Unreachable, ReqOK, ProcOK, Process
  <2> QED BY <2>1, <2>2, <2>3
<1>4. CASE ConnectRedis(p)
  <2>1. s \in Process /\ s.unindexed = proc[p].unindexed /\ proc' = [proc EXCEPT ![p] = s]
    BY <1>0, <1>4 DEF ConnectRedis, Unreachable, Process
  <2>2. ProcOK(p)'  BY <1>0, <1>4 DEF ConnectRedis, Unreachable, ProcOK, Process
  <2>3. \A r \in Requests : req[r].at = p => ReqOK(r)'
    BY <1>0, <1>4 DEF ConnectRedis, Unreachable, ReqOK, ProcOK, Process
  <2> QED BY <2>1, <2>2, <2>3
<1>5. CASE BuildUploads(p)
  <2>1. s \in Process /\ s.unindexed = proc[p].unindexed /\ proc' = [proc EXCEPT ![p] = s]
    BY <1>0, <1>5 DEF BuildUploads, Process
  <2>2. ProcOK(p)'  BY <1>0, <1>5 DEF BuildUploads, ProcOK, Process
  <2>3. \A r \in Requests : req[r].at = p => ReqOK(r)'
    BY <1>0, <1>5 DEF BuildUploads, ReqOK, ProcOK, Process
  <2> QED BY <2>1, <2>2, <2>3
<1>6. CASE Notify(p)
  <2>1. s \in Process /\ s.unindexed = proc[p].unindexed /\ proc' = [proc EXCEPT ![p] = s]
    BY <1>0, <1>6 DEF Notify, Process
  <2>2. ProcOK(p)'  BY <1>0, <1>6 DEF Notify, ProcOK, Process
  <2>3. \A r \in Requests : req[r].at = p => ReqOK(r)'
    BY <1>0, <1>6 DEF Notify, ReqOK, ProcOK, Process
  <2> QED BY <2>1, <2>2, <2>3
<1>7. CASE TakeSignal(p)
  <2>1. s \in Process /\ s.unindexed = proc[p].unindexed /\ proc' = [proc EXCEPT ![p] = s]
    BY <1>0, <1>7 DEF TakeSignal, Process
  <2>2. ProcOK(p)'  BY <1>0, <1>7 DEF TakeSignal, ProcOK, Process
  <2>3. \A r \in Requests : req[r].at = p => ReqOK(r)'
    BY <1>0, <1>7 DEF TakeSignal, ReqOK, ProcOK, Process
  <2> QED BY <2>1, <2>2, <2>3
<1>8. CASE Drained(p)
  <2>1. s \in Process /\ s.unindexed = proc[p].unindexed /\ proc' = [proc EXCEPT ![p] = s]
    BY <1>0, <1>8 DEF Drained, Disconnecting, Process
  <2>2. ProcOK(p)'  BY <1>0, <1>8 DEF Drained, Disconnecting, ProcOK, Process
  <2>3. \A r \in Requests : req[r].at = p => ReqOK(r)'
    BY <1>0, <1>8 DEF Drained, Disconnecting, HandledBy, ReqOK, ProcOK, Process
  <2> QED BY <2>1, <2>2, <2>3
<1>9. CASE Disconnected(p)
  <2>1. s \in Process /\ s.unindexed = proc[p].unindexed /\ proc' = [proc EXCEPT ![p] = s]
    BY <1>0, <1>9 DEF Disconnected, Process
  <2>2. ProcOK(p)'  BY <1>0, <1>9 DEF Disconnected, ProcOK, Process
  <2>3. \A r \in Requests : req[r].at = p => ReqOK(r)'
    BY <1>0, <1>9 DEF Disconnected, InUse, ReqOK, ProcOK, Process
  <2> QED BY <2>1, <2>2, <2>3
<1>10. CASE Deadline(p)
  <2>1. s \in Process /\ s.unindexed = proc[p].unindexed /\ proc' = [proc EXCEPT ![p] = s]
    BY <1>0, <1>10 DEF Deadline, Process
  <2>2. ProcOK(p)'  BY <1>0, <1>10 DEF Deadline, ProcOK, Process
  <2>3. \A r \in Requests : req[r].at = p => ReqOK(r)'
    BY <1>0, <1>10 DEF Deadline, ReqOK, ProcOK, Process
  <2> QED BY <2>1, <2>2, <2>3
<1>11. CASE Listen(p)
  <2>1. s \in Process /\ s.unindexed = proc[p].unindexed /\ proc' = [proc EXCEPT ![p] = s]
    BY <1>0, <1>11 DEF Listen, Process
  <2>2. ProcOK(p)'  BY <1>0, <1>11 DEF Listen, ProcOK, Process
  <2>3. \A r \in Requests : req[r].at = p => ReqOK(r)'
    BY <1>0, <1>11 DEF Listen, ReqOK, ProcOK, Process
  <2> QED BY <2>1, <2>2, <2>3
<1>12. CASE Signal(p)
  <2>0. proc[p].phase = "wait" /\ proc' = [proc EXCEPT ![p].told = TRUE]
    BY <1>12 DEF Signal
  <2>1. s \in Process /\ s.unindexed = proc[p].unindexed /\ proc' = [proc EXCEPT ![p] = s]
    BY <1>0, <2>0 DEF Process
  <2>2. ProcOK(p)'  BY <1>0, <2>0 DEF ProcOK, Process
  <2>3. \A r \in Requests : req[r].at = p => ReqOK(r)'
    BY <1>0, <2>0 DEF ReqOK, ProcOK, Process
  <2> QED BY <2>1, <2>2, <2>3
<1> QED
  BY <1>2, <1>3, <1>4, <1>5, <1>6, <1>7, <1>8, <1>9, <1>10, <1>11, <1>12 DEF Onward

(* What a step of one request may not forget. *)
LEMMA HandledInv ==
  ASSUME IInv, NEW r \in Requests, NEW t \in Request,
         UNCHANGED <<raw, proc, indexed>>,
         req' = [req EXCEPT ![r] = t], ReqOK(r)',
         accounts' \in [Mails -> Nat], OneAccountOrWarned'
  PROVE  IInv'
<1>1. TypeOK'  BY DEF IInv, TypeOK
<1>2. \A p \in Procs : ProcOK(p)'  BY DEF IInv, ProcOK
<1>3. \A q \in Requests : ReqOK(q)'  BY DEF IInv, TypeOK, ReqOK
<1> QED BY <1>1, <1>2, <1>3 DEF IInv

(* Every step keeps the invariant. *)
LEMMA NextInv == IInv /\ [Next]_vars => IInv'
<1> SUFFICES ASSUME IInv, [Next]_vars PROVE IInv'
  OBVIOUS
<1>1. ASSUME NEW p \in Procs, Onward(p) PROVE IInv'
  <2>1. Same
    BY <1>1 DEF Onward, LoadEnv, ConnectMongo, ConnectRedis, BuildUploads, Notify,
                TakeSignal, Drained, Disconnected, Deadline, Listen, Signal
  <2> QED BY <1>1, <2>1, OnwardInv, ExitsInv
<1>2. ASSUME NEW p \in Procs, Return(p) \/ ListenFails(p) \/ Kill(p) PROVE IInv'
  BY <1>2, ExitsInv DEF Return, ListenFails, Kill
<1>3. ASSUME NEW p \in Procs, BuildAuth(p) PROVE IInv'
  <2> USE <1>3, ServerAssumption
      DEF IInv, TypeOK, BuildAuth, EnsureIndexed, Phases, Booting, Stopping, Working
  <2>1. TypeOK'
    <3>1. proc[p] \in Process  OBVIOUS
    <3>2. proc' \in [Procs -> Process]  BY <3>1 DEF Process
    <3> QED BY <3>2
  <2>2. ASSUME NEW q \in Procs PROVE ProcOK(q)'
    <3>1. ProcOK(q) /\ proc[q] \in Process /\ (indexed => indexed') /\ raw' = raw  OBVIOUS
    <3>2. CASE q # p
      <4>1. proc'[q] = proc[q]  BY <3>2
      <4> QED BY <3>1, <4>1 DEF ProcOK
    <3>3. CASE q = p /\ proc[p].mongo = "open" /\ proc[p].redis = "open"
      <4>1. PICK ok \in BOOLEAN :
              /\ ok => indexed'
              /\ proc' = [proc EXCEPT ![p].phase = "uploads", ![p].mounted = {"auth"},
                                      ![p].unindexed = ~ok]
        BY <3>3
      <4>2. /\ proc'[p].phase = "uploads" /\ proc'[p].mounted = {"auth"}
            /\ proc'[p].unindexed = ~ok
            /\ proc'[p].mongo = "open" /\ proc'[p].redis = "open" /\ proc'[p].lis = proc[p].lis
        BY <3>1, <3>3, <4>1 DEF Process
      <4>3. proc[p].lis = "none" /\ Problems(raw) = {} /\ proc[p].phase = "auth"
        BY <3>1, <3>3 DEF ProcOK, Serving, Process
      <4>4. "auth" \in proc'[p].mounted => indexed' \/ proc'[p].unindexed
        BY <4>1, <4>2
      <4> QED BY <3>1, <3>3, <4>2, <4>3, <4>4 DEF ProcOK, Unbuilt, Serving
    <3>4. CASE q = p /\ ~(proc[p].mongo = "open" /\ proc[p].redis = "open")
      <4>1. proc' = [proc EXCEPT ![p].phase = "uploads"]  BY <3>4
      <4> QED BY <3>1, <3>4, <4>1 DEF ProcOK, Process, Unbuilt, Serving
    <3> QED BY <3>2, <3>3, <3>4
  <2>3. ASSUME NEW r \in Requests PROVE ReqOK(r)'
    BY DEF ReqOK, Serving
  <2>4. OneAccountOrWarned'
    BY DEF OneAccountOrWarned, Duplicates, ProcOK, Unbuilt
  <2> QED BY <2>1, <2>2, <2>3, <2>4
<1>4. ASSUME NEW r \in Requests, Arrive(r) \/ Handle(r) PROVE IInv'
  <2> DEFINE t == req'[r]
  <2> USE <1>4, ServerAssumption DEF Same, Over, Unsent, Bumped, Working
  <2>0. req[r] \in Request /\ DOMAIN req = Requests /\ ReqOK(r) /\ TypeOK /\ OneAccountOrWarned
    BY DEF IInv, TypeOK
  <2>1. UNCHANGED <<raw, proc, indexed>>
    BY DEF Arrive, Handle, Call, Registered, Presigned, TornOff, BumpCalls, BumpReturns
  <2>2. ASSUME UNCHANGED accounts PROVE OneAccountOrWarned' /\ accounts' \in [Mails -> Nat]
    BY <2>0, <2>1, <2>2 DEF OneAccountOrWarned, Duplicates, TypeOK
  <2>3. CASE Arrive(r)
    <3>1. PICK p \in Procs : (proc[p].lis = "serving" \/ Lingering(p)) /\ Dispatch(r, p)
      BY <2>3 DEF Arrive
    <3>2. UNCHANGED accounts  BY <2>3 DEF Arrive
    <3>3. CASE Over(r, "answered")
      <4>1. t = [Unsent EXCEPT !.st = "answered"] /\ req' = [req EXCEPT ![r] = t]
        BY <2>0, <3>3
      <4>2. t \in Request /\ t.st = "answered" /\ t.bump = "none"  BY <4>1 DEF Request
      <4>3. ReqOK(r)'  BY <4>2 DEF ReqOK
      <4> QED BY <2>1, <2>2, <3>2, <4>1, <4>2, <4>3, HandledInv
    <3>4. ASSUME NEW k \in {"register", "presign"}, NEW m \in Mails, Mounted(p, k),
                 req' = [req EXCEPT ![r] = [at |-> p, kind |-> k, mail |-> m, st |-> "running",
                                            bump |-> "none"]]
          PROVE  IInv'
      <4>1. /\ t = [at |-> p, kind |-> k, mail |-> m, st |-> "running", bump |-> "none"]
            /\ req' = [req EXCEPT ![r] = t]
        BY <2>0, <3>4
      <4>2. t \in Request  BY <4>1 DEF Request
      <4>3. ProcOK(p)  BY DEF IInv
      <4>4. /\ proc[p].phase \in {"notify", "wait", "drain"} /\ proc[p].mongo # "none"
            /\ k = "register" => "auth" \in proc[p].mounted
        BY <3>1, <3>4, <4>3 DEF ProcOK, Lingering, Mounted
      <4>5. ReqOK(r)'  BY <2>1, <4>1, <4>4 DEF ReqOK, Serving, Stopping
      <4> QED BY <2>1, <2>2, <3>2, <4>1, <4>2, <4>5, HandledInv
    <3> QED BY <3>1, <3>3, <3>4 DEF Dispatch
  <2>4. CASE Registered(r)
    <3>1. t \in Request /\ req' = [req EXCEPT ![r] = t]
      BY <2>0, <2>4 DEF Registered, Request
    <3>2. ReqOK(r)'  BY <2>0, <2>1, <2>4 DEF Registered, ReqOK
    <3>3. accounts' \in [Mails -> Nat]  BY <2>0, <2>4 DEF Registered, TypeOK, ReqOK
    <3>4. indexed \/ \E p \in Procs : proc[p].unindexed
      BY <2>0, <2>4 DEF Registered, ReqOK, ProcOK, IInv
    <3>5. OneAccountOrWarned'
      BY <2>0, <2>1, <2>4, <3>4 DEF Registered, Taken, OneAccountOrWarned, Duplicates, TypeOK
    <3> QED BY <2>1, <3>1, <3>2, <3>3, <3>5, HandledInv
  <2> DEFINE Good == t \in Request /\ req' = [req EXCEPT ![r] = t] /\ ReqOK(r)'
  <2>5. req[r].at \in Procs => ProcOK(req[r].at)  BY DEF IInv
  <2>6. Call(r) => Good
    BY <2>0, <2>1, <2>5 DEF Call, Request, ReqOK, ProcOK
  <2>7. ASSUME Presigned(r) PROVE Good
    <3>1. t \in Request /\ req' = [req EXCEPT ![r] = t]
      BY <2>0, <2>7 DEF Presigned, Request
    <3>2. /\ t.st = "answered" /\ t.bump = "spawned" /\ t.at = req[r].at
          /\ req[r].st \in Working
      BY <2>0, <2>7 DEF Presigned, Request
    <3> QED BY <2>0, <2>1, <3>1, <3>2 DEF ReqOK
  <2>8. TornOff(r) => Good
    BY <2>0, <2>1, <2>5 DEF TornOff, Request, ReqOK, ProcOK
  <2>9. ASSUME BumpCalls(r) PROVE Good
    <3>1. CASE proc[req[r].at].mongo = "open"
      <4>1. req[r].bump = "spawned" /\ req' = [req EXCEPT ![r].bump = "calling"]
        BY <2>9, <3>1 DEF BumpCalls
      <4>2. t = [req[r] EXCEPT !.bump = "calling"] /\ req' = [req EXCEPT ![r] = t]
        BY <2>0, <4>1
      <4>3. t \in Request  BY <2>0, <4>2 DEF Request
      <4>4. /\ t.at = req[r].at /\ t.kind = req[r].kind /\ t.mail = req[r].mail
            /\ t.st = req[r].st /\ t.bump = "calling"
        BY <2>0, <4>2 DEF Request
      <4>5. req[r].at \in Procs => proc[req[r].at].phase # "close"
        BY <2>5, <3>1 DEF ProcOK
      <4>6. ReqOK(r)'
        BY <2>0, <2>1, <4>1, <4>4, <4>5 DEF ReqOK
      <4> QED BY <4>2, <4>3, <4>6
    <3>2. CASE proc[req[r].at].mongo # "open"
      <4>1. t = [Unsent EXCEPT !.st = "answered", !.bump = "lost"] /\ req' = [req EXCEPT ![r] = t]
        BY <2>0, <2>9, <3>2 DEF BumpCalls
      <4>2. t \in Request  BY <4>1 DEF Request
      <4>3. t.st = "answered" /\ t.bump = "lost"  BY <4>1
      <4>4. ReqOK(r)'  BY <4>3 DEF ReqOK
      <4> QED BY <4>1, <4>2, <4>4
    <3> QED BY <3>1, <3>2
  <2>10. ASSUME BumpReturns(r) PROVE Good
    <3>1. t \in Request /\ req' = [req EXCEPT ![r] = t]
      BY <2>0, <2>10 DEF BumpReturns, Request
    <3>2. t.st = "answered" /\ t.bump \in {"lost", "none"}
      BY <2>0, <2>10 DEF BumpReturns, Request
    <3> QED BY <3>1, <3>2 DEF ReqOK
  <2>11. CASE Call(r) \/ Presigned(r) \/ TornOff(r) \/ BumpCalls(r) \/ BumpReturns(r)
    <3>1. UNCHANGED accounts
      BY <2>11 DEF Call, Presigned, TornOff, BumpCalls, BumpReturns
    <3>2. Good  BY <2>6, <2>7, <2>8, <2>9, <2>10, <2>11
    <3> QED BY <2>1, <2>2, <3>1, <3>2, HandledInv
  <2> QED BY <2>3, <2>4, <2>11 DEF Handle
<1>5. CASE UNCHANGED vars
  BY <1>5 DEF vars, IInv, TypeOK, ProcOK, ReqOK, OneAccountOrWarned, Duplicates
<1> QED
  BY <1>1, <1>2, <1>3, <1>4, <1>5 DEF Next, Main, Onward

(* The invariant holds throughout. *)
LEMMA Invariance == Spec => []IInv
BY InitInv, NextInv, PTL DEF Spec

-----------------------------------------------------------------------------
(* The variables keep their types, whatever fails and whenever. *)
THEOREM TypeCorrect == Spec => []TypeOK
<1>1. IInv => TypeOK  BY DEF IInv
<1> QED BY Invariance, <1>1, PTL

(* Two accounts of one mailbox never stand in users unless a server was warned, *)
(* and never beside the unique index (EnsureIndexes of auth, main.go).          *)
THEOREM IndexedOrWarned == Spec => []OneAccountOrWarned
<1>1. IInv => OneAccountOrWarned  BY DEF IInv
<1> QED BY Invariance, <1>1, PTL

(* Whatever the environment, nothing listens that Load or main should have *)
(* stopped (env.Load and the connections of main.go).                      *)
THEOREM FailsFastHolds == Spec => []FailsFast
<1>1. IInv => FailsFast
  <2> SUFFICES ASSUME IInv, NEW p \in Procs, proc[p].lis = "serving"
               PROVE  /\ \A n \in Secrets \cup Addresses : raw[n] # "unset"
                      /\ \A n \in Secrets \cup Parsed : raw[n] # "bad"
                      /\ IsProduction(raw) => proc[p].redis = "open" /\ "auth" \in proc[p].mounted
    BY DEF FailsFast
  <2>1. ProcOK(p)  BY DEF IInv
  <2>2. Problems(raw) = {}  BY <2>1 DEF ProcOK
  <2>3. proc[p].phase \in Serving  BY <2>1 DEF ProcOK
  <2>4. IsProduction(raw) => proc[p].redis = "open" /\ "auth" \in proc[p].mounted
    BY <2>1, <2>3 DEF ProcOK
  <2>5. /\ \A n \in Secrets : raw[n] = "good"
        /\ \A n \in Addresses : raw[n] # "unset"
        /\ \A n \in Parsed : raw[n] # "bad"
    BY <2>2 DEF Problems
  <2> QED BY <2>4, <2>5
<1> QED BY Invariance, <1>1, PTL

-----------------------------------------------------------------------------
(* The shutdown *)

(* A step leaves a request alone, ends a process, or is one of its own. *)
LEMMA StepOfRequest ==
  ASSUME IInv, [Next]_vars, NEW r \in Requests
  PROVE  \/ req'[r] = req[r]
         \/ \E p \in Procs, code \in {"ok", "failure", "killed"} :
               /\ Exits(p, code) /\ (code = "ok" => proc[p].phase = "close")
         \/ Arrive(r) \/ Handle(r)
<1> USE DEF IInv, TypeOK
<1>1. ASSUME NEW p \in Procs, Main(p) \/ Deadline(p) \/ Listen(p) \/ ListenFails(p) \/ Signal(p) \/ Kill(p)
      PROVE  \/ UNCHANGED req
             \/ \E code \in {"ok", "failure", "killed"} :
                   /\ Exits(p, code) /\ (code = "ok" => proc[p].phase = "close")
  BY <1>1 DEF Main, LoadEnv, ConnectMongo, ConnectRedis, Unreachable, BuildAuth, BuildUploads,
              Notify, TakeSignal, Drained, Disconnected, Return, Deadline, Listen, ListenFails,
              Signal, Kill
<1>2. ASSUME NEW q \in Requests, q # r, Arrive(q) \/ Handle(q) PROVE req'[r] = req[r]
  BY <1>2 DEF Arrive, Dispatch, Handle, Call, Registered, Presigned, TornOff, BumpCalls, BumpReturns,
              Over, Bumped
<1>3. UNCHANGED vars => UNCHANGED req  BY DEF vars
<1> QED BY <1>1, <1>2, <1>3 DEF Next

(* What an exit makes of a request: it is cut off, its count is lost, or it was *)
(* over already.                                                                *)
LEMMA ExitOfRequest ==
  ASSUME IInv, NEW p \in Procs, NEW code, Exits(p, code), NEW r \in Requests
  PROVE  /\ proc'[p].exit = code
         /\ req[r].st \in Working /\ req[r].at # p => req'[r] = req[r]
         /\ req[r].bump = "calling" /\ req[r].at # p => req'[r] = req[r]
         /\ req'[r].st = "failed" => req[r].st = "failed"
BY DEF IInv, TypeOK, Exits, Down, Unsent, HandledBy, Pending

(* Beyond an orderly shutdown within the ten seconds no request that was taken *)
(* on is cut off, and none finds MongoDB gone.                                 *)
THEOREM ShutdownIsGraceful == Spec => DrainIsGraceful
<1> DEFINE Graceful == \A r \in Requests : req[r].st \in Working =>
                         LET p == req[r].at IN
                         /\ req'[r].st = "cut" => proc[p].late \/ proc'[p].exit # "ok"
                         /\ req'[r].st = "failed" => proc[p].late
<1>1. IInv /\ [Next]_vars => [Graceful]_vars
  <2> SUFFICES ASSUME IInv, [Next]_vars, NEW r \in Requests, req[r].st \in Working
               PROVE  /\ req'[r].st = "cut" => proc[req[r].at].late \/ proc'[req[r].at].exit # "ok"
                      /\ req'[r].st = "failed" => proc[req[r].at].late
    OBVIOUS
  <2>1. ReqOK(r) /\ req[r].at \in Procs /\ ProcOK(req[r].at) /\ req[r] \in Request /\ DOMAIN req = Requests
    BY DEF IInv, TypeOK, ReqOK
  <2>2. CASE req'[r] = req[r]  BY <2>2 DEF Working
  <2>3. ASSUME NEW p \in Procs, NEW code \in {"ok", "failure", "killed"}, Exits(p, code),
               code = "ok" => proc[p].phase = "close"
        PROVE  /\ req'[r].st = "cut" => proc[req[r].at].late \/ proc'[req[r].at].exit # "ok"
               /\ req'[r].st = "failed" => proc[req[r].at].late
    <3>1. CASE req[r].at # p  BY <2>3, <3>1, ExitOfRequest DEF Working
    <3>2. CASE req[r].at = p
      <4>1. req'[r].st # "failed"  BY <2>3, ExitOfRequest DEF Working
      <4>2. code = "ok" => proc[p].late  BY <2>1, <2>3, <3>2 DEF ReqOK
      <4>3. proc'[p].exit = code  BY <2>3, ExitOfRequest
      <4> QED BY <3>2, <4>1, <4>2, <4>3
    <3> QED BY <3>1, <3>2
  <2>4. CASE Arrive(r)  BY <2>4 DEF Arrive, Working
  <2>5. CASE Handle(r)
    <3>1. req'[r].st # "cut"
      BY <2>1, <2>5 DEF Handle, Call, Registered, Presigned, TornOff, BumpCalls, BumpReturns,
                        Over, Bumped, Unsent, Request, Working
    <3>2. req'[r].st = "failed" => proc[req[r].at].mongo # "open"
      BY <2>1, <2>5 DEF Handle, Call, Registered, Presigned, TornOff, BumpCalls, BumpReturns,
                        Over, Bumped, Unsent, Request, Working
    <3>3. proc[req[r].at].mongo # "open" => proc[req[r].at].late
      BY <2>1 DEF ReqOK, ProcOK, IInv, TypeOK, Process
    <3> QED BY <3>1, <3>2, <3>3
  <2> QED BY <2>2, <2>3, <2>4, <2>5, StepOfRequest
<1> QED BY Invariance, <1>1, PTL DEF Spec, DrainIsGraceful

(* A count on its way is torn off only beyond the ten seconds, or by the death *)
(* of the process (IncrementAsync of stats.go, Disconnect of mongo.go).        *)
THEOREM CountsKept == Spec => CountsInFlightKept
<1> DEFINE Kept == \A r \in Requests : req[r].bump = "calling" /\ req'[r].bump = "lost" =>
                     proc[req[r].at].late \/ proc'[req[r].at].exit \in {"failure", "killed"}
<1>1. IInv /\ [Next]_vars => [Kept]_vars
  <2> SUFFICES ASSUME IInv, [Next]_vars, NEW r \in Requests,
                      req[r].bump = "calling", req'[r].bump = "lost"
               PROVE  proc[req[r].at].late \/ proc'[req[r].at].exit \in {"failure", "killed"}
    OBVIOUS
  <2>1. ReqOK(r) /\ req[r].at \in Procs /\ ProcOK(req[r].at) /\ req[r] \in Request /\ DOMAIN req = Requests
    BY DEF IInv, TypeOK, ReqOK
  <2>2. req'[r] # req[r]  OBVIOUS
  <2>3. ASSUME NEW p \in Procs, NEW code \in {"ok", "failure", "killed"}, Exits(p, code),
               code = "ok" => proc[p].phase = "close"
        PROVE  proc[req[r].at].late \/ proc'[req[r].at].exit \in {"failure", "killed"}
    <3>1. req[r].at = p  BY <2>2, <2>3, ExitOfRequest
    <3>2. code = "ok" => proc[p].late  BY <2>1, <2>3, <3>1 DEF ReqOK
    <3>3. proc'[p].exit = code  BY <2>3, ExitOfRequest
    <3> QED BY <3>1, <3>2, <3>3
  <2>4. CASE Arrive(r) \/ Handle(r)
    <3>1. BumpReturns(r)
      <4>1. ~(Arrive(r) \/ Registered(r) \/ TornOff(r))
        BY <2>1 DEF Arrive, Dispatch, Registered, TornOff, Over, Unsent
      <4>2. ~Call(r)  BY <2>1 DEF Call, Over, Unsent, Request
      <4>3. ~(Presigned(r) \/ BumpCalls(r))  BY <2>1 DEF Presigned, BumpCalls, Unsent
      <4> QED BY <2>4, <4>1, <4>2, <4>3 DEF Handle
    <3>2. proc[req[r].at].mongo = "closed"
      BY <2>1, <3>1 DEF BumpReturns, Bumped, Unsent
    <3> QED BY <2>1, <3>2 DEF ReqOK, ProcOK
  <2> QED BY <2>2, <2>3, <2>4, StepOfRequest
<1> QED BY Invariance, <1>1, PTL DEF Spec, CountsInFlightKept
=============================================================================
