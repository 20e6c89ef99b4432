------------------------------ MODULE TokenLife ------------------------------
(***************************************************************************)
(* What a client may rely on about its refresh tokens, without Redis: a    *)
(* token is used once, either to end its session or to be replaced by one  *)
(* successor, and what is over never comes back.                           *)
(***************************************************************************)
CONSTANTS Tokens, NoToken

VARIABLES status,   \* unborn, active, rotating (taken by a refresh) or over
          parent    \* the token each token replaced

Init ==
    /\ status \in [Tokens -> {"unborn", "active"}]
    /\ parent = [t \in Tokens |-> NoToken]

(* A login starts a session. *)
Grant(t) ==
    /\ status[t] = "unborn"
    /\ status' = [status EXCEPT ![t] = "active"]
    /\ UNCHANGED parent

(* A refresh takes a token and with it the right to one successor. *)
StartRotation(t) ==
    /\ status[t] = "active"
    /\ status' = [status EXCEPT ![t] = "rotating"]
    /\ UNCHANGED parent

Succeed(t, s) ==
    /\ status[t] = "rotating" /\ status[s] = "unborn"
    /\ status' = [status EXCEPT ![t] = "over", ![s] = "active"]
    /\ parent' = [parent EXCEPT ![s] = t]

(* A logout, an expiry, a revocation, or a rotation that failed halfway. *)
End(ends) ==
    /\ \A t \in ends : status[t] \in {"active", "rotating"}
    /\ status' = [t \in Tokens |-> IF t \in ends THEN "over" ELSE status[t]]
    /\ UNCHANGED parent

Next ==
    \/ \E t \in Tokens : Grant(t) \/ StartRotation(t)
    \/ \E t, s \in Tokens : Succeed(t, s)
    \/ \E ends \in SUBSET Tokens : End(ends)

Spec == Init /\ [][Next]_<<status, parent>>
==============================================================================
