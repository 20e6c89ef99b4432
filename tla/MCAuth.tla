-------------------------------- MODULE MCAuth --------------------------------
(* Small instances of Auth: a user with a session from an earlier login. *)
EXTENDS Auth, TLC

CONSTANTS q1, q2, q3,            \* requests
          t0, t1, t2, t3,        \* tokens
          ann, Ann, bob          \* spellings: ann and Ann are one mailbox

OpUsers == Ops \cup {seedUser}
ToLower == [s \in Spellings |-> IF s = Ann THEN ann ELSE s]
SameOpAndToken == {p @@ f : p \in Permutations(Ops), f \in Permutations(Tokens \ Seeds)}
===============================================================================
