------------------------------ MODULE MCPresign ------------------------------
(* Small instances of Presign: the requests of one run, and who is charged. *)
EXTENDS Presign, TLC

CONSTANTS alice,         \* the scope of a hosted user
          browser,       \* the scope of a web visitor
          r1, r2, r3, r4

(* All requests belong to one scope and race for its slots. *)
OneScope == [r \in Reqs |-> alice]

(* One request of the web visitor beside those of the hosted user. *)
TwoScopes == [r \in Reqs |-> IF r = r3 THEN browser ELSE alice]

SameScope == Permutations(Reqs)
==============================================================================
