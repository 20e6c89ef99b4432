----------------------------- MODULE MCRateLimit -----------------------------
(* Small instances of RateLimit: a limit of one or two, windows of a few ticks. *)
EXTENDS RateLimit, TLC

CONSTANTS q1, q2, q3, home, office

Symmetric == {p @@ c : p \in Permutations(Reqs), c \in Permutations(Clients)}
===============================================================================
