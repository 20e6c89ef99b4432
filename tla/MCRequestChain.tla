--------------------------- MODULE MCRequestChain ---------------------------
(* One request at a time: the layers share nothing between requests. *)
EXTENDS RequestChain

CONSTANTS r1
=============================================================================
