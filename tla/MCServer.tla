------------------------------- MODULE MCServer -------------------------------
(* Small instances of Server: a few environments, a server and its successor. *)
EXTENDS Server

CONSTANTS old, new,   \* processes
          r1, r2,     \* requests
          ann         \* a mailbox

(* Every name that is not in overrides has a good value. *)
Given(overrides) ==
    [n \in Names |-> IF n \in DOMAIN overrides THEN overrides[n] ELSE "good"]

Production == [NODE_ENV |-> "production"]

SomeEnvironments ==
    {Given(Production),
     Given([REDIS_URL |-> "bad"]),
     Given([STORAGE_BUCKET |-> "unset", MONGODB_URI |-> "bad"]),
     Given([NODE_ENV |-> "production", REDIS_URL |-> "bad"]),
     Given([NODE_ENV |-> "production", MONGODB_URI |-> "unset"]),
     Given([JWT_REFRESH_SECRET |-> "bad"]),
     Given([UPLOAD_URL_TTL |-> "bad"])}
===============================================================================
