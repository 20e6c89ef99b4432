----------------------------- MODULE MCShareCodes -----------------------------
(* A small instance of ShareCodes: as many codes as mints, so that draws      *)
(* collide, and two files, so that a code can be moved to the other one.      *)
EXTENDS ShareCodes

CONSTANTS m1, m2, g1, c1, c2, report, photo
===============================================================================
