------------------------------ MODULE MCUploads ------------------------------
(* Small instances of Uploads: pages of one or two, lists of a few uploads. *)
EXTENDS Uploads, TLC

CONSTANTS ann, bob, w1

SameUser == Permutations(Users)
===============================================================================
