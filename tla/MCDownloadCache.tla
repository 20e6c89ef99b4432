--------------------------- MODULE MCDownloadCache ---------------------------
(* A small instance of DownloadCache: one object, a clock of a few ticks. *)
EXTENDS DownloadCache, TLC

CONSTANTS g1, g2, g3, report

Durations == {-1, 0, 2, 6}

SameGet == Permutations(Gets)
==============================================================================
