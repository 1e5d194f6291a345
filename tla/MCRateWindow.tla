---------------------------- MODULE MCRateWindow -----------------------------
(***************************************************************************)
(* Small instances of RateWindow for TLC.                                  *)
(***************************************************************************)
EXTENDS RateWindow, TLC

CONSTANTS ip1, r1, r2, b1, b2, b3

OneAddress == {ip1}
TwoRequests == {r1, r2}
ThreeBuckets == {b1, b2, b3}

Alike == Permutations(TwoRequests) \cup Permutations(ThreeBuckets)

=============================================================================
