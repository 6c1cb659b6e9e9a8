------------------------ MODULE MCInsightsRefresh ------------------------
(* Small instances of InsightsRefresh for TLC. *)
EXTENDS InsightsRefresh, TLC

CONSTANTS a, b, w1, w2, g1

WorkerSymmetry == Permutations({w1, w2})
=============================================================================
