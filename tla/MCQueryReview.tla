--------------------------- MODULE MCQueryReview ---------------------------
(* Small instances of QueryReview for TLC. *)
EXTENDS QueryReview, TLC

CONSTANTS q1, q2, r1, r2, h1

\* Two queries that ask the same, so that one may be answered from the cache.
SameQuestion == q1 :> "incidents" @@ q2 :> "incidents"

RequestSymmetry == Permutations({q1, q2}) \cup Permutations({r1, r2})
=============================================================================
