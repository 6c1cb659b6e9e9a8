--------------------------- MODULE AnswerRelease ---------------------------
(***************************************************************************)
(* What an operator is promised about an answer, with no database rows,    *)
(* requests or cache in sight: a question is pending until it is answered  *)
(* at once, withheld for an engineer or has failed, and a withheld answer  *)
(* leaves that state only by an engineer's decision, which is final.  An   *)
(* outcome may be lost to a failure; nothing is promised of it then.       *)
(***************************************************************************)

CONSTANT Queries

VARIABLE release  \* how far the answer of every query got

States == {"unasked", "pending", "answered", "failed", "withheld", "released", "refused",
           "lost"}

Init == release = [q \in Queries |-> "unasked"]

Move(q, from, to) ==
    /\ release[q] = from
    /\ release' = [release EXCEPT ![q] = to]

Ask(q) == Move(q, "unasked", "pending")

Conclude(q) == \E outcome \in {"answered", "failed", "withheld"} : Move(q, "pending", outcome)

Rule(q) == \E outcome \in {"released", "refused"} : Move(q, "withheld", outcome)

Lose(q) == \E outcome \in {"answered", "withheld", "released", "refused"} : Move(q, outcome, "lost")

Next == \E q \in Queries : Ask(q) \/ Conclude(q) \/ Rule(q) \/ Lose(q)

Spec == Init /\ [][Next]_release
=============================================================================
