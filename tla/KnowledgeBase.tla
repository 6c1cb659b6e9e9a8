--------------------------- MODULE KnowledgeBase ---------------------------
(***************************************************************************)
(* What the ingest pipeline promises about the set of documents, with no   *)
(* queue, worker, retry or staged file in sight.  A document is registered *)
(* once, with content no registered document has; it is then indexed until *)
(* it is searchable with all of its passages or has failed with none, may  *)
(* be indexed again, and may be removed for good.                          *)
(***************************************************************************)

CONSTANTS
    Documents,  \* document ids; every upload draws a new one
    ContentOf   \* what the file behind each document contains

VARIABLE catalog \* the state of every document id

States == {"absent", "indexing", "searchable", "failed", "removed"}

Registered(d) == catalog[d] \notin {"absent", "removed"}

Init == catalog = [d \in Documents |-> "absent"]

Register(d) ==
    /\ catalog[d] = "absent"
    /\ \A e \in Documents : Registered(e) => ContentOf[e] # ContentOf[d]
    /\ catalog' = [catalog EXCEPT ![d] = "indexing"]

Publish(d) ==
    /\ catalog[d] = "indexing"
    /\ catalog' = [catalog EXCEPT ![d] = "searchable"]

GiveUp(d) ==
    /\ catalog[d] = "indexing"
    /\ catalog' = [catalog EXCEPT ![d] = "failed"]

\* A repeated attempt takes the document out of the searchable set first.
IndexAgain(d) ==
    /\ catalog[d] \in {"searchable", "failed"}
    /\ catalog' = [catalog EXCEPT ![d] = "indexing"]

Remove(d) ==
    /\ Registered(d)
    /\ catalog' = [catalog EXCEPT ![d] = "removed"]

Next ==
    \E d \in Documents :
        Register(d) \/ Publish(d) \/ GiveUp(d) \/ IndexAgain(d) \/ Remove(d)

Spec == Init /\ [][Next]_catalog
=============================================================================
