--------------------------- MODULE MCAnswerCache ---------------------------
(* Small instances of AnswerCache for TLC. *)
EXTENDS AnswerCache, TLC

CONSTANTS q1, q2, c1, c2

IngestAndDelete == c1 :> "ingest" @@ c2 :> "delete"
=============================================================================
