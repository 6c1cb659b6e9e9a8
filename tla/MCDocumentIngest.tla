-------------------------- MODULE MCDocumentIngest --------------------------
(* Small instances of DocumentIngest for TLC. *)
EXTENDS DocumentIngest, TLC

CONSTANTS d1, d2, d3, w1, w2, run1, run2

\* Two attempts upload the same content, one through the API and one by an
\* import run.
TwoAttempts == {d1, d2}
SameContent == d1 :> "ili" @@ d2 :> "ili"
ApiAndImport == d1 :> "api" @@ d2 :> run1
ImportTwice == d1 :> run1 @@ d2 :> run2

\* Three attempts at one content, two of them files of one import run.
ThreeAttempts == {d1, d2, d3}
AllTheSame == d1 :> "ili" @@ d2 :> "ili" @@ d3 :> "ili"
OneFolder == d1 :> "api" @@ d2 :> run1 @@ d3 :> run1

WorkerSymmetry == Permutations({w1, w2})
=============================================================================
