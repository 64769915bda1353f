------------------------- MODULE MCDocumentIndexing -------------------------
(* Instances of DocumentIndexing for TLC: the values are in the configurations. *)
EXTENDS DocumentIndexing, TLC

\* Workers are interchangeable.
WorkerSymmetry == Permutations(Workers)
=============================================================================
