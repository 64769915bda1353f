----------------------------- MODULE MCJobQueue -----------------------------
(* Instances of JobQueue for TLC: the values are in the configurations.    *)
EXTENDS JobQueue, TLC

\* Workers are interchangeable: used where no liveness is checked.
WorkerSymmetry == Permutations(Workers)
=============================================================================
