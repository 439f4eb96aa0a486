--------------------------- MODULE MCQueueManager ---------------------------
(* Model-checking values for QueueManager and QueueRefinement.               *)
EXTENDS QueueRefinement, TLC

CONSTANTS w1, w2, h1

OneWorker  == {w1}
TwoWorkers == {w1, w2}
OneHandler == {h1}

(* Goroutine slots are interchangeable: nothing chooses among them.          *)
WorkerSymmetry == Permutations(Workers)

(* State constraint: the first life of the process only.                     *)
FirstLife == Up \/ disk = EmptyFile
=============================================================================
