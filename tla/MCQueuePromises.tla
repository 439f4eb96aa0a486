-------------------------- MODULE MCQueuePromises --------------------------
(* Model-checking values for QueuePromises and QueueRefinement.             *)
EXTENDS QueuePromises, QueueRefinement, TLC

CONSTANTS w1, w2, h1

OneWorker  == {w1}
TwoWorkers == {w1, w2}
OneHandler == {h1}

(* Goroutine slots are interchangeable: nothing chooses among them.          *)
WorkerSymmetry == Permutations(Workers)
=============================================================================
