--------------------------- MODULE QueueRefinement ---------------------------
(* QueueManager implements TaskQueue, with the faults of the state file that  *)
(* Events allows: without them the list is durable.                           *)
EXTENDS QueueManager

(* The abstract file is the one on disk, except while it is being written:    *)
(* then it already is what the writer will leave unless it fails, because the *)
(* queue cannot change before the writer releases qm.mu.                      *)
Saved == IF Writing THEN Snapshot ELSE disk

TQ == INSTANCE TaskQueue WITH on <- Up, queue <- status, last <- nextID,
        cap <- maxConcurrent, busy <- runningTasks, saved <- Saved,
        Faults <- Events

(* Every step of the locks, channels, goroutines and file writes is a step of *)
(* the atomic queue, or no step of it.                                        *)
ImplementsTaskQueue == TQ!Spec

=============================================================================
