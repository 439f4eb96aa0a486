---------------------------- MODULE QueuePromises ----------------------------
(* What the queue promises its users over restarts, stated with history      *)
(* variables that observe QueueManager and never constrain it.               *)
EXTENDS QueueManager

VARIABLES acked,  \* tasks whose AddTasks was answered, not removed since
          done    \* tasks saved as Completed, not retried or removed since

history == <<acked, done>>

PromiseInit == Init /\ acked = {} /\ done = {}

(* A change of status made by a live process, not by its end or its start.   *)
Changed(t, from, to) ==
  Up /\ mpc' # "down" /\ status[t] \in from /\ status'[t] \in to
Kept == TaskStatus \ {"Absent"}
Removed == {t \in TaskIds : Changed(t, Kept, {"Absent"})}

(* The tasks that a fault of the state file costs: the process ends inside a *)
(* write, or after a save that failed and was not made up for, and the file  *)
(* does not have them; or the next process starts without having read the    *)
(* file although there is something in it.                                   *)
Forgotten ==
  IF mpc = "down" /\ unsaved' THEN TaskIds
  ELSE IF Up /\ mpc' = "down" /\ (unsaved \/ Writing)
         THEN {t \in TaskIds : disk.st[t] = "Absent"} ELSE {}

Answered == \E h \in Handlers : hpc[h] \in {"save", "saving"} /\ hpc'[h] = "trigger"
ResultSaved ==
  /\ \E w \in Workers : wpc[w] = "saving" /\ wpc'[w] = "trigger"
  /\ ~unsaved'

Observe ==
  /\ acked' = (acked \cup {t \in TaskIds : status[t] # "Absent" /\ Answered})
                \ (Removed \cup Forgotten)
  /\ done' = (done \cup {t \in TaskIds : status[t] = "Completed" /\ ResultSaved})
               \ ({t \in TaskIds : Changed(t, {"Completed"}, {"Absent", "Pending"})}
                     \cup Forgotten)

PromiseSpec == PromiseInit /\ [][Next /\ Observe]_<<vars, history>>

(* A task whose upload request was answered is lost to nothing but a fault   *)
(* of the state file that was not made up for (Forgotten): it is in the      *)
(* queue until the user removes it, and in the file unless that is being     *)
(* written or the last save failed.  AddTasks answers also when its save     *)
(* fails; the next save that succeeds makes up for it.                       *)
AcknowledgedSurvives ==
  \A t \in acked : /\ Up => status[t] # "Absent"
                   /\ ~Writing /\ ~unsaved => disk.st[t] # "Absent"

(* A finished upload that was saved is never uploaded again unless the user  *)
(* asks for it: no restart turns it back into a pending task, whatever saves *)
(* failed since.                                                             *)
DoneStaysDone == \A t \in done : Up => status[t] = "Completed"

(* A task the user paused is paused after a restart too: "survives container *)
(* restarts, with full queue management and pause/resume support".           *)
PauseSurvives ==
  Up /\ ~SaveOwed /\ ~unsaved =>
    \A t \in TaskIds : status[t] = "Paused" => disk.st[t] = "Paused"

(* A queued task survives a restart of the container: stopping the process   *)
(* does not make a running one Failed.                                       *)
StopFailsNothing ==
  [][Stopping => \A t \in TaskIds : ~Changed(t, {"Running"}, {"Failed"})]_<<vars, history>>

(* Removing a running task makes its transfer end with an error: the         *)
(* goroutine that works on it is cancelled.                                  *)
RemoveCancels ==
  [][\A t \in Removed : Working(t) \subseteq cancelled']_<<vars, history>>

=============================================================================
