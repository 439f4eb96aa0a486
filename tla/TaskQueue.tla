------------------------------ MODULE TaskQueue ------------------------------
(* What the queue of src/internal/queue/manager.go is to its users: a list of *)
(* tasks served in the order they were added, by at most cap transfers at a   *)
(* time when a transfer starts, and kept in a file that is always a whole     *)
(* image of the list at some moment, or blank after a fault.  There are no    *)
(* locks, channels, goroutines or writes in progress here; QueueRefinement    *)
(* shows that QueueManager implements it.                                     *)
EXTENDS Integers

CONSTANTS MaxTasks, MaxConc,  \* bounds on ids and on the concurrency asked for
          Faults              \* the faults of the file that may happen

TaskIds == 1 .. MaxTasks

VARIABLES on,     \* the process runs
          queue,  \* the status of each task, "Absent" when not listed
          last,   \* the last id given out
          cap,    \* transfers allowed at a time
          busy,   \* transfers that hold a slot
          saved   \* the queue and the cap as the state file has them

vars == <<on, queue, last, cap, busy, saved>>

Nothing == [t \in TaskIds |-> "Absent"]
Image(q, c) == [st |-> q, max |-> c]
Blank == Image(Nothing, 0)

Init == /\ on = FALSE /\ queue = Nothing /\ last = 0 /\ cap = 1 /\ busy = 0
        /\ saved = Blank

(* Changes a user asks for.  Removing and retrying save at once unless the    *)
(* file cannot be opened, adding saves before it is acknowledged, pausing     *)
(* does not save.                                                             *)
Add(k) ==
  /\ on /\ last + k <= MaxTasks
  /\ queue' = [t \in TaskIds |-> IF t \in last + 1 .. last + k THEN "Pending" ELSE queue[t]]
  /\ last' = last + k
  /\ UNCHANGED <<on, cap, busy, saved>>

Switch(t, from, to) ==
  /\ on /\ queue[t] = from /\ queue' = [queue EXCEPT ![t] = to]
  /\ UNCHANGED <<on, last, cap, busy, saved>>

Edit(S, to) ==
  /\ on
  /\ queue' = [t \in TaskIds |-> IF t \in S THEN to ELSE queue[t]]
  /\ \/ saved' = Image(queue', cap)
     \/ "save_error" \in Faults /\ UNCHANGED saved
  /\ UNCHANGED <<on, last, cap, busy>>

Listed(statuses) == {t \in TaskIds : queue[t] \in statuses}
Removal == \/ \E t \in TaskIds : queue[t] # "Absent" /\ Edit({t}, "Absent")
           \/ Edit(Listed({"Completed", "Failed"}), "Absent")
Retry   == \/ \E t \in Listed({"Completed", "Failed"}) : Edit({t}, "Pending")
           \/ \E S \in SUBSET Listed({"Failed"}) : Edit(S, "Pending")

SetCap(n) == on /\ cap' = n /\ UNCHANGED <<on, queue, last, busy, saved>>

(* A save has an effect at its beginning; if its write fails, the file is     *)
(* blank in the end.                                                          *)
Save == on /\ saved' = Image(queue, cap) /\ UNCHANGED <<on, queue, last, cap, busy>>

SaveLost ==
  /\ on /\ "save_error" \in Faults /\ saved' = Blank
  /\ UNCHANGED <<on, queue, last, cap, busy>>

(* A transfer starts, for the first pending task, if a slot is free.  It ends *)
(* with a result unless its task was removed, and gives its slot back later.  *)
Dispatch(t) ==
  /\ on /\ busy < cap
  /\ queue[t] = "Pending" /\ \A u \in TaskIds : u < t => queue[u] # "Pending"
  /\ queue' = [queue EXCEPT ![t] = "Running"]
  /\ busy' = busy + 1
  /\ UNCHANGED <<on, last, cap, saved>>

Free == on /\ busy > 0 /\ busy' = busy - 1 /\ UNCHANGED <<on, queue, last, cap, saved>>

(* The process ends, and starts again from what was saved: an interrupted     *)
(* transfer is pending again.  A death inside a write leaves a blank file, and *)
(* a file that cannot be read is as good as none.                             *)
Stop ==
  /\ on /\ on' = FALSE
  /\ queue' = Nothing /\ last' = 0 /\ cap' = 1 /\ busy' = 0
  /\ saved' = saved \/ ("crash_in_write" \in Faults /\ saved' = Blank)

Restart ==
  /\ ~on /\ on' = TRUE
  /\ queue' = [t \in TaskIds |-> IF saved.st[t] = "Running" THEN "Pending" ELSE saved.st[t]]
  /\ last' \in {0} \cup TaskIds
  /\ last' # 0 => queue'[last'] # "Absent"
  /\ \A t \in TaskIds : queue'[t] # "Absent" => t <= last'
  /\ cap' = IF saved.max > 0 THEN saved.max ELSE 1
  /\ UNCHANGED <<busy, saved>>

RestartUnread ==
  /\ ~on /\ "load_error" \in Faults /\ on' = TRUE
  /\ queue' = Nothing /\ last' = 0 /\ cap' = 1
  /\ UNCHANGED <<busy, saved>>

Next ==
  \/ \E k \in 1 .. MaxTasks : Add(k)
  \/ \E t \in TaskIds : \/ Switch(t, "Pending", "Paused")
                        \/ Switch(t, "Paused", "Pending")
                        \/ Switch(t, "Running", "Completed")
                        \/ Switch(t, "Running", "Failed")
                        \/ Dispatch(t)
  \/ Removal \/ Retry
  \/ \E n \in 1 .. MaxConc : SetCap(n)
  \/ Save \/ SaveLost \/ Free \/ Stop \/ Restart \/ RestartUnread

Spec == Init /\ [][Next]_vars

=============================================================================
