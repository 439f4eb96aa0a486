----------------------------- MODULE QueueProofs -----------------------------
(* Proofs about the upload queue for any number of tasks, goroutines and     *)
(* handlers, any concurrency and any set of events: typing, wake-ups, slots, *)
(* goroutines, shutdown and the state file of QueueManager; the promises of  *)
(* QueuePromises over restarts; the refinement of TaskQueue.                 *)
EXTENDS QueuePromises, QueueRefinement, FiniteSetTheorems, TLAPS

USE DEF TaskIds, fileVars

(* A handler that still owes triggers has at least one left to send, so its  *)
(* counter does not leave the naturals.                                      *)
TriggersLeft ==
  \A h \in Handlers : hpc[h] \in {"save", "saving", "trigger"} => hleft[h] >= 1

Typed == TypeOK /\ TriggersLeft

LEMMA SnapshotTyped == TypeOK => Snapshot \in [st : [TaskIds -> TaskStatus], max : 0 .. MaxConc]
BY BoundAssumption DEF TypeOK, Snapshot

LEMMA EmptyFileTyped == EmptyFile \in [st : [TaskIds -> TaskStatus], max : 0 .. MaxConc]
BY BoundAssumption DEF EmptyFile, TaskStatus

(* The state of a process that is not running, whatever the file holds.      *)
Off ==
  /\ status = [t \in TaskIds |-> "Absent"] /\ nextID = 0
  /\ maxConcurrent = 1 /\ runningTasks = 0 /\ worker = FALSE
  /\ activeCancels = [t \in TaskIds |-> None]
  /\ activeClosers = [t \in TaskIds |-> None]
  /\ lpc = "exited"
  /\ wpc = [w \in Workers |-> "idle"] /\ job = [w \in Workers |-> 0]
  /\ cancelled = {} /\ closed = {}
  /\ hpc = [h \in Handlers |-> "idle"] /\ hleft = [h \in Handlers |-> 0]
  /\ mpc = "down" /\ toClose = {} /\ boot = FALSE
  /\ disk \in [st : [TaskIds -> TaskStatus], max : 0 .. MaxConc] /\ unsaved = FALSE

LEMMA OffTyped == Off => Typed
<1> SUFFICES ASSUME Off PROVE Typed
  OBVIOUS
<1>1. status \in [TaskIds -> TaskStatus]
  BY DEF Off, TaskStatus
<1>7. nextID \in 0 .. MaxTasks
  BY BoundAssumption DEF Off
<1>2. maxConcurrent \in 1 .. MaxConc /\ runningTasks \in Int
  BY BoundAssumption DEF Off
<1>8. worker \in BOOLEAN /\ boot \in BOOLEAN
  BY DEF Off
<1>3. /\ activeCancels \in [TaskIds -> Workers \cup {None}]
      /\ activeClosers \in [TaskIds -> Workers \cup {None}]
  BY DEF Off
<1>4. wpc \in [Workers -> LivePcs \cup {"idle"}] /\ job \in [Workers -> 0 .. MaxTasks]
  BY BoundAssumption DEF Off
<1>5. /\ hpc \in [Handlers -> {"idle", "save", "saving", "trigger", "ctlsave"}]
      /\ hleft \in [Handlers -> Nat]
      /\ TriggersLeft
  BY DEF Off, TriggersLeft
<1>6. /\ lpc = "exited" /\ mpc = "down"
      /\ cancelled \subseteq Workers /\ closed \subseteq Workers /\ toClose \subseteq Workers
      /\ disk \in [st : [TaskIds -> TaskStatus], max : 0 .. MaxConc]
      /\ unsaved \in BOOLEAN
  BY DEF Off
<1> QED
  BY <1>1, <1>2, <1>3, <1>4, <1>5, <1>6, <1>7, <1>8 DEF Typed, TypeOK

LEMMA TypedInit == Init => Typed
BY OffTyped, EmptyFileTyped DEF Init, Off

LEMMA TypedStep == Typed /\ [Next]_vars => Typed'
<1> SUFFICES ASSUME Typed, [Next]_vars PROVE Typed'
  OBVIOUS
<1> USE DEF Typed, queueVars, slotVars, mapVars, taskVars, handVars, mainVars
<1>0. TypeOK /\ TriggersLeft
  OBVIOUS
<1>1. CASE UNCHANGED vars
  BY <1>1 DEF vars, TypeOK, TriggersLeft
<1>2. ASSUME NEW h \in Handlers, HandlerCall(h) PROVE Typed'
  <2> USE DEF Idle, Handler, Control, Truncate, SaveFails, TaskStatus
  <2>1. ASSUME NEW k \in 1 .. MaxTasks, AddTasks(h, k) PROVE Typed'
    BY <1>0, <2>1, BoundAssumption DEF AddTasks, TypeOK, TriggersLeft
  <2>2. ASSUME NEW n \in 1 .. MaxConc, UpdateHostLimiter(h, n) PROVE Typed'
    BY <1>0, <2>2, BoundAssumption DEF UpdateHostLimiter, TypeOK, TriggersLeft
  <2>3. ASSUME NEW t \in TaskIds, Pause(h, t) \/ Resume(h, t) PROVE Typed'
    BY <1>0, <2>3 DEF Pause, Resume, TypeOK, TriggersLeft
  <2>4. ASSUME NEW t \in TaskIds, Remove(h, t) PROVE Typed'
    <3>1. cancelled' \subseteq Workers
      BY <1>0, <2>4 DEF Remove, TypeOK
    <3> QED
      BY <1>0, <2>4, <3>1, EmptyFileTyped DEF Remove, TypeOK, TriggersLeft
  <2>5. ASSUME NEW t \in TaskIds, Retry(h, t) PROVE Typed'
    BY <1>0, <2>5, EmptyFileTyped DEF Retry, TypeOK, TriggersLeft
  <2>6. ASSUME NEW S \in SUBSET TaskIds, RetryAllFailed(h, S) PROVE Typed'
    BY <1>0, <2>6, EmptyFileTyped DEF RetryAllFailed, TypeOK, TriggersLeft
  <2>7. CASE ClearFinished(h)
    BY <1>0, <2>7, EmptyFileTyped DEF ClearFinished, TypeOK, TriggersLeft
  <2> QED
    BY <1>2, <2>1, <2>2, <2>3, <2>4, <2>5, <2>6, <2>7 DEF HandlerCall
<1>3. ASSUME NEW h \in Handlers, HandlerStep(h) PROVE Typed'
  <2> USE DEF Handler
  <2>1. CASE AddSaveBegin(h)
    BY <1>0, <2>1, EmptyFileTyped DEF AddSaveBegin, Truncate, SaveFails, TypeOK, TriggersLeft
  <2>2. CASE AddSaveEnd(h)
    BY <1>0, <2>2, SnapshotTyped DEF AddSaveEnd, Store, SaveFails, TypeOK, TriggersLeft
  <2>3. CASE HandlerTrigger(h)
    BY <1>0, <2>3 DEF HandlerTrigger, TypeOK, TriggersLeft
  <2>4. CASE ControlSaveEnd(h)
    BY <1>0, <2>4, SnapshotTyped DEF ControlSaveEnd, Store, SaveFails, TypeOK, TriggersLeft
  <2> QED
    BY <1>3, <2>1, <2>2, <2>3, <2>4 DEF HandlerStep
<1>4. CASE Loop
  <2> USE DEF LoopKeep
  <2>1. CASE LoopTake \/ LoopLock \/ ScanDone \/ LoopExit
    BY <1>0, <2>1 DEF LoopTake, LoopLock, ScanDone, LoopExit, TypeOK, TriggersLeft
  <2>2. CASE LoopSaveBegin
    BY <1>0, <2>2, EmptyFileTyped DEF LoopSaveBegin, Truncate, SaveFails, TypeOK, TriggersLeft
  <2>3. CASE LoopSaveEnd
    BY <1>0, <2>3, SnapshotTyped DEF LoopSaveEnd, Store, SaveFails, TypeOK, TriggersLeft
  <2>4. ASSUME NEW w \in Workers, NEW t \in TaskIds, StartTask(w, t) PROVE Typed'
    BY <1>0, <2>4
       DEF StartTask, TypeOK, TriggersLeft, TaskStatus, LivePcs, HeldPcs, WorkPcs
  <2> QED
    BY <1>4, <2>1, <2>2, <2>3, <2>4 DEF Loop, LoopStep, Spawn
<1>5. ASSUME NEW w \in Workers, Task(w) PROVE Typed'
  <2> USE DEF Go, GoKeep
  <2>1. wpc' \in [Workers -> LivePcs \cup {"idle"}]
    BY <1>0, <1>5 DEF Task, TaskLocal, ConnectReturn, UploadEnd, Register, ConnectErr,
         ConnectOk, Adopt, UploadReturn, Finish, TaskSaveBegin, TaskSaveEnd, TaskTrigger,
         Unregister, Release, Exit, TypeOK, LivePcs, HeldPcs, WorkPcs
  <2>2. CASE Register(w)
    BY <1>0, <2>1, <2>2 DEF Register, TypeOK, TriggersLeft
  <2>3. CASE ConnectErr(w) \/ ConnectOk(w)
    BY <1>0, <2>1, <2>3 DEF ConnectErr, ConnectOk, TypeOK, TriggersLeft
  <2>4. CASE Adopt(w)
    BY <1>0, <2>1, <2>4 DEF Adopt, TypeOK, TriggersLeft
  <2>5. CASE UploadEnd(w)
    BY <1>0, <2>1, <2>5 DEF UploadEnd, UploadReturn, TypeOK, TriggersLeft
  <2>6. ASSUME NEW from, NEW result \in {"Completed", "Failed"}, Finish(w, from, result)
        PROVE Typed'
    BY <1>0, <2>1, <2>6 DEF Finish, TypeOK, TriggersLeft, TaskStatus
  <2>7. CASE TaskSaveBegin(w)
    BY <1>0, <2>1, <2>7, EmptyFileTyped DEF TaskSaveBegin, Truncate, SaveFails, TypeOK, TriggersLeft
  <2>8. CASE TaskSaveEnd(w)
    BY <1>0, <2>1, <2>8, SnapshotTyped DEF TaskSaveEnd, Store, SaveFails, TypeOK, TriggersLeft
  <2>9. CASE TaskTrigger(w)
    BY <1>0, <2>1, <2>9 DEF TaskTrigger, TypeOK, TriggersLeft
  <2>10. CASE Unregister(w)
    BY <1>0, <2>1, <2>10 DEF Unregister, TypeOK, TriggersLeft
  <2>11. CASE Release(w)
    BY <1>0, <2>1, <2>11 DEF Release, TypeOK, TriggersLeft
  <2>12. CASE Exit(w)
    BY <1>0, <2>1, <2>12, BoundAssumption DEF Exit, TypeOK, TriggersLeft
  <2> QED
    BY <1>5, <2>2, <2>3, <2>4, <2>5, <2>6, <2>7, <2>8, <2>9, <2>10, <2>11, <2>12
       DEF Task, TaskLocal, ConnectReturn
<1>6. CASE Main
  <2>1. CASE Cancel \/ ShutdownTrigger \/ SnapshotClosers \/ CloseDone
    BY <1>0, <2>1 DEF Cancel, ShutdownTrigger, SnapshotClosers, CloseDone, MainKeep,
                      TypeOK, TriggersLeft
  <2>2. ASSUME NEW w \in Workers, CloseOne(w) PROVE Typed'
    BY <1>0, <2>2 DEF CloseOne, MainKeep, TypeOK, TriggersLeft
  <2>3. CASE PowerOff
    <3>1. Off'
      BY <1>0, <2>3 DEF PowerOff, Off, TypeOK
    <3> HIDE DEF Typed
    <3> QED
      BY <3>1, OffTyped, PTL
  <2>4. CASE Start
    <3>1. LoadedMax \in 1 .. MaxConc
      BY <1>0, BoundAssumption DEF LoadedMax, TypeOK
    <3>2. nextID' \in 0 .. MaxTasks
      BY <2>4, BoundAssumption DEF Start, LoadedLast, LoadedIds
    <3>3. status' \in [TaskIds -> TaskStatus]
      BY <1>0, <2>4 DEF Start, TypeOK, LoadedStatus, TaskStatus
    <3> QED
      BY <1>0, <2>4, <3>1, <3>2, <3>3 DEF Start, TypeOK, TriggersLeft
  <2>5. CASE BootTrigger
    BY <1>0, <2>5 DEF BootTrigger, TypeOK, TriggersLeft
  <2>6. CASE StartUnread
    BY <1>0, <2>6, BoundAssumption DEF StartUnread, TypeOK, TriggersLeft, TaskStatus
  <2> QED
    BY <1>6, <2>1, <2>2, <2>3, <2>4, <2>5, <2>6 DEF Main, ShutdownStep, ExitProcess, Crash
<1> QED
  BY <1>1, <1>2, <1>3, <1>4, <1>5, <1>6 DEF Next

(* Every reachable state is well typed: no counter, status or map entry      *)
(* leaves the range its code expects, over restarts from any saved file.     *)
THEOREM TypeCorrect == Spec => []TypeOK
<1>1. Typed => TypeOK
  BY DEF Typed
<1> QED
  BY <1>1, TypedInit, TypedStep, PTL DEF Spec

-----------------------------------------------------------------------------
(* No lost wake-up.  The property is inductive by itself: whoever makes a    *)
(* task pending, frees a slot or raises the limit moves to a point where it  *)
(* owes a token, and the loop consumes a token only to scan afterwards.      *)

LEMMA WakeupStep == Typed /\ NoLostWakeup /\ [Next]_vars => NoLostWakeup'
<1> SUFFICES ASSUME Typed, NoLostWakeup, [Next]_vars PROVE NoLostWakeup'
  OBVIOUS
<1> USE DEF queueVars, slotVars, mapVars, taskVars, handVars, mainVars
<1>0. TypeOK /\ TriggersLeft
  BY DEF Typed
<1>1. CASE UNCHANGED vars
  BY <1>1 DEF vars, NoLostWakeup, WakeupOwed, PendingIds
<1>2. ASSUME NEW h \in Handlers, HandlerCall(h) PROVE NoLostWakeup'
  <2> USE DEF Idle, Handler, NoLostWakeup, WakeupOwed, PendingIds
  <2>1. ASSUME NEW k \in 1 .. MaxTasks, AddTasks(h, k) PROVE NoLostWakeup'
    BY <1>0, <2>1 DEF AddTasks, TypeOK
  <2>2. ASSUME NEW n \in 1 .. MaxConc, UpdateHostLimiter(h, n) PROVE NoLostWakeup'
    BY <1>0, <2>2 DEF UpdateHostLimiter, TypeOK
  <2>3. ASSUME NEW t \in TaskIds, Pause(h, t) PROVE NoLostWakeup'
    BY <1>0, <2>3 DEF Pause, TypeOK
  <2>4. ASSUME NEW t \in TaskIds, Resume(h, t) PROVE NoLostWakeup'
    BY <1>0, <2>4 DEF Resume, TypeOK
  <2>5. ASSUME NEW e, NEW new, Control(h, e, new) PROVE NoLostWakeup'
    BY <1>0, <2>5 DEF Control, TypeOK
  <2> QED
    BY <1>2, <2>1, <2>2, <2>3, <2>4, <2>5
       DEF HandlerCall, Remove, Retry, RetryAllFailed, ClearFinished
<1>3. ASSUME NEW h \in Handlers, HandlerStep(h) PROVE NoLostWakeup'
  <2> USE DEF Handler, NoLostWakeup, WakeupOwed, PendingIds
  <2>1. CASE AddSaveBegin(h) \/ AddSaveEnd(h)
    BY <1>0, <2>1 DEF AddSaveBegin, AddSaveEnd, TypeOK
  <2>2. CASE HandlerTrigger(h) \/ ControlSaveEnd(h)
    BY <2>2 DEF HandlerTrigger, ControlSaveEnd
  <2> QED
    BY <1>3, <2>1, <2>2 DEF HandlerStep
<1>4. CASE Loop
  <2> USE DEF LoopKeep, NoLostWakeup, WakeupOwed, PendingIds
  <2>1. CASE LoopTake \/ LoopLock \/ LoopExit
    BY <2>1 DEF LoopTake, LoopLock, LoopExit
  <2>2. CASE ScanDone
    BY <1>0, <2>2 DEF ScanDone, TypeOK
  <2>3. CASE LoopSaveBegin \/ LoopSaveEnd
    BY <2>3 DEF LoopSaveBegin, LoopSaveEnd
  <2>4. ASSUME NEW w \in Workers, Spawn(w) PROVE NoLostWakeup'
    BY <2>4 DEF Spawn, StartTask
  <2> QED
    BY <1>4, <2>1, <2>2, <2>3, <2>4 DEF Loop, LoopStep
<1>5. ASSUME NEW w \in Workers, Task(w) PROVE NoLostWakeup'
  <2> USE DEF Go, GoKeep, NoLostWakeup, WakeupOwed, PendingIds
  <2>1. CASE Register(w) \/ ConnectErr(w) \/ ConnectOk(w) \/ Adopt(w) \/ UploadEnd(w)
    <3>1. \A v \in Workers : wpc[v] = "exit" => wpc'[v] = "exit"
      BY <1>0, <2>1 DEF Register, ConnectErr, ConnectOk, Adopt, UploadEnd, UploadReturn, TypeOK
    <3>2. UNCHANGED <<status, runningTasks, maxConcurrent, worker, boot, lpc, hpc>>
      BY <2>1 DEF Register, ConnectErr, ConnectOk, Adopt, UploadEnd, UploadReturn
    <3> QED
      BY <3>1, <3>2
  <2>2. ASSUME NEW from \in WorkPcs, NEW result \in {"Completed", "Failed"},
               Finish(w, from, result)
        PROVE NoLostWakeup'
    BY <1>0, <2>2 DEF Finish, TypeOK, WorkPcs
  <2>3. CASE TaskSaveBegin(w) \/ TaskSaveEnd(w) \/ Unregister(w)
    <3>1. \A v \in Workers : wpc[v] = "exit" => wpc'[v] = "exit"
      BY <1>0, <2>3 DEF TaskSaveBegin, TaskSaveEnd, Unregister, TypeOK
    <3>2. UNCHANGED <<status, runningTasks, maxConcurrent, worker, boot, lpc, hpc>>
      BY <2>3 DEF TaskSaveBegin, TaskSaveEnd, Unregister
    <3> QED
      BY <3>1, <3>2
  <2>4. CASE Release(w)
    BY <1>0, <2>4 DEF Release, TypeOK
  <2>5. CASE TaskTrigger(w) \/ Exit(w)
    BY <2>5 DEF TaskTrigger, Exit
  <2> QED
    BY <1>5, <2>1, <2>2, <2>3, <2>4, <2>5 DEF Task, TaskLocal, ConnectReturn, WorkPcs
<1>6. CASE Main
  <2> USE DEF MainKeep, NoLostWakeup, WakeupOwed, PendingIds
  <2>1. CASE Cancel \/ ShutdownTrigger \/ SnapshotClosers \/ CloseDone
    BY <2>1 DEF Cancel, ShutdownTrigger, SnapshotClosers, CloseDone
  <2>2. ASSUME NEW w \in Workers, CloseOne(w) PROVE NoLostWakeup'
    BY <2>2 DEF CloseOne
  <2>3. CASE PowerOff
    BY <2>3 DEF PowerOff
  <2>4. CASE Start
    BY <1>0, <2>4 DEF Start, LoadedIds, LoadedStatus, TypeOK
  <2>5. CASE BootTrigger
    BY <2>5 DEF BootTrigger
  <2>6. CASE StartUnread
    BY <2>6 DEF StartUnread
  <2> QED
    BY <1>6, <2>1, <2>2, <2>3, <2>4, <2>5, <2>6 DEF Main, ShutdownStep, ExitProcess, Crash
<1> QED
  BY <1>1, <1>2, <1>3, <1>4, <1>5, <1>6 DEF Next

(* Tokens of the capacity-1 channel merge and are sent outside qm.mu, and    *)
(* still no pending task is ever left with a free slot and nobody about to   *)
(* wake the dispatcher.                                                      *)
THEOREM WakeupNeverLost == Spec => []NoLostWakeup
<1>1. Init => NoLostWakeup
  BY DEF Init, NoLostWakeup
<1> QED
  BY <1>1, TypedInit, TypedStep, WakeupStep, PTL DEF Spec

-----------------------------------------------------------------------------
(* Tasks, slots, goroutines and the state file.                              *)

(* A process that does not run has no dispatcher and no task goroutines.     *)
DownIdle == mpc = "down" => lpc = "exited" /\ \A w \in Workers : wpc[w] = "idle"

(* Ids above nextID have not been handed out.                                *)
IdsFresh == \A t \in TaskIds : t > nextID => status[t] = "Absent"

(* A working goroutine has a task that was handed out, that is Running or    *)
(* removed, and that no other goroutine works on.                            *)
Owner ==
  \A w \in Workers : wpc[w] \in WorkPcs =>
    /\ job[w] \in TaskIds /\ job[w] <= nextID
    /\ status[job[w]] \in {"Running", "Absent"}
    /\ \A v \in Workers : wpc[v] \in WorkPcs /\ job[v] = job[w] => v = w

HasOne ==
  \A t \in TaskIds : status[t] = "Running" =>
    \E w \in Workers : wpc[w] \in WorkPcs /\ job[w] = t

OwnInv == DownIdle /\ IdsFresh /\ Owner /\ HasOne

LEMMA OwnInit == Init => OwnInv
BY DEF Init, OwnInv, DownIdle, IdsFresh, Owner, HasOne, WorkPcs

(* What a step that only moves goroutines inside or outside their work does. *)
LEMMA OwnKept ==
  ASSUME IdsFresh, Owner, HasOne, UNCHANGED <<queueVars, job>>,
         \A w \in Workers : wpc'[w] \in WorkPcs <=> wpc[w] \in WorkPcs
  PROVE  IdsFresh' /\ Owner' /\ HasOne'
<1>1. UNCHANGED <<status, nextID, job>>
  BY DEF queueVars
<1>2. IdsFresh'
  BY <1>1 DEF IdsFresh
<1>3. Owner'
  BY <1>1 DEF Owner
<1>4. HasOne'
  BY <1>1 DEF HasOne
<1> QED
  BY <1>2, <1>3, <1>4

(* What a step that changes the status of tasks nobody works on does.        *)
LEMMA OwnChanged ==
  ASSUME TypeOK, IdsFresh, Owner, HasOne, UNCHANGED <<wpc, job>>,
         nextID' \in Int, nextID <= nextID',
         \A t \in TaskIds :
           \/ status'[t] = status[t]
           \/ status'[t] = "Absent"
           \/ /\ status'[t] # "Running" /\ t <= nextID'
              /\ status[t] \notin {"Running", "Absent"} \/ t > nextID
  PROVE  IdsFresh' /\ Owner' /\ HasOne'
<1> nextID \in Int
  BY BoundAssumption DEF TypeOK
<1>2. IdsFresh'
  BY BoundAssumption DEF IdsFresh
<1>3. Owner'
  BY DEF Owner
<1>4. HasOne'
  BY DEF HasOne
<1> QED
  BY <1>2, <1>3, <1>4

LEMMA OwnStep == TypeOK /\ OwnInv /\ [Next]_vars => OwnInv'
<1> SUFFICES ASSUME TypeOK, OwnInv, [Next]_vars PROVE OwnInv'
  OBVIOUS
<1> USE DEF OwnInv, slotVars, mapVars, taskVars, handVars, mainVars
<1>0. DownIdle /\ IdsFresh /\ Owner /\ HasOne
  OBVIOUS
<1>1. CASE UNCHANGED vars
  <2>1. UNCHANGED <<queueVars, wpc, job, mpc, lpc>>
    BY <1>1 DEF vars
  <2> QED
    BY <1>0, <2>1, OwnKept DEF DownIdle
<1>2. ASSUME NEW h \in Handlers, HandlerCall(h) PROVE OwnInv'
  <2>1. UNCHANGED <<wpc, job, mpc, lpc>>
    BY <1>2 DEF HandlerCall, AddTasks, UpdateHostLimiter, Pause, Resume, Remove, Retry,
                RetryAllFailed, ClearFinished, Control
  <2>2. DownIdle'
    BY <1>0, <2>1 DEF DownIdle
  <2>3. nextID \in Int
    BY BoundAssumption DEF TypeOK
  <2>4. ASSUME NEW k \in 1 .. MaxTasks, AddTasks(h, k) PROVE OwnInv'
    <3>1. /\ nextID' = nextID + k
          /\ \A t \in TaskIds :
               status'[t] = IF t \in nextID + 1 .. nextID + k THEN "Pending" ELSE status[t]
      BY <2>4 DEF AddTasks
    <3> QED
      BY <1>0, <2>1, <2>2, <2>3, <3>1, OwnChanged, BoundAssumption
  <2>5. ASSUME NEW n, UpdateHostLimiter(h, n) PROVE OwnInv'
    BY <1>0, <2>1, <2>2, <2>5, OwnKept DEF UpdateHostLimiter, queueVars
  <2>6. ASSUME nextID' = nextID,
               \A t \in TaskIds : \/ status'[t] = status[t] \/ status'[t] = "Absent"
                                  \/ /\ status'[t] # "Running" /\ status[t] # "Running"
                                     /\ status[t] # "Absent"
        PROVE  OwnInv'
    <3>1. \A t \in TaskIds : status[t] # "Absent" => t <= nextID
      BY <1>0, <2>3, BoundAssumption DEF IdsFresh
    <3> QED
      BY <1>0, <2>1, <2>2, <2>3, <2>6, <3>1, OwnChanged
  <2>7. ASSUME NEW t \in TaskIds, Pause(h, t) \/ Resume(h, t) PROVE OwnInv'
    BY <2>6, <2>7 DEF Pause, Resume, TypeOK
  <2>8. ASSUME NEW t \in TaskIds, Remove(h, t) \/ Retry(h, t) PROVE OwnInv'
    BY <2>6, <2>8 DEF Remove, Retry, Control, TypeOK
  <2>9. ASSUME NEW S \in SUBSET TaskIds, RetryAllFailed(h, S) PROVE OwnInv'
    BY <2>6, <2>9 DEF RetryAllFailed, Control
  <2>10. CASE ClearFinished(h)
    BY <2>6, <2>10 DEF ClearFinished, Control
  <2> QED
    BY <1>2, <2>4, <2>5, <2>7, <2>8, <2>9, <2>10 DEF HandlerCall
<1>3. ASSUME NEW h \in Handlers, HandlerStep(h) PROVE OwnInv'
  <2>1. UNCHANGED <<queueVars, wpc, job, mpc, lpc>>
    BY <1>3 DEF HandlerStep, AddSaveBegin, AddSaveEnd, HandlerTrigger, ControlSaveEnd
  <2> QED
    BY <1>0, <2>1, OwnKept DEF DownIdle
<1>4. CASE Loop
  <2>1. DownIdle'
    BY <1>0, <1>4 DEF DownIdle, Loop, LoopStep, LoopTake, LoopLock, ScanDone, LoopSaveBegin,
         LoopSaveEnd, LoopExit, Spawn, StartTask, LoopKeep
  <2>2. ASSUME UNCHANGED <<queueVars, wpc, job>> PROVE OwnInv'
    BY <1>0, <2>1, <2>2, OwnKept
  <2>3. ASSUME NEW w \in Workers, NEW t \in TaskIds, wpc[w] = "idle", Oldest(t),
               StartTask(w, t)
        PROVE  OwnInv'
    <3>1. /\ status[t] = "Pending" /\ t <= nextID
          /\ status' = [status EXCEPT ![t] = "Running"] /\ nextID' = nextID
          /\ wpc' = [wpc EXCEPT ![w] = "start"] /\ job' = [job EXCEPT ![w] = t]
      BY <1>0, <2>3, BoundAssumption DEF Oldest, PendingIds, StartTask, IdsFresh, TypeOK
    <3>2. \A v \in Workers : wpc[v] \in WorkPcs => job[v] # t
      BY <1>0, <3>1 DEF Owner
    <3>3. w \notin {v \in Workers : wpc[v] \in WorkPcs}
      BY <2>3 DEF WorkPcs
    <3>4. /\ wpc'[w] = "start" /\ job'[w] = t /\ status'[t] = "Running"
          /\ \A v \in Workers : v # w => wpc'[v] = wpc[v] /\ job'[v] = job[v]
          /\ \A u \in TaskIds : u # t => status'[u] = status[u]
      BY <3>1 DEF TypeOK
    <3>5. Owner'
      BY <1>0, <2>3, <3>1, <3>2, <3>4 DEF Owner, WorkPcs
    <3>6. HasOne'
      BY <1>0, <2>3, <3>2, <3>3, <3>4 DEF HasOne, WorkPcs
    <3>7. IdsFresh'
      BY <1>0, <3>1, <3>4, BoundAssumption DEF IdsFresh, TypeOK
    <3> QED
      BY <2>1, <3>5, <3>6, <3>7
  <2> QED
    BY <1>4, <2>2, <2>3 DEF Loop, LoopStep, LoopTake, LoopLock, ScanDone, LoopSaveBegin,
         LoopSaveEnd, LoopExit, LoopKeep, Spawn
<1>5. ASSUME NEW w \in Workers, Task(w) PROVE OwnInv'
  <2> USE DEF Go, GoKeep
  <2>1. wpc[w] # "idle" /\ UNCHANGED <<mpc, lpc>>
    BY <1>5 DEF Task, TaskLocal, ConnectReturn, UploadEnd, Register, ConnectErr,
         ConnectOk, Adopt, UploadReturn, Finish, TaskSaveBegin, TaskSaveEnd, TaskTrigger,
         Unregister, Release, Exit
  <2>2. DownIdle'
    BY <1>0, <2>1 DEF DownIdle
  <2>3. ASSUME NEW from, NEW to, Go(w, from, to), from \in WorkPcs <=> to \in WorkPcs,
               UNCHANGED <<queueVars, job>>
        PROVE  OwnInv'
    <3>1. \A v \in Workers : wpc'[v] \in WorkPcs <=> wpc[v] \in WorkPcs
      BY <2>3 DEF TypeOK
    <3> QED
      BY <1>0, <2>2, <2>3, <3>1, OwnKept
  <2>4. CASE Register(w) \/ ConnectErr(w) \/ ConnectOk(w) \/ Adopt(w) \/ UploadEnd(w)
    BY <2>3, <2>4 DEF Register, ConnectErr, ConnectOk, Adopt, UploadEnd, UploadReturn,
                      WorkPcs, queueVars
  <2>5. CASE \/ TaskSaveBegin(w) \/ TaskSaveEnd(w) \/ TaskTrigger(w) \/ Unregister(w)
            \/ Release(w)
    BY <2>3, <2>5 DEF TaskSaveBegin, TaskSaveEnd, TaskTrigger, Unregister, Release,
                      WorkPcs, queueVars
  <2>6. CASE Exit(w)
    <3>1. \A v \in Workers : /\ wpc'[v] \in WorkPcs <=> wpc[v] \in WorkPcs
                             /\ wpc[v] \in WorkPcs => job'[v] = job[v]
      BY <2>6 DEF Exit, WorkPcs, TypeOK
    <3>2. UNCHANGED <<status, nextID>>
      BY <2>6 DEF Exit, queueVars
    <3> QED
      BY <1>0, <2>2, <3>1, <3>2 DEF IdsFresh, Owner, HasOne
  <2>7. ASSUME NEW from \in WorkPcs, NEW result \in {"Completed", "Failed"},
               Finish(w, from, result)
        PROVE  OwnInv'
    <3>1. /\ wpc[w] \in WorkPcs /\ wpc' = [wpc EXCEPT ![w] = "save"]
          /\ UNCHANGED <<job, nextID>>
          /\ status' = [status EXCEPT ![job[w]] = IF @ = "Absent" THEN @ ELSE result]
      BY <2>7 DEF Finish
    <3>2. \A v \in Workers : wpc'[v] \in WorkPcs <=> wpc[v] \in WorkPcs /\ v # w
      BY <3>1 DEF WorkPcs, TypeOK
    <3>3. \A t \in TaskIds : /\ t # job[w] => status'[t] = status[t]
                             /\ status'[t] = "Absent" <=> status[t] = "Absent"
                             /\ t = job[w] => status'[t] # "Running"
      BY <1>0, <3>1 DEF TypeOK, Owner
    <3>4. IdsFresh'
      BY <1>0, <3>1, <3>3 DEF IdsFresh
    <3>5. Owner'
      BY <1>0, <3>1, <3>2, <3>3 DEF Owner
    <3>6. HasOne'
      BY <1>0, <3>1, <3>2, <3>3 DEF HasOne
    <3> QED
      BY <2>2, <3>4, <3>5, <3>6
  <2> QED
    BY <1>5, <2>4, <2>5, <2>6, <2>7 DEF Task, TaskLocal, ConnectReturn, WorkPcs
<1>6. CASE Main
  <2>1. CASE Cancel \/ ShutdownTrigger \/ SnapshotClosers \/ CloseDone
    <3>1. UNCHANGED <<queueVars, wpc, job, lpc>> /\ mpc' # "down"
      BY <2>1 DEF Cancel, ShutdownTrigger, SnapshotClosers, CloseDone, MainKeep
    <3> QED
      BY <1>0, <3>1, OwnKept DEF DownIdle
  <2>2. ASSUME NEW w \in Workers, CloseOne(w) PROVE OwnInv'
    <3>1. UNCHANGED <<queueVars, wpc, job, lpc, mpc>>
      BY <2>2 DEF CloseOne, MainKeep
    <3> QED
      BY <1>0, <3>1, OwnKept DEF DownIdle
  <2>3. CASE PowerOff
    BY <2>3 DEF PowerOff, DownIdle, IdsFresh, Owner, HasOne, WorkPcs
  <2>4. CASE Start
    <3>1. /\ \A w \in Workers : wpc'[w] = "idle"
          /\ \A t \in TaskIds : status'[t] = LoadedStatus(disk.st[t])
          /\ nextID' \in LoadedLast /\ mpc' = "serving"
      BY <1>0, <2>4 DEF Start, DownIdle
    <3>2. \A t \in TaskIds : status'[t] # "Running"
      BY <3>1 DEF LoadedStatus
    <3>3. \A t \in TaskIds : status'[t] # "Absent" => t \in LoadedIds
      BY <3>1 DEF LoadedStatus, LoadedIds
    <3>4. LoadedIds \subseteq Int /\ \A t \in LoadedIds : t <= nextID'
      BY <3>1, BoundAssumption DEF LoadedLast, LoadedIds
    <3>5. nextID' \in Int
      BY <3>1, BoundAssumption DEF LoadedLast, LoadedIds
    <3>6. IdsFresh'
      BY <3>3, <3>4, <3>5, BoundAssumption DEF IdsFresh
    <3> QED
      BY <3>1, <3>2, <3>6 DEF DownIdle, Owner, HasOne, WorkPcs
  <2>5. CASE BootTrigger
    <3>1. UNCHANGED <<queueVars, wpc, job, lpc, mpc>>
      BY <2>5 DEF BootTrigger
    <3> QED
      BY <1>0, <3>1, OwnKept DEF DownIdle
  <2>6. CASE StartUnread
    BY <1>0, <2>6 DEF StartUnread, DownIdle, IdsFresh, Owner, HasOne, WorkPcs
  <2> QED
    BY <1>6, <2>1, <2>2, <2>3, <2>4, <2>5, <2>6 DEF Main, ShutdownStep, ExitProcess, Crash
<1> QED
  BY <1>1, <1>2, <1>3, <1>4, <1>5, <1>6 DEF Next

(* However dispatches, removes, retries and results interleave, a running    *)
(* task has exactly one goroutine and a goroutine works on a running task or *)
(* on a removed one.                                                         *)
THEOREM OneGoroutine == Spec => []OneGoroutinePerTask
<1>1. TypeOK /\ OwnInv => OneGoroutinePerTask
  BY DEF OwnInv, Owner, HasOne, OneGoroutinePerTask, Working
<1> QED
  BY <1>1, TypeCorrect, OwnInit, OwnStep, PTL DEF Spec

-----------------------------------------------------------------------------
(* Shutdown.  A goroutine that uploads is registered in activeClosers, so it *)
(* is in the snapshot; once the context is cancelled no upload begins.       *)

CloserReg == \A w \in Workers : wpc[w] = "upload" => activeClosers[job[w]] = w
CloseLeft ==
  /\ mpc = "closing" => \A w \in Workers : wpc[w] = "upload" => w \in toClose \cup closed
  /\ mpc = "waittasks" => \A w \in Workers : wpc[w] = "upload" => w \in closed
CloseInv == CloserReg /\ CloseLeft

LEMMA CloseKept ==
  ASSUME CloseInv, UNCHANGED <<activeClosers, mpc, toClose>>, closed \subseteq closed',
         \A w \in Workers : wpc'[w] = "upload" => wpc[w] = "upload" /\ job'[w] = job[w]
  PROVE  CloseInv'
BY DEF CloseInv, CloserReg, CloseLeft

LEMMA CloseStep == TypeOK /\ OwnInv /\ CloseInv /\ [Next]_vars => CloseInv'
<1> SUFFICES ASSUME TypeOK, OwnInv, CloseInv, [Next]_vars PROVE CloseInv'
  OBVIOUS
<1> USE DEF mapVars, taskVars, mainVars
<1>1. CASE UNCHANGED vars
  BY <1>1, CloseKept DEF vars
<1>2. ASSUME NEW h \in Handlers, HandlerCall(h) \/ HandlerStep(h) PROVE CloseInv'
  <2>1. UNCHANGED <<activeClosers, mpc, toClose, closed, wpc, job>>
    BY <1>2 DEF HandlerCall, AddTasks, UpdateHostLimiter, Pause, Resume, Remove, Retry,
                RetryAllFailed, ClearFinished, Control, HandlerStep, AddSaveBegin,
                AddSaveEnd, HandlerTrigger, ControlSaveEnd
  <2> QED
    BY <2>1, CloseKept
<1>3. CASE Loop
  <2>1. CASE \E w \in Workers : Spawn(w)
    <3>1. PICK w \in Workers, t \in TaskIds : wpc[w] = "idle" /\ StartTask(w, t)
      BY <2>1 DEF Spawn
    <3>2. /\ UNCHANGED <<activeClosers, mpc, toClose, closed>>
          /\ wpc' = [wpc EXCEPT ![w] = "start"] /\ job' = [job EXCEPT ![w] = t]
      BY <3>1 DEF StartTask
    <3>3. \A v \in Workers : wpc'[v] = "upload" => wpc[v] = "upload" /\ job'[v] = job[v]
      BY <3>2 DEF TypeOK
    <3> QED
      BY <3>2, <3>3, CloseKept
  <2>2. CASE UNCHANGED <<mapVars, taskVars, mainVars>>
    BY <2>2, CloseKept
  <2> QED
    BY <1>3, <2>1, <2>2 DEF Loop, LoopStep, LoopTake, LoopLock, ScanDone, LoopSaveBegin,
                            LoopSaveEnd, LoopExit, LoopKeep
<1>4. ASSUME NEW w \in Workers, Task(w) PROVE CloseInv'
  <2> USE DEF Go, GoKeep
  <2>1. ASSUME NEW from, NEW to, Go(w, from, to), to # "upload",
               UNCHANGED <<activeClosers, mpc, toClose, closed, job>>
        PROVE  CloseInv'
    <3>1. \A v \in Workers : wpc'[v] = "upload" => wpc[v] = "upload"
      BY <2>1 DEF TypeOK
    <3> QED
      BY <2>1, <3>1, CloseKept
  <2>2. CASE Register(w) \/ ConnectReturn(w)
    BY <2>1, <2>2 DEF Register, ConnectReturn, ConnectErr, ConnectOk
  <2>3. CASE \/ Finish(w, "uploaded", "Completed") \/ Finish(w, "failed", "Failed")
            \/ TaskSaveBegin(w) \/ TaskSaveEnd(w) \/ TaskTrigger(w)
            \/ Unregister(w) \/ Release(w)
    BY <2>1, <2>3 DEF Finish, TaskSaveBegin, TaskSaveEnd, TaskTrigger, Unregister, Release
  <2>4. CASE Exit(w)
    <3>1. \A v \in Workers : wpc'[v] = "upload" => wpc[v] = "upload" /\ job'[v] = job[v]
      BY <2>4 DEF Exit, TypeOK
    <3> QED
      BY <2>4, <3>1, CloseKept DEF Exit
  <2>5. CASE Adopt(w)
    <3>1. CASE CtxErr(w)
      BY <2>1, <2>5, <3>1 DEF Adopt
    <3>2. CASE ~CtxErr(w)
      <4>1. /\ mpc \in {"down", "serving"} /\ mpc' = mpc /\ job' = job
            /\ wpc[w] = "connected" /\ wpc' = [wpc EXCEPT ![w] = "upload"]
            /\ activeClosers' = [activeClosers EXCEPT ![job[w]] = w]
        BY <2>5, <3>2 DEF Adopt, CtxErr, Stopping
      <4>2. job[w] \in TaskIds
            /\ \A v \in Workers : wpc[v] = "upload" => job[v] \in TaskIds /\ job[v] # job[w]
        BY <4>1 DEF OwnInv, Owner, WorkPcs
      <4>3. CloserReg'
        BY <4>1, <4>2 DEF CloseInv, CloserReg, TypeOK
      <4> QED
        BY <4>1, <4>3 DEF CloseInv, CloseLeft
    <3> QED
      BY <3>1, <3>2
  <2>6. ASSUME NEW to \in {"uploaded", "failed"}, UploadReturn(w, to) PROVE CloseInv'
    <3>1. /\ wpc[w] = "upload" /\ wpc' = [wpc EXCEPT ![w] = to]
          /\ closed' = closed \ {w} /\ UNCHANGED <<mpc, toClose, job>>
          /\ activeClosers' = [activeClosers EXCEPT ![job[w]] = None]
      BY <2>6 DEF UploadReturn
    <3>2. \A v \in Workers : wpc'[v] = "upload" => wpc[v] = "upload" /\ v # w
      BY <3>1 DEF TypeOK
    <3>3. \A v \in Workers : wpc'[v] = "upload" => job[v] \in TaskIds /\ job[v] # job[w]
      BY <3>1, <3>2 DEF OwnInv, Owner, WorkPcs
    <3>4. CloserReg'
      BY <3>1, <3>2, <3>3 DEF CloseInv, CloserReg, TypeOK
    <3> QED
      BY <3>1, <3>2, <3>4 DEF CloseInv, CloseLeft
  <2> QED
    BY <1>4, <2>2, <2>3, <2>4, <2>5, <2>6 DEF Task, TaskLocal, UploadEnd
<1>5. CASE Main
  <2>1. CASE Cancel \/ ShutdownTrigger \/ BootTrigger
    BY <2>1 DEF Cancel, ShutdownTrigger, BootTrigger, MainKeep, CloseInv, CloserReg, CloseLeft
  <2>2. CASE SnapshotClosers
    <3>1. \A w \in Workers : wpc[w] = "upload" => w \in toClose'
      BY <2>2 DEF SnapshotClosers, OwnInv, Owner, CloseInv, CloserReg, WorkPcs
    <3> QED
      BY <2>2, <3>1 DEF SnapshotClosers, MainKeep, CloseInv, CloserReg, CloseLeft
  <2>3. ASSUME NEW w \in Workers, CloseOne(w) PROVE CloseInv'
    BY <2>3 DEF CloseOne, MainKeep, CloseInv, CloserReg, CloseLeft
  <2>4. CASE CloseDone
    BY <2>4 DEF CloseDone, MainKeep, CloseInv, CloserReg, CloseLeft
  <2>5. CASE PowerOff
    BY <2>5 DEF PowerOff, CloseInv, CloserReg, CloseLeft
  <2>6. CASE Start \/ StartUnread
    BY <2>6 DEF Start, StartUnread, CloseInv, CloserReg, CloseLeft
  <2> QED
    BY <1>5, <2>1, <2>2, <2>3, <2>4, <2>5, <2>6 DEF Main, ShutdownStep, ExitProcess, Crash
<1> QED
  BY <1>1, <1>2, <1>3, <1>4, <1>5 DEF Next

(* Shutdown has closed every transfer it is about to wait for: none slips    *)
(* between the cancelled context and the snapshot of the closers.            *)
THEOREM ShutdownCloses == Spec => []ShutdownClosesAll
<1>1. Init => CloseInv
  BY DEF Init, CloseInv, CloserReg, CloseLeft
<1>2. CloseInv => ShutdownClosesAll
  BY DEF CloseInv, CloseLeft, ShutdownClosesAll
<1> QED
  BY <1>1, <1>2, TypeCorrect, OwnInit, OwnStep, CloseStep, PTL DEF Spec

-----------------------------------------------------------------------------
(* The slot counter.  Only a dispatch and the deferred decrement change the  *)
(* set of occupied slots, by one goroutine each.                             *)

LEMMA OccupiedFinite == IsFiniteSet(Occupied)
BY WorkersAssumption, FS_Subset DEF Occupied

LEMMA SlotKept ==
  ASSUME SlotAccounting, UNCHANGED runningTasks,
         \A w \in Workers : wpc'[w] \in HeldPcs <=> wpc[w] \in HeldPcs
  PROVE  SlotAccounting'
<1>1. Occupied' = Occupied
  BY DEF Occupied
<1> QED
  BY <1>1 DEF SlotAccounting

LEMMA SlotStep == TypeOK /\ OwnInv /\ SlotAccounting /\ [Next]_vars => SlotAccounting'
<1> SUFFICES ASSUME TypeOK, OwnInv, SlotAccounting, [Next]_vars PROVE SlotAccounting'
  OBVIOUS
<1> USE DEF slotVars, taskVars
<1>1. CASE UNCHANGED <<runningTasks, wpc>>
  BY <1>1, SlotKept
<1>2. CASE UNCHANGED vars
  BY <1>1, <1>2 DEF vars
<1>3. ASSUME NEW h \in Handlers, HandlerCall(h) \/ HandlerStep(h) PROVE SlotAccounting'
  BY <1>1, <1>3 DEF HandlerCall, AddTasks, UpdateHostLimiter, Pause, Resume, Remove, Retry,
       RetryAllFailed, ClearFinished, Control, HandlerStep, AddSaveBegin,
       AddSaveEnd, HandlerTrigger, ControlSaveEnd
<1>4. CASE Loop
  <2>1. ASSUME NEW w \in Workers, NEW t \in TaskIds, wpc[w] = "idle", StartTask(w, t)
        PROVE  SlotAccounting'
    <3>1. runningTasks' = runningTasks + 1 /\ wpc' = [wpc EXCEPT ![w] = "start"]
      BY <2>1 DEF StartTask
    <3>2. Occupied' = Occupied \cup {w} /\ w \notin Occupied
      BY <2>1, <3>1 DEF Occupied, HeldPcs, WorkPcs, TypeOK
    <3>3. Cardinality(Occupied') = Cardinality(Occupied) + 1
      BY <3>2, OccupiedFinite, FS_AddElement
    <3> QED
      BY <3>1, <3>3 DEF SlotAccounting
  <2> QED
    BY <1>1, <1>4, <2>1 DEF Loop, LoopStep, LoopTake, LoopLock, ScanDone, LoopSaveBegin,
                            LoopSaveEnd, LoopExit, LoopKeep, Spawn
<1>5. ASSUME NEW w \in Workers, Task(w) PROVE SlotAccounting'
  <2> USE DEF Go, GoKeep
  <2>1. ASSUME NEW from, NEW to, Go(w, from, to), from \in HeldPcs <=> to \in HeldPcs,
               UNCHANGED runningTasks
        PROVE  SlotAccounting'
    <3>1. \A v \in Workers : wpc'[v] \in HeldPcs <=> wpc[v] \in HeldPcs
      BY <2>1 DEF TypeOK
    <3> QED
      BY <2>1, <3>1, SlotKept
  <2>2. CASE Register(w) \/ ConnectErr(w) \/ ConnectOk(w) \/ Adopt(w) \/ UploadEnd(w)
    BY <2>1, <2>2 DEF Register, ConnectErr, ConnectOk, Adopt, UploadEnd, UploadReturn,
                      HeldPcs, WorkPcs
  <2>3. CASE \/ Finish(w, "uploaded", "Completed") \/ Finish(w, "failed", "Failed")
            \/ TaskSaveBegin(w) \/ TaskSaveEnd(w) \/ TaskTrigger(w)
            \/ Unregister(w) \/ Exit(w)
    BY <2>1, <2>3 DEF Finish, TaskSaveBegin, TaskSaveEnd, TaskTrigger, Unregister, Exit,
                      HeldPcs, WorkPcs
  <2>4. CASE Release(w)
    <3>1. /\ wpc[w] = "decr" /\ wpc' = [wpc EXCEPT ![w] = "exit"]
          /\ runningTasks' = runningTasks - 1
      BY <2>4 DEF Release
    <3>2. Occupied' = Occupied \ {w} /\ w \in Occupied
      BY <3>1 DEF Occupied, HeldPcs, WorkPcs, TypeOK
    <3>3. Cardinality(Occupied') = Cardinality(Occupied) - 1
      BY <3>2, OccupiedFinite, FS_RemoveElement
    <3> QED
      BY <3>1, <3>3 DEF SlotAccounting
  <2> QED
    BY <1>5, <2>2, <2>3, <2>4 DEF Task, TaskLocal, ConnectReturn
<1>6. CASE Main
  <2>1. CASE PowerOff
    <3>1. runningTasks' = 0 /\ Occupied' = {}
      BY <2>1 DEF PowerOff, Occupied, HeldPcs, WorkPcs
    <3> QED
      BY <3>1, FS_EmptySet DEF SlotAccounting
  <2> QED
    BY <1>1, <1>6, <2>1 DEF Main, ShutdownStep, ExitProcess, Crash, Cancel, ShutdownTrigger,
         SnapshotClosers, CloseOne, CloseDone, Start, StartUnread, BootTrigger, MainKeep
<1> QED
  BY <1>2, <1>3, <1>4, <1>5, <1>6 DEF Next

(* No slot is ever leaked or given back twice: runningTasks is the number of *)
(* goroutines between their dispatch and their deferred decrement.           *)
THEOREM SlotsAccounted == Spec => []SlotAccounting
<1>1. Init => SlotAccounting
  <2>1. Init => Occupied = {} /\ runningTasks = 0
    BY DEF Init, Occupied, HeldPcs, WorkPcs
  <2> QED
    BY <2>1, FS_EmptySet DEF SlotAccounting
<1> QED
  BY <1>1, TypeCorrect, OwnInit, OwnStep, SlotStep, PTL DEF Spec

-----------------------------------------------------------------------------
(* The state file.  Whoever changes what a restart would see owes a save     *)
(* until a complete write of the queue as it then is.                        *)

LEMMA SavedRestores ==
  ASSUME TypeOK, disk' = Snapshot, UNCHANGED <<status, maxConcurrent>>
  PROVE  RestartRestores'
BY BoundAssumption DEF RestartRestores, Snapshot, LoadedMax, TypeOK

LEMMA RestoreKept ==
  ASSUME RestartRestores, UNCHANGED <<fileVars, maxConcurrent>>, Up' => Up,
         SaveOwed => SaveOwed',
         \A t \in TaskIds : Restored(status'[t]) = Restored(status[t])
  PROVE  RestartRestores'
BY DEF RestartRestores, LoadedMax

LEMMA RestoreStep == TypeOK /\ OwnInv /\ RestartRestores /\ [Next]_vars => RestartRestores'
<1> SUFFICES ASSUME TypeOK, OwnInv, RestartRestores, [Next]_vars PROVE RestartRestores'
  OBVIOUS
<1> USE DEF queueVars, slotVars, mapVars, taskVars, handVars, mainVars
<1>0. SaveOwed' \/ unsaved' => RestartRestores'
  BY DEF RestartRestores
<1>1. CASE UNCHANGED vars
  BY <1>1 DEF vars, RestartRestores, SaveOwed, Up, LoadedMax
<1>2. ASSUME NEW h \in Handlers, HandlerCall(h) PROVE RestartRestores'
  <2> USE DEF Idle, Handler
  <2>1. ASSUME NEW t \in TaskIds, Pause(h, t) PROVE RestartRestores'
    <3>1. \A u \in TaskIds : Restored(status'[u]) = Restored(status[u])
      BY <2>1 DEF Pause, Restored, LoadedStatus, TypeOK
    <3>2. UNCHANGED <<fileVars, maxConcurrent, mpc, worker, boot, lpc, hpc, wpc>>
      BY <2>1 DEF Pause
    <3> QED
      BY <3>1, <3>2, RestoreKept DEF SaveOwed, Up
  <2>2. ASSUME NEW t \in TaskIds, Resume(h, t) PROVE SaveOwed'
    BY <2>2 DEF Resume, SaveOwed
  <2>3. ASSUME hpc' = [hpc EXCEPT ![h] = "save"] \/ hpc' = [hpc EXCEPT ![h] = "trigger"]
                 \/ hpc' = [hpc EXCEPT ![h] = "ctlsave"] \/ worker' = TRUE
        PROVE  SaveOwed'
    BY <2>3 DEF SaveOwed, TypeOK
  <2> QED
    BY <1>0, <1>2, <2>1, <2>2, <2>3 DEF HandlerCall, AddTasks, UpdateHostLimiter, Remove,
         Retry, RetryAllFailed, ClearFinished, Control
<1>3. ASSUME NEW h \in Handlers, HandlerStep(h) PROVE RestartRestores'
  <2> USE DEF Handler
  <2>1. CASE AddSaveBegin(h) \/ AddSaveEnd(h)
    <3>1. SaveOwed'
      BY <2>1 DEF AddSaveBegin, AddSaveEnd, SaveOwed, TypeOK
    <3> QED
      BY <1>0, <3>1
  <2>2. CASE HandlerTrigger(h) \/ ControlSaveEnd(h)
    BY <1>0, <2>2 DEF HandlerTrigger, ControlSaveEnd, SaveOwed
  <2> QED
    BY <1>3, <2>1, <2>2 DEF HandlerStep
<1>4. CASE Loop
  <2> USE DEF LoopKeep
  <2>1. CASE \/ LoopTake \/ LoopLock \/ ScanDone \/ LoopSaveBegin
            \/ \E w \in Workers : Spawn(w)
    BY <1>0, <2>1 DEF LoopTake, LoopLock, ScanDone, LoopSaveBegin, SaveFails, Spawn,
                      StartTask, SaveOwed
  <2>2. CASE LoopSaveEnd
    BY <1>0, <2>2, SavedRestores DEF LoopSaveEnd, Store, SaveFails
  <2>3. CASE LoopExit
    BY <2>3, RestoreKept DEF LoopExit, SaveOwed, Up
  <2> QED
    BY <1>4, <2>1, <2>2, <2>3 DEF Loop, LoopStep
<1>5. ASSUME NEW w \in Workers, Task(w) PROVE RestartRestores'
  <2> USE DEF Go, GoKeep
  <2>1. CASE Finish(w, "uploaded", "Completed") \/ Finish(w, "failed", "Failed")
    BY <1>0, <2>1 DEF Finish, SaveOwed, TypeOK
  <2>2. CASE TaskSaveBegin(w)
    BY <1>0, <2>2 DEF TaskSaveBegin, SaveFails, SaveOwed, TypeOK
  <2>3. CASE TaskSaveEnd(w)
    BY <1>0, <2>3, SavedRestores DEF TaskSaveEnd, Store, SaveFails
  <2>4. CASE TaskTrigger(w) \/ Exit(w)
    BY <1>0, <2>4 DEF TaskTrigger, Exit, SaveOwed
  <2>5. CASE \/ Register(w) \/ ConnectErr(w) \/ ConnectOk(w) \/ Adopt(w) \/ UploadEnd(w)
            \/ Unregister(w) \/ Release(w)
    <3>1. UNCHANGED <<status, fileVars, maxConcurrent, mpc, worker, boot, lpc, hpc>>
      BY <2>5 DEF Register, ConnectErr, ConnectOk, Adopt, UploadEnd, UploadReturn,
                  Unregister, Release
    <3>2. \A v \in Workers : wpc[v] \in {"save", "saving"} => wpc'[v] = wpc[v]
      BY <2>5 DEF Register, ConnectErr, ConnectOk, Adopt, UploadEnd, UploadReturn,
                  Unregister, Release, TypeOK
    <3>3. SaveOwed => SaveOwed'
      BY <3>1, <3>2 DEF SaveOwed
    <3> QED
      BY <3>1, <3>3, RestoreKept DEF Up
  <2> QED
    BY <1>5, <2>1, <2>2, <2>3, <2>4, <2>5 DEF Task, TaskLocal, ConnectReturn
<1>6. CASE Main
  <2>1. CASE Cancel \/ SnapshotClosers \/ CloseDone \/ \E w \in Workers : CloseOne(w)
    <3>1. UNCHANGED <<status, fileVars, maxConcurrent, worker, boot, lpc, hpc, wpc>> /\ Up
      BY <2>1 DEF Cancel, SnapshotClosers, CloseDone, CloseOne, MainKeep, Up
    <3> QED
      BY <3>1, RestoreKept DEF SaveOwed
  <2>2. CASE ShutdownTrigger \/ BootTrigger
    BY <1>0, <2>2 DEF ShutdownTrigger, BootTrigger, SaveOwed
  <2>3. CASE PowerOff
    BY <2>3 DEF PowerOff, RestartRestores, Up
  <2>4. CASE Start
    <3>1. CASE LoadedIds # {}
      BY <1>0, <2>4, <3>1 DEF Start, SaveOwed
    <3>2. CASE LoadedIds = {}
      <4>1. \A t \in TaskIds : disk.st[t] = "Absent"
        BY <3>2 DEF LoadedIds
      <4>2. /\ disk' = disk /\ maxConcurrent' = LoadedMax
            /\ \A t \in TaskIds : status'[t] = LoadedStatus(disk.st[t])
        BY <2>4 DEF Start
      <4>3. LoadedMax' = LoadedMax
        BY <4>2 DEF LoadedMax
      <4> QED
        BY <4>1, <4>2, <4>3 DEF RestartRestores, Restored, LoadedStatus
    <3> QED
      BY <3>1, <3>2
  <2>5. CASE StartUnread
    <3>1. CASE disk = EmptyFile
      BY <2>5, <3>1 DEF StartUnread, EmptyFile, RestartRestores, LoadedMax
    <3>2. CASE disk # EmptyFile
      BY <1>0, <2>5, <3>2 DEF StartUnread
    <3> QED
      BY <3>1, <3>2
  <2> QED
    BY <1>6, <2>1, <2>2, <2>3, <2>4, <2>5 DEF Main, ShutdownStep, ExitProcess, Crash
<1> QED
  BY <1>1, <1>2, <1>3, <1>4, <1>5, <1>6 DEF Next

(* Whenever nobody owes or is doing a save and the last one did not fail,    *)
(* the file restores the queue in memory, although saves happen outside the  *)
(* sections that change it.                                                  *)
THEOREM FileRestores == Spec => []RestartRestores
<1>1. Init => RestartRestores
  BY DEF Init, RestartRestores, Up
<1> QED
  BY <1>1, TypeCorrect, OwnInit, OwnStep, RestoreStep, PTL DEF Spec

-----------------------------------------------------------------------------
(* Who writes the state file.  A process that is down has no handlers and    *)
(* owes the file nothing, nobody writes the file while the dispatcher scans  *)
(* the queue, and a file in the making is empty or already the queue.        *)

HandlersDown == mpc = "down" => (\A h \in Handlers : hpc[h] = "idle") /\ ~unsaved
ScanAlone    == lpc = "scan" => ~Writing
HalfWritten  == Writing => disk \in {EmptyFile, Snapshot}
LockInv      == HandlersDown /\ ScanAlone /\ HalfWritten

LEMMA LockInit == Init => LockInv
BY DEF Init, LockInv, HandlersDown, ScanAlone, HalfWritten, Writing, RHeld

(* A step that makes nobody a writer and does not begin a scan.              *)
LEMMA LockKept ==
  ASSUME LockInv, mpc' = "down" => mpc = "down" /\ UNCHANGED <<hpc, unsaved>>,
         lpc' = "scan" => lpc = "scan",
         Writing' => Writing /\ UNCHANGED <<disk, status, maxConcurrent>>
  PROVE  LockInv'
BY DEF LockInv, HandlersDown, ScanAlone, HalfWritten, Snapshot, EmptyFile

(* Writing depends on who is saving only.                                    *)
LEMMA WritersKept ==
  ASSUME lpc' = "saving" <=> lpc = "saving",
         \A h \in Handlers : /\ hpc'[h] = "saving" <=> hpc[h] = "saving"
                             /\ hpc'[h] = "ctlsave" <=> hpc[h] = "ctlsave",
         \A w \in Workers : wpc'[w] = "saving" <=> wpc[w] = "saving"
  PROVE  Writing' <=> Writing
BY DEF Writing, RHeld

(* The file is being written after a step, or the step has stored the queue  *)
(* as it is, or it leaves the file alone: because a save failed, because the *)
(* process ended, or because nobody was writing.                             *)
DiskStep ==
  \/ Writing'
  \/ Up /\ disk' = Snapshot /\ UNCHANGED <<status, mpc>>
  \/ UNCHANGED disk /\ \/ unsaved'
                       \/ Up /\ mpc' = "down"
                       \/ ~Writing /\ UNCHANGED unsaved

LEMMA WriteStep ==
  ASSUME TypeOK, OwnInv, LockInv, [Next]_vars
  PROVE  LockInv' /\ DiskStep
<1> USE DEF queueVars, slotVars, mapVars, taskVars, handVars, mainVars
<1>0. DownIdle /\ HandlersDown
  BY DEF OwnInv, LockInv
(* What is left to show of a step that keeps the file and the writers, of    *)
(* one that begins to write, and of one that ends a write or does not begin  *)
(* it.                                                                       *)
<1>1. ASSUME UNCHANGED fileVars, Writing' <=> Writing, lpc' = "scan" => lpc = "scan",
             ~CanLock => UNCHANGED <<status, maxConcurrent>>,
             mpc' = "down" => mpc = "down" /\ hpc' = hpc
      PROVE  LockInv' /\ DiskStep
  <2>1. Writing => ~CanLock
    BY DEF Writing, CanLock, WHeld
  <2> QED
    BY <1>1, <2>1, LockKept DEF DiskStep
<1>2. ASSUME Writing', Truncate, lpc' # "scan", mpc' # "down"
      PROVE  LockInv' /\ DiskStep
  BY <1>2 DEF DiskStep, LockInv, HandlersDown, ScanAlone, HalfWritten, Truncate, EmptyFile
<1>3. ASSUME Store, UNCHANGED <<status, maxConcurrent, mpc>>, Up, lpc # "scan", lpc' # "scan",
             Writing' => Writing
      PROVE  LockInv' /\ DiskStep
  <2>1. CASE disk' = Snapshot
    BY <1>3, <2>1 DEF DiskStep, LockInv, HandlersDown, ScanAlone, HalfWritten, Up, Snapshot
  <2>2. CASE SaveFails
    BY <1>3, <2>2, LockKept DEF SaveFails, DiskStep, Up
  <2> QED
    BY <1>3, <2>1, <2>2 DEF Store
<1>4. CASE UNCHANGED vars
  <2>1. UNCHANGED <<fileVars, status, maxConcurrent, lpc, hpc, wpc, mpc>>
    BY <1>4 DEF vars
  <2> QED
    BY <1>1, <2>1, WritersKept
<1>5. ASSUME NEW h \in Handlers, HandlerCall(h) PROVE LockInv' /\ DiskStep
  <2> USE DEF Idle, Handler
  <2>0. mpc # "down" /\ mpc' = mpc /\ hpc[h] = "idle" /\ CanLock /\ lpc # "scan"
        /\ UNCHANGED <<lpc, wpc>>
    BY <1>5 DEF HandlerCall, AddTasks, UpdateHostLimiter, Pause, Resume, Remove, Retry,
                RetryAllFailed, ClearFinished, Control, Up, CanLock, WHeld
  <2>1. ASSUME NEW e, NEW new, Control(h, e, new) PROVE LockInv' /\ DiskStep
    <3>1. CASE hpc' = [hpc EXCEPT ![h] = "ctlsave"] /\ Truncate
      <4>1. hpc'[h] = "ctlsave"
        BY <3>1 DEF TypeOK
      <4> QED
        BY <1>2, <2>0, <3>1, <4>1 DEF Writing
    <3>2. CASE hpc' = [hpc EXCEPT ![h] = "idle"] /\ SaveFails
      <4>1. hpc' = hpc
        BY <2>0, <3>2 DEF TypeOK
      <4>2. ~Writing /\ ~Writing'
        BY <2>0, <4>1, WritersKept DEF Writing, CanLock, WHeld
      <4> QED
        BY <2>0, <3>2, <4>1, <4>2, LockKept DEF SaveFails, DiskStep
    <3> QED
      BY <2>1, <3>1, <3>2 DEF Control
  <2>2. ASSUME UNCHANGED fileVars,
               hpc' = hpc \/ hpc' = [hpc EXCEPT ![h] = "save"]
                 \/ hpc' = [hpc EXCEPT ![h] = "trigger"]
        PROVE  LockInv' /\ DiskStep
    <3>2. \A g \in Handlers : /\ hpc'[g] = "saving" <=> hpc[g] = "saving"
                              /\ hpc'[g] = "ctlsave" <=> hpc[g] = "ctlsave"
      BY <2>0, <2>2 DEF TypeOK
    <3> QED
      BY <1>1, <2>0, <2>2, <3>2, WritersKept
  <2> QED
    BY <1>5, <2>1, <2>2 DEF HandlerCall, AddTasks, UpdateHostLimiter, Pause, Resume, Remove,
         Retry, RetryAllFailed, ClearFinished
<1>6. ASSUME NEW h \in Handlers, HandlerStep(h) PROVE LockInv' /\ DiskStep
  <2> USE DEF Handler
  <2>1. mpc # "down" /\ mpc' = mpc /\ lpc' = lpc /\ UNCHANGED <<status, maxConcurrent, wpc>>
    BY <1>0, <1>6 DEF HandlerStep, AddSaveBegin, AddSaveEnd, HandlerTrigger, ControlSaveEnd,
                      HandlersDown
  <2>2. CASE AddSaveBegin(h)
    <3>1. lpc # "scan" /\ hpc[h] = "save"
      BY <2>2 DEF AddSaveBegin, CanRLock, WHeld
    <3>2. CASE hpc' = [hpc EXCEPT ![h] = "saving"] /\ Truncate
      <4>1. hpc'[h] = "saving"
        BY <3>2 DEF TypeOK
      <4> QED
        BY <1>2, <2>1, <3>1, <3>2, <4>1 DEF Writing, RHeld
    <3>3. CASE hpc' = [hpc EXCEPT ![h] = "trigger"] /\ SaveFails
      <4>1. \A g \in Handlers : /\ hpc'[g] = "saving" <=> hpc[g] = "saving"
                                /\ hpc'[g] = "ctlsave" <=> hpc[g] = "ctlsave"
        BY <3>1, <3>3 DEF TypeOK
      <4> QED
        BY <1>3, <2>1, <3>1, <3>3, <4>1, WritersKept DEF Store, Up
    <3> QED
      BY <2>2, <3>2, <3>3 DEF AddSaveBegin
  <2>3. CASE AddSaveEnd(h) \/ ControlSaveEnd(h)
    <3>1. Store /\ Writing
      BY <2>3 DEF AddSaveEnd, ControlSaveEnd, Writing, RHeld
    <3>2. lpc # "scan"
      BY <3>1 DEF LockInv, ScanAlone
    <3> QED
      BY <1>3, <2>1, <3>1, <3>2 DEF Up
  <2>4. CASE HandlerTrigger(h)
    <3>1. /\ UNCHANGED fileVars
          /\ \A g \in Handlers : /\ hpc'[g] = "saving" <=> hpc[g] = "saving"
                                 /\ hpc'[g] = "ctlsave" <=> hpc[g] = "ctlsave"
      BY <2>4 DEF HandlerTrigger, TypeOK
    <3> QED
      BY <1>1, <2>1, <3>1, WritersKept
  <2> QED
    BY <1>6, <2>2, <2>3, <2>4 DEF HandlerStep
<1>7. CASE Loop
  <2> USE DEF LoopKeep
  <2>1. mpc # "down" /\ mpc' = mpc /\ hpc' = hpc /\ maxConcurrent' = maxConcurrent
    BY <1>0, <1>7 DEF Loop, LoopStep, LoopTake, LoopLock, ScanDone, LoopSaveBegin, LoopSaveEnd,
         LoopExit, Spawn, StartTask, DownIdle
  <2>2. CASE LoopTake \/ ScanDone \/ LoopExit
    <3>1. /\ UNCHANGED <<fileVars, status, wpc>> /\ lpc' # "scan"
          /\ lpc' = "saving" <=> lpc = "saving"
      BY <2>2 DEF LoopTake, ScanDone, LoopExit
    <3> QED
      BY <1>1, <2>1, <3>1, WritersKept
  <2>3. CASE LoopLock
    <3>1. UNCHANGED <<fileVars, wpc>> /\ lpc = "lock" /\ lpc' = "scan"
      BY <2>3 DEF LoopLock
    <3>2. Writing' <=> Writing
      BY <2>1, <3>1, WritersKept
    <3>3. ~Writing
      BY <2>3 DEF LoopLock, CanLock, WHeld, Writing
    <3> QED
      BY <2>1, <3>1, <3>2, <3>3 DEF LockInv, HandlersDown, ScanAlone, HalfWritten, DiskStep
  <2>4. ASSUME NEW w \in Workers, Spawn(w) PROVE LockInv' /\ DiskStep
    <3>1. /\ UNCHANGED <<fileVars, lpc>> /\ lpc = "scan"
          /\ \A v \in Workers : wpc'[v] = "saving" <=> wpc[v] = "saving"
      BY <2>4 DEF Spawn, StartTask, TypeOK
    <3>2. ~Writing /\ ~Writing'
      BY <2>1, <3>1, WritersKept DEF LockInv, ScanAlone
    <3> QED
      BY <2>1, <3>1, <3>2, LockKept DEF DiskStep
  <2>5. CASE LoopSaveBegin
    <3>1. lpc = "save" /\ UNCHANGED <<status, wpc>>
      BY <2>5 DEF LoopSaveBegin
    <3>2. CASE Truncate /\ lpc' = "saving"
      BY <1>2, <2>1, <3>2 DEF Writing, RHeld
    <3>3. CASE SaveFails /\ lpc' = "select"
      BY <1>3, <2>1, <3>1, <3>3, WritersKept DEF Store, Up
    <3> QED
      BY <2>5, <3>2, <3>3 DEF LoopSaveBegin
  <2>6. CASE LoopSaveEnd
    <3>1. Store /\ lpc = "saving" /\ lpc' = "select" /\ UNCHANGED status
      BY <2>6 DEF LoopSaveEnd
    <3>2. Writing
      BY <3>1 DEF Writing, RHeld
    <3> QED
      BY <1>3, <2>1, <3>1, <3>2 DEF Up
  <2> QED
    BY <1>7, <2>2, <2>3, <2>4, <2>5, <2>6 DEF Loop, LoopStep
<1>8. ASSUME NEW w \in Workers, Task(w) PROVE LockInv' /\ DiskStep
  <2> USE DEF Go, GoKeep
  <2>1. mpc # "down" /\ UNCHANGED <<mpc, lpc, hpc, maxConcurrent>>
    BY <1>0, <1>8 DEF DownIdle, Task, TaskLocal, ConnectReturn, UploadEnd, Register,
         ConnectErr, ConnectOk, Adopt, UploadReturn, Finish, TaskSaveBegin, TaskSaveEnd,
         TaskTrigger, Unregister, Release, Exit
  <2>2. CASE TaskSaveBegin(w)
    <3>1. lpc # "scan" /\ wpc[w] = "save" /\ UNCHANGED status
      BY <2>2 DEF TaskSaveBegin, CanRLock, WHeld
    <3>2. CASE wpc' = [wpc EXCEPT ![w] = "saving"] /\ Truncate
      <4>1. wpc'[w] = "saving"
        BY <3>2 DEF TypeOK
      <4> QED
        BY <1>2, <2>1, <3>1, <3>2, <4>1 DEF Writing, RHeld
    <3>3. CASE wpc' = [wpc EXCEPT ![w] = "trigger"] /\ SaveFails
      <4>1. \A v \in Workers : wpc'[v] = "saving" <=> wpc[v] = "saving"
        BY <3>1, <3>3 DEF TypeOK
      <4> QED
        BY <1>3, <2>1, <3>1, <3>3, <4>1, WritersKept DEF Store, Up
    <3> QED
      BY <2>2, <3>2, <3>3 DEF TaskSaveBegin
  <2>3. CASE TaskSaveEnd(w)
    <3>1. Store /\ UNCHANGED status /\ Writing
      BY <2>3 DEF TaskSaveEnd, Writing, RHeld
    <3>2. lpc # "scan"
      BY <3>1 DEF LockInv, ScanAlone
    <3> QED
      BY <1>3, <2>1, <3>1, <3>2 DEF Up
  <2>4. ASSUME NEW from, NEW to, Go(w, from, to), from # "saving", to # "saving",
               UNCHANGED fileVars, CanLock \/ UNCHANGED status
        PROVE  LockInv' /\ DiskStep
    <3>1. \A v \in Workers : wpc'[v] = "saving" <=> wpc[v] = "saving"
      BY <2>4 DEF TypeOK
    <3> QED
      BY <1>1, <2>1, <2>4, <3>1, WritersKept
  <2> QED
    BY <1>8, <2>2, <2>3, <2>4 DEF Task, TaskLocal, ConnectReturn, UploadEnd, Register,
         ConnectErr, ConnectOk, Adopt, UploadReturn, Finish, TaskTrigger, Unregister,
         Release, Exit
<1>9. CASE Main
  <2>1. CASE ExitProcess \/ Crash
    <3>1. /\ Up /\ mpc' = "down" /\ UNCHANGED disk /\ unsaved' = FALSE
          /\ lpc' = "exited" /\ \A h \in Handlers : hpc'[h] = "idle"
          /\ \A w \in Workers : wpc'[w] = "idle"
      BY <2>1 DEF ExitProcess, Crash, PowerOff, Up
    <3>2. ~Writing'
      BY <3>1 DEF Writing, RHeld
    <3> QED
      BY <3>1, <3>2 DEF LockInv, HandlersDown, ScanAlone, HalfWritten, DiskStep
  <2>2. CASE Cancel \/ ShutdownTrigger \/ SnapshotClosers \/ CloseDone \/ BootTrigger
            \/ \E w \in Workers : CloseOne(w)
    <3>1. /\ UNCHANGED <<fileVars, status, maxConcurrent, lpc, hpc, wpc>>
          /\ mpc' = "down" => mpc = "down"
      BY <2>2 DEF Cancel, ShutdownTrigger, SnapshotClosers, CloseDone, CloseOne, BootTrigger,
                  MainKeep
    <3> QED
      BY <1>1, <3>1, WritersKept
  <2>3. CASE Start \/ StartUnread
    <3>1. /\ UNCHANGED <<disk, hpc, wpc>> /\ mpc = "down" /\ mpc' # "down"
          /\ lpc = "exited" /\ lpc' = "select" /\ (unsaved' \/ UNCHANGED unsaved)
      BY <1>0, <2>3 DEF Start, StartUnread, DownIdle, HandlersDown, TypeOK
    <3>2. ~Writing
      BY <1>0, <3>1 DEF Writing, RHeld, DownIdle, HandlersDown
    <3>3. ~Writing'
      BY <3>1, <3>2, WritersKept
    <3> QED
      BY <3>1, <3>2, <3>3, LockKept DEF DiskStep
  <2> QED
    BY <1>9, <2>1, <2>2, <2>3 DEF Main, ShutdownStep
<1> QED
  BY <1>4, <1>5, <1>6, <1>7, <1>8, <1>9 DEF Next

-----------------------------------------------------------------------------
(* The promises over restarts.                                               *)

(* A process comes up by a start only, with the file or without it.          *)
LEMMA UpByStart ==
  ASSUME OwnInv, LockInv, [Next]_vars, mpc = "down", mpc' # "down"
  PROVE  Start \/ StartUnread
<1> USE DEF queueVars, slotVars, mapVars, taskVars, handVars, mainVars
<1>1. DownIdle /\ HandlersDown
  BY DEF OwnInv, LockInv
<1>2. ASSUME NEW h \in Handlers, HandlerCall(h) \/ HandlerStep(h) PROVE FALSE
  BY <1>1, <1>2 DEF HandlersDown, HandlerCall, AddTasks, UpdateHostLimiter, Pause, Resume,
       Remove, Retry, RetryAllFailed, ClearFinished, Control, Idle, Up, HandlerStep,
       AddSaveBegin, AddSaveEnd, HandlerTrigger, ControlSaveEnd, Handler
<1>3. ~Loop
  BY <1>1 DEF DownIdle, Loop, LoopStep, LoopTake, LoopLock, ScanDone, LoopSaveBegin,
       LoopSaveEnd, LoopExit, Spawn
<1>4. ASSUME NEW w \in Workers, Task(w) PROVE FALSE
  BY <1>1, <1>4 DEF DownIdle, Go, Task, TaskLocal, ConnectReturn, UploadEnd, Register,
       ConnectErr, ConnectOk, Adopt, UploadReturn, Finish, TaskSaveBegin, TaskSaveEnd,
       TaskTrigger, Unregister, Release, Exit
<1>5. Main => Start \/ StartUnread
  BY DEF Main, Cancel, ShutdownStep, ShutdownTrigger, SnapshotClosers, CloseOne, CloseDone,
         ExitProcess, Crash, PowerOff, BootTrigger
<1>6. Next
  BY DEF vars
<1> QED
  BY <1>2, <1>3, <1>4, <1>5, <1>6 DEF Next

(* AddTasks is answered at the end of a write, or without one if its save    *)
(* fails.                                                                    *)
LEMMA AnswerStep ==
  ASSUME TypeOK, Next, mpc' # "down",
         NEW h \in Handlers, hpc[h] = "save", hpc'[h] = "trigger"
  PROVE  unsaved'
<1> USE DEF queueVars, slotVars, mapVars, taskVars, handVars, mainVars
<1>1. CASE UNCHANGED hpc
  BY <1>1
<1>2. ASSUME NEW g \in Handlers, HandlerCall(g) PROVE FALSE
  <2>1. hpc[g] = "idle" /\ (hpc' = hpc \/ \E to : hpc' = [hpc EXCEPT ![g] = to])
    BY <1>2 DEF HandlerCall, AddTasks, UpdateHostLimiter, Pause, Resume, Remove, Retry,
                RetryAllFailed, ClearFinished, Control, Idle, Handler
  <2> QED
    BY <2>1 DEF TypeOK
<1>3. ASSUME NEW g \in Handlers, HandlerStep(g) PROVE unsaved'
  <2>1. ASSUME g # h PROVE FALSE
    <3>1. \E to : hpc' = [hpc EXCEPT ![g] = to]
      BY <1>3 DEF HandlerStep, AddSaveBegin, AddSaveEnd, HandlerTrigger, ControlSaveEnd, Handler
    <3> QED
      BY <2>1, <3>1 DEF TypeOK
  <2>2. CASE AddSaveBegin(h)
    BY <2>2 DEF AddSaveBegin, Handler, SaveFails, TypeOK
  <2> QED
    BY <1>3, <2>1, <2>2 DEF HandlerStep, AddSaveEnd, HandlerTrigger, ControlSaveEnd, Handler
<1>4. CASE Loop
  BY <1>1, <1>4 DEF Loop, LoopStep, LoopTake, LoopLock, ScanDone, LoopSaveBegin, LoopSaveEnd,
       LoopExit, LoopKeep, Spawn, StartTask
<1>5. ASSUME NEW w \in Workers, Task(w) PROVE UNCHANGED hpc
  BY <1>5 DEF Task, TaskLocal, ConnectReturn, UploadEnd, Register, ConnectErr, ConnectOk, Adopt,
       UploadReturn, Finish, TaskSaveBegin, TaskSaveEnd, TaskTrigger, Unregister, Release,
       Exit, GoKeep
<1>6. CASE Main
  BY <1>1, <1>6 DEF Main, Cancel, ShutdownStep, ShutdownTrigger, SnapshotClosers, CloseOne,
       CloseDone, ExitProcess, Crash, PowerOff, Start, StartUnread, BootTrigger, MainKeep
<1> QED
  BY <1>1, <1>2, <1>3, <1>4, <1>5, <1>6 DEF Next

(* Only a request of the user changes the status of a completed task.        *)
LEMMA CompletedStep ==
  ASSUME TypeOK, OwnInv, LockInv, [Next]_vars, mpc # "down", mpc' # "down",
         NEW t \in TaskIds, status[t] = "Completed"
  PROVE  status'[t] \in {"Completed", "Absent", "Pending"}
<1> USE DEF queueVars, slotVars, mapVars, taskVars, handVars, mainVars
<1>1. CASE UNCHANGED status
  BY <1>1
<1>2. ASSUME NEW h \in Handlers, HandlerCall(h)
      PROVE  status'[t] \in {"Completed", "Absent", "Pending"}
  <2>1. ASSUME NEW u \in TaskIds, Pause(h, u) \/ Resume(h, u) \/ Remove(h, u) \/ Retry(h, u)
        PROVE  status'[t] \in {"Completed", "Absent", "Pending"}
    BY <2>1 DEF Pause, Resume, Remove, Retry, Control, TypeOK
  <2>2. CASE \E S \in SUBSET TaskIds : RetryAllFailed(h, S)
    BY <2>2 DEF RetryAllFailed, Control
  <2>3. CASE ClearFinished(h)
    BY <2>3 DEF ClearFinished, Control
  <2>4. ASSUME NEW k \in 1 .. MaxTasks, AddTasks(h, k)
        PROVE  status'[t] \in {"Completed", "Absent", "Pending"}
    BY <2>4 DEF AddTasks
  <2> QED
    BY <1>1, <1>2, <2>1, <2>2, <2>3, <2>4 DEF HandlerCall, UpdateHostLimiter
<1>3. ASSUME NEW w \in Workers, NEW from \in WorkPcs, NEW result, Finish(w, from, result)
      PROVE  status'[t] \in {"Completed", "Absent", "Pending"}
  <2>1. job[w] # t
    BY <1>3 DEF Finish, Go, OwnInv, Owner
  <2> QED
    BY <1>3, <2>1 DEF Finish, TypeOK
<1>4. ASSUME NEW w \in Workers, Spawn(w)
      PROVE  status'[t] \in {"Completed", "Absent", "Pending"}
  BY <1>4 DEF Spawn, StartTask, Oldest, PendingIds, TypeOK
<1>5. CASE Main
  BY <1>1, <1>5 DEF Main, Cancel, ShutdownStep, ShutdownTrigger, SnapshotClosers, CloseOne,
       CloseDone, ExitProcess, Crash, PowerOff, Start, StartUnread, BootTrigger, MainKeep
<1>6. ASSUME NEW h \in Handlers, HandlerStep(h) PROVE UNCHANGED status
  BY <1>6 DEF HandlerStep, AddSaveBegin, AddSaveEnd, HandlerTrigger, ControlSaveEnd
<1>7. CASE Loop
  BY <1>1, <1>4, <1>7 DEF Loop, LoopStep, LoopTake, LoopLock, ScanDone, LoopSaveBegin,
       LoopSaveEnd, LoopExit, LoopKeep
<1>8. ASSUME NEW w \in Workers, Task(w)
      PROVE  status'[t] \in {"Completed", "Absent", "Pending"}
  BY <1>1, <1>3, <1>8 DEF Task, TaskLocal, ConnectReturn, UploadEnd, Register, ConnectErr,
       ConnectOk, Adopt, UploadReturn, TaskSaveBegin, TaskSaveEnd, TaskTrigger, Unregister,
       Release, Exit, GoKeep, WorkPcs
<1> QED
  BY <1>1, <1>2, <1>5, <1>6, <1>7, <1>8 DEF Next, vars

(* Acknowledged and finished tasks are known ids.  The file never has a      *)
(* finished one in another state, and has it unless the file is being        *)
(* written or the last save failed, which is what a restart relies on.       *)
DoneInFile ==
  \A t \in done : /\ disk.st[t] \in {"Completed", "Absent"}
                  /\ ~Writing /\ ~unsaved => disk.st[t] = "Completed"
PromiseInv ==
  /\ acked \subseteq TaskIds /\ done \subseteq TaskIds
  /\ AcknowledgedSurvives /\ DoneStaysDone /\ DoneInFile

(* What the file does not have when the process ends is forgotten.           *)
LEMMA NotForgotten ==
  ASSUME Up, mpc' = "down", NEW t \in TaskIds, t \notin Forgotten
  PROVE  disk.st[t] = "Absent" => ~Writing /\ ~unsaved
BY DEF Forgotten, Up

(* A process that comes up has read the file, or that forgets what is in it. *)
LEMMA ReadOrForgotten ==
  ASSUME OwnInv, LockInv, [Next]_vars, mpc = "down", mpc' # "down",
         NEW t \in TaskIds, t \notin Forgotten, disk.st[t] # "Absent"
  PROVE  Start
<1>1. ~unsaved'
  BY DEF Forgotten
<1>2. EmptyFile.st[t] = "Absent"
  BY DEF EmptyFile
<1>3. ~StartUnread
  BY <1>1, <1>2 DEF StartUnread
<1> QED
  BY <1>3, UpByStart

LEMMA AcknowledgedStep ==
  ASSUME TypeOK, TypeOK', OwnInv, OwnInv', LockInv, LockInv', PromiseInv, Next, Observe
  PROVE  acked' \subseteq TaskIds /\ AcknowledgedSurvives'
<1>1. acked' \subseteq TaskIds
  BY DEF Observe, PromiseInv
<1>2. SUFFICES ASSUME NEW t \in acked'
               PROVE  /\ mpc' # "down" => status'[t] # "Absent"
                      /\ ~Writing' /\ ~unsaved' => disk'.st[t] # "Absent"
  BY <1>1 DEF AcknowledgedSurvives, Up
<1>3. t \in TaskIds /\ t \notin Forgotten
  BY <1>1, <1>2 DEF Observe
<1>4. DiskStep
  BY WriteStep
(* The task was acknowledged before, or is being acknowledged: at the end of *)
(* a save, or after one that failed.                                         *)
<1>5. \/ t \in acked
      \/ status[t] # "Absent" /\ mpc # "down" /\ mpc' # "down" /\ (Writing \/ unsaved')
  <2> SUFFICES ASSUME t \notin acked
               PROVE  /\ status[t] # "Absent" /\ mpc # "down" /\ mpc' # "down"
                      /\ Writing \/ unsaved'
    OBVIOUS
  <2>1. status[t] # "Absent" /\ Answered
    BY <1>2 DEF Observe
  <2>2. PICK h \in Handlers : hpc[h] \in {"save", "saving"} /\ hpc'[h] = "trigger"
    BY <2>1 DEF Answered
  <2>3. mpc # "down" /\ mpc' # "down"
    BY <2>2 DEF LockInv, HandlersDown
  <2>4. hpc[h] = "saving" => Writing
    BY DEF Writing, RHeld
  <2> QED
    BY <2>1, <2>2, <2>3, <2>4, AnswerStep
<1>6. mpc # "down" => status[t] # "Absent"
  BY <1>5 DEF PromiseInv, AcknowledgedSurvives, Up
<1>7. mpc # "down" /\ mpc' # "down" => status'[t] # "Absent"
  <2>1. t \notin Removed
    BY <1>2 DEF Observe
  <2> QED
    BY <1>3, <1>6, <2>1 DEF Removed, Changed, Kept, Up, TypeOK
<1>8. ~Writing' /\ ~unsaved' => disk'.st[t] # "Absent"
  <2> SUFFICES ASSUME ~Writing', ~unsaved' PROVE disk'.st[t] # "Absent"
    OBVIOUS
  <2>1. CASE ~Writing /\ UNCHANGED fileVars
    BY <1>5, <2>1 DEF PromiseInv, AcknowledgedSurvives
  <2>2. CASE Up /\ disk' = Snapshot
    BY <1>6, <2>2 DEF Snapshot, Up
  <2>3. CASE Up /\ mpc' = "down" /\ UNCHANGED disk
    BY <1>3, <1>5, <2>3, NotForgotten DEF PromiseInv, AcknowledgedSurvives
  <2> QED
    BY <1>4, <2>1, <2>2, <2>3 DEF DiskStep
<1>9. mpc = "down" /\ mpc' # "down" => status'[t] # "Absent"
  <2> SUFFICES ASSUME mpc = "down", mpc' # "down" PROVE status'[t] # "Absent"
    OBVIOUS
  <2>1. ~Writing /\ ~unsaved
    BY DEF Writing, RHeld, OwnInv, DownIdle, LockInv, HandlersDown
  <2>2. disk.st[t] # "Absent"
    BY <1>5, <2>1 DEF PromiseInv, AcknowledgedSurvives
  <2>3. Start
    BY <1>3, <2>2, ReadOrForgotten
  <2> QED
    BY <1>3, <2>2, <2>3 DEF Start, LoadedStatus
<1> QED
  BY <1>7, <1>8, <1>9

LEMMA DoneStep ==
  ASSUME TypeOK, TypeOK', OwnInv, OwnInv', LockInv, LockInv', PromiseInv, Next, Observe
  PROVE  done' \subseteq TaskIds /\ DoneStaysDone' /\ DoneInFile'
<1>1. done' \subseteq TaskIds
  BY DEF Observe, PromiseInv
<1>2. SUFFICES ASSUME NEW t \in done'
               PROVE  /\ mpc' # "down" => status'[t] = "Completed"
                      /\ disk'.st[t] \in {"Completed", "Absent"}
                      /\ ~Writing' /\ ~unsaved' => disk'.st[t] = "Completed"
  BY <1>1 DEF DoneStaysDone, DoneInFile, Up
<1>3. t \in TaskIds /\ t \notin Forgotten
  BY <1>1, <1>2 DEF Observe
<1>4. DiskStep
  BY WriteStep
<1>5. \/ t \in done
      \/ status[t] = "Completed" /\ mpc # "down" /\ mpc' # "down" /\ Writing /\ ~unsaved'
  <2>1. \/ t \in done
        \/ status[t] = "Completed" /\ ResultSaved
    BY <1>2 DEF Observe
  <2>2. ResultSaved => Writing /\ mpc # "down" /\ mpc' # "down" /\ ~unsaved'
    BY DEF ResultSaved, Writing, RHeld, OwnInv, DownIdle
  <2> QED
    BY <2>1, <2>2
<1>6. mpc # "down" => status[t] = "Completed"
  BY <1>5 DEF PromiseInv, DoneStaysDone, Up
<1>7. mpc # "down" /\ mpc' # "down" => status'[t] = "Completed"
  <2> SUFFICES ASSUME mpc # "down", mpc' # "down" PROVE status'[t] = "Completed"
    OBVIOUS
  <2>1. status'[t] \in {"Completed", "Absent", "Pending"}
    BY <1>3, <1>6, CompletedStep
  <2>2. t \notin {u \in TaskIds : Changed(u, {"Completed"}, {"Absent", "Pending"})}
    BY <1>2 DEF Observe
  <2> QED
    BY <1>3, <1>6, <2>1, <2>2 DEF Changed, Up
<1>8. mpc = "down" /\ mpc' # "down" => status'[t] = "Completed"
  <2> SUFFICES ASSUME mpc = "down", mpc' # "down" PROVE status'[t] = "Completed"
    OBVIOUS
  <2>1. ~Writing /\ ~unsaved
    BY DEF Writing, RHeld, OwnInv, DownIdle, LockInv, HandlersDown
  <2>2. disk.st[t] = "Completed"
    BY <1>5, <2>1 DEF PromiseInv, DoneInFile
  <2>3. Start
    BY <1>3, <2>2, ReadOrForgotten
  <2> QED
    BY <1>3, <2>2, <2>3 DEF Start, LoadedStatus
<1>9. disk'.st[t] \in {"Completed", "Absent"}
      /\ (~Writing' /\ ~unsaved' => disk'.st[t] = "Completed")
  <2>1. CASE Writing'
    <3>1. disk' \in {EmptyFile', Snapshot'}
      BY <2>1 DEF LockInv, HalfWritten
    <3>2. mpc' # "down"
      BY <2>1 DEF Writing, RHeld, OwnInv, DownIdle, LockInv, HandlersDown
    <3>3. disk'.st[t] \in {"Absent", status'[t]}
      <4>1. disk' = EmptyFile => disk'.st[t] = "Absent"
        BY <1>3 DEF EmptyFile
      <4>2. disk' = Snapshot' => disk'.st[t] = status'[t]
        BY DEF Snapshot
      <4>3. EmptyFile' = EmptyFile
        BY DEF EmptyFile
      <4> QED
        BY <3>1, <4>1, <4>2, <4>3
    <3> QED
      BY <1>7, <1>8, <2>1, <3>2, <3>3
  <2>2. CASE Up /\ disk' = Snapshot
    BY <1>6, <2>2 DEF Snapshot, Up
  <2>3. CASE UNCHANGED disk /\ t \in done
    <3>1. disk'.st[t] \in {"Completed", "Absent"}
      BY <2>3 DEF PromiseInv, DoneInFile
    <3>2. CASE unsaved' \/ (~Writing /\ UNCHANGED unsaved)
      BY <2>3, <3>1, <3>2 DEF PromiseInv, DoneInFile
    <3>3. CASE Up /\ mpc' = "down"
      BY <1>3, <2>3, <3>1, <3>3, NotForgotten DEF PromiseInv, DoneInFile
    <3>4. CASE Writing' \/ (Up /\ disk' = Snapshot)
      BY <2>1, <2>2, <3>4
    <3> QED
      BY <1>4, <3>2, <3>3, <3>4 DEF DiskStep
  <2> QED
    BY <1>4, <1>5, <2>1, <2>2, <2>3 DEF DiskStep
<1> QED
  BY <1>1, <1>7, <1>8, <1>9

LEMMA PromiseInvariant == PromiseSpec => [](TypeOK /\ OwnInv /\ LockInv /\ PromiseInv)
<1> DEFINE Base == Typed /\ OwnInv /\ LockInv
<1>1. PromiseInit => Base /\ PromiseInv
  <2>1. PromiseInit => PromiseInv
    BY DEF PromiseInit, PromiseInv, AcknowledgedSurvives, DoneStaysDone, DoneInFile
  <2> QED
    BY <2>1, TypedInit, OwnInit, LockInit DEF PromiseInit
<1>2. Base /\ [Next]_vars => Base'
  <2>1. Typed => TypeOK
    BY DEF Typed
  <2> QED
    BY <2>1, TypedStep, OwnStep, WriteStep
<1>3. Base /\ PromiseInv /\ [Next /\ Observe]_<<vars, history>> => PromiseInv'
  <2> SUFFICES ASSUME Base, PromiseInv, [Next /\ Observe]_<<vars, history>>
               PROVE  PromiseInv'
    OBVIOUS
  <2>1. CASE UNCHANGED <<vars, history>>
    <3>1. UNCHANGED <<status, mpc, lpc, wpc, hpc, fileVars, acked, done>>
      BY <2>1 DEF vars, history, queueVars, mainVars, taskVars, handVars
    <3>2. Writing' <=> Writing
      BY <3>1, WritersKept
    <3> QED
      BY <3>1, <3>2 DEF PromiseInv, AcknowledgedSurvives, DoneStaysDone, DoneInFile, Up
  <2>2. CASE Next /\ Observe
    <3>1. TypeOK /\ TypeOK' /\ OwnInv' /\ LockInv'
      BY <2>2, TypedStep, OwnStep, WriteStep DEF Typed
    <3> QED
      BY <2>2, <3>1, AcknowledgedStep, DoneStep DEF PromiseInv
  <2> QED
    BY <2>1, <2>2
<1>4. [Next /\ Observe]_<<vars, history>> => [Next]_vars
  OBVIOUS
<1>5. Base => TypeOK /\ OwnInv /\ LockInv
  BY DEF Typed
<1> HIDE DEF Base
<1> QED
  BY <1>1, <1>2, <1>3, <1>4, <1>5, PTL DEF PromiseSpec

(* An upload request that was answered is forgotten through nothing but a    *)
(* fault of the state file that no later save made up for: through saves     *)
(* (saveState) that succeed or fail, crashes and restarts (loadState) its    *)
(* tasks stay in the queue and, when the last save succeeded, in the file.   *)
THEOREM AcknowledgedKept == PromiseSpec => []AcknowledgedSurvives
<1>1. PromiseInv => AcknowledgedSurvives
  BY DEF PromiseInv
<1> QED
  BY <1>1, PromiseInvariant, PTL

(* What was saved as completed is not uploaded again by any restart, also    *)
(* not after saves that failed: only a retry by the user makes it pending.   *)
THEOREM DoneKept == PromiseSpec => []DoneStaysDone
<1>1. PromiseInv => DoneStaysDone
  BY DEF PromiseInv
<1> QED
  BY <1>1, PromiseInvariant, PTL

-----------------------------------------------------------------------------
(* QueueManager implements TaskQueue with the faults that Events allows.     *)

(* A step of locks, channels, goroutines or closers only.                    *)
LEMMA SilentStep ==
  ASSUME UNCHANGED <<status, nextID, maxConcurrent, runningTasks, disk>>,
         mpc' = "down" <=> mpc = "down", Writing' <=> Writing
  PROVE  UNCHANGED TQ!vars
BY DEF TQ!vars, Up, Saved, Snapshot

(* A write begins, does not begin, or ends; until it fails, the file already *)
(* is what it will be.                                                       *)
LEMMA SaveStep ==
  ASSUME LockInv, UNCHANGED <<status, nextID, maxConcurrent, runningTasks, mpc>>,
         mpc # "down",
         \/ Writing' /\ Truncate
         \/ Store /\ Writing
         \/ SaveFails /\ (Writing' <=> Writing)
  PROVE  [TQ!Next]_TQ!vars
<1>1. CASE Writing' \/ disk' = Snapshot
  <2>1. TQ!Save
    BY <1>1 DEF TQ!Save, TQ!Image, Up, Saved, Snapshot
  <2> QED
    BY <2>1 DEF TQ!Next
<1>2. CASE SaveFails /\ ~Writing' /\ Writing
  <2>1. Saved' = EmptyFile \/ Saved' = Snapshot
    BY <1>2 DEF SaveFails, Saved, LockInv, HalfWritten
  <2>2. TQ!Save \/ TQ!SaveLost
    BY <1>2, <2>1 DEF SaveFails, TQ!Save, TQ!SaveLost, TQ!Image, TQ!Blank, TQ!Nothing, TQ!TaskIds,
                      Up, Snapshot, EmptyFile
  <2> QED
    BY <2>2 DEF TQ!Next
<1>3. CASE SaveFails /\ ~Writing' /\ ~Writing
  BY <1>3, SilentStep DEF SaveFails
<1> QED
  BY <1>1, <1>2, <1>3 DEF Store

(* A change of the queue under the lock, while nobody writes the file.       *)
LEMMA SavedKept ==
  ASSUME ~Writing, Writing' <=> Writing, UNCHANGED disk
  PROVE  Saved' = Saved /\ Saved = disk
BY DEF Saved

(* Requests of users and operators.                                          *)
LEMMA ControlEdits ==
  ASSUME TypeOK, NEW h \in Handlers, NEW e, NEW S \in SUBSET TaskIds,
         NEW to, NEW new, Control(h, e, new),
         new = [t \in TaskIds |-> IF t \in S THEN to ELSE status[t]]
  PROVE  TQ!Edit(S, to)
<1>1. /\ status' = [t \in TaskIds |-> IF t \in S THEN to ELSE status[t]]
      /\ UNCHANGED <<nextID, maxConcurrent, runningTasks, mpc, lpc, wpc>> /\ mpc # "down"
      /\ hpc[h] = "idle" /\ CanLock
  BY DEF Control, Idle, slotVars, mainVars, Up
<1>2. CASE Handler(h, "idle", "ctlsave")
  <2>1. hpc'[h] = "ctlsave"
    BY <1>2 DEF Handler, TypeOK
  <2>2. Saved' = [st |-> status', max |-> maxConcurrent]
    BY <1>1, <2>1 DEF Saved, Writing, Snapshot
  <2> QED
    BY <1>1, <2>2 DEF TQ!Edit, TQ!Image, TQ!TaskIds, Up
<1>3. CASE Handler(h, "idle", "idle") /\ SaveFails
  <2>1. hpc' = hpc
    BY <1>3 DEF Handler, TypeOK
  <2>2. ~Writing /\ (Writing' <=> Writing)
    BY <1>1, <2>1, WritersKept DEF Writing, CanLock, WHeld
  <2>3. Saved' = Saved /\ "save_error" \in Events
    BY <1>3, <2>2, SavedKept DEF SaveFails
  <2> QED
    BY <1>1, <2>3 DEF TQ!Edit, TQ!TaskIds, Up
<1> QED
  BY <1>2, <1>3 DEF Control

LEMMA RequestRefines ==
  ASSUME TypeOK, NEW h \in Handlers, HandlerCall(h)
  PROVE  TQ!Next
<1> USE DEF slotVars, mainVars, queueVars, taskVars
<1>1. ASSUME NEW t \in TaskIds, Remove(h, t) PROVE TQ!Next
  <2>1. [status EXCEPT ![t] = "Absent"]
          = [u \in TaskIds |-> IF u \in {t} THEN "Absent" ELSE status[u]]
    BY DEF TypeOK
  <2>2. status[t] # "Absent" /\ TQ!Edit({t}, "Absent")
    BY <1>1, <2>1, ControlEdits DEF Remove
  <2> QED
    BY <2>2 DEF TQ!Next, TQ!Removal, TQ!TaskIds
<1>2. ASSUME NEW t \in TaskIds, Retry(h, t) PROVE TQ!Next
  <2>1. [status EXCEPT ![t] = "Pending"]
          = [u \in TaskIds |-> IF u \in {t} THEN "Pending" ELSE status[u]]
    BY DEF TypeOK
  <2>2. status[t] \in {"Completed", "Failed"} /\ TQ!Edit({t}, "Pending")
    BY <1>2, <2>1, ControlEdits DEF Retry
  <2> QED
    BY <2>2 DEF TQ!Next, TQ!Retry, TQ!Listed, TQ!TaskIds
<1>3. ASSUME NEW S \in SUBSET TaskIds, RetryAllFailed(h, S) PROVE TQ!Next
  <2>1. S \subseteq TQ!Listed({"Failed"}) /\ TQ!Edit(S, "Pending")
    BY <1>3, ControlEdits DEF RetryAllFailed, TQ!Listed, TQ!TaskIds
  <2> QED
    BY <2>1 DEF TQ!Next, TQ!Retry
<1>4. CASE ClearFinished(h)
  <2> DEFINE S == TQ!Listed({"Completed", "Failed"})
  <2>1. S \subseteq TaskIds /\ \A t \in TaskIds : t \in S <=> status[t] \in {"Completed", "Failed"}
    BY DEF TQ!Listed, TQ!TaskIds
  <2>2. [t \in TaskIds |-> IF status[t] \in {"Completed", "Failed"} THEN "Absent" ELSE status[t]]
          = [t \in TaskIds |-> IF t \in S THEN "Absent" ELSE status[t]]
    BY <2>1
  <2> HIDE DEF S
  <2>3. TQ!Edit(S, "Absent")
    BY <1>4, <2>1, <2>2, ControlEdits DEF ClearFinished
  <2> QED
    BY <2>3 DEF S, TQ!Next, TQ!Removal
<1>5. ASSUME UNCHANGED <<fileVars, mpc, lpc, wpc>>, mpc # "down", CanLock, hpc[h] = "idle",
             \E to \in {"idle", "save", "trigger"} : hpc' = [hpc EXCEPT ![h] = to]
      PROVE  Saved' = Saved /\ UNCHANGED Up /\ Up
  <2>1. ~Writing
    BY <1>5 DEF CanLock, WHeld, Writing
  <2>2. \A g \in Handlers : /\ hpc'[g] = "saving" <=> hpc[g] = "saving"
                            /\ hpc'[g] = "ctlsave" <=> hpc[g] = "ctlsave"
    BY <1>5 DEF TypeOK
  <2> QED
    BY <1>5, <2>1, <2>2, WritersKept, SavedKept DEF Up
<1>6. ASSUME NEW k \in 1 .. MaxTasks, AddTasks(h, k) PROVE TQ!Next
  <2>1. Saved' = Saved /\ UNCHANGED Up /\ Up
    BY <1>5, <1>6 DEF AddTasks, Idle, Handler, Up
  <2>2. TQ!Add(k)
    BY <1>6, <2>1 DEF AddTasks, TQ!Add, TQ!TaskIds
  <2> QED
    BY <2>2 DEF TQ!Next
<1>7. ASSUME NEW n \in 1 .. MaxConc, UpdateHostLimiter(h, n) PROVE TQ!Next
  <2>1. Saved' = Saved /\ UNCHANGED Up /\ Up
    BY <1>5, <1>7 DEF UpdateHostLimiter, Idle, Handler, Up
  <2>2. TQ!SetCap(n)
    BY <1>7, <2>1 DEF UpdateHostLimiter, TQ!SetCap
  <2> QED
    BY <2>2 DEF TQ!Next
<1>8. ASSUME NEW t \in TaskIds, Pause(h, t) \/ Resume(h, t) PROVE TQ!Next
  <2>1. hpc' = [hpc EXCEPT ![h] = "idle"]
    BY <1>8 DEF Pause, Resume, handVars, Idle, TypeOK
  <2>2. Saved' = Saved /\ UNCHANGED Up /\ Up
    BY <1>5, <1>8, <2>1 DEF Pause, Resume, Idle, Up
  <2>3. TQ!Switch(t, "Pending", "Paused") \/ TQ!Switch(t, "Paused", "Pending")
    BY <1>8, <2>2 DEF Pause, Resume, TQ!Switch
  <2> QED
    BY <2>3 DEF TQ!Next, TQ!TaskIds
<1> QED
  BY <1>1, <1>2, <1>3, <1>4, <1>6, <1>7, <1>8 DEF HandlerCall

(* The dispatcher.                                                           *)
LEMMA LoopRefines ==
  ASSUME TypeOK, OwnInv, LockInv, Loop
  PROVE  [TQ!Next]_TQ!vars
<1> USE DEF queueVars, slotVars, taskVars, handVars, mainVars, LoopKeep
<1>1. mpc # "down" /\ mpc' = mpc /\ hpc' = hpc
  BY DEF OwnInv, DownIdle, Loop, LoopStep, LoopTake, LoopLock, ScanDone, LoopSaveBegin,
         LoopSaveEnd, LoopExit, Spawn, StartTask
<1>2. CASE LoopTake \/ LoopLock \/ ScanDone \/ LoopExit
  <2>1. /\ UNCHANGED <<status, nextID, maxConcurrent, runningTasks, disk, wpc>>
        /\ lpc' = "saving" <=> lpc = "saving"
    BY <1>2 DEF LoopTake, LoopLock, ScanDone, LoopExit
  <2> QED
    BY <1>1, <2>1, WritersKept, SilentStep
<1>3. CASE LoopSaveBegin \/ LoopSaveEnd
  <2>1. UNCHANGED <<status, nextID, maxConcurrent, runningTasks, mpc, wpc>>
    BY <1>3 DEF LoopSaveBegin, LoopSaveEnd
  <2>2. \/ Writing' /\ Truncate
        \/ Writing /\ Store
        \/ lpc = "save" /\ lpc' = "select" /\ SaveFails
    BY <1>3 DEF LoopSaveBegin, LoopSaveEnd, Writing, RHeld
  <2>3. lpc = "save" /\ lpc' = "select" => (Writing' <=> Writing)
    BY <1>1, <2>1, WritersKept
  <2> QED
    BY <1>1, <2>1, <2>2, <2>3, SaveStep
<1>4. ASSUME NEW w \in Workers, Spawn(w) PROVE TQ!Next
  <2>1. PICK t \in TaskIds : Oldest(t) /\ StartTask(w, t)
    BY <1>4 DEF Spawn
  <2>2. /\ ~Writing /\ UNCHANGED <<disk, lpc>>
        /\ \A v \in Workers : wpc'[v] = "saving" <=> wpc[v] = "saving"
    BY <1>4, <2>1 DEF Spawn, StartTask, LockInv, ScanAlone, TypeOK
  <2>3. Saved' = Saved
    BY <1>1, <2>2, WritersKept, SavedKept
  <2>4. status[t] = "Pending" /\ \A u \in TaskIds : u < t => status[u] # "Pending"
    BY <2>1, BoundAssumption DEF Oldest, PendingIds
  <2>5. TQ!Dispatch(t)
    BY <1>1, <1>4, <2>1, <2>3, <2>4 DEF Spawn, StartTask, TQ!Dispatch, TQ!TaskIds, Up
  <2> QED
    BY <2>5 DEF TQ!Next, TQ!TaskIds
<1> QED
  BY <1>2, <1>3, <1>4 DEF Loop, LoopStep

(* The task goroutines.                                                      *)
LEMMA TaskRefines ==
  ASSUME TypeOK, OwnInv, LockInv, SlotAccounting, NEW w \in Workers, Task(w)
  PROVE  [TQ!Next]_TQ!vars
<1> USE DEF Go, GoKeep, mainVars, handVars
<1>1. mpc # "down" /\ UNCHANGED <<mpc, lpc, hpc, nextID, maxConcurrent>>
  BY DEF OwnInv, DownIdle, Task, TaskLocal, ConnectReturn, UploadEnd, Register, ConnectErr,
         ConnectOk, Adopt, UploadReturn, Finish, TaskSaveBegin, TaskSaveEnd, TaskTrigger,
         Unregister, Release, Exit, queueVars, slotVars
<1>2. ASSUME NEW from, NEW to, Go(w, from, to), from # "saving", to # "saving"
      PROVE  Writing' <=> Writing
  <2>1. \A v \in Workers : wpc'[v] = "saving" <=> wpc[v] = "saving"
    BY <1>2 DEF TypeOK
  <2> QED
    BY <1>1, <2>1, WritersKept
<1>3. ASSUME NEW from, NEW to, Go(w, from, to), from # "saving", to # "saving",
             UNCHANGED <<status, runningTasks, disk>>
      PROVE  UNCHANGED TQ!vars
  BY <1>1, <1>2, <1>3, SilentStep
<1>4. CASE \/ Register(w) \/ ConnectReturn(w) \/ Adopt(w) \/ UploadEnd(w)
          \/ TaskTrigger(w) \/ Unregister(w) \/ Exit(w)
  BY <1>3, <1>4 DEF Register, ConnectReturn, ConnectErr, ConnectOk, Adopt, UploadEnd,
       UploadReturn, TaskTrigger, Unregister, Exit, queueVars, slotVars
<1>5. CASE TaskSaveBegin(w) \/ TaskSaveEnd(w)
  <2>1. \/ Writing' /\ Truncate
        \/ Writing /\ Store
        \/ Go(w, "save", "trigger") /\ SaveFails
    BY <1>5 DEF TaskSaveBegin, TaskSaveEnd, Writing, RHeld, TypeOK
  <2>2. UNCHANGED <<status, runningTasks>>
    BY <1>5 DEF TaskSaveBegin, TaskSaveEnd
  <2>3. Go(w, "save", "trigger") => (Writing' <=> Writing)
    BY <1>2
  <2> QED
    BY <1>1, <2>1, <2>2, <2>3, SaveStep
<1>6. ASSUME CanLock, UNCHANGED disk, NEW from, NEW to, Go(w, from, to),
             from # "saving", to # "saving"
      PROVE  Saved' = Saved
  <2>1. ~Writing
    BY <1>6 DEF CanLock, WHeld, Writing
  <2> QED
    BY <1>2, <1>6, <2>1, SavedKept
<1>7. ASSUME NEW from \in {"uploaded", "failed"}, NEW result \in {"Completed", "Failed"},
             Finish(w, from, result)
      PROVE  [TQ!Next]_TQ!vars
  <2>1. Saved' = Saved /\ UNCHANGED Up /\ Up
    BY <1>1, <1>6, <1>7 DEF Finish, Up
  <2>2. job[w] \in TaskIds /\ status[job[w]] \in {"Running", "Absent"}
    BY <1>7 DEF Finish, OwnInv, Owner, WorkPcs
  <2>3. UNCHANGED runningTasks
    BY <1>7 DEF Finish
  <2>4. CASE status[job[w]] = "Absent"
    <3>1. UNCHANGED status
      BY <1>7, <2>2, <2>4 DEF Finish, TypeOK
    <3> QED
      BY <1>1, <2>1, <2>3, <3>1 DEF TQ!vars
  <2>5. CASE status[job[w]] = "Running"
    <3>1. status' = [status EXCEPT ![job[w]] = result]
      BY <1>7, <2>2, <2>5 DEF Finish, TypeOK
    <3>2. TQ!Switch(job[w], "Running", result)
      BY <1>1, <2>1, <2>3, <2>5, <3>1 DEF TQ!Switch
    <3> QED
      BY <2>2, <3>2 DEF TQ!Next, TQ!TaskIds
  <2> QED
    BY <2>2, <2>4, <2>5
<1>8. CASE Release(w)
  <2>1. Saved' = Saved /\ UNCHANGED Up /\ Up /\ UNCHANGED status
    BY <1>1, <1>6, <1>8 DEF Release, Up
  <2>2. w \in Occupied
    BY <1>8 DEF Release, Occupied, HeldPcs
  <2>3. Cardinality(Occupied) \in Nat /\ Cardinality(Occupied) # 0
    BY <2>2, OccupiedFinite, FS_CardinalityType, FS_EmptySet
  <2>4. TQ!Free
    BY <1>1, <1>8, <2>1, <2>3 DEF Release, SlotAccounting, TQ!Free
  <2> QED
    BY <2>4 DEF TQ!Next
<1> QED
  BY <1>4, <1>5, <1>7, <1>8 DEF Task, TaskLocal

(* The process.                                                              *)
LEMMA MainRefines ==
  ASSUME TypeOK, OwnInv, LockInv, Main
  PROVE  [TQ!Next]_TQ!vars
<1> USE DEF queueVars, slotVars, taskVars, handVars, mainVars, MainKeep
<1>1. CASE Cancel \/ ShutdownTrigger \/ SnapshotClosers \/ CloseDone \/ BootTrigger
          \/ \E w \in Workers : CloseOne(w)
  <2>1. /\ UNCHANGED <<status, nextID, maxConcurrent, runningTasks, disk, lpc, hpc, wpc>>
        /\ mpc' = "down" <=> mpc = "down"
    BY <1>1 DEF Cancel, ShutdownTrigger, SnapshotClosers, CloseDone, CloseOne, BootTrigger
  <2> QED
    BY <2>1, WritersKept, SilentStep
<1>2. CASE ExitProcess \/ Crash
  <2>1. mpc # "down" /\ PowerOff
    BY <1>2 DEF ExitProcess, Crash, Up
  <2>2. ~Writing' /\ UNCHANGED disk
    BY <2>1 DEF PowerOff, Writing, RHeld
  <2>3. \/ Saved' = Saved
        \/ "crash_in_write" \in Events /\ Saved' = EmptyFile
    BY <2>1, <2>2 DEF PowerOff, Saved, LockInv, HalfWritten
  <2>4. TQ!Stop
    BY <2>1, <2>3 DEF PowerOff, Up, TQ!Stop, TQ!Nothing, TQ!TaskIds, TQ!Blank, TQ!Image, EmptyFile
  <2> QED
    BY <2>4 DEF TQ!Next
<1>3. CASE Start
  <2>1. lpc = "exited" /\ lpc' = "select" /\ UNCHANGED <<hpc, wpc, disk, runningTasks>>
    BY <1>3 DEF Start, OwnInv, DownIdle
  <2>2. ~Writing
    BY <1>3 DEF Start, Writing, RHeld, OwnInv, DownIdle, LockInv, HandlersDown
  <2>3. Saved' = Saved /\ Saved = disk
    BY <2>1, <2>2, WritersKept, SavedKept
  <2>4. /\ mpc = "down" /\ mpc' = "serving"
        /\ status' = [t \in TaskIds |-> LoadedStatus(disk.st[t])]
        /\ maxConcurrent' = LoadedMax /\ nextID' \in LoadedLast
    BY <1>3 DEF Start
  <2>5. \A t \in TaskIds : status'[t] # "Absent" <=> t \in LoadedIds
    BY <2>4 DEF LoadedStatus, LoadedIds
  <2>6. /\ nextID' \in {0} \cup TaskIds /\ (nextID' # 0 => status'[nextID'] # "Absent")
        /\ \A t \in TaskIds : status'[t] # "Absent" => t <= nextID'
    BY <2>4, <2>5, BoundAssumption DEF LoadedLast, LoadedIds
  <2>7. TQ!Restart
    BY <2>1, <2>3, <2>4, <2>6
       DEF TQ!Restart, TQ!TaskIds, Up, LoadedStatus, LoadedMax
  <2> QED
    BY <2>7 DEF TQ!Next
<1>4. CASE StartUnread
  <2>1. lpc = "exited" /\ lpc' = "select" /\ UNCHANGED <<hpc, wpc, disk, runningTasks>>
    BY <1>4 DEF StartUnread, OwnInv, DownIdle
  <2>2. ~Writing
    BY <1>4 DEF StartUnread, Writing, RHeld, OwnInv, DownIdle, LockInv, HandlersDown
  <2>3. Saved' = Saved
    BY <2>1, <2>2, WritersKept, SavedKept
  <2>4. TQ!RestartUnread
    BY <1>4, <2>1, <2>3 DEF StartUnread, TQ!RestartUnread, TQ!Nothing, TQ!TaskIds, Up
  <2> QED
    BY <2>4 DEF TQ!Next
<1> QED
  BY <1>1, <1>2, <1>3, <1>4 DEF Main, ShutdownStep

(* What a handler does after its request was admitted.                       *)
LEMMA HandlerRefines ==
  ASSUME TypeOK, OwnInv, LockInv, NEW h \in Handlers, HandlerStep(h)
  PROVE  [TQ!Next]_TQ!vars
<1> USE DEF queueVars, slotVars, taskVars, mainVars, Handler
<1>1. /\ mpc # "down"
      /\ UNCHANGED <<mpc, lpc, wpc, status, nextID, maxConcurrent, runningTasks>>
  BY DEF LockInv, HandlersDown, HandlerStep, AddSaveBegin, AddSaveEnd, HandlerTrigger,
         ControlSaveEnd
<1>2. CASE AddSaveBegin(h) \/ AddSaveEnd(h) \/ ControlSaveEnd(h)
  <2>1. \/ Writing' /\ Truncate
        \/ Writing /\ Store
        \/ hpc[h] = "save" /\ hpc' = [hpc EXCEPT ![h] = "trigger"] /\ SaveFails
    BY <1>2 DEF AddSaveBegin, AddSaveEnd, ControlSaveEnd, Writing, RHeld, TypeOK
  <2>2. hpc[h] = "save" /\ hpc' = [hpc EXCEPT ![h] = "trigger"] => (Writing' <=> Writing)
    BY <1>1, WritersKept DEF TypeOK
  <2> QED
    BY <1>1, <2>1, <2>2, SaveStep
<1>3. CASE HandlerTrigger(h)
  <2>1. /\ UNCHANGED disk
        /\ \A g \in Handlers : /\ hpc'[g] = "saving" <=> hpc[g] = "saving"
                               /\ hpc'[g] = "ctlsave" <=> hpc[g] = "ctlsave"
    BY <1>3 DEF HandlerTrigger, TypeOK
  <2> QED
    BY <1>1, <2>1, WritersKept, SilentStep
<1> QED
  BY <1>2, <1>3 DEF HandlerStep

LEMMA StepRefines ==
  ASSUME TypeOK, OwnInv, LockInv, SlotAccounting, [Next]_vars
  PROVE  [TQ!Next]_TQ!vars
<1>1. CASE UNCHANGED vars
  <2>1. UNCHANGED <<status, nextID, maxConcurrent, runningTasks, disk, mpc, lpc, hpc, wpc>>
    BY <1>1 DEF vars, queueVars, slotVars, mainVars, handVars, taskVars
  <2> QED
    BY <2>1, WritersKept, SilentStep
<1> QED
  BY <1>1, RequestRefines, HandlerRefines, LoopRefines, TaskRefines, MainRefines DEF Next

(* Every behaviour of the goroutines, locks, channels, half-written files,   *)
(* failed saves, crashes and restarts of the queue is one of the atomic      *)
(* queue of TaskQueue: in order of the ids, with a cap on the transfers that *)
(* start, and with a file that is the queue at some moment, or blank after a *)
(* save that failed or that the process did not survive.                     *)
THEOREM QueueImplemented == Spec => ImplementsTaskQueue
<1> DEFINE Base == Typed /\ OwnInv /\ LockInv /\ SlotAccounting
<1>1. Init => TQ!Init
  BY DEF Init, TQ!Init, TQ!Nothing, TQ!Image, TQ!Blank, TQ!TaskIds, Up, Saved, Writing, RHeld,
         EmptyFile
<1>2. Init => Base
  <2>1. Init => Occupied = {} /\ runningTasks = 0
    BY DEF Init, Occupied, HeldPcs, WorkPcs
  <2> QED
    BY <2>1, FS_EmptySet, TypedInit, OwnInit, LockInit DEF SlotAccounting
<1>3. Base /\ [Next]_vars => Base'
  <2>1. Typed => TypeOK
    BY DEF Typed
  <2> QED
    BY <2>1, TypedStep, OwnStep, WriteStep, SlotStep
<1>4. Base /\ [Next]_vars => [TQ!Next]_TQ!vars
  BY StepRefines DEF Typed
<1> HIDE DEF Base
<1> QED
  BY <1>1, <1>2, <1>3, <1>4, PTL DEF Spec, ImplementsTaskQueue, TQ!Spec

=============================================================================
