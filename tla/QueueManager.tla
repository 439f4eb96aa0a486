---------------------------- MODULE QueueManager ----------------------------
(* The upload queue of src/internal/queue/manager.go with the process around *)
(* it (src/cmd/uplarr/main.go): HTTP handlers that change the queue, the     *)
(* dispatching goroutine processLoop, one goroutine per started task, the    *)
(* state file that survives restarts, graceful shutdown, crash and restart.  *)
(*                                                                           *)
(* A step is one critical section of qm.mu, one channel operation, or one    *)
(* end of a file write.  The writer side of the lock is modelled by CanLock, *)
(* the reader side by CanRLock; both are derived from the program counters   *)
(* of whoever is inside a section that spans several steps.                  *)
EXTENDS Integers, FiniteSets

CONSTANTS Workers,       \* slots for the goroutines started by processLoop
          Handlers,      \* HTTP handler goroutines that change the queue
          None,          \* "no goroutine registered for this task"
          MaxTasks,      \* bound: task ids handed out before a restart
          MaxConc,       \* bound: largest maxConcurrent a user asks for
          Events         \* the events and faults that may happen

(* What users and operators do, the faults of the state file (a save or the  *)
(* load fails), and the death of the process outside or inside of a write.   *)
AllEvents == {"pause", "resume", "remove", "retry", "retry_all_failed",
              "clear_finished", "update", "shutdown",
              "save_error", "load_error", "crash", "crash_in_write"}

ASSUME WorkersAssumption == IsFiniteSet(Workers) /\ None \notin Workers
ASSUME BoundAssumption   == MaxTasks \in Nat /\ MaxConc \in Nat \ {0}
ASSUME EventsAssumption  == Events \subseteq AllEvents

TaskIds == 1 .. MaxTasks

(* models.TaskStatus; "Absent" is an id that is not in qm.tasks.  Ids are    *)
(* assigned in increasing order under the lock that appends, so the order of *)
(* qm.tasks is the order of the ids.                                         *)
TaskStatus == {"Absent", "Pending", "Running", "Paused", "Completed", "Failed"}

VARIABLES status,         \* qm.tasks: what each id's Task.Status is
          nextID,         \* qm.nextID
          maxConcurrent,  \* qm.maxConcurrent
          runningTasks,   \* qm.runningTasks
          worker,         \* qm.worker holds its token (capacity 1)
          activeCancels,  \* qm.activeCancels: the goroutine a task id cancels
          activeClosers,  \* qm.activeClosers: the goroutine a task id closes
          lpc,            \* where processLoop is
          wpc, job,       \* where each task goroutine is, and on which task
          cancelled,      \* goroutines whose own taskCancel was called
          closed,         \* goroutines whose client Shutdown has closed
          hpc, hleft,     \* where each handler is, triggers it has left
          mpc, toClose,   \* where main is; the closers Shutdown collected
          boot,           \* the "go qm.trigger()" of loadState has not run yet
          disk,           \* .queue_state.json
          unsaved         \* history: the last save failed, or the load did

queueVars == <<status, nextID>>
slotVars  == <<maxConcurrent, runningTasks>>
mapVars   == <<activeCancels, activeClosers>>
taskVars  == <<wpc, job, cancelled, closed>>
handVars  == <<hpc, hleft>>
mainVars  == <<mpc, toClose, boot>>
fileVars  == <<disk, unsaved>>
vars == <<queueVars, slotVars, mapVars, taskVars, handVars, mainVars,
          worker, lpc, fileVars>>

(* The file as os.O_TRUNC leaves it, which is also what a missing or torn    *)
(* file loads as: no task, no max_concurrent.                                *)
EmptyFile == [st |-> [t \in TaskIds |-> "Absent"], max |-> 0]
Snapshot  == [st |-> status, max |-> maxConcurrent]
LoadedMax == IF disk.max > 0 THEN disk.max ELSE 1

(* Where a task goroutine works on its task, and where it exists at all.     *)
WorkPcs == {"start", "connect", "connected", "upload", "uploaded", "failed"}
HeldPcs == WorkPcs \cup {"save", "saving", "trigger", "unreg", "decr"}
LivePcs == HeldPcs \cup {"exit"}

Up       == mpc # "down"
Stopping == mpc \notin {"down", "serving"}

(* qm.mu: the sections that span several steps are the dispatch scan and a   *)
(* save under the lock (writers), and saveState (readers).                   *)
WHeld == lpc = "scan" \/ \E h \in Handlers : hpc[h] = "ctlsave"
RHeld == \/ lpc = "saving"
         \/ \E w \in Workers : wpc[w] = "saving"
         \/ \E h \in Handlers : hpc[h] = "saving"
CanRLock == ~WHeld
CanLock  == ~WHeld /\ ~RHeld
Writing  == RHeld \/ \E h \in Handlers : hpc[h] = "ctlsave"

(* taskCtx.Err(): the task's own cancel, or the queue's context.             *)
CtxErr(w) == Stopping \/ w \in cancelled

PendingIds == {t \in TaskIds : status[t] = "Pending"}
Oldest(t)  == t \in PendingIds /\ \A u \in PendingIds : t <= u

Init ==
  /\ status = [t \in TaskIds |-> "Absent"] /\ nextID = 0
  /\ maxConcurrent = 1 /\ runningTasks = 0 /\ worker = FALSE
  /\ activeCancels = [t \in TaskIds |-> None]
  /\ activeClosers = [t \in TaskIds |-> None]
  /\ lpc = "exited"
  /\ wpc = [w \in Workers |-> "idle"] /\ job = [w \in Workers |-> 0]
  /\ cancelled = {} /\ closed = {}
  /\ hpc = [h \in Handlers |-> "idle"] /\ hleft = [h \in Handlers |-> 0]
  /\ mpc = "down" /\ toClose = {} /\ boot = FALSE
  /\ disk = EmptyFile /\ unsaved = FALSE

-----------------------------------------------------------------------------
(* Handlers: POST /api/upload, /api/throttle/update and /api/queue/action.   *)

Handler(h, from, to) == hpc[h] = from /\ hpc' = [hpc EXCEPT ![h] = to]
Idle(h)              == Up /\ hpc[h] = "idle"

(* saveStateLocked in any goroutine: the truncating open, then the end of    *)
(* the write.  The queue cannot change in between: the caller holds qm.mu.   *)
(* Either may fail, which is only logged: the file stays as it was, or as    *)
(* the open has left it.                                                     *)
Truncate  == disk' = EmptyFile /\ UNCHANGED unsaved
SaveFails == "save_error" \in Events /\ unsaved' = TRUE /\ UNCHANGED disk

MutStore ==
  /\ unsaved' = FALSE
  /\ disk' = [Snapshot EXCEPT !.st = [t \in TaskIds |->
                IF status[t] = "Completed" THEN "Absent" ELSE status[t]]]
Store == \/ disk' = Snapshot /\ unsaved' = FALSE
         \/ SaveFails

AddTasks(h, k) ==
  /\ Idle(h) /\ CanLock
  /\ nextID + k <= MaxTasks
  /\ status' = [t \in TaskIds |->
                  IF t \in nextID + 1 .. nextID + k THEN "Pending" ELSE status[t]]
  /\ nextID' = nextID + k
  /\ Handler(h, "idle", "save")
  /\ hleft' = [hleft EXCEPT ![h] = k]
  /\ UNCHANGED <<slotVars, mapVars, taskVars, mainVars, worker, lpc, fileVars>>

AddSaveBegin(h) ==
  /\ CanRLock
  /\ \/ Handler(h, "save", "saving") /\ Truncate
     \/ Handler(h, "save", "trigger") /\ SaveFails
  /\ UNCHANGED <<queueVars, slotVars, mapVars, taskVars, mainVars, hleft, worker, lpc>>

AddSaveEnd(h) ==
  /\ Handler(h, "saving", "trigger")
  /\ Store
  /\ UNCHANGED <<queueVars, slotVars, mapVars, taskVars, mainVars, hleft, worker, lpc>>

(* trigger, once per added file (and once after UpdateHostLimiter): a        *)
(* non-blocking send on a channel of capacity 1.                             *)
HandlerTrigger(h) ==
  /\ hpc[h] = "trigger"
  /\ worker' = TRUE
  /\ hleft' = [hleft EXCEPT ![h] = @ - 1]
  /\ hpc' = [hpc EXCEPT ![h] = IF hleft[h] = 1 THEN "idle" ELSE "trigger"]
  /\ UNCHANGED <<queueVars, slotVars, mapVars, taskVars, mainVars, lpc, fileVars>>

UpdateHostLimiter(h, n) ==
  /\ Idle(h) /\ "update" \in Events /\ CanLock
  /\ maxConcurrent' = n
  /\ Handler(h, "idle", "trigger")
  /\ hleft' = [hleft EXCEPT ![h] = 1]
  /\ UNCHANGED <<queueVars, runningTasks, mapVars, taskVars, mainVars, worker, lpc, fileVars>>

(* ControlTask "pause" changes memory only; "resume" wakes the dispatcher.   *)
Pause(h, t) ==
  /\ Idle(h) /\ "pause" \in Events /\ CanLock
  /\ status[t] = "Pending"
  /\ status' = [status EXCEPT ![t] = "Paused"]
  /\ UNCHANGED <<nextID, slotVars, mapVars, taskVars, handVars, mainVars, worker, lpc, fileVars>>

MutResume(h, t) ==
  /\ Idle(h) /\ "resume" \in Events /\ CanLock
  /\ status[t] = "Paused"
  /\ status' = [status EXCEPT ![t] = "Pending"]
  /\ UNCHANGED <<nextID, slotVars, mapVars, taskVars, handVars, mainVars, worker, lpc, fileVars>>

Resume(h, t) ==
  /\ Idle(h) /\ "resume" \in Events /\ CanLock
  /\ status[t] = "Paused"
  /\ status' = [status EXCEPT ![t] = "Pending"]
  /\ worker' = TRUE
  /\ UNCHANGED <<nextID, slotVars, mapVars, taskVars, handVars, mainVars, lpc, fileVars>>

(* The other ControlTask actions save while they hold the write lock, so     *)
(* they take two steps: change and truncate, then write, trigger and unlock; *)
(* or one, if the file cannot be opened.                                     *)
Control(h, event, newStatus) ==
  /\ Idle(h) /\ event \in Events /\ CanLock
  /\ status' = newStatus
  /\ \/ Handler(h, "idle", "ctlsave") /\ Truncate /\ UNCHANGED worker
     \/ Handler(h, "idle", "idle") /\ SaveFails /\ worker' = TRUE
  /\ UNCHANGED <<nextID, slotVars, mapVars, wpc, job, closed, mainVars, hleft, lpc>>

Remove(h, t) ==
  /\ status[t] # "Absent"
  /\ Control(h, "remove", [status EXCEPT ![t] = "Absent"])
  /\ cancelled' = IF status[t] = "Running" /\ activeCancels[t] # None
                    THEN cancelled \cup {activeCancels[t]}
                    ELSE cancelled

Retry(h, t) ==
  /\ status[t] \in {"Failed", "Completed"}
  /\ Control(h, "retry", [status EXCEPT ![t] = "Pending"])
  /\ UNCHANGED cancelled

(* S: the failed tasks whose local file still exists.                        *)
RetryAllFailed(h, S) ==
  /\ S # {} /\ \A t \in S : status[t] = "Failed"
  /\ Control(h, "retry_all_failed",
             [t \in TaskIds |-> IF t \in S THEN "Pending" ELSE status[t]])
  /\ UNCHANGED cancelled

ClearFinished(h) ==
  /\ Control(h, "clear_finished",
             [t \in TaskIds |-> IF status[t] \in {"Completed", "Failed"}
                                  THEN "Absent" ELSE status[t]])
  /\ UNCHANGED cancelled

ControlSaveEnd(h) ==
  /\ Handler(h, "ctlsave", "idle")
  /\ Store
  /\ worker' = TRUE
  /\ UNCHANGED <<queueVars, slotVars, mapVars, taskVars, mainVars, hleft, lpc>>

(* What the requests to /api/upload, /api/throttle/update and /api/queue do: *)
(* an upload with valid files updates its host and then adds its tasks, the  *)
(* other two make one call.                                                  *)
HandlerCall(h) ==
  \/ \E k \in 1 .. MaxTasks : AddTasks(h, k)
  \/ \E n \in 1 .. MaxConc : UpdateHostLimiter(h, n)
  \/ \E t \in TaskIds : Pause(h, t) \/ Resume(h, t) \/ Remove(h, t) \/ Retry(h, t)
  \/ \E S \in SUBSET TaskIds : RetryAllFailed(h, S)
  \/ ClearFinished(h)

HandlerStep(h) ==
  AddSaveBegin(h) \/ AddSaveEnd(h) \/ HandlerTrigger(h) \/ ControlSaveEnd(h)

-----------------------------------------------------------------------------
(* processLoop.                                                              *)

LoopKeep == UNCHANGED <<queueVars, slotVars, mapVars, taskVars, handVars, mainVars>>

LoopTake ==
  /\ lpc = "select" /\ worker
  /\ worker' = FALSE /\ lpc' = "lock"
  /\ LoopKeep /\ UNCHANGED fileVars

LoopLock ==
  /\ lpc = "lock" /\ CanLock
  /\ lpc' = "scan"
  /\ LoopKeep /\ UNCHANGED <<worker, fileVars>>

(* One iteration of the dispatch: the first pending task gets a goroutine.   *)
MutStartTask(w, t) ==
  /\ runningTasks' = runningTasks + 1
  /\ wpc' = [wpc EXCEPT ![w] = "start"]
  /\ job' = [job EXCEPT ![w] = t]
  /\ UNCHANGED <<queueVars, maxConcurrent, mapVars, cancelled, closed, handVars,
                 mainVars, worker, lpc, fileVars>>

StartTask(w, t) ==
  /\ status' = [status EXCEPT ![t] = "Running"]
  /\ runningTasks' = runningTasks + 1
  /\ wpc' = [wpc EXCEPT ![w] = "start"]
  /\ job' = [job EXCEPT ![w] = t]
  /\ UNCHANGED <<nextID, maxConcurrent, mapVars, cancelled, closed, handVars,
                 mainVars, worker, lpc, fileVars>>

Spawn(w) ==
  /\ lpc = "scan" /\ wpc[w] = "idle"
  /\ runningTasks < maxConcurrent
  /\ \E t \in TaskIds : Oldest(t) /\ StartTask(w, t)

ScanDone ==
  /\ lpc = "scan"
  /\ runningTasks >= maxConcurrent \/ PendingIds = {}
  /\ lpc' = "save"
  /\ LoopKeep /\ UNCHANGED <<worker, fileVars>>

LoopSaveBegin ==
  /\ lpc = "save" /\ CanRLock
  /\ \/ Truncate /\ lpc' = "saving"
     \/ SaveFails /\ lpc' = "select"
  /\ LoopKeep /\ UNCHANGED worker

LoopSaveEnd ==
  /\ lpc = "saving"
  /\ Store /\ lpc' = "select"
  /\ LoopKeep /\ UNCHANGED worker

(* With both cases of the select ready Go picks either, so this and LoopTake *)
(* are both enabled.                                                         *)
LoopExit ==
  /\ lpc = "select" /\ Stopping
  /\ lpc' = "exited"
  /\ LoopKeep /\ UNCHANGED <<worker, fileVars>>

LoopStep == LoopTake \/ LoopLock \/ ScanDone \/ LoopSaveBegin \/ LoopSaveEnd
              \/ \E w \in Workers : Spawn(w)
Loop     == LoopStep \/ LoopExit

-----------------------------------------------------------------------------
(* runTask and processTask, in the goroutine w.                              *)

Go(w, from, to) == wpc[w] = from /\ wpc' = [wpc EXCEPT ![w] = to]
GoKeep == UNCHANGED <<nextID, maxConcurrent, job, cancelled, handVars, mainVars, lpc>>

Register(w) ==
  /\ Go(w, "start", "connect") /\ CanLock
  /\ activeCancels' = [activeCancels EXCEPT ![job[w]] = w]
  /\ GoKeep /\ UNCHANGED <<status, runningTasks, activeClosers, closed, worker, fileVars>>

(* The local file is gone or outside the base directory, or Connect failed.  *)
ConnectErr(w) ==
  /\ Go(w, "connect", "failed")
  /\ GoKeep /\ UNCHANGED <<status, runningTasks, mapVars, closed, worker, fileVars>>

ConnectOk(w) ==
  /\ Go(w, "connect", "connected")
  /\ GoKeep /\ UNCHANGED <<status, runningTasks, mapVars, closed, worker, fileVars>>

MutAdopt(w) ==
  /\ CanLock
  /\ Go(w, "connected", "upload")
  /\ activeClosers' = [activeClosers EXCEPT ![job[w]] = w]
  /\ GoKeep /\ UNCHANGED <<status, runningTasks, activeCancels, closed, worker, fileVars>>

(* After Connect: the client's closer is registered unless the task was      *)
(* cancelled meanwhile, checked under the same lock.                         *)
Adopt(w) ==
  /\ CanLock
  /\ \/ CtxErr(w) /\ Go(w, "connected", "failed") /\ UNCHANGED activeClosers
     \/ /\ ~CtxErr(w) /\ Go(w, "connected", "upload")
        /\ activeClosers' = [activeClosers EXCEPT ![job[w]] = w]
  /\ GoKeep /\ UNCHANGED <<status, runningTasks, activeCancels, closed, worker, fileVars>>

(* UploadFileWithRetry returns; the deferred calls close the client and drop *)
(* its closer.                                                               *)
UploadReturn(w, result) ==
  /\ Go(w, "upload", result) /\ CanLock
  /\ activeClosers' = [activeClosers EXCEPT ![job[w]] = None]
  /\ closed' = closed \ {w}
  /\ GoKeep /\ UNCHANGED <<status, runningTasks, activeCancels, worker, fileVars>>

(* The result is written to the task object, which a remove has taken off    *)
(* the list meanwhile.                                                       *)
MutFinish(w, from, result) ==
  /\ Go(w, from, "unreg") /\ CanLock
  /\ status' = [status EXCEPT ![job[w]] = IF @ = "Absent" THEN @ ELSE result]
  /\ GoKeep /\ UNCHANGED <<runningTasks, mapVars, closed, worker, fileVars>>

Finish(w, from, result) ==
  /\ Go(w, from, "save") /\ CanLock
  /\ status' = [status EXCEPT ![job[w]] = IF @ = "Absent" THEN @ ELSE result]
  /\ GoKeep /\ UNCHANGED <<runningTasks, mapVars, closed, worker, fileVars>>

TaskSaveBegin(w) ==
  /\ CanRLock
  /\ \/ Go(w, "save", "saving") /\ Truncate
     \/ Go(w, "save", "trigger") /\ SaveFails
  /\ GoKeep /\ UNCHANGED <<status, runningTasks, mapVars, closed, worker>>

TaskSaveEnd(w) ==
  /\ Go(w, "saving", "trigger")
  /\ Store
  /\ GoKeep /\ UNCHANGED <<status, runningTasks, mapVars, closed, worker>>

MutTaskTrigger(w) ==
  /\ Go(w, "trigger", "unreg")
  /\ worker' = TRUE
  /\ runningTasks' = runningTasks - 1
  /\ GoKeep /\ UNCHANGED <<status, mapVars, closed, fileVars>>

TaskTrigger(w) ==
  /\ Go(w, "trigger", "unreg")
  /\ worker' = TRUE
  /\ GoKeep /\ UNCHANGED <<status, runningTasks, mapVars, closed, fileVars>>

(* The deferred delete is by task id: it drops whatever is registered.       *)
Unregister(w) ==
  /\ Go(w, "unreg", "decr") /\ CanLock
  /\ activeCancels' = [activeCancels EXCEPT ![job[w]] = None]
  /\ GoKeep /\ UNCHANGED <<status, runningTasks, activeClosers, closed, worker, fileVars>>

MutRelease(w) ==
  /\ Go(w, "decr", "exit") /\ CanLock
  /\ GoKeep /\ UNCHANGED <<status, runningTasks, mapVars, closed, worker, fileVars>>

Release(w) ==
  /\ Go(w, "decr", "exit") /\ CanLock
  /\ runningTasks' = runningTasks - 1
  /\ GoKeep /\ UNCHANGED <<status, mapVars, closed, worker, fileVars>>

(* The last trigger and taskWG.Done.                                         *)
MutExit(w) ==
  /\ Go(w, "exit", "idle")
  /\ job' = [job EXCEPT ![w] = 0]
  /\ cancelled' = cancelled \ {w}
  /\ UNCHANGED <<queueVars, slotVars, mapVars, closed, handVars, mainVars, worker, lpc, fileVars>>

Exit(w) ==
  /\ Go(w, "exit", "idle")
  /\ worker' = TRUE
  /\ job' = [job EXCEPT ![w] = 0]
  /\ cancelled' = cancelled \ {w}
  /\ UNCHANGED <<queueVars, slotVars, mapVars, closed, handVars, mainVars, lpc, fileVars>>

(* Everything a goroutine does by itself, and the two answers of the         *)
(* network: the result of Connect and the end of the upload.                 *)
TaskLocal(w) ==
  \/ Register(w) \/ Adopt(w)
  \/ Finish(w, "uploaded", "Completed") \/ Finish(w, "failed", "Failed")
  \/ TaskSaveBegin(w) \/ TaskSaveEnd(w) \/ TaskTrigger(w)
  \/ Unregister(w) \/ Release(w) \/ Exit(w)
ConnectReturn(w) == ConnectErr(w) \/ ConnectOk(w)
UploadEnd(w)     == UploadReturn(w, "uploaded") \/ UploadReturn(w, "failed")

Task(w) == TaskLocal(w) \/ ConnectReturn(w) \/ UploadEnd(w)

-----------------------------------------------------------------------------
(* The process: Shutdown, exit, crash, and the start that reads the file.    *)

MainKeep == UNCHANGED <<queueVars, slotVars, mapVars, wpc, job, cancelled,
                        handVars, lpc, boot, fileVars>>

(* runHTTPServer returns after a signal, whether or not its handlers are     *)
(* done by then, and Run's deferred Shutdown cancels the context.            *)
Cancel ==
  /\ mpc = "serving" /\ "shutdown" \in Events
  /\ mpc' = "cancelled"
  /\ MainKeep /\ UNCHANGED <<toClose, closed, worker>>

ShutdownTrigger ==
  /\ mpc = "cancelled"
  /\ worker' = TRUE /\ mpc' = "waitloop"
  /\ MainKeep /\ UNCHANGED <<toClose, closed>>

(* wg.Wait has returned: the loop is gone.                                   *)
SnapshotClosers ==
  /\ mpc = "waitloop" /\ lpc = "exited" /\ CanRLock
  /\ toClose' = {w \in Workers : \E t \in TaskIds : activeClosers[t] = w}
  /\ mpc' = "closing"
  /\ MainKeep /\ UNCHANGED <<closed, worker>>

CloseOne(w) ==
  /\ mpc = "closing" /\ w \in toClose
  /\ toClose' = toClose \ {w}
  /\ closed' = IF wpc[w] = "upload" THEN closed \cup {w} ELSE closed
  /\ MainKeep /\ UNCHANGED <<mpc, worker>>

CloseDone ==
  /\ mpc = "closing" /\ toClose = {}
  /\ mpc' = "waittasks"
  /\ MainKeep /\ UNCHANGED <<toClose, closed, worker>>

PowerOff ==
  /\ "crash_in_write" \in Events \/ ~Writing
  /\ status' = [t \in TaskIds |-> "Absent"] /\ nextID' = 0
  /\ maxConcurrent' = 1 /\ runningTasks' = 0 /\ worker' = FALSE
  /\ activeCancels' = [t \in TaskIds |-> None]
  /\ activeClosers' = [t \in TaskIds |-> None]
  /\ lpc' = "exited"
  /\ wpc' = [w \in Workers |-> "idle"] /\ job' = [w \in Workers |-> 0]
  /\ cancelled' = {} /\ closed' = {}
  /\ hpc' = [h \in Handlers |-> "idle"] /\ hleft' = [h \in Handlers |-> 0]
  /\ mpc' = "down" /\ toClose' = {} /\ boot' = FALSE
  /\ unsaved' = FALSE /\ UNCHANGED disk

(* taskWG.Wait has returned and main ends the process.                       *)
ExitProcess ==
  /\ mpc = "waittasks" /\ \A w \in Workers : wpc[w] = "idle"
  /\ PowerOff

Crash == Up /\ "crash" \in Events /\ PowerOff

MutLoadedStatus(s) == s
LoadedStatus(s) == IF s = "Running" THEN "Pending" ELSE s
LoadedIds       == {t \in TaskIds : disk.st[t] # "Absent"}

(* nextID continues from the largest id that was loaded.                     *)
LoadedLast == IF LoadedIds = {} THEN {0}
              ELSE {n \in LoadedIds : \A t \in LoadedIds : t <= n}

Start ==
  /\ mpc = "down" /\ mpc' = "serving"
  /\ status' = [t \in TaskIds |-> LoadedStatus(disk.st[t])]
  /\ nextID' \in LoadedLast
  /\ maxConcurrent' = LoadedMax
  /\ lpc' = "select"
  /\ boot' = (LoadedIds # {})
  /\ UNCHANGED <<runningTasks, mapVars, taskVars, handVars, toClose, worker, fileVars>>

(* The directory or the file cannot be read: the queue starts empty, and the *)
(* next save will replace what the file still holds.                         *)
StartUnread ==
  /\ mpc = "down" /\ "load_error" \in Events /\ mpc' = "serving"
  /\ status' = [t \in TaskIds |-> "Absent"] /\ nextID' = 0
  /\ maxConcurrent' = 1 /\ lpc' = "select"
  /\ unsaved' = (disk # EmptyFile)
  /\ UNCHANGED <<runningTasks, mapVars, taskVars, handVars, toClose, boot, worker, disk>>

BootTrigger ==
  /\ boot
  /\ boot' = FALSE /\ worker' = TRUE
  /\ UNCHANGED <<queueVars, slotVars, mapVars, taskVars, handVars, mpc, toClose, lpc, fileVars>>

ShutdownStep == ShutdownTrigger \/ SnapshotClosers \/ CloseDone \/ ExitProcess
                  \/ \E w \in Workers : CloseOne(w)
Main         == Cancel \/ ShutdownStep \/ Crash \/ Start \/ StartUnread \/ BootTrigger

Next ==
  \/ \E h \in Handlers : HandlerCall(h) \/ HandlerStep(h)
  \/ Loop
  \/ \E w \in Workers : Task(w)
  \/ Main

Spec == Init /\ [][Next]_vars

-----------------------------------------------------------------------------
(* Fairness.  Each goroutine is scheduled again and again, and sync.RWMutex  *)
(* does not starve one that waits for it: strong fairness for the steps of   *)
(* every goroutine.  LoopExit has its own, because the select it is a case   *)
(* of chooses at random.  No user or operator event is fair, and no answer   *)
(* of the network is fair by itself.                                         *)
LocalFairness ==
  /\ \A h \in Handlers : SF_vars(HandlerStep(h))
  /\ SF_vars(LoopStep) /\ SF_vars(LoopExit)
  /\ SF_vars(ShutdownStep) /\ WF_vars(BootTrigger)

(* A transfer whose connection Shutdown has closed does return.              *)
ClosedEnd(w) == w \in closed /\ UploadEnd(w)

(* Connect always returns, transfers may stall for ever.                     *)
FairSpec ==
  /\ Spec /\ LocalFairness
  /\ \A w \in Workers : SF_vars(TaskLocal(w) \/ ConnectReturn(w) \/ ClosedEnd(w))

-----------------------------------------------------------------------------
(* Every variable holds a value of the kind the code declares; a restart can *)
(* not load a concurrency of zero.  (SlotAccounting bounds runningTasks.)    *)
TypeOK ==
  /\ status \in [TaskIds -> TaskStatus]
  /\ nextID \in 0 .. MaxTasks
  /\ maxConcurrent \in 1 .. MaxConc
  /\ runningTasks \in Int
  /\ worker \in BOOLEAN
  /\ activeCancels \in [TaskIds -> Workers \cup {None}]
  /\ activeClosers \in [TaskIds -> Workers \cup {None}]
  /\ lpc \in {"select", "lock", "scan", "save", "saving", "exited"}
  /\ wpc \in [Workers -> LivePcs \cup {"idle"}]
  /\ job \in [Workers -> 0 .. MaxTasks]
  /\ cancelled \subseteq Workers /\ closed \subseteq Workers
  /\ hpc \in [Handlers -> {"idle", "save", "saving", "trigger", "ctlsave"}]
  /\ hleft \in [Handlers -> Nat]
  /\ mpc \in {"down", "serving", "cancelled", "waitloop", "closing", "waittasks"}
  /\ toClose \subseteq Workers
  /\ boot \in BOOLEAN
  /\ disk \in [st : [TaskIds -> TaskStatus], max : 0 .. MaxConc]
  /\ unsaved \in BOOLEAN

(* The slot counter never drifts: it counts exactly the goroutines between   *)
(* their dispatch and the deferred decrement of runTask, whatever was        *)
(* removed, retried, failed or cancelled meanwhile.                          *)
Occupied == {w \in Workers : wpc[w] \in HeldPcs}
SlotAccounting == runningTasks = Cardinality(Occupied)

(* A task is Running exactly while one goroutine works on it, and no two     *)
(* goroutines ever work on the same task; a goroutine that works on a task   *)
(* that is not Running works on a removed one.                               *)
Working(t) == {w \in Workers : wpc[w] \in WorkPcs /\ job[w] = t}
OneGoroutinePerTask ==
  \A t \in TaskIds :
    /\ \A v, w \in Working(t) : v = w
    /\ Working(t) # {} => status[t] \in {"Running", "Absent"}
    /\ status[t] = "Running" => Working(t) # {}

(* No lost wake-up: while the dispatcher lives, a pending task and a free    *)
(* slot imply that a scan is under way or that somebody still owes the       *)
(* channel a token, although tokens merge and are sent outside the lock.     *)
WakeupOwed ==
  \/ worker \/ boot
  \/ lpc \in {"lock", "scan"}
  \/ \E h \in Handlers : hpc[h] \in {"save", "saving", "trigger", "ctlsave"}
  \/ \E w \in Workers : wpc[w] = "exit"
NoLostWakeup ==
  lpc # "exited" /\ PendingIds # {} /\ runningTasks < maxConcurrent => WakeupOwed

(* When Shutdown starts to wait for the task goroutines, every transfer that *)
(* is still running has had its connection closed: a client either gets into *)
(* the snapshot of activeClosers or sees the cancelled context.              *)
ShutdownClosesAll ==
  mpc = "waittasks" => \A w \in Workers : wpc[w] = "upload" => w \in closed

(* A remove can reach every transfer: a goroutine past its first step is the *)
(* one registered in activeCancels for its task.                             *)
RemoveReachesGoroutine ==
  \A w \in Workers : wpc[w] \in WorkPcs \ {"start"} => activeCancels[job[w]] = w

(* Whenever no save is owed or under way and the last one did not fail, a    *)
(* restart would restore the queue in memory: the same tasks in the same     *)
(* states, running ones queued again, with the same concurrency.  A pause is *)
(* not saved, so Paused and Pending count as the same here.                  *)
SaveOwed ==
  \/ worker \/ boot
  \/ lpc \in {"lock", "scan", "save", "saving"}
  \/ \E h \in Handlers : hpc[h] # "idle"
  \/ \E w \in Workers : wpc[w] \in {"save", "saving"}
Restored(s) == IF s = "Paused" THEN "Pending" ELSE LoadedStatus(s)
RestartRestores ==
  Up /\ ~SaveOwed /\ ~unsaved =>
    /\ LoadedMax = maxConcurrent
    /\ \A t \in TaskIds : Restored(disk.st[t]) = Restored(status[t])

(* A pending task waits for nothing but transfers that hold every slot: it   *)
(* is started, paused or removed, or the process stops, or each slot is      *)
(* taken by an upload that has not returned.                                 *)
SlotsUploading == maxConcurrent <= Cardinality({w \in Workers : wpc[w] = "upload"})
PendingIsTaken ==
  \A t \in TaskIds :
    status[t] = "Pending" ~> status[t] # "Pending" \/ SlotsUploading \/ mpc # "serving"

(* The process ends once it was asked to, stalled transfers included.        *)
ShutdownCompletes == Stopping ~> ~Up

=============================================================================
