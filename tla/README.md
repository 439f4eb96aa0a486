# A TLA+ model of uplarr

uplarr (`src/`) is a Go program with a web UI that uploads local files to SFTP
servers through a persistent background queue. This directory holds TLA+
modules translated from its source, TLC configurations that check them on small
instances, and theorems about them that the TLA+ proof system (TLAPS) checks
for every instance. `PROJECT.json` maps each definition to the lines it models
and lists the runs, the findings and the hazards.

## 1. The system

| component | state | operations | interacts with |
|---|---|---|---|
| Upload queue (`internal/queue/manager.go`) | task list, `nextID`, `maxConcurrent`, `runningTasks`, wake-up channel, maps of cancel and close functions, `.queue_state.json` | `AddTasks`, `ControlTask` (pause, resume, remove, retry, retry_all_failed, clear_finished), `UpdateHostLimiter`, `processLoop`, `runTask`/`processTask`, `Shutdown`, `saveState`, `loadState` | called by HTTP handlers; calls the SFTP client; all goroutines share `qm.mu` |
| SFTP upload (`internal/sftpclient/client.go`) | local file, `x.tmp` and `x` on the server, the connection | `UploadFileWithRetry`, `UploadFile`, `trimPartialUpload` | called by a task goroutine; `pkg/sftp` issues concurrent writes |
| SFTP connection (`client.go`, `security.go`) | SSH and SFTP sessions | `Connect`, `Close`, dial rules, `PublicConnectError` | called by task goroutines and browse handlers |
| Adaptive rate limiter (`client.go`) | current, maximum and minimum rate, low-latency count | `RecordLatency`, `UpdateConfig`, `SetLimit` | shared by all transfers to one host; fed by the latency sampler |
| Host limiter map (`manager.go`) | at most 100 limiters | `getOrCreateLimiter`, `UpdateHostLimiter` | tasks, throttle handler |
| Credential store (`secrets.go`, `manager.go`) | key file, sealed passwords, retained secrets | `loadSecretKey`, `sealConfig`, `openConfig` | every save and load of the queue |
| Host key pinning (`security.go`) | `known_hosts` | `tofuHostKeyCallback` | every `Connect` |
| Sessions (`api/server.go`) | token map with expiry, at most 1000 | `validSession`, `addSession`, logout | every authenticated handler |
| Login rate limiter (`api/server.go`) | counter per address, global failure budget | `/api/login` in two critical sections, eviction | concurrent login requests |
| Log broadcast (`logger/logger.go`) | set of buffered channels | `Subscribe`, `Unsubscribe`, `BroadcastLog` | every component; SSE handlers |
| Process lifecycle (`cmd/uplarr/main.go`) | HTTP server, queue, `.auth_password` | `Run`, `runHTTPServer`, `resolveAuthPassword` | signals; deferred `Shutdown` of the queue |
| HTTP handlers and middleware (`api/`) | none of their own | validation, calls into the above | browser |
| Web UI (`ui/static/*.js`) | current paths and listings, encrypted form data, caches | fetch and render, SSE with backoff, service worker | HTTP |

What is hard in this system:

* **Interleaving.** `qm.mu` is taken and released many times along one task:
  dispatch, registration of the cancel function, adoption of the client, result,
  save, cleanup and slot release are separate critical sections, and a user may
  remove or retry the task between any two.
* **Wake-ups.** The dispatcher sleeps on a channel of capacity one; sends never
  block and merge.
* **Persistence.** The state file is truncated and rewritten in place, by several
  goroutines, outside the critical section that changed the queue; a save or a
  load that fails is only logged; a pause or a change of the concurrency is not
  saved at all.
* **Shutdown** must interrupt stalled I/O of transfers that are just connecting.
* **Resume.** Concurrent writes leave gaps, which a resume must never continue;
  the connection, the server, the process and the source file can each fail or
  change in between.
* **Pinning.** Host keys are appended to a file that several connections read,
  that an append may leave torn, and that an administrator edits.
* **Process end.** A signal, a failing server, requests that never end and kills
  meet the deferred calls of `Run`; the generated password is written while the
  process may die.

Correctness, per component:

* queue: one goroutine per task, exact slot count, no lost wake-up, FIFO start,
  nothing acknowledged is lost, nothing finished is repeated, `Shutdown` ends;
* upload: only whole copies are published, a resume continues a true prefix, the
  source is deleted only after its copy is in place, every upload ends;
* limiter: the rate stays between its floor and the maximum and recovers;
  host map: bounded, one limiter per host;
* credentials: never plain text on disk while a key is there, never lost when the key changes;
* host keys: one key per host until its line is removed, and what was accepted stays accepted; sessions and logins: bounded maps,
  nothing valid after expiry or logout, counters that concurrent requests cannot
  escape; log broadcast: no send on a closed channel; UI: path and listing agree;
* process: open only if asked for, the stored password stays, a true exit code,
  the queue is shut down after the listener is gone, a signal ends it.

## 2. Modules

| module | what it models |
|---|---|
| `QueueManager` | the queue with its goroutines, lock, channel, state file and process: one step is one critical section of `qm.mu`, one channel operation or one end of a file write |
| `TaskQueue` | the abstract specification: an atomic queue served in order, with a file that is its image at some moment or, after a fault, blank; no locks, channels, goroutines or writes in progress |
| `QueueRefinement` | the mapping from `QueueManager` to `TaskQueue` and the property `ImplementsTaskQueue` |
| `QueuePromises` | history variables that observe `QueueManager` and the promises made to users over restarts |
| `QueueProofs` | every safety property of `QueueManager` and `QueuePromises` that a run checks, and that `QueueManager` implements `TaskQueue`, with proofs |
| `Upload` | one task's upload: files as sequences of blocks, concurrent writes, trim, resume, verify, rename, delete, retries and faults |
| `UploadProofs` | the safety properties of `Upload`, with proofs |
| `HostLimiter` | the limiter of each host: creation, eviction, live update and adaptation by the samplers of all transfers |
| `HostLimiterProofs` | the safety properties of `HostLimiter`, with proofs |
| `CredentialStore` | passwords of queued tasks in memory and on disk, the key and its file, over restarts with other keys |
| `CredentialProofs` | all properties of `CredentialStore`'s stored credentials, with proofs |
| `LoginLimiter` | the limits on failed logins: concurrent requests, bans, the global budget, eviction, passing time |
| `LoginProofs` | all safety properties of `LoginLimiter`, with proofs |
| `Sessions` | the session map: concurrent requests that look a token up and drop it, logins that push sessions out, logouts, passing time |
| `SessionProofs` | all properties of `Sessions`, with proofs |
| `LogStreams` | the log broadcast and the streams of `/api/logs` that read it, with slow readers and the server's write deadline |
| `Connections` | clients that connect: preparation, dial, host key check and pinning, session, close; `known_hosts` with failing and torn appends, restarts and edits |
| `ConnectionProofs` | all properties of `Connections`, with proofs |
| `Lifecycle` | the process: the password and its file, the HTTP server and its ten second shutdown, the deferred shutdown of the queue, signals, kills and restarts |
| `ServerProofs` | the safety properties of `Lifecycle` and of `LogStreams`, with proofs |
| `MCQueueManager`, `MCQueuePromises`, `MCUpload`, `MCHostLimiter` | values of the constants for TLC |

### QueueManager

*Processes.* `Handlers` are HTTP requests (`hpc`), `Workers` are slots for the
goroutines that `processLoop` starts (`wpc`, `job`), `lpc` is `processLoop`,
`mpc` is `main` with `Shutdown`. A slot is reused after its goroutine ended.

*Lock.* A section of `qm.mu` that is entered and left without a channel
operation or file write inside is one step guarded by `CanLock` or `CanRLock`.
Sections that contain a file write, and the dispatch scan, span several steps;
`WHeld` and `RHeld` say from the program counters who is inside.

*State file.* A save is a truncating open (`Truncate`) and the end of the write
(`Store`). The faults are among the `Events`: with `save_error` either step may
fail (`SaveFails`), which `saveStateLocked` only logs, so that the file stays as it
was or as the truncation left it while the caller goes on and answers; with
`crash_in_write` the process may die between the two; with `load_error` a start
does not read the file (`StartUnread`) and begins with an empty queue, which the
next save writes over it. A missing, empty or torn file loads as an empty queue.
The history variable `unsaved` says that the last save failed, or that the process
could not read its file. In `TaskQueue` the same faults keep the abstract file as it
was, blank it (`SaveLost`, `Stop`) or leave it unread (`RestartUnread`).

*Tasks.* Ids are handed out in increasing order under the lock that appends to
`qm.tasks`, so the list order is the order of ids and a status per id is enough;
`"Absent"` is an id that is not listed. File names, configurations and progress
are left out. A goroutine holds a pointer to its task: `Finish` of a removed
task changes nothing in the list.

*Task goroutine.* `start` → `Register` → `connect` → `ConnectOk`/`ConnectErr` →
`Adopt` (checks the context and registers the closer in one section) → `upload`
→ `UploadReturn` → `Finish` → save in two steps → `TaskTrigger` → `Unregister`
(the deferred delete by id) → `Release` → `Exit` (last trigger and
`taskWG.Done`).

*Shutdown.* `Cancel` (the queue's context), `ShutdownTrigger`, wait for the
loop, `SnapshotClosers`, `CloseOne` per client, `CloseDone`, wait for all
goroutines, `ExitProcess`. Handlers keep running meanwhile, since
`runHTTPServer` gives up waiting for them after ten seconds.

### Upload

A file is a sequence of blocks; block 0 is a gap. `Send` reads the next block
and issues a request, `Apply` and `Refuse` complete requests in any order,
`CopyFailed` runs `trimPartialUpload` (`Trim`), which leaves the gap when its own
request fails: because the connection is gone, or because the server refuses it on
a live connection (the fault `refuse`, which every request but a write may meet:
`MayFail`). `VerifyBlocks` stands for the first megabyte that a resume compares. The
history variable `unsafe` marks the situations in which no check of the code can
see what is wrong with the partial file: a gap that was not trimmed (the truncate
failed or was refused, or the process died first), an edit behind the compared
blocks, and an edit while the file is being read.
A request that the server still carries out when the process dies is one that it
carried out right before (`Apply`, or `Refuse` when the connection is gone), so
that `Crash` itself leaves the files alone.
What the server does with a request, and the concurrency of `pkg/sftp`, are
external and modelled from the comments and the use in `client.go`.

### HostLimiter

`GetOrCreateLimiter` is the critical section of `qm.mu` with its eviction: an
inactive host's limiter goes first, else an arbitrary one (the code's iteration
over a Go map). Which hosts have waiting tasks is any set, since users add, pause
and remove tasks all the time. `Uses` bounds the settings that occur for each host.
The eviction comes before the new object is made (`Evicted`, `Fresh`), as in the
code. A Limiter is a heap object: it lives as long as the
map, a transfer or an update refers to it, so that a transfer may adapt a limiter
that is no longer in the map. `UpdateHostLimiter` is two steps, because it looks
the limiter up under `qm.mu` and changes it under the limiter's own mutex.
Rates are integers (`KB` units are 1 KB/s); the code multiplies floats, here a
decrease rounds down and an increase rounds up. The bucket itself (`WaitN`,
bursts) is left out. A failed probe records one more than the maximum latency it
read, which may since have changed: any sample. `orphans` is a history variable.

### CredentialStore

A stored credential is `[plain, enc]`: it stands there as it is, under some key,
or not at all. A key file is created empty and then written, so that a crash in
between leaves a torn one. Each process takes its key from the environment, from
the file, makes a new one, or has none. Statuses, locks and goroutines are left
out; any operation may be followed by a save (`Save`). Encryption is opaque:
only the key it was made with opens it. A save may succeed, leave the file as it
is or leave it truncated (`Write`), and so may the save that `loadState` defers
for a file of an older version (`Rewrite`); a load may fail (`LoadFails`), and always
does for a file that was cut. The history variable `file` says whether what is on
disk was read or wholly written by this process (`current`, `behind`), could not
be read (`unread`) or was cut (`cut`); the properties speak of the first two, and
`NoPlainWithKey` of `current` alone.

### LoginLimiter

A login is two critical sections of `loginAttemptsMu`: the first one consults the
limits (`Refused`, `BudgetSpent`, `Admitted`), the second one records the outcome
(`WrongPassword`, `RightPassword`). Between the two, other requests may ban, evict
or delete the same address. `WithEntry` is what both sections do first: find the
entry, or evict and make one. Times are kept as remaining durations and ages that
saturate once the comparisons of the code cannot tell them apart, so that time
itself is unbounded; a moment at which a ban is exactly over (`left = 0`) is kept
apart from later ones, since `Before` and `After` are both false there. A count
above `maxLoginAttempts` acts like that number. `tested` and `streak` are history
variables.

### Sessions

`validSession` is three steps: the read of the expiry under `sessionMu`
(`Lookup`), its comparison with the clock outside the lock (`Compare`), and the
second section, which reads the entry again before it deletes it (`Drop`).
`Login` is `addSession` after a successful password check, which is
`LoginLimiter`'s subject. An expiry is kept as the time that is left; an
entry with none left is expired, since `time.Now().Before(expiry)` is false at the
expiry itself. A request that was answered may come again with any token. The history
variables say how old a token is, whether it was logged out, whether
`MaxSessions` tokens at least as young were live when somebody logged in
(`pushed`), and whether a request arrived too late (`ended`). A handler runs on
after its check: a log stream of a session that is logged out goes on until its
connection ends. Without `AuthPassword` no handler looks at sessions, and this
module has nothing to say.

### LogStreams

`Info` and its kin take `logger.Mu`, send to each registered channel without
blocking and release it (`LockMu`, `Send`, `UnlockMu`), one channel at a time.
The names of its specification (`LogSpec`, `LogNext`, `LogTypeOK`) are kept apart
from those of `Lifecycle`, so that one module can extend both.
The handler of `/api/logs` logs, greets its reader, subscribes, and then selects
between its channel, a ticker and the end of the request; its deferred functions
unregister the channel under the mutex, close it without the mutex, and log
again. Channels hold numbers of messages, whose texts no property tells apart.
The server sets a write deadline of thirty seconds (`main.go`, `WriteTimeout`),
so that a write to a reader that has stopped to read fails in the end
(`Deadline`, `WriteFails`); the handler ignores the error, but `net/http` then
cancels the context of the request, which is what ends the handler.

### Connections

A client walks through `Connect` (`pc`): `Prepare` (keys, methods, choice of the
host key check), `Dial`, `Check`, `Pin`, authentication, SFTP session. `Check`
is the read and the judgement of `tofuHostKeyCallback`, which holds
`knownHostsWriteMu` until the end of the append: a client at `pin` is the one that
holds it (`MuFree`). The server presents any key. `known_hosts` is a sequence of
readable lines and an end: `closed` by a newline, `open` (the last newline is
missing), `comment` (missing behind a trailing comment) or `torn` (text that does
not parse, which makes `knownhosts.New` refuse the whole file). An append
completes the last line when that has no newline: behind a key the result does not
parse, behind a comment the pin becomes part of the comment (`WriteLine`). It may
fail with nothing, a part or all of the line written (`Leftover`), and the process
may die with the same outcomes. `Edit` is the administrator, who removes lines
or repairs the end of the file. The history variable `trusted` holds the keys that
verifying connections accepted since a host's line was last removed. Addresses,
key files and credentials that are refused are free choices of failure; lines
for several hosts, certificates and revocations are left out, as is
`KnownHostsPath`, which nothing sets outside tests.

### Lifecycle

`phase` is where `main` is: `password`, `generate` and `write` are
`resolveAuthPassword`, `queue` and `setup` the calls of `Run` up to the server,
`select`, `drain` (`httpShutdown`) and `join` (the receive after it) are
`runHTTPServer`, and `shutdown` is the deferred `qm.Shutdown`, which `Returns`
enters from every return once the queue exists. `server` is the goroutine of
`httpServe` with what it has returned; when its listener fails after it was up
(`lost`), `net/http` goes on to serve the open connections, so that requests still
arrive (`Taking`), also while the deferred calls of `Run` are under way. `WriteFile` truncates
(`Generate`) and writes (`Written`); a failing or cut write leaves nothing, a part or all. A
generated password is one nobody remembers (18 random bytes). `asked` is the
first stored password that a server asked for, `cut` the requests that were in
flight when the process exited. What `ShutDown` does to the transfers is
`QueueManager`'s subject.

## 3. Runs

| run | configuration | what it shows |
|---|---|---|
| `queue_pool` | two slots, limit up to 2, two tasks, removes, retries, limit updates, shutdown and crash, first life | `SlotAccounting`, `OneGoroutinePerTask`, `NoLostWakeup`, `ShutdownClosesAll` |
| `queue_fair` | one slot, two tasks, pause, resume, remove, shutdown, starts that read the file or cannot, fairness | `PendingIsTaken`, `ShutdownCompletes` |
| `queue_promises` | one task, two slots, limit up to 2, every action of the user interface, limit updates, saves and loads that fail, crashes inside and outside of writes, restarts | `RestartRestores`, `AcknowledgedSurvives`, `DoneStaysDone`, `ImplementsTaskQueue` |
| `upload` | three contents, two requests in flight, two attempts, all faults, fairness | `TypeOK`, `PartialIsPrefix`, `PublishedWhole`, `SourceKept`, `UploadEnds` |
| `upload_gap_resumed` | four blocks, lost connection | violates `NeverCorrupt` |
| `limiter` | two transfers on three hosts, room for two limiters, one host adapts, fairness of samplers | `TypeOK`, `RateInRange`, `HostShares`, `RateRecovers` |
| `credentials` | two keys, three task ids, restarts, saves and loads that fail | `CredentialHeld`, `NoPlainWithKey`, `CredentialKept` |
| `login_limiter` | two concurrent requests, three addresses, room for two entries, passing time | `BudgetExact`, `StreakBounded`, `BanStands`, `BanEnds` |
| `sessions` | two concurrent requests, three tokens, room for two sessions, time to live 2 | `EndedNotServed`, `RefusedHasReason` |
| `log_streams` | two streams and the application, channels of capacity 2, fairness | `NoSendOnClosed`, `LogReturns`, `StreamEnds` |
| `known_hosts` | two clients, two hosts, two keys, files of up to two lines at the start, appends that fail or are cut, restarts, edits | `OneKeyPerHost`, `OneLinePerHost`, `FailedLeavesNothing`, `AcceptedStaysAccepted` |
| `lifecycle` | two requests, two generated passwords, starts with every setting, failures, signals and kills at every point, fairness | `OpenOnlyIfAsked`, `StoredStays`, `ExitIsTrue`, `QueueStopsLast`, `SignalEnds` |

The type invariants of all modules but `Upload` and `HostLimiter`, where they say
something of their own (every limiter in use exists), the bounds `MapBounded` and
`SessionsBounded`, and `NoPlainAdded`, are theorems (section 5) and are not
checked again by a run.

*Bounds and why they suffice.* In `queue_pool` and `queue_fair` two tasks let one
wait while another runs, is removed or is retried; two slots let a retried task
overlap the cleanup of its previous goroutine, which is where registrations by task id collide. One handler
is enough for interleaving with the loop, the goroutines and `main`, because
handlers take the lock for their whole change and meet each other only in saves,
which write whatever the queue is at that time. `queue_pool` is restricted to
the first life of the process (`FirstLife`), since the four invariants start
afresh with each process; restarts are covered by `queue_promises`. That run has
one task: what its properties say of a task depends on the saves around it, and two
slots still let goroutines of the task overlap (removed or retried) and save
while handlers do; ids are used again after a file was lost. It leaves out the
graceful stop, which ends a process as a crash outside of writes does but for the
results it saves first; with `shutdown` among its events it has 2.7 million states
and passes too, only slower, and so does it with two tasks and one slot, where the
order of the starts matters (1.7 million). The theorems of section 5 have none of these bounds.
The worker symmetry is used in runs without liveness only. In `upload` a window of two
allows a later block to be written before an earlier one; the three contents
differ in the compared block, behind it, and in length; two attempts exercise a
retry on the same connection, and the task may be started again any number of
times. `MaxTasks` bounds the ids handed out and `MaxConc` the concurrency a user
asks for, both through guards.

In `limiter` three hosts compete for a map with room for two, so that an eviction
has a choice between an inactive host and an active one; three `Limiter` objects
let two transfers of one host work with different limiters while both places of
the map are taken. Only one host adapts, the others have a fixed rate (`Uses`):
the samplers of two hosts share nothing. The numbers (default 100 MB/s, five
low samples, a tenth of the maximum) are constants, because a step depends only
on their order. In `credentials` two keys are an old
and a new one, and every state file of an older version with up to three tasks is
an initial state; the theorems of section 5 remove both bounds. In `login_limiter`
three addresses with room for two force evictions, two requests overlap their
sections, and limits of two and three let bans and spent budgets happen within a
few steps; the theorems hold for any limits. In `sessions` the third login finds
the map full, a time to live of two keeps a fresh entry, a used one and an
expired one apart, and two requests race each other between their sections. In
`log_streams` one stream can stall or leave while the other one logs, and a
capacity of two lets channels be empty, partly filled and full; the safety
theorems hold for any number of streams and any capacity. In `known_hosts` two
clients overlap their first connections, two keys are the pinned and a changed
one, and two hosts let a torn pin of one meet the check of the other; the
administrator leaves the file `closed` or `open` (`EditTails`), never ending in an
unterminated comment (section 4). In `lifecycle` two requests let one end and the
other one be cut off, and two passwords are the one users know and a new one; the
number of restarts is not bounded.

*Fairness.* `FairSpec` of `QueueManager` gives strong fairness to each
goroutine's own steps: the Go scheduler runs every goroutine again and again, and
`sync.RWMutex` blocks new readers once a writer waits, so nobody waits for the
lock for ever although it is free only now and then. The exit case of the
dispatcher's `select` has its own strong fairness because Go chooses at random
among ready cases. `Connect` is assumed to return. An upload is **not** assumed
to return unless its client was closed, so `PendingIsTaken` lets a task wait for
slots that are all held by uploads, and `ShutdownCompletes` depends on
`Shutdown` closing every client. No user or operator event is fair. `FairSpec`
of `Upload` is weak fairness of the upload's own steps: a request is answered or
fails with its connection. `FairSpec` of `HostLimiter` is weak fairness of each
sampler, which a ticker wakes every two seconds as long as its transfer runs;
what it measures is free, and `RateRecovers` assumes low samples explicitly.
`FairSpec` of `LoginLimiter` only says that time passes. In `LogStreams` the
acquisition of the mutex is strongly fair, because `sync.Mutex` hands over to a
goroutine that has waited for a millisecond; so is the exit case of the `select`,
since Go chooses at random among ready cases; the ticker, the deadline and the
goroutine's other steps are weakly fair. That a reader reads is not assumed.
`FairSpec` of `Lifecycle` is weak fairness of `main`, of the server's goroutine,
of the ten seconds, and of `qm.Shutdown`, whose return `ShutdownCompletes` shows
(and which assumes that `Connect` returns); no request has to end.

*The refinement.* While a file is being written the abstract file already is
what the writer will leave (`Saved`): the queue cannot change before the writer
releases the lock. Where a write fails, or the process dies in it, the abstract file
becomes blank at that end. Section 5 proves the refinement for every value of the
constants, the faults among them; without faults (`Events` without
`save_error`, `load_error` and `crash_in_write`) the abstract file is durable.

## 4. Disagreements between code and documentation

**A gap can be published** (`upload_gap_resumed`, `client.go:885`): the trim
uses the connection that has just failed, and the server may refuse it on a live
one (`NeverCorrupt` is violated with the faults `writeerror` and `refuse` alone
too); the warning at `client.go:886` says
that a later resume restarts the file, but a resume compares only the first
megabyte and the final check only the size.

Also seen, without a run of their own:

* A fault of the state file loses the queue, although `README.md:171` says "Uplarr
  maintains a background queue that survives container and process restarts": the
  file is truncated and rewritten in place, so that a crash inside a save
  (`manager.go:205`) or a write that fails leaves none of the tasks, nor their
  stored credentials, in it; a failed save is only logged (`manager.go:198`, `206`),
  and `AddTasks` answers as if it had succeeded; and when the file cannot be read
  (`manager.go:218`, `233`) the process starts with an empty queue, which the next
  save writes over it. `Forgotten` in `QueuePromises` states which tasks such faults
  cost; without it `AcknowledgedSurvives` and `DoneStaysDone` are violated.
* The rewrite of a state file of an older version may fail as any save; the plain
  passwords then stay in the file while a process with a key runs, until its next
  save, although the comment at `manager.go:224` says that they do "not linger on
  disk until the queue next changes". This is the exception `file # "current"` of
  `NoPlainWithKey`.
* After an error of the listener (`main.go:66`) `net/http` goes on to serve its open
  connections while the deferred calls of `Run` shut the queue down: an upload
  request may be answered by a queue that takes nothing up any more. The exit code
  is that of an error (`QueueStopsLast`).
* A remove may cancel nothing (`manager.go:504`): with two slots, a retried task
  loses its cancel function to the deferred delete of its earlier goroutine
  (`RemoveReachesGoroutine` in `QueueManager`), and a remove between the dispatch
  and the first step of the goroutine finds none yet (`RemoveCancels` in
  `QueuePromises`). The comment at `manager.go:724` expects the task to finish
  with an error.
* A pin is appended to a `known_hosts` whose last line has no newline without
  adding one (`security.go:150`): the two lines become one that does not parse.
  The connection is accepted, the key is not pinned, and every later check of
  every host fails until somebody repairs the file. `security.go:46` says that
  keys of hosts not yet listed "are pinned on first connect". `AcceptedIsPinned`
  in `Connections` states it and is violated.
* If that last line ends in a comment, the pin becomes part of the comment: the
  host stays unknown and the next connection accepts another key, although
  `README.md:163` promises that a changed key is refused. `OneKeyPerHost` is
  violated once `EditTails` contains `"comment"`.
* The death of the process, or a full disk, in the middle of that append leaves a
  torn line with the same effect on all hosts.
* An orderly stop while a browser shows the log stream, which never ends by
  itself, waits for the ten seconds or for the stream's write deadline,
  whichever comes first; in the first case the process exits with code 1
  (`main.go:75`).
* A second signal does nothing: the handler stays installed until `Run` returns, so
  a `qm.Shutdown` that waits for `Connect` can only be killed.
* A generated password whose log line is lost with a dying process is never logged
  again (`main.go:107` names only its file); a part of one that a torn write left
  behind is the password from then on.

* A graceful stop saves running tasks as `Failed` (`manager.go:612`), while a
  crash queues them again (`manager.go:242`): `StopFailsNothing` in
  `QueuePromises` states that it does not, and is violated.
* A pause does not survive a restart (`manager.go:707`), although `README.md:49`
  promises a persistent queue with pause and resume: `PauseSurvives` in
  `QueuePromises`, which is violated also where no save fails.
* Throttling down can raise the rate (`client.go:143`): a floor above the maximum
  (10 KB/s when none is given, 50 KB/s in the form) is applied without regard to
  the maximum, so that the first high latency lifts a transfer above the limit
  that the user asked for; the log line `client.go:151` says "throttling down".
  `ThrottleDownLowers` in `HostLimiter`; `ThrottlingLowers` (section 5) proves that
  it holds where no floor is above its limit.
* The write deadline (`main.go:166`) also cuts every healthy log stream after
  thirty seconds. What is logged before the browser is connected again is not
  shown to it.
* `README.md:52` promises mass renames, and `app.js` posts to
  `/api/local/rename-bulk`, for which the server has no handler.

## 5. Proofs

Every safety property that a passing run checks is a theorem, for every value of
the constants that the modules' assumptions allow, and so is the refinement; where
a theorem has a hypothesis beyond those (all of `Connections`, `NothingCorrupted`
and `ThrottlingLowers`) the hypothesis is named below. Where the code fails a
property after a fault, the exception is part of the property and named there.

`QueueProofs` proves about `QueueManager`, for any finite set of goroutine slots,
any handlers and any bounds, from the assumptions on the constants that
`QueueManager` names:

* `TypeCorrect`: `Spec => []TypeOK`. `TypeOK` is inductive as it stands; the
  proof goes action by action, with a lemma for what a save writes and a load
  reads (`SnapshotTyped`, `EmptyFileTyped`).
* `WakeupNeverLost`: `Spec => []NoLostWakeup`. Inductive relative to `TypeOK`:
  a step that makes a task pending, frees a slot or raises the limit leaves its
  actor in a place where it still owes a token (`WakeupOwed`), and the dispatcher
  only leaves its scan when no task is pending or no slot is free.
* `OneGoroutine`: `Spec => []OneGoroutinePerTask`. The property is not inductive:
  that a dispatch finds a task nobody works on needs `OwnInv`, in which the owner
  of a task is unique and its task is `Running` or removed (so a pending or
  failed task, which a retry may make pending again, has no owner), an id above
  `nextID` is absent (so `AddTasks` never hands out an owned id), and a process
  that is down has no goroutines.
* `ShutdownCloses`: `Spec => []ShutdownClosesAll`. `CloseInv` adds that an
  uploading goroutine is registered in `activeClosers`. The map is keyed by task,
  so this needs the unique ownership: another goroutine of the same task would
  overwrite or delete the registration.
* `SlotsAccounted`: `Spec => []SlotAccounting`. Only `Spawn` and `Release` change
  the set of occupied slots, by one element each; the rest is cardinality of
  finite sets.
* `FileRestores`: `Spec => []RestartRestores`. Inductive with the typing: a step
  that changes what a restart would see leaves its actor where `SaveOwed` holds,
  and the end of a save writes the queue as it then is, or sets `unsaved`.

The other three theorems speak about the state file under every fault that
`Events` may hold; no theorem assumes that a save succeeds or that a process dies
only outside of one. They rest on
`LockInv` (no handler works in a process that is down, and nobody writes the file
while the dispatcher scans) and on `WriteStep`: after every step the file is being
written, or it was left alone while nobody was writing, or it is the queue of now,
or a save has failed (`unsaved`) and left it as it was or as the truncation did.

* `AcknowledgedKept` and `DoneKept`: `PromiseSpec => []AcknowledgedSurvives` and
  `[]DoneStaysDone`. `PromiseInv` adds that the file, unless it is being written or
  the last save failed, has each acknowledged task, and that it never has a finished
  task as anything but `Completed` or absent: this is what a restart, which puts
  every other listed task back to work, relies on. Tasks that a fault costs leave
  both sets in the step of the fault (`Forgotten`), and only then.
* `QueueImplemented`: `Spec => ImplementsTaskQueue`. Each step maps to a step of
  `TaskQueue` or to a stutter under the mapping of `QueueRefinement`. A change of
  the queue needs that nobody writes, so that the abstract file is the real one
  (`SavedKept`); the beginning of a write is where the abstract file changes
  (`SaveStep`), and its end is a stutter, or `SaveLost` if the write fails.

`UploadProofs` proves the safety properties of `Upload` for any contents, any
number of compared blocks, any window and any number of attempts: `TypeCorrect`,
`ResumeIsSound` (`PartialIsPrefix`), `OnlyWholePublished` (`PublishedWhole`) and
`DeletedWhenCopied` (`SourceKept`). `UploadInv` is the inductive invariant. Its
heart are the *settled* blocks, those answered for below the earliest failure:
`Placed` says that the temp file has them all, so that it can be cut back to that
failure, and `Copied` that they are the blocks of the local file and that all
others are so too or are gaps. When everything is settled the copy is the file
(`Whole`), and after a trim, or where no gap was left, it is a prefix
(`Between`). All but the first except what `unsafe` marks: a gap that was not
trimmed, because the truncate was lost or refused or the process died first, and an
edit that no comparison sees. `NothingCorrupted` proves `NeverCorrupt`, which
`upload_gap_resumed` violates, for `Faults \subseteq {"writeerror", "cancel"}`: a lost
connection, a refused request other than a write, a dead process or an edit is
needed to publish a file the user never had.

`HostLimiterProofs` proves `TypeCorrect`, `RateBounded` (`RateInRange`) and
`SharedByHost` (`HostShares`) for any hosts, transfers, settings, latencies and
any size of the map, from `LimInv`. `HeapSound` says that exactly the limiters
someone refers to exist and that each is `Sound`, which the four operations of a
limiter preserve (`UpdateSound`, `ThrottleSound`, `SpeedUpSound`,
`LatencySound`); `Rooted` that only a running transfer has a limiter; `MapGrows`
that an eviction makes room. Sharing survives an eviction because a host with a
listed transfer is active, so that its limiter only goes when all are active.
`ThrottlingLowers` proves that `ThrottleDownLowers`, which section 4 reports as
violated, holds whenever no setting has a floor above its limit (`FloorsFit`).

`CredentialProofs` proves for any keys and any number of tasks, from one inductive
invariant `StoreInv`, that the credential store is well typed (`StoreTyped`) and,
whatever saves fail, that a process on a file that it has read or wholly written
(`Knows`) holds every stored credential of its tasks (`CredentialsHeld`) and never
replaces one by anything but itself or the same password under the current key
(`CredentialsKept`); and that no plain text stands under a key in a file that was
read, and rewritten where necessary, or written by the last save (`NoPlaintext`).
After a save that failed this last theorem says nothing, and the code leaves what
stands there. `NoPlaintextAdded` proves
`NoPlainAdded`, no save adds a plain text, from `PlainInv`: what is retained in
plain text stands so in the file. Besides the properties
`StoreInv` says that a retained credential is never plain while there is a key,
and that ids above `nextID` are neither listed, nor stored, nor retained: else a
new task would inherit the credential of an old one.

`LoginProofs` proves every safety property of `LoginLimiter`, for any number of
requests and addresses and any limits:

* `LoginTyped`, and `MapStaysBounded` with the finiteness of the map (`MapInv`):
  `EntryFound` and `RoomMade` state what the shared look-up and its eviction do.
* `BudgetHolds`. `BudgetInv` charges requests that are past the limits but not yet
  counted (`Uncounted`): with them the sum never exceeds the budget by more than
  the number of requests, because a request only passes while some is left.
* `BansStand`, from `MapInv` and `EntryFound`, action by action.
* `StreaksBounded`, an upper bound on the wrong passwords that are tested, not a
  lower one. `StreakInv` ties the streak of an address to its entry
  (`Tracks`): while it is not banned its count is at least the streak, and a count
  left over from a ban that is over stands for an empty streak.

`SessionProofs` proves all properties of `Sessions` for any number of requests,
any tokens, any bound on the map and any time to live, from one invariant
`SessionInv`:

* `SessionsTyped`, `MapStaysBounded`, `NoLateService`, `RefusalsJustified`.
* Entries and ages move together (`EntriesTrue`: what is left and the age of the
  token add up to `TTL`), a session that is neither over nor pushed out has its
  entry (`LiveListed`), and a request that is about to drop an entry carries a
  token that is over (`RequestTrue`); `EndedTrue` adds that a late request which
  found an entry has read zero from it.
* `EvictedCrowded` is the argument about eviction: the entry that makes room is
  the closest to its expiry, hence the oldest, so all others in the full map are
  younger, live, and `MaxSessions - 1` in number.

`ConnectionProofs` proves every property of `Connections` for any clients, hosts
and keys, under the assumption that the administrator does not leave an
unterminated comment (`"comment" \notin EditTails`): `ConnectionsTyped`, `OneKey`,
`OneLine`, `AcceptedAgain`, `NothingLeft`. `KeyInv` is the inductive invariant.
`FileTrue` says that no file ends in a comment; `TrustPinned` that a host with an
accepted key is either listed with that key or the file cannot be read, so that
the next check cannot pin another one; `PinAlone` that at most one client is at
`pin`, that its host still has no line, and that no key of it was accepted.

`ServerProofs` proves the safety properties of `Lifecycle` for any requests and
passwords, from `LifeInv`: `LifecycleTyped`, `ServedOpenIfAsked`,
`PasswordStays`, `ExitCodeIsTrue`, `QueueIsLast`. `ServerInv` says that a server
listens only while `main` waits in its `select`, and that open connections outlive
an error of the listener only on ways out that return an error; `PasswordInv` that the
file is not written any more once a server asked for its password; `ExitInv` that
`main` is on an orderly way out only after a signal and with no request left.

It also proves, of `LogStreams`, `StreamsTyped` and `ClosedIsSilent` (`NoSendOnClosed`)
for any number of streams and any capacity. A channel is closed without the
mutex; `StreamInv` says why this is safe: only streams between their registration
and their removal are registered, their channels are open, and whoever holds the
mutex has a subset of the registered channels left to send to, since both
changes of the set wait for the mutex.

Out of the prover's reach, and checked by TLC only, is liveness under fairness:
`PendingIsTaken`, `ShutdownCompletes`, `UploadEnds`, `RateRecovers`, `BanEnds`,
`LogReturns`, `StreamEnds` and `SignalEnds`. No module uses recursion. That the
models are those of the code is no theorem: section 2 and the comments say how each
action corresponds to it.

## 6. What is not modelled

Formatting, logging texts, path validation, HTTP headers and rendering carry no
state that the properties speak about. The token bucket of `x/time/rate` and
`Limiter.SetLimit`, which nothing calls in production, are left out too. `GetTasks` and `GetHostStats` only read.
Cryptography, SSH, SFTP and the file system are external: their answers are
nondeterministic choices. The handlers that browse, rename, create and delete
files validate a path and make one call inside an `os.Root` or on a connection of
their own; they share nothing, and what they can do wrong is a matter of one step.
The middleware filters single requests. One `Upload` is modelled at a time: two
tasks with the same target share one `.tmp` file and nothing in the code keeps
them apart, so that every property of `Upload` would fail for reasons that need no
model. The web UI (`app.js`) is not modelled: two answers to directory requests
may arrive in the other order, which is the one hazard of order known in it.

## 7. Plan

Modelled: queue, upload, host limiters, credential store, login limits,
sessions, log streams, connections with host key pinning, process lifecycle.
Proved: every safety property that a passing run checks, and the refinement of
`TaskQueue`. What could follow: the safety core of the liveness properties (for
instance that `Shutdown` always leaves a step enabled until the process has ended),
stated as invariants first checked by TLC; and positive counterparts, like `NothingCorrupted` and `ThrottlingLowers`, of the
other disagreements of section 4.
