----------------------------- MODULE ServerProofs -----------------------------
(* Proofs about the server process.  Its life (Lifecycle): who is served,    *)
(* with which password, and how the process ends, for any number of requests *)
(* and wherever it is killed.  The logs it streams to its users              *)
(* (LogStreams): for any number of streams and any capacity of their         *)
(* channels.  The two share no variable.                                     *)
EXTENDS Lifecycle, LogStreams, TLAPS

(* Between the return of resolveAuthPassword and the exit.                   *)
Resolved == phase \in {"queue", "setup", "select", "drain", "join", "shutdown"}

(* The listener is open only while main waits in its select.  After an error *)
(* connections are served until the select sees the signal or, with that     *)
(* error, until the process has ended.                                       *)
ServerInv ==
  /\ server = "up" => phase = "select"
  /\ server = "lost" => phase = "select" \/ (phase \in {"shutdown", "return"} /\ error)
  /\ server = "starting" => phase \in {"select", "drain", "join"}
  /\ phase = "select" => server # "closed"
  /\ phase = "down" => flight = {} /\ server = "none"

QueueInv ==
  /\ queue = "running" <=> phase \in {"setup", "select", "drain", "join", "shutdown"}
  /\ queue = "stopped" => phase \in {"return", "down"}

(* Once a server asked for the stored password, the file is not written.     *)
PasswordInv ==
  /\ asked # None => pwFile = asked
  /\ phase \in {"generate", "write"} => asked = None /\ env = "neither"
  /\ phase = "write" => password \in Stored
  /\ Resolved /\ env = "neither" => password \in Stored /\ pwFile = password
  /\ Resolved /\ env = "password" => password = FromEnv
  /\ StoredStays /\ OpenOnlyIfAsked

ExitInv ==
  /\ phase \in {"drain", "join"} => stop
  /\ phase = "join" => flight = {}
  /\ phase \in {"shutdown", "return"} /\ ~error => stop /\ flight = {}
  /\ ExitIsTrue

LifeInv == TypeOK /\ ServerInv /\ QueueInv /\ PasswordInv /\ ExitInv

-----------------------------------------------------------------------------

LEMMA InitLife == Init => LifeInv
BY LifeAssumption DEF Init, LifeInv, TypeOK, ServerInv, QueueInv, PasswordInv, Resolved, ExitInv,
   ExitIsTrue, StoredStays, OpenOnlyIfAsked, Taking

(* What a cut write leaves is a part of the password, if anything.           *)
LEMMA PartTyped ==
  ASSUME password \in Stored, PartWritten
  PROVE  pwFile' \in {None, Empty} \cup Stored
<1>1. [of |-> password.of, whole |-> FALSE] \in Stored
  BY DEF Stored
<1> QED
  BY <1>1 DEF PartWritten

LEMMA StartLife ==
  ASSUME LifeInv, NEW e \in {"password", "open", "neither"}, Start(e)
  PROVE  LifeInv'
BY DEF Start, Goto, LifeInv, TypeOK, ServerInv, QueueInv, PasswordInv, Resolved, ExitInv,
   ExitIsTrue, StoredStays, OpenOnlyIfAsked, Taking

LEMMA PasswordLife ==
  ASSUME LifeInv,
         FindPassword \/ Unreadable \/ Written \/ WriteFails \/ \E p \in Generated : Generate(p)
  PROVE  LifeInv'
<1> USE DEF LifeInv, TypeOK, ServerInv, QueueInv, PasswordInv, Resolved, ExitInv, ExitIsTrue,
            StoredStays, OpenOnlyIfAsked, Taking,
            Goto, Returns, auth, parts, past
<1>1. CASE FindPassword
  BY <1>1, LifeAssumption DEF FindPassword, Has, Usable
<1>2. CASE Unreadable
  BY <1>2 DEF Unreadable
<1>3. CASE Written
  BY <1>3 DEF Written
<1>4. CASE WriteFails
  <2>1. password \in Stored
    BY <1>4 DEF WriteFails
  <2>2. pwFile' \in {None, Empty} \cup Stored
    BY <1>4, <2>1, PartTyped DEF WriteFails
  <2> QED
    BY <1>4, <2>2 DEF WriteFails
<1>5. ASSUME NEW p \in Generated, Generate(p) PROVE LifeInv'
  <2>1. [of |-> p, whole |-> TRUE] \in Stored
    BY DEF Stored
  <2> QED
    BY <1>5, <2>1 DEF Generate
<1> QED
  BY <1>1, <1>2, <1>3, <1>4, <1>5

LEMMA ServingLife ==
  ASSUME LifeInv,
         \/ StartQueue \/ SetUp \/ SetUpFails \/ Listen \/ ServeFails \/ Signal
         \/ \E r \in Requests : Arrive(r) \/ Ends(r)
  PROVE  LifeInv'
<1> USE DEF LifeInv, TypeOK, ServerInv, QueueInv, PasswordInv, Resolved, ExitInv, ExitIsTrue,
            StoredStays, OpenOnlyIfAsked, Taking,
            Goto, Returns, auth, parts, past
<1>1. CASE StartQueue
  BY <1>1 DEF StartQueue
<1>2. CASE SetUp \/ SetUpFails
  BY <1>2 DEF SetUp, SetUpFails
<1>3. CASE Listen
  BY <1>3, LifeAssumption DEF Listen
<1>4. CASE ServeFails
  BY <1>4 DEF ServeFails
<1>5. CASE Signal
  BY <1>5 DEF Signal
<1>6. ASSUME NEW r \in Requests, Arrive(r) \/ Ends(r) PROVE LifeInv'
  BY <1>6 DEF Arrive, Ends
<1> QED
  BY <1>1, <1>2, <1>3, <1>4, <1>5, <1>6

LEMMA EndLife ==
  ASSUME LifeInv,
         Served \/ StopServing \/ Drained \/ GiveUp \/ Join \/ ShutDown \/ Exit \/ Kill
  PROVE  LifeInv'
<1> USE DEF LifeInv, TypeOK, ServerInv, QueueInv, PasswordInv, Resolved, ExitInv, ExitIsTrue,
            StoredStays, OpenOnlyIfAsked, Taking,
            Goto, Returns, auth, parts, past
<1>1. CASE Served
  <2>1. server \in {"failed", "lost"} /\ phase = "select" /\ phase' = "shutdown" /\ error' = TRUE
    BY <1>1 DEF Served
  <2>2. UNCHANGED <<env, pwFile, password, queue, server, stop, flight, exit, asked, cut>>
    BY <1>1 DEF Served
  <2> QED
    BY <2>1, <2>2
<1>2. CASE StopServing
  BY <1>2 DEF StopServing
<1>3. CASE Drained
  BY <1>3 DEF Drained
<1>4. CASE GiveUp
  BY <1>4 DEF GiveUp
<1>5. CASE Join
  BY <1>5 DEF Join
<1>6. CASE ShutDown
  BY <1>6 DEF ShutDown
<1>7. CASE Exit
  BY <1>7 DEF Exit
<1>8. CASE Kill
  <2>1. pwFile' \in {None, Empty} \cup Stored
    BY <1>8, PartTyped DEF Kill
  <2> QED
    BY <1>8, <2>1 DEF Kill
<1> QED
  BY <1>1, <1>2, <1>3, <1>4, <1>5, <1>6, <1>7, <1>8

LEMMA LifeInductive == LifeInv /\ [Next]_vars => LifeInv'
<1> SUFFICES ASSUME LifeInv, [Next]_vars PROVE LifeInv'
  OBVIOUS
<1>1. CASE UNCHANGED vars
  BY <1>1 DEF vars, auth, parts, past, LifeInv, TypeOK, ServerInv, QueueInv, PasswordInv,
              Resolved, ExitInv, ExitIsTrue, StoredStays, OpenOnlyIfAsked, Taking
<1>2. CASE Next
  BY <1>2, StartLife, PasswordLife, ServingLife, EndLife DEF Next, Main
<1> QED
  BY <1>1, <1>2

LEMMA LifeAlways == Spec => []LifeInv
BY InitLife, LifeInductive, PTL DEF Spec

-----------------------------------------------------------------------------

(* The state of the process, its files and its history keep their types.     *)
THEOREM LifecycleTyped == Spec => []TypeOK
<1>1. LifeInv => TypeOK
  BY DEF LifeInv
<1> QED
  BY <1>1, LifeAlways, PTL

(* resolveAuthPassword: whatever writes of the password were cut short, a    *)
(* server that needs no password was asked for.                              *)
THEOREM ServedOpenIfAsked == Spec => []OpenOnlyIfAsked
<1>1. LifeInv => OpenOnlyIfAsked
  BY DEF LifeInv, PasswordInv
<1> QED
  BY <1>1, LifeAlways, PTL

(* The password a server once asked for is asked for by every later one.     *)
THEOREM PasswordStays == Spec => []StoredStays
<1>1. LifeInv => StoredStays
  BY DEF LifeInv, PasswordInv
<1> QED
  BY <1>1, LifeAlways, PTL

(* When the exit code of main tells of an orderly stop, a signal asked for   *)
(* it and no request was cut off.                                            *)
THEOREM ExitCodeIsTrue == Spec => []ExitIsTrue
<1>1. LifeInv => ExitIsTrue
  BY DEF LifeInv, ExitInv
<1> QED
  BY <1>1, LifeAlways, PTL

(* The deferred Shutdown of the queue runs on every way out of Run, after    *)
(* the listener is gone; a request that is in flight or can still arrive     *)
(* meanwhile is there only on the ways out that return an error.             *)
THEOREM QueueIsLast == Spec => []QueueStopsLast
<1>1. LifeInv => QueueStopsLast
  BY DEF LifeInv, ServerInv, QueueInv, ExitInv, QueueStopsLast, Taking
<1> QED
  BY <1>1, LifeAlways, PTL

-----------------------------------------------------------------------------
(* The log broadcast.                                                        *)

(* Only a stream between its registration and its removal is registered, and *)
(* its channel is open.                                                      *)
ClientsOpen ==
  \A s \in clients : pc[s] \in {"select", "write", "unsubscribe"} /\ chan[s] = "open"

(* Whoever holds the mutex is in a call of the logger, and sends to          *)
(* registered channels only.                                                 *)
HolderCalls == (mu # Nobody => Calls(mu)) /\ todo \subseteq clients

StreamInv == LogTypeOK /\ ClientsOpen /\ HolderCalls

LEMMA StreamInit == LogInit => StreamInv
BY StreamAssumption DEF LogInit, StreamInv, LogTypeOK, ClientsOpen, HolderCalls

(* A step that moves one stream, not one in a call of the logger, leaves     *)
(* the lock alone and keeps what is known of a registered stream.            *)
LEMMA StreamMoves ==
  ASSUME StreamInv, NEW s \in Streams, ~Calls(s),
         pc' \in [Loggers -> {"idle", "log", "greet", "subscribe", "select", "write",
                              "unsubscribe", "close", "bye"}],
         \A l \in Loggers \ {s} : pc'[l] = pc[l],
         s \in clients => pc'[s] \in {"select", "write", "unsubscribe"},
         conn' \in [Streams -> {"open", "late", "done"}],
         buf' \in [Streams -> 0 .. Cap],
         UNCHANGED <<clients, chan, mu, todo>>
  PROVE  StreamInv'
<1>1. LogTypeOK'
  BY DEF StreamInv, LogTypeOK
<1>2. ClientsOpen'
  BY DEF StreamInv, LogTypeOK, ClientsOpen, Loggers
<1>3. HolderCalls'
  BY DEF StreamInv, LogTypeOK, HolderCalls, Calls
<1> QED
  BY <1>1, <1>2, <1>3 DEF StreamInv

LEMMA LoggerStep ==
  ASSUME StreamInv, NEW l \in Loggers, LockMu(l) \/ Send(l) \/ UnlockMu(l)
  PROVE  StreamInv'
<1> USE StreamAssumption
<1>1. CASE LockMu(l)
  BY <1>1 DEF LockMu, StreamInv, LogTypeOK, ClientsOpen, HolderCalls, Calls
<1>2. CASE Send(l)
  <2>1. PICK s \in todo : /\ todo' = todo \ {s}
                          /\ buf' = [buf EXCEPT ![s] = IF @ < Cap THEN @ + 1 ELSE @]
    BY <1>2 DEF Send
  <2>2. buf' \in [Streams -> 0 .. Cap]
    BY <2>1 DEF StreamInv, LogTypeOK
  <2> QED
    BY <1>2, <2>1, <2>2 DEF Send, StreamInv, LogTypeOK, ClientsOpen, HolderCalls, Calls
<1>3. CASE UnlockMu(l)
  <2>1. /\ mu = l /\ mu' = Nobody /\ todo = {} /\ Calls(l)
        /\ pc' = [pc EXCEPT ![l] = AfterLog(l)] /\ AfterLog(l) \in {"greet", "idle"}
        /\ clients' = clients /\ chan' = chan /\ buf' = buf /\ todo' = todo /\ conn' = conn
    BY <1>3 DEF UnlockMu, AfterLog, StreamInv, HolderCalls
  <2>2. l \notin clients
    BY <2>1 DEF StreamInv, ClientsOpen, Calls
  <2> QED
    BY <2>1, <2>2 DEF StreamInv, LogTypeOK, ClientsOpen, HolderCalls, Loggers
<1> QED
  BY <1>1, <1>2, <1>3

(* Registration and removal, both of which need the mutex to be free.        *)
LEMMA RegistryStep ==
  ASSUME StreamInv, NEW s \in Streams, Subscribe(s) \/ Unsubscribe(s)
  PROVE  StreamInv'
<1>1. /\ mu = Nobody /\ mu' = Nobody /\ todo = {} /\ todo' = {}
      /\ pc' \in [Loggers -> {"idle", "log", "greet", "subscribe", "select", "write",
                              "unsubscribe", "close", "bye"}]
      /\ \A r \in Streams \ {s} : pc'[r] = pc[r]
      /\ buf' = buf /\ conn' = conn
  BY DEF Subscribe, Unsubscribe, Moves, StreamInv, LogTypeOK, Loggers
<1>2. CASE Subscribe(s)
  <2>1. /\ clients' = clients \cup {s} /\ chan' = [chan EXCEPT ![s] = "open"]
        /\ pc'[s] = "select"
    BY <1>2 DEF Subscribe, Moves, StreamInv, LogTypeOK, Loggers
  <2>2. LogTypeOK' /\ ClientsOpen'
    BY <1>1, <2>1 DEF StreamInv, LogTypeOK, ClientsOpen
  <2> QED
    BY <1>1, <2>2 DEF StreamInv, HolderCalls
<1>3. CASE Unsubscribe(s)
  <2>1. clients' = clients \ {s} /\ chan' = chan
    BY <1>3 DEF Unsubscribe
  <2>2. LogTypeOK' /\ ClientsOpen'
    BY <1>1, <2>1 DEF StreamInv, LogTypeOK, ClientsOpen
  <2> QED
    BY <1>1, <2>2 DEF StreamInv, HolderCalls
<1> QED
  BY <1>2, <1>3

LEMMA CloseStep ==
  ASSUME StreamInv, NEW s \in Streams, CloseChan(s)
  PROVE  StreamInv'
<1>1. /\ pc[s] = "close" /\ pc' = [pc EXCEPT ![s] = "bye"]
      /\ chan' = [chan EXCEPT ![s] = "closed"] /\ buf' = [buf EXCEPT ![s] = 0]
      /\ clients' = clients /\ mu' = mu /\ todo' = todo /\ conn' = conn
  BY DEF CloseChan, Moves
<1>2. s \notin clients
  BY <1>1 DEF StreamInv, ClientsOpen
<1>3. LogTypeOK'
  BY <1>1, StreamAssumption DEF StreamInv, LogTypeOK, Loggers
<1>4. ClientsOpen'
  BY <1>1, <1>2 DEF StreamInv, LogTypeOK, ClientsOpen
<1>5. HolderCalls'
  BY <1>1 DEF StreamInv, LogTypeOK, HolderCalls, Calls, Loggers
<1> QED
  BY <1>3, <1>4, <1>5 DEF StreamInv

LEMMA ServeStep ==
  ASSUME StreamInv, NEW s \in Streams,
         \/ Connect(s) \/ WriteRead(s) \/ WriteLost(s) \/ Receive(s) \/ Keepalive(s)
         \/ Leave(s) \/ Disconnect(s) \/ Deadline(s)
  PROVE  StreamInv'
<1> USE DEF Moves
<1>0. s \in Loggers /\ LogTypeOK
  BY DEF Loggers, StreamInv
<1>1. CASE Connect(s)
  <2>1. s \notin clients
    BY <1>1 DEF Connect, StreamInv, ClientsOpen
  <2> QED
    BY <1>0, <1>1, <2>1, StreamMoves DEF Connect, LogTypeOK, Calls
<1>2. CASE WriteRead(s) \/ WriteLost(s)
  <2>1. /\ pc[s] \in {"greet", "write"} /\ pc' = [pc EXCEPT ![s] = AfterWrite(s)]
        /\ conn' \in [Streams -> {"open", "late", "done"}]
        /\ UNCHANGED <<clients, chan, buf, mu, todo>>
    BY <1>0, <1>2 DEF WriteRead, WriteLost, Writes, LogTypeOK
  <2>2. s \in clients => AfterWrite(s) = "select"
    BY <2>1 DEF AfterWrite, StreamInv, ClientsOpen
  <2>3. AfterWrite(s) \in {"subscribe", "select"}
    BY DEF AfterWrite
  <2> QED
    BY <1>0, <2>1, <2>2, <2>3, StreamMoves DEF LogTypeOK, Calls
<1>3. CASE Receive(s)
  <2>1. buf' \in [Streams -> 0 .. Cap]
    BY <1>0, <1>3, StreamAssumption DEF Receive, LogTypeOK
  <2> QED
    BY <1>0, <1>3, <2>1, StreamMoves DEF Receive, LogTypeOK, Calls
<1>4. CASE Keepalive(s) \/ Leave(s)
  BY <1>0, <1>4, StreamMoves DEF Keepalive, Leave, LogTypeOK, Calls
<1>5. CASE Disconnect(s) \/ Deadline(s)
  BY <1>0, <1>5 DEF Disconnect, Deadline, StreamInv, LogTypeOK, ClientsOpen, HolderCalls, Calls
<1> QED
  BY <1>1, <1>2, <1>3, <1>4, <1>5

LEMMA StreamNext == StreamInv /\ [LogNext]_logVars => StreamInv'
<1> SUFFICES ASSUME StreamInv, [LogNext]_logVars PROVE StreamInv'
  OBVIOUS
<1>1. CASE Log
  BY <1>1, StreamAssumption
     DEF Log, Moves, StreamInv, LogTypeOK, ClientsOpen, HolderCalls, Calls, Loggers
<1>2. ASSUME NEW l \in Loggers, Locking(l) \/ Holding(l) PROVE StreamInv'
  <2>1. CASE LockMu(l) \/ Holding(l)
    BY <2>1, LoggerStep DEF Holding
  <2>2. CASE l # App /\ (Subscribe(l) \/ Unsubscribe(l))
    BY <2>2, RegistryStep DEF Loggers
  <2> QED
    BY <1>2, <2>1, <2>2 DEF Locking
<1>3. ASSUME NEW s \in Streams,
             \/ Connect(s) \/ WriteRead(s) \/ Serving(s) \/ Leave(s)
             \/ Disconnect(s) \/ Deadline(s)
      PROVE  StreamInv'
  BY <1>3, ServeStep, CloseStep DEF Serving
<1>4. CASE UNCHANGED logVars
  BY <1>4 DEF logVars, StreamInv, LogTypeOK, ClientsOpen, HolderCalls, Calls
<1> QED
  BY <1>1, <1>2, <1>3, <1>4 DEF LogNext

(* Every reachable state satisfies the invariant of the log broadcast.       *)
THEOREM StreamInvariant == LogSpec => []StreamInv
BY StreamInit, StreamNext, PTL DEF LogSpec

(* The variables of the log broadcast keep their types: no channel holds     *)
(* more than its capacity.                                                   *)
THEOREM StreamsTyped == LogSpec => []LogTypeOK
<1>1. StreamInv => LogTypeOK
  BY DEF StreamInv
<1> QED
  BY <1>1, StreamInvariant, PTL

(* BroadcastLog never sends on a channel that the handler of /api/logs has   *)
(* closed, although it closes it after it has released the mutex.            *)
THEOREM ClosedIsSilent == LogSpec => []NoSendOnClosed
<1>1. StreamInv => NoSendOnClosed
  BY DEF StreamInv, ClientsOpen, HolderCalls, NoSendOnClosed
<1> QED
  BY <1>1, StreamInvariant, PTL

=============================================================================
