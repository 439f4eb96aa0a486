------------------------------ MODULE LogStreams ------------------------------
(* The log broadcast (logger/logger.go) and the streams of /api/logs that    *)
(* read it (api/server.go).  Everything that logs sends to the buffered      *)
(* channel of every stream while it holds the logger's mutex; a stream       *)
(* registers its channel, writes what it receives to its connection, and     *)
(* unregisters and closes the channel when the request is over.  The server  *)
(* sets a deadline for all writes of a response (WriteTimeout, main.go).     *)
(* Names are kept apart from those of Lifecycle, the rest of the server.     *)
EXTENDS Integers, FiniteSets

CONSTANTS Streams,   \* concurrent requests for /api/logs
          App,       \* any other goroutine that logs
          Cap,       \* capacity of a channel, 10
          Nobody

Loggers == Streams \cup {App}

ASSUME StreamAssumption ==
  /\ App \notin Streams /\ Nobody \notin Loggers
  /\ Cap \in Nat \ {0}

VARIABLES
  clients,   \* LogClients: the streams whose channel is registered
  chan,      \* each stream's channel: none, open, closed
  buf,       \* number of messages in it
  mu,        \* who holds logger.Mu, or Nobody
  todo,      \* channels its holder still has to send to
  pc,        \* what each logger does next
  conn       \* each stream's connection: open, late (past the write deadline), done

logVars == <<clients, chan, buf, mu, todo, pc, conn>>

LogInit ==
  /\ clients = {} /\ chan = [s \in Streams |-> "none"] /\ buf = [s \in Streams |-> 0]
  /\ mu = Nobody /\ todo = {}
  /\ pc = [l \in Loggers |-> "idle"] /\ conn = [s \in Streams |-> "done"]

Moves(l, from, to) == pc[l] = from /\ pc' = [pc EXCEPT ![l] = to]

-----------------------------------------------------------------------------
(* LogWithLevel, BroadcastLog                                                *)

(* App calls the logger; a stream does so when it begins and when it ends.   *)
Log == Moves(App, "idle", "log") /\ UNCHANGED <<clients, chan, buf, mu, todo, conn>>

Calls(l) == pc[l] \in {"log", "bye"}
LockMu(l) ==
  /\ Calls(l) /\ mu = Nobody
  /\ mu' = l /\ todo' = clients
  /\ UNCHANGED <<clients, chan, buf, pc, conn>>

(* Mutant: a send is tried again until there is room in the channel.         *)
MutSend(l) ==
  /\ mu = l
  /\ \E s \in todo : IF buf[s] < Cap
                     THEN todo' = todo \ {s} /\ buf' = [buf EXCEPT ![s] = @ + 1]
                     ELSE UNCHANGED <<todo, buf>>
  /\ UNCHANGED <<clients, chan, mu, pc, conn>>

(* A message for which there is no room is dropped.                          *)
Send(l) ==
  /\ mu = l
  /\ \E s \in todo : /\ todo' = todo \ {s}
                     /\ buf' = [buf EXCEPT ![s] = IF @ < Cap THEN @ + 1 ELSE @]
  /\ UNCHANGED <<clients, chan, mu, pc, conn>>

AfterLog(l) == IF pc[l] = "log" /\ l # App THEN "greet" ELSE "idle"

UnlockMu(l) ==
  /\ mu = l /\ todo = {}
  /\ mu' = Nobody /\ pc' = [pc EXCEPT ![l] = AfterLog(l)]
  /\ UNCHANGED <<clients, chan, buf, todo, conn>>

-----------------------------------------------------------------------------
(* The handler of /api/logs                                                  *)
Connect(s) ==
  /\ Moves(s, "idle", "log") /\ conn' = [conn EXCEPT ![s] = "open"]
  /\ UNCHANGED <<clients, chan, buf, mu, todo>>

(* A write waits for its reader until the deadline.  An error is ignored by  *)
(* the handler, but net/http then cancels the context of the request.        *)
AfterWrite(s) == IF pc[s] = "greet" THEN "subscribe" ELSE "select"
Writes(s) == pc[s] \in {"greet", "write"}
WriteRead(s) ==
  /\ Writes(s) /\ conn[s] = "open" /\ pc' = [pc EXCEPT ![s] = AfterWrite(s)]
  /\ UNCHANGED <<clients, chan, buf, mu, todo, conn>>
WriteLost(s) ==
  /\ Writes(s) /\ conn[s] # "open" /\ pc' = [pc EXCEPT ![s] = AfterWrite(s)]
  /\ conn' = [conn EXCEPT ![s] = "done"]
  /\ UNCHANGED <<clients, chan, buf, mu, todo>>

Subscribe(s) ==
  /\ Moves(s, "subscribe", "select") /\ mu = Nobody
  /\ clients' = clients \cup {s} /\ chan' = [chan EXCEPT ![s] = "open"]
  /\ UNCHANGED <<buf, mu, todo, conn>>

Receive(s) ==
  /\ Moves(s, "select", "write") /\ buf[s] > 0
  /\ buf' = [buf EXCEPT ![s] = @ - 1]
  /\ UNCHANGED <<clients, chan, mu, todo, conn>>

(* Mutant: nothing is written while nothing is logged.                       *)
MutKeepalive(s) == FALSE

Keepalive(s) ==
  /\ Moves(s, "select", "write")
  /\ UNCHANGED <<clients, chan, buf, mu, todo, conn>>

Leave(s) ==
  /\ Moves(s, "select", "unsubscribe") /\ conn[s] = "done"
  /\ UNCHANGED <<clients, chan, buf, mu, todo, conn>>

(* Mutant: the channel is unregistered without the mutex.                    *)
MutUnsubscribe(s) ==
  /\ Moves(s, "unsubscribe", "close") /\ clients' = clients \ {s}
  /\ UNCHANGED <<chan, buf, mu, todo, conn>>

Unsubscribe(s) ==
  /\ Moves(s, "unsubscribe", "close") /\ mu = Nobody
  /\ clients' = clients \ {s}
  /\ UNCHANGED <<chan, buf, mu, todo, conn>>

CloseChan(s) ==
  /\ Moves(s, "close", "bye")
  /\ chan' = [chan EXCEPT ![s] = "closed"] /\ buf' = [buf EXCEPT ![s] = 0]
  /\ UNCHANGED <<clients, mu, todo, conn>>

(* The reader goes away and the server notices it at once; or the deadline   *)
(* passes, and only the next write notices it.                               *)
Disconnect(s) ==
  /\ pc[s] # "idle" /\ conn[s] # "done" /\ conn' = [conn EXCEPT ![s] = "done"]
  /\ UNCHANGED <<clients, chan, buf, mu, todo, pc>>
Deadline(s) ==
  /\ conn[s] = "open" /\ conn' = [conn EXCEPT ![s] = "late"]
  /\ UNCHANGED <<clients, chan, buf, mu, todo, pc>>

-----------------------------------------------------------------------------
Locking(l) ==
  LockMu(l) \/ (l # App /\ (Subscribe(l) \/ Unsubscribe(l)))
Holding(l) == Send(l) \/ UnlockMu(l)
Serving(s) == WriteLost(s) \/ Receive(s) \/ Keepalive(s) \/ CloseChan(s)

LogNext ==
  \/ Log
  \/ \E l \in Loggers : Locking(l) \/ Holding(l)
  \/ \E s \in Streams : \/ Connect(s) \/ WriteRead(s) \/ Serving(s) \/ Leave(s)
                        \/ Disconnect(s) \/ Deadline(s)

LogSpec == LogInit /\ [][LogNext]_logVars

(* A goroutine that waits for the mutex gets it (it hands over to those that *)
(* have waited long), the select chooses at random among its ready cases,    *)
(* the ticker ticks and the deadline passes.  A reader need not read.        *)
FairLogSpec ==
  /\ LogSpec
  /\ \A l \in Loggers : SF_logVars(Locking(l)) /\ WF_logVars(Holding(l))
  /\ \A s \in Streams : WF_logVars(Serving(s)) /\ SF_logVars(Leave(s)) /\ WF_logVars(Deadline(s))

-----------------------------------------------------------------------------
LogTypeOK ==
  /\ clients \subseteq Streams /\ todo \subseteq Streams
  /\ chan \in [Streams -> {"none", "open", "closed"}] /\ buf \in [Streams -> 0 .. Cap]
  /\ mu \in Loggers \cup {Nobody} /\ (mu = Nobody => todo = {})
  /\ pc \in [Loggers -> {"idle", "log", "greet", "subscribe", "select", "write",
                         "unsubscribe", "close", "bye"}]
  /\ conn \in [Streams -> {"open", "late", "done"}]

(* No channel is closed while somebody may send to it (that would panic),    *)
(* although the channel is closed after the mutex is released.               *)
NoSendOnClosed == \A s \in clients \cup todo : chan[s] = "open"

(* Whoever logs goes on, also while it holds the lock of the queue: no       *)
(* reader that has stopped to read holds it up.                              *)
LogReturns == \A l \in Loggers : Calls(l) ~> ~Calls(l)

(* A stream whose reader is gone, or does not read, is given up and its      *)
(* channel unregistered, even if nothing is ever logged again.               *)
StreamEnds == \A s \in Streams : []<>(s \notin clients)

=============================================================================
