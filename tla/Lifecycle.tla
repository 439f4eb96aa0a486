------------------------------ MODULE Lifecycle ------------------------------
(* The life of the process (cmd/uplarr/main.go): the password of the web UI  *)
(* is found or made, the queue starts, the HTTP server serves until a signal *)
(* or an error, requests are given ten seconds, the queue is shut down and   *)
(* the process exits.  It may be killed at any point and is started again.   *)
EXTENDS Naturals, FiniteSets

CONSTANTS Requests,   \* requests in flight at a time
          Generated,  \* the passwords that the process generates
          FromEnv,    \* AUTH_PASSWORD
          Empty,      \* the content of an empty file
          None

Stored == [of : Generated, whole : BOOLEAN]

ASSUME LifeAssumption ==
  Stored \cap {None, Empty, FromEnv} = {} /\ None \notin {Empty, FromEnv} /\ Empty # FromEnv

VARIABLES
  phase,     \* where main is; "down" if there is no process
  env,       \* what this start was given: a password, ALLOW_NO_AUTH, or neither
  pwFile,    \* .auth_password: None, Empty, or the whole or a part of a password
  password,  \* config.AuthPassword, or None
  queue,     \* the queue manager: none, running, stopped
  server,    \* httpServe: none, starting, up, closed, failed, or lost: it has
             \* returned an error, but its open connections are served on
  stop,      \* the context of the signals is done
  flight,    \* requests in flight
  error,     \* Run is about to return an error
  exit,      \* how the last process ended: none, ok, error, killed
  asked,     \* history: the first stored password that a server asked for
  cut        \* history: the requests that were in flight when main returned

auth  == <<env, pwFile, password>>
parts == <<queue, server, stop, flight>>
past  == <<exit, asked, cut>>
vars  == <<phase, auth, parts, error, past>>

Init ==
  /\ phase = "down" /\ env = "neither" /\ pwFile = None /\ password = None
  /\ queue = "none" /\ server = "none" /\ stop = FALSE /\ flight = {}
  /\ error = FALSE /\ exit = "none" /\ asked = None /\ cut = {}

Goto(from, to) == phase = from /\ phase' = to

(* Run returns; without a queue there is nothing to shut down.               *)
Returns(from, e) == Goto(from, IF queue = "running" THEN "shutdown" ELSE "return") /\ error' = e

-----------------------------------------------------------------------------
(* The start                                                                 *)

Start(e) ==
  /\ Goto("down", "password") /\ env' = e
  /\ password' = None /\ error' = FALSE /\ exit' = "none" /\ cut' = {}
  /\ queue' = "none" /\ server' = "none" /\ stop' = FALSE /\ flight' = {}
  /\ UNCHANGED <<pwFile, asked>>

(* resolveAuthPassword                                                       *)
Has(f, p) == Goto("password", "queue") /\ password' = p /\ UNCHANGED <<f, error>>

(* Mutant: whatever the file holds is the password.                          *)
MutUsable(f) == f # None
Usable(f) == f \notin {None, Empty}

FindPassword ==
  /\ \/ env = "password" /\ Has(pwFile, FromEnv)
     \/ env = "open" /\ Has(pwFile, None)
     \/ env = "neither" /\ Usable(pwFile) /\ Has(pwFile, pwFile)
     \/ env = "neither" /\ ~Usable(pwFile) /\ Goto("password", "generate") /\ UNCHANGED <<password, error>>
  /\ UNCHANGED <<env, pwFile, parts, past>>

(* Mutant: a file that cannot be read counts as missing.                     *)
MutUnreadable ==
  /\ env = "neither" /\ Goto("password", "generate")
  /\ UNCHANGED <<auth, error, parts, past>>

(* The directory or the file cannot be opened or read.                       *)
Unreadable ==
  /\ env = "neither" /\ Returns("password", TRUE)
  /\ UNCHANGED <<auth, parts, past>>

(* 18 random bytes, which do not repeat a password that anybody remembers.   *)
(* WriteFile truncates the file and writes it.                               *)
Generate(p) ==
  /\ asked \notin [of : {p}, whole : BOOLEAN] /\ Goto("generate", "write")
  /\ password' = [of |-> p, whole |-> TRUE] /\ pwFile' = Empty
  /\ UNCHANGED <<env, error, parts, past>>

Written ==
  /\ Goto("write", "queue") /\ pwFile' = password
  /\ UNCHANGED <<env, password, error, parts, past>>

PartWritten == pwFile' \in {Empty, password, [of |-> password.of, whole |-> FALSE]}
WriteFails ==
  /\ Returns("write", TRUE) /\ PartWritten
  /\ UNCHANGED <<env, password, parts, past>>

StartQueue ==
  /\ Goto("queue", "setup") /\ queue' = "running"
  /\ UNCHANGED <<auth, server, stop, flight, error, past>>

(* SetupApp, and runHTTPServer up to its select.                             *)
SetUp ==
  /\ Goto("setup", "select") /\ server' = "starting"
  /\ UNCHANGED <<auth, queue, stop, flight, error, past>>

(* Mutant: the process exits without the deferred calls.                     *)
MutSetUpFails ==
  /\ Goto("setup", "return") /\ error' = TRUE
  /\ UNCHANGED <<auth, parts, past>>

SetUpFails ==
  /\ Returns("setup", TRUE)
  /\ UNCHANGED <<auth, parts, past>>

-----------------------------------------------------------------------------
(* The HTTP server: httpServe in its goroutine, and the requests.            *)

(* Connections on which requests arrive.                                     *)
Taking == server \in {"up", "lost"}

(* Shutdown may come before the server listens, which then does not.         *)
Listen ==
  /\ server = "starting"
  /\ server' = IF phase = "select" THEN "up" ELSE "closed"
  /\ asked' = IF env = "neither" /\ asked = None /\ server' = "up" THEN password ELSE asked
  /\ UNCHANGED <<phase, auth, queue, stop, flight, error, exit, cut>>

(* The listener fails: before anybody is connected, or while connections are *)
(* open, which only the end of the process or Shutdown closes.               *)
ServeFails ==
  /\ \/ server = "starting" /\ server' = "failed"
     \/ server = "up" /\ server' = "lost"
  /\ UNCHANGED <<phase, auth, queue, stop, flight, error, past>>

Arrive(r) ==
  /\ Taking /\ r \notin flight /\ flight' = flight \cup {r}
  /\ UNCHANGED <<phase, auth, queue, server, stop, error, past>>

(* A log stream ends when its reader leaves, which nobody has to.            *)
Ends(r) ==
  /\ phase # "down" /\ r \in flight /\ flight' = flight \ {r}
  /\ UNCHANGED <<phase, auth, queue, server, stop, error, past>>

-----------------------------------------------------------------------------
(* The end                                                                   *)

Signal ==
  /\ phase # "down" /\ stop' = TRUE
  /\ UNCHANGED <<phase, auth, queue, server, flight, error, past>>

Served ==
  /\ server \in {"closed", "failed", "lost"} /\ Returns("select", server # "closed")
  /\ UNCHANGED <<auth, parts, past>>

(* Mutant: the queue is shut down first.                                     *)
MutStopServing ==
  /\ stop /\ Goto("select", "shutdown")
  /\ UNCHANGED <<auth, parts, error, past>>

(* httpShutdown closes the listener and what is idle at once, and takes no   *)
(* further request on the other connections.                                 *)
StopServing ==
  /\ stop /\ Goto("select", "drain")
  /\ server' = CASE server = "up" -> "closed"
                 [] server = "lost" -> "failed"
                 [] OTHER -> server
  /\ UNCHANGED <<auth, queue, stop, flight, error, past>>

Drained ==
  /\ flight = {} /\ Goto("drain", "join")
  /\ UNCHANGED <<auth, parts, error, past>>

(* Mutants: nobody gives up on a request; giving up is no error.             *)
MutNeverGivesUp == FALSE
MutGiveUp ==
  /\ Goto("drain", "join")
  /\ UNCHANGED <<auth, parts, error, past>>

(* After ten seconds the requests in flight are left to themselves; where    *)
(* nothing ever listened there is nothing to wait for.                       *)
GiveUp ==
  /\ server # "starting" /\ Returns("drain", TRUE)
  /\ UNCHANGED <<auth, parts, past>>

Join ==
  /\ server \in {"closed", "failed"} /\ Returns("join", server = "failed")
  /\ UNCHANGED <<auth, parts, past>>

(* The deferred Shutdown of the queue returns.                               *)
ShutDown ==
  /\ Goto("shutdown", "return") /\ queue' = "stopped"
  /\ UNCHANGED <<auth, server, stop, flight, error, past>>

Exit ==
  /\ Goto("return", "down")
  /\ exit' = (IF error THEN "error" ELSE "ok") /\ cut' = flight /\ flight' = {}
  /\ server' = "none"
  /\ UNCHANGED <<auth, queue, stop, error, asked>>

Kill ==
  /\ phase # "down" /\ phase' = "down" /\ exit' = "killed"
  /\ queue' = "none" /\ server' = "none" /\ flight' = {}
  /\ IF phase = "write" THEN PartWritten ELSE UNCHANGED pwFile
  /\ UNCHANGED <<env, password, stop, error, asked, cut>>

Main ==
  \/ FindPassword \/ Written \/ StartQueue \/ SetUp
  \/ \E p \in Generated : Generate(p)
  \/ Served \/ StopServing \/ Drained \/ GiveUp \/ Join \/ ShutDown \/ Exit

Next ==
  \/ \E e \in {"password", "open", "neither"} : Start(e)
  \/ Main \/ Unreadable \/ WriteFails \/ SetUpFails
  \/ Listen \/ ServeFails \/ Signal \/ Kill
  \/ \E r \in Requests : Arrive(r) \/ Ends(r)

Spec == Init /\ [][Next]_vars

(* main and the server's goroutine run on, the ten seconds pass, and the     *)
(* Shutdown of the queue returns (ShutdownCompletes of QueueManager).        *)
FairSpec == Spec /\ WF_vars(Main) /\ WF_vars(Listen)

-----------------------------------------------------------------------------
TypeOK ==
  /\ phase \in {"down", "password", "generate", "write", "queue", "setup", "select",
                "drain", "join", "shutdown", "return"}
  /\ env \in {"password", "open", "neither"}
  /\ pwFile \in {None, Empty} \cup Stored
  /\ password \in {None, FromEnv} \cup Stored
  /\ queue \in {"none", "running", "stopped"}
  /\ server \in {"none", "starting", "up", "closed", "failed", "lost"}
  /\ stop \in BOOLEAN /\ flight \subseteq Requests /\ error \in BOOLEAN
  /\ exit \in {"none", "ok", "error", "killed"}
  /\ asked \in {None} \cup Stored /\ cut \subseteq Requests

(* "Running without one must be requested explicitly with                    *)
(* ALLOW_NO_AUTH=true": nobody is served without a password else, wherever   *)
(* an earlier process died while it wrote the password.                      *)
OpenOnlyIfAsked == Taking /\ password \in {None, Empty} => env = "open"

(* The stored password that users were once asked for stays the password of  *)
(* every later process that is given none.                                   *)
StoredStays == Taking /\ env = "neither" => password = asked

(* The exit code is that of an orderly stop only if a signal asked for it    *)
(* and every request was answered.                                           *)
ExitIsTrue == exit = "ok" => stop /\ cut = {}

(* Every way out of Run shuts the queue down, and only once the listener is  *)
(* gone.  Requests that may still add to the queue while it goes down, those *)
(* given up after ten seconds and, after an error of the listener, those of  *)
(* the open connections, are there only if Run returns an error.             *)
QueueStopsLast ==
  /\ queue = "stopped" \/ phase = "shutdown" =>
       /\ server \notin {"starting", "up"}
       /\ error \/ (flight = {} /\ ~Taking)
  /\ phase = "down" => queue # "running"

(* A signal ends the process, whatever its requests do.                      *)
SignalEnds == stop /\ phase # "down" ~> phase = "down"

=============================================================================
