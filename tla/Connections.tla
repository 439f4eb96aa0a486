----------------------------- MODULE Connections -----------------------------
(* Connections to SFTP servers (client.go, Connect and Close; security.go)   *)
(* and the known_hosts file that says which host keys they trust.  Several   *)
(* task goroutines and HTTP requests connect at a time.  An unknown key is   *)
(* pinned by an append, which may fail in part or be cut short by the death  *)
(* of the process; the administrator may remove lines of the file.           *)
EXTENDS Naturals, Sequences

CONSTANTS Conns,      \* SFTPClients at a time
          Hosts, Keys,
          EditTails,  \* how a file ends that the administrator wrote
          None

(* The end of the file: "closed" by a newline; "open", when the newline      *)
(* after the key of the last line is missing; "comment", when it is missing  *)
(* after a comment; "torn" by text that is not a line.                       *)
Tails == {"closed", "open", "comment", "torn"}

ASSUME ConnAssumption ==
  None \notin Hosts \cup Keys /\ "closed" \in EditTails /\ EditTails \subseteq Tails \ {"torn"}

VARIABLES
  lines,     \* the readable lines of known_hosts, [host, key] each
  tail,      \* the end of the file
  policy,    \* this process: "none" (no file), "strict" or "tofu" (SSH_TOFU);
             \* "down" if there is no process
  pc,        \* where each client is in Connect
  host, key, \* whom it dials, and the key it was presented
  verify,    \* the request did not set SkipHostKeyVerification
  err,       \* the sentinel error of its last Connect, "other" for the rest
  wire,      \* clients with an open TCP connection
  trusted    \* history: the keys accepted for each host since the
             \* administrator last removed its line

file   == <<lines, tail>>
client == <<pc, host, key, verify, err, wire>>
vars   == <<file, policy, client, trusted>>

Line   == [host : Hosts, key : Keys]
Listed(h)    == \E i \in DOMAIN lines : lines[i].host = h
Pinned(h, k) == \E i \in DOMAIN lines : lines[i] = [host |-> h, key |-> k]
OnePerHost(f) == \A i, j \in DOMAIN f : f[i].host = f[j].host => i = j

(* The administrator may have filled the file, and may have left out the     *)
(* newline at its end.                                                       *)
Init ==
  /\ lines \in {f \in {<<>>} \cup {<<l>> : l \in Line} \cup {<<l, m>> : l, m \in Line} :
              OnePerHost(f)}
  /\ tail \in EditTails /\ (lines = <<>> => tail = "closed")
  /\ policy = "down"
  /\ pc = [c \in Conns |-> "idle"]
  /\ host = [c \in Conns |-> None] /\ key = [c \in Conns |-> None]
  /\ verify = [c \in Conns |-> TRUE] /\ err = [c \in Conns |-> "none"]
  /\ wire = {}
  /\ trusted = [h \in Hosts |-> {}]

-----------------------------------------------------------------------------
(* Connect                                                                   *)

At(c, from)  == pc[c] = from
Goto(c, to)  == pc' = [pc EXCEPT ![c] = to]
Same         == UNCHANGED <<host, key, verify>>

(* An error before there is a connection, and one that closes it.            *)
Fails(c, e)  == Goto(c, "failed") /\ err' = [err EXCEPT ![c] = e] /\ wire' = wire \ {c}

(* The private key is not in the keys directory, cannot be read or parsed,   *)
(* or there is neither a key nor a password.                                 *)
NoMethods(c) == Fails(c, "other")

(* The private key is loaded and the way to check host keys is chosen.       *)
Prepare(c, h, v) ==
  /\ At(c, "idle") /\ policy # "down"
  /\ host' = [host EXCEPT ![c] = h] /\ verify' = [verify EXCEPT ![c] = v]
  /\ key' = [key EXCEPT ![c] = None]
  /\ \/ NoMethods(c)
     \/ v /\ policy = "none" /\ Fails(c, "required")
     \/ /\ (v => policy # "none")
        /\ Goto(c, "dial") /\ err' = [err EXCEPT ![c] = "none"] /\ UNCHANGED wire
  /\ UNCHANGED <<file, policy, trusted>>

(* dialSSH: the name is resolved, the address is checked, and the server     *)
(* that answers presents a key, which is not looked at if the request skips  *)
(* the verification.                                                         *)
Dial(c, k) ==
  /\ At(c, "dial")
  /\ key' = [key EXCEPT ![c] = k] /\ wire' = wire \cup {c}
  /\ Goto(c, IF verify[c] THEN "check" ELSE "auth")
  /\ UNCHANGED <<file, policy, host, verify, err, trusted>>

DialFails(c) ==
  /\ At(c, "dial") /\ Fails(c, "other")
  /\ Same /\ UNCHANGED <<file, policy, trusted>>

-----------------------------------------------------------------------------
(* tofuHostKeyCallback: a client at "pin" holds knownHostsWriteMu, and the   *)
(* file is read and judged in the step that acquires it.                     *)

(* Mutant: the mutex does not cover the append.                              *)
MutMuFree == TRUE
MuFree == \A c \in Conns : pc[c] # "pin"

Accepts(c) ==
  /\ Goto(c, "auth") /\ UNCHANGED <<err, wire>>
  /\ trusted' = [trusted EXCEPT ![host[c]] = @ \cup {key[c]}]
Refuses(c, e) == Fails(c, e) /\ UNCHANGED trusted

(* Mutant: only the lines of keys that are presented count.                  *)
MutJudge(c) ==
  \/ Pinned(host[c], key[c]) /\ Accepts(c)
  \/ /\ ~Pinned(host[c], key[c]) /\ policy = "tofu"
     /\ Goto(c, "pin") /\ UNCHANGED <<err, wire, trusted>>
  \/ ~Pinned(host[c], key[c]) /\ policy # "tofu" /\ Refuses(c, "unknown")

Judge(c) ==
  \/ Pinned(host[c], key[c]) /\ Accepts(c)
  \/ Listed(host[c]) /\ ~Pinned(host[c], key[c]) /\ Refuses(c, "mismatch")
  \/ ~Listed(host[c]) /\ policy # "tofu" /\ Refuses(c, "unknown")
  \/ /\ ~Listed(host[c]) /\ policy = "tofu"
     /\ Goto(c, "pin") /\ UNCHANGED <<err, wire, trusted>>

(* One line that cannot be parsed makes the whole file fail to load.         *)
Check(c) ==
  /\ At(c, "check") /\ MuFree
  /\ \/ tail # "torn" /\ Judge(c)
     \/ Refuses(c, "other")
  /\ Same /\ UNCHANGED <<file, policy>>

(* Behind a line without its newline, the new line spoils that line and      *)
(* itself, or becomes part of its comment.                                   *)
MyLine(c) == [host |-> host[c], key |-> key[c]]
WriteLine(c) ==
  \/ tail = "closed" /\ lines' = Append(lines, MyLine(c)) /\ tail' = "closed"
  \/ tail = "comment" /\ lines' = lines /\ tail' = "closed"
  \/ tail = "open" /\ lines' = SubSeq(lines, 1, Len(lines) - 1) /\ tail' = "torn"
  \/ tail = "torn" /\ UNCHANGED file

Pin(c) ==
  /\ At(c, "pin") /\ WriteLine(c) /\ Accepts(c)
  /\ Same /\ UNCHANGED policy

(* Nothing of the line reaches the file, or all of it before an error, or a  *)
(* part: all but the newline, or less.                                       *)
Leftover(c) ==
  \/ UNCHANGED file
  \/ WriteLine(c)
  \/ tail = "closed" /\ lines' = Append(lines, MyLine(c)) /\ tail' = "open"
  \/ tail = "closed" /\ lines' = lines /\ tail' = "torn"

(* Mutant: an error of the write is only logged.                             *)
MutPinFails(c) ==
  /\ At(c, "pin") /\ Leftover(c) /\ Accepts(c)
  /\ Same /\ UNCHANGED policy

PinFails(c) ==
  /\ At(c, "pin") /\ Leftover(c) /\ Refuses(c, "other")
  /\ Same /\ UNCHANGED policy

-----------------------------------------------------------------------------
(* Authentication, the SFTP session, and the end of the connection.          *)

AuthOk(c) ==
  /\ At(c, "auth") /\ Goto(c, "session")
  /\ Same /\ UNCHANGED <<file, policy, err, wire, trusted>>

AuthFails(c) ==
  /\ At(c, "auth") /\ Fails(c, "other")
  /\ Same /\ UNCHANGED <<file, policy, trusted>>

SessionOk(c) ==
  /\ At(c, "session") /\ Goto(c, "connected")
  /\ Same /\ UNCHANGED <<file, policy, err, wire, trusted>>

(* Mutant: the SSH connection stays open when there is no SFTP session.      *)
MutSessionFails(c) ==
  /\ At(c, "session") /\ Goto(c, "failed") /\ err' = [err EXCEPT ![c] = "other"]
  /\ Same /\ UNCHANGED <<file, policy, wire, trusted>>

SessionFails(c) ==
  /\ At(c, "session") /\ Fails(c, "other")
  /\ Same /\ UNCHANGED <<file, policy, trusted>>

(* Callers close a client that is connected, and drop one that is not.       *)
Close(c) ==
  /\ At(c, "connected") /\ Goto(c, "idle") /\ wire' = wire \ {c}
  /\ Same /\ UNCHANGED <<file, policy, err, trusted>>

GiveUp(c) ==
  /\ At(c, "failed") /\ Goto(c, "idle")
  /\ Same /\ UNCHANGED <<file, policy, err, wire, trusted>>

-----------------------------------------------------------------------------
(* The process and the administrator.                                        *)

(* Run: SSH_KNOWN_HOSTS and SSH_TOFU are read once.                          *)
Start(p) ==
  /\ policy = "down" /\ policy' = p
  /\ UNCHANGED <<file, client, trusted>>

(* The process ends or dies, also in the middle of an append.                *)
Stop ==
  /\ policy # "down" /\ policy' = "down"
  /\ pc' = [c \in Conns |-> "idle"] /\ wire' = {}
  /\ host' = [c \in Conns |-> None] /\ key' = [c \in Conns |-> None]
  /\ verify' = [c \in Conns |-> TRUE] /\ err' = [c \in Conns |-> "none"]
  /\ \/ UNCHANGED file
     \/ \E c \in Conns : At(c, "pin") /\ Leftover(c)
  /\ UNCHANGED trusted

(* The administrator removes a line, or only what is torn; a host without a  *)
(* line starts afresh.                                                       *)
Without(i) == [j \in 1 .. Len(lines) - 1 |-> IF j < i THEN lines[j] ELSE lines[j + 1]]
Edit ==
  /\ lines' \in {lines} \cup {Without(i) : i \in DOMAIN lines}
  /\ tail' \in EditTails /\ (lines' = <<>> => tail' = "closed")
  /\ trusted' = [h \in Hosts |-> IF Listed(h)' THEN trusted[h] ELSE {}]
  /\ UNCHANGED <<policy, client>>

ConnectStep(c) ==
  \/ \E h \in Hosts, v \in BOOLEAN : Prepare(c, h, v)
  \/ \E k \in Keys : Dial(c, k)
  \/ DialFails(c) \/ Check(c) \/ Pin(c) \/ PinFails(c)
  \/ AuthOk(c) \/ AuthFails(c) \/ SessionOk(c) \/ SessionFails(c)
  \/ Close(c) \/ GiveUp(c)

Next ==
  \/ \E c \in Conns : ConnectStep(c)
  \/ \E p \in {"none", "strict", "tofu"} : Start(p)
  \/ Stop
  \/ Edit

Spec == Init /\ [][Next]_vars

-----------------------------------------------------------------------------
TypeOK ==
  /\ lines \in Seq(Line) /\ tail \in Tails
  /\ policy \in {"down", "none", "strict", "tofu"}
  /\ pc \in [Conns -> {"idle", "dial", "check", "pin", "auth", "session", "connected", "failed"}]
  /\ host \in [Conns -> Hosts \cup {None}] /\ key \in [Conns -> Keys \cup {None}]
  /\ verify \in [Conns -> BOOLEAN]
  /\ err \in [Conns -> {"none", "required", "unknown", "mismatch", "other"}]
  /\ wire \subseteq Conns
  /\ trusted \in [Hosts -> SUBSET Keys]

(* However first connections to a host overlap, and wherever the process     *)
(* dies, connections that verify never accept two keys of one host, until    *)
(* the administrator removes its line.                                       *)
OneKeyPerHost == \A h \in Hosts : \A k, l \in trusted[h] : k = l

(* No host is pinned twice ("concurrent uploads to a new host cannot append  *)
(* duplicate or interleaved lines").                                         *)
OneLinePerHost == OnePerHost(lines)

(* A server whose key was accepted is not refused for its key later, by this *)
(* process or another one, unless the file cannot be read.                   *)
AcceptedStaysAccepted ==
  [][\A c \in Conns :
       err[c] = "none" /\ err'[c] \in {"mismatch", "unknown"} => key[c] \notin trusted[host[c]]]_vars

(* Callers close only clients whose Connect succeeded, so one that fails     *)
(* leaves no connection behind.                                              *)
FailedLeavesNothing == \A c \in wire : pc[c] \notin {"idle", "failed"}

(* "keys of hosts that are not yet listed are pinned on first connect": what *)
(* was accepted is in the file, and is found by the next check.              *)
AcceptedIsPinned ==
  \A h \in Hosts : \A k \in trusted[h] : Pinned(h, k) /\ tail # "torn"

=============================================================================
