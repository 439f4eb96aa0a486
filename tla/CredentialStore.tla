-------------------------- MODULE CredentialStore ---------------------------
(* SFTP passwords of queued tasks at rest: the key (loadSecretKey), what a   *)
(* save writes (sealConfig) and what a load restores (openConfig), over      *)
(* restarts with other keys, with none and with the right one again.         *)
(*                                                                           *)
(* A stored credential is [plain, enc]: whether the password stands in the   *)
(* file as it is, and the key under which it stands there encrypted, if any. *)
(* A task queued without a password has neither.                             *)
EXTENDS Naturals

CONSTANTS Keys,        \* keys of UPLARR_SECRET_KEY and generated ones
          MaxTasks,    \* bound: task ids handed out
          None

VARIABLES
  pc,        \* down, creating (.secret_key is being written), keyed, up
  key,       \* qm.secretKey, or None
  keyfile,   \* .secret_key: None, "torn" (empty or cut), or the key in it
  pw,        \* each task's password in memory: "absent" is no such task
  retained,  \* qm.retained: stored credentials this process cannot seal
  nextID,
  disk,      \* the credential of each task in .queue_state.json, None: no such task
  file       \* history: how .queue_state.json stands to the process, see below

vars == <<pc, key, keyfile, pw, retained, nextID, disk, file>>
procVars == <<pw, retained, nextID>>
fileVars == <<disk, file>>

(* "current": read, or written by the last save; "behind": the last save has *)
(* left it as it was; "unread": the process could not read it and has not    *)
(* replaced it; "cut": a write failed or died after the truncation, no load  *)
(* can parse what is there, and disk, the tasks a load restores, is empty.   *)

Tasks == 1 .. MaxTasks
Nothing == [plain |-> FALSE, enc |-> None]
Plaintext == [plain |-> TRUE, enc |-> None]
Sealed(k) == [plain |-> FALSE, enc |-> k]
Credential == {Nothing, Plaintext} \cup {Sealed(k) : k \in Keys}

ASSUME CredentialAssumption ==
  /\ MaxTasks \in Nat \ {0}
  /\ None \notin Keys /\ None \notin Credential


Listed == {t \in Tasks : pw[t] # "absent"}
Stored == {t \in Tasks : disk[t] # None}

Empty ==
  /\ pw' = [t \in Tasks |-> "absent"]
  /\ retained' = [t \in Tasks |-> None] /\ nextID' = 0

(* The state file may come from a version that wrote passwords as they are.  *)
Init ==
  /\ pc = "down" /\ key = None /\ keyfile = None
  /\ pw = [t \in Tasks |-> "absent"] /\ retained = [t \in Tasks |-> None] /\ nextID = 0
  /\ disk \in [Tasks -> {None, Nothing, Plaintext}] /\ file = "current"

-----------------------------------------------------------------------------
(* loadSecretKey.                                                            *)

KeyFromEnv(k) ==
  /\ pc = "down" /\ pc' = "keyed" /\ key' = k
  /\ UNCHANGED <<keyfile, procVars, fileVars>>

KeyFromFile ==
  /\ pc = "down" /\ keyfile # None /\ pc' = "keyed"
  /\ key' = IF keyfile = "torn" THEN None ELSE keyfile
  /\ UNCHANGED <<keyfile, procVars, fileVars>>

(* The directory or the file cannot be read.                                 *)
KeyUnreadable ==
  /\ pc = "down" /\ pc' = "keyed" /\ key' = None
  /\ UNCHANGED <<keyfile, procVars, fileVars>>

(* A random key is written to a file that is created empty.                  *)
CreateKey ==
  /\ pc = "down" /\ keyfile = None
  /\ pc' = "creating" /\ keyfile' = "torn"
  /\ UNCHANGED <<key, procVars, fileVars>>

WriteKey(k) ==
  /\ pc = "creating" /\ pc' = "keyed"
  /\ keyfile' = k /\ key' = k
  /\ UNCHANGED <<procVars, fileVars>>

WriteKeyFails ==
  /\ pc = "creating" /\ pc' = "keyed" /\ key' = None
  /\ UNCHANGED <<keyfile, procVars, fileVars>>

-----------------------------------------------------------------------------
(* sealConfig: the credential that a save writes for a listed task, given    *)
(* the passwords p and the retained credentials r.                           *)

(* Mutant: what was retained is only kept while there is no key at all.      *)
MutSeal(p, r, t) ==
  CASE r[t] # None /\ key = None -> r[t]
    [] p[t] = "none" -> Nothing
    [] key = None -> Nothing
    [] OTHER -> Sealed(key)

Seal(p, r, t) ==
  IF r[t] # None /\ (p[t] = "none" \/ key = None) THEN r[t]
  ELSE IF p[t] = "none" \/ key = None THEN Nothing
  ELSE Sealed(key)

(* What saveStateLocked writes of the tasks whose passwords are p.           *)
Snapshot(p, r) == [t \in Tasks |-> IF p[t] = "absent" THEN None ELSE Seal(p, r, t)]

(* saveStateLocked only logs that the directory or the file cannot be opened *)
(* or written, the latter possibly after the file has been truncated.  A     *)
(* process that dies inside the write leaves the last case and stops.        *)
Write(snapshot) ==
  \/ disk' = snapshot /\ file' = "current"
  \/ disk' = disk /\ file' = IF file = "current" THEN "behind" ELSE file
  \/ disk' = [t \in Tasks |-> None] /\ file' = "cut"

(* openConfig: what a load puts into memory and what it retains.             *)
Opened(d) ==
  IF d.plain \/ (key # None /\ d.enc = key) THEN "set" ELSE "none"

(* Mutant: only credentials of a process without a key are retained.         *)
MutRetainedOf(d) == IF d # Nothing /\ key = None THEN d ELSE None

RetainedOf(d) ==
  IF (d.enc = None /\ d.plain /\ key = None) \/ (d.enc # None /\ d.enc # key) THEN d ELSE None

Legacy == \E t \in Stored : disk[t].enc = None /\ disk[t].plain

(* Mutant: a state file of an older version is not rewritten at once.        *)
MutRewrite(p, r) == UNCHANGED fileVars
(* The save that loadState defers, which may fail as any other.              *)
Rewrite(p, r) ==
  IF Legacy /\ key # None THEN Write(Snapshot(p, r)) ELSE UNCHANGED fileVars

(* loadState of a file that can be read and parsed.                          *)
Load ==
  /\ pc = "keyed" /\ file # "cut" /\ pc' = "up"
  /\ pw' = [t \in Tasks |-> IF t \in Stored THEN Opened(disk[t]) ELSE "absent"]
  /\ retained' = [t \in Tasks |-> IF t \in Stored THEN RetainedOf(disk[t]) ELSE None]
  /\ nextID' \in {n \in 0 .. MaxTasks : n \in Stored \cup {0} /\ \A t \in Stored : t <= n}
  /\ Rewrite(pw', retained')
  /\ UNCHANGED <<key, keyfile>>

(* loadState returns early: the queue is empty and ids begin anew.           *)
LoadFails ==
  /\ pc = "keyed" /\ pc' = "up"
  /\ file' = IF file = "cut" THEN "cut" ELSE "unread"
  /\ UNCHANGED <<key, keyfile, procVars, disk>>

-----------------------------------------------------------------------------
(* The running queue.  AddTasks saves later; any operation may save.         *)

Add(p) ==
  /\ pc = "up" /\ nextID < MaxTasks /\ nextID' = nextID + 1
  /\ pw' = [pw EXCEPT ![nextID + 1] = p]
  /\ UNCHANGED <<pc, key, keyfile, retained, fileVars>>

Save ==
  /\ pc = "up" /\ Write(Snapshot(pw, retained))
  /\ UNCHANGED <<pc, key, keyfile, procVars>>

(* ControlTask "remove" and "clear_finished" leave the retained entry.       *)
Remove(t) ==
  /\ pc = "up" /\ t \in Listed
  /\ pw' = [pw EXCEPT ![t] = "absent"]
  /\ Write(Snapshot(pw', retained))
  /\ UNCHANGED <<pc, key, keyfile, retained, nextID>>

(* The process ends, in an orderly way or not, and its knowledge with it.    *)
Stop ==
  /\ pc # "down" /\ pc' = "down" /\ key' = None /\ Empty
  /\ file' = IF file = "cut" THEN "cut" ELSE "current"
  /\ UNCHANGED <<keyfile, disk>>

-----------------------------------------------------------------------------
LoadKey == \/ KeyFromFile \/ KeyUnreadable \/ CreateKey \/ WriteKeyFails
           \/ \E k \in Keys : KeyFromEnv(k) \/ WriteKey(k)
Work == Save \/ (\E p \in {"set", "none"} : Add(p)) \/ \E t \in Tasks : Remove(t)
Next == LoadKey \/ Load \/ LoadFails \/ Work \/ Stop

Spec == Init /\ [][Next]_vars

-----------------------------------------------------------------------------
TypeOK ==
  /\ pc \in {"down", "creating", "keyed", "up"}
  /\ key \in Keys \cup {None} /\ keyfile \in Keys \cup {None, "torn"}
  /\ pw \in [Tasks -> {"absent", "none", "set"}]
  /\ retained \in [Tasks -> Credential \cup {None}] /\ nextID \in 0 .. MaxTasks
  /\ disk \in [Tasks -> Credential \cup {None}]
  /\ file \in {"current", "behind", "unread", "cut"}

(* The process has read the file that is there, or has written it whole.     *)
Knows == file \in {"current", "behind"}

(* While a process runs on a file that it has read or written, the stored    *)
(* credential of every task in its queue is either retained as it stands in  *)
(* the file or readable with the key that the next save uses, whatever keys  *)
(* earlier processes had and whatever saves have failed.                     *)
Held(t) ==
  \/ retained[t] = disk[t] /\ (pw[t] = "none" \/ key = None)
  \/ pw[t] = "set" /\ key # None /\ disk[t] \in {Plaintext, Sealed(key)}
CredentialHeld ==
  pc = "up" /\ Knows => \A t \in Listed \cap Stored : disk[t] = Nothing \/ Held(t)

(* While a process with a key runs, no password stands in the file as it is, *)
(* also when an older version wrote it, unless the file could not be read or *)
(* parsed or the last save, which may be the rewrite at the load, failed.    *)
NoPlainWithKey ==
  pc = "up" /\ key # None /\ file = "current" => \A t \in Stored : ~disk[t].plain

(* No step, with whatever key or without one, drops the credential of a task *)
(* that stays in the file or replaces it by anything but the same password   *)
(* under the current key.  The step of a process that could not read or has  *)
(* cut the file is excepted: its tasks are others under the same ids.        *)
CredentialKept ==
  [][\A t \in Stored : Knows /\ disk[t] # Nothing /\ disk'[t] # None =>
       disk'[t] = disk[t] \/ (key # None /\ disk'[t] = Sealed(key))]_vars

(* A password is never written as it is unless it already stood there so, as *)
(* long as no failed write has cut the file.                                 *)
NoPlainAdded ==
  [][\A t \in Tasks : Knows /\ disk'[t] = Plaintext => disk[t] = Plaintext]_vars
=============================================================================
