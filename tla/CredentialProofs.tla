-------------------------- MODULE CredentialProofs --------------------------
(* Proofs about CredentialStore for any set of keys, any number of tasks and *)
(* any credentials left in the state file by earlier processes.              *)
EXTENDS CredentialStore, TLAPS

USE DEF Tasks

LEMMA Kinds ==
  /\ Nothing \in Credential /\ ~Nothing.plain /\ Nothing.enc = None
  /\ Plaintext \in Credential /\ Plaintext.plain /\ Plaintext.enc = None
  /\ \A k \in Keys : Sealed(k) \in Credential /\ ~Sealed(k).plain /\ Sealed(k).enc = k
  /\ \A c \in Credential : c.enc \in Keys \cup {None} /\ c # None
<1>1. ~Nothing.plain /\ Nothing.enc = None /\ Plaintext.plain /\ Plaintext.enc = None
  BY DEF Nothing, Plaintext
<1>2. \A k \in Keys : ~Sealed(k).plain /\ Sealed(k).enc = k
  BY DEF Sealed
<1>3. /\ Nothing \in Credential /\ Plaintext \in Credential
      /\ \A k \in Keys : Sealed(k) \in Credential
  BY DEF Credential
<1>4. \A c \in Credential : c = Nothing \/ c = Plaintext \/ \E k \in Keys : c = Sealed(k)
  BY DEF Credential
<1>5. \A c \in Credential : c.enc \in Keys \cup {None}
  BY <1>1, <1>2, <1>4
<1>6. \A c \in Credential : c # None
  BY CredentialAssumption
<1> QED
  BY <1>1, <1>2, <1>3, <1>5, <1>6

LEMMA KindOf ==
  ASSUME NEW c \in Credential
  PROVE  /\ c = Nothing \/ c = Plaintext \/ \E k \in Keys : c = Sealed(k) /\ c.enc = k
         /\ c.plain <=> c = Plaintext
         /\ \A k \in Keys : c.enc = k => c = Sealed(k)
BY CredentialAssumption DEF Credential, Nothing, Plaintext, Sealed

LEMMA SealTyped ==
  ASSUME TypeOK, NEW p \in [Tasks -> {"absent", "none", "set"}],
         NEW r \in [Tasks -> Credential \cup {None}]
  PROVE  Snapshot(p, r) \in [Tasks -> Credential \cup {None}]
BY Kinds, CredentialAssumption DEF Snapshot, Seal, TypeOK

(* A write stores the whole queue, leaves the file as it was or cuts it.     *)
LEMMA WriteTyped ==
  ASSUME TypeOK, NEW s \in [Tasks -> Credential \cup {None}], Write(s)
  PROVE  /\ disk' \in [Tasks -> Credential \cup {None}]
         /\ file' \in {"current", "behind", "unread", "cut"}
BY DEF Write, TypeOK

LEMMA LoadTyped ==
  ASSUME TypeOK, Load
  PROVE  /\ pw' \in [Tasks -> {"absent", "none", "set"}]
         /\ retained' \in [Tasks -> Credential \cup {None}]
         /\ nextID' \in 0 .. MaxTasks
<1>1. \A t \in Stored : disk[t] \in Credential
  BY DEF TypeOK, Stored
<1> QED
  BY <1>1 DEF Load, Opened, RetainedOf

(* Every reachable state is well typed, also after a start with a torn key   *)
(* file or with a state file of an older version.                            *)
THEOREM StoreTyped == Spec => []TypeOK
<1>1. Init => TypeOK
  BY Kinds, CredentialAssumption DEF Init, TypeOK
<1>2. TypeOK /\ [Next]_vars => TypeOK'
  <2> SUFFICES ASSUME TypeOK, [Next]_vars PROVE TypeOK'
    OBVIOUS
  <2>1. CASE UNCHANGED vars
    BY <2>1 DEF vars, TypeOK
  <2>2. CASE LoadKey
    BY <2>2 DEF LoadKey, KeyFromEnv, KeyFromFile, KeyUnreadable, CreateKey, WriteKey,
                WriteKeyFails, procVars, fileVars, TypeOK
  <2>3. CASE Load
    <3>1. /\ disk' \in [Tasks -> Credential \cup {None}]
          /\ file' \in {"current", "behind", "unread", "cut"}
      BY <2>3, LoadTyped, SealTyped, WriteTyped DEF Load, Rewrite, fileVars, TypeOK
    <3> QED
      BY <2>3, <3>1, LoadTyped DEF Load, TypeOK
  <2>6. CASE LoadFails
    BY <2>6 DEF LoadFails, procVars, TypeOK
  <2>4. CASE Work
    <3>1. CASE Save
      BY <3>1, SealTyped, WriteTyped DEF Save, procVars, TypeOK
    <3>2. ASSUME NEW p \in {"set", "none"}, Add(p) PROVE TypeOK'
      BY <3>2, CredentialAssumption DEF Add, fileVars, TypeOK
    <3>3. ASSUME NEW t \in Tasks, Remove(t) PROVE TypeOK'
      <4>1. pw' \in [Tasks -> {"absent", "none", "set"}] /\ retained' = retained
        BY <3>3 DEF Remove, TypeOK
      <4>2. Snapshot(pw', retained) \in [Tasks -> Credential \cup {None}]
        BY <4>1, SealTyped DEF TypeOK
      <4> QED
        BY <3>3, <4>1, <4>2, WriteTyped DEF Remove, TypeOK
    <3> QED
      BY <2>4, <3>1, <3>2, <3>3 DEF Work
  <2>5. CASE Stop
    BY <2>5, CredentialAssumption DEF Stop, Empty, TypeOK
  <2> QED
    BY <2>1, <2>2, <2>3, <2>4, <2>5, <2>6 DEF Next
<1> QED
  BY <1>1, <1>2, PTL DEF Spec

-----------------------------------------------------------------------------
(* On a file that the process knows, ids above nextID are new, so a stored   *)
(* credential never meets a later task with the same id; a process with a    *)
(* key retains no plain password; and a process starts on a whole file or on *)
(* one that a write has cut.                                                 *)
FreshIds ==
  pc = "up" => \A t \in Tasks :
    t > nextID => pw[t] = "absent" /\ (Knows => disk[t] = None)
NoPlainRetained ==
  pc = "up" /\ key # None => \A t \in Tasks : retained[t] # Plaintext
FileAtStart ==
  pc # "up" => /\ file \in {"current", "cut"} /\ nextID = 0
               /\ \A t \in Tasks : pw[t] = "absent" /\ retained[t] = None
StoreInv == CredentialHeld /\ NoPlainWithKey /\ FreshIds /\ NoPlainRetained /\ FileAtStart

(* What a save of the whole queue leaves for each task.                      *)
LEMMA SaveKeeps ==
  ASSUME TypeOK, StoreInv, pc = "up", Knows, NEW p, NEW t \in Tasks,
         p[t] = pw[t], pw[t] # "absent", disk[t] # None, disk[t] # Nothing
  PROVE  Seal(p, retained, t) = disk[t] \/ (key # None /\ Seal(p, retained, t) = Sealed(key))
<1>1. Held(t)
  BY DEF StoreInv, CredentialHeld, Listed, Stored
<1> QED
  BY <1>1, Kinds, CredentialAssumption DEF Held, Seal, TypeOK

(* After a save what was written can be read back by this process or is      *)
(* retained by it.                                                           *)
LEMMA SaveHolds ==
  ASSUME TypeOK, StoreInv, pc = "up", NEW t \in Tasks, pw[t] # "absent"
  PROVE  LET c == Seal(pw, retained, t)
         IN  /\ c # None
             /\ key # None => ~c.plain
             /\ \/ c = Nothing
                \/ retained[t] = c /\ (pw[t] = "none" \/ key = None)
                \/ pw[t] = "set" /\ key # None /\ c = Sealed(key)
<1>2. retained[t] # None => retained[t] \in Credential
  BY DEF TypeOK
<1> QED
  BY <1>2, Kinds, KindOf, CredentialAssumption DEF StoreInv, NoPlainRetained, Seal, TypeOK

(* Whatever a write does, a file that the process knows afterwards is either *)
(* the snapshot or a file it knew before.                                    *)
LEMMA WriteCases ==
  ASSUME NEW s, Write(s)
  PROVE  /\ Knows' => disk' = s \/ (Knows /\ disk' = disk)
         /\ file' = "current" => disk' = s
         /\ disk' \in {s, disk, [t \in Tasks |-> None]}
         /\ disk' # disk => disk' = s \/ disk' = [t \in Tasks |-> None]
BY DEF Write, Knows

(* What a load finds for a stored task it opens, or retains as it stands.    *)
LEMMA OpenedHolds ==
  ASSUME NEW c \in Credential, key \in Keys \cup {None}
  PROVE  \/ c = Nothing
         \/ RetainedOf(c) = c /\ (Opened(c) = "none" \/ key = None)
         \/ Opened(c) = "set" /\ key # None /\ c \in {Plaintext, Sealed(key)}
BY Kinds, KindOf, CredentialAssumption DEF Opened, RetainedOf

(* The deferred rewrite leaves for a stored task what it held, or the same   *)
(* password under the current key.                                           *)
LEMMA RewriteHolds ==
  ASSUME NEW c \in Credential, key \in Keys, NEW p, NEW r, NEW t \in Tasks,
         p[t] = Opened(c), r[t] = RetainedOf(c)
  PROVE  /\ Seal(p, r, t) # None /\ ~Seal(p, r, t).plain
         /\ \/ c = Nothing /\ Seal(p, r, t) = Nothing
            \/ r[t] = c /\ Seal(p, r, t) = c /\ p[t] = "none"
            \/ p[t] = "set" /\ Seal(p, r, t) = Sealed(key)
BY Kinds, KindOf, CredentialAssumption DEF Opened, RetainedOf, Seal

LEMMA LoadStep == TypeOK /\ StoreInv /\ Load => StoreInv'
<1> SUFFICES ASSUME TypeOK, StoreInv, Load PROVE StoreInv'
  OBVIOUS
<1>1. /\ key' = key /\ pc' = "up" /\ Knows
      /\ \A t \in Tasks :
           /\ disk[t] = None => pw'[t] = "absent" /\ retained'[t] = None
           /\ disk[t] # None => /\ pw'[t] = Opened(disk[t])
                                /\ retained'[t] = RetainedOf(disk[t])
  BY DEF Load, Stored, StoreInv, FileAtStart, Knows
<1>2. \A t \in Tasks : disk[t] # None => pw'[t] \in {"none", "set"} /\ disk[t] \in Credential
  BY <1>1 DEF Opened, TypeOK
<1>3. CASE UNCHANGED fileVars /\ ~(Legacy /\ key # None)
  <2>1. disk' = disk /\ file' = file
    BY <1>3 DEF fileVars
  <2>2. FreshIds'
    BY <1>1, <2>1 DEF Load, FreshIds, Stored
  <2>3. CredentialHeld'
    BY <1>1, <1>2, <2>1, OpenedHolds DEF CredentialHeld, Held, Listed, Stored, TypeOK
  <2>4. NoPlainWithKey'
    <3> SUFFICES ASSUME key # None, NEW t \in Tasks, disk[t] # None PROVE ~disk[t].plain
      BY <1>1, <2>1 DEF NoPlainWithKey, Stored
    <3> QED
      BY <1>2, <1>3, Kinds, KindOf DEF Legacy, Stored
  <2>5. NoPlainRetained'
    BY <1>1, Kinds, KindOf, CredentialAssumption DEF NoPlainRetained, RetainedOf, TypeOK
  <2> QED
    BY <1>1, <2>2, <2>3, <2>4, <2>5 DEF StoreInv, FileAtStart
<1>4. CASE key # None /\ Write(Snapshot(pw', retained'))
  <2>0. key \in Keys
    BY <1>4 DEF TypeOK
  <2>1. \A t \in Tasks :
          Snapshot(pw', retained')[t] = IF pw'[t] = "absent" THEN None ELSE Seal(pw', retained', t)
    BY DEF Snapshot
  <2>2. Knows' => disk' = Snapshot(pw', retained') \/ disk' = disk
    BY <1>4, WriteCases
  <2>3. FreshIds'
    BY <1>1, <2>1, <2>2 DEF Load, FreshIds, Stored
  <2>4. ASSUME Knows', NEW t \in Tasks, pw'[t] # "absent", disk'[t] # None
        PROVE  disk'[t] = Nothing \/ Held(t)'
    <3>1. disk[t] # None /\ disk[t] \in Credential
      BY <1>1, <1>2, <2>4
    <3>2. CASE disk' = disk
      BY <1>1, <3>1, <3>2, OpenedHolds DEF Held, TypeOK
    <3>3. CASE disk'[t] = Seal(pw', retained', t)
      <4>1. \/ disk'[t] = Nothing
            \/ retained'[t] = disk'[t] /\ pw'[t] = "none"
            \/ pw'[t] = "set" /\ disk'[t] = Sealed(key)
        BY <1>1, <2>0, <3>1, <3>3, RewriteHolds
      <4> QED
        BY <1>1, <2>0, <4>1, CredentialAssumption DEF Held
    <3> QED
      BY <2>1, <2>2, <2>4, <3>2, <3>3
  <2>5. CredentialHeld'
    BY <2>4 DEF CredentialHeld, Listed, Stored
  <2>6. NoPlainWithKey'
    <3> SUFFICES ASSUME disk' = Snapshot(pw', retained'), NEW t \in Tasks, disk'[t] # None
                 PROVE  ~disk'[t].plain
      BY <1>4, WriteCases DEF NoPlainWithKey, Stored
    <3>1. disk'[t] = Seal(pw', retained', t) /\ disk[t] # None
      BY <1>1, <2>1
    <3> QED
      BY <1>1, <1>2, <2>0, <3>1, RewriteHolds
  <2>7. NoPlainRetained'
    BY <1>1, Kinds, KindOf, CredentialAssumption DEF NoPlainRetained, RetainedOf, TypeOK
  <2> QED
    BY <1>1, <2>3, <2>5, <2>6, <2>7 DEF StoreInv, FileAtStart
<1> QED
  BY <1>3, <1>4 DEF Load, Rewrite

LEMMA SaveStep ==
  ASSUME TypeOK, StoreInv, pc = "up", Write(Snapshot(pw', retained)),
         UNCHANGED <<pc, key, retained, nextID>>,
         \A t \in Tasks : pw'[t] \in {pw[t], "absent"}
  PROVE  StoreInv'
<1>1. \A t \in Tasks : \/ Snapshot(pw', retained)[t] = None /\ pw'[t] = "absent"
                       \/ /\ pw'[t] = pw[t] /\ pw[t] # "absent"
                          /\ Snapshot(pw', retained)[t] = Seal(pw, retained, t)
  BY DEF Snapshot, Seal
<1>2. Knows' => disk' = Snapshot(pw', retained) \/ (Knows /\ disk' = disk)
  BY WriteCases
<1>3. FreshIds'
  <2> SUFFICES ASSUME NEW t \in Tasks, t > nextID
               PROVE  pw'[t] = "absent" /\ (Knows' => disk'[t] = None)
    BY DEF FreshIds
  <2>1. pw[t] = "absent" /\ (Knows => disk[t] = None)
    BY DEF StoreInv, FreshIds
  <2>2. pw'[t] = "absent" /\ Snapshot(pw', retained)[t] = None
    BY <1>1, <2>1
  <2> QED
    BY <1>2, <2>1, <2>2
<1>4. CredentialHeld'
  BY <1>1, <1>2, SaveHolds DEF StoreInv, CredentialHeld, Held, Listed, Stored
<1>5. NoPlainWithKey'
  BY <1>1, SaveHolds, WriteCases DEF NoPlainWithKey, Stored
<1> QED
  BY <1>3, <1>4, <1>5 DEF StoreInv, NoPlainRetained, FileAtStart

LEMMA StoreStep == TypeOK /\ StoreInv /\ [Next]_vars => StoreInv'
<1> SUFFICES ASSUME TypeOK, StoreInv, [Next]_vars PROVE StoreInv'
  OBVIOUS
<1>1. CASE UNCHANGED vars
  BY <1>1 DEF vars, StoreInv, CredentialHeld, Held, NoPlainWithKey, FreshIds,
              NoPlainRetained, FileAtStart, Knows, Listed, Stored
<1>2. CASE LoadKey \/ Stop
  <2>1. /\ pc' # "up" /\ file' \in {"current", "cut"} /\ nextID' = 0
        /\ \A t \in Tasks : pw'[t] = "absent" /\ retained'[t] = None
    <3>1. CASE LoadKey
      BY <3>1 DEF LoadKey, KeyFromEnv, KeyFromFile, KeyUnreadable, CreateKey, WriteKey,
                  WriteKeyFails, procVars, fileVars, StoreInv, FileAtStart
    <3>2. CASE Stop
      BY <3>2 DEF Stop, Empty
    <3> QED
      BY <1>2, <3>1, <3>2
  <2> QED
    BY <2>1 DEF StoreInv, CredentialHeld, NoPlainWithKey, FreshIds, NoPlainRetained, FileAtStart
<1>3. CASE Load
  BY <1>3, LoadStep
<1>4. CASE LoadFails
  <2>1. /\ pc' = "up" /\ ~Knows' /\ file' # "current"
        /\ \A t \in Tasks : pw'[t] = "absent" /\ retained'[t] = None
    BY <1>4 DEF LoadFails, procVars, Knows, StoreInv, FileAtStart
  <2>2. None # Plaintext
    BY Kinds
  <2> QED
    BY <2>1, <2>2 DEF StoreInv, CredentialHeld, NoPlainWithKey, FreshIds, NoPlainRetained, FileAtStart
<1>5. CASE Work
  <2>1. CASE Save
    BY <2>1, SaveStep DEF Save, procVars
  <2>2. ASSUME NEW p \in {"set", "none"}, Add(p) PROVE StoreInv'
    <3>1. /\ nextID' = nextID + 1 /\ nextID \in 0 .. MaxTasks /\ disk' = disk /\ file' = file
          /\ \A t \in Tasks : t # nextID + 1 => pw'[t] = pw[t]
          /\ pc = "up" /\ UNCHANGED <<pc, key, retained>>
      BY <2>2 DEF Add, fileVars, TypeOK
    <3>2. nextID + 1 \in Tasks /\ Knows => disk[nextID + 1] = None
      BY <3>1 DEF StoreInv, FreshIds
    <3>3. FreshIds'
      BY <3>1, CredentialAssumption DEF StoreInv, FreshIds, Knows
    <3>4. CredentialHeld'
      BY <3>1, <3>2 DEF StoreInv, CredentialHeld, Held, Knows, Listed, Stored
    <3> QED
      BY <3>1, <3>3, <3>4 DEF StoreInv, NoPlainWithKey, NoPlainRetained, FileAtStart, Stored
  <2>3. ASSUME NEW u \in Tasks, Remove(u) PROVE StoreInv'
    <3>1. \A t \in Tasks : pw'[t] \in {pw[t], "absent"}
      BY <2>3 DEF Remove, TypeOK
    <3> QED
      BY <2>3, <3>1, SaveStep DEF Remove
  <2> QED
    BY <1>5, <2>1, <2>2, <2>3 DEF Work
<1> QED
  BY <1>1, <1>2, <1>3, <1>4, <1>5 DEF Next

LEMMA StoreInitially == Init => StoreInv
BY DEF Init, StoreInv, CredentialHeld, NoPlainWithKey, FreshIds, NoPlainRetained, FileAtStart

(* Whatever keys earlier processes had and whatever saves have failed, the   *)
(* stored credential of a listed task is retained or can be sealed again, as *)
(* long as the process has read the file that is there or has written it.    *)
THEOREM CredentialsHeld == Spec => []CredentialHeld
BY StoreTyped, StoreInitially, StoreStep, PTL DEF Spec, StoreInv

(* With a key no stored password is plain in a state file that the process   *)
(* has read, and rewritten if it had to, or that its last save has written.  *)
(* After a save that failed, or a file that could not be read, nothing is    *)
(* said: there the code leaves the plain password of an older version.       *)
THEOREM NoPlaintext == Spec => []NoPlainWithKey
BY StoreTyped, StoreInitially, StoreStep, PTL DEF Spec, StoreInv

LEMMA KeptStep ==
  ASSUME TypeOK, StoreInv, [Next]_vars, Knows,
         NEW t \in Stored, disk[t] # Nothing, disk'[t] # None
  PROVE  disk'[t] = disk[t] \/ (key # None /\ disk'[t] = Sealed(key))
<1>0. t \in Tasks /\ disk[t] \in Credential
  BY DEF Stored, TypeOK
<1>1. CASE UNCHANGED disk
  BY <1>1
<1>2. CASE Load
  <2>1. CASE key # None /\ disk' = Snapshot(pw', retained')
    <3>1. pw'[t] = Opened(disk[t]) /\ retained'[t] = RetainedOf(disk[t])
      BY <1>0, <1>2 DEF Load
    <3>2. disk'[t] = Seal(pw', retained', t)
      BY <1>0, <2>1, <3>1 DEF Snapshot
    <3> QED
      BY <1>0, <2>1, <3>1, <3>2, RewriteHolds DEF TypeOK
  <2>2. \/ disk' = disk \/ disk'[t] = None
        \/ key # None /\ disk' = Snapshot(pw', retained')
    BY <1>0, <1>2, WriteCases DEF Load, Rewrite, fileVars
  <2> QED
    BY <1>1, <2>1, <2>2
<1>3. ASSUME pc = "up", Write(Snapshot(pw', retained)), pw'[t] \in {pw[t], "absent"}
      PROVE  disk'[t] = disk[t] \/ (key # None /\ disk'[t] = Sealed(key))
  <2>1. CASE disk' = Snapshot(pw', retained)
    <3>1. pw'[t] = pw[t] /\ pw[t] # "absent" /\ disk'[t] = Seal(pw', retained, t)
      BY <1>0, <1>3, <2>1 DEF Snapshot
    <3> QED
      BY <1>0, <1>3, <3>1, SaveKeeps DEF Stored
  <2>2. disk' = Snapshot(pw', retained) \/ disk' = disk \/ disk'[t] = None
    BY <1>0, <1>3, WriteCases
  <2> QED
    BY <1>1, <2>1, <2>2
<1>4. CASE Save
  BY <1>3, <1>4 DEF Save, procVars
<1>5. ASSUME NEW u \in Tasks, Remove(u)
      PROVE  disk'[t] = disk[t] \/ (key # None /\ disk'[t] = Sealed(key))
  <2>1. pw'[t] \in {pw[t], "absent"}
    BY <1>0, <1>5 DEF Remove, TypeOK
  <2> QED
    BY <1>3, <1>5, <2>1 DEF Remove
<1> QED
  BY <1>1, <1>2, <1>4, <1>5 DEF Next, LoadKey, KeyFromEnv, KeyFromFile, KeyUnreadable,
     CreateKey, WriteKey, WriteKeyFails, LoadFails, Work, Add, Stop, vars, fileVars

(* No step of a process that knows the file drops a stored credential or     *)
(* replaces it by anything but the same password under the current key, as   *)
(* long as its task is in the file, also when saves fail.                    *)
THEOREM CredentialsKept == Spec => CredentialKept
<1>1. TypeOK /\ StoreInv /\ [Next]_vars =>
        [\A t \in Stored : Knows /\ disk[t] # Nothing /\ disk'[t] # None =>
           disk'[t] = disk[t] \/ (key # None /\ disk'[t] = Sealed(key))]_vars
  BY KeptStep
<1> QED
  BY <1>1, StoreTyped, StoreInitially, StoreStep, PTL DEF Spec, CredentialKept

(* What is retained in plain text stands so in a file the process knows, and *)
(* nothing is retained for an id that is still to be handed out.             *)
PlainInv ==
  pc = "up" => \A t \in Tasks :
    /\ Knows /\ pw[t] # "absent" /\ retained[t] = Plaintext => disk[t] = Plaintext
    /\ t > nextID => retained[t] = None
    /\ retained[t] = Plaintext => file # "unread"

LEMMA SealPlain ==
  ASSUME TypeOK, NEW p, NEW r \in [Tasks -> Credential \cup {None}], NEW t \in Tasks,
         Snapshot(p, r)[t] = Plaintext
  PROVE  p[t] # "absent" /\ r[t] = Plaintext
BY Kinds, CredentialAssumption DEF Snapshot, Seal, TypeOK

LEMMA PlainSeal ==
  ASSUME NEW p, NEW r, NEW t \in Tasks, p[t] # "absent", r[t] = Plaintext, key = None
  PROVE  Snapshot(p, r)[t] = Plaintext
BY Kinds DEF Snapshot, Seal

LEMMA PlainSave ==
  ASSUME TypeOK, StoreInv, PlainInv, pc = "up", Write(Snapshot(pw', retained)),
         UNCHANGED <<pc, key, retained, nextID>>,
         \A t \in Tasks : pw'[t] \in {pw[t], "absent"}
  PROVE  PlainInv'
<1>1. Knows' => disk' = Snapshot(pw', retained) \/ (Knows /\ disk' = disk)
  BY WriteCases
<1>2. file' = "unread" => file = "unread"
  BY DEF Write
<1>3. \A t \in Tasks : retained[t] = Plaintext => key = None
  BY DEF StoreInv, NoPlainRetained
<1> QED
  BY <1>1, <1>2, <1>3, PlainSeal DEF PlainInv

LEMMA PlainStep == TypeOK /\ StoreInv /\ PlainInv /\ [Next]_vars => PlainInv'
<1> SUFFICES ASSUME TypeOK, StoreInv, PlainInv, [Next]_vars PROVE PlainInv'
  OBVIOUS
<1>1. CASE UNCHANGED vars
  BY <1>1 DEF vars, PlainInv, Knows
<1>2. CASE LoadKey \/ Stop
  BY <1>2 DEF LoadKey, KeyFromEnv, KeyFromFile, KeyUnreadable, CreateKey, WriteKey,
              WriteKeyFails, Stop, PlainInv
<1>3. CASE Load
  <2> SUFFICES ASSUME NEW t \in Tasks
               PROVE  /\ pw'[t] # "absent" /\ retained'[t] = Plaintext => disk'[t] = Plaintext
                      /\ t > nextID' => retained'[t] = None
                      /\ retained'[t] = Plaintext => file' # "unread"
    BY DEF PlainInv
  <2>1. t > nextID' => t \notin Stored
    BY <1>3 DEF Load, TypeOK, Stored
  <2>2. retained'[t] # None => t \in Stored /\ disk[t] \in Credential /\ retained'[t] = RetainedOf(disk[t])
    BY <1>3 DEF Load, TypeOK, Stored
  <2>3. retained'[t] = Plaintext => disk[t] = Plaintext /\ key = None
    BY <2>2, Kinds, KindOf, CredentialAssumption DEF RetainedOf
  <2>4. key = None => disk' = disk /\ file' = file
    BY <1>3 DEF Load, Rewrite, fileVars
  <2>5. file # "unread"
    BY <1>3 DEF Load, StoreInv, FileAtStart
  <2> QED
    BY <1>3, <2>1, <2>2, <2>3, <2>4, <2>5 DEF Load, TypeOK
<1>4. CASE LoadFails
  <2>1. \A t \in Tasks : retained'[t] = None
    BY <1>4 DEF LoadFails, procVars, StoreInv, FileAtStart
  <2>2. None # Plaintext
    BY Kinds
  <2> QED
    BY <2>1, <2>2 DEF PlainInv
<1>5. CASE Save
  BY <1>5, PlainSave DEF Save, procVars
<1>6. ASSUME NEW p \in {"set", "none"}, Add(p) PROVE PlainInv'
  <2>1. nextID \in Nat /\ nextID + 1 \in Tasks /\ nextID + 1 > nextID
    BY <1>6, CredentialAssumption DEF Add, TypeOK
  <2>2. retained[nextID + 1] = None /\ None # Plaintext
    BY <1>6, <2>1, Kinds DEF Add, PlainInv
  <2>3. \A t \in Tasks : t # nextID + 1 => pw'[t] = pw[t]
    BY <1>6 DEF Add, TypeOK
  <2>4. \A t \in Tasks : t > nextID' => t > nextID
    BY <1>6, <2>1 DEF Add
  <2> QED
    BY <1>6, <2>2, <2>3, <2>4 DEF Add, PlainInv, Knows, fileVars
<1>7. ASSUME NEW u \in Tasks, Remove(u) PROVE PlainInv'
  <2>1. \A t \in Tasks : pw'[t] \in {pw[t], "absent"}
    BY <1>7 DEF Remove, TypeOK
  <2> QED
    BY <1>7, <2>1, PlainSave DEF Remove
<1> QED
  BY <1>1, <1>2, <1>3, <1>4, <1>5, <1>6, <1>7 DEF Next, Work

(* No save of a process that knows the file writes a password in plain text  *)
(* that did not already stand so in the file.                                *)
THEOREM NoPlaintextAdded == Spec => NoPlainAdded
<1>1. Init => PlainInv
  BY DEF Init, PlainInv
<1>2. TypeOK /\ StoreInv /\ PlainInv /\ [Next]_vars =>
        [\A t \in Tasks : Knows /\ disk'[t] = Plaintext => disk[t] = Plaintext]_vars
  <2> SUFFICES ASSUME TypeOK, StoreInv, PlainInv, [Next]_vars, Knows, NEW t \in Tasks,
                      disk'[t] = Plaintext
               PROVE  disk[t] = Plaintext
    OBVIOUS
  <2>0. Plaintext # None
    BY Kinds
  <2>1. CASE disk' = disk
    BY <2>1
  <2>2. CASE Load /\ disk' = Snapshot(pw', retained')
    <3>1. retained' \in [Tasks -> Credential \cup {None}] /\ Snapshot(pw', retained')[t] = Plaintext
      BY <2>2, LoadTyped
    <3>2. retained'[t] = Plaintext
      BY <3>1, SealPlain
    <3>3. t \in Stored
      BY <2>2, <3>2, Kinds, CredentialAssumption DEF Load
    <3>4. disk[t] \in Credential /\ retained'[t] = RetainedOf(disk[t])
      BY <2>2, <3>3 DEF Load, TypeOK, Stored
    <3> QED
      BY <3>2, <3>4, Kinds, CredentialAssumption DEF RetainedOf
  <2>3. ASSUME pc = "up", disk' = Snapshot(pw', retained), pw'[t] \in {pw[t], "absent"}
        PROVE  disk[t] = Plaintext
    <3>1. pw'[t] # "absent" /\ retained[t] = Plaintext
      BY <2>3, SealPlain DEF TypeOK
    <3> QED
      BY <2>3, <3>1 DEF PlainInv
  <2>4. CASE Save
    BY <2>0, <2>1, <2>3, <2>4, WriteCases DEF Save, procVars
  <2>5. ASSUME NEW u \in Tasks, Remove(u) PROVE disk[t] = Plaintext
    <3>1. pw'[t] \in {pw[t], "absent"}
      BY <2>5 DEF Remove, TypeOK
    <3> QED
      BY <2>0, <2>1, <2>3, <2>5, <3>1, WriteCases DEF Remove
  <2>6. CASE Load
    BY <2>0, <2>1, <2>2, <2>6, WriteCases DEF Load, Rewrite, fileVars
  <2> QED
    BY <2>1, <2>4, <2>5, <2>6 DEF Next, LoadKey, KeyFromEnv, KeyFromFile, KeyUnreadable,
       CreateKey, WriteKey, WriteKeyFails, LoadFails, Work, Add, Stop, vars, fileVars
<1> QED
  BY <1>1, <1>2, PlainStep, StoreTyped, StoreInitially, StoreStep, PTL DEF Spec, NoPlainAdded
=============================================================================
