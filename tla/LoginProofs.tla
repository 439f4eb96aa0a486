----------------------------- MODULE LoginProofs -----------------------------
(* Proofs about LoginLimiter for any number of concurrent requests, any      *)
(* addresses and any limits.                                                 *)
EXTENDS LoginLimiter, FiniteSetTheorems, TLAPS

Entries(m) == {a \in Addresses : m[a] # None}
MapInv == IsFiniteSet(Listed) /\ MapBounded

LEMMA EvictionsAreListed ==
  ASSUME NEW gone \in Evictions
  PROVE  gone \subseteq Listed
BY DEF Evictions

(* What a request finds or makes: its address has an entry, its own if there *)
(* was one, and the others are as before or gone.                            *)
LEMMA EntryFound ==
  ASSUME TypeOK, NEW a \in Addresses, NEW m \in WithEntry(a)
  PROVE  /\ m \in [Addresses -> Attempt \cup {None}] /\ m[a] \in Attempt /\ m[a] # None
         /\ IF a \in Listed THEN m = attempts ELSE m[a] = NewAttempt
         /\ \A b \in Addresses \ {a} : m[b] = attempts[b] \/ m[b] = None
         /\ \A b \in Addresses \ {a} :
              b \in Listed /\ m[b] = None =>
                /\ a \notin Listed
                /\ ~(Cardinality(Listed) < MaxEntries)
                /\ Dead(b) \/ \A c \in Listed : ~Dead(c)
<1>1. NewAttempt \in Attempt
  BY LoginAssumption DEF NewAttempt, Attempt
<1>2. CASE a \in Listed
  <2>1. m = attempts
    BY <1>2 DEF WithEntry
  <2> QED
    BY <1>2, <2>1 DEF TypeOK, Listed
<1>3. CASE a \notin Listed
  <2>1. PICK gone \in Evictions : m = Inserted(a, gone)
    BY <1>3 DEF WithEntry
  <2>2. m \in [Addresses -> Attempt \cup {None}] /\ m[a] = NewAttempt
    BY <1>1, <2>1 DEF TypeOK, Inserted
  <2>3. \A b \in Addresses \ {a} : m[b] = IF b \in gone THEN None ELSE attempts[b]
    BY <2>1 DEF Inserted
  <2>4. gone # {} => /\ ~(Cardinality(Listed) < MaxEntries)
                     /\ (\A b \in gone : Dead(b)) \/ (\A c \in Listed : ~Dead(c))
    BY DEF Evictions
  <2>5. \A b \in Addresses \ {a} : b \in Listed /\ m[b] = None => b \in gone
    BY <2>3 DEF Listed
  <2> QED
    BY <1>1, <1>3, <2>2, <2>3, <2>4, <2>5, LoginAssumption
<1> QED
  BY <1>2, <1>3

LEMMA CountedTyped ==
  ASSUME NEW e \in Attempt
  PROVE  Counted(e) \in Attempt
BY LoginAssumption DEF Counted, Lower, Attempt

LEMMA OlderTyped ==
  ASSUME NEW e \in Attempt
  PROVE  Older(e) \in Attempt
BY LoginAssumption DEF Older, Lower, Attempt

(* The three outcomes of a first critical section and a recorded failure     *)
(* change one entry, that of the address of the request.                     *)
Touched(a) ==
  \E m \in WithEntry(a) :
    \/ attempts' = [m EXCEPT ![a].age = 0]
    \/ attempts' = [m EXCEPT ![a] = Counted(m[a])]

LEMMA TouchedTyped ==
  ASSUME TypeOK, NEW a \in Addresses, Touched(a)
  PROVE  /\ attempts' \in [Addresses -> Attempt \cup {None}]
         /\ attempts'[a] # None
<1>1. PICK m \in WithEntry(a) : \/ attempts' = [m EXCEPT ![a].age = 0]
                               \/ attempts' = [m EXCEPT ![a] = Counted(m[a])]
  BY DEF Touched
<1>2. m \in [Addresses -> Attempt \cup {None}] /\ m[a] \in Attempt
  BY EntryFound
<1>3. Counted(m[a]) \in Attempt /\ [m[a] EXCEPT !.age = 0] \in Attempt
  BY <1>2, CountedTyped, LoginAssumption DEF Attempt
<1> QED
  BY <1>1, <1>2, <1>3, LoginAssumption

LEMMA RequestTouches ==
  ASSUME TypeOK, NEW h \in Handlers, NEW a \in Addresses
  PROVE  Request(h, a) => Touched(a)
BY DEF Request, Refused, BudgetSpent, Admitted, Touched

LEMMA FailureTouches ==
  ASSUME TypeOK, NEW h \in Handlers, WrongPassword(h)
  PROVE  from[h] \in Addresses /\ Touched(from[h])
BY DEF WrongPassword, Touched, TypeOK

(* Every reachable state is well typed: timers and counters stay within the  *)
(* limits of the configuration.                                              *)
THEOREM LoginTyped == Spec => []TypeOK
<1>1. Init => TypeOK
  BY LoginAssumption DEF Init, TypeOK
<1>2. TypeOK /\ [Next]_vars => TypeOK'
  <2> SUFFICES ASSUME TypeOK, [Next]_vars PROVE TypeOK'
    OBVIOUS
  <2>1. CASE UNCHANGED vars
    BY <2>1 DEF vars, TypeOK
  <2>2. CASE Tick
    <3>1. attempts' \in [Addresses -> Attempt \cup {None}]
      BY <2>2, OlderTyped DEF Tick, TypeOK, Listed
    <3>2. windowAge' \in 0 .. Window + 1
      BY <2>2, LoginAssumption DEF Tick, TypeOK, Lower
    <3> QED
      BY <2>2, <3>1, <3>2 DEF Tick, Streak, TypeOK
  <2>3. ASSUME NEW h \in Handlers, NEW a \in Addresses, Request(h, a) PROVE TypeOK'
    <3>1. attempts' \in [Addresses -> Attempt \cup {None}]
      BY <2>3, RequestTouches, TouchedTyped
    <3>2. failures' \in 0 .. MaxFailures /\ windowAge' \in 0 .. Window + 1 /\ tested' \in Nat
      BY <2>3, LoginAssumption DEF Request, Refused, BudgetSpent, Admitted, OpenWindow, TypeOK
    <3>3. streak' \in [Addresses -> Nat]
      BY <2>3 DEF Request, Refused, BudgetSpent, Admitted, Streak, TypeOK
    <3> QED
      BY <2>3, <3>1, <3>2, <3>3 DEF Request, Refused, BudgetSpent, Admitted, TypeOK
  <2>4. ASSUME NEW h \in Handlers, WrongPassword(h) PROVE TypeOK'
    <3>1. from[h] \in Addresses /\ attempts' \in [Addresses -> Attempt \cup {None}]
      BY <2>4, FailureTouches, TouchedTyped
    <3>2. failures' \in 0 .. MaxFailures /\ windowAge' \in 0 .. Window + 1 /\ tested' \in Nat
      BY <2>4, LoginAssumption DEF WrongPassword, FailuresAfter, Spent, NewWindow, TypeOK
    <3>3. streak' \in [Addresses -> Nat]
      BY <2>4, <3>1 DEF WrongPassword, Streak, TypeOK
    <3> QED
      BY <2>4, <3>1, <3>2, <3>3 DEF WrongPassword, TypeOK
  <2>5. ASSUME NEW h \in Handlers, RightPassword(h) PROVE TypeOK'
    BY <2>5 DEF RightPassword, Streak, TypeOK
  <2> QED
    BY <2>1, <2>2, <2>3, <2>4, <2>5 DEF Next
<1> QED
  BY <1>1, <1>2, PTL DEF Spec

-----------------------------------------------------------------------------
(* Room for one entry is made before it is added.                            *)
LEMMA RoomMade ==
  ASSUME TypeOK, MapInv, NEW a \in Addresses, NEW m \in WithEntry(a)
  PROVE  IsFiniteSet(Entries(m)) /\ Cardinality(Entries(m)) <= MaxEntries
<1>1. CASE a \in Listed
  BY <1>1, EntryFound DEF MapInv, MapBounded, Entries, Listed
<1>2. CASE a \notin Listed
  <2>1. PICK gone \in Evictions : m = Inserted(a, gone)
    BY <1>2 DEF WithEntry
  <2>2. Entries(m) \subseteq (Listed \ gone) \cup {a}
    BY <2>1 DEF Inserted, Entries, Listed
  <2>3. IsFiniteSet(Listed \ gone) /\ Cardinality(Listed \ gone) \in Nat
    BY FS_Subset, FS_CardinalityType DEF MapInv
  <2>4. Cardinality(Listed \ gone) < MaxEntries
    <3>1. Cardinality(Listed) \in Nat
      BY FS_CardinalityType DEF MapInv
    <3>2. CASE Cardinality(Listed) < MaxEntries
      BY <2>3, <3>1, <3>2, FS_Subset, LoginAssumption DEF MapInv
    <3>3. CASE ~(Cardinality(Listed) < MaxEntries)
      <4>1. Cardinality(Listed) = MaxEntries /\ Listed # {}
        BY <3>1, <3>3, FS_EmptySet, LoginAssumption DEF MapInv, MapBounded
      <4>2. gone # {} /\ gone \subseteq Listed
        BY <3>3, EvictionsAreListed DEF Evictions
      <4>3. Listed \ gone # Listed
        BY <4>2
      <4> QED
        BY <2>3, <3>1, <4>1, <4>3, FS_Subset, LoginAssumption DEF MapInv
    <3> QED
      BY <3>2, <3>3
  <2>5. /\ IsFiniteSet((Listed \ gone) \cup {a})
        /\ Cardinality((Listed \ gone) \cup {a}) <= Cardinality(Listed \ gone) + 1
    BY <2>3, FS_AddElement
  <2>6. /\ IsFiniteSet(Entries(m))
        /\ Cardinality(Entries(m)) <= Cardinality((Listed \ gone) \cup {a})
    BY <2>2, <2>5, FS_Subset
  <2> QED
    BY <2>3, <2>4, <2>5, <2>6, FS_CardinalityType, LoginAssumption
<1> QED
  BY <1>1, <1>2

LEMMA TouchedBounded ==
  ASSUME TypeOK, MapInv, NEW a \in Addresses, Touched(a)
  PROVE  MapInv'
<1>1. PICK m \in WithEntry(a) : \/ attempts' = [m EXCEPT ![a].age = 0]
                               \/ attempts' = [m EXCEPT ![a] = Counted(m[a])]
  BY DEF Touched
<1>2. m \in [Addresses -> Attempt \cup {None}] /\ m[a] # None
  BY EntryFound
<1>3. Listed' \subseteq Entries(m)
  BY <1>1, <1>2 DEF Listed, Entries
<1>4. IsFiniteSet(Entries(m)) /\ Cardinality(Entries(m)) <= MaxEntries
  BY RoomMade
<1>5. IsFiniteSet(Listed') /\ Cardinality(Listed') <= Cardinality(Entries(m))
  BY <1>3, <1>4, FS_Subset
<1> QED
  BY <1>4, <1>5, FS_CardinalityType, LoginAssumption DEF MapInv, MapBounded

LEMMA FewerEntries ==
  ASSUME MapInv, Listed' \subseteq Listed
  PROVE  MapInv'
<1>1. IsFiniteSet(Listed') /\ Cardinality(Listed') <= Cardinality(Listed)
  BY FS_Subset DEF MapInv
<1> QED
  BY <1>1, FS_CardinalityType, LoginAssumption DEF MapInv, MapBounded

LEMMA MapInvariant == Spec => []MapInv
<1>1. Init => MapInv
  <2> SUFFICES ASSUME Init PROVE MapInv
    OBVIOUS
  <2>1. Listed = {}
    BY DEF Init, Listed
  <2> QED
    BY <2>1, FS_EmptySet, LoginAssumption DEF MapInv, MapBounded
<1>2. TypeOK /\ MapInv /\ [Next]_vars => MapInv'
  <2> SUFFICES ASSUME TypeOK, MapInv, [Next]_vars PROVE MapInv'
    OBVIOUS
  <2>1. CASE UNCHANGED vars
    BY <2>1, FewerEntries DEF vars, Listed
  <2>2. CASE Tick
    BY <2>2, FewerEntries DEF Tick, Listed
  <2>3. ASSUME NEW h \in Handlers, NEW a \in Addresses, Request(h, a) PROVE MapInv'
    BY <2>3, RequestTouches, TouchedBounded
  <2>4. ASSUME NEW h \in Handlers, WrongPassword(h) PROVE MapInv'
    BY <2>4, FailureTouches, TouchedBounded
  <2>5. ASSUME NEW h \in Handlers, RightPassword(h) PROVE MapInv'
    BY <2>5, FewerEntries DEF RightPassword, Listed, TypeOK
  <2> QED
    BY <2>1, <2>2, <2>3, <2>4, <2>5 DEF Next
<1> QED
  BY <1>1, <1>2, LoginTyped, PTL DEF Spec

(* However many addresses log in, the map keeps within its bound.            *)
THEOREM MapStaysBounded == Spec => []MapBounded
<1>1. MapInv => MapBounded
  BY DEF MapInv
<1> QED
  BY <1>1, MapInvariant, PTL

-----------------------------------------------------------------------------
(* Wrong passwords that are past the limits and not yet counted.             *)
Uncounted == {h \in Handlers : hpc[h] = "wrong"}
BudgetInv ==
  /\ failures = Lower(tested, MaxFailures)
  /\ tested + Cardinality(Uncounted) <= MaxFailures - 1 + Cardinality(Handlers)

LEMMA HandlersCounted ==
  /\ Cardinality(Handlers) \in Nat
  /\ \A S \in SUBSET Handlers :
       IsFiniteSet(S) /\ Cardinality(S) \in Nat /\ Cardinality(S) <= Cardinality(Handlers)
BY FS_CardinalityType, FS_Subset, LoginAssumption

LEMMA BudgetImplied ==
  ASSUME TypeOK, BudgetInv
  PROVE  BudgetExact
<1>1. Uncounted \in SUBSET Handlers
  BY DEF Uncounted
<1> QED
  BY <1>1, HandlersCounted, LoginAssumption DEF BudgetInv, BudgetExact, TypeOK

(* Past the limits with one more request, only while there is a budget left. *)
LEMMA AdmittedInBudget ==
  ASSUME TypeOK, BudgetInv, NEW h \in Handlers, NEW a \in Addresses,
         NEW next \in {"wrong", "right"}, Admitted(h, a, next)
  PROVE  BudgetInv'
<1>1. ~Spent /\ OpenWindow
  BY DEF Admitted
<1>2. tested' \in Nat /\ tested' <= MaxFailures - 1 /\ failures' = Lower(tested', MaxFailures)
  <2>1. tested \in Nat /\ failures = Lower(tested, MaxFailures)
    BY DEF TypeOK, BudgetInv
  <2>2. CASE NewWindow
    BY <1>1, <2>2, LoginAssumption DEF OpenWindow, Lower
  <2>3. CASE ~NewWindow
    BY <1>1, <2>1, <2>3, LoginAssumption DEF OpenWindow, Spent, Lower
  <2> QED
    BY <2>2, <2>3
<1>3. Uncounted' \in SUBSET Handlers
  BY DEF Uncounted
<1> QED
  BY <1>2, <1>3, HandlersCounted, LoginAssumption DEF BudgetInv

LEMMA FailureInBudget ==
  ASSUME TypeOK, BudgetInv, NEW h \in Handlers, WrongPassword(h)
  PROVE  BudgetInv'
<1>1. h \in Uncounted /\ Uncounted \in SUBSET Handlers
  BY DEF WrongPassword, Uncounted
<1>2. Uncounted' = Uncounted \ {h}
  BY DEF WrongPassword, Uncounted, TypeOK
<1>3. Cardinality(Uncounted') = Cardinality(Uncounted) - 1 /\ Cardinality(Uncounted) \in Nat
  BY <1>1, <1>2, HandlersCounted, FS_RemoveElement
<1>4. tested' = IF NewWindow THEN 1 ELSE tested + 1
  BY DEF WrongPassword
<1>5. failures' = Lower(tested', MaxFailures)
  BY <1>4, LoginAssumption DEF WrongPassword, FailuresAfter, Spent, BudgetInv, Lower, TypeOK
<1>6. Cardinality(Uncounted) <= Cardinality(Handlers)
  BY <1>1, HandlersCounted
<1> QED
  BY <1>3, <1>4, <1>5, <1>6, HandlersCounted, LoginAssumption DEF BudgetInv, TypeOK

(* The global budget counts every failure of its window and is exceeded by   *)
(* no more than the requests that are under way.                             *)
THEOREM BudgetHolds == Spec => []BudgetExact
<1>1. Init => BudgetInv
  <2> SUFFICES ASSUME Init PROVE BudgetInv
    OBVIOUS
  <2>1. Uncounted = {}
    BY DEF Init, Uncounted
  <2> QED
    BY <2>1, FS_EmptySet, HandlersCounted, LoginAssumption DEF Init, BudgetInv, Lower
<1>2. TypeOK /\ BudgetInv /\ [Next]_vars => BudgetInv'
  <2> SUFFICES ASSUME TypeOK, BudgetInv, [Next]_vars PROVE BudgetInv'
    OBVIOUS
  <2>1. CASE UNCHANGED vars
    BY <2>1 DEF vars, BudgetInv, Uncounted
  <2>2. CASE Tick
    BY <2>2 DEF Tick, BudgetInv, Uncounted
  <2>3. ASSUME NEW h \in Handlers, NEW a \in Addresses, Request(h, a) PROVE BudgetInv'
    <3>1. CASE Refused(a) \/ BudgetSpent(a)
      BY <3>1 DEF Refused, BudgetSpent, BudgetInv, Uncounted
    <3>2. CASE Admitted(h, a, "wrong") \/ Admitted(h, a, "right")
      BY <3>2, AdmittedInBudget
    <3> QED
      BY <2>3, <3>1, <3>2 DEF Request
  <2>4. ASSUME NEW h \in Handlers, WrongPassword(h) PROVE BudgetInv'
    BY <2>4, FailureInBudget
  <2>5. ASSUME NEW h \in Handlers, RightPassword(h) PROVE BudgetInv'
    <3>1. Uncounted' = Uncounted
      BY <2>5 DEF RightPassword, Uncounted, TypeOK
    <3> QED
      BY <2>5, <3>1 DEF RightPassword, BudgetInv
  <2> QED
    BY <2>1, <2>2, <2>3, <2>4, <2>5 DEF Next
<1>3. TypeOK /\ BudgetInv => BudgetExact
  BY BudgetImplied
<1> QED
  BY <1>1, <1>2, <1>3, LoginTyped, PTL DEF Spec

-----------------------------------------------------------------------------
(* A step lifts or shortens a ban only in the three ways that BanStands      *)
(* allows: time, the right password, or an eviction that is forced.          *)
LEMMA BanStep ==
  ASSUME TypeOK, MapInv, [Next]_vars, NEW a \in Addresses, Banned(a)
  PROVE  \/ attempts'[a] # None /\ (attempts'[a].left >= attempts[a].left \/ Tick)
         \/ \E h \in Handlers : hpc[h] = "right" /\ from[h] = a /\ RightPassword(h)
         \/ Cardinality(Listed) >= MaxEntries /\ \A b \in Listed : ~Dead(b)
<1>1. /\ a \in Listed /\ attempts[a] \in Attempt /\ attempts[a] # None
      /\ attempts[a].left \in Int /\ attempts[a].left > 0 /\ attempts[a].left <= Block
      /\ ~Dead(a) /\ Block \in Nat
  BY LoginAssumption DEF Banned, TypeOK, Listed, Attempt, Dead
<1>2. CASE UNCHANGED vars
  BY <1>1, <1>2 DEF vars
<1>3. CASE Tick
  <2>1. attempts'[a] = Older(attempts[a])
    BY <1>1, <1>3 DEF Tick
  <2> QED
    BY <1>1, <1>3, <2>1, OlderTyped, LoginAssumption
<1>4. ASSUME NEW b \in Addresses, Touched(b)
      PROVE  \/ attempts'[a] # None /\ attempts'[a].left >= attempts[a].left
             \/ Cardinality(Listed) >= MaxEntries /\ \A c \in Listed : ~Dead(c)
  <2>1. PICK m \in WithEntry(b) : \/ attempts' = [m EXCEPT ![b].age = 0]
                                 \/ attempts' = [m EXCEPT ![b] = Counted(m[b])]
    BY <1>4 DEF Touched
  <2>2. m \in [Addresses -> Attempt \cup {None}] /\ m[b] \in Attempt
    BY EntryFound
  <2>3. CASE a = b
    <3>1. m[a] = attempts[a]
      BY <1>1, <2>3, EntryFound
    <3>2. Counted(attempts[a]).left \in {Block, attempts[a].left}
      BY DEF Counted
    <3> QED
      BY <1>1, <1>4, <2>1, <2>2, <2>3, <3>1, <3>2, TouchedTyped DEF Attempt
  <2>4. CASE a # b /\ m[a] = attempts[a]
    BY <1>1, <2>1, <2>2, <2>4
  <2>5. CASE a # b /\ m[a] # attempts[a]
    <3>1. m[a] = None
      BY <2>5, EntryFound
    <3>2. ~(Cardinality(Listed) < MaxEntries) /\ (Dead(a) \/ \A c \in Listed : ~Dead(c))
      BY <1>1, <2>5, <3>1, EntryFound
    <3>3. Cardinality(Listed) \in Nat
      BY FS_CardinalityType DEF MapInv
    <3> QED
      BY <1>1, <3>2, <3>3, LoginAssumption
  <2> QED
    BY <2>3, <2>4, <2>5
<1>5. ASSUME NEW h \in Handlers, RightPassword(h)
      PROVE  from[h] = a \/ attempts'[a] = attempts[a]
  BY <1>5 DEF RightPassword, TypeOK
<1>6. ASSUME NEW h \in Handlers, RightPassword(h)
      PROVE  hpc[h] = "right"
  BY <1>6 DEF RightPassword
<1> QED
  BY <1>1, <1>2, <1>3, <1>4, <1>5, <1>6, RequestTouches, FailureTouches DEF Next

(* No concurrent login, refused request or new address lifts a ban early.    *)
THEOREM BansStand == Spec => BanStands
<1> DEFINE Stands ==
      \A a \in Addresses :
        Banned(a) =>
          \/ attempts'[a] # None /\ (attempts'[a].left >= attempts[a].left \/ Tick)
          \/ \E h \in Handlers : hpc[h] = "right" /\ from[h] = a /\ RightPassword(h)
          \/ Cardinality(Listed) >= MaxEntries /\ \A b \in Listed : ~Dead(b)
<1>1. TypeOK /\ MapInv /\ [Next]_vars => [Stands]_vars
  BY BanStep
<1> QED
  BY <1>1, LoginTyped, MapInvariant, PTL DEF Spec, BanStands

-----------------------------------------------------------------------------
(* What the entry of an address says about its streak: it is counted there   *)
(* as long as the address is not banned, and starts again after a ban.       *)
UncountedOf(a) == {h \in Handlers : hpc[h] = "wrong" /\ from[h] = a}

Tracks(e, n) ==
  /\ e.left >= 0 => e.count = MaxAttempts
  /\ e.left <= 0 => n <= IF e.count >= MaxAttempts THEN 0 ELSE e.count

StreakInv ==
  \A a \in Addresses :
    /\ IF a \in Listed THEN Tracks(attempts[a], streak[a]) ELSE streak[a] = 0
    /\ streak[a] + Cardinality(UncountedOf(a)) <= MaxAttempts - 1 + Cardinality(Handlers)

LEMMA StreakImplied ==
  ASSUME TypeOK, StreakInv
  PROVE  StreakBounded
<1>1. \A a \in Addresses : UncountedOf(a) \in SUBSET Handlers /\ streak[a] \in Nat
  BY DEF UncountedOf, TypeOK
<1> QED
  BY <1>1, HandlersCounted, LoginAssumption DEF StreakInv, StreakBounded

(* A streak at its end, below MaxAttempts or gone, leaves room for one more  *)
(* request of the address.                                                   *)
LEMMA RoomForRequests ==
  ASSUME NEW n \in Nat, n <= MaxAttempts - 1, NEW S \in SUBSET Handlers
  PROVE  n + Cardinality(S) <= MaxAttempts - 1 + Cardinality(Handlers)
BY HandlersCounted, LoginAssumption

LEMMA StreakOfOthers ==
  ASSUME TypeOK, StreakInv, NEW b \in Addresses, NEW m \in WithEntry(b), NEW a \in Addresses \ {b},
         attempts'[a] = m[a],
         streak'[a] = IF attempts'[a] = None \/ (Banned(a) /\ attempts'[a].left = 0)
                      THEN 0 ELSE streak[a],
         UncountedOf(a)' = UncountedOf(a)
  PROVE  /\ IF a \in Listed' THEN Tracks(attempts[a]', streak'[a]) ELSE streak'[a] = 0
         /\ streak'[a] + Cardinality(UncountedOf(a)') <= MaxAttempts - 1 + Cardinality(Handlers)
<1>1. m[a] = attempts[a] \/ m[a] = None
  BY EntryFound
<1>2. UncountedOf(a) \in SUBSET Handlers /\ streak[a] \in Nat
  BY DEF UncountedOf, TypeOK
<1>3. CASE m[a] = None
  BY <1>2, <1>3, RoomForRequests, LoginAssumption DEF Listed
<1>4. CASE m[a] = attempts[a] /\ m[a] # None
  <2>1. streak'[a] = streak[a]
    BY <1>4 DEF Banned
  <2> QED
    BY <1>4, <2>1 DEF Listed, StreakInv
<1> QED
  BY <1>1, <1>3, <1>4

(* StreakInv for one address, before and after a step.                       *)
StreakOf(a) ==
  /\ IF a \in Listed THEN Tracks(attempts[a], streak[a]) ELSE streak[a] = 0
  /\ streak[a] + Cardinality(UncountedOf(a)) <= MaxAttempts - 1 + Cardinality(Handlers)

(* A first critical section only touches the age of the entry.               *)
LEMMA StreakOfSeen ==
  ASSUME TypeOK, StreakInv, NEW b \in Addresses, NEW m \in WithEntry(b),
         attempts' = [m EXCEPT ![b].age = 0], Streak(streak)
  PROVE  /\ b \in Listed' /\ streak'[b] = streak[b] /\ Tracks(attempts'[b], streak'[b])
         /\ m[b].left <= 0 => streak'[b] <= MaxAttempts - 1
<1>1. m \in [Addresses -> Attempt \cup {None}] /\ m[b] \in Attempt /\ m[b] # None
  BY EntryFound
<1>2. attempts'[b] = [m[b] EXCEPT !.age = 0]
  BY <1>1
<1>3. attempts'[b] \in Attempt /\ attempts'[b].left = m[b].left /\ attempts'[b].count = m[b].count
  BY <1>1, <1>2, LoginAssumption DEF Attempt
<1>4. b \in Listed'
  BY <1>3, LoginAssumption DEF Listed
<1>5. streak[b] \in Nat /\ Tracks(m[b], streak[b])
  <2>1. CASE b \in Listed
    BY <2>1, EntryFound DEF StreakInv, TypeOK
  <2>2. CASE b \notin Listed
    BY <2>2, EntryFound, LoginAssumption DEF StreakInv, TypeOK, Tracks, NewAttempt
  <2> QED
    BY <2>1, <2>2
<1>6. streak'[b] = streak[b]
  <2>1. Banned(b) => attempts'[b].left > 0
    BY <1>3, EntryFound DEF Banned
  <2> QED
    BY <1>3, <1>4, <2>1, LoginAssumption DEF Streak, Listed, Attempt
<1>7. m[b].left <= 0 => streak[b] <= MaxAttempts - 1
  BY <1>1, <1>5, LoginAssumption DEF Tracks, Attempt
<1> QED
  BY <1>3, <1>4, <1>5, <1>6, <1>7 DEF Tracks

LEMMA StreakOfFailed ==
  ASSUME NEW e \in Attempt, NEW n \in Nat, Tracks(e, n)
  PROVE  /\ Tracks(Counted(e), n + 1)
         /\ e.left > 0 => Counted(e).left # 0
BY LoginAssumption DEF Tracks, Counted, Lower, Attempt

LEMMA RequestKeepsStreaks ==
  ASSUME TypeOK, StreakInv, NEW h \in Handlers, NEW b \in Addresses, Request(h, b)
  PROVE  StreakInv'
<1>1. PICK m \in WithEntry(b) :
        /\ attempts' = [m EXCEPT ![b].age = 0] /\ Streak(streak)
        /\ \/ UNCHANGED <<hpc, from>>
           \/ /\ m[b].left <= 0 /\ hpc[h] = "idle"
              /\ \E next \in {"wrong", "right"} : hpc' = [hpc EXCEPT ![h] = next]
              /\ from' = [from EXCEPT ![h] = b]
  BY DEF Request, Refused, BudgetSpent, Admitted
<1>2. \A a \in Addresses \ {b} : UncountedOf(a)' = UncountedOf(a) /\ attempts'[a] = m[a]
  BY <1>1, EntryFound DEF UncountedOf, TypeOK
<1>3. ASSUME NEW a \in Addresses \ {b} PROVE StreakOf(a)'
  BY <1>1, <1>2, <1>3, StreakOfOthers DEF Streak, StreakOf
<1>4. StreakOf(b)'
  <2>1. /\ b \in Listed' /\ streak'[b] = streak[b] /\ Tracks(attempts'[b], streak'[b])
        /\ m[b].left <= 0 => streak'[b] <= MaxAttempts - 1
    BY <1>1, StreakOfSeen
  <2>2. streak[b] \in Nat /\ UncountedOf(b)' \in SUBSET Handlers
    BY DEF TypeOK, UncountedOf
  <2>3. CASE m[b].left <= 0
    BY <2>1, <2>2, <2>3, RoomForRequests DEF StreakOf
  <2>4. CASE UNCHANGED <<hpc, from>>
    BY <2>1, <2>4 DEF StreakOf, StreakInv, UncountedOf
  <2> QED
    BY <1>1, <2>3, <2>4
<1> QED
  BY <1>3, <1>4 DEF StreakInv, StreakOf

LEMMA FailureKeepsStreaks ==
  ASSUME TypeOK, StreakInv, NEW h \in Handlers, WrongPassword(h)
  PROVE  StreakInv'
<1>0. PICK b \in Addresses : b = from[h]
  BY DEF WrongPassword, TypeOK
<1>1. hpc[h] = "wrong"
  BY DEF WrongPassword
<1>2. PICK m \in WithEntry(b) :
        /\ attempts' = [m EXCEPT ![b] = Counted(m[b])]
        /\ hpc' = [hpc EXCEPT ![h] = "idle"] /\ from' = [from EXCEPT ![h] = None]
        /\ Streak([streak EXCEPT ![b] = @ + 1])
  BY <1>0 DEF WrongPassword
<1>3. m \in [Addresses -> Attempt \cup {None}] /\ m[b] \in Attempt
  BY <1>1, EntryFound
<1>4. ASSUME NEW a \in Addresses \ {b} PROVE StreakOf(a)'
  <2>1. UncountedOf(a)' = UncountedOf(a)
    BY <1>0, <1>1, <1>2 DEF UncountedOf, TypeOK
  <2>2. attempts'[a] = m[a]
    BY <1>2, <1>3
  <2>3. [streak EXCEPT ![b] = @ + 1][a] = streak[a]
    BY DEF TypeOK
  <2> QED
    BY <1>1, <1>2, <2>1, <2>2, <2>3, StreakOfOthers DEF Streak, StreakOf
<1>5. StreakOf(b)'
  <2>1. attempts'[b] = Counted(m[b]) /\ attempts'[b] \in Attempt /\ b \in Listed'
    BY <1>1, <1>2, <1>3, CountedTyped, LoginAssumption DEF Listed
  <2>2. streak[b] \in Nat /\ Tracks(m[b], streak[b])
    <3>1. CASE b \in Listed
      BY <1>1, <3>1, EntryFound DEF StreakInv, TypeOK
    <3>2. CASE b \notin Listed
      BY <1>1, <3>2, EntryFound, LoginAssumption DEF StreakInv, TypeOK, Tracks, NewAttempt
    <3> QED
      BY <3>1, <3>2
  <2>3. Tracks(attempts'[b], streak[b] + 1) /\ (m[b].left > 0 => attempts'[b].left # 0)
    BY <1>3, <2>1, <2>2, StreakOfFailed
  <2>4. Banned(b) => m[b].left > 0
    BY <1>1, EntryFound DEF Banned
  <2>5. streak'[b] = streak[b] + 1
    BY <1>1, <1>2, <2>1, <2>3, <2>4, LoginAssumption DEF Streak, TypeOK
  <2>6. /\ UncountedOf(b)' = UncountedOf(b) \ {h} /\ h \in UncountedOf(b)
        /\ UncountedOf(b) \in SUBSET Handlers
    BY <1>0, <1>1, <1>2 DEF UncountedOf, TypeOK
  <2>7. /\ Cardinality(UncountedOf(b)') = Cardinality(UncountedOf(b)) - 1
        /\ Cardinality(UncountedOf(b)) \in Nat
    BY <2>6, HandlersCounted, FS_RemoveElement
  <2> QED
    BY <1>1, <2>1, <2>2, <2>3, <2>5, <2>7, HandlersCounted, LoginAssumption DEF StreakOf, StreakInv
<1> QED
  BY <1>4, <1>5 DEF StreakInv, StreakOf

LEMMA SuccessKeepsStreaks ==
  ASSUME TypeOK, StreakInv, NEW h \in Handlers, RightPassword(h)
  PROVE  StreakInv'
<1> SUFFICES ASSUME NEW a \in Addresses PROVE StreakOf(a)'
  BY DEF StreakInv, StreakOf
<1>1. /\ attempts' = [attempts EXCEPT ![from[h]] = None] /\ Streak(streak)
      /\ from[h] \in Addresses /\ UncountedOf(a)' = UncountedOf(a)
  BY DEF RightPassword, UncountedOf, TypeOK
<1>2. UncountedOf(a) \in SUBSET Handlers /\ streak[a] \in Nat
  BY DEF UncountedOf, TypeOK
<1>3. CASE a = from[h]
  <2>1. attempts'[a] = None /\ streak'[a] = 0
    BY <1>1, <1>3 DEF Streak, TypeOK
  <2> QED
    BY <1>1, <1>2, <2>1, RoomForRequests, LoginAssumption DEF Listed, StreakOf
<1>4. CASE a # from[h]
  <2>1. attempts'[a] = attempts[a]
    BY <1>1, <1>4 DEF TypeOK
  <2>2. streak'[a] = streak[a]
    BY <1>1, <2>1 DEF Streak, Banned, StreakInv, Listed
  <2> QED
    BY <1>1, <2>1, <2>2 DEF Listed, StreakOf, StreakInv
<1> QED
  BY <1>3, <1>4

LEMMA TickKeepsStreaks ==
  ASSUME TypeOK, StreakInv, Tick
  PROVE  StreakInv'
<1> SUFFICES ASSUME NEW a \in Addresses PROVE StreakOf(a)'
  BY DEF StreakInv, StreakOf
<1>1. Streak(streak) /\ UncountedOf(a)' = UncountedOf(a)
  BY DEF Tick, UncountedOf
<1>2. UncountedOf(a) \in SUBSET Handlers /\ streak[a] \in Nat
  BY DEF UncountedOf, TypeOK
<1>3. CASE a \notin Listed
  <2>1. attempts'[a] = None /\ streak'[a] = 0
    BY <1>1, <1>3 DEF Tick, Streak
  <2> QED
    BY <1>1, <1>2, <2>1, RoomForRequests, LoginAssumption DEF Listed, StreakOf
<1>4. CASE a \in Listed
  <2>1. attempts'[a] = Older(attempts[a]) /\ attempts[a] \in Attempt /\ attempts'[a] \in Attempt
    BY <1>4, OlderTyped DEF Tick, Listed, TypeOK
  <2>2. a \in Listed'
    BY <2>1, LoginAssumption DEF Listed
  <2>3. attempts[a].left \in Int /\ attempts[a].count \in Int /\ Tracks(attempts[a], streak[a])
    BY <1>4, <2>1, LoginAssumption DEF Attempt, StreakInv
  <2>4. /\ attempts'[a].count = attempts[a].count
        /\ attempts'[a].left = IF attempts[a].left = -1 THEN -1 ELSE attempts[a].left - 1
    BY <2>1 DEF Older
  <2>5. streak'[a] = IF attempts[a].left > 0 /\ attempts'[a].left = 0 THEN 0 ELSE streak[a]
    BY <1>1, <1>4, <2>2 DEF Streak, Banned, Listed
  <2>6. Tracks(attempts'[a], streak'[a])
    BY <2>3, <2>4, <2>5, LoginAssumption DEF Tracks
  <2>7. streak'[a] + Cardinality(UncountedOf(a)) <= MaxAttempts - 1 + Cardinality(Handlers)
    BY <1>2, <2>5, RoomForRequests, LoginAssumption DEF StreakInv
  <2> QED
    BY <1>1, <2>2, <2>6, <2>7 DEF StreakOf
<1> QED
  BY <1>3, <1>4

(* Concurrent requests gain an address no more wrong passwords between two   *)
(* bans than one for each of them.                                           *)
THEOREM StreaksBounded == Spec => []StreakBounded
<1>1. Init => StreakInv
  <2> SUFFICES ASSUME Init, NEW a \in Addresses PROVE StreakOf(a)
    BY DEF StreakInv, StreakOf
  <2>1. UncountedOf(a) \in SUBSET Handlers /\ a \notin Listed /\ streak[a] = 0
    BY DEF Init, UncountedOf, Listed
  <2> QED
    BY <2>1, RoomForRequests, LoginAssumption DEF StreakOf
<1>2. TypeOK /\ StreakInv /\ [Next]_vars => StreakInv'
  <2> SUFFICES ASSUME TypeOK, StreakInv, [Next]_vars PROVE StreakInv'
    OBVIOUS
  <2>1. CASE UNCHANGED vars
    BY <2>1 DEF vars, StreakInv, UncountedOf, Listed
  <2> QED
    BY <2>1, TickKeepsStreaks, RequestKeepsStreaks, FailureKeepsStreaks, SuccessKeepsStreaks
    DEF Next
<1>3. TypeOK /\ StreakInv => StreakBounded
  BY StreakImplied
<1> QED
  BY <1>1, <1>2, <1>3, LoginTyped, PTL DEF Spec
=============================================================================
