---------------------------- MODULE LoginLimiter ----------------------------
(* The limits on failed logins (/api/login in api/server.go): a counter with *)
(* a ban per address, in a bounded map, and a budget of failures for all     *)
(* addresses per window.  A request consults the limits in one critical      *)
(* section and records its failure in a second one; other requests come in   *)
(* between.                                                                  *)
(*                                                                           *)
(* Times are kept as what is left of them or as ages, which saturate as soon *)
(* as the code's comparisons can no longer tell them apart.                  *)
EXTENDS Integers, FiniteSets

CONSTANTS Handlers,       \* concurrent login requests
          Addresses,      \* client addresses
          MaxAttempts,    \* maxLoginAttempts, 5
          MaxEntries,     \* maxLimiterEntries, 1000
          MaxFailures,    \* maxGlobalLoginFailures, 100
          Block,          \* loginBlockDuration
          Idle,           \* limiterIdleTimeout
          Window,         \* globalLoginFailureWindow
          None

(* left: time until blockedUntil, -1 once it has passed.  A count above      *)
(* MaxAttempts has the same effect as MaxAttempts.                           *)
Attempt == [count : 0 .. MaxAttempts, left : -1 .. Block, age : 0 .. Idle + 1]
NewAttempt == [count |-> 0, left |-> -1, age |-> 0]

ASSUME LoginAssumption ==
  /\ None \notin Attempt
  /\ IsFiniteSet(Handlers)
  /\ {MaxAttempts, MaxEntries, MaxFailures, Block, Idle, Window} \subseteq Nat \ {0}

VARIABLES
  attempts,   \* loginAttempts: the entry of each address, or None
  failures,   \* globalLoginFailures
  windowAge,  \* time since globalLoginWindowStart
  hpc,        \* each request: idle, compare (past the limits), matched
  from,       \* its address
  tested,     \* history: wrong passwords recorded in this window
  streak      \* history: wrong passwords of each address since its last ban ended

vars == <<attempts, failures, windowAge, hpc, from, tested, streak>>

Lower(a, b) == IF a < b THEN a ELSE b
Listed == {a \in Addresses : attempts[a] # None}
Banned(a) == a \in Listed /\ attempts[a].left > 0
Dead(a) == attempts[a].left < 0 /\ attempts[a].age > Idle

Init ==
  /\ attempts = [a \in Addresses |-> None]
  /\ failures = 0 /\ windowAge = Window + 1 /\ tested = 0
  /\ hpc = [h \in Handlers |-> "idle"] /\ from = [h \in Handlers |-> None]
  /\ streak = [a \in Addresses |-> 0]

(* Without an entry, or when its ban is over, an address starts afresh.      *)
Streak(counts) ==
  streak' = [a \in Addresses |->
    IF attempts'[a] = None \/ (Banned(a) /\ attempts'[a].left = 0) THEN 0 ELSE counts[a]]

-----------------------------------------------------------------------------
(* evictLoginAttemptsLocked: the sets of addresses it may drop.              *)

(* Mutant: an arbitrary entry makes room although some are dead.             *)
MutEvictions == IF Cardinality(Listed) < MaxEntries THEN {{}} ELSE {{a} : a \in Listed}

Evictions ==
  LET dead == {a \in Listed : Dead(a)}
  IN  IF Cardinality(Listed) < MaxEntries THEN {{}}
      ELSE IF dead # {} THEN {dead}
      ELSE {{a} : a \in Listed}

(* Entries in which an address has one: its own, or a new one for which an   *)
(* eviction made room.                                                       *)
Inserted(a, gone) ==
  [b \in Addresses |-> IF b = a THEN NewAttempt ELSE IF b \in gone THEN None ELSE attempts[b]]
WithEntry(a) ==
  IF a \in Listed THEN {attempts} ELSE {Inserted(a, gone) : gone \in Evictions}

(* globalLoginBlockedLocked                                                  *)
NewWindow == windowAge > Window
Spent == ~NewWindow /\ failures >= MaxFailures

(* Mutant: a window that is over does not forget its failures.               *)
MutOpenWindow == /\ windowAge' = IF NewWindow THEN 0 ELSE windowAge
                 /\ UNCHANGED failures
                 /\ tested' = IF NewWindow THEN 0 ELSE tested

OpenWindow == /\ windowAge' = IF NewWindow THEN 0 ELSE windowAge
              /\ failures' = IF NewWindow THEN 0 ELSE failures
              /\ tested' = IF NewWindow THEN 0 ELSE tested

(* The first critical section of a request from a.  The global budget is     *)
(* only consulted if the address is not banned.                              *)
MutRefused(a) ==   \* mutant: a refused request extends the ban
  \E m \in WithEntry(a) :
    /\ m[a].left > 0 /\ attempts' = [m EXCEPT ![a].age = 0, ![a].left = Block]
    /\ UNCHANGED <<failures, windowAge, hpc, from, tested>> /\ Streak(streak)

Refused(a) ==
  \E m \in WithEntry(a) :
    /\ m[a].left > 0 /\ attempts' = [m EXCEPT ![a].age = 0]
    /\ UNCHANGED <<failures, windowAge, hpc, from, tested>> /\ Streak(streak)

BudgetSpent(a) ==
  \E m \in WithEntry(a) :
    /\ m[a].left <= 0 /\ Spent
    /\ attempts' = [m EXCEPT ![a].age = 0]
    /\ UNCHANGED <<failures, windowAge, hpc, from, tested>> /\ Streak(streak)

Admitted(h, a, next) ==
  \E m \in WithEntry(a) :
    /\ hpc[h] = "idle" /\ m[a].left <= 0 /\ ~Spent
    /\ attempts' = [m EXCEPT ![a].age = 0]
    /\ OpenWindow /\ Streak(streak)
    /\ hpc' = [hpc EXCEPT ![h] = next] /\ from' = [from EXCEPT ![h] = a]

(* The second critical section after a wrong password.                       *)
MutCounted(e) ==   \* mutant: one failure too many before the ban
  LET count == IF e.left < 0 /\ e.count >= MaxAttempts THEN 1 ELSE Lower(e.count + 1, MaxAttempts)
  IN  [count |-> count, left |-> IF e.count >= MaxAttempts THEN Block ELSE e.left, age |-> 0]

Counted(e) ==
  LET count == IF e.left < 0 /\ e.count >= MaxAttempts THEN 1 ELSE Lower(e.count + 1, MaxAttempts)
  IN  [count |-> count, left |-> IF count >= MaxAttempts THEN Block ELSE e.left, age |-> 0]

FailuresAfter == IF NewWindow THEN 1 ELSE IF Spent THEN failures ELSE failures + 1

WrongPassword(h) ==
  LET a == from[h]
  IN  \E m \in WithEntry(a) :
        /\ hpc[h] = "wrong"
        /\ attempts' = [m EXCEPT ![a] = Counted(m[a])]
        /\ windowAge' = IF NewWindow THEN 0 ELSE windowAge
        /\ failures' = FailuresAfter
        /\ tested' = IF NewWindow THEN 1 ELSE tested + 1
        /\ hpc' = [hpc EXCEPT ![h] = "idle"] /\ from' = [from EXCEPT ![h] = None]
        /\ Streak([streak EXCEPT ![a] = @ + 1])

(* ... and after the right one: the address starts afresh.                   *)
RightPassword(h) ==
  /\ hpc[h] = "right"
  /\ attempts' = [attempts EXCEPT ![from[h]] = None]
  /\ hpc' = [hpc EXCEPT ![h] = "idle"] /\ from' = [from EXCEPT ![h] = None]
  /\ UNCHANGED <<failures, windowAge, tested>> /\ Streak(streak)

Older(e) ==
  [count |-> e.count,
   left |-> IF e.left = -1 THEN -1 ELSE e.left - 1, age |-> Lower(e.age + 1, Idle + 1)]
Tick ==
  /\ attempts' = [a \in Addresses |-> IF a \in Listed THEN Older(attempts[a]) ELSE None]
  /\ windowAge' = Lower(windowAge + 1, Window + 1)
  /\ UNCHANGED <<failures, hpc, from, tested>> /\ Streak(streak)

-----------------------------------------------------------------------------
Request(h, a) == Refused(a) \/ BudgetSpent(a) \/ Admitted(h, a, "wrong") \/ Admitted(h, a, "right")
Next == \/ \E h \in Handlers, a \in Addresses : Request(h, a)
        \/ \E h \in Handlers : WrongPassword(h) \/ RightPassword(h)
        \/ Tick

Spec == Init /\ [][Next]_vars

(* Time passes.                                                              *)
FairSpec == Spec /\ WF_vars(Tick)

-----------------------------------------------------------------------------
TypeOK ==
  /\ attempts \in [Addresses -> Attempt \cup {None}]
  /\ failures \in 0 .. MaxFailures /\ windowAge \in 0 .. Window + 1 /\ tested \in Nat
  /\ streak \in [Addresses -> Nat]
  /\ hpc \in [Handlers -> {"idle", "wrong", "right"}]
  /\ from \in [Handlers -> Addresses \cup {None}]
  /\ \A h \in Handlers : hpc[h] # "idle" => from[h] \in Addresses

(* The map of addresses is bounded by both sections, although an entry may   *)
(* disappear between the two sections of a request.                          *)
MapBounded == Cardinality(Listed) <= MaxEntries

(* The global budget counts every wrong password of its window, up to the    *)
(* budget, and concurrent requests that consulted it before can exceed it    *)
(* by no more than their own number.                                         *)
BudgetExact ==
  /\ failures = Lower(tested, MaxFailures)
  /\ tested <= MaxFailures - 1 + Cardinality(Handlers)

(* Between the ends of two bans an address gets at most MaxAttempts wrong    *)
(* passwords tested, and one more for each of its other requests that were   *)
(* past the limits when the ban began.  As its entry, the count begins anew  *)
(* after a right password and after an eviction.  This bounds the attempts   *)
(* from above only: it does not say that a ban is never too early.           *)
StreakBounded == \A a \in Addresses : streak[a] <= MaxAttempts - 1 + Cardinality(Handlers)

(* Before its time is over a ban is only lifted by the right password from   *)
(* the same address or by a step that finds the map full and every entry in  *)
(* it still needed, as a forced eviction does; it is never shortened by any  *)
(* other step.                                                               *)
BanStands ==
  [][\A a \in Addresses :
       Banned(a) =>
         \/ attempts'[a] # None /\ (attempts'[a].left >= attempts[a].left \/ Tick)
         \/ \E h \in Handlers : hpc[h] = "right" /\ from[h] = a /\ RightPassword(h)
         \/ Cardinality(Listed) >= MaxEntries /\ \A b \in Listed : ~Dead(b)]_vars

(* A ban ends, however many requests are refused meanwhile: they do not      *)
(* extend it.                                                                *)
BanEnds == \A a \in Addresses : []<>~Banned(a)

=============================================================================
