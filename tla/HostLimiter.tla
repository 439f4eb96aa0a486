---------------------------- MODULE HostLimiter -----------------------------
(* Adaptive throttling: one rate limiter per host, found or made by every    *)
(* task that starts (queue.getOrCreateLimiter), changed by the throttle      *)
(* handler (UpdateHostLimiter) and adapted by the latency sampler of every   *)
(* running transfer (Limiter.RecordLatency).                                 *)
(*                                                                           *)
(* Rates are integers in units of which KB make 1 KB/s.  The code multiplies *)
(* floats; here a decrease rounds down and an increase rounds up, so that    *)
(* both are strict, as they are there.                                       *)
EXTENDS Integers, FiniteSets, Functions

CONSTANTS Hosts,          \* SFTP host names
          Transfers,      \* slots for task goroutines
          Configs,        \* throttling settings of tasks, 0 = not set
          Updates,        \* settings sent to the throttle handler
          Uses,           \* bound: the settings in use for each host
          Samples,        \* round trip times the sampler can measure
          MaxLimiters,    \* 100 in the code
          RecoverAfter,   \* 5 in the code
          DeepRatio,      \* 10: throttled below a tenth of the maximum is deep
          KB, DefaultFloor, DefaultLimit,  \* 1 KB/s, 10 KB/s, 100 MB/s in units
          Unlimited,      \* rate.Inf
          MaxObjects,     \* bound: Limiter objects alive at once
          None

ASSUME LimiterAssumption ==
  /\ Configs \cup Updates \subseteq [rate : Nat, min : Nat, lat : Nat]
  /\ Uses \subseteq Hosts \X (Configs \cup Updates)
  /\ Samples \subseteq Nat
  /\ {MaxLimiters, MaxObjects, RecoverAfter, DeepRatio, KB, DefaultFloor, DefaultLimit}
       \subseteq Nat \ {0}
  /\ Unlimited \in Nat /\ DefaultLimit < Unlimited
  /\ \A c \in Configs \cup Updates : c.rate < Unlimited /\ c.min < Unlimited

VARIABLES
  limiters,  \* qm.limiters: the limiter of each host, or None
  lim,       \* the Limiter objects somebody still refers to
  tpc,       \* each task goroutine: idle, started (dispatched), running
  host, cfg, \* host and settings of its task
  listed,    \* the task has not been removed from qm.tasks
  ref,       \* SFTPClient.Limiter of its transfer, or None
  call,      \* UpdateHostLimiter between its two critical sections, or None
  orphans    \* history: transfers whose limiter was evicted although it was active

taskVars == <<tpc, host, cfg, listed, ref>>
vars == <<limiters, lim, taskVars, call, orphans>>

Ids == 1 .. MaxObjects
Limiter == [cur : Nat, max : Nat, min : Nat, lat : Nat, low : 0 .. RecoverAfter - 1]

Lower(a, b) == IF a < b THEN a ELSE b
Higher(a, b) == IF a < b THEN b ELSE a

(* Hosts with a task that is Pending, Running or Paused.  Users add, pause   *)
(* and remove tasks at any time: waiting is any set of hosts.                *)
ActiveHosts(waiting) ==
  waiting \cup {host[w] : w \in {v \in Transfers : tpc[v] # "idle" /\ listed[v]}}

(* A limiter to which no host of the map m, no transfer and no update refers *)
(* is garbage.  Fresh is the next object to use.                             *)
InUse(m) == (Range(m) \cup Range(ref) \cup (IF call = None THEN {} ELSE {call.id})) \ {None}
Referenced == InUse(limiters)
Fresh(m) == CHOOSE i \in Ids : i \notin InUse(m)
Heap(objects) == lim' = [i \in Referenced' |-> objects[i]]

Init ==
  /\ limiters = [h \in Hosts |-> None] /\ lim = <<>>
  /\ tpc = [w \in Transfers |-> "idle"] /\ listed = [w \in Transfers |-> FALSE]
  /\ host = [w \in Transfers |-> None] /\ cfg = [w \in Transfers |-> None]
  /\ ref = [w \in Transfers |-> None]
  /\ call = None /\ orphans = {}

-----------------------------------------------------------------------------
(* Operations of one limiter, each under its own mutex.                      *)

NewLimiter(limit, floor, lat) ==
  [cur |-> limit, max |-> limit, min |-> floor, lat |-> lat, low |-> 0]

UpdateConfig(limit, floor, lat) ==
  LET effective == IF limit = 0 THEN Unlimited ELSE limit
  IN  NewLimiter(effective, floor, lat)

(* Mutant: the floors are forgotten.                                         *)
MutThrottleDown(l) == [l EXCEPT !.cur = (l.cur * 4) \div 5, !.low = 0]
ThrottleDown(l) ==
  [l EXCEPT !.cur = Higher(Higher((l.cur * 4) \div 5, l.min), KB), !.low = 0]

SpeedUp(l) ==
  LET grown == IF l.cur * DeepRatio < l.max THEN (l.cur * 3 + 1) \div 2 ELSE (l.cur * 6 + 4) \div 5
  IN  [l EXCEPT !.cur = Lower(grown, l.max), !.low = 0]

Adapts(l) == l.lat > 0

(* Mutant: a latency equal to the maximum is not counted as low.             *)
MutRecordLatency(l, latency) ==
  CASE Adapts(l) /\ latency > l.lat -> ThrottleDown(l)
    [] Adapts(l) /\ latency < l.lat /\ l.cur < l.max ->
         IF l.low + 1 >= RecoverAfter THEN SpeedUp(l) ELSE [l EXCEPT !.low = @ + 1]
    [] OTHER -> l

(* Mutant: one low sample more is needed than are counted.                   *)
MutRecordCount(l, latency) ==
  CASE Adapts(l) /\ latency > l.lat -> ThrottleDown(l)
    [] Adapts(l) /\ latency <= l.lat /\ l.cur < l.max ->
         IF l.low + 1 > RecoverAfter THEN SpeedUp(l) ELSE [l EXCEPT !.low = @ + 1]
    [] OTHER -> l

RecordLatency(l, latency) ==
  CASE Adapts(l) /\ latency > l.lat -> ThrottleDown(l)
    [] Adapts(l) /\ latency <= l.lat /\ l.cur < l.max ->
         IF l.low + 1 >= RecoverAfter THEN SpeedUp(l) ELSE [l EXCEPT !.low = @ + 1]
    [] OTHER -> l

Floor(c) == IF c.min = 0 THEN DefaultFloor ELSE c.min

-----------------------------------------------------------------------------
(* Tasks are dispatched; a control action may remove them.                   *)

Dispatch(w, h, c) ==
  /\ tpc[w] = "idle" /\ <<h, c>> \in Uses
  /\ tpc' = [tpc EXCEPT ![w] = "started"] /\ host' = [host EXCEPT ![w] = h]
  /\ cfg' = [cfg EXCEPT ![w] = c] /\ listed' = [listed EXCEPT ![w] = TRUE]
  /\ UNCHANGED <<limiters, lim, ref, call, orphans>>

(* ControlTask "remove" of a running task: it stays at work for a while.     *)
Remove(w) ==
  /\ tpc[w] # "idle" /\ listed[w]
  /\ listed' = [listed EXCEPT ![w] = FALSE]
  /\ UNCHANGED <<limiters, lim, tpc, host, cfg, ref, call, orphans>>

-----------------------------------------------------------------------------
(* getOrCreateLimiter, one critical section of qm.mu.                        *)

Mapped == {h \in Hosts : limiters[h] # None}

(* Mutant: whichever host comes first makes room.                            *)
MutEvictions(active) ==
  IF Cardinality(Mapped) < MaxLimiters THEN {{}} ELSE {{v} : v \in Mapped}

(* Hosts whose limiter makes room: an inactive one, else an arbitrary one.   *)
Evictions(active) ==
  IF Cardinality(Mapped) < MaxLimiters THEN {{}}
  ELSE {{v} : v \in IF Mapped \ active # {} THEN Mapped \ active ELSE Mapped}

Evicted(gone) == [g \in Hosts |-> IF g \in gone THEN None ELSE limiters[g]]

Take(w, m, id) ==
  /\ limiters' = m /\ ref' = [ref EXCEPT ![w] = id]
  /\ tpc' = [tpc EXCEPT ![w] = "running"]
  /\ UNCHANGED <<host, cfg, listed, call>>

Unthrottled(w) ==
  /\ tpc[w] = "started" /\ cfg[w].rate = 0 /\ cfg[w].lat = 0
  /\ Take(w, limiters, None)
  /\ UNCHANGED <<lim, orphans>>

GetOrCreateLimiter(w) ==
  LET h == host[w]
      limit == IF cfg[w].rate = 0 THEN DefaultLimit ELSE cfg[w].rate
  IN  /\ tpc[w] = "started"
      /\ cfg[w].rate > 0 \/ cfg[w].lat > 0
      /\ \/ /\ limiters[h] # None
            /\ Take(w, limiters, limiters[h])
            /\ lim' = [lim EXCEPT ![limiters[h]] = UpdateConfig(limit, Floor(cfg[w]), cfg[w].lat)]
            /\ UNCHANGED orphans
         \/ /\ limiters[h] = None
            /\ \E waiting \in SUBSET Hosts : \E gone \in Evictions(ActiveHosts(waiting)) :
                 LET map == Evicted(gone)
                     id == Fresh(map)
                 IN  /\ InUse(map) # Ids
                     /\ Take(w, [map EXCEPT ![h] = id], id)
                     /\ orphans' = orphans \cup
                          {v \in Transfers : /\ host[v] \in gone /\ ref[v] # None
                                             /\ Mapped \subseteq ActiveHosts(waiting)}
                     /\ Heap([i \in DOMAIN lim \cup {id} |->
                                IF i = id THEN NewLimiter(limit, Floor(cfg[w]), cfg[w].lat)
                                ELSE lim[i]])

(* processTask ends: its client and its samplers are gone.                   *)
TransferEnd(w) ==
  /\ tpc[w] = "running"
  /\ tpc' = [tpc EXCEPT ![w] = "idle"] /\ listed' = [listed EXCEPT ![w] = FALSE]
  /\ host' = [host EXCEPT ![w] = None] /\ cfg' = [cfg EXCEPT ![w] = None]
  /\ ref' = [ref EXCEPT ![w] = None]
  /\ orphans' = orphans \ {w}
  /\ UNCHANGED <<limiters, call>>
  /\ Heap(lim)

-----------------------------------------------------------------------------
(* startLatencySampler of the transfer of w.                                 *)

Sampling(w) == tpc[w] = "running" /\ ref[w] # None /\ cfg[w].lat > 0

(* The sampler records the round trip time, or, after a failed probe, one    *)
(* more than the maximum latency it read before; the maximum may have been   *)
(* changed since, so that such a value may be any sample too.                *)
SamplerTick(w, latency) ==
  /\ Sampling(w)
  /\ lim' = [lim EXCEPT ![ref[w]] = RecordLatency(@, latency)]
  /\ UNCHANGED <<limiters, taskVars, call, orphans>>

-----------------------------------------------------------------------------
(* UpdateHostLimiter looks the limiter up under qm.mu and changes it later   *)
(* under its own mutex; it may have been evicted in between.                 *)

UpdateLookup(h, c) ==
  /\ call = None /\ limiters[h] # None /\ <<h, c>> \in Uses
  /\ call' = [id |-> limiters[h], cfg |-> c]
  /\ UNCHANGED <<limiters, lim, taskVars, orphans>>

UpdateApply ==
  LET c == call.cfg
      limit == IF c.rate = 0 /\ c.lat > 0 THEN DefaultLimit ELSE c.rate
  IN  /\ call # None /\ call' = None
      /\ UNCHANGED <<limiters, taskVars, orphans>>
      /\ Heap([lim EXCEPT ![call.id] = UpdateConfig(limit, Floor(c), c.lat)])

-----------------------------------------------------------------------------
Queue == \/ \E w \in Transfers, h \in Hosts, c \in Configs : Dispatch(w, h, c)
         \/ \E w \in Transfers : Remove(w) \/ TransferEnd(w)
Throttle == \/ \E w \in Transfers : Unthrottled(w) \/ GetOrCreateLimiter(w)
            \/ \E h \in Hosts, c \in Updates : UpdateLookup(h, c)
            \/ UpdateApply
Sampler(w) == \E x \in Samples : SamplerTick(w, x)

Next == Queue \/ Throttle \/ \E w \in Transfers : Sampler(w)

Spec == Init /\ [][Next]_vars

(* The sampler ticks every two seconds as long as its transfer runs.         *)
FairSpec == Spec /\ \A w \in Transfers : WF_vars(Sampler(w))

-----------------------------------------------------------------------------
TypeOK ==
  /\ orphans \subseteq Transfers
  /\ limiters \in [Hosts -> Ids \cup {None}]
  /\ DOMAIN lim = Referenced /\ Range(lim) \subseteq Limiter
  /\ tpc \in [Transfers -> {"idle", "started", "running"}]
  /\ listed \in [Transfers -> BOOLEAN]
  /\ host \in [Transfers -> Hosts \cup {None}] /\ cfg \in [Transfers -> Configs \cup {None}]
  /\ ref \in [Transfers -> Ids \cup {None}]
  /\ call = None \/ call \in [id : Ids, cfg : Updates]

(* However samples and updates interleave, a limiter that adapts is finite   *)
(* and stays between its floor and its maximum, unless the user's floor is   *)
(* above the maximum; it never gets below 1 KB/s unless the maximum is.      *)
RateInRange ==
  \A l \in Range(lim) :
    LET floor == Higher(l.min, KB)
    IN  IF l.lat = 0 THEN l.cur <= Higher(l.max, floor)
        ELSE /\ l.max < Unlimited
             /\ Lower(l.max, floor) <= l.cur /\ l.cur <= Higher(l.max, floor)

(* The map of limiters stays bounded, and as long as it need not evict an    *)
(* active host all tasks of a host share its limiter, so that an update      *)
(* reaches them all and the host's limit is not multiplied.                  *)
HostShares ==
  /\ Cardinality(Mapped) <= MaxLimiters
  /\ \A w \in Transfers : ref[w] # None /\ listed[w] /\ w \notin orphans =>
       ref[w] = limiters[host[w]]

(* When every sample from now on is low and nothing else happens, throttling *)
(* ends: each sampled limiter gets back to its maximum, however deep it was. *)
Calm == \E w \in Transfers, x \in Samples :
          SamplerTick(w, x) /\ (Adapts(lim[ref[w]]) => x <= lim[ref[w]].lat)
RateRecovers ==
  <>[][Calm]_vars =>
    \A w \in Transfers :
      []<>(Sampling(w) /\ Adapts(lim[ref[w]]) => lim[ref[w]].cur >= lim[ref[w]].max)

(* "throttling down" (client.go): a high latency never makes the rate higher *)
(* than it was.  The floor may be above the current rate and the maximum.    *)
ThrottleDownLowers ==
  [][\A w \in Transfers, x \in Samples :
       SamplerTick(w, x) /\ Adapts(lim[ref[w]]) /\ x > lim[ref[w]].lat =>
         lim'[ref[w]].cur <= lim[ref[w]].cur]_vars

=============================================================================
