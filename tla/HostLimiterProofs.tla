-------------------------- MODULE HostLimiterProofs --------------------------
(* Proofs about the limiters of all hosts (HostLimiter), for any hosts,      *)
(* transfers, settings and latencies and any size of the map.                *)
EXTENDS HostLimiter, FiniteSetTheorems, TLAPS

USE DEF Ids

-----------------------------------------------------------------------------
(* One limiter.  InRange is what RateInRange says of it.                     *)

InRange(l) ==
  IF l.lat = 0 THEN l.cur <= Higher(l.max, Higher(l.min, KB))
  ELSE /\ l.max < Unlimited
       /\ Lower(l.max, Higher(l.min, KB)) <= l.cur
       /\ l.cur <= Higher(l.max, Higher(l.min, KB))

(* No setting has a floor above its limit, and so no limiter that adapts.    *)
Fits(limit, floor) == Higher(floor, KB) <= limit
FloorsFit ==
  \A c \in Configs \cup Updates : Fits(IF c.rate = 0 THEN DefaultLimit ELSE c.rate, Floor(c))

Sound(l) ==
  /\ l \in Limiter /\ InRange(l)
  /\ FloorsFit /\ l.lat # 0 => Fits(l.max, l.min)

LEMMA NewSound ==
  ASSUME NEW limit \in Nat, NEW floor \in Nat, NEW lat \in Nat,
         lat = 0 \/ limit < Unlimited, FloorsFit /\ lat # 0 => Fits(limit, floor)
  PROVE  Sound(NewLimiter(limit, floor, lat))
BY LimiterAssumption DEF NewLimiter, Sound, Fits, Limiter, InRange, Higher, Lower

(* A limit of zero turns a limiter off, which UpdateHostLimiter does only    *)
(* when the limiter does not adapt.                                          *)
LEMMA UpdateSound ==
  ASSUME NEW limit \in Nat, NEW floor \in Nat, NEW lat \in Nat, limit < Unlimited,
         lat > 0 => limit > 0, FloorsFit /\ lat # 0 => Fits(limit, floor)
  PROVE  Sound(UpdateConfig(limit, floor, lat))
BY NewSound, LimiterAssumption DEF UpdateConfig

(* An adaption changes the rate and starts to count again.                   *)
Rated(l, rate) == [l EXCEPT !.cur = rate, !.low = 0]

LEMMA RateSet ==
  ASSUME NEW l \in Limiter, NEW rate \in Nat
  PROVE  /\ Rated(l, rate) \in Limiter /\ Rated(l, rate).cur = rate
         /\ Rated(l, rate).max = l.max /\ Rated(l, rate).min = l.min
         /\ Rated(l, rate).lat = l.lat
<1>1. RecoverAfter \in Nat \ {0}
  BY LimiterAssumption
<1>2. 0 \in 0 .. RecoverAfter - 1
  BY <1>1
<1>3. [l EXCEPT !.cur = rate] \in Limiter
  BY DEF Limiter
<1> QED
  BY <1>2, <1>3 DEF Limiter, Rated

LEMMA LowerCut == \A n \in Nat : (n * 4) \div 5 \in Nat /\ (n * 4) \div 5 <= n
OBVIOUS

LEMMA ThrottleSound ==
  ASSUME NEW l, Sound(l), Adapts(l)
  PROVE  Sound(ThrottleDown(l))
<1> DEFINE cut == (l.cur * 4) \div 5
           new == Higher(Higher(cut, l.min), KB)
<1>1. /\ l \in Limiter /\ l.cur \in Nat /\ l.max \in Nat /\ l.min \in Nat /\ l.lat \in Nat
      /\ KB \in Nat /\ RecoverAfter \in Nat \ {0}
  BY LimiterAssumption DEF Sound, Limiter
<1>2. cut \in Nat /\ cut <= l.cur
  BY <1>1, LowerCut
<1> HIDE DEF cut
<1>3. new \in Nat
  BY <1>1, <1>2 DEF Higher
<1>4. /\ ThrottleDown(l) \in Limiter /\ ThrottleDown(l).cur = new
      /\ ThrottleDown(l).max = l.max /\ ThrottleDown(l).min = l.min
      /\ ThrottleDown(l).lat = l.lat
  <2>1. ThrottleDown(l) = Rated(l, new)
    BY DEF ThrottleDown, Rated, cut
  <2> HIDE DEF new
  <2>2. /\ Rated(l, new) \in Limiter /\ Rated(l, new).cur = new
        /\ Rated(l, new).max = l.max /\ Rated(l, new).min = l.min
        /\ Rated(l, new).lat = l.lat
    BY <1>1, <1>3, RateSet
  <2> QED
    BY <2>1, <2>2
<1>5. l.lat # 0 /\ InRange(l)
  BY <1>1 DEF Adapts, Sound
<1>6. InRange(ThrottleDown(l))
  BY <1>1, <1>2, <1>4, <1>5 DEF InRange, Higher, Lower
<1> QED
  BY <1>4, <1>6 DEF Sound, Fits

LEMMA SpeedUpSound ==
  ASSUME NEW l, Sound(l), Adapts(l), l.cur < l.max
  PROVE  Sound(SpeedUp(l))
<1> DEFINE grown == IF l.cur * DeepRatio < l.max THEN (l.cur * 3 + 1) \div 2
                                                ELSE (l.cur * 6 + 4) \div 5
           new == Lower(grown, l.max)
<1>1. /\ l \in Limiter /\ l.cur \in Nat /\ l.max \in Nat /\ l.min \in Nat /\ l.lat \in Nat
      /\ KB \in Nat
  BY LimiterAssumption DEF Sound, Limiter
<1>2. grown \in Nat /\ grown >= l.cur
  <2>1. \A n \in Nat : /\ (n * 3 + 1) \div 2 \in Nat /\ (n * 3 + 1) \div 2 >= n
                       /\ (n * 6 + 4) \div 5 \in Nat /\ (n * 6 + 4) \div 5 >= n
    OBVIOUS
  <2> QED
    BY <1>1, <2>1
<1>3. SpeedUp(l) = Rated(l, new)
  BY DEF SpeedUp, Rated
<1> HIDE DEF grown
<1>4. new \in Nat
  BY <1>1, <1>2 DEF Lower
<1>5. /\ SpeedUp(l) \in Limiter /\ SpeedUp(l).cur = new
      /\ SpeedUp(l).max = l.max /\ SpeedUp(l).min = l.min /\ SpeedUp(l).lat = l.lat
  <2> HIDE DEF new
  <2>1. /\ Rated(l, new) \in Limiter /\ Rated(l, new).cur = new
        /\ Rated(l, new).max = l.max /\ Rated(l, new).min = l.min
        /\ Rated(l, new).lat = l.lat
    BY <1>1, <1>4, RateSet
  <2> QED
    BY <1>3, <2>1
<1>6. l.lat # 0 /\ InRange(l)
  BY <1>1 DEF Adapts, Sound
<1>7. InRange(SpeedUp(l))
  BY <1>1, <1>2, <1>5, <1>6 DEF InRange, Higher, Lower
<1> QED
  BY <1>5, <1>7 DEF Sound, Fits

LEMMA LatencySound ==
  ASSUME NEW l, Sound(l), NEW latency \in Nat
  PROVE  Sound(RecordLatency(l, latency))
<1>1. /\ l \in Limiter /\ l.cur \in Nat /\ l.max \in Nat /\ l.lat \in Nat
      /\ l.low \in 0 .. RecoverAfter - 1 /\ RecoverAfter \in Nat \ {0}
  BY LimiterAssumption DEF Sound, Limiter
<1>2. CASE Adapts(l) /\ latency > l.lat
  <2>1. RecordLatency(l, latency) = ThrottleDown(l)
    BY <1>1, <1>2 DEF RecordLatency
  <2> QED
    BY <1>2, <2>1, ThrottleSound
<1>3. CASE ~(Adapts(l) /\ latency <= l.lat /\ l.cur < l.max) /\ ~(Adapts(l) /\ latency > l.lat)
  BY <1>3 DEF RecordLatency
<1>4. CASE Adapts(l) /\ latency <= l.lat /\ l.cur < l.max
  <2>1. RecordLatency(l, latency) = IF l.low + 1 >= RecoverAfter THEN SpeedUp(l)
                                    ELSE [l EXCEPT !.low = @ + 1]
    BY <1>1, <1>4 DEF RecordLatency
  <2>2. CASE l.low + 1 >= RecoverAfter
    BY <1>4, <2>1, <2>2, SpeedUpSound
  <2>3. CASE ~(l.low + 1 >= RecoverAfter)
    <3> DEFINE new == [l EXCEPT !.low = l.low + 1]
    <3>1. l.low + 1 \in 0 .. RecoverAfter - 1
      BY <1>1, <2>3
    <3>2. /\ new \in Limiter /\ new.cur = l.cur /\ new.max = l.max
          /\ new.min = l.min /\ new.lat = l.lat
      BY <1>1, <3>1 DEF Limiter
    <3>3. RecordLatency(l, latency) = new
      BY <2>1, <2>3
    <3> HIDE DEF new
    <3> QED
      BY <3>2, <3>3 DEF Sound, InRange, Fits
  <2> QED
    BY <2>2, <2>3
<1> QED
  BY <1>2, <1>3, <1>4

-----------------------------------------------------------------------------
(* The inductive invariant.  A transfer that does not run has no limiter,    *)
(* one that was dispatched has a host and settings; exactly the limiters     *)
(* somebody refers to exist, and each is sound; the map is finite.           *)

Fields ==
  /\ orphans \subseteq Transfers
  /\ limiters \in [Hosts -> Ids \cup {None}]
  /\ tpc \in [Transfers -> {"idle", "started", "running"}]
  /\ listed \in [Transfers -> BOOLEAN]
  /\ host \in [Transfers -> Hosts \cup {None}] /\ cfg \in [Transfers -> Configs \cup {None}]
  /\ ref \in [Transfers -> Ids \cup {None}]
  /\ call = None \/ call \in [id : Ids, cfg : Updates]

Rooted ==
  \A w \in Transfers :
    /\ tpc[w] # "running" => ref[w] = None
    /\ tpc[w] # "idle" => host[w] \in Hosts /\ cfg[w] \in Configs

HeapSound == DOMAIN lim = Referenced /\ \A i \in DOMAIN lim : Sound(lim[i])

Bounded == IsFiniteSet(Mapped) /\ Cardinality(Mapped) <= MaxLimiters

Shared ==
  \A w \in Transfers : ref[w] # None /\ listed[w] /\ w \notin orphans =>
    ref[w] = limiters[host[w]]

LimInv == Fields /\ Rooted /\ HeapSound /\ Bounded /\ Shared

(* What a map of limiters, the transfers and a pending update refer to.      *)
Refers(m, r, c, i) ==
  /\ i # None
  /\ \/ \E h \in Hosts : m[h] = i
     \/ \E w \in Transfers : r[w] = i
     \/ c # None /\ c.id = i

LEMMA ReferencedIs ==
  /\ Fields  => \A i : i \in Referenced <=> Refers(limiters, ref, call, i)
  /\ Fields' => \A i : i \in Referenced' <=> Refers(limiters', ref', call', i)
BY DEF Fields, Referenced, InUse, Refers, Range

LEMMA InUseIs ==
  ASSUME Fields, NEW m \in [Hosts -> Ids \cup {None}]
  PROVE  /\ \A i : i \in InUse(m) <=> Refers(m, ref, call, i)
         /\ InUse(m) \subseteq Ids
BY DEF Fields, InUse, Refers, Range

LEMMA ReferencedIds == Fields => Referenced \subseteq Ids
<1> SUFFICES ASSUME Fields, NEW i \in Referenced PROVE i \in Ids
  OBVIOUS
<1> QED
  BY ReferencedIs DEF Refers, Fields

(* The objects that are kept stay sound when all that is referred to is.     *)
LEMMA HeapKept ==
  ASSUME NEW objects, Heap(objects), Referenced' \subseteq DOMAIN objects,
         \A i \in Referenced' : Sound(objects[i])
  PROVE  HeapSound'
BY DEF Heap, HeapSound

(* Nothing happens to the objects, or only sound values are given to them.   *)
LEMMA HeapSame ==
  ASSUME HeapSound, Referenced' = Referenced, UNCHANGED lim
  PROVE  HeapSound'
BY DEF HeapSound

LEMMA HeapSet ==
  ASSUME HeapSound, Referenced' = Referenced, NEW i \in DOMAIN lim, NEW l, Sound(l),
         lim' = [lim EXCEPT ![i] = l]
  PROVE  HeapSound'
BY DEF HeapSound

LEMMA MapSame ==
  ASSUME Bounded, UNCHANGED limiters
  PROVE  Bounded'
<1>1. Mapped' = Mapped
  BY DEF Mapped
<1> QED
  BY <1>1 DEF Bounded

-----------------------------------------------------------------------------
LEMMA LimInit == Init => LimInv
<1> SUFFICES ASSUME Init PROVE LimInv
  OBVIOUS
<1>1. Fields /\ Rooted /\ Shared
  BY DEF Init, Fields, Rooted, Shared
<1>2. HeapSound
  <2>1. Referenced = {}
    BY <1>1, ReferencedIs DEF Init, Refers
  <2>2. DOMAIN lim = {}
    BY DEF Init
  <2> QED
    BY <2>1, <2>2 DEF HeapSound
<1>3. Mapped = {}
  BY DEF Init, Mapped
<1>4. Bounded
  BY <1>3, FS_EmptySet, LimiterAssumption DEF Bounded
<1> QED
  BY <1>1, <1>2, <1>4 DEF LimInv

(* Dispatching and removing tasks.                                           *)
LEMMA DispatchStep ==
  ASSUME LimInv, NEW w \in Transfers, NEW h \in Hosts, NEW c \in Configs, Dispatch(w, h, c)
  PROVE  LimInv'
<1> USE DEF LimInv
<1>1. Fields'
  BY DEF Fields, Dispatch
<1>2. Rooted'
  BY DEF Fields, Rooted, Dispatch
<1>3. Referenced' = Referenced
  BY DEF Dispatch, Referenced, InUse
<1>4. HeapSound' /\ Bounded'
  BY <1>3, HeapSame, MapSame DEF Dispatch
<1>5. Shared'
  BY DEF Fields, Rooted, Shared, Dispatch
<1> QED
  BY <1>1, <1>2, <1>4, <1>5

LEMMA RemoveStep ==
  ASSUME LimInv, NEW w \in Transfers, Remove(w)
  PROVE  LimInv'
<1> USE DEF LimInv
<1>1. Fields' /\ Rooted' /\ Shared'
  BY DEF Fields, Rooted, Shared, Remove
<1>2. Referenced' = Referenced
  BY DEF Remove, Referenced, InUse
<1>3. HeapSound' /\ Bounded'
  BY <1>2, HeapSame, MapSame DEF Remove
<1> QED
  BY <1>1, <1>3

LEMMA EndStep ==
  ASSUME LimInv, NEW w \in Transfers, TransferEnd(w)
  PROVE  LimInv'
<1> USE DEF LimInv
<1>1. Fields' /\ Rooted' /\ Shared'
  BY DEF Fields, Rooted, Shared, TransferEnd
<1>2. Referenced' \subseteq DOMAIN lim
  <2> SUFFICES ASSUME NEW i \in Referenced' PROVE i \in Referenced
    BY DEF HeapSound
  <2>1. Refers(limiters', ref', call', i)
    BY <1>1, ReferencedIs
  <2>2. Refers(limiters, ref, call, i)
    BY <2>1 DEF Refers, TransferEnd, Fields
  <2> QED
    BY <2>2, ReferencedIs
<1>3. HeapSound'
  BY <1>2, HeapKept DEF TransferEnd, HeapSound
<1>4. Bounded'
  BY MapSame DEF TransferEnd
<1> QED
  BY <1>1, <1>3, <1>4

(* A transfer that is not throttled.                                         *)
LEMMA UnthrottledStep ==
  ASSUME LimInv, NEW w \in Transfers, Unthrottled(w)
  PROVE  LimInv'
<1> USE DEF LimInv
<1>1. ref' = ref
  BY DEF Fields, Rooted, Unthrottled, Take
<1>2. Fields' /\ Rooted' /\ Shared'
  BY <1>1 DEF Fields, Rooted, Shared, Unthrottled, Take
<1>3. Referenced' = Referenced
  BY <1>1 DEF Unthrottled, Take, Referenced, InUse
<1>4. HeapSound' /\ Bounded'
  BY <1>3, HeapSame, MapSame DEF Unthrottled, Take
<1> QED
  BY <1>2, <1>4

-----------------------------------------------------------------------------
(* getOrCreateLimiter: the limiter of the host is found and updated, or a    *)
(* new one is put into the map, which first evicts one when it is full.      *)

Limit(w) == IF cfg[w].rate = 0 THEN DefaultLimit ELSE cfg[w].rate

LEMMA Settings ==
  ASSUME NEW c \in Configs \cup Updates
  PROVE  /\ c.rate \in Nat /\ c.min \in Nat /\ c.lat \in Nat /\ Floor(c) \in Nat
         /\ c.rate < Unlimited
         /\ DefaultLimit \in Nat \ {0} /\ DefaultLimit < Unlimited
BY LimiterAssumption DEF Floor

LEMMA FoundStep ==
  ASSUME LimInv, NEW w \in Transfers, tpc[w] = "started",
         limiters[host[w]] # None, Take(w, limiters, limiters[host[w]]),
         lim' = [lim EXCEPT ![limiters[host[w]]] =
                   UpdateConfig(Limit(w), Floor(cfg[w]), cfg[w].lat)],
         UNCHANGED orphans
  PROVE  LimInv'
<1> USE DEF LimInv
<1>1. host[w] \in Hosts /\ cfg[w] \in Configs
  BY DEF Rooted
<1>2. Fields' /\ Rooted' /\ Shared'
  BY <1>1 DEF Fields, Rooted, Shared, Take
<1>3. Referenced' = Referenced
  <2>1. \A i : Refers(limiters', ref', call', i) <=> Refers(limiters, ref, call, i)
    BY <1>1 DEF Refers, Take, Rooted, Fields
  <2> QED
    BY <1>2, <2>1, ReferencedIs
<1>4. limiters[host[w]] \in DOMAIN lim
  BY <1>1, ReferencedIs DEF HeapSound, Refers
<1>5. Sound(UpdateConfig(Limit(w), Floor(cfg[w]), cfg[w].lat))
  <2>1. Limit(w) \in Nat \ {0} /\ Limit(w) < Unlimited
    BY <1>1, Settings DEF Limit
  <2>2. FloorsFit => Fits(Limit(w), Floor(cfg[w]))
    BY <1>1 DEF FloorsFit, Limit
  <2> HIDE DEF Limit
  <2> QED
    BY <1>1, <2>1, <2>2, Settings, UpdateSound
<1>6. HeapSound' /\ Bounded'
  BY <1>3, <1>4, <1>5, HeapSet, MapSame DEF Take
<1> QED
  BY <1>2, <1>6

(* At most MaxLimiters hosts are mapped when one was added.                  *)
LEMMA MapGrows ==
  ASSUME Bounded, NEW h \in Hosts, limiters[h] = None,
         NEW active, NEW gone \in Evictions(active), NEW id,
         limiters' = [Evicted(gone) EXCEPT ![h] = id]
  PROVE  Bounded'
<1>1. MaxLimiters \in Nat \ {0} /\ IsFiniteSet(Mapped) /\ Cardinality(Mapped) \in Nat
  BY LimiterAssumption, FS_CardinalityType DEF Bounded
<1> DEFINE kept == Mapped \ gone
<1>2. Mapped' \subseteq kept \cup {h}
  BY DEF Mapped, Evicted
<1>3. IsFiniteSet(kept) /\ Cardinality(kept) \in Nat /\ Cardinality(kept) < MaxLimiters
  <2>1. CASE Cardinality(Mapped) < MaxLimiters
    <3>1. kept \subseteq Mapped
      OBVIOUS
    <3>2. /\ IsFiniteSet(kept) /\ Cardinality(kept) <= Cardinality(Mapped)
          /\ Cardinality(kept) \in Nat
      BY <1>1, <3>1, FS_Subset, FS_CardinalityType
    <3> QED
      BY <1>1, <2>1, <3>2
  <2>2. CASE ~(Cardinality(Mapped) < MaxLimiters)
    <3>1. Cardinality(Mapped) = MaxLimiters
      BY <1>1, <2>2 DEF Bounded
    <3>2. Mapped # {}
      BY <1>1, <3>1, FS_EmptySet
    <3>3. PICK v \in Mapped : gone = {v}
      BY <2>2, <3>2 DEF Evictions
    <3>4. /\ IsFiniteSet(Mapped \ {v})
          /\ Cardinality(Mapped \ {v}) = Cardinality(Mapped) - 1
      BY <1>1, <3>3, FS_RemoveElement
    <3> QED
      BY <1>1, <3>1, <3>3, <3>4
  <2> QED
    BY <2>1, <2>2
<1> HIDE DEF kept
<1>4. /\ IsFiniteSet(kept \cup {h}) /\ Cardinality(kept \cup {h}) <= MaxLimiters
      /\ Cardinality(kept \cup {h}) \in Nat
  <2>1. /\ IsFiniteSet(kept \cup {h})
        /\ Cardinality(kept \cup {h}) = IF h \in kept THEN Cardinality(kept)
                                        ELSE Cardinality(kept) + 1
    BY <1>3, FS_AddElement
  <2> QED
    BY <1>1, <1>3, <2>1
<1>5. IsFiniteSet(Mapped') /\ Cardinality(Mapped') <= Cardinality(kept \cup {h})
      /\ Cardinality(Mapped') \in Nat
  BY <1>2, <1>4, FS_Subset, FS_CardinalityType
<1> QED
  BY <1>1, <1>4, <1>5 DEF Bounded

(* The limiter id is made for the host of w, and those of gone make room.    *)
Made(w, waiting, gone, id) ==
  /\ InUse(Evicted(gone)) # Ids
  /\ Take(w, [Evicted(gone) EXCEPT ![host[w]] = id], id)
  /\ orphans' = orphans \cup
       {v \in Transfers : /\ host[v] \in gone /\ ref[v] # None
                          /\ Mapped \subseteq ActiveHosts(waiting)}
  /\ Heap([i \in DOMAIN lim \cup {id} |->
             IF i = id THEN NewLimiter(Limit(w), Floor(cfg[w]), cfg[w].lat) ELSE lim[i]])

LEMMA MadeStep ==
  ASSUME LimInv, NEW w \in Transfers, tpc[w] = "started", limiters[host[w]] = None,
         NEW waiting \in SUBSET Hosts, NEW gone \in Evictions(ActiveHosts(waiting)),
         NEW id, id = Fresh(Evicted(gone)), Made(w, waiting, gone, id)
  PROVE  LimInv'
<1> USE DEF Made
<1> USE DEF LimInv
<1> DEFINE h == host[w]
           made == NewLimiter(Limit(w), Floor(cfg[w]), cfg[w].lat)
           objects == [i \in DOMAIN lim \cup {id} |-> IF i = id THEN made ELSE lim[i]]
<1>1. h \in Hosts /\ cfg[w] \in Configs /\ ref[w] = None
  BY DEF Rooted
<1>2. /\ Evicted(gone) \in [Hosts -> Ids \cup {None}]
      /\ \A g \in Hosts : Evicted(gone)[g] = IF g \in gone THEN None ELSE limiters[g]
  BY DEF Fields, Evicted
<1>7. id \in Ids /\ id \notin InUse(Evicted(gone))
  <2>1. \E i \in Ids : i \notin InUse(Evicted(gone))
    BY <1>2, InUseIs
  <2> QED
    BY <2>1 DEF Fresh
<1>8. /\ limiters' = [Evicted(gone) EXCEPT ![h] = id] /\ ref' = [ref EXCEPT ![w] = id]
      /\ tpc' = [tpc EXCEPT ![w] = "running"]
      /\ UNCHANGED <<host, cfg, listed, call>>
  BY DEF Take
<1>3. Fields' /\ Rooted'
  <2>1. limiters' \in [Hosts -> Ids \cup {None}]
    BY <1>2, <1>7, <1>8
  <2>2. ref' \in [Transfers -> Ids \cup {None}]
    BY <1>7, <1>8 DEF Fields
  <2> QED
    BY <1>1, <1>8, <2>1, <2>2 DEF Fields, Rooted
<1>4. Shared'
  <2> SUFFICES ASSUME NEW v \in Transfers, ref'[v] # None, listed'[v], v \notin orphans'
               PROVE  ref'[v] = limiters'[host'[v]]
    BY DEF Shared
  <2>1. CASE v = w
    BY <1>1, <1>2, <1>8, <2>1 DEF Fields
  <2>2. CASE v # w
    <3>1. /\ ref'[v] = ref[v] /\ ref[v] # None /\ listed[v] /\ v \notin orphans
          /\ host' = host /\ tpc[v] = "running" /\ host[v] \in Hosts
      BY <1>8, <2>2 DEF Fields, Rooted
    <3>2. ref[v] = limiters[host[v]] /\ host[v] # h
      BY <3>1 DEF Shared
    <3>3. host[v] \notin gone
      <4> SUFFICES ASSUME host[v] \in gone PROVE FALSE
        OBVIOUS
      <4>1. host[v] \in ActiveHosts(waiting)
        BY <3>1 DEF ActiveHosts
      <4>2. Mapped \ ActiveHosts(waiting) = {}
        BY <4>1 DEF Evictions
      <4> QED
        BY <3>1, <4>2
    <3> QED
      BY <1>2, <1>8, <3>1, <3>2, <3>3
  <2> QED
    BY <2>1, <2>2
<1>5. HeapSound'
  <2>1. Sound(made)
    <3>1. Limit(w) \in Nat /\ Limit(w) < Unlimited
      BY <1>1, Settings DEF Limit
    <3>2. FloorsFit => Fits(Limit(w), Floor(cfg[w]))
      BY <1>1 DEF FloorsFit, Limit
    <3> HIDE DEF Limit
    <3> QED
      BY <1>1, <3>1, <3>2, Settings, NewSound
  <2>2. Referenced' \subseteq Referenced \cup {id}
    <3> SUFFICES ASSUME NEW i \in Referenced', i # id PROVE i \in Referenced
      OBVIOUS
    <3>1. Refers(limiters', ref', call', i)
      BY <1>3, ReferencedIs
    <3>2. Refers(limiters, ref, call, i)
      BY <1>2, <1>8, <3>1 DEF Refers, Fields
    <3> QED
      BY <3>2, ReferencedIs
  <2>3. Heap(objects)
    OBVIOUS
  <2>4. DOMAIN objects = DOMAIN lim \cup {id}
    OBVIOUS
  <2>5. \A i \in DOMAIN objects : Sound(objects[i])
    BY <2>1 DEF HeapSound
  <2> HIDE DEF objects
  <2> QED
    BY <2>2, <2>3, <2>4, <2>5, HeapKept DEF HeapSound
<1>6. Bounded'
  BY <1>1, <1>8, MapGrows
<1> QED
  BY <1>3, <1>4, <1>5, <1>6

LEMMA LimiterStep ==
  ASSUME LimInv, NEW w \in Transfers, GetOrCreateLimiter(w)
  PROVE  LimInv'
<1>1. tpc[w] = "started"
  BY DEF GetOrCreateLimiter
<1>2. CASE limiters[host[w]] # None
  BY <1>1, <1>2, FoundStep DEF GetOrCreateLimiter, Limit
<1>3. CASE limiters[host[w]] = None
  <2>1. PICK waiting \in SUBSET Hosts :
          \E gone \in Evictions(ActiveHosts(waiting)) : Made(w, waiting, gone, Fresh(Evicted(gone)))
    BY <1>3 DEF GetOrCreateLimiter, Made, Limit
  <2>2. PICK gone \in Evictions(ActiveHosts(waiting)) : Made(w, waiting, gone, Fresh(Evicted(gone)))
    BY <2>1
  <2>3. PICK id : id = Fresh(Evicted(gone)) /\ Made(w, waiting, gone, id)
    BY <2>2
  <2> QED
    BY <1>1, <1>3, <2>3, MadeStep
<1> QED
  BY <1>2, <1>3

-----------------------------------------------------------------------------
(* Samples and updates change limiters only.                                 *)
LEMMA SampleStep ==
  ASSUME LimInv, NEW w \in Transfers, NEW x \in Samples, SamplerTick(w, x)
  PROVE  LimInv'
<1> USE DEF LimInv
<1>1. Fields' /\ Rooted' /\ Shared'
  BY DEF Fields, Rooted, Shared, SamplerTick, taskVars
<1>2. Referenced' = Referenced
  BY DEF SamplerTick, taskVars, Referenced, InUse
<1>3. ref[w] \in DOMAIN lim
  BY ReferencedIs DEF HeapSound, Refers, SamplerTick, Sampling
<1>4. Sound(RecordLatency(lim[ref[w]], x))
  BY <1>3, LatencySound, LimiterAssumption DEF HeapSound
<1>5. lim' = [lim EXCEPT ![ref[w]] = RecordLatency(lim[ref[w]], x)]
  BY DEF SamplerTick
<1>6. HeapSound' /\ Bounded'
  BY <1>2, <1>3, <1>4, <1>5, HeapSet, MapSame DEF SamplerTick
<1> QED
  BY <1>1, <1>6

LEMMA LookupStep ==
  ASSUME LimInv, NEW h \in Hosts, NEW c \in Updates, UpdateLookup(h, c)
  PROVE  LimInv'
<1> USE DEF LimInv
<1>1. Fields' /\ Rooted' /\ Shared'
  BY DEF Fields, Rooted, Shared, UpdateLookup, taskVars
<1>2. Referenced' = Referenced
  <2>1. \A i : Refers(limiters', ref', call', i) <=> Refers(limiters, ref, call, i)
    BY DEF Refers, UpdateLookup, taskVars
  <2> QED
    BY <1>1, <2>1, ReferencedIs
<1>3. HeapSound' /\ Bounded'
  BY <1>2, HeapSame, MapSame DEF UpdateLookup
<1> QED
  BY <1>1, <1>3

LEMMA ApplyStep ==
  ASSUME LimInv, UpdateApply
  PROVE  LimInv'
<1> USE DEF LimInv
<1> DEFINE c == call.cfg
           limit == IF c.rate = 0 /\ c.lat > 0 THEN DefaultLimit ELSE c.rate
           objects == [lim EXCEPT ![call.id] = UpdateConfig(limit, Floor(c), c.lat)]
<1>1. call # None /\ c \in Updates
  BY DEF UpdateApply, Fields
<1>2. Fields' /\ Rooted' /\ Shared'
  BY DEF Fields, Rooted, Shared, UpdateApply, taskVars
<1>3. Referenced' \subseteq Referenced
  <2> SUFFICES ASSUME NEW i \in Referenced' PROVE i \in Referenced
    OBVIOUS
  <2>1. Refers(limiters', ref', call', i)
    BY <1>2, ReferencedIs
  <2>2. Refers(limiters, ref, call, i)
    BY <2>1 DEF Refers, UpdateApply, taskVars
  <2> QED
    BY <2>2, ReferencedIs
<1>4. Sound(UpdateConfig(limit, Floor(c), c.lat))
  <2>1. limit \in Nat /\ limit < Unlimited /\ (c.lat > 0 => limit > 0)
    BY <1>1, Settings
  <2>2. FloorsFit /\ c.lat # 0 => Fits(limit, Floor(c))
    <3>1. c.lat # 0 => limit = IF c.rate = 0 THEN DefaultLimit ELSE c.rate
      BY <1>1, Settings
    <3> QED
      BY <1>1, <3>1 DEF FloorsFit
  <2> HIDE DEF limit
  <2> QED
    BY <1>1, <2>1, <2>2, Settings, UpdateSound
<1>5. Heap(objects)
  BY DEF UpdateApply
<1>6. DOMAIN objects = DOMAIN lim /\ \A i \in DOMAIN objects : Sound(objects[i])
  BY <1>4 DEF HeapSound
<1> HIDE DEF objects
<1>7. HeapSound'
  BY <1>3, <1>5, <1>6, HeapKept DEF HeapSound
<1>8. Bounded'
  BY MapSame DEF UpdateApply
<1> QED
  BY <1>2, <1>7, <1>8

-----------------------------------------------------------------------------
LEMMA LimNext == LimInv /\ [Next]_vars => LimInv'
<1> SUFFICES ASSUME LimInv, [Next]_vars PROVE LimInv'
  OBVIOUS
<1>1. CASE UNCHANGED vars
  <2>1. Referenced' = Referenced
    BY <1>1 DEF vars, taskVars, Referenced, InUse
  <2>2. HeapSound' /\ Bounded'
    BY <1>1, <2>1, HeapSame, MapSame DEF LimInv, vars, taskVars
  <2>3. Fields' /\ Rooted' /\ Shared'
    BY <1>1 DEF LimInv, Fields, Rooted, Shared, vars, taskVars
  <2> QED
    BY <2>2, <2>3 DEF LimInv
<1>2. CASE Queue
  BY <1>2, DispatchStep, RemoveStep, EndStep DEF Queue
<1>3. CASE Throttle
  BY <1>3, UnthrottledStep, LimiterStep, LookupStep, ApplyStep DEF Throttle
<1>4. CASE \E w \in Transfers : Sampler(w)
  BY <1>4, SampleStep DEF Sampler
<1> QED
  BY <1>1, <1>2, <1>3, <1>4 DEF Next

LEMMA LimiterInvariant == Spec => []LimInv
BY LimInit, LimNext, PTL DEF Spec

LEMMA LimImplies == LimInv => TypeOK /\ RateInRange /\ HostShares
<1> SUFFICES ASSUME LimInv PROVE TypeOK /\ RateInRange /\ HostShares
  OBVIOUS
<1> USE DEF LimInv
<1>1. \A l \in Range(lim) : Sound(l)
  BY DEF HeapSound, Range
<1>2. TypeOK
  BY <1>1 DEF Fields, HeapSound, TypeOK, Sound
<1>3. RateInRange
  BY <1>1 DEF RateInRange, Sound, InRange
<1>4. HostShares
  BY DEF HostShares, Bounded, Shared
<1> QED
  BY <1>2, <1>3, <1>4

(* Every limiter that the map, a transfer or an update in progress refers to *)
(* exists, and nothing else is kept: no eviction by getOrCreateLimiter takes *)
(* away a limiter from a transfer, whatever the size of the map.             *)
THEOREM TypeCorrect == Spec => []TypeOK
BY LimiterInvariant, LimImplies, PTL

(* However RecordLatency, UpdateConfig and getOrCreateLimiter interleave, a  *)
(* limiter that adapts is finite and between its floor and its maximum, for  *)
(* any latencies and settings whose rates are finite.                        *)
THEOREM RateBounded == Spec => []RateInRange
BY LimiterInvariant, LimImplies, PTL

(* getOrCreateLimiter keeps at most MaxLimiters limiters, and all tasks of a *)
(* host that are on the list share the one in the map unless it had to evict *)
(* the limiter of an active host.                                            *)
THEOREM SharedByHost == Spec => []HostShares
BY LimiterInvariant, LimImplies, PTL

(* The only way in which ThrottleDown can raise a rate is a floor above the  *)
(* limit: where no setting has one, a high latency never does.  (The default *)
(* floor is above any limit that is set lower than 10 KB/s.)                 *)
THEOREM ThrottlingLowers == FloorsFit => (Spec => ThrottleDownLowers)
<1> SUFFICES ASSUME FloorsFit PROVE Spec => ThrottleDownLowers
  OBVIOUS
<1>1. LimInv /\ [Next]_vars =>
        [\A w \in Transfers, x \in Samples :
           SamplerTick(w, x) /\ Adapts(lim[ref[w]]) /\ x > lim[ref[w]].lat =>
             lim'[ref[w]].cur <= lim[ref[w]].cur]_vars
  <2> SUFFICES ASSUME LimInv, NEW w \in Transfers, NEW x \in Samples, SamplerTick(w, x),
                      Adapts(lim[ref[w]]), x > lim[ref[w]].lat
               PROVE  lim'[ref[w]].cur <= lim[ref[w]].cur
    OBVIOUS
  <2> DEFINE l == lim[ref[w]]
             cut == (l.cur * 4) \div 5
             new == Higher(Higher(cut, l.min), KB)
  <2>1. ref[w] \in DOMAIN lim
    BY ReferencedIs DEF LimInv, HeapSound, Refers, SamplerTick, Sampling
  <2>2. Sound(l)
    BY <2>1 DEF LimInv, HeapSound
  <2>3. /\ l \in Limiter /\ l.cur \in Nat /\ l.max \in Nat /\ l.min \in Nat /\ l.lat \in Nat
        /\ KB \in Nat /\ RecoverAfter \in Nat \ {0}
    BY <2>2, LimiterAssumption DEF Sound, Limiter
  <2>4. lim'[ref[w]] = ThrottleDown(l)
    <3>1. lim'[ref[w]] = RecordLatency(l, x)
      BY <2>1 DEF SamplerTick
    <3>2. x \in Nat
      BY LimiterAssumption
    <3>3. RecordLatency(l, x) = ThrottleDown(l)
      BY <2>3, <3>2 DEF RecordLatency
    <3> QED
      BY <3>1, <3>3
  <2>5. cut \in Nat /\ cut <= l.cur
    BY <2>3, LowerCut
  <2>6. Higher(l.min, KB) <= l.cur
    BY <2>2, <2>3 DEF Sound, InRange, Fits, Adapts, Lower, Higher
  <2> HIDE DEF cut
  <2>7. new \in Nat /\ new <= l.cur
    BY <2>3, <2>5, <2>6 DEF Higher
  <2>8. ThrottleDown(l).cur = new
    <3>1. ThrottleDown(l) = Rated(l, new)
      BY DEF ThrottleDown, Rated, cut
    <3> HIDE DEF new, l
    <3>2. Rated(l, new).cur = new
      BY <2>3, <2>7, RateSet
    <3> QED
      BY <3>1, <3>2
  <2> QED
    BY <2>4, <2>7, <2>8
<1> QED
  BY <1>1, LimiterInvariant, PTL DEF Spec, ThrottleDownLowers

=============================================================================
