---------------------------- MODULE SessionProofs ----------------------------
(* Proofs about Sessions for any number of concurrent requests, any tokens,  *)
(* any bound on the map and any time to live.                                *)
EXTENDS Sessions, FiniteSetTheorems, TLAPS

(* An entry belongs to a token that was handed out and not logged out, and   *)
(* expires when the token is TTL old.                                        *)
EntriesTrue ==
  \A t \in Listed : t \in Issued /\ t \notin out /\ left[t] + age[t] = TTL

(* A session that is neither over nor pushed out has its entry.              *)
LiveListed == \A t \in Issued : ~Over(t) /\ t \notin pushed => t \in Listed

(* A request knows the token it looks up, has read the expiry of that token, *)
(* and only goes on to drop an entry that is over.                           *)
RequestTrue ==
  \A r \in Requests :
    /\ rpc[r] = "idle" => cookie[r] = None
    /\ rpc[r] \in {"lookup", "compare", "drop"} => cookie[r] \in Issued
    /\ rpc[r] = "compare" => seen[r] + age[cookie[r]] = TTL
    /\ rpc[r] = "drop" => Over(cookie[r])

(* A request that came too late carries a token that is over, and has found  *)
(* no entry or one that has expired.                                         *)
EndedTrue ==
  \A r \in ended :
    /\ rpc[r] \notin {"idle", "served"}
    /\ cookie[r] \in Issued
    /\ Over(cookie[r])
    /\ rpc[r] = "compare" => seen[r] = 0

SessionInv == TypeOK /\ EntriesTrue /\ LiveListed /\ RequestTrue /\ EndedTrue
                /\ RefusedHasReason /\ SessionsBounded

LEMMA TimesKnown ==
  /\ TTL \in 0 .. TTL /\ 0 \in 0 .. TTL /\ 0 # TTL /\ TTL # None /\ 0 # None
  /\ \A n \in 0 .. TTL : n # None
BY SessionAssumption

LEMMA InitInv == Init => SessionInv
<1> SUFFICES ASSUME Init PROVE SessionInv
  OBVIOUS
<1>1. Listed = {} /\ Issued = {}
  BY DEF Init, Listed, Issued
<1>2. TypeOK
  BY <1>1 DEF Init, TypeOK
<1>3. EntriesTrue /\ LiveListed /\ RequestTrue /\ EndedTrue
  BY <1>1 DEF Init, EntriesTrue, LiveListed, RequestTrue, EndedTrue
<1>4. SessionsBounded
  BY <1>1, FS_EmptySet, SessionAssumption DEF SessionsBounded
<1> QED
  BY <1>2, <1>3, <1>4 DEF Init, SessionInv, RefusedHasReason

-----------------------------------------------------------------------------
(* A login                                                                   *)

(* The entries that stay when expired ones and the closest have made room.   *)
LEMMA LiveFacts ==
  ASSUME SessionInv
  PROVE  /\ Live \subseteq Listed /\ IsFiniteSet(Live) /\ IsFiniteSet(Listed)
         /\ \A t \in Listed \ Live : Over(t)
         /\ Cardinality(Live) \in Nat /\ Cardinality(Live) <= MaxSessions
         /\ Cardinality(Live) >= MaxSessions => Live = Listed \ Expired
<1>1. Live \subseteq Listed /\ Listed \subseteq Tokens
  BY DEF Live, Listed
<1>2. IsFiniteSet(Listed) /\ IsFiniteSet(Live)
  BY <1>1, FS_Subset, SessionAssumption
<1>3. Cardinality(Live) \in Nat /\ Cardinality(Listed) \in Nat
      /\ Cardinality(Live) <= Cardinality(Listed)
  BY <1>1, <1>2, FS_Subset, FS_CardinalityType
<1>4. \A t \in Listed \ Live : Over(t)
  <2> SUFFICES ASSUME NEW t \in Listed, t \notin Live PROVE age[t] = TTL
    BY DEF Over
  <2>1. left[t] = 0
    BY DEF Live, Expired
  <2>2. left[t] + age[t] = TTL /\ age[t] \in 0 .. TTL
    BY <1>1 DEF SessionInv, TypeOK, EntriesTrue, Issued
  <2> QED
    BY <2>1, <2>2, SessionAssumption
<1>5. Cardinality(Live) <= MaxSessions
  BY <1>3, SessionAssumption DEF SessionInv, SessionsBounded
<1>6. Cardinality(Live) >= MaxSessions => Live = Listed \ Expired
  BY <1>3, SessionAssumption DEF Live
<1> QED
  BY <1>1, <1>2, <1>3, <1>4, <1>5, <1>6

(* Whichever entry makes room: MaxSessions younger tokens push it out.       *)
LEMMA EvictedCrowded ==
  ASSUME SessionInv, NEW u \in Closest, Cardinality(Live) >= MaxSessions
  PROVE  Crowded(u)
<1> DEFINE Younger == {v \in Issued \ {u} : ~Over(v) /\ age[v] <= age[u]}
<1>1. u \in Live /\ IsFiniteSet(Live) /\ Cardinality(Live) \in Nat
  BY LiveFacts DEF Closest
<1>2. IsFiniteSet(Younger) /\ Cardinality(Younger) \in Nat
  <2>1. Younger \subseteq Tokens
    BY DEF Issued
  <2> QED
    BY <2>1, FS_Subset, FS_CardinalityType, SessionAssumption
<1>3. Live \ {u} \subseteq Younger
  <2> SUFFICES ASSUME NEW v \in Live, v # u
               PROVE  v \in Issued /\ ~Over(v) /\ age[v] <= age[u]
    OBVIOUS
  <2>1. v \in Listed /\ u \in Listed /\ left[v] # 0
    BY <1>1, LiveFacts DEF Expired
  <2>2. /\ v \in Issued /\ v \notin out /\ left[v] + age[v] = TTL
        /\ u \in Issued /\ left[u] + age[u] = TTL
    BY <2>1 DEF SessionInv, EntriesTrue
  <2>3. /\ left[v] \in 0 .. TTL /\ left[u] \in 0 .. TTL
        /\ age[v] \in 0 .. TTL /\ age[u] \in 0 .. TTL
    BY <2>1, <2>2 DEF SessionInv, TypeOK, Listed, Issued
  <2>4. left[u] <= left[v]
    BY DEF Closest
  <2>5. age[v] <= age[u] /\ age[v] # TTL
    BY <2>1, <2>2, <2>3, <2>4, SessionAssumption
  <2> QED
    BY <2>2, <2>5 DEF Over
<1>4. IsFiniteSet(Live \ {u}) /\ Cardinality(Live \ {u}) = Cardinality(Live) - 1
  BY <1>1, FS_RemoveElement
<1>5. Cardinality(Live \ {u}) <= Cardinality(Younger)
  BY <1>2, <1>3, FS_Subset
<1>6. MaxSessions <= 1 + Cardinality(Younger)
  BY <1>1, <1>2, <1>4, <1>5, SessionAssumption
<1> QED
  BY <1>6 DEF Crowded

(* What a login leaves of the map.                                           *)
LEMMA LoginFacts ==
  ASSUME SessionInv, NEW t \in Tokens, Login(t)
  PROVE  /\ left' \in [Tokens -> 0 .. TTL \cup {None}] /\ left'[t] = TTL
         /\ \A u \in Tokens \ {t} : left'[u] \in {left[u], None}
         /\ \A u \in Listed : left'[u] = None => Over(u) \/ Crowded(u)
         /\ Cardinality(Listed') <= MaxSessions
<1>1. PICK gone \in Evictions :
        left' = [u \in Tokens |-> IF u = t THEN TTL
                                  ELSE IF u \in Live \ gone THEN left[u] ELSE None]
  BY DEF Login
<1>2. left' \in [Tokens -> 0 .. TTL \cup {None}] /\ left'[t] = TTL
  BY <1>1, TimesKnown DEF SessionInv, TypeOK
<1>3. \A u \in Tokens \ {t} : left'[u] \in {left[u], None}
  BY <1>1
<1>4. \A u \in gone : u \in Closest /\ Cardinality(Live) >= MaxSessions
  BY DEF Evictions
<1>5. \A u \in Listed : left'[u] = None => Over(u) \/ Crowded(u)
  <2> SUFFICES ASSUME NEW u \in Listed, left'[u] = None PROVE Over(u) \/ Crowded(u)
    OBVIOUS
  <2>1. u \in Tokens /\ left[u] # None /\ u # t
    BY <1>2, TimesKnown DEF Listed
  <2>2. u \notin Live \/ u \in gone
    BY <1>1, <2>1
  <2> QED
    BY <1>4, <2>2, EvictedCrowded, LiveFacts
<1>6. Cardinality(Listed') <= MaxSessions
  <2> DEFINE Rest == Live \ gone
  <2>1. Listed' \subseteq Rest \cup {t}
    BY <1>1 DEF Listed
  <2>2. IsFiniteSet(Live) /\ Cardinality(Live) \in Nat /\ Cardinality(Live) <= MaxSessions
    BY LiveFacts
  <2>3. IsFiniteSet(Rest) /\ Cardinality(Rest) <= MaxSessions - 1
    <3>1. CASE Cardinality(Live) >= MaxSessions
      <4>1. PICK u \in Closest : gone = {u}
        BY <3>1 DEF Evictions
      <4>2. u \in Live
        BY DEF Closest
      <4>3. IsFiniteSet(Live \ {u}) /\ Cardinality(Live \ {u}) = Cardinality(Live) - 1
        BY <2>2, <4>2, FS_RemoveElement
      <4> QED
        BY <2>2, <4>1, <4>3, SessionAssumption
    <3>2. CASE ~(Cardinality(Live) >= MaxSessions)
      <4>1. Rest = Live
        BY <3>2 DEF Evictions
      <4> QED
        BY <2>2, <3>2, <4>1, SessionAssumption
    <3> QED
      BY <3>1, <3>2
  <2> HIDE DEF Rest
  <2>4. /\ IsFiniteSet(Rest \cup {t})
        /\ Cardinality(Rest \cup {t}) <= Cardinality(Rest) + 1
    <3>1. Cardinality(Rest) \in Nat
      BY <2>3, FS_CardinalityType
    <3>2. /\ IsFiniteSet(Rest \cup {t})
          /\ Cardinality(Rest \cup {t}) =
               IF t \in Rest THEN Cardinality(Rest) ELSE Cardinality(Rest) + 1
      BY <2>3, FS_AddElement
    <3> QED
      BY <3>1, <3>2
  <2>5. /\ Cardinality(Listed') <= Cardinality(Rest \cup {t})
        /\ Cardinality(Listed') \in Nat
    BY <2>1, <2>4, FS_Subset, FS_CardinalityType
  <2> QED
    BY <2>3, <2>4, <2>5, FS_CardinalityType, SessionAssumption
<1> QED
  BY <1>2, <1>3, <1>5, <1>6

LEMMA LoginStep ==
  ASSUME SessionInv, NEW t \in Tokens, Login(t)
  PROVE  SessionInv'
<1> USE SessionAssumption
<1>1. /\ left' \in [Tokens -> 0 .. TTL \cup {None}] /\ left'[t] = TTL
      /\ \A u \in Tokens \ {t} : left'[u] \in {left[u], None}
      /\ \A u \in Listed : left'[u] = None => Over(u) \/ Crowded(u)
  BY LoginFacts
<1>2. /\ t \notin Issued /\ age' = [age EXCEPT ![t] = 0] /\ out' = out
      /\ pushed' = pushed \cup {u \in Issued : Crowded(u)}
      /\ rpc' = rpc /\ cookie' = cookie /\ seen' = seen /\ ended' = ended
  BY DEF Login
<1>3. /\ age' \in [Tokens -> 0 .. TTL \cup {None}] /\ age'[t] = 0
      /\ \A u \in Tokens \ {t} : age'[u] = age[u]
      /\ Issued' = Issued \cup {t}
  BY <1>2, TimesKnown DEF SessionInv, TypeOK, Issued
<1>4. t \notin out /\ t \notin Listed
  BY <1>2 DEF SessionInv, TypeOK, EntriesTrue
<1>5. \A u \in Tokens \ {t} : Over(u)' <=> Over(u)
  BY <1>2, <1>3 DEF Over
<1>6. TypeOK'
  BY <1>1, <1>2, <1>3 DEF SessionInv, TypeOK
<1>7. EntriesTrue'
  <2> SUFFICES ASSUME NEW u \in Tokens, left'[u] # None
               PROVE  u \in Issued' /\ u \notin out' /\ left'[u] + age'[u] = TTL
    BY DEF EntriesTrue, Listed
  <2>1. CASE u = t
    BY <1>1, <1>2, <1>3, <1>4, <2>1
  <2>2. CASE u # t
    <3>1. left'[u] = left[u] /\ u \in Listed
      BY <1>1, <2>2 DEF Listed
    <3> QED
      BY <1>2, <1>3, <2>2, <3>1 DEF SessionInv, EntriesTrue
  <2> QED
    BY <2>1, <2>2
<1>8. LiveListed'
  <2> SUFFICES ASSUME NEW u \in Issued', ~Over(u)', u \notin pushed'
               PROVE  u \in Tokens /\ left'[u] # None
    BY DEF LiveListed, Listed
  <2>1. u \in Tokens
    BY DEF Issued
  <2>2. CASE u = t
    BY <1>1, <2>1, <2>2, TimesKnown
  <2>3. CASE u # t
    <3>1. u \in Issued /\ ~Over(u) /\ ~Crowded(u) /\ u \notin pushed
      BY <1>2, <1>3, <1>5, <2>1, <2>3
    <3>2. u \in Listed
      BY <3>1 DEF SessionInv, LiveListed
    <3> QED
      BY <1>1, <2>1, <3>1, <3>2
  <2> QED
    BY <2>2, <2>3
<1>9. \A u \in Issued : u \in Tokens \ {t}
  BY <1>2 DEF Issued
<1>10. RequestTrue' /\ EndedTrue'
  BY <1>2, <1>3, <1>5, <1>9 DEF SessionInv, RequestTrue, EndedTrue
<1>11. RefusedHasReason'
  <2> SUFFICES ASSUME NEW r \in Requests, rpc[r] = "refused", cookie[r] # None
               PROVE  Over(cookie[r])' \/ cookie[r] \in pushed'
    BY <1>2 DEF RefusedHasReason, Over
  <2>1. Over(cookie[r]) \/ cookie[r] \in pushed
    BY DEF SessionInv, RefusedHasReason
  <2>2. cookie[r] \in Tokens
    BY DEF SessionInv, TypeOK
  <2>3. CASE cookie[r] \in pushed
    BY <1>2, <2>3
  <2>4. CASE Over(cookie[r])
    <3>1. cookie[r] # t
      BY <1>2, <1>4, <2>4, TimesKnown DEF Over, Issued
    <3> QED
      BY <1>2, <1>5, <2>2, <2>4, <3>1 DEF Over
  <2> QED
    BY <2>1, <2>3, <2>4
<1> QED
  BY <1>6, <1>7, <1>8, <1>10, <1>11, LoginFacts DEF SessionInv, SessionsBounded

-----------------------------------------------------------------------------
(* Entries that go                                                           *)

(* An entry whose session is over can go: by a logout or by a late request.  *)
LEMMA EntryGoes ==
  ASSUME SessionInv, NEW t \in Tokens, t \in Issued,
         left' = [left EXCEPT ![t] = None],
         out' \in {out, out \cup {t}}, Over(t)', UNCHANGED <<age, pushed>>
  PROVE  /\ left' \in [Tokens -> 0 .. TTL \cup {None}] /\ out' \subseteq Issued
         /\ Issued' = Issued /\ Listed' = Listed \ {t}
         /\ \A u \in Tokens : Over(u) => Over(u)'
         /\ EntriesTrue' /\ LiveListed' /\ SessionsBounded'
<1>1. /\ left' \in [Tokens -> 0 .. TTL \cup {None}] /\ left'[t] = None
      /\ \A u \in Tokens \ {t} : left'[u] = left[u]
      /\ out' \subseteq Issued
  BY DEF SessionInv, TypeOK
<1>2. Issued' = Issued /\ Listed' = Listed \ {t}
  BY <1>1 DEF Issued, Listed
<1>3. \A u \in Tokens : Over(u) => Over(u)'
  BY DEF Over
<1>4. \A u \in Tokens \ {t} : Over(u)' => Over(u)
  BY DEF Over
<1>5. EntriesTrue'
  <2>1. \A u \in Listed' : u \in Tokens \ {t} /\ u \in Listed
    BY <1>2 DEF Listed
  <2> QED
    BY <1>1, <1>2, <2>1 DEF SessionInv, EntriesTrue
<1>6. LiveListed'
  <2> SUFFICES ASSUME NEW u \in Issued, ~Over(u)', u \notin pushed PROVE u \in Listed'
    BY <1>2 DEF LiveListed
  <2>1. u # t /\ u \in Tokens
    BY DEF Issued
  <2> QED
    BY <1>2, <1>3, <2>1 DEF SessionInv, LiveListed
<1>7. SessionsBounded'
  <2>1. IsFiniteSet(Listed) /\ Listed' \subseteq Listed
    BY <1>2, LiveFacts
  <2>2. IsFiniteSet(Listed') /\ Cardinality(Listed') <= Cardinality(Listed)
    BY <2>1, FS_Subset
  <2> QED
    BY <2>1, <2>2, FS_CardinalityType, SessionAssumption DEF SessionInv, SessionsBounded
<1> QED
  BY <1>1, <1>2, <1>3, <1>5, <1>6, <1>7

LEMMA LogoutStep ==
  ASSUME SessionInv, NEW t \in Tokens, Logout(t)
  PROVE  SessionInv'
<1>1. /\ t \in Issued /\ left' = [left EXCEPT ![t] = None] /\ out' = out \cup {t}
      /\ age' = age /\ pushed' = pushed
      /\ rpc' = rpc /\ cookie' = cookie /\ seen' = seen /\ ended' = ended
  BY DEF Logout
<1>2. Over(t)'
  BY <1>1 DEF Over
<1>3. /\ left' \in [Tokens -> 0 .. TTL \cup {None}] /\ out' \subseteq Issued
      /\ Issued' = Issued
      /\ \A u \in Tokens : Over(u) => Over(u)'
      /\ EntriesTrue' /\ LiveListed' /\ SessionsBounded'
  BY <1>1, <1>2, EntryGoes
<1>4. TypeOK'
  BY <1>1, <1>3 DEF SessionInv, TypeOK
<1>5. Issued \subseteq Tokens
  BY DEF Issued
<1>6. RequestTrue' /\ EndedTrue'
  <2>1. \A r \in Requests : Over(cookie[r]) => Over(cookie[r])'
    BY <1>1 DEF Over
  <2>2. ended \subseteq Requests
    BY DEF SessionInv, TypeOK
  <2> QED
    BY <1>1, <1>3, <2>1, <2>2 DEF SessionInv, RequestTrue, EndedTrue, Over
<1>7. RefusedHasReason'
  BY <1>1 DEF SessionInv, RefusedHasReason, Over
<1> QED
  BY <1>3, <1>4, <1>6, <1>7 DEF SessionInv

-----------------------------------------------------------------------------
(* A request that leaves the map alone                                       *)
LEMMA MapUntouched ==
  ASSUME SessionInv, UNCHANGED <<left, age, out, pushed>>
  PROVE  /\ EntriesTrue' /\ LiveListed' /\ SessionsBounded'
         /\ Issued' = Issued /\ \A u : Over(u)' <=> Over(u)
BY DEF SessionInv, EntriesTrue, LiveListed, SessionsBounded, Listed, Issued, Over

(* If moreover the other requests stay as they are, only its own part of the *)
(* invariant is to be shown.                                                 *)
Alone(r) ==
  /\ r \in Requests /\ UNCHANGED <<age, out, pushed>>
  /\ rpc' \in [Requests -> {"idle", "lookup", "compare", "drop", "served", "refused"}]
  /\ cookie' \in [Requests -> Tokens \cup {None}]
  /\ seen' \in [Requests -> 0 .. TTL \cup {None}]
  /\ \A q \in Requests \ {r} : rpc'[q] = rpc[q] /\ cookie'[q] = cookie[q] /\ seen'[q] = seen[q]
  /\ ended' \subseteq Requests /\ ended' \ {r} = ended \ {r}

Sound(r) ==
  /\ rpc[r] = "idle" => cookie[r] = None
  /\ rpc[r] \in {"lookup", "compare", "drop"} => cookie[r] \in Issued
  /\ rpc[r] = "compare" => seen[r] # None /\ seen[r] + age[cookie[r]] = TTL
  /\ rpc[r] = "drop" => Over(cookie[r])
  /\ r \in ended => rpc[r] \notin {"idle", "served"} /\ cookie[r] \in Issued /\ Over(cookie[r])
  /\ r \in ended /\ rpc[r] = "compare" => seen[r] = 0
  /\ rpc[r] = "refused" /\ cookie[r] # None => Over(cookie[r]) \/ cookie[r] \in pushed

LEMMA AllSound == ASSUME SessionInv PROVE \A r \in Requests : Sound(r)
BY DEF SessionInv, TypeOK, RequestTrue, EndedTrue, RefusedHasReason, Sound

LEMMA AloneStep ==
  ASSUME SessionInv, NEW r \in Requests, Alone(r), Sound(r)',
         left' \in [Tokens -> 0 .. TTL \cup {None}],
         EntriesTrue', LiveListed', SessionsBounded'
  PROVE  SessionInv'
<1>1. Issued' = Issued /\ out' = out /\ age' = age /\ pushed' = pushed
  BY DEF Alone, Issued
<1>2. \A q \in Requests : Sound(q)'
  <2> SUFFICES ASSUME NEW q \in Requests, q # r PROVE Sound(q)'
    OBVIOUS
  <2>1. Sound(q)
    BY AllSound
  <2>2. /\ rpc'[q] = rpc[q] /\ cookie'[q] = cookie[q] /\ seen'[q] = seen[q]
        /\ q \in ended' <=> q \in ended
    BY DEF Alone
  <2> QED
    BY <1>1, <2>1, <2>2 DEF Sound, Over
<1>3. TypeOK'
  BY <1>1, <1>2 DEF SessionInv, TypeOK, Alone, Sound
<1>4. RequestTrue' /\ EndedTrue' /\ RefusedHasReason'
  <2>1. ended' \subseteq Requests
    BY <1>3 DEF TypeOK
  <2>2. RequestTrue'
    BY <1>2 DEF RequestTrue, Sound
  <2>3. EndedTrue'
    BY <1>2, <2>1 DEF EndedTrue, Sound, Over
  <2>4. RefusedHasReason'
    BY <1>2 DEF RefusedHasReason, Sound, Over
  <2> QED
    BY <2>2, <2>3, <2>4
<1> QED
  BY <1>3, <1>4 DEF SessionInv

LEMMA RequestStep ==
  ASSUME SessionInv, NEW r \in Requests,
         NoCookie(r) \/ (\E t \in Tokens : Arrive(r, t))
         \/ Lookup(r) \/ Compare(r) \/ Answer(r)
  PROVE  SessionInv'
<1> USE SessionAssumption
<1>1. UNCHANGED <<left, age, out, pushed>>
  BY DEF NoCookie, Arrive, Lookup, Compare, Answer, history
<1>2. /\ EntriesTrue' /\ LiveListed' /\ SessionsBounded'
      /\ Issued' = Issued /\ \A u : Over(u)' <=> Over(u)
  BY <1>1, MapUntouched
<1>3. Sound(r) /\ TypeOK
  BY AllSound DEF SessionInv
<1>4. Alone(r) /\ Sound(r)'
  <2>1. CASE NoCookie(r)
    <3>1. rpc[r] = "idle" /\ rpc' = [rpc EXCEPT ![r] = "refused"]
          /\ cookie' = cookie /\ seen' = seen /\ ended' = ended
      BY <2>1 DEF NoCookie, Request, history
    <3>2. Alone(r)
      BY <1>1, <1>3, <3>1 DEF TypeOK, Alone
    <3> QED
      BY <1>1, <1>3, <3>1, <3>2 DEF Sound, TypeOK, Over
  <2>2. ASSUME NEW t \in Tokens, Arrive(r, t) PROVE Alone(r) /\ Sound(r)'
    <3>1. /\ t \in Issued /\ rpc[r] = "idle" /\ rpc' = [rpc EXCEPT ![r] = "lookup"]
          /\ cookie' = [cookie EXCEPT ![r] = t] /\ seen' = seen
          /\ ended' = IF Over(t) THEN ended \cup {r} ELSE ended
      BY <2>2 DEF Arrive, Request
    <3>2. Alone(r)
      BY <1>1, <1>3, <3>1 DEF TypeOK, Alone
    <3>3. rpc'[r] = "lookup" /\ cookie'[r] = t /\ r \notin ended
      BY <1>3, <3>1 DEF TypeOK, Sound
    <3>4. r \in ended' => Over(t)
      BY <3>1, <3>3
    <3> QED
      BY <1>1, <1>2, <3>1, <3>2, <3>3, <3>4 DEF Sound, Over
  <2>3. CASE Lookup(r)
    <3>1. /\ rpc[r] = "lookup" /\ cookie' = cookie /\ ended' = ended
          /\ rpc' = [rpc EXCEPT ![r] = IF left[cookie[r]] = None THEN "refused" ELSE "compare"]
          /\ seen' = [seen EXCEPT ![r] = left[cookie[r]]]
      BY <2>3 DEF Lookup, Request, history
    <3>2. cookie[r] \in Issued /\ cookie[r] \in Tokens
      BY <1>3, <3>1 DEF Sound, Issued
    <3>3. Alone(r)
      BY <1>1, <1>3, <3>1, <3>2 DEF TypeOK, Alone
    <3>4. CASE left[cookie[r]] = None
      <4>1. Over(cookie[r]) \/ cookie[r] \in pushed
        BY <3>2, <3>4 DEF SessionInv, LiveListed, Listed
      <4>2. rpc'[r] = "refused"
        BY <1>3, <3>1, <3>4 DEF TypeOK
      <4> QED
        BY <1>1, <1>2, <1>3, <3>1, <3>2, <3>3, <4>1, <4>2 DEF Sound, Over
    <3>5. CASE left[cookie[r]] # None
      <4>1. cookie[r] \in Listed
        BY <3>2, <3>5 DEF Listed
      <4>2. cookie[r] \notin out /\ left[cookie[r]] + age[cookie[r]] = TTL
        BY <4>1 DEF SessionInv, EntriesTrue
      <4>3. rpc'[r] = "compare" /\ seen'[r] = left[cookie[r]]
        BY <1>3, <3>1, <3>5 DEF TypeOK
      <4>4. left[cookie[r]] \in 0 .. TTL /\ age[cookie[r]] \in 0 .. TTL
        BY <1>3, <3>2, <3>5 DEF TypeOK, Issued
      <4>5. Over(cookie[r]) => left[cookie[r]] = 0
        BY <4>2, <4>4 DEF Over
      <4> QED
        BY <1>1, <1>2, <1>3, <3>1, <3>2, <3>3, <3>5, <4>2, <4>3, <4>5 DEF Sound, Over
    <3> QED
      BY <3>4, <3>5
  <2>4. CASE Compare(r)
    <3>1. /\ rpc[r] = "compare" /\ cookie' = cookie /\ ended' = ended
          /\ rpc' = [rpc EXCEPT ![r] = IF seen[r] > 0 THEN "served" ELSE "drop"]
          /\ seen' = [seen EXCEPT ![r] = None]
      BY <2>4 DEF Compare, Request, history
    <3>2. Alone(r)
      BY <1>1, <1>3, <3>1 DEF TypeOK, Alone
    <3>3. /\ cookie[r] \in Issued /\ cookie[r] \in Tokens /\ seen[r] \in 0 .. TTL
          /\ age[cookie[r]] \in 0 .. TTL /\ seen[r] + age[cookie[r]] = TTL
      BY <1>3, <3>1 DEF Sound, TypeOK, Issued
    <3>4. CASE seen[r] > 0
      <4>1. rpc'[r] = "served"
        BY <1>3, <3>1, <3>4 DEF TypeOK
      <4>2. r \notin ended
        BY <1>3, <3>1, <3>3, <3>4 DEF Sound
      <4> QED
        BY <3>1, <3>2, <4>1, <4>2 DEF Sound
    <3>5. CASE seen[r] = 0
      <4>1. rpc'[r] = "drop"
        BY <1>3, <3>1, <3>5 DEF TypeOK
      <4>2. Over(cookie[r])
        BY <3>3, <3>5 DEF Over
      <4> QED
        BY <1>1, <1>2, <3>1, <3>2, <3>3, <4>1, <4>2 DEF Sound, Over
    <3> QED
      BY <3>3, <3>4, <3>5
  <2>5. CASE Answer(r)
    <3>1. /\ rpc' = [rpc EXCEPT ![r] = "idle"] /\ cookie' = [cookie EXCEPT ![r] = None]
          /\ seen' = seen /\ ended' = ended \ {r}
      BY <2>5 DEF Answer
    <3>2. Alone(r) /\ rpc'[r] = "idle" /\ cookie'[r] = None /\ r \notin ended'
      BY <1>1, <1>3, <3>1 DEF TypeOK, Alone
    <3> QED
      BY <3>2 DEF Sound
  <2> QED
    BY <2>1, <2>2, <2>3, <2>4, <2>5
<1> QED
  BY <1>1, <1>2, <1>3, <1>4, AloneStep DEF TypeOK

LEMMA DropStep ==
  ASSUME SessionInv, NEW r \in Requests, Drop(r)
  PROVE  SessionInv'
<1>1. /\ rpc[r] = "drop" /\ rpc' = [rpc EXCEPT ![r] = "refused"]
      /\ cookie' = cookie /\ seen' = seen /\ ended' = ended
      /\ age' = age /\ out' = out /\ pushed' = pushed
      /\ left' = IF left[cookie[r]] = 0 THEN [left EXCEPT ![cookie[r]] = None] ELSE left
  BY DEF Drop, Request, history
<1>2. Sound(r) /\ TypeOK
  BY AllSound DEF SessionInv
<1>3. cookie[r] \in Issued /\ cookie[r] \in Tokens /\ Over(cookie[r]) /\ Over(cookie[r])'
  BY <1>1, <1>2 DEF Sound, Issued, Over
<1>4. Alone(r) /\ rpc'[r] = "refused"
  BY <1>1, <1>2 DEF TypeOK, Alone
<1>5. Issued' = Issued
  BY <1>1 DEF Issued
<1>6. Sound(r)'
  BY <1>1, <1>2, <1>3, <1>4, <1>5 DEF Sound, Over
<1>7. /\ left' \in [Tokens -> 0 .. TTL \cup {None}]
      /\ EntriesTrue' /\ LiveListed' /\ SessionsBounded'
  <2>1. CASE left[cookie[r]] = 0
    <3>1. left' = [left EXCEPT ![cookie[r]] = None]
      BY <1>1, <2>1
    <3> QED
      BY <1>1, <1>3, <3>1, EntryGoes
  <2>2. CASE left[cookie[r]] # 0
    <3>1. UNCHANGED <<left, age, out, pushed>>
      BY <1>1, <2>2
    <3> QED
      BY <1>2, <3>1, MapUntouched DEF TypeOK
  <2> QED
    BY <2>1, <2>2
<1> QED
  BY <1>4, <1>6, <1>7, AloneStep

-----------------------------------------------------------------------------
(* Time passes: entries, what requests have read of them and the tokens age  *)
(* together.                                                                 *)
LEMMA TickStep ==
  ASSUME SessionInv, Tick
  PROVE  SessionInv'
<1> USE SessionAssumption
<1>1. TypeOK
  BY DEF SessionInv
<1>2. /\ rpc' = rpc /\ cookie' = cookie /\ out' = out /\ pushed' = pushed /\ ended' = ended
      /\ left' = [t \in Tokens |-> Sooner(left[t])]
      /\ seen' = [r \in Requests |-> Sooner(seen[r])]
      /\ age' = [t \in Tokens |-> IF t \in Issued THEN Lower(age[t] + 1, TTL) ELSE None]
  BY DEF Tick
<1>3. \A n \in 0 .. TTL \cup {None} :
        /\ Sooner(n) \in 0 .. TTL \cup {None} /\ (Sooner(n) = None <=> n = None)
        /\ n = 0 => Sooner(n) = 0
  BY DEF Sooner
<1>4. \A n, m \in 0 .. TTL :
        /\ Lower(m + 1, TTL) \in 0 .. TTL
        /\ m = TTL => Lower(m + 1, TTL) = TTL
        /\ n + m = TTL => Sooner(n) + Lower(m + 1, TTL) = TTL
  BY DEF Sooner, Lower
<1>5. \A t \in Issued : t \in Tokens /\ age[t] \in 0 .. TTL /\ age'[t] = Lower(age[t] + 1, TTL)
  BY <1>1, <1>2 DEF Issued, TypeOK
<1>6. \A t \in Issued : age'[t] \in 0 .. TTL
  BY <1>4, <1>5
<1>7. age' \in [Tokens -> 0 .. TTL \cup {None}]
  BY <1>2, <1>5, <1>6
<1>8. Issued' = Issued
  BY <1>2, <1>6, TimesKnown DEF Issued
<1>9. /\ left' \in [Tokens -> 0 .. TTL \cup {None}] /\ Listed' = Listed
      /\ \A t \in Tokens : left'[t] = Sooner(left[t])
  BY <1>1, <1>2, <1>3 DEF TypeOK, Listed
<1>10. \A t \in Tokens : Over(t) => Over(t)'
  <2> SUFFICES ASSUME NEW t \in Tokens, age[t] = TTL PROVE age'[t] = TTL
    BY <1>2 DEF Over
  <2>1. t \in Issued
    BY TimesKnown DEF Issued
  <2> QED
    BY <1>4, <1>5, <2>1
<1>11. seen' \in [Requests -> 0 .. TTL \cup {None}]
       /\ \A r \in Requests : seen'[r] = Sooner(seen[r]) /\ seen[r] \in 0 .. TTL \cup {None}
  BY <1>1, <1>2, <1>3 DEF TypeOK
<1>12. TypeOK'
  BY <1>1, <1>2, <1>3, <1>7, <1>8, <1>9, <1>11 DEF TypeOK
<1>13. EntriesTrue'
  <2> SUFFICES ASSUME NEW t \in Listed
               PROVE  t \in Issued /\ t \notin out /\ left'[t] + age'[t] = TTL
    BY <1>2, <1>8, <1>9 DEF EntriesTrue
  <2>1. t \in Issued /\ t \notin out /\ left[t] + age[t] = TTL
    BY DEF SessionInv, EntriesTrue
  <2>2. left[t] \in 0 .. TTL /\ t \in Tokens
    BY <1>1 DEF TypeOK, Listed
  <2> QED
    BY <1>4, <1>5, <1>9, <2>1, <2>2
<1>14. LiveListed'
  BY <1>2, <1>5, <1>8, <1>9, <1>10 DEF SessionInv, LiveListed
<1>15. \A r \in Requests : Sound(r)'
  <2> SUFFICES ASSUME NEW r \in Requests PROVE Sound(r)'
    OBVIOUS
  <2>1. Sound(r)
    BY AllSound
  <2>2. /\ Issued \subseteq Tokens /\ cookie'[r] = cookie[r]
        /\ cookie[r] \in Tokens \cup {None}
        /\ cookie[r] \in Tokens /\ Over(cookie[r]) => Over(cookie[r])'
    BY <1>1, <1>2, <1>10 DEF TypeOK, Issued, Over
  <2>3. rpc[r] = "compare" =>
          seen'[r] # None /\ seen'[r] + age'[cookie[r]] = TTL /\ (seen[r] = 0 => seen'[r] = 0)
    BY <1>3, <1>4, <1>5, <1>11, <2>1 DEF Sound
  <2> QED
    BY <1>2, <1>8, <2>1, <2>2, <2>3 DEF Sound
<1>16. RequestTrue' /\ EndedTrue' /\ RefusedHasReason'
  <2>1. ended' \subseteq Requests
    BY <1>12 DEF TypeOK
  <2>2. RequestTrue'
    BY <1>15 DEF RequestTrue, Sound
  <2>3. EndedTrue'
    BY <1>15, <2>1 DEF EndedTrue, Sound, Over
  <2>4. RefusedHasReason'
    BY <1>15 DEF RefusedHasReason, Sound, Over
  <2> QED
    BY <2>2, <2>3, <2>4
<1>17. SessionsBounded'
  BY <1>9 DEF SessionInv, SessionsBounded
<1> QED
  BY <1>12, <1>13, <1>14, <1>16, <1>17 DEF SessionInv

-----------------------------------------------------------------------------
LEMMA NextInv == SessionInv /\ [Next]_vars => SessionInv'
<1> SUFFICES ASSUME SessionInv, [Next]_vars PROVE SessionInv'
  OBVIOUS
<1>1. ASSUME NEW t \in Tokens, Login(t) \/ Logout(t) PROVE SessionInv'
  BY <1>1, LoginStep, LogoutStep
<1>2. ASSUME NEW r \in Requests,
             NoCookie(r) \/ (\E t \in Tokens : Arrive(r, t))
             \/ Lookup(r) \/ Compare(r) \/ Answer(r)
      PROVE  SessionInv'
  BY <1>2, RequestStep
<1>3. ASSUME NEW r \in Requests, Drop(r) PROVE SessionInv'
  BY <1>3, DropStep
<1>4. CASE Tick
  BY <1>4, TickStep
<1>5. CASE UNCHANGED vars
  BY <1>5 DEF vars, history, SessionInv, TypeOK, EntriesTrue, LiveListed, RequestTrue,
     EndedTrue, RefusedHasReason, SessionsBounded, Listed, Issued, Over
<1> QED
  BY <1>1, <1>2, <1>3, <1>4, <1>5 DEF Next

(* Every reachable state satisfies the invariant of the session map.         *)
THEOREM SessionInvariant == Spec => []SessionInv
BY InitInv, NextInv, PTL DEF Spec

(* The variables of the session map keep their types.                        *)
THEOREM SessionsTyped == Spec => []TypeOK
<1>1. SessionInv => TypeOK
  BY DEF SessionInv
<1> QED
  BY <1>1, SessionInvariant, PTL

(* addSession keeps the map within maxSessions, for any bound.               *)
THEOREM MapStaysBounded == Spec => []SessionsBounded
<1>1. SessionInv => SessionsBounded
  BY DEF SessionInv
<1> QED
  BY <1>1, SessionInvariant, PTL

(* validSession serves no request that arrived after its session had ended.  *)
THEOREM NoLateService == Spec => []EndedNotServed
<1>1. SessionInv => EndedNotServed
  BY DEF SessionInv, EndedTrue, EndedNotServed
<1> QED
  BY <1>1, SessionInvariant, PTL

(* Eviction by addSession and the second section of validSession take no     *)
(* session away that was neither over nor among the MaxSessions youngest.    *)
THEOREM RefusalsJustified == Spec => []RefusedHasReason
<1>1. SessionInv => RefusedHasReason
  BY DEF SessionInv
<1> QED
  BY <1>1, SessionInvariant, PTL

=============================================================================
