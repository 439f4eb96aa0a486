------------------------------- MODULE Sessions -------------------------------
(* The sessions of the web UI (api/server.go): tokens with an expiry in a    *)
(* bounded map, looked up and dropped in separate critical sections by       *)
(* concurrent requests while others log in and out and time passes.          *)
(* AuthPassword is set; without one no handler looks at sessions.            *)
EXTENDS Integers, FiniteSets

CONSTANTS Requests,      \* concurrent requests to authenticated handlers
          Tokens,        \* tokens that generateToken may return
          MaxSessions,   \* maxSessions, 1000
          TTL,           \* sessionTTL
          None

ASSUME SessionAssumption ==
  /\ MaxSessions \in Nat \ {0} /\ TTL \in Nat \ {0}
  /\ IsFiniteSet(Tokens) /\ None \notin 0 .. TTL

VARIABLES
  left,     \* sessions: time until the expiry of each token's entry, or None
  rpc,      \* each request: idle, lookup, compare, drop, served, refused
  cookie,   \* the token it carries, or None
  seen,     \* time until the expiry it has read, or None
  age,      \* history: time since each token was handed out, or None; up to TTL
  out,      \* history: tokens that were logged out
  pushed,   \* history: tokens that MaxSessions tokens as young or younger were live with
  ended     \* history: requests whose session was over when they arrived

history == <<age, out, pushed, ended>>
vars == <<left, rpc, cookie, seen, history>>

Lower(a, b) == IF a < b THEN a ELSE b
Listed == {t \in Tokens : left[t] # None}
Issued == {t \in Tokens : age[t] # None}
Over(t) == t \in out \/ age[t] = TTL

Init ==
  /\ left = [t \in Tokens |-> None] /\ age = [t \in Tokens |-> None]
  /\ rpc = [r \in Requests |-> "idle"] /\ cookie = [r \in Requests |-> None]
  /\ seen = [r \in Requests |-> None]
  /\ out = {} /\ pushed = {} /\ ended = {}

Request(r, from, to) == rpc[r] = from /\ rpc' = [rpc EXCEPT ![r] = to]

-----------------------------------------------------------------------------
(* addSession after a successful login: expired entries make room, else the  *)
(* entry that is closest to its expiry.  Go's map has no order, so any of    *)
(* several that are equally close may be the one.                            *)
Expired == {t \in Listed : left[t] = 0}

Live == IF Cardinality(Listed) >= MaxSessions THEN Listed \ Expired ELSE Listed
Closest == {t \in Live : \A u \in Live : left[t] <= left[u]}

Evictions == IF Cardinality(Live) >= MaxSessions THEN {{t} : t \in Closest} ELSE {{}}

(* The tokens that a login at this moment pushes out of a map of the         *)
(* MaxSessions youngest.                                                     *)
Crowded(t) ==
  MaxSessions <= 1 + Cardinality({u \in Issued \ {t} : ~Over(u) /\ age[u] <= age[t]})

(* Mutant: an arbitrary session makes room.                                  *)
MutLogin(t) ==
  /\ t \notin Issued
  /\ \E u \in Live \cup {None} :
       /\ (u = None) = (Cardinality(Live) < MaxSessions)
       /\ left' = [v \in Tokens |-> IF v = t THEN TTL
                                    ELSE IF v \in Live \ {u} THEN left[v] ELSE None]
  /\ pushed' = pushed \cup {u \in Issued : Crowded(u)}
  /\ age' = [age EXCEPT ![t] = 0]
  /\ UNCHANGED <<rpc, cookie, seen, out, ended>>

Login(t) ==
  /\ t \notin Issued
  /\ \E gone \in Evictions :
       left' = [u \in Tokens |-> IF u = t THEN TTL
                                 ELSE IF u \in Live \ gone THEN left[u] ELSE None]
  /\ pushed' = pushed \cup {u \in Issued : Crowded(u)}
  /\ age' = [age EXCEPT ![t] = 0]
  /\ UNCHANGED <<rpc, cookie, seen, out, ended>>

Logout(t) ==
  /\ t \in Issued
  /\ left' = [left EXCEPT ![t] = None]
  /\ out' = out \cup {t}
  /\ UNCHANGED <<rpc, cookie, seen, age, pushed, ended>>

-----------------------------------------------------------------------------
(* A request to a handler behind withAuth, or for the page itself, which is  *)
(* index.html if the session is valid and login.html otherwise.              *)
NoCookie(r) ==
  /\ Request(r, "idle", "refused")
  /\ UNCHANGED <<left, cookie, seen, history>>

Arrive(r, t) ==
  /\ t \in Issued /\ Request(r, "idle", "lookup")
  /\ cookie' = [cookie EXCEPT ![r] = t]
  /\ ended' = IF Over(t) THEN ended \cup {r} ELSE ended
  /\ UNCHANGED <<left, seen, age, out, pushed>>

(* validSession: the read of the expiry, ...                                 *)
Lookup(r) ==
  /\ Request(r, "lookup", IF left[cookie[r]] = None THEN "refused" ELSE "compare")
  /\ seen' = [seen EXCEPT ![r] = left[cookie[r]]]
  /\ UNCHANGED <<left, cookie, history>>

(* ... its comparison with the time, outside the lock, ...                   *)
MutCompare(r) ==   \* mutant: a session is valid at its expiry
  /\ Request(r, "compare", IF seen[r] >= 0 THEN "served" ELSE "drop")
  /\ seen' = [seen EXCEPT ![r] = None]
  /\ UNCHANGED <<left, cookie, history>>

Compare(r) ==
  /\ Request(r, "compare", IF seen[r] > 0 THEN "served" ELSE "drop")
  /\ seen' = [seen EXCEPT ![r] = None]
  /\ UNCHANGED <<left, cookie, history>>

(* ... and the second section, which reads the entry again.                  *)
Drop(r) ==
  /\ Request(r, "drop", "refused")
  /\ left' = IF left[cookie[r]] = 0 THEN [left EXCEPT ![cookie[r]] = None] ELSE left
  /\ UNCHANGED <<cookie, seen, history>>

Answer(r) ==
  /\ rpc[r] \in {"served", "refused"} /\ rpc' = [rpc EXCEPT ![r] = "idle"]
  /\ cookie' = [cookie EXCEPT ![r] = None]
  /\ ended' = ended \ {r}
  /\ UNCHANGED <<left, seen, age, out, pushed>>

Sooner(n) == IF n = None \/ n = 0 THEN n ELSE n - 1
Tick ==
  /\ left' = [t \in Tokens |-> Sooner(left[t])]
  /\ seen' = [r \in Requests |-> Sooner(seen[r])]
  /\ age' = [t \in Tokens |-> IF t \in Issued THEN Lower(age[t] + 1, TTL) ELSE None]
  /\ UNCHANGED <<rpc, cookie, out, pushed, ended>>

Next ==
  \/ \E t \in Tokens : Login(t) \/ Logout(t)
  \/ \E r \in Requests : \/ \E t \in Tokens : Arrive(r, t)
                         \/ NoCookie(r) \/ Lookup(r) \/ Compare(r) \/ Drop(r) \/ Answer(r)
  \/ Tick

Spec == Init /\ [][Next]_vars

-----------------------------------------------------------------------------
TypeOK ==
  /\ left \in [Tokens -> 0 .. TTL \cup {None}] /\ age \in [Tokens -> 0 .. TTL \cup {None}]
  /\ rpc \in [Requests -> {"idle", "lookup", "compare", "drop", "served", "refused"}]
  /\ cookie \in [Requests -> Tokens \cup {None}]
  /\ seen \in [Requests -> 0 .. TTL \cup {None}]
  /\ out \subseteq Issued /\ pushed \subseteq Issued /\ ended \subseteq Requests
  /\ \A r \in Requests : rpc[r] = "compare" => seen[r] # None

(* The map is bounded, whatever logins come together and whichever entries   *)
(* expired requests drop meanwhile.                                          *)
SessionsBounded == Cardinality(Listed) <= MaxSessions

(* A request that arrives after its session was logged out or has expired is *)
(* not served, whatever the two sections of validSession see of the map.     *)
EndedNotServed == \A r \in ended : rpc[r] # "served"

(* A request with a cookie is only refused if its session was logged out or  *)
(* has expired, or if MaxSessions younger sessions have pushed it out: no    *)
(* eviction, no drop and no other session's end takes it away.               *)
RefusedHasReason ==
  \A r \in Requests : rpc[r] = "refused" /\ cookie[r] # None =>
    Over(cookie[r]) \/ cookie[r] \in pushed

=============================================================================
