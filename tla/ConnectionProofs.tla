--------------------------- MODULE ConnectionProofs ---------------------------
(* Proofs about Connections for any number of clients, hosts and keys.       *)
EXTENDS Connections, TLAPS

(* A client knows whom it dials, and the key it was presented.               *)
ClientTrue ==
  \A c \in Conns :
    /\ pc[c] \in {"dial", "check", "pin"} => host[c] \in Hosts
    /\ pc[c] \in {"check", "pin"} => key[c] \in Keys

Typed == TypeOK /\ ClientTrue

(* The file lists a host once, and a line without its newline is there.      *)
FileTrue == OnePerHost(lines) /\ tail # "comment" /\ (tail = "open" => lines # <<>>)

(* What was accepted is pinned, except that a torn file may have lost the    *)
(* line of the host.                                                         *)
TrustPinned ==
  \A h \in Hosts : \A k \in trusted[h] : Listed(h) \/ tail # "torn" => Pinned(h, k)

(* Only one client is about to append, for a host that has no line yet.      *)
PinAlone ==
  \A c \in Conns : pc[c] = "pin" =>
    /\ tail # "torn" /\ ~Listed(host[c]) /\ trusted[host[c]] = {}
    /\ \A d \in Conns : pc[d] = "pin" => d = c

KeyInv == Typed /\ FileTrue /\ TrustPinned /\ PinAlone /\ OneKeyPerHost

-----------------------------------------------------------------------------
(* Types                                                                     *)

LEMMA SpoiledTyped ==
  ASSUME NEW f \in Seq(Line), f # <<>>
  PROVE  SubSeq(f, 1, Len(f) - 1) \in Seq(Line)
  OBVIOUS

LEMMA InitTyped == Init => Typed
<1> SUFFICES ASSUME Init PROVE Typed
  OBVIOUS
<1>1. lines \in Seq(Line)
  <2>1. <<>> \in Seq(Line) /\ \A l \in Line : <<l>> \in Seq(Line)
    OBVIOUS
  <2>2. \A l, m \in Line : <<l, m>> \in Seq(Line)
    OBVIOUS
  <2>3. lines = <<>> \/ (\E l \in Line : lines = <<l>>) \/ (\E l, m \in Line : lines = <<l, m>>)
    BY DEF Init
  <2> QED
    BY <2>1, <2>2, <2>3
<1>2. tail \in Tails
  BY ConnAssumption DEF Init, Tails
<1> QED
  BY <1>1, <1>2 DEF Init, Typed, TypeOK, ClientTrue

(* Every write to the file leaves lines and a known end.                     *)
LEMMA WriteTyped ==
  ASSUME Typed, NEW c \in Conns, pc[c] = "pin", tail = "open" => lines # <<>>,
         WriteLine(c) \/ Leftover(c)
  PROVE  lines' \in Seq(Line) /\ tail' \in Tails
<1>1. MyLine(c) \in Line /\ lines \in Seq(Line) /\ tail \in Tails
  BY DEF Typed, TypeOK, ClientTrue, MyLine, Line
<1>2. Append(lines, MyLine(c)) \in Seq(Line)
  BY <1>1
<1>3. CASE WriteLine(c)
  BY <1>1, <1>2, <1>3, SpoiledTyped DEF WriteLine, Tails, file
<1>4. CASE Leftover(c)
  BY <1>1, <1>2, <1>3, <1>4 DEF Leftover, Tails, file
<1> QED
  BY <1>3, <1>4

LEMMA WithoutTyped ==
  ASSUME Typed, NEW i \in DOMAIN lines
  PROVE  Without(i) \in Seq(Line)
<1>1. lines \in Seq(Line) /\ Len(lines) \in Nat /\ DOMAIN lines = 1 .. Len(lines)
  BY DEF Typed, TypeOK
<1>2. Len(lines) - 1 \in Nat
  BY <1>1
<1>3. \A j \in 1 .. Len(lines) - 1 : Without(i)[j] \in Line
  BY <1>1 DEF Without
<1>4. Without(i) \in [1 .. Len(lines) - 1 -> Line]
  BY <1>3 DEF Without
<1> QED
  BY <1>2, <1>4

LEMMA NextTyped == Typed /\ FileTrue /\ [Next]_vars => Typed'
<1> SUFFICES ASSUME Typed, FileTrue, [Next]_vars PROVE Typed'
  OBVIOUS
<1> USE DEF Typed, TypeOK, ClientTrue
<1>1. ASSUME NEW c \in Conns, NEW h \in Hosts, NEW v \in BOOLEAN, Prepare(c, h, v)
      PROVE  Typed'
  BY <1>1 DEF Prepare, NoMethods, At, Goto, Fails, file
<1>2. ASSUME NEW c \in Conns, NEW k \in Keys, Dial(c, k) PROVE Typed'
  BY <1>2 DEF Dial, At, Goto, file
<1>3. ASSUME NEW c \in Conns, DialFails(c) \/ AuthFails(c) \/ SessionFails(c) PROVE Typed'
  BY <1>3 DEF DialFails, AuthFails, SessionFails, At, Goto, Fails, Same, file
<1>4. ASSUME NEW c \in Conns, AuthOk(c) \/ SessionOk(c) \/ Close(c) \/ GiveUp(c) PROVE Typed'
  BY <1>4 DEF AuthOk, SessionOk, Close, GiveUp, At, Goto, Same, file
<1>5. ASSUME NEW c \in Conns, Check(c) PROVE Typed'
  <2>1. host[c] \in Hosts /\ key[c] \in Keys
    BY <1>5 DEF Check, At
  <2> QED
    BY <1>5, <2>1 DEF Check, Judge, Accepts, Refuses, At, Goto, Fails, Same, file
<1>6. ASSUME NEW c \in Conns, Pin(c) \/ PinFails(c) PROVE Typed'
  <2>1. pc[c] = "pin" /\ host[c] \in Hosts /\ key[c] \in Keys
    BY <1>6 DEF Pin, PinFails, At
  <2>2. lines' \in Seq(Line) /\ tail' \in Tails
    BY <1>6, <2>1, WriteTyped DEF Pin, PinFails, FileTrue
  <2> QED
    BY <1>6, <2>1, <2>2 DEF Pin, PinFails, Accepts, Refuses, At, Goto, Fails, Same
<1>7. ASSUME NEW p \in {"none", "strict", "tofu"}, Start(p) PROVE Typed'
  BY <1>7 DEF Start, client, file
<1>8. ASSUME Stop PROVE Typed'
  <2>1. lines' \in Seq(Line) /\ tail' \in Tails
    BY <1>8, WriteTyped DEF Stop, At, FileTrue, file
  <2> QED
    BY <1>8, <2>1 DEF Stop
<1>9. ASSUME Edit PROVE Typed'
  <2>1. lines' \in Seq(Line)
    BY <1>9, WithoutTyped DEF Edit
  <2>2. tail' \in Tails
    BY <1>9, ConnAssumption DEF Edit, Tails
  <2> QED
    BY <1>9, <2>1, <2>2 DEF Edit, client
<1>10. ASSUME UNCHANGED vars PROVE Typed'
  BY <1>10 DEF vars, file, client
<1> QED
  BY <1>1, <1>2, <1>3, <1>4, <1>5, <1>6, <1>7, <1>8, <1>9, <1>10 DEF Next, ConnectStep

-----------------------------------------------------------------------------
(* Writes to the file                                                        *)

LEMMA AppendFacts ==
  ASSUME Typed, NEW l \in Line, lines' = Append(lines, l)
  PROVE  /\ Len(lines') = Len(lines) + 1 /\ Len(lines) \in Nat
         /\ \A i \in DOMAIN lines : i \in DOMAIN lines' /\ lines'[i] = lines[i]
         /\ Len(lines') \in DOMAIN lines' /\ lines'[Len(lines')] = l
         /\ \A i \in DOMAIN lines' : i \in DOMAIN lines \/ i = Len(lines')
  BY DEF Typed, TypeOK

(* An append for a host without a line keeps all pins and lists it once.     *)
LEMMA AppendKeeps ==
  ASSUME Typed, OnePerHost(lines), NEW l \in Line, ~Listed(l.host), lines' = Append(lines, l)
  PROVE  /\ OnePerHost(lines)' /\ lines' # <<>>
         /\ \A h, k : Pinned(h, k) => Pinned(h, k)'
         /\ \A h : Listed(h)' => Listed(h) \/ h = l.host
         /\ \E i \in DOMAIN lines' : lines'[i] = l
<1>1. /\ Len(lines') = Len(lines) + 1 /\ Len(lines) \in Nat
      /\ \A i \in DOMAIN lines : i \in DOMAIN lines' /\ lines'[i] = lines[i]
      /\ Len(lines') \in DOMAIN lines' /\ lines'[Len(lines')] = l
      /\ \A i \in DOMAIN lines' : i \in DOMAIN lines \/ i = Len(lines')
  BY AppendFacts
<1>2. OnePerHost(lines)'
  BY <1>1 DEF OnePerHost, Listed
<1>3. lines' # <<>>
  BY <1>1
<1> QED
  BY <1>1, <1>2, <1>3 DEF Pinned, Listed

(* Losing the last line, or any other, lists nobody anew.                    *)
LEMMA SpoiledFacts ==
  ASSUME Typed, lines # <<>>, lines' = SubSeq(lines, 1, Len(lines) - 1)
  PROVE  \A i \in DOMAIN lines' : i \in DOMAIN lines /\ lines'[i] = lines[i]
  BY DEF Typed, TypeOK

LEMMA SpoiledKeeps ==
  ASSUME Typed, OnePerHost(lines), lines # <<>>, lines' = SubSeq(lines, 1, Len(lines) - 1)
  PROVE  /\ OnePerHost(lines)'
         /\ \A h : Listed(h)' => Listed(h)
         /\ \A h, k : Pinned(h, k) /\ Listed(h)' => Pinned(h, k)'
<1>1. \A i \in DOMAIN lines' : i \in DOMAIN lines /\ lines'[i] = lines[i]
  BY SpoiledFacts
<1>2. OnePerHost(lines)' /\ \A h : Listed(h)' => Listed(h)
  BY <1>1 DEF OnePerHost, Listed
<1>3. ASSUME NEW h, NEW k, Pinned(h, k), Listed(h)' PROVE Pinned(h, k)'
  <2>1. PICK i \in DOMAIN lines' : lines'[i].host = h
    BY <1>3 DEF Listed
  <2>2. PICK m \in DOMAIN lines : lines[m] = [host |-> h, key |-> k]
    BY <1>3 DEF Pinned
  <2>3. i = m
    BY <1>1, <2>1, <2>2 DEF OnePerHost
  <2> QED
    BY <1>1, <2>1, <2>2, <2>3 DEF Pinned
<1> QED
  BY <1>2, <1>3

LEMMA WithoutKeeps ==
  ASSUME Typed, OnePerHost(lines), NEW i \in DOMAIN lines, lines' = Without(i)
  PROVE  /\ OnePerHost(lines)'
         /\ \A h : Listed(h)' => Listed(h)
         /\ \A h, k : Pinned(h, k) /\ Listed(h)' => Pinned(h, k)'
<1> DEFINE From(j) == IF j < i THEN j ELSE j + 1
<1>1. DOMAIN lines = 1 .. Len(lines) /\ Len(lines) \in Nat
  BY DEF Typed, TypeOK
<1>2. DOMAIN lines' = 1 .. Len(lines) - 1
  BY DEF Without
<1>3. \A j \in DOMAIN lines' : From(j) \in DOMAIN lines /\ lines'[j] = lines[From(j)]
  BY <1>1, <1>2 DEF Without
<1>4. \A j, k \in DOMAIN lines' : From(j) = From(k) => j = k
  BY <1>1, <1>2
<1>5. OnePerHost(lines)' /\ \A h : Listed(h)' => Listed(h)
  <2> HIDE DEF From
  <2> QED
    BY <1>3, <1>4 DEF OnePerHost, Listed
<1>6. ASSUME NEW h, NEW k, Pinned(h, k), Listed(h)' PROVE Pinned(h, k)'
  <2> HIDE DEF From
  <2>1. PICK j \in DOMAIN lines' : lines'[j].host = h
    BY <1>6 DEF Listed
  <2>2. PICK m \in DOMAIN lines : lines[m] = [host |-> h, key |-> k]
    BY <1>6 DEF Pinned
  <2>3. lines[m].host = h
    BY <2>2
  <2>4. From(j) = m
    BY <1>3, <2>1, <2>3 DEF OnePerHost
  <2> QED
    BY <1>3, <2>1, <2>2, <2>4 DEF Pinned
<1> QED
  BY <1>5, <1>6

(* What an append does, or what is left of it.                               *)
LEMMA PinWrites ==
  ASSUME KeyInv, NEW c \in Conns, pc[c] = "pin", WriteLine(c) \/ Leftover(c)
  PROVE  /\ FileTrue'
         /\ \A h, k : Pinned(h, k) /\ (Listed(h)' \/ tail' # "torn") => Pinned(h, k)'
         /\ \A h : Listed(h)' => Listed(h) \/ h = host[c]
         /\ WriteLine(c) => \/ \E i \in DOMAIN lines' : lines'[i] = MyLine(c)
                            \/ tail' = "torn" /\ ~\E i \in DOMAIN lines' : lines'[i].host = host[c]
<1>1. MyLine(c) \in Line /\ MyLine(c).host = host[c]
  BY DEF KeyInv, Typed, TypeOK, ClientTrue, MyLine, Line
<1>2. ~Listed(MyLine(c).host) /\ tail # "torn" /\ tail # "comment"
  BY <1>1 DEF KeyInv, PinAlone, FileTrue
<1>3. CASE lines' = Append(lines, MyLine(c)) /\ tail' \in {"closed", "open"}
  <2>1. /\ OnePerHost(lines)' /\ lines' # <<>>
        /\ \A h, k : Pinned(h, k) => Pinned(h, k)'
        /\ \A h : Listed(h)' => Listed(h) \/ h = host[c]
        /\ \E i \in DOMAIN lines' : lines'[i] = MyLine(c)
    BY <1>1, <1>2, <1>3, AppendKeeps DEF KeyInv, FileTrue
  <2> QED
    BY <2>1, <1>3 DEF FileTrue
<1>4. CASE tail = "open" /\ lines' = SubSeq(lines, 1, Len(lines) - 1) /\ tail' = "torn"
  <2>1. /\ OnePerHost(lines)' /\ \A h : Listed(h)' => Listed(h)
        /\ \A h, k : Pinned(h, k) /\ Listed(h)' => Pinned(h, k)'
    BY <1>4, SpoiledKeeps DEF KeyInv, FileTrue
  <2>2. ~\E i \in DOMAIN lines' : lines'[i].host = host[c]
    BY <1>1, <1>2, <2>1 DEF Listed
  <2> QED
    BY <1>4, <2>1, <2>2 DEF FileTrue
<1>5. CASE UNCHANGED file /\ ~WriteLine(c)
  BY <1>5 DEF KeyInv, FileTrue, file, OnePerHost, Pinned, Listed
<1>6. CASE tail = "closed" /\ lines' = lines /\ tail' = "torn" /\ ~WriteLine(c)
  BY <1>6 DEF KeyInv, FileTrue, OnePerHost, Pinned, Listed
<1>7. CASE UNCHANGED file /\ tail = "torn"
  BY <1>2, <1>7
<1>8. WriteLine(c) => \/ lines' = Append(lines, MyLine(c)) /\ tail' \in {"closed", "open"}
                      \/ tail = "open" /\ lines' = SubSeq(lines, 1, Len(lines) - 1) /\ tail' = "torn"
  BY <1>2 DEF WriteLine
<1>9. Leftover(c) => \/ WriteLine(c) \/ UNCHANGED file
                     \/ lines' = Append(lines, MyLine(c)) /\ tail' \in {"closed", "open"}
                     \/ tail = "closed" /\ lines' = lines /\ tail' = "torn"
  BY DEF Leftover
<1> QED
  BY <1>3, <1>4, <1>5, <1>6, <1>8, <1>9

-----------------------------------------------------------------------------
(* The steps                                                                 *)

LEMMA InitInv == "comment" \notin EditTails /\ Init => KeyInv
<1> SUFFICES ASSUME "comment" \notin EditTails, Init PROVE KeyInv
  OBVIOUS
<1>1. OnePerHost(lines) /\ tail \in EditTails /\ (lines = <<>> => tail = "closed")
  BY DEF Init
<1>2. FileTrue
  BY <1>1 DEF FileTrue
<1>3. TrustPinned /\ PinAlone /\ OneKeyPerHost
  BY DEF Init, TrustPinned, PinAlone, OneKeyPerHost
<1> QED
  BY <1>2, <1>3, InitTyped DEF KeyInv

(* A step that leaves the file alone, accepts nothing and does not begin an  *)
(* append.                                                                   *)
LEMMA QuietStep ==
  ASSUME KeyInv, UNCHANGED <<file, trusted>>,
         \A c \in Conns : pc'[c] = "pin" => pc[c] = "pin" /\ host'[c] = host[c]
  PROVE  FileTrue' /\ TrustPinned' /\ PinAlone' /\ OneKeyPerHost'
<1>1. \A h, k : Pinned(h, k)' = Pinned(h, k)
  BY DEF Pinned, file
<1>2. \A h : Listed(h)' = Listed(h)
  BY DEF Listed, file
<1>3. FileTrue' /\ OneKeyPerHost'
  BY DEF KeyInv, FileTrue, OneKeyPerHost, file, OnePerHost
<1>4. TrustPinned'
  BY <1>1, <1>2 DEF KeyInv, TrustPinned, file
<1>5. PinAlone'
  <2> SUFFICES ASSUME NEW c \in Conns, pc'[c] = "pin"
               PROVE  /\ tail' # "torn" /\ (\A i \in DOMAIN lines' : lines'[i].host # host'[c])
                      /\ trusted'[host'[c]] = {} /\ \A d \in Conns : pc'[d] = "pin" => d = c
    BY DEF PinAlone, Listed
  <2> QED
    BY DEF KeyInv, PinAlone, Listed, file
<1> QED
  BY <1>3, <1>4, <1>5

LEMMA NextInv == "comment" \notin EditTails /\ KeyInv /\ [Next]_vars => KeyInv'
<1> SUFFICES ASSUME "comment" \notin EditTails, KeyInv, [Next]_vars PROVE KeyInv'
  OBVIOUS
<1>0. Typed' /\ Typed
  BY NextTyped DEF KeyInv
<1>1. ASSUME NEW c \in Conns, NEW h \in Hosts, NEW v \in BOOLEAN, Prepare(c, h, v)
      PROVE  KeyInv'
  <2>1. \A d \in Conns : pc'[d] = "pin" => pc[d] = "pin" /\ host'[d] = host[d]
    BY <1>0, <1>1 DEF Prepare, NoMethods, Goto, Fails, Typed, TypeOK
  <2> QED
    BY <1>0, <1>1, <2>1, QuietStep DEF Prepare, NoMethods, KeyInv
<1>2. ASSUME NEW c \in Conns, NEW k \in Keys, Dial(c, k) PROVE KeyInv'
  <2>1. \A d \in Conns : pc'[d] = "pin" => pc[d] = "pin" /\ host'[d] = host[d]
    BY <1>0, <1>2 DEF Dial, Goto, Typed, TypeOK
  <2> QED
    BY <1>0, <1>2, <2>1, QuietStep DEF Dial, KeyInv
<1>3. ASSUME NEW c \in Conns, DialFails(c) \/ AuthFails(c) \/ SessionFails(c) PROVE KeyInv'
  <2>1. \A d \in Conns : pc'[d] = "pin" => pc[d] = "pin" /\ host'[d] = host[d]
    BY <1>0, <1>3 DEF DialFails, AuthFails, SessionFails, Goto, Fails, Same, Typed, TypeOK
  <2> QED
    BY <1>0, <1>3, <2>1, QuietStep DEF DialFails, AuthFails, SessionFails, KeyInv
<1>4. ASSUME NEW c \in Conns, AuthOk(c) \/ SessionOk(c) \/ Close(c) \/ GiveUp(c) PROVE KeyInv'
  <2>1. \A d \in Conns : pc'[d] = "pin" => pc[d] = "pin" /\ host'[d] = host[d]
    BY <1>0, <1>4 DEF AuthOk, SessionOk, Close, GiveUp, Goto, Same, Typed, TypeOK
  <2> QED
    BY <1>0, <1>4, <2>1, QuietStep DEF AuthOk, SessionOk, Close, GiveUp, KeyInv
<1>5. ASSUME NEW c \in Conns, Check(c) PROVE KeyInv'
  <2>0. /\ host[c] \in Hosts /\ key[c] \in Keys /\ UNCHANGED <<lines, tail, host, key>>
        /\ pc[c] = "check" /\ \A d \in Conns : pc[d] # "pin"
    BY <1>0, <1>5 DEF Check, At, MuFree, Same, file, Typed, ClientTrue
  <2>1. CASE UNCHANGED trusted /\ Goto(c, "failed")
    <3>1. \A d \in Conns : pc'[d] = "pin" => pc[d] = "pin" /\ host'[d] = host[d]
      BY <1>0, <2>0, <2>1 DEF Goto, Typed, TypeOK
    <3> QED
      BY <1>0, <2>0, <2>1, <3>1, QuietStep DEF file, KeyInv
  <2>2. CASE tail # "torn" /\ Pinned(host[c], key[c]) /\ Accepts(c)
    <3>1. \A k \in trusted[host[c]] : k = key[c]
      BY <2>0, <2>2 DEF KeyInv, TrustPinned, Pinned, FileTrue, OnePerHost
    <3>2. trusted' = [trusted EXCEPT ![host[c]] = {key[c]}]
      <4>1. trusted[host[c]] \cup {key[c]} = {key[c]}
        BY <3>1
      <4> QED
        BY <2>2, <4>1 DEF Accepts
    <3>3. OneKeyPerHost'
      BY <1>0, <2>0, <3>2 DEF KeyInv, OneKeyPerHost, Typed, TypeOK
    <3>4. TrustPinned'
      <4>1. \A h \in Hosts : \A k \in trusted'[h] : Pinned(h, k)
        BY <1>0, <2>0, <2>2, <3>2 DEF KeyInv, TrustPinned, Typed, TypeOK
      <4> QED
        BY <2>0, <4>1 DEF TrustPinned, Pinned
    <3>5. PinAlone'
      BY <1>0, <2>0, <2>2 DEF Accepts, Goto, PinAlone, Typed, TypeOK
    <3> QED
      BY <1>0, <2>0, <3>3, <3>4, <3>5 DEF KeyInv, FileTrue, OnePerHost
  <2>3. CASE tail # "torn" /\ ~Listed(host[c]) /\ Goto(c, "pin") /\ UNCHANGED trusted
    <3>1. trusted[host[c]] = {}
      <4>1. \A k : ~Pinned(host[c], k)
        BY <2>3 DEF Pinned, Listed
      <4> QED
        BY <1>0, <2>0, <2>3, <4>1 DEF KeyInv, TrustPinned, Typed, TypeOK
    <3>2. PinAlone'
      <4>1. \A d \in Conns : pc'[d] = "pin" => d = c
        BY <1>0, <2>0, <2>3 DEF Goto, Typed, TypeOK
      <4> QED
        BY <2>0, <2>3, <3>1, <4>1 DEF PinAlone, Listed
    <3>3. TrustPinned' /\ OneKeyPerHost' /\ FileTrue'
      BY <2>0, <2>3 DEF KeyInv, TrustPinned, Pinned, Listed, OneKeyPerHost, FileTrue, OnePerHost
    <3> QED
      BY <1>0, <3>2, <3>3 DEF KeyInv
  <2> QED
    BY <1>5, <2>1, <2>2, <2>3 DEF Check, Judge, Refuses, Fails
<1>6. ASSUME NEW c \in Conns, Pin(c) PROVE KeyInv'
  <2>0. /\ host[c] \in Hosts /\ key[c] \in Keys /\ UNCHANGED <<host, key>>
        /\ pc[c] = "pin" /\ WriteLine(c) /\ Accepts(c)
    BY <1>0, <1>6 DEF Pin, At, Same, Typed, ClientTrue
  <2>1. /\ FileTrue'
        /\ \A h, k : Pinned(h, k) /\ (Listed(h)' \/ tail' # "torn") => Pinned(h, k)'
        /\ \A h : Listed(h)' => Listed(h) \/ h = host[c]
        /\ \/ \E i \in DOMAIN lines' : lines'[i] = MyLine(c)
           \/ tail' = "torn" /\ ~\E i \in DOMAIN lines' : lines'[i].host = host[c]
    BY <2>0, PinWrites
  <2>2. tail # "torn" /\ trusted[host[c]] = {} /\ \A d \in Conns : pc[d] = "pin" => d = c
    BY <2>0 DEF KeyInv, PinAlone
  <2>3. trusted' = [trusted EXCEPT ![host[c]] = {key[c]}]
    BY <2>0, <2>2 DEF Accepts
  <2>4. OneKeyPerHost'
    BY <1>0, <2>0, <2>3 DEF KeyInv, OneKeyPerHost, Typed, TypeOK
  <2>5. TrustPinned'
    <3> SUFFICES ASSUME NEW h \in Hosts, NEW k \in trusted'[h], Listed(h)' \/ tail' # "torn"
                 PROVE  \E i \in DOMAIN lines' : lines'[i] = [host |-> h, key |-> k]
      BY DEF TrustPinned, Pinned
    <3>1. CASE h = host[c]
      <4>1. k = key[c]
        BY <1>0, <2>0, <2>3, <3>1 DEF Typed, TypeOK
      <4>2. \E i \in DOMAIN lines' : lines'[i] = MyLine(c)
        BY <2>1, <3>1 DEF Listed
      <4> QED
        BY <3>1, <4>1, <4>2 DEF MyLine
    <3>2. CASE h # host[c]
      <4>1. k \in trusted[h]
        BY <1>0, <2>0, <2>3, <3>2 DEF Typed, TypeOK
      <4>2. Pinned(h, k)
        BY <2>2, <4>1 DEF KeyInv, TrustPinned
      <4>3. Pinned(h, k)'
        BY <2>1, <4>2
      <4> QED
        BY <4>3 DEF Pinned
    <3> QED
      BY <3>1, <3>2
  <2>6. PinAlone'
    BY <1>0, <2>0, <2>2 DEF Accepts, Goto, PinAlone, Typed, TypeOK
  <2> QED
    BY <1>0, <2>1, <2>4, <2>5, <2>6 DEF KeyInv
<1>7. ASSUME NEW c \in Conns, PinFails(c) PROVE KeyInv'
  <2>0. /\ pc[c] = "pin" /\ Leftover(c) /\ UNCHANGED trusted /\ Goto(c, "failed")
    BY <1>7 DEF PinFails, At, Refuses, Fails
  <2>1. FileTrue' /\ \A h, k : Pinned(h, k) /\ (Listed(h)' \/ tail' # "torn") => Pinned(h, k)'
    BY <2>0, PinWrites
  <2>2. tail # "torn" /\ \A d \in Conns : pc[d] = "pin" => d = c
    BY <2>0 DEF KeyInv, PinAlone
  <2>3. TrustPinned' /\ OneKeyPerHost'
    BY <2>0, <2>1, <2>2 DEF KeyInv, TrustPinned, OneKeyPerHost
  <2>4. PinAlone'
    BY <1>0, <2>0, <2>2 DEF Goto, PinAlone, Typed, TypeOK
  <2> QED
    BY <1>0, <2>1, <2>3, <2>4 DEF KeyInv
<1>8. ASSUME NEW p \in {"none", "strict", "tofu"}, Start(p) PROVE KeyInv'
  BY <1>0, <1>8, QuietStep DEF Start, client, KeyInv
<1>9. ASSUME Stop PROVE KeyInv'
  <2>1. PinAlone'
    BY <1>9 DEF Stop, PinAlone
  <2>2. CASE UNCHANGED file
    <3>1. \A c \in Conns : pc'[c] # "pin"
      BY <1>9 DEF Stop
    <3> QED
      BY <1>0, <1>9, <2>2, <3>1, QuietStep DEF Stop, KeyInv
  <2>3. ASSUME NEW c \in Conns, pc[c] = "pin", Leftover(c) PROVE KeyInv'
    <3>1. FileTrue' /\ \A h, k : Pinned(h, k) /\ (Listed(h)' \/ tail' # "torn") => Pinned(h, k)'
      BY <2>3, PinWrites
    <3>2. tail # "torn" /\ UNCHANGED trusted
      BY <1>9, <2>3 DEF KeyInv, PinAlone, Stop
    <3>3. TrustPinned' /\ OneKeyPerHost'
      BY <3>1, <3>2 DEF KeyInv, TrustPinned, OneKeyPerHost
    <3> QED
      BY <1>0, <2>1, <3>1, <3>3 DEF KeyInv
  <2> QED
    BY <1>9, <2>2, <2>3 DEF Stop, At
<1>10. ASSUME Edit PROVE KeyInv'
  <2>1. /\ OnePerHost(lines)'
        /\ \A h : Listed(h)' => Listed(h)
        /\ \A h, k : Pinned(h, k) /\ Listed(h)' => Pinned(h, k)'
    <3>1. CASE lines' = lines
      BY <3>1 DEF KeyInv, FileTrue, OnePerHost, Pinned, Listed
    <3>2. CASE \E i \in DOMAIN lines : lines' = Without(i)
      BY <1>0, <3>2, WithoutKeeps DEF KeyInv, FileTrue
    <3> QED
      BY <1>10, <3>1, <3>2 DEF Edit
  <2>2. /\ tail' \in EditTails /\ tail' # "torn" /\ (lines' = <<>> => tail' = "closed")
        /\ trusted' = [h \in Hosts |-> IF Listed(h)' THEN trusted[h] ELSE {}]
        /\ UNCHANGED <<pc, host, key>>
    BY <1>10, ConnAssumption DEF Edit, client
  <2>3. FileTrue'
    BY <2>1, <2>2 DEF FileTrue
  <2>4. OneKeyPerHost'
    BY <2>2 DEF KeyInv, OneKeyPerHost
  <2>5. TrustPinned'
    <3> SUFFICES ASSUME NEW h \in Hosts, NEW k \in trusted'[h], Listed(h)' \/ tail' # "torn"
                 PROVE  Pinned(h, k)'
      BY DEF TrustPinned
    <3>1. Listed(h)' /\ k \in trusted[h]
      BY <2>2
    <3> QED
      BY <2>1, <3>1 DEF KeyInv, TrustPinned
  <2>6. PinAlone'
    <3> SUFFICES ASSUME NEW c \in Conns, pc'[c] = "pin"
                 PROVE  /\ tail' # "torn" /\ (\A i \in DOMAIN lines' : lines'[i].host # host[c])
                        /\ trusted'[host[c]] = {} /\ \A d \in Conns : pc'[d] = "pin" => d = c
      BY <2>2 DEF PinAlone, Listed
    <3>1. ~Listed(host[c]) /\ \A d \in Conns : pc[d] = "pin" => d = c
      BY <2>2 DEF KeyInv, PinAlone
    <3>2. \A i \in DOMAIN lines' : lines'[i].host # host[c]
      BY <2>1, <3>1 DEF Listed
    <3>3. trusted'[host[c]] = {}
      BY <1>0, <2>2, <3>2 DEF Listed, Typed, ClientTrue
    <3> QED
      BY <2>2, <3>1, <3>2, <3>3
  <2> QED
    BY <1>0, <2>3, <2>4, <2>5, <2>6 DEF KeyInv
<1>11. ASSUME UNCHANGED vars PROVE KeyInv'
  BY <1>0, <1>11, QuietStep DEF vars, client, KeyInv
<1> QED
  BY <1>1, <1>2, <1>3, <1>4, <1>5, <1>6, <1>7, <1>8, <1>9, <1>10, <1>11 DEF Next, ConnectStep

-----------------------------------------------------------------------------
(* The theorems                                                              *)

(* Clients, file and trusted keys are well typed at all times.               *)
THEOREM ConnectionsTyped == "comment" \notin EditTails => (Spec => []TypeOK)
<1> SUFFICES ASSUME "comment" \notin EditTails PROVE Spec => []TypeOK
  OBVIOUS
<1>1. Init => KeyInv
  BY InitInv
<1>2. KeyInv /\ [Next]_vars => KeyInv'
  BY NextInv
<1>3. KeyInv => TypeOK
  BY DEF KeyInv, Typed
<1> QED
  BY <1>1, <1>2, <1>3, PTL DEF Spec

(* Verified connections accept one key per host, over all restarts and       *)
(* failed appends (tofuHostKeyCallback).                                     *)
THEOREM OneKey == "comment" \notin EditTails => (Spec => []OneKeyPerHost)
<1> SUFFICES ASSUME "comment" \notin EditTails PROVE Spec => []OneKeyPerHost
  OBVIOUS
<1>1. Init => KeyInv
  BY InitInv
<1>2. KeyInv /\ [Next]_vars => KeyInv'
  BY NextInv
<1>3. KeyInv => OneKeyPerHost
  BY DEF KeyInv
<1> QED
  BY <1>1, <1>2, <1>3, PTL DEF Spec

(* No two connections pin the same host (knownHostsWriteMu).                 *)
THEOREM OneLine == "comment" \notin EditTails => (Spec => []OneLinePerHost)
<1> SUFFICES ASSUME "comment" \notin EditTails PROVE Spec => []OneLinePerHost
  OBVIOUS
<1>1. Init => KeyInv
  BY InitInv
<1>2. KeyInv /\ [Next]_vars => KeyInv'
  BY NextInv
<1>3. KeyInv => OneLinePerHost
  BY DEF KeyInv, FileTrue, OneLinePerHost
<1> QED
  BY <1>1, <1>2, <1>3, PTL DEF Spec

(* Who was accepted is not told later that its key is unknown or has changed.*)
LEMMA RefusalTrue ==
  ASSUME KeyInv, [Next]_vars, NEW c \in Conns,
         err[c] = "none", err'[c] \in {"mismatch", "unknown"}
  PROVE  key[c] \notin trusted[host[c]]
<1>1. err'[c] # err[c] /\ Typed
  BY DEF KeyInv
<1>2. ASSUME NEW d \in Conns, Check(d) PROVE key[c] \notin trusted[host[c]]
  <2>1. d = c
    BY <1>1, <1>2 DEF Check, Judge, Accepts, Refuses, Fails, Typed, TypeOK
  <2>2. pc[c] = "check" /\ host[c] \in Hosts
    BY <1>1, <1>2, <2>1 DEF Check, At, Typed, ClientTrue
  <2>3. tail # "torn" /\ ~Pinned(host[c], key[c])
    BY <1>1, <1>2, <2>1 DEF Check, Judge, Accepts, Refuses, Fails, Typed, TypeOK, Pinned, Listed
  <2> QED
    BY <2>2, <2>3 DEF KeyInv, TrustPinned
<1>3. ASSUME NEW d \in Conns, NEW h \in Hosts, NEW v \in BOOLEAN, Prepare(d, h, v)
      PROVE  FALSE
  BY <1>1, <1>3 DEF Prepare, NoMethods, Fails, Typed, TypeOK
<1>4. ASSUME NEW d \in Conns,
             \/ DialFails(d) \/ Pin(d) \/ PinFails(d)
             \/ AuthOk(d) \/ AuthFails(d) \/ SessionOk(d) \/ SessionFails(d)
             \/ Close(d) \/ GiveUp(d) \/ \E k \in Keys : Dial(d, k)
      PROVE  FALSE
  BY <1>1, <1>4 DEF DialFails, Pin, PinFails, AuthOk, AuthFails, SessionOk, SessionFails,
                    Close, GiveUp, Dial, Accepts, Refuses, Fails, Typed, TypeOK
<1>5. (Stop \/ Edit \/ UNCHANGED vars \/ \E p \in {"none", "strict", "tofu"} : Start(p)) => FALSE
  BY <1>1 DEF Stop, Edit, Start, client, vars
<1> QED
  BY <1>2, <1>3, <1>4, <1>5 DEF Next, ConnectStep

(* A server whose key was accepted is accepted again, by this process or     *)
(* another one, unless the file cannot be read.                              *)
THEOREM AcceptedAgain == "comment" \notin EditTails => (Spec => AcceptedStaysAccepted)
<1> SUFFICES ASSUME "comment" \notin EditTails PROVE Spec => AcceptedStaysAccepted
  OBVIOUS
<1>1. Init => KeyInv
  BY InitInv
<1>2. KeyInv /\ [Next]_vars => KeyInv'
  BY NextInv
<1>3. KeyInv /\ [Next]_vars =>
        [\A c \in Conns : err[c] = "none" /\ err'[c] \in {"mismatch", "unknown"}
                           => key[c] \notin trusted[host[c]]]_vars
  BY RefusalTrue
<1> QED
  BY <1>1, <1>2, <1>3, PTL DEF Spec, AcceptedStaysAccepted

(* A Connect that fails at any stage leaves no TCP connection open.          *)
THEOREM NothingLeft == "comment" \notin EditTails => (Spec => []FailedLeavesNothing)
<1> SUFFICES ASSUME "comment" \notin EditTails PROVE Spec => []FailedLeavesNothing
  OBVIOUS
<1> DEFINE Inv == KeyInv /\ \A c \in wire : pc[c] \notin {"idle", "dial", "failed"}
<1>1. Init => Inv
  BY InitInv DEF Init
<1>2. Inv /\ [Next]_vars => Inv'
  <2> SUFFICES ASSUME Inv, [Next]_vars PROVE Inv'
    OBVIOUS
  <2>1. KeyInv' /\ Typed
    BY NextInv DEF KeyInv
  <2> SUFFICES ASSUME NEW c \in wire' PROVE pc'[c] \notin {"idle", "dial", "failed"}
    BY <2>1
  <2> USE DEF Typed, TypeOK
  <2>2. ASSUME NEW d \in Conns, ConnectStep(d) PROVE pc'[c] \notin {"idle", "dial", "failed"}
    <3>1. ASSUME NEW h \in Hosts, NEW v \in BOOLEAN, Prepare(d, h, v)
          PROVE  pc'[c] \notin {"idle", "dial", "failed"}
      BY <2>1, <3>1 DEF Prepare, NoMethods, At, Goto, Fails
    <3>2. ASSUME NEW k \in Keys, Dial(d, k) PROVE pc'[c] \notin {"idle", "dial", "failed"}
      BY <2>1, <3>2 DEF Dial, At, Goto
    <3>3. CASE Check(d)
      BY <2>1, <3>3 DEF Check, Judge, Accepts, Refuses, At, Goto, Fails
    <3>4. CASE Pin(d) \/ PinFails(d)
      BY <2>1, <3>4 DEF Pin, PinFails, Accepts, Refuses, At, Goto, Fails
    <3>5. CASE DialFails(d) \/ AuthFails(d) \/ SessionFails(d) \/ Close(d)
      BY <2>1, <3>5 DEF DialFails, AuthFails, SessionFails, Close, At, Goto, Fails
    <3>6. CASE AuthOk(d) \/ SessionOk(d) \/ GiveUp(d)
      BY <2>1, <3>6 DEF AuthOk, SessionOk, GiveUp, At, Goto
    <3> QED
      BY <2>2, <3>1, <3>2, <3>3, <3>4, <3>5, <3>6 DEF ConnectStep
  <2>3. CASE Stop \/ Edit \/ UNCHANGED vars \/ \E p \in {"none", "strict", "tofu"} : Start(p)
    BY <2>1, <2>3 DEF Stop, Edit, Start, client, vars
  <2> QED
    BY <2>2, <2>3 DEF Next
<1>3. Inv => FailedLeavesNothing
  BY DEF FailedLeavesNothing
<1> QED
  BY <1>1, <1>2, <1>3, PTL DEF Spec

=============================================================================
