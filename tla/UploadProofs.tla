---------------------------- MODULE UploadProofs ----------------------------
(* Proofs about the upload of one file (Upload): whatever fails, in whatever *)
(* order the write requests are carried out, for any contents, any number of *)
(* compared blocks, requests in flight and attempts.                         *)
EXTENDS Upload, SequenceTheorems, TLAPS

(* The variables.  While an upload is under way its local file exists, and   *)
(* requests are in flight only while it copies.                              *)
Structure ==
  /\ local \in Contents \cup {NoFile}
  /\ final \in Seq(Blocks) /\ temp \in Seq(Blocks)
  /\ pc \in {"idle", "begin", "prepare", "copy", "verify", "remove", "rename", "delete"}
  /\ attempt \in 1 .. MaxAttempts
  /\ size \in Sizes \cup {0} /\ next \in Nat \ {0} /\ failedAt \in 0 .. next
  /\ sent \subseteq (1 .. next - 1) \X Blocks
  /\ pc \notin {"idle", "begin"} => local \in Contents
  /\ pc # "copy" => sent = {} /\ failedAt = 0
  /\ pc = "delete" => temp = NoFile

(* Block k was answered for, and no block up to it failed.                   *)
Settled(k) ==
  /\ failedAt = 0 \/ k < failedAt
  /\ \A r \in sent : r[1] # k

(* The temp file has all settled blocks: it can be cut back to the earliest  *)
(* failed one.                                                               *)
Placed ==
  pc = "copy" =>
    /\ Len(temp) < next
    /\ \A k \in 1 .. next - 1 : Settled(k) => k <= Len(temp)

(* PartialIsPrefix also holds until the attempt looks at the partial file.   *)
Between ==
  /\ pc \in {"idle", "begin", "prepare"} /\ ~unsafe
  /\ Exists(temp) /\ Exists(local) /\ Vouched(temp, local)
  => temp = Prefix(local, Len(temp))

(* Outside of the gaps that requests leave the temp file is the local one,   *)
(* and there are no gaps where all is settled.                               *)
Copied ==
  pc = "copy" /\ ~unsafe =>
    /\ next <= Len(local) + 1
    /\ \A r \in sent : r[2] = local[r[1]]
    /\ \A k \in 1 .. Len(temp) : temp[k] \in {Gap, local[k]}
    /\ \A k \in 1 .. next - 1 : Settled(k) => temp[k] = local[k]

Whole ==
  /\ pc \in {"verify", "remove", "rename"} /\ ~unsafe => temp = local
  /\ pc = "delete" /\ ~unsafe => final = local

UploadInv == Structure /\ Placed /\ Between /\ Copied /\ Whole

-----------------------------------------------------------------------------
(* Contents, prefixes and writes.                                            *)

LEMMA ContentsTyped ==
  /\ NoFile \in Seq(Blocks) /\ Contents \subseteq Seq(Blocks) /\ Gap \in Blocks
  /\ NoFile \notin Contents
  /\ \A c \in Contents : Len(c) \in Nat \ {0} /\ \A i \in 1 .. Len(c) : c[i] # Gap
<1>1. Gap \in Blocks
  BY DEF Blocks
<1>2. NoFile \in Seq(Blocks)
  BY <1>1 DEF NoFile, Gap
<1>3. ASSUME NEW c \in Contents
      PROVE  /\ c \in Seq(Blocks) /\ c # NoFile
             /\ Len(c) \in Nat \ {0} /\ \A i \in 1 .. Len(c) : c[i] # Gap
  <2>1. c \in Seq(Nat \ {Gap}) /\ c # <<>>
    BY ContentsAssumption
  <2>2. Len(c) \in Nat \ {0} /\ DOMAIN c = 1 .. Len(c)
    BY <2>1
  <2>3. \A i \in 1 .. Len(c) : c[i] \in Blocks /\ c[i] # Gap
    BY <2>1, <2>2 DEF Blocks
  <2>4. c \in Seq(Blocks)
    BY <2>1, <2>2, <2>3
  <2>5. c # NoFile
    BY <2>2, <2>3 DEF NoFile, Gap
  <2> QED
    BY <2>2, <2>3, <2>4, <2>5
<1> QED
  BY <1>1, <1>2, <1>3

(* A sequence that agrees with another one as far as it goes is its prefix.  *)
LEMMA PrefixIs ==
  ASSUME NEW S, NEW t \in Seq(S), NEW c \in Seq(S)
  PROVE  t = Prefix(c, Len(t)) <=> Len(t) <= Len(c) /\ \A k \in 1 .. Len(t) : t[k] = c[k]
<1> DEFINE n == IF Len(t) < Len(c) THEN Len(t) ELSE Len(c)
           p == SubSeq(c, 1, n)
<1>1. n \in Nat /\ n <= Len(t) /\ n <= Len(c) /\ (Len(t) <= Len(c) => n = Len(t))
  OBVIOUS
<1>2. p \in Seq(S) /\ Len(p) = n /\ \A k \in 1 .. n : p[k] = c[k]
  <2>1. \A i \in 1 .. n : c[i] \in S
    BY <1>1
  <2> HIDE DEF n
  <2> QED
    BY <1>1, <2>1, SubSeqProperties
<1>3. Prefix(c, Len(t)) = p
  BY DEF Prefix
<1> HIDE DEF n, p
<1>4. ASSUME Len(t) <= Len(c), \A k \in 1 .. Len(t) : t[k] = c[k] PROVE t = p
  BY <1>1, <1>2, <1>4, SeqEqual
<1> QED
  BY <1>1, <1>2, <1>3, <1>4

LEMMA WriteIs ==
  ASSUME NEW f \in Seq(Blocks), NEW r, r[1] \in Nat \ {0}, r[2] \in Blocks
  PROVE  /\ Written(f, r) \in Seq(Blocks)
         /\ Len(Written(f, r)) = IF Len(f) < r[1] THEN r[1] ELSE Len(f)
         /\ Written(f, r)[r[1]] = r[2]
         /\ \A j \in 1 .. Len(f) : j # r[1] => Written(f, r)[j] = f[j]
         /\ \A j \in 1 .. r[1] - 1 : j > Len(f) => Written(f, r)[j] = Gap
<1> DEFINE k == r[1]
           b == r[2]
<1>0. k \in Nat \ {0} /\ b \in Blocks
  OBVIOUS
<1> DEFINE n == IF Len(f) < k THEN k ELSE Len(f)
           g == [j \in 1 .. n |-> IF j = k THEN b ELSE IF j <= Len(f) THEN f[j] ELSE Gap]
<1>1. n \in Nat /\ Len(f) <= n /\ k <= n
  BY <1>0
<1>2. Written(f, r) = g
  BY DEF Written, End
<1> HIDE DEF n, k, b
<1>3. \A j \in 1 .. n : (IF j = k THEN b ELSE IF j <= Len(f) THEN f[j] ELSE Gap) \in Blocks
  BY <1>0, <1>1, ContentsTyped
<1>4. g \in Seq(Blocks) /\ Len(g) = n
  BY <1>1, <1>3
<1>5. \A j \in 1 .. n : g[j] = IF j = k THEN b ELSE IF j <= Len(f) THEN f[j] ELSE Gap
  OBVIOUS
<1> HIDE DEF g
<1> QED
  BY <1>0, <1>1, <1>2, <1>4, <1>5 DEF n, k, b

-----------------------------------------------------------------------------
(* Between attempts.                                                         *)

LEMMA UploadInit == Init => UploadInv
<1> SUFFICES ASSUME Init PROVE UploadInv
  OBVIOUS
<1>1. MaxAttempts \in Nat \ {0}
  BY LimitsAssumption
<1>2. final \in Seq(Blocks) /\ temp \in Seq(Blocks)
  BY ContentsTyped DEF Init
<1>3. Structure
  BY <1>1, <1>2 DEF Init, Structure
<1> QED
  BY <1>3 DEF Init, UploadInv, Placed, Between, Copied, Whole, Exists

(* An attempt that is over leaves no request, and what it leaves of the temp *)
(* file is a prefix of the local one.                                        *)
Over ==
  /\ pc' \in {"idle", "begin"} /\ attempt' \in 1 .. MaxAttempts
  /\ size' = 0 /\ next' = 1 /\ sent' = {} /\ failedAt' = 0

LEMMA FailedIsOver == Structure /\ Failed => Over
BY LimitsAssumption DEF Structure, Failed, CopyOver, Over

LEMMA OverKeeps ==
  ASSUME Over, local' \in Contents \cup {NoFile},
         final' \in Seq(Blocks), temp' \in Seq(Blocks), Between'
  PROVE  UploadInv'
<1>1. Structure'
  BY DEF Over, Structure
<1> QED
  BY <1>1 DEF Over, UploadInv, Placed, Copied, Whole

(* A temp file that agrees with the local file will do, and so will none.    *)
LEMMA AgreesIsBetween ==
  /\ temp \in Seq(Blocks) /\ local \in Contents /\ Len(temp) <= Len(local)
     /\ (\A k \in 1 .. Len(temp) : temp[k] = local[k]) => Between
  /\ temp = NoFile => Between
BY PrefixIs, ContentsTyped DEF Between, Exists

LEMMA StartStep ==
  ASSUME UploadInv, StartTask
  PROVE  UploadInv'
<1>1. Structure'
  BY LimitsAssumption DEF UploadInv, StartTask, Structure, files, config, copy
<1>2. Between'
  BY DEF UploadInv, StartTask, Between, Exists, Vouched, Prefix, files
<1> QED
  BY <1>1, <1>2 DEF UploadInv, StartTask, Placed, Copied, Whole

LEMMA BeginStep ==
  ASSUME UploadInv, Begin
  PROVE  UploadInv'
<1> USE DEF UploadInv
<1>1. /\ pc = "begin" /\ UNCHANGED <<local, temp, final, unsafe>>
  BY DEF Begin, files
<1>2. pc' \in {"idle", "begin", "prepare"} => Between'
  BY <1>1 DEF Between, Exists, Vouched, Prefix
<1>3. CASE Failed
  <2>1. Over
    BY <1>3, FailedIsOver
  <2> QED
    BY <1>1, <1>2, <2>1, OverKeeps DEF Over, Structure
<1>4. CASE /\ Exists(local) /\ pc' = "prepare" /\ size' = Len(local)
           /\ UNCHANGED <<next, sent, failedAt, attempt>>
  <2>1. local \in Contents
    BY <1>4 DEF Structure, Exists
  <2>2. Structure'
    BY <1>1, <1>4, <2>1 DEF Structure, Sizes
  <2> QED
    BY <1>2, <1>4, <2>2 DEF Placed, Copied, Whole
<1> QED
  BY <1>3, <1>4 DEF Begin

(* A resume continues a true prefix; a restart has nothing to be wrong.      *)
LEMMA PrepareStep ==
  ASSUME UploadInv, Prepare
  PROVE  UploadInv'
<1> USE DEF UploadInv
<1>1. pc = "prepare" /\ UNCHANGED <<local, final>> /\ local \in Contents /\ local' \in Contents
      /\ sent = {} /\ failedAt = 0
  BY DEF Prepare, Structure
<1>2. CASE Failed /\ UNCHANGED <<temp, unsafe>>
  <2>1. Over
    BY <1>2, FailedIsOver
  <2>2. Between'
    BY <1>1, <1>2 DEF Between, Exists, Vouched, Prefix
  <2> QED
    BY <1>1, <1>2, <2>1, <2>2, OverKeeps DEF Structure
<1>3. CASE /\ pc' = "copy" /\ Resumable /\ next' = Len(temp) + 1
           /\ UNCHANGED <<temp, unsafe, size, sent, failedAt, attempt>>
  <2>1. temp \in Seq(Blocks) /\ Len(temp) \in Nat
    BY DEF Structure
  <2>2. Structure'
    BY <1>1, <1>3, <2>1 DEF Structure
  <2>3. Placed'
    BY <1>1, <1>3, <2>1 DEF Placed
  <2>4. Copied'
    <3> SUFFICES ASSUME ~unsafe PROVE Copied'
      BY <1>3 DEF Copied
    <3>1. Exists(local)
      BY <1>1, ContentsTyped DEF Exists
    <3>2. temp = Prefix(local, Len(temp))
      BY <1>1, <1>3, <3>1 DEF Between, Resumable
    <3>3. Len(temp) <= Len(local) /\ \A k \in 1 .. Len(temp) : temp[k] = local[k]
      BY <1>1, <2>1, <3>2, PrefixIs, ContentsTyped
    <3>4. next' <= Len(local') + 1
      BY <1>1, <1>3, <3>3, <2>1, ContentsTyped
    <3> QED
      BY <1>1, <1>3, <2>1, <3>3, <3>4 DEF Copied
  <2> QED
    BY <1>3, <2>2, <2>3, <2>4 DEF Between, Whole
<1>4. CASE /\ pc' = "copy" /\ next' = 1 /\ temp' = <<>>
           /\ UNCHANGED <<size, sent, failedAt, attempt>>
  <2>1. temp' \in Seq(Blocks) /\ Len(temp') = 0
    BY <1>4
  <2>2. Structure'
    BY <1>1, <1>4, <2>1 DEF Structure
  <2>3. Placed'
    BY <1>1, <1>4, <2>1 DEF Placed
  <2>4. Copied'
    BY <1>1, <1>4, <2>1, ContentsTyped DEF Copied
  <2> QED
    BY <1>4, <2>2, <2>3, <2>4 DEF Between, Whole
<1> QED
  BY <1>2, <1>3, <1>4 DEF Prepare

-----------------------------------------------------------------------------
(* The copy.                                                                 *)

(* A step of the copy that keeps what Structure, Placed and Copied say.      *)
LEMMA CopyKeeps ==
  ASSUME UploadInv, Copying, CopyKeep,
         temp' \in Seq(Blocks), next' \in Nat \ {0}, failedAt' \in 0 .. next',
         sent' \subseteq (1 .. next' - 1) \X Blocks,
         Placed', Copied'
  PROVE  UploadInv'
<1>1. Structure'
  BY DEF UploadInv, Structure, CopyKeep, Copying, config
<1> QED
  BY <1>1 DEF UploadInv, Between, Whole, CopyKeep, Copying

LEMMA SendStep ==
  ASSUME UploadInv, Send
  PROVE  UploadInv'
<1> USE DEF UploadInv
<1> DEFINE r == <<next, local[next]>>
<1>1. /\ Copying /\ CopyKeep /\ pc = "copy" /\ pc' = "copy" /\ local' = local /\ unsafe' = unsafe
      /\ temp' = temp /\ failedAt' = failedAt /\ failedAt = 0
      /\ next' = next + 1 /\ next <= Len(local) /\ sent' = sent \cup {r}
  BY DEF Send, CopyKeep, Copying
<1>2. /\ local \in Contents /\ local \in Seq(Blocks) /\ Len(local) \in Nat
      /\ next \in Nat \ {0} /\ temp \in Seq(Blocks) /\ Len(temp) \in Nat
      /\ sent \subseteq (1 .. next - 1) \X Blocks
  BY <1>1, ContentsTyped DEF Structure
<1>3. r \in (1 .. next' - 1) \X Blocks
  BY <1>1, <1>2
<1>4. sent' \subseteq (1 .. next' - 1) \X Blocks
  BY <1>1, <1>2, <1>3
<1>5. ASSUME NEW k \in 1 .. next' - 1, Settled(k)'
      PROVE  k \in 1 .. next - 1 /\ Settled(k)
  <2>1. k # r[1] /\ \A q \in sent : q[1] # k
    BY <1>1, <1>5 DEF Settled
  <2> QED
    BY <1>1, <1>2, <2>1 DEF Settled
<1>6. Placed'
  BY <1>1, <1>2, <1>5 DEF Placed
<1>7. Copied'
  <2> SUFFICES ASSUME ~unsafe PROVE Copied'
    BY <1>1 DEF Copied
  <2>1. next' <= Len(local') + 1
    BY <1>1, <1>2
  <2>2. \A q \in sent' : q[2] = local'[q[1]]
    BY <1>1 DEF Copied
  <2>3. \A k \in 1 .. Len(temp') : temp'[k] \in {Gap, local'[k]}
    BY <1>1 DEF Copied
  <2>4. \A k \in 1 .. next' - 1 : Settled(k)' => temp'[k] = local'[k]
    BY <1>1, <1>5 DEF Copied
  <2> QED
    BY <2>1, <2>2, <2>3, <2>4 DEF Copied
<1> QED
  BY <1>1, <1>2, <1>4, <1>6, <1>7, CopyKeeps

(* The server writes a block, whether or not its answer arrives.             *)
LEMMA WriteKeeps ==
  ASSUME UploadInv, Copying, NEW r \in sent, sent' = sent \ {r}, temp' = Written(temp, r),
         UNCHANGED <<pc, local, unsafe, next>>,
         \A k \in 1 .. next - 1 : Settled(k)' => Settled(k) \/ k = r[1]
  PROVE  temp' \in Seq(Blocks) /\ Placed' /\ Copied'
<1> USE DEF UploadInv
<1> DEFINE n == r[1]
           b == r[2]
<1>1. /\ n \in 1 .. next - 1 /\ b \in Blocks /\ r = <<n, b>> /\ next \in Nat \ {0}
      /\ temp \in Seq(Blocks) /\ Len(temp) \in Nat /\ pc = "copy"
      /\ sent \subseteq (1 .. next - 1) \X Blocks
  BY DEF Structure, Copying
<1> HIDE DEF n, b
<1>2. /\ temp' \in Seq(Blocks) /\ Len(temp') = IF Len(temp) < n THEN n ELSE Len(temp)
      /\ temp'[n] = b
      /\ \A j \in 1 .. Len(temp) : j # n => temp'[j] = temp[j]
      /\ \A j \in 1 .. n - 1 : j > Len(temp) => temp'[j] = Gap
  <2>1. temp \in Seq(Blocks) /\ r[1] \in Nat \ {0} /\ r[2] \in Blocks
    BY <1>1 DEF n, b
  <2> QED
    BY <2>1, WriteIs DEF n, b
<1>3. Placed'
  <2>1. Len(temp') < next
    BY <1>1, <1>2 DEF Placed
  <2>2. ASSUME NEW k \in 1 .. next - 1, Settled(k)' PROVE k <= Len(temp')
    BY <1>1, <1>2, <2>2 DEF Placed, n
  <2> QED
    BY <2>1, <2>2 DEF Placed
<1>4. Copied'
  <2> SUFFICES ASSUME ~unsafe PROVE Copied'
    BY DEF Copied
  <2>1. local[n] = b
    BY <1>1 DEF Copied
  <2>2. next' <= Len(local') + 1 /\ \A q \in sent' : q[2] = local'[q[1]]
    BY <1>1 DEF Copied
  <2>3. ASSUME NEW k \in 1 .. Len(temp') PROVE temp'[k] \in {Gap, local[k]}
    <3>1. CASE k = n
      BY <1>2, <2>1, <3>1
    <3>2. CASE k \in 1 .. Len(temp) /\ k # n
      <4>1. temp'[k] = temp[k]
        BY <1>2, <3>2
      <4> QED
        BY <1>1, <3>2, <4>1 DEF Copied
    <3>3. CASE k > Len(temp) /\ k # n
      BY <1>1, <1>2, <3>3
    <3> QED
      BY <1>1, <1>2, <3>1, <3>2, <3>3
  <2>4. ASSUME NEW k \in 1 .. next - 1, Settled(k)' PROVE temp'[k] = local[k]
    <3>1. CASE k = n
      BY <1>2, <2>1, <3>1
    <3>2. CASE k # n
      <4>1. Settled(k) /\ temp[k] = local[k] /\ k <= Len(temp)
        BY <1>1, <2>4, <3>2 DEF Copied, Placed, n
      <4>2. k \in 1 .. Len(temp)
        BY <1>1, <4>1
      <4>3. temp'[k] = temp[k]
        BY <1>2, <3>2, <4>2
      <4> QED
        BY <4>1, <4>3
    <3> QED
      BY <3>1, <3>2
  <2> QED
    BY <2>2, <2>3, <2>4 DEF Copied
<1> QED
  BY <1>2, <1>3, <1>4

LEMMA ApplyStep ==
  ASSUME UploadInv, NEW r \in sent, Apply(r)
  PROVE  UploadInv'
<1> USE DEF UploadInv
<1>1. /\ Copying /\ CopyKeep /\ UNCHANGED <<pc, local, unsafe, next, failedAt>>
      /\ temp' = Written(temp, r) /\ sent' = sent \ {r}
  BY DEF Apply, CopyKeep
<1>2. /\ sent \subseteq (1 .. next - 1) \X Blocks /\ failedAt \in 0 .. next
      /\ next \in Nat \ {0}
  BY DEF Structure
<1>3. \A k \in 1 .. next - 1 : Settled(k)' => Settled(k) \/ k = r[1]
  BY <1>1 DEF Settled
<1>4. temp' \in Seq(Blocks) /\ Placed' /\ Copied'
  BY <1>1, <1>3, WriteKeeps
<1> QED
  BY <1>1, <1>2, <1>4, CopyKeeps

LEMMA RefuseStep ==
  ASSUME UploadInv, NEW r \in sent, Refuse(r)
  PROVE  UploadInv'
<1> USE DEF UploadInv
<1>1. /\ Copying /\ CopyKeep /\ UNCHANGED <<pc, local, unsafe, next>>
      /\ temp' = temp \/ temp' = Written(temp, r)
      /\ sent' = sent \ {r} /\ failedAt' = Earliest(failedAt, r[1])
  BY DEF Refuse, CopyKeep
<1>2. /\ sent \subseteq (1 .. next - 1) \X Blocks /\ failedAt \in 0 .. next
      /\ next \in Nat \ {0} /\ r[1] \in 1 .. next - 1 /\ temp \in Seq(Blocks)
  BY DEF Structure
<1>3. /\ failedAt' \in 1 .. next - 1 \cup {failedAt} /\ failedAt' <= r[1]
      /\ failedAt' \in 0 .. next /\ failedAt' # 0 /\ (failedAt # 0 => failedAt' <= failedAt)
  BY <1>1, <1>2 DEF Earliest
<1>4. \A k \in 1 .. next - 1 : Settled(k)' => Settled(k)
  BY <1>1, <1>2, <1>3 DEF Settled
<1>5. CASE temp' = temp
  <2>1. Placed'
    BY <1>1, <1>4, <1>5 DEF Placed
  <2>2. Copied'
    BY <1>1, <1>4, <1>5 DEF Copied
  <2> QED
    BY <1>1, <1>2, <1>3, <1>5, <2>1, <2>2, CopyKeeps
<1>6. CASE temp' = Written(temp, r)
  <2>1. temp' \in Seq(Blocks) /\ Placed' /\ Copied'
    BY <1>1, <1>4, <1>6, WriteKeeps
  <2> QED
    BY <1>1, <1>2, <1>3, <2>1, CopyKeeps
<1> QED
  BY <1>1, <1>5, <1>6

LEMMA StopStep ==
  ASSUME UploadInv, StopReading
  PROVE  UploadInv'
<1> USE DEF UploadInv
<1>1. /\ Copying /\ CopyKeep /\ UNCHANGED <<pc, local, unsafe, temp, next, sent>>
      /\ failedAt = 0 /\ failedAt' = next
  BY DEF StopReading, CopyKeep
<1>2. /\ sent \subseteq (1 .. next - 1) \X Blocks /\ next \in Nat \ {0} /\ temp \in Seq(Blocks)
  BY DEF Structure
<1>3. \A k \in 1 .. next - 1 : Settled(k)' => Settled(k)
  BY <1>1, <1>2 DEF Settled
<1>4. Placed' /\ Copied'
  BY <1>1, <1>3 DEF Placed, Copied
<1> QED
  BY <1>1, <1>2, <1>4, CopyKeeps

(* Without failure all blocks are settled: the copy is whole.                *)
LEMMA DoneStep ==
  ASSUME UploadInv, CopyDone
  PROVE  UploadInv'
<1> USE DEF UploadInv
<1>1. /\ pc = "copy" /\ pc' = "verify" /\ sent = {} /\ failedAt = 0 /\ next > Len(local)
      /\ UNCHANGED <<local, temp, final, attempt, size, next, sent, failedAt, unsafe>>
  BY DEF CopyDone, Copying, files, copy
<1>2. /\ local \in Contents /\ local \in Seq(Blocks) /\ Len(local) \in Nat
      /\ next \in Nat \ {0} /\ temp \in Seq(Blocks) /\ Len(temp) \in Nat
  BY <1>1, ContentsTyped DEF Structure
<1>3. Structure'
  BY <1>1, <1>2 DEF Structure
<1>4. ~unsafe => temp = local
  <2> SUFFICES ASSUME ~unsafe PROVE temp = local
    OBVIOUS
  <2>1. \A k \in 1 .. next - 1 : Settled(k)
    BY <1>1 DEF Settled
  <2>2. next = Len(local) + 1
    BY <1>1, <1>2 DEF Copied
  <2>3. \A k \in 1 .. Len(local) : k <= Len(temp) /\ temp[k] = local[k]
    BY <1>1, <1>2, <2>1, <2>2 DEF Copied, Placed
  <2>4. Len(temp) <= Len(local)
    BY <1>1, <1>2, <2>2 DEF Placed
  <2>5. Len(temp) = Len(local)
    BY <1>2, <2>3, <2>4
  <2> QED
    BY <1>2, <2>3, <2>5, SeqEqual
<1> QED
  BY <1>1, <1>3, <1>4 DEF Placed, Between, Copied, Whole

(* Cut back to the earliest failed block the temp file is a prefix; if it    *)
(* cannot be cut, it is one unless it has a gap.                             *)
LEMMA TrimStep ==
  ASSUME UploadInv, CopyFailed
  PROVE  UploadInv'
<1> USE DEF UploadInv
<1>1. /\ pc = "copy" /\ sent = {} /\ failedAt # 0 /\ Trim /\ Failed
      /\ UNCHANGED <<local, final>>
  BY DEF CopyFailed, Copying
<1>2. /\ local \in Contents /\ local \in Seq(Blocks) /\ Len(local) \in Nat
      /\ next \in Nat \ {0} /\ temp \in Seq(Blocks) /\ Len(temp) \in Nat
      /\ failedAt \in 1 .. next /\ final \in Seq(Blocks)
  BY <1>1, ContentsTyped DEF Structure
<1>3. \A k \in 1 .. failedAt - 1 : k \in 1 .. next - 1 /\ Settled(k)
  BY <1>1, <1>2 DEF Settled
<1>4. Over
  BY <1>1, FailedIsOver
<1>5. CASE temp' = SubSeq(temp, 1, failedAt - 1) /\ UNCHANGED unsafe
  <2> DEFINE m == failedAt - 1
  <2>1. temp' = SubSeq(temp, 1, m) /\ (~unsafe' => ~unsafe)
    BY <1>5
  <2>2. m \in Nat /\ m <= Len(temp)
    BY <1>1, <1>2, <1>3 DEF Placed
  <2>3. \A i \in 1 .. m : temp[i] \in Blocks
    BY <1>2, <2>2
  <2> HIDE DEF m
  <2>4. temp' \in Seq(Blocks) /\ Len(temp') = m /\ \A i \in 1 .. m : temp'[i] = temp[i]
    BY <2>1, <2>2, <2>3, SubSeqProperties
  <2>5. Between'
    <3> SUFFICES ASSUME ~unsafe PROVE Between'
      BY <2>1 DEF Between
    <3>1. \A i \in 1 .. m : temp[i] = local[i] /\ i < next
      BY <1>1, <1>2, <1>3 DEF Copied, m
    <3>2. m <= Len(local)
      BY <1>1, <1>2, <2>2 DEF Copied, m
    <3>3. Len(temp') <= Len(local') /\ \A k \in 1 .. Len(temp') : temp'[k] = local'[k]
      BY <1>1, <2>4, <3>1, <3>2
    <3>4. temp' = Prefix(local', Len(temp'))
      BY <1>1, <1>2, <2>4, <3>3, PrefixIs
    <3> QED
      BY <3>4 DEF Between
  <2> QED
    BY <1>1, <1>2, <1>4, <2>4, <2>5, OverKeeps
<1>6. CASE UNCHANGED temp /\ unsafe' = (unsafe \/ SomeGap(temp))
  <2>1. temp' = temp /\ (~unsafe' => ~unsafe /\ ~SomeGap(temp))
    BY <1>6
  <2>2. Between'
    <3> SUFFICES ASSUME ~unsafe, ~SomeGap(temp), Exists(temp) PROVE Between'
      BY <2>1 DEF Between
    <3>1. \A k \in 1 .. Len(temp) : temp[k] = local[k]
      BY <1>1, <1>2 DEF Copied, SomeGap
    <3>2. Len(temp) <= Len(local)
      BY <1>1, <1>2 DEF Copied, Placed
    <3>3. temp = Prefix(local, Len(temp))
      BY <1>2, <3>1, <3>2, PrefixIs
    <3> QED
      BY <1>1, <2>1, <3>3 DEF Between
  <2> QED
    BY <1>1, <1>2, <1>4, <2>1, <2>2, OverKeeps
<1> QED
  BY <1>1, <1>5, <1>6 DEF Trim

-----------------------------------------------------------------------------
(* Publishing the copy.                                                      *)

(* A whole copy is a prefix to resume from.                                  *)
LEMMA WholeIsBetween ==
  ASSUME UploadInv, pc \in {"verify", "remove", "rename"}, UNCHANGED <<local, temp, unsafe>>
  PROVE  Between'
<1> SUFFICES ASSUME ~unsafe PROVE Between'
  BY DEF Between
<1>1. temp = local /\ temp \in Seq(Blocks) /\ Len(temp) \in Nat
  BY DEF UploadInv, Whole, Structure
<1>2. temp = Prefix(local, Len(temp))
  BY <1>1, PrefixIs
<1> QED
  BY <1>2 DEF Between

LEMMA VerifyStep ==
  ASSUME UploadInv, Verify \/ RenameFails
  PROVE  UploadInv'
<1> USE DEF UploadInv
<1>1. pc \in {"verify", "rename"} /\ UNCHANGED <<local, temp, final, unsafe>>
  BY DEF Verify, RenameFails, files
<1>2. CASE Failed
  BY <1>1, <1>2, FailedIsOver, OverKeeps, WholeIsBetween DEF Structure
<1>3. CASE /\ pc = "verify" /\ pc' \in {"remove", "rename"}
           /\ UNCHANGED <<attempt, size, next, sent, failedAt>>
  <2>1. Structure'
    BY <1>1, <1>3 DEF Structure
  <2> QED
    BY <1>1, <1>3, <2>1 DEF Placed, Between, Copied, Whole
<1> QED
  BY <1>2, <1>3 DEF Verify, RenameFails, copy

LEMMA RemoveStep ==
  ASSUME UploadInv, RemoveOld
  PROVE  UploadInv'
<1>1. /\ pc = "remove" /\ pc' = "rename" /\ final' \in Seq(Blocks)
      /\ UNCHANGED <<local, temp, attempt, size, next, sent, failedAt, unsafe>>
  BY ContentsTyped DEF RemoveOld, copy, UploadInv, Structure
<1>2. Structure'
  BY <1>1 DEF UploadInv, Structure
<1> QED
  BY <1>1, <1>2 DEF UploadInv, Placed, Between, Copied, Whole

LEMMA RenameStep ==
  ASSUME UploadInv, RenameOk
  PROVE  UploadInv'
<1> USE DEF UploadInv
<1>1. /\ pc = "rename" /\ final' = temp /\ temp' = NoFile /\ UNCHANGED <<local, unsafe>>
  BY DEF RenameOk
<1>2. /\ temp' \in Seq(Blocks) /\ final' \in Seq(Blocks)
      /\ local' \in Contents \cup {NoFile} /\ local \in Contents
  BY <1>1, ContentsTyped DEF Structure
<1>3. CASE Failed
  <2>1. Between'
    BY <1>1 DEF Between, Exists
  <2> QED
    BY <1>2, <1>3, <2>1, FailedIsOver, OverKeeps
<1>4. CASE pc' = "delete" /\ UNCHANGED <<attempt, size, next, sent, failedAt>>
  <2>1. Structure'
    BY <1>1, <1>2, <1>4 DEF Structure
  <2> QED
    BY <1>1, <1>4, <2>1 DEF Placed, Between, Copied, Whole
<1> QED
  BY <1>3, <1>4 DEF RenameOk, copy

LEMMA DeleteStep ==
  ASSUME UploadInv, DeleteLocal
  PROVE  UploadInv'
<1> USE DEF UploadInv
<1>1. /\ pc = "delete" /\ temp' = temp /\ final' = final /\ temp = NoFile
      /\ local' \in {NoFile, local}
  BY DEF DeleteLocal, Structure
<1>2. Over
  BY LimitsAssumption DEF DeleteLocal, Over, CopyOver
<1>3. Between'
  BY <1>1 DEF Between, Exists
<1> QED
  BY <1>1, <1>2, <1>3, OverKeeps DEF Structure

-----------------------------------------------------------------------------
(* What happens around the upload.                                           *)

LEMMA FaultStep ==
  ASSUME UploadInv, LinkDown \/ Cancel \/ UNCHANGED vars
  PROVE  UploadInv'
<1>1. UNCHANGED <<local, temp, final, pc, attempt, size, next, sent, failedAt, unsafe>>
  BY DEF LinkDown, Cancel, vars, files, copy
<1>2. Structure'
  BY <1>1 DEF UploadInv, Structure
<1>3. Placed' /\ Copied'
  BY <1>1 DEF UploadInv, Placed, Copied, Settled
<1>4. Between' /\ Whole'
  BY <1>1 DEF UploadInv, Between, Whole, Exists, Vouched, Prefix
<1> QED
  BY <1>2, <1>3, <1>4 DEF UploadInv

(* An edit while an upload runs, or one that the comparison cannot see, is   *)
(* recorded as unsafe.                                                       *)
LEMMA EditStep ==
  ASSUME UploadInv, NEW c \in Contents, Edit(c)
  PROVE  UploadInv'
<1>1. /\ local' = c /\ (~unsafe' => pc = "idle" /\ ~(Exists(temp) /\ Vouched(temp, c)))
      /\ UNCHANGED <<temp, final, pc, attempt, size, next, sent, failedAt>>
  BY DEF Edit, copy
<1>2. Structure'
  BY <1>1 DEF UploadInv, Structure
<1>3. Placed'
  BY <1>1 DEF UploadInv, Placed, Settled
<1>4. Copied' /\ Whole'
  BY <1>1 DEF Copied, Whole
<1>5. Between'
  BY <1>1 DEF Between, Exists, Vouched, Prefix
<1> QED
  BY <1>2, <1>3, <1>4, <1>5 DEF UploadInv

LEMMA CrashStep ==
  ASSUME UploadInv, Crash
  PROVE  UploadInv'
<1> USE DEF UploadInv
<1>0. temp \in Seq(Blocks) /\ Len(temp) \in Nat /\ next \in Nat \ {0}
  BY DEF Structure
<1>1. UNCHANGED <<local, temp, final>> /\ (~unsafe' => ~unsafe /\ ~SomeGap(temp))
  BY DEF Crash, files
<1>2. Over
  BY LimitsAssumption DEF Crash, Over, CopyOver
<1>3. Between'
  <2> SUFFICES ASSUME ~unsafe, ~SomeGap(temp), Exists(temp), Exists(local),
                      Vouched(temp, local)
               PROVE  temp = Prefix(local, Len(temp))
    BY <1>1 DEF Between, Exists, Vouched, Prefix
  <2>1. CASE pc \in {"idle", "begin", "prepare"}
    BY <2>1 DEF Between
  <2>2. CASE pc = "copy"
    <3>1. local \in Contents /\ local \in Seq(Blocks) /\ Len(local) \in Nat
      BY <2>2, ContentsTyped DEF Structure
    <3>2. \A k \in 1 .. Len(temp) : temp[k] = local[k]
      BY <1>0, <2>2 DEF Copied, SomeGap
    <3>3. Len(temp) <= Len(local)
      BY <1>0, <2>2, <3>1 DEF Copied, Placed
    <3> QED
      BY <1>0, <3>1, <3>2, <3>3, PrefixIs
  <2>3. CASE pc \in {"verify", "remove", "rename"}
    BY <1>0, <2>3, PrefixIs DEF Whole
  <2>4. CASE pc = "delete"
    BY <2>4 DEF Structure, Exists
  <2> QED
    BY <2>1, <2>2, <2>3, <2>4 DEF Structure
<1> QED
  BY <1>1, <1>2, <1>3, OverKeeps DEF Structure

-----------------------------------------------------------------------------
LEMMA UploadNext == UploadInv /\ [Next]_vars => UploadInv'
<1> SUFFICES ASSUME UploadInv, [Next]_vars PROVE UploadInv'
  OBVIOUS
<1>1. CASE Begin \/ Prepare \/ Send \/ StopReading \/ CopyDone \/ CopyFailed
  BY <1>1, BeginStep, PrepareStep, SendStep, StopStep, DoneStep, TrimStep
<1>2. CASE Verify \/ RemoveOld \/ RenameOk \/ RenameFails \/ DeleteLocal
  BY <1>2, VerifyStep, RemoveStep, RenameStep, DeleteStep
<1>3. CASE \E r \in sent : Apply(r) \/ Refuse(r)
  BY <1>3, ApplyStep, RefuseStep
<1>4. CASE StartTask \/ Crash
  BY <1>4, StartStep, CrashStep
<1>5. CASE LinkDown \/ Cancel \/ UNCHANGED vars
  BY <1>5, FaultStep
<1>6. CASE \E c \in Contents : Edit(c)
  BY <1>6, EditStep
<1> QED
  BY <1>1, <1>2, <1>3, <1>4, <1>5, <1>6 DEF Next, Step

LEMMA UploadInvariant == Spec => []UploadInv
BY UploadInit, UploadNext, PTL DEF Spec

(* The files stay sequences of known blocks and requests in flight are for   *)
(* blocks that UploadFile has read, whatever fails.                          *)
THEOREM TypeCorrect == Spec => []TypeOK
<1>1. UploadInv => TypeOK
  <2> SUFFICES ASSUME UploadInv PROVE TypeOK
    OBVIOUS
  <2>1. \A r \in sent : r[1] < next
    BY DEF UploadInv, Structure
  <2> QED
    BY <2>1 DEF UploadInv, Structure, TypeOK
<1> QED
  BY <1>1, UploadInvariant, PTL

(* trimPartialUpload and the comparison of the first blocks make the resume  *)
(* of UploadFile sound, in whatever order the concurrent writes of pkg/sftp  *)
(* are carried out or fail: a partial file it accepts is a prefix, unless a  *)
(* gap was not trimmed (the truncate failed, the process died) or the source *)
(* was edited where no comparison looks (unsafe).                            *)
THEOREM ResumeIsSound == Spec => []PartialIsPrefix
<1>1. UploadInv => PartialIsPrefix
  BY DEF UploadInv, Between, PartialIsPrefix
<1> QED
  BY <1>1, UploadInvariant, PTL

(* UploadFile renames the temp file only when it is a whole copy, with the   *)
(* exceptions of ResumeIsSound.                                              *)
THEOREM OnlyWholePublished == Spec => PublishedWhole
<1>1. UploadInv /\ [Next]_vars => [final' # final /\ Exists(final') /\ ~unsafe => final' = local]_vars
  <2> SUFFICES ASSUME UploadInv, Next, final' # final, Exists(final'), ~unsafe
               PROVE  final' = local
    OBVIOUS
  <2>1. CASE RenameOk
    BY <2>1 DEF RenameOk, UploadInv, Whole
  <2>2. CASE RemoveOld
    BY <2>2 DEF RemoveOld, Exists
  <2> QED
    BY <2>1, <2>2 DEF Next, Step, StartTask, Begin, Prepare, Send, StopReading, CopyDone,
         CopyFailed, Verify, RenameFails, DeleteLocal, Apply, Refuse, CopyKeep,
         LinkDown, Cancel, Crash, Edit, files
<1> QED
  BY <1>1, UploadInvariant, PTL DEF Spec, PublishedWhole

(* UploadFile deletes the local file only when the file under the final name *)
(* is a whole copy of it, with the exceptions of ResumeIsSound.              *)
THEOREM DeletedWhenCopied == Spec => SourceKept
<1>1. UploadInv /\ [Next]_vars => [Exists(local) /\ ~Exists(local') /\ ~unsafe => final = local]_vars
  <2> SUFFICES ASSUME UploadInv, Next, Exists(local), ~Exists(local'), ~unsafe
               PROVE  final = local
    OBVIOUS
  <2>1. CASE DeleteLocal
    BY <2>1 DEF DeleteLocal, UploadInv, Whole
  <2>2. CASE \E c \in Contents : Edit(c)
    BY <2>2, ContentsTyped DEF Edit, Exists
  <2>3. ASSUME ~DeleteLocal, ~\E c \in Contents : Edit(c) PROVE local' = local
    BY <2>3 DEF Next, Step, StartTask, Begin, Prepare, Send, StopReading, CopyDone,
         CopyFailed, Verify, RemoveOld, RenameOk, RenameFails, Apply, Refuse, CopyKeep,
         LinkDown, Cancel, Crash, files
  <2> QED
    BY <2>1, <2>2, <2>3
<1> QED
  BY <1>1, UploadInvariant, PTL DEF Spec, SourceKept

-----------------------------------------------------------------------------
(* Refused writes and cancellation alone.                                    *)

(* Nothing keeps the trim from being carried out after a failure.            *)
Steady ==
  /\ ~unsafe /\ (pc # "idle" => link)
  /\ final \in Contents \cup {NoFile}

LEMMA SteadyStep ==
  ASSUME Faults \subseteq {"writeerror", "cancel"}, UploadInv, Steady, [Next]_vars
  PROVE  Steady'
<1> USE DEF Steady
<1>1. /\ "linkdown" \notin Faults /\ "crash" \notin Faults /\ "edit" \notin Faults
      /\ "refuse" \notin Faults
  OBVIOUS
<1>2. CASE UNCHANGED vars
  BY <1>2 DEF vars, files, conn
<1>3. CASE StartTask
  BY <1>3 DEF StartTask, files
<1>4. CASE Begin \/ Prepare
  BY <1>4 DEF Begin, Prepare, files
<1>5. CASE Send \/ StopReading \/ CopyDone
  BY <1>5 DEF Send, StopReading, CopyDone, Copying, CopyKeep, files, conn
<1>6. CASE CopyFailed
  BY <1>1, <1>6 DEF CopyFailed, Copying, Trim, MayFail
<1>7. CASE Verify \/ RenameFails
  BY <1>7 DEF Verify, RenameFails, files
<1>8. CASE RemoveOld
  BY <1>8 DEF RemoveOld, conn
<1>9. CASE RenameOk
  BY <1>1, <1>9 DEF RenameOk, conn, UploadInv, Structure, Whole
<1>10. CASE DeleteLocal
  BY <1>10 DEF DeleteLocal
<1>11. ASSUME NEW r \in sent, Apply(r) \/ Refuse(r) PROVE Steady'
  BY <1>11 DEF Apply, Refuse, Copying, CopyKeep, conn
<1>12. CASE LinkDown \/ Crash \/ \E c \in Contents : Edit(c)
  BY <1>1, <1>12 DEF LinkDown, Crash, Edit
<1>13. CASE Cancel
  BY <1>13 DEF Cancel, files
<1> QED
  BY <1>2, <1>3, <1>4, <1>5, <1>6, <1>7, <1>8, <1>9, <1>10, <1>11, <1>12, <1>13 DEF Next, Step

(* What the comments of UploadFile and trimPartialUpload promise does hold   *)
(* as long as the connection and the process live, the server refuses        *)
(* nothing but writes and nobody edits the file: however often writes are    *)
(* refused and tasks are cancelled and started again, what is published is a *)
(* file that the user had.                                                   *)
THEOREM NothingCorrupted ==
  Faults \subseteq {"writeerror", "cancel"} => (Spec => []NeverCorrupt)
<1> SUFFICES ASSUME Faults \subseteq {"writeerror", "cancel"} PROVE Spec => []NeverCorrupt
  OBVIOUS
<1>1. Init => Steady
  BY DEF Init, Steady
<1>2. UploadInv /\ Steady /\ [Next]_vars => Steady'
  BY SteadyStep
<1>3. Steady => NeverCorrupt
  BY DEF Steady, NeverCorrupt, Exists
<1> QED
  BY <1>1, <1>2, <1>3, UploadInvariant, PTL DEF Spec

=============================================================================
