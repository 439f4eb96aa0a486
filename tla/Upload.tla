------------------------------- MODULE Upload -------------------------------
(* One task's upload (src/internal/sftpclient/client.go, UploadFile with     *)
(* UploadFileWithRetry): check, resume or create the .tmp file, copy with    *)
(* concurrent write requests, trim, verify, rename, delete the source.       *)
(* The connection may be lost, the server may refuse a write or any other    *)
(* request, the task may be cancelled, the process may die, the source may   *)
(* be edited; the task may be started again on a new connection.  A file is  *)
(* a sequence of blocks.                                                     *)
EXTENDS Integers, Sequences, FiniteSets

CONSTANTS Contents,      \* the contents the local file may have
          VerifyBlocks,  \* blocks of a partial file compared before a resume (1 MB)
          Window,        \* write requests in flight at a time
          MaxAttempts,   \* attempts of UploadFileWithRetry
          Faults         \* the faults that may happen

AllFaults == {"linkdown", "writeerror", "refuse", "cancel", "crash", "edit"}

Gap    == 0        \* a block the server never received
NoFile == <<0, 0>> \* a file that does not exist: no content has gaps

ASSUME ContentsAssumption == Contents \subseteq Seq(Nat \ {Gap}) \ {<<>>}
ASSUME LimitsAssumption ==
  /\ {VerifyBlocks, Window, MaxAttempts} \subseteq Nat \ {0}
  /\ Faults \subseteq AllFaults

VARIABLES local, temp, final,  \* the local file, remotePath.tmp and remotePath
          overwrite, delete,   \* the request's Overwrite and DeleteAfterVerify
          pc, attempt,         \* where the upload is, and in which attempt
          link, cancelled,     \* the SSH connection is up; the task's context is done
          size,                \* localStat.Size()
          next, sent,          \* the next block to read; requests in flight
          failedAt,            \* the earliest block that failed, or 0
          unsafe               \* history: no check of a resume can see what
                               \* is wrong with temp (see PartialIsPrefix)

files  == <<local, temp, final>>
config == <<overwrite, delete>>
conn   == <<link, cancelled>>
copy   == <<size, next, sent, failedAt>>
vars   == <<files, config, pc, attempt, conn, copy, unsafe>>

Init ==
  /\ local \in Contents /\ temp = NoFile /\ final \in {NoFile} \cup Contents
  /\ overwrite \in BOOLEAN /\ delete \in BOOLEAN
  /\ pc = "idle" /\ attempt = 1
  /\ link = FALSE /\ cancelled = FALSE
  /\ size = 0 /\ next = 1 /\ sent = {} /\ failedAt = 0
  /\ unsafe = FALSE

Prefix(s, n)  == SubSeq(s, 1, IF n < Len(s) THEN n ELSE Len(s))
Exists(f)     == f # NoFile
SomeGap(f)    == Exists(f) /\ \E i \in DOMAIN f : f[i] = Gap
Earliest(a, b) == IF a = 0 \/ b < a THEN b ELSE a

(* The file f after the server carried out the write request r; a write past *)
(* the end leaves a gap before it.                                           *)
End(f, r) == IF Len(f) < r[1] THEN r[1] ELSE Len(f)
Written(f, r) ==
  [k \in 1 .. End(f, r) |-> IF k = r[1] THEN r[2] ELSE IF k <= Len(f) THEN f[k] ELSE Gap]

(* A request other than a write may fail: the connection is gone, or the     *)
(* server refuses it.                                                        *)
MayFail == ~link \/ "refuse" \in Faults

(* The variables of an upload that is over.                                  *)
CopyOver == size' = 0 /\ next' = 1 /\ sent' = {} /\ failedAt' = 0

-----------------------------------------------------------------------------
(* processTask connects and calls UploadFileWithRetry.                       *)
StartTask ==
  /\ pc = "idle"
  /\ pc' = "begin" /\ attempt' = 1
  /\ link' = TRUE /\ cancelled' = FALSE
  /\ UNCHANGED <<files, config, copy, unsafe>>

(* An attempt ends with an error: the next one uses the same connection.     *)
MutFailed ==
  /\ IF cancelled THEN pc' = "idle" ELSE pc' = "begin"
  /\ CopyOver /\ UNCHANGED <<attempt, config, cancelled>>

MutFailedCount ==
  /\ IF attempt <= MaxAttempts /\ ~cancelled
       THEN pc' = "begin" /\ attempt' = attempt + 1
       ELSE pc' = "idle" /\ attempt' = 1
  /\ CopyOver /\ UNCHANGED <<config, cancelled>>

Failed ==
  /\ IF attempt < MaxAttempts /\ ~cancelled
       THEN pc' = "begin" /\ attempt' = attempt + 1
       ELSE pc' = "idle" /\ attempt' = 1
  /\ CopyOver /\ UNCHANGED <<config, cancelled>>

(* Without overwrite an existing remote file is an error, and so is one that *)
(* cannot be looked for; a missing local file always is.  The size found     *)
(* here is what the copy is verified against.                                *)
Begin ==
  /\ pc = "begin"
  /\ \/ ~overwrite /\ (MayFail \/ Exists(final)) /\ Failed
     \/ ~Exists(local) /\ Failed
     \/ /\ overwrite \/ (link /\ ~Exists(final))
        /\ Exists(local)
        /\ pc' = "prepare" /\ size' = Len(local)
        /\ UNCHANGED <<next, sent, failedAt, attempt, config, cancelled>>
  /\ UNCHANGED <<files, link, unsafe>>

(* A shorter partial file whose first blocks match is resumed at its end.    *)
(* If it cannot be looked for, opened or read, the temp file is created anew.*)
Vouched(f, c) == LET p == Prefix(f, VerifyBlocks) IN p = Prefix(c, Len(p))
MutResumable  == Exists(temp) /\ Len(temp) \in 1 .. size - 1
Resumable     == Exists(temp) /\ Len(temp) \in 1 .. size - 1 /\ Vouched(temp, local)

Prepare ==
  /\ pc = "prepare"
  /\ \/ MayFail /\ Failed /\ UNCHANGED <<temp, unsafe>>
     \/ /\ link /\ pc' = "copy"
        /\ \/ Resumable /\ next' = Len(temp) + 1 /\ UNCHANGED <<temp, unsafe>>
           \/ /\ ~Resumable \/ MayFail
              /\ next' = 1 /\ temp' = <<>> /\ unsafe' = FALSE
        /\ UNCHANGED <<size, sent, failedAt, attempt, config, cancelled>>
  /\ UNCHANGED <<local, final, link>>

-----------------------------------------------------------------------------
(* File.ReadFrom of pkg/sftp: blocks are read in order, written in any.      *)

Copying   == pc = "copy"
CopyKeep  == UNCHANGED <<local, final, config, pc, attempt, conn, size, unsafe>>

Send ==
  /\ Copying /\ failedAt = 0 /\ ~cancelled
  /\ Cardinality(sent) < Window /\ next <= Len(local)
  /\ sent' = sent \cup {<<next, local[next]>>}
  /\ next' = next + 1
  /\ CopyKeep /\ UNCHANGED <<temp, failedAt>>

Apply(r) ==
  /\ Copying /\ link /\ r \in sent
  /\ temp' = Written(temp, r)
  /\ sent' = sent \ {r}
  /\ CopyKeep /\ UNCHANGED <<next, failedAt>>

(* The server refuses the write, or its answer is lost with the connection,  *)
(* in which case the server may have written the block.                      *)
Refuse(r) ==
  /\ Copying /\ r \in sent
  /\ \/ link /\ "writeerror" \in Faults /\ UNCHANGED temp
     \/ ~link /\ temp' \in {temp, Written(temp, r)}
  /\ sent' = sent \ {r}
  /\ failedAt' = Earliest(failedAt, r[1])
  /\ CopyKeep /\ UNCHANGED next

(* contextReader: the next read fails once the context is done, the one that *)
(* would find the end of the file too.                                       *)
StopReading ==
  /\ Copying /\ cancelled /\ failedAt = 0
  /\ failedAt' = next
  /\ CopyKeep /\ UNCHANGED <<temp, next, sent>>

CopyDone ==
  /\ Copying /\ sent = {} /\ failedAt = 0 /\ next > Len(local)
  /\ pc' = "verify"
  /\ UNCHANGED <<files, config, attempt, conn, copy, unsafe>>

(* trimPartialUpload: cut the file back to the earliest failed block.  If    *)
(* the truncate fails, which is only logged, whatever was written stays.     *)
MutTrim == UNCHANGED <<temp, unsafe>>
Trim ==
  \/ link /\ temp' = SubSeq(temp, 1, failedAt - 1) /\ UNCHANGED unsafe
  \/ MayFail /\ unsafe' = (unsafe \/ SomeGap(temp)) /\ UNCHANGED temp

CopyFailed ==
  /\ Copying /\ sent = {} /\ failedAt # 0
  /\ Trim /\ Failed
  /\ UNCHANGED <<local, final, link>>

-----------------------------------------------------------------------------
(* The size of the temp file decides whether the copy is published.          *)
Verify ==
  /\ pc = "verify"
  /\ \/ /\ link /\ Len(temp) = size
        /\ pc' = (IF overwrite THEN "remove" ELSE "rename")
        /\ UNCHANGED <<attempt, config, cancelled, copy>>
     \/ (MayFail \/ Len(temp) # size) /\ Failed
  /\ UNCHANGED <<files, link, unsafe>>

(* The old file is removed first, best effort: SFTP v3 does not rename over  *)
(* an existing file.                                                         *)
RemoveOld ==
  /\ pc = "remove" /\ pc' = "rename"
  /\ \/ link /\ final' = NoFile
     \/ MayFail /\ final' = final
  /\ UNCHANGED <<local, temp, config, attempt, conn, copy, unsafe>>

(* The rename may be done by the server and its answer be lost.              *)
RenameOk ==
  /\ pc = "rename" /\ link /\ ~Exists(final)
  /\ final' = temp /\ temp' = NoFile
  /\ \/ pc' = "delete" /\ UNCHANGED <<config, attempt, conn, copy>>
     \/ "linkdown" \in Faults /\ link' = FALSE /\ Failed
  /\ UNCHANGED <<local, unsafe>>

MutRenameFails ==
  /\ pc = "rename" /\ (MayFail \/ Exists(final)) /\ pc' = "delete"
  /\ UNCHANGED <<files, config, attempt, conn, copy, unsafe>>

RenameFails ==
  /\ pc = "rename" /\ (MayFail \/ Exists(final))
  /\ Failed
  /\ UNCHANGED <<files, link, unsafe>>

DeleteLocal ==
  /\ pc = "delete" /\ pc' = "idle" /\ attempt' = 1 /\ CopyOver
  /\ local' \in (IF delete THEN {NoFile, local} ELSE {local})
  /\ UNCHANGED <<temp, final, config, conn, unsafe>>

-----------------------------------------------------------------------------
(* What happens around the upload.                                           *)

LinkDown ==
  /\ link /\ "linkdown" \in Faults /\ pc # "idle"
  /\ link' = FALSE
  /\ UNCHANGED <<files, config, pc, attempt, cancelled, copy, unsafe>>

Cancel ==
  /\ "cancel" \in Faults /\ pc # "idle" /\ cancelled' = TRUE
  /\ UNCHANGED <<files, config, pc, attempt, link, copy, unsafe>>

(* The user writes the local file while the task exists.                     *)
Edit(c) ==
  /\ "edit" \in Faults /\ Exists(local) /\ c # local
  /\ local' = c
  /\ unsafe' = (unsafe \/ pc # "idle" \/ (Exists(temp) /\ Vouched(temp, c)))
  /\ UNCHANGED <<temp, final, config, pc, attempt, conn, copy>>

(* The process dies.  The requests in flight that the server still carries   *)
(* out are those that it applied (Apply, Refuse) right before.               *)
Crash ==
  /\ "crash" \in Faults /\ pc # "idle"
  /\ pc' = "idle" /\ attempt' = 1 /\ link' = FALSE /\ CopyOver
  /\ unsafe' = (unsafe \/ SomeGap(temp))
  /\ UNCHANGED <<files, config, cancelled>>

Step ==
  \/ Begin \/ Prepare \/ Send \/ StopReading \/ CopyDone \/ CopyFailed
  \/ Verify \/ RemoveOld \/ RenameOk \/ RenameFails \/ DeleteLocal
  \/ \E r \in sent : Apply(r) \/ Refuse(r)

Next == StartTask \/ Step \/ LinkDown \/ Cancel \/ Crash \/ \E c \in Contents : Edit(c)

Spec == Init /\ [][Next]_vars

(* Every request is answered or fails with its connection.                   *)
FairSpec == Spec /\ WF_vars(Step)

-----------------------------------------------------------------------------
Blocks == {Gap} \cup UNION {{c[i] : i \in DOMAIN c} : c \in Contents}
Sizes  == {Len(c) : c \in Contents}

(* The files are sequences of known blocks and the counters stay in range.   *)
TypeOK ==
  /\ local \in Contents \cup {NoFile}
  /\ final \in Seq(Blocks) /\ temp \in Seq(Blocks)
  /\ pc \in {"idle", "begin", "prepare", "copy", "verify", "remove", "rename", "delete"}
  /\ attempt \in 1 .. MaxAttempts
  /\ size \in Sizes \cup {0} /\ next \in Nat \ {0} /\ failedAt \in 0 .. next
  /\ \A r \in sent : r[1] < next

(* Between attempts a partial file whose first blocks match is a prefix of    *)
(* the local file, as the resume assumes, although requests complete out of   *)
(* order and fail.  The exceptions, where no check could tell (unsafe): a gap *)
(* was not trimmed, because the truncate failed or the process died first, or *)
(* the local file was edited behind the blocks that are compared or while it  *)
(* was being read.  A copy from the first block on ends the exception.        *)
PartialIsPrefix ==
  /\ pc \in {"idle", "begin"} /\ ~unsafe
  /\ Exists(temp) /\ Exists(local) /\ Vouched(temp, local)
  => temp = Prefix(local, Len(temp))

(* With the exceptions of PartialIsPrefix, only a whole copy of the local     *)
(* file appears under the final name.                                         *)
PublishedWhole ==
  [][final' # final /\ Exists(final') /\ ~unsafe => final' = local]_vars

(* With the exceptions of PartialIsPrefix, the local file is deleted only     *)
(* when its copy is in place.                                                 *)
SourceKept ==
  [][Exists(local) /\ ~Exists(local') /\ ~unsafe => final = local]_vars

(* What the comments promise without such exceptions: "a later resume will   *)
(* restart" a partial file that could not be trimmed, and the prefix is      *)
(* verified "to prevent corruption".                                         *)
NeverCorrupt == Exists(final) => final \in Contents

(* Every upload ends, whatever fails, and leaves nothing in flight.          *)
UploadEnds == pc # "idle" ~> pc = "idle"

=============================================================================
