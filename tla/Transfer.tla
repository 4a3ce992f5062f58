------------------------------ MODULE Transfer ------------------------------
(***************************************************************************)
(* How workers copy objects (pkg/sync/sync.go copyData, doCopySingle,      *)
(* doCopyMultiple; pkg/sync/download.go): every piece of data in flight    *)
(* holds a token of the channel `concurrent`, which all workers share.     *)
(* A large object is uploaded in parts, each by a goroutine of its own, or *)
(* read ahead by a downloader whose blocks keep their tokens until they    *)
(* are read.  A worker that takes a large task makes others wait for it    *)
(* (holders).  Sources may change or vanish while they are copied.         *)
(*                                                                         *)
(* A version of an object is a number; a block or part of it is the number *)
(* of the version it was read from.  A fault stands for an operation that  *)
(* failed for good, the retries of the storage calls included.             *)
(***************************************************************************)
EXTENDS Naturals, FiniteSets, Sequences

CONSTANTS
    Task,        \* the objects to copy
    Worker,      \* the worker goroutines
    Threads,     \* --threads: the capacity of `concurrent`
    Blocks,      \* blocks or parts of a large object
    Attempts,    \* how often copyData tries doCopySingle (3 in the code)
    Command,     \* the command lines, with the way each object is copied and how many others
                 \* are to wait for it, by its size
    MaxFaults,   \* bound: operations that fail
    MaxChanges   \* bound: changes to source objects

Block == 1..Blocks
Upload == {"resumed", "fresh"}  \* a multipart upload an earlier run began, and one of this run
Stage == Upload \cup {"verify"}

\* direct: one request; ahead: a downloader reads ahead for the upload, or for the
\* temporary file that is then uploaded; parts: a multipart upload
Kind == {"direct", "ahead", "parts"}

ASSUME TransferAssumption ==
    /\ Threads \in Nat \ {0} /\ Blocks \in Nat \ {0} /\ Attempts \in Nat \ {0}
    /\ MaxFaults \in Nat /\ MaxChanges \in Nat /\ IsFiniteSet(Task)
    /\ Command \subseteq [kind : [Task -> Kind], holds : [Task -> Nat], checkChange : BOOLEAN,
                        checkNew : BOOLEAN, checkpoint : BOOLEAN]

Gone == 0     \* the source object was removed
Corrupt == 0  \* data no version has
Version == 1..(MaxChanges + 1)
Listed == 1   \* the version the task was made for
Download == Task \X (1..Attempts)

VARIABLES
    cmd,
    tokens,     \* len(concurrent)
    holders,    \* the large tasks that other workers have to wait for
    pc,         \* what a worker does: free, receive, gone, or a task it has
    waits,      \* the task whose end a worker waits for, or none
    phase,      \* where the copy of a task stands
    attempt,
    src,        \* the version of the source object
    got,        \* what the copy has read, block by block
    dst,        \* the destination object, <<>> if absent
    next,       \* the next block a downloader starts, 0 before it runs
    blk, val,   \* its blocks
    err,        \* r.err is set
    closed,     \* r.buffers is nil
    parked,     \* the reader waits on the condition
    part,       \* the goroutines of a multipart copy or verification
    aborted,    \* their abort channel is closed
    upload,     \* the parts the destination has of each upload that is open
    saved,      \* the upload the checkpoint knows of, and its parts
    faults, changes

downVars == <<next, blk, val, err, closed, parked>>
partVars == <<part, aborted, upload, saved>>
workVars == <<holders, pc, waits>>
dataVars == <<src, got, dst>>
boundVars == <<faults, changes>>
vars == <<cmd, tokens, workVars, phase, attempt, dataVars, downVars, partVars, boundVars>>

Final == {"copied", "failed", "skipped"}
Holding == {"get", "put"}  \* phases of doCopySingle0 with its token
Phase == {"queued", "copy", "token", "reading", "check", "verify"}
         \cup Upload \cup Holding \cup Final
BlockState == {"none", "get", "saved", "drop", "ended", "lost"}

TypeOK ==
    /\ cmd \in Command
    /\ tokens \in 0..Threads
    /\ holders \in Seq(Task)
    /\ pc \in [Worker -> Task \cup {"free", "receive", "gone"}]
    /\ waits \in [Worker -> Task \cup {"none"}]
    /\ phase \in [Task -> Phase]
    /\ attempt \in [Task -> 1..Attempts]
    /\ src \in [Task -> Version \cup {Gone}]
    /\ got \in [Task -> Seq(Version)] /\ dst \in [Task -> Seq(Version \cup {Corrupt})]
    /\ next \in [Download -> 0..(Blocks + 1)]
    /\ blk \in [Download -> [Block -> BlockState]]
    /\ val \in [Download -> [Block -> Version \cup {Corrupt}]]
    /\ err \in [Download -> BOOLEAN] /\ closed \in [Download -> BOOLEAN]
    /\ parked \in [Download -> BOOLEAN]
    /\ part \in [Task -> [Stage -> [Block -> {"none", "wait", "run", "sent", "ok", "bad"}]]]
    /\ aborted \in [Task -> SUBSET Stage]
    /\ upload \in [Task -> [Upload -> [open : BOOLEAN, parts : [Block -> Version \cup {Gone}]]]]
    /\ saved \in [Task -> [id : Upload \cup {"none"}, parts : SUBSET Block]]
    /\ faults \in 0..MaxFaults /\ changes \in 0..MaxChanges

KindOf(t) == cmd.kind[t]
Current(t) == <<t, attempt[t]>>
Large(t) == KindOf(t) # "direct"
Goto(t, p) == phase' = [phase EXCEPT ![t] = p]
Fault == faults < MaxFaults /\ faults' = faults + 1 /\ UNCHANGED changes
\* bug: one more than the channel holds
TakeAny == tokens' = tokens + 1

Take == tokens < Threads /\ tokens' = tokens + 1

Release == tokens > 0 /\ tokens' = tokens - 1

-----------------------------------------------------------------------------
(* fetchTask and worker.                                                   *)

\* a holder is taken from the end of the list, and waited for
PopHolder(w) ==
    /\ pc[w] = "free" /\ waits[w] = "none"
    /\ IF holders = <<>>
       THEN pc' = [pc EXCEPT ![w] = "receive"] /\ UNCHANGED <<holders, waits>>
       ELSE /\ waits' = [waits EXCEPT ![w] = holders[Len(holders)]]
            /\ holders' = SubSeq(holders, 1, Len(holders) - 1)
            /\ UNCHANGED pc
    /\ UNCHANGED <<cmd, tokens, phase, attempt, dataVars, downVars, partVars, boundVars>>

\* its task has ended (done is closed)
HolderDone(w) ==
    /\ waits[w] # "none" /\ phase[waits[w]] \in Final
    /\ \A v \in Worker : pc[v] # waits[w]
    /\ waits' = [waits EXCEPT ![w] = "none"]
    /\ pc' = [pc EXCEPT ![w] = "receive"]
    /\ UNCHANGED <<cmd, tokens, holders, phase, attempt, dataVars, downVars, partVars, boundVars>>

\* a task of n * maxBlock makes n - 1 others wait
Receive(w, t) ==
    /\ pc[w] = "receive" /\ phase[t] = "queued"
    /\ pc' = [pc EXCEPT ![w] = t]
    /\ Goto(t, "copy")
    /\ holders' = holders \o [i \in 1..cmd.holds[t] |-> t]
    /\ UNCHANGED <<cmd, tokens, waits, attempt, dataVars, downVars, partVars, boundVars>>

\* the channel is closed and empty
Leave(w) ==
    /\ pc[w] = "receive" /\ \A t \in Task : phase[t] # "queued"
    /\ pc' = [pc EXCEPT ![w] = "gone"]
    /\ UNCHANGED <<cmd, tokens, holders, waits, phase, attempt, dataVars, downVars, partVars, boundVars>>

TaskDone(w) ==
    /\ pc[w] \in Task /\ phase[pc[w]] \in Final
    /\ pc' = [pc EXCEPT ![w] = "free"]
    /\ UNCHANGED <<cmd, tokens, holders, waits, phase, attempt, dataVars, downVars, partVars, boundVars>>

-----------------------------------------------------------------------------
(* How a copy goes on.                                                     *)

\* the end of copyData after an error
CopyError(t) == IF src[t] = Gone THEN "skipped" ELSE "failed"

\* what worker does with a copied object: --check-change, then --check-new
AfterCopy == IF cmd.checkChange THEN "check" ELSE IF cmd.checkNew THEN "verify" ELSE "copied"

\* Close: the saved blocks go back to the pool, their tokens do not
CloseDownload(d) ==
    IF next[d] = 0 THEN UNCHANGED downVars
    ELSE /\ closed' = [closed EXCEPT ![d] = TRUE]
         /\ err' = [err EXCEPT ![d] = TRUE]
         /\ blk' = [blk EXCEPT ![d] = [b \in Block |-> IF @[b] = "saved" THEN "lost" ELSE @[b]]]
         /\ val' = [val EXCEPT ![d] = [b \in Block |-> Corrupt]]
         /\ UNCHANGED <<next, parked>>

\* try: doCopySingle returned an error
Retry(t) ==
    /\ CloseDownload(Current(t))
    /\ IF attempt[t] < Attempts
       THEN attempt' = [attempt EXCEPT ![t] = @ + 1] /\ Goto(t, "copy")
       ELSE Goto(t, CopyError(t)) /\ UNCHANGED attempt
    /\ got' = [got EXCEPT ![t] = <<>>]

\* the upload of what was read succeeds
Stored(t, data) ==
    /\ dst' = [dst EXCEPT ![t] = data]
    /\ Goto(t, AfterCopy)

\* data that is damaged on its way or in the storage
Damaged(data) == [i \in DOMAIN data |-> IF i = Len(data) THEN Corrupt ELSE data[i]]

-----------------------------------------------------------------------------
(* doCopySingle0: one request, under one token.                            *)

TokenDirect(t) ==
    /\ phase[t] = "token" \/ (phase[t] = "copy" /\ KindOf(t) = "direct")
    /\ Take
    /\ Goto(t, "get")
    /\ UNCHANGED <<cmd, workVars, attempt, dataVars, downVars, partVars, boundVars>>

GetDirect(t) ==
    /\ phase[t] = "get" /\ src[t] # Gone
    /\ got' = [got EXCEPT ![t] = [b \in Block |-> src[t]]]
    /\ Goto(t, "put")
    /\ UNCHANGED <<cmd, tokens, workVars, attempt, src, dst, downVars, partVars, boundVars>>

\* a source that is gone ends the copy (ErrSkipped is not retried)
GetGone(t) ==
    /\ phase[t] = "get" /\ src[t] = Gone
    /\ Goto(t, "skipped") /\ Release
    /\ CloseDownload(Current(t))
    /\ UNCHANGED <<cmd, workVars, attempt, dataVars, partVars, boundVars>>

PutDirect(t) ==
    /\ phase[t] = "put" /\ Release
    /\ \/ Stored(t, got[t]) /\ UNCHANGED boundVars
       \/ Stored(t, Damaged(got[t])) /\ Fault
    /\ CloseDownload(Current(t))
    /\ UNCHANGED <<cmd, workVars, attempt, src, got, partVars>>

DirectFails(t) ==
    /\ phase[t] \in Holding /\ Fault /\ Release
    /\ Retry(t)
    /\ UNCHANGED <<cmd, workVars, src, dst, partVars>>

-----------------------------------------------------------------------------
(* parallelDownloader: download starts the blocks in order, each with a    *)
(* token; Read takes them in order.                                        *)

StartDownload(t) ==
    /\ phase[t] = "copy" /\ KindOf(t) = "ahead"
    /\ next' = [next EXCEPT ![Current(t)] = 1]
    /\ Goto(t, "reading")
    /\ UNCHANGED <<cmd, tokens, workVars, attempt, dataVars, blk, val, err, closed, parked,
                   partVars, boundVars>>

\* os.CreateTemp fails: doCopySingle0, with the downloader still running
NoTempFile(t) ==
    /\ phase[t] = "reading" /\ KindOf(t) = "ahead" /\ got[t] = <<>>
    /\ ~parked[Current(t)] /\ Fault
    /\ Goto(t, "token")
    /\ UNCHANGED <<cmd, tokens, workVars, attempt, dataVars, downVars, partVars>>

\* the goroutine of a block: with an error already there it only ends
BeginBlock(d) ==
    /\ next[d] \in Block /\ Take
    /\ blk' = [blk EXCEPT ![d][next[d]] = IF err[d] THEN "drop" ELSE "get"]
    /\ next' = [next EXCEPT ![d] = @ + 1]
    /\ UNCHANGED <<cmd, workVars, phase, attempt, dataVars, val, err, closed, parked,
                   partVars, boundVars>>

\* bug: a block that comes after Close is saved all the same
SaveAnyBlock(d, b) ==
    /\ blk[d][b] = "get" /\ src[d[1]] # Gone
    /\ val' = [val EXCEPT ![d][b] = src[d[1]]]
    /\ blk' = [blk EXCEPT ![d][b] = "saved"]
    /\ parked' = [parked EXCEPT ![d] = FALSE]
    /\ UNCHANGED <<cmd, tokens, workVars, phase, attempt, dataVars, next, err, closed,
                   partVars, boundVars>>

\* the block is read: saved, with its token, unless the downloader was closed meanwhile
SaveBlock(d, b) ==
    /\ blk[d][b] = "get" /\ src[d[1]] # Gone
    /\ IF closed[d]
       THEN blk' = [blk EXCEPT ![d][b] = "drop"] /\ UNCHANGED <<val, parked>>
       ELSE /\ val' = [val EXCEPT ![d][b] = src[d[1]]]
            /\ blk' = [blk EXCEPT ![d][b] = "saved"]
            /\ parked' = [parked EXCEPT ![d] = FALSE]
    /\ UNCHANGED <<cmd, tokens, workVars, phase, attempt, dataVars, next, err, closed,
                   partVars, boundVars>>

\* hasErr sees the error of another block, or of Close
SkipBlock(d, b) ==
    /\ blk[d][b] = "get" /\ err[d]
    /\ blk' = [blk EXCEPT ![d][b] = "drop"]
    /\ UNCHANGED <<cmd, tokens, workVars, phase, attempt, dataVars, next, val, err, closed,
                   parked, partVars, boundVars>>

BlockFails(d, b) ==
    /\ blk[d][b] = "get"
    /\ \/ src[d[1]] = Gone /\ UNCHANGED boundVars
       \/ Fault
    /\ err' = [err EXCEPT ![d] = TRUE]
    /\ blk' = [blk EXCEPT ![d][b] = "drop"]
    /\ UNCHANGED <<cmd, tokens, workVars, phase, attempt, dataVars, next, val, closed,
                   parked, partVars>>

\* bug: a block that was not saved wakes nobody
EndBlockQuietly(d, b) ==
    /\ blk[d][b] = "drop" /\ Release
    /\ blk' = [blk EXCEPT ![d][b] = "ended"]
    /\ UNCHANGED <<cmd, workVars, phase, attempt, dataVars, next, val, err, closed, parked,
                   partVars, boundVars>>

\* the token of a block that was not saved is released; notify.Signal
EndBlock(d, b) ==
    /\ blk[d][b] = "drop" /\ Release
    /\ blk' = [blk EXCEPT ![d][b] = "ended"]
    /\ parked' = [parked EXCEPT ![d] = FALSE]
    /\ UNCHANGED <<cmd, workVars, phase, attempt, dataVars, next, val, err, closed,
                   partVars, boundVars>>

\* the block Read is at
At(t) == Len(got[t]) + 1
Reads(t) == phase[t] = "reading" /\ At(t) \in Block /\ ~parked[Current(t)]

\* a block that is there is read, whatever happened to others
ReadBlock(t) ==
    LET d == Current(t) IN
    /\ Reads(t) /\ blk[d][At(t)] = "saved"
    /\ got' = [got EXCEPT ![t] = Append(@, val[d][At(t)])]
    /\ blk' = [blk EXCEPT ![d][At(t)] = "ended"]
    /\ val' = [val EXCEPT ![d][At(t)] = Corrupt]
    /\ Release
    /\ UNCHANGED <<cmd, workVars, phase, attempt, src, dst, next, err, closed, parked,
                   partVars, boundVars>>

ReadWait(t) ==
    LET d == Current(t) IN
    /\ Reads(t) /\ blk[d][At(t)] # "saved" /\ ~err[d]
    /\ parked' = [parked EXCEPT ![d] = TRUE]
    /\ UNCHANGED <<cmd, tokens, workVars, phase, attempt, dataVars, next, blk, val, err, closed,
                   partVars, boundVars>>

ReadError(t) ==
    /\ Reads(t) /\ blk[Current(t)][At(t)] # "saved" /\ err[Current(t)]
    /\ Retry(t)
    /\ UNCHANGED <<cmd, tokens, workVars, src, dst, partVars, boundVars>>

\* io.EOF: a stream ends the upload, a file is now uploaded
PutRead(t) ==
    /\ phase[t] = "reading" /\ At(t) \notin Block
    /\ \/ Stored(t, got[t]) /\ UNCHANGED boundVars
       \/ Stored(t, Damaged(got[t])) /\ Fault
    /\ CloseDownload(Current(t))
    /\ UNCHANGED <<cmd, tokens, workVars, attempt, src, got, partVars>>

\* the upload, or the write to the file, breaks off before or at the end
PutBreaks(t) ==
    /\ phase[t] = "reading" /\ ~parked[Current(t)] /\ Fault
    /\ Retry(t)
    /\ UNCHANGED <<cmd, tokens, workVars, src, dst, partVars>>

-----------------------------------------------------------------------------
(* The goroutines of doCopyMultiple, and those of calObjChksum or          *)
(* compObjBinary, which check the object part by part: each waits for a    *)
(* token or for the abort channel.  Uploads and parts are kept in the      *)
(* checkpoint, and an upload of an earlier run is taken up again.          *)

NoUpload == [id |-> "none", parts |-> {}]
NoPart == [b \in Block |-> Gone]

\* FindMultipartUpload finds one; GetMultipartPart spares the parts it has
Resume(t) ==
    /\ phase[t] = "copy" /\ KindOf(t) = "parts" /\ saved[t].id # "none"
    /\ part' = [part EXCEPT ![t]["resumed"] =
                   [b \in Block |-> IF b \in saved[t].parts THEN "ok" ELSE "wait"]]
    /\ Goto(t, "resumed")
    /\ UNCHANGED <<cmd, tokens, workVars, attempt, dataVars, downVars, aborted, upload, saved,
                   boundVars>>

\* CreateMultipartUpload and EnsureMultipartUploadState
Create(t) ==
    /\ upload' = [upload EXCEPT ![t]["fresh"].open = TRUE]
    /\ saved' = IF cmd.checkpoint THEN [saved EXCEPT ![t] = [id |-> "fresh", parts |-> {}]] ELSE saved
    /\ part' = [part EXCEPT ![t]["fresh"] = [b \in Block |-> "wait"]]
    /\ Goto(t, "fresh")

StartParts(t) ==
    /\ phase[t] = "copy" /\ KindOf(t) = "parts" /\ saved[t].id = "none"
    /\ \/ Create(t) /\ UNCHANGED boundVars
       \/ Goto(t, CopyError(t)) /\ Fault /\ UNCHANGED <<part, upload, saved>>
    /\ UNCHANGED <<cmd, tokens, workVars, attempt, dataVars, downVars, aborted>>

TokenPart(t, s, b) ==
    /\ part[t][s][b] = "wait" /\ Take
    /\ part' = [part EXCEPT ![t][s][b] = "run"]
    /\ UNCHANGED <<cmd, workVars, phase, attempt, dataVars, downVars, aborted, upload, saved,
                   boundVars>>

AbortPart(t, s, b) ==
    /\ part[t][s][b] = "wait" /\ s \in aborted[t]
    /\ part' = [part EXCEPT ![t][s][b] = "bad"]
    /\ UNCHANGED <<cmd, tokens, workVars, phase, attempt, dataVars, downVars, aborted, upload,
                   saved, boundVars>>

\* doUploadPart reads the part and uploads it
UploadPart(t, s, b) ==
    /\ part[t][s][b] = "run" /\ src[t] # Gone /\ upload[t][s].open
    /\ part' = [part EXCEPT ![t][s][b] = "sent"]
    /\ upload' = [upload EXCEPT ![t][s].parts[b] = src[t]]
    /\ UNCHANGED <<cmd, tokens, workVars, phase, attempt, dataVars, downVars, aborted, saved,
                   boundVars>>

\* bug: a part that comes late is recorded for the upload that took its place
MarkPartByKey(t, s, b) ==
    /\ part[t][s][b] = "sent" /\ Release
    /\ part' = [part EXCEPT ![t][s][b] = "ok"]
    /\ saved' = [saved EXCEPT ![t].parts = IF saved[t].id = "none" THEN {} ELSE @ \cup {b}]
    /\ UNCHANGED <<cmd, workVars, phase, attempt, dataVars, downVars, aborted, upload, boundVars>>

\* MarkMultipartPart records it in the state the goroutine was started with, which the
\* store may have dropped by now
MarkPart(t, s, b) ==
    /\ part[t][s][b] = "sent" /\ Release
    /\ part' = [part EXCEPT ![t][s][b] = "ok"]
    /\ saved' = [saved EXCEPT ![t].parts = IF saved[t].id = s THEN @ \cup {b} ELSE @]
    /\ UNCHANGED <<cmd, workVars, phase, attempt, dataVars, downVars, aborted, upload, boundVars>>

\* calPartChksum or compObjPartBinary
ReadBack(t, b) ==
    /\ part[t]["verify"][b] = "run" /\ Release
    /\ part' = [part EXCEPT ![t]["verify"][b] = "ok"]
    /\ UNCHANGED <<cmd, workVars, phase, attempt, dataVars, downVars, aborted, upload, saved,
                   boundVars>>

PartFails(t, s, b) ==
    /\ part[t][s][b] = "run" /\ Release
    /\ \/ Fault
       \/ s \in Upload /\ (src[t] = Gone \/ ~upload[t][s].open) /\ UNCHANGED boundVars
    /\ part' = [part EXCEPT ![t][s][b] = "bad"]
    /\ UNCHANGED <<cmd, workVars, phase, attempt, dataVars, downVars, aborted, upload, saved>>

Parts(t, s, state) == \A b \in Block : part[t][s][b] = state

AbortUpload(t, s) ==
    /\ upload' = [upload EXCEPT ![t][s] = [open |-> FALSE, parts |-> NoPart]]
    /\ saved' = [saved EXCEPT ![t] = NoUpload]

\* The first error closes the abort channel, others may still run; so does an error
\* of CompleteUpload.  With a checkpoint the upload stays for a later run unless the source is gone.
FreshFails(t) ==
    /\ phase[t] = "fresh"
    /\ \/ /\ \E b \in Block : part[t]["fresh"][b] = "bad"
          /\ aborted' = [aborted EXCEPT ![t] = @ \cup {"fresh"}]
          /\ UNCHANGED boundVars
       \/ Parts(t, "fresh", "ok") /\ Fault /\ UNCHANGED aborted
    /\ IF src[t] = Gone \/ ~cmd.checkpoint THEN AbortUpload(t, "fresh") ELSE UNCHANGED <<upload, saved>>
    /\ Goto(t, CopyError(t))
    /\ UNCHANGED <<cmd, tokens, workVars, attempt, dataVars, downVars, part>>

\* an upload that was taken up and fails is aborted, and begun anew
ResumedFails(t) ==
    /\ phase[t] = "resumed"
    /\ \/ /\ \E b \in Block : part[t]["resumed"][b] = "bad"
          /\ aborted' = [aborted EXCEPT ![t] = @ \cup {"resumed"}]
          /\ UNCHANGED boundVars
       \/ /\ Parts(t, "resumed", "ok") /\ UNCHANGED aborted
          /\ (Fault \/ (~upload[t]["resumed"].open /\ UNCHANGED boundVars))
    /\ AbortUpload(t, "resumed")
    /\ Goto(t, "copy")
    /\ UNCHANGED <<cmd, tokens, workVars, attempt, dataVars, downVars, part>>

CompleteParts(t) ==
    /\ phase[t] \in Upload /\ Parts(t, phase[t], "ok") /\ upload[t][phase[t]].open
    /\ LET data == upload[t][phase[t]].parts IN
       /\ got' = [got EXCEPT ![t] = data]
       /\ \/ Stored(t, data) /\ UNCHANGED boundVars
          \/ Stored(t, Damaged(data)) /\ Fault
    /\ AbortUpload(t, phase[t]) \* the upload is no more; FinishMultipartUpload
    /\ UNCHANGED <<cmd, tokens, workVars, attempt, src, downVars, part, aborted>>

-----------------------------------------------------------------------------
(* --check-change and --check-new.                                         *)

\* bug: only an object that vanished fails the check
CheckExists(t) ==
    /\ phase[t] = "check"
    /\ Goto(t, IF src[t] = Gone THEN "failed" ELSE IF cmd.checkNew THEN "verify" ELSE "copied")
    /\ UNCHANGED <<cmd, tokens, workVars, attempt, dataVars, downVars, partVars, boundVars>>

CheckChanged(t) ==
    /\ phase[t] = "check"
    /\ \/ /\ src[t] = Listed
          /\ Goto(t, IF cmd.checkNew THEN "verify" ELSE "copied") /\ UNCHANGED boundVars
       \/ src[t] # Listed /\ Goto(t, "failed") /\ UNCHANGED boundVars
       \/ Goto(t, "failed") /\ Fault
    /\ UNCHANGED <<cmd, tokens, workVars, attempt, dataVars, downVars, partVars>>

\* one goroutine per part, or the worker itself for a small object
StartVerify(t) ==
    /\ phase[t] = "verify" /\ Parts(t, "verify", "none")
    /\ part' = [part EXCEPT ![t]["verify"] =
                   [b \in Block |-> IF Large(t) \/ b = 1 THEN "wait" ELSE "none"]]
    /\ UNCHANGED <<cmd, tokens, workVars, phase, attempt, dataVars, downVars, aborted, upload, saved,
                   boundVars>>

VerifyFails(t) ==
    /\ phase[t] = "verify" /\ \E b \in Block : part[t]["verify"][b] = "bad"
    /\ aborted' = [aborted EXCEPT ![t] = @ \cup {"verify"}]
    /\ Goto(t, "failed")
    /\ UNCHANGED <<cmd, tokens, workVars, attempt, dataVars, downVars, part, upload, saved,
                   boundVars>>

\* the checksum of what was read against that of what is there
Verified(t) ==
    /\ phase[t] = "verify" /\ part[t]["verify"][1] = "ok"
    /\ \A b \in Block : part[t]["verify"][b] \in {"ok", "none"}
    /\ Goto(t, IF dst[t] = got[t] THEN "copied" ELSE "failed")
    /\ UNCHANGED <<cmd, tokens, workVars, attempt, dataVars, downVars, partVars, boundVars>>

-----------------------------------------------------------------------------
\* an application overwrites or removes a source object
SourceChanges(t) ==
    /\ phase[t] \notin Final /\ changes < MaxChanges /\ changes' = changes + 1
    /\ \E v \in {Gone, changes + 2} : src' = [src EXCEPT ![t] = v]
    /\ UNCHANGED <<cmd, tokens, workVars, phase, attempt, got, dst, downVars, partVars, faults>>

Init ==
    /\ cmd \in Command
    /\ tokens = 0 /\ holders = <<>>
    /\ pc = [w \in Worker |-> "free"] /\ waits = [w \in Worker |-> "none"]
    /\ phase = [t \in Task |-> "queued"] /\ attempt = [t \in Task |-> 1]
    /\ src = [t \in Task |-> Listed]
    /\ got = [t \in Task |-> <<>>] /\ dst = [t \in Task |-> <<>>]
    /\ next = [d \in Download |-> 0]
    /\ blk = [d \in Download |-> [b \in Block |-> "none"]]
    /\ val = [d \in Download |-> [b \in Block |-> Corrupt]]
    /\ err = [d \in Download |-> FALSE] /\ closed = [d \in Download |-> FALSE]
    /\ parked = [d \in Download |-> FALSE]
    /\ part = [t \in Task |-> [s \in Stage |-> [b \in Block |-> "none"]]]
    /\ aborted = [t \in Task |-> {}]
    /\ \E left \in {FALSE, cmd.checkpoint}, known \in {{}, {1}}, gone \in BOOLEAN :
          LET old(t) == KindOf(t) = "parts" /\ left IN
          /\ saved = [t \in Task |-> IF old(t) THEN [id |-> "resumed", parts |-> known] ELSE NoUpload]
          /\ upload = [t \in Task |-> [u \in Upload |->
                IF u = "resumed" /\ old(t) /\ ~gone
                THEN [open |-> TRUE, parts |-> [b \in Block |-> IF b \in known THEN Listed ELSE Gone]]
                ELSE [open |-> FALSE, parts |-> NoPart]]]
    /\ faults = 0 /\ changes = 0

Fetch(w) == PopHolder(w) \/ HolderDone(w) \/ Leave(w) \/ TaskDone(w) \/ \E t \in Task : Receive(w, t)

\* steps of the worker that has the task
Copy(t) ==
    \/ GetDirect(t) \/ GetGone(t) \/ PutDirect(t) \/ DirectFails(t)
    \/ StartDownload(t) \/ NoTempFile(t)
    \/ ReadBlock(t) \/ ReadWait(t) \/ ReadError(t) \/ PutRead(t) \/ PutBreaks(t)
    \/ Resume(t) \/ ResumedFails(t) \/ StartParts(t) \/ FreshFails(t) \/ CompleteParts(t)
    \/ CheckChanged(t) \/ StartVerify(t) \/ VerifyFails(t) \/ Verified(t)

BlockStep(d, b) == SkipBlock(d, b) \/ SaveBlock(d, b) \/ BlockFails(d, b) \/ EndBlock(d, b)

System ==
    \/ \E w \in Worker : Fetch(w)
    \/ \E t \in Task : Copy(t) \/ TokenDirect(t)
    \/ \E d \in Download : BeginBlock(d) \/ \E b \in Block : BlockStep(d, b)
    \/ \E t \in Task, s \in Stage, b \in Block :
           TokenPart(t, s, b) \/ AbortPart(t, s, b) \/ PartFails(t, s, b)
    \/ \E t \in Task, b \in Block : ReadBack(t, b) \/ \E u \in Upload : UploadPart(t, u, b) \/ MarkPart(t, u, b)

Next == System \/ \E t \in Task : SourceChanges(t)

\* While some goroutine can run, one runs: nothing is assumed of which.
Fairness == WF_vars(System)

Spec == Init /\ [][Next]_vars
FairSpec == Spec /\ Fairness

-----------------------------------------------------------------------------
BlocksWithToken ==
    {x \in Download \X Block :
        LET state == blk[x[1]][x[2]]
        IN  state \in {"get", "drop", "lost"} \/ (state = "saved" /\ ~closed[x[1]])}
PartsRunning == {x \in Task \X Stage \X Block : part[x[1]][x[2]][x[3]] \in {"run", "sent"}}

\* Every token in the channel belongs to exactly one request in flight, to a block
\* its reader will still take, or to a block its downloader was closed over: however
\* download, Read, Close, doCopySingle0, doCopyRange and calPartChksum are interleaved,
\* none returns a token twice, and none but Close leaves one behind.
TokensAccounted ==
    tokens = Cardinality({t \in Task : phase[t] \in Holding})
             + Cardinality(BlocksWithToken) + Cardinality(PartsRunning)

\* An object counted as copied is there in full, with every block in its place; with
\* --check-change all of it is the version that was listed, even if parts of it were
\* read while the source was written; with --check-new it is what was read.
CopiedIsRight ==
    \A t \in Task : phase[t] = "copied" =>
        /\ Len(dst[t]) = Blocks
        /\ cmd.checkChange => \A b \in Block : dst[t][b] \in {Listed, Corrupt}
        /\ cmd.checkNew => dst[t] = got[t] /\ Corrupt \notin {dst[t][b] : b \in Block}

\* The checkpoint counts a part as uploaded only if the upload it names has it, unless
\* that upload has expired; goroutines that outlive their upload do not blur this.  And
\* an upload that this run leaves open can be taken up by a later one.
UploadsKnown ==
    \A t \in Task :
        /\ \A b \in saved[t].parts :
              upload[t][saved[t].id].open => upload[t][saved[t].id].parts[b] # Gone
        /\ phase[t] \in Final =>
              \A u \in Upload : upload[t][u].open => saved[t].id = u

\* Whatever fails or changes, every task is settled and every worker leaves: no reader
\* waits for a signal that does not come, no goroutine for a token that is never
\* returned, no worker for a holder that is gone.
TransfersEnd ==
    <>[](/\ \A t \in Task : phase[t] \in Final
         /\ \A w \in Worker : pc[w] = "gone")
=============================================================================
