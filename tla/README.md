# TLA+ models of the sync engine

This directory models the object-storage migration tool of this repository: one
process lists a source and a destination, merges the two listings, queues what
differs and copies it with a pool of workers, optionally with a checkpoint, a
MySQL log of jobs and objects, and an incremental "gate" table.

Run TLC with `tlc -config X.cfg M` and TLAPS with `tlapm M.tla` in this directory.
`PROJECT.json` lists the runs, the map from definitions to source lines, the hazards
and the theorems; this file explains them.

## 1. Inventory

| component | source | state | operations | talks to |
|---|---|---|---|---|
| producers | `sync.go` `startProducer`, `listCommonPrefix`, `listAll`, `produce` | position in a source and a destination listing, the set of child prefixes | list a prefix, merge two sorted listings, decide for each key, queue a task, mark the listing as done | storages, checkpoint manager, tasks channel, gate |
| workers | `sync.go` `worker`, `doCopySingle`, `doCopyMultiple` | the task in hand, tokens of the `concurrent` channel | fetch a task, copy / delete / check / fix it, report the outcome | storages, checkpoint manager, both services below |
| checkpoint manager | `checkpoint.go` | one `PrefixState` per prefix (last key, pending and failed keys, listing done), delay-delete lists, multipart uploads, `keyPrefix`, `restoredPrefixes` | add / complete / fail a key, register a child, restore a prefix, snapshot and save, load, delete | producers, workers, signal handler, destination storage or a local file |
| delayed deletes | `sync.go` `delayDelFunc`, `handleExtraObject` | `srcDelayDel`, `dstDelayDel` | append a directory, delete them in reverse order after all tasks | checkpoint manager |
| asynchronous job records | `db/db.go` `AsyncDbService` | channel, batch, retry count, closed | record, batch and write with three attempts, drain and close | workers, MySQL |
| gate buffer | `gate.go` `GateRecordBuffer` | batch, signal channel, closed | add, flush on size or time, close | workers, producers, gate table |
| incremental gate | `gate.go`, `db/gate_service.go` | one row per key | load a window of rows, first gate (row vs. source), second gate (destination mtime vs. source mtime) | producers, workers |
| end of the process | `sync.go` `syncExitFunc`, `--max-failure`, defers; `SaveOnSignal` | job row, exit code, checkpoint file | close services, end the job, save or delete the checkpoint, exit | all of the above |
| parallel download, multipart copy | `download.go`, `sync.go`, `checkpoint.go` `multipartUploadStore` | block buffers, tokens of `concurrent`, `holders`, part numbers, upload id and its saved parts | read ahead, upload parts, put a part together as an object of its own, resume or abort an upload | storages, checkpoint manager |
| cluster | `cluster.go` | the manager's task channel, counters, keys completed and failed since the last report, delayed deletes, multipart uploads of workers | `/fetch`, `/stats`, retries over HTTP | workers on other hosts |
| scan modes, metadata fixing | `sync.go` `scanOnly`, `scanSingleBucket`, `fixMetaOnly` | merge position, counters | compare and report | storages, job records |
| storage wrappers | `object/prefix.go`, `encrypt_chunked.go`, `checksum.go` (`sharding.go`, `encrypt.go` have no caller) | none | translate keys, encrypt in chunks of 1 MiB | storages |
| storages | `object/` | position of a listing, temporary files, uploads | `List`, `ListAll`, `Get`, `Head`, `Put`, `Delete`, multipart uploads | services, file systems |
| SQL, command line, utilities | `db/mysql.go`, `cmd/`, `utils/` | - | adapters | - |

What is hard here, and what makes each part correct:

* **Checkpoint.** Producers, workers and the saving goroutine change and read the
  states concurrently; the process may stop between any two of their steps. A saved
  file must never count a key as passed that was not handled, whatever mixture of
  moments it is; whatever is not handled must be pending, failed or still ahead of
  the listing; a resumed run must come back to it, once.
* **Producers.** Prefixes are listed by several goroutines, and a restored prefix can
  be found twice (by the goroutine of the restore and by its parent). A listing that
  fails must not pass for one that ended.
* **Records.** Channel, batch, database and retries: an accepted record is written once
  or given up, none is forgotten when the process ends, older gate rows never
  replace newer ones.
* **Exit.** Three threads may end the process, each with its own order of steps; job
  row, exit code and checkpoint must agree.
* **Transfers.** Tokens and buffers are shared by all workers: no reader may be
  left without a token forever, no part may be put together from two versions.
* **Cluster.** HTTP answers may be lost, and the caller retries; a process may die with
  tasks in hand. What nobody handled must stay in the checkpoint, and must not be made
  up for by something counted twice.
* **Storages.** Listings come in pages while keys come and go; a walk runs ahead of itself;
  `Put` takes several steps on a file system; an object may be replaced while it is read;
  an upload in parts outlives the process. A listing that ended has all that was there
  all the time, a read is of one version and not short, and what is put together is the
  object.

`PROJECT.json` lists the hazards one by one, at their lines.

## 2. Modules

```
SyncJob        what a job promises: every key gets handled, then the job is over
  ^ implemented by (JobSpec)
Checkpoint     producers, workers, checkpoint manager, delayed deletes, crashes, resumes
  ^ extended by MCCheckpoint (instances), CheckpointProofs and on it
    CheckpointJobProofs (theorems)
Produce        listing goroutines and the merge that decides, with --limit and the gate
  ^ extended by MCProduce (instances), ProduceProofs (theorems)
AsyncDb        the asynchronous writer of job records
  ^ extended by AsyncDbProofs (theorems)
GateBuffer     the buffered writer of gate rows
JobExit        AsyncDb + GateBuffer + the threads that end the process
  ^ extended by JobExitProofs (theorems)
Transfer       workers that copy: tokens, downloaders, part goroutines, holders
  ^ extended by MCTransfer (instances), TransferProofs (theorems)
Cluster        the manager and the processes on other hosts, over a network that loses
  ^ extended by MCCluster (instances), ClusterProofs (theorems)
Backends       what each adapter does with a call, as parameters of the protocols below
  ^ extended by Listing (pages, Redis, Ceph), Walk (ListAllWithDelimiter),
    Requests (Put, Delete), Reading (Get, Head, encrypted chunks), Parts (uploads)
MCObjects      these five side by side, one call at a time
  ^ extended by ObjectsProofs (theorems on Requests and Parts)
```

### Checkpoint

One job over all the runs it takes. The merged listing of a prefix is the constant
sequence `Listing[p]` of keys and child prefixes; a key is identified with its place in
it, so `LastListedKey` is an index (0 is ""). `Kind[k]` is what `produce` decides:
`send` (a task), `skip`, `srcdir` (a source directory whose delete is delayed),
`dstdir` (an extra destination directory). The tasks channel is a set, since any worker
may receive any task.

| model | code |
|---|---|
| `ps`, `tracked`, `restored` | `Checkpoint.PrefixState`, `CheckpointManager.keyPrefix`, `.restoredPrefixes` |
| `UpdateState`, `ReapPrefix` | `updatePrefixState`: update under the lock of the state, then, as a step of its own, the removal of a state that is done under the lock of the map |
| `Start`, `RestoreTop`, `RestoreChild`, `Resend`, `Resent` | the choice between fresh and resumed in `Sync`, the goroutines of `restoreFromCheckpoint`, the goroutine of a child in `startProducer`, `restorePrefixFromCheckpoint` |
| `ListNext`, `Produce`, `SendTask`, `AppendSrcDelay`, `MarkListDone`, `ProducerDone` | the listing goroutine of `listCommonPrefix` with `onChildPrefix`; one iteration of `produce`, cut where another goroutine can see the state |
| `Fetch`, `Copy`, `MarkCompleted`, `MarkFailed` | a worker: `trackCheckpointCompletion` comes after the copy |
| `SaveBegin`, `SavePrefix`, `SaveDelayLists`, `SaveWrite` | `Save`: every state under its own lock, then the two lists, then the write, which may fail |
| `CloseTasks`, `WorkersDone`, `DropCheckpoint`, `DelayedDelete`, `ExitFailed`, `ExitCompleted` | the end of `Sync` and `syncExitFunc` |
| `Crash`, `ListFail` | a stop at any point (a signal is a save followed by a stop); the nil of `listAll` |

Left out: the merge and its decisions (`Produce`), a delimiter listing that fails (there
too), `--files-from`, `--limit`, the counters, the upload progress in the checkpoint,
hash validation of the configuration, nested prefixes (the default `--list-depth 1`
lists only the children of the root; `DepthAssumption`). The source and the destination
listing of a prefix share one position `seen`. A task that ends with `os.ErrNotExist` counts as
failed and is tracked as completed (`checkpoint.go:923-946`); the model takes its source for gone and
the key for handled, here and in `Cluster`.

### Produce

One process without a checkpoint. Keys and child prefixes are numbers, so that their order
is the order of keys. A configuration is a command line (`on`, `limit`), what either side
holds (`objects`), how two objects under one key compare (`mtime`, `sameSize`, `samePerms`:
the same for all keys, since the decision on one does not depend on another) and the keys
the first gate has a successful, unchanged record of (`recorded`).

| model | code |
|---|---|
| `Send`, `ListingEnds` | the goroutine of `listAll` or `listCommonPrefix` puts the next object into its channel, or a child prefix into `commonPrefix`, which starts a producer |
| `ListingFails`, `ListingCut` | `listAll` sends nil; `listCommonPrefix` closes its channel (in `CutSpec` only) |
| `Receive`, `Claim` | the head of `produce`: directories, the compare-and-swap on `Limit` |
| `Align`, `Rest` | the destination cursor catches up with the source object; what is left with `--delete-dst` |
| `ExtraKept`, `ExtraChecked`, `ExtraTaken`, `ExtraSettled` | `handleExtraObject`, cut at each access to `Limit` |
| `Decide` with `Decision`, `Marked`, `FirstGateSkips`, `SecondGateSends` | the rest of an iteration: gates, comparison, marks |
| `Close`, `Finish` | the end of `startProducer`: drain the destination, close `commonPrefix`, wait for the children |

`filter`, `prefetchGateRecords` and `passThroughObjects` pass the stream on in order, nil
included, and are part of the channel between `at` (sent) and `read` (received). Left out:
`produceSingleObject`, `--files-from`, the patterns and sizes of the filters (a hidden object
is an absent one), symbolic links, checkpoint files among the objects, the limit on
concurrent listings. The tasks channel is taken to have room: that workers fall behind is
in `Checkpoint`.

### AsyncDb and GateBuffer

`AsyncDb` keeps the channel, the batch and the table as sequences of records, one
transaction per batch that commits or fails as a whole, and the retry count of the code. A
transaction that failed may have committed all the same, when the answer was lost
(`unanswered`): the retry then inserts the rows again (section 3).
`GateBuffer` keeps, for each key, the number of the newest record in each place: the upsert
of a batch leaves no other trace. A batch that grew beyond the 500 records of one statement
is written in chunks; when it fails, some of them, or all, may be in the table (`Chunks`).

### JobExit

`EXTENDS AsyncDb` and instantiates `GateBuffer`. The three threads `main`, `maxfail`,
`signal` step through the closing of the services, `EndJob`, the checkpoint and the exit in
the order of the code; `ListingFails` is the early return of `Sync`. Left out are the rows
that `syncExitFunc` writes for lost objects, in a request of their own before it closes the
records (`sync.go:3071-3089`): they pass the batch by. In the run
`job_exit` `MaxExits = 1`: one thread ends the process. Two of them at once is a real race of the code (the second caller
of `Close` returns at once and may exit under the first one); it is listed as a hazard.

### Transfer

Several workers copy several objects at once. A version of an object is a number, a block
is the number of the version it was read from, so a copy that mixes two versions is seen as
such. A command line says how each object is copied: `direct` (one request), `ahead` (the
downloader reads ahead) or `parts` (a multipart upload).

| model | code |
|---|---|
| `tokens`, `Take`, `Release` | the channel `concurrent` |
| `holders`, `PopHolder`, `HolderDone`, `Receive`, `TaskDone`, `Leave` | `fetchTask` and the head and end of `worker`: whoever receives a task while a large one is in work waits for its end (as many as `holds` says) |
| `TokenDirect` .. `DirectFails` | `doCopySingle0` |
| `StartDownload`, `BeginBlock`, `SaveBlock`, `SkipBlock`, `BlockFails`, `EndBlock`, `CloseDownload` | `parallelDownloader.download`, its block goroutines, `Close` |
| `ReadBlock`, `ReadWait`, `ReadError`, `PutRead`, `PutBreaks`, `NoTempFile` | `parallelDownloader.Read` and the upload or the temporary file of `doCopySingle` |
| `Resume`, `Create`, `StartParts`, `TokenPart`, `UploadPart`, `MarkPart`, `AbortPart`, `PartFails`, `CompleteParts`, `FreshFails`, `ResumedFails` | `copyData`, `doCopyMultiple`, `multipartUploadStore` |
| `CheckExists`, `CheckChanged`, `StartVerify`, `Verified`, `VerifyFails` | `--check-change` and `--check-new` in `worker`, the goroutines of `calObjChksum` |

### Cluster

A worker of another process takes tasks from the manager's channel by `/fetch`. The handler
takes them off the channel before its answer arrives. The counters `handled`, `failed` of
a process and the keys in `completedKeysBuf`, `failedKeysBuf` travel in `/stats`; a report
without an answer is put back and sent again, so that it may be counted twice.

| model | code |
|---|---|
| `List`, `Closed`, `OwnWork` | the producer and the manager's own workers |
| `Answer`, `AnswerNobody`, `Receive`, `LoseFetch` | `/fetch` of `startManager`, `fetchJobs`; the client may be gone when the handler answers |
| `Work`, `Track` | `worker`: the counter first, `trackCheckpointCompletion` after it, so that a report may fall between |
| `SendStats`, `Apply`, `Acknowledge`, `LoseReport`, `LastReport` | `sendStats` (by the ticker, to the end of the process), `/stats`, the last reports of `syncExitFunc`; `Less` is the subtraction of what was acknowledged |
| `Exit`, `Die` | a process leaves, whatever its ticker has under way, or is killed; the manager waits for its end (`launchWorker`) |
| `EndJob` | the end of `Sync` on the manager: delayed deletes, the comparison of counters, the checkpoint |

Left out: uploads in parts in the reports, the launch over ssh, marshalling.

### Backends, Listing, Walk, Requests, Reading, Parts

The adapters differ in details their callers have to live with. `Backends` says for each
adapter and call which details it has, as a record of a few fields; adapters that agree in
all of them are the same value, so that 31 adapters make 6 kinds of `Get`. The other
modules are the protocols that have these records as a parameter of the call that is made.

| model | code |
|---|---|
| `Listing`: `HeadStart`, `FirstPage`, `NextPage`, `SendPage`, `PageFails` | `listAll` over pages: marker or token, retries, order and range |
| `Listing`: `Scan`, `SendFound` / `Iterate`, `StatKey`, `TakeStat` | `ListAll` of Redis (cursor by cursor, master by master) and of Ceph (a ring of goroutines that look at keys) |
| `Walk`: `Visit`, `Descend`, `Return`, `HelperLists`, `HelperGivesUp` | `ListAllWithDelimiter`: a recursion with goroutines that list directories ahead |
| `Requests`: `PutStep`, `PutFails`, `Clean`, `Again`, `Crash` | the steps of `Put` (a request, or a temporary file and a rename), what it removes after an error, `try` |
| `Requests`: `DeleteDone`, `DeleteRefused`, `DeleteFails` | `deleteObj` over `Delete` |
| `Reading`: `Open`, `ReadByte`, `Decrypt`, `Finish`, `Breaks`, `LookAgain` | `doCopySingle0`, `doUploadPart`, `compObjPartBinary` over `Get`; `chunkedEncrypted.Get` and its reader |
| `Reading`: `Meta`, `SourceHead`, `TargetHead` | `getSrcMeta`, `produceSingleObject` over `Head` |
| `Parts`: `CreateUpload`, `TakeSaved`, `SendPart`, `CompleteUpload`, `Abort`, `UploadRestart` | `copyData`, `doCopyMultiple` and the store of upload states over `UploadPart`, `CompleteUpload`, across a crash |
| `Parts`: `TempCreate` .. `TempAbort` | `doCopyRange` when the destination can copy parts |
| `PartSize`, `LastSize` | `choosePartSize` |

Keys are numbers in the order of the listing; in `Walk` a name is a number with a parent, and
a directory comes just before all that is in it. A byte is a pair of its version and its place, and what a part holds is the number of its
range. In `Parts` one part follows the other: that goroutines send them is in `Transfer`.
The services are taken to do a request as a whole or not at all.

## 3. Runs

| run | instance | shows |
|---|---|---|
| `checkpoint_flat` | one listing of two keys, two workers, channel of one, one crash, one fault | `NoKeyLost`; the job implements `SyncJob`, liveness included |
| `checkpoint_deep` | root and child, resumed from a file that knows the root, one more crash | `StatesTruthful`, `NoKeyLost`, `OneTaskPerKey`, `OneLister`, `TypeOK` |
| `checkpoint_delayed` | delayed deletes on both sides, `--delete-dst`, one fault | `ExitSnapshotComplete`, and `NoKeyLost` over the run that follows the failed one |
| `job_exit` | two records, channel of one, batch of two; one key with two gate records, in batches of two; one thread that ends the process | `OnePlaceEach`, `CloseFlushes`, `OutcomesAgree`, `ExitTerminates`, `GateRowsAdvance`, and that the composition keeps to `AsyncDb` |
| `checkpoint_dir_first` (violation) | the root begins with a directory | `NoKeyLost` fails, finding 1 |
| `produce` | three keys, one child prefix, 407 configurations, one listing that fails | `SourceKept`, `MergeRight`, `LimitKept`, `NoneLost`, `NoSendOnClosed`, `ProducersReturn` |
| `produce_cut` (violation) | same objects on both sides, delimiter listings may fail | `SourceKept` fails, finding 2 |
| `produce_gate` (violation) | gate, `--delete-src`, a newer source object | `SentIsCopied` fails, finding 3 |
| `transfer` | a large and a small object, two workers, three tokens, two blocks, two attempts; one or two holders; one fault, one change of a source; read ahead with `--check-change`, parts with `--check-change` and with `--check-new`, parts of a resumed upload | `TypeOK`, `TokensAccounted`, `CopiedIsRight`, `UploadsKnown`, `TransfersEnd` |
| `cluster` | an object and a directory, two remote processes, with and without `--delete-src-after`, one task that fails, one loss or death | `TypeOK`, `OwedUntilDone`, `OneLossIsFailure`, `DelayedReported`, `ClusterEnds` |
| `objects` | every kind of adapter: listings of 5 keys in pages of 2; a walk of a tree with a directory two deep; `Put`, `Delete`; ranges of objects up to 6 bytes in chunks of 2; uploads of up to 7 parts | `ObjectsTypeOK`, `ListedRight`, `WalkedRight`, `RequestsRight`, `ReadRight`, `PartsRight`, `CallsEnd` |
| `objects_range` (violation) | as `objects` | `WalkedRange` fails, finding 4 |

The bounds. One crash gives every pair of an interrupted and a resumed run, and since a run
starts from what the file says, `checkpoint_deep` starts from a file of an earlier run
and so covers three runs in a row. One fault is enough for each single failure of a listing,
task, delete or save at any point. Two keys of one listing are what it takes to have one
pending behind and one ahead of `LastListedKey`; a key of a child adds the concurrent
producer. A channel of one makes producers and workers wait for each other. Two
records, a channel of one and a batch of two reach a full channel, a full batch, a batch
that fails and grows, and a batch dropped after three failures. For `Produce`, three keys
give every order of a key of one side with one of the other, before, between and behind;
the configurations are four groups, in `MCProduce`: every comparison of two objects for the
command lines that tell them apart, every pair of listings for those that change the
merge, limits of 0, 1 and 2 (also of 1 for two producers), and a producer per child prefix.
The passing configurations leave out what the code gets wrong: a limit that runs out while
the source is still being listed with a delimiter (the panic among the hazards), two
producers that delete under one limit, and the gate with
`--delete-src`. The two properties say so themselves: `NoSendOnClosed` is about
configurations with `NoneBelow`, `LimitKept` about those with `OneCounts`.

For the gate buffer, two records of one key are one that is being written and one
that waits; that a longer batch fails between its chunks is left to the theorem
(`GateRowsKept`), as is a second thread. `LocalFile` (the checkpoint in a
local file, which the delete at the destination does not touch) is `FALSE` in the runs, the
harder case; the theorems hold for both.

For `Transfer`, two blocks are one that is read and one that is ahead, two attempts a first
and a last one; three tokens are one more than a broken upload can cost (see below).
For `Cluster`, one loss at every place of every message is what a single retry has to
survive; one task in hand and one on its way need two keys. For `objects`, pages of 2 give
a first, a middle and a last page, and the page that is cut by a removed key; Redis has one
node, of which every key has to come; two faults
with one retry are a retry that helps and one that does not. Ranges begin inside the first
chunk, at its end, in the second, and end before, at and behind a chunk's end, in objects
with and without a short last chunk. The sizes for `Parts` are one part, as many parts as
may be, one byte more, one part more with larger parts, a last part that is full, and too
large; three faults use up the attempts of a request and one more.

Mutants: every property of a passing run is broken by a plausible bug in a definition of
the model; they stand before the definitions they change, marked `bug:`.

### Findings

1. *Directory first.* With `--list-threads` above 1 the children of the root are registered
   as they are listed, the root only with its own first key. A save in between leaves a
   file without the root, and the resumed run lists the known children only and reports
   success (`sync.go:2350`).
2. *Failed delimiter listing.* The error is logged and the channel closed, which
   `produce` takes for the end (`sync.go:2138`): with `--delete-dst` what the destination
   holds behind that point is deleted, and the prefix counts as listed.
3. *`--delete-src` with the gate.* An object the second gate decides to send is marked for
   deletion from the source, and never copied (`sync.go:1825`).
4. *The ends of a range on a file system.* A walk leaves out the key of `--end`
   (`object_storage.go:304`), and the key of `--start` if it is at the top: `listAll` looks it
   up and throws away the channel it put it in (`sync.go:339`). The command line calls them
   the first and the last key to sync.

Known besides, each refuted once on the instance named and excepted by name in the
properties that pass; they have no run of their own. For the first four the modules state the
property without the exception, for a cfg of one's own:

* A commit whose answer is lost. The batch is kept and written again (`mysql.go:305`, `350`,
  `db.go:241`), so its rows are in the table twice, although the comments on the transactions
  say that a retry "cannot insert duplicate rows" (`mysql.go:271`, `314`). `WrittenOnce` fails on two
  records; `OnePlaceEach` allows it for the records in `unanswered`.
* `--limit` with `--delete-dst` and two producers: `handleExtraObject` looks at the limit and
  lowers it in two steps (`sync.go:1624`, `1630`); two that saw 1 make it -1, which is none. The README
  of the tool says that it is never overdrawn (`README.md:420`). `LimitShared` fails with
  `Configuration <- ExtraConfigurations` (two extra objects of two producers, `--limit 1`);
  `LimitKept` is for `OneCounts`, producers that share without `--delete-dst` included.
* The ticker at the end of a worker process. `syncExitFunc` repeats its report while it sees
  directories whose deletion was put off (`sync.go:3142`); the ticker may have taken them for
  a report of its own, the process ends with that under way, and the manager may be through
  with its deletes when it comes. `DelayedDeleted` fails on the instance of `cluster`;
  `DelayedReported` allows for such a report.
* The cursor of a Redis cluster is not set back for the next master (`redis.go:95`): keys are left
  out of a listing that ends as complete. `ScanFindsAll` fails with `Masters = 2`; `ListedRight`
  excepts it (`MaySkip`).
* `--max-failure` exits past the deferred close of the gate buffer (`sync.go:3188`).
* Blocks that were read ahead by an upload that breaks off keep their tokens
  (`download.go:144`): with two faults, or with no token more than blocks, `TransfersEnd` fails.
  `TokensAccounted` counts these blocks (`lost`).
* With `--delete-src-after`, a report counted twice adds a copy and a delete and makes up
  for a lost task: `LossIsFailure` fails in the `cluster` instance, `OneLossIsFailure` speaks
  of the other mode.
* An upload to ufile remembers its parts one number too low (`ufile.go:298`; `Misnumbered` in
  `Parts`): a resumed upload takes each part for the next range.
* `choosePartSize` rounds down before it aligns: one part too many for sizes just above a
  multiple (`sync.go:995`; `NotMoreParts`), and scw takes 1000 parts of the 10000 that are
  planned (`scw.go:50`; `TooMany`).
* An object too large for parts leaves its upload open (`sync.go:1118`); so does an upload
  whose object has changed (`checkpoint.go:585`).
* `Head` of dragonfly gives nil without an error (`dragonfly.go:234`), of ceph a nil pointer
  (`ceph.go:213`): the callers that use it panic (`panic` in `Reading`).
* Comparing empty objects fails on b2 and bunny, which ask for 0..-1 (`b2.go:94`).
* A goroutine of Ceph's listing that has no context leaves its consumer waiting
  (`ceph.go:252`; `MayHang` in `Listing`).
* `Put` of sftp and gluster, and of hdfs and nfs with `--inplace` (`hdfs.go:156`, `nfs.go:191`),
  may leave no object, of ceph a torn or a longer one, of cifs its
  temporary file (`MayVanish`, `MayTear`, `litter` in `Requests`).

The property `NoKeyLost` of finding 1 is refuted on three more instances, which are hazards of
`PROJECT.json` and no runs of their own: `Kind` with a `srcdir` first and one
crash (a save between `UpdateLastListedKey` and the append to `srcDelayDel`), `Kind` with a
`dstdir` first and one crash (a file with a delayed delete and no state is resumed as if
everything was listed), and a child that is not in `SrcPrefix` (a directory only the
destination has is never registered) with one crash. The passing runs leave exactly
these instances out.

## 4. Fairness

`Checkpoint!Fairness`: the operator starts the job again after a run that did not complete
(`WF Start`); goroutines run. Producers contend for the tasks channel and for the map lock
a save takes again and again, workers for the channel: Go serves waiting senders,
receivers and writers in order, so their steps have strong fairness. Crashes and faults
have none and are bounded.

`JobExit!JobFairness`: the goroutines of the services run (`WF`); their `select` picks a
ready case at random, so the case of `done` is taken eventually (`SF`); a thread
that ends the process goes on (`WF` of all three: one of them goes on). Nothing obliges the database to succeed.

`Produce!FairSpec`: the listings and the producers go on (`WF` each); the workers keep taking
tasks, so that a producer is never held up for good.

`Transfer`, `Cluster`, `MCObjects`: some goroutine that can go on does (`WF_vars(System)`), which
is what the scheduler gives at least, and all that is needed: each step brings the end
nearer, faults and changes are bounded and not part of `System`. In `Transfer` a worker that
waits for a token, a block or a holder has no step, so `TransfersEnd` says that they never
all wait. In `Cluster` a loss is no step of `System`; a report is made again only
when there is something to report. `CallsEnd` leaves a listing of Ceph that hangs out (`MayHang`).

## 5. Theorems

All are about every value of the constants that the named `ASSUME`s of the modules allow. Each
proof has the same shape: an inductive invariant, a lemma that `Init` gives it, one lemma
per action (or per conjunct the action can disturb), the steps of `Next` put together, and
PTL. The invariants were checked by TLC on the instances of the runs before they were proved.

### One process: the checkpointed job

* `CheckpointProofs!TypeCorrect`, `SavedTruthful`: `Spec => []TypeOK` and
  `Spec => []StatesTruthful` for every listing of depth one, any number of workers, crashes
  and faults. `StatesTruthful` is not inductive: that a pending key can be removed only by the
  worker that handled it needs to know where the keys behind `last` are. The
  invariant adds that the places produced so far are recorded or handled, that a worker
  that has copied holds a handled key, that a state never goes beyond its producer, and
  that a snapshot in progress only holds what was true when it was copied and is still
  true because `done` only grows.
* `CheckpointJobProofs!KeyInOneHand`, `ListedOnce`: `OneTaskPerKey` and `OneLister`, without
  further assumptions. `HandInv` says where a tracked key is (to be sent again, being sent,
  in the channel, with a worker), that it is there once, and that it got there in this run: by
  the one that restored its prefix or by the producer that lists it, never both, because
  `restored` and `isNew` exclude each other. `FirstPendingAssumption` is needed: the keys
  pending in the first file lie behind its last listed key, as in any file `Save` writes.
* `CheckpointJobProofs!NothingLost`, `JobRefines`: `RootKnown => (Spec => []NoKeyLost)` and
  `RootKnown => (Spec => Job!Spec)`, the safety part of the refinement of `SyncJob`. `RootKnown`
  is what the code needs to be right: every key can be recorded, no delayed delete is left
  over from the first file, and there is one listing, or the file has the root and every prefix
  the root will not come to. Without it keys are lost: finding 1 and the three instances after
  it. The instances of `checkpoint_flat` and `checkpoint_deep` meet it. `LeadInv` says that
  memory, the snapshot under way and the file each lead to whatever is not handled: a prefix
  is handled, or has a state, or comes after the last listed key of the root; and that
  a run at its end has nobody left who works.
* `CheckpointJobProofs!ExitSaved`, `KnownExitSaved`:
  `NeverCut => (Spec /\ ExitsSaved => ExitSnapshotComplete)`, and
  `RootKnown => (Spec => ExitSnapshotComplete)`. `ExitsSaved` says that the save at the exit of a failed
  run succeeds (with one fault it cannot fail, since that has made the run fail). `NeverCut` has delayed deletes, which `RootKnown` has not, and
  no crash: a file saved between `UpdateLastListedKey` and the append to `srcDelayDel` would lose a
  key. It asks that the error of a listing does not end `Sync`, or is the only fault; that every
  prefix is the root or a child of it the source has; and that the file of the first run, if
  it is loaded, has every prefix or its root comes to it. `checkpoint_delayed` meets
  it. `WorkInv` says of each key, as long as no failure has gone uncounted, that it is delayed,
  handled or pending or failed in the state of its prefix, or that its producer will come to it;
  `CourseInv` who waits for whom, and that
  nobody is at work once the run ends; `DiskInv` that a file of an earlier exit leads to
  whatever is not handled. Under `RootKnown` crashes are allowed and `LeadInv` is enough.
* `CheckpointJobProofs!SweptNothingLost`: `Spec /\ ExitsSaved => []NoKeyLost` with delayed deletes,
  under `NeverCut` and, besides, either `ToTheEnd` (a root with children: the error of a
  listing does not end `Sync`) or no fault at all. The delete of the checkpoint that comes
  before the delayed ones may fail or go unanswered, as in `deleteObj`; then the run fails, and
  the save at its exit is the file the next one starts from. `checkpoint_delayed` meets the
  conditions. Without `ExitsSaved` a file saved on the way stays, which can forget a source
  directory; without `ToTheEnd` the error of a listing can end `Sync` and leave such a file (TLC
  finds it on one listing with a `srcdir`). `FinishInv` adds to `WorkInv` why nothing is left at the exit without a
  failure: each state is looked after by a goroutine still to run or by a producer that
  leaves it with its listing done (`TendedInv`), a tracked key is handled, in a hand or
  counted as a failure (`TrackedLive`), and so is a delayed delete that was made (`SweptInv`).
* `AsyncDbProofs!TypeCorrect`, `EachInOnePlace`, `FlushedByClose`: for every channel and batch
  size. `OnePlaceEach` with the types is inductive, since it says itself in which
  places a record may be after an unanswered commit; `CloseFlushes` needs `CloseInv`, which says
  what the goroutine has behind it in each of its states and that a second caller of
  `Close` ends the promise for good.
* `JobExitProofs!JobTypeCorrect`, `RecordsKept`, `GateRowsKept`: the same for `AsyncDb` and
  `GateBuffer` together under the threads that end the process, for any number of them at once
  (`ThreadAssumption`: the callers of `Close` are these threads). `GateRowsKept` is the action
  property; its invariant orders the records of a key by place: what waits is no older than
  what is being written, and that no older than the row (`RowInv`), which needs that one
  thread at most closes the buffer and writes only after its goroutine has stopped
  (`CloserInv`).
* `JobExitProofs!OutcomesOfOne`, `DbRefined`: under `MaxExits <= 1`, since with two threads the
  second `Close` returns at once and its thread may end the process under the first one
  (`db.go:301` in the hazards). `ExitInv` follows each of the three threads through what it
  has closed, written and removed.

### Listings and copies

* `ProduceProofs!TypeCorrect`, `NoSourceObjectExtra`: `Spec => []TypeOK` and
  `Spec => []SourceKept` for every set of keys, any number of child prefixes, every command
  line and pair of sides, every order of the listings and every failure of `listAll`
  (not of a delimiter listing: that is finding 2). `MergeInv` says where the cursor can be:
  it is the last destination object received (`CursorInv`), it stands on no source object
  produce is done with (`AheadInv`), and no object of both sides that produce is done
  with is still to come from the destination (`BehindInv`). `EndedInv` carries what the end
  of a listing means. Types need it too: an object claimed or deleted is a key only
  because produce holds one at that point.
* `ProduceProofs!EveryKeyDecided`, `NoneIsLost`: `MergeRight` and `NoneLost`, from an invariant
  that says of each object before the cursor what has been decided.
* `ProduceProofs!NoSendAfterClose`, `LimitObserved`: `Spec => []NoSendOnClosed` and
  `Spec => []LimitKept`, for every configuration; the properties leave out a limit with a source that
  has child prefixes (the code panics) and two producers that delete under one limit
  (`LimitShared` in section 3). The
  limit that is left and what has been counted add up to the limit of the command line, and
  there is room for an extra object that has been checked (`LimitInv`).
* `TransferProofs!TypeCorrect`, `CopiedRight`, `UploadsAreKnown`, `EveryTokenAccounted`: the four
  invariants of `transfer` for any finite set of tasks, any number of workers, threads, blocks,
  attempts, faults and changes. The tokens are counted by three sets, of requests, blocks and
  parts that have one; one lemma says how a step that adds or removes one member moves the sum
  (`TokensMove`), and each action is one such step. `TaskInv` has for each
  task what its phase implies: how much was read, that what was read of an unchanged source is
  what was listed, which uploads are open and who names them; `DownInv` the same for a
  downloader.
* `ClusterProofs!TypeCorrect`, `OwedKept`, `DelayedKept`: for any finite set of keys, any hosts
  and any number of losses and deaths. `PlaceInv` puts a key in one place; `CountInv` is why a
  counter does not go below zero: a report is never more than its process has counted, and
  the process is never behind what was acknowledged. `DelayedReported` speaks of the directories
  that the manager has at the end or that are in a report a process left under way at its exit:
  what is lost there is `DelayedDeleted` in section 3.
* `ClusterProofs!OneLossFails`: `MaxTrouble <= 1 => (Spec => []OneLossIsFailure)`. One loss either
  loses a task (then no success is counted twice and the total stays short) or repeats a
  report (then no task is lost); `LossInv` keeps this either-or, with a function from keys to
  the place their success is counted at as its witness (`CountedOnce`). With two losses it fails.

### Stores

* `ObjectsProofs!ListingsRight`: `Spec => []ListedRight` for every adapter, any number of keys,
  pages of any size, and however many keys come and go and requests fail. `ListInv` has a part
  for each stage: between two pages (`PageInv`) what was sent is up to `sent`, and a wanted key
  was sent or is behind `sent`, or behind the token where the service has one; what the masters
  of Redis have given (`ScanInv`) is up to the cursor, and no key is there twice unless a table
  was rehashed; when it is sent (`BatchInv`) it is behind all that was sent; and each goroutine of
  Ceph (`StatInv`) is at one of the next `Stats` names, at the one of its own remainder, so that
  the answer that is taken is that of the next name. `Answer` says of all 22 flat adapters
  what a page leaves out, `Order` and `SortedKeys` that counting what is before each member puts
  a set or a sequence in order; that needs no induction, for ranks are an injection
  into as many places as there are members. `ListingAssumption` asks for pages of two keys at least
  (1000 in the code): the list of b2 begins with the marker itself and leaves it out, and a
  page of that key alone would be empty and yet not the last.
* `ObjectsProofs!WalksRight`: `Spec => []WalkedRight` for every tree, any number of helpers and
  entries asked ahead, and however names come and go and requests fail. `WalkInv` says that each
  directory on the stack is in the one below it, that what waits in it comes after
  everything further in and everything sent, and that a name that should come was sent, waits,
  or is in a directory that waits; a helper's batch is the beginning of the directory it is for.
  The names are numbered depth first (`WalkAssumption`), as byte order numbers paths: a
  name is in a directory when no name from the one to the other has its parent before it.
  That says `Above` without recursion, and what is in what needs no induction over the tree.
* `ObjectsProofs!ObjectsTyped`: `Spec => []ObjectsTypeOK`, from the invariants of all the calls: an
  index or a page is in its range only because the walk, the listing or the upload is where it is.
* `ObjectsProofs!PutsAndDeletesRight`: `Spec => []RequestsRight` for any number of attempts,
  faults and crashes and any set of calls. The 31 ways to `Put` come down to six shapes
  (`PutKinds`); `PutInv` says that the temporary file has all of the new data before it is
  renamed, `AttemptInv` that each attempt had a fault of its own.
* `ObjectsProofs!PartsAssembled`, `PartsFit`: `Spec => []PartsRight` for every size, and what
  `choosePartSize` returns, with its integer divisions. `PartsInv` says that a part that is
  placed or remembered is the one the upload has under that number, `StandInv` what each
  state of the copy has behind it, `ReasonInv` that what fails or is left had a reason.
  `PartsAssumption` asks of the services that their smallest and largest parts are whole units
  of alignment (4 or 5 MiB, and 5 GiB, of 1 MiB) and that they take no more parts than a
  smallest part has bytes (at most a million, of 4 MiB): without that, rounding down could
  make more than one part too many.
* `ObjectsProofs!ReadsRight`: `Spec => []ReadRight` for objects, ranges and chunks of every size,
  any number of changes and of faults. `BytesInv` and `CallerInv` say that what the caller has is
  its range so far, place by place, `WhyInv` why a read may fail; `PlainInv`, `RawInv` and
  `ChunkInv` follow the reader of an encrypted object, which has whole chunks behind it and a part
  of one before it. The lemmas `Chunks`, `PlainOfEncrypted` and `Ranges` are the arithmetic of
  `chunkedEncrypted`: what a range of the object is in what is stored, with integer
  divisions. `ReadingAssumption` asks that a call for an encrypted object as a whole does not read
  one that grows under it: a chunk that was the last and short would shift what
  follows. The only such call loads the checkpoint, which nobody writes at that time
  (`checkpoint.go:259`).

### Only model-checked

A theorem states each safety property of a passing run, some of them under a condition that is
named above with the theorem. Liveness and fairness are out of the reach of the proof system:
`ExitTerminates`, `ProducersReturn`, `TransfersEnd`, `ClusterEnds`, `CallsEnd` and the liveness of
`JobSpec` stay with TLC. `NoKeyLost` needs `RootKnown`, or the conditions of `SweptNothingLost`; the
instances of the passing runs meet one or the other. The runs that expect a violation show what
the theorems leave out.

## 6. Plan

1. Done: `Checkpoint`, `AsyncDb`, `GateBuffer`, `JobExit`, first theorems.
2. Done: `Produce`, the merge with the decisions of `produce` and `--limit`.
3. Done: `Transfer`, tokens of `concurrent`, parallel download, parts of a multipart copy.
4. Done: `Cluster`, manager and workers with lost and repeated answers.
5. Done: `Backends` and the protocols over it, part sizes and encrypted chunks among them.
6. Done: the theorems above.
7. Open: both gates across runs, with a source that changes and a destination that
   applications write to; the filters; scan modes.

## 7. Not modelled

Scan modes and metadata fixing are sequential comparisons that write reports. The patterns,
sizes and ages of the filters count as the absence of an object. SQL text, command line,
progress display, platform glue and deployment scripts have no protocol of their own. Of
the storages: `Copy`, `ListUploads`, `Restore`, `SetTier`, links, owners and modes. Sharding and the
encryption of whole objects have no caller. `PROJECT.json` names each with the reason.
