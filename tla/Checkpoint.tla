------------------------------ MODULE Checkpoint ------------------------------
(***************************************************************************)
(* One checkpointed sync job (pkg/sync/checkpoint.go and the producer and  *)
(* worker side of pkg/sync/sync.go), over all the runs it takes: producers *)
(* list prefixes and queue tasks, workers process them, the manager saves  *)
(* snapshots, the process crashes and the operator starts it again.        *)
(*                                                                         *)
(* The merged, sorted listing of a prefix is a constant sequence, and a    *)
(* key is identified with its place in it: LastListedKey is the index of   *)
(* the last entry recorded, 0 for "".  The tasks channel is the set of     *)
(* queued keys (any worker may receive any of them), the two delay-delete  *)
(* lists are sets.  SaveOnSignal is a save followed by a crash.            *)
(***************************************************************************)
EXTENDS Naturals, Sequences, FiniteSets

CONSTANTS
    Prefix,      \* the prefixes listed as a unit
    Root,        \* the prefix "" a fresh run starts with
    Key,         \* the objects the listings deliver
    Listing,     \* Listing[p]: the entries of p in key order, keys and children
    Kind,        \* Kind[k]: what produce decides for k
    SrcPrefix,   \* the child prefixes the source listing has
    Worker,
    NoKey,       \* held by a worker that has no task
    DeleteDst,   \* --delete-dst
    LocalFile,   \* --checkpoint-file: the checkpoint is not kept at the destination
    TaskCap,     \* capacity of the tasks channel
    FirstCheckpoint, \* the checkpoint file the first run finds
    MaxCrashes,  \* bound: crashes of the process
    MaxFaults    \* bound: failed listings, tasks, deletes and saves

Kinds == {"send", "skip", "srcdir", "dstdir"}

ASSUME ListingAssumption ==
    /\ Root \in Prefix
    /\ SrcPrefix \subseteq Prefix
    /\ Key \cap Prefix = {}
    /\ NoKey \notin Key
    /\ Listing \in [Prefix -> Seq(Key \cup Prefix)]
    /\ Kind \in [Key -> Kinds]
    /\ DeleteDst \in BOOLEAN /\ LocalFile \in BOOLEAN
    /\ TaskCap \in Nat \ {0}
    /\ MaxCrashes \in Nat
    /\ MaxFaults \in Nat

\* every key has one place in one listing
ASSUME PlaceAssumption ==
    /\ \A k \in Key : \E p \in Prefix : \E i \in DOMAIN Listing[p] : Listing[p][i] = k
    /\ \A p, q \in Prefix : \A i \in DOMAIN Listing[p], j \in DOMAIN Listing[q] :
           Listing[p][i] = Listing[q][j] => p = q /\ i = j

\* --list-depth 1, the default: the prefixes below the root list no others
ASSUME DepthAssumption ==
    \A p \in Prefix : \A i \in DOMAIN Listing[p] :
        Listing[p][i] \in Prefix => p = Root /\ Listing[p][i] # Root

\* the prefix a key or a child prefix is listed under, and its place there
Owner(e) == CHOOSE p \in Prefix : \E i \in DOMAIN Listing[p] : Listing[p][i] = e
Place(e) == CHOOSE i \in DOMAIN Listing[Owner(e)] : Listing[Owner(e)][i] = e
Children(p) == {c \in Prefix : \E i \in DOMAIN Listing[p] : Listing[p][i] = c}

PrefixState == [present : BOOLEAN, isNew : BOOLEAN, listDone : BOOLEAN,
                last : Nat, pending : SUBSET Key, failed : SUBSET Key]

NoState == [present |-> FALSE, isNew |-> FALSE, listDone |-> FALSE,
            last |-> 0, pending |-> {}, failed |-> {}]
NewState == [present |-> TRUE, isNew |-> TRUE, listDone |-> FALSE,
             last |-> 0, pending |-> {}, failed |-> {}]

Snapshot == [exists : BOOLEAN, state : [Prefix -> PrefixState],
             srcDelay : SUBSET Key, dstDelay : SUBSET Key]
NoCheckpoint == [exists |-> FALSE, state |-> [p \in Prefix |-> NoState],
                 srcDelay |-> {}, dstDelay |-> {}]

\* state s says that nothing is left to do for key k of its prefix
Passed(s, k) ==
    /\ s.present
    /\ s.listDone \/ Place(k) <= s.last
    /\ k \notin s.pending /\ k \notin s.failed

\* what a state of prefix p may hold: an index into its listing and its own keys
WellFormed(p, s) ==
    /\ s.last <= Len(Listing[p])
    /\ \A k \in s.pending \cup s.failed : Owner(k) = p
    /\ ~s.present => s = NoState

ASSUME FirstCheckpointAssumption ==
    /\ FirstCheckpoint \in Snapshot
    /\ \A p \in Prefix :
           /\ WellFormed(p, FirstCheckpoint.state[p])
           /\ ~FirstCheckpoint.state[p].isNew
           /\ FirstCheckpoint.state[p].present => FirstCheckpoint.exists

\* a key becomes pending in the update that records it as listed, and nothing takes that back
ASSUME FirstPendingAssumption ==
    \A p \in Prefix : \A k \in FirstCheckpoint.state[p].pending \cup FirstCheckpoint.state[p].failed :
        Place(k) <= FirstCheckpoint.state[p].last

Active == {"resend", "resendOnly", "list", "send", "append", "wait"}

VARIABLES
    run,       \* the process: down, up (producing), closed (tasks closed),
               \* ending, sweeping (delayed deletes), completed
    ps,        \* CheckpointManager.checkpoint.PrefixState
    tracked,   \* CheckpointManager.keyPrefix: the keys it knows the prefix of
    restored,  \* CheckpointManager.restoredPrefixes
    reap,      \* prefixes found done whose removal from the map is still to come
    toRestore, \* goroutines of restoreFromCheckpoint not yet run
    spawned,   \* children sent to commonPrefix whose goroutine has not yet run
    prod,      \* control state of the producer of a prefix
    by,        \* who waits for it: Sync, restoreFromCheckpoint, the parent
    seen,      \* how far the listing goroutine of a prefix is
    pos,       \* how far produce is
    resend,    \* restored keys of a prefix still to be queued
    tasks,     \* the keys in the tasks channel
    held,      \* the task of each worker
    wst,       \* control state of each worker
    failures,  \* failed.Current() > 0
    srcDelay,  \* srcDelayDel
    dstDelay,  \* dstDelayDel
    swept,     \* delayed deletes attempted
    saving,    \* the step of a Save in progress
    copying,   \* the prefixes it has not yet copied
    snap,      \* the snapshot it takes
    disk,      \* the checkpoint file
    done,      \* history: the keys whose handling is complete
    crashes, faults

mgrVars  == <<ps, tracked, restored, reap>>
prodVars == <<toRestore, spawned, prod, by, seen, pos, resend>>
workVars == <<held, wst>>
delVars  == <<srcDelay, dstDelay, swept>>
saveVars == <<saving, copying, snap>>
vars == <<run, ps, tracked, restored, reap, toRestore, spawned, prod, by, seen,
          pos, resend, tasks, held, wst, failures, srcDelay, dstDelay, swept,
          saving, copying, snap, disk, done, crashes, faults>>

TypeOK ==
    /\ run \in {"down", "up", "closed", "ending", "sweeping", "completed"}
    /\ ps \in [Prefix -> PrefixState]
    /\ tracked \subseteq Key
    /\ restored \subseteq Prefix /\ reap \subseteq Prefix
    /\ toRestore \subseteq Prefix /\ spawned \subseteq Prefix
    /\ prod \in [Prefix -> Active \cup {"none", "done", "error"}]
    /\ by \in [Prefix -> {"none", "sync", "top", "parent"}]
    /\ seen \in [Prefix -> Nat] /\ pos \in [Prefix -> Nat]
    /\ resend \in [Prefix -> SUBSET Key]
    /\ tasks \subseteq Key
    /\ held \in [Worker -> Key \cup {NoKey}]
    /\ wst \in [Worker -> {"idle", "busy", "copied"}]
    /\ failures \in BOOLEAN
    /\ srcDelay \subseteq Key /\ dstDelay \subseteq Key /\ swept \subseteq Key
    /\ saving \in {"idle", "prefixes", "src", "dst", "write"}
    /\ copying \subseteq Prefix
    /\ snap \in Snapshot
    /\ disk \in Snapshot
    /\ done \subseteq Key
    /\ crashes \in Nat /\ faults \in Nat

-----------------------------------------------------------------------------
(* Updates of the prefix states.  Save holds the read lock of the map from *)
(* its first to its last copy: meanwhile no state is created or removed.   *)

MapLocked == saving \in {"prefixes", "src", "dst"}

\* bug: a state that was there is marked as new again
GetOrCreateRenewed(p) == [IF ps[p].present THEN ps[p] ELSE NewState EXCEPT !.isNew = TRUE]

GetOrCreate(p) == IF ps[p].present THEN ps[p] ELSE NewState

\* bug: a listed prefix counts as done while its keys are on their way
IsDoneListed(s) == s.listDone

IsDone(s) == s.listDone /\ s.pending = {} /\ s.failed = {}

\* updatePrefixState: the update under the lock of the state; a state that is
\* done is removed by ReapPrefix, after that lock is released
UpdateState(p, s) ==
    /\ ps[p].present \/ ~MapLocked
    /\ ps' = [ps EXCEPT ![p] = s]
    /\ reap' = IF IsDone(s) THEN reap \cup {p} ELSE reap

\* a child is registered while its parent is listed; unlike the other updates
\* this one does not look whether the state is done
RegisterChildPrefix(c) ==
    /\ ps[c].present \/ ~MapLocked
    /\ ps' = [ps EXCEPT ![c] = GetOrCreate(c)]
    /\ UNCHANGED reap

ReapPrefix(p) ==
    /\ p \in reap
    /\ ~MapLocked
    /\ ps' = [ps EXCEPT ![p] = NoState]
    /\ reap' = reap \ {p}
    /\ UNCHANGED <<run, tracked, restored, prodVars, tasks, workVars, failures,
                   delVars, saveVars, disk, done, crashes, faults>>

-----------------------------------------------------------------------------
(* Starting and restoring.                                                 *)

\* Load and the choice in Sync: a checkpoint with no prefix and no delayed
\* delete counts as empty, and the listing starts afresh
Loadable(c) ==
    /\ c.exists
    /\ \/ \E p \in Prefix : c.state[p].present
       \/ c.srcDelay # {} \/ c.dstDelay # {}

Start ==
    /\ run = "down"
    /\ run' = "up"
    /\ ps' = disk.state
    /\ IF Loadable(disk)
       THEN /\ toRestore' = {p \in Prefix : disk.state[p].present}
            /\ srcDelay' = disk.srcDelay
            /\ dstDelay' = disk.dstDelay
            /\ UNCHANGED <<prod, by>>
       ELSE /\ prod' = [prod EXCEPT ![Root] = "list"]
            /\ by' = [by EXCEPT ![Root] = "sync"]
            /\ UNCHANGED <<toRestore, srcDelay, dstDelay>>
    /\ UNCHANGED <<tracked, restored, reap, spawned, seen, pos, resend, tasks,
                   workVars, failures, swept, saveVars, disk, done, crashes, faults>>

\* bug: the listing starts one entry too early
BeginListBefore(p, who) ==
    /\ prod' = [prod EXCEPT ![p] = "list"] /\ by' = [by EXCEPT ![p] = who]
    /\ seen' = [seen EXCEPT ![p] = ps[p].last - 1] /\ pos' = [pos EXCEPT ![p] = ps[p].last - 1]

\* startProducer: listing goes on after GetLastListedKey
BeginList(p, who) ==
    /\ prod' = [prod EXCEPT ![p] = "list"]
    /\ by' = [by EXCEPT ![p] = who]
    /\ seen' = [seen EXCEPT ![p] = ps[p].last]
    /\ pos' = [pos EXCEPT ![p] = ps[p].last]

\* bug: a prefix is restored again by its parent
RestorableAgain(p) == ps[p].present /\ ~ps[p].isNew

\* RestorePrefix finds the state of an earlier run, which nobody restored yet
Restorable(p) == ps[p].present /\ ~ps[p].isNew /\ p \notin restored

\* bug: the failed keys stay behind
RestorePrefixPending(p, who) ==
    /\ restored' = restored \cup {p}
    /\ tracked' = tracked \cup ps[p].pending
    /\ resend' = [resend EXCEPT ![p] = ps[p].pending]
    /\ prod' = [prod EXCEPT ![p] = IF ps[p].listDone THEN "resendOnly" ELSE "resend"]
    /\ by' = [by EXCEPT ![p] = who]
    /\ UNCHANGED <<ps, reap, seen, pos>>

RestorePrefix(p, who) ==
    LET again == ps[p].pending \cup ps[p].failed
    IN  /\ restored' = restored \cup {p}
        /\ ps' = [ps EXCEPT ![p].pending = again, ![p].failed = {}]
        /\ tracked' = tracked \cup again
        /\ resend' = [resend EXCEPT ![p] = again]
        /\ prod' = [prod EXCEPT ![p] = IF ps[p].listDone THEN "resendOnly" ELSE "resend"]
        /\ by' = [by EXCEPT ![p] = who]
        /\ UNCHANGED <<reap, seen, pos>>

\* a goroutine of restoreFromCheckpoint: nothing to do unless restorable
RestoreTop(p) ==
    /\ p \in toRestore
    /\ toRestore' = toRestore \ {p}
    /\ IF Restorable(p)
       THEN RestorePrefix(p, "top")
       ELSE UNCHANGED <<mgrVars, prod, by, seen, pos, resend>>
    /\ UNCHANGED <<run, spawned, tasks, workVars, failures, delVars, saveVars, disk,
                   done, crashes, faults>>

\* the goroutine of a child prefix: restore it, skip it if somebody else did,
\* list it from the start if no earlier run knew it
RestoreChild(p) ==
    /\ p \in spawned
    /\ spawned' = spawned \ {p}
    /\ \/ Restorable(p) /\ RestorePrefix(p, "parent")
       \/ /\ ps[p].present /\ ~ps[p].isNew /\ p \in restored
          /\ UNCHANGED <<mgrVars, prod, by, seen, pos, resend>>
       \/ /\ ~ps[p].present \/ ps[p].isNew
          /\ BeginList(p, "parent")
          /\ UNCHANGED <<mgrVars, resend>>
    /\ UNCHANGED <<run, toRestore, tasks, workVars, failures, delVars, saveVars, disk,
                   done, crashes, faults>>

\* restorePrefixFromCheckpoint queues the keys it restored ...
Resend(p) ==
    /\ prod[p] \in {"resend", "resendOnly"}
    /\ run = "up" /\ Cardinality(tasks) < TaskCap
    /\ \E k \in resend[p] :
          /\ resend' = [resend EXCEPT ![p] = @ \ {k}]
          /\ tasks' = tasks \cup {k}
    /\ UNCHANGED <<run, mgrVars, toRestore, spawned, prod, by, seen, pos, workVars,
                   failures, delVars, saveVars, disk, done, crashes, faults>>

\* ... and then goes on listing, unless the listing was done
Resent(p) ==
    /\ resend[p] = {}
    /\ \/ prod[p] = "resend" /\ BeginList(p, by[p])
       \/ /\ prod[p] = "resendOnly"
          /\ prod' = [prod EXCEPT ![p] = "done"]
          /\ UNCHANGED <<by, seen, pos>>
    /\ UNCHANGED <<run, mgrVars, toRestore, spawned, resend, tasks, workVars,
                   failures, delVars, saveVars, disk, done, crashes, faults>>

-----------------------------------------------------------------------------
(* Listing and producing one prefix.                                       *)

\* the listing goroutine: a key goes to srckeys; a child of the source is
\* registered, and any child goes to commonPrefix
ListNext(p) ==
    /\ prod[p] \in {"list", "send", "append"}
    /\ seen[p] < Len(Listing[p])
    /\ seen' = [seen EXCEPT ![p] = @ + 1]
    /\ LET e == Listing[p][seen[p] + 1]
       IN  \/ e \in Key /\ UNCHANGED <<ps, reap, spawned>>
           \/ /\ e \in Prefix
              /\ spawned' = spawned \cup {e}
              /\ \/ e \in SrcPrefix /\ RegisterChildPrefix(e)
                 \/ e \notin SrcPrefix /\ UNCHANGED <<ps, reap>>
    /\ UNCHANGED <<run, tracked, restored, toRestore, prod, by, pos, resend, tasks,
                   workVars, failures, delVars, saveVars, disk, done, crashes, faults>>

Recorded(p) == [GetOrCreate(p) EXCEPT !.last = pos[p] + 1]

\* produce takes the next object: skipIt records it as listed, sendTask (and
\* the extra file of handleExtraObject) as pending as well, a source directory
\* to delete is recorded before it is appended, an extra directory only appended
Produce(p) ==
    /\ prod[p] = "list"
    /\ pos[p] < seen[p]
    /\ LET e == Listing[p][pos[p] + 1]
       IN  \/ /\ e \in Prefix
              /\ pos' = [pos EXCEPT ![p] = @ + 1]
              /\ UNCHANGED <<ps, reap, tracked, prod, dstDelay, done>>
           \/ /\ e \in Key /\ Kind[e] = "send"
              /\ UpdateState(p, [Recorded(p) EXCEPT !.pending = @ \cup {e}])
              /\ tracked' = tracked \cup {e}
              /\ prod' = [prod EXCEPT ![p] = "send"]
              /\ UNCHANGED <<pos, dstDelay, done>>
           \/ /\ e \in Key /\ Kind[e] = "skip"
              /\ UpdateState(p, Recorded(p))
              /\ pos' = [pos EXCEPT ![p] = @ + 1]
              /\ done' = done \cup {e}
              /\ UNCHANGED <<tracked, prod, dstDelay>>
           \/ /\ e \in Key /\ Kind[e] = "srcdir"
              /\ UpdateState(p, Recorded(p))
              /\ prod' = [prod EXCEPT ![p] = "append"]
              /\ UNCHANGED <<pos, tracked, dstDelay, done>>
           \/ /\ e \in Key /\ Kind[e] = "dstdir"
              /\ dstDelay' = dstDelay \cup {e}
              /\ pos' = [pos EXCEPT ![p] = @ + 1]
              /\ UNCHANGED <<ps, reap, tracked, prod, done>>
    /\ UNCHANGED <<run, restored, toRestore, spawned, by, seen, resend, tasks,
                   workVars, failures, srcDelay, swept, saveVars, disk, crashes, faults>>

\* tasks <- obj blocks while the channel is full
SendTask(p) ==
    /\ prod[p] = "send"
    /\ run = "up" /\ Cardinality(tasks) < TaskCap
    /\ tasks' = tasks \cup {Listing[p][pos[p] + 1]}
    /\ prod' = [prod EXCEPT ![p] = "list"]
    /\ pos' = [pos EXCEPT ![p] = @ + 1]
    /\ UNCHANGED <<run, mgrVars, toRestore, spawned, by, seen, resend, workVars,
                   failures, delVars, saveVars, disk, done, crashes, faults>>

AppendSrcDelay(p) ==
    /\ prod[p] = "append"
    /\ srcDelay' = srcDelay \cup {Listing[p][pos[p] + 1]}
    /\ prod' = [prod EXCEPT ![p] = "list"]
    /\ pos' = [pos EXCEPT ![p] = @ + 1]
    /\ UNCHANGED <<run, mgrVars, toRestore, spawned, by, seen, resend, tasks, workVars,
                   failures, dstDelay, swept, saveVars, disk, done, crashes, faults>>

\* bug: a listing that is merely slow counts as finished
MarkListDoneEarly(p) ==
    /\ prod[p] = "list"
    /\ pos[p] = seen[p]
    /\ UpdateState(p, [GetOrCreate(p) EXCEPT !.listDone = TRUE])
    /\ prod' = [prod EXCEPT ![p] = IF Children(p) = {} THEN "done" ELSE "wait"]
    /\ UNCHANGED <<run, tracked, restored, toRestore, spawned, by, seen, pos, resend,
                   tasks, workVars, failures, delVars, saveVars, disk, done, crashes, faults>>

\* produce returns without error and MarkListDone is called; a producer without
\* children has then nothing to wait for
MarkListDone(p) ==
    /\ prod[p] = "list"
    /\ pos[p] = Len(Listing[p])
    /\ UpdateState(p, [GetOrCreate(p) EXCEPT !.listDone = TRUE])
    /\ prod' = [prod EXCEPT ![p] = IF Children(p) = {} THEN "done" ELSE "wait"]
    /\ UNCHANGED <<run, tracked, restored, toRestore, spawned, by, seen, pos, resend,
                   tasks, workVars, failures, delVars, saveVars, disk, done, crashes, faults>>

\* startProducer returns when the goroutines of its children have
ProducerDone(p) ==
    /\ prod[p] = "wait"
    /\ \A c \in Children(p) : c \notin spawned /\ (by[c] = "parent" => prod[c] \notin Active)
    /\ prod' = [prod EXCEPT ![p] = "done"]
    /\ UNCHANGED <<run, mgrVars, toRestore, spawned, by, seen, pos, resend, tasks,
                   workVars, failures, delVars, saveVars, disk, done, crashes, faults>>

-----------------------------------------------------------------------------
(* Workers.                                                                *)

Fetch(w) ==
    /\ wst[w] = "idle"
    /\ \E k \in tasks :
          /\ tasks' = tasks \ {k}
          /\ held' = [held EXCEPT ![w] = k]
    /\ wst' = [wst EXCEPT ![w] = "busy"]
    /\ UNCHANGED <<run, mgrVars, prodVars, failures, delVars, saveVars, disk, done,
                   crashes, faults>>

\* the object is copied (or deleted, for an extra one); or it has gone from the source
\* meanwhile: os.ErrNotExist counts as failed and is tracked as completed
Copy(w) ==
    /\ wst[w] = "busy"
    /\ wst' = [wst EXCEPT ![w] = "copied"]
    /\ done' = done \cup {held[w]}
    /\ \/ UNCHANGED <<failures, faults>>
       \/ faults < MaxFaults /\ faults' = faults + 1 /\ failures' = TRUE
    /\ UNCHANGED <<run, mgrVars, prodVars, tasks, held, delVars, saveVars, disk, crashes>>

Release(w) ==
    /\ held' = [held EXCEPT ![w] = NoKey]
    /\ wst' = [wst EXCEPT ![w] = "idle"]

MarkCompleted(w) ==
    LET k == held[w]
        p == Owner(k)
    IN  /\ wst[w] = "copied"
        /\ Release(w)
        /\ tracked' = tracked \ {k}
        /\ IF k \in tracked
           THEN UpdateState(p, [GetOrCreate(p) EXCEPT !.pending = @ \ {k}, !.failed = @ \ {k}])
           ELSE UNCHANGED <<ps, reap>>
        /\ UNCHANGED <<run, restored, prodVars, tasks, failures, delVars, saveVars, disk,
                       done, crashes, faults>>

MarkFailed(w) ==
    LET k == held[w]
        p == Owner(k)
    IN  /\ wst[w] = "busy"
        /\ faults < MaxFaults
        /\ faults' = faults + 1
        /\ failures' = TRUE
        /\ Release(w)
        /\ IF k \in tracked
           THEN UpdateState(p, IF k \in GetOrCreate(p).pending
                               THEN [GetOrCreate(p) EXCEPT !.pending = @ \ {k},
                                                           !.failed = @ \cup {k}]
                               ELSE GetOrCreate(p))
           ELSE UNCHANGED <<ps, reap>>
        /\ UNCHANGED <<run, tracked, restored, prodVars, tasks, delVars, saveVars, disk,
                       done, crashes>>

-----------------------------------------------------------------------------
(* The end of a run.                                                       *)

CloseTasks ==
    /\ run = "up"
    /\ toRestore = {}
    /\ \A p \in Prefix : by[p] \in {"sync", "top"} => prod[p] \notin Active
    /\ run' = "closed"
    /\ UNCHANGED <<mgrVars, prodVars, tasks, workVars, failures, delVars, saveVars, disk,
                   done, crashes, faults>>

\* bug: the workers leave while tasks are queued
WorkersLeave ==
    /\ run = "closed"
    /\ reap = {} /\ saving = "idle"
    /\ \A w \in Worker : wst[w] = "idle"
    /\ run' = "ending"
    /\ UNCHANGED <<mgrVars, prodVars, tasks, workVars, failures, delVars, saveVars, disk,
                   done, crashes, faults>>

\* the workers have returned, and Stop has waited for a save in progress
WorkersDone ==
    /\ run = "closed"
    /\ tasks = {} /\ reap = {} /\ saving = "idle"
    /\ \A w \in Worker : wst[w] = "idle"
    /\ run' = "ending"
    /\ UNCHANGED <<mgrVars, prodVars, tasks, workVars, failures, delVars, saveVars, disk,
                   done, crashes, faults>>

DroppedFile == IF LocalFile THEN disk ELSE NoCheckpoint

\* with --delete-dst the first delayed delete at the destination is that of the checkpoint,
\* a delete like any other: it may fail, or take place without its answer arriving
DropCheckpoint ==
    /\ run = "ending"
    /\ run' = "sweeping"
    /\ \/ /\ disk' = IF DeleteDst THEN DroppedFile ELSE disk
          /\ UNCHANGED <<failures, faults>>
       \/ /\ DeleteDst /\ faults < MaxFaults
          /\ faults' = faults + 1 /\ failures' = TRUE
          /\ disk' \in {disk, DroppedFile}
    /\ UNCHANGED <<mgrVars, prodVars, tasks, workVars, delVars, saveVars, done, crashes>>

\* delayDelFunc: one goroutine deletes from the source, one from the destination
DelayedDelete ==
    /\ \E k \in (srcDelay \cup dstDelay) \ swept :
          /\ run = "sweeping" \/ (run = "ending" /\ k \in srcDelay)
          /\ swept' = swept \cup {k}
          /\ \/ /\ done' = done \cup {k}
                /\ UNCHANGED <<failures, faults>>
             \/ /\ faults < MaxFaults
                /\ faults' = faults + 1
                /\ failures' = TRUE
                /\ UNCHANGED done
    /\ UNCHANGED <<run, mgrVars, prodVars, tasks, workVars, srcDelay, dstDelay, saveVars,
                   disk, crashes>>

\* MarshalJSON leaves isNew out
Persisted(s) == [s EXCEPT !.isNew = FALSE]

\* bug: a delayed delete from the source counts as made once it was attempted
SnapshotUnswept == [exists |-> TRUE,
                    state |-> [p \in Prefix |-> Persisted(ps[p])],
                    srcDelay |-> srcDelay \ swept, dstDelay |-> dstDelay]

CurrentSnapshot == [exists |-> TRUE,
                    state |-> [p \in Prefix |-> Persisted(ps[p])],
                    srcDelay |-> srcDelay, dstDelay |-> dstDelay]

\* the process is gone and its memory with it
Vanish ==
    /\ ps' = [p \in Prefix |-> NoState]
    /\ tracked' = {} /\ restored' = {} /\ reap' = {}
    /\ toRestore' = {} /\ spawned' = {}
    /\ prod' = [p \in Prefix |-> "none"] /\ by' = [p \in Prefix |-> "none"]
    /\ seen' = [p \in Prefix |-> 0] /\ pos' = [p \in Prefix |-> 0]
    /\ resend' = [p \in Prefix |-> {}]
    /\ tasks' = {}
    /\ held' = [w \in Worker |-> NoKey] /\ wst' = [w \in Worker |-> "idle"]
    /\ failures' = FALSE
    /\ srcDelay' = {} /\ dstDelay' = {} /\ swept' = {}
    /\ saving' = "idle" /\ copying' = {} /\ snap' = NoCheckpoint

\* syncExitFunc: after a failure the checkpoint is saved once more and kept
ExitFailed ==
    /\ run = "sweeping"
    /\ srcDelay \cup dstDelay \subseteq swept
    /\ failures
    /\ run' = "down"
    /\ \/ disk' = CurrentSnapshot /\ UNCHANGED faults
       \/ faults < MaxFaults /\ faults' = faults + 1 /\ UNCHANGED disk
    /\ Vanish
    /\ UNCHANGED <<done, crashes>>

\* ... and without one it is deleted, if the delete succeeds
ExitCompleted ==
    /\ run = "sweeping"
    /\ srcDelay \cup dstDelay \subseteq swept
    /\ ~failures
    /\ run' = "completed"
    /\ \/ disk' = NoCheckpoint /\ UNCHANGED faults
       \/ faults < MaxFaults /\ faults' = faults + 1 /\ UNCHANGED disk
    /\ UNCHANGED <<mgrVars, prodVars, tasks, workVars, failures, delVars, saveVars, done,
                   crashes>>

\* produce gets the nil listAll sends when it fails.  Sync returns the error of
\* its own producer at once, any other error is counted
ListFail(p) ==
    /\ prod[p] = "list"
    /\ Children(p) = {}
    /\ faults < MaxFaults
    /\ faults' = faults + 1
    /\ IF by[p] = "sync"
       THEN run' = "down" /\ Vanish
       ELSE /\ prod' = [prod EXCEPT ![p] = "error"]
            /\ failures' = TRUE
            /\ UNCHANGED <<run, mgrVars, toRestore, spawned, by, seen, pos, resend, tasks,
                           workVars, delVars, saveVars>>
    /\ UNCHANGED <<disk, done, crashes>>

Crash ==
    /\ run \notin {"down", "completed"}
    /\ crashes < MaxCrashes
    /\ crashes' = crashes + 1
    /\ run' = "down"
    /\ Vanish
    /\ UNCHANGED <<disk, done, faults>>

-----------------------------------------------------------------------------
(* Save: the states one by one under their own locks, then the delay-delete *)
(* lists, then the write.                                                   *)

SaveBegin ==
    /\ run \in {"up", "closed"}
    /\ saving = "idle"
    /\ saving' = "prefixes"
    /\ copying' = {p \in Prefix : ps[p].present}
    /\ snap' = [exists |-> TRUE, state |-> [p \in Prefix |-> NoState],
                srcDelay |-> {}, dstDelay |-> {}]
    /\ UNCHANGED <<run, mgrVars, prodVars, tasks, workVars, failures, delVars, disk, done,
                   crashes, faults>>

SavePrefix ==
    /\ saving = "prefixes"
    /\ \/ \E p \in copying :
             /\ copying' = copying \ {p}
             /\ snap' = [snap EXCEPT !.state = [@ EXCEPT ![p] = Persisted(ps[p])]]
             /\ UNCHANGED saving
       \/ copying = {} /\ saving' = "src" /\ UNCHANGED <<copying, snap>>
    /\ UNCHANGED <<run, mgrVars, prodVars, tasks, workVars, failures, delVars, disk, done,
                   crashes, faults>>

SaveDelayLists ==
    /\ \/ /\ saving = "src" /\ saving' = "dst"
          /\ snap' = [snap EXCEPT !.srcDelay = srcDelay]
       \/ /\ saving = "dst" /\ saving' = "write"
          /\ snap' = [snap EXCEPT !.dstDelay = dstDelay]
    /\ UNCHANGED <<run, copying, mgrVars, prodVars, tasks, workVars, failures, delVars, disk, done,
                   crashes, faults>>

\* the write replaces the file as a whole, or fails and leaves it
SaveWrite ==
    /\ saving = "write"
    /\ saving' = "idle" /\ copying' = {} /\ snap' = NoCheckpoint
    /\ \/ disk' = snap /\ UNCHANGED faults
       \/ faults < MaxFaults /\ faults' = faults + 1 /\ UNCHANGED disk
    /\ UNCHANGED <<run, mgrVars, prodVars, tasks, workVars, failures, delVars, done, crashes>>

-----------------------------------------------------------------------------
Init ==
    /\ run = "down"
    /\ ps = [p \in Prefix |-> NoState]
    /\ tracked = {} /\ restored = {} /\ reap = {}
    /\ toRestore = {} /\ spawned = {}
    /\ prod = [p \in Prefix |-> "none"] /\ by = [p \in Prefix |-> "none"]
    /\ seen = [p \in Prefix |-> 0] /\ pos = [p \in Prefix |-> 0]
    /\ resend = [p \in Prefix |-> {}]
    /\ tasks = {}
    /\ held = [w \in Worker |-> NoKey] /\ wst = [w \in Worker |-> "idle"]
    /\ failures = FALSE
    /\ srcDelay = {} /\ dstDelay = {} /\ swept = {}
    /\ saving = "idle" /\ copying = {} /\ snap = NoCheckpoint
    /\ disk = FirstCheckpoint
    /\ done = {k \in Key : Passed(FirstCheckpoint.state[Owner(k)], k)}
    /\ crashes = 0 /\ faults = 0

ProducerStep(p) ==
    \/ RestoreTop(p) \/ RestoreChild(p) \/ Resend(p) \/ Resent(p)
    \/ ListNext(p) \/ Produce(p) \/ SendTask(p) \/ AppendSrcDelay(p)
    \/ MarkListDone(p) \/ ProducerDone(p)

WorkerStep(w) == Fetch(w) \/ Copy(w) \/ MarkCompleted(w)

EndStep == CloseTasks \/ WorkersDone \/ DropCheckpoint \/ DelayedDelete
           \/ ExitFailed \/ ExitCompleted

SaveStep == SavePrefix \/ SaveDelayLists \/ SaveWrite

Fault == Crash \/ (\E p \in Prefix : ListFail(p)) \/ (\E w \in Worker : MarkFailed(w))

\* the job is over; nothing more happens
Over == run = "completed" /\ UNCHANGED vars

Next ==
    \/ Over \/ Start \/ EndStep \/ SaveBegin \/ SaveStep \/ Fault
    \/ \E p \in Prefix : ProducerStep(p) \/ ReapPrefix(p)
    \/ \E w \in Worker : WorkerStep(w)

Spec == Init /\ [][Next]_vars

\* Producers contend for the channel and for the lock of the map, which a save
\* takes again and again: Go queues senders and writers, so none waits for ever.
\* The operator starts the job again after a run that did not complete.
Fairness ==
    /\ WF_vars(Start) /\ SF_vars(EndStep) /\ WF_vars(SaveStep)
    /\ \A p \in Prefix : SF_vars(ProducerStep(p)) /\ SF_vars(ReapPrefix(p))
    /\ \A w \in Worker : SF_vars(WorkerStep(w))

FairSpec == Spec /\ Fairness

-----------------------------------------------------------------------------
(* Correctness.                                                            *)

Recordable == {k \in Key : Kind[k] \in {"send", "skip"}}

\* A prefix state never claims more than what happened: a key it counts as
\* listed, and neither pending nor failed, has been handled.  It holds of the
\* states in memory, of a snapshot being taken while producers and workers go
\* on, and of the file a later run resumes from.
StatesTruthful ==
    \A k \in Recordable :
        \A s \in {ps[Owner(k)], snap.state[Owner(k)], disk.state[Owner(k)]} :
            Passed(s, k) => k \in done

\* The run that reports success and deletes the checkpoint has handled every
\* key, however often the job was interrupted and resumed before.
NoKeyLost == run = "completed" => done = Key

\* a run that finds checkpoint c does not come to key k
Ignored(c, k) ==
    /\ Loadable(c)
    /\ c.state[Owner(k)].present => Passed(c.state[Owner(k)], k)
    /\ k \notin c.srcDelay \cup c.dstDelay

\* The checkpoint a failed run leaves at its exit makes the next run come back to
\* everything that is still to be done, delayed deletes that failed included.
ExitSnapshotComplete ==
    [][run = "sweeping" /\ run' = "down" /\ disk' # disk =>
         \A k \in Key : Ignored(disk', k) => k \in done]_vars

\* A prefix whose goroutine is about to list it, because its state is unknown
\* or new, is not being restored or listed by another goroutine.
OneLister ==
    \A p \in spawned :
        ~ps[p].present \/ ps[p].isNew =>
            prod[p] \notin {"list", "send", "append"} /\ resend[p] = {}

\* The hands a key is in: a producer's, the channel's, a worker's.
Hands(k) ==
    (IF k \in tasks THEN {"channel"} ELSE {})
    \cup {w \in Worker : held[w] = k}
    \cup {p \in Prefix : k \in resend[p]
                         \/ (prod[p] = "send" /\ Listing[p][pos[p] + 1] = k)}

\* A key is never queued twice, so no two workers copy it at the same time.
OneTaskPerKey == \A k \in Key : Cardinality(Hands(k)) <= 1

Job == INSTANCE SyncJob WITH handled <- done, over <- (run = "completed")

\* The job as its user sees it: keys become handled and stay so, the job ends
\* once, after all of them, and with finitely many faults it does end.
JobSpec == Job!FairSpec
=============================================================================
