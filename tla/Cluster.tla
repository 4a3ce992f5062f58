------------------------------- MODULE Cluster -------------------------------
(***************************************************************************)
(* A sync job spread over processes (pkg/sync/cluster.go): the manager     *)
(* lists the objects into its channel; its own workers and the processes   *)
(* on other hosts take tasks from there, the latter through the handler    *)
(* /fetch.  Each remote process reports what it did to /stats, by a ticker *)
(* and once more before it exits: counters, the keys its workers completed *)
(* or failed, and the directories to delete in the end.  When all have     *)
(* left the manager compares what it counted with what it listed, and      *)
(* drops the checkpoint or keeps it for another run.                       *)
(*                                                                         *)
(* Requests and answers may be lost, and a remote process may die.         *)
(***************************************************************************)
EXTENDS Naturals, FiniteSets, Sequences, SequencesExt

CONSTANTS
    Key,          \* the objects of the source
    Dir,          \* those that are directories
    Host,         \* the remote processes
    Modes,        \* whether --delete-src-after is given: a set of Booleans
    MaxTrouble,   \* bound: messages lost and processes that die
    MaxFaults     \* bound: tasks that fail

ASSUME ClusterAssumption ==
    /\ IsFiniteSet(Key) /\ Dir \subseteq Key /\ Modes \subseteq BOOLEAN
    /\ MaxTrouble \in Nat /\ MaxFaults \in Nat

Manager == "manager"
Nobody == "nobody"
Gone == "gone"       \* the source: the object was not there any more
ASSUME HostAssumption == Manager \notin Host /\ Nobody \notin Host /\ Gone \notin Host

VARIABLES
    deleteSrcAfter,
    unlisted,   \* keys the producer has not sent yet
    queue,      \* the channel tasks of the manager
    owed,       \* keys the checkpoint has as pending or failed
    handled, failed,  \* the counters of the manager
    delayDel,   \* its srcDelayDel, a slice: a directory may be in it more than once
    outcome,    \* how the job ended
    alive,      \* a remote process: up, reporting (its last report), ending (it looks
                \* whether it has another), gone or dead
    fetch,      \* its /fetch: asked, answered or done
    answer,     \* the tasks in the answer
    inbox,      \* the tasks it has fetched
    task,       \* the task its worker has counted and not tracked yet
    count,      \* its counters
    done, bad, dirs,  \* completedKeysBuf, failedKeysBuf, srcDelayDel
    report,     \* the report it has sent, or that was applied
    orphans,    \* handlers of /fetch whose client is gone
    doneBy,     \* who handled a key successfully, or that it had gone
    trouble, faults

managerVars == <<unlisted, queue, owed, handled, failed, delayDel, outcome>>
fetchVars == <<fetch, answer, inbox>>
workVars == <<task, count, done, bad, dirs>>
hostVars == <<alive, fetchVars, workVars, report>>
vars == <<deleteSrcAfter, managerVars, hostVars, orphans, doneBy, trouble, faults>>

Zero == [ok |-> 0, bad |-> 0]
NoReport == [stage |-> "none", count |-> Zero, done |-> {}, bad |-> {}, dirs |-> {}]
NoTask == [key |-> Nobody, ok |-> FALSE]
Most == 2 * Cardinality(Key)
Counters == [ok : 0..Most, bad : 0..Most]

TypeOK ==
    /\ deleteSrcAfter \in Modes
    /\ unlisted \subseteq Key /\ queue \subseteq Key
    /\ owed \subseteq Key /\ handled \in Nat /\ failed \in Nat
    /\ delayDel \in Seq(Dir) /\ outcome \in {"running", "completed", "failed"}
    /\ alive \in [Host -> {"up", "reporting", "ending", "gone", "dead"}]
    /\ fetch \in [Host -> {"asked", "answered", "done"}]
    /\ answer \in [Host -> SUBSET Key] /\ inbox \in [Host -> SUBSET Key]
    /\ task \in [Host -> [key : Key \cup {Nobody}, ok : BOOLEAN]]
    /\ count \in [Host -> Counters]
    /\ done \in [Host -> SUBSET Key] /\ bad \in [Host -> SUBSET Key]
    /\ dirs \in [Host -> SUBSET Dir]
    /\ report \in [Host -> [stage : {"none", "sent", "applied"}, count : Counters,
                            done : SUBSET Key, bad : SUBSET Key, dirs : SUBSET Dir]]
    /\ orphans \in Nat /\ doneBy \in [Key -> Host \cup {Manager, Nobody, Gone}]
    /\ trouble \in 0..MaxTrouble /\ faults \in 0..MaxFaults

\* bug: the failed objects are taken off the copied ones as well
LessHandled(c, d) == [ok |-> c.ok - d.ok - d.bad, bad |-> c.bad - d.bad]

Less(c, d) == [ok |-> c.ok - d.ok, bad |-> c.bad - d.bad]

Running(h) == alive[h] \in {"up", "reporting", "ending"}
Trouble == trouble < MaxTrouble /\ trouble' = trouble + 1
Fault == faults < MaxFaults /\ faults' = faults + 1

-----------------------------------------------------------------------------
(* The manager.                                                            *)

\* produce: the key becomes pending and goes into the channel, which is closed after
\* the last one
List(k) ==
    /\ k \in unlisted
    /\ unlisted' = unlisted \ {k}
    /\ queue' = queue \cup {k} /\ owed' = owed \cup {k}
    /\ UNCHANGED <<deleteSrcAfter, handled, failed, delayDel, outcome, hostVars, orphans, doneBy,
                   trouble, faults>>

Closed == unlisted = {}

Delays(k) == deleteSrcAfter /\ k \in Dir

\* a worker of the manager counts a task once, whatever becomes of it; an object that is
\* gone from the source has failed, and is struck out all the same
OwnWork(k) ==
    /\ k \in queue /\ queue' = queue \ {k}
    /\ handled' = handled + 1
    /\ \/ /\ owed' = owed \ {k} /\ doneBy' = [doneBy EXCEPT ![k] = Manager]
          /\ delayDel' = IF Delays(k) THEN Append(delayDel, k) ELSE delayDel
          /\ UNCHANGED <<failed, faults>>
       \/ /\ Fault /\ failed' = failed + 1
          /\ \/ UNCHANGED <<owed, doneBy>>
             \/ owed' = owed \ {k} /\ doneBy' = [doneBy EXCEPT ![k] = Gone]
          /\ UNCHANGED delayDel
    /\ UNCHANGED <<deleteSrcAfter, unlisted, outcome, hostVars, orphans, trouble>>

\* the channel of a remote process holds one task: it asks when it has no more
Asks(h) == alive[h] = "up" /\ Cardinality(inbox[h]) <= 1

\* bug: /fetch waits on, though the channel is closed
AnswerWaits(h) ==
    /\ fetch[h] = "asked" /\ Asks(h)
    /\ \E batch \in SUBSET queue \ {{}} :
          queue' = queue \ batch /\ answer' = [answer EXCEPT ![h] = batch]
    /\ fetch' = [fetch EXCEPT ![h] = "answered"]
    /\ UNCHANGED <<deleteSrcAfter, unlisted, owed, handled, failed, delayDel, outcome, alive, inbox,
                   workVars, report, orphans, doneBy, trouble, faults>>

\* /fetch waits for a first task and takes what else is there, up to a hundred objects
\* or some bytes, off the channel; of a closed channel it answers []
Answer(h) ==
    /\ fetch[h] = "asked" /\ Asks(h)
    /\ \/ \E batch \in SUBSET queue \ {{}} :
             queue' = queue \ batch /\ answer' = [answer EXCEPT ![h] = batch]
       \/ queue = {} /\ Closed /\ answer' = [answer EXCEPT ![h] = {}] /\ UNCHANGED queue
    /\ fetch' = [fetch EXCEPT ![h] = "answered"]
    /\ UNCHANGED <<deleteSrcAfter, unlisted, owed, handled, failed, delayDel, outcome, alive, inbox,
                   workVars, report, orphans, doneBy, trouble, faults>>

\* the handler of a client that is gone takes tasks all the same
AnswerNobody ==
    /\ orphans > 0 /\ orphans' = orphans - 1
    /\ \/ \E batch \in SUBSET queue \ {{}} : queue' = queue \ batch
       \/ queue = {} /\ Closed /\ UNCHANGED queue
    /\ UNCHANGED <<deleteSrcAfter, unlisted, owed, handled, failed, delayDel, outcome, hostVars, doneBy,
                   trouble, faults>>

\* bug: the failed keys of a report are taken for completed ones
ApplyAll(h) ==
    /\ report[h].stage = "sent"
    /\ handled' = handled + report[h].count.ok + report[h].count.bad
    /\ failed' = failed + report[h].count.bad
    /\ \E s \in SetToSeqs(report[h].dirs) : delayDel' = delayDel \o s
    /\ owed' = owed \ (report[h].done \cup report[h].bad)
    /\ report' = [report EXCEPT ![h].stage = "applied"]
    /\ UNCHANGED <<deleteSrcAfter, unlisted, queue, outcome, alive, fetchVars, workVars, orphans, doneBy,
                   trouble, faults>>

\* /stats: updateStats, the directories, MarkCompleted; a failed key stays owed
Apply(h) ==
    /\ report[h].stage = "sent"
    /\ handled' = handled + report[h].count.ok + report[h].count.bad
    /\ failed' = failed + report[h].count.bad
    /\ \E s \in SetToSeqs(report[h].dirs) : delayDel' = delayDel \o s
    /\ owed' = owed \ report[h].done
    /\ report' = [report EXCEPT ![h].stage = "applied"]
    /\ UNCHANGED <<deleteSrcAfter, unlisted, queue, outcome, alive, fetchVars, workVars, orphans, doneBy,
                   trouble, faults>>

\* the delayed deletes count as handled, once for each entry
Entries == Len(delayDel)

\* bug: what is missing from the total does not make the job fail
EndJobFailedOnly ==
    /\ outcome = "running" /\ Closed /\ queue = {}
    /\ \A h \in Host : ~Running(h)
    /\ handled' = handled + Entries
    /\ outcome' = IF failed > 0 THEN "failed" ELSE "completed"
    /\ UNCHANGED <<deleteSrcAfter, unlisted, queue, owed, failed, delayDel, hostVars, orphans, doneBy,
                   trouble, faults>>

\* all workers, own and remote, are done: syncExitFunc
EndJob ==
    /\ outcome = "running" /\ Closed /\ queue = {}
    /\ \A h \in Host : ~Running(h)
    /\ handled' = handled + Entries
    /\ outcome' = IF failed > 0 \/ Cardinality(Key) > handled + Entries THEN "failed" ELSE "completed"
    /\ UNCHANGED <<deleteSrcAfter, unlisted, queue, owed, failed, delayDel, hostVars, orphans, doneBy,
                   trouble, faults>>

-----------------------------------------------------------------------------
(* fetchJobs and the worker of a remote process.                           *)

Receive(h) ==
    /\ alive[h] = "up" /\ fetch[h] = "answered"
    /\ fetch' = [fetch EXCEPT ![h] = IF answer[h] = {} THEN "done" ELSE "asked"]
    /\ inbox' = [inbox EXCEPT ![h] = @ \cup answer[h]]
    /\ answer' = [answer EXCEPT ![h] = {}]
    /\ UNCHANGED <<deleteSrcAfter, managerVars, alive, workVars, report, orphans, doneBy, trouble, faults>>

\* the connection breaks: before the handler ran, while it waits, or with the answer
LoseFetch(h) ==
    /\ alive[h] = "up" /\ fetch[h] \in {"asked", "answered"} /\ Trouble
    /\ fetch' = [fetch EXCEPT ![h] = "asked"]
    /\ answer' = [answer EXCEPT ![h] = {}]
    /\ orphans' \in IF fetch[h] = "asked" /\ Asks(h) THEN {orphans, orphans + 1} ELSE {orphans}
    /\ UNCHANGED <<deleteSrcAfter, managerVars, alive, inbox, workVars, report, doneBy, faults>>

\* a copied object whose source is deleted next is counted in copied and in deleted; one
\* that is gone from the source has failed, and is tracked as if it had not
Work(h, k) ==
    /\ alive[h] = "up" /\ k \in inbox[h] /\ task[h] = NoTask
    /\ inbox' = [inbox EXCEPT ![h] = @ \ {k}]
    /\ \/ /\ task' = [task EXCEPT ![h] = [key |-> k, ok |-> TRUE]]
          /\ count' = [count EXCEPT ![h].ok = @ + IF deleteSrcAfter /\ k \notin Dir THEN 2 ELSE 1]
          /\ dirs' = IF Delays(k) THEN [dirs EXCEPT ![h] = @ \cup {k}] ELSE dirs
          /\ doneBy' = [doneBy EXCEPT ![k] = h]
          /\ UNCHANGED faults
       \/ /\ Fault /\ count' = [count EXCEPT ![h].bad = @ + 1]
          /\ \/ task' = [task EXCEPT ![h] = [key |-> k, ok |-> FALSE]] /\ UNCHANGED doneBy
             \/ /\ task' = [task EXCEPT ![h] = [key |-> k, ok |-> TRUE]]
                /\ doneBy' = [doneBy EXCEPT ![k] = Gone]
          /\ UNCHANGED dirs
    /\ UNCHANGED <<deleteSrcAfter, managerVars, alive, fetch, answer, done, bad, report, orphans, trouble>>

\* trackCheckpointCompletion
Track(h) ==
    /\ alive[h] = "up" /\ task[h] # NoTask
    /\ IF task[h].ok THEN done' = [done EXCEPT ![h] = @ \cup {task[h].key}] /\ UNCHANGED bad
       ELSE bad' = [bad EXCEPT ![h] = @ \cup {task[h].key}] /\ UNCHANGED done
    /\ task' = [task EXCEPT ![h] = NoTask]
    /\ UNCHANGED <<deleteSrcAfter, managerVars, alive, fetchVars, count, dirs, report, orphans, doneBy, trouble,
                   faults>>

-----------------------------------------------------------------------------
(* sendStats, one at a time.                                               *)

\* the counters are copied, the keys and directories taken out of their buffers
Stats(h) == [stage |-> "sent", count |-> count[h], done |-> done[h], bad |-> bad[h],
             dirs |-> dirs[h]]

Send(h) ==
    /\ report' = [report EXCEPT ![h] = Stats(h)]
    /\ done' = [done EXCEPT ![h] = {}] /\ bad' = [bad EXCEPT ![h] = {}]
    /\ dirs' = [dirs EXCEPT ![h] = {}]

\* by the ticker, until the process is gone; a report of nothing changes nothing
SendStats(h) ==
    /\ Running(h) /\ report[h].stage = "none"
    /\ count[h] # Zero \/ done[h] \cup bad[h] # {}
    /\ Send(h)
    /\ UNCHANGED <<deleteSrcAfter, managerVars, alive, fetchVars, task, count, orphans, doneBy,
                   trouble, faults>>

\* whoever sent the report goes on
Answered(h) ==
    /\ report' = [report EXCEPT ![h] = NoReport]
    /\ alive' = IF alive[h] = "reporting" THEN [alive EXCEPT ![h] = "ending"] ELSE alive

\* OK: what was reported is subtracted
Acknowledge(h) ==
    /\ Running(h) /\ report[h].stage = "applied" /\ Answered(h)
    /\ count' = [count EXCEPT ![h] = Less(@, report[h].count)]
    /\ UNCHANGED <<deleteSrcAfter, managerVars, fetchVars, task, done, bad, dirs, orphans,
                   doneBy, trouble, faults>>

\* bug: what a lost report had is not put back
LoseReportForget(h) ==
    /\ Running(h) /\ report[h].stage \in {"sent", "applied"} /\ Trouble /\ Answered(h)
    /\ UNCHANGED <<deleteSrcAfter, managerVars, fetchVars, workVars, orphans, doneBy, faults>>

\* the report or its answer is lost: everything is put back
LoseReport(h) ==
    /\ Running(h) /\ report[h].stage \in {"sent", "applied"} /\ Trouble /\ Answered(h)
    /\ done' = [done EXCEPT ![h] = @ \cup report[h].done]
    /\ bad' = [bad EXCEPT ![h] = @ \cup report[h].bad]
    /\ dirs' = [dirs EXCEPT ![h] = @ \cup report[h].dirs]
    /\ UNCHANGED <<deleteSrcAfter, managerVars, fetchVars, task, count, orphans, doneBy, faults>>

\* its workers are done: a last report, and another while it sees directories to report
LastReport(h) ==
    /\ alive[h] = "up" \/ (alive[h] = "ending" /\ dirs[h] # {})
    /\ fetch[h] = "done" /\ inbox[h] = {} /\ task[h] = NoTask
    /\ report[h].stage = "none"
    /\ alive' = [alive EXCEPT ![h] = "reporting"]
    /\ Send(h)
    /\ UNCHANGED <<deleteSrcAfter, managerVars, fetchVars, task, count, orphans, doneBy, trouble,
                   faults>>

\* a report that a process leaves under way may arrive, in time or not
LeaveReport(h) == report' = [report EXCEPT ![h] = IF @.stage = "sent" THEN @ ELSE NoReport]

\* it sees none: the process ends, whatever report of the ticker is under way
Exit(h) ==
    /\ alive[h] = "ending" /\ dirs[h] = {}
    /\ alive' = [alive EXCEPT ![h] = "gone"]
    /\ LeaveReport(h)
    /\ UNCHANGED <<deleteSrcAfter, managerVars, fetchVars, workVars, orphans, doneBy, trouble,
                   faults>>

\* the process dies, or could not be launched
Die(h) ==
    /\ Running(h) /\ Trouble
    /\ alive' = [alive EXCEPT ![h] = "dead"]
    /\ LeaveReport(h)
    /\ orphans' \in IF fetch[h] = "asked" /\ Asks(h) THEN {orphans, orphans + 1} ELSE {orphans}
    /\ fetch' = [fetch EXCEPT ![h] = "done"]
    /\ answer' = [answer EXCEPT ![h] = {}] /\ inbox' = [inbox EXCEPT ![h] = {}]
    /\ task' = [task EXCEPT ![h] = NoTask] /\ count' = [count EXCEPT ![h] = Zero]
    /\ done' = [done EXCEPT ![h] = {}] /\ bad' = [bad EXCEPT ![h] = {}]
    /\ dirs' = [dirs EXCEPT ![h] = {}]
    /\ UNCHANGED <<deleteSrcAfter, managerVars, doneBy, faults>>

-----------------------------------------------------------------------------
Init ==
    /\ deleteSrcAfter \in Modes
    /\ unlisted = Key /\ queue = {} /\ owed = {}
    /\ handled = 0 /\ failed = 0 /\ delayDel = <<>> /\ outcome = "running"
    /\ alive = [h \in Host |-> "up"] /\ fetch = [h \in Host |-> "asked"]
    /\ answer = [h \in Host |-> {}] /\ inbox = [h \in Host |-> {}]
    /\ task = [h \in Host |-> NoTask] /\ count = [h \in Host |-> Zero]
    /\ done = [h \in Host |-> {}] /\ bad = [h \in Host |-> {}] /\ dirs = [h \in Host |-> {}]
    /\ report = [h \in Host |-> NoReport]
    /\ orphans = 0 /\ doneBy = [k \in Key |-> Nobody] /\ trouble = 0 /\ faults = 0

ManagerStep == EndJob \/ \E k \in Key : List(k) \/ OwnWork(k)

FetchStep(h) == Answer(h) \/ Receive(h)
WorkStep(h) == Track(h) \/ \E k \in Key : Work(h, k)
ReportStep(h) == Apply(h) \/ Acknowledge(h) \/ LastReport(h) \/ Exit(h)

Next ==
    \/ ManagerStep \/ AnswerNobody
    \/ \E h \in Host : FetchStep(h) \/ WorkStep(h) \/ ReportStep(h)
    \/ \E h \in Host : SendStats(h) \/ LoseFetch(h) \/ LoseReport(h) \/ Die(h)

\* While a goroutine can run one runs, and a message that is not lost arrives; the
\* ticker is not assumed to tick.
System == ManagerStep \/ \E h \in Host : FetchStep(h) \/ WorkStep(h) \/ ReportStep(h)
Fairness == WF_vars(System)

Spec == Init /\ [][Next]_vars
FairSpec == Spec /\ Fairness

-----------------------------------------------------------------------------
\* Whatever is lost, whoever dies: a key that nobody handled is one the checkpoint still
\* has, so the next run comes back to it; reports that are put back, repeated or come
\* late never strike out a key that failed or was not tried.
OwedUntilDone ==
    \A k \in Key \ unlisted : doneBy[k] = Nobody => k \in owed

\* A job that ends as completed, and so drops its checkpoint, has handled every object,
\* though an answer with tasks was lost or a process died with tasks in hand.
LossIsFailure == outcome = "completed" => \A k \in Key : doneBy[k] # Nobody

\* So it is without --delete-src-after, if one thing goes wrong: a lost task is not made
\* up for by a report that was counted twice, for that would take another loss.
OneLossIsFailure == ~deleteSrcAfter => LossIsFailure

\* d was handled, and its deletion put off, by a process that did not die
PutOff(d) == doneBy[d] = Manager \/ \E h \in Host : doneBy[d] = h /\ alive[h] # "dead"

\* A directory whose deletion was put off by a process that did not die is deleted in the
\* end, though a report with it was lost: the list travels at least once, or is in a report
\* of the ticker that the process did not wait for when it left.
DelayedReported ==
    outcome # "running" /\ deleteSrcAfter =>
        \A d \in Dir : PutOff(d) =>
            \/ d \in ToSet(delayDel)
            \/ \E h \in Host :
                  alive[h] = "gone" /\ report[h].stage = "sent" /\ d \in report[h].dirs

\* A job that ends as completed has deleted every such directory.
DelayedDeleted ==
    outcome = "completed" /\ deleteSrcAfter =>
        \A d \in Dir : PutOff(d) => d \in ToSet(delayDel)

\* The job ends: every process learns that there are no more tasks, reports and leaves.
ClusterEnds == <>(outcome # "running")
=============================================================================
