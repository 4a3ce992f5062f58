------------------------------- MODULE JobExit -------------------------------
(***************************************************************************)
(* How a sync process ends (syncExitFunc, the --max-failure goroutine and  *)
(* the defers of Sync, pkg/sync/sync.go; SaveOnSignal, checkpoint.go).     *)
(* Three threads may end it: main when all tasks are handled, maxfail when *)
(* too many failed, signal on SIGINT or SIGTERM; the last two while the    *)
(* workers go on.  Each closes the asynchronous job records (AsyncDb) and  *)
(* the gate buffer (GateBuffer), ends the job's row and saves or deletes   *)
(* the checkpoint file, in an order of its own.  A failed listing makes    *)
(* main leave without most of that.                                        *)
(***************************************************************************)
EXTENDS AsyncDb

CONSTANTS
    Key, Limit, MaxAdds,  \* of the gate buffer
    MaxExits              \* bound: threads that begin to end the process

VARIABLES
    gBatch, gSize, gSignal, gWriting, gClosed, gDone, gStopped, gCloser, gAdded,
    gTable, gLost,   \* the gate buffer
    working,   \* workers run
    failures,  \* failed.Current() > 0
    pc,        \* what a thread does next
    row,       \* the row of the job: running, completed, failed
    file,      \* the checkpoint file exists
    code       \* how the process will exit: none, ok, error, signal

Thread == {"main", "maxfail", "signal"}

ASSUME ThreadAssumption == Closer = Thread /\ MaxAdds \in Nat /\ MaxExits \in Nat

GateBuf == INSTANCE GateBuffer WITH
    Closer <- Thread, batch <- gBatch, size <- gSize, signal <- gSignal,
    writing <- gWriting, closed <- gClosed, done <- gDone, stopped <- gStopped,
    closer <- gCloser, added <- gAdded, table <- gTable, lost <- gLost

gateVars == <<gBatch, gSize, gSignal, gWriting, gClosed, gDone, gStopped, gCloser,
              gAdded, gTable, gLost>>
dbVars == <<ch, batch, flushRetries, worker, writing, closed, closer, calls, accepted,
            table, dropped, unanswered>>
jobVars == <<working, failures, pc, row, file, code>>
exitVars == <<vars, gateVars, jobVars>>

JobTypeOK ==
    /\ TypeOK /\ GateBuf!TypeOK
    /\ working \in BOOLEAN /\ failures \in BOOLEAN /\ file \in BOOLEAN
    /\ pc \in [Thread -> {"idle", "saveFirst", "closeDb", "endJob", "settle",
                          "closeGate", "exit"}]
    /\ row \in {"running", "completed", "failed"}
    /\ code \in {"none", "ok", "error", "signal"}

-----------------------------------------------------------------------------
\* a worker, or produce for a key it skips, reports to both
Report ==
    /\ working
    /\ \/ (\E r \in Record : RecordObject(r)) /\ UNCHANGED <<gateVars, failures>>
       \/ /\ \E k \in Key : GateBuf!Add(k)
          /\ failures' \in {failures, TRUE}
          /\ UNCHANGED dbVars
    /\ UNCHANGED <<working, pc, row, file, code>>

\* the goroutines of the two services
DbStep == WorkerStep /\ UNCHANGED <<gateVars, jobVars>>

GateStep ==
    /\ \/ GateBuf!PeriodicTake \/ GateBuf!PeriodicIdle \/ GateBuf!PeriodicStop
       \/ \E t \in GateBuf!Flusher : GateBuf!WriteEnds(t)
    /\ UNCHANGED <<dbVars, jobVars>>

Goto(t, l) == pc' = [pc EXCEPT ![t] = l]

Exiting == {t \in Thread : pc[t] # "idle"}

\* wg.Wait returned, or 100 ms after too many failures, or a signal
BeginExit(t) ==
    /\ up /\ pc[t] = "idle"
    /\ Cardinality(Exiting) < MaxExits
    /\ \/ t = "main" /\ working /\ working' = FALSE /\ Goto(t, "closeDb")
       \/ t = "maxfail" /\ working /\ failures /\ Goto(t, "closeDb") /\ UNCHANGED working
       \/ t = "signal" /\ Goto(t, "saveFirst") /\ UNCHANGED working
    /\ UNCHANGED <<vars, gateVars, failures, row, file, code>>

\* the producer of Sync fails: Sync returns at once, the workers go on, and only
\* the deferred close of the gate buffer is left
ListingFails ==
    /\ up /\ pc["main"] = "idle" /\ working
    /\ Cardinality(Exiting) < MaxExits
    /\ code' = "error" /\ Goto("main", "closeGate")
    /\ UNCHANGED <<vars, gateVars, working, failures, row, file>>

SaveOnSignal ==
    /\ up /\ pc["signal"] = "saveFirst"
    /\ file' \in {TRUE, file}
    /\ Goto("signal", "closeDb")
    /\ UNCHANGED <<vars, gateVars, working, failures, row, code>>

\* bug: Close is called and not waited for
CloseDbNoWait(t) ==
    /\ up /\ pc[t] = "closeDb"
    /\ Close(t) /\ Goto(t, "endJob")
    /\ UNCHANGED <<gateVars, working, failures, row, file, code>>

\* the rows that syncExitFunc writes just before for lost objects, in a request of their own
\* past the batch, are left out
CloseDb(t) ==
    /\ up /\ pc[t] = "closeDb"
    /\ \/ Close(t) /\ UNCHANGED pc
       \/ CloseReturn(t) /\ UNCHANGED pc
       \/ closer[t] = "returned" /\ Goto(t, "endJob") /\ UNCHANGED vars
    /\ UNCHANGED <<gateVars, working, failures, row, file, code>>

\* bug: objects still in flight do not fail the job
EndJobInFlight(t) ==
    /\ up /\ pc[t] = "endJob"
    /\ row' = IF failures THEN "failed" ELSE "completed"
    /\ Goto(t, IF t = "signal" THEN "closeGate" ELSE "settle")
    /\ UNCHANGED <<vars, gateVars, working, failures, file, code>>

\* EndJob, whose own failure is ignored; objects still in flight count as lost
\* and fail the job
EndJob(t) ==
    /\ up /\ pc[t] = "endJob"
    /\ \/ row' = IF failures \/ working \/ t = "signal" THEN "failed" ELSE "completed"
       \/ UNCHANGED row
    /\ Goto(t, IF t = "signal" THEN "closeGate" ELSE "settle")
    /\ UNCHANGED <<vars, gateVars, working, failures, file, code>>

\* the checkpoint is saved after a failure and deleted otherwise, if the storage
\* does as told; the goroutine of --max-failure then calls os.Exit, main returns
SettleCheckpoint(t) ==
    /\ up /\ pc[t] = "settle"
    /\ file' \in {failures \/ working, file}
    /\ Goto(t, IF t = "maxfail" THEN "exit" ELSE "closeGate")
    /\ code' = IF failures \/ working THEN "error" ELSE "ok"
    /\ UNCHANGED <<vars, gateVars, working, failures, row>>

CloseGate(t) ==
    /\ up /\ pc[t] = "closeGate"
    /\ \/ /\ \/ GateBuf!CloseBegin(t) \/ GateBuf!CloseDone(t)
             \/ GateBuf!CloseFlush(t) \/ GateBuf!CloseReturn(t)
          /\ UNCHANGED <<dbVars, jobVars>>
       \/ /\ gCloser[t] = "returned"
          /\ Goto(t, "exit")
          /\ UNCHANGED <<vars, gateVars, working, failures, row, file, code>>

ExitProcess(t) ==
    /\ up /\ pc[t] = "exit"
    /\ up' = FALSE
    /\ code' = CASE t = "signal" -> "signal"
                 [] t = "maxfail" -> "error"
                 [] t = "main" -> code
    /\ UNCHANGED <<dbVars, gateVars, working, failures, pc, row, file>>

-----------------------------------------------------------------------------
JobInit ==
    /\ Init /\ GateBuf!Init
    /\ working = TRUE /\ failures = FALSE
    /\ pc = [t \in Thread |-> "idle"]
    /\ row = "running" /\ file = TRUE /\ code = "none"

ExitStep(t) ==
    CloseDb(t) \/ EndJob(t) \/ SettleCheckpoint(t) \/ CloseGate(t) \/ ExitProcess(t)

Gone == ~up /\ UNCHANGED exitVars

JobNext ==
    \/ Gone \/ Report \/ DbStep \/ GateStep \/ SaveOnSignal \/ ListingFails
    \/ \E t \in Thread : BeginExit(t) \/ ExitStep(t)

JobSpec == JobInit /\ [][JobNext]_exitVars

\* The goroutines of the services run, their selects come round to done, and some
\* thread that ends the process goes on.
JobFairness ==
    /\ WF_exitVars(DbStep) /\ SF_exitVars(Done /\ UNCHANGED <<gateVars, jobVars>>)
    /\ WF_exitVars(GateStep)
    /\ SF_exitVars(GateBuf!PeriodicStop /\ UNCHANGED <<dbVars, jobVars>>)
    /\ WF_exitVars(SaveOnSignal \/ \E t \in Thread : ExitStep(t))

FairJobSpec == JobSpec /\ JobFairness

-----------------------------------------------------------------------------
(* Correctness.                                                            *)

\* The exit code, the row of the job and the checkpoint file do not contradict
\* each other: only a success is recorded as completed, and only a success may
\* take the checkpoint away.
OutcomesAgree ==
    ~up => /\ row = "completed" => code = "ok"
           /\ row = "failed" => code # "ok"
           /\ ~file => code = "ok"

\* Once somebody has begun to end the process it ends, even if every write to the database
\* fails.  (Nobody who has begun goes back, so this is Exiting # {} ~> ~up.)
ExitTerminates == []<>(Exiting = {} \/ ~up)

\* However the process ends, the job records are handled as AsyncDb says.
DbSpec == Spec

\* The rows of the gate table never go back to an older record.
GateRowsAdvance == GateBuf!RowsAdvance
=============================================================================
