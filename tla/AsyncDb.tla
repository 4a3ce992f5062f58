------------------------------- MODULE AsyncDb -------------------------------
(***************************************************************************)
(* AsyncDbService (pkg/sync/db/db.go): workers of the sync hand the record *)
(* of each object to a channel without waiting, one goroutine batches the  *)
(* records and writes each batch in one transaction.  Close makes it drain *)
(* the channel and write what is left; whoever called Close then ends the  *)
(* process: Sync at its end (syncExitFunc), or SaveOnSignal.  A Sync that  *)
(* returns early ends it without.                                          *)
(*                                                                         *)
(* Channel and batch are the sequences of the code, records are model      *)
(* values recorded once each.  The select of the worker is free to take    *)
(* any ready case, and a tick may come at any time.                        *)
(***************************************************************************)
EXTENDS Naturals, Sequences, FiniteSets

CONSTANTS
    Record,       \* the records the sync makes
    Closer,       \* who calls Close and then ends the process
    ChannelSize,  \* channelSize, 50000
    BatchSize     \* batchSize, 2000

ASSUME SizeAssumption ==
    ChannelSize \in Nat \ {0} /\ BatchSize \in Nat \ {0}

MaxRetries == 3   \* flushBatch gives up at the third failure

VARIABLES
    ch, batch,     \* the channel; the batch of the worker
    flushRetries,  \* failures of RecordObjects since the last success or drop
    worker,        \* the worker: select, draining, final, stopped
    writing,       \* RecordObjects is running
    closed,        \* Close was called
    closer,        \* each caller of Close: idle, waiting for the worker, returned
    up,            \* the process runs
    calls,         \* records for which RecordObject was called
    accepted,      \* history: those it returned nil for
    table,         \* the rows of the table, one transaction after the other
    dropped,       \* history: records thrown away by flushBatch
    unanswered     \* history: records whose commit took place though it failed

chVars == <<calls, accepted>>
flushVars == <<flushRetries, table, dropped, unanswered>>
endVars == <<closed, closer, up>>
vars == <<ch, batch, flushRetries, worker, writing, closed, closer, up, calls,
          accepted, table, dropped, unanswered>>

Elements(s) == {s[i] : i \in DOMAIN s}

TypeOK ==
    /\ ch \in Seq(Record) /\ Len(ch) <= ChannelSize
    /\ batch \in Seq(Record)
    /\ flushRetries \in 0 .. MaxRetries - 1
    /\ worker \in {"select", "draining", "final", "stopped"}
    /\ writing \in BOOLEAN
    /\ closed \in BOOLEAN
    /\ closer \in [Closer -> {"idle", "waiting", "returned"}]
    /\ up \in BOOLEAN
    /\ calls \subseteq Record /\ accepted \subseteq Record
    /\ table \in Seq(Record)
    /\ dropped \subseteq Record /\ unanswered \subseteq Record

-----------------------------------------------------------------------------
\* RecordObject: the check of closed and the send are under one lock; the
\* caller is told when the record was dropped
RecordObject(r) ==
    /\ up /\ r \notin calls
    /\ calls' = calls \cup {r}
    /\ IF ~closed /\ Len(ch) < ChannelSize
       THEN ch' = Append(ch, r) /\ accepted' = accepted \cup {r}
       ELSE UNCHANGED <<ch, accepted>>
    /\ UNCHANGED <<batch, worker, writing, flushVars, endVars>>

\* the batch is written when it is full, in the select loop and when draining;
\* a batch that failed is kept, so any further record makes it full again
Receive ==
    /\ up /\ worker \in {"select", "draining"} /\ ~writing
    /\ ch # <<>>
    /\ batch' = Append(batch, Head(ch))
    /\ ch' = Tail(ch)
    /\ writing' = (Len(batch') >= BatchSize)
    /\ UNCHANGED <<worker, chVars, flushVars, endVars>>

Tick ==
    /\ up /\ worker = "select" /\ ~writing
    /\ batch # <<>>
    /\ writing' = TRUE
    /\ UNCHANGED <<ch, batch, worker, chVars, flushVars, endVars>>

\* the worker learns of the close at its next select, whatever is in the channel
Done ==
    /\ up /\ worker = "select" /\ ~writing
    /\ closed
    /\ worker' = "draining"
    /\ UNCHANGED <<ch, batch, writing, chVars, flushVars, endVars>>

\* bug: the rest of the batch is tried once
DrainedOnce ==
    /\ up /\ worker \in {"draining", "final"} /\ ~writing
    /\ worker = "draining" => ch = <<>>
    /\ IF batch # <<>> /\ worker = "draining"
       THEN worker' = "final" /\ writing' = TRUE
       ELSE worker' = "stopped" /\ UNCHANGED writing
    /\ UNCHANGED <<ch, batch, chVars, flushVars, endVars>>

\* the channel is empty: write the batch until it is written or dropped
Drained ==
    /\ up /\ worker \in {"draining", "final"} /\ ~writing
    /\ worker = "draining" => ch = <<>>
    /\ IF batch # <<>>
       THEN worker' = "final" /\ writing' = TRUE
       ELSE worker' = "stopped" /\ UNCHANGED writing
    /\ UNCHANGED <<ch, batch, chVars, flushVars, endVars>>

\* RecordObjects commits all rows of the batch in one transaction
FlushSucceeds ==
    /\ up /\ writing /\ writing' = FALSE
    /\ table' = table \o batch
    /\ batch' = <<>>
    /\ flushRetries' = 0
    /\ UNCHANGED <<ch, worker, dropped, unanswered, chVars, endVars>>

\* bug: the count of failures goes on after the batch was dropped
RetryOrDropOn ==
    /\ flushRetries' = flushRetries + 1
    /\ IF flushRetries + 1 >= MaxRetries
       THEN dropped' = dropped \cup Elements(batch) /\ batch' = <<>>
       ELSE UNCHANGED <<dropped, batch>>

\* bug: the batch is kept however often it fails
RetryOrDropNever ==
    /\ flushRetries' = (flushRetries + 1) % MaxRetries
    /\ UNCHANGED <<batch, dropped>>

\* a batch that failed is kept twice and dropped the third time
RetryOrDrop ==
    IF flushRetries + 1 >= MaxRetries
    THEN /\ dropped' = dropped \cup Elements(batch)
         /\ batch' = <<>>
         /\ flushRetries' = 0
    ELSE /\ flushRetries' = flushRetries + 1
         /\ UNCHANGED <<dropped, batch>>

\* bug: the rows of the failed batch stay in the table
FlushFailsPartly ==
    /\ up /\ writing /\ writing' = FALSE
    /\ table' = Append(table, Head(batch))
    /\ RetryOrDrop
    /\ UNCHANGED <<ch, worker, unanswered, chVars, endVars>>

\* RecordObjects returns an error: the transaction was rolled back, or the commit took
\* place and its answer was lost, and flushBatch cannot tell
FlushFails ==
    /\ up /\ writing /\ writing' = FALSE
    /\ \/ UNCHANGED <<table, unanswered>>
       \/ /\ table' = table \o batch
          /\ unanswered' = unanswered \cup Elements(batch)
    /\ RetryOrDrop
    /\ UNCHANGED <<ch, worker, chVars, endVars>>

\* Close: the first call waits for the worker, any later one returns at once
Close(c) ==
    /\ up /\ closer[c] = "idle"
    /\ closed' = TRUE
    /\ closer' = [closer EXCEPT ![c] = IF closed THEN "returned" ELSE "waiting"]
    /\ UNCHANGED <<ch, batch, worker, writing, up, chVars, flushVars>>

CloseReturn(c) ==
    /\ up /\ closer[c] = "waiting"
    /\ worker = "stopped"
    /\ closer' = [closer EXCEPT ![c] = "returned"]
    /\ UNCHANGED <<ch, batch, worker, writing, closed, up, chVars, flushVars>>

\* the caller of Close ends the process
Exit(c) ==
    /\ up /\ closer[c] = "returned"
    /\ up' = FALSE
    /\ UNCHANGED <<ch, batch, worker, writing, closed, closer, chVars, flushVars>>

\* Sync returns an error before anybody closed, and the process ends
Abandon ==
    /\ up /\ ~closed
    /\ up' = FALSE
    /\ UNCHANGED <<ch, batch, worker, writing, closed, closer, chVars, flushVars>>

-----------------------------------------------------------------------------
Init ==
    /\ ch = <<>> /\ batch = <<>> /\ flushRetries = 0
    /\ worker = "select" /\ writing = FALSE
    /\ closed = FALSE /\ closer = [c \in Closer |-> "idle"] /\ up = TRUE
    /\ calls = {} /\ accepted = {}
    /\ table = <<>> /\ dropped = {} /\ unanswered = {}

WorkerStep == Receive \/ Tick \/ Done \/ Drained \/ FlushSucceeds \/ FlushFails

CloserStep(c) == CloseReturn(c) \/ Exit(c)

Ended == ~up /\ UNCHANGED vars

Next ==
    \/ WorkerStep \/ Abandon \/ Ended
    \/ \E r \in Record : RecordObject(r)
    \/ \E c \in Closer : Close(c) \/ CloserStep(c)

Spec == Init /\ [][Next]_vars

-----------------------------------------------------------------------------
(* Correctness.                                                            *)

\* no element of s occurs twice
Distinct(s) == \A i, j \in DOMAIN s : s[i] = s[j] => i = j

\* no element of s occurs twice, those of U aside
DistinctBut(s, U) == \A i, j \in DOMAIN s : s[i] = s[j] => i = j \/ s[i] \in U

\* A record RecordObject accepted is in the channel, the batch, the table or among the
\* dropped, and no other record is anywhere: none is forgotten between the goroutines.  It
\* is in one of them only, and once, unless a commit of it went unanswered: nothing but
\* that makes a retry write a record twice, or a dropped record be in the table.
OnePlaceEach ==
    /\ Distinct(ch) /\ Distinct(batch)
    /\ DistinctBut(table, unanswered)
    /\ Elements(ch) \cap (Elements(batch) \cup Elements(table)) = {}
    /\ (Elements(ch) \cup Elements(batch)) \cap dropped = {}
    /\ (Elements(batch) \cup dropped) \cap Elements(table) \subseteq unanswered
    /\ unanswered \subseteq Elements(table)
    /\ accepted = Elements(ch) \cup Elements(batch) \cup Elements(table) \cup dropped

\* The retry of a whole batch inserts no row twice, as the comments on the transactions of
\* RecordObjects have it.
WrittenOnce == Distinct(table)

\* nobody else called Close
OnlyCloser ==
    \A c, d \in Closer : closer[c] # "idle" /\ closer[d] # "idle" => c = d

\* When the only call of Close returns, every record accepted so far has been
\* written or given up: the process may end, nothing is left in channel or batch.
CloseFlushes ==
    OnlyCloser /\ (\E c \in Closer : closer[c] = "returned") =>
        accepted \subseteq Elements(table) \cup dropped
=============================================================================
