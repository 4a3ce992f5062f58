----------------------------- MODULE GateBuffer -----------------------------
(***************************************************************************)
(* GateRecordBuffer (pkg/sync/gate.go): workers and producers add a record *)
(* of what became of a key, a goroutine writes the records in batches to   *)
(* the gate table, which holds one row for each key, and Close writes the  *)
(* rest before the process ends.                                           *)
(*                                                                         *)
(* The n-th record of a key is the pair of the key and n.  A batch is the  *)
(* function from its keys to the newest record of each: the upsert of a    *)
(* batch leaves no other trace.  A batch is full with the records of one   *)
(* chunk of the upsert, and may grow beyond before it is taken.            *)
(***************************************************************************)
EXTENDS Naturals, FiniteSetsExt

CONSTANTS
    Key,
    Closer,   \* who calls Close and then ends the process
    Limit,    \* records that make a batch full, and those of a chunk, 500
    MaxAdds   \* bound: records of one key

Batch == [Key -> Nat]          \* the newest record of each key, 0 for none
Empty == [k \in Key |-> 0]
NewerOf(m, n) == IF m >= n THEN m ELSE n
Upsert(old, b) == [k \in Key |-> IF b[k] > 0 THEN b[k] ELSE old[k]]

Flusher == Closer \cup {"periodic"}

VARIABLES
    batch, size,  \* the batch being filled, and its number of records
    signal,       \* flushCh holds a signal
    writing,      \* the batch each goroutine is writing, Empty if none
    closed,
    done,         \* the channel done is closed
    stopped,      \* the periodic goroutine has ended
    closer,       \* each caller of Close: idle, begun, waiting, flushing, returned
    up,           \* the process runs
    added,        \* the records of each key so far
    table,        \* the gate table: the record each row shows
    lost          \* history: the newest record of each key in a batch that failed

vars == <<batch, size, signal, writing, closed, done, stopped, closer, up, added,
          table, lost>>

TypeOK ==
    /\ batch \in Batch /\ size \in Nat
    /\ signal \in BOOLEAN
    /\ writing \in [Flusher -> Batch]
    /\ closed \in BOOLEAN /\ done \in BOOLEAN /\ stopped \in BOOLEAN
    /\ closer \in [Closer -> {"idle", "begun", "waiting", "flushing", "returned"}]
    /\ up \in BOOLEAN
    /\ added \in Batch /\ table \in Batch /\ lost \in Batch

-----------------------------------------------------------------------------
\* Add, which a closed buffer ignores; the signal wakes the goroutine when the
\* batch is full and is dropped if one is pending
Add(k) ==
    /\ up /\ added[k] < MaxAdds
    /\ ~closed
    /\ added' = [added EXCEPT ![k] = @ + 1]
    /\ batch' = [batch EXCEPT ![k] = added'[k]]
    /\ size' = size + 1
    /\ signal' = (signal \/ size' >= Limit)
    /\ UNCHANGED <<writing, closed, done, stopped, closer, up, table, lost>>

\* Flush takes the batch under the lock and writes it after
TakeBatch(f) ==
    /\ writing[f] = Empty /\ size > 0
    /\ writing' = [writing EXCEPT ![f] = batch]
    /\ batch' = Empty /\ size' = 0

\* a tick, or a signal
PeriodicTake ==
    /\ up /\ ~stopped /\ writing["periodic"] = Empty
    /\ \/ UNCHANGED signal
       \/ signal /\ signal' = FALSE
    /\ TakeBatch("periodic")
    /\ UNCHANGED <<closed, done, stopped, closer, up, added, table, lost>>

\* the signal of a batch that a tick has taken meanwhile
PeriodicIdle ==
    /\ up /\ ~stopped /\ writing["periodic"] = Empty
    /\ signal /\ size = 0
    /\ signal' = FALSE
    /\ UNCHANGED <<batch, size, writing, closed, done, stopped, closer, up, added, table, lost>>

\* the newest record of k taken before the batch that is being written
Before(k) == NewerOf(table[k], lost[k])

Records(b) == MapThenSumSet(LAMBDA k : IF b[k] > 0 THEN b[k] - Before(k) ELSE 0, Key)

\* what upsertBatch may have written of w when it fails: some of the chunks, or, if the
\* answer to the last was lost, the whole
Chunks(w) ==
    {b \in [Key -> 0 .. MaxAdds] :
        /\ \A k \in Key : b[k] > 0 => Before(k) < b[k] /\ b[k] <= w[k]
        /\ b = w \/ Records(b) % Limit = 0}

\* BatchSaveRecords succeeds, or fails and the batch is dropped
WriteEnds(f) ==
    /\ up /\ writing[f] # Empty
    /\ writing' = [writing EXCEPT ![f] = Empty]
    /\ \/ table' = Upsert(table, writing[f]) /\ UNCHANGED lost
       \/ /\ \E b \in Chunks(writing[f]) : table' = Upsert(table, b)
          /\ lost' = [k \in Key |-> NewerOf(lost[k], writing[f][k])]
    /\ UNCHANGED <<batch, size, signal, closed, done, stopped, closer, up, added>>

PeriodicStop ==
    /\ up /\ ~stopped /\ writing["periodic"] = Empty
    /\ done
    /\ stopped' = TRUE
    /\ UNCHANGED <<batch, size, signal, writing, closed, done, closer, up, added, table, lost>>

\* Close: only the first call goes on
CloseBegin(c) ==
    /\ up /\ closer[c] = "idle"
    /\ closed' = TRUE
    /\ closer' = [closer EXCEPT ![c] = IF closed THEN "returned" ELSE "begun"]
    /\ UNCHANGED <<batch, size, signal, writing, done, stopped, up, added, table, lost>>

CloseDone(c) ==
    /\ up /\ closer[c] = "begun"
    /\ done' = TRUE
    /\ closer' = [closer EXCEPT ![c] = "waiting"]
    /\ UNCHANGED <<batch, size, signal, writing, closed, stopped, up, added, table, lost>>

\* bug: the final flush does not wait for the goroutine
CloseFlushAtOnce(c) ==
    /\ up /\ closer[c] = "waiting"
    /\ closer' = [closer EXCEPT ![c] = "flushing"]
    /\ \/ TakeBatch(c)
       \/ size = 0 /\ UNCHANGED <<batch, size, writing>>
    /\ UNCHANGED <<signal, closed, done, stopped, up, added, table, lost>>

\* the goroutine has ended: one more Flush
CloseFlush(c) ==
    /\ up /\ closer[c] = "waiting"
    /\ stopped
    /\ closer' = [closer EXCEPT ![c] = "flushing"]
    /\ \/ TakeBatch(c)
       \/ size = 0 /\ UNCHANGED <<batch, size, writing>>
    /\ UNCHANGED <<signal, closed, done, stopped, up, added, table, lost>>

CloseReturn(c) ==
    /\ up /\ closer[c] = "flushing" /\ writing[c] = Empty
    /\ closer' = [closer EXCEPT ![c] = "returned"]
    /\ UNCHANGED <<batch, size, signal, writing, closed, done, stopped, up, added, table, lost>>

\* the caller of Close ends the process
Exit(c) ==
    /\ up /\ closer[c] = "returned"
    /\ up' = FALSE
    /\ UNCHANGED <<batch, size, signal, writing, closed, done, stopped, closer, added, table, lost>>

-----------------------------------------------------------------------------
Init ==
    /\ batch = Empty /\ size = 0 /\ signal = FALSE
    /\ writing = [f \in Flusher |-> Empty]
    /\ closed = FALSE /\ done = FALSE /\ stopped = FALSE
    /\ closer = [c \in Closer |-> "idle"] /\ up = TRUE
    /\ added = Empty /\ table = Empty /\ lost = Empty

Ended == ~up /\ UNCHANGED vars

Next ==
    \/ Ended \/ PeriodicTake \/ PeriodicIdle \/ PeriodicStop
    \/ \E k \in Key : Add(k)
    \/ \E f \in Flusher : WriteEnds(f)
    \/ \E c \in Closer : \/ CloseBegin(c) \/ CloseDone(c) \/ CloseFlush(c)
                         \/ CloseReturn(c) \/ Exit(c)

Spec == Init /\ [][Next]_vars

-----------------------------------------------------------------------------
(* Correctness.                                                            *)

\* The row of a key never goes back to an older record: a failure recorded after
\* a success is not hidden by the success, so the next run takes the key up again.
RowsAdvance == [][\A k \in Key : table'[k] >= table[k]]_vars
=============================================================================
