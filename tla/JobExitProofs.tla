---------------------------- MODULE JobExitProofs ----------------------------
(***************************************************************************)
(* Proofs about JobExit for any records, keys and sizes.  However many     *)
(* threads end the process at once, the job records and the gate buffer    *)
(* keep what they promise; with one of them the outcomes agree, and the    *)
(* whole is one of the ends AsyncDb knows.                                 *)
(***************************************************************************)
EXTENDS JobExit, AsyncDbProofs, FiniteSetTheorems

-----------------------------------------------------------------------------
(* The gate buffer.                                                        *)

\* the gate buffer as a thread that closes it sees it: one thread at most goes on
\* with the close, and it writes only after the goroutine has stopped
CloserInv ==
    /\ \A c \in Thread : gCloser[c] \in {"begun", "waiting", "flushing"} => gClosed
    /\ \A c, d \in Thread :
           /\ gCloser[c] \in {"begun", "waiting", "flushing"}
           /\ gCloser[d] \in {"begun", "waiting", "flushing"}
           => c = d
    /\ \A c \in Thread : gCloser[c] = "flushing" => gStopped
    /\ \A c \in Thread : gWriting[c] # GateBuf!Empty => gCloser[c] = "flushing"
    /\ gStopped => gWriting["periodic"] = GateBuf!Empty

\* a record is no newer than the last of its key; one that waits is no older than
\* those being written, and these no older than the row
RowInv ==
    \A k \in Key :
        /\ gBatch[k] <= gAdded[k] /\ gTable[k] <= gAdded[k]
        /\ gBatch[k] > 0 => gTable[k] <= gBatch[k]
        /\ \A f \in GateBuf!Flusher :
               /\ gWriting[f][k] <= gAdded[k]
               /\ gBatch[k] > 0 => gWriting[f][k] <= gBatch[k]
               /\ gWriting[f][k] > 0 => gTable[k] <= gWriting[f][k]

GateInv == GateBuf!TypeOK /\ CloserInv /\ RowInv

\* what each thread has done to the row of the job and to the checkpoint file by
\* the time it is at each of its steps
MainInv ==
    pc["main"] # "idle" =>
        /\ pc["main"] # "saveFirst"
        /\ pc["main"] \in {"closeDb", "endJob", "settle"} => ~working /\ file
        /\ pc["main"] \in {"closeDb", "endJob"} => row = "running"
        /\ pc["main"] = "settle" =>
               /\ row = "completed" => ~failures
               /\ row = "failed" => failures
        /\ pc["main"] \in {"closeGate", "exit"} =>
               /\ row = "completed" => code = "ok"
               /\ row = "failed" => code # "ok"
               /\ ~file => code = "ok"

MaxfailInv ==
    pc["maxfail"] # "idle" =>
        /\ pc["maxfail"] \notin {"saveFirst", "closeGate"}
        /\ working /\ failures /\ file /\ row # "completed"

SignalInv ==
    pc["signal"] # "idle" =>
        pc["signal"] # "settle" /\ file /\ row # "completed"

\* the job records are closed by the thread that ends the process, and it goes on
\* when its Close has returned or, after a failed listing, without having closed
EndDbInv ==
    /\ closed => Exiting # {}
    /\ \A t \in Thread :
           /\ pc[t] \in {"endJob", "settle"} => closer[t] = "returned"
           /\ pc[t] \in {"closeGate", "exit"} => closer[t] = "returned" \/ ~closed

ExitInv ==
    /\ \A t, u \in Exiting : t = u
    /\ Exiting = {} => row = "running" /\ file /\ working
    /\ up => MainInv /\ MaxfailInv /\ SignalInv
    /\ OutcomesAgree /\ EndDbInv

-----------------------------------------------------------------------------
\* the steps of the process on the gate buffer
GateMove ==
    \/ \E k \in Key : GateBuf!Add(k)
    \/ GateBuf!PeriodicTake \/ GateBuf!PeriodicIdle \/ GateBuf!PeriodicStop
    \/ \E f \in GateBuf!Flusher : GateBuf!WriteEnds(f)
    \/ \E t \in Thread : \/ GateBuf!CloseBegin(t) \/ GateBuf!CloseDone(t)
                         \/ GateBuf!CloseFlush(t) \/ GateBuf!CloseReturn(t)

\* A step of the process is one of those or leaves the gate buffer alone.
LEMMA GateMoves == [JobNext]_exitVars => GateMove \/ UNCHANGED gateVars
<1> SUFFICES ASSUME [JobNext]_exitVars
             PROVE  GateMove \/ UNCHANGED gateVars
  OBVIOUS
<1>1. CASE Gone \/ UNCHANGED exitVars
  BY <1>1 DEF Gone, exitVars
<1>2. CASE Report
  BY <1>2 DEF Report, GateMove
<1>3. CASE DbStep \/ SaveOnSignal \/ ListingFails
  BY <1>3 DEF DbStep, SaveOnSignal, ListingFails
<1>4. CASE GateStep
  BY <1>4 DEF GateStep, GateMove
<1>5. ASSUME NEW t \in Thread, BeginExit(t) \/ ExitStep(t)
      PROVE  GateMove \/ UNCHANGED gateVars
  BY <1>5 DEF BeginExit, ExitStep, CloseDb, EndJob, SettleCheckpoint, CloseGate,
              ExitProcess, GateMove
<1> QED
  BY <1>1, <1>2, <1>3, <1>4, <1>5 DEF JobNext

\* Batches are functions to numbers.
LEMMA BatchFacts ==
  /\ GateBuf!Empty \in GateBuf!Batch
  /\ \A k \in Key : GateBuf!Empty[k] = 0
  /\ \A b \in GateBuf!Batch : \A k \in Key : b[k] \in Nat
  BY DEF GateBuf!Empty, GateBuf!Batch

\* The goroutine is none of the threads that close.
LEMMA FlusherFacts ==
  /\ "periodic" \in GateBuf!Flusher /\ "periodic" \notin Thread
  /\ Thread \subseteq GateBuf!Flusher
  /\ \A f \in GateBuf!Flusher : f \in Thread \/ f = "periodic"
  BY DEF GateBuf!Flusher, Thread

LEMMA GateInit == JobInit => GateInv
<1> SUFFICES ASSUME JobInit PROVE GateInv
  OBVIOUS
<1>1. /\ gBatch = GateBuf!Empty /\ gSize = 0 /\ gSignal = FALSE
      /\ gWriting = [f \in GateBuf!Flusher |-> GateBuf!Empty]
      /\ gClosed = FALSE /\ gDone = FALSE /\ gStopped = FALSE
      /\ gCloser = [c \in Thread |-> "idle"] /\ up = TRUE
      /\ gAdded = GateBuf!Empty /\ gTable = GateBuf!Empty /\ gLost = GateBuf!Empty
  BY DEF JobInit, GateBuf!Init
<1>2. GateBuf!TypeOK
  BY <1>1, BatchFacts DEF GateBuf!TypeOK
<1>3. CloserInv
  BY <1>1, FlusherFacts DEF CloserInv
<1>4. RowInv
  BY <1>1, BatchFacts DEF RowInv
<1> QED
  BY <1>2, <1>3, <1>4 DEF GateInv

\* One goroutine writes at a time.
LEMMA OneWriter ==
  ASSUME CloserInv, NEW f \in GateBuf!Flusher, NEW g \in GateBuf!Flusher,
         gWriting[f] # GateBuf!Empty, gWriting[g] # GateBuf!Empty
  PROVE  f = g
  BY FlusherFacts DEF CloserInv

LEMMA AddGate ==
  ASSUME GateInv, NEW k \in Key, GateBuf!Add(k)
  PROVE  GateInv' /\ \A j \in Key : gTable'[j] >= gTable[j]
<1>1. GateBuf!TypeOK /\ CloserInv /\ RowInv
  BY DEF GateInv
<1>2. /\ gAdded' = [gAdded EXCEPT ![k] = @ + 1]
      /\ gBatch' = [gBatch EXCEPT ![k] = gAdded'[k]]
      /\ gSize' = gSize + 1 /\ gSignal' = (gSignal \/ gSize' >= Limit)
      /\ UNCHANGED <<gWriting, gClosed, gDone, gStopped, gCloser, up, gTable, gLost>>
  BY DEF GateBuf!Add
<1>3. /\ gAdded \in [Key -> Nat] /\ gBatch \in [Key -> Nat] /\ gTable \in [Key -> Nat]
      /\ \A f \in GateBuf!Flusher : gWriting[f] \in [Key -> Nat]
  BY <1>1 DEF GateBuf!TypeOK, GateBuf!Batch
<1>4. /\ gAdded' \in [Key -> Nat] /\ gBatch' \in [Key -> Nat]
      /\ gAdded'[k] = gAdded[k] + 1 /\ gBatch'[k] = gAdded[k] + 1
      /\ \A j \in Key \ {k} : gAdded'[j] = gAdded[j] /\ gBatch'[j] = gBatch[j]
  BY <1>2, <1>3
<1>5. GateBuf!TypeOK'
  BY <1>1, <1>2, <1>4 DEF GateBuf!TypeOK, GateBuf!Batch
<1>6. CloserInv'
  BY <1>1, <1>2 DEF CloserInv
<1>7. RowInv'
  <2> SUFFICES ASSUME NEW j \in Key
               PROVE  /\ gBatch'[j] <= gAdded'[j] /\ gTable'[j] <= gAdded'[j]
                      /\ gBatch'[j] > 0 => gTable'[j] <= gBatch'[j]
                      /\ \A f \in GateBuf!Flusher :
                             /\ gWriting'[f][j] <= gAdded'[j]
                             /\ gBatch'[j] > 0 => gWriting'[f][j] <= gBatch'[j]
                             /\ gWriting'[f][j] > 0 => gTable'[j] <= gWriting'[f][j]
    BY DEF RowInv
  <2>1. /\ gAdded[j] \in Nat /\ gBatch[j] \in Nat /\ gTable[j] \in Nat
        /\ \A f \in GateBuf!Flusher : gWriting[f][j] \in Nat
    BY <1>3
  <2>2. CASE j = k
    BY <1>1, <1>2, <1>4, <2>1, <2>2 DEF RowInv
  <2>3. CASE j # k
    BY <1>1, <1>2, <1>4, <2>3 DEF RowInv
  <2> QED
    BY <2>2, <2>3
<1> QED
  BY <1>2, <1>3, <1>5, <1>6, <1>7 DEF GateInv

\* The batch passes to the goroutine that writes it, when none is writing.
LEMMA TakeRow ==
  ASSUME GateBuf!TypeOK, RowInv, NEW f \in GateBuf!Flusher, GateBuf!TakeBatch(f),
         \A g \in GateBuf!Flusher : gWriting[g] = GateBuf!Empty,
         UNCHANGED <<gAdded, gTable>>
  PROVE  /\ RowInv' /\ gBatch' \in GateBuf!Batch /\ gSize' \in Nat
         /\ gWriting' \in [GateBuf!Flusher -> GateBuf!Batch]
         /\ \A g \in GateBuf!Flusher \ {f} : gWriting'[g] = GateBuf!Empty
<1>1. /\ gWriting' = [gWriting EXCEPT ![f] = gBatch]
      /\ gBatch' = GateBuf!Empty /\ gSize' = 0
  BY DEF GateBuf!TakeBatch
<1>2. /\ gWriting \in [GateBuf!Flusher -> GateBuf!Batch] /\ gBatch \in GateBuf!Batch
      /\ gAdded \in GateBuf!Batch /\ gTable \in GateBuf!Batch
  BY DEF GateBuf!TypeOK
<1>3. /\ gWriting' \in [GateBuf!Flusher -> GateBuf!Batch]
      /\ gWriting'[f] = gBatch
      /\ \A g \in GateBuf!Flusher \ {f} : gWriting'[g] = GateBuf!Empty
  BY <1>1, <1>2
<1>4. RowInv'
  <2> SUFFICES ASSUME NEW j \in Key
               PROVE  /\ gBatch'[j] <= gAdded[j] /\ gTable[j] <= gAdded[j]
                      /\ gBatch'[j] > 0 => gTable[j] <= gBatch'[j]
                      /\ \A g \in GateBuf!Flusher :
                             /\ gWriting'[g][j] <= gAdded[j]
                             /\ gBatch'[j] > 0 => gWriting'[g][j] <= gBatch'[j]
                             /\ gWriting'[g][j] > 0 => gTable[j] <= gWriting'[g][j]
    BY DEF RowInv
  <2>1. gAdded[j] \in Nat /\ gBatch[j] \in Nat /\ gTable[j] \in Nat /\ gBatch'[j] = 0
    BY <1>1, <1>2, BatchFacts
  <2>2. \A g \in GateBuf!Flusher : gWriting'[g][j] = gBatch[j] \/ gWriting'[g][j] = 0
    BY <1>3, BatchFacts
  <2>3. /\ gBatch[j] <= gAdded[j] /\ gTable[j] <= gAdded[j]
        /\ gBatch[j] > 0 => gTable[j] <= gBatch[j]
    BY DEF RowInv
  <2> QED
    BY <2>1, <2>2, <2>3
<1> QED
  BY <1>1, <1>3, <1>4, BatchFacts

LEMMA PeriodicTakeGate ==
  ASSUME GateInv, GateBuf!PeriodicTake
  PROVE  GateInv' /\ gTable' = gTable
<1>1. GateBuf!TypeOK /\ CloserInv /\ RowInv
  BY DEF GateInv
<1>2. /\ ~gStopped /\ gWriting["periodic"] = GateBuf!Empty
      /\ GateBuf!TakeBatch("periodic") /\ gSignal' \in BOOLEAN
      /\ UNCHANGED <<gClosed, gDone, gStopped, gCloser, up, gAdded, gTable, gLost>>
  BY <1>1 DEF GateBuf!PeriodicTake, GateBuf!TypeOK
<1>3. \A g \in GateBuf!Flusher : gWriting[g] = GateBuf!Empty
  BY <1>1, <1>2, FlusherFacts DEF CloserInv
<1>4. /\ RowInv' /\ gBatch' \in GateBuf!Batch /\ gSize' \in Nat
      /\ gWriting' \in [GateBuf!Flusher -> GateBuf!Batch]
      /\ \A g \in Thread : gWriting'[g] = GateBuf!Empty
  BY <1>1, <1>2, <1>3, TakeRow, FlusherFacts
<1>5. GateBuf!TypeOK'
  BY <1>1, <1>2, <1>4 DEF GateBuf!TypeOK
<1>6. CloserInv'
  BY <1>1, <1>2, <1>4 DEF CloserInv
<1> QED
  BY <1>2, <1>4, <1>5, <1>6 DEF GateInv

LEMMA CloseFlushGate ==
  ASSUME GateInv, NEW c \in Thread, GateBuf!CloseFlush(c)
  PROVE  GateInv' /\ gTable' = gTable
<1>1. GateBuf!TypeOK /\ CloserInv /\ RowInv
  BY DEF GateInv
<1>2. /\ gCloser[c] = "waiting" /\ gStopped
      /\ gCloser' = [gCloser EXCEPT ![c] = "flushing"]
      /\ \/ GateBuf!TakeBatch(c)
         \/ UNCHANGED <<gBatch, gSize, gWriting>>
      /\ UNCHANGED <<gSignal, gClosed, gDone, gStopped, up, gAdded, gTable, gLost>>
  BY DEF GateBuf!CloseFlush
<1>3. \A g \in GateBuf!Flusher : gWriting[g] = GateBuf!Empty
  BY <1>1, <1>2, FlusherFacts DEF CloserInv
<1>4. c \in GateBuf!Flusher
  BY FlusherFacts
<1>5. /\ RowInv' /\ gBatch' \in GateBuf!Batch /\ gSize' \in Nat
      /\ gWriting' \in [GateBuf!Flusher -> GateBuf!Batch]
      /\ \A g \in GateBuf!Flusher \ {c} : gWriting'[g] = GateBuf!Empty
  <2>1. CASE GateBuf!TakeBatch(c)
    BY <1>1, <1>2, <1>3, <1>4, <2>1, TakeRow
  <2>2. CASE UNCHANGED <<gBatch, gSize, gWriting>>
    <3>1. RowInv'
      BY <1>1, <1>2, <2>2 DEF RowInv
    <3> QED
      BY <1>1, <1>3, <2>2, <3>1 DEF GateBuf!TypeOK
  <2> QED
    BY <1>2, <2>1, <2>2
<1>6. /\ gCloser' \in [Thread -> {"idle", "begun", "waiting", "flushing", "returned"}]
      /\ gCloser'[c] = "flushing" /\ \A d \in Thread \ {c} : gCloser'[d] = gCloser[d]
  BY <1>1, <1>2 DEF GateBuf!TypeOK
<1>7. GateBuf!TypeOK'
  BY <1>1, <1>2, <1>5, <1>6 DEF GateBuf!TypeOK
<1>8. CloserInv'
  <2>1. gWriting'["periodic"] = GateBuf!Empty
    BY <1>5, FlusherFacts
  <2>2. \A d \in Thread : gWriting'[d] # GateBuf!Empty => d = c
    BY <1>5, FlusherFacts
  <2> QED
    BY <1>1, <1>2, <1>6, <2>1, <2>2 DEF CloserInv
<1> QED
  BY <1>2, <1>5, <1>7, <1>8 DEF GateInv

\* The row takes the records of the batch, none of which is older.
LEMMA WriteEndsGate ==
  ASSUME GateInv, NEW f \in GateBuf!Flusher, GateBuf!WriteEnds(f)
  PROVE  GateInv' /\ \A j \in Key : gTable'[j] >= gTable[j]
<1>1. GateBuf!TypeOK /\ CloserInv /\ RowInv
  BY DEF GateInv
<1>2. /\ gWriting[f] # GateBuf!Empty
      /\ gWriting' = [gWriting EXCEPT ![f] = GateBuf!Empty]
      /\ \/ gTable' = GateBuf!Upsert(gTable, gWriting[f]) /\ UNCHANGED gLost
         \/ /\ \E b \in GateBuf!Chunks(gWriting[f]) : gTable' = GateBuf!Upsert(gTable, b)
            /\ gLost' = [k \in Key |-> GateBuf!NewerOf(gLost[k], gWriting[f][k])]
      /\ UNCHANGED <<gBatch, gSize, gSignal, gClosed, gDone, gStopped, gCloser, up, gAdded>>
  BY DEF GateBuf!WriteEnds
<1>3. /\ gWriting \in [GateBuf!Flusher -> GateBuf!Batch] /\ gBatch \in GateBuf!Batch
      /\ gAdded \in GateBuf!Batch /\ gTable \in GateBuf!Batch /\ gLost \in GateBuf!Batch
      /\ gWriting[f] \in GateBuf!Batch
  BY <1>1 DEF GateBuf!TypeOK
<1>4. \A g \in GateBuf!Flusher : gWriting'[g] = GateBuf!Empty
  BY <1>1, <1>2, <1>3, OneWriter
<1>5. gWriting' \in [GateBuf!Flusher -> GateBuf!Batch]
  BY <1>2, <1>3, BatchFacts
<1>6. PICK b \in GateBuf!Batch :
          /\ gTable' = GateBuf!Upsert(gTable, b)
          /\ \A j \in Key : b[j] > 0 => /\ b[j] <= gWriting[f][j]
                                       /\ gTable[j] <= b[j]
  <2>1. ASSUME NEW j \in Key, gWriting[f][j] > 0
        PROVE  gTable[j] <= gWriting[f][j] /\ gWriting[f][j] <= gWriting[f][j]
    BY <1>1, <1>3, <2>1, BatchFacts DEF RowInv
  <2>2. CASE gTable' = GateBuf!Upsert(gTable, gWriting[f])
    BY <1>3, <2>1, <2>2
  <2>3. ASSUME NEW b \in GateBuf!Chunks(gWriting[f]), gTable' = GateBuf!Upsert(gTable, b)
        PROVE  /\ b \in GateBuf!Batch
               /\ \A j \in Key : b[j] > 0 => b[j] <= gWriting[f][j] /\ gTable[j] <= b[j]
    <3>1. /\ b \in [Key -> 0 .. MaxAdds]
          /\ \A j \in Key : b[j] > 0 => /\ GateBuf!NewerOf(gTable[j], gLost[j]) < b[j]
                                       /\ b[j] <= gWriting[f][j]
      BY DEF GateBuf!Chunks, GateBuf!Before
    <3>2. b \in GateBuf!Batch
      BY <3>1, ThreadAssumption DEF GateBuf!Batch
    <3> QED
      BY <1>3, <3>1, <3>2, BatchFacts DEF GateBuf!NewerOf
  <2> QED
    BY <1>2, <2>2, <2>3
<1>7. \A j \in Key :
          gTable'[j] = gTable[j] \/ (gTable[j] <= gTable'[j] /\ gTable'[j] <= gWriting[f][j])
  BY <1>6 DEF GateBuf!Upsert
<1>12. gTable' \in GateBuf!Batch /\ gLost' \in GateBuf!Batch
  BY <1>2, <1>3, <1>6 DEF GateBuf!Batch, GateBuf!Upsert, GateBuf!NewerOf
<1>8. GateBuf!TypeOK'
  BY <1>1, <1>2, <1>5, <1>12 DEF GateBuf!TypeOK
<1>9. CloserInv'
  BY <1>1, <1>2, <1>4, FlusherFacts DEF CloserInv
<1>10. ASSUME NEW j \in Key
       PROVE  /\ gBatch[j] <= gAdded[j] /\ gTable'[j] <= gAdded[j]
              /\ gBatch[j] > 0 => gTable'[j] <= gBatch[j]
              /\ \A g \in GateBuf!Flusher : gWriting'[g][j] = 0
              /\ gTable'[j] >= gTable[j]
  <2>1. /\ gAdded[j] \in Nat /\ gBatch[j] \in Nat /\ gTable[j] \in Nat
        /\ gWriting[f][j] \in Nat /\ gTable'[j] \in Nat
    BY <1>3, <1>12, BatchFacts
  <2>2. /\ gBatch[j] <= gAdded[j] /\ gTable[j] <= gAdded[j]
        /\ gBatch[j] > 0 => gTable[j] <= gBatch[j] /\ gWriting[f][j] <= gBatch[j]
        /\ gWriting[f][j] <= gAdded[j]
        /\ gWriting[f][j] > 0 => gTable[j] <= gWriting[f][j]
    BY <1>1 DEF RowInv
  <2>3. \A g \in GateBuf!Flusher : gWriting'[g][j] = 0
    BY <1>4, BatchFacts
  <2> QED
    BY <1>7, <2>1, <2>2, <2>3
<1>11. RowInv'
  <2>1. \A j \in Key : gAdded[j] \in Nat /\ gBatch[j] \in Nat /\ ~(0 > 0)
    BY <1>3, BatchFacts
  <2>2. \A j \in Key, g \in GateBuf!Flusher :
            /\ gWriting'[g][j] <= gAdded'[j] /\ ~(gWriting'[g][j] > 0)
            /\ gBatch'[j] > 0 => gWriting'[g][j] <= gBatch'[j]
    BY <1>2, <1>10, <2>1
  <2> QED
    BY <1>2, <1>10, <2>2 DEF RowInv
<1> QED
  BY <1>8, <1>9, <1>10, <1>11 DEF GateInv

\* The other steps leave the records alone.
LEMMA OtherGate ==
  ASSUME GateInv,
         \/ GateBuf!PeriodicIdle \/ GateBuf!PeriodicStop
         \/ \E c \in Thread : \/ GateBuf!CloseBegin(c) \/ GateBuf!CloseDone(c)
                              \/ GateBuf!CloseReturn(c)
         \/ UNCHANGED gateVars /\ up' \in BOOLEAN
  PROVE  GateInv' /\ gTable' = gTable
<1>1. GateBuf!TypeOK /\ CloserInv /\ RowInv
  BY DEF GateInv
<1>2. UNCHANGED <<gBatch, gSize, gWriting, gAdded, gTable, gLost>>
  BY DEF GateBuf!PeriodicIdle, GateBuf!PeriodicStop, GateBuf!CloseBegin,
         GateBuf!CloseDone, GateBuf!CloseReturn, gateVars
<1>3. RowInv'
  BY <1>1, <1>2 DEF RowInv
<1>4. CASE GateBuf!PeriodicIdle \/ GateBuf!PeriodicStop \/ (UNCHANGED gateVars /\ up' \in BOOLEAN)
  <2>1. /\ UNCHANGED <<gCloser, gClosed, gDone>>
        /\ gStopped' = gStopped
           \/ (gStopped' = TRUE /\ gWriting["periodic"] = GateBuf!Empty)
        /\ gSignal' \in BOOLEAN /\ up' \in BOOLEAN /\ gStopped' \in BOOLEAN
    BY <1>1, <1>4 DEF GateBuf!PeriodicIdle, GateBuf!PeriodicStop, gateVars, GateBuf!TypeOK
  <2>2. GateBuf!TypeOK'
    BY <1>1, <1>2, <2>1 DEF GateBuf!TypeOK
  <2>3. CloserInv'
    BY <1>1, <1>2, <2>1 DEF CloserInv
  <2> QED
    BY <1>2, <1>3, <2>2, <2>3 DEF GateInv
<1>5. ASSUME NEW c \in Thread,
             GateBuf!CloseBegin(c) \/ GateBuf!CloseDone(c) \/ GateBuf!CloseReturn(c)
      PROVE  GateInv'
  <2>1. /\ UNCHANGED <<gSignal, gStopped, up>>
        /\ gDone' \in BOOLEAN /\ gClosed' \in BOOLEAN /\ (gClosed => gClosed')
        /\ \E l \in {"begun", "waiting", "returned"} :
               gCloser' = [gCloser EXCEPT ![c] = l]
        /\ \/ gCloser' = [gCloser EXCEPT ![c] = "returned"]
              /\ gWriting[c] = GateBuf!Empty
           \/ gCloser[c] = "idle" /\ ~gClosed /\ gClosed'
           \/ gCloser[c] = "begun" /\ gClosed' = gClosed
    <3>1. CASE GateBuf!CloseBegin(c)
      BY <1>1, <3>1 DEF GateBuf!CloseBegin, CloserInv, GateBuf!TypeOK
    <3>2. CASE GateBuf!CloseDone(c)
      BY <1>1, <3>2 DEF GateBuf!CloseDone, GateBuf!TypeOK
    <3>3. CASE GateBuf!CloseReturn(c)
      BY <1>1, <3>3 DEF GateBuf!CloseReturn, GateBuf!TypeOK
    <3> QED
      BY <1>5, <3>1, <3>2, <3>3
  <2>2. /\ gCloser' \in [Thread -> {"idle", "begun", "waiting", "flushing", "returned"}]
        /\ \A d \in Thread \ {c} : gCloser'[d] = gCloser[d]
        /\ gCloser'[c] \in {"begun", "waiting", "returned"}
        /\ gCloser'[c] = "returned" => gCloser' = [gCloser EXCEPT ![c] = "returned"]
    BY <1>1, <2>1 DEF GateBuf!TypeOK
  <2>3. GateBuf!TypeOK'
    BY <1>1, <1>2, <2>1, <2>2 DEF GateBuf!TypeOK
  <2>4. CloserInv'
    <3>1. gCloser'[c] # "returned" =>
              \/ gCloser[c] = "idle" /\ ~gClosed /\ gClosed'
              \/ gCloser[c] = "begun" /\ gClosed' = gClosed
      BY <1>1, <2>1 DEF GateBuf!TypeOK
    <3>2. gWriting[c] = GateBuf!Empty
      BY <1>1, <2>1 DEF CloserInv
    <3> QED
      BY <1>1, <1>2, <2>1, <2>2, <3>1, <3>2 DEF CloserInv
  <2> QED
    BY <1>3, <2>3, <2>4 DEF GateInv
<1> QED
  BY <1>2, <1>4, <1>5

-----------------------------------------------------------------------------
\* A step of the process is a step of AsyncDb or ends the process.
LEMMA OnlyExitEnds ==
  ASSUME [JobNext]_exitVars
  PROVE  [Next]_vars \/ \E t \in Thread : ExitProcess(t)
<1>1. CASE Gone \/ UNCHANGED exitVars
  BY <1>1 DEF Gone, exitVars
<1>2. CASE Report
  <2>1. CASE \E r \in Record : RecordObject(r)
    BY <2>1 DEF Next
  <2>2. CASE \E k \in Key : GateBuf!Add(k) /\ UNCHANGED dbVars
    BY <2>2 DEF GateBuf!Add, dbVars, vars
  <2> QED
    BY <1>2, <2>1, <2>2 DEF Report
<1>3. CASE DbStep
  BY <1>3 DEF DbStep, Next
<1>4. CASE GateStep
  BY <1>4 DEF GateStep, GateBuf!PeriodicTake, GateBuf!PeriodicIdle,
              GateBuf!PeriodicStop, GateBuf!WriteEnds, dbVars, vars
<1>5. CASE SaveOnSignal \/ ListingFails
  BY <1>5 DEF SaveOnSignal, ListingFails
<1>6. ASSUME NEW t \in Thread, BeginExit(t) \/ EndJob(t) \/ SettleCheckpoint(t)
      PROVE  UNCHANGED vars
  BY <1>6 DEF BeginExit, EndJob, SettleCheckpoint
<1>7. ASSUME NEW t \in Thread, CloseDb(t)
      PROVE  [Next]_vars
  BY <1>7, ThreadAssumption DEF CloseDb, Next, CloserStep
<1>8. ASSUME NEW t \in Thread, CloseGate(t)
      PROVE  UNCHANGED vars
  BY <1>8 DEF CloseGate, GateBuf!CloseBegin, GateBuf!CloseDone, GateBuf!CloseFlush,
              GateBuf!CloseReturn, dbVars, vars
<1> QED
  BY <1>1, <1>2, <1>3, <1>4, <1>5, <1>6, <1>7, <1>8 DEF JobNext, ExitStep

\* To the job records the end of the process is that and no more.
LEMMA DbSteps ==
  ASSUME [JobNext]_exitVars
  PROVE  \/ [Next]_vars
         \/ UNCHANGED dbVars /\ up' = FALSE
  BY OnlyExitEnds DEF ExitProcess

\* The process runs or does not.
LEMMA UpSteps ==
  ASSUME TypeOK, [JobNext]_exitVars
  PROVE  up' \in BOOLEAN
<1>1. CASE UNCHANGED vars
  BY <1>1 DEF TypeOK, vars
<1>2. CASE Next
  BY <1>2 DEF Next, WorkerStep, Receive, Tick, Done, Drained, FlushSucceeds, FlushFails,
     Abandon, Ended, RecordObject, Close, CloserStep, CloseReturn, Exit, endVars, TypeOK, vars
<1> QED
  BY <1>1, <1>2, DbSteps

\* Every step keeps it, and no row goes back.
LEMMA GateStepInv ==
  ASSUME GateInv, TypeOK, [JobNext]_exitVars
  PROVE  GateInv' /\ \A k \in Key : gTable'[k] >= gTable[k]
<1>1. \A k \in Key : gTable[k] \in Nat
  BY BatchFacts DEF GateInv, GateBuf!TypeOK
<1>2. CASE GateMove
  BY <1>1, <1>2, AddGate, PeriodicTakeGate, CloseFlushGate, WriteEndsGate, OtherGate
     DEF GateMove
<1>3. CASE UNCHANGED gateVars
  <2>1. up' \in BOOLEAN
    BY UpSteps
  <2> QED
    BY <1>1, <1>3, <2>1, OtherGate
<1> QED
  BY <1>2, <1>3, GateMoves

-----------------------------------------------------------------------------
(* The job records.                                                        *)

\* All the same hold for the records when the process ends past its own Close.
LEMMA DbStepInv ==
  ASSUME Inv, CloseInv, [JobNext]_exitVars
  PROVE  Inv' /\ CloseInv'
<1>1. CASE [Next]_vars
  BY <1>1, InvStep, CloseInvStep
<1>2. CASE UNCHANGED dbVars /\ up' = FALSE
  <2>1. Inv'
    BY <1>2 DEF dbVars, Inv, TypeOK, OnePlaceEach
  <2>2. CloseInv'
    BY <1>2 DEF dbVars, CloseInv, OnlyCloser
  <2> QED
    BY <2>1, <2>2
<1> QED
  BY <1>1, <1>2, DbSteps

LEMMA JobTypeInit == JobInit => Inv /\ CloseInv /\ GateInv /\ JobTypeOK
<1> SUFFICES ASSUME JobInit
             PROVE  Inv /\ CloseInv /\ GateInv /\ JobTypeOK
  OBVIOUS
<1>1. Inv /\ GateInv
  BY InvInit, GateInit DEF JobInit
<1>2. CloseInv
  BY DEF JobInit, Init, CloseInv
<1> QED
  BY <1>1, <1>2 DEF JobInit, JobTypeOK, Inv, GateInv

\* What a step changes of the process itself keeps its type.
LEMMA JobTypeStep ==
  ASSUME JobTypeOK, Inv, GateInv, Inv', GateInv', [JobNext]_exitVars
  PROVE  JobTypeOK'
<1>1. /\ working \in BOOLEAN /\ failures \in BOOLEAN /\ file \in BOOLEAN
      /\ pc \in [Thread -> {"idle", "saveFirst", "closeDb", "endJob", "settle",
                            "closeGate", "exit"}]
      /\ row \in {"running", "completed", "failed"}
      /\ code \in {"none", "ok", "error", "signal"}
  BY DEF JobTypeOK
<1> SUFFICES /\ working' \in BOOLEAN /\ failures' \in BOOLEAN /\ file' \in BOOLEAN
             /\ pc' \in [Thread -> {"idle", "saveFirst", "closeDb", "endJob", "settle",
                                    "closeGate", "exit"}]
             /\ row' \in {"running", "completed", "failed"}
             /\ code' \in {"none", "ok", "error", "signal"}
  BY DEF JobTypeOK, Inv, GateInv
<1>2. CASE Gone \/ UNCHANGED exitVars
  BY <1>1, <1>2 DEF Gone, exitVars, jobVars
<1>3. CASE Report \/ DbStep \/ GateStep
  BY <1>1, <1>3 DEF Report, DbStep, GateStep, jobVars
<1>4. CASE SaveOnSignal \/ ListingFails
  BY <1>1, <1>4 DEF SaveOnSignal, ListingFails, Goto
<1>5. ASSUME NEW t \in Thread, BeginExit(t) \/ ExitStep(t)
      PROVE  /\ working' \in BOOLEAN /\ failures' \in BOOLEAN /\ file' \in BOOLEAN
             /\ pc' \in [Thread -> {"idle", "saveFirst", "closeDb", "endJob", "settle",
                                    "closeGate", "exit"}]
             /\ row' \in {"running", "completed", "failed"}
             /\ code' \in {"none", "ok", "error", "signal"}
  <2>1. CASE BeginExit(t)
    BY <1>1, <2>1 DEF BeginExit, Goto
  <2>2. CASE CloseDb(t)
    BY <1>1, <2>2 DEF CloseDb, Goto
  <2>3. CASE EndJob(t)
    BY <1>1, <2>3 DEF EndJob, Goto
  <2>4. CASE SettleCheckpoint(t)
    BY <1>1, <2>4 DEF SettleCheckpoint, Goto
  <2>5. CASE CloseGate(t)
    BY <1>1, <2>5 DEF CloseGate, Goto, jobVars
  <2>6. CASE ExitProcess(t)
    BY <1>1, <2>6 DEF ExitProcess, Thread
  <2> QED
    BY <1>5, <2>1, <2>2, <2>3, <2>4, <2>5, <2>6 DEF ExitStep
<1> QED
  BY <1>2, <1>3, <1>4, <1>5 DEF JobNext

JobInv == Inv /\ CloseInv /\ GateInv /\ JobTypeOK

LEMMA JobInvStep == JobInv /\ [JobNext]_exitVars => JobInv'
<1> SUFFICES ASSUME JobInv, [JobNext]_exitVars PROVE JobInv'
  OBVIOUS
<1>1. Inv' /\ CloseInv'
  BY DbStepInv DEF JobInv
<1>2. GateInv'
  BY GateStepInv DEF JobInv, Inv
<1> QED
  BY <1>1, <1>2, JobTypeStep DEF JobInv

\* Every variable keeps its type, however many threads end the process at once.
THEOREM JobTypeCorrect == JobSpec => []JobTypeOK
<1>1. JobInv => JobTypeOK
  BY DEF JobInv
<1> QED
  BY <1>1, JobTypeInit, JobInvStep, PTL DEF JobSpec, JobInv

\* However the process ends, by one thread or by several at once, an accepted job
\* record is in one place, unless a commit of it went unanswered, and behind the
\* only Close in the table or given up.
THEOREM RecordsKept == JobSpec => [](OnePlaceEach /\ CloseFlushes)
<1>1. JobInv => OnePlaceEach /\ CloseFlushes
  BY EmptyElements DEF JobInv, Inv, CloseInv, CloseFlushes, OnePlaceEach
<1> QED
  BY <1>1, JobTypeInit, JobInvStep, PTL DEF JobSpec, JobInv

\* The row of a key never goes back to an older record, whatever the goroutine of
\* the gate buffer and the threads that close it do: one of them writes at a time.
THEOREM GateRowsKept == JobSpec => GateRowsAdvance
<1>1. JobInv /\ [JobNext]_exitVars => [\A k \in Key : gTable'[k] >= gTable[k]]_(GateBuf!vars)
  BY GateStepInv DEF JobInv, Inv
<1> QED
  BY <1>1, JobTypeInit, JobInvStep, PTL
     DEF JobSpec, JobInv, GateRowsAdvance, GateBuf!RowsAdvance

-----------------------------------------------------------------------------
(* One thread ends the process.                                            *)

\* A thread begins only when no other has, and then it is the only one.
LEMMA FirstToExit ==
  ASSUME MaxExits <= 1, Cardinality(Exiting) < MaxExits
  PROVE  Exiting = {}
<1>1. IsFiniteSet(Thread)
  <2>1. IsFiniteSet({"main"})
    BY FS_Singleton
  <2>2. IsFiniteSet({"main"} \cup {"maxfail"})
    BY <2>1, FS_AddElement
  <2>3. IsFiniteSet(({"main"} \cup {"maxfail"}) \cup {"signal"})
    BY <2>2, FS_AddElement
  <2>4. Thread = ({"main"} \cup {"maxfail"}) \cup {"signal"}
    BY DEF Thread
  <2> QED
    BY <2>3, <2>4
<1>2. IsFiniteSet(Exiting)
  BY <1>1, FS_Subset DEF Exiting
<1>3. Cardinality(Exiting) \in Nat
  BY <1>2, FS_CardinalityType
<1>4. Cardinality(Exiting) = 0
  BY <1>3, ThreadAssumption
<1> QED
  BY <1>2, <1>4, FS_EmptySet

LEMMA ExitInvInit == JobInit => ExitInv
  BY DEF JobInit, Init, ExitInv, MainInv, MaxfailInv, SignalInv, EndDbInv, OutcomesAgree,
         Exiting, Thread

\* A step that moves one thread on leaves the others where they are.
LEMMA Moves ==
  ASSUME JobTypeOK, NEW t \in Thread, NEW l, Goto(t, l)
  PROVE  pc'[t] = l /\ \A u \in Thread \ {t} : pc'[u] = pc[u]
  BY DEF JobTypeOK, Goto

\* The steps that move no thread.
LEMMA SameExit ==
  ASSUME JobTypeOK, ExitInv, UNCHANGED <<pc, row, file, code, working, closer>>,
         closed' = closed, up' = up, failures' # failures => working /\ failures'
  PROVE  ExitInv'
<1>1. Exiting' = Exiting
  BY DEF Exiting
<1>2. (up => MainInv /\ MaxfailInv /\ SignalInv)'
  BY DEF ExitInv, MainInv, MaxfailInv, SignalInv, JobTypeOK
<1>3. EndDbInv' /\ OutcomesAgree'
  BY <1>1 DEF ExitInv, EndDbInv, OutcomesAgree
<1> QED
  BY <1>1, <1>2, <1>3 DEF ExitInv

\* Only one thread is past its beginning.
LEMMA Alone ==
  ASSUME ExitInv, NEW t \in Thread, pc[t] # "idle"
  PROVE  \A u \in Thread \ {t} : pc[u] = "idle"
  BY DEF ExitInv, Exiting

\* The first thread to begin finds the job as it was left running.
LEMMA BeginExitInv ==
  ASSUME MaxExits <= 1, JobTypeOK, ExitInv, NEW t \in Thread,
         \/ BeginExit(t)
         \/ t = "main" /\ ListingFails
  PROVE  ExitInv'
<1>1. /\ up /\ up' = up /\ Cardinality(Exiting) < MaxExits
      /\ UNCHANGED <<row, file, failures, closed, closer>>
      /\ \E l \in {"closeDb", "saveFirst", "closeGate"} : Goto(t, l)
      /\ t = "main" => \/ pc' = [pc EXCEPT !["main"] = "closeDb"] /\ ~working'
                       \/ pc' = [pc EXCEPT !["main"] = "closeGate"] /\ code' = "error"
      /\ t = "maxfail" => pc' = [pc EXCEPT !["maxfail"] = "closeDb"] /\ working' /\ failures
      /\ t = "signal" => pc' = [pc EXCEPT !["signal"] = "saveFirst"]
  BY DEF BeginExit, ListingFails, Goto, vars
<1>2. Exiting = {}
  BY <1>1, FirstToExit
<1>3. /\ row = "running" /\ file /\ working /\ ~closed
      /\ \A u \in Thread : pc[u] = "idle"
  BY <1>2 DEF ExitInv, EndDbInv, Exiting
<1>4. pc'[t] # "idle" /\ \A u \in Thread \ {t} : pc'[u] = "idle"
  BY <1>1, <1>3, Moves
<1>5. Exiting' = {t}
  BY <1>4 DEF Exiting
<1>6. MainInv' /\ MaxfailInv' /\ SignalInv'
  <2>1. CASE t = "main"
    <3>1. pc'["main"] \in {"closeDb", "closeGate"} /\ (pc'["main"] = "closeDb" => ~working')
      BY <1>1, <2>1 DEF JobTypeOK, Thread
    <3> QED
      BY <1>1, <1>3, <1>4, <2>1, <3>1 DEF MainInv, MaxfailInv, SignalInv, Thread
  <2>2. CASE t = "maxfail"
    <3>1. pc'["maxfail"] = "closeDb" /\ working' /\ failures'
      BY <1>1, <2>2 DEF JobTypeOK, Thread
    <3> QED
      BY <1>1, <1>3, <1>4, <2>2, <3>1 DEF MainInv, MaxfailInv, SignalInv, Thread
  <2>3. CASE t = "signal"
    <3>1. pc'["signal"] = "saveFirst"
      BY <1>1, <2>3 DEF JobTypeOK, Thread
    <3> QED
      BY <1>1, <1>3, <1>4, <2>3, <3>1 DEF MainInv, MaxfailInv, SignalInv, Thread
  <2> QED
    BY <2>1, <2>2, <2>3 DEF Thread
<1>7. OutcomesAgree'
  BY <1>1 DEF OutcomesAgree
<1>8. EndDbInv'
  <2>1. ~closed' /\ Exiting' # {} /\ pc'[t] \notin {"endJob", "settle"}
    <3>1. pc'[t] \in {"closeDb", "saveFirst", "closeGate"}
      BY <1>1, Moves
    <3> QED
      BY <1>1, <1>3, <1>5, <3>1
  <2> QED
    BY <1>4, <2>1 DEF EndDbInv
<1> QED
  BY <1>5, <1>6, <1>7, <1>8 DEF ExitInv

\* What each step of the thread that ends the process makes of the row, the file
\* and the exit code.
LEMMA ExitMoves ==
  ASSUME JobTypeOK, ExitInv, NEW t \in Thread,
         ExitStep(t) \/ (t = "signal" /\ SaveOnSignal)
  PROVE  /\ up /\ pc[t] # "idle" /\ pc'[t] # "idle"
         /\ \A u \in Thread \ {t} : pc[u] = "idle" /\ pc'[u] = "idle"
         /\ UNCHANGED <<working, failures>>
<1>1. /\ up /\ pc[t] # "idle" /\ UNCHANGED <<working, failures>>
      /\ (UNCHANGED pc \/ \E l \in {"closeDb", "endJob", "settle", "closeGate", "exit"} : Goto(t, l))
  BY DEF ExitStep, SaveOnSignal, CloseDb, EndJob, SettleCheckpoint, CloseGate, ExitProcess,
         jobVars
<1>2. \A u \in Thread \ {t} : pc[u] = "idle"
  BY <1>1, Alone
<1>3. pc'[t] # "idle" /\ \A u \in Thread \ {t} : pc'[u] = pc[u]
  BY <1>1, Moves
<1> QED
  BY <1>1, <1>2, <1>3

LEMMA ExitStepInv ==
  ASSUME JobTypeOK, ExitInv, NEW t \in Thread,
         ExitStep(t) \/ (t = "signal" /\ SaveOnSignal)
  PROVE  ExitInv'
<1>1. /\ up /\ pc[t] # "idle" /\ pc'[t] # "idle"
      /\ \A u \in Thread \ {t} : pc[u] = "idle" /\ pc'[u] = "idle"
      /\ UNCHANGED <<working, failures>>
      /\ MainInv /\ MaxfailInv /\ SignalInv
  BY ExitMoves DEF ExitInv
<1>2. Exiting' = {t}
  BY <1>1 DEF Exiting
<1>3. /\ EndDbInv /\ working \in BOOLEAN /\ failures \in BOOLEAN /\ file \in BOOLEAN
      /\ closer \in [Thread -> {"idle", "waiting", "returned"}]
  BY ThreadAssumption DEF ExitInv, JobTypeOK, TypeOK
<1> SUFFICES /\ EndDbInv'
             /\ up' => MainInv' /\ MaxfailInv' /\ SignalInv'
             /\ OutcomesAgree'
  BY <1>2 DEF ExitInv
<1>4. CASE t = "signal" /\ SaveOnSignal
  <2>1. /\ pc' = [pc EXCEPT !["signal"] = "closeDb"] /\ pc'["signal"] = "closeDb"
        /\ file' \in {TRUE, file} /\ UNCHANGED <<row, closed, closer, up>>
    BY <1>4, Moves DEF SaveOnSignal, Goto, vars
  <2> QED
    BY <1>1, <1>2, <1>3, <1>4, <2>1
       DEF MainInv, MaxfailInv, SignalInv, OutcomesAgree, EndDbInv, Thread
<1>5. CASE CloseDb(t)
  <2>1. /\ pc[t] = "closeDb" /\ UNCHANGED <<row, file, code, up>>
        /\ \/ pc' = pc
           \/ pc'[t] = "endJob" /\ closer[t] = "returned" /\ UNCHANGED <<closed, closer>>
    BY <1>5, Moves DEF CloseDb, Close, CloseReturn, vars
  <2>2. MainInv' /\ MaxfailInv' /\ SignalInv' /\ OutcomesAgree'
    BY <1>1, <2>1 DEF MainInv, MaxfailInv, SignalInv, OutcomesAgree, Thread
  <2>3. EndDbInv'
    BY <1>1, <1>2, <2>1 DEF EndDbInv
  <2> QED
    BY <2>2, <2>3
<1>6. CASE EndJob(t)
  <2>1. /\ pc[t] = "endJob" /\ UNCHANGED <<file, code, up, closed, closer>>
        /\ pc'[t] = IF t = "signal" THEN "closeGate" ELSE "settle"
        /\ \/ row' = IF failures \/ working \/ t = "signal" THEN "failed" ELSE "completed"
           \/ row' = row
    BY <1>6, Moves DEF EndJob, vars
  <2>2. MainInv' /\ MaxfailInv' /\ SignalInv' /\ OutcomesAgree'
    BY <1>1, <1>3, <2>1 DEF MainInv, MaxfailInv, SignalInv, OutcomesAgree, Thread
  <2>3. EndDbInv'
    BY <1>1, <1>2, <1>3, <2>1 DEF EndDbInv
  <2> QED
    BY <2>2, <2>3
<1>7. CASE SettleCheckpoint(t)
  <2>1. /\ pc[t] = "settle" /\ UNCHANGED <<row, up, closed, closer>>
        /\ pc'[t] = IF t = "maxfail" THEN "exit" ELSE "closeGate"
        /\ file' \in {failures \/ working, file}
        /\ code' = IF failures \/ working THEN "error" ELSE "ok"
    BY <1>7, Moves DEF SettleCheckpoint, vars
  <2>2. MainInv' /\ MaxfailInv' /\ SignalInv' /\ OutcomesAgree'
    BY <1>1, <1>3, <2>1 DEF MainInv, MaxfailInv, SignalInv, OutcomesAgree, Thread
  <2>3. EndDbInv'
    BY <1>1, <1>2, <1>3, <2>1 DEF EndDbInv
  <2> QED
    BY <2>2, <2>3
<1>8. CASE CloseGate(t)
  <2>1. /\ pc[t] = "closeGate" /\ UNCHANGED <<row, file, code, up, closed, closer>>
        /\ pc' = pc \/ pc'[t] = "exit"
    BY <1>8, Moves DEF CloseGate, GateBuf!CloseBegin, GateBuf!CloseDone,
          GateBuf!CloseFlush, GateBuf!CloseReturn, dbVars, jobVars, vars
  <2>2. MainInv' /\ MaxfailInv' /\ SignalInv' /\ OutcomesAgree'
    BY <1>1, <2>1 DEF MainInv, MaxfailInv, SignalInv, OutcomesAgree, Thread
  <2>3. EndDbInv'
    BY <1>1, <1>2, <1>3, <2>1 DEF EndDbInv
  <2> QED
    BY <2>2, <2>3
<1>9. CASE ExitProcess(t)
  <2>1. /\ pc[t] = "exit" /\ ~up' /\ UNCHANGED <<row, file, pc, closed, closer>>
        /\ t = "main" => code' = code
    BY <1>9 DEF ExitProcess, dbVars
  <2>2. EndDbInv'
    BY <1>1, <1>2, <1>3, <2>1 DEF EndDbInv
  <2>3. OutcomesAgree'
    <3>1. CASE t = "main"
      BY <1>1, <2>1, <3>1 DEF MainInv, OutcomesAgree
    <3>2. CASE t = "maxfail"
      BY <1>1, <1>9, <2>1, <3>2 DEF MaxfailInv, OutcomesAgree, ExitProcess
    <3>3. CASE t = "signal"
      BY <1>1, <1>9, <2>1, <3>3 DEF SignalInv, OutcomesAgree, ExitProcess
    <3> QED
      BY <3>1, <3>2, <3>3 DEF Thread
  <2> QED
    BY <2>1, <2>2, <2>3
<1> QED
  BY <1>4, <1>5, <1>6, <1>7, <1>8, <1>9 DEF ExitStep

LEMMA ExitInvStep ==
  ASSUME MaxExits <= 1, JobTypeOK, ExitInv, [JobNext]_exitVars
  PROVE  ExitInv'
<1>1. CASE Gone \/ UNCHANGED exitVars
  <2>1. UNCHANGED <<pc, row, file, code, working, failures, closer, closed, up>>
    BY <1>1 DEF Gone, exitVars, vars, jobVars
  <2> QED
    BY <2>1 DEF ExitInv, MainInv, MaxfailInv, SignalInv, EndDbInv, OutcomesAgree, Exiting
<1>2. CASE Report
  <2>1. UNCHANGED <<pc, row, file, code, working, closer, closed, up>>
    BY <1>2 DEF Report, RecordObject, GateBuf!Add, dbVars, gateVars, endVars
  <2>2. failures' # failures => working /\ failures'
    BY <1>2 DEF Report
  <2> QED
    BY <2>1, <2>2, SameExit
<1>3. CASE DbStep \/ GateStep
  <2>1. UNCHANGED <<pc, row, file, code, working, failures, closer, closed, up>>
    BY <1>3 DEF DbStep, WorkerStep, Receive, Tick, Done, Drained, FlushSucceeds, FlushFails,
         GateStep, GateBuf!PeriodicTake, GateBuf!PeriodicIdle, GateBuf!PeriodicStop,
         GateBuf!WriteEnds, dbVars, jobVars, gateVars, endVars
  <2> QED
    BY <2>1, SameExit
<1>4. CASE ListingFails
  BY <1>4, BeginExitInv DEF Thread
<1>5. CASE SaveOnSignal
  BY <1>5, ExitStepInv DEF Thread
<1>6. ASSUME NEW t \in Thread, BeginExit(t) \/ ExitStep(t)
      PROVE  ExitInv'
  BY <1>6, BeginExitInv, ExitStepInv
<1> QED
  BY <1>1, <1>2, <1>3, <1>4, <1>5, <1>6 DEF JobNext

LEMMA ExitInvHolds == MaxExits <= 1 => (JobSpec => [](JobInv /\ ExitInv))
<1> SUFFICES ASSUME MaxExits <= 1 PROVE JobSpec => [](JobInv /\ ExitInv)
  OBVIOUS
<1>1. JobInit => JobInv /\ ExitInv
  BY JobTypeInit, ExitInvInit DEF JobInv
<1>2. JobInv /\ ExitInv /\ [JobNext]_exitVars => (JobInv /\ ExitInv)'
  <2> SUFFICES ASSUME JobInv, ExitInv, [JobNext]_exitVars
               PROVE  JobInv' /\ ExitInv'
    OBVIOUS
  <2>1. JobInv'
    BY JobInvStep
  <2> QED
    BY <2>1, ExitInvStep DEF JobInv
<1> QED
  BY <1>1, <1>2, PTL DEF JobSpec

\* When one thread ends the process, its exit code, the row of the job and the
\* checkpoint file agree: only a success is recorded as completed and takes the
\* file away.
THEOREM OutcomesOfOne == MaxExits <= 1 => (JobSpec => []OutcomesAgree)
<1>1. JobInv /\ ExitInv => OutcomesAgree
  BY DEF ExitInv
<1> QED
  BY <1>1, ExitInvHolds, PTL

\* Whichever thread ends the process, the job records see one of the ends AsyncDb
\* knows: the process ends behind the return of Close, or nobody has called it.
THEOREM DbRefined == MaxExits <= 1 => (JobSpec => DbSpec)
<1> SUFFICES ASSUME MaxExits <= 1 PROVE JobSpec => DbSpec
  OBVIOUS
<1>1. JobInit => Init
  BY DEF JobInit
<1>2. JobInv /\ ExitInv /\ [JobNext]_exitVars => [Next]_vars
  <2> SUFFICES ASSUME JobInv, ExitInv, [JobNext]_exitVars, ~[Next]_vars
               PROVE  FALSE
    OBVIOUS
  <2>1. PICK t \in Thread : ExitProcess(t)
    BY OnlyExitEnds
  <2>2. closer[t] = "returned" \/ ~closed
    BY <2>1 DEF ExitInv, EndDbInv, ExitProcess
  <2>3. Exit(t) \/ Abandon
    BY <2>1, <2>2 DEF Exit, Abandon, ExitProcess, dbVars, chVars, flushVars
  <2> QED
    BY <2>3, ThreadAssumption DEF Next, CloserStep
<1> QED
  BY <1>1, <1>2, ExitInvHolds, PTL DEF JobSpec, DbSpec, Spec

=============================================================================
