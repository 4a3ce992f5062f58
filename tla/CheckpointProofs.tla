-------------------------- MODULE CheckpointProofs --------------------------
(***************************************************************************)
(* Proofs about Checkpoint for every listing, crash and fault bound: the   *)
(* type invariant, and that the states in memory, in a snapshot under way  *)
(* and in the checkpoint file never claim more than what was handled.      *)
(***************************************************************************)
EXTENDS Checkpoint, SequenceTheorems, TLAPS

\* the control states in which a producer still relies on its prefix state
Relying == {"resend", "list", "send", "append"}
Listings == {"list", "send", "append"}

\* a key is accounted for by state s
Accounted(s, k) == k \in done \/ k \in s.pending \/ k \in s.failed

\* the process that is down has no memory
DownInv ==
    run = "down" =>
        /\ tracked = {} /\ reap = {} /\ spawned = {} /\ toRestore = {} /\ tasks = {}
        /\ prod = [p \in Prefix |-> "none"]
        /\ seen = [p \in Prefix |-> 0] /\ pos = [p \in Prefix |-> 0]
        /\ \A w \in Worker : wst[w] = "idle"

\* what the file may say of prefix p
FileState(p) ==
    /\ WellFormed(p, disk.state[p])
    /\ ~disk.state[p].isNew
    /\ disk.state[p].present => disk.exists

StatesInv ==
    /\ \A p \in Prefix :
          /\ WellFormed(p, ps[p])
          /\ WellFormed(p, snap.state[p]) /\ ~snap.state[p].isNew
          /\ FileState(p)
    /\ saving # "idle" => snap.exists

WorkerInv ==
    \A w \in Worker :
        /\ wst[w] # "idle" => held[w] \in Key
        /\ wst[w] = "copied" => held[w] \in done

\* the keys the manager can still find are in their states
TrackedInv ==
    \A k \in tracked : k \in ps[Owner(k)].pending \/ k \in ps[Owner(k)].failed

ReapInv ==
    \A p \in reap : ps[p].present /\ IsDone(ps[p]) /\ prod[p] \notin Relying

\* produce has accounted for all it has passed
ProducerInv ==
    \A p \in Prefix :
        /\ prod[p] \in Relying => ~ps[p].listDone
        /\ seen[p] <= Len(Listing[p])
        /\ prod[p] \in Listings =>
              \A k \in Recordable :
                  Owner(k) = p /\ Place(k) <= pos[p] => Accounted(ps[p], k)
        /\ prod[p] \in {"send", "append"} =>
              /\ pos[p] < Len(Listing[p])
              /\ Listing[p][pos[p] + 1] \in Key
        /\ prod[p] = "send" => Accounted(ps[p], Listing[p][pos[p] + 1])
        /\ prod[p] = "append" => Listing[p][pos[p] + 1] \notin Recordable

\* children: the root is listed once in a run, and a child is spawned once
SpawnInv ==
    /\ Root \notin spawned
    /\ Root \in toRestore => prod[Root] = "none"
    /\ prod[Root] \in {"none", "resend", "resendOnly"} => seen[Root] = 0
    /\ \A p \in spawned :
          ~ps[p].present \/ ps[p].isNew => ~ps[p].listDone /\ prod[p] \notin Relying
    /\ \A i \in DOMAIN Listing[Root] :
          LET p == Listing[Root][i]
          IN  p \in Prefix /\ seen[Root] < i =>
                  /\ p \notin spawned
                  /\ ~ps[p].isNew
                  /\ prod[p] \in Relying => ps[p].present

IInv ==
    /\ TypeOK /\ DownInv /\ StatesInv /\ WorkerInv /\ TrackedInv
    /\ ReapInv /\ ProducerInv /\ SpawnInv /\ StatesTruthful

-----------------------------------------------------------------------------
(* Facts about the listings.                                               *)

\* A listing is a sequence over keys and prefixes.
LEMMA ListingFacts ==
    ASSUME NEW p \in Prefix
    PROVE  /\ Listing[p] \in Seq(Key \cup Prefix)
           /\ Len(Listing[p]) \in Nat
           /\ DOMAIN Listing[p] = 1..Len(Listing[p])
           /\ \A i \in 1..Len(Listing[p]) : Listing[p][i] \in Key \cup Prefix
<1>1. Listing[p] \in Seq(Key \cup Prefix)
  BY ListingAssumption
<1>2. QED
  BY <1>1

\* Owner and Place name the only place of a key.
LEMMA PlaceFacts ==
    /\ \A k \in Key : /\ Owner(k) \in Prefix
                      /\ Place(k) \in 1..Len(Listing[Owner(k)])
                      /\ Listing[Owner(k)][Place(k)] = k
    /\ \A p \in Prefix : \A i \in 1..Len(Listing[p]) :
          Listing[p][i] \in Key => Owner(Listing[p][i]) = p /\ Place(Listing[p][i]) = i
<1>1. ASSUME NEW k \in Key
      PROVE  /\ Owner(k) \in Prefix
             /\ Place(k) \in 1..Len(Listing[Owner(k)])
             /\ Listing[Owner(k)][Place(k)] = k
  <2>1. \E p \in Prefix : \E i \in DOMAIN Listing[p] : Listing[p][i] = k
    BY PlaceAssumption
  <2>2. Owner(k) \in Prefix /\ \E i \in DOMAIN Listing[Owner(k)] : Listing[Owner(k)][i] = k
    BY <2>1 DEF Owner
  <2>3. Place(k) \in DOMAIN Listing[Owner(k)] /\ Listing[Owner(k)][Place(k)] = k
    BY <2>2 DEF Place
  <2>4. QED
    BY <2>2, <2>3, ListingFacts
<1>2. ASSUME NEW p \in Prefix, NEW i \in 1..Len(Listing[p]), Listing[p][i] \in Key
      PROVE  Owner(Listing[p][i]) = p /\ Place(Listing[p][i]) = i
  <2>1. /\ Owner(Listing[p][i]) \in Prefix
        /\ Place(Listing[p][i]) \in 1..Len(Listing[Owner(Listing[p][i])])
        /\ Listing[Owner(Listing[p][i])][Place(Listing[p][i])] = Listing[p][i]
    BY <1>1, <1>2
  <2>2. i \in DOMAIN Listing[p]
        /\ Place(Listing[p][i]) \in DOMAIN Listing[Owner(Listing[p][i])]
    BY <2>1, ListingFacts
  <2>3. QED
    BY <2>1, <2>2, PlaceAssumption
<1>3. QED
  BY <1>1, <1>2

\* Only the root lists prefixes, and never itself.
LEMMA ChildFacts ==
    ASSUME NEW p \in Prefix, NEW i \in 1..Len(Listing[p]), Listing[p][i] \in Prefix
    PROVE  /\ p = Root /\ Listing[p][i] # Root
           /\ \A j \in 1..Len(Listing[p]) : Listing[p][j] = Listing[p][i] => i = j
<1>1. i \in DOMAIN Listing[p] /\ 1..Len(Listing[p]) = DOMAIN Listing[p]
  BY ListingFacts
<1>2. QED
  BY <1>1, DepthAssumption, PlaceAssumption

\* The empty states are well formed.
LEMMA StateFacts ==
    /\ NoState \in PrefixState /\ NewState \in PrefixState
    /\ \A p \in Prefix : WellFormed(p, NoState) /\ WellFormed(p, NewState)
    /\ NoCheckpoint \in Snapshot
<1>1. NoState \in PrefixState /\ NewState \in PrefixState
  BY DEF NoState, NewState, PrefixState
<1>2. \A p \in Prefix : WellFormed(p, NoState) /\ WellFormed(p, NewState)
  BY ListingFacts DEF WellFormed, NoState, NewState
<1>3. NoCheckpoint \in Snapshot
  BY <1>1 DEF NoCheckpoint, Snapshot
<1>4. QED
  BY <1>1, <1>2, <1>3

-----------------------------------------------------------------------------
(* The initial states.                                                     *)

\* The first run starts with empty memory and the file it is given.
LEMMA InitInv == Init => IInv
<1> SUFFICES ASSUME Init PROVE IInv
  OBVIOUS
<1> USE DEF Init
<1>2. TypeOK
  BY StateFacts, FirstCheckpointAssumption DEF TypeOK, Active
<1>3. DownInv
  BY DEF DownInv
<1>4. StatesInv
  BY StateFacts, FirstCheckpointAssumption DEF StatesInv, FileState, NoCheckpoint, NoState
<1>5. WorkerInv /\ TrackedInv /\ ReapInv
  BY DEF WorkerInv, TrackedInv, ReapInv
<1>6. ProducerInv
  BY ListingFacts DEF ProducerInv, Relying, Listings
<1>7. SpawnInv
  BY ListingFacts, ListingAssumption DEF SpawnInv, Relying, NoState
<1>8. StatesTruthful
  BY PlaceFacts DEF StatesTruthful, Passed, NoState, NoCheckpoint, Recordable
<1>9. QED
  BY <1>2, <1>3, <1>4, <1>5, <1>6, <1>7, <1>8 DEF IInv

-----------------------------------------------------------------------------
(* Updates of a prefix state.                                              *)

\* GetOrCreate returns what is recorded, in a state that is present.
LEMMA GetFacts ==
    ASSUME TypeOK, StatesInv, NEW p \in Prefix
    PROVE  /\ GetOrCreate(p) \in PrefixState
           /\ GetOrCreate(p).present
           /\ GetOrCreate(p).listDone = ps[p].listDone
           /\ GetOrCreate(p).last = ps[p].last
           /\ GetOrCreate(p).pending = ps[p].pending
           /\ GetOrCreate(p).failed = ps[p].failed
           /\ ps[p].present => GetOrCreate(p) = ps[p]
           /\ WellFormed(p, GetOrCreate(p))
<1>1. CASE ps[p].present
  BY <1>1 DEF GetOrCreate, TypeOK, StatesInv
<1>2. CASE ~ps[p].present
  <2>1. ps[p] = NoState
    BY <1>2 DEF StatesInv, FileState, WellFormed
  <2>2. GetOrCreate(p) = NewState
    BY <1>2 DEF GetOrCreate
  <2>3. QED
    BY <1>2, <2>1, <2>2, StateFacts DEF NoState, NewState
<1>3. QED
  BY <1>1, <1>2

\* UpdateState changes one state, and marks it for removal when it is done.
LEMMA UpdateFacts ==
    ASSUME TypeOK, NEW p \in Prefix, NEW s \in PrefixState, UpdateState(p, s)
    PROVE  /\ ps' \in [Prefix -> PrefixState]
           /\ ps'[p] = s
           /\ \A q \in Prefix : q # p => ps'[q] = ps[q]
           /\ reap' \subseteq Prefix
           /\ reap \subseteq reap'
           /\ \A q \in reap' : q \in reap \/ (q = p /\ IsDone(s))
BY DEF UpdateState, TypeOK

-----------------------------------------------------------------------------
(* One lemma per action.                                                   *)

\* Removing a state: it was done, so nothing tracked or listed relies on it.
LEMMA ReapPrefixInv ==
    ASSUME IInv, NEW p \in Prefix, ReapPrefix(p)
    PROVE  IInv'
<1> USE DEF IInv, ReapPrefix, prodVars, workVars, delVars, saveVars
<1>1. TypeOK'
  BY StateFacts DEF TypeOK
<1>2. /\ ps' \in [Prefix -> PrefixState] /\ ps'[p] = NoState
      /\ \A q \in Prefix : q # p => ps'[q] = ps[q]
  BY StateFacts DEF TypeOK
<1>3. prod[p] \notin Relying /\ ps[p].pending = {} /\ ps[p].failed = {}
  BY DEF ReapInv, IsDone
<1>4. DownInv'
  BY DEF DownInv
<1>5. StatesInv'
  BY <1>2, StateFacts DEF StatesInv, FileState
<1>6. WorkerInv'
  BY DEF WorkerInv
<1>7. TrackedInv'
  BY <1>2, <1>3, PlaceFacts DEF TrackedInv, TypeOK
<1>8. ReapInv'
  BY <1>2 DEF ReapInv, IsDone, TypeOK
<1>9. ProducerInv'
  BY <1>2, <1>3 DEF ProducerInv, Relying, Listings, Accounted, TypeOK, NoState
<1>10. SpawnInv'
  BY <1>2, <1>3, ListingFacts, ListingAssumption DEF SpawnInv, TypeOK, NoState
<1>11. StatesTruthful'
  BY <1>2, PlaceFacts DEF StatesTruthful, Passed, NoState, Recordable
<1>12. QED
  BY <1>1, <1>4, <1>5, <1>6, <1>7, <1>8, <1>9, <1>10, <1>11

\* Queueing a restored key changes no state of a prefix.
LEMMA ResendInv ==
    ASSUME IInv, NEW p \in Prefix, Resend(p)
    PROVE  IInv'
<1> USE DEF IInv, Resend, prodVars, mgrVars, workVars, delVars, saveVars
<1>1. TypeOK'
  BY DEF TypeOK
<1>2. DownInv'
  BY DEF DownInv
<1>3. StatesInv'
  BY DEF StatesInv, FileState
<1>4. WorkerInv'
  BY DEF WorkerInv
<1>5. TrackedInv'
  BY DEF TrackedInv
<1>6. ReapInv'
  BY DEF ReapInv
<1>7. ProducerInv'
  BY DEF ProducerInv, Relying, Listings, Accounted
<1>8. SpawnInv'
  BY DEF SpawnInv
<1>9. StatesTruthful'
  BY DEF StatesTruthful
<1>10. QED
  BY <1>1, <1>2, <1>3, <1>4, <1>5, <1>6, <1>7, <1>8, <1>9

\* produce passes a key it has made pending.
LEMMA SendTaskInv ==
    ASSUME IInv, NEW p \in Prefix, SendTask(p)
    PROVE  IInv'
<1> USE DEF IInv, SendTask, prodVars, mgrVars, workVars, delVars, saveVars
<1>1. /\ pos[p] + 1 \in 1..Len(Listing[p])
      /\ Listing[p][pos[p] + 1] \in Key
      /\ Accounted(ps[p], Listing[p][pos[p] + 1])
  BY ListingFacts DEF ProducerInv, TypeOK
<1>2. TypeOK'
  BY <1>1 DEF TypeOK, Active
<1>3. DownInv'
  BY DEF DownInv
<1>4. StatesInv'
  BY DEF StatesInv, FileState
<1>5. WorkerInv'
  BY DEF WorkerInv
<1>6. TrackedInv'
  BY DEF TrackedInv
<1>7. ReapInv'
  BY DEF ReapInv, Relying
<1>8. ProducerInv'
  BY <1>1, PlaceFacts DEF ProducerInv, TypeOK, Relying, Listings, Accounted, Recordable
<1>9. SpawnInv'
  BY DEF SpawnInv, TypeOK, Relying
<1>10. StatesTruthful'
  BY DEF StatesTruthful
<1>11. QED
  BY <1>2, <1>3, <1>4, <1>5, <1>6, <1>7, <1>8, <1>9, <1>10

\* produce passes a source directory, which is not recordable.
LEMMA AppendSrcDelayInv ==
    ASSUME IInv, NEW p \in Prefix, AppendSrcDelay(p)
    PROVE  IInv'
<1> USE DEF IInv, AppendSrcDelay, prodVars, mgrVars, workVars, delVars, saveVars
<1>1. /\ pos[p] + 1 \in 1..Len(Listing[p])
      /\ Listing[p][pos[p] + 1] \in Key
      /\ Listing[p][pos[p] + 1] \notin Recordable
  BY ListingFacts DEF ProducerInv, TypeOK
<1>2. TypeOK'
  BY <1>1 DEF TypeOK, Active
<1>3. DownInv'
  BY DEF DownInv
<1>4. StatesInv'
  BY DEF StatesInv, FileState
<1>5. WorkerInv'
  BY DEF WorkerInv
<1>6. TrackedInv'
  BY DEF TrackedInv
<1>7. ReapInv'
  BY DEF ReapInv, Relying
<1>8. ProducerInv'
  BY <1>1, PlaceFacts DEF ProducerInv, TypeOK, Relying, Listings, Accounted, Recordable
<1>9. SpawnInv'
  BY DEF SpawnInv, TypeOK, Relying
<1>10. StatesTruthful'
  BY DEF StatesTruthful
<1>11. QED
  BY <1>2, <1>3, <1>4, <1>5, <1>6, <1>7, <1>8, <1>9, <1>10

\* A producer that returns relies on its state no longer.
LEMMA ProducerDoneInv ==
    ASSUME IInv, NEW p \in Prefix, ProducerDone(p)
    PROVE  IInv'
<1> USE DEF IInv, ProducerDone, prodVars, mgrVars, workVars, delVars, saveVars
<1>1. TypeOK'
  BY DEF TypeOK, Active
<1>2. DownInv'
  BY DEF DownInv, TypeOK
<1>3. StatesInv'
  BY DEF StatesInv, FileState
<1>4. WorkerInv'
  BY DEF WorkerInv
<1>5. TrackedInv'
  BY DEF TrackedInv
<1>6. ReapInv'
  BY DEF ReapInv, TypeOK, Relying
<1>7. ProducerInv'
  BY DEF ProducerInv, TypeOK, Relying, Listings, Accounted
<1>8. SpawnInv'
  BY DEF SpawnInv, TypeOK, Relying
<1>9. StatesTruthful'
  BY DEF StatesTruthful
<1>10. QED
  BY <1>1, <1>2, <1>3, <1>4, <1>5, <1>6, <1>7, <1>8, <1>9

\* A worker takes a key from the channel.
LEMMA FetchInv ==
    ASSUME IInv, NEW w \in Worker, Fetch(w)
    PROVE  IInv'
<1> USE DEF IInv, Fetch, prodVars, mgrVars, workVars, delVars, saveVars
<1>1. TypeOK'
  BY DEF TypeOK
<1>2. DownInv'
  BY DEF DownInv
<1>3. StatesInv'
  BY DEF StatesInv, FileState
<1>4. WorkerInv'
  BY DEF WorkerInv, TypeOK
<1>5. TrackedInv'
  BY DEF TrackedInv
<1>6. ReapInv'
  BY DEF ReapInv
<1>7. ProducerInv'
  BY DEF ProducerInv, Accounted
<1>8. SpawnInv'
  BY DEF SpawnInv
<1>9. StatesTruthful'
  BY DEF StatesTruthful
<1>10. QED
  BY <1>1, <1>2, <1>3, <1>4, <1>5, <1>6, <1>7, <1>8, <1>9

\* A worker handles the key it holds.
LEMMA CopyInv ==
    ASSUME IInv, NEW w \in Worker, Copy(w)
    PROVE  IInv'
<1> USE DEF IInv, Copy, prodVars, mgrVars, workVars, delVars, saveVars
<1>11. faults' \in Nat
  BY DEF TypeOK
<1>12. failures' \in BOOLEAN
  <2>1. failures' = TRUE \/ failures' = failures
    OBVIOUS
  <2>2. QED
    BY <2>1, Zenon DEF TypeOK
<1>13. done' \subseteq Key
  BY DEF TypeOK, WorkerInv
<1>1. TypeOK'
  BY <1>11, <1>12, <1>13 DEF TypeOK
<1>2. DownInv'
  BY DEF DownInv
<1>3. StatesInv'
  BY DEF StatesInv, FileState
<1>4. WorkerInv'
  BY DEF WorkerInv, TypeOK
<1>5. TrackedInv'
  BY DEF TrackedInv
<1>6. ReapInv'
  BY DEF ReapInv
<1>7. ProducerInv'
  BY DEF ProducerInv, Accounted
<1>8. SpawnInv'
  BY DEF SpawnInv
<1>9. StatesTruthful'
  BY DEF StatesTruthful
<1>10. QED
  BY <1>1, <1>2, <1>3, <1>4, <1>5, <1>6, <1>7, <1>8, <1>9

\* Closing the channel changes only the stage of the run.
LEMMA CloseTasksInv ==
    ASSUME IInv, CloseTasks
    PROVE  IInv'
<1> USE DEF IInv, CloseTasks, prodVars, mgrVars, workVars, delVars, saveVars
<1>1. TypeOK'
  BY DEF TypeOK
<1>2. DownInv'
  BY DEF DownInv
<1>3. StatesInv'
  BY DEF StatesInv, FileState
<1>4. WorkerInv'
  BY DEF WorkerInv
<1>5. TrackedInv'
  BY DEF TrackedInv
<1>6. ReapInv'
  BY DEF ReapInv
<1>7. ProducerInv'
  BY DEF ProducerInv, Accounted
<1>8. SpawnInv'
  BY DEF SpawnInv
<1>9. StatesTruthful'
  BY DEF StatesTruthful
<1>10. QED
  BY <1>1, <1>2, <1>3, <1>4, <1>5, <1>6, <1>7, <1>8, <1>9

\* So does the return of the workers.
LEMMA WorkersDoneInv ==
    ASSUME IInv, WorkersDone
    PROVE  IInv'
<1> USE DEF IInv, WorkersDone, prodVars, mgrVars, workVars, delVars, saveVars
<1>1. TypeOK'
  BY DEF TypeOK
<1>2. DownInv'
  BY DEF DownInv
<1>3. StatesInv'
  BY DEF StatesInv, FileState
<1>4. WorkerInv'
  BY DEF WorkerInv
<1>5. TrackedInv'
  BY DEF TrackedInv
<1>6. ReapInv'
  BY DEF ReapInv
<1>7. ProducerInv'
  BY DEF ProducerInv, Accounted
<1>8. SpawnInv'
  BY DEF SpawnInv
<1>9. StatesTruthful'
  BY DEF StatesTruthful
<1>10. QED
  BY <1>1, <1>2, <1>3, <1>4, <1>5, <1>6, <1>7, <1>8, <1>9


\* A deleted checkpoint file claims nothing.
LEMMA DropCheckpointInv ==
    ASSUME IInv, DropCheckpoint
    PROVE  IInv'
<1>1. /\ run = "ending" /\ run' = "sweeping" /\ disk' \in {disk, NoCheckpoint}
      /\ UNCHANGED <<mgrVars, prodVars, tasks, workVars, delVars, saveVars, done, crashes>>
  BY DEF DropCheckpoint, DroppedFile
<1>2. faults' \in Nat
  BY DEF DropCheckpoint, IInv, TypeOK
<1>3. failures' \in BOOLEAN
  <2>1. failures' = TRUE \/ failures' = failures
    BY DEF DropCheckpoint
  <2>2. QED
    BY <2>1, Zenon DEF IInv, TypeOK
<1> USE <1>1 DEF IInv, prodVars, mgrVars, workVars, delVars, saveVars
<1>4. TypeOK'
  BY <1>2, <1>3, StateFacts DEF TypeOK
<1>5. DownInv'
  BY DEF DownInv
<1>6. StatesInv'
  <2>1. CASE disk' = disk
    BY <2>1 DEF StatesInv, FileState
  <2>2. CASE disk' = NoCheckpoint
    BY <2>2, StateFacts DEF StatesInv, FileState, NoCheckpoint, NoState
  <2>3. QED
    BY <1>1, <2>1, <2>2
<1>7. WorkerInv'
  BY DEF WorkerInv
<1>8. TrackedInv'
  BY DEF TrackedInv
<1>9. ReapInv'
  BY DEF ReapInv
<1>10. ProducerInv'
  BY DEF ProducerInv, Accounted
<1>11. SpawnInv'
  BY DEF SpawnInv
<1>12. StatesTruthful'
  <2>1. CASE disk' = disk
    BY <2>1 DEF StatesTruthful
  <2>2. CASE disk' = NoCheckpoint
    BY <2>2, PlaceFacts DEF StatesTruthful, Passed, NoCheckpoint, NoState, Recordable
  <2>3. QED
    BY <1>1, <2>1, <2>2
<1>13. QED
  BY <1>4, <1>5, <1>6, <1>7, <1>8, <1>9, <1>10, <1>11, <1>12

\* A delayed delete can only add a handled key.
LEMMA DelayedDeleteInv ==
    ASSUME IInv, DelayedDelete
    PROVE  IInv'
<1> USE DEF IInv, DelayedDelete, prodVars, mgrVars, workVars, delVars, saveVars
<1>1. done' \subseteq Key /\ swept' \subseteq Key
  BY DEF TypeOK
<1>2. faults' \in Nat
  BY DEF TypeOK
<1>3. failures' \in BOOLEAN
  BY DEF TypeOK
<1>4. TypeOK'
  BY <1>1, <1>2, <1>3 DEF TypeOK
<1>5. DownInv'
  BY DEF DownInv
<1>6. StatesInv'
  BY DEF StatesInv, FileState
<1>7. WorkerInv'
  BY DEF WorkerInv
<1>8. TrackedInv'
  BY DEF TrackedInv
<1>9. ReapInv'
  BY DEF ReapInv
<1>10. ProducerInv'
  BY DEF ProducerInv, Accounted
<1>11. SpawnInv'
  BY DEF SpawnInv
<1>12. StatesTruthful'
  BY DEF StatesTruthful
<1>13. QED
  BY <1>4, <1>5, <1>6, <1>7, <1>8, <1>9, <1>10, <1>11, <1>12

\* Only the file is replaced, by one whose states are well formed.
LEMMA DiskStates ==
    ASSUME StatesInv, UNCHANGED <<ps, saving, snap>>,
           \A p \in Prefix : FileState(p)'
    PROVE  StatesInv'
BY DEF StatesInv

\* The end of a successful run deletes the file, or leaves it.
LEMMA ExitCompletedInv ==
    ASSUME IInv, ExitCompleted
    PROVE  IInv'
<1>1. disk' = NoCheckpoint \/ disk' = disk
  BY DEF ExitCompleted
<1>2. ASSUME NEW p \in Prefix PROVE FileState(p)'
  <2>1. CASE disk' = NoCheckpoint
    BY <2>1, StateFacts DEF FileState, NoCheckpoint, NoState
  <2>2. CASE disk' = disk
    <3>1. FileState(p)
      BY DEF IInv, StatesInv
    <3>2. QED
      BY <2>2, <3>1 DEF FileState
  <2>3. QED
    BY <1>1, <2>1, <2>2
<1>3. UNCHANGED <<ps, saving, snap>>
  BY DEF ExitCompleted, mgrVars, saveVars
<1>6. StatesInv'
  <2>1. StatesInv
    BY DEF IInv
  <2>2. QED
    BY ONLY <2>1, <1>2, <1>3, DiskStates
<1> USE DEF IInv, ExitCompleted, prodVars, mgrVars, workVars, delVars, saveVars
<1>4. TypeOK'
  BY StateFacts DEF TypeOK
<1>5. DownInv'
  BY DEF DownInv
<1>7. WorkerInv'
  BY DEF WorkerInv
<1>8. TrackedInv'
  BY DEF TrackedInv
<1>9. ReapInv'
  BY DEF ReapInv
<1>10. ProducerInv'
  BY DEF ProducerInv, Accounted
<1>11. SpawnInv'
  BY DEF SpawnInv
<1>12. StatesTruthful'
  BY PlaceFacts DEF StatesTruthful, Passed, NoCheckpoint, NoState, Recordable
<1>13. QED
  BY <1>4, <1>5, <1>6, <1>7, <1>8, <1>9, <1>10, <1>11, <1>12

\* A save starts from an empty snapshot.
LEMMA SaveBeginInv ==
    ASSUME IInv, SaveBegin
    PROVE  IInv'
<1> USE DEF IInv, SaveBegin, prodVars, mgrVars, workVars, delVars, saveVars
<1>1. snap' \in Snapshot /\ snap'.exists /\ snap'.state = [p \in Prefix |-> NoState]
  BY StateFacts DEF Snapshot
<1>2. TypeOK'
  BY <1>1 DEF TypeOK
<1>3. DownInv'
  BY DEF DownInv
<1>4. StatesInv'
  BY <1>1, StateFacts DEF StatesInv, FileState, NoState
<1>5. WorkerInv'
  BY DEF WorkerInv
<1>6. TrackedInv'
  BY DEF TrackedInv
<1>7. ReapInv'
  BY DEF ReapInv
<1>8. ProducerInv'
  BY DEF ProducerInv, Accounted
<1>9. SpawnInv'
  BY DEF SpawnInv
<1>10. StatesTruthful'
  BY <1>1, PlaceFacts DEF StatesTruthful, Passed, NoState, Recordable
<1>11. QED
  BY <1>2, <1>3, <1>4, <1>5, <1>6, <1>7, <1>8, <1>9, <1>10

\* The file becomes the snapshot, which is truthful.
LEMMA SaveWriteInv ==
    ASSUME IInv, SaveWrite
    PROVE  IInv'
<1> USE DEF IInv, SaveWrite, prodVars, mgrVars, workVars, delVars, saveVars
<1>1. TypeOK'
  BY StateFacts DEF TypeOK
<1>2. DownInv'
  BY DEF DownInv
<1>3. StatesInv'
  BY StateFacts DEF StatesInv, FileState, NoCheckpoint, NoState
<1>4. WorkerInv'
  BY DEF WorkerInv
<1>5. TrackedInv'
  BY DEF TrackedInv
<1>6. ReapInv'
  BY DEF ReapInv
<1>7. ProducerInv'
  BY DEF ProducerInv, Accounted
<1>8. SpawnInv'
  BY DEF SpawnInv
<1>9. StatesTruthful'
  BY PlaceFacts DEF StatesTruthful, Passed, NoState, NoCheckpoint, Recordable
<1>10. QED
  BY <1>1, <1>2, <1>3, <1>4, <1>5, <1>6, <1>7, <1>8, <1>9

\* The delay-delete lists are no part of a prefix state.
LEMMA SaveDelayListsInv ==
    ASSUME IInv, SaveDelayLists
    PROVE  IInv'
<1> USE DEF IInv, SaveDelayLists, prodVars, mgrVars, workVars, delVars, saveVars
<1>1. snap' \in Snapshot /\ snap'.exists = snap.exists /\ snap'.state = snap.state
  BY DEF TypeOK, Snapshot
<1>2. TypeOK'
  BY <1>1 DEF TypeOK
<1>3. DownInv'
  BY DEF DownInv
<1>4. StatesInv'
  BY <1>1 DEF StatesInv, FileState
<1>5. WorkerInv'
  BY DEF WorkerInv
<1>6. TrackedInv'
  BY DEF TrackedInv
<1>7. ReapInv'
  BY DEF ReapInv
<1>8. ProducerInv'
  BY DEF ProducerInv, Accounted
<1>9. SpawnInv'
  BY DEF SpawnInv
<1>10. StatesTruthful'
  BY <1>1 DEF StatesTruthful
<1>11. QED
  BY <1>2, <1>3, <1>4, <1>5, <1>6, <1>7, <1>8, <1>9, <1>10

\* Two states with the same fields are the same.
LEMMA SameState ==
    ASSUME NEW s \in PrefixState, NEW t \in PrefixState,
           s.present = t.present, s.isNew = t.isNew, s.listDone = t.listDone,
           s.last = t.last, s.pending = t.pending, s.failed = t.failed
    PROVE  s = t
BY DEF PrefixState

\* Leaving isNew out changes nothing else.
LEMMA PersistedFacts ==
    ASSUME NEW s \in PrefixState
    PROVE  /\ Persisted(s) \in PrefixState
           /\ ~Persisted(s).isNew
           /\ Persisted(s).present = s.present
           /\ \A k : Passed(Persisted(s), k) <=> Passed(s, k)
           /\ \A p \in Prefix : WellFormed(p, s) => WellFormed(p, Persisted(s))
<1>1. /\ Persisted(s).present = s.present /\ Persisted(s).isNew = FALSE
      /\ Persisted(s).listDone = s.listDone /\ Persisted(s).last = s.last
      /\ Persisted(s).pending = s.pending /\ Persisted(s).failed = s.failed
  BY DEF Persisted, PrefixState
<1>2. Persisted(s) \in PrefixState
  BY DEF Persisted, PrefixState
<1>3. \A k : Passed(Persisted(s), k) <=> Passed(s, k)
  BY <1>1 DEF Passed
<1>4. ASSUME NEW p \in Prefix, WellFormed(p, s) PROVE WellFormed(p, Persisted(s))
  <2>1. CASE s = NoState
    BY <1>1, <1>2, <2>1, SameState, StateFacts DEF NoState
  <2>2. CASE s # NoState
    BY <1>1, <1>4, <2>2 DEF WellFormed
  <2>3. QED
    BY <2>1, <2>2
<1>5. QED
  BY <1>1, <1>2, <1>3, <1>4

\* A copied state claims what the state in memory claims.
LEMMA SavePrefixInv ==
    ASSUME IInv, SavePrefix
    PROVE  IInv'
<1> USE DEF IInv, SavePrefix, prodVars, mgrVars, workVars, delVars
<1> DEFINE Good == /\ snap' \in Snapshot /\ snap'.exists = snap.exists
                   /\ \A p \in Prefix : snap'.state[p] \in {snap.state[p], Persisted(ps[p])}
<1>1. Good
  <2>1. CASE snap' = snap
    BY <2>1 DEF TypeOK
  <2>2. ASSUME NEW p \in copying,
               snap' = [snap EXCEPT !.state = [@ EXCEPT ![p] = Persisted(ps[p])]]
        PROVE  Good
    <3>1. p \in Prefix /\ Persisted(ps[p]) \in PrefixState
      BY PersistedFacts DEF TypeOK
    <3>2. QED
      BY <2>2, <3>1 DEF TypeOK, Snapshot
  <2>3. QED
    BY <2>1, <2>2
<1>2. TypeOK'
  BY <1>1 DEF TypeOK
<1>3. DownInv'
  BY DEF DownInv
<1>4. StatesInv'
  BY <1>1, PersistedFacts DEF StatesInv, FileState, TypeOK
<1>5. WorkerInv'
  BY DEF WorkerInv
<1>6. TrackedInv'
  BY DEF TrackedInv
<1>7. ReapInv'
  BY DEF ReapInv
<1>8. ProducerInv'
  BY DEF ProducerInv, Accounted
<1>9. SpawnInv'
  BY DEF SpawnInv
<1>10. StatesTruthful'
  <2>1. ASSUME NEW k \in Recordable, Passed(snap'.state[Owner(k)], k) PROVE k \in done
    <3>1. Owner(k) \in Prefix /\ ps[Owner(k)] \in PrefixState
      BY PlaceFacts DEF Recordable, TypeOK
    <3>2. Passed(snap.state[Owner(k)], k) \/ Passed(ps[Owner(k)], k)
      BY <1>1, <2>1, <3>1, PersistedFacts
    <3>3. QED
      BY <3>2 DEF StatesTruthful
  <2>2. QED
    BY <2>1 DEF StatesTruthful
<1>11. QED
  BY <1>2, <1>3, <1>4, <1>5, <1>6, <1>7, <1>8, <1>9, <1>10

\* The process ends: only the file and the history remain.
LEMMA VanishInv ==
    ASSUME IInv, Vanish, run' = "down", done' = done,
           disk' \in Snapshot, crashes' \in Nat, faults' \in Nat,
           \A p \in Prefix : FileState(p)',
           \A k \in Recordable : Passed(disk'.state[Owner(k)], k) => k \in done
    PROVE  IInv'
<1> USE DEF IInv, Vanish
<1>1. TypeOK'
  BY StateFacts DEF TypeOK
<1>2. DownInv'
  BY DEF DownInv
<1>3. StatesInv'
  BY StateFacts DEF StatesInv, NoCheckpoint, NoState
<1>4. WorkerInv' /\ TrackedInv' /\ ReapInv'
  BY DEF WorkerInv, TrackedInv, ReapInv
<1>5. ProducerInv'
  BY ListingFacts DEF ProducerInv, Relying, Listings
<1>6. SpawnInv'
  BY ListingFacts, ListingAssumption DEF SpawnInv, Relying, NoState
<1>7. StatesTruthful'
  BY PlaceFacts DEF StatesTruthful, Passed, NoState, NoCheckpoint, Recordable
<1>8. QED
  BY <1>1, <1>2, <1>3, <1>4, <1>5, <1>6, <1>7

\* The file that is there may stay.
LEMMA DiskFacts ==
    ASSUME IInv
    PROVE  /\ disk \in Snapshot
           /\ \A p \in Prefix : FileState(p)
           /\ \A k \in Recordable : Passed(disk.state[Owner(k)], k) => k \in done
BY DEF IInv, TypeOK, StatesInv, StatesTruthful

\* A crash leaves the file.
LEMMA CrashInv ==
    ASSUME IInv, Crash
    PROVE  IInv'
<1>1. UNCHANGED <<disk, done, faults>> /\ crashes' = crashes + 1 /\ run' = "down" /\ Vanish
  BY DEF Crash
<1>2. crashes' \in Nat /\ faults' \in Nat
  BY <1>1 DEF IInv, TypeOK
<1>3. \A p \in Prefix : FileState(p)'
  BY <1>1, DiskFacts DEF FileState
<1>4. QED
  BY <1>1, <1>2, <1>3, DiskFacts, VanishInv

\* The checkpoint of a failed run is copied from the states in memory.
LEMMA ExitFailedInv ==
    ASSUME IInv, ExitFailed
    PROVE  IInv'
<1>1. UNCHANGED <<done, crashes>> /\ run' = "down" /\ Vanish
  BY DEF ExitFailed
<1>2. crashes' \in Nat /\ faults' \in Nat
  BY DEF ExitFailed, IInv, TypeOK
<1>3. CASE disk' = disk
  <2>1. \A p \in Prefix : FileState(p)'
    BY <1>3, DiskFacts DEF FileState
  <2>2. QED
    BY <1>1, <1>2, <1>3, <2>1, DiskFacts, VanishInv
<1>4. CASE disk' = CurrentSnapshot
  <2>1. /\ disk' \in Snapshot /\ disk'.exists
        /\ \A p \in Prefix : disk'.state[p] = Persisted(ps[p])
    BY <1>4, PersistedFacts DEF CurrentSnapshot, IInv, TypeOK, Snapshot
  <2>2. \A p \in Prefix : ps[p] \in PrefixState /\ WellFormed(p, ps[p])
    BY DEF IInv, TypeOK, StatesInv
  <2>3. \A p \in Prefix : FileState(p)'
    BY <2>1, <2>2, PersistedFacts DEF FileState
  <2>4. \A k \in Recordable : Passed(disk'.state[Owner(k)], k) => k \in done
    BY <2>1, <2>2, PersistedFacts, PlaceFacts DEF IInv, StatesTruthful, Recordable
  <2>5. QED
    BY <1>1, <1>2, <2>1, <2>3, <2>4, VanishInv
<1>5. QED
  BY <1>3, <1>4 DEF ExitFailed

\* A failed listing ends the run, or only its producer, which never says done.
LEMMA ListFailInv ==
    ASSUME IInv, NEW p \in Prefix, ListFail(p)
    PROVE  IInv'
<1>1. UNCHANGED <<disk, done, crashes>> /\ faults' = faults + 1
  BY DEF ListFail
<1>2. crashes' \in Nat /\ faults' \in Nat
  BY <1>1 DEF IInv, TypeOK
<1>3. CASE by[p] = "sync"
  <2>1. run' = "down" /\ Vanish
    BY <1>3 DEF ListFail
  <2>2. \A q \in Prefix : FileState(q)'
    BY <1>1, DiskFacts DEF FileState
  <2>3. QED
    BY <1>1, <1>2, <2>1, <2>2, DiskFacts, VanishInv
<1>4. CASE by[p] # "sync"
  <2> USE <1>4 DEF IInv, ListFail, mgrVars, workVars, delVars, saveVars
  <2>0. /\ prod[p] = "list" /\ prod'[p] = "error"
        /\ \A q \in Prefix : q # p => prod'[q] = prod[q]
    BY DEF TypeOK
  <2>00. UNCHANGED <<ps, toRestore, spawned, seen>> /\ spawned \subseteq Prefix /\ Root \in Prefix
    BY ListingAssumption DEF TypeOK
  <2>1. TypeOK'
    BY <1>1, <1>2 DEF TypeOK, Active
  <2>2. DownInv'
    BY DEF DownInv
  <2>3. StatesInv'
    BY <1>1 DEF StatesInv, FileState
  <2>4. WorkerInv'
    BY <1>1 DEF WorkerInv
  <2>5. TrackedInv'
    BY DEF TrackedInv
  <2>6. ReapInv'
    BY DEF ReapInv, Relying, TypeOK
  <2>7. ProducerInv'
    BY <1>1 DEF ProducerInv, Relying, Listings, Accounted, TypeOK
  <2>8. SpawnInv'
    BY ONLY <2>0, <2>00, SpawnInv DEF SpawnInv, Relying
  <2>9. StatesTruthful'
    BY <1>1 DEF StatesTruthful
  <2>10. QED
    BY <2>1, <2>2, <2>3, <2>4, <2>5, <2>6, <2>7, <2>8, <2>9
<1>5. QED
  BY <1>3, <1>4

\* Listing goes on after the last recorded entry, with all before it accounted for.
LEMMA ResentInv ==
    ASSUME IInv, NEW p \in Prefix, Resent(p)
    PROVE  IInv'
<1> USE DEF IInv, Resent, BeginList, prodVars, mgrVars, workVars, delVars, saveVars
<1>1. /\ prod[p] \in {"resend", "resendOnly"} /\ prod'[p] \in {"list", "done"}
      /\ prod[p] = "resend" => prod'[p] = "list" /\ seen'[p] = ps[p].last /\ pos'[p] = ps[p].last
      /\ prod[p] = "resendOnly" => prod'[p] = "done" /\ UNCHANGED <<seen, pos>>
      /\ \A q \in Prefix : q # p => prod'[q] = prod[q] /\ seen'[q] = seen[q] /\ pos'[q] = pos[q]
      /\ UNCHANGED <<ps, toRestore, spawned, done>>
  BY DEF TypeOK
<1>2. ps[p].last \in Nat /\ ps[p].last <= Len(Listing[p])
  BY DEF TypeOK, StatesInv, WellFormed, PrefixState
<1>3. \A k \in Recordable : Owner(k) = p /\ Place(k) <= ps[p].last => Accounted(ps[p], k)
  <2>1. ASSUME NEW k \in Recordable, Owner(k) = p, Place(k) <= ps[p].last
        PROVE  Accounted(ps[p], k)
    <3>1. ps[p].present
      BY <2>1, PlaceFacts DEF StatesInv, WellFormed, NoState, Recordable
    <3>2. Passed(ps[p], k) => k \in done
      BY <2>1 DEF StatesTruthful
    <3>3. QED
      BY <2>1, <3>1, <3>2 DEF Passed, Accounted
  <2>2. QED
    BY <2>1
<1>4. TypeOK'
  <2>1. prod' \in [Prefix -> Active \cup {"none", "done", "error"}]
    BY DEF TypeOK, Active
  <2>2. by' \in [Prefix -> {"none", "sync", "top", "parent"}]
    BY DEF TypeOK
  <2>3. seen' \in [Prefix -> Nat] /\ pos' \in [Prefix -> Nat]
    BY <1>2 DEF TypeOK
  <2>4. QED
    BY <2>1, <2>2, <2>3 DEF TypeOK
<1>5. DownInv'
  BY DEF DownInv, TypeOK
<1>6. StatesInv'
  BY DEF StatesInv, FileState
<1>7. WorkerInv'
  BY DEF WorkerInv
<1>8. TrackedInv'
  BY DEF TrackedInv
<1>9. ReapInv'
  BY <1>1 DEF ReapInv, Relying, TypeOK
<1>10. ProducerInv'
  BY <1>1, <1>2, <1>3 DEF ProducerInv, Relying, Listings, Accounted, Recordable
<1>11. SpawnInv'
  <2>1. spawned \subseteq Prefix /\ Root \in Prefix /\ SpawnInv /\ DOMAIN Listing[Root] = 1..Len(Listing[Root])
    BY ListingAssumption, ListingFacts DEF TypeOK
  <2>2. \A q \in Prefix : prod'[q] \in Relying => prod[q] \in Relying
    BY <1>1 DEF Relying
  <2>3. p = Root => seen[Root] = 0
    BY <1>1, <2>1 DEF SpawnInv
  <2>4. \A i \in 1..Len(Listing[Root]) : seen'[Root] < i => seen[Root] < i
    BY <1>1, <1>2, <2>1, <2>3, ListingFacts DEF TypeOK
  <2>5. QED
    BY ONLY <1>1, <2>1, <2>2, <2>4 DEF SpawnInv
<1>12. StatesTruthful'
  BY DEF StatesTruthful
<1>13. QED
  BY <1>4, <1>5, <1>6, <1>7, <1>8, <1>9, <1>10, <1>11, <1>12

\* A run starts from the states in the file, none of them new.
LEMMA StartInv ==
    ASSUME IInv, Start
    PROVE  IInv'
<1> USE DEF IInv, Start, workVars, saveVars
<1>1. /\ run = "down"
      /\ tracked = {} /\ reap = {} /\ spawned = {} /\ toRestore = {} /\ tasks = {}
      /\ prod = [p \in Prefix |-> "none"]
      /\ seen = [p \in Prefix |-> 0] /\ pos = [p \in Prefix |-> 0]
      /\ \A w \in Worker : wst[w] = "idle"
  BY DEF DownInv
<1>2. /\ ps' = disk.state /\ disk \in Snapshot
      /\ \A p \in Prefix : FileState(p) /\ ps'[p] \in PrefixState
      /\ Root \in Prefix
  BY ListingAssumption DEF StatesInv, TypeOK, Snapshot
<1>3. \/ /\ prod' = prod /\ by' = by
         /\ srcDelay' = disk.srcDelay /\ dstDelay' = disk.dstDelay /\ toRestore' \subseteq Prefix
      \/ /\ prod' = [prod EXCEPT ![Root] = "list"] /\ by' = [by EXCEPT ![Root] = "sync"]
         /\ toRestore' = {} /\ UNCHANGED <<srcDelay, dstDelay>>
         /\ \A p \in Prefix : ~ps'[p].present
  BY <1>1, <1>2 DEF Loadable, FileState
<1>4. TypeOK'
  <2>1. prod' \in [Prefix -> Active \cup {"none", "done", "error"}]
    BY <1>2, <1>3 DEF TypeOK, Active
  <2>2. by' \in [Prefix -> {"none", "sync", "top", "parent"}]
    BY <1>2, <1>3 DEF TypeOK
  <2>3. toRestore' \subseteq Prefix /\ srcDelay' \subseteq Key /\ dstDelay' \subseteq Key
    BY <1>2, <1>3 DEF TypeOK, Snapshot
  <2>4. ps' \in [Prefix -> PrefixState]
    BY <1>2 DEF Snapshot
  <2>5. QED
    BY <2>1, <2>2, <2>3, <2>4 DEF TypeOK
<1>5. DownInv'
  BY DEF DownInv
<1>6. StatesInv'
  BY <1>2 DEF StatesInv, FileState
<1>7. WorkerInv'
  BY DEF WorkerInv
<1>8. TrackedInv' /\ ReapInv'
  BY <1>1 DEF TrackedInv, ReapInv
<1>9. /\ \A p \in Prefix : prod'[p] \in {"none", "list"} /\ seen[p] = 0 /\ pos[p] = 0
      /\ \A p \in Prefix : prod'[p] # "none" => p = Root /\ toRestore' = {}
      /\ \A p \in Prefix : prod'[p] = "list" => ps'[p] = NoState
  BY <1>1, <1>2, <1>3 DEF FileState, WellFormed
<1>10. ProducerInv'
  BY <1>9, ListingFacts, PlaceFacts DEF ProducerInv, Relying, Listings, NoState, Recordable
<1>11. SpawnInv'
  <2>1. ASSUME NEW i \in DOMAIN Listing[Root], Listing[Root][i] \in Prefix
        PROVE  prod'[Listing[Root][i]] = "none" /\ ~ps'[Listing[Root][i]].isNew
    BY <1>2, <1>9, <2>1, DepthAssumption DEF FileState
  <2>2. Root \in toRestore' => prod'[Root] = "none"
    BY <1>2, <1>9
  <2>3. QED
    BY <1>1, <1>2, <1>9, <2>1, <2>2 DEF SpawnInv, Relying
<1>12. StatesTruthful'
  BY <1>2 DEF StatesTruthful
<1>13. QED
  BY <1>4, <1>5, <1>6, <1>7, <1>8, <1>10, <1>11, <1>12

\* What RestorePrefix leaves in the state it restores.
LEMMA RestoreFacts ==
    ASSUME IInv, NEW p \in Prefix, NEW who \in {"top", "parent"},
           Restorable(p), RestorePrefix(p, who)
    PROVE  /\ ps' \in [Prefix -> PrefixState]
           /\ ps'[p].present /\ ~ps'[p].isNew /\ ps[p].present /\ ~ps[p].isNew
           /\ ps'[p].listDone = ps[p].listDone /\ ps'[p].last = ps[p].last
           /\ ps'[p].pending = ps[p].pending \cup ps[p].failed /\ ps'[p].failed = {}
           /\ WellFormed(p, ps'[p])
           /\ \A q \in Prefix : q # p => ps'[q] = ps[q] /\ prod'[q] = prod[q]
           /\ prod'[p] \in {"resend", "resendOnly"}
           /\ prod'[p] = "resend" => ~ps[p].listDone
<1>1. ps \in [Prefix -> PrefixState] /\ WellFormed(p, ps[p])
  BY DEF IInv, TypeOK, StatesInv
<1>2. prod \in [Prefix -> Active \cup {"none", "done", "error"}]
  BY DEF IInv, TypeOK
<1>3. ps[p] \in PrefixState /\ ps[p].pending \cup ps[p].failed \in SUBSET Key
  BY <1>1 DEF PrefixState
<1>4. ps' \in [Prefix -> PrefixState]
  BY <1>1, <1>3 DEF RestorePrefix, PrefixState
<1>5. /\ ps'[p].present = ps[p].present /\ ps'[p].isNew = ps[p].isNew
      /\ ps'[p].listDone = ps[p].listDone /\ ps'[p].last = ps[p].last
      /\ ps'[p].pending = ps[p].pending \cup ps[p].failed /\ ps'[p].failed = {}
  BY <1>1, <1>3 DEF RestorePrefix, PrefixState
<1>6. WellFormed(p, ps'[p])
  BY <1>1, <1>5 DEF WellFormed, Restorable
<1>7. \A q \in Prefix : q # p => ps'[q] = ps[q] /\ prod'[q] = prod[q]
  BY <1>1, <1>2 DEF RestorePrefix
<1>8. /\ prod'[p] \in {"resend", "resendOnly"}
      /\ prod'[p] = "resend" => ~ps[p].listDone
  BY <1>2 DEF RestorePrefix
<1>9. QED
  BY <1>4, <1>5, <1>6, <1>7, <1>8 DEF Restorable

\* Restoring makes the failed keys pending and tracks all of them.
LEMMA RestorePrefixInv ==
    ASSUME IInv, NEW p \in Prefix, NEW who \in {"top", "parent"},
           Restorable(p), RestorePrefix(p, who),
           spawned' \subseteq spawned, toRestore' \subseteq toRestore,
           p = Root => p \in toRestore /\ p \notin toRestore',
           run # "down",
           UNCHANGED <<run, tasks, workVars, failures, delVars, saveVars, disk,
                       done, crashes, faults>>
    PROVE  IInv'
<1> USE DEF IInv, workVars, delVars, saveVars
<1>1. /\ ps' \in [Prefix -> PrefixState]
      /\ ps'[p].present /\ ~ps'[p].isNew /\ ps[p].present /\ ~ps[p].isNew
      /\ ps'[p].listDone = ps[p].listDone /\ ps'[p].last = ps[p].last
      /\ ps'[p].pending = ps[p].pending \cup ps[p].failed /\ ps'[p].failed = {}
      /\ WellFormed(p, ps'[p])
      /\ \A q \in Prefix : q # p => ps'[q] = ps[q] /\ prod'[q] = prod[q]
      /\ prod'[p] \in {"resend", "resendOnly"}
      /\ prod'[p] = "resend" => ~ps[p].listDone
  BY RestoreFacts
<1>2. /\ tracked' = tracked \cup ps[p].pending \cup ps[p].failed
      /\ UNCHANGED <<reap, seen, pos>> /\ restored' = restored \cup {p}
  BY DEF RestorePrefix
<1>3. TypeOK'
  <2>1. ps[p].pending \cup ps[p].failed \in SUBSET Key
    BY DEF TypeOK, PrefixState
  <2>2. prod' \in [Prefix -> Active \cup {"none", "done", "error"}]
    BY DEF TypeOK, Active, RestorePrefix
  <2>3. by' \in [Prefix -> {"none", "sync", "top", "parent"}]
    BY DEF TypeOK, RestorePrefix
  <2>4. resend' \in [Prefix -> SUBSET Key]
    BY <2>1 DEF TypeOK, RestorePrefix
  <2>5. QED
    BY <1>1, <1>2, <2>1, <2>2, <2>3, <2>4 DEF TypeOK
<1>4. DownInv'
  BY DEF DownInv
<1>5. StatesInv'
  BY <1>1 DEF StatesInv, FileState
<1>6. WorkerInv'
  BY DEF WorkerInv
<1>7. TrackedInv'
  <2>1. ASSUME NEW k \in tracked'
        PROVE  k \in ps'[Owner(k)].pending \/ k \in ps'[Owner(k)].failed
    <3>1. k \in Key /\ Owner(k) \in Prefix
      BY <1>3, <2>1, PlaceFacts DEF TypeOK
    <3>2. CASE k \in tracked
      BY <1>1, <3>1, <3>2 DEF TrackedInv
    <3>3. CASE k \in ps[p].pending \cup ps[p].failed
      BY <1>1, <3>3 DEF StatesInv, WellFormed
    <3>4. QED
      BY <1>2, <2>1, <3>2, <3>3
  <2>2. QED
    BY <2>1 DEF TrackedInv
<1>8. ReapInv'
  <2>1. ASSUME NEW q \in reap'
        PROVE  ps'[q].present /\ IsDone(ps'[q]) /\ prod'[q] \notin Relying
    <3>1. q \in Prefix /\ ps[q].present /\ IsDone(ps[q]) /\ prod[q] \notin Relying
      BY <1>2, <2>1 DEF ReapInv, TypeOK
    <3>2. CASE q = p
      BY <1>1, <3>1, <3>2 DEF IsDone, Relying
    <3>3. CASE q # p
      BY <1>1, <3>1, <3>3
    <3>4. QED
      BY <3>2, <3>3
  <2>2. QED
    BY <2>1 DEF ReapInv
<1>9. ProducerInv'
  BY <1>1, <1>2 DEF ProducerInv, Relying, Listings, Accounted
<1>10. SpawnInv'
  <2>1. spawned \subseteq Prefix /\ Root \in Prefix /\ SpawnInv
    BY ListingAssumption DEF TypeOK
  <2>2. p = Root => seen[Root] = 0
    BY <2>1 DEF SpawnInv
  <2>3. Root \in toRestore' => prod'[Root] = "none"
    BY <1>1, <2>1 DEF SpawnInv
  <2>4. prod'[Root] \in {"none", "resend", "resendOnly"} => seen'[Root] = 0
    BY <1>1, <1>2, <2>1, <2>2 DEF SpawnInv
  <2>5. QED
    BY ONLY <1>1, <1>2, <2>1, <2>3, <2>4, spawned' \subseteq spawned DEF SpawnInv, Relying
<1>11. StatesTruthful'
  <2>1. ASSUME NEW k \in Recordable, Passed(ps'[Owner(k)], k) PROVE k \in done
    <3>1. Owner(k) \in Prefix
      BY PlaceFacts DEF Recordable
    <3>2. Passed(ps[Owner(k)], k)
      BY <1>1, <2>1, <3>1 DEF Passed
    <3>3. QED
      BY <3>2 DEF StatesTruthful
  <2>2. QED
    BY <2>1 DEF StatesTruthful
<1>12. QED
  BY <1>3, <1>4, <1>5, <1>6, <1>7, <1>8, <1>9, <1>10, <1>11

\* A goroutine of restoreFromCheckpoint restores its prefix, or finds nothing to do.
LEMMA RestoreTopInv ==
    ASSUME IInv, NEW p \in Prefix, RestoreTop(p)
    PROVE  IInv'
<1>1. run # "down"
  BY DEF IInv, DownInv, RestoreTop
<1>2. CASE Restorable(p)
  BY <1>1, <1>2, RestorePrefixInv DEF RestoreTop
<1>3. CASE ~Restorable(p)
  <2> USE <1>3 DEF IInv, RestoreTop, mgrVars, workVars, delVars, saveVars
  <2>1. TypeOK'
    BY DEF TypeOK
  <2>2. DownInv'
    BY <1>1 DEF DownInv
  <2>3. StatesInv'
    BY DEF StatesInv, FileState
  <2>4. WorkerInv'
    BY DEF WorkerInv
  <2>5. TrackedInv'
    BY DEF TrackedInv
  <2>6. ReapInv'
    BY DEF ReapInv
  <2>7. ProducerInv'
    BY DEF ProducerInv, Accounted
  <2>8. SpawnInv'
    BY DEF SpawnInv
  <2>9. StatesTruthful'
    BY DEF StatesTruthful
  <2>10. QED
    BY <2>1, <2>2, <2>3, <2>4, <2>5, <2>6, <2>7, <2>8, <2>9
<1>4. QED
  BY <1>2, <1>3

\* The goroutine of a child restores it, leaves it, or lists it from the start.
LEMMA RestoreChildInv ==
    ASSUME IInv, NEW p \in Prefix, RestoreChild(p)
    PROVE  IInv'
<1>1. run # "down" /\ p # Root /\ spawned \subseteq Prefix /\ Root \in Prefix
  BY ListingAssumption DEF IInv, DownInv, SpawnInv, TypeOK, RestoreChild
<1>2. CASE Restorable(p) /\ RestorePrefix(p, "parent")
  BY <1>1, <1>2, RestorePrefixInv DEF RestoreChild
<1>3. CASE UNCHANGED <<mgrVars, prod, by, seen, pos, resend>>
  <2> USE <1>3 DEF IInv, RestoreChild, mgrVars, workVars, delVars, saveVars
  <2>1. TypeOK'
    BY DEF TypeOK
  <2>2. DownInv'
    BY <1>1 DEF DownInv
  <2>3. StatesInv'
    BY DEF StatesInv, FileState
  <2>4. WorkerInv'
    BY DEF WorkerInv
  <2>5. TrackedInv'
    BY DEF TrackedInv
  <2>6. ReapInv'
    BY DEF ReapInv
  <2>7. ProducerInv'
    BY DEF ProducerInv, Accounted
  <2>8. SpawnInv'
    BY DEF SpawnInv
  <2>9. StatesTruthful'
    BY DEF StatesTruthful
  <2>10. QED
    BY <2>1, <2>2, <2>3, <2>4, <2>5, <2>6, <2>7, <2>8, <2>9
<1>4. CASE (~ps[p].present \/ ps[p].isNew) /\ BeginList(p, "parent") /\ UNCHANGED <<mgrVars, resend>>
  <2> USE <1>4 DEF IInv, RestoreChild, BeginList, mgrVars, workVars, delVars, saveVars
  <2>1. /\ prod'[p] = "list" /\ seen'[p] = ps[p].last /\ pos'[p] = ps[p].last
        /\ \A q \in Prefix : q # p => prod'[q] = prod[q] /\ seen'[q] = seen[q] /\ pos'[q] = pos[q]
        /\ UNCHANGED <<ps, toRestore, done, reap>> /\ spawned' \subseteq spawned
    BY DEF TypeOK
  <2>2. ps[p].last \in Nat /\ ps[p].last <= Len(Listing[p])
    BY DEF TypeOK, StatesInv, WellFormed, PrefixState
  <2>3. ~ps[p].listDone /\ prod[p] \notin Relying
    BY DEF SpawnInv, RestoreChild
  <2>4. \A k \in Recordable : Owner(k) = p /\ Place(k) <= ps[p].last => Accounted(ps[p], k)
    <3>1. ASSUME NEW k \in Recordable, Owner(k) = p, Place(k) <= ps[p].last
          PROVE  Accounted(ps[p], k)
      <4>1. ps[p].present
        BY <3>1, PlaceFacts DEF StatesInv, WellFormed, NoState, Recordable
      <4>2. Passed(ps[p], k) => k \in done
        BY <3>1 DEF StatesTruthful
      <4>3. QED
        BY <3>1, <4>1, <4>2 DEF Passed, Accounted
    <3>2. QED
      BY <3>1
  <2>5. TypeOK'
    <3>1. prod' \in [Prefix -> Active \cup {"none", "done", "error"}]
      BY DEF TypeOK, Active
    <3>2. by' \in [Prefix -> {"none", "sync", "top", "parent"}]
      BY DEF TypeOK
    <3>3. seen' \in [Prefix -> Nat] /\ pos' \in [Prefix -> Nat]
      BY <2>2 DEF TypeOK
    <3>4. QED
      BY <3>1, <3>2, <3>3 DEF TypeOK
  <2>6. DownInv'
    BY <1>1 DEF DownInv
  <2>7. StatesInv'
    BY DEF StatesInv, FileState
  <2>8. WorkerInv' /\ TrackedInv'
    BY DEF WorkerInv, TrackedInv
  <2>9. ReapInv'
    BY <2>1, <2>3 DEF ReapInv, IsDone, TypeOK
  <2>10. ProducerInv'
    BY <2>1, <2>2, <2>3, <2>4 DEF ProducerInv, Relying, Listings, Accounted, Recordable
  <2>11. SpawnInv'
    <3>1. \A i \in DOMAIN Listing[Root] : Listing[Root][i] = p => ~(seen[Root] < i)
      BY DEF SpawnInv, RestoreChild
    <3>2. p \notin spawned' /\ SpawnInv
      OBVIOUS
    <3>3. QED
      BY ONLY <1>1, <2>1, <3>1, <3>2 DEF SpawnInv, Relying
  <2>12. StatesTruthful'
    BY DEF StatesTruthful
  <2>13. QED
    BY <2>5, <2>6, <2>7, <2>8, <2>9, <2>10, <2>11, <2>12
<1>5. QED
  BY <1>2, <1>3, <1>4 DEF RestoreChild, mgrVars

\* The listing goroutine meets a key or a child it has not met before.
LEMMA ListNextInv ==
    ASSUME IInv, NEW p \in Prefix, ListNext(p)
    PROVE  IInv'
<1> DEFINE e == Listing[p][seen[p] + 1]
<1>1. /\ prod[p] \in Listings /\ seen[p] + 1 \in 1..Len(Listing[p]) /\ seen[p] \in Nat
      /\ seen' = [seen EXCEPT ![p] = @ + 1]
      /\ spawned \subseteq Prefix /\ Root \in Prefix /\ run # "down"
  BY ListingFacts, ListingAssumption DEF ListNext, IInv, TypeOK, DownInv, Listings
<1>2. /\ seen'[p] = seen[p] + 1 /\ seen' \in [Prefix -> Nat]
      /\ \A q \in Prefix : q # p => seen'[q] = seen[q]
  BY <1>1 DEF IInv, TypeOK
<1>3. \/ spawned' = spawned /\ UNCHANGED <<ps, reap>> /\ e \in Key
      \/ /\ e \in Prefix /\ p = Root /\ e # Root /\ spawned' = spawned \cup {e}
         /\ RegisterChildPrefix(e) \/ UNCHANGED <<ps, reap>>
  BY <1>1, ChildFacts DEF ListNext
<1>4. e \in Prefix => /\ e \notin spawned /\ ~ps[e].isNew
                      /\ prod[e] \in Relying => ps[e].present
  <2>1. ASSUME e \in Prefix
        PROVE  e \notin spawned /\ ~ps[e].isNew /\ (prod[e] \in Relying => ps[e].present)
    <3>1. p = Root /\ seen[Root] + 1 \in DOMAIN Listing[Root] /\ seen[Root] < seen[Root] + 1
      BY <1>1, <2>1, ChildFacts, ListingFacts
    <3>2. QED
      BY <2>1, <3>1 DEF IInv, SpawnInv
  <2>2. QED
    BY <2>1
<1>5. /\ ps' \in [Prefix -> PrefixState]
      /\ \A q \in Prefix : \/ ps'[q] = ps[q]
                           \/ q = e /\ ~ps[q].present /\ ps[q] = NoState /\ ps'[q] = NewState
      /\ reap' = reap
  <2>1. CASE UNCHANGED <<ps, reap>>
    BY <2>1 DEF IInv, TypeOK
  <2>2. CASE e \in Prefix /\ RegisterChildPrefix(e)
    <3>0. TypeOK /\ StatesInv
      BY DEF IInv
    <3>1. /\ ps' \in [Prefix -> PrefixState] /\ ps'[e] = GetOrCreate(e)
          /\ \A q \in Prefix : q # e => ps'[q] = ps[q]
          /\ reap' = reap
      BY <2>2, <3>0, GetFacts DEF RegisterChildPrefix, TypeOK
    <3>2. CASE ps[e].present
      BY <2>2, <3>1, <3>2 DEF GetOrCreate
    <3>3. CASE ~ps[e].present
      <4>1. GetOrCreate(e) = NewState
        BY <3>3 DEF GetOrCreate
      <4>2. ps[e] = NoState
        BY <2>2, <3>0, <3>3 DEF StatesInv, WellFormed
      <4>3. QED
        BY <2>2, <3>1, <3>3, <4>1, <4>2
    <3>4. QED
      BY <3>2, <3>3
  <2>3. QED
    BY <1>3, <2>1, <2>2
<1>6. \A q \in Prefix : ps'[q] = ps[q] \/ /\ q = e /\ ps[q] = NoState /\ ps'[q] = NewState
                                          /\ prod[q] \notin Relying
  <2>1. \A q \in Prefix : q = e /\ ~ps[q].present => prod[q] \notin Relying
    BY <1>4
  <2>2. QED
    BY <1>5, <2>1
<1>7. /\ UNCHANGED <<run, tracked, restored, toRestore, prod, by, pos, resend, tasks>>
      /\ UNCHANGED <<held, wst, failures, srcDelay, dstDelay, swept>>
      /\ UNCHANGED <<saving, copying, snap, disk, done, crashes, faults>>
  BY DEF ListNext, workVars, delVars, saveVars
<1>8. spawned' \subseteq Prefix
  BY <1>1, <1>3
<1> HIDE DEF e
<1> USE <1>7 DEF IInv
<1>9. TypeOK'
  BY <1>2, <1>5, <1>8 DEF TypeOK
<1>10. DownInv'
  BY <1>1 DEF DownInv
<1>11. StatesInv'
  BY <1>6, StateFacts DEF StatesInv, FileState
<1>12. WorkerInv'
  BY DEF WorkerInv
<1>13. TrackedInv'
  <2>1. ASSUME NEW k \in tracked' PROVE k \in ps'[Owner(k)].pending \/ k \in ps'[Owner(k)].failed
    <3>1. Owner(k) \in Prefix /\ k \in tracked
      BY <2>1, PlaceFacts DEF TypeOK
    <3>2. QED
      BY <1>6, <3>1 DEF TrackedInv, NoState
  <2>2. QED
    BY <2>1 DEF TrackedInv
<1>14. ReapInv'
  <2>1. ASSUME NEW q \in reap'
        PROVE  ps'[q].present /\ IsDone(ps'[q]) /\ prod'[q] \notin Relying
    <3>1. q \in Prefix /\ ps[q].present /\ IsDone(ps[q]) /\ prod[q] \notin Relying
      BY <1>5, <2>1 DEF ReapInv, TypeOK
    <3>2. QED
      BY <1>6, <3>1 DEF NoState
  <2>2. QED
    BY <2>1 DEF ReapInv
<1>15. ProducerInv'
  <2>1. ASSUME NEW q \in Prefix
        PROVE  /\ ps'[q].listDone = ps[q].listDone
               /\ ps'[q].pending = ps[q].pending /\ ps'[q].failed = ps[q].failed
    <3>1. CASE ps'[q] = ps[q]
      BY <3>1
    <3>2. CASE ps[q] = NoState /\ ps'[q] = NewState
      BY <3>2 DEF NoState, NewState
    <3>3. QED
      BY <1>6, <3>1, <3>2
  <2>2. \A q \in Prefix : seen'[q] <= Len(Listing[q])
    BY <1>1, <1>2, ListingFacts DEF ProducerInv
  <2>3. QED
    BY <2>1, <2>2, PlaceFacts DEF ProducerInv, Accounted, Recordable
<1>16. SpawnInv'
  <2>1. Root \notin spawned' /\ (Root \in toRestore' => prod'[Root] = "none")
    BY <1>3, <1>7 DEF SpawnInv
  <2>2. prod'[Root] \in {"none", "resend", "resendOnly"} => seen'[Root] = 0
    BY <1>1, <1>2, <1>7 DEF SpawnInv, Listings
  <2>3. ASSUME NEW q \in spawned', ~ps'[q].present \/ ps'[q].isNew
        PROVE  ~ps'[q].listDone /\ prod'[q] \notin Relying
    <3>1. CASE ps'[q] = NewState /\ prod[q] \notin Relying
      BY <1>7, <3>1 DEF NewState
    <3>2. CASE ps'[q] = ps[q] /\ q \in spawned
      BY <1>7, <2>3, <3>2 DEF SpawnInv
    <3>3. CASE ps'[q] = ps[q] /\ q = e /\ e \in Prefix
      <4>1. ~ps[q].present
        BY <1>4, <2>3, <3>3
      <4>2. ps[q] = NoState /\ prod[q] \notin Relying
        BY <1>4, <3>3, <4>1 DEF StatesInv, WellFormed
      <4>3. QED
        BY <1>7, <3>3, <4>2 DEF NoState
    <3>4. q \in Prefix /\ (q \in spawned \/ (q = e /\ e \in Prefix))
      BY <1>3, <1>8, <2>3
    <3>5. QED
      BY <1>6, <3>1, <3>2, <3>3, <3>4
  <2>4. ASSUME NEW i \in DOMAIN Listing[Root], Listing[Root][i] \in Prefix, seen'[Root] < i
        PROVE  /\ Listing[Root][i] \notin spawned' /\ ~ps'[Listing[Root][i]].isNew
               /\ prod'[Listing[Root][i]] \in Relying => ps'[Listing[Root][i]].present
    <3>0. i \in 1..Len(Listing[Root])
      BY <1>1, ListingFacts
    <3>1. seen[Root] < i
      BY <1>1, <1>2, <2>4, <3>0 DEF TypeOK
    <3>2. e \in Prefix => Listing[Root][i] # e
      <4>1. ASSUME e \in Prefix, Listing[Root][i] = e PROVE FALSE
        <5>1. p = Root
          BY <1>3, <1>1, <4>1, ChildFacts DEF e
        <5>2. i = seen[Root] + 1
          BY <1>1, <3>0, <4>1, <5>1, ChildFacts DEF e
        <5>3. QED
          BY <1>1, <1>2, <2>4, <5>1, <5>2
      <4>2. QED
        BY <4>1
    <3>3. /\ Listing[Root][i] \notin spawned /\ ~ps[Listing[Root][i]].isNew
          /\ prod[Listing[Root][i]] \in Relying => ps[Listing[Root][i]].present
      BY <2>4, <3>1 DEF SpawnInv
    <3>4. ps'[Listing[Root][i]] = ps[Listing[Root][i]]
      BY <1>6, <2>4, <3>2
    <3>5. Listing[Root][i] \notin spawned'
      BY <1>3, <3>2, <3>3
    <3>6. QED
      BY <1>7, <3>3, <3>4, <3>5
  <2>5. QED
    BY <2>1, <2>2, <2>3, <2>4 DEF SpawnInv
<1>17. StatesTruthful'
  <2>1. ASSUME NEW k \in Recordable, Passed(ps'[Owner(k)], k) PROVE k \in done
    <3>1. Owner(k) \in Prefix /\ Place(k) \in Nat /\ Place(k) > 0
      BY PlaceFacts, ListingFacts DEF Recordable
    <3>2. ~Passed(NewState, k)
      BY <3>1 DEF Passed, NewState
    <3>3. QED
      BY <1>6, <2>1, <3>1, <3>2 DEF StatesTruthful
  <2>2. QED
    BY <2>1 DEF StatesTruthful
<1>18. QED
  BY <1>9, <1>10, <1>11, <1>12, <1>13, <1>14, <1>15, <1>16, <1>17

\* What an update of the state of p preserves, made by the producer that relies
\* on it or by a worker that finished one of its keys.
LEMMA StateChange ==
    ASSUME IInv, NEW p \in Prefix, NEW s \in PrefixState, UpdateState(p, s),
           WellFormed(p, s), s.present, s.isNew = GetOrCreate(p).isNew,
           ps[p].present \/ prod[p] \in Relying,
           s.listDone = ps[p].listDone \/ prod[p] \in Relying,
           p \notin reap,
           IsDone(s) => prod'[p] \notin Relying,
           \A q \in Prefix : q # p => prod'[q] = prod[q],
           prod'[p] \in Relying => prod[p] \in Relying,
           prod'[p] = prod[p] \/ {prod[p], prod'[p]} \subseteq Listings \cup {"done", "wait"},
           \A k \in Recordable : Owner(k) = p /\ Passed(s, k) => k \in done',
           done \subseteq done',
           UNCHANGED <<toRestore, spawned, seen, snap, disk, saving>>
    PROVE  StatesInv' /\ ReapInv' /\ SpawnInv' /\ StatesTruthful'
<1>1. TypeOK /\ StatesInv /\ ReapInv /\ SpawnInv /\ StatesTruthful
  BY DEF IInv
<1>2. /\ ps'[p] = s
      /\ \A q \in Prefix : q # p => ps'[q] = ps[q]
      /\ \A q \in reap' : q \in reap \/ (q = p /\ IsDone(s))
  BY <1>1, UpdateFacts
<1>3. StatesInv'
  BY <1>1, <1>2 DEF StatesInv, FileState
<1>4. ReapInv'
  <2>1. ASSUME NEW q \in reap'
        PROVE  ps'[q].present /\ IsDone(ps'[q]) /\ prod'[q] \notin Relying
    <3>1. CASE q = p
      BY <1>2, <2>1, <3>1
    <3>2. CASE q # p
      <4>1. q \in reap /\ q \in Prefix
        BY <1>1, <1>2, <2>1, <3>2 DEF TypeOK
      <4>2. QED
        BY <1>1, <1>2, <3>2, <4>1 DEF ReapInv
    <3>3. QED
      BY <3>1, <3>2
  <2>2. QED
    BY <2>1 DEF ReapInv
<1>5. ps[p].present => s.isNew = ps[p].isNew
  BY DEF GetOrCreate
<1>7. SpawnInv'
  <2>1. Root \in Prefix /\ spawned \subseteq Prefix
    BY <1>1, ListingAssumption DEF TypeOK
  <2>2. /\ Root \in toRestore' => prod'[Root] = "none"
        /\ prod'[Root] \in {"none", "resend", "resendOnly"} => seen'[Root] = 0
    BY <1>1, <2>1 DEF SpawnInv, Listings
  <2>3. ASSUME NEW q \in spawned, ~ps'[q].present \/ ps'[q].isNew
        PROVE  ~ps'[q].listDone /\ prod'[q] \notin Relying
    <3>1. CASE q = p
      <4>1. ps[p].present /\ ps[p].isNew
        BY <1>1, <1>2, <1>5, <2>3, <3>1 DEF SpawnInv
      <4>2. ~ps[p].listDone /\ prod[p] \notin Relying
        BY <1>1, <3>1, <4>1 DEF SpawnInv
      <4>3. prod'[p] \notin Relying
        BY <4>2
      <4>4. QED
        BY <1>2, <3>1, <4>2, <4>3
    <3>2. CASE q # p
      BY <1>1, <1>2, <2>1, <2>3, <3>2 DEF SpawnInv
    <3>3. QED
      BY <3>1, <3>2
  <2>4. ASSUME NEW i \in DOMAIN Listing[Root], Listing[Root][i] \in Prefix, seen[Root] < i
        PROVE  /\ Listing[Root][i] \notin spawned /\ ~ps'[Listing[Root][i]].isNew
               /\ prod'[Listing[Root][i]] \in Relying => ps'[Listing[Root][i]].present
    <3>1. /\ Listing[Root][i] \notin spawned /\ ~ps[Listing[Root][i]].isNew
          /\ prod[Listing[Root][i]] \in Relying => ps[Listing[Root][i]].present
      BY <1>1, <2>4 DEF SpawnInv
    <3>2. CASE Listing[Root][i] = p
      <4>1. ps[p].present
        BY <3>1, <3>2
      <4>2. QED
        BY <1>2, <1>5, <3>1, <3>2, <4>1
    <3>3. CASE Listing[Root][i] # p
      BY <1>2, <2>4, <3>1, <3>3
    <3>4. QED
      BY <3>2, <3>3
  <2>5. QED
    BY <1>1, <2>2, <2>3, <2>4 DEF SpawnInv
<1>8. StatesTruthful'
  <2>1. ASSUME NEW k \in Recordable, NEW t \in {ps'[Owner(k)], snap'.state[Owner(k)], disk'.state[Owner(k)]},
               Passed(t, k)
        PROVE  k \in done'
    <3>1. CASE t \in {ps[Owner(k)], snap.state[Owner(k)], disk.state[Owner(k)]}
      BY <1>1, <2>1, <3>1 DEF StatesTruthful
    <3>2. CASE Owner(k) = p /\ t = s
      BY <2>1, <3>2
    <3>3. Owner(k) \in Prefix
      BY PlaceFacts DEF Recordable
    <3>4. QED
      BY <1>2, <3>1, <3>2, <3>3
  <2>2. QED
    BY <2>1 DEF StatesTruthful
<1>9. QED
  BY <1>3, <1>4, <1>7, <1>8

\* A producer that relies on its state: the state is neither done nor about to
\* be listed by another.
LEMMA RelyingFacts ==
    ASSUME IInv, NEW p \in Prefix, prod[p] \in Relying
    PROVE  p \notin reap /\ ~ps[p].listDone /\ run # "down"
<1>1. p \notin reap /\ ~ps[p].listDone
  BY DEF IInv, ReapInv, ProducerInv
<1>2. run # "down"
  BY DEF IInv, DownInv, Relying
<1>3. QED
  BY <1>1, <1>2

\* A listing that is done has accounted for every key of its prefix.
LEMMA MarkListDoneInv ==
    ASSUME IInv, NEW p \in Prefix, MarkListDone(p)
    PROVE  IInv'
<1> DEFINE s == [GetOrCreate(p) EXCEPT !.listDone = TRUE]
<1>1. /\ prod[p] = "list" /\ pos[p] = Len(Listing[p]) /\ UpdateState(p, s)
      /\ prod'[p] \in {"done", "wait"} /\ \A q \in Prefix : q # p => prod'[q] = prod[q]
      /\ prod' \in [Prefix -> Active \cup {"none", "done", "error"}]
  BY DEF MarkListDone, IInv, TypeOK, Active
<1>2. /\ GetOrCreate(p) \in PrefixState /\ GetOrCreate(p).present /\ WellFormed(p, GetOrCreate(p))
      /\ GetOrCreate(p).pending = ps[p].pending /\ GetOrCreate(p).failed = ps[p].failed
  BY GetFacts DEF IInv
<1>3. /\ s \in PrefixState /\ s.present /\ s.listDone /\ s.isNew = GetOrCreate(p).isNew
      /\ s.pending = ps[p].pending /\ s.failed = ps[p].failed /\ s.last = GetOrCreate(p).last
  BY <1>2 DEF PrefixState
<1>4. WellFormed(p, s)
  BY <1>2, <1>3 DEF WellFormed
<1>5. UNCHANGED <<run, tracked, restored, toRestore, spawned, by, seen, pos, resend, tasks, held, wst,
                  failures, srcDelay, dstDelay, swept, saving, copying, snap, disk, done, crashes, faults>>
  BY DEF MarkListDone, workVars, delVars, saveVars
<1> HIDE DEF s
<1>6. p \notin reap /\ ~ps[p].listDone /\ run # "down"
  BY <1>1, RelyingFacts DEF Relying
<1>7. \A k \in Recordable : Owner(k) = p /\ Passed(s, k) => k \in done
  <2>1. ASSUME NEW k \in Recordable, Owner(k) = p, Passed(s, k) PROVE k \in done
    <3>1. Place(k) <= pos[p]
      BY <1>1, <2>1, PlaceFacts, ListingFacts DEF Recordable
    <3>2. Accounted(ps[p], k)
      BY <1>1, <2>1, <3>1 DEF IInv, ProducerInv, Listings
    <3>3. QED
      BY <1>3, <2>1, <3>2 DEF Accounted, Passed
  <2>2. QED
    BY <2>1
<1>8. StatesInv' /\ ReapInv' /\ SpawnInv' /\ StatesTruthful'
  BY <1>1, <1>3, <1>4, <1>5, <1>6, <1>7, StateChange DEF Relying, Listings
<1>9. /\ ps' \in [Prefix -> PrefixState] /\ reap' \subseteq Prefix /\ ps'[p] = s
      /\ \A q \in Prefix : q # p => ps'[q] = ps[q]
  BY <1>1, <1>3, UpdateFacts DEF IInv
<1> USE <1>5 DEF IInv
<1>10. TypeOK'
  BY <1>1, <1>9 DEF TypeOK
<1>11. DownInv'
  BY <1>6 DEF DownInv
<1>12. WorkerInv'
  BY DEF WorkerInv
<1>13. TrackedInv'
  BY <1>3, <1>9, PlaceFacts DEF TrackedInv, TypeOK
<1>14. ProducerInv'
  BY <1>1, <1>9 DEF ProducerInv, Relying, Listings, Accounted
<1>15. QED
  BY <1>8, <1>10, <1>11, <1>12, <1>13, <1>14

\* produce records entry pos[p] + 1 of its listing as its last one, and with it
\* perhaps a key that is now pending.
RecordStep(p, n) ==
    /\ prod[p] = "list" /\ pos[p] < seen[p]
    /\ Listing[p][pos[p] + 1] \in Key /\ n \subseteq {Listing[p][pos[p] + 1]}
    /\ UpdateState(p, [Recorded(p) EXCEPT !.pending = @ \cup n])
    /\ Listing[p][pos[p] + 1] \in Recordable =>
           Listing[p][pos[p] + 1] \in n \/ Listing[p][pos[p] + 1] \in done'
    /\ prod'[p] \in Listings /\ prod' \in [Prefix -> Active \cup {"none", "done", "error"}]
    /\ \A q \in Prefix : q # p => prod'[q] = prod[q] /\ pos'[q] = pos[q]
    /\ pos' \in [Prefix -> Nat]
    /\ prod'[p] = "list" => pos'[p] = pos[p] + 1
    /\ prod'[p] # "list" => pos'[p] = pos[p]
    /\ prod'[p] = "send" => n = {Listing[p][pos[p] + 1]}
    /\ prod'[p] = "append" => Listing[p][pos[p] + 1] \notin Recordable
    /\ tracked' = tracked \cup n /\ done \subseteq done' /\ done' \subseteq Key
    /\ UNCHANGED <<run, restored, toRestore, spawned, by, seen, resend, tasks, held, wst,
                   failures, srcDelay, dstDelay, swept, saving, copying, snap, disk,
                   crashes, faults>>

\* Recording an entry as the last listed, pending or handled at once.
LEMMA RecordInv ==
    ASSUME IInv, NEW p \in Prefix, NEW n \in SUBSET Key, RecordStep(p, n)
    PROVE  IInv'
<1> USE DEF RecordStep
<1> DEFINE e == Listing[p][pos[p] + 1]
<1> DEFINE s == [Recorded(p) EXCEPT !.pending = @ \cup n]
<1>1. /\ pos[p] \in Nat /\ pos[p] + 1 \in 1..Len(Listing[p])
      /\ Owner(e) = p /\ Place(e) = pos[p] + 1
  <2>1. pos[p] \in Nat /\ pos[p] + 1 \in 1..Len(Listing[p])
    BY ListingFacts DEF IInv, TypeOK, ProducerInv
  <2>2. QED
    BY <2>1, PlaceFacts
<1>2. /\ GetOrCreate(p) \in PrefixState /\ GetOrCreate(p).present /\ WellFormed(p, GetOrCreate(p))
      /\ GetOrCreate(p).pending = ps[p].pending /\ GetOrCreate(p).failed = ps[p].failed
      /\ GetOrCreate(p).listDone = ps[p].listDone
  BY GetFacts DEF IInv
<1>3. /\ Recorded(p) \in PrefixState /\ Recorded(p).present /\ Recorded(p).last = pos[p] + 1
      /\ Recorded(p).listDone = ps[p].listDone /\ Recorded(p).isNew = GetOrCreate(p).isNew
      /\ Recorded(p).pending = ps[p].pending /\ Recorded(p).failed = ps[p].failed
  <2>1. pos[p] + 1 \in Nat
    BY <1>1
  <2>2. /\ Recorded(p) \in PrefixState /\ Recorded(p).last = pos[p] + 1
        /\ Recorded(p).present = GetOrCreate(p).present
        /\ Recorded(p).listDone = GetOrCreate(p).listDone /\ Recorded(p).isNew = GetOrCreate(p).isNew
        /\ Recorded(p).pending = GetOrCreate(p).pending /\ Recorded(p).failed = GetOrCreate(p).failed
    BY ONLY <1>2, <2>1 DEF PrefixState, Recorded
  <2>3. QED
    BY <1>2, <2>2
<1>4. /\ s \in PrefixState /\ s.present /\ s.last = pos[p] + 1
      /\ s.listDone = ps[p].listDone /\ s.isNew = GetOrCreate(p).isNew
      /\ s.pending = ps[p].pending \cup n /\ s.failed = ps[p].failed
  BY <1>3 DEF PrefixState
<1>5. WellFormed(p, s)
  BY <1>1, <1>2, <1>4 DEF WellFormed
<1>6. UpdateState(p, s)
  OBVIOUS
<1> HIDE DEF s
<1>7. p \notin reap /\ ~ps[p].listDone /\ run # "down"
  BY RelyingFacts DEF Relying
<1>8. \A k \in Recordable : Owner(k) = p /\ Place(k) <= pos[p] + 1 => k \in done' \/ k \in s.pending \/ k \in s.failed
  <2>1. ASSUME NEW k \in Recordable, Owner(k) = p, Place(k) <= pos[p] + 1
        PROVE  k \in done' \/ k \in s.pending \/ k \in s.failed
    <3>1. CASE k = e
      BY <1>4, <2>1, <3>1
    <3>2. CASE k # e
      <4>1. k \in Key /\ Place(k) \in Nat /\ Listing[p][Place(k)] = k
        BY <2>1, PlaceFacts, ListingFacts DEF Recordable
      <4>2. Place(k) <= pos[p]
        BY <1>1, <2>1, <3>2, <4>1
      <4>3. Accounted(ps[p], k)
        BY <2>1, <4>2 DEF IInv, ProducerInv, Listings
      <4>4. QED
        BY <1>4, <4>3 DEF Accounted
    <3>3. QED
      BY <3>1, <3>2
  <2>2. QED
    BY <2>1
<1>9. \A k \in Recordable : Owner(k) = p /\ Passed(s, k) => k \in done'
  BY <1>4, <1>7, <1>8 DEF Passed
<1>10. StatesInv' /\ ReapInv' /\ SpawnInv' /\ StatesTruthful'
  BY <1>4, <1>5, <1>6, <1>7, <1>9, StateChange DEF Relying, Listings, IsDone
<1>11. /\ ps' \in [Prefix -> PrefixState] /\ reap' \subseteq Prefix /\ ps'[p] = s
       /\ \A q \in Prefix : q # p => ps'[q] = ps[q]
  BY <1>4, <1>6, UpdateFacts DEF IInv
<1>12. TypeOK'
  BY <1>11 DEF TypeOK, IInv
<1>13. DownInv'
  BY <1>7 DEF DownInv
<1>14. WorkerInv'
  BY DEF WorkerInv, IInv
<1>15. TrackedInv'
  <2>1. ASSUME NEW k \in tracked' PROVE k \in ps'[Owner(k)].pending \/ k \in ps'[Owner(k)].failed
    <3>1. CASE k \in n
      BY <1>1, <1>4, <1>11, <3>1
    <3>2. CASE k \in tracked
      <4>1. Owner(k) \in Prefix /\ (k \in ps[Owner(k)].pending \/ k \in ps[Owner(k)].failed)
        BY <3>2, PlaceFacts DEF IInv, TypeOK, TrackedInv
      <4>2. QED
        BY <1>4, <1>11, <4>1
    <3>3. QED
      BY <2>1, <3>1, <3>2
  <2>2. QED
    BY <2>1 DEF TrackedInv
<1>16. ProducerInv'
  <2>1. ASSUME NEW q \in Prefix, q # p
        PROVE  /\ prod'[q] = prod[q] /\ pos'[q] = pos[q] /\ ps'[q] = ps[q] /\ seen'[q] = seen[q]
               /\ \A k : Accounted(ps[q], k) => Accounted(ps[q], k)'
    BY <1>11, <2>1 DEF Accounted
  <2>2. ASSUME NEW k, k \in done' \/ k \in s.pending \/ k \in s.failed
        PROVE  Accounted(ps[p], k)'
    BY <1>11, <2>2 DEF Accounted
  <2>3. \A k \in Recordable : Owner(k) = p /\ Place(k) <= pos'[p] => Accounted(ps[p], k)'
    <3>1. ASSUME NEW k \in Recordable, Owner(k) = p, Place(k) <= pos'[p] PROVE Accounted(ps[p], k)'
      <4>1. Place(k) \in Nat
        BY PlaceFacts, ListingFacts DEF Recordable
      <4>2. Place(k) <= pos[p] + 1
        BY <1>1, <3>1, <4>1
      <4>3. QED
        BY <1>8, <2>2, <3>1, <4>2
    <3>2. QED
      BY <3>1
  <2>4. prod'[p] = "send" => Accounted(ps[p], Listing[p][pos[p] + 1])'
    BY <1>4, <1>11 DEF Accounted
  <2>5. prod'[p] \in {"send", "append"} => pos'[p] < Len(Listing[p]) /\ Listing[p][pos'[p] + 1] \in Key
    BY <1>1, ListingFacts
  <2>6. ~ps'[p].listDone /\ seen'[p] <= Len(Listing[p])
    BY <1>4, <1>7, <1>11 DEF IInv, ProducerInv
  <2>7. prod'[p] = "append" => Listing[p][pos'[p] + 1] \notin Recordable
    OBVIOUS
  <2>8. ASSUME NEW q \in Prefix
        PROVE  /\ prod'[q] \in Relying => ~ps'[q].listDone
               /\ seen'[q] <= Len(Listing[q])
               /\ prod'[q] \in Listings =>
                     \A k \in Recordable : Owner(k) = q /\ Place(k) <= pos'[q] => Accounted(ps[q], k)'
               /\ prod'[q] \in {"send", "append"} =>
                     pos'[q] < Len(Listing[q]) /\ Listing[q][pos'[q] + 1] \in Key
               /\ prod'[q] = "send" => Accounted(ps[q], Listing[q][pos[q] + 1])'
               /\ prod'[q] = "append" => Listing[q][pos'[q] + 1] \notin Recordable
    <3>1. CASE q = p
      BY <2>3, <2>4, <2>5, <2>6, <2>7, <3>1
    <3>2. CASE q # p
      <4>1. /\ prod'[q] = prod[q] /\ pos'[q] = pos[q] /\ ps'[q] = ps[q] /\ seen'[q] = seen[q]
        BY <2>1, <3>2
      <4>2. \A k : Accounted(ps[q], k) => Accounted(ps[q], k)'
        BY <2>1, <3>2
      <4>3. Accounted(ps[q], Listing[q][pos[q] + 1]) => Accounted(ps[q], Listing[q][pos[q] + 1])'
        BY <4>1 DEF Accounted
      <4>4. ProducerInv
        BY DEF IInv
      <4>5. QED
        BY <4>1, <4>2, <4>3, <4>4 DEF ProducerInv
    <3>3. QED
      BY <3>1, <3>2
  <2>9. QED
    BY <2>8 DEF ProducerInv
<1>17. QED
  BY <1>10, <1>12, <1>13, <1>14, <1>15, <1>16 DEF IInv

\* produce passes an entry that leaves no trace in the state.
LEMMA PassInv ==
    ASSUME IInv, NEW p \in Prefix, prod[p] = "list", pos[p] < seen[p],
           Listing[p][pos[p] + 1] \notin Recordable,
           pos' = [pos EXCEPT ![p] = @ + 1], dstDelay' \subseteq Key,
           UNCHANGED <<ps, reap, tracked, prod, done>>,
           UNCHANGED <<run, restored, toRestore, spawned, by, seen, resend, tasks,
                       workVars, failures, srcDelay, swept, saveVars, disk, crashes, faults>>
    PROVE  IInv'
<1> USE DEF IInv, workVars, saveVars
<1>1. /\ pos[p] \in Nat /\ pos[p] + 1 \in 1..Len(Listing[p])
      /\ pos'[p] = pos[p] + 1 /\ pos' \in [Prefix -> Nat]
      /\ \A q \in Prefix : q # p => pos'[q] = pos[q]
  BY ListingFacts DEF TypeOK, ProducerInv
<1>2. TypeOK'
  BY <1>1 DEF TypeOK
<1>3. run # "down"
  BY RelyingFacts DEF Relying
<1>4. DownInv'
  BY <1>3 DEF DownInv
<1>5. StatesInv'
  BY DEF StatesInv, FileState
<1>6. WorkerInv' /\ TrackedInv' /\ ReapInv'
  BY DEF WorkerInv, TrackedInv, ReapInv
<1>7. SpawnInv' /\ StatesTruthful'
  BY DEF SpawnInv, StatesTruthful
<1>8. \A k \in Recordable : Owner(k) = p /\ Place(k) <= pos[p] + 1 => Accounted(ps[p], k)
  <2>1. ASSUME NEW k \in Recordable, Owner(k) = p, Place(k) <= pos[p] + 1
        PROVE  Accounted(ps[p], k)
    <3>1. Place(k) \in Nat /\ Listing[p][Place(k)] = k
      BY <2>1, PlaceFacts, ListingFacts DEF Recordable
    <3>2. Place(k) # pos[p] + 1
      BY <3>1
    <3>3. Place(k) <= pos[p]
      BY <1>1, <2>1, <3>1, <3>2
    <3>4. QED
      BY <2>1, <3>3 DEF ProducerInv, Listings
  <2>2. QED
    BY <2>1
<1>9. ProducerInv'
  BY <1>1, <1>8 DEF ProducerInv, Accounted
<1>10. QED
  BY <1>2, <1>4, <1>5, <1>6, <1>7, <1>9

\* produce: each kind of entry.
LEMMA ProduceInv ==
    ASSUME IInv, NEW p \in Prefix, Produce(p)
    PROVE  IInv'
<1> DEFINE e == Listing[p][pos[p] + 1]
<1>1. /\ prod[p] = "list" /\ pos[p] < seen[p]
      /\ pos[p] \in Nat /\ pos[p] + 1 \in 1..Len(Listing[p])
      /\ prod \in [Prefix -> Active \cup {"none", "done", "error"}] /\ pos \in [Prefix -> Nat]
      /\ done \subseteq Key /\ dstDelay \subseteq Key
  BY ListingFacts DEF Produce, IInv, TypeOK, ProducerInv
<1>2. UNCHANGED <<run, restored, toRestore, spawned, by, seen, resend, tasks,
                  workVars, failures, srcDelay, swept, saveVars, disk, crashes, faults>>
  BY DEF Produce
<1>3. CASE e \in Prefix
  <2>1. pos' = [pos EXCEPT ![p] = @ + 1] /\ UNCHANGED <<ps, reap, tracked, prod, dstDelay, done>>
    BY <1>3, ListingAssumption DEF Produce
  <2>2. e \notin Recordable
    BY <1>3, ListingAssumption DEF Recordable
  <2>3. QED
    BY <1>1, <1>2, <2>1, <2>2, PassInv
<1>4. CASE e \in Key /\ Kind[e] = "dstdir"
  <2>1. /\ pos' = [pos EXCEPT ![p] = @ + 1] /\ UNCHANGED <<ps, reap, tracked, prod, done>>
        /\ dstDelay' = dstDelay \cup {e}
    BY <1>4, ListingAssumption DEF Produce
  <2>2. e \notin Recordable
    BY <1>4 DEF Recordable
  <2>3. dstDelay' \subseteq Key
    BY <1>1, <1>4, <2>1
  <2>4. QED
    BY <1>1, <1>2, <2>1, <2>2, <2>3, PassInv
<1>5. Recorded(p) \in PrefixState /\ [Recorded(p) EXCEPT !.pending = @ \cup {}] = Recorded(p)
  <2>1. GetOrCreate(p) \in PrefixState
    BY GetFacts DEF IInv
  <2>2. Recorded(p) \in PrefixState
    BY <1>1, <2>1 DEF Recorded, PrefixState
  <2>3. QED
    BY <2>2 DEF PrefixState
<1>6. CASE e \in Key /\ Kind[e] = "send"
  <2>1. /\ UpdateState(p, [Recorded(p) EXCEPT !.pending = @ \cup {e}])
        /\ tracked' = tracked \cup {e} /\ prod' = [prod EXCEPT ![p] = "send"]
        /\ UNCHANGED <<pos, dstDelay, done>>
    BY <1>6, ListingAssumption DEF Produce
  <2>2. /\ prod'[p] = "send" /\ prod' \in [Prefix -> Active \cup {"none", "done", "error"}]
        /\ \A q \in Prefix : q # p => prod'[q] = prod[q]
    BY <1>1, <2>1 DEF Active
  <2>3. RecordStep(p, {e})
    BY <1>1, <1>2, <1>6, <2>1, <2>2 DEF RecordStep, Listings, workVars, saveVars
  <2>4. QED
    BY <1>6, <2>3, RecordInv
<1>7. CASE e \in Key /\ Kind[e] = "skip"
  <2>1. /\ UpdateState(p, Recorded(p)) /\ pos' = [pos EXCEPT ![p] = @ + 1]
        /\ done' = done \cup {e} /\ UNCHANGED <<tracked, prod, dstDelay>>
    BY <1>7, ListingAssumption DEF Produce
  <2>2. /\ pos'[p] = pos[p] + 1 /\ pos' \in [Prefix -> Nat]
        /\ \A q \in Prefix : q # p => pos'[q] = pos[q]
        /\ done' \subseteq Key /\ e \in done' /\ done \subseteq done' /\ tracked' = tracked \cup {}
    BY <1>1, <1>7, <2>1
  <2>3. UpdateState(p, [Recorded(p) EXCEPT !.pending = @ \cup {}])
    BY <1>5, <2>1
  <2>4. RecordStep(p, {})
    BY <1>1, <1>2, <1>7, <2>1, <2>2, <2>3 DEF RecordStep, Listings, workVars, saveVars
  <2>5. QED
    BY <1>7, <2>4, RecordInv
<1>8. CASE e \in Key /\ Kind[e] = "srcdir"
  <2>1. /\ UpdateState(p, Recorded(p)) /\ prod' = [prod EXCEPT ![p] = "append"]
        /\ UNCHANGED <<pos, tracked, dstDelay, done>>
    BY <1>8, ListingAssumption DEF Produce
  <2>2. /\ prod'[p] = "append" /\ prod' \in [Prefix -> Active \cup {"none", "done", "error"}]
        /\ \A q \in Prefix : q # p => prod'[q] = prod[q]
        /\ tracked' = tracked \cup {}
    BY <1>1, <2>1 DEF Active
  <2>3. UpdateState(p, [Recorded(p) EXCEPT !.pending = @ \cup {}])
    BY <1>5, <2>1
  <2>4. e \notin Recordable
    BY <1>8 DEF Recordable
  <2>5. RecordStep(p, {})
    BY <1>1, <1>2, <1>8, <2>1, <2>2, <2>3, <2>4 DEF RecordStep, Listings, workVars, saveVars
  <2>6. QED
    BY <1>8, <2>5, RecordInv
<1>9. QED
  BY <1>3, <1>4, <1>6, <1>7, <1>8 DEF Produce

\* A worker is through with key k, tracked in the state of its prefix: the key
\* leaves the state for good only if it was copied.
WorkerStepOn(w, p, k, s) ==
    /\ wst[w] # "idle" /\ Release(w)
    /\ p = Owner(k) /\ k \in tracked
    /\ UpdateState(p, s) /\ s \in PrefixState
    /\ s.present = GetOrCreate(p).present /\ s.isNew = GetOrCreate(p).isNew
    /\ s.listDone = GetOrCreate(p).listDone /\ s.last = GetOrCreate(p).last
    /\ s.pending \cup s.failed \subseteq GetOrCreate(p).pending \cup GetOrCreate(p).failed
    /\ \A j \in Key : j \in GetOrCreate(p).pending \cup GetOrCreate(p).failed =>
           j \in s.pending \/ j \in s.failed \/ (j = k /\ k \in done /\ k \notin tracked')
    /\ tracked' \subseteq tracked /\ failures' \in BOOLEAN /\ faults' \in Nat
    /\ UNCHANGED <<run, restored, prodVars, tasks, delVars, saveVars, disk, done, crashes>>

\* A worker's update of the state of its key: handled or failed, no longer pending.
LEMMA WorkerStepInv ==
    ASSUME IInv, NEW w \in Worker, NEW p, NEW k \in Key, NEW s, WorkerStepOn(w, p, k, s)
    PROVE  IInv'
<1> USE DEF WorkerStepOn, prodVars, delVars, saveVars
<1>1. /\ p \in Prefix /\ p = Owner(k) /\ k \in ps[p].pending \cup ps[p].failed
      /\ WellFormed(p, ps[p]) /\ ps[p] \in PrefixState
  BY PlaceFacts DEF IInv, TrackedInv, StatesInv, TypeOK
<1>2. ps[p].present /\ GetOrCreate(p) = ps[p]
  BY <1>1 DEF WellFormed, NoState, GetOrCreate
<1>3. /\ s \in PrefixState /\ s.present /\ s.isNew = ps[p].isNew /\ s.listDone = ps[p].listDone
      /\ s.last = ps[p].last /\ s.pending \cup s.failed \subseteq ps[p].pending \cup ps[p].failed
      /\ \A j \in Key : j \in ps[p].pending \cup ps[p].failed =>
             j \in s.pending \/ j \in s.failed \/ (j = k /\ k \in done /\ k \notin tracked')
  BY <1>2
<1>4. WellFormed(p, s)
  BY <1>1, <1>3 DEF WellFormed
<1>5. p \notin reap /\ run # "down"
  BY <1>1 DEF IInv, ReapInv, IsDone, DownInv
<1>6. IsDone(s) => prod'[p] \notin Relying
  BY <1>1, <1>3 DEF IInv, ProducerInv, IsDone
<1>7. \A j \in Recordable : Owner(j) = p /\ Passed(s, j) => j \in done'
  <2>1. ASSUME NEW j \in Recordable, Owner(j) = p, Passed(s, j) PROVE j \in done
    <3>1. CASE j \in ps[p].pending \cup ps[p].failed
      BY <1>3, <2>1, <3>1 DEF Passed, Recordable
    <3>2. CASE j \notin ps[p].pending \cup ps[p].failed
      <4>1. Passed(ps[p], j)
        BY <1>2, <1>3, <2>1, <3>2 DEF Passed
      <4>2. QED
        BY <2>1, <4>1 DEF IInv, StatesTruthful
    <3>3. QED
      BY <3>1, <3>2
  <2>2. QED
    BY <2>1
<1>8. UpdateState(p, s) /\ UNCHANGED <<toRestore, spawned, seen, snap, disk, saving>> /\ prod' = prod
  OBVIOUS
<1>9. StatesInv' /\ ReapInv' /\ SpawnInv' /\ StatesTruthful'
  BY <1>1, <1>2, <1>3, <1>4, <1>5, <1>6, <1>7, <1>8, StateChange
<1>10. /\ ps' \in [Prefix -> PrefixState] /\ reap' \subseteq Prefix /\ ps'[p] = s
       /\ \A q \in Prefix : q # p => ps'[q] = ps[q]
  BY <1>1, <1>3, <1>8, UpdateFacts DEF IInv
<1>11. TypeOK'
  <2>1. held' \in [Worker -> Key \cup {NoKey}] /\ wst' \in [Worker -> {"idle", "busy", "copied"}]
    BY DEF IInv, TypeOK, Release
  <2>2. QED
    BY <1>10, <2>1 DEF IInv, TypeOK
<1>12. DownInv'
  BY <1>5 DEF DownInv
<1>13. WorkerInv'
  BY DEF WorkerInv, IInv, TypeOK, Release
<1>14. TrackedInv'
  <2>1. ASSUME NEW j \in tracked' PROVE j \in ps'[Owner(j)].pending \/ j \in ps'[Owner(j)].failed
    <3>1. j \in Key /\ Owner(j) \in Prefix /\ (j \in ps[Owner(j)].pending \/ j \in ps[Owner(j)].failed)
      BY <2>1, PlaceFacts DEF IInv, TypeOK, TrackedInv
    <3>2. QED
      BY <1>3, <1>10, <2>1, <3>1
  <2>2. QED
    BY <2>1 DEF TrackedInv
<1>15. ProducerInv'
  <2>1. ASSUME NEW q \in Prefix, NEW j \in Key, Accounted(ps[q], j) PROVE Accounted(ps[q], j)'
    BY <1>3, <1>10, <2>1 DEF Accounted
  <2>2. \A q \in Prefix : ps'[q].listDone = ps[q].listDone
    BY <1>3, <1>10
  <2>3. ProducerInv /\ UNCHANGED <<prod, pos, seen>>
    BY DEF IInv
  <2>4. QED
    BY <2>1, <2>2, <2>3 DEF ProducerInv, Recordable
<1>16. QED
  BY <1>9, <1>11, <1>12, <1>13, <1>14, <1>15 DEF IInv

\* A worker is through with a key the manager does not track: nothing to update.
LEMMA UntrackedInv ==
    ASSUME IInv, NEW w \in Worker, wst[w] # "idle", Release(w),
           tracked' \subseteq tracked, failures' \in BOOLEAN, faults' \in Nat,
           UNCHANGED <<ps, reap>>,
           UNCHANGED <<run, restored, prodVars, tasks, delVars, saveVars, disk, done, crashes>>
    PROVE  IInv'
<1> USE DEF IInv, Release, prodVars, delVars, saveVars
<1>1. TypeOK'
  BY DEF TypeOK
<1>2. DownInv'
  BY DEF DownInv, TypeOK
<1>3. StatesInv'
  BY DEF StatesInv, FileState
<1>4. WorkerInv'
  BY DEF WorkerInv, TypeOK
<1>5. TrackedInv'
  BY DEF TrackedInv
<1>6. ReapInv'
  BY DEF ReapInv
<1>7. ProducerInv'
  BY DEF ProducerInv, Accounted
<1>8. SpawnInv' /\ StatesTruthful'
  BY DEF SpawnInv, StatesTruthful
<1>9. QED
  BY <1>1, <1>2, <1>3, <1>4, <1>5, <1>6, <1>7, <1>8

\* A completed key leaves pending and failed, and is handled.
LEMMA MarkCompletedInv ==
    ASSUME IInv, NEW w \in Worker, MarkCompleted(w)
    PROVE  IInv'
<1> DEFINE k == held[w]
           p == Owner(k)
           s == [GetOrCreate(p) EXCEPT !.pending = @ \ {k}, !.failed = @ \ {k}]
<1>1. /\ wst[w] = "copied" /\ Release(w) /\ tracked' = tracked \ {k}
      /\ UNCHANGED <<run, restored, prodVars, tasks, failures, delVars, saveVars, disk,
                     done, crashes, faults>>
      /\ k \in Key /\ k \in done
  BY DEF MarkCompleted, IInv, WorkerInv
<1>2. failures' \in BOOLEAN /\ faults' \in Nat
  BY <1>1 DEF IInv, TypeOK
<1>3. CASE k \in tracked
  <2>1. UpdateState(p, s)
    BY <1>3 DEF MarkCompleted
  <2>2. GetOrCreate(p) \in PrefixState
    BY <1>1, GetFacts, PlaceFacts DEF IInv
  <2>3. /\ s \in PrefixState /\ s.present = GetOrCreate(p).present
        /\ s.isNew = GetOrCreate(p).isNew /\ s.listDone = GetOrCreate(p).listDone
        /\ s.last = GetOrCreate(p).last
        /\ s.pending = GetOrCreate(p).pending \ {k} /\ s.failed = GetOrCreate(p).failed \ {k}
    BY <2>2 DEF PrefixState
  <2> HIDE DEF s
  <2>4. WorkerStepOn(w, p, k, s)
    BY <1>1, <1>2, <1>3, <2>1, <2>3 DEF WorkerStepOn
  <2>5. QED
    BY <1>1, <2>4, WorkerStepInv
<1>4. CASE k \notin tracked
  <2>1. UNCHANGED <<ps, reap>>
    BY <1>4 DEF MarkCompleted
  <2>2. QED
    BY <1>1, <1>2, <2>1, UntrackedInv
<1>5. QED
  BY <1>3, <1>4

\* A failed key moves from pending to failed.
LEMMA MarkFailedInv ==
    ASSUME IInv, NEW w \in Worker, MarkFailed(w)
    PROVE  IInv'
<1> DEFINE k == held[w]
           p == Owner(k)
           g == GetOrCreate(p)
           s == IF k \in g.pending
                THEN [g EXCEPT !.pending = @ \ {k}, !.failed = @ \cup {k}] ELSE g
<1>1. /\ wst[w] # "idle" /\ Release(w) /\ tracked' = tracked
      /\ failures' = TRUE /\ faults' = faults + 1
      /\ UNCHANGED <<run, restored, prodVars, tasks, delVars, saveVars, disk, done, crashes>>
      /\ k \in Key
  BY DEF MarkFailed, IInv, WorkerInv
<1>2. failures' \in BOOLEAN /\ faults' \in Nat /\ tracked' \subseteq tracked
  BY <1>1 DEF IInv, TypeOK
<1>3. CASE k \in tracked
  <2>1. UpdateState(p, s)
    BY <1>3 DEF MarkFailed
  <2>2. g \in PrefixState
    BY <1>1, GetFacts, PlaceFacts DEF IInv
  <2>3. /\ s \in PrefixState /\ s.present = g.present /\ s.isNew = g.isNew
        /\ s.listDone = g.listDone /\ s.last = g.last
        /\ s.pending \cup s.failed \subseteq g.pending \cup g.failed
        /\ \A j \in Key : j \in g.pending \cup g.failed => j \in s.pending \/ j \in s.failed
    <3>1. CASE k \in g.pending
      <4>1. s = [g EXCEPT !.pending = @ \ {k}, !.failed = @ \cup {k}]
        BY <3>1
      <4>2. /\ s \in PrefixState /\ s.present = g.present /\ s.isNew = g.isNew
            /\ s.listDone = g.listDone /\ s.last = g.last
            /\ s.pending = g.pending \ {k} /\ s.failed = g.failed \cup {k}
        BY <1>1, <2>2, <4>1 DEF PrefixState
      <4>3. QED
        BY <3>1, <4>2
    <3>2. CASE k \notin g.pending
      BY <2>2, <3>2
    <3>3. QED
      BY <3>1, <3>2
  <2> HIDE DEF s
  <2>4. WorkerStepOn(w, p, k, s)
    BY <1>1, <1>2, <1>3, <2>1, <2>3 DEF WorkerStepOn
  <2>5. QED
    BY <1>1, <2>4, WorkerStepInv
<1>4. CASE k \notin tracked
  <2>1. UNCHANGED <<ps, reap>>
    BY <1>4 DEF MarkFailed
  <2>2. QED
    BY <1>1, <1>2, <2>1, UntrackedInv
<1>5. QED
  BY <1>3, <1>4

\* Nothing happens.
LEMMA StutterInv ==
    ASSUME IInv, UNCHANGED vars
    PROVE  IInv'
<1> USE DEF IInv, vars
<1>1. TypeOK' /\ DownInv'
  BY DEF TypeOK, DownInv
<1>2. StatesInv'
  BY DEF StatesInv, FileState
<1>3. WorkerInv' /\ TrackedInv' /\ ReapInv'
  BY DEF WorkerInv, TrackedInv, ReapInv
<1>4. ProducerInv'
  BY DEF ProducerInv, Accounted
<1>5. SpawnInv' /\ StatesTruthful'
  BY DEF SpawnInv, StatesTruthful
<1>6. QED
  BY <1>1, <1>2, <1>3, <1>4, <1>5

-----------------------------------------------------------------------------
(* The theorems.                                                           *)

\* Every step preserves the invariant.
LEMMA NextInv == IInv /\ [Next]_vars => IInv'
<1> SUFFICES ASSUME IInv, [Next]_vars PROVE IInv'
  OBVIOUS
<1>1. CASE Over \/ UNCHANGED vars
  BY <1>1, StutterInv DEF Over
<1>2. CASE Start
  BY <1>2, StartInv
<1>3. CASE EndStep
  BY <1>3, CloseTasksInv, WorkersDoneInv, DropCheckpointInv, DelayedDeleteInv,
     ExitFailedInv, ExitCompletedInv DEF EndStep
<1>4. CASE SaveBegin \/ SaveStep
  BY <1>4, SaveBeginInv, SavePrefixInv, SaveDelayListsInv, SaveWriteInv DEF SaveStep
<1>5. CASE Fault
  BY <1>5, CrashInv, ListFailInv, MarkFailedInv DEF Fault
<1>6. ASSUME NEW p \in Prefix, ProducerStep(p) PROVE IInv'
  BY <1>6, RestoreTopInv, RestoreChildInv, ResendInv, ResentInv, ListNextInv, ProduceInv,
     SendTaskInv, AppendSrcDelayInv, MarkListDoneInv, ProducerDoneInv DEF ProducerStep
<1>7. ASSUME NEW w \in Worker, WorkerStep(w) PROVE IInv'
  BY <1>7, FetchInv, CopyInv, MarkCompletedInv DEF WorkerStep
<1>8. QED
  BY <1>1, <1>2, <1>3, <1>4, <1>5, <1>6, <1>7, ReapPrefixInv DEF Next

\* The inductive invariant holds in every run.
THEOREM IInvariant == Spec => []IInv
BY InitInv, NextInv, PTL DEF Spec

\* Every variable keeps its type, whatever the listing, the crashes and the faults.
THEOREM TypeCorrect == Spec => []TypeOK
<1>1. IInv => TypeOK
  BY DEF IInv
<1>2. QED
  BY <1>1, IInvariant, PTL

\* No prefix state, in memory, in a snapshot taken while producers and workers
\* go on, or in the checkpoint file, counts a key as passed that was not handled.
THEOREM SavedTruthful == Spec => []StatesTruthful
<1>1. IInv => StatesTruthful
  BY DEF IInv
<1>2. QED
  BY <1>1, IInvariant, PTL
=============================================================================
