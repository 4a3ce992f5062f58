-------------------------- MODULE CheckpointJobProofs --------------------------
(***************************************************************************)
(* More proofs about Checkpoint, on top of its inductive invariant IInv:   *)
(* that no key is in two hands and no prefix listed twice at a time,       *)
(* that a job whose checkpoints know its root implements SyncJob, and what *)
(* the checkpoint of a failed run leads the next one to; and that a job    *)
(* with delayed deletes has done them all when it reports success.         *)
(***************************************************************************)
EXTENDS CheckpointProofs, FiniteSetTheorems

-----------------------------------------------------------------------------
(* The hands a key goes through: restored, queued, held by a worker, and   *)
(* before that the producer that is about to queue it.                     *)

InHand(k) == k \in tasks \/ k \in resend[Owner(k)] \/ \E w \in Worker : held[w] = k
Sends(k) == prod[Owner(k)] = "send" /\ Listing[Owner(k)][pos[Owner(k)] + 1] = k

\* a process that is down remembers nothing, an idle worker holds nothing
EmptyInv ==
    /\ run = "down" => restored = {} /\ \A p \in Prefix : resend[p] = {}
    /\ \A w \in Worker : wst[w] = "idle" <=> held[w] = NoKey

\* the keys of a state lie behind its last listed key
Behind(s) == \A k \in s.pending \cup s.failed : Place(k) <= s.last
BehindInv == \A p \in Prefix : Behind(ps[p]) /\ Behind(snap.state[p]) /\ Behind(disk.state[p])

\* produce is not behind the state it keeps
AheadInv ==
    \A p \in Prefix :
        /\ prod[p] \in {"send", "append"} => ps[p].last <= pos[p] + 1
        /\ prod[p] = "list" => ps[p].last <= pos[p]

\* the manager knows the keys in anybody's hands, and has them from this run
TrackedHands == \A k \in Key : InHand(k) \/ Sends(k) => k \in tracked
TrackedOrigin == \A k \in tracked : Owner(k) \in restored \/ ps[Owner(k)].isNew

\* a producer has the state of this run, or of an earlier one that it has restored
OriginInv == \A p \in Prefix : prod[p] # "none" => p \in restored \/ ps[p].isNew \/ ~ps[p].present

\* keys are restored before the listing goes on
ResendInv2 ==
    \A p \in Prefix :
        /\ \A k \in resend[p] : Owner(k) = p
        /\ resend[p] # {} => prod[p] \in {"resend", "resendOnly"} /\ ~ps[p].isNew

\* a key is in one hand
OneHand ==
    /\ \A k \in tasks : k \notin resend[Owner(k)] /\ ~Sends(k) /\ \A w \in Worker : held[w] # k
    /\ \A w \in Worker : held[w] \in Key =>
          /\ held[w] \notin resend[Owner(held[w])] /\ ~Sends(held[w])
          /\ \A v \in Worker : held[v] = held[w] => v = w

HandInv ==
    /\ EmptyInv /\ BehindInv /\ AheadInv /\ TrackedHands /\ TrackedOrigin
    /\ OriginInv /\ ResendInv2 /\ OneHand
-----------------------------------------------------------------------------
(* Nothing is forgotten.                                                   *)

\* states s say that the listing of the root goes on before child prefix p
Later(s, p) ==
    /\ p \in Children(Root)
    /\ s[Root].present /\ ~s[Root].listDone /\ s[Root].last < Place(p)

\* The jobs whose checkpoints know their root: a single listing, or a job resumed from a
\* file that has the root, and every prefix the root will not come to.  Without that, and
\* with delayed deletes, keys can be lost, as the runs that find a violation show.
RootKnown ==
    /\ Recordable = Key
    /\ FirstCheckpoint.srcDelay = {} /\ FirstCheckpoint.dstDelay = {}
    /\ \/ Prefix = {Root}
       \/ /\ ~DeleteDst /\ Children(Root) \subseteq SrcPrefix
          /\ \A p \in Prefix :
                FirstCheckpoint.state[p].present \/ Later(FirstCheckpoint.state, p)

Handled(p) == \A k \in Key : Owner(k) = p => k \in done

\* a file leads a run to whatever is still to be done
FileLeads(s) ==
    Prefix = {Root} \/ \A p \in Prefix : s[p].present \/ Handled(p) \/ Later(s, p)

DelayInv ==
    /\ srcDelay = {} /\ dstDelay = {}
    /\ snap.srcDelay = {} /\ snap.dstDelay = {} /\ disk.srcDelay = {} /\ disk.dstDelay = {}

\* where a prefix is on its way
Restores(p) == p \in toRestore /\ p \notin restored /\ ps[p].present /\ ~ps[p].isNew
Spawned(p) == p \in spawned /\ ps[p].present /\ ps[p].isNew
Started(p) ==
    /\ prod[p] # "none"
    /\ prod[p] = "error" => failures
    /\ prod[p] \in {"resendOnly", "wait", "done"} => ps[p].listDone
    /\ ~ps[p].present => Prefix = {Root}
Coming(p) ==
    /\ ~ps[p].present /\ Later(ps, p)
    /\ Restores(Root) \/ prod[Root] = "resend" \/ (prod[Root] \in Listings /\ seen[Root] < Place(p))

PrefixInv ==
    run # "down" =>
        \A p \in Prefix : Handled(p) \/ Restores(p) \/ Spawned(p) \/ Started(p) \/ Coming(p)

\* the manager tracks what a producer has found or restored, and somebody works on it
PendingTracked ==
    \A p \in Prefix : p \in restored \/ ps[p].isNew => ps[p].pending \cup ps[p].failed \subseteq tracked
TrackedLive == \A k \in tracked : k \in done \/ failures \/ InHand(k) \/ Sends(k)

\* a producer is waited for by the one that started it
ParentInv ==
    /\ \A p \in Prefix : prod[p] \in Listings => pos[p] <= seen[p]
    /\ \A p \in Prefix : prod[p] \in {"send", "append"} => pos[p] < seen[p]
    /\ by[Root] # "parent"
    /\ \A p \in Prefix : prod[p] # "none" => by[p] # "none"
    /\ spawned \subseteq Children(Root)
    /\ \A p \in Prefix :
          p \in spawned \/ (by[p] = "parent" /\ prod[p] \in Active)
              => p \in Children(Root) /\ prod[Root] \in Listings \cup {"wait"}

Ended == {"closed", "ending", "sweeping", "completed"}
EndInv ==
    /\ run \in Ended => toRestore = {} /\ spawned = {} /\ \A p \in Prefix : prod[p] \notin Active
    /\ run \in Ended \ {"closed"} => tasks = {} /\ \A w \in Worker : wst[w] = "idle"
    /\ run = "completed" => ~failures

\* child prefix p is still to be found by the listing of the root
Before(p) ==
    /\ ~ps[p].present /\ Later(ps, p)
    /\ prod[Root] \in Listings => seen[Root] < Place(p)

\* a snapshot under way: what it will not have is handled, or still before the root
SnapInv ==
    /\ run = "down" => saving = "idle"
    /\ saving = "prefixes" => \A p \in copying : ps[p].present /\ ~snap.state[p].present
    /\ saving # "prefixes" => copying = {}
    /\ saving # "idle" /\ Prefix # {Root} =>
          \A p \in Prefix :
              \/ snap.state[p].present \/ p \in copying \/ Handled(p)
              \/ Later(snap.state, p)
              \/ Root \in copying /\ Before(p)

LeadInv ==
    /\ DelayInv /\ FileLeads(disk.state) /\ PrefixInv /\ PendingTracked /\ TrackedLive
    /\ ParentInv /\ EndInv /\ SnapInv

-----------------------------------------------------------------------------
(* One hand for a key: one lemma per kind of step.                         *)

\* Where the key about to be sent stands.
LEMMA SendFacts ==
    ASSUME IInv
    PROVE  /\ \A k \in Key : Owner(k) \in Prefix
           /\ \A k \in Key : Sends(k) => Place(k) = pos[Owner(k)] + 1
           /\ \A p \in Prefix : prod[p] = "send" =>
                 /\ Listing[p][pos[p] + 1] \in Key
                 /\ Owner(Listing[p][pos[p] + 1]) = p
<1>1. ASSUME NEW p \in Prefix, prod[p] = "send"
      PROVE  /\ Listing[p][pos[p] + 1] \in Key
             /\ Owner(Listing[p][pos[p] + 1]) = p
             /\ Place(Listing[p][pos[p] + 1]) = pos[p] + 1
  <2>1. pos[p] \in Nat /\ pos[p] < Len(Listing[p]) /\ Listing[p][pos[p] + 1] \in Key
    BY <1>1 DEF IInv, ProducerInv, TypeOK
  <2>2. pos[p] + 1 \in 1..Len(Listing[p])
    BY <2>1, ListingFacts
  <2>3. QED
    BY <2>1, <2>2, PlaceFacts
<1>2. \A k \in Key : Owner(k) \in Prefix
  BY PlaceFacts
<1>3. QED
  BY <1>1, <1>2 DEF Sends

\* What a step leaves in place when only the listed variables change.
LEMMA FrameHands ==
    ASSUME HandInv, run' = "down" => run = "down",
           UNCHANGED <<ps, tracked, restored, prod, pos, resend, tasks, held, wst>>,
           \A p \in Prefix : Behind(snap'.state[p]) /\ Behind(disk'.state[p])
    PROVE  HandInv'
<1> USE DEF HandInv
<1>1. EmptyInv' /\ AheadInv'
  BY DEF EmptyInv, AheadInv
<1>2. BehindInv'
  BY DEF BehindInv, Behind
<1>3. TrackedHands' /\ TrackedOrigin' /\ OriginInv' /\ ResendInv2' /\ OneHand'
  BY DEF TrackedHands, TrackedOrigin, OriginInv, ResendInv2, OneHand, InHand, Sends
<1>4. QED
  BY <1>1, <1>2, <1>3

\* The process ends, with a file whose pending keys lie behind.
LEMMA VanishHands ==
    ASSUME IInv, Vanish, \A p \in Prefix : Behind(disk'.state[p])
    PROVE  HandInv'
<1> USE DEF HandInv, Vanish
<1>1. EmptyInv' /\ AheadInv'
  BY DEF EmptyInv, AheadInv
<1>2. BehindInv'
  BY DEF BehindInv, Behind, NoState, NoCheckpoint
<1>3. \A k \in Key : Owner(k) \in Prefix
  BY PlaceFacts
<1>4. TrackedHands' /\ TrackedOrigin' /\ OriginInv' /\ ResendInv2'
  BY <1>3, ListingAssumption DEF TrackedHands, TrackedOrigin, OriginInv, ResendInv2, InHand, Sends
<1>5. OneHand'
  BY ListingAssumption DEF OneHand
<1>6. QED
  BY <1>1, <1>2, <1>4, <1>5

\* The first run starts with empty hands.
LEMMA InitHands == Init => HandInv
<1> SUFFICES ASSUME Init PROVE HandInv
  OBVIOUS
<1> USE DEF Init
<1>1. EmptyInv /\ AheadInv
  BY DEF EmptyInv, AheadInv
<1>2. BehindInv
  BY FirstPendingAssumption DEF BehindInv, Behind, NoState, NoCheckpoint
<1>3. \A k \in Key : Owner(k) \in Prefix
  BY PlaceFacts
<1>4. TrackedHands /\ TrackedOrigin /\ OriginInv /\ ResendInv2
  BY <1>3, ListingAssumption DEF TrackedHands, TrackedOrigin, OriginInv, ResendInv2, InHand, Sends
<1>5. OneHand
  BY ListingAssumption DEF OneHand
<1>6. QED
  BY <1>1, <1>2, <1>4, <1>5 DEF HandInv

\* Persisting a state keeps its pending keys and its last listed key.
LEMMA PersistedBehind ==
    ASSUME NEW s \in PrefixState
    PROVE  Behind(Persisted(s)) <=> Behind(s)
<1>1. /\ Persisted(s).pending = s.pending /\ Persisted(s).failed = s.failed
      /\ Persisted(s).last = s.last
  BY DEF Persisted, PrefixState
<1>2. QED
  BY <1>1 DEF Behind

\* Saving only copies states; the end of a run keeps, drops or replaces the file.
LEMMA SaveHands ==
    ASSUME IInv, HandInv,
           SaveBegin \/ SavePrefix \/ SaveDelayLists \/ SaveWrite \/ DropCheckpoint
           \/ ExitCompleted \/ CloseTasks \/ WorkersDone \/ DelayedDelete
    PROVE  HandInv'
<1> USE DEF mgrVars, prodVars, workVars, delVars, saveVars
<1>1. /\ UNCHANGED <<ps, tracked, restored, prod, pos, resend, tasks, held, wst>>
      /\ run' = "down" => run = "down"
  BY DEF SaveBegin, SavePrefix, SaveDelayLists, SaveWrite, DropCheckpoint, ExitCompleted,
         CloseTasks, WorkersDone, DelayedDelete
<1>2. \A p \in Prefix : Behind(NoState)
  BY DEF Behind, NoState
<1>3. /\ \A p \in Prefix : Behind(ps[p]) /\ Behind(snap.state[p]) /\ Behind(disk.state[p])
      /\ ps \in [Prefix -> PrefixState] /\ snap \in Snapshot /\ disk \in Snapshot
  BY DEF HandInv, BehindInv, IInv, TypeOK
<1>4. CASE SaveBegin
  <2>1. UNCHANGED disk /\ \A p \in Prefix : snap'.state[p] = NoState
    BY <1>4 DEF SaveBegin
  <2>2. QED
    BY <1>1, <1>2, <1>3, <2>1, FrameHands
<1>5. CASE SavePrefix
  <2>1. \A p \in Prefix : snap'.state[p] \in {snap.state[p], Persisted(ps[p])}
    BY <1>3, <1>5, StateFacts DEF SavePrefix, Snapshot, IInv, TypeOK
  <2>2. \A p \in Prefix : Behind(snap'.state[p])
    BY <1>3, <2>1, PersistedBehind
  <2>3. UNCHANGED disk
    BY <1>5 DEF SavePrefix
  <2>4. QED
    BY <1>1, <1>3, <2>2, <2>3, FrameHands
<1>6. CASE SaveDelayLists
  <2>1. UNCHANGED disk /\ snap'.state = snap.state
    BY <1>3, <1>6 DEF SaveDelayLists, Snapshot
  <2>2. QED
    BY <1>1, <1>3, <2>1, FrameHands
<1>7. CASE SaveWrite
  <2>1. snap' = NoCheckpoint /\ disk' \in {disk, snap}
    BY <1>7 DEF SaveWrite
  <2>2. QED
    BY <1>1, <1>2, <1>3, <2>1, FrameHands DEF NoCheckpoint
<1>8. CASE DropCheckpoint \/ ExitCompleted \/ CloseTasks \/ WorkersDone \/ DelayedDelete
  <2>1. UNCHANGED snap /\ disk' \in {disk, NoCheckpoint}
    BY <1>8 DEF DropCheckpoint, DroppedFile, ExitCompleted, CloseTasks, WorkersDone, DelayedDelete
  <2>2. QED
    BY <1>1, <1>2, <1>3, <2>1, FrameHands DEF NoCheckpoint
<1>9. QED
  BY <1>4, <1>5, <1>6, <1>7, <1>8

\* A run that ends at once leaves the file, or what is in memory.
LEMMA StopHands ==
    ASSUME IInv, HandInv, Crash \/ ExitFailed
    PROVE  HandInv'
<1>1. Vanish /\ disk' \in {disk, CurrentSnapshot}
  BY DEF Crash, ExitFailed
<1>2. \A p \in Prefix : CurrentSnapshot.state[p] = Persisted(ps[p]) /\ ps[p] \in PrefixState
  BY DEF CurrentSnapshot, IInv, TypeOK
<1>3. \A p \in Prefix : Behind(disk'.state[p])
  BY <1>1, <1>2, PersistedBehind DEF HandInv, BehindInv
<1>4. QED
  BY <1>1, <1>3, VanishHands

\* A tracked key is pending or failed, so its state is there, is not done, and has it behind.
LEMMA TrackedFacts ==
    ASSUME IInv, HandInv, NEW k \in tracked
    PROVE  /\ k \in Key /\ Owner(k) \in Prefix
           /\ ps[Owner(k)].present /\ ~IsDone(ps[Owner(k)])
           /\ Place(k) <= ps[Owner(k)].last
<1>1. k \in Key /\ Owner(k) \in Prefix
  BY PlaceFacts DEF IInv, TypeOK
<1>2. k \in ps[Owner(k)].pending \cup ps[Owner(k)].failed
  BY DEF IInv, TrackedInv
<1>3. Place(k) <= ps[Owner(k)].last
  BY <1>1, <1>2 DEF HandInv, BehindInv, Behind
<1>4. ~IsDone(ps[Owner(k)])
  BY <1>2 DEF IsDone
<1>5. ps[Owner(k)].present
  BY <1>1, <1>2 DEF IInv, StatesInv, WellFormed, NoState
<1>6. QED
  BY <1>1, <1>3, <1>4, <1>5

\* Changes of states alone: tracked keys keep their origin, nothing gets behind.
LEMMA StateHands ==
    ASSUME HandInv, run' = "down" => run = "down",
           UNCHANGED <<tracked, restored, resend, tasks, held, wst, snap, disk, pos>>,
           \A p \in Prefix : Behind(ps'[p]),
           \A p \in Prefix : prod'[p] # prod[p] =>
               prod'[p] \notin Listings /\ prod[p] # "send" /\ resend[p] = {},
           \A p \in Prefix : prod[p] \in Listings => ps'[p].last <= ps[p].last,
           \A k \in tracked : Owner(k) \in Prefix /\ (ps[Owner(k)].isNew => ps'[Owner(k)].isNew),
           \A p \in Prefix : resend[p] # {} => ~ps'[p].isNew,
           OriginInv', IInv, TypeOK'
    PROVE  HandInv'
<1> USE DEF HandInv
<1>1. EmptyInv' /\ BehindInv'
  BY DEF EmptyInv, BehindInv, Behind
<1>2. AheadInv'
  <2>1. ASSUME NEW p \in Prefix, prod'[p] \in Listings
        PROVE  /\ ps'[p].last \in Nat /\ ps[p].last \in Nat /\ pos[p] \in Nat
               /\ prod[p] = prod'[p] /\ ps'[p].last <= ps[p].last
    BY <2>1 DEF IInv, TypeOK, PrefixState
  <2>2. QED
    BY <2>1 DEF AheadInv, Listings
<1>3. \A k \in Key : Owner(k) \in Prefix
  BY PlaceFacts
<1>4. \A k \in Key : (Sends(k))' <=> Sends(k)
  BY <1>3 DEF Sends, Listings
<1>5. \A k \in Key : (InHand(k))' <=> InHand(k)
  BY DEF InHand
<1>6. TrackedHands' /\ TrackedOrigin' /\ ResendInv2'
  BY <1>4, <1>5 DEF TrackedHands, TrackedOrigin, ResendInv2
<1>7. OneHand'
  BY <1>4 DEF OneHand, IInv, TypeOK
<1>8. QED
  BY <1>1, <1>2, <1>6, <1>7

\* No tracked key is in a state that is removed.
LEMMA ReapPrefixHands ==
    ASSUME IInv, HandInv, IInv', NEW p \in Prefix, ReapPrefix(p)
    PROVE  HandInv'
<1>1. /\ IsDone(ps[p]) /\ prod[p] \notin Relying
      /\ ps'[p] = NoState /\ \A q \in Prefix : q # p => ps'[q] = ps[q]
  BY DEF ReapPrefix, IInv, ReapInv, TypeOK
<1>2. UNCHANGED <<run, prod, tracked, restored, resend, tasks, held, wst, snap, disk, pos>>
  BY DEF ReapPrefix, prodVars, workVars, saveVars
<1>3. \A k \in tracked : Owner(k) \in Prefix /\ Owner(k) # p
  BY <1>1, TrackedFacts
<1>4. \A q \in Prefix : Behind(ps'[q])
  BY <1>1 DEF HandInv, BehindInv, Behind, NoState
<1>5. \A q \in Prefix : resend[q] # {} => ~ps'[q].isNew
  BY <1>1 DEF HandInv, ResendInv2, NoState
<1>6. \A q \in Prefix : prod[q] \in Listings => ps'[q].last <= ps[q].last
  <2>1. \A q \in Prefix : ps[q].last \in Nat
    BY DEF IInv, TypeOK, PrefixState
  <2>2. prod[p] \notin Listings
    BY <1>1 DEF Listings, Relying
  <2>3. QED
    BY <1>1, <2>1, <2>2
<1>7. OriginInv'
  BY <1>1, <1>2 DEF HandInv, OriginInv, NoState
<1>8. QED
  BY <1>1, <1>2, <1>3, <1>4, <1>5, <1>6, <1>7, StateHands DEF IInv

\* A run starts with the pending keys of the file, none of them in a hand.
LEMMA StartHands ==
    ASSUME IInv, HandInv, IInv', Start
    PROVE  HandInv'
<1> USE DEF HandInv, IInv
<1>1. /\ run = "down" /\ run' = "up" /\ ps' = disk.state
      /\ tracked = {} /\ tasks = {} /\ prod = [p \in Prefix |-> "none"] /\ pos = [p \in Prefix |-> 0]
      /\ restored = {} /\ \A p \in Prefix : resend[p] = {}
      /\ \A w \in Worker : held[w] = NoKey
  BY DEF Start, DownInv, EmptyInv
<1>2. UNCHANGED <<tracked, restored, resend, tasks, held, wst, snap, disk, pos>>
  BY DEF Start, workVars, saveVars
<1>3. \A p \in Prefix : prod'[p] = "none" \/ (prod'[p] = "list" /\ ps'[p] = NoState)
  <2>1. CASE Loadable(disk)
    BY <1>1, <2>1 DEF Start
  <2>2. CASE ~Loadable(disk)
    <3>1. \A p \in Prefix : ps'[p] = NoState
      BY <1>1, <2>2 DEF Loadable, StatesInv, FileState, WellFormed
    <3>2. QED
      BY <1>1, <2>2, <3>1 DEF Start
  <2>3. QED
    BY <2>1, <2>2
<1>4. EmptyInv'
  BY <1>1, <1>2 DEF EmptyInv
<1>5. AheadInv'
  BY <1>1, <1>2, <1>3 DEF AheadInv, NoState
<1>6. BehindInv'
  BY <1>1, <1>2 DEF BehindInv, Behind
<1>7. \A k \in Key : Owner(k) \in Prefix
  BY PlaceFacts
<1>8. TrackedHands' /\ TrackedOrigin' /\ ResendInv2'
  BY <1>1, <1>2, <1>3, <1>7, ListingAssumption DEF TrackedHands, TrackedOrigin, ResendInv2, InHand, Sends
<1>10. OriginInv'
  BY <1>3 DEF OriginInv, NoState
<1>9. OneHand'
  BY <1>1, <1>2, ListingAssumption DEF OneHand
<1>11. QED
  BY <1>4, <1>5, <1>6, <1>8, <1>9, <1>10

\* A child is registered in a new state, or keeps the one it has.
LEMMA ListNextHands ==
    ASSUME IInv, HandInv, IInv', NEW p \in Prefix, ListNext(p)
    PROVE  HandInv'
<1>1. /\ UNCHANGED <<run, prod, tracked, restored, resend, tasks, held, wst, snap, disk, pos>>
      /\ ps' = ps \/ \E c \in Prefix : ps' = [ps EXCEPT ![c] = GetOrCreate(c)]
  BY DEF ListNext, RegisterChildPrefix, prodVars, workVars, saveVars
<1>2. ASSUME NEW q \in Prefix
      PROVE  /\ ps'[q].last = ps[q].last /\ ps'[q].pending = ps[q].pending
             /\ ps'[q].failed = ps[q].failed /\ ps[q].last \in Nat
             /\ ps[q].present => ps'[q] = ps[q]
             /\ ps'[q] = ps[q] \/ ps'[q].isNew
  <2>1. ps \in [Prefix -> PrefixState]
    BY DEF IInv, TypeOK
  <2>2. ps'[q] = ps[q] \/ ps'[q] = GetOrCreate(q)
    BY <1>1, <2>1
  <2>3. QED
    BY <2>1, <2>2, GetFacts DEF IInv, PrefixState, GetOrCreate, NewState
<1>3. \A k \in tracked : Owner(k) \in Prefix /\ ps[Owner(k)].present
  BY TrackedFacts
<1>4. \A q \in Prefix : resend[q] # {} => ps[q].present /\ ~ps[q].isNew
  <2>1. ASSUME NEW q \in Prefix, NEW k \in resend[q] PROVE ps[q].present /\ ~ps[q].isNew
    <3>1. k \in Key /\ Owner(k) = q
      BY <2>1 DEF IInv, TypeOK, HandInv, ResendInv2
    <3>2. k \in tracked
      BY <2>1, <3>1 DEF HandInv, TrackedHands, InHand
    <3>3. QED
      BY <2>1, <3>1, <3>2, TrackedFacts DEF HandInv, ResendInv2
  <2>2. QED
    BY <2>1
<1>5. \A q \in Prefix : Behind(ps'[q])
  BY <1>2 DEF HandInv, BehindInv, Behind
<1>6. OriginInv'
  BY <1>1, <1>2 DEF HandInv, OriginInv
<1>7. QED
  BY <1>1, <1>2, <1>3, <1>4, <1>5, <1>6, StateHands DEF IInv

\* A producer that returns leaves the states alone, or marks its own as listed.
LEMMA ListDoneHands ==
    ASSUME IInv, HandInv, IInv', NEW p \in Prefix,
           MarkListDone(p) \/ ProducerDone(p) \/ (ListFail(p) /\ by[p] # "sync")
    PROVE  HandInv'
<1>1. /\ UNCHANGED <<run, tracked, restored, resend, tasks, held, wst, snap, disk, pos>>
      /\ prod[p] \in {"list", "wait"} /\ prod'[p] \in {"done", "wait", "error"}
      /\ \A q \in Prefix : q # p => prod'[q] = prod[q]
      /\ \A q \in Prefix : q # p => ps'[q] = ps[q]
  BY DEF MarkListDone, ProducerDone, ListFail, UpdateState, mgrVars, workVars, saveVars, IInv, TypeOK
<1>2. /\ ps'[p].last = ps[p].last /\ ps'[p].pending = ps[p].pending
      /\ ps'[p].failed = ps[p].failed
      /\ ps[p].present => ps'[p].isNew = ps[p].isNew
      /\ ~ps[p].present => ps'[p] = ps[p] \/ ps'[p].isNew
  <2>1. CASE MarkListDone(p)
    <3>1. ps'[p] = [GetOrCreate(p) EXCEPT !.listDone = TRUE]
      BY <2>1 DEF MarkListDone, UpdateState, IInv, TypeOK
    <3>2. QED
      BY <3>1, GetFacts DEF IInv, PrefixState, GetOrCreate, NewState
  <2>2. CASE ~MarkListDone(p)
    BY <2>2 DEF ProducerDone, ListFail, mgrVars
  <2>3. QED
    BY <2>1, <2>2
<1>3. \A k \in tracked : Owner(k) \in Prefix /\ ps[Owner(k)].present
  BY TrackedFacts
<1>4. resend[p] = {}
  BY <1>1 DEF HandInv, ResendInv2
<1>5. \A q \in Prefix : resend[q] # {} => ~ps'[q].isNew
  BY <1>1, <1>4 DEF HandInv, ResendInv2
<1>6. \A q \in Prefix : ps[q].last \in Nat
  BY DEF IInv, TypeOK, PrefixState
<1>7. \A q \in Prefix : Behind(ps'[q])
  BY <1>1, <1>2 DEF HandInv, BehindInv, Behind
<1>8. \A q \in Prefix : prod'[q] # prod[q] =>
          prod'[q] \notin Listings /\ prod[q] # "send" /\ resend[q] = {}
  BY <1>1, <1>4 DEF Listings
<1>9. \A q \in Prefix : ps'[q].last <= ps[q].last
  BY <1>1, <1>2, <1>6
<1>10. \A k \in tracked : Owner(k) \in Prefix /\ (ps[Owner(k)].isNew => ps'[Owner(k)].isNew)
  BY <1>1, <1>2, <1>3
<1>11. OriginInv'
  BY <1>1, <1>2 DEF HandInv, OriginInv
<1>12. QED
  BY <1>1, <1>5, <1>7, <1>8, <1>9, <1>10, <1>11, StateHands DEF IInv

\* Queueing passes a key from the hand that restored it to the channel.
LEMMA ResendHands ==
    ASSUME IInv, HandInv, NEW p \in Prefix, Resend(p)
    PROVE  HandInv'
<1> USE DEF HandInv
<1>1. PICK k \in resend[p] : resend' = [resend EXCEPT ![p] = @ \ {k}] /\ tasks' = tasks \cup {k}
  BY DEF Resend
<1>2. /\ run' = run
      /\ UNCHANGED <<ps, tracked, restored, prod, pos, held, wst, snap, disk>>
  BY DEF Resend, mgrVars, workVars, saveVars
<1>3. /\ k \in Key /\ Owner(k) = p /\ resend \in [Prefix -> SUBSET Key] /\ tasks \subseteq Key
      /\ \A j \in Key : Owner(j) \in Prefix
      /\ prod[p] \in {"resend", "resendOnly"}
      /\ \A w \in Worker : held[w] # k
      /\ run # "down"
  BY <1>1, PlaceFacts DEF IInv, TypeOK, ResendInv2, OneHand, EmptyInv
<1>4. /\ \A j \in Key : (Sends(j))' <=> Sends(j)
      /\ \A j \in Key : (InHand(j))' <=> InHand(j)
  BY <1>1, <1>2, <1>3 DEF Sends, InHand
<1>5. EmptyInv' /\ BehindInv' /\ AheadInv'
  BY <1>2, <1>3 DEF EmptyInv, BehindInv, Behind, AheadInv
<1>6. TrackedHands' /\ TrackedOrigin' /\ OriginInv' /\ ResendInv2'
  BY <1>1, <1>2, <1>3, <1>4 DEF TrackedHands, TrackedOrigin, OriginInv, ResendInv2
<1>7. ~Sends(k)
  BY <1>3 DEF Sends
<1>8. OneHand'
  BY <1>1, <1>2, <1>3, <1>4, <1>7 DEF OneHand
<1>9. QED
  BY <1>5, <1>6, <1>8

\* ... or from the producer to the channel.
LEMMA SendTaskHands ==
    ASSUME IInv, HandInv, NEW p \in Prefix, SendTask(p) \/ AppendSrcDelay(p)
    PROVE  HandInv'
<1> USE DEF HandInv
<1> DEFINE e == Listing[p][pos[p] + 1]
<1>1. /\ run' = run
      /\ UNCHANGED <<ps, tracked, restored, resend, held, wst, snap, disk>>
      /\ prod[p] \in {"send", "append"} /\ prod'[p] = "list" /\ pos'[p] = pos[p] + 1
      /\ \A q \in Prefix : q # p => prod'[q] = prod[q] /\ pos'[q] = pos[q]
      /\ tasks' = IF prod[p] = "send" THEN tasks \cup {e} ELSE tasks
  <2>1. prod \in [Prefix -> Active \cup {"none", "done", "error"}] /\ pos \in [Prefix -> Nat]
    BY DEF IInv, TypeOK
  <2>2. CASE SendTask(p)
    BY <2>1, <2>2 DEF SendTask, mgrVars, workVars, saveVars
  <2>3. CASE AppendSrcDelay(p)
    BY <2>1, <2>3 DEF AppendSrcDelay, mgrVars, workVars, saveVars
  <2>4. QED
    BY <2>2, <2>3
<1>2. /\ resend[p] = {} /\ pos \in [Prefix -> Nat] /\ pos' \in [Prefix -> Nat]
      /\ tasks \subseteq Key /\ \A j \in Key : Owner(j) \in Prefix
  <2>1. pos \in [Prefix -> Nat] /\ tasks \subseteq Key /\ \A j \in Key : Owner(j) \in Prefix
    BY PlaceFacts DEF IInv, TypeOK
  <2>2. pos' = [pos EXCEPT ![p] = @ + 1]
    BY DEF SendTask, AppendSrcDelay
  <2>3. resend[p] = {}
    BY <1>1 DEF ResendInv2
  <2>4. QED
    BY <2>1, <2>2, <2>3
<1>3. \A j \in Key : (Sends(j))' <=> (Sends(j) /\ Owner(j) # p)
  BY <1>1, <1>2 DEF Sends
<1>4. prod[p] = "send" => e \in Key /\ Owner(e) = p /\ Sends(e)
  BY <1>1, SendFacts DEF Sends
<1>5. \A j \in Key : Sends(j) /\ Owner(j) = p => j = e /\ prod[p] = "send"
  BY DEF Sends
<1>6. \A j \in Key : (InHand(j) \/ Sends(j))' <=> (InHand(j) \/ Sends(j))
  BY <1>1, <1>2, <1>3, <1>4, <1>5 DEF InHand
<1> HIDE DEF e
<1>7. EmptyInv' /\ BehindInv'
  BY <1>1 DEF EmptyInv, BehindInv, Behind
<1>8. AheadInv'
  BY <1>1, <1>2 DEF AheadInv
<1>9. TrackedHands' /\ TrackedOrigin' /\ OriginInv'
  BY <1>1, <1>6 DEF TrackedHands, TrackedOrigin, OriginInv
<1>10. ResendInv2'
  BY <1>1, <1>2 DEF ResendInv2
<1>11. prod[p] = "send" => \A w \in Worker : held[w] # e
  BY <1>4 DEF OneHand
<1>12. OneHand'
  <2>1. \A k \in tasks' : ~(Sends(k))'
    BY <1>1, <1>2, <1>3, <1>4 DEF OneHand
  <2>2. \A k \in tasks' : k \notin resend'[Owner(k)] /\ \A w \in Worker : held'[w] # k
    BY <1>1, <1>2, <1>4, <1>11 DEF OneHand
  <2>3. QED
    BY <1>1, <1>3, <2>1, <2>2 DEF OneHand
<1>13. QED
  BY <1>7, <1>8, <1>9, <1>10, <1>12

\* A worker takes a key from the channel.
LEMMA FetchHands ==
    ASSUME IInv, HandInv, NEW w \in Worker, Fetch(w)
    PROVE  HandInv'
<1> USE DEF HandInv
<1>1. PICK k \in tasks : tasks' = tasks \ {k} /\ held' = [held EXCEPT ![w] = k]
  BY DEF Fetch
<1>2. /\ run' = run /\ wst[w] = "idle" /\ wst' = [wst EXCEPT ![w] = "busy"]
      /\ UNCHANGED <<ps, tracked, restored, prod, pos, resend, snap, disk>>
  BY DEF Fetch, mgrVars, prodVars, saveVars
<1>3. /\ k \in Key /\ tasks \subseteq Key /\ held \in [Worker -> Key \cup {NoKey}] /\ held[w] = NoKey
      /\ wst \in [Worker -> {"idle", "busy", "copied"}]
      /\ NoKey \notin Key
  BY <1>1, <1>2, ListingAssumption DEF IInv, TypeOK, EmptyInv
<1>4. /\ \A j \in Key : (Sends(j))' <=> Sends(j)
      /\ \A j \in Key : (InHand(j))' <=> InHand(j)
  BY <1>1, <1>2, <1>3 DEF Sends, InHand
<1>5. EmptyInv' /\ BehindInv' /\ AheadInv'
  BY <1>1, <1>2, <1>3 DEF EmptyInv, BehindInv, Behind, AheadInv
<1>6. TrackedHands' /\ TrackedOrigin' /\ OriginInv' /\ ResendInv2'
  BY <1>2, <1>4 DEF TrackedHands, TrackedOrigin, OriginInv, ResendInv2
<1>7. OneHand'
  BY <1>1, <1>2, <1>3, <1>4 DEF OneHand
<1>8. QED
  BY <1>5, <1>6, <1>7

\* A copied key stays in the hand of its worker.
LEMMA CopyHands ==
    ASSUME IInv, HandInv, NEW w \in Worker, Copy(w)
    PROVE  HandInv'
<1> USE DEF HandInv
<1>1. /\ run' = run /\ wst[w] = "busy" /\ wst' = [wst EXCEPT ![w] = "copied"]
      /\ UNCHANGED <<ps, tracked, restored, prod, pos, resend, tasks, held, snap, disk>>
      /\ wst \in [Worker -> {"idle", "busy", "copied"}]
  BY DEF Copy, mgrVars, prodVars, saveVars, IInv, TypeOK
<1>2. EmptyInv' /\ BehindInv' /\ AheadInv'
  BY <1>1 DEF EmptyInv, BehindInv, Behind, AheadInv
<1>3. TrackedHands' /\ TrackedOrigin' /\ OriginInv' /\ ResendInv2' /\ OneHand'
  BY <1>1 DEF TrackedHands, TrackedOrigin, OriginInv, ResendInv2, OneHand, Sends, InHand
<1>4. QED
  BY <1>2, <1>3

\* A worker lets go of a key: it is tracked no longer, or failed and tracked.
LEMMA ReleaseHands ==
    ASSUME IInv, HandInv, IInv', NEW w \in Worker, MarkCompleted(w) \/ MarkFailed(w)
    PROVE  HandInv'
<1> USE DEF HandInv
<1> DEFINE k == held[w]
<1> DEFINE p == Owner(k)
<1>1. /\ wst[w] \in {"copied", "busy"} /\ k \in Key /\ p \in Prefix /\ run' = run
      /\ UNCHANGED <<restored, prod, pos, resend, tasks, snap, disk>>
      /\ held' = [held EXCEPT ![w] = NoKey] /\ wst' = [wst EXCEPT ![w] = "idle"]
      /\ held \in [Worker -> Key \cup {NoKey}] /\ NoKey \notin Key
      /\ wst \in [Worker -> {"idle", "busy", "copied"}]
  BY PlaceFacts, ListingAssumption
     DEF MarkCompleted, MarkFailed, Release, prodVars, saveVars, IInv, TypeOK, WorkerInv
<1>2. /\ tracked' \subseteq tracked /\ tracked \ {k} \subseteq tracked'
  BY DEF MarkCompleted, MarkFailed
<1>3. ASSUME NEW q \in Prefix
      PROVE  /\ ps'[q].last = ps[q].last
             /\ ps'[q].pending \cup ps'[q].failed \subseteq ps[q].pending \cup ps[q].failed
             /\ ps[q].present => (ps'[q].isNew <=> ps[q].isNew)
             /\ ps'[q] = ps[q] \/ ps[q].present \/ ps'[q].isNew
  <2>1. ps \in [Prefix -> PrefixState]
    BY DEF IInv, TypeOK
  <2>2. CASE ps' = ps
    BY <2>2
  <2>3. CASE q # p /\ ps' # ps
    <3>1. \E s : UpdateState(p, s)
      BY <2>3 DEF MarkCompleted, MarkFailed
    <3>2. QED
      BY <1>1, <2>1, <2>3, <3>1 DEF UpdateState
  <2>4. CASE q = p /\ ps' # ps
    <3> DEFINE g == GetOrCreate(p)
    <3>1. /\ g \in PrefixState /\ g.last = ps[p].last /\ g.pending = ps[p].pending
          /\ g.failed = ps[p].failed
      BY <1>1, GetFacts DEF IInv
    <3>2. /\ ps[p].present => (g.isNew <=> ps[p].isNew)
          /\ ps[p].present \/ g.isNew
      BY DEF GetOrCreate, NewState
    <3>3. ps'[p] \in {g, [g EXCEPT !.pending = @ \ {k}, !.failed = @ \ {k}]}
          \/ (k \in g.pending
              /\ ps'[p] = [g EXCEPT !.pending = @ \ {k}, !.failed = @ \cup {k}])
      BY <1>1, <2>1, <2>4 DEF MarkCompleted, MarkFailed, UpdateState
    <3> HIDE DEF g, k, p
    <3>4. /\ ps'[p].last = g.last
          /\ ps'[p].pending \cup ps'[p].failed \subseteq g.pending \cup g.failed
          /\ ps'[p].isNew <=> g.isNew
      BY <3>1, <3>3 DEF PrefixState
    <3>5. /\ ps'[p].last = ps[p].last
          /\ ps'[p].pending \cup ps'[p].failed \subseteq ps[p].pending \cup ps[p].failed
      BY <3>1, <3>4
    <3>6. /\ ps[p].present => (ps'[p].isNew <=> ps[p].isNew)
          /\ ps[p].present \/ ps'[p].isNew
      BY <3>2, <3>4
    <3>7. QED
      BY <2>4, <3>5, <3>6
  <2>5. QED
    BY <2>2, <2>3, <2>4
<1> HIDE DEF k, p
<1>4. EmptyInv' /\ BehindInv'
  <2>1. BehindInv'
    BY <1>1, <1>3 DEF BehindInv, Behind
  <2>2. held[w] = k
    BY DEF k
  <2>3. EmptyInv'
    BY <1>1, <2>2 DEF EmptyInv
  <2>4. QED
    BY <2>1, <2>3
<1>5. AheadInv'
  BY <1>1, <1>3 DEF AheadInv
<1>6. \A j \in Key : (Sends(j))' <=> Sends(j)
  BY <1>1 DEF Sends
<1>7. held[w] = k /\ ~Sends(k) /\ k \notin tasks /\ k \notin resend[p]
      /\ \A v \in Worker : v # w => held[v] # k
  BY <1>1 DEF OneHand, k, p
<1>8. ASSUME NEW j \in Key, (InHand(j))' PROVE InHand(j) /\ j # k
  BY <1>1, <1>7, <1>8 DEF InHand, p
<1>9. TrackedHands'
  BY <1>2, <1>6, <1>7, <1>8 DEF TrackedHands
<1>10. TrackedOrigin' /\ OriginInv'
  BY <1>1, <1>2, <1>3, TrackedFacts DEF TrackedOrigin, OriginInv
<1>11. ResendInv2'
  <2>1. ASSUME NEW q \in Prefix, NEW j \in resend[q] PROVE ps[q].present
    <3>1. j \in Key /\ Owner(j) = q
      BY <2>1 DEF ResendInv2, IInv, TypeOK
    <3>2. j \in tracked
      BY <2>1, <3>1 DEF TrackedHands, InHand
    <3>3. QED
      BY <3>1, <3>2, TrackedFacts
  <2>2. QED
    BY <1>1, <1>3, <2>1 DEF ResendInv2
<1>12. OneHand'
  BY <1>1, <1>6 DEF OneHand, IInv, TypeOK
<1>13. QED
  BY <1>4, <1>5, <1>9, <1>10, <1>11, <1>12

\* What a step of produce does to the state and to the next entry.
RecordsEntry(p, n) ==
    LET e == Listing[p][pos[p] + 1]
    IN  /\ e \in Key /\ n \subseteq {e}
        /\ tracked' = tracked \cup n
        /\ ps'[p] \in PrefixState /\ ps'[p].present /\ ps'[p].last = pos[p] + 1
        /\ ps'[p].listDone = ps[p].listDone /\ ps'[p].failed = ps[p].failed
        /\ ps'[p].pending = ps[p].pending \cup n
        /\ ps[p].present => (ps'[p].isNew <=> ps[p].isNew)
        /\ ps[p].present \/ ps'[p].isNew
        /\ ps[p].present \/ ~MapLocked
        /\ \/ n = {e} /\ prod'[p] = "send" /\ pos' = pos /\ done' = done
           \/ n = {} /\ prod'[p] = "list" /\ pos'[p] = pos[p] + 1 /\ done' = done \cup {e}
           \/ n = {} /\ prod'[p] = "append" /\ pos' = pos /\ done' = done /\ Kind[e] = "srcdir"

\* An update with the next entry recorded, and the keys of n pending.
LEMMA RecordFacts ==
    ASSUME IInv, NEW p \in Prefix, NEW n \in SUBSET Key, NEW s,
           \/ s = Recorded(p) /\ n = {}
           \/ s = [Recorded(p) EXCEPT !.pending = @ \cup n],
           UpdateState(p, s)
    PROVE  /\ ps'[p] \in PrefixState /\ ps'[p].present /\ ps'[p].last = pos[p] + 1
           /\ ps'[p].listDone = ps[p].listDone /\ ps'[p].failed = ps[p].failed
           /\ ps'[p].pending = ps[p].pending \cup n
           /\ ps[p].present => (ps'[p].isNew <=> ps[p].isNew)
           /\ ps[p].present \/ ps'[p].isNew
           /\ ps[p].present \/ ~MapLocked
<1>1. /\ GetOrCreate(p) \in PrefixState /\ GetOrCreate(p).present
      /\ GetOrCreate(p).pending = ps[p].pending /\ GetOrCreate(p).failed = ps[p].failed
      /\ GetOrCreate(p).listDone = ps[p].listDone
      /\ ps[p].present => GetOrCreate(p) = ps[p]
      /\ ps[p].present \/ GetOrCreate(p).isNew
  BY GetFacts DEF IInv, GetOrCreate, NewState
<1>2. pos[p] + 1 \in Nat
  BY DEF IInv, TypeOK
<1>3. /\ Recorded(p) \in PrefixState /\ Recorded(p).last = pos[p] + 1
      /\ Recorded(p).present = GetOrCreate(p).present
      /\ Recorded(p).listDone = GetOrCreate(p).listDone /\ Recorded(p).isNew = GetOrCreate(p).isNew
      /\ Recorded(p).pending = GetOrCreate(p).pending /\ Recorded(p).failed = GetOrCreate(p).failed
  BY ONLY <1>1, <1>2 DEF PrefixState, Recorded
<1>4. /\ s \in PrefixState /\ s.present = Recorded(p).present /\ s.last = Recorded(p).last
      /\ s.listDone = Recorded(p).listDone /\ s.isNew = Recorded(p).isNew
      /\ s.pending = Recorded(p).pending \cup n /\ s.failed = Recorded(p).failed
  BY <1>3 DEF PrefixState
<1>5. ps'[p] = s /\ (ps[p].present \/ ~MapLocked)
  BY DEF UpdateState, IInv, TypeOK
<1>6. /\ ps'[p] \in PrefixState /\ ps'[p].last = pos[p] + 1 /\ ps'[p].failed = ps[p].failed
      /\ ps'[p].listDone = ps[p].listDone /\ ps'[p].pending = ps[p].pending \cup n
      /\ ps'[p].isNew = GetOrCreate(p).isNew /\ ps'[p].present = GetOrCreate(p).present
  BY <1>1, <1>3, <1>4, <1>5
<1>7. ps[p].present => (ps'[p].isNew <=> ps[p].isNew)
  BY <1>1, <1>6
<1>8. ps[p].present \/ ps'[p].isNew
  BY <1>1, <1>6
<1>9. ps'[p].present
  BY <1>1, <1>6
<1>10. QED
  BY <1>5, <1>6, <1>7, <1>8, <1>9

\* Produce passes an entry, or records it.
LEMMA ProduceFacts ==
    ASSUME IInv, NEW p \in Prefix, Produce(p)
    PROVE  /\ prod[p] = "list" /\ pos[p] < seen[p]
           /\ UNCHANGED <<run, restored, toRestore, spawned, by, seen, resend, tasks, held, wst,
                          failures, srcDelay, swept, saving, copying, snap, disk>>
           /\ \A q \in Prefix : q # p => ps'[q] = ps[q] /\ prod'[q] = prod[q] /\ pos'[q] = pos[q]
           /\ \/ /\ UNCHANGED <<ps, tracked, prod, done>> /\ pos'[p] = pos[p] + 1
                 /\ Listing[p][pos[p] + 1] \in Prefix
                    \/ (Listing[p][pos[p] + 1] \in Key /\ Kind[Listing[p][pos[p] + 1]] = "dstdir")
              \/ \E n : RecordsEntry(p, n)
<1> DEFINE e == Listing[p][pos[p] + 1]
<1>1. /\ prod[p] = "list" /\ pos[p] < seen[p]
      /\ UNCHANGED <<run, restored, toRestore, spawned, by, seen, resend, tasks, held, wst,
                     failures, srcDelay, swept, saving, copying, snap, disk>>
  BY DEF Produce, workVars, saveVars
<1>2. /\ ps \in [Prefix -> PrefixState] /\ pos \in [Prefix -> Nat]
      /\ prod \in [Prefix -> Active \cup {"none", "done", "error"}]
  BY DEF IInv, TypeOK
<1>3. \A q \in Prefix : q # p => ps'[q] = ps[q] /\ prod'[q] = prod[q] /\ pos'[q] = pos[q]
  BY <1>2 DEF Produce, UpdateState
<1>4. CASE e \in Prefix
  BY <1>1, <1>2, <1>3, <1>4, ListingAssumption DEF Produce
<1>5. CASE e \in Key /\ Kind[e] = "dstdir"
  BY <1>1, <1>2, <1>3, <1>5, ListingAssumption DEF Produce
<1>6. CASE e \in Key /\ Kind[e] = "send"
  <2>1. /\ UpdateState(p, [Recorded(p) EXCEPT !.pending = @ \cup {e}])
        /\ tracked' = tracked \cup {e} /\ prod'[p] = "send" /\ pos' = pos /\ done' = done
    BY <1>2, <1>6, ListingAssumption DEF Produce
  <2>2. {e} \in SUBSET Key
    BY <1>6
  <2>3. RecordsEntry(p, {e})
    BY <1>6, <2>1, <2>2, RecordFacts DEF RecordsEntry
  <2>4. QED
    BY <1>1, <1>3, <2>3
<1>7. CASE e \in Key /\ Kind[e] = "skip"
  <2>1. /\ UpdateState(p, Recorded(p)) /\ prod'[p] = "list"
        /\ tracked' = tracked /\ pos'[p] = pos[p] + 1 /\ done' = done \cup {e}
    BY <1>1, <1>2, <1>7, ListingAssumption DEF Produce
  <2>2. {} \in SUBSET Key /\ {} \subseteq {e} /\ tracked' = tracked \cup {}
    BY <2>1
  <2>3. RecordsEntry(p, {})
    BY <1>7, <2>1, <2>2, RecordFacts DEF RecordsEntry
  <2>4. QED
    BY <1>1, <1>3, <2>3
<1>8. CASE e \in Key /\ Kind[e] = "srcdir"
  <2>1. /\ UpdateState(p, Recorded(p)) /\ prod'[p] = "append"
        /\ tracked' = tracked /\ pos' = pos /\ done' = done
    BY <1>1, <1>2, <1>8, ListingAssumption DEF Produce
  <2>2. {} \in SUBSET Key /\ {} \subseteq {e} /\ tracked' = tracked \cup {}
    BY <2>1
  <2>3. RecordsEntry(p, {})
    BY <1>8, <2>1, <2>2, RecordFacts DEF RecordsEntry
  <2>4. QED
    BY <1>1, <1>3, <2>3
<1>9. QED
  BY <1>4, <1>5, <1>6, <1>7, <1>8 DEF Produce

\* The next entry of a listing is in no hand, since its place is ahead of the state.
LEMMA ProduceHands ==
    ASSUME IInv, HandInv, IInv', NEW p \in Prefix, Produce(p)
    PROVE  HandInv'
<1> USE DEF HandInv
<1> DEFINE e == Listing[p][pos[p] + 1]
<1>1. /\ prod[p] = "list" /\ pos[p] < seen[p] /\ run' = run
      /\ UNCHANGED <<restored, resend, tasks, held, wst, snap, disk>>
      /\ pos \in [Prefix -> Nat] /\ pos[p] \in Nat /\ seen[p] \in Nat
      /\ prod \in [Prefix -> Active \cup {"none", "done", "error"}]
      /\ resend[p] = {}
      /\ ps[p].last \in Nat /\ ps[p].last <= pos[p]
  BY DEF Produce, workVars, saveVars, IInv, TypeOK, PrefixState, AheadInv, ResendInv2
<1>2. e \in Key => /\ Owner(e) = p /\ Place(e) = pos[p] + 1
                   /\ e \notin tracked /\ ~InHand(e)
  <2>1. SUFFICES ASSUME e \in Key
                 PROVE  Owner(e) = p /\ Place(e) = pos[p] + 1 /\ e \notin tracked /\ ~InHand(e)
    OBVIOUS
  <2>2. pos[p] + 1 \in 1..Len(Listing[p])
    BY <1>1, ListingFacts DEF IInv, ProducerInv
  <2>3. Owner(e) = p /\ Place(e) = pos[p] + 1
    BY <2>1, <2>2, PlaceFacts
  <2>4. e \notin tracked
    BY <1>1, <2>3, TrackedFacts
  <2>5. QED
    BY <2>1, <2>3, <2>4 DEF TrackedHands
<1>3. \A q \in Prefix : q # p => ps'[q] = ps[q] /\ prod'[q] = prod[q] /\ pos'[q] = pos[q]
  BY ProduceFacts
<1>4. \/ UNCHANGED <<ps, tracked, prod>> /\ pos'[p] = pos[p] + 1
      \/ \E n : RecordsEntry(p, n)
  BY ProduceFacts
<1>5. /\ ps'[p] = ps[p] \/ ps'[p].last = pos[p] + 1
      /\ ps[p].present => (ps'[p].isNew <=> ps[p].isNew)
      /\ ps'[p] = ps[p] \/ ps[p].present \/ ps'[p].isNew
      /\ \A k \in ps'[p].pending \cup ps'[p].failed :
             k \in ps[p].pending \cup ps[p].failed \/ (k = e /\ e \in Key /\ ps'[p].last = pos[p] + 1)
  BY <1>4 DEF RecordsEntry
<1>6. /\ tracked \subseteq tracked' /\ \A j \in tracked' : j \in tracked \/ (j = e /\ e \in Key)
      /\ prod'[p] = "send" => e \in tracked' /\ pos' = pos
      /\ prod'[p] = "list" => pos'[p] = pos[p] + 1
      /\ prod'[p] = "append" => pos' = pos /\ ps'[p].last = pos[p] + 1
      /\ prod'[p] \in {"list", "send", "append"}
  BY <1>1, <1>4 DEF RecordsEntry
<1> HIDE DEF e
<1>7. Behind(ps'[p])
  <2>1. ASSUME NEW k \in ps'[p].pending \cup ps'[p].failed PROVE Place(k) <= ps'[p].last
    <3>1. CASE k \in ps[p].pending \cup ps[p].failed
      <4>1. Place(k) <= ps[p].last /\ k \in Key
        BY <3>1 DEF BehindInv, Behind, IInv, TypeOK, PrefixState
      <4>2. Place(k) \in Nat
        BY <4>1, PlaceFacts, ListingFacts
      <4>3. QED
        BY <1>1, <1>5, <4>1, <4>2
    <3>2. CASE k = e /\ e \in Key /\ ps'[p].last = pos[p] + 1
      BY <1>1, <1>2, <3>2
    <3>3. QED
      BY <1>5, <2>1, <3>1, <3>2
  <2>2. QED
    BY <2>1 DEF Behind
<1>8. EmptyInv' /\ BehindInv'
  <2>1. EmptyInv'
    BY <1>1 DEF EmptyInv
  <2>2. BehindInv'
    BY <1>1, <1>3, <1>7 DEF BehindInv
  <2>3. QED
    BY <2>1, <2>2
<1>9. AheadInv'
  BY <1>1, <1>3, <1>5, <1>6 DEF AheadInv
<1>10. /\ \A j \in Key : (InHand(j))' <=> InHand(j)
       /\ \A j \in Key : (Sends(j))' => Sends(j) \/ (j = e /\ e \in tracked')
       /\ \A j \in Key : Owner(j) \in Prefix
  <2>1. \A j \in Key : (InHand(j))' <=> InHand(j)
    BY <1>1 DEF InHand
  <2>2. ASSUME NEW j \in Key, (Sends(j))', Owner(j) = p PROVE j = e /\ e \in tracked'
    BY <1>1, <1>6, <2>2 DEF Sends, e
  <2>3. \A j \in Key : Owner(j) \in Prefix
    BY PlaceFacts
  <2>4. QED
    BY <1>3, <2>1, <2>2, <2>3 DEF Sends
<1>12. TrackedHands'
  BY <1>6, <1>10 DEF TrackedHands
<1>13. OriginInv' /\ ResendInv2'
  BY <1>1, <1>3, <1>5 DEF OriginInv, ResendInv2
<1>14. TrackedOrigin'
  <2>1. ASSUME NEW j \in tracked' PROVE Owner(j) \in restored' \/ ps'[Owner(j)].isNew
    <3>1. CASE j \in tracked
      <4>1. Owner(j) \in Prefix /\ ps[Owner(j)].present
        BY <3>1, TrackedFacts
      <4>2. ps'[Owner(j)].isNew <=> ps[Owner(j)].isNew
        BY <1>3, <1>5, <4>1
      <4>3. QED
        BY <1>1, <3>1, <4>2 DEF TrackedOrigin
    <3>2. CASE j = e /\ e \in Key /\ j \notin tracked
      <4>1. Owner(e) = p
        BY <1>2, <3>2
      <4>2. p \in restored \/ ps'[p].isNew \/ ~ps'[p].present
        BY <1>1, <1>6, <1>13 DEF OriginInv
      <4>3. ps'[p].present
        BY <2>1, <3>2, <1>4 DEF RecordsEntry
      <4>4. QED
        BY <1>1, <3>2, <4>1, <4>2, <4>3
    <3>3. QED
      BY <1>6, <2>1, <3>1, <3>2
  <2>2. QED
    BY <2>1 DEF TrackedOrigin
<1>15. OneHand'
  BY <1>1, <1>2, <1>10 DEF OneHand, InHand, IInv, TypeOK
<1>16. QED
  BY <1>8, <1>9, <1>12, <1>13, <1>14, <1>15

\* A listing begins where its state stands, after all restored keys are queued.
LEMMA BeginHands ==
    ASSUME IInv, HandInv, NEW p \in Prefix, NEW who, BeginList(p, who),
           resend[p] = {}, prod[p] \notin Listings,
           p \in restored \/ ps[p].isNew \/ ~ps[p].present, run' = run,
           UNCHANGED <<ps, tracked, restored, resend, tasks, held, wst, snap, disk>>
    PROVE  HandInv'
<1> USE DEF HandInv
<1>1. /\ prod'[p] = "list" /\ pos'[p] = ps[p].last /\ ps[p].last \in Nat
      /\ \A q \in Prefix : q # p => prod'[q] = prod[q] /\ pos'[q] = pos[q]
  BY DEF BeginList, IInv, TypeOK, PrefixState
<1>2. \A k \in Key : Owner(k) \in Prefix
  BY PlaceFacts
<1>3. \A k \in Key : (Sends(k))' <=> Sends(k)
  BY <1>1, <1>2 DEF Sends, Listings
<1>4. \A k \in Key : (InHand(k))' <=> InHand(k)
  BY DEF InHand
<1>5. EmptyInv' /\ BehindInv'
  BY DEF EmptyInv, BehindInv, Behind
<1>6. AheadInv'
  BY <1>1 DEF AheadInv
<1>7. TrackedHands' /\ TrackedOrigin' /\ OriginInv'
  BY <1>1, <1>3, <1>4 DEF TrackedHands, TrackedOrigin, OriginInv
<1>8. ResendInv2'
  BY <1>1 DEF ResendInv2
<1>9. OneHand'
  BY <1>3 DEF OneHand, IInv, TypeOK
<1>10. QED
  BY <1>5, <1>6, <1>7, <1>8, <1>9

\* After the restored keys the producer lists, or is done.
LEMMA ResentHands ==
    ASSUME IInv, HandInv, IInv', NEW p \in Prefix, Resent(p)
    PROVE  HandInv'
<1>1. /\ UNCHANGED <<run, ps, tracked, restored, resend, tasks, held, wst, snap, disk>>
      /\ resend[p] = {} /\ prod[p] \in {"resend", "resendOnly"}
  BY DEF Resent, mgrVars, workVars, saveVars
<1>2. CASE prod[p] = "resend" /\ BeginList(p, by[p])
  <2>1. p \in restored \/ ps[p].isNew \/ ~ps[p].present
    BY <1>1 DEF HandInv, OriginInv
  <2>2. QED
    BY <1>1, <1>2, <2>1, BeginHands DEF Listings
<1>3. CASE prod' = [prod EXCEPT ![p] = "done"] /\ UNCHANGED <<by, seen, pos>>
  <2>1. /\ prod'[p] = "done" /\ \A q \in Prefix : q # p => prod'[q] = prod[q]
    BY <1>3 DEF IInv, TypeOK
  <2>2. OriginInv'
    BY <1>1, <2>1 DEF HandInv, OriginInv
  <2>3. \A q \in Prefix : ps[q].last \in Nat
    BY DEF IInv, TypeOK, PrefixState
  <2>4. \A q \in Prefix : Behind(ps'[q]) /\ (resend[q] # {} => ~ps'[q].isNew)
    BY <1>1 DEF HandInv, BehindInv, ResendInv2
  <2>5. \A k \in tracked : Owner(k) \in Prefix
    BY TrackedFacts
  <2>6. QED
    BY <1>1, <1>3, <2>1, <2>2, <2>3, <2>4, <2>5, StateHands DEF Listings, IInv
<1>4. QED
  BY <1>2, <1>3 DEF Resent

\* A prefix that nobody restored has no key in a hand; those of its state then are.
LEMMA RestoreHands ==
    ASSUME IInv, HandInv, NEW p \in Prefix, NEW who \in {"top", "parent"},
           Restorable(p), RestorePrefix(p, who),
           run # "down", UNCHANGED <<run, tasks, workVars, saveVars, disk>>
    PROVE  HandInv'
<1> USE DEF HandInv, workVars, saveVars
<1> DEFINE again == ps[p].pending \cup ps[p].failed
<1>1. /\ ~ps'[p].isNew /\ ~ps[p].isNew /\ p \notin restored
      /\ ps'[p].last = ps[p].last /\ ps'[p].pending = again /\ ps'[p].failed = {}
      /\ \A q \in Prefix : q # p => ps'[q] = ps[q] /\ prod'[q] = prod[q]
      /\ prod'[p] \in {"resend", "resendOnly"}
  BY RestoreFacts DEF Restorable
<1>2. /\ restored' = restored \cup {p} /\ tracked' = tracked \cup again /\ pos' = pos
      /\ resend'[p] = again /\ \A q \in Prefix : q # p => resend'[q] = resend[q]
      /\ UNCHANGED <<tasks, held, wst, snap, disk>> /\ run' # "down"
  BY DEF RestorePrefix, IInv, TypeOK
<1>3. \A k \in again : k \in Key /\ Owner(k) = p
  BY DEF IInv, TypeOK, StatesInv, WellFormed, PrefixState
<1>4. \A k \in tracked : k \in Key /\ Owner(k) \in Prefix /\ Owner(k) # p
  BY <1>1, TrackedFacts DEF TrackedOrigin
<1>5. \A k \in Key : Owner(k) \in Prefix
  BY PlaceFacts
<1>6. \A k \in Key : (InHand(k) \/ Sends(k)) => Owner(k) # p
  BY <1>4 DEF TrackedHands
<1>7. \A k \in Key : (Sends(k))' => Sends(k) /\ Owner(k) # p
  BY <1>1, <1>2, <1>5 DEF Sends
<1>8. \A k \in Key : (InHand(k))' => InHand(k) \/ k \in again
  BY <1>2, <1>5 DEF InHand
<1>9. EmptyInv' /\ AheadInv'
  BY <1>1, <1>2 DEF EmptyInv, AheadInv
<1>10. BehindInv'
  <2>1. Behind(ps'[p])
    BY <1>1 DEF BehindInv, Behind
  <2>2. QED
    BY <1>1, <1>2, <2>1 DEF BehindInv
<1>11. TrackedHands'
  BY <1>2, <1>7, <1>8 DEF TrackedHands
<1>12. TrackedOrigin' /\ OriginInv'
  BY <1>1, <1>2, <1>3, <1>4 DEF TrackedOrigin, OriginInv
<1>13. ResendInv2'
  BY <1>1, <1>2, <1>3 DEF ResendInv2
<1>14. OneHand'
  <2>1. /\ \A k \in tasks : k \in Key /\ Owner(k) # p
        /\ \A w \in Worker : held[w] \in Key => Owner(held[w]) # p
    BY <1>6 DEF InHand, IInv, TypeOK
  <2>2. QED
    BY <1>2, <1>5, <1>7, <2>1 DEF OneHand
<1>15. QED
  BY <1>9, <1>10, <1>11, <1>12, <1>13, <1>14

\* Nothing but the goroutines still to run.
LEMMA SkipHands ==
    ASSUME HandInv, UNCHANGED <<run, mgrVars, prod, pos, resend, tasks, workVars, saveVars, disk>>
    PROVE  HandInv'
<1>1. \A p \in Prefix : Behind(snap'.state[p]) /\ Behind(disk'.state[p])
  BY DEF HandInv, BehindInv, saveVars
<1>2. QED
  BY <1>1, FrameHands DEF mgrVars, workVars, saveVars

\* The two ways to a prefix at the start of a run or below its parent.
LEMMA RestoreStepHands ==
    ASSUME IInv, HandInv, NEW p \in Prefix, RestoreTop(p) \/ RestoreChild(p)
    PROVE  HandInv'
<1>1. run # "down" /\ UNCHANGED <<run, tasks, workVars, saveVars, disk>>
  BY DEF IInv, DownInv, RestoreTop, RestoreChild
<1>2. CASE Restorable(p) /\ (RestorePrefix(p, "top") \/ RestorePrefix(p, "parent"))
  BY <1>1, <1>2, RestoreHands
<1>3. CASE UNCHANGED <<mgrVars, prod, by, seen, pos, resend>>
  BY <1>1, <1>3, SkipHands
<1>4. CASE /\ p \in spawned /\ (~ps[p].present \/ ps[p].isNew)
           /\ BeginList(p, "parent") /\ UNCHANGED <<mgrVars, resend>>
  <2>1. prod[p] \notin Relying
    BY <1>4 DEF IInv, SpawnInv
  <2>2. ASSUME NEW k \in resend[p] PROVE FALSE
    <3>1. k \in Key /\ Owner(k) = p /\ ~ps[p].isNew
      BY <2>2 DEF HandInv, ResendInv2, IInv, TypeOK
    <3>2. k \in tracked
      BY <2>2, <3>1 DEF HandInv, TrackedHands, InHand
    <3>3. ps[p].present
      BY <3>1, <3>2, TrackedFacts
    <3>4. QED
      BY <1>4, <3>1, <3>3
  <2>3. QED
    BY <1>1, <1>4, <2>1, <2>2, BeginHands DEF Listings, Relying, mgrVars, workVars, saveVars
<1>5. QED
  BY <1>2, <1>3, <1>4 DEF RestoreTop, RestoreChild

\* HandInv holds of every step.
LEMMA NextHands == IInv /\ HandInv /\ [Next]_vars /\ IInv' => HandInv'
<1> SUFFICES ASSUME IInv, HandInv, [Next]_vars, IInv' PROVE HandInv'
  OBVIOUS
<1>1. CASE Over \/ UNCHANGED vars
  BY <1>1, SkipHands DEF Over, vars, mgrVars, workVars, saveVars
<1>2. CASE Start
  BY <1>2, StartHands
<1>3. CASE EndStep
  BY <1>3, SaveHands, StopHands DEF EndStep
<1>4. CASE SaveBegin \/ SaveStep
  BY <1>4, SaveHands DEF SaveStep
<1>5. ASSUME NEW p \in Prefix, ListFail(p) PROVE HandInv'
  <2>1. CASE by[p] = "sync"
    <3>1. Vanish /\ UNCHANGED disk
      BY <1>5, <2>1 DEF ListFail
    <3>2. QED
      BY <3>1, VanishHands DEF HandInv, BehindInv
  <2>2. CASE by[p] # "sync"
    BY <1>5, <2>2, ListDoneHands
  <2>3. QED
    BY <2>1, <2>2
<1>6. CASE Fault
  BY <1>5, <1>6, StopHands, ReleaseHands DEF Fault
<1>7. ASSUME NEW p \in Prefix, ProducerStep(p) \/ ReapPrefix(p) PROVE HandInv'
  BY <1>7, RestoreStepHands, ResendHands, ResentHands, ListNextHands, ProduceHands,
     SendTaskHands, ListDoneHands, ReapPrefixHands DEF ProducerStep
<1>8. ASSUME NEW w \in Worker, WorkerStep(w) PROVE HandInv'
  BY <1>8, FetchHands, CopyHands, ReleaseHands DEF WorkerStep
<1>9. QED
  BY <1>1, <1>2, <1>3, <1>4, <1>6, <1>7, <1>8 DEF Next

\* Every key the manager tracks has its origin in this run and is in one hand at most.
THEOREM HandsInvariant == Spec => [](IInv /\ HandInv)
<1>1. Init => IInv /\ HandInv
  BY InitInv, InitHands
<1>2. IInv /\ HandInv /\ [Next]_vars => (IInv /\ HandInv)'
  BY NextInv, NextHands
<1>3. QED
  BY <1>1, <1>2, PTL DEF Spec

\* Two hands that hold a key are one hand, so no key is queued twice.
LEMMA OneHandPerKey == IInv /\ HandInv => OneTaskPerKey
<1> SUFFICES ASSUME IInv, HandInv, NEW k \in Key PROVE Cardinality(Hands(k)) <= 1
  BY DEF OneTaskPerKey
<1>1. \A p \in Prefix : k \in resend[p] => p = Owner(k) /\ prod[p] \in {"resend", "resendOnly"}
  BY DEF HandInv, ResendInv2
<1>2. \A p \in Prefix : prod[p] = "send" /\ Listing[p][pos[p] + 1] = k => p = Owner(k) /\ Sends(k)
  BY SendFacts DEF Sends
<1>3. \A w \in Worker : held[w] = k => k \notin tasks /\ k \notin resend[Owner(k)] /\ ~Sends(k)
  BY DEF HandInv, OneHand
<1>4. k \in tasks => k \notin resend[Owner(k)] /\ ~Sends(k)
  BY DEF HandInv, OneHand
<1>5. \A v, w \in Worker : held[v] = k /\ held[w] = k => v = w
  BY DEF HandInv, OneHand
<1>6. \A a, b \in Hands(k) : a = b
  BY <1>1, <1>2, <1>3, <1>4, <1>5 DEF Hands
<1>7. Hands(k) = {} \/ \E a : Hands(k) = {a}
  BY <1>6
<1>8. QED
  BY <1>7, FS_EmptySet, FS_Singleton

\* A key is never queued twice, and no two workers hold it at the same time.
THEOREM KeyInOneHand == Spec => []OneTaskPerKey
BY HandsInvariant, OneHandPerKey, PTL

\* A prefix whose goroutine is about to list it is not restored or listed by another.
THEOREM ListedOnce == Spec => []OneLister
<1>1. IInv /\ HandInv => OneLister
  <2> SUFFICES ASSUME IInv, HandInv, NEW p \in spawned, ~ps[p].present \/ ps[p].isNew
               PROVE  prod[p] \notin {"list", "send", "append"} /\ resend[p] = {}
    BY DEF OneLister
  <2>1. p \in Prefix /\ prod[p] \notin Relying
    BY DEF IInv, SpawnInv, TypeOK
  <2>2. ASSUME NEW k \in resend[p] PROVE FALSE
    <3>1. k \in Key /\ Owner(k) = p /\ ~ps[p].isNew
      BY <2>1, <2>2 DEF HandInv, ResendInv2, IInv, TypeOK
    <3>2. k \in tracked
      BY <2>2, <3>1 DEF HandInv, TrackedHands, InHand
    <3>3. QED
      BY <3>1, <3>2, TrackedFacts
  <2>3. QED
    BY <2>1, <2>2 DEF Relying
<1>2. QED
  BY <1>1, HandsInvariant, PTL

-----------------------------------------------------------------------------
(* Facts and frames for LeadInv.                                           *)

\* A child of the root has its place in the listing of the root.
LEMMA ChildPlace ==
    ASSUME NEW q \in Children(Root)
    PROVE  /\ q \in Prefix /\ q # Root /\ Place(q) \in Nat
           /\ Place(q) \in 1..Len(Listing[Root]) /\ Listing[Root][Place(q)] = q
           /\ \A i \in 1..Len(Listing[Root]) : Listing[Root][i] = q => i = Place(q)
<1>1. Root \in Prefix
  BY ListingAssumption
<1>2. DOMAIN Listing[Root] = 1..Len(Listing[Root])
  BY <1>1, ListingFacts
<1>3. PICK i \in DOMAIN Listing[Root] : Listing[Root][i] = q
  BY DEF Children
<1>4. q \in Prefix
  BY DEF Children
<1>5. q # Root
  BY <1>1, <1>3, <1>4, DepthAssumption
<1>6. Owner(q) = Root
  <2>1. Root \in Prefix /\ \E j \in DOMAIN Listing[Root] : Listing[Root][j] = q
    BY <1>1, <1>3
  <2>2. /\ Owner(q) \in Prefix
        /\ \E j \in DOMAIN Listing[Owner(q)] : Listing[Owner(q)][j] = q
    BY <2>1 DEF Owner
  <2>3. QED
    BY <1>1, <1>3, <2>2, PlaceAssumption
<1>7. Place(q) \in DOMAIN Listing[Root] /\ Listing[Root][Place(q)] = q
  BY <1>3, <1>6 DEF Place
<1>8. \A j \in DOMAIN Listing[Root] : Listing[Root][j] = q => j = Place(q)
  BY <1>1, <1>7, PlaceAssumption
<1>9. QED
  BY <1>2, <1>4, <1>5, <1>7, <1>8

\* What the listing goroutine finds is a key, or a child of the root.
LEMMA EntryFacts ==
    ASSUME NEW p \in Prefix, NEW i \in 1..Len(Listing[p])
    PROVE  \/ Listing[p][i] \in Key /\ Listing[p][i] \notin Prefix
           \/ Listing[p][i] \in Children(Root) /\ p = Root /\ i = Place(Listing[p][i])
<1>1. Listing[p][i] \in Key \cup Prefix
  BY ListingFacts
<1>2. CASE Listing[p][i] \in Key
  BY <1>2, ListingAssumption
<1>3. CASE Listing[p][i] \in Prefix
  <2>1. DOMAIN Listing[p] = 1..Len(Listing[p])
    BY ListingFacts
  <2>2. p = Root /\ Listing[p][i] \in Children(Root)
    BY <1>3, <2>1, DepthAssumption DEF Children
  <2>3. QED
    BY <2>2, ChildPlace
<1>4. QED
  BY <1>1, <1>2, <1>3

\* Where every key can be recorded, none waits to be appended to a delayed delete.
LEMMA KnownFacts ==
    ASSUME RootKnown, IInv
    PROVE  /\ \A k \in Key : k \in Recordable /\ Kind[k] \in {"send", "skip"}
           /\ \A p \in Prefix : prod[p] # "append"
           /\ Prefix # {Root} => ~DeleteDst /\ Children(Root) \subseteq SrcPrefix
BY DEF RootKnown, Recordable, IInv, ProducerInv

\* A prefix without state has the empty one.
LEMMA AbsentFacts ==
    ASSUME IInv, NEW p \in Prefix
    PROVE  ~ps[p].present => ps[p] = NoState
BY DEF IInv, StatesInv, WellFormed

\* A prefix that is handled stays handled.
LEMMA HandledKept ==
    ASSUME done \subseteq done'
    PROVE  \A p \in Prefix : Handled(p) => (Handled(p))'
BY DEF Handled

\* A step that leaves the file and the lists of delayed deletes alone.
LEMMA FileFrame ==
    ASSUME LeadInv, done \subseteq done', UNCHANGED <<srcDelay, dstDelay, snap, disk>>
    PROVE  DelayInv' /\ FileLeads(disk.state)'
BY HandledKept DEF LeadInv, DelayInv, FileLeads

\* While there is something to restore, to spawn or to produce, the run has not ended.
LEMMA ActiveRun ==
    ASSUME IInv, LeadInv, NEW p \in Prefix,
           p \in toRestore \/ p \in spawned \/ prod[p] \in Active
    PROVE  run \notin Ended /\ run # "down" /\ run = "up"
<1>1. run \notin Ended
  BY DEF LeadInv, EndInv
<1>2. run # "down"
  BY DEF IInv, DownInv, Active
<1>3. QED
  BY <1>1, <1>2 DEF IInv, TypeOK, Ended

\* A step of the process that leaves the save in progress alone.
LEMMA SnapFrame ==
    ASSUME LeadInv, done \subseteq done', UNCHANGED <<saving, copying, snap>>,
           run' = "down" => run = "down",
           saving = "prefixes" => \A p \in copying : ps'[p].present,
           MapLocked => \A p \in Prefix : Before(p) => (Before(p))'
    PROVE  SnapInv'
<1> USE DEF LeadInv, SnapInv
<1>1. saving' = "prefixes" => \A p \in copying' : ps'[p].present /\ ~snap'.state[p].present
  OBVIOUS
<1>2. ASSUME saving' # "idle", Prefix # {Root}, NEW p \in Prefix
      PROVE  \/ snap'.state[p].present \/ p \in copying' \/ (Handled(p))'
             \/ (Later(snap.state, p))'
             \/ Root \in copying' /\ (Before(p))'
  <2>1. Handled(p) => (Handled(p))'
    BY HandledKept
  <2>2. Root \in copying => MapLocked
    BY DEF MapLocked
  <2>3. QED
    BY <1>2, <2>1, <2>2
<1>3. QED
  BY <1>1, <1>2

\* The process ends with a file that leads to what is left.
LEMMA VanishLead ==
    ASSUME LeadInv, Vanish, run' = "down", disk'.srcDelay = {}, disk'.dstDelay = {},
           FileLeads(disk.state)'
    PROVE  LeadInv'
<1> USE DEF Vanish
<1>1. DelayInv' /\ PrefixInv' /\ SnapInv'
  BY DEF DelayInv, PrefixInv, SnapInv, NoCheckpoint
<1>2. PendingTracked' /\ TrackedLive'
  BY DEF PendingTracked, TrackedLive, NoState
<1>3. ParentInv'
  BY ListingAssumption DEF ParentInv, Listings, Active
<1>4. EndInv'
  BY DEF EndInv, Ended
<1>5. QED
  BY <1>1, <1>2, <1>3, <1>4 DEF LeadInv

\* A run that ends without a failure has handled every key.
LEMMA EndDone ==
    ASSUME RootKnown, IInv, HandInv, LeadInv, run \in Ended \ {"closed"}, ~failures
    PROVE  done = Key
<1>1. ASSUME NEW p \in Prefix PROVE Handled(p)
  <2>1. /\ toRestore = {} /\ spawned = {} /\ prod[p] \notin Active /\ prod[Root] \notin Active
        /\ tasks = {} /\ \A w \in Worker : wst[w] = "idle"
    BY ListingAssumption DEF LeadInv, EndInv, Ended
  <2>2. Handled(p) \/ Started(p)
    BY <2>1 DEF LeadInv, PrefixInv, Ended, Restores, Spawned, Coming, Active, Listings
  <2>3. CASE Started(p)
    <3>1. prod[p] = "done" /\ ps[p].listDone
      BY <2>1, <2>3 DEF Started, IInv, TypeOK
    <3>2. ps[p].present
      BY <3>1, AbsentFacts DEF NoState
    <3>3. ps[p].pending \cup ps[p].failed \subseteq tracked
      BY <3>1, <3>2 DEF HandInv, OriginInv, LeadInv, PendingTracked
    <3>4. ASSUME NEW k \in Key, Owner(k) = p, k \in tracked PROVE k \in done
      <4>1. ~Sends(k)
        BY <3>1, <3>4 DEF Sends
      <4>2. resend[p] = {}
        BY <3>1 DEF HandInv, ResendInv2
      <4>3. \A w \in Worker : held[w] = NoKey /\ NoKey # k
        BY <2>1, ListingAssumption DEF HandInv, EmptyInv
      <4>4. ~InHand(k)
        BY <2>1, <3>4, <4>2, <4>3 DEF InHand
      <4>5. QED
        BY <3>4, <4>1, <4>4 DEF LeadInv, TrackedLive
    <3>5. ASSUME NEW k \in Key, Owner(k) = p, k \notin tracked PROVE k \in done
      <4>1. Passed(ps[Owner(k)], k) /\ k \in Recordable
        BY <3>1, <3>2, <3>3, <3>5, KnownFacts DEF Passed
      <4>2. QED
        BY <4>1 DEF IInv, StatesTruthful
    <3>6. QED
      BY <3>4, <3>5 DEF Handled
  <2>4. QED
    BY <2>2, <2>3
<1>2. Key \subseteq done
  BY <1>1, PlaceFacts DEF Handled
<1>3. QED
  BY <1>2 DEF IInv, TypeOK

\* The first file leads to everything.
LEMMA InitLead == RootKnown /\ Init => LeadInv
<1> SUFFICES ASSUME RootKnown, Init PROVE LeadInv
  OBVIOUS
<1> USE DEF Init
<1>1. DelayInv /\ FileLeads(disk.state)
  BY DEF DelayInv, FileLeads, RootKnown, NoCheckpoint
<1>2. PrefixInv /\ SnapInv
  BY DEF PrefixInv, SnapInv
<1>3. PendingTracked /\ TrackedLive
  BY DEF PendingTracked, TrackedLive, NoState
<1>4. ParentInv
  BY ListingAssumption DEF ParentInv, Listings, Active
<1>5. EndInv
  BY DEF EndInv, Ended
<1>6. QED
  BY <1>1, <1>2, <1>3, <1>4, <1>5 DEF LeadInv

-----------------------------------------------------------------------------
(* LeadInv, step by step.                                                  *)

\* A step that moves no producer, no worker and no state.
LEMMA QuietLead ==
    ASSUME LeadInv, done \subseteq done', failures => failures',
           UNCHANGED <<ps, tracked, restored, toRestore, spawned, prod, by, seen, pos, resend,
                       tasks, held, wst>>,
           run = "down" => run' = "down",
           DelayInv', FileLeads(disk.state)', EndInv', SnapInv'
    PROVE  LeadInv'
<1> USE DEF LeadInv
<1>1. PrefixInv'
  BY HandledKept DEF PrefixInv, Restores, Spawned, Started, Coming, Later
<1>2. PendingTracked' /\ TrackedLive'
  BY DEF PendingTracked, TrackedLive, InHand, Sends
<1>3. ParentInv'
  BY DEF ParentInv
<1>4. QED
  BY <1>1, <1>2, <1>3

\* The root is waited for by Sync or by restoreFromCheckpoint, so all are done with it.
LEMMA CloseTasksLead ==
    ASSUME IInv, LeadInv, CloseTasks
    PROVE  LeadInv'
<1> USE DEF CloseTasks, mgrVars, prodVars, workVars, delVars, saveVars
<1>1. Root \in Prefix
  BY ListingAssumption
<1>2. prod[Root] \notin Active
  BY <1>1 DEF LeadInv, ParentInv, IInv, TypeOK, Active
<1>3. spawned = {} /\ \A p \in Prefix : prod[p] \notin Active
  <2>1. ASSUME NEW p \in Prefix, p \in spawned \/ prod[p] \in Active PROVE FALSE
    <3>1. p \in spawned \/ by[p] = "parent"
      BY <2>1 DEF LeadInv, ParentInv, IInv, TypeOK, Active
    <3>2. prod[Root] \in Listings \cup {"wait"}
      BY <2>1, <3>1 DEF LeadInv, ParentInv
    <3>3. QED
      BY <1>2, <3>2 DEF Active, Listings
  <2>2. QED
    BY <2>1 DEF IInv, TypeOK
<1>4. EndInv'
  BY <1>3 DEF EndInv, Ended
<1>5. SnapInv'
  BY DEF LeadInv, SnapInv, Before, Later, Handled
<1>6. DelayInv' /\ FileLeads(disk.state)'
  BY FileFrame
<1>7. QED
  BY <1>4, <1>5, <1>6, QuietLead

\* The workers leave nothing behind.
LEMMA WorkersDoneLead ==
    ASSUME LeadInv, WorkersDone
    PROVE  LeadInv'
<1> USE DEF WorkersDone, mgrVars, prodVars, workVars, delVars, saveVars
<1>1. EndInv'
  BY DEF LeadInv, EndInv, Ended
<1>2. SnapInv'
  BY DEF LeadInv, SnapInv, Before, Later, Handled
<1>3. DelayInv' /\ FileLeads(disk.state)'
  BY FileFrame
<1>4. QED
  BY <1>1, <1>2, <1>3, QuietLead

\* Only a job whose root has no children deletes from the destination.
LEMMA DropCheckpointLead ==
    ASSUME RootKnown, IInv, LeadInv, DropCheckpoint
    PROVE  LeadInv'
<1> USE DEF DropCheckpoint, DroppedFile, mgrVars, prodVars, workVars, delVars, saveVars
<1>1. EndInv'
  BY DEF LeadInv, EndInv, Ended
<1>2. SnapInv'
  BY DEF LeadInv, SnapInv, Before, Later, Handled
<1>3. DelayInv'
  BY DEF LeadInv, DelayInv, NoCheckpoint
<1>4. FileLeads(disk.state)'
  <2>1. CASE Prefix = {Root}
    BY <2>1 DEF FileLeads
  <2>2. CASE Prefix # {Root}
    BY <2>2, KnownFacts, FileFrame
  <2>3. QED
    BY <2>1, <2>2
<1>5. QED
  BY <1>1, <1>2, <1>3, <1>4, QuietLead

\* No delete was delayed.
LEMMA NoDelayedDelete == LeadInv => ~DelayedDelete
BY DEF LeadInv, DelayInv, DelayedDelete

\* A failed run leaves the states of what is not handled.
LEMMA ExitFailedLead ==
    ASSUME RootKnown, IInv, LeadInv, ExitFailed
    PROVE  LeadInv'
<1>1. Vanish /\ run' = "down" /\ disk' \in {disk, CurrentSnapshot} /\ done' = done
  BY DEF ExitFailed
<1>2. disk'.srcDelay = {} /\ disk'.dstDelay = {}
  BY <1>1 DEF LeadInv, DelayInv, CurrentSnapshot
<1>3. ASSUME disk' = CurrentSnapshot, Prefix # {Root}, NEW p \in Prefix
      PROVE  disk'.state[p].present \/ (Handled(p))'
  <2>1. /\ toRestore = {} /\ spawned = {} /\ prod[p] \notin Active /\ prod[Root] \notin Active
    BY ListingAssumption DEF LeadInv, EndInv, Ended, ExitFailed
  <2>2. Handled(p) \/ Started(p)
    BY <2>1 DEF LeadInv, PrefixInv, Restores, Spawned, Coming, Active, Listings, ExitFailed
  <2>3. disk'.state[p] = Persisted(ps[p]) /\ ps[p] \in PrefixState
    BY <1>3 DEF CurrentSnapshot, IInv, TypeOK
  <2>4. disk'.state[p].present <=> ps[p].present
    BY <2>3, PersistedFacts
  <2>5. QED
    BY <1>1, <1>3, <2>2, <2>4 DEF Started, Handled
<1>4. FileLeads(disk.state)'
  <2>1. CASE disk' = CurrentSnapshot
    BY <1>3, <2>1 DEF FileLeads
  <2>2. CASE disk' = disk
    BY <1>1, <2>2 DEF LeadInv, FileLeads, Handled
  <2>3. QED
    BY <1>1, <2>1, <2>2
<1>5. QED
  BY <1>1, <1>2, <1>4, VanishLead

\* A run that stops keeps the file.
LEMMA StopLead ==
    ASSUME LeadInv, Vanish, run' = "down", UNCHANGED <<disk, done>>
    PROVE  LeadInv'
<1>1. disk'.srcDelay = {} /\ disk'.dstDelay = {}
  BY DEF LeadInv, DelayInv
<1>2. FileLeads(disk.state)'
  BY DEF LeadInv, FileLeads, Handled
<1>3. QED
  BY <1>1, <1>2, VanishLead

\* A snapshot starts with the states there are.
LEMMA SaveBeginLead ==
    ASSUME IInv, LeadInv, SaveBegin
    PROVE  LeadInv'
<1> USE DEF SaveBegin, mgrVars, prodVars, workVars, delVars
<1>1. EndInv'
  BY DEF LeadInv, EndInv, Ended
<1>2. DelayInv' /\ FileLeads(disk.state)'
  BY DEF LeadInv, DelayInv, FileLeads, Handled
<1>3. ASSUME Prefix # {Root}, NEW p \in Prefix
      PROVE  p \in copying' \/ (Handled(p))' \/ (Root \in copying' /\ (Before(p))')
  <2>1. Handled(p) \/ Restores(p) \/ Spawned(p) \/ Started(p) \/ Coming(p)
    BY DEF LeadInv, PrefixInv
  <2>2. CASE Handled(p)
    BY <2>2 DEF Handled
  <2>3. CASE Restores(p) \/ Spawned(p) \/ Started(p)
    BY <1>3, <2>3 DEF Restores, Spawned, Started
  <2>4. CASE Coming(p)
    <3>1. Root \in copying'
      BY <2>4, ListingAssumption DEF Coming, Later
    <3>2. prod[Root] \in Listings => seen[Root] < Place(p)
      <4>1. Restores(Root) => prod[Root] = "none"
        BY DEF Restores, IInv, SpawnInv
      <4>2. QED
        BY <2>4, <4>1 DEF Coming, Listings
    <3>3. (Before(p))'
      BY <2>4, <3>2 DEF Before, Coming, Later
    <3>4. QED
      BY <3>1, <3>3
  <2>5. QED
    BY <2>1, <2>2, <2>3, <2>4
<1>4. SnapInv'
  <2>1. \A p \in Prefix : ~snap'.state[p].present
    BY DEF NoState
  <2>2. QED
    BY <1>3, <2>1 DEF SnapInv, IInv, TypeOK
<1>5. QED
  BY <1>1, <1>2, <1>4, QuietLead

\* Copying the state of the root copies what it says of the children still to come.
LEMMA SavePrefixLead ==
    ASSUME IInv, LeadInv, SavePrefix
    PROVE  LeadInv'
<1> USE DEF SavePrefix, mgrVars, prodVars, workVars, delVars
<1>1. EndInv'
  BY DEF LeadInv, EndInv, Ended
<1>2. DelayInv' /\ FileLeads(disk.state)'
  <2>1. snap' = snap \/ \E p \in copying : snap' = [snap EXCEPT !.state = [@ EXCEPT ![p] = Persisted(ps[p])]]
    OBVIOUS
  <2>2. snap \in Snapshot
    BY DEF IInv, TypeOK
  <2>3. snap'.srcDelay = snap.srcDelay /\ snap'.dstDelay = snap.dstDelay
    BY <2>1, <2>2 DEF Snapshot
  <2>4. QED
    BY <2>3 DEF LeadInv, DelayInv, FileLeads, Handled
<1>3. CASE copying = {} /\ saving' = "src" /\ UNCHANGED <<copying, snap>>
  <2>1. SnapInv'
    BY <1>3 DEF LeadInv, SnapInv, Before, Later, Handled
  <2>2. QED
    BY <1>1, <1>2, <2>1, QuietLead
<1>4. ASSUME NEW p \in copying, copying' = copying \ {p}, UNCHANGED saving,
             snap' = [snap EXCEPT !.state = [@ EXCEPT ![p] = Persisted(ps[p])]]
      PROVE  LeadInv'
  <2>1. p \in Prefix /\ copying \subseteq Prefix /\ snap \in Snapshot /\ ps[p] \in PrefixState
    BY DEF IInv, TypeOK
  <2>2. /\ snap'.state[p] = Persisted(ps[p])
        /\ \A q \in Prefix : q # p => snap'.state[q] = snap.state[q]
    BY <1>4, <2>1 DEF Snapshot
  <2>3. /\ snap'.state[p].present = ps[p].present /\ snap'.state[p].listDone = ps[p].listDone
        /\ snap'.state[p].last = ps[p].last
    BY <2>1, <2>2 DEF Persisted, PrefixState
  <2>4. ps[p].present /\ ~snap.state[p].present
    BY DEF LeadInv, SnapInv
  <2>5. snap'.state[p].present
    BY <2>3, <2>4
  <2>6. ASSUME Prefix # {Root}, NEW q \in Prefix
        PROVE  \/ snap'.state[q].present \/ q \in copying' \/ (Handled(q))'
               \/ (Later(snap.state, q))'
               \/ Root \in copying' /\ (Before(q))'
    <3>1. \/ snap.state[q].present \/ q \in copying \/ Handled(q)
          \/ Later(snap.state, q)
          \/ Root \in copying /\ Before(q)
      BY <2>6 DEF LeadInv, SnapInv
    <3>2. CASE snap.state[q].present \/ q \in copying \/ Handled(q)
      BY <1>4, <2>2, <2>5, <3>2 DEF Handled
    <3>3. CASE Later(snap.state, q)
      <4>1. p # Root
        BY <2>4, <3>3 DEF Later
      <4>2. QED
        BY <2>2, <3>3, <4>1, ListingAssumption DEF Later
    <3>4. CASE Root \in copying /\ Before(q)
      <4>1. CASE p = Root
        BY <2>3, <2>5, <3>4, <4>1 DEF Before, Later
      <4>2. CASE p # Root
        BY <1>4, <3>4, <4>2 DEF Before, Later
      <4>3. QED
        BY <4>1, <4>2
    <3>5. QED
      BY <3>1, <3>2, <3>3, <3>4
  <2>7. SnapInv'
    BY <1>4, <2>1, <2>2, <2>6 DEF LeadInv, SnapInv
  <2>8. QED
    BY <1>1, <1>2, <1>4, <2>7, QuietLead
<1>5. QED
  BY <1>3, <1>4

\* The lists of delayed deletes are empty, and copied.
LEMMA SaveDelayListsLead ==
    ASSUME IInv, LeadInv, SaveDelayLists
    PROVE  LeadInv'
<1> USE DEF SaveDelayLists, mgrVars, prodVars, workVars, delVars
<1>1. EndInv'
  BY DEF LeadInv, EndInv, Ended
<1>2. /\ snap'.state = snap.state /\ snap'.srcDelay \in {snap.srcDelay, srcDelay}
      /\ snap'.dstDelay \in {snap.dstDelay, dstDelay}
  BY DEF IInv, TypeOK, Snapshot
<1>3. DelayInv' /\ FileLeads(disk.state)'
  BY <1>2 DEF LeadInv, DelayInv, FileLeads, Handled
<1>4. SnapInv'
  BY <1>2 DEF LeadInv, SnapInv, Before, Later, Handled
<1>5. QED
  BY <1>1, <1>3, <1>4, QuietLead

\* The file is replaced by a whole snapshot.
LEMMA SaveWriteLead ==
    ASSUME IInv, LeadInv, SaveWrite
    PROVE  LeadInv'
<1> USE DEF SaveWrite, mgrVars, prodVars, workVars, delVars
<1>1. EndInv'
  BY DEF LeadInv, EndInv, Ended
<1>2. DelayInv'
  BY DEF LeadInv, DelayInv, NoCheckpoint
<1>3. FileLeads(disk.state)'
  <2>1. disk' \in {disk, snap} /\ copying = {}
    BY DEF LeadInv, SnapInv
  <2>2. FileLeads(snap.state)
    BY <2>1 DEF LeadInv, SnapInv, FileLeads
  <2>3. QED
    BY <2>1, <2>2 DEF LeadInv, FileLeads, Handled
<1>4. SnapInv'
  BY DEF LeadInv, SnapInv
<1>5. QED
  BY <1>1, <1>2, <1>3, <1>4, QuietLead

\* A run starts with the states of the file, which lead to whatever is not handled.
LEMMA StartLead ==
    ASSUME RootKnown, IInv, HandInv, LeadInv, Start
    PROVE  LeadInv'
<1> USE DEF Start, workVars, saveVars
<1>1. /\ tracked = {} /\ spawned = {} /\ toRestore = {} /\ tasks = {} /\ restored = {}
      /\ prod = [p \in Prefix |-> "none"] /\ Root \in Prefix
      /\ seen = [p \in Prefix |-> 0] /\ pos = [p \in Prefix |-> 0]
  BY ListingAssumption DEF IInv, DownInv, HandInv, EmptyInv
<1>2. ps' = disk.state /\ \A p \in Prefix : ~ps'[p].isNew /\ ps'[p] \in PrefixState
  BY DEF IInv, StatesInv, FileState, TypeOK, Snapshot
<1>3. ~Loadable(disk) => /\ \A p \in Prefix : ~disk.state[p].present
                         /\ prod' = [prod EXCEPT ![Root] = "list"]
                         /\ by' = [by EXCEPT ![Root] = "sync"]
                         /\ UNCHANGED <<toRestore, srcDelay, dstDelay>>
  BY DEF IInv, StatesInv, FileState, Loadable
<1>4. Loadable(disk) => /\ toRestore' = {p \in Prefix : disk.state[p].present}
                        /\ UNCHANGED <<prod, by>>
                        /\ srcDelay' = {} /\ dstDelay' = {}
  BY DEF LeadInv, DelayInv
<1>5. DelayInv' /\ FileLeads(disk.state)'
  BY <1>3, <1>4 DEF LeadInv, DelayInv, FileLeads, Handled
<1>6. PrefixInv'
  <2>1. ASSUME NEW p \in Prefix
        PROVE  (Handled(p) \/ Restores(p) \/ Spawned(p) \/ Started(p) \/ Coming(p))'
    <3>1. CASE disk.state[p].present
      BY <1>1, <1>2, <1>3, <1>4, <3>1 DEF Restores
    <3>2. CASE Prefix = {Root} /\ ~disk.state[p].present
      <4>1. p = Root /\ ~Loadable(disk)
        BY <3>2 DEF Loadable, LeadInv, DelayInv
      <4>2. prod'[p] = "list"
        BY <1>1, <1>3, <4>1
      <4>3. QED
        BY <3>2, <4>2 DEF Started
    <3>3. CASE Prefix # {Root} /\ ~disk.state[p].present /\ ~Handled(p)
      <4>1. Later(disk.state, p)
        BY <3>3 DEF LeadInv, FileLeads
      <4>2. Root \in toRestore' /\ ps'[Root].present
        BY <1>1, <1>2, <1>3, <1>4, <4>1 DEF Later
      <4>3. QED
        BY <1>1, <1>2, <3>3, <4>1, <4>2 DEF Coming, Restores, Later
    <3>4. CASE Handled(p)
      BY <3>4 DEF Handled
    <3>5. QED
      BY <3>1, <3>2, <3>3, <3>4
  <2>2. QED
    BY <2>1 DEF PrefixInv
<1>7. PendingTracked' /\ TrackedLive'
  BY <1>1, <1>2 DEF PendingTracked, TrackedLive
<1>8. ParentInv'
  <2>1. \A p \in Prefix : prod'[p] = "none" \/ (p = Root /\ prod'[p] = "list" /\ by'[p] = "sync")
    BY <1>1, <1>3, <1>4 DEF IInv, TypeOK
  <2>2. seen'[Root] = 0 /\ pos'[Root] = 0
    BY <1>1
  <2>3. by'[Root] # "parent"
    BY <1>1, <1>3, <1>4 DEF LeadInv, ParentInv, IInv, TypeOK
  <2>4. QED
    BY <1>1, <2>1, <2>2, <2>3 DEF ParentInv, Listings, Active
<1>9. EndInv' /\ SnapInv'
  BY DEF LeadInv, EndInv, Ended, SnapInv
<1>10. QED
  BY <1>5, <1>6, <1>7, <1>8, <1>9 DEF LeadInv

\* The state of a prefix says what it said of its listing.
Same(p) ==
    /\ ps'[p].present <=> ps[p].present
    /\ ps'[p].isNew <=> ps[p].isNew
    /\ ps'[p].listDone <=> ps[p].listDone
    /\ ps'[p].last = ps[p].last

\* A step of a worker or of the channel that leaves producers where they are.
LEMMA WorkLead ==
    ASSUME IInv, LeadInv, done \subseteq done', failures => failures',
           UNCHANGED <<run, restored, toRestore, spawned, by, seen, saving, copying, snap, disk,
                       srcDelay, dstDelay>>,
           \A p \in Prefix : Same(p),
           \A p \in Prefix :
               \/ prod'[p] = prod[p] /\ pos'[p] = pos[p]
               \/ prod[p] \in {"send", "append"} /\ prod'[p] = "list" /\ pos'[p] = pos[p] + 1,
           PendingTracked', TrackedLive', EndInv'
    PROVE  LeadInv'
<1> USE DEF LeadInv
<1>1. DelayInv' /\ FileLeads(disk.state)'
  BY FileFrame
<1>2. \A p \in Prefix : prod'[p] \in Listings <=> prod[p] \in Listings
  BY DEF Listings
<1>3. \A p \in Prefix : Before(p) => (Before(p))'
  BY <1>2, ListingAssumption DEF Before, Later, Same
<1>4. SnapInv'
  <2>1. saving = "prefixes" => \A p \in copying : ps'[p].present
    BY DEF SnapInv, Same, IInv, TypeOK
  <2>2. QED
    BY <1>3, <2>1, SnapFrame
<1>5. PrefixInv'
  <2>1. ASSUME NEW p \in Prefix
        PROVE  /\ Handled(p) => (Handled(p))'
               /\ Restores(p) => (Restores(p))'
               /\ Spawned(p) => (Spawned(p))'
               /\ Started(p) => (Started(p))'
    BY HandledKept DEF Restores, Spawned, Started, Same
  <2>2. ASSUME NEW p \in Prefix, Coming(p) PROVE (Coming(p))'
    <3>1. ~ps'[p].present /\ (Later(ps, p))'
      BY <2>2, ListingAssumption DEF Coming, Later, Same
    <3>2. Restores(Root) => (Restores(Root))'
      BY <2>1, ListingAssumption
    <3>3. prod[Root] = "resend" => prod'[Root] = "resend"
      BY ListingAssumption
    <3>4. prod[Root] \in Listings => prod'[Root] \in Listings
      BY <1>2, ListingAssumption
    <3>5. QED
      BY <2>2, <3>1, <3>2, <3>3, <3>4 DEF Coming
  <2>3. QED
    BY <2>1, <2>2 DEF PrefixInv
<1>6. ParentInv'
  <2>1. \A p \in Prefix : pos[p] \in Nat /\ seen[p] \in Nat
    BY DEF IInv, TypeOK
  <2>2. /\ \A p \in Prefix : prod'[p] \in Listings => pos'[p] <= seen'[p]
        /\ \A p \in Prefix : prod'[p] \in {"send", "append"} => pos'[p] < seen'[p]
    BY <1>2, <2>1 DEF ParentInv
  <2>3. \A p \in Prefix : /\ prod'[p] \in Active => prod[p] \in Active
                          /\ prod'[p] # "none" => prod[p] # "none"
    BY DEF Active
  <2>4. Root \in Prefix /\ (prod[Root] \in Listings \cup {"wait"} => prod'[Root] \in Listings \cup {"wait"})
    BY <1>2, ListingAssumption
  <2>5. QED
    BY <2>2, <2>3, <2>4 DEF ParentInv
<1>7. QED
  BY <1>1, <1>4, <1>5, <1>6

\* A worker takes a key.
LEMMA FetchLead ==
    ASSUME IInv, HandInv, LeadInv, NEW w \in Worker, Fetch(w)
    PROVE  LeadInv'
<1> USE DEF Fetch, mgrVars, prodVars, delVars, saveVars
<1>1. PendingTracked'
  BY DEF LeadInv, PendingTracked
<1>2. TrackedLive'
  <2>1. PICK k \in tasks : tasks' = tasks \ {k} /\ held' = [held EXCEPT ![w] = k]
    OBVIOUS
  <2>2. held[w] \notin Key
    BY ListingAssumption DEF HandInv, EmptyInv
  <2>3. \A j \in Key : InHand(j) => (InHand(j))'
    BY <2>1, <2>2 DEF InHand, IInv, TypeOK
  <2>4. QED
    BY <2>3 DEF LeadInv, TrackedLive, Sends, IInv, TypeOK
<1>3. EndInv'
  BY DEF LeadInv, EndInv, Ended
<1>4. \A p \in Prefix : Same(p)
  BY DEF Same
<1>5. QED
  BY <1>1, <1>2, <1>3, <1>4, WorkLead

\* A worker copies its key.
LEMMA CopyLead ==
    ASSUME IInv, LeadInv, NEW w \in Worker, Copy(w)
    PROVE  LeadInv'
<1> USE DEF Copy, mgrVars, prodVars, delVars, saveVars
<1>1. PendingTracked'
  BY DEF LeadInv, PendingTracked
<1>2. TrackedLive'
  BY DEF LeadInv, TrackedLive, InHand, Sends
<1>3. EndInv'
  <2>1. run \notin Ended \ {"closed"}
    BY DEF LeadInv, EndInv
  <2>2. QED
    BY <2>1 DEF LeadInv, EndInv, Ended
<1>4. \A p \in Prefix : Same(p)
  BY DEF Same
<1>5. QED
  BY <1>1, <1>2, <1>3, <1>4, WorkLead

\* What letting go of a key does to the states: a tracked key has a state.
LEMMA ReleaseFacts ==
    ASSUME IInv, HandInv, NEW w \in Worker, MarkCompleted(w) \/ MarkFailed(w)
    PROVE  /\ \A p \in Prefix : Same(p)
           /\ \A p \in Prefix : \A k \in ps'[p].pending \cup ps'[p].failed :
                 /\ k \in ps[p].pending \cup ps[p].failed
                 /\ k # held[w] \/ k \notin tracked \/ tracked' = tracked
<1> DEFINE k == held[w]
<1> DEFINE p == Owner(k)
<1>1. CASE k \notin tracked
  BY <1>1 DEF MarkCompleted, MarkFailed, Same
<1>2. CASE k \in tracked
  <2>1. /\ k \in Key /\ p \in Prefix /\ ps[p].present /\ ps[p] \in PrefixState
        /\ GetOrCreate(p) = ps[p]
    BY <1>2, TrackedFacts DEF IInv, TypeOK, GetOrCreate
  <2>2. \A q \in Prefix : q # p => ps'[q] = ps[q]
    BY <1>2, <2>1 DEF MarkCompleted, MarkFailed, UpdateState, IInv, TypeOK
  <2>3. \/ ps'[p] = [ps[p] EXCEPT !.pending = @ \ {k}, !.failed = @ \ {k}]
        \/ (ps'[p] = [ps[p] EXCEPT !.pending = @ \ {k}, !.failed = @ \cup {k}]
            /\ k \in ps[p].pending /\ tracked' = tracked)
        \/ ps'[p] = ps[p] /\ tracked' = tracked
    BY <1>2, <2>1 DEF MarkCompleted, MarkFailed, UpdateState, IInv, TypeOK
  <2>4. \A q \in Prefix : q # p => Same(q)
    BY <2>2 DEF Same
  <2>5. \A q \in Prefix : q # p => k \notin ps[q].pending \cup ps[q].failed
    BY <2>1 DEF IInv, StatesInv, WellFormed
  <2> HIDE DEF k, p
  <2>6. Same(p)
    BY <2>1, <2>3 DEF PrefixState, Same
  <2>7. \A j \in ps'[p].pending \cup ps'[p].failed :
            j \in ps[p].pending \cup ps[p].failed /\ (j # k \/ tracked' = tracked)
    <3>1. CASE ps'[p] = [ps[p] EXCEPT !.pending = @ \ {k}, !.failed = @ \ {k}]
      <4>1. ps'[p].pending = ps[p].pending \ {k} /\ ps'[p].failed = ps[p].failed \ {k}
        BY <2>1, <3>1 DEF PrefixState
      <4>2. QED
        BY <4>1
    <3>2. CASE /\ ps'[p] = [ps[p] EXCEPT !.pending = @ \ {k}, !.failed = @ \cup {k}]
               /\ k \in ps[p].pending /\ tracked' = tracked
      <4>1. ps'[p].pending = ps[p].pending \ {k} /\ ps'[p].failed = ps[p].failed \cup {k}
        BY <2>1, <3>2 DEF PrefixState
      <4>2. QED
        BY <3>2, <4>1
    <3>3. QED
      BY <2>3, <3>1, <3>2
  <2>8. QED
    BY <2>2, <2>4, <2>5, <2>6, <2>7 DEF k
<1>3. QED
  BY <1>1, <1>2

\* A completed key is tracked no longer; a failed one is counted.
LEMMA ReleaseLead ==
    ASSUME IInv, HandInv, LeadInv, NEW w \in Worker, MarkCompleted(w) \/ MarkFailed(w)
    PROVE  LeadInv'
<1>1. /\ wst[w] \in {"busy", "copied"} /\ run' = run /\ done' = done
      /\ UNCHANGED <<restored, toRestore, spawned, prod, by, seen, pos, resend, tasks,
                     srcDelay, dstDelay, saving, copying, snap, disk>>
      /\ failures => failures'
      /\ held' = [held EXCEPT ![w] = NoKey] /\ wst' = [wst EXCEPT ![w] = "idle"]
  BY DEF MarkCompleted, MarkFailed, Release, prodVars, delVars, saveVars
<1>2. \/ tracked' = tracked \ {held[w]}
      \/ tracked' = tracked /\ failures'
  BY DEF MarkCompleted, MarkFailed
<1>3. \A p \in Prefix : Same(p)
  BY ReleaseFacts
<1>4. PendingTracked'
  <2>1. ASSUME NEW p \in Prefix, p \in restored' \/ ps'[p].isNew,
               NEW k \in ps'[p].pending \cup ps'[p].failed
        PROVE  k \in tracked'
    <3>1. k \in tracked
      BY <1>1, <1>3, <2>1, ReleaseFacts DEF LeadInv, PendingTracked, Same
    <3>2. QED
      BY <1>2, <2>1, <3>1, ReleaseFacts
  <2>2. QED
    BY <2>1 DEF PendingTracked
<1>5. TrackedLive'
  <2>1. ASSUME NEW k \in tracked' PROVE k \in done' \/ failures' \/ (InHand(k))' \/ (Sends(k))'
    <3>1. CASE k = held[w]
      BY <1>2, <2>1, <3>1
    <3>2. CASE k # held[w]
      <4>1. k \in done \/ failures \/ InHand(k) \/ Sends(k)
        BY <1>2, <2>1 DEF LeadInv, TrackedLive
      <4>2. InHand(k) => (InHand(k))'
        BY <1>1, <3>2 DEF InHand, IInv, TypeOK
      <4>3. Sends(k) => (Sends(k))'
        BY <1>1 DEF Sends
      <4>4. QED
        BY <1>1, <4>1, <4>2, <4>3
    <3>3. QED
      BY <3>1, <3>2
  <2>2. QED
    BY <2>1 DEF TrackedLive
<1>6. EndInv'
  <2>1. run \notin Ended \ {"closed"}
    BY <1>1 DEF LeadInv, EndInv
  <2>2. QED
    BY <1>1, <2>1 DEF LeadInv, EndInv, Ended
<1>7. QED
  BY <1>1, <1>3, <1>4, <1>5, <1>6, WorkLead

\* A restored key is queued.
LEMMA ResendLead ==
    ASSUME IInv, HandInv, LeadInv, NEW p \in Prefix, Resend(p)
    PROVE  LeadInv'
<1> USE DEF Resend, mgrVars, workVars, delVars, saveVars
<1>1. PendingTracked'
  BY DEF LeadInv, PendingTracked
<1>2. TrackedLive'
  <2>1. PICK k \in resend[p] : resend' = [resend EXCEPT ![p] = @ \ {k}] /\ tasks' = tasks \cup {k}
    OBVIOUS
  <2>2. \A j \in Key : InHand(j) => (InHand(j))'
    BY <2>1 DEF InHand, IInv, TypeOK
  <2>3. QED
    BY <2>2 DEF LeadInv, TrackedLive, Sends, IInv, TypeOK
<1>3. EndInv'
  BY DEF LeadInv, EndInv, Ended
<1>4. \A q \in Prefix : Same(q)
  BY DEF Same
<1>5. QED
  BY <1>1, <1>2, <1>3, <1>4, WorkLead

\* The producer queues the key it recorded.
LEMMA SendTaskLead ==
    ASSUME RootKnown, IInv, LeadInv, NEW p \in Prefix, SendTask(p)
    PROVE  LeadInv'
<1> USE DEF SendTask, mgrVars, workVars, delVars, saveVars
<1>1. PendingTracked'
  BY DEF LeadInv, PendingTracked
<1>2. /\ prod' = [prod EXCEPT ![p] = "list"] /\ pos' = [pos EXCEPT ![p] = @ + 1]
      /\ prod \in [Prefix -> Active \cup {"none", "done", "error"}] /\ pos \in [Prefix -> Nat]
      /\ tracked \subseteq Key
  BY DEF IInv, TypeOK
<1>3. TrackedLive'
  <2>1. \A j \in Key : InHand(j) => (InHand(j))'
    BY DEF InHand
  <2>2. ASSUME NEW j \in Key, Sends(j) PROVE (Sends(j) \/ InHand(j))'
    <3>1. CASE Owner(j) = p
      BY <2>2, <3>1 DEF Sends, InHand
    <3>2. CASE Owner(j) # p
      BY <1>2, <2>2, <3>2, PlaceFacts DEF Sends
    <3>3. QED
      BY <3>1, <3>2
  <2>3. QED
    BY <1>2, <2>1, <2>2 DEF LeadInv, TrackedLive
<1>4. EndInv'
  BY DEF LeadInv, EndInv, Ended
<1>5. \A q \in Prefix : Same(q)
  BY DEF Same
<1>6. \A q \in Prefix :
          \/ prod'[q] = prod[q] /\ pos'[q] = pos[q]
          \/ prod[q] \in {"send", "append"} /\ prod'[q] = "list" /\ pos'[q] = pos[q] + 1
  BY <1>2
<1>7. QED
  BY <1>1, <1>3, <1>4, <1>5, <1>6, WorkLead

\* A step of a producer: it leaves the file alone, and the run goes on.
LEMMA ProducerLead ==
    ASSUME IInv, LeadInv, done \subseteq done', run \notin Ended,
           UNCHANGED <<run, saving, copying, snap, disk, srcDelay, dstDelay>>,
           PendingTracked', TrackedLive', ParentInv', PrefixInv',
           MapLocked => \A p \in Prefix : ps[p].present => ps'[p].present,
           MapLocked => \A p \in Prefix : Before(p) => (Before(p))'
    PROVE  LeadInv'
<1>1. DelayInv' /\ FileLeads(disk.state)'
  BY FileFrame
<1>2. EndInv'
  BY DEF EndInv, Ended
<1>3. saving = "prefixes" => \A p \in copying : ps'[p].present
  BY DEF LeadInv, SnapInv, MapLocked, IInv, TypeOK
<1>4. SnapInv'
  BY <1>3, SnapFrame
<1>5. QED
  BY <1>1, <1>2, <1>4 DEF LeadInv

\* A prefix whose state is done is handled, so its state can go.
LEMMA ReapPrefixLead ==
    ASSUME RootKnown, IInv, LeadInv, NEW p \in Prefix, ReapPrefix(p)
    PROVE  LeadInv'
<1> USE DEF ReapPrefix, prodVars, workVars, delVars, saveVars
<1>1. /\ IsDone(ps[p]) /\ ps[p].present
      /\ ps'[p] = NoState /\ \A q \in Prefix : q # p => ps'[q] = ps[q]
  BY DEF IInv, ReapInv, TypeOK
<1>2. Handled(p)
  <2>1. ASSUME NEW k \in Key, Owner(k) = p PROVE k \in done
    <3>1. Passed(ps[Owner(k)], k) /\ k \in Recordable
      BY <1>1, <2>1, KnownFacts DEF Passed, IsDone
    <3>2. QED
      BY <3>1 DEF IInv, StatesTruthful
  <2>2. QED
    BY <2>1 DEF Handled
<1>3. PendingTracked'
  BY <1>1 DEF LeadInv, PendingTracked, NoState
<1>4. TrackedLive' /\ ParentInv'
  BY DEF LeadInv, TrackedLive, ParentInv, InHand, Sends
<1>5. EndInv'
  BY DEF LeadInv, EndInv, Ended
<1>6. PrefixInv'
  <2>1. ASSUME NEW q \in Prefix, q # p
        PROVE  /\ Handled(q) => (Handled(q))'
               /\ Restores(q) => (Restores(q))'
               /\ Spawned(q) => (Spawned(q))'
               /\ Started(q) => (Started(q))'
    BY <1>1, <2>1 DEF Handled, Restores, Spawned, Started
  <2>2. ASSUME NEW q \in Prefix, q # p, Coming(q) PROVE (Coming(q))'
    <3>1. p # Root
      BY <1>1, <2>2 DEF Coming, Later, IsDone
    <3>2. QED
      BY <1>1, <2>1, <2>2, <3>1, ListingAssumption DEF Coming, Later
  <2>3. (Handled(p))'
    BY <1>2 DEF Handled
  <2>4. QED
    BY <2>1, <2>2, <2>3 DEF LeadInv, PrefixInv
<1>7. DelayInv' /\ FileLeads(disk.state)'
  BY FileFrame
<1>8. SnapInv'
  <2>1. saving # "prefixes"
    BY DEF MapLocked
  <2>2. QED
    BY <2>1, SnapFrame
<1>9. QED
  BY <1>3, <1>4, <1>5, <1>6, <1>7, <1>8 DEF LeadInv

\* A child the listing finds is spawned with the state registered for it.
LEMMA ListNextLead ==
    ASSUME RootKnown, IInv, HandInv, LeadInv, NEW p \in Prefix, ListNext(p)
    PROVE  LeadInv'
<1> DEFINE e == Listing[p][seen[p] + 1]
<1>1. /\ prod[p] \in Listings /\ seen[p] \in Nat /\ seen[p] + 1 \in 1..Len(Listing[p])
      /\ seen' = [seen EXCEPT ![p] = @ + 1] /\ seen'[p] = seen[p] + 1
      /\ \A q \in Prefix : q # p => seen'[q] = seen[q]
      /\ Root \in Prefix /\ ps \in [Prefix -> PrefixState]
  BY ListingFacts, ListingAssumption DEF ListNext, IInv, TypeOK, Listings
<1>2. /\ UNCHANGED <<run, tracked, restored, toRestore, prod, by, pos, resend, tasks, held, wst,
                     failures, srcDelay, dstDelay, saving, copying, snap, disk, done>>
      /\ run \notin Ended
  BY <1>1, ActiveRun DEF ListNext, workVars, delVars, saveVars, Active, Listings
<1>3. \/ /\ e \in Key /\ e \notin Prefix /\ UNCHANGED <<ps, spawned>>
      \/ /\ p = Root /\ e \in Children(Root) /\ seen[Root] + 1 = Place(e)
         /\ spawned' = spawned \cup {e} /\ RegisterChildPrefix(e)
  <2>1. \/ e \in Key /\ e \notin Prefix
        \/ e \in Children(Root) /\ p = Root /\ seen[p] + 1 = Place(e)
    BY <1>1, EntryFacts
  <2>2. CASE e \in Key /\ e \notin Prefix
    BY <2>2 DEF ListNext
  <2>3. CASE e \in Children(Root) /\ p = Root /\ seen[p] + 1 = Place(e)
    <3>1. e \in Prefix /\ e # Root
      BY <2>3, ChildPlace
    <3>2. e \in SrcPrefix
      BY <1>1, <2>3, <3>1, KnownFacts
    <3>3. e \notin Key
      BY <3>1, ListingAssumption
    <3>4. QED
      BY <2>3, <3>2, <3>3 DEF ListNext
  <2>4. QED
    BY <2>1, <2>2, <2>3
<1>4. ASSUME NEW q \in Prefix
      PROVE  /\ ps[q].present => ps'[q] = ps[q]
             /\ ps'[q] = ps[q] \/ (q = e /\ q \in spawned' /\ ps'[q] = NewState /\ ~MapLocked)
             /\ q = Root => ps'[q] = ps[q]
             /\ Before(q) /\ q # e => (Before(q))'
  <2>1. /\ ps[q].present => ps'[q] = ps[q]
        /\ ps'[q] = ps[q] \/ (q = e /\ q \in spawned' /\ ps'[q] = NewState /\ ~MapLocked)
    BY <1>1, <1>3 DEF RegisterChildPrefix, GetOrCreate
  <2>2. e \in Children(Root) => e # Root
    BY ChildPlace
  <2>3. ps'[Root] = ps[Root]
    BY <1>1, <1>3, <2>2 DEF RegisterChildPrefix
  <2>4. ASSUME Before(q), q # e PROVE (Before(q))'
    <3>1. q \in Children(Root) /\ Place(q) \in Nat /\ Listing[Root][Place(q)] = q
      BY <2>4, ChildPlace DEF Before, Later
    <3>2. p = Root => seen[Root] + 1 # Place(q)
      BY <2>4, <3>1
    <3>3. seen[Root] \in Nat
      BY <1>1 DEF IInv, TypeOK
    <3>4. prod[Root] \in Listings => seen'[Root] < Place(q)
      BY <1>1, <2>4, <3>1, <3>2, <3>3 DEF Before
    <3>5. ps'[q] = ps[q]
      BY <2>1, <2>4
    <3>6. QED
      BY <1>2, <2>3, <2>4, <3>4, <3>5 DEF Before, Later
  <2>5. QED
    BY <2>1, <2>3, <2>4
<1>5. e \in Prefix => ~Before(e) \/ ~MapLocked
  BY <1>3, <1>4 DEF RegisterChildPrefix, Before
<1>6. PendingTracked'
  <2>1. ASSUME NEW q \in Prefix, q \in restored' \/ ps'[q].isNew
        PROVE  ps'[q].pending \cup ps'[q].failed \subseteq tracked'
    <3>1. CASE ps'[q] = ps[q]
      BY <1>2, <2>1, <3>1 DEF LeadInv, PendingTracked
    <3>2. CASE ps'[q] = NewState
      BY <3>2 DEF NewState
    <3>3. QED
      BY <1>4, <3>1, <3>2
  <2>2. QED
    BY <2>1 DEF PendingTracked
<1>7. TrackedLive'
  BY <1>2 DEF LeadInv, TrackedLive, InHand, Sends
<1>8. ParentInv'
  <2>1. spawned' \subseteq Children(Root) /\ \A q \in spawned' : q \in spawned \/ p = Root
    BY <1>3 DEF LeadInv, ParentInv
  <2>2. \A q \in Prefix : seen[q] \in Nat /\ pos[q] \in Nat /\ seen'[q] >= seen[q]
    BY <1>1 DEF IInv, TypeOK
  <2>3. \A q \in Prefix : /\ prod[q] \in Listings => pos'[q] <= seen'[q]
                          /\ prod[q] \in {"send", "append"} => pos'[q] < seen'[q]
    BY <1>1, <1>2, <2>2 DEF LeadInv, ParentInv
  <2>4. QED
    BY <1>1, <1>2, <2>1, <2>3 DEF LeadInv, ParentInv
<1>9. PrefixInv'
  <2>1. ASSUME NEW q \in Prefix, q # e \/ ps[q].present
        PROVE  (Handled(q) \/ Restores(q) \/ Spawned(q) \/ Started(q) \/ Coming(q))'
    <3>1. ps'[q] = ps[q]
      BY <1>4, <2>1
    <3>2. Handled(q) \/ Restores(q) \/ Spawned(q) \/ Started(q) \/ Coming(q)
      BY <1>1, <1>2 DEF LeadInv, PrefixInv, IInv, DownInv, Listings
    <3>3. spawned \subseteq spawned'
      BY <1>3
    <3>4. CASE Handled(q) \/ Restores(q) \/ Spawned(q) \/ Started(q)
      BY <1>2, <3>1, <3>3, <3>4 DEF Handled, Restores, Spawned, Started
    <3>5. CASE Coming(q)
      <4>1. q # e
        BY <2>1, <3>5 DEF Coming
      <4>2. Restores(Root) => (Restores(Root))'
        BY <1>1, <1>2, <1>4 DEF Restores
      <4>3. CASE prod[Root] \in Listings /\ seen[Root] < Place(q)
        <5>1. (Before(q))'
          BY <1>4, <3>5, <4>1, <4>3 DEF Before, Coming
        <5>2. QED
          BY <1>2, <4>3, <5>1 DEF Before, Coming
      <4>4. CASE Restores(Root) \/ prod[Root] = "resend"
        BY <1>1, <1>2, <1>4, <3>1, <3>5, <4>2, <4>4 DEF Coming, Later
      <4>5. QED
        BY <3>5, <4>3, <4>4 DEF Coming
    <3>6. QED
      BY <3>2, <3>4, <3>5
  <2>2. ASSUME NEW q \in Prefix, q = e, ~ps[q].present PROVE (Spawned(q))'
    <3>1. q \in spawned' /\ ps'[q] = NewState
      BY <1>1, <1>3, <2>2, ListingAssumption DEF RegisterChildPrefix, GetOrCreate
    <3>2. QED
      BY <3>1 DEF Spawned, NewState
  <2>3. QED
    BY <2>1, <2>2 DEF PrefixInv
<1>10. \A q \in Prefix : ps[q].present => ps'[q].present
  BY <1>4
<1>11. MapLocked => \A q \in Prefix : Before(q) => (Before(q))'
  BY <1>4, <1>5
<1>12. QED
  BY <1>2, <1>6, <1>7, <1>8, <1>9, <1>10, <1>11, ProducerLead

\* The state produce records stays behind the listing, which has not found the children to come.
LEMMA ProduceLead ==
    ASSUME RootKnown, IInv, HandInv, LeadInv, NEW p \in Prefix, Produce(p)
    PROVE  LeadInv'
<1> DEFINE e == Listing[p][pos[p] + 1]
<1>1. /\ prod[p] = "list" /\ pos[p] < seen[p] /\ Root \in Prefix
      /\ pos[p] \in Nat /\ seen[p] \in Nat
      /\ \A q \in Prefix : q # p => ps'[q] = ps[q] /\ prod'[q] = prod[q] /\ pos'[q] = pos[q]
      /\ UNCHANGED <<run, restored, toRestore, spawned, by, seen, resend, tasks, held, wst,
                     failures, srcDelay, swept, saving, copying, snap, disk>>
  BY ProduceFacts, ListingAssumption DEF IInv, TypeOK
<1>2. pos[p] + 1 \in 1..Len(Listing[p])
  BY <1>1, ListingFacts DEF IInv, ProducerInv
<1>3. dstDelay' = dstDelay /\ done \subseteq done' /\ run \notin Ended
  BY <1>1, ActiveRun, KnownFacts DEF Produce, Active
<1>4. \/ UNCHANGED <<ps, tracked, prod>> /\ pos'[p] = pos[p] + 1
      \/ \E n : RecordsEntry(p, n)
  BY ProduceFacts
<1>5. \/ prod'[p] = "list" /\ pos'[p] = pos[p] + 1
      \/ prod'[p] = "send" /\ pos'[p] = pos[p]
  <2>1. CASE UNCHANGED <<ps, tracked, prod>> /\ pos'[p] = pos[p] + 1
    BY <1>1, <2>1
  <2>2. ASSUME NEW n, RecordsEntry(p, n)
        PROVE  \/ prod'[p] = "list" /\ pos'[p] = pos[p] + 1
               \/ prod'[p] = "send" /\ pos'[p] = pos[p]
    <3>1. e \in Key => Kind[e] # "srcdir"
      BY KnownFacts
    <3>2. QED
      BY <2>2, <3>1 DEF RecordsEntry
  <2>3. QED
    BY <1>4, <2>1, <2>2
<1>6. /\ ps'[p].listDone = ps[p].listDone
      /\ ps[p].present => ps'[p].present /\ (ps'[p].isNew <=> ps[p].isNew)
      /\ ps'[p] = ps[p] \/ (ps'[p].last = pos[p] + 1 /\ ps'[p].present
                            /\ (ps[p].present \/ ~MapLocked))
  BY <1>4 DEF RecordsEntry
<1>7. ASSUME NEW q \in Prefix, q # p, Before(q) PROVE (Before(q))'
  <2>1. ps'[q] = ps[q] /\ Place(q) \in Nat
    BY <1>1, <1>7, ChildPlace DEF Before, Later
  <2>2. CASE p # Root
    BY <1>1, <1>7, <2>1, <2>2 DEF Before, Later
  <2>3. CASE p = Root
    <3>1. ps'[Root].present /\ ~ps'[Root].listDone
      BY <1>6, <1>7, <2>3 DEF Before, Later
    <3>2. seen[Root] < Place(q)
      BY <1>1, <1>7, <2>3 DEF Before, Listings
    <3>3. ps'[Root].last < Place(q)
      BY <1>1, <1>6, <1>7, <2>1, <2>3, <3>2 DEF Before, Later
    <3>4. QED
      BY <1>1, <1>7, <2>1, <3>1, <3>2, <3>3 DEF Before, Later
  <2>4. QED
    BY <2>2, <2>3
<1>8. PendingTracked'
  <2>1. ps'[p].pending \cup ps'[p].failed \subseteq tracked' \/ ~(p \in restored' \/ ps'[p].isNew)
    <3>1. CASE UNCHANGED <<ps, tracked>>
      BY <1>1, <3>1 DEF LeadInv, PendingTracked
    <3>2. CASE ~UNCHANGED <<ps, tracked>>
      <4>1. PICK n : RecordsEntry(p, n)
        BY <1>4, <3>2
      <4>2. ps[p].present => ps[p].pending \cup ps[p].failed \subseteq tracked
        BY <1>1 DEF LeadInv, PendingTracked, HandInv, OriginInv
      <4>3. ~ps[p].present => ps[p].pending \cup ps[p].failed = {}
        BY AbsentFacts DEF NoState
      <4>4. QED
        BY <4>1, <4>2, <4>3 DEF RecordsEntry
    <3>3. QED
      BY <3>1, <3>2
  <2>2. tracked \subseteq tracked'
    BY <1>4 DEF RecordsEntry
  <2>3. QED
    BY <1>1, <2>1, <2>2 DEF LeadInv, PendingTracked
<1>9. TrackedLive'
  <2>1. ASSUME NEW k \in tracked' PROVE k \in done' \/ failures' \/ (InHand(k))' \/ (Sends(k))'
    <3>1. CASE k \in tracked
      <4>1. k \in done \/ failures \/ InHand(k) \/ Sends(k)
        BY <3>1 DEF LeadInv, TrackedLive
      <4>2. InHand(k) => (InHand(k))'
        BY <1>1 DEF InHand
      <4>3. Sends(k) => (Sends(k))'
        <5>1. k \in Key /\ Owner(k) \in Prefix
          BY <3>1, TrackedFacts
        <5>2. QED
          BY <1>1, <5>1 DEF Sends
      <4>4. QED
        BY <1>1, <1>3, <4>1, <4>2, <4>3
    <3>2. CASE k \notin tracked
      <4>1. k = e /\ e \in Key /\ prod'[p] = "send" /\ pos' = pos
        BY <1>4, <3>2 DEF RecordsEntry
      <4>2. Owner(e) = p
        BY <1>2, <4>1, PlaceFacts
      <4>3. QED
        BY <4>1, <4>2 DEF Sends
    <3>3. QED
      BY <3>1, <3>2
  <2>2. QED
    BY <2>1 DEF TrackedLive
<1>10. ParentInv'
  <2>1. /\ pos'[p] <= seen'[p] /\ (prod'[p] = "send" => pos'[p] < seen'[p])
        /\ prod'[p] \in Listings /\ prod[p] \in Listings /\ prod'[p] # "append"
    BY <1>1, <1>5 DEF Listings
  <2>2. /\ \A q \in Prefix : prod'[q] \in Listings => pos'[q] <= seen'[q]
        /\ \A q \in Prefix : prod'[q] \in {"send", "append"} => pos'[q] < seen'[q]
    BY <1>1, <2>1 DEF LeadInv, ParentInv
  <2>3. \A q \in Prefix : /\ prod'[q] \in Active => prod[q] \in Active
                          /\ prod'[q] # "none" => prod[q] # "none"
                          /\ prod[q] \in Listings => prod'[q] \in Listings
                          /\ prod[q] = "wait" => prod'[q] = "wait"
    BY <1>1, <2>1 DEF Active
  <2>4. QED
    BY <1>1, <2>2, <2>3 DEF LeadInv, ParentInv
<1>11. PrefixInv'
  <2>1. ASSUME NEW q \in Prefix, q # p
        PROVE  (Handled(q) \/ Restores(q) \/ Spawned(q) \/ Started(q) \/ Coming(q))'
    <3>1. Handled(q) \/ Restores(q) \/ Spawned(q) \/ Started(q) \/ Coming(q)
      BY <1>1 DEF LeadInv, PrefixInv, IInv, DownInv
    <3>2. CASE Handled(q) \/ Restores(q) \/ Spawned(q) \/ Started(q)
      BY <1>1, <1>3, <2>1, <3>2 DEF Handled, Restores, Spawned, Started
    <3>3. CASE Coming(q)
      <4>1. Restores(Root) => prod[Root] = "none"
        BY DEF Restores, IInv, SpawnInv
      <4>2. Before(q)
        BY <3>3, <4>1 DEF Coming, Before, Listings
      <4>3. (Before(q))'
        BY <1>7, <2>1, <4>2
      <4>4. CASE p = Root
        <5>1. prod'[Root] \in Listings
          BY <1>5, <4>4 DEF Listings
        <5>2. QED
          BY <4>3, <5>1 DEF Before, Coming
      <4>5. CASE p # Root
        <5>1. /\ prod'[Root] = prod[Root] /\ seen'[Root] = seen[Root]
              /\ Restores(Root) => (Restores(Root))'
          BY <1>1, <4>5 DEF Restores
        <5>2. QED
          BY <3>3, <4>3, <5>1 DEF Before, Coming
      <4>6. QED
        BY <4>4, <4>5
    <3>4. QED
      BY <3>1, <3>2, <3>3
  <2>2. (Handled(p) \/ Restores(p) \/ Spawned(p) \/ Started(p) \/ Coming(p))'
    <3>1. CASE ps'[p].present
      BY <1>5, <3>1 DEF Started
    <3>2. CASE ~ps'[p].present
      <4>1. ps'[p] = ps[p] /\ ~ps[p].present
        BY <1>6, <3>2
      <4>2. Handled(p) \/ Started(p) \/ Coming(p)
        BY <1>1, <4>1 DEF LeadInv, PrefixInv, IInv, DownInv, Restores, Spawned
      <4>3. ~Coming(p)
        <5>1. ASSUME Coming(p) PROVE FALSE
          <6>1. p \in Children(Root) /\ seen[Root] < Place(p)
            BY <5>1, ChildPlace DEF Coming, Later, IInv, SpawnInv, Restores
          <6>2. Place(p) \in DOMAIN Listing[Root] /\ Listing[Root][Place(p)] = p
            BY <1>1, <6>1, ChildPlace, ListingFacts
          <6>3. prod[p] \in Relying => ps[p].present
            BY <6>1, <6>2 DEF IInv, SpawnInv
          <6>4. QED
            BY <1>1, <4>1, <6>3 DEF Relying
        <5>2. QED
          BY <5>1
      <4>4. QED
        BY <1>3, <1>5, <4>1, <4>2, <4>3 DEF Handled, Started
    <3>3. QED
      BY <3>1, <3>2
  <2>3. QED
    BY <2>1, <2>2 DEF PrefixInv
<1>12. \A q \in Prefix : ps[q].present => ps'[q].present
  BY <1>1, <1>6
<1>13. MapLocked => \A q \in Prefix : Before(q) => (Before(q))'
  <2>1. ASSUME MapLocked, Before(p) PROVE (Before(p))'
    <3>1. p # Root /\ ps'[p] = ps[p]
      BY <1>6, <2>1, ChildPlace DEF Before, Later
    <3>2. QED
      BY <1>1, <2>1, <3>1 DEF Before, Later
  <2>2. QED
    BY <1>7, <2>1
<1>14. QED
  BY <1>1, <1>3, <1>8, <1>9, <1>10, <1>11, <1>12, <1>13, ProducerLead

\* A listing that is done has found every child, and recorded everything.
LEMMA MarkListDoneLead ==
    ASSUME IInv, HandInv, LeadInv, NEW p \in Prefix, MarkListDone(p)
    PROVE  LeadInv'
<1> USE DEF MarkListDone, workVars, delVars, saveVars
<1>1. /\ prod[p] = "list" /\ pos[p] = Len(Listing[p]) /\ Root \in Prefix
      /\ prod'[p] = IF Children(p) = {} THEN "done" ELSE "wait"
      /\ \A q \in Prefix : q # p => prod'[q] = prod[q] /\ ps'[q] = ps[q]
      /\ run \notin Ended
  BY ActiveRun, ListingAssumption DEF UpdateState, IInv, TypeOK, Active
<1>2. /\ ps'[p].last = ps[p].last /\ ps'[p].pending = ps[p].pending
      /\ ps'[p].failed = ps[p].failed /\ ps'[p].listDone /\ ps'[p].present
      /\ ps[p].present => (ps'[p].isNew <=> ps[p].isNew)
      /\ ps[p].present \/ ~MapLocked
  <2>1. ps'[p] = [GetOrCreate(p) EXCEPT !.listDone = TRUE] /\ (ps[p].present \/ ~MapLocked)
    BY DEF UpdateState, IInv, TypeOK
  <2>2. GetOrCreate(p) \in PrefixState /\ GetOrCreate(p).present
    BY GetFacts DEF IInv
  <2>3. /\ ps'[p].last = GetOrCreate(p).last /\ ps'[p].pending = GetOrCreate(p).pending
        /\ ps'[p].failed = GetOrCreate(p).failed /\ ps'[p].listDone /\ ps'[p].present
        /\ ps'[p].isNew = GetOrCreate(p).isNew
    BY <2>1, <2>2 DEF PrefixState
  <2>4. ps[p].present => GetOrCreate(p) = ps[p]
    BY DEF GetOrCreate
  <2>5. ps[p].present => (ps'[p].isNew <=> ps[p].isNew)
    BY <2>3, <2>4
  <2>6. QED
    BY <2>1, <2>3, <2>5, GetFacts DEF IInv
<1>3. ASSUME NEW q \in Prefix, Before(q) PROVE p # Root
  <2>1. ASSUME p = Root PROVE FALSE
    <3>1. seen[Root] < Place(q) /\ Place(q) \in 1..Len(Listing[Root])
      BY <1>1, <1>3, <2>1, ChildPlace DEF Before, Later, Listings
    <3>2. pos[Root] <= seen[Root] /\ seen[Root] \in Nat
      BY <1>1, <2>1 DEF LeadInv, ParentInv, Listings, IInv, TypeOK
    <3>3. Len(Listing[Root]) \in Nat
      BY <1>1, ListingFacts
    <3>4. QED
      BY <1>1, <2>1, <3>1, <3>2, <3>3
  <2>2. QED
    BY <2>1
<1>4. PendingTracked'
  <2>1. ps[p].present => ps[p].pending \cup ps[p].failed \subseteq tracked
    BY <1>1 DEF LeadInv, PendingTracked, HandInv, OriginInv
  <2>2. ~ps[p].present => ps[p].pending \cup ps[p].failed = {}
    BY AbsentFacts DEF NoState
  <2>3. QED
    BY <1>1, <1>2, <2>1, <2>2 DEF LeadInv, PendingTracked
<1>5. TrackedLive'
  <2>1. \A k \in tracked : Sends(k) => (Sends(k))'
    BY <1>1, TrackedFacts DEF Sends
  <2>2. QED
    BY <2>1 DEF LeadInv, TrackedLive, InHand
<1>6. ParentInv'
  <2>1. prod'[p] \notin Listings /\ prod[p] \in Active
    BY <1>1 DEF Listings, Active
  <2>2. \A q \in Prefix : prod'[q] \in Listings => prod[q] \in Listings /\ prod'[q] = prod[q]
    BY <1>1, <2>1
  <2>3. \A q \in Prefix : /\ prod'[q] \in Active => prod[q] \in Active
                          /\ prod'[q] # "none" => prod[q] # "none"
    BY <1>1, <2>1
  <2>4. ASSUME NEW q \in Prefix, q \in spawned \/ (by[q] = "parent" /\ prod[q] \in Active)
        PROVE  q \in Children(Root) /\ prod'[Root] \in Listings \cup {"wait"}
    <3>1. q \in Children(Root) /\ prod[Root] \in Listings \cup {"wait"}
      BY <2>4 DEF LeadInv, ParentInv
    <3>2. QED
      BY <1>1, <3>1
  <2>5. QED
    BY <2>2, <2>3, <2>4 DEF LeadInv, ParentInv
<1>7. PrefixInv'
  <2>1. ASSUME NEW q \in Prefix, q # p
        PROVE  (Handled(q) \/ Restores(q) \/ Spawned(q) \/ Started(q) \/ Coming(q))'
    <3>1. Handled(q) \/ Restores(q) \/ Spawned(q) \/ Started(q) \/ Coming(q)
      BY <1>1 DEF LeadInv, PrefixInv, IInv, DownInv
    <3>2. CASE Handled(q) \/ Restores(q) \/ Spawned(q) \/ Started(q)
      BY <1>1, <2>1, <3>2 DEF Handled, Restores, Spawned, Started
    <3>3. CASE Coming(q)
      <4>1. Restores(Root) => prod[Root] = "none"
        BY DEF Restores, IInv, SpawnInv
      <4>2. Before(q)
        BY <3>3, <4>1 DEF Coming, Before, Listings
      <4>3. p # Root
        BY <1>3, <4>2
      <4>4. QED
        BY <1>1, <2>1, <3>3, <4>3 DEF Coming, Later, Restores
    <3>4. QED
      BY <3>1, <3>2, <3>3
  <2>2. (Started(p))'
    BY <1>1, <1>2 DEF Started
  <2>3. QED
    BY <2>1, <2>2 DEF PrefixInv
<1>8. MapLocked => \A q \in Prefix : Before(q) => (Before(q))'
  <2>1. ASSUME MapLocked, NEW q \in Prefix, Before(q) PROVE (Before(q))'
    <3>1. p # Root /\ q # p
      BY <1>2, <1>3, <2>1 DEF Before
    <3>2. QED
      BY <1>1, <2>1, <3>1 DEF Before, Later
  <2>2. QED
    BY <2>1
<1>9. \A q \in Prefix : ps[q].present => ps'[q].present
  BY <1>1, <1>2
<1>10. QED
  BY <1>1, <1>4, <1>5, <1>6, <1>7, <1>8, <1>9, ProducerLead

\* A producer that waited for its children returns.
LEMMA ProducerDoneLead ==
    ASSUME IInv, LeadInv, NEW p \in Prefix, ProducerDone(p)
    PROVE  LeadInv'
<1> USE DEF ProducerDone, mgrVars, workVars, delVars, saveVars
<1>1. /\ prod[p] = "wait" /\ prod'[p] = "done" /\ Root \in Prefix
      /\ \A q \in Prefix : q # p => prod'[q] = prod[q]
      /\ run \notin Ended
  BY ActiveRun, ListingAssumption DEF IInv, TypeOK, Active
<1>2. PendingTracked'
  BY DEF LeadInv, PendingTracked
<1>3. TrackedLive'
  BY <1>1, PlaceFacts DEF LeadInv, TrackedLive, InHand, Sends, IInv, TypeOK
<1>4. ParentInv'
  <2>1. \A q \in Prefix : prod'[q] \in Listings => prod[q] \in Listings /\ prod'[q] = prod[q]
    BY <1>1 DEF Listings
  <2>2. \A q \in Prefix : /\ prod'[q] \in Active => prod[q] \in Active
                          /\ prod'[q] # "none" => prod[q] # "none"
    BY <1>1 DEF Active
  <2>3. ASSUME NEW q \in Prefix, q \in spawned \/ (by[q] = "parent" /\ prod[q] \in Active)
        PROVE  q \in Children(Root) /\ prod'[Root] \in Listings \cup {"wait"}
    <3>1. q \in Children(Root) /\ prod[Root] \in Listings \cup {"wait"}
      BY <2>3 DEF LeadInv, ParentInv
    <3>2. p # Root
      BY <2>3, <3>1
    <3>3. QED
      BY <1>1, <3>1, <3>2
  <2>4. QED
    BY <2>1, <2>2, <2>3 DEF LeadInv, ParentInv
<1>5. PrefixInv'
  <2>1. ASSUME NEW q \in Prefix
        PROVE  /\ Handled(q) => (Handled(q))'
               /\ Restores(q) => (Restores(q))'
               /\ Spawned(q) => (Spawned(q))'
               /\ Started(q) => (Started(q))'
    BY <1>1 DEF Handled, Restores, Spawned, Started
  <2>2. ASSUME NEW q \in Prefix, Coming(q) PROVE (Coming(q))'
    <3>1. prod[Root] # "wait" \/ Restores(Root)
      BY <2>2 DEF Coming, Listings
    <3>2. QED
      BY <1>1, <2>1, <2>2, <3>1 DEF Coming, Later
  <2>3. QED
    BY <1>1, <2>1, <2>2 DEF LeadInv, PrefixInv, IInv, DownInv
<1>6. \A q \in Prefix : Before(q) => (Before(q))'
  BY <1>1 DEF Before, Later, Listings
<1>7. QED
  BY <1>1, <1>2, <1>3, <1>4, <1>5, <1>6, ProducerLead

\* A listing that fails below Sync counts as a failure of the run.
LEMMA ListFailLead ==
    ASSUME IInv, LeadInv, NEW p \in Prefix, ListFail(p)
    PROVE  LeadInv'
<1> USE DEF ListFail, mgrVars, workVars, delVars, saveVars
<1>1. CASE by[p] = "sync"
  BY <1>1, StopLead
<1>2. CASE by[p] # "sync"
  <2>1. /\ prod[p] = "list" /\ prod'[p] = "error" /\ Root \in Prefix /\ Children(p) = {}
        /\ \A q \in Prefix : q # p => prod'[q] = prod[q]
        /\ run \notin Ended /\ failures' /\ done' = done
        /\ UNCHANGED <<run, ps, tracked, restored, toRestore, spawned, by, seen, pos, resend,
                       tasks, held, wst, srcDelay, dstDelay, saving, copying, snap, disk>>
    BY <1>2, ActiveRun, ListingAssumption DEF IInv, TypeOK, Active
  <2>2. PendingTracked' /\ TrackedLive'
    BY <2>1 DEF LeadInv, PendingTracked, TrackedLive
  <2>3. ParentInv'
    <3>1. \A q \in Prefix : prod'[q] \in Listings => prod[q] \in Listings /\ prod'[q] = prod[q]
      BY <2>1 DEF Listings
    <3>2. \A q \in Prefix : /\ prod'[q] \in Active => prod[q] \in Active
                            /\ prod'[q] # "none" => prod[q] # "none"
      BY <2>1 DEF Active
    <3>3. p = Root => \A q \in Prefix : ~(q \in spawned \/ (by[q] = "parent" /\ prod[q] \in Active))
      BY <2>1 DEF LeadInv, ParentInv
    <3>4. QED
      BY <2>1, <3>1, <3>2, <3>3 DEF LeadInv, ParentInv
  <2>4. \A q \in Prefix : q \in Children(Root) => p # Root
    BY <2>1
  <2>5. PrefixInv'
    <3>1. ASSUME NEW q \in Prefix
          PROVE  /\ Handled(q) => (Handled(q))'
                 /\ Restores(q) => (Restores(q))'
                 /\ Spawned(q) => (Spawned(q))'
                 /\ Started(q) => (Started(q))'
      BY <2>1 DEF Handled, Restores, Spawned, Started
    <3>2. ASSUME NEW q \in Prefix, Coming(q) PROVE (Coming(q))'
      BY <2>1, <2>4, <3>1, <3>2 DEF Coming, Later
    <3>3. QED
      BY <2>1, <3>1, <3>2 DEF LeadInv, PrefixInv
  <2>6. \A q \in Prefix : Before(q) => (Before(q))'
    BY <2>1, <2>4 DEF Before, Later, Listings
  <2>7. QED
    BY <2>1, <2>2, <2>3, <2>5, <2>6, ProducerLead
<1>3. QED
  BY <1>1, <1>2

\* The listing goes on where the state of an earlier run ends, before the children to come.
LEMMA ResentLead ==
    ASSUME IInv, HandInv, LeadInv, NEW p \in Prefix, Resent(p)
    PROVE  LeadInv'
<1> USE DEF Resent, BeginList, mgrVars, workVars, delVars, saveVars
<1>1. /\ resend[p] = {} /\ Root \in Prefix /\ run \notin Ended /\ run # "down"
      /\ UNCHANGED <<run, ps, tracked, restored, toRestore, spawned, resend, tasks, held, wst,
                     failures, srcDelay, dstDelay, saving, copying, snap, disk, done>>
      /\ \A q \in Prefix : q # p => prod'[q] = prod[q] /\ seen'[q] = seen[q]
                                    /\ pos'[q] = pos[q] /\ by'[q] = by[q]
      /\ by'[p] = by[p]
      /\ \/ prod[p] = "resend" /\ prod'[p] = "list" /\ seen'[p] = ps[p].last /\ pos'[p] = ps[p].last
         \/ prod[p] = "resendOnly" /\ prod'[p] = "done"
  BY ActiveRun, ListingAssumption DEF IInv, TypeOK, Active
<1>2. PendingTracked'
  BY <1>1 DEF LeadInv, PendingTracked
<1>3. TrackedLive'
  <2>1. \A k \in tracked : Sends(k) => (Sends(k))'
    BY <1>1, TrackedFacts DEF Sends
  <2>2. QED
    BY <1>1, <2>1 DEF LeadInv, TrackedLive, InHand
<1>4. ParentInv'
  <2>1. prod[p] \notin Listings /\ prod[p] \in Active
    BY <1>1 DEF Listings, Active
  <2>2. /\ prod'[p] \in {"send", "append"} => FALSE
        /\ prod'[p] \in Listings => pos'[p] <= seen'[p]
    BY <1>1 DEF Listings, IInv, TypeOK, PrefixState
  <2>3. /\ \A q \in Prefix : prod'[q] \in Listings => pos'[q] <= seen'[q]
        /\ \A q \in Prefix : prod'[q] \in {"send", "append"} => pos'[q] < seen'[q]
    BY <1>1, <2>2 DEF LeadInv, ParentInv
  <2>4. \A q \in Prefix : /\ by'[q] = by[q]
                          /\ prod'[q] \in Active => prod[q] \in Active
                          /\ prod'[q] # "none" => prod[q] # "none"
                          /\ prod[q] \in Listings \cup {"wait"} => prod'[q] = prod[q]
    BY <1>1, <2>1 DEF Active
  <2>5. QED
    BY <1>1, <2>3, <2>4 DEF LeadInv, ParentInv
<1>5. ASSUME NEW q \in Prefix, Before(q) PROVE (Before(q))'
  <2>1. ps[Root].last < Place(q)
    BY <1>5 DEF Before, Later
  <2>2. prod'[Root] \in Listings => seen'[Root] < Place(q)
    BY <1>1, <1>5, <2>1 DEF Before, Listings
  <2>3. QED
    BY <1>1, <1>5, <2>2 DEF Before, Later
<1>6. PrefixInv'
  <2>1. ASSUME NEW q \in Prefix
        PROVE  /\ Handled(q) => (Handled(q))'
               /\ Restores(q) => (Restores(q))'
               /\ Spawned(q) => (Spawned(q))'
               /\ Started(q) => (Started(q))'
    BY <1>1 DEF Handled, Restores, Spawned, Started
  <2>2. ASSUME NEW q \in Prefix, Coming(q) PROVE (Coming(q))'
    <3>1. CASE p # Root
      BY <1>1, <2>1, <2>2, <3>1 DEF Coming, Later
    <3>2. CASE p = Root
      <4>1. ~Restores(Root) /\ prod[Root] = "resend"
        BY <1>1, <2>2, <3>2 DEF Coming, Restores, Listings, IInv, SpawnInv
      <4>2. prod'[Root] \in Listings /\ seen'[Root] < Place(q)
        BY <1>1, <2>2, <3>2, <4>1 DEF Coming, Later, Listings
      <4>3. QED
        BY <1>1, <2>2, <4>2 DEF Coming, Later
    <3>3. QED
      BY <3>1, <3>2
  <2>3. QED
    BY <1>1, <2>1, <2>2 DEF LeadInv, PrefixInv
<1>7. QED
  BY <1>1, <1>2, <1>3, <1>4, <1>5, <1>6, ProducerLead

\* A prefix is restored by restoreFromCheckpoint, or below a root that is being listed.
LEMMA RestoreLead ==
    ASSUME IInv, HandInv, LeadInv, NEW p \in Prefix, NEW who \in {"top", "parent"},
           Restorable(p), RestorePrefix(p, who),
           \/ /\ p \in toRestore /\ who = "top"
              /\ toRestore' = toRestore \ {p} /\ spawned' = spawned
           \/ /\ p \in spawned /\ who = "parent"
              /\ spawned' = spawned \ {p} /\ toRestore' = toRestore,
           UNCHANGED <<run, tasks, workVars, failures, delVars, saveVars, disk, done>>
    PROVE  LeadInv'
<1> USE DEF workVars, delVars, saveVars
<1> DEFINE again == ps[p].pending \cup ps[p].failed
<1>1. /\ ps'[p].present /\ ~ps'[p].isNew /\ ps[p].present /\ ~ps[p].isNew
      /\ ps'[p].listDone = ps[p].listDone /\ ps'[p].last = ps[p].last
      /\ ps'[p].pending = again /\ ps'[p].failed = {}
      /\ \A q \in Prefix : q # p => ps'[q] = ps[q] /\ prod'[q] = prod[q]
      /\ prod'[p] = (IF ps[p].listDone THEN "resendOnly" ELSE "resend")
      /\ p \notin restored
  <2>1. prod'[p] = (IF ps[p].listDone THEN "resendOnly" ELSE "resend") /\ p \notin restored
    BY DEF Restorable, RestorePrefix, IInv, TypeOK
  <2>2. QED
    BY <2>1, RestoreFacts
<1>2. /\ restored' = restored \cup {p} /\ tracked' = tracked \cup again
      /\ pos' = pos /\ seen' = seen
      /\ by'[p] = who /\ \A q \in Prefix : q # p => by'[q] = by[q]
      /\ resend'[p] = again /\ \A q \in Prefix : q # p => resend'[q] = resend[q]
  BY DEF RestorePrefix, IInv, TypeOK
<1>3. /\ run \notin Ended /\ run # "down" /\ Root \in Prefix
      /\ toRestore' \subseteq toRestore /\ toRestore \ {p} \subseteq toRestore'
      /\ spawned' \subseteq spawned /\ spawned \ {p} \subseteq spawned'
  BY ActiveRun, ListingAssumption
<1>4. \A k \in tracked : k \in Key /\ Owner(k) \in Prefix /\ Owner(k) # p
  BY <1>1, TrackedFacts DEF HandInv, TrackedOrigin
<1>5. PendingTracked'
  BY <1>1, <1>2 DEF LeadInv, PendingTracked
<1>6. TrackedLive'
  <2>1. ASSUME NEW k \in tracked' PROVE k \in done' \/ failures' \/ (InHand(k))' \/ (Sends(k))'
    <3>1. CASE k \in tracked
      <4>1. k \in done \/ failures \/ InHand(k) \/ Sends(k)
        BY <3>1 DEF LeadInv, TrackedLive
      <4>2. InHand(k) => (InHand(k))'
        BY <1>2, <1>4, <3>1 DEF InHand
      <4>3. Sends(k) => (Sends(k))'
        BY <1>1, <1>2, <1>4, <3>1 DEF Sends
      <4>4. QED
        BY <4>1, <4>2, <4>3
    <3>2. CASE k \in again
      <4>1. Owner(k) = p
        BY <3>2 DEF IInv, StatesInv, WellFormed
      <4>2. QED
        BY <1>2, <3>2, <4>1 DEF InHand
    <3>3. QED
      BY <1>2, <2>1, <3>1, <3>2
  <2>2. QED
    BY <2>1 DEF TrackedLive
<1>7. p = Root => prod[Root] = "none" /\ who = "top"
  BY DEF IInv, SpawnInv
<1>8. ParentInv'
  <2>1. prod'[p] \notin Listings /\ prod'[p] \notin {"send", "append"}
    BY <1>1 DEF Listings
  <2>2. /\ \A q \in Prefix : prod'[q] \in Listings => pos'[q] <= seen'[q]
        /\ \A q \in Prefix : prod'[q] \in {"send", "append"} => pos'[q] < seen'[q]
        /\ by'[Root] # "parent"
        /\ \A q \in Prefix : prod'[q] # "none" => by'[q] # "none"
        /\ spawned' \subseteq Children(Root)
    BY <1>1, <1>2, <1>3, <1>7, <2>1 DEF LeadInv, ParentInv
  <2>3. ASSUME NEW q \in Prefix,
               q \in spawned' \/ (by'[q] = "parent" /\ prod'[q] \in Active)
        PROVE  q \in Children(Root) /\ prod'[Root] \in Listings \cup {"wait"}
    <3>1. q \in spawned \/ (by[q] = "parent" /\ prod[q] \in Active)
      BY <1>1, <1>2, <1>3, <2>3
    <3>2. q \in Children(Root) /\ prod[Root] \in Listings \cup {"wait"}
      BY <3>1 DEF LeadInv, ParentInv
    <3>3. p # Root
      BY <1>7, <3>2 DEF Listings
    <3>4. QED
      BY <1>1, <1>3, <3>2, <3>3
  <2>4. QED
    BY <2>2, <2>3 DEF ParentInv
<1>9. ASSUME NEW q \in Prefix, Before(q) PROVE (Before(q))'
  <2>1. q # p
    BY <1>1, <1>9 DEF Before
  <2>2. prod'[Root] \in Listings => prod[Root] \in Listings
    BY <1>1, <1>3 DEF Listings
  <2>3. ps'[Root].present /\ ~ps'[Root].listDone /\ ps'[Root].last < Place(q)
    BY <1>1, <1>3, <1>9 DEF Before, Later
  <2>4. QED
    BY <1>1, <1>2, <1>9, <2>1, <2>2, <2>3 DEF Before, Later
<1>10. PrefixInv'
  <2>1. ASSUME NEW q \in Prefix, q # p
        PROVE  /\ Handled(q) => (Handled(q))'
               /\ Restores(q) => (Restores(q))'
               /\ Spawned(q) => (Spawned(q))'
               /\ Started(q) => (Started(q))'
    BY <1>1, <1>2, <1>3, <2>1 DEF Handled, Restores, Spawned, Started
  <2>2. (Started(p))'
    BY <1>1 DEF Started
  <2>3. ASSUME NEW q \in Prefix, q # p, Coming(q) PROVE (Coming(q))'
    <3>1. ~ps'[q].present /\ (Later(ps, q))'
      BY <1>1, <1>3, <2>3 DEF Coming, Later
    <3>2. CASE p # Root
      BY <1>1, <1>2, <1>3, <2>1, <2>3, <3>1, <3>2 DEF Coming
    <3>3. CASE p = Root
      <4>1. ~ps[Root].listDone
        BY <2>3 DEF Coming, Later
      <4>2. QED
        BY <1>1, <3>1, <3>3, <4>1 DEF Coming
    <3>4. QED
      BY <3>2, <3>3
  <2>4. QED
    BY <1>3, <2>1, <2>2, <2>3 DEF LeadInv, PrefixInv
<1>11. \A q \in Prefix : ps[q].present => ps'[q].present
  BY <1>1
<1>12. QED
  BY <1>3, <1>5, <1>6, <1>8, <1>9, <1>10, <1>11, ProducerLead

\* A goroutine of restoreFromCheckpoint restores its prefix, or leaves it to who did.
LEMMA RestoreTopLead ==
    ASSUME IInv, HandInv, LeadInv, NEW p \in Prefix, RestoreTop(p)
    PROVE  LeadInv'
<1>1. CASE Restorable(p)
  BY <1>1, RestoreLead DEF RestoreTop
<1>2. CASE ~Restorable(p)
  <2>1. /\ p \in toRestore /\ toRestore' = toRestore \ {p}
        /\ UNCHANGED <<run, ps, tracked, restored, spawned, prod, by, seen, pos, resend, tasks,
                       held, wst, failures, srcDelay, dstDelay, saving, copying, snap, disk, done>>
        /\ run \notin Ended /\ run # "down"
    BY <1>2, ActiveRun DEF RestoreTop, mgrVars, workVars, delVars, saveVars
  <2>2. PendingTracked' /\ TrackedLive' /\ ParentInv'
    BY <2>1 DEF LeadInv, PendingTracked, TrackedLive, InHand, Sends, ParentInv
  <2>3. ~Restores(p)
    BY <1>2 DEF Restores, Restorable
  <2>4. PrefixInv'
    <3>1. ASSUME NEW q \in Prefix
          PROVE  /\ Handled(q) => (Handled(q))'
                 /\ Restores(q) => (Restores(q))'
                 /\ Spawned(q) => (Spawned(q))'
                 /\ Started(q) => (Started(q))'
      BY <2>1, <2>3 DEF Handled, Restores, Spawned, Started
    <3>2. ASSUME NEW q \in Prefix, Coming(q) PROVE (Coming(q))'
      BY <2>1, <3>1, <3>2, ListingAssumption DEF Coming, Later
    <3>3. QED
      BY <2>1, <3>1, <3>2 DEF LeadInv, PrefixInv
  <2>5. \A q \in Prefix : Before(q) => (Before(q))'
    BY <2>1 DEF Before, Later
  <2>6. QED
    BY <2>1, <2>2, <2>4, <2>5, ProducerLead
<1>3. QED
  BY <1>1, <1>2

\* A spawned child was registered, so its goroutine finds a state to go on from.
LEMMA RestoreChildLead ==
    ASSUME IInv, HandInv, LeadInv, NEW p \in Prefix, RestoreChild(p)
    PROVE  LeadInv'
<1>1. /\ p \in spawned /\ spawned' = spawned \ {p} /\ p # Root /\ p \in Children(Root)
      /\ run \notin Ended /\ run # "down" /\ Root \in Prefix
      /\ UNCHANGED <<run, toRestore, tasks, held, wst, failures, srcDelay, dstDelay, saving,
                     copying, snap, disk, done>>
      /\ prod[Root] \in Listings \cup {"wait"}
  BY ActiveRun, ListingAssumption
     DEF RestoreChild, LeadInv, ParentInv, IInv, SpawnInv, workVars, delVars, saveVars
<1>2. CASE Restorable(p) /\ RestorePrefix(p, "parent")
  BY <1>1, <1>2, RestoreLead DEF RestoreChild
<1>3. CASE /\ ps[p].present /\ ~ps[p].isNew /\ p \in restored
           /\ UNCHANGED <<mgrVars, prod, by, seen, pos, resend>>
  <2>1. UNCHANGED <<ps, tracked, restored, prod, by, seen, pos, resend>>
    BY <1>3 DEF mgrVars
  <2>2. PendingTracked' /\ TrackedLive' /\ ParentInv'
    BY <1>1, <2>1 DEF LeadInv, PendingTracked, TrackedLive, InHand, Sends, ParentInv
  <2>3. PrefixInv'
    <3>1. ASSUME NEW q \in Prefix
          PROVE  /\ Handled(q) => (Handled(q))'
                 /\ Restores(q) => (Restores(q))'
                 /\ Spawned(q) => (Spawned(q))'
                 /\ Started(q) => (Started(q))'
      BY <1>1, <1>3, <2>1 DEF Handled, Restores, Spawned, Started
    <3>2. ASSUME NEW q \in Prefix, Coming(q) PROVE (Coming(q))'
      BY <1>1, <2>1, <3>1, <3>2 DEF Coming, Later
    <3>3. QED
      BY <1>1, <3>1, <3>2 DEF LeadInv, PrefixInv
  <2>4. \A q \in Prefix : Before(q) => (Before(q))'
    BY <2>1 DEF Before, Later
  <2>5. QED
    BY <1>1, <2>1, <2>2, <2>3, <2>4, ProducerLead
<1>4. CASE /\ ~ps[p].present \/ ps[p].isNew
           /\ BeginList(p, "parent") /\ UNCHANGED <<mgrVars, resend>>
  <2>1. /\ prod'[p] = "list" /\ seen'[p] = ps[p].last /\ pos'[p] = ps[p].last
        /\ by'[p] = "parent" /\ ps[p].last \in Nat
        /\ \A q \in Prefix : q # p => prod'[q] = prod[q] /\ seen'[q] = seen[q]
                                      /\ pos'[q] = pos[q] /\ by'[q] = by[q]
        /\ UNCHANGED <<ps, tracked, restored, resend>>
    BY <1>4 DEF BeginList, mgrVars, IInv, TypeOK, PrefixState
  <2>2. prod[p] \notin Relying
    BY <1>1, <1>4 DEF IInv, SpawnInv
  <2>3. PendingTracked'
    BY <2>1 DEF LeadInv, PendingTracked
  <2>4. TrackedLive'
    <3>1. \A k \in tracked : Sends(k) => (Sends(k))'
      BY <2>1, <2>2, TrackedFacts DEF Sends, Relying
    <3>2. QED
      BY <1>1, <2>1, <3>1 DEF LeadInv, TrackedLive, InHand
  <2>5. ParentInv'
    <3>1. /\ \A q \in Prefix : prod'[q] \in Listings => pos'[q] <= seen'[q]
          /\ \A q \in Prefix : prod'[q] \in {"send", "append"} => pos'[q] < seen'[q]
          /\ by'[Root] # "parent"
          /\ \A q \in Prefix : prod'[q] # "none" => by'[q] # "none"
          /\ spawned' \subseteq Children(Root)
      BY <1>1, <2>1 DEF LeadInv, ParentInv
    <3>2. prod'[Root] \in Listings \cup {"wait"}
      BY <1>1, <2>1
    <3>3. ASSUME NEW q \in Prefix,
                 q \in spawned' \/ (by'[q] = "parent" /\ prod'[q] \in Active)
          PROVE  q \in Children(Root)
      BY <1>1, <2>1, <3>3 DEF LeadInv, ParentInv
    <3>4. QED
      BY <3>1, <3>2, <3>3 DEF ParentInv
  <2>6. ~Coming(p)
    <3>1. ASSUME Coming(p) PROVE FALSE
      <4>1. seen[Root] < Place(p)
        BY <1>1, <3>1 DEF Coming, Restores, Listings, IInv, SpawnInv
      <4>2. Place(p) \in DOMAIN Listing[Root] /\ Listing[Root][Place(p)] = p
        BY <1>1, ChildPlace, ListingFacts
      <4>3. p \notin spawned
        BY <4>1, <4>2 DEF IInv, SpawnInv
      <4>4. QED
        BY <1>1, <4>3
    <3>2. QED
      BY <3>1
  <2>7. PrefixInv'
    <3>1. ASSUME NEW q \in Prefix, q # p
          PROVE  /\ Handled(q) => (Handled(q))'
                 /\ Restores(q) => (Restores(q))'
                 /\ Spawned(q) => (Spawned(q))'
                 /\ Started(q) => (Started(q))'
      BY <1>1, <2>1, <3>1 DEF Handled, Restores, Spawned, Started
    <3>2. ASSUME NEW q \in Prefix, q # p, Coming(q) PROVE (Coming(q))'
      BY <1>1, <2>1, <3>1, <3>2 DEF Coming, Later
    <3>3. (Handled(p) \/ Restores(p) \/ Spawned(p) \/ Started(p))'
      <4>1. Handled(p) \/ Restores(p) \/ Spawned(p) \/ Started(p)
        BY <1>1, <2>6 DEF LeadInv, PrefixInv
      <4>2. CASE Handled(p) \/ Restores(p)
        BY <1>1, <2>1, <4>2 DEF Handled, Restores
      <4>3. CASE Spawned(p) \/ Started(p)
        BY <2>1, <4>3 DEF Spawned, Started
      <4>4. QED
        BY <4>1, <4>2, <4>3
    <3>4. QED
      BY <1>1, <3>1, <3>2, <3>3 DEF LeadInv, PrefixInv
  <2>8. \A q \in Prefix : Before(q) => (Before(q))'
    BY <1>1, <2>1 DEF Before, Later
  <2>9. QED
    BY <1>1, <2>1, <2>3, <2>4, <2>5, <2>7, <2>8, ProducerLead
<1>5. QED
  BY <1>2, <1>3, <1>4 DEF RestoreChild

\* A key that is handled stays handled, and no step handles two.
LEMMA DoneGrows ==
    ASSUME IInv, [Next]_vars
    PROVE  done' = done \/ \E k \in Key : done' = done \cup {k}
<1>1. CASE Over \/ UNCHANGED vars
  BY <1>1 DEF Over, vars
<1>2. CASE Start
  BY <1>2 DEF Start
<1>3. CASE EndStep
  BY <1>3 DEF EndStep, CloseTasks, WorkersDone, DropCheckpoint, DelayedDelete, ExitFailed,
              ExitCompleted, IInv, TypeOK
<1>4. CASE SaveBegin \/ SaveStep
  BY <1>4 DEF SaveBegin, SaveStep, SavePrefix, SaveDelayLists, SaveWrite
<1>5. CASE Fault
  BY <1>5 DEF Fault, Crash, ListFail, MarkFailed
<1>6. ASSUME NEW p \in Prefix, ProducerStep(p) \/ ReapPrefix(p)
      PROVE  done' = done \/ \E k \in Key : done' = done \cup {k}
  <2>1. CASE Produce(p)
    BY <2>1 DEF Produce
  <2>2. CASE ~Produce(p)
    BY <1>6, <2>2 DEF ProducerStep, RestoreTop, RestoreChild, Resend, Resent, ListNext, SendTask,
                      AppendSrcDelay, MarkListDone, ProducerDone, ReapPrefix
  <2>3. QED
    BY <2>1, <2>2
<1>7. ASSUME NEW w \in Worker, WorkerStep(w)
      PROVE  done' = done \/ \E k \in Key : done' = done \cup {k}
  BY <1>7 DEF WorkerStep, Fetch, Copy, MarkCompleted, IInv, WorkerInv
<1>8. QED
  BY <1>1, <1>2, <1>3, <1>4, <1>5, <1>6, <1>7 DEF Next

\* A run that ends without a failure need not leave a file: nothing is left to do.
LEMMA ExitCompletedLead ==
    ASSUME RootKnown, IInv, HandInv, LeadInv, ExitCompleted
    PROVE  LeadInv'
<1> USE DEF ExitCompleted, mgrVars, prodVars, workVars, delVars, saveVars
<1>1. done = Key
  BY EndDone DEF Ended
<1>2. \A p \in Prefix : (Handled(p))'
  BY <1>1 DEF Handled
<1>3. FileLeads(disk.state)'
  BY <1>2 DEF FileLeads
<1>4. DelayInv'
  BY DEF LeadInv, DelayInv, NoCheckpoint
<1>5. EndInv'
  BY DEF LeadInv, EndInv, Ended
<1>6. SnapInv'
  BY <1>2 DEF LeadInv, SnapInv
<1>7. QED
  BY <1>3, <1>4, <1>5, <1>6, QuietLead

\* Every step keeps LeadInv.
LEMMA NextLead == RootKnown /\ IInv /\ HandInv /\ LeadInv /\ [Next]_vars /\ IInv' => LeadInv'
<1> SUFFICES ASSUME RootKnown, IInv, HandInv, LeadInv, [Next]_vars, IInv' PROVE LeadInv'
  OBVIOUS
<1>1. CASE Over \/ UNCHANGED vars
  <2>1. UNCHANGED vars
    BY <1>1 DEF Over
  <2>2. SnapInv' /\ EndInv' /\ DelayInv' /\ FileLeads(disk.state)'
    BY <2>1, FileFrame DEF LeadInv, SnapInv, EndInv, Before, Later, Handled, vars
  <2>3. QED
    BY <2>1, <2>2, QuietLead DEF vars
<1>2. CASE Start
  BY <1>2, StartLead
<1>3. CASE EndStep
  BY <1>3, CloseTasksLead, WorkersDoneLead, DropCheckpointLead, NoDelayedDelete,
     ExitFailedLead, ExitCompletedLead DEF EndStep
<1>4. CASE SaveBegin \/ SaveStep
  BY <1>4, SaveBeginLead, SavePrefixLead, SaveDelayListsLead, SaveWriteLead DEF SaveStep
<1>5. CASE Fault
  <2>1. CASE Crash
    BY <2>1, StopLead DEF Crash
  <2>2. CASE ~Crash
    BY <1>5, <2>2, ListFailLead, ReleaseLead DEF Fault
  <2>3. QED
    BY <2>1, <2>2
<1>6. ASSUME NEW p \in Prefix, ProducerStep(p) \/ ReapPrefix(p) PROVE LeadInv'
  <2>1. ~AppendSrcDelay(p)
    BY KnownFacts DEF AppendSrcDelay
  <2>2. QED
    BY <1>6, <2>1, RestoreTopLead, RestoreChildLead, ResendLead, ResentLead, ListNextLead,
       ProduceLead, SendTaskLead, MarkListDoneLead, ProducerDoneLead, ReapPrefixLead
       DEF ProducerStep
<1>7. ASSUME NEW w \in Worker, WorkerStep(w) PROVE LeadInv'
  BY <1>7, FetchLead, CopyLead, ReleaseLead DEF WorkerStep
<1>8. QED
  BY <1>1, <1>2, <1>3, <1>4, <1>5, <1>6, <1>7 DEF Next

-----------------------------------------------------------------------------
(* What a job whose checkpoints know its root promises.                    *)

\* The file, the snapshot under way and the memory lead to whatever is not handled.
THEOREM LeadInvariant == RootKnown => (Spec => [](IInv /\ HandInv /\ LeadInv))
<1> SUFFICES ASSUME RootKnown PROVE Spec => [](IInv /\ HandInv /\ LeadInv)
  OBVIOUS
<1>1. Init => IInv /\ HandInv /\ LeadInv
  BY InitInv, InitHands, InitLead
<1>2. IInv /\ HandInv /\ LeadInv /\ [Next]_vars => (IInv /\ HandInv /\ LeadInv)'
  BY NextInv, NextHands, NextLead
<1>3. QED
  BY <1>1, <1>2, PTL DEF Spec

\* A completed run had no failure, so it has handled every key.
LEMMA CompletedFacts == RootKnown /\ IInv /\ HandInv /\ LeadInv => NoKeyLost
BY EndDone DEF NoKeyLost, LeadInv, EndInv, Ended

\* A run that reports success has handled every key, however often the job crashed,
\* failed and resumed before, if its checkpoints know the root.
THEOREM NothingLost == RootKnown => (Spec => []NoKeyLost)
<1> SUFFICES ASSUME RootKnown PROVE Spec => []NoKeyLost
  OBVIOUS
<1>1. QED
  BY CompletedFacts, LeadInvariant, PTL

\* A job that is over stays over.
LEMMA OverStays ==
    ASSUME IInv, LeadInv, [Next]_vars, run = "completed"
    PROVE  run' = "completed"
<1>1. /\ \A p \in Prefix : prod[p] \notin Active
      /\ \A w \in Worker : wst[w] = "idle"
  BY DEF LeadInv, EndInv, Ended
<1>2. CASE Over \/ UNCHANGED vars
  BY <1>2 DEF Over, vars
<1>3. CASE Start
  BY <1>3 DEF Start
<1>4. CASE EndStep
  BY <1>4 DEF EndStep, CloseTasks, WorkersDone, DropCheckpoint, DelayedDelete, ExitFailed,
              ExitCompleted
<1>5. CASE SaveBegin \/ SaveStep
  BY <1>5 DEF SaveBegin, SaveStep, SavePrefix, SaveDelayLists, SaveWrite
<1>6. CASE Fault
  BY <1>1, <1>6 DEF Fault, Crash, ListFail, MarkFailed, Active
<1>7. ASSUME NEW p \in Prefix, ProducerStep(p) \/ ReapPrefix(p) PROVE run' = "completed"
  BY <1>7 DEF ProducerStep, RestoreTop, RestoreChild, Resend, Resent, ListNext, Produce,
              SendTask, AppendSrcDelay, MarkListDone, ProducerDone, ReapPrefix
<1>8. ASSUME NEW w \in Worker, WorkerStep(w) PROVE run' = "completed"
  BY <1>8 DEF WorkerStep, Fetch, Copy, MarkCompleted
<1>9. QED
  BY <1>2, <1>3, <1>4, <1>5, <1>6, <1>7, <1>8 DEF Next

\* Only ExitCompleted ends the job, and it handles no key.
LEMMA OverBegins ==
    ASSUME [Next]_vars, run # "completed", run' = "completed"
    PROVE  ExitCompleted
<1>1. ~Start /\ ~SaveBegin /\ ~SaveStep /\ ~Over /\ vars' # vars
  BY DEF Start, SaveBegin, SaveStep, SavePrefix, SaveDelayLists, SaveWrite, Over, vars
<1>2. ~Fault
  BY DEF Fault, Crash, ListFail, MarkFailed
<1>3. \A p \in Prefix : ~ProducerStep(p) /\ ~ReapPrefix(p)
  BY DEF ProducerStep, RestoreTop, RestoreChild, Resend, Resent, ListNext, Produce,
         SendTask, AppendSrcDelay, MarkListDone, ProducerDone, ReapPrefix
<1>4. \A w \in Worker : ~WorkerStep(w)
  BY DEF WorkerStep, Fetch, Copy, MarkCompleted
<1>5. EndStep
  BY <1>1, <1>2, <1>3, <1>4 DEF Next
<1>6. QED
  BY <1>5 DEF EndStep, CloseTasks, WorkersDone, DropCheckpoint, DelayedDelete, ExitFailed

\* The job as its user sees it: each step of the detailed one handles a key, ends the
\* job after the last, or changes nothing the user sees.
THEOREM JobRefines == RootKnown => (Spec => Job!Spec)
<1> SUFFICES ASSUME RootKnown PROVE Spec => Job!Spec
  OBVIOUS
<1>1. Init => Job!Init
  BY DEF Init, Job!Init
<1>2. IInv /\ HandInv /\ LeadInv /\ IInv' /\ [Next]_vars => [Job!Next]_(Job!vars)
  <2> SUFFICES ASSUME IInv, HandInv, LeadInv, IInv', [Next]_vars PROVE [Job!Next]_(Job!vars)
    OBVIOUS
  <2> USE DEF Job!Next, Job!vars, Job!Handle, Job!Finish
  <2>1. /\ done' = done \/ \E k \in Key : done' = done \cup {k}
        /\ done \subseteq done' /\ done' \subseteq Key
    BY DoneGrows DEF IInv, TypeOK
  <2>2. CASE run = "completed"
    <3>1. done = Key
      BY <2>2, CompletedFacts DEF NoKeyLost
    <3>2. done' = done /\ run' = "completed"
      BY <2>1, <2>2, <3>1, OverStays
    <3>3. QED
      BY <2>2, <3>2
  <2>3. CASE run # "completed" /\ run' = "completed"
    <3>1. ExitCompleted
      BY <2>3, OverBegins
    <3>2. done = Key /\ done' = done
      BY <3>1, EndDone DEF ExitCompleted, Ended
    <3>3. QED
      BY <2>3, <3>2
  <2>4. CASE run # "completed" /\ run' # "completed"
    <3>1. CASE done' = done
      BY <2>4, <3>1
    <3>2. CASE done' # done
      <4>1. PICK k \in Key : done' = done \cup {k}
        BY <2>1, <3>2
      <4>2. k \notin done
        BY <3>2, <4>1
      <4>3. QED
        BY <2>4, <4>1, <4>2
    <3>3. QED
      BY <3>1, <3>2
  <2>5. QED
    BY <2>2, <2>3, <2>4
<1>3. QED
  BY <1>1, <1>2, LeadInvariant, PTL DEF Spec, Job!Spec

-----------------------------------------------------------------------------
(* What a failed run leaves at its exit, with delayed deletes.             *)

\* A run that is never cut short: no crash, and the error of a listing does not end Sync, or
\* it is the only fault there is.  Every prefix is the root or a child the source has, and
\* the first file has it, or the root comes to it.
NeverCut ==
    /\ MaxCrashes = 0
    /\ Children(Root) # {} \/ MaxFaults <= 1
    /\ Prefix \subseteq {Root} \cup Children(Root)
    /\ Children(Root) \subseteq SrcPrefix
    /\ Loadable(FirstCheckpoint) =>
          \A p \in Prefix : FirstCheckpoint.state[p].present \/ Later(FirstCheckpoint.state, p)

\* The save at the exit of a failed run succeeds.  (A single fault cannot hit it: it has
\* made the run fail.)
ExitsSaved == [][MaxFaults > 1 /\ ExitFailed => disk' = CurrentSnapshot]_vars

\* the file a run starts from is that of the exit before, not one saved on the way: Sync
\* listens to a producer of its own alone, which has an error only without children
ToTheEnd == Children(Root) # {}
Sound == ToTheEnd \/ faults = 0 \/ failures

Delayed(k) == k \in srcDelay \cup dstDelay
Settled(k) == Delayed(k) \/ Accounted(ps[Owner(k)], k)

\* a child the listing of the root will come to
ComingUp(p) ==
    /\ ~ps[p].present /\ p \in Children(Root)
    /\ \/ Later(ps, p) /\ (Restores(Root) \/ prod[Root] = "resend")
       \/ prod[Root] \in Listings /\ seen[Root] < Place(p)

\* the producer of key k will come to it, or its state says that it has not
Ahead(k) ==
    LET p == Owner(k)
    IN  \/ /\ prod[p] \in Listings /\ pos[p] < Place(k)
           /\ ps[p].present \/ (p = Root /\ by[Root] = "sync")
        \/ /\ prod[p] \notin Listings /\ ps[p].present
           /\ ~ps[p].listDone /\ ps[p].last < Place(k)
        \/ ComingUp(p)

WorkInv == run # "down" /\ Sound => \A k \in Key : Settled(k) \/ Ahead(k)

DiskInv ==
    run = "down" /\ (ToTheEnd \/ faults = 0) =>
        \A k \in Key : Ignored(disk, k) =>
            \/ k \in done
            \/ ~disk.state[Owner(k)].present /\ Later(disk.state, Owner(k))

\* who waits for whom, and what is over when the process goes to its end
CourseInv ==
    /\ ParentInv
    /\ run \in Ended => toRestore = {} /\ \A p \in Prefix : prod[p] \notin Active
    /\ run \notin {"up", "closed"} => saving = "idle"
    /\ \A p \in Prefix : by[p] = "sync" => p = Root
    /\ run = "down" => ~failures
    /\ failures => faults > 0
    /\ crashes = 0

ExitInv == CourseInv /\ DiskInv /\ WorkInv

-----------------------------------------------------------------------------
(* Who waits for whom.                                                     *)

\* Producers go on, return or stop; nobody starts.
LEMMA ParentStep ==
    ASSUME IInv, ParentInv, NEW p \in Prefix,
           UNCHANGED <<spawned, by, seen>>,
           \A q \in Prefix : q # p => prod'[q] = prod[q] /\ pos'[q] = pos[q],
           prod[p] # "none", prod'[p] \in Active => prod[p] \in Active,
           prod'[p] \in Listings => pos'[p] <= seen[p],
           prod'[p] \in {"send", "append"} => pos'[p] < seen[p],
           \/ prod[p] \notin Listings \cup {"wait"} \/ prod'[p] \in Listings \cup {"wait"}
           \/ \A q \in Prefix : ~(q \in spawned \/ (by[q] = "parent" /\ prod[q] \in Active))
    PROVE  ParentInv'
<1>1. Root \in Prefix /\ prod \in [Prefix -> Active \cup {"none", "done", "error"}]
  BY ListingAssumption DEF IInv, TypeOK
<1>2. /\ \A q \in Prefix : prod'[q] \in Listings => pos'[q] <= seen'[q]
      /\ \A q \in Prefix : prod'[q] \in {"send", "append"} => pos'[q] < seen'[q]
  BY DEF ParentInv
<1>3. \A q \in Prefix : /\ prod'[q] \in Active => prod[q] \in Active
                        /\ prod'[q] # "none" => prod[q] # "none"
  OBVIOUS
<1>4. ASSUME NEW q \in Prefix, q \in spawned' \/ (by'[q] = "parent" /\ prod'[q] \in Active)
      PROVE  q \in Children(Root) /\ prod'[Root] \in Listings \cup {"wait"}
  <2>1. q \in spawned \/ (by[q] = "parent" /\ prod[q] \in Active)
    BY <1>3, <1>4
  <2>2. q \in Children(Root) /\ prod[Root] \in Listings \cup {"wait"}
    BY <2>1 DEF ParentInv
  <2>3. prod'[Root] = prod[Root] \/ p = Root
    BY <1>1
  <2>4. QED
    BY <2>1, <2>2, <2>3
<1>5. QED
  BY <1>2, <1>3, <1>4 DEF ParentInv

\* What waits to be restored, spawned or produced keeps the run up.
LEMMA CourseRun ==
    ASSUME IInv, CourseInv, NEW p \in Prefix,
           p \in toRestore \/ p \in spawned \/ prod[p] \in Active
    PROVE  run = "up" /\ run \notin Ended
<1>1. Root \in Prefix
  BY ListingAssumption
<1>2. run # "down"
  BY DEF IInv, DownInv, Active
<1>3. p \in spawned => prod[Root] \in Active
  BY DEF CourseInv, ParentInv, Listings, Active
<1>4. run \notin Ended
  BY <1>1, <1>3 DEF CourseInv
<1>5. QED
  BY <1>2, <1>4 DEF IInv, TypeOK, Ended

\* A step that moves no producer.
LEMMA CourseFrame ==
    ASSUME IInv, CourseInv, UNCHANGED <<toRestore, spawned, prod, by, seen, pos, crashes>>,
           run' = run \/ (run \in Ended /\ run' \in Ended),
           run' \notin {"up", "closed"} => saving' = "idle",
           failures' => failures \/ faults' > 0, faults' >= faults, faults \in Nat, faults' \in Nat,
           run' = "down" => ~failures'
    PROVE  CourseInv'
<1>1. ParentInv'
  BY DEF CourseInv, ParentInv
<1>2. failures' => faults' > 0
  BY DEF CourseInv
<1>3. QED
  BY <1>1, <1>2 DEF CourseInv

\* A step of a producer of a run that is up.
LEMMA CourseStep ==
    ASSUME CourseInv, ParentInv', run = "up", UNCHANGED <<run, failures, faults, crashes>>,
           \A p \in Prefix : by'[p] = "sync" => by[p] = "sync"
    PROVE  CourseInv'
BY DEF CourseInv, Ended

\* The process is gone.
LEMMA CourseVanish ==
    ASSUME CourseInv, Vanish, run' = "down", crashes' = crashes
    PROVE  CourseInv'
<1>1. ParentInv'
  BY ListingAssumption DEF Vanish, ParentInv, Listings, Active
<1>2. QED
  BY <1>1 DEF CourseInv, Vanish, Ended

\* Nothing waits at first.
LEMMA InitCourse == Init => CourseInv
<1> SUFFICES ASSUME Init PROVE CourseInv
  OBVIOUS
<1>1. ParentInv
  BY ListingAssumption DEF Init, ParentInv, Listings, Active
<1>2. QED
  BY <1>1 DEF Init, CourseInv, Ended

\* A fresh run is one Sync waits for; the others have nothing to wait for yet.
LEMMA StartCourse ==
    ASSUME IInv, CourseInv, Start
    PROVE  CourseInv'
<1> USE DEF Start, workVars, saveVars
<1>1. /\ spawned = {} /\ prod = [p \in Prefix |-> "none"] /\ Root \in Prefix
      /\ seen = [p \in Prefix |-> 0] /\ pos = [p \in Prefix |-> 0]
  BY ListingAssumption DEF IInv, DownInv
<1>2. \/ prod' = [prod EXCEPT ![Root] = "list"] /\ by' = [by EXCEPT ![Root] = "sync"]
      \/ prod' = prod /\ by' = by
  OBVIOUS
<1>3. by \in [Prefix -> {"none", "sync", "top", "parent"}]
  BY DEF IInv, TypeOK
<1>4. \A p \in Prefix : /\ prod'[p] = "none" \/ (p = Root /\ prod'[p] = "list" /\ by'[p] = "sync")
                        /\ by'[p] = "sync" => p = Root
  BY <1>1, <1>2, <1>3 DEF CourseInv
<1>5. by'[Root] # "parent"
  BY <1>1, <1>2, <1>3 DEF CourseInv, ParentInv
<1>6. ParentInv'
  BY <1>1, <1>4, <1>5 DEF ParentInv, Listings, Active
<1>7. QED
  BY <1>4, <1>6 DEF CourseInv, Ended

\* The producers Sync waits for have returned, the root among them, so all have.
LEMMA CloseTasksCourse ==
    ASSUME IInv, CourseInv, CloseTasks
    PROVE  CourseInv'
<1> USE DEF CloseTasks, mgrVars, prodVars, workVars, delVars, saveVars
<1>1. Root \in Prefix
  BY ListingAssumption
<1>2. prod[Root] \notin Active
  BY <1>1 DEF CourseInv, ParentInv, IInv, TypeOK, Active
<1>3. ASSUME NEW p \in Prefix, prod[p] \in Active PROVE FALSE
  <2>1. by[p] = "parent"
    BY <1>3 DEF CourseInv, ParentInv, IInv, TypeOK, Active
  <2>2. prod[Root] \in Listings \cup {"wait"}
    BY <1>3, <2>1 DEF CourseInv, ParentInv
  <2>3. QED
    BY <1>2, <2>2 DEF Active, Listings
<1>4. ParentInv'
  BY DEF CourseInv, ParentInv
<1>5. QED
  BY <1>3, <1>4 DEF CourseInv, Ended

\* The steps to the end of the process.
LEMMA EndCourse ==
    ASSUME IInv, IInv', CourseInv, WorkersDone \/ DropCheckpoint \/ DelayedDelete \/ ExitCompleted
    PROVE  CourseInv'
<1>1. /\ UNCHANGED <<toRestore, spawned, prod, by, seen, pos, crashes, saving>>
      /\ run' = run \/ (run \in Ended /\ run' \in Ended)
      /\ failures' => failures \/ faults' > faults
      /\ faults' = faults \/ faults' = faults + 1
      /\ run = "down" => FALSE
      /\ run' = "down" => FALSE
      /\ saving = "idle"
  BY DEF WorkersDone, DropCheckpoint, DelayedDelete, ExitCompleted, Ended, mgrVars, prodVars,
         workVars, delVars, saveVars, CourseInv, IInv, TypeOK
<1>2. faults \in Nat /\ faults' \in Nat
  BY DEF IInv, TypeOK
<1>3. QED
  BY <1>1, <1>2, CourseFrame

\* The steps of a save, and those of a worker.
LEMMA SaveCourse ==
    ASSUME IInv, IInv', CourseInv,
           SaveBegin \/ SaveStep \/ (\E w \in Worker : WorkerStep(w) \/ MarkFailed(w))
    PROVE  CourseInv'
<1>1. faults \in Nat /\ faults' \in Nat
  BY DEF IInv, TypeOK
<1>2. CASE SaveBegin
  BY <1>1, <1>2, CourseFrame DEF SaveBegin, mgrVars, prodVars, workVars, delVars, CourseInv
<1>3. CASE SavePrefix \/ SaveDelayLists
  <2>1. saving # "idle"
    BY <1>3 DEF SavePrefix, SaveDelayLists
  <2>2. run \in {"up", "closed"}
    BY <2>1 DEF CourseInv
  <2>3. QED
    BY <1>1, <1>3, <2>2, CourseFrame
       DEF SavePrefix, SaveDelayLists, mgrVars, prodVars, workVars, delVars
<1>4. CASE SaveWrite
  <2>1. run \in {"up", "closed"}
    BY <1>4 DEF CourseInv, SaveWrite
  <2>2. QED
    BY <1>1, <1>4, <2>1, CourseFrame DEF SaveWrite, mgrVars, prodVars, workVars, delVars
<1>5. ASSUME NEW w \in Worker, WorkerStep(w) \/ MarkFailed(w) PROVE CourseInv'
  <2>1. /\ UNCHANGED <<run, toRestore, spawned, prod, by, seen, pos, crashes, saving>>
        /\ failures' => failures \/ faults' = faults + 1
        /\ faults' = faults \/ faults' = faults + 1
    <3>1. CASE Fetch(w) \/ Copy(w)
      BY <3>1 DEF Fetch, Copy, prodVars, saveVars
    <3>2. CASE MarkCompleted(w)
      BY <3>2 DEF MarkCompleted, prodVars, saveVars
    <3>3. CASE MarkFailed(w)
      <4>1. UNCHANGED <<run, prodVars, crashes, saveVars>> /\ faults' = faults + 1
        BY <3>3 DEF MarkFailed
      <4>2. QED
        BY <4>1 DEF prodVars, saveVars
    <3>4. QED
      BY <1>5, <3>1, <3>2, <3>3 DEF WorkerStep
  <2>2. run = "down" => FALSE
    BY <1>5 DEF WorkerStep, Fetch, Copy, MarkCompleted, MarkFailed, IInv, DownInv
  <2>3. QED
    BY <1>1, <2>1, <2>2, CourseFrame DEF CourseInv
<1>6. QED
  BY <1>2, <1>3, <1>4, <1>5 DEF SaveStep

\* A listing that fails has no children; below Sync the run goes on.
LEMMA ListFailCourse ==
    ASSUME IInv, IInv', CourseInv, NEW p \in Prefix, ListFail(p)
    PROVE  CourseInv'
<1>1. CASE by[p] = "sync"
  BY <1>1, CourseVanish DEF ListFail
<1>2. CASE by[p] # "sync"
  <2>1. /\ prod[p] = "list" /\ prod'[p] = "error" /\ Children(p) = {}
        /\ \A q \in Prefix : q # p => prod'[q] = prod[q]
        /\ UNCHANGED <<run, toRestore, spawned, by, seen, pos, crashes>>
        /\ faults' = faults + 1
    BY <1>2 DEF ListFail, IInv, TypeOK
  <2>2. run = "up"
    BY <2>1, CourseRun DEF Active
  <2>3. p = Root => \A q \in Prefix : ~(q \in spawned \/ (by[q] = "parent" /\ prod[q] \in Active))
    BY <2>1 DEF CourseInv, ParentInv
  <2>4. ParentInv'
    <3>1. Root \in Prefix
      BY ListingAssumption
    <3>2. \A q \in Prefix : prod'[q] \in Listings => prod[q] \in Listings /\ prod'[q] = prod[q]
      BY <2>1 DEF Listings
    <3>3. \A q \in Prefix : /\ prod'[q] \in Active => prod[q] \in Active
                            /\ prod'[q] # "none" => prod[q] # "none"
      BY <2>1 DEF Active
    <3>4. QED
      BY <2>1, <2>3, <3>1, <3>2, <3>3 DEF CourseInv, ParentInv
  <2>5. faults' > 0
    BY <2>1 DEF IInv, TypeOK
  <2>6. QED
    BY <2>1, <2>2, <2>4, <2>5 DEF CourseInv, Ended
<1>3. QED
  BY <1>1, <1>2

\* What the listing finds is ahead of produce; a child is spawned below the root.
LEMMA ListNextCourse ==
    ASSUME IInv, CourseInv, NEW p \in Prefix, ListNext(p)
    PROVE  CourseInv'
<1> DEFINE e == Listing[p][seen[p] + 1]
<1>1. /\ prod[p] \in Listings /\ seen[p] \in Nat /\ seen[p] + 1 \in 1..Len(Listing[p])
      /\ seen' = [seen EXCEPT ![p] = @ + 1] /\ seen'[p] = seen[p] + 1
      /\ \A q \in Prefix : q # p => seen'[q] = seen[q]
  BY ListingFacts DEF ListNext, IInv, TypeOK, Listings
<1>2. /\ UNCHANGED <<run, toRestore, prod, by, pos, failures, crashes, faults>>
      /\ run = "up"
  BY <1>1, CourseRun DEF ListNext, Active, Listings
<1>3. spawned' \subseteq Children(Root) /\ (spawned' = spawned \/ p = Root)
  <2>1. \/ e \in Key /\ e \notin Prefix
        \/ e \in Children(Root) /\ p = Root
    BY <1>1, EntryFacts
  <2>2. spawned' = spawned \/ (e \in Prefix /\ spawned' = spawned \cup {e})
    BY DEF ListNext
  <2>3. QED
    BY <2>1, <2>2 DEF CourseInv, ParentInv
<1>4. ParentInv'
  <2>1. \A q \in Prefix : seen[q] \in Nat /\ pos[q] \in Nat /\ seen'[q] >= seen[q]
    BY <1>1 DEF IInv, TypeOK
  <2>2. \A q \in Prefix : /\ prod'[q] \in Listings => pos'[q] <= seen'[q]
                          /\ prod'[q] \in {"send", "append"} => pos'[q] < seen'[q]
    BY <1>1, <1>2, <2>1 DEF CourseInv, ParentInv
  <2>3. QED
    BY <1>1, <1>2, <1>3, <2>2 DEF CourseInv, ParentInv
<1>5. QED
  BY <1>2, <1>4, CourseStep

\* produce stays behind the listing.
LEMMA ProduceCourse ==
    ASSUME IInv, CourseInv, NEW p \in Prefix, Produce(p) \/ SendTask(p) \/ AppendSrcDelay(p)
    PROVE  CourseInv'
<1>1. /\ prod[p] \in Listings /\ pos[p] < seen[p] /\ pos[p] \in Nat /\ seen[p] \in Nat
  BY DEF Produce, SendTask, AppendSrcDelay, Listings, CourseInv, ParentInv, IInv, TypeOK
<1>2. /\ run = "up" /\ UNCHANGED <<run, failures, faults, crashes, spawned, by, seen, toRestore>>
  BY <1>1, CourseRun DEF Produce, SendTask, AppendSrcDelay, Active, Listings
<1>3. /\ \A q \in Prefix : q # p => prod'[q] = prod[q] /\ pos'[q] = pos[q]
      /\ prod'[p] \in Listings /\ pos'[p] <= seen[p]
      /\ prod'[p] \in {"send", "append"} => pos'[p] < seen[p]
  <2>1. CASE Produce(p)
    <3>1. prod[p] = "list" /\ \A q \in Prefix : q # p => prod'[q] = prod[q] /\ pos'[q] = pos[q]
      BY <2>1, ProduceFacts
    <3>2. \/ prod' = prod /\ pos'[p] = pos[p] + 1
          \/ \E n : RecordsEntry(p, n)
      BY <2>1, ProduceFacts
    <3>3. QED
      BY <1>1, <3>1, <3>2 DEF RecordsEntry, Listings
  <2>2. CASE SendTask(p) \/ AppendSrcDelay(p)
    <3>1. prod' = [prod EXCEPT ![p] = "list"] /\ pos' = [pos EXCEPT ![p] = @ + 1]
      BY <2>2 DEF SendTask, AppendSrcDelay
    <3>2. QED
      BY <1>1, <3>1 DEF IInv, TypeOK, Listings
  <2>3. QED
    BY <2>1, <2>2
<1>4. prod[p] # "none" /\ prod[p] \in Active
  BY <1>1 DEF Listings, Active
<1>5. ParentInv'
  BY <1>2, <1>3, <1>4, ParentStep DEF CourseInv
<1>6. QED
  BY <1>2, <1>5, CourseStep

\* A producer that is done with its listing waits for its children; the parent of one waits on.
LEMMA ReturnCourse ==
    ASSUME IInv, CourseInv, NEW p \in Prefix, MarkListDone(p) \/ ProducerDone(p)
    PROVE  CourseInv'
<1>1. /\ prod[p] \in {"list", "wait"} /\ prod'[p] \in {"wait", "done"}
      /\ \A q \in Prefix : q # p => prod'[q] = prod[q] /\ pos'[q] = pos[q]
      /\ UNCHANGED <<run, failures, faults, crashes, spawned, by, seen, toRestore>>
  BY DEF MarkListDone, ProducerDone, IInv, TypeOK
<1>2. run = "up"
  BY <1>1, CourseRun DEF Active
<1>3. ASSUME prod'[p] = "done", NEW q \in Prefix,
             q \in spawned \/ (by[q] = "parent" /\ prod[q] \in Active)
      PROVE  p # Root
  <2>1. q \in Children(Root)
    BY <1>3 DEF CourseInv, ParentInv
  <2>2. QED
    BY <1>1, <1>3, <2>1 DEF MarkListDone, ProducerDone, IInv, TypeOK
<1>4. ParentInv'
  <2>1. Root \in Prefix
    BY ListingAssumption
  <2>2. \A q \in Prefix : prod'[q] \in Listings =>
            prod[q] \in Listings /\ prod'[q] = prod[q] /\ pos'[q] = pos[q]
    BY <1>1 DEF Listings
  <2>3. \A q \in Prefix : /\ prod'[q] \in Active => prod[q] \in Active
                          /\ prod'[q] # "none" => prod[q] # "none"
    BY <1>1 DEF Active
  <2>4. ASSUME NEW q \in Prefix, q \in spawned' \/ (by'[q] = "parent" /\ prod'[q] \in Active)
        PROVE  q \in Children(Root) /\ prod'[Root] \in Listings \cup {"wait"}
    <3>1. q \in spawned \/ (by[q] = "parent" /\ prod[q] \in Active)
      BY <1>1, <2>3, <2>4
    <3>2. q \in Children(Root) /\ prod[Root] \in Listings \cup {"wait"}
      BY <3>1 DEF CourseInv, ParentInv
    <3>3. QED
      BY <1>1, <1>3, <2>1, <3>1, <3>2
  <2>5. QED
    BY <1>1, <2>2, <2>3, <2>4 DEF CourseInv, ParentInv
<1>5. QED
  BY <1>1, <1>2, <1>4, CourseStep

\* A producer that has queued its restored keys goes on listing, or is done.
LEMMA ResentCourse ==
    ASSUME IInv, CourseInv, NEW p \in Prefix, Resent(p)
    PROVE  CourseInv'
<1>1. /\ UNCHANGED <<run, toRestore, spawned, failures, faults, crashes>>
      /\ \A q \in Prefix : q # p => prod'[q] = prod[q] /\ seen'[q] = seen[q] /\ pos'[q] = pos[q]
      /\ \A q \in Prefix : by'[q] = by[q]
      /\ \/ prod[p] = "resend" /\ prod'[p] = "list" /\ seen'[p] = ps[p].last /\ pos'[p] = ps[p].last
         \/ prod[p] = "resendOnly" /\ prod'[p] = "done"
      /\ ps[p].last \in Nat
  BY DEF Resent, BeginList, IInv, TypeOK, PrefixState
<1>2. run = "up"
  BY <1>1, CourseRun DEF Active
<1>3. ParentInv'
  <2>1. prod[p] \notin Listings /\ prod[p] \in Active
    BY <1>1 DEF Listings, Active
  <2>2. /\ \A q \in Prefix : prod'[q] \in Listings => pos'[q] <= seen'[q]
        /\ \A q \in Prefix : prod'[q] \in {"send", "append"} => pos'[q] < seen'[q]
    BY <1>1 DEF CourseInv, ParentInv, Listings
  <2>3. \A q \in Prefix : /\ by'[q] = by[q]
                          /\ prod'[q] \in Active => prod[q] \in Active
                          /\ prod'[q] # "none" => prod[q] # "none"
                          /\ prod[q] \in Listings \cup {"wait"} => prod'[q] = prod[q]
    BY <1>1, <2>1 DEF Active
  <2>4. QED
    BY <1>1, <2>2, <2>3, ListingAssumption DEF CourseInv, ParentInv
<1>4. QED
  BY <1>1, <1>2, <1>3, CourseStep

\* A prefix begins: restored at the top, or below a root that is still at work.
LEMMA BeginCourse ==
    ASSUME IInv, CourseInv, NEW p \in Prefix,
           UNCHANGED <<run, failures, faults, crashes>>,
           \/ p \in toRestore /\ toRestore' = toRestore \ {p} /\ spawned' = spawned /\ by'[p] = "top"
           \/ p \in spawned /\ spawned' = spawned \ {p} /\ toRestore' = toRestore /\ by'[p] = "parent",
           \A q \in Prefix : q # p => prod'[q] = prod[q] /\ by'[q] = by[q]
                                      /\ seen'[q] = seen[q] /\ pos'[q] = pos[q],
           prod'[p] \in {"resend", "resendOnly", "list"},
           prod'[p] = "list" => pos'[p] <= seen'[p]
    PROVE  CourseInv'
<1>1. run = "up" /\ Root \in Prefix
  BY CourseRun, ListingAssumption
<1>2. p = Root => p \in toRestore /\ prod[Root] = "none" /\ by'[p] = "top"
  BY DEF IInv, SpawnInv
<1>3. /\ spawned' \subseteq spawned
      /\ \A q \in Prefix : /\ prod'[q] \in Listings => pos'[q] <= seen'[q]
                           /\ prod'[q] \in {"send", "append"} => pos'[q] < seen'[q]
                           /\ prod'[q] # "none" => by'[q] # "none"
      /\ by'[Root] # "parent"
  BY <1>1, <1>2 DEF CourseInv, ParentInv, Listings
<1>4. ASSUME NEW q \in Prefix, q \in spawned' \/ (by'[q] = "parent" /\ prod'[q] \in Active)
      PROVE  q \in Children(Root) /\ prod'[Root] \in Listings \cup {"wait"}
  <2>1. q \in spawned \/ (by[q] = "parent" /\ prod[q] \in Active)
    BY <1>3, <1>4
  <2>2. q \in Children(Root) /\ prod[Root] \in Listings \cup {"wait"}
    BY <2>1 DEF CourseInv, ParentInv
  <2>3. p # Root
    BY <1>2, <2>2 DEF Listings
  <2>4. QED
    BY <1>1, <2>2, <2>3
<1>5. ParentInv'
  BY <1>3, <1>4 DEF CourseInv, ParentInv
<1>6. QED
  BY <1>1, <1>5, CourseStep

\* The goroutines that restore, spawned ones among them.
LEMMA RestoreCourse ==
    ASSUME IInv, CourseInv, NEW p \in Prefix, RestoreTop(p) \/ RestoreChild(p)
    PROVE  CourseInv'
<1>1. /\ UNCHANGED <<run, failures, faults, crashes>> /\ run = "up"
      /\ \/ p \in toRestore /\ toRestore' = toRestore \ {p} /\ spawned' = spawned
         \/ p \in spawned /\ spawned' = spawned \ {p} /\ toRestore' = toRestore
  BY CourseRun DEF RestoreTop, RestoreChild
<1>2. ASSUME NEW who \in {"top", "parent"}, Restorable(p), RestorePrefix(p, who),
             who = "top" => RestoreTop(p), who = "parent" => RestoreChild(p)
      PROVE  CourseInv'
  <2>1. /\ \A q \in Prefix : q # p => prod'[q] = prod[q]
        /\ prod'[p] \in {"resend", "resendOnly"}
    BY <1>2, RestoreFacts
  <2>2. /\ pos' = pos /\ seen' = seen
        /\ by'[p] = who /\ \A q \in Prefix : q # p => by'[q] = by[q]
    BY <1>2 DEF RestorePrefix, IInv, TypeOK
  <2>3. \/ p \in toRestore /\ toRestore' = toRestore \ {p} /\ spawned' = spawned /\ by'[p] = "top"
        \/ p \in spawned /\ spawned' = spawned \ {p} /\ toRestore' = toRestore /\ by'[p] = "parent"
    BY <1>2, <2>2 DEF RestoreTop, RestoreChild
  <2>4. QED
    BY <1>1, <2>1, <2>2, <2>3, BeginCourse
<1>3. CASE UNCHANGED <<mgrVars, prod, by, seen, pos, resend>>
  <2>1. ParentInv'
    BY <1>1, <1>3 DEF CourseInv, ParentInv
  <2>2. QED
    BY <1>1, <1>3, <2>1, CourseStep
<1>4. CASE RestoreChild(p) /\ BeginList(p, "parent")
  <2>1. /\ prod'[p] = "list" /\ seen'[p] = ps[p].last /\ pos'[p] = ps[p].last
        /\ by'[p] = "parent" /\ ps[p].last \in Nat
        /\ \A q \in Prefix : q # p => prod'[q] = prod[q] /\ seen'[q] = seen[q]
                                      /\ pos'[q] = pos[q] /\ by'[q] = by[q]
    BY <1>4 DEF BeginList, IInv, TypeOK, PrefixState
  <2>2. p \in spawned /\ spawned' = spawned \ {p} /\ toRestore' = toRestore
    BY <1>4 DEF RestoreChild
  <2>3. QED
    BY <1>1, <2>1, <2>2, BeginCourse
<1>5. QED
  BY <1>2, <1>3, <1>4 DEF RestoreTop, RestoreChild

\* Every step keeps CourseInv while nothing crashes.
LEMMA NextCourse ==
    ASSUME MaxCrashes = 0, IInv, IInv', CourseInv, [Next]_vars
    PROVE  CourseInv'
<1>1. CASE Over \/ UNCHANGED vars
  <2>1. UNCHANGED vars
    BY <1>1 DEF Over
  <2>2. QED
    BY <2>1, CourseFrame DEF vars, CourseInv, IInv, TypeOK
<1>2. CASE Start
  BY <1>2, StartCourse
<1>3. CASE EndStep
  <2>1. CASE ExitFailed
    BY <2>1, CourseVanish DEF ExitFailed
  <2>2. QED
    BY <1>3, <2>1, CloseTasksCourse, EndCourse DEF EndStep
<1>4. CASE SaveBegin \/ SaveStep
  BY <1>4, SaveCourse
<1>5. CASE Fault
  <2>1. ~Crash
    BY DEF Crash, IInv, TypeOK, CourseInv
  <2>2. QED
    BY <1>5, <2>1, ListFailCourse, SaveCourse DEF Fault
<1>6. ASSUME NEW p \in Prefix, ProducerStep(p) \/ ReapPrefix(p) PROVE CourseInv'
  <2>1. CASE Resend(p) \/ ReapPrefix(p)
    <3>1. UNCHANGED <<run, toRestore, spawned, prod, by, seen, pos, crashes, saving, failures, faults>>
      BY <2>1 DEF Resend, ReapPrefix, prodVars, saveVars
    <3>2. QED
      BY <3>1, CourseFrame DEF CourseInv, IInv, TypeOK
  <2>2. QED
    BY <1>6, <2>1, RestoreCourse, ResentCourse, ListNextCourse, ProduceCourse, ReturnCourse
       DEF ProducerStep
<1>7. ASSUME NEW w \in Worker, WorkerStep(w) PROVE CourseInv'
  BY <1>7, SaveCourse
<1>8. QED
  BY <1>1, <1>2, <1>3, <1>4, <1>5, <1>6, <1>7 DEF Next

-----------------------------------------------------------------------------
(* Whatever is left is led to.                                             *)

\* Where a key is listed.
LEMMA KeyPlace ==
    ASSUME NEW k \in Key
    PROVE  /\ Owner(k) \in Prefix /\ Place(k) \in Nat /\ Place(k) > 0
           /\ Len(Listing[Owner(k)]) \in Nat /\ Place(k) <= Len(Listing[Owner(k)])
BY PlaceFacts, ListingFacts

\* A step that does not make the last fault leaves a sound run sound.
LEMMA SoundKept ==
    ASSUME NeverCut, IInv, IInv', failures' => failures \/ faults' = faults + 1,
           faults' = faults \/ (faults' = faults + 1 /\ faults < MaxFaults),
           Sound'
    PROVE  Sound
<1>1. faults \in Nat /\ faults' \in Nat
  BY DEF IInv, TypeOK
<1>2. ToTheEnd \/ MaxFaults <= 1
  BY DEF NeverCut, ToTheEnd
<1>3. MaxFaults \in Nat
  BY ListingAssumption
<1>4. QED
  BY <1>1, <1>2, <1>3 DEF Sound, ToTheEnd

\* A child that is coming up is not being listed.
LEMMA ComingFacts ==
    ASSUME IInv, NEW p \in Prefix, ComingUp(p)
    PROVE  /\ p # Root /\ p \notin spawned /\ prod[p] \notin Listings /\ ~ps[p].present
           /\ Place(p) \in Nat /\ Place(p) \in 1..Len(Listing[Root]) /\ Listing[Root][Place(p)] = p
           /\ seen[Root] < Place(p)
<1>1. /\ p \in Children(Root) /\ ~ps[p].present /\ Root \in Prefix
  BY ListingAssumption DEF ComingUp
<1>2. /\ p # Root /\ Place(p) \in Nat /\ Place(p) \in 1..Len(Listing[Root])
      /\ Listing[Root][Place(p)] = p
  BY <1>1, ChildPlace
<1>3. seen[Root] < Place(p)
  <2>1. CASE Restores(Root) \/ prod[Root] = "resend"
    <3>1. seen[Root] = 0
      BY <2>1 DEF Restores, IInv, SpawnInv
    <3>2. QED
      BY <1>2, <3>1
  <2>2. QED
    BY <2>1 DEF ComingUp
<1>4. DOMAIN Listing[Root] = 1..Len(Listing[Root])
  BY <1>1, ListingFacts
<1>5. p \notin spawned /\ (prod[p] \in Relying => ps[p].present)
  BY <1>1, <1>2, <1>3, <1>4 DEF IInv, SpawnInv
<1>6. QED
  BY <1>1, <1>2, <1>3, <1>5 DEF Relying, Listings

\* A key stays settled that is delayed, handled or in its state.
LEMMA SettledKept ==
    ASSUME NEW k \in Key, Settled(k), done \subseteq done',
           srcDelay \subseteq srcDelay', dstDelay \subseteq dstDelay',
           k \in ps[Owner(k)].pending \cup ps[Owner(k)].failed =>
               k \in done' \/ k \in ps'[Owner(k)].pending \cup ps'[Owner(k)].failed
    PROVE  (Settled(k))'
BY DEF Settled, Delayed, Accounted

\* A step that moves no producer and no state but by its keys.
LEMMA WorkFrame ==
    ASSUME IInv, WorkInv, run # "down", Sound' => Sound, done \subseteq done',
           srcDelay \subseteq srcDelay', dstDelay \subseteq dstDelay',
           UNCHANGED <<restored, toRestore, prod, by, seen, pos>>,
           \A p \in Prefix : Same(p),
           \A k \in Key : k \in ps[Owner(k)].pending \cup ps[Owner(k)].failed =>
               k \in done' \/ k \in ps'[Owner(k)].pending \cup ps'[Owner(k)].failed
    PROVE  WorkInv'
<1> SUFFICES ASSUME Sound', NEW k \in Key PROVE (Settled(k) \/ Ahead(k))'
  BY DEF WorkInv
<1>1. Settled(k) \/ Ahead(k)
  BY DEF WorkInv
<1>2. CASE Settled(k)
  BY <1>2, SettledKept
<1>3. CASE Ahead(k)
  <2> DEFINE p == Owner(k)
  <2>1. p \in Prefix /\ Root \in Prefix
    BY KeyPlace, ListingAssumption
  <2>2. Same(p) /\ Same(Root)
    BY <2>1
  <2>3. ComingUp(p) => (ComingUp(p))'
    BY <2>2 DEF ComingUp, Later, Restores, Same
  <2>4. QED
    BY <1>3, <2>2, <2>3 DEF Ahead, Same
<1>4. QED
  BY <1>1, <1>2, <1>3

\* A step of the producer of one prefix.
LEMMA WorkStep ==
    ASSUME IInv, WorkInv, run # "down", Sound' => Sound, done \subseteq done',
           srcDelay \subseteq srcDelay', dstDelay \subseteq dstDelay', NEW p \in Prefix,
           \A q \in Prefix : q # p =>
               ps'[q] = ps[q] /\ prod'[q] = prod[q] /\ by'[q] = by[q] /\ pos'[q] = pos[q],
           \A q \in Prefix : q # p /\ ComingUp(q) => (ComingUp(q))',
           \A k \in Key : Owner(k) = p /\ (Settled(k) \/ Ahead(k)) => (Settled(k) \/ Ahead(k))'
    PROVE  WorkInv'
<1> SUFFICES ASSUME Sound', NEW k \in Key PROVE (Settled(k) \/ Ahead(k))'
  BY DEF WorkInv
<1>1. Settled(k) \/ Ahead(k)
  BY DEF WorkInv
<1>2. CASE Owner(k) = p
  BY <1>1, <1>2
<1>3. CASE Owner(k) # p
  <2>1. Owner(k) \in Prefix
    BY KeyPlace
  <2>2. /\ ps'[Owner(k)] = ps[Owner(k)] /\ prod'[Owner(k)] = prod[Owner(k)]
        /\ by'[Owner(k)] = by[Owner(k)] /\ pos'[Owner(k)] = pos[Owner(k)]
    BY <1>3, <2>1
  <2>3. Settled(k) => (Settled(k))'
    BY <2>2, SettledKept
  <2>4. Ahead(k) => (Ahead(k))'
    BY <1>3, <2>1, <2>2 DEF Ahead
  <2>5. QED
    BY <1>1, <2>3, <2>4
<1>4. QED
  BY <1>2, <1>3

\* A child comes up as long as the root and its listing stay where they are.
LEMMA ComingKept ==
    ASSUME IInv, NEW q \in Prefix, ComingUp(q), NEW p \in Prefix, p # Root, p # q,
           \A r \in Prefix : r # p => ps'[r] = ps[r] /\ prod'[r] = prod[r] /\ seen'[r] = seen[r],
           restored' \subseteq restored \cup {p}, toRestore \ {p} \subseteq toRestore'
    PROVE  (ComingUp(q))'
<1>1. Root \in Prefix /\ q # Root
  BY ListingAssumption, ComingFacts
<1>2. /\ ps'[q] = ps[q] /\ ps'[Root] = ps[Root] /\ prod'[Root] = prod[Root]
      /\ seen'[Root] = seen[Root]
  BY <1>1
<1>3. Restores(Root) => (Restores(Root))'
  BY <1>1, <1>2 DEF Restores
<1>4. QED
  BY <1>2, <1>3 DEF ComingUp, Later

\* Before the first run: its file leads to what is not handled.
LEMMA InitExit == NeverCut /\ Init => ExitInv
<1> SUFFICES ASSUME NeverCut, Init PROVE ExitInv
  OBVIOUS
<1>1. CourseInv
  BY InitCourse
<1>2. WorkInv
  BY DEF WorkInv, Init
<1>3. ASSUME NEW k \in Key, Ignored(disk, k)
      PROVE  k \in done \/ (~disk.state[Owner(k)].present /\ Later(disk.state, Owner(k)))
  <2>1. disk = FirstCheckpoint /\ Owner(k) \in Prefix
    BY KeyPlace DEF Init
  <2>2. disk.state[Owner(k)].present \/ Later(disk.state, Owner(k))
    BY <1>3, <2>1 DEF NeverCut, Ignored
  <2>3. disk.state[Owner(k)].present => Passed(disk.state[Owner(k)], k)
    BY <1>3 DEF Ignored
  <2>4. done = {j \in Key : Passed(FirstCheckpoint.state[Owner(j)], j)}
    BY DEF Init
  <2>5. QED
    BY <2>1, <2>2, <2>3, <2>4
<1>4. QED
  BY <1>1, <1>2, <1>3 DEF ExitInv, DiskInv

\* The file leads the run that starts with it.
LEMMA StartWork ==
    ASSUME NeverCut, IInv, HandInv, ExitInv, Start
    PROVE  WorkInv'
<1> USE DEF Start, workVars, saveVars
<1> SUFFICES ASSUME Sound', NEW k \in Key PROVE (Settled(k) \/ Ahead(k))'
  BY DEF WorkInv
<1> DEFINE p == Owner(k)
<1>1. /\ restored = {} /\ toRestore = {} /\ prod = [q \in Prefix |-> "none"] /\ Root \in Prefix
      /\ seen = [q \in Prefix |-> 0] /\ pos = [q \in Prefix |-> 0]
      /\ p \in Prefix /\ Place(k) \in Nat /\ Place(k) > 0
  BY KeyPlace, ListingAssumption DEF IInv, DownInv, HandInv, EmptyInv
<1>2. /\ ps' = disk.state /\ WellFormed(p, ps'[p]) /\ ps'[p] \in PrefixState
      /\ \A q \in Prefix : ~ps'[q].isNew /\ ps'[q].present \in BOOLEAN
  BY <1>1 DEF IInv, StatesInv, FileState, TypeOK, Snapshot, PrefixState
<1>3. CASE Loadable(disk)
  <2>1. /\ toRestore' = {q \in Prefix : disk.state[q].present} /\ prod' = prod
        /\ srcDelay' = disk.srcDelay /\ dstDelay' = disk.dstDelay /\ restored' = {}
        /\ done' = done
    BY <1>1, <1>3
  <2>2. Ignored(disk, k) => k \in done \/ (~disk.state[p].present /\ Later(disk.state, p))
    BY DEF ExitInv, DiskInv, Sound, CourseInv, ToTheEnd
  <2>3. CASE ~Ignored(disk, k) \/ k \in done
    <3>1. CASE k \in done \/ k \in disk.srcDelay \cup disk.dstDelay
      BY <2>1, <3>1 DEF Settled, Delayed, Accounted
    <3>2. CASE ps'[p].present /\ ~Passed(ps'[p], k)
      <4>1. \/ k \in ps'[p].pending \/ k \in ps'[p].failed
            \/ ~ps'[p].listDone /\ ~(Place(k) <= ps'[p].last)
        BY <3>2 DEF Passed
      <4>2. ps'[p].last \in Nat
        BY <1>2 DEF PrefixState
      <4>3. prod'[p] = "none"
        BY <1>1, <2>1
      <4>4. QED
        BY <1>1, <3>2, <4>1, <4>2, <4>3 DEF Settled, Accounted, Ahead, Listings
    <3>3. QED
      BY <1>2, <1>3, <2>3, <3>1, <3>2 DEF Ignored
  <2>4. CASE Later(disk.state, p) /\ ~ps'[p].present
    <3>1. (Restores(Root))'
      BY <1>1, <1>2, <2>1, <2>4 DEF Restores, Later
    <3>2. (ComingUp(p))'
      BY <1>2, <2>4, <3>1 DEF ComingUp, Later
    <3>3. QED
      BY <3>2 DEF Ahead
  <2>5. QED
    BY <1>2, <2>2, <2>3, <2>4
<1>4. CASE ~Loadable(disk)
  <2>1. /\ \A q \in Prefix : ~ps'[q].present
        /\ prod'[Root] = "list" /\ by'[Root] = "sync" /\ seen'[Root] = 0 /\ pos'[Root] = 0
    BY <1>1, <1>2, <1>4 DEF Loadable, IInv, StatesInv, FileState, TypeOK
  <2>2. CASE p = Root
    BY <1>1, <2>1, <2>2 DEF Ahead, Listings
  <2>3. CASE p # Root
    <3>1. p \in Children(Root)
      BY <1>1, <2>3 DEF NeverCut
    <3>2. Place(p) \in Nat /\ Place(p) > 0
      BY <3>1, ChildPlace
    <3>3. (ComingUp(p))'
      BY <1>1, <2>1, <3>1, <3>2 DEF ComingUp, Listings
    <3>4. QED
      BY <3>3 DEF Ahead
  <2>4. QED
    BY <2>2, <2>3
<1>5. QED
  BY <1>3, <1>4

\* Steps that move no producer and touch no state keep what is left led to.
LEMMA QuietWork ==
    ASSUME NeverCut, IInv, IInv', WorkInv, run # "down", done \subseteq done',
           UNCHANGED <<ps, restored, toRestore, prod, by, seen, pos, srcDelay, dstDelay>>,
           failures' => failures \/ faults' = faults + 1,
           faults' = faults \/ (faults' = faults + 1 /\ faults < MaxFaults)
    PROVE  WorkInv'
<1>1. Sound' => Sound
  BY SoundKept
<1>2. \A p \in Prefix : Same(p)
  BY DEF Same
<1>3. QED
  BY <1>1, <1>2, WorkFrame

\* The steps of the end of a run, of a save, of the channel and of a copy are of that kind.
LEMMA FrameWork ==
    ASSUME NeverCut, IInv, IInv', CourseInv, WorkInv,
           \/ CloseTasks \/ WorkersDone \/ DropCheckpoint \/ DelayedDelete \/ ExitCompleted
           \/ SaveBegin \/ SaveStep
           \/ \E p \in Prefix : Resend(p)
           \/ \E w \in Worker : Fetch(w) \/ Copy(w)
    PROVE  WorkInv'
<1>1. CASE CloseTasks \/ WorkersDone \/ DropCheckpoint \/ ExitCompleted
  BY <1>1, QuietWork
     DEF CloseTasks, WorkersDone, DropCheckpoint, ExitCompleted, mgrVars, prodVars, delVars
<1>2. CASE DelayedDelete
  <2>1. /\ run # "down" /\ done \subseteq done'
        /\ UNCHANGED <<ps, restored, toRestore, prod, by, seen, pos, srcDelay, dstDelay>>
        /\ failures' => failures \/ faults' = faults + 1
        /\ faults' = faults \/ (faults' = faults + 1 /\ faults < MaxFaults)
    BY <1>2 DEF DelayedDelete, mgrVars, prodVars
  <2>2. QED
    BY <2>1, QuietWork
<1>3. CASE SaveBegin \/ SaveStep
  <2>1. run # "down"
    BY <1>3 DEF SaveBegin, SaveStep, SavePrefix, SaveDelayLists, SaveWrite, CourseInv
  <2>2. /\ UNCHANGED <<ps, restored, toRestore, prod, by, seen, pos, srcDelay, dstDelay,
                       done, failures>>
        /\ faults' = faults \/ (faults' = faults + 1 /\ faults < MaxFaults)
    <3>1. CASE SaveBegin
      BY <3>1 DEF SaveBegin, mgrVars, prodVars, delVars
    <3>2. CASE SavePrefix
      BY <3>2 DEF SavePrefix, mgrVars, prodVars, delVars
    <3>3. CASE SaveDelayLists
      BY <3>3 DEF SaveDelayLists, mgrVars, prodVars, delVars
    <3>4. CASE SaveWrite
      BY <3>4 DEF SaveWrite, mgrVars, prodVars, delVars
    <3>5. QED
      BY <1>3, <3>1, <3>2, <3>3, <3>4 DEF SaveStep
  <2>3. QED
    BY <2>1, <2>2, QuietWork
<1>4. ASSUME NEW p \in Prefix, Resend(p) PROVE WorkInv'
  BY <1>4, QuietWork DEF Resend, mgrVars, delVars
<1>5. ASSUME NEW w \in Worker, Fetch(w) \/ Copy(w) PROVE WorkInv'
  <2>1. run # "down"
    BY <1>5 DEF Fetch, Copy, IInv, DownInv
  <2>2. QED
    BY <1>5, <2>1, QuietWork DEF Fetch, Copy, mgrVars, prodVars, delVars
<1>6. QED
  BY <1>1, <1>2, <1>3, <1>4, <1>5

\* A worker lets go of a key that is handled, or leaves it in its state.
LEMMA ReleaseWork ==
    ASSUME NeverCut, IInv, IInv', HandInv, WorkInv,
           NEW w \in Worker, MarkCompleted(w) \/ MarkFailed(w)
    PROVE  WorkInv'
<1> DEFINE k == held[w]
<1> DEFINE p == Owner(k)
<1>1. /\ run # "down" /\ done' = done
      /\ UNCHANGED <<restored, toRestore, prod, by, seen, pos, srcDelay, dstDelay>>
      /\ failures' => failures \/ faults' = faults + 1
      /\ faults' = faults \/ (faults' = faults + 1 /\ faults < MaxFaults)
  BY DEF MarkCompleted, MarkFailed, prodVars, delVars, IInv, DownInv
<1>2. Sound' => Sound
  BY <1>1, SoundKept
<1>3. \A q \in Prefix : Same(q)
  BY ReleaseFacts
<1>4. ASSUME NEW j \in Key, j \in ps[Owner(j)].pending \cup ps[Owner(j)].failed
      PROVE  j \in done' \/ j \in ps'[Owner(j)].pending \cup ps'[Owner(j)].failed
  <2>1. Owner(j) \in Prefix
    BY KeyPlace
  <2>2. CASE k \notin tracked
    BY <1>4, <2>2 DEF MarkCompleted, MarkFailed
  <2>3. CASE k \in tracked
    <3>1. /\ k \in Key /\ p \in Prefix /\ ps[p].present /\ ps[p] \in PrefixState
          /\ GetOrCreate(p) = ps[p]
      BY <2>3, TrackedFacts DEF IInv, TypeOK, GetOrCreate
    <3>2. \A q \in Prefix : q # p => ps'[q] = ps[q]
      BY <2>3, <3>1 DEF MarkCompleted, MarkFailed, UpdateState, IInv, TypeOK
    <3>3. \/ ps'[p] = [ps[p] EXCEPT !.pending = @ \ {k}, !.failed = @ \ {k}] /\ k \in done
          \/ ps'[p] = [ps[p] EXCEPT !.pending = @ \ {k}, !.failed = @ \cup {k}]
          \/ ps'[p] = ps[p]
      BY <2>3, <3>1 DEF MarkCompleted, MarkFailed, UpdateState, IInv, TypeOK, WorkerInv
    <3> HIDE DEF k, p
    <3>4. \/ k \in done /\ ps'[p].pending = ps[p].pending \ {k} /\ ps'[p].failed = ps[p].failed \ {k}
          \/ ps'[p].pending = ps[p].pending \ {k} /\ ps'[p].failed = ps[p].failed \cup {k}
          \/ ps'[p] = ps[p]
      BY <3>1, <3>3 DEF PrefixState
    <3>5. CASE Owner(j) = p
      BY <1>1, <1>4, <3>4, <3>5
    <3>6. CASE Owner(j) # p
      BY <1>4, <2>1, <3>2, <3>6
    <3>7. QED
      BY <3>5, <3>6
  <2>4. QED
    BY <2>2, <2>3
<1>5. QED
  BY <1>1, <1>2, <1>3, <1>4, WorkFrame

\* A child still comes up after a step of a producer of another prefix than the root,
\* and after one of the root that goes on behind its listing.
LEMMA ListingComing ==
    ASSUME IInv, NEW p \in Prefix, prod[p] \in Listings, prod'[p] \in Listings,
           \A q \in Prefix : q # p => ps'[q] = ps[q] /\ prod'[q] = prod[q],
           UNCHANGED <<seen, restored, toRestore>>
    PROVE  \A q \in Prefix : q # p /\ ComingUp(q) => (ComingUp(q))'
<1> SUFFICES ASSUME NEW q \in Prefix, q # p, ComingUp(q) PROVE (ComingUp(q))'
  OBVIOUS
<1>1. CASE p # Root
  BY <1>1, ComingKept
<1>2. CASE p = Root
  <2>1. ~Restores(Root) /\ prod[Root] # "resend"
    BY <1>2 DEF Restores, IInv, SpawnInv, Listings
  <2>2. QED
    BY <1>2, <2>1 DEF ComingUp
<1>3. QED
  BY <1>1, <1>2

\* produce accounts for the entry it takes, and the entries behind it are ahead as they were.
LEMMA ProduceWork ==
    ASSUME IInv, WorkInv, NEW p \in Prefix, Produce(p)
    PROVE  WorkInv'
<1> DEFINE e == Listing[p][pos[p] + 1]
<1>1. /\ prod[p] = "list" /\ pos[p] < seen[p] /\ pos[p] \in Nat
      /\ pos[p] + 1 \in 1..Len(Listing[p])
  BY ListingFacts DEF Produce, IInv, TypeOK, ProducerInv
<1>2. /\ UNCHANGED <<run, restored, toRestore, by, seen, srcDelay, failures, faults>>
      /\ done \subseteq done' /\ dstDelay \subseteq dstDelay' /\ run # "down"
      /\ \A q \in Prefix : q # p => ps'[q] = ps[q] /\ prod'[q] = prod[q] /\ pos'[q] = pos[q]
  <2>1. UNCHANGED faults /\ done \subseteq done' /\ dstDelay \subseteq dstDelay'
    BY DEF Produce
  <2>2. run # "down"
    BY <1>1 DEF IInv, DownInv
  <2>3. QED
    BY <2>1, <2>2, ProduceFacts
<1>3. prod'[p] \in Listings
  BY <1>1, ProduceFacts DEF RecordsEntry, Listings
<1>4. ASSUME NEW k \in Key, Owner(k) = p, Settled(k) \/ Ahead(k)
      PROVE  (Settled(k) \/ Ahead(k))'
  <2>1. Place(k) \in Nat /\ (Place(k) = pos[p] + 1 => k = e)
    BY <1>1, <1>4, PlaceFacts, KeyPlace
  <2>2. e \in Key => e \notin Prefix
    BY ListingAssumption
  <2>3. CASE Settled(k)
    <3>1. ps[p].pending \subseteq ps'[p].pending /\ ps[p].failed \subseteq ps'[p].failed
      BY ProduceFacts DEF RecordsEntry
    <3>2. QED
      BY <1>2, <1>4, <2>3, <3>1, SettledKept
  <2>4. CASE Ahead(k)
    <3>1. pos[p] < Place(k) /\ (ps[p].present \/ (p = Root /\ by[Root] = "sync"))
      BY <1>1, <1>4, <2>4, ComingFacts DEF Ahead, Listings
    <3>2. CASE ps' = ps /\ pos'[p] = pos[p] + 1 /\ e \in Prefix
      <4>1. pos'[p] < Place(k)
        BY <1>1, <2>1, <2>2, <3>1, <3>2
      <4>2. QED
        BY <1>2, <1>3, <1>4, <3>1, <3>2, <4>1 DEF Ahead
    <3>3. CASE ps' = ps /\ pos'[p] = pos[p] + 1 /\ e \in Key /\ Kind[e] = "dstdir"
      <4>1. CASE k = e
        <5>1. k \in dstDelay'
          BY <2>2, <3>3, <4>1 DEF Produce
        <5>2. QED
          BY <5>1 DEF Settled, Delayed
      <4>2. CASE k # e
        <5>1. pos'[p] < Place(k)
          BY <1>1, <2>1, <3>1, <3>3, <4>2
        <5>2. QED
          BY <1>2, <1>3, <1>4, <3>1, <3>3, <5>1 DEF Ahead
      <4>3. QED
        BY <4>1, <4>2
    <3>4. ASSUME NEW n, RecordsEntry(p, n) PROVE (Settled(k) \/ Ahead(k))'
      <4>1. CASE k # e \/ prod'[p] = "append"
        <5>1. pos'[p] < Place(k) /\ ps'[p].present
          BY <1>1, <2>1, <3>1, <3>4, <4>1 DEF RecordsEntry
        <5>2. QED
          BY <1>3, <1>4, <5>1 DEF Ahead
      <4>2. CASE k = e /\ prod'[p] # "append"
        <5>1. k \in ps'[p].pending \/ k \in done'
          BY <3>4, <4>2 DEF RecordsEntry
        <5>2. QED
          BY <1>4, <5>1 DEF Settled, Accounted
      <4>3. QED
        BY <4>1, <4>2
    <3>5. QED
      BY <3>2, <3>3, <3>4, ProduceFacts
  <2>5. QED
    BY <1>4, <2>3, <2>4
<1>5. Sound' => Sound
  BY <1>2 DEF Sound
<1>6. \A q \in Prefix : q # p /\ ComingUp(q) => (ComingUp(q))'
  BY <1>1, <1>2, <1>3, ListingComing DEF Listings
<1>7. QED
  BY <1>2, <1>4, <1>5, <1>6, WorkStep

\* Another producer or the root does not move: whoever comes up still does.
LEMMA OtherComing ==
    ASSUME IInv, NEW p \in Prefix,
           restored' \subseteq restored \cup {p}, toRestore \ {p} \subseteq toRestore',
           \A q \in Prefix : q # p => ps'[q] = ps[q] /\ prod'[q] = prod[q] /\ seen'[q] = seen[q],
           p = Root => \A q \in Prefix : q # p /\ ComingUp(q) => (ComingUp(q))'
    PROVE  \A q \in Prefix : q # p /\ ComingUp(q) => (ComingUp(q))'
BY ComingKept

\* The entry that is sent is pending, the directory to delete is in the list of delayed deletes.
LEMMA SendWork ==
    ASSUME IInv, WorkInv, NEW p \in Prefix, SendTask(p) \/ AppendSrcDelay(p)
    PROVE  WorkInv'
<1> DEFINE e == Listing[p][pos[p] + 1]
<1>1. /\ prod[p] \in {"send", "append"} /\ pos[p] \in Nat /\ pos[p] + 1 \in 1..Len(Listing[p])
      /\ prod'[p] = "list" /\ pos'[p] = pos[p] + 1 /\ ps' = ps
      /\ \A q \in Prefix : q # p => ps'[q] = ps[q] /\ prod'[q] = prod[q] /\ pos'[q] = pos[q]
      /\ UNCHANGED <<restored, toRestore, by, seen, done, failures, faults>>
      /\ srcDelay \subseteq srcDelay' /\ dstDelay \subseteq dstDelay'
  BY ListingFacts DEF SendTask, AppendSrcDelay, IInv, TypeOK, ProducerInv, mgrVars, delVars
<1>2. run # "down" /\ e \in Key
  BY <1>1 DEF IInv, DownInv, ProducerInv
<1>3. Accounted(ps[p], e) \/ e \in srcDelay'
  BY <1>2 DEF SendTask, AppendSrcDelay, IInv, ProducerInv
<1>4. ASSUME NEW k \in Key, Owner(k) = p, Settled(k) \/ Ahead(k)
      PROVE  (Settled(k) \/ Ahead(k))'
  <2>1. Place(k) \in Nat /\ (Place(k) = pos[p] + 1 => k = e)
    BY <1>1, <1>4, PlaceFacts, KeyPlace
  <2>2. CASE Settled(k)
    BY <1>1, <2>2, SettledKept
  <2>3. CASE k = e
    BY <1>1, <1>3, <1>4, <2>3 DEF Settled, Delayed, Accounted
  <2>4. CASE k # e /\ Ahead(k)
    <3>1. pos[p] < Place(k) /\ (ps[p].present \/ (p = Root /\ by[Root] = "sync"))
      BY <1>1, <1>4, <2>4, ComingFacts DEF Ahead, Listings
    <3>2. pos'[p] < Place(k)
      BY <1>1, <2>1, <2>4, <3>1
    <3>3. QED
      BY <1>1, <1>4, <3>1, <3>2 DEF Ahead, Listings
  <2>5. QED
    BY <1>4, <2>2, <2>3, <2>4
<1>5. Sound' => Sound
  BY <1>1 DEF Sound
<1>6. \A q \in Prefix : q # p /\ ComingUp(q) => (ComingUp(q))'
  BY <1>1, ListingComing DEF Listings
<1>7. QED
  BY <1>1, <1>2, <1>4, <1>5, <1>6, WorkStep

\* A listing that is done, is given up or is forgotten leaves nothing ahead.
LEMMA ReturnWork ==
    ASSUME IInv, CourseInv, WorkInv, NEW p \in Prefix, MarkListDone(p) \/ ProducerDone(p)
    PROVE  WorkInv'
<1>1. /\ prod[p] \in {"list", "wait"} /\ prod'[p] \in {"wait", "done"} /\ Root \in Prefix
      /\ \A q \in Prefix : q # p => ps'[q] = ps[q] /\ prod'[q] = prod[q]
      /\ UNCHANGED <<restored, toRestore, by, seen, pos, done, failures, faults, srcDelay, dstDelay>>
  BY ListingAssumption
     DEF MarkListDone, ProducerDone, IInv, TypeOK, UpdateState, mgrVars, delVars
<1>2. run # "down"
  BY <1>1 DEF IInv, DownInv
<1>3. /\ prod[p] = "wait" => ps' = ps
      /\ prod[p] = "list" => pos[p] = Len(Listing[p])
      /\ ps'[p].pending = ps[p].pending /\ ps'[p].failed = ps[p].failed
  <2>1. CASE MarkListDone(p)
    <3>1. ps'[p] = [GetOrCreate(p) EXCEPT !.listDone = TRUE]
      BY <2>1 DEF MarkListDone, UpdateState, IInv, TypeOK
    <3>2. /\ GetOrCreate(p) \in PrefixState
          /\ GetOrCreate(p).pending = ps[p].pending /\ GetOrCreate(p).failed = ps[p].failed
      BY GetFacts DEF IInv
    <3>3. ps'[p].pending = ps[p].pending /\ ps'[p].failed = ps[p].failed
      BY ONLY <3>1, <3>2 DEF PrefixState
    <3>4. QED
      BY <2>1, <3>3 DEF MarkListDone
  <2>2. CASE ProducerDone(p)
    BY <2>2 DEF ProducerDone, mgrVars
  <2>3. QED
    BY <2>1, <2>2
<1>4. ASSUME NEW k \in Key, Owner(k) = p, Settled(k) \/ Ahead(k)
      PROVE  (Settled(k) \/ Ahead(k))'
  <2>1. CASE Settled(k)
    BY <1>1, <1>3, <1>4, <2>1, SettledKept
  <2>2. CASE Ahead(k)
    <3>1. prod[p] # "list"
      <4>1. ASSUME prod[p] = "list" PROVE FALSE
        <5>1. pos[p] < Place(k)
          BY <1>4, <2>2, <4>1, ComingFacts DEF Ahead, Listings
        <5>2. QED
          BY <1>3, <1>4, <4>1, <5>1, KeyPlace
      <4>2. QED
        BY <4>1
    <3>2. prod[p] = "wait" /\ ps' = ps
      BY <1>1, <1>3, <3>1
    <3>3. ComingUp(p) => (ComingUp(p))'
      <4>1. p # Root => prod'[Root] = prod[Root]
        BY <1>1
      <4>2. QED
        BY <1>1, <3>2, <4>1, ComingFacts DEF ComingUp, Later, Restores
    <3>4. QED
      BY <1>1, <1>4, <2>2, <3>2, <3>3 DEF Ahead, Listings
  <2>3. QED
    BY <1>4, <2>1, <2>2
<1>5. ASSUME p = Root, NEW q \in Prefix, ComingUp(q) PROVE FALSE
  <2>1. prod[Root] \in Listings
    BY <1>1, <1>5 DEF ComingUp, Restores, IInv, SpawnInv
  <2>2. prod[Root] = "list"
    BY <1>1, <1>5, <2>1 DEF Listings
  <2>3. pos[Root] <= seen[Root] /\ pos[Root] = Len(Listing[Root]) /\ seen[Root] \in Nat
    BY <1>1, <1>3, <1>5, <2>1, <2>2 DEF CourseInv, ParentInv, IInv, TypeOK
  <2>4. /\ Place(q) \in Nat /\ Place(q) <= Len(Listing[Root]) /\ seen[Root] < Place(q)
        /\ Len(Listing[Root]) \in Nat
    BY <1>1, <1>5, ComingFacts, ListingFacts
  <2>5. QED
    BY <2>3, <2>4
<1>6. \A q \in Prefix : q # p /\ ComingUp(q) => (ComingUp(q))'
  BY <1>1, <1>5, OtherComing
<1>7. Sound' => Sound
  BY <1>1 DEF Sound
<1>8. QED
  BY <1>1, <1>2, <1>4, <1>6, <1>7, WorkStep

\* What a listing that failed did not come to is behind its state, or nobody saves it.
LEMMA ListFailWork ==
    ASSUME NeverCut, IInv, IInv', HandInv, CourseInv, WorkInv, NEW p \in Prefix, ListFail(p)
    PROVE  WorkInv'
<1>1. CASE by[p] = "sync"
  BY <1>1 DEF ListFail, WorkInv
<1>2. CASE by[p] # "sync"
  <2>1. /\ prod[p] = "list" /\ prod'[p] = "error" /\ Children(p) = {} /\ Root \in Prefix /\ failures'
        /\ \A q \in Prefix : q # p => prod'[q] = prod[q]
        /\ UNCHANGED <<ps, restored, toRestore, by, seen, pos, done, srcDelay, dstDelay>>
        /\ faults' = faults + 1 /\ faults < MaxFaults
    BY <1>2, ListingAssumption DEF ListFail, IInv, TypeOK, mgrVars, delVars
  <2>2. /\ run # "down" /\ ~ps[p].listDone
        /\ ps[p].last <= pos[p] /\ ps[p].last \in Nat /\ pos[p] \in Nat
    BY <2>1 DEF IInv, DownInv, ProducerInv, Relying, HandInv, AheadInv, TypeOK, PrefixState
  <2>3. Sound' => Sound
    BY <2>1, SoundKept
  <2>4. ASSUME NEW k \in Key, Owner(k) = p, Settled(k) \/ Ahead(k)
        PROVE  (Settled(k) \/ Ahead(k))'
    <3>1. CASE Settled(k)
      BY <2>1, <3>1, SettledKept
    <3>2. CASE Ahead(k)
      <4>1. pos[p] < Place(k) /\ ps[p].present /\ Place(k) \in Nat
        BY <1>2, <2>1, <2>4, <3>2, ComingFacts, KeyPlace DEF Ahead, Listings
      <4>2. ps[p].last < Place(k)
        BY <2>2, <4>1
      <4>3. QED
        BY <2>1, <2>2, <2>4, <4>1, <4>2 DEF Ahead, Listings
    <3>3. QED
      BY <2>4, <3>1, <3>2
  <2>5. p = Root => \A q \in Prefix : ~ComingUp(q)
    BY <2>1 DEF ComingUp
  <2>6. \A q \in Prefix : q # p /\ ComingUp(q) => (ComingUp(q))'
    BY <2>1, <2>5, OtherComing
  <2>7. QED
    BY <2>1, <2>2, <2>3, <2>4, <2>6, WorkStep
<1>3. QED
  BY <1>1, <1>2

\* A state is forgotten once its listing is done and its keys are handled.
LEMMA ReapWork ==
    ASSUME IInv, WorkInv, NEW p \in Prefix, ReapPrefix(p)
    PROVE  WorkInv'
<1>1. /\ ps[p].present /\ ps[p].listDone /\ ps[p].pending = {} /\ ps[p].failed = {}
      /\ prod[p] \notin Relying
  BY DEF ReapPrefix, IInv, ReapInv, IsDone
<1>2. /\ \A q \in Prefix : q # p => ps'[q] = ps[q]
      /\ UNCHANGED <<restored, toRestore, prod, by, seen, pos, done, failures, faults,
                     srcDelay, dstDelay>>
      /\ run # "down"
  BY DEF ReapPrefix, prodVars, delVars, IInv, TypeOK, DownInv
<1>3. ASSUME NEW k \in Key, Owner(k) = p, Settled(k) \/ Ahead(k)
      PROVE  (Settled(k) \/ Ahead(k))'
  <2>1. Settled(k)
    BY <1>1, <1>3, ComingFacts DEF Ahead, Relying, Listings
  <2>2. QED
    BY <1>1, <1>2, <1>3, <2>1, SettledKept
<1>4. p = Root => \A q \in Prefix : ~ComingUp(q)
  BY <1>1 DEF ComingUp, Later, Relying, Listings
<1>5. \A q \in Prefix : q # p /\ ComingUp(q) => (ComingUp(q))'
  BY <1>2, <1>4, OtherComing
<1>6. Sound' => Sound
  BY <1>2 DEF Sound
<1>7. QED
  BY <1>2, <1>3, <1>5, <1>6, WorkStep

\* A producer that has queued what it restored lists on after the last listed key.
LEMMA ResentWork ==
    ASSUME IInv, WorkInv, NEW p \in Prefix, Resent(p)
    PROVE  WorkInv'
<1>1. /\ UNCHANGED <<ps, restored, toRestore, done, failures, faults, srcDelay, dstDelay>>
      /\ \A q \in Prefix : by'[q] = by[q]
      /\ \A q \in Prefix : q # p => prod'[q] = prod[q] /\ seen'[q] = seen[q] /\ pos'[q] = pos[q]
      /\ \/ prod[p] = "resend" /\ prod'[p] = "list" /\ seen'[p] = ps[p].last /\ pos'[p] = ps[p].last
         \/ prod[p] = "resendOnly" /\ prod'[p] = "done"
  BY DEF Resent, BeginList, IInv, TypeOK, mgrVars, delVars
<1>2. run # "down" /\ Root \in Prefix
  BY <1>1, ListingAssumption DEF IInv, DownInv
<1>3. ASSUME NEW k \in Key, Owner(k) = p, Settled(k) \/ Ahead(k)
      PROVE  (Settled(k) \/ Ahead(k))'
  <2>1. CASE Settled(k)
    BY <1>1, <2>1, SettledKept
  <2>2. CASE ComingUp(p)
    <3>1. prod[p] = "resendOnly"
      BY <1>1, <2>2, ComingFacts DEF IInv, SpawnInv, Relying, ComingUp
    <3>2. (ComingUp(p))'
      BY <1>1, <1>2, <2>2, <3>1, ComingFacts DEF ComingUp, Later, Restores
    <3>3. QED
      BY <1>3, <3>2 DEF Ahead
  <2>3. CASE Ahead(k) /\ ~ComingUp(p)
    <3>1. ps[p].present /\ ~ps[p].listDone /\ ps[p].last < Place(k)
      BY <1>1, <1>3, <2>3 DEF Ahead, Listings
    <3>2. QED
      BY <1>1, <1>3, <3>1 DEF Ahead, Listings
  <2>4. QED
    BY <1>3, <2>1, <2>2, <2>3
<1>4. ASSUME p = Root, NEW q \in Prefix, ComingUp(q) PROVE (ComingUp(q))'
  <2>1. ~Restores(Root)
    BY <1>1, <1>4 DEF Restores, IInv, SpawnInv
  <2>2. prod[Root] = "resend" /\ Later(ps, q)
    BY <1>1, <1>4, <2>1 DEF ComingUp, Listings
  <2>3. QED
    BY <1>1, <1>4, <2>2 DEF ComingUp, Later, Listings
<1>5. \A q \in Prefix : q # p /\ ComingUp(q) => (ComingUp(q))'
  BY <1>1, <1>4, OtherComing
<1>6. Sound' => Sound
  BY <1>1 DEF Sound
<1>7. QED
  BY <1>1, <1>2, <1>3, <1>5, <1>6, WorkStep

\* What is restored is queued again; the listing goes on where it was.
LEMMA RestoreWork ==
    ASSUME IInv, HandInv, WorkInv, NEW p \in Prefix, NEW who \in {"top", "parent"},
           Restorable(p), RestorePrefix(p, who), run # "down", toRestore \ {p} \subseteq toRestore',
           UNCHANGED <<done, failures, faults, srcDelay, dstDelay>>
    PROVE  WorkInv'
<1>1. /\ ps'[p].present /\ ps[p].present /\ ~ps[p].isNew
      /\ ps'[p].listDone = ps[p].listDone /\ ps'[p].last = ps[p].last
      /\ ps'[p].pending = ps[p].pending \cup ps[p].failed
      /\ \A q \in Prefix : q # p => ps'[q] = ps[q] /\ prod'[q] = prod[q]
      /\ prod'[p] = (IF ps[p].listDone THEN "resendOnly" ELSE "resend")
      /\ p \notin restored /\ restored' = restored \cup {p} /\ pos' = pos /\ seen' = seen
      /\ \A q \in Prefix : q # p => by'[q] = by[q]
  <2>1. /\ prod'[p] = (IF ps[p].listDone THEN "resendOnly" ELSE "resend")
        /\ p \notin restored /\ restored' = restored \cup {p} /\ pos' = pos /\ seen' = seen
        /\ \A q \in Prefix : q # p => by'[q] = by[q]
    BY DEF Restorable, RestorePrefix, IInv, TypeOK
  <2>2. QED
    BY <2>1, RestoreFacts
<1>2. prod[p] = "none" /\ prod'[p] \notin Listings
  BY <1>1 DEF HandInv, OriginInv, Listings
<1>3. ASSUME NEW k \in Key, Owner(k) = p, Settled(k) \/ Ahead(k)
      PROVE  (Settled(k) \/ Ahead(k))'
  <2>1. CASE Settled(k)
    BY <1>1, <1>3, <2>1, SettledKept
  <2>2. CASE Ahead(k)
    BY <1>1, <1>2, <1>3, <2>2 DEF Ahead, ComingUp, Listings
  <2>3. QED
    BY <1>3, <2>1, <2>2
<1>4. ASSUME p = Root, NEW q \in Prefix, q # p, ComingUp(q) PROVE (ComingUp(q))'
  <2>1. Later(ps, q)
    BY <1>2, <1>4 DEF ComingUp, Listings
  <2>2. QED
    BY <1>1, <1>4, <2>1 DEF ComingUp, Later
<1>5. \A q \in Prefix : q # p /\ ComingUp(q) => (ComingUp(q))'
  BY <1>1, <1>4, OtherComing
<1>6. Sound' => Sound
  BY DEF Sound
<1>7. QED
  BY <1>1, <1>3, <1>5, <1>6, WorkStep

\* The goroutines that restore go on from the states they find.
LEMMA RestoreStepWork ==
    ASSUME IInv, HandInv, WorkInv, NEW p \in Prefix, RestoreTop(p) \/ RestoreChild(p)
    PROVE  WorkInv'
<1>1. /\ UNCHANGED <<done, failures, faults, srcDelay, dstDelay>>
      /\ toRestore \ {p} \subseteq toRestore' /\ run # "down" /\ Root \in Prefix
  BY ListingAssumption DEF RestoreTop, RestoreChild, delVars, IInv, DownInv
<1>2. ASSUME NEW who \in {"top", "parent"}, Restorable(p), RestorePrefix(p, who) PROVE WorkInv'
  BY <1>1, <1>2, RestoreWork
<1>3. CASE /\ UNCHANGED <<mgrVars, prod, by, seen, pos, resend>>
           /\ toRestore' = toRestore \/ ~Restorable(p)
  <2>1. UNCHANGED <<ps, restored, prod, by, seen, pos>>
    BY <1>3 DEF mgrVars
  <2>2. ASSUME NEW q \in Prefix, ComingUp(q) PROVE (ComingUp(q))'
    <3>1. Restores(Root) => (Restores(Root))'
      BY <1>1, <1>3, <2>1 DEF Restores, Restorable
    <3>2. QED
      BY <2>1, <2>2, <3>1 DEF ComingUp, Later
  <2>3. ASSUME NEW k \in Key, Owner(k) = p, Settled(k) \/ Ahead(k)
        PROVE  (Settled(k) \/ Ahead(k))'
    <3>1. CASE Settled(k)
      BY <1>1, <2>1, <3>1, SettledKept
    <3>2. CASE Ahead(k)
      BY <2>1, <2>2, <2>3, <3>2 DEF Ahead
    <3>3. QED
      BY <2>3, <3>1, <3>2
  <2>4. Sound' => Sound
    BY <1>1 DEF Sound
  <2>5. QED
    BY <1>1, <2>1, <2>2, <2>3, <2>4, WorkStep
<1>4. CASE /\ RestoreChild(p)
           /\ ~ps[p].present \/ ps[p].isNew
           /\ BeginList(p, "parent") /\ UNCHANGED <<mgrVars, resend>>
  <2>1. /\ prod'[p] = "list" /\ seen'[p] = ps[p].last /\ pos'[p] = ps[p].last
        /\ \A q \in Prefix : q # p => prod'[q] = prod[q] /\ seen'[q] = seen[q]
                                      /\ pos'[q] = pos[q] /\ by'[q] = by[q]
        /\ UNCHANGED <<ps, restored>>
    BY <1>4 DEF BeginList, mgrVars, IInv, TypeOK
  <2>2. prod[p] \notin Relying /\ p \in spawned /\ p # Root
    BY <1>4 DEF RestoreChild, IInv, SpawnInv
  <2>3. ASSUME NEW k \in Key, Owner(k) = p, Settled(k) \/ Ahead(k)
        PROVE  (Settled(k) \/ Ahead(k))'
    <3>1. CASE Settled(k)
      BY <1>1, <2>1, <3>1, SettledKept
    <3>2. CASE Ahead(k)
      <4>1. ~ComingUp(p)
        BY <2>2, ComingFacts
      <4>2. ps[p].present /\ ps[p].last < Place(k)
        BY <2>2, <2>3, <3>2, <4>1 DEF Ahead, Relying, Listings
      <4>3. QED
        BY <2>1, <2>3, <4>2 DEF Ahead, Listings
    <3>3. QED
      BY <2>3, <3>1, <3>2
  <2>4. \A q \in Prefix : q # p /\ ComingUp(q) => (ComingUp(q))'
    BY <1>1, <2>1, <2>2, OtherComing
  <2>5. Sound' => Sound
    BY <1>1 DEF Sound
  <2>6. QED
    BY <1>1, <2>1, <2>3, <2>4, <2>5, WorkStep
<1>5. QED
  BY <1>2, <1>3, <1>4 DEF RestoreTop, RestoreChild

\* A child the listing finds has a state from then on.
LEMMA ListNextWork ==
    ASSUME NeverCut, IInv, WorkInv, NEW p \in Prefix, ListNext(p)
    PROVE  WorkInv'
<1> DEFINE e == Listing[p][seen[p] + 1]
<1>1. /\ prod[p] \in Listings /\ seen[p] \in Nat /\ seen[p] + 1 \in 1..Len(Listing[p])
      /\ seen'[p] = seen[p] + 1 /\ \A q \in Prefix : q # p => seen'[q] = seen[q]
      /\ Root \in Prefix /\ ps \in [Prefix -> PrefixState]
  BY ListingFacts, ListingAssumption DEF ListNext, IInv, TypeOK, Listings
<1>2. /\ UNCHANGED <<restored, toRestore, prod, by, pos, failures, faults,
                     srcDelay, dstDelay, done>>
      /\ run # "down"
  BY <1>1 DEF ListNext, delVars, IInv, DownInv, Listings
<1>3. \/ UNCHANGED ps /\ e \in Key
      \/ p = Root /\ e \in Children(Root) /\ seen[Root] + 1 = Place(e) /\ RegisterChildPrefix(e)
  <2>1. \/ e \in Key /\ e \notin Prefix
        \/ e \in Children(Root) /\ p = Root /\ seen[p] + 1 = Place(e)
    BY <1>1, EntryFacts
  <2>2. CASE e \in Key /\ e \notin Prefix
    BY <2>2 DEF ListNext
  <2>3. CASE e \in Children(Root) /\ p = Root /\ seen[p] + 1 = Place(e)
    <3>1. e \in SrcPrefix /\ e \notin Key
      BY <2>3, ChildPlace, ListingAssumption DEF NeverCut
    <3>2. QED
      BY <2>3, <3>1 DEF ListNext
  <2>4. QED
    BY <2>1, <2>2, <2>3
<1>4. ASSUME NEW q \in Prefix
      PROVE  /\ ps[q].present => ps'[q] = ps[q]
             /\ ps'[q] = ps[q] \/ (q = e /\ p = Root /\ e \in Children(Root) /\ ps'[q] = NewState)
             /\ q = Root => ps'[q] = ps[q]
  <2>1. e \in Children(Root) => e # Root
    BY ChildPlace
  <2>2. QED
    BY <1>1, <1>3, <2>1 DEF RegisterChildPrefix, GetOrCreate
<1>5. ASSUME NEW q \in Prefix, ComingUp(q)
      PROVE  (ComingUp(q))' \/ (ps'[q] = NewState /\ prod[q] \notin Listings)
  <2>1. /\ Place(q) \in Nat /\ Listing[Root][Place(q)] = q /\ q # Root /\ prod[q] \notin Listings
        /\ seen[Root] < Place(q) /\ ~ps[q].present /\ q \in Prefix /\ q \notin Key
    BY <1>5, ComingFacts, ListingAssumption
  <2>2. CASE p # Root
    <3>1. ps'[q] = ps[q] /\ ps'[Root] = ps[Root] /\ seen'[Root] = seen[Root]
      BY <1>1, <1>4, <2>2
    <3>2. QED
      BY <1>2, <1>5, <3>1 DEF ComingUp, Later, Restores
  <2>3. CASE p = Root /\ q = e
    <3>1. ps'[q] = NewState
      BY <1>1, <1>3, <2>1, <2>3 DEF RegisterChildPrefix, GetOrCreate
    <3>2. QED
      BY <2>1, <3>1
  <2>4. CASE p = Root /\ q # e
    <3>1. seen[Root] + 1 # Place(q)
      BY <2>1, <2>4
    <3>2. seen'[Root] < Place(q)
      BY <1>1, <2>1, <2>4, <3>1
    <3>3. ps'[q] = ps[q]
      BY <1>4, <2>4
    <3>4. QED
      BY <1>1, <1>2, <1>5, <2>4, <3>2, <3>3 DEF ComingUp
  <2>5. QED
    BY <2>2, <2>3, <2>4
<1>6. ASSUME Sound', NEW k \in Key PROVE (Settled(k) \/ Ahead(k))'
  <2> DEFINE q == Owner(k)
  <2>1. q \in Prefix /\ Place(k) \in Nat /\ Place(k) > 0
    BY KeyPlace
  <2>2. Settled(k) \/ Ahead(k)
    BY <1>2, <1>6 DEF WorkInv, Sound
  <2>3. CASE Settled(k)
    <3>1. k \in ps[q].pending \cup ps[q].failed => k \in ps'[q].pending \cup ps'[q].failed
      <4>1. CASE ps[q].present
        BY <1>4, <2>1, <4>1
      <4>2. CASE ~ps[q].present
        <5>1. ps[q] = NoState
          BY <2>1, <4>2, AbsentFacts
        <5>2. QED
          BY <5>1 DEF NoState
      <4>3. QED
        BY <4>1, <4>2
    <3>2. QED
      BY <1>2, <2>3, <3>1, SettledKept
  <2>4. CASE ComingUp(q)
    <3>1. (ComingUp(q))' \/ (ps'[q] = NewState /\ prod[q] \notin Listings)
      BY <1>5, <2>1, <2>4
    <3>2. QED
      BY <1>2, <2>1, <3>1 DEF Ahead, NewState
  <2>5. CASE Ahead(k) /\ ~ComingUp(q)
    <3>1. ps[q].present => ps'[q] = ps[q]
      BY <1>4, <2>1
    <3>2. QED
      BY <1>2, <2>5, <3>1 DEF Ahead
  <2>6. QED
    BY <2>2, <2>3, <2>4, <2>5 DEF Ahead
<1>7. QED
  BY <1>6 DEF WorkInv

\* Every step keeps what is left led to.
LEMMA NextWork ==
    ASSUME NeverCut, IInv, IInv', HandInv, ExitInv, CourseInv', [Next]_vars
    PROVE  WorkInv'
<1>1. CourseInv /\ WorkInv
  BY DEF ExitInv
<1>2. CASE Over \/ UNCHANGED vars
  <2>1. UNCHANGED <<run, ps, restored, toRestore, prod, by, seen, pos, srcDelay, dstDelay,
                    done, failures, faults>>
    BY <1>2 DEF Over, vars
  <2>2. CASE run = "down"
    BY <2>1, <2>2 DEF WorkInv
  <2>3. CASE run # "down"
    BY <1>1, <2>1, <2>3, QuietWork
  <2>4. QED
    BY <2>2, <2>3
<1>3. CASE Start
  BY <1>3, StartWork
<1>4. CASE EndStep
  <2>1. CASE ExitFailed
    BY <2>1 DEF ExitFailed, WorkInv
  <2>2. QED
    BY <1>1, <1>4, <2>1, FrameWork DEF EndStep
<1>5. CASE SaveBegin \/ SaveStep
  BY <1>1, <1>5, FrameWork
<1>6. CASE Fault
  <2>1. CASE Crash
    BY <2>1 DEF Crash, WorkInv
  <2>2. QED
    BY <1>1, <1>6, <2>1, ListFailWork, ReleaseWork DEF Fault
<1>7. ASSUME NEW p \in Prefix, ProducerStep(p) \/ ReapPrefix(p) PROVE WorkInv'
  <2>1. CASE Resend(p)
    BY <1>1, <2>1, FrameWork
  <2>2. QED
    BY <1>1, <1>7, <2>1, RestoreStepWork, ResentWork, ListNextWork, ProduceWork, SendWork,
       ReturnWork, ReapWork DEF ProducerStep
<1>8. ASSUME NEW w \in Worker, WorkerStep(w) PROVE WorkInv'
  BY <1>1, <1>8, FrameWork, ReleaseWork DEF WorkerStep
<1>9. QED
  BY <1>2, <1>3, <1>4, <1>5, <1>6, <1>7, <1>8 DEF Next

-----------------------------------------------------------------------------
(* The file at the exit.                                                   *)

\* At its end nobody is ahead, so a key no state and no list leads to is handled.
LEMMA ExitLeads ==
    ASSUME IInv, ExitInv, ExitFailed, NEW k \in Key, Ignored(CurrentSnapshot, k)
    PROVE  k \in done
<1> DEFINE p == Owner(k)
<1>1. p \in Prefix /\ Root \in Prefix /\ Place(k) \in Nat /\ ps[p] \in PrefixState
  BY KeyPlace, ListingAssumption DEF IInv, TypeOK
<1>2. /\ CurrentSnapshot.state[p] = Persisted(ps[p])
      /\ CurrentSnapshot.srcDelay = srcDelay /\ CurrentSnapshot.dstDelay = dstDelay
  BY <1>1 DEF CurrentSnapshot
<1>3. ps[p].present => Passed(ps[p], k)
  BY <1>1, <1>2, PersistedFacts DEF Ignored
<1>4. ~Delayed(k)
  BY <1>2 DEF Ignored, Delayed
<1>5. toRestore = {} /\ \A q \in Prefix : prod[q] \notin Active
  BY DEF ExitFailed, ExitInv, CourseInv, Ended
<1>6. Settled(k) \/ Ahead(k)
  BY DEF ExitFailed, ExitInv, WorkInv, Sound
<1>7. ~ComingUp(p)
  BY <1>1, <1>5 DEF ComingUp, Restores, Listings, Active
<1>8. ~Ahead(k)
  <2>1. ps[p].last \in Nat
    BY <1>1 DEF PrefixState
  <2>2. QED
    BY <1>1, <1>3, <1>5, <1>7, <2>1 DEF Ahead, Passed, Listings, Active
<1>9. Accounted(ps[p], k)
  BY <1>4, <1>6, <1>8 DEF Settled
<1>10. CASE ps[p].present
  BY <1>3, <1>9, <1>10 DEF Accounted, Passed
<1>11. CASE ~ps[p].present
  BY <1>1, <1>9, <1>11, AbsentFacts DEF Accounted, NoState
<1>12. QED
  BY <1>10, <1>11

\* A step that leaves the file and the run.
LEMMA DiskFrame ==
    ASSUME DiskInv, UNCHANGED <<run, disk>>, done \subseteq done', run # "down" \/ faults' = faults
    PROVE  DiskInv'
BY DEF DiskInv, ToTheEnd, Ignored

\* Every step keeps a file that leads to what is not handled, where it counts.
LEMMA NextDisk ==
    ASSUME NeverCut, IInv, IInv', ExitInv, faults' <= MaxFaults, [Next]_vars,
           MaxFaults > 1 /\ ExitFailed => disk' = CurrentSnapshot
    PROVE  DiskInv'
<1> USE DEF prodVars, saveVars
<1>1. DiskInv /\ CourseInv /\ done \subseteq done' /\ faults \in Nat /\ faults' \in Nat
  BY DoneGrows DEF ExitInv, IInv, TypeOK
<1>2. CASE Over \/ UNCHANGED vars
  <2>1. UNCHANGED <<run, disk, faults>>
    BY <1>2 DEF Over, vars
  <2>2. QED
    BY <1>1, <2>1, DiskFrame
<1>3. CASE Start \/ CloseTasks \/ WorkersDone \/ ExitCompleted
  <2>1. run' # "down"
    BY <1>3 DEF Start, CloseTasks, WorkersDone, ExitCompleted
  <2>2. QED
    BY <2>1 DEF DiskInv
<1>4. CASE DropCheckpoint
  BY <1>4 DEF DropCheckpoint, DiskInv
<1>5. CASE DelayedDelete
  <2>1. run' = run /\ disk' = disk /\ run # "down"
    BY <1>5 DEF DelayedDelete
  <2>2. QED
    BY <1>1, <2>1, DiskFrame
<1>6. CASE ExitFailed
  <2>1. CASE disk' = CurrentSnapshot
    <3>1. \A k \in Key : Ignored(disk', k) => k \in done
      BY <1>6, <2>1, ExitLeads
    <3>2. QED
      BY <1>1, <3>1 DEF DiskInv, Ignored
  <2>2. CASE disk' # CurrentSnapshot
    <3>1. failures /\ faults > 0 /\ faults' = faults + 1
      BY <1>1, <1>6, <2>2 DEF ExitFailed, CourseInv
    <3>2. MaxFaults \in Nat /\ MaxFaults <= 1
      BY <1>6, <2>2, ListingAssumption
    <3>3. QED
      BY <1>1, <3>1, <3>2
  <2>3. QED
    BY <2>1, <2>2
<1>7. CASE SaveBegin \/ SaveStep
  <2>1. run' = run /\ run \in {"up", "closed"}
    BY <1>1, <1>7 DEF SaveBegin, SaveStep, SavePrefix, SaveDelayLists, SaveWrite, CourseInv
  <2>2. QED
    BY <2>1 DEF DiskInv
<1>8. CASE Crash
  BY <1>1, <1>8 DEF Crash, NeverCut, CourseInv
<1>9. ASSUME NEW p \in Prefix, ListFail(p) PROVE DiskInv'
  <2>1. disk' = disk /\ done' = done /\ faults' = faults + 1 /\ Children(p) = {} /\ prod[p] = "list"
    BY <1>9 DEF ListFail
  <2>2. CASE by[p] = "sync"
    <3>1. p = Root
      BY <1>1, <2>2 DEF CourseInv
    <3>2. ~ToTheEnd
      BY <2>1, <3>1 DEF ToTheEnd
    <3>3. faults' # 0
      BY <1>1, <2>1
    <3>4. QED
      BY <3>2, <3>3 DEF DiskInv, ToTheEnd
  <2>3. CASE by[p] # "sync"
    <3>1. run' = run /\ run = "up"
      BY <1>1, <1>9, <2>1, <2>3, CourseRun DEF ListFail, Active
    <3>2. QED
      BY <3>1 DEF DiskInv
  <2>4. QED
    BY <2>2, <2>3
<1>10. ASSUME NEW p \in Prefix, ProducerStep(p) \/ ReapPrefix(p) PROVE DiskInv'
  <2>1. UNCHANGED <<run, disk, faults>>
    <3>1. CASE RestoreTop(p) \/ RestoreChild(p) \/ Resend(p) \/ Resent(p) \/ ListNext(p)
      BY <3>1 DEF RestoreTop, RestoreChild, Resend, Resent, ListNext
    <3>2. CASE Produce(p)
      BY <3>2 DEF Produce
    <3>3. CASE SendTask(p) \/ AppendSrcDelay(p) \/ MarkListDone(p) \/ ProducerDone(p) \/ ReapPrefix(p)
      BY <3>3 DEF SendTask, AppendSrcDelay, MarkListDone, ProducerDone, ReapPrefix
    <3>4. QED
      BY <1>10, <3>1, <3>2, <3>3 DEF ProducerStep
  <2>2. QED
    BY <1>1, <2>1, DiskFrame
<1>11. ASSUME NEW w \in Worker, WorkerStep(w) \/ MarkFailed(w) PROVE DiskInv'
  <2>1. run' = run /\ disk' = disk /\ run # "down"
    BY <1>11 DEF WorkerStep, Fetch, Copy, MarkCompleted, MarkFailed, IInv, DownInv
  <2>2. QED
    BY <1>1, <2>1, DiskFrame
<1>12. QED
  BY <1>2, <1>3, <1>4, <1>5, <1>6, <1>7, <1>8, <1>9, <1>10, <1>11 DEF Next, EndStep, Fault

\* A fault is made only while there are some left.
LEMMA NextFaults ==
    ASSUME IInv, faults <= MaxFaults, [Next]_vars
    PROVE  faults' <= MaxFaults
<1>1. faults \in Nat /\ MaxFaults \in Nat
  BY ListingAssumption DEF IInv, TypeOK
<1>2. faults' = faults \/ (faults < MaxFaults /\ faults' = faults + 1)
  <2>1. CASE Over \/ UNCHANGED vars \/ Start
    BY <2>1 DEF Over, vars, Start
  <2>2. CASE EndStep
    <3>1. CASE DelayedDelete
      BY <3>1 DEF DelayedDelete
    <3>2. CASE ~DelayedDelete
      BY <2>2, <3>2 DEF EndStep, CloseTasks, WorkersDone, DropCheckpoint, ExitFailed, ExitCompleted
    <3>3. QED
      BY <3>1, <3>2
  <2>3. CASE SaveBegin \/ SaveStep
    BY <2>3 DEF SaveBegin, SaveStep, SavePrefix, SaveDelayLists, SaveWrite
  <2>4. CASE Fault
    BY <2>4 DEF Fault, Crash, ListFail, MarkFailed
  <2>5. ASSUME NEW p \in Prefix, ProducerStep(p) \/ ReapPrefix(p) PROVE faults' = faults
    <3>1. CASE RestoreTop(p) \/ RestoreChild(p) \/ Resend(p) \/ Resent(p) \/ ListNext(p)
      BY <3>1 DEF RestoreTop, RestoreChild, Resend, Resent, ListNext
    <3>2. CASE Produce(p)
      BY <3>2 DEF Produce
    <3>3. CASE SendTask(p) \/ AppendSrcDelay(p) \/ MarkListDone(p) \/ ProducerDone(p) \/ ReapPrefix(p)
      BY <3>3 DEF SendTask, AppendSrcDelay, MarkListDone, ProducerDone, ReapPrefix
    <3>4. QED
      BY <2>5, <3>1, <3>2, <3>3 DEF ProducerStep
  <2>6. ASSUME NEW w \in Worker, WorkerStep(w)
        PROVE  faults' = faults \/ (faults < MaxFaults /\ faults' = faults + 1)
    BY <2>6 DEF WorkerStep, Fetch, Copy, MarkCompleted
  <2>7. QED
    BY <2>1, <2>2, <2>3, <2>4, <2>5, <2>6 DEF Next
<1>3. QED
  BY <1>1, <1>2

\* As long as a run is not cut short, producers, states and lists lead to all that is left,
\* and the file of an exit leads the next run to it.
THEOREM ExitInvariant ==
    NeverCut => (Spec /\ ExitsSaved => [](IInv /\ HandInv /\ ExitInv /\ faults <= MaxFaults))
<1> SUFFICES ASSUME NeverCut
             PROVE  Spec /\ ExitsSaved => [](IInv /\ HandInv /\ ExitInv /\ faults <= MaxFaults)
  OBVIOUS
<1> DEFINE Inv == IInv /\ HandInv /\ ExitInv /\ faults <= MaxFaults
<1>1. Init => Inv
  BY InitInv, InitHands, InitExit, ListingAssumption DEF Init
<1>2. Inv /\ [Next]_vars /\ [MaxFaults > 1 /\ ExitFailed => disk' = CurrentSnapshot]_vars => Inv'
  <2> SUFFICES ASSUME IInv, HandInv, ExitInv, faults <= MaxFaults, [Next]_vars,
                      [MaxFaults > 1 /\ ExitFailed => disk' = CurrentSnapshot]_vars
               PROVE  Inv'
    OBVIOUS
  <2>1. IInv' /\ HandInv'
    BY NextInv, NextHands
  <2>2. CourseInv'
    BY <2>1, NextCourse DEF ExitInv, NeverCut
  <2>3. faults' <= MaxFaults
    BY NextFaults
  <2>4. MaxFaults > 1 /\ ExitFailed => disk' = CurrentSnapshot
    BY DEF ExitFailed, vars
  <2>5. WorkInv' /\ DiskInv'
    BY <2>1, <2>2, <2>3, <2>4, NextWork, NextDisk
  <2>6. QED
    BY <2>1, <2>2, <2>3, <2>5 DEF ExitInv
<1>3. QED
  BY <1>1, <1>2, PTL DEF Spec, ExitsSaved

\* Only the exit after a failure writes the file and ends a run at its delayed deletes.
LEMMA ExitWrites ==
    ASSUME [Next]_vars, IInv, run = "sweeping", run' = "down", disk' # disk
    PROVE  ExitFailed /\ disk' = CurrentSnapshot
<1>1. ~Start /\ ~SaveBegin /\ ~SaveStep /\ ~Over /\ vars' # vars
  BY DEF Start, SaveBegin, SaveStep, SavePrefix, SaveDelayLists, SaveWrite, Over, vars
<1>2. ~Fault
  BY DEF Fault, Crash, ListFail, MarkFailed
<1>3. \A p \in Prefix : ~ProducerStep(p) /\ ~ReapPrefix(p)
  BY DEF ProducerStep, RestoreTop, RestoreChild, Resend, Resent, ListNext, Produce,
         SendTask, AppendSrcDelay, MarkListDone, ProducerDone, ReapPrefix
<1>4. \A w \in Worker : ~WorkerStep(w)
  BY DEF WorkerStep, Fetch, Copy, MarkCompleted
<1>5. EndStep
  BY <1>1, <1>2, <1>3, <1>4 DEF Next
<1>6. QED
  BY <1>5 DEF EndStep, CloseTasks, WorkersDone, DropCheckpoint, DelayedDelete, ExitFailed,
              ExitCompleted

\* The checkpoint a failed run that was not cut short leaves makes the next run come back to
\* all that is still to be done, the delayed deletes that failed included.
THEOREM ExitSaved == NeverCut => (Spec /\ ExitsSaved => ExitSnapshotComplete)
<1> SUFFICES ASSUME NeverCut PROVE Spec /\ ExitsSaved => ExitSnapshotComplete
  OBVIOUS
<1>1. IInv /\ ExitInv /\ [Next]_vars =>
          [run = "sweeping" /\ run' = "down" /\ disk' # disk =>
              \A k \in Key : Ignored(disk', k) => k \in done]_vars
  BY ExitWrites, ExitLeads
<1>2. QED
  BY <1>1, ExitInvariant, PTL DEF Spec, ExitSnapshotComplete

\* At the exit of a job whose checkpoints know the root each prefix has its state or is handled.
LEMMA KnownExitLeads ==
    ASSUME RootKnown, IInv, LeadInv, run = "sweeping", NEW k \in Key, Ignored(CurrentSnapshot, k)
    PROVE  k \in done
<1> DEFINE p == Owner(k)
<1>1. p \in Prefix /\ Root \in Prefix /\ k \in Recordable
  BY KeyPlace, ListingAssumption DEF RootKnown
<1>2. /\ \A q \in Prefix : CurrentSnapshot.state[q] = Persisted(ps[q]) /\ ps[q] \in PrefixState
      /\ CurrentSnapshot.srcDelay = {} /\ CurrentSnapshot.dstDelay = {}
  BY DEF CurrentSnapshot, LeadInv, DelayInv, IInv, TypeOK
<1>3. toRestore = {} /\ spawned = {} /\ \A q \in Prefix : prod[q] \notin Active
  BY DEF LeadInv, EndInv, Ended
<1>4. Handled(p) \/ Started(p)
  BY <1>1, <1>3 DEF LeadInv, PrefixInv, Restores, Spawned, Coming, Listings, Active
<1>5. CASE ps[p].present
  <2>1. Passed(ps[p], k)
    BY <1>1, <1>2, <1>5, PersistedFacts DEF Ignored
  <2>2. QED
    BY <1>1, <2>1 DEF IInv, StatesTruthful
<1>6. CASE Handled(p)
  BY <1>6 DEF Handled
<1>7. CASE Started(p) /\ ~ps[p].present
  <2>1. Prefix = {Root}
    BY <1>7 DEF Started
  <2>2. \A q \in Prefix : ~CurrentSnapshot.state[q].present
    BY <1>1, <1>2, <1>7, <2>1, PersistedFacts
  <2>3. QED
    BY <1>2, <2>2 DEF Ignored, Loadable
<1>8. QED
  BY <1>4, <1>5, <1>6, <1>7

\* The same of a job whose checkpoints know the root, however often it crashes.
THEOREM KnownExitSaved == RootKnown => (Spec => ExitSnapshotComplete)
<1> SUFFICES ASSUME RootKnown PROVE Spec => ExitSnapshotComplete
  OBVIOUS
<1>1. IInv /\ LeadInv /\ [Next]_vars =>
          [run = "sweeping" /\ run' = "down" /\ disk' # disk =>
              \A k \in Key : Ignored(disk', k) => k \in done]_vars
  BY ExitWrites, KnownExitLeads
<1>2. QED
  BY <1>1, LeadInvariant, PTL DEF Spec, ExitSnapshotComplete

-----------------------------------------------------------------------------
(* What a run with delayed deletes that reports success has done.          *)

\* somebody looks after a state that is there: a goroutine still to run, or a producer that
\* has the whole listing behind it before it returns, unless it failed
Tended(p) ==
    ps[p].present =>
        \/ Restores(p) \/ Spawned(p)
        \/ /\ prod[p] # "none"
           /\ prod[p] = "error" => failures
           /\ prod[p] \in {"resendOnly", "wait", "done"} => ps[p].listDone
TendedInv == \A p \in Prefix : Tended(p)

CareInv == TendedInv /\ PendingTracked /\ TrackedLive

\* a delayed delete that did not succeed is counted; no worker is left at the end
SweptInv == \A k \in swept : k \in done \/ failures
IdleInv == run \in Ended \ {"closed"} => tasks = {} /\ \A w \in Worker : wst[w] = "idle"

FinishInv == CareInv /\ SweptInv /\ IdleInv /\ faults <= MaxFaults /\ NoKeyLost

\* A step that changes no state but its keys, while producers go on, fail or return.
LEMMA TendedFrame ==
    ASSUME TendedInv, failures => failures', UNCHANGED <<restored, toRestore, spawned>>,
           \A p \in Prefix : Same(p),
           \A p \in Prefix :
               \/ prod'[p] = prod[p]
               \/ prod'[p] \in Listings
               \/ prod'[p] = "error" /\ failures'
               \/ prod'[p] = "done" /\ prod[p] \in {"resendOnly", "wait"}
    PROVE  TendedInv'
<1> SUFFICES ASSUME NEW p \in Prefix PROVE (Tended(p))'
  BY DEF TendedInv
<1>1. Tended(p) /\ Same(p)
  BY DEF TendedInv
<1>2. /\ Restores(p) => (Restores(p))'
      /\ Spawned(p) => (Spawned(p))'
  BY <1>1 DEF Restores, Spawned, Same
<1>3. CASE prod'[p] = prod[p]
  BY <1>1, <1>2, <1>3 DEF Tended, Same
<1>4. CASE prod'[p] # prod[p]
  BY <1>1, <1>2, <1>4 DEF Tended, Same, Listings
<1>5. QED
  BY <1>3, <1>4

\* A step that leaves states, producers and hands alone.
LEMMA QuietCare ==
    ASSUME CareInv, failures => failures', done \subseteq done',
           UNCHANGED <<ps, tracked, restored, toRestore, spawned, prod, pos, resend, tasks, held>>
    PROVE  CareInv'
<1>1. TendedInv'
  BY TendedFrame DEF CareInv, Same
<1>2. PendingTracked' /\ TrackedLive'
  BY DEF CareInv, PendingTracked, TrackedLive, InHand, Sends
<1>3. QED
  BY <1>1, <1>2 DEF CareInv

\* The end of the process, however it comes.
LEMMA VanishCare ==
    ASSUME Vanish
    PROVE  CareInv' /\ SweptInv'
BY DEF Vanish, CareInv, TendedInv, Tended, PendingTracked, TrackedLive, SweptInv, NoState

\* A run begins: each state of the file is restored by a goroutine.
LEMMA StartCare ==
    ASSUME IInv, HandInv, Start
    PROVE  CareInv'
<1> USE DEF Start
<1>1. /\ tracked' = {} /\ restored' = {} /\ Root \in Prefix
      /\ prod = [p \in Prefix |-> "none"]
  BY ListingAssumption DEF IInv, DownInv, HandInv, EmptyInv
<1>2. ps' = disk.state /\ \A p \in Prefix : ~ps'[p].isNew
  BY DEF IInv, StatesInv, FileState
<1>3. CASE Loadable(disk)
  <2>1. \A p \in Prefix : ps'[p].present => p \in toRestore'
    BY <1>2, <1>3
  <2>2. QED
    BY <1>1, <1>2, <2>1 DEF CareInv, TendedInv, Tended, Restores, PendingTracked, TrackedLive
<1>4. CASE ~Loadable(disk)
  <2>1. \A p \in Prefix : ~ps'[p].present
    BY <1>2, <1>4 DEF Loadable, IInv, StatesInv, FileState
  <2>2. QED
    BY <1>1, <1>2, <2>1 DEF CareInv, TendedInv, Tended, PendingTracked, TrackedLive
<1>5. QED
  BY <1>3, <1>4

\* A key goes from hand to hand: queued by its producer, taken by a worker.
LEMMA HandCare ==
    ASSUME IInv, HandInv, CareInv,
           \/ \E p \in Prefix : Resend(p) \/ SendTask(p) \/ AppendSrcDelay(p)
           \/ \E w \in Worker : Fetch(w)
    PROVE  CareInv'
<1>1. /\ prod \in [Prefix -> Active \cup {"none", "done", "error"}] /\ pos \in [Prefix -> Nat]
      /\ resend \in [Prefix -> SUBSET Key] /\ held \in [Worker -> Key \cup {NoKey}]
      /\ tracked \subseteq Key /\ \A k \in Key : Owner(k) \in Prefix
  BY PlaceFacts DEF IInv, TypeOK
<1>2. /\ UNCHANGED <<ps, tracked, restored, toRestore, spawned, failures, done>>
      /\ \A p \in Prefix : prod'[p] = prod[p] \/ prod'[p] \in Listings
  <2>1. CASE \E p \in Prefix : Resend(p)
    BY <2>1 DEF Resend, mgrVars
  <2>2. CASE \E p \in Prefix : SendTask(p) \/ AppendSrcDelay(p)
    BY <1>1, <2>2 DEF SendTask, AppendSrcDelay, mgrVars, Listings
  <2>3. CASE \E w \in Worker : Fetch(w)
    BY <2>3 DEF Fetch, mgrVars, prodVars
  <2>4. QED
    BY <2>1, <2>2, <2>3
<1>3. TendedInv' /\ PendingTracked'
  BY <1>2, TendedFrame DEF CareInv, Same, PendingTracked
<1>4. ASSUME NEW k \in Key, InHand(k) \/ Sends(k) PROVE (InHand(k) \/ Sends(k))'
  <2>1. ASSUME NEW p \in Prefix, Resend(p) PROVE (InHand(k) \/ Sends(k))'
    BY <1>1, <1>4, <2>1 DEF Resend, workVars, InHand, Sends
  <2>2. ASSUME NEW p \in Prefix, SendTask(p) PROVE (InHand(k) \/ Sends(k))'
    <3>1. /\ tasks' = tasks \cup {Listing[p][pos[p] + 1]} /\ resend' = resend /\ held' = held
          /\ \A q \in Prefix : q # p => prod'[q] = prod[q] /\ pos'[q] = pos[q]
      BY <1>1, <2>2 DEF SendTask, workVars
    <3>2. CASE InHand(k)
      BY <3>1, <3>2 DEF InHand
    <3>3. CASE Sends(k)
      BY <1>1, <3>1, <3>3 DEF Sends, InHand
    <3>4. QED
      BY <1>4, <3>2, <3>3
  <2>3. ASSUME NEW p \in Prefix, AppendSrcDelay(p) PROVE (InHand(k) \/ Sends(k))'
    <3>1. /\ prod[p] = "append" /\ UNCHANGED <<tasks, resend, held>>
          /\ \A q \in Prefix : q # p => prod'[q] = prod[q] /\ pos'[q] = pos[q]
      BY <1>1, <2>3 DEF AppendSrcDelay, workVars
    <3>2. QED
      BY <1>1, <1>4, <3>1 DEF InHand, Sends
  <2>4. ASSUME NEW w \in Worker, Fetch(w) PROVE (InHand(k) \/ Sends(k))'
    <3>1. PICK j \in tasks : tasks' = tasks \ {j} /\ held' = [held EXCEPT ![w] = j]
      BY <2>4 DEF Fetch
    <3>2. held[w] # k /\ UNCHANGED <<resend, prod, pos>>
      BY <2>4, ListingAssumption DEF Fetch, HandInv, EmptyInv, prodVars
    <3>3. QED
      BY <1>1, <1>4, <3>1, <3>2 DEF InHand, Sends
  <2>5. QED
    BY <2>1, <2>2, <2>3, <2>4
<1>5. TrackedLive'
  BY <1>1, <1>2, <1>4 DEF CareInv, TrackedLive
<1>6. QED
  BY <1>3, <1>5 DEF CareInv

\* A worker lets go of a key: it is tracked no longer, or the failure is counted.
LEMMA ReleaseCare ==
    ASSUME IInv, HandInv, CareInv, NEW w \in Worker, MarkCompleted(w) \/ MarkFailed(w)
    PROVE  CareInv'
<1>1. /\ done' = done
      /\ UNCHANGED <<restored, toRestore, spawned, prod, pos, resend, tasks>>
      /\ failures => failures'
      /\ held' = [held EXCEPT ![w] = NoKey]
      /\ \/ tracked' = tracked \ {held[w]}
         \/ tracked' = tracked /\ failures'
  BY DEF MarkCompleted, MarkFailed, Release, prodVars
<1>2. \A p \in Prefix : Same(p)
  BY ReleaseFacts
<1>3. TendedInv'
  BY <1>1, <1>2, TendedFrame DEF CareInv
<1>4. ASSUME NEW p \in Prefix, p \in restored' \/ ps'[p].isNew,
             NEW k \in ps'[p].pending \cup ps'[p].failed
      PROVE  k \in tracked'
  <2>1. k \in tracked
    BY <1>1, <1>2, <1>4, ReleaseFacts DEF CareInv, PendingTracked, Same
  <2>2. QED
    BY <1>1, <1>4, <2>1, ReleaseFacts
<1>5. ASSUME NEW k \in tracked' PROVE k \in done' \/ failures' \/ (InHand(k))' \/ (Sends(k))'
  <2>1. CASE k = held[w]
    BY <1>1, <1>5, <2>1
  <2>2. CASE k # held[w]
    <3>1. k \in done \/ failures \/ InHand(k) \/ Sends(k)
      BY <1>1, <1>5 DEF CareInv, TrackedLive
    <3>2. InHand(k) => (InHand(k))'
      BY <1>1, <2>2 DEF InHand, IInv, TypeOK
    <3>3. Sends(k) => (Sends(k))'
      BY <1>1 DEF Sends
    <3>4. QED
      BY <1>1, <3>1, <3>2, <3>3
  <2>3. QED
    BY <2>1, <2>2
<1>6. QED
  BY <1>3, <1>4, <1>5 DEF CareInv, PendingTracked, TrackedLive

\* The keys that are tracked stay in their hands when another producer than theirs moves,
\* or theirs is not about to send.
LEMMA ReturnCare ==
    ASSUME IInv, HandInv, CareInv, NEW p \in Prefix,
           Resent(p) \/ ProducerDone(p) \/ (ListFail(p) /\ by[p] # "sync")
    PROVE  CareInv'
<1>1. /\ UNCHANGED <<ps, tracked, restored, toRestore, spawned, resend, tasks, held, done>>
      /\ failures => failures'
      /\ prod[p] # "send"
      /\ \A q \in Prefix : q # p => prod'[q] = prod[q] /\ pos'[q] = pos[q]
      /\ \/ prod'[p] \in Listings
         \/ prod'[p] = "error" /\ failures'
         \/ prod'[p] = "done" /\ prod[p] \in {"resendOnly", "wait"}
  <2>1. prod \in [Prefix -> Active \cup {"none", "done", "error"}] /\ pos \in [Prefix -> Nat]
    BY DEF IInv, TypeOK
  <2>2. CASE Resent(p)
    BY <2>1, <2>2 DEF Resent, BeginList, mgrVars, workVars, Listings
  <2>3. CASE ProducerDone(p)
    BY <2>1, <2>3 DEF ProducerDone, mgrVars, workVars
  <2>4. CASE ListFail(p) /\ by[p] # "sync"
    BY <2>1, <2>4 DEF ListFail, mgrVars, workVars
  <2>5. QED
    BY <2>2, <2>3, <2>4
<1>2. TendedInv' /\ PendingTracked'
  BY <1>1, TendedFrame DEF CareInv, Same, PendingTracked
<1>3. \A k \in tracked : Sends(k) => (Sends(k))'
  BY <1>1, TrackedFacts DEF Sends
<1>4. TrackedLive'
  BY <1>1, <1>3 DEF CareInv, TrackedLive, InHand
<1>5. QED
  BY <1>2, <1>4 DEF CareInv

\* A listing is done: its producer waits for the children, or returns.
LEMMA MarkListDoneCare ==
    ASSUME IInv, HandInv, CareInv, NEW p \in Prefix, MarkListDone(p)
    PROVE  CareInv'
<1> USE DEF MarkListDone, workVars
<1>1. /\ prod[p] = "list" /\ prod'[p] \in {"done", "wait"}
      /\ \A q \in Prefix : q # p => prod'[q] = prod[q] /\ ps'[q] = ps[q]
      /\ UNCHANGED <<tracked, restored, toRestore, spawned, pos, resend, tasks, held, failures, done>>
  <2>1. /\ ps \in [Prefix -> PrefixState]
        /\ prod \in [Prefix -> Active \cup {"none", "done", "error"}]
    BY DEF IInv, TypeOK
  <2>2. prod[p] = "list" /\ prod'[p] \in {"done", "wait"} /\ \A q \in Prefix : q # p => prod'[q] = prod[q]
    BY <2>1
  <2>3. \A q \in Prefix : q # p => ps'[q] = ps[q]
    BY <2>1 DEF UpdateState
  <2>4. QED
    BY <2>2, <2>3
<1>2. /\ ps'[p].pending = ps[p].pending /\ ps'[p].failed = ps[p].failed /\ ps'[p].listDone
      /\ ps[p].present => (ps'[p].isNew <=> ps[p].isNew)
  <2>1. ps'[p] = [GetOrCreate(p) EXCEPT !.listDone = TRUE]
    BY DEF UpdateState, IInv, TypeOK
  <2>2. GetOrCreate(p) \in PrefixState
    BY GetFacts DEF IInv
  <2>3. /\ ps'[p].pending = GetOrCreate(p).pending /\ ps'[p].failed = GetOrCreate(p).failed
        /\ ps'[p].listDone /\ ps'[p].isNew = GetOrCreate(p).isNew
    BY <2>1, <2>2 DEF PrefixState
  <2>4. ps[p].present => (ps'[p].isNew <=> ps[p].isNew)
    BY <2>3 DEF GetOrCreate
  <2>5. QED
    BY <2>3, <2>4, GetFacts DEF IInv
<1>3. TendedInv'
  <2>1. ASSUME NEW q \in Prefix, q # p PROVE (Tended(q))'
    <3>1. Tended(q)
      BY DEF CareInv, TendedInv
    <3>2. QED
      BY <1>1, <2>1, <3>1 DEF Tended, Restores, Spawned
  <2>2. (Tended(p))'
    BY <1>1, <1>2 DEF Tended
  <2>3. QED
    BY <2>1, <2>2 DEF TendedInv
<1>4. PendingTracked'
  <2>1. ps[p].present => ps[p].pending \cup ps[p].failed \subseteq tracked
    BY <1>1 DEF CareInv, PendingTracked, HandInv, OriginInv
  <2>2. ~ps[p].present => ps[p].pending \cup ps[p].failed = {}
    BY AbsentFacts DEF NoState
  <2>3. QED
    BY <1>1, <1>2, <2>1, <2>2 DEF CareInv, PendingTracked
<1>5. TrackedLive'
  <2>1. \A k \in tracked : Sends(k) => (Sends(k))'
    BY <1>1, TrackedFacts DEF Sends
  <2>2. QED
    BY <1>1, <2>1 DEF CareInv, TrackedLive, InHand
<1>6. QED
  BY <1>3, <1>4, <1>5 DEF CareInv

\* A state that is done goes, and with it what there was to look after.
LEMMA ReapCare ==
    ASSUME IInv, CareInv, NEW p \in Prefix, ReapPrefix(p)
    PROVE  CareInv'
<1>1. /\ ps'[p] = NoState /\ \A q \in Prefix : q # p => ps'[q] = ps[q]
      /\ UNCHANGED <<tracked, restored, toRestore, spawned, prod, pos, resend, tasks, held,
                     failures, done>>
  BY DEF ReapPrefix, prodVars, workVars, IInv, TypeOK
<1>2. TendedInv'
  <2>1. ASSUME NEW q \in Prefix, q # p PROVE (Tended(q))'
    <3>1. Tended(q)
      BY DEF CareInv, TendedInv
    <3>2. QED
      BY <1>1, <2>1, <3>1 DEF Tended, Restores, Spawned
  <2>2. (Tended(p))'
    BY <1>1 DEF Tended, NoState
  <2>3. QED
    BY <2>1, <2>2 DEF TendedInv
<1>3. PendingTracked' /\ TrackedLive'
  BY <1>1 DEF CareInv, PendingTracked, TrackedLive, InHand, Sends, NoState
<1>4. QED
  BY <1>2, <1>3 DEF CareInv

\* A prefix is restored: its keys are tracked and queued again.
LEMMA RestoreCare ==
    ASSUME IInv, HandInv, CareInv, NEW p \in Prefix, NEW who \in {"top", "parent"},
           Restorable(p), RestorePrefix(p, who),
           toRestore \ {p} \subseteq toRestore', spawned \ {p} \subseteq spawned',
           UNCHANGED <<tasks, held, failures, done>>
    PROVE  CareInv'
<1> DEFINE again == ps[p].pending \cup ps[p].failed
<1>1. /\ ps'[p].listDone = ps[p].listDone /\ ps'[p].pending = again /\ ps'[p].failed = {}
      /\ \A q \in Prefix : q # p => ps'[q] = ps[q] /\ prod'[q] = prod[q]
      /\ prod'[p] = (IF ps[p].listDone THEN "resendOnly" ELSE "resend")
      /\ p \notin restored /\ ~ps[p].isNew
  <2>1. prod'[p] = (IF ps[p].listDone THEN "resendOnly" ELSE "resend") /\ p \notin restored
    BY DEF Restorable, RestorePrefix, IInv, TypeOK
  <2>2. QED
    BY <2>1, RestoreFacts
<1>2. /\ restored' = restored \cup {p} /\ tracked' = tracked \cup again /\ pos' = pos
      /\ resend'[p] = again /\ \A q \in Prefix : q # p => resend'[q] = resend[q]
  BY DEF RestorePrefix, IInv, TypeOK
<1>3. \A k \in tracked : Owner(k) \in Prefix /\ Owner(k) # p
  BY <1>1, TrackedFacts DEF HandInv, TrackedOrigin
<1>4. TendedInv'
  <2>1. ASSUME NEW q \in Prefix, q # p PROVE (Tended(q))'
    <3>1. Tended(q)
      BY DEF CareInv, TendedInv
    <3>2. QED
      BY <1>1, <1>2, <2>1, <3>1 DEF Tended, Restores, Spawned
  <2>2. (Tended(p))'
    BY <1>1 DEF Tended
  <2>3. QED
    BY <2>1, <2>2 DEF TendedInv
<1>5. PendingTracked'
  BY <1>1, <1>2 DEF CareInv, PendingTracked
<1>6. ASSUME NEW k \in tracked' PROVE k \in done' \/ failures' \/ (InHand(k))' \/ (Sends(k))'
  <2>1. CASE k \in tracked
    <3>1. k \in done \/ failures \/ InHand(k) \/ Sends(k)
      BY <2>1 DEF CareInv, TrackedLive
    <3>2. InHand(k) => (InHand(k))'
      BY <1>2, <1>3, <2>1 DEF InHand
    <3>3. Sends(k) => (Sends(k))'
      BY <1>1, <1>2, <1>3, <2>1 DEF Sends
    <3>4. QED
      BY <3>1, <3>2, <3>3
  <2>2. CASE k \in again
    <3>1. Owner(k) = p
      BY <2>2 DEF IInv, StatesInv, WellFormed
    <3>2. QED
      BY <1>2, <2>2, <3>1 DEF InHand
  <2>3. QED
    BY <1>2, <1>6, <2>1, <2>2
<1>7. QED
  BY <1>4, <1>5, <1>6 DEF CareInv, TrackedLive

\* A goroutine that has nothing to restore leaves the state to who looks after it.
LEMMA SkipCare ==
    ASSUME CareInv, \A p \in Prefix : Restores(p) => p \in toRestore',
           \A p \in Prefix : Spawned(p) => p \in spawned',
           UNCHANGED <<ps, tracked, restored, prod, pos, resend, tasks, held, failures, done>>
    PROVE  CareInv'
<1>1. ASSUME NEW q \in Prefix PROVE (Tended(q))'
  <2>1. Tended(q)
    BY DEF CareInv, TendedInv
  <2>2. QED
    BY <2>1 DEF Tended, Restores, Spawned
<1>2. PendingTracked' /\ TrackedLive'
  BY DEF CareInv, PendingTracked, TrackedLive, InHand, Sends
<1>3. QED
  BY <1>1, <1>2 DEF CareInv, TendedInv

\* The goroutines of restoreFromCheckpoint and of the children.
LEMMA RestoreStepCare ==
    ASSUME IInv, HandInv, CareInv, NEW p \in Prefix, RestoreTop(p) \/ RestoreChild(p)
    PROVE  CareInv'
<1>1. /\ toRestore \ {p} \subseteq toRestore' /\ spawned \ {p} \subseteq spawned'
      /\ UNCHANGED <<tasks, held, failures, done>>
  BY DEF RestoreTop, RestoreChild, workVars
<1>2. CASE Restorable(p) /\ (RestorePrefix(p, "top") \/ RestorePrefix(p, "parent"))
  BY <1>1, <1>2, RestoreCare
<1>3. CASE RestoreTop(p) /\ ~Restorable(p)
  <2>1. /\ UNCHANGED <<ps, tracked, restored, prod, pos, resend, spawned>>
        /\ toRestore' = toRestore \ {p} /\ ~Restores(p)
    BY <1>3 DEF RestoreTop, Restorable, Restores, mgrVars
  <2>2. QED
    BY <1>1, <2>1, SkipCare DEF Restores, Spawned
<1>4. CASE /\ p \in spawned /\ ps[p].present /\ ~ps[p].isNew /\ p \in restored
           /\ UNCHANGED <<mgrVars, prod, by, seen, pos, resend>>
  <2>1. ~Restores(p) /\ ~Spawned(p)
    BY <1>4 DEF Restores, Spawned
  <2>2. QED
    BY <1>1, <1>4, <2>1, SkipCare DEF mgrVars, Restores, Spawned
<1>5. CASE /\ p \in spawned /\ (~ps[p].present \/ ps[p].isNew)
           /\ BeginList(p, "parent") /\ UNCHANGED <<mgrVars, resend>>
  <2>1. /\ prod'[p] = "list"
        /\ \A q \in Prefix : q # p => prod'[q] = prod[q] /\ pos'[q] = pos[q]
        /\ UNCHANGED <<ps, tracked, restored, resend>>
    BY <1>5 DEF BeginList, mgrVars, IInv, TypeOK
  <2>2. TendedInv'
    <3>1. ASSUME NEW q \in Prefix, q # p PROVE (Tended(q))'
      <4>1. Tended(q)
        BY DEF CareInv, TendedInv
      <4>2. QED
        BY <1>1, <2>1, <3>1, <4>1 DEF Tended, Restores, Spawned
    <3>2. (Tended(p))'
      BY <2>1 DEF Tended
    <3>3. QED
      BY <3>1, <3>2 DEF TendedInv
  <2>3. \A k \in tracked : Sends(k) => (Sends(k))'
    <3>1. prod[p] # "send"
      BY <1>5 DEF IInv, SpawnInv, Relying
    <3>2. QED
      BY <2>1, <3>1, TrackedFacts DEF Sends
  <2>4. PendingTracked' /\ TrackedLive'
    BY <1>1, <2>1, <2>3 DEF CareInv, PendingTracked, TrackedLive, InHand
  <2>5. QED
    BY <2>2, <2>4 DEF CareInv
<1>6. CASE RestoreTop(p)
  BY <1>2, <1>3, <1>6 DEF RestoreTop
<1>7. CASE RestoreChild(p)
  BY <1>2, <1>4, <1>5, <1>7 DEF RestoreChild
<1>8. QED
  BY <1>6, <1>7

\* The listing goroutine finds a key, or a child, whose state is new if there was none.
LEMMA ListNextCare ==
    ASSUME IInv, CareInv, NEW p \in Prefix, ListNext(p)
    PROVE  CareInv'
<1> DEFINE e == Listing[p][seen[p] + 1]
<1>1. /\ UNCHANGED <<tracked, restored, toRestore, prod, pos, resend, tasks, held, failures, done>>
      /\ spawned \subseteq spawned' /\ ps \in [Prefix -> PrefixState]
  BY DEF ListNext, workVars, IInv, TypeOK
<1>2. ASSUME NEW q \in Prefix
      PROVE  \/ ps'[q] = ps[q]
             \/ ~ps[q].present /\ ps'[q] = NewState /\ q \in spawned'
  BY <1>1 DEF ListNext, RegisterChildPrefix, GetOrCreate
<1>3. ASSUME NEW q \in Prefix PROVE (Tended(q))'
  <2>1. Tended(q)
    BY DEF CareInv, TendedInv
  <2>2. CASE ps'[q] = ps[q]
    BY <1>1, <2>1, <2>2 DEF Tended, Restores, Spawned
  <2>3. CASE ps'[q] = NewState /\ q \in spawned'
    BY <2>3 DEF Tended, Spawned, NewState
  <2>4. QED
    BY <1>2, <2>2, <2>3
<1>4. ASSUME NEW q \in Prefix, q \in restored' \/ ps'[q].isNew
      PROVE  ps'[q].pending \cup ps'[q].failed \subseteq tracked'
  <2>1. CASE ps'[q] = ps[q]
    BY <1>1, <1>4, <2>1 DEF CareInv, PendingTracked
  <2>2. CASE ps'[q] = NewState
    BY <2>2 DEF NewState
  <2>3. QED
    BY <1>2, <2>1, <2>2
<1>5. TrackedLive'
  BY <1>1 DEF CareInv, TrackedLive, InHand, Sends
<1>6. QED
  BY <1>3, <1>4, <1>5 DEF CareInv, TendedInv, PendingTracked

\* What produce records as pending it is about to send.
LEMMA ProduceCare ==
    ASSUME IInv, HandInv, CareInv, NEW p \in Prefix, Produce(p)
    PROVE  CareInv'
<1> DEFINE e == Listing[p][pos[p] + 1]
<1>1. /\ prod[p] = "list" /\ pos[p] < seen[p] /\ pos[p] \in Nat /\ seen[p] \in Nat
      /\ \A q \in Prefix : q # p => ps'[q] = ps[q] /\ prod'[q] = prod[q] /\ pos'[q] = pos[q]
      /\ UNCHANGED <<restored, toRestore, spawned, resend, tasks, held, failures>>
  BY ProduceFacts DEF IInv, TypeOK
<1>2. pos[p] + 1 \in 1..Len(Listing[p])
  BY <1>1, ListingFacts DEF IInv, ProducerInv
<1>3. \/ UNCHANGED <<ps, tracked, prod, done>> /\ pos'[p] = pos[p] + 1
      \/ \E n : RecordsEntry(p, n)
  BY ProduceFacts
<1>4. done \subseteq done' /\ tracked \subseteq tracked' /\ prod'[p] \in Listings
  BY <1>1, <1>3 DEF RecordsEntry, Listings
<1>5. TendedInv'
  <2>1. ASSUME NEW q \in Prefix, q # p PROVE (Tended(q))'
    <3>1. Tended(q)
      BY DEF CareInv, TendedInv
    <3>2. QED
      BY <1>1, <2>1, <3>1 DEF Tended, Restores, Spawned
  <2>2. (Tended(p))'
    BY <1>4 DEF Tended, Listings
  <2>3. QED
    BY <2>1, <2>2 DEF TendedInv
<1>6. PendingTracked'
  <2>1. ps'[p].pending \cup ps'[p].failed \subseteq tracked' \/ ~(p \in restored' \/ ps'[p].isNew)
    <3>1. CASE UNCHANGED <<ps, tracked>>
      BY <1>1, <3>1 DEF CareInv, PendingTracked
    <3>2. CASE ~UNCHANGED <<ps, tracked>>
      <4>1. PICK n : RecordsEntry(p, n)
        BY <1>3, <3>2
      <4>2. ps[p].present => ps[p].pending \cup ps[p].failed \subseteq tracked
        BY <1>1 DEF CareInv, PendingTracked, HandInv, OriginInv
      <4>3. ~ps[p].present => ps[p].pending \cup ps[p].failed = {}
        BY AbsentFacts DEF NoState
      <4>4. QED
        BY <4>1, <4>2, <4>3 DEF RecordsEntry
    <3>3. QED
      BY <3>1, <3>2
  <2>2. QED
    BY <1>1, <1>4, <2>1 DEF CareInv, PendingTracked
<1>7. ASSUME NEW k \in tracked' PROVE k \in done' \/ failures' \/ (InHand(k))' \/ (Sends(k))'
  <2>1. CASE k \in tracked
    <3>1. k \in done \/ failures \/ InHand(k) \/ Sends(k)
      BY <2>1 DEF CareInv, TrackedLive
    <3>2. InHand(k) => (InHand(k))'
      BY <1>1 DEF InHand
    <3>3. Sends(k) => (Sends(k))'
      <4>1. k \in Key /\ Owner(k) \in Prefix
        BY <2>1, TrackedFacts
      <4>2. QED
        BY <1>1, <4>1 DEF Sends
    <3>4. QED
      BY <1>1, <1>4, <3>1, <3>2, <3>3
  <2>2. CASE k \notin tracked
    <3>1. k = e /\ e \in Key /\ prod'[p] = "send" /\ pos' = pos
      BY <1>3, <1>7, <2>2 DEF RecordsEntry
    <3>2. Owner(e) = p
      BY <1>2, <3>1, PlaceFacts
    <3>3. QED
      BY <3>1, <3>2 DEF Sends
  <2>3. QED
    BY <2>1, <2>2
<1>8. QED
  BY <1>5, <1>6, <1>7 DEF CareInv, TrackedLive

\* Every step leaves each state looked after, and each tracked key in a hand.
LEMMA NextCare ==
    ASSUME IInv, HandInv, CareInv, [Next]_vars
    PROVE  CareInv'
<1>1. CASE Over \/ UNCHANGED vars
  BY <1>1, QuietCare DEF Over, vars
<1>2. CASE Start
  BY <1>2, StartCare
<1>3. CASE EndStep
  <2>1. CASE ExitFailed
    BY <2>1, VanishCare DEF ExitFailed
  <2>2. CASE CloseTasks \/ WorkersDone \/ DropCheckpoint \/ ExitCompleted
    BY <2>2, QuietCare
       DEF CloseTasks, WorkersDone, DropCheckpoint, ExitCompleted, mgrVars, prodVars, workVars
  <2>3. CASE DelayedDelete
    <3>1. /\ failures => failures'
          /\ done \subseteq done'
          /\ UNCHANGED <<ps, tracked, restored, toRestore, spawned, prod, pos, resend, tasks, held>>
      BY <2>3 DEF DelayedDelete, mgrVars, prodVars, workVars
    <3>2. QED
      BY <3>1, QuietCare
  <2>4. QED
    BY <1>3, <2>1, <2>2, <2>3 DEF EndStep
<1>4. CASE SaveBegin \/ SaveStep
  BY <1>4, QuietCare DEF SaveBegin, SaveStep, SavePrefix, SaveDelayLists, SaveWrite, mgrVars,
                         prodVars, workVars
<1>5. CASE Fault
  <2>1. CASE Crash
    BY <2>1, VanishCare DEF Crash
  <2>2. ASSUME NEW p \in Prefix, ListFail(p) PROVE CareInv'
    <3>1. CASE by[p] = "sync"
      BY <2>2, <3>1, VanishCare DEF ListFail
    <3>2. CASE by[p] # "sync"
      BY <2>2, <3>2, ReturnCare
    <3>3. QED
      BY <3>1, <3>2
  <2>3. QED
    BY <1>5, <2>1, <2>2, ReleaseCare DEF Fault
<1>6. ASSUME NEW p \in Prefix, ProducerStep(p) \/ ReapPrefix(p) PROVE CareInv'
  BY <1>6, RestoreStepCare, HandCare, ReturnCare, ListNextCare, ProduceCare, MarkListDoneCare,
     ReapCare DEF ProducerStep
<1>7. ASSUME NEW w \in Worker, WorkerStep(w) PROVE CareInv'
  <2>1. CASE Copy(w)
    BY <2>1, QuietCare DEF Copy, mgrVars, prodVars
  <2>2. QED
    BY <1>7, <2>1, HandCare, ReleaseCare DEF WorkerStep
<1>8. QED
  BY <1>1, <1>2, <1>3, <1>4, <1>5, <1>6, <1>7 DEF Next

\* A step that changes what failed or was swept ends the process, or is a fault, or a delete.
LEMMA NextSwept ==
    ASSUME IInv, SweptInv, [Next]_vars
    PROVE  SweptInv'
<1>1. done \subseteq done'
  BY DoneGrows
<1>2. CASE Vanish
  BY <1>2, VanishCare
<1>3. CASE DelayedDelete
  <2>1. PICK k \in Key : swept' = swept \cup {k} /\ (k \in done' \/ failures')
    BY <1>3 DEF DelayedDelete, IInv, TypeOK
  <2>2. failures => failures'
    BY <1>3 DEF DelayedDelete
  <2>3. QED
    BY <1>1, <2>1, <2>2 DEF SweptInv
<1>4. CASE ~Vanish /\ ~DelayedDelete
  <2>1. swept' = swept /\ (failures => failures')
    <3>1. CASE Over \/ UNCHANGED vars \/ Start
      BY <3>1 DEF Over, vars, Start
    <3>2. CASE EndStep
      BY <1>4, <3>2 DEF EndStep, CloseTasks, WorkersDone, DropCheckpoint, ExitFailed,
                        ExitCompleted, delVars
    <3>3. CASE SaveBegin \/ SaveStep
      BY <3>3 DEF SaveBegin, SaveStep, SavePrefix, SaveDelayLists, SaveWrite, delVars
    <3>4. CASE Fault
      BY <1>4, <3>4 DEF Fault, Crash, ListFail, MarkFailed, delVars
    <3>5. ASSUME NEW p \in Prefix, ProducerStep(p) \/ ReapPrefix(p)
          PROVE  swept' = swept /\ (failures => failures')
      <4>1. CASE RestoreTop(p) \/ RestoreChild(p) \/ Resend(p) \/ Resent(p) \/ ListNext(p)
        BY <4>1 DEF RestoreTop, RestoreChild, Resend, Resent, ListNext, delVars
      <4>2. CASE Produce(p)
        BY <4>2 DEF Produce
      <4>3. CASE SendTask(p) \/ AppendSrcDelay(p) \/ MarkListDone(p) \/ ProducerDone(p) \/ ReapPrefix(p)
        BY <4>3 DEF SendTask, AppendSrcDelay, MarkListDone, ProducerDone, ReapPrefix, delVars
      <4>4. QED
        BY <3>5, <4>1, <4>2, <4>3 DEF ProducerStep
    <3>6. ASSUME NEW w \in Worker, WorkerStep(w)
          PROVE  swept' = swept /\ (failures => failures')
      BY <3>6 DEF WorkerStep, Fetch, Copy, MarkCompleted, delVars
    <3>7. QED
      BY <3>1, <3>2, <3>3, <3>4, <3>5, <3>6 DEF Next
  <2>2. QED
    BY <1>1, <2>1 DEF SweptInv
<1>5. QED
  BY <1>2, <1>3, <1>4

\* Once the workers have returned nothing is queued and nobody works.
LEMMA NextIdle ==
    ASSUME IInv, IdleInv, [Next]_vars
    PROVE  IdleInv'
<1> SUFFICES ASSUME run' \in Ended \ {"closed"}
             PROVE  tasks' = {} /\ \A w \in Worker : wst'[w] = "idle"
  BY DEF IdleInv
<1>1. CASE Over \/ UNCHANGED vars
  BY <1>1 DEF Over, vars, IdleInv
<1>2. ~Start
  BY DEF Start, Ended
<1>3. CASE EndStep
  <2>1. CASE CloseTasks \/ ExitFailed
    BY <2>1 DEF CloseTasks, ExitFailed, Ended
  <2>2. CASE WorkersDone
    BY <2>2 DEF WorkersDone, workVars
  <2>3. CASE DropCheckpoint \/ DelayedDelete \/ ExitCompleted
    BY <2>3 DEF DropCheckpoint, DelayedDelete, ExitCompleted, workVars, IdleInv, Ended
  <2>4. QED
    BY <1>3, <2>1, <2>2, <2>3 DEF EndStep
<1>4. CASE SaveBegin \/ SaveStep
  BY <1>4 DEF SaveBegin, SaveStep, SavePrefix, SaveDelayLists, SaveWrite, workVars, IdleInv
<1>5. CASE Fault
  BY <1>5 DEF Fault, Crash, ListFail, MarkFailed, Ended, IdleInv, workVars
<1>6. ASSUME NEW p \in Prefix, ProducerStep(p) \/ ReapPrefix(p)
      PROVE  tasks' = {} /\ \A w \in Worker : wst'[w] = "idle"
  <2>1. run' = run /\ wst' = wst /\ (run # "up" => tasks' = tasks)
    <3>1. CASE RestoreTop(p) \/ RestoreChild(p) \/ Resend(p) \/ Resent(p) \/ ListNext(p)
      BY <3>1 DEF RestoreTop, RestoreChild, Resend, Resent, ListNext, workVars
    <3>2. CASE Produce(p)
      BY <3>2 DEF Produce, workVars
    <3>3. CASE SendTask(p) \/ AppendSrcDelay(p) \/ MarkListDone(p) \/ ProducerDone(p) \/ ReapPrefix(p)
      BY <3>3 DEF SendTask, AppendSrcDelay, MarkListDone, ProducerDone, ReapPrefix, workVars
    <3>4. QED
      BY <1>6, <3>1, <3>2, <3>3 DEF ProducerStep
  <2>2. QED
    BY <2>1 DEF IdleInv, Ended
<1>7. ASSUME NEW w \in Worker, WorkerStep(w)
      PROVE  tasks' = {} /\ \A v \in Worker : wst'[v] = "idle"
  <2>1. run' = run /\ (tasks # {} \/ wst[w] # "idle")
    BY <1>7 DEF WorkerStep, Fetch, Copy, MarkCompleted
  <2>2. QED
    BY <2>1 DEF IdleInv
<1>8. QED
  BY <1>1, <1>2, <1>3, <1>4, <1>5, <1>6, <1>7 DEF Next

\* A run that is not cut short and ends without a failure: nobody is ahead of a key, no
\* state holds one back, and each delayed delete has succeeded.
LEMMA SweepDone ==
    ASSUME IInv, HandInv, ExitInv, FinishInv, ExitCompleted, Sound
    PROVE  done = Key
<1>1. /\ run = "sweeping" /\ ~failures /\ srcDelay \cup dstDelay \subseteq swept
      /\ toRestore = {} /\ tasks = {} /\ Root \in Prefix
      /\ \A w \in Worker : wst[w] = "idle"
      /\ \A p \in Prefix : prod[p] \notin Active
  BY ListingAssumption DEF ExitCompleted, ExitInv, CourseInv, FinishInv, IdleInv, Ended
<1>2. spawned = {}
  <2>1. spawned \subseteq Prefix /\ prod[Root] \notin Listings \cup {"wait"}
    BY <1>1 DEF IInv, TypeOK, Listings, Active
  <2>2. QED
    BY <2>1 DEF ExitInv, CourseInv, ParentInv
<1>3. ASSUME NEW p \in Prefix, ps[p].present
      PROVE  ps[p].listDone /\ ps[p].pending \cup ps[p].failed \subseteq tracked
  <2>1. prod[p] # "none" /\ prod[p] # "error" /\ (prod[p] = "done" => ps[p].listDone)
    BY <1>1, <1>2, <1>3 DEF FinishInv, CareInv, TendedInv, Tended, Restores, Spawned
  <2>2. prod[p] = "done"
    BY <1>1, <2>1 DEF IInv, TypeOK
  <2>3. p \in restored \/ ps[p].isNew
    BY <1>3, <2>1 DEF HandInv, OriginInv
  <2>4. QED
    BY <2>1, <2>2, <2>3 DEF FinishInv, CareInv, PendingTracked
<1>4. ASSUME NEW k \in tracked PROVE k \in done
  <2>1. k \in Key /\ Owner(k) \in Prefix
    BY TrackedFacts
  <2>2. ~Sends(k)
    BY <1>1, <2>1 DEF Sends, Active
  <2>3. resend[Owner(k)] = {}
    BY <1>1, <2>1 DEF HandInv, ResendInv2, Active
  <2>4. \A w \in Worker : held[w] # k
    BY <1>1, <2>1, ListingAssumption DEF HandInv, EmptyInv
  <2>5. QED
    BY <1>1, <2>2, <2>3, <2>4 DEF FinishInv, CareInv, TrackedLive, InHand
<1>5. ASSUME NEW k \in Key PROVE k \in done
  <2>1. Owner(k) \in Prefix
    BY KeyPlace
  <2>2. Settled(k) \/ Ahead(k)
    BY <1>1 DEF ExitInv, WorkInv
  <2>3. ~ComingUp(Owner(k))
    BY <1>1 DEF ComingUp, Restores, Listings, Active
  <2>4. ~Ahead(k)
    BY <1>1, <1>3, <2>1, <2>3 DEF Ahead, Listings, Active
  <2>5. CASE Delayed(k)
    BY <1>1, <2>5 DEF Delayed, FinishInv, SweptInv
  <2>6. CASE k \in ps[Owner(k)].pending \cup ps[Owner(k)].failed
    <3>1. ps[Owner(k)].present
      BY <2>1, <2>6, AbsentFacts DEF NoState
    <3>2. QED
      BY <1>3, <1>4, <2>1, <2>6, <3>1
  <2>7. QED
    BY <2>2, <2>4, <2>5, <2>6 DEF Settled, Accounted
<1>6. QED
  BY <1>5 DEF IInv, TypeOK

\* Only the exit without a failure completes a job.
LEMMA CompletedBy ==
    ASSUME [Next]_vars, IInv, run' = "completed", run # "completed"
    PROVE  ExitCompleted
<1>1. ~Start /\ ~SaveBegin /\ ~SaveStep /\ ~Over /\ vars' # vars
  BY DEF Start, SaveBegin, SaveStep, SavePrefix, SaveDelayLists, SaveWrite, Over, vars
<1>2. ~Fault
  BY DEF Fault, Crash, ListFail, MarkFailed
<1>3. \A p \in Prefix : ~ProducerStep(p) /\ ~ReapPrefix(p)
  BY DEF ProducerStep, RestoreTop, RestoreChild, Resend, Resent, ListNext, Produce,
         SendTask, AppendSrcDelay, MarkListDone, ProducerDone, ReapPrefix
<1>4. \A w \in Worker : ~WorkerStep(w)
  BY DEF WorkerStep, Fetch, Copy, MarkCompleted
<1>5. EndStep
  BY <1>1, <1>2, <1>3, <1>4 DEF Next
<1>6. QED
  BY <1>5 DEF EndStep, CloseTasks, WorkersDone, DropCheckpoint, DelayedDelete, ExitFailed

\* A run that reports success has handled every key, its delayed deletes included, if no run
\* is cut short and what a failed run saves at its exit arrives: however many listings of
\* children, tasks, deletes, the delete of the checkpoint among them, and saves on the way fail.
THEOREM SweptNothingLost ==
    NeverCut /\ (ToTheEnd \/ MaxFaults = 0) => (Spec /\ ExitsSaved => []NoKeyLost)
<1> SUFFICES ASSUME NeverCut, ToTheEnd \/ MaxFaults = 0
             PROVE  Spec /\ ExitsSaved => []NoKeyLost
  OBVIOUS
<1>1. Init => FinishInv
  BY ListingAssumption
     DEF Init, FinishInv, CareInv, TendedInv, Tended, PendingTracked, TrackedLive, SweptInv,
         IdleInv, NoKeyLost, NoState, Ended
<1>2. IInv /\ HandInv /\ ExitInv /\ FinishInv /\ [Next]_vars /\ IInv' => FinishInv'
  <2> SUFFICES ASSUME IInv, HandInv, ExitInv, FinishInv, [Next]_vars, IInv' PROVE FinishInv'
    OBVIOUS
  <2>1. CareInv' /\ SweptInv' /\ IdleInv' /\ faults' <= MaxFaults
    BY NextCare, NextSwept, NextIdle, NextFaults DEF FinishInv
  <2>2. done \subseteq done' /\ done' \subseteq Key
    BY DoneGrows DEF IInv, TypeOK
  <2>3. Sound
    BY ListingAssumption DEF Sound, ToTheEnd, FinishInv, IInv, TypeOK
  <2>4. NoKeyLost'
    BY <2>2, <2>3, CompletedBy, SweepDone DEF NoKeyLost, FinishInv
  <2>5. QED
    BY <2>1, <2>4 DEF FinishInv
<1>3. QED
  BY <1>1, <1>2, ExitInvariant, PTL DEF Spec, FinishInv
=============================================================================
