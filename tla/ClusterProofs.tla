---------------------------- MODULE ClusterProofs ----------------------------
(***************************************************************************)
(* Proofs about Cluster for every set of keys and hosts: the types, that   *)
(* the checkpoint keeps a key until somebody has handled it, that delayed  *)
(* deletes are reported, and that one loss never ends as a success.        *)
(***************************************************************************)
EXTENDS Cluster, FiniteSetTheorems, SequenceTheorems, TLAPS

\* the tasks a remote process has been given and has not begun
Hand(h) == answer[h] \cup inbox[h]

\* the keys that nobody has before him any more: handled, failed or lost
Out == {k \in Key \ (unlisted \cup queue) : \A h \in Host : k \notin Hand(h)}

\* a key is in one place
PlaceInv ==
    /\ unlisted \cap queue = {}
    /\ \A h \in Host : Hand(h) \cap (unlisted \cup queue) = {} /\ answer[h] \cap inbox[h] = {}
    /\ \A g, h \in Host : g # h => Hand(g) \cap Hand(h) = {}
    /\ \A k \in Key : doneBy[k] # Nobody => k \in Out

\* a process that has no more to do has no tasks left, one that left has nothing to report
StageInv ==
    \A h \in Host :
        /\ fetch[h] # "answered" => answer[h] = {}
        /\ alive[h] # "up" => fetch[h] = "done" /\ inbox[h] = {}
        /\ alive[h] = "gone" => dirs[h] = {}
        /\ alive[h] = "reporting" => report[h].stage # "none" /\ report[h].count = count[h]
        /\ task[h] # NoTask => task[h].key \in Key

\* a counter counts a key twice at most, and a report no more than the counters
CountInv ==
    \A h \in Host :
        /\ count[h].ok <= 2 * Cardinality(Out) /\ count[h].bad <= 2 * Cardinality(Out)
        /\ Running(h) /\ report[h].stage # "none" =>
               report[h].count.ok <= count[h].ok /\ report[h].count.bad <= count[h].bad

\* what is reported as completed has been handled
DoneInv ==
    \A h \in Host :
        /\ \A k \in done[h] \cup report[h].done : doneBy[k] # Nobody
        /\ task[h].ok => doneBy[task[h].key] # Nobody

\* the job ends when nothing is left to do
EndInv ==
    outcome # "running" => unlisted = {} /\ queue = {} /\ \A h \in Host : ~Running(h)

\* a delayed delete is with the manager, or still to be reported
DelayInv ==
    deleteSrcAfter =>
        \A d \in Dir :
            /\ doneBy[d] = Manager => d \in ToSet(delayDel)
            /\ \A h \in Host :
                   doneBy[d] = h /\ alive[h] # "dead" =>
                       \/ d \in ToSet(delayDel) \/ d \in dirs[h]
                       \/ report[h].stage = "sent" /\ d \in report[h].dirs

\* without --delete-src-after there is none
NoDelayInv ==
    ~deleteSrcAfter => delayDel = <<>> /\ \A h \in Host : dirs[h] = {} /\ report[h].dirs = {}

IInv == /\ TypeOK /\ PlaceInv /\ StageInv /\ CountInv /\ DoneInv /\ OwedUntilDone
        /\ EndInv /\ DelayInv /\ NoDelayInv

-----------------------------------------------------------------------------
(* What one loss can do.                                                   *)

\* a failure that has not reached the manager yet
Unreported(h) ==
    \/ alive[h] = "up" /\ count[h].bad > 0
    \/ report[h].stage = "sent" /\ report[h].count.bad > 0

\* what a process counted before the answer to its last report has no failures
NoBad(h) ==
    alive[h] \in {"ending", "gone"} =>
        /\ alive[h] = "ending" => count[h].bad = 0
        /\ report[h].stage # "none" => report[h].count.bad = 0

\* no task is lost: who is neither waiting nor handled has failed, and the failures of a
\* process that had the answer to its last report are known
NothingLost ==
    /\ orphans = 0 /\ \A h \in Host : alive[h] # "dead"
    /\ \A h \in Host : failed > 0 \/ NoBad(h)
    /\ \A h \in Host : report[h].stage = "applied" /\ report[h].count.bad > 0 => failed > 0
    /\ \A k \in Out : doneBy[k] # Nobody \/ failed > 0 \/ \E h \in Host : Unreported(h)

\* where a success is counted: by the process that had it, in its report, by the manager
Place == {"kept", "sent", "counted"}
Of(w, h, x) == {k \in Key : doneBy[k] = h /\ w[k] = x}
Counted(w) == {k \in Key : doneBy[k] # Nobody /\ w[k] = "counted"}

CountedAt(w) ==
    /\ handled <= Cardinality(Counted(w)) + failed
    /\ \A h \in Host :
        /\ Running(h) =>
               count[h].ok <= Cardinality(Of(w, h, "kept"))
                              + IF report[h].stage = "none" THEN 0 ELSE report[h].count.ok
        /\ report[h].stage = "sent" => report[h].count.ok <= Cardinality(Of(w, h, "sent"))

\* no success is counted twice
CountedOnce == \E w \in [Key -> Place] : CountedAt(w)

LossInv ==
    ~deleteSrcAfter =>
        /\ outcome = "running" => /\ trouble = 0 => NothingLost /\ CountedOnce
                                  /\ NothingLost \/ CountedOnce
        /\ LossIsFailure

-----------------------------------------------------------------------------
(* Sets of keys.                                                           *)

\* they are finite
LEMMA Subsets ==
  ASSUME NEW S \in SUBSET Key
  PROVE  /\ IsFiniteSet(S) /\ Cardinality(S) \in Nat
         /\ Cardinality(Key) \in Nat /\ Cardinality(S) <= Cardinality(Key)
  BY ClusterAssumption, FS_Subset, FS_CardinalityType

\* a subset has no more members
LEMMA NoMore ==
  ASSUME NEW S \in SUBSET Key, NEW T \in SUBSET Key, S \subseteq T
  PROVE  Cardinality(S) <= Cardinality(T)
  BY Subsets, FS_Subset

\* a set that gained a member has more
LEMMA OneMore ==
  ASSUME NEW S \in SUBSET Key, NEW T \in SUBSET Key, S \subseteq T, NEW k \in T, k \notin S
  PROVE  Cardinality(S) + 1 <= Cardinality(T)
<1>1. S \cup {k} \in SUBSET Key /\ S \cup {k} \subseteq T
  OBVIOUS
<1>2. Cardinality(S \cup {k}) = Cardinality(S) + 1
  BY Subsets, FS_AddElement
<1> QED
  BY <1>1, <1>2, NoMore

\* the limits of the counters are numbers
LEMMA MostNat == Most \in Nat /\ \A n \in 0..Most : n \in Nat
<1>1. Cardinality(Key) \in Nat
  BY Subsets
<1> QED
  BY <1>1 DEF Most

\* a step of the specification is one of its actions
LEMMA StepKinds ==
  ASSUME [Next]_vars
  PROVE  \/ UNCHANGED vars \/ EndJob \/ AnswerNobody
         \/ \E k \in Key : List(k) \/ OwnWork(k)
         \/ \E h \in Host : \/ Answer(h) \/ Receive(h) \/ LoseFetch(h) \/ Track(h)
                            \/ Apply(h) \/ Acknowledge(h) \/ LastReport(h) \/ Exit(h)
                            \/ SendStats(h) \/ LoseReport(h) \/ Die(h)
                            \/ \E k \in Key : Work(h, k)
  BY DEF Next, ManagerStep, FetchStep, WorkStep, ReportStep

\* after an answer a process looks on, and no other notices
LEMMA AnsweredOnly ==
  ASSUME TypeOK, NEW g \in Host, Answered(g), NEW h \in Host
  PROVE  /\ Running(h)' <=> Running(h)
         /\ alive'[h] = alive[h] \/ (h = g /\ alive[h] = "reporting" /\ alive'[h] = "ending")
         /\ h = g => report'[h] = NoReport /\ alive'[h] # "reporting"
         /\ h # g => report'[h] = report[h]
  BY DEF Answered, Running, TypeOK

\* a report that is left is under way
LEMMA Left ==
  ASSUME TypeOK, NEW g \in Host, LeaveReport(g), NEW h \in Host
  PROVE  /\ report'[h] = report[h] \/ (h = g /\ report[h].stage # "sent" /\ report'[h] = NoReport)
         /\ h = g => report'[h] = NoReport \/ (report[h].stage = "sent" /\ report'[h] = report[h])
         /\ \E r \in {report[g], NoReport} : report' = [report EXCEPT ![g] = r]
  BY DEF LeaveReport, TypeOK

\* nothing that has left the hands of manager and processes comes back
LEMMA OutSame ==
  ASSUME UNCHANGED <<unlisted, queue, answer, inbox>>
  PROVE  Out' = Out
  BY DEF Out, Hand

LEMMA OutStep ==
  ASSUME TypeOK, [Next]_vars
  PROVE  Out \subseteq Out'
<1> USE DEF TypeOK
<1>1. CASE UNCHANGED <<unlisted, queue, answer, inbox>>
  BY <1>1, OutSame
<1>2. CASE AnswerNobody
  BY <1>2 DEF AnswerNobody, hostVars, fetchVars, Out, Hand
<1>3. ASSUME NEW k \in Key, List(k) \/ OwnWork(k)
      PROVE  Out \subseteq Out'
  BY <1>3 DEF List, OwnWork, hostVars, fetchVars, Out, Hand
<1>4. ASSUME NEW h \in Host, Answer(h)
      PROVE  Out \subseteq Out'
  <2>1. /\ inbox' = inbox /\ unlisted' = unlisted /\ queue' \subseteq queue
        /\ \E batch \in SUBSET queue : answer' = [answer EXCEPT ![h] = batch]
    BY <1>4 DEF Answer
  <2> QED
    BY <2>1 DEF Out, Hand
<1>5. ASSUME NEW h \in Host, Receive(h) \/ LoseFetch(h) \/ Die(h) \/ \E k \in Key : Work(h, k)
      PROVE  Out \subseteq Out'
  <2>1. /\ unlisted' = unlisted /\ queue' = queue
        /\ \A g \in Host : Hand(g)' \subseteq Hand(g)
    BY <1>5 DEF Receive, LoseFetch, Die, Work, managerVars, Hand
  <2> QED
    BY <2>1 DEF Out
<1>6. ASSUME NEW h \in Host,
             \/ Track(h) \/ Apply(h) \/ Acknowledge(h) \/ LastReport(h) \/ Exit(h)
             \/ SendStats(h) \/ LoseReport(h)
      PROVE  UNCHANGED <<unlisted, queue, answer, inbox>>
  BY <1>6 DEF Track, Apply, Acknowledge, LastReport, Exit, SendStats, LoseReport, managerVars,
              fetchVars
<1>7. CASE UNCHANGED vars \/ EndJob
  BY <1>1, <1>7 DEF EndJob, vars, managerVars, hostVars, fetchVars
<1> QED
  BY <1>1, <1>2, <1>3, <1>4, <1>5, <1>6, <1>7, StepKinds

\* a key that is worked on leaves the inbox, where it was alone
LEMMA WorkOut ==
  ASSUME TypeOK, PlaceInv, NEW h \in Host, NEW k \in Key, Work(h, k)
  PROVE  k \notin Out /\ k \in Out' /\ Out \subseteq Out'
<1>1. k \in inbox[h] /\ inbox' = [inbox EXCEPT ![h] = @ \ {k}] /\ UNCHANGED <<unlisted, queue, answer>>
  BY DEF Work, managerVars
<1>2. \A g \in Host : k \notin Hand(g)'
  BY <1>1 DEF Hand, PlaceInv, TypeOK
<1>3. k \notin Out
  BY <1>1 DEF Out, Hand
<1>4. k \in Out'
  BY <1>1, <1>2 DEF Out, PlaceInv, Hand
<1>5. \A g \in Host : Hand(g)' \subseteq Hand(g)
  BY <1>1 DEF Hand, TypeOK
<1> QED
  BY <1>1, <1>3, <1>4, <1>5 DEF Out

LEMMA PlaceStep ==
  ASSUME TypeOK, PlaceInv, [Next]_vars
  PROVE  PlaceInv'
<1>1. Out \subseteq Out'
  BY OutStep
<1>2. CASE UNCHANGED <<unlisted, queue, answer, inbox, doneBy>>
  BY <1>2, OutSame DEF PlaceInv, Hand
<1>3. CASE AnswerNobody
  BY <1>1, <1>3 DEF AnswerNobody, PlaceInv, hostVars, fetchVars, Hand
<1>4. ASSUME NEW k \in Key, List(k)
      PROVE  PlaceInv'
  BY <1>1, <1>4 DEF List, PlaceInv, hostVars, fetchVars, Hand
<1>5. ASSUME NEW k \in Key, OwnWork(k)
      PROVE  PlaceInv'
  <2>1. /\ k \in queue /\ queue' = queue \ {k} /\ UNCHANGED <<unlisted, answer, inbox>>
        /\ \A j \in Key \ {k} : doneBy'[j] = doneBy[j]
    BY <1>5 DEF OwnWork, hostVars, fetchVars, TypeOK
  <2>2. k \in Out'
    BY <2>1 DEF Out, Hand, PlaceInv
  <2> QED
    BY <1>1, <2>1, <2>2 DEF PlaceInv, Hand
<1>6. ASSUME NEW h \in Host, Answer(h)
      PROVE  PlaceInv'
  <2>1. PICK batch \in SUBSET queue :
            /\ answer' = [answer EXCEPT ![h] = batch] /\ queue' = queue \ batch
            /\ UNCHANGED <<unlisted, inbox, doneBy>>
    BY <1>6 DEF Answer
  <2>2. answer'[h] = batch /\ \A g \in Host \ {h} : answer'[g] = answer[g]
    BY <2>1 DEF TypeOK
  <2>3. /\ unlisted' \cap queue' = {}
        /\ \A g \in Host : Hand(g)' \cap (unlisted' \cup queue') = {} /\ answer'[g] \cap inbox'[g] = {}
    BY <2>1, <2>2 DEF PlaceInv, Hand
  <2>4. \A g \in Host \ {h} : Hand(g)' = Hand(g)
    BY <2>1, <2>2 DEF Hand
  <2>5. Hand(h)' \subseteq Hand(h) \cup queue
    BY <2>1, <2>2 DEF Hand
  <2>6. \A g, i \in Host : g # i => Hand(g)' \cap Hand(i)' = {}
    BY <2>4, <2>5 DEF PlaceInv
  <2> QED
    BY <1>1, <2>1, <2>3, <2>6 DEF PlaceInv
<1>7. ASSUME NEW h \in Host, Receive(h) \/ LoseFetch(h) \/ Die(h)
      PROVE  PlaceInv'
  <2>1. /\ UNCHANGED <<unlisted, queue, doneBy>>
        /\ \A g \in Host : Hand(g)' \subseteq Hand(g) /\ answer'[g] \cap inbox'[g] = {}
    BY <1>7 DEF Receive, LoseFetch, Die, managerVars, Hand, TypeOK, PlaceInv
  <2> QED
    BY <1>1, <2>1 DEF PlaceInv
<1>8. ASSUME NEW h \in Host, NEW k \in Key, Work(h, k)
      PROVE  PlaceInv'
  <2>1. /\ UNCHANGED <<unlisted, queue, answer>>
        /\ inbox' = [inbox EXCEPT ![h] = @ \ {k}]
        /\ \A j \in Key \ {k} : doneBy'[j] = doneBy[j]
    BY <1>8 DEF Work, managerVars, TypeOK
  <2>2. \A g \in Host : Hand(g)' \subseteq Hand(g) /\ answer'[g] \cap inbox'[g] = {}
    BY <2>1 DEF Hand, TypeOK, PlaceInv
  <2>3. k \in Out'
    BY <1>8, WorkOut
  <2> QED
    BY <1>1, <2>1, <2>2, <2>3 DEF PlaceInv
<1>9. ASSUME NEW h \in Host,
             \/ Track(h) \/ Apply(h) \/ Acknowledge(h) \/ LastReport(h) \/ Exit(h)
             \/ SendStats(h) \/ LoseReport(h)
      PROVE  UNCHANGED <<unlisted, queue, answer, inbox, doneBy>>
  BY <1>9 DEF Track, Apply, Acknowledge, LastReport, Exit, SendStats, LoseReport, managerVars,
              fetchVars
<1>10. CASE UNCHANGED vars \/ EndJob
  BY <1>2, <1>10 DEF EndJob, vars, managerVars, hostVars, fetchVars
<1> QED
  BY <1>2, <1>3, <1>4, <1>5, <1>6, <1>7, <1>8, <1>9, <1>10, StepKinds

-----------------------------------------------------------------------------
(* The counters and the types.                                             *)

\* the counters of a process are its own
CountOf(h) ==
    /\ count[h].ok \in Nat /\ count[h].bad \in Nat
    /\ report[h].count.ok \in Nat /\ report[h].count.bad \in Nat

LEMMA CountsAreNumbers ==
  ASSUME TypeOK, NEW h \in Host
  PROVE  /\ CountOf(h)
         /\ report[h].stage \in {"none", "sent", "applied"} /\ report[h].done \subseteq Key
         /\ report[h].bad \subseteq Key /\ report[h].dirs \subseteq Dir
<1>1. /\ count[h] \in Counters /\ report[h].count \in Counters
      /\ report[h].stage \in {"none", "sent", "applied"} /\ report[h].done \subseteq Key
      /\ report[h].bad \subseteq Key /\ report[h].dirs \subseteq Dir
  BY DEF TypeOK
<1> QED
  BY <1>1, MostNat DEF Counters, CountOf

\* what CountInv says of one process
CountsKept(h) ==
    /\ count[h].ok <= 2 * Cardinality(Out) /\ count[h].bad <= 2 * Cardinality(Out)
    /\ Running(h) /\ report[h].stage # "none" =>
           report[h].count.ok <= count[h].ok /\ report[h].count.bad <= count[h].bad

LEMMA OutGrows ==
  ASSUME TypeOK, [Next]_vars
  PROVE  /\ Cardinality(Out) \in Nat /\ Cardinality(Out)' \in Nat
         /\ Cardinality(Out) <= Cardinality(Out)'
         /\ 2 * Cardinality(Out) <= 2 * Cardinality(Out)'
<1>1. Out \in SUBSET Key /\ Out' \in SUBSET Key
  BY DEF Out
<1>2. Cardinality(Out) \in Nat /\ Cardinality(Out') \in Nat
  BY <1>1, Subsets
<1>3. Cardinality(Out) <= Cardinality(Out')
  BY <1>1, OutStep, NoMore
<1> QED
  BY <1>2, <1>3

LEMMA CountsSame ==
  ASSUME TypeOK, CountInv, [Next]_vars, NEW h \in Host,
         count'[h] = count[h],
         Running(h)' /\ report'[h].stage # "none" =>
             \/ Running(h) /\ report[h].stage # "none" /\ report'[h].count = report[h].count
             \/ report'[h].count = count[h]
  PROVE  CountsKept(h)'
<1>1. CountOf(h)
  BY CountsAreNumbers
<1> QED
  BY <1>1, OutGrows DEF CountInv, CountsKept, CountOf

LEMMA CountStep ==
  ASSUME TypeOK, PlaceInv, CountInv, [Next]_vars
  PROVE  /\ CountInv'
         /\ \A h \in Host : count'[h].ok \in Nat /\ count'[h].bad \in Nat
<1> SUFFICES ASSUME NEW h \in Host
             PROVE  CountsKept(h)' /\ count'[h].ok \in Nat /\ count'[h].bad \in Nat
  BY DEF CountInv, CountsKept
<1>0. CountOf(h)
  BY CountsAreNumbers
<1>1. CASE UNCHANGED <<alive, count, report>>
  BY <1>0, <1>1, CountsSame DEF Running, CountOf
<1>2. CASE \/ UNCHANGED vars \/ EndJob \/ AnswerNobody
           \/ \E k \in Key : List(k) \/ OwnWork(k)
           \/ \E g \in Host : Answer(g) \/ Receive(g) \/ LoseFetch(g) \/ Track(g)
  BY <1>1, <1>2 DEF vars, EndJob, AnswerNobody, List, OwnWork, Answer, Receive, LoseFetch, Track,
                    hostVars, workVars
<1>3. ASSUME NEW g \in Host, NEW k \in Key, Work(g, k)
      PROVE  CountsKept(h)' /\ count'[h].ok \in Nat /\ count'[h].bad \in Nat
  <2>1. UNCHANGED <<alive, report>>
    BY <1>3 DEF Work
  <2>2. CASE h # g
    <3>1. count'[h] = count[h]
      BY <1>3, <2>2 DEF Work, TypeOK
    <3> QED
      BY <1>0, <2>1, <3>1, CountsSame DEF Running, CountOf
  <2>3. CASE h = g
    <3>1. \E n \in {1, 2} :
              \/ count' = [count EXCEPT ![h].ok = @ + n]
              \/ count' = [count EXCEPT ![h].bad = @ + 1]
      BY <1>3, <2>3 DEF Work
    <3>a. count \in [Host -> [ok : 0..Most, bad : 0..Most]]
      BY DEF TypeOK, Counters
    <3>b. PICK n \in {1, 2} :
              \/ count'[h].ok = count[h].ok + n /\ count'[h].bad = count[h].bad
              \/ count'[h].bad = count[h].bad + 1 /\ count'[h].ok = count[h].ok
      BY <3>1, <3>a
    <3>2. /\ count[h].ok <= count'[h].ok /\ count[h].bad <= count'[h].bad
          /\ count'[h].ok <= count[h].ok + 2 /\ count'[h].bad <= count[h].bad + 2
          /\ count'[h].ok \in Nat /\ count'[h].bad \in Nat
      BY <1>0, <3>b DEF CountOf
    <3>3. Out \in SUBSET Key /\ Out' \in SUBSET Key
      BY DEF Out
    <3>4. Cardinality(Out) \in Nat /\ Cardinality(Out') \in Nat
      BY <3>3, Subsets
    <3>5. Cardinality(Out) + 1 <= Cardinality(Out')
      BY <1>3, <3>3, WorkOut, OneMore
    <3>6. count[h].ok <= 2 * Cardinality(Out) /\ count[h].bad <= 2 * Cardinality(Out)
      BY DEF CountInv
    <3>7. count'[h].ok <= 2 * Cardinality(Out') /\ count'[h].bad <= 2 * Cardinality(Out')
      BY <1>0, <3>2, <3>4, <3>5, <3>6 DEF CountOf
    <3> QED
      BY <1>0, <2>1, <3>2, <3>7 DEF CountsKept, CountInv, CountOf, Running
  <2> QED
    BY <2>2, <2>3
<1>4. ASSUME NEW g \in Host, Apply(g)
      PROVE  CountsKept(h)' /\ count'[h].ok \in Nat /\ count'[h].bad \in Nat
  <2>1. /\ UNCHANGED <<alive, count>> /\ report' = [report EXCEPT ![g].stage = "applied"]
        /\ report[g].stage = "sent"
    BY <1>4 DEF Apply, workVars
  <2>2. report'[h].count = report[h].count /\ (report'[h].stage # "none" => report[h].stage # "none")
    BY <2>1 DEF TypeOK
  <2> QED
    BY <1>0, <2>1, <2>2, CountsSame DEF Running, CountOf
<1>5. ASSUME NEW g \in Host, SendStats(g) \/ LastReport(g)
      PROVE  CountsKept(h)' /\ count'[h].ok \in Nat /\ count'[h].bad \in Nat
  <2>1. /\ count' = count /\ report' = [report EXCEPT ![g] = Stats(g)]
        /\ \A i \in Host \ {g} : alive'[i] = alive[i]
    BY <1>5 DEF SendStats, LastReport, Send, TypeOK
  <2>2. CASE h = g
    BY <1>0, <2>1, <2>2, CountsSame DEF CountOf, Stats, TypeOK
  <2>3. CASE h # g
    BY <1>0, <2>1, <2>3, CountsSame DEF CountOf, Running, TypeOK
  <2> QED
    BY <2>2, <2>3
<1>6. ASSUME NEW g \in Host, Acknowledge(g)
      PROVE  CountsKept(h)' /\ count'[h].ok \in Nat /\ count'[h].bad \in Nat
  <2>1. /\ report' = [report EXCEPT ![g] = NoReport]
        /\ count' = [count EXCEPT ![g] = Less(@, report[g].count)]
        /\ Running(g) /\ report[g].stage = "applied"
    BY <1>6 DEF Acknowledge, Answered
  <2>a. Running(h)' <=> Running(h)
    BY <1>6, AnsweredOnly DEF Acknowledge
  <2>2. CASE h = g
    <3>1. /\ count'[h].ok = count[h].ok - report[h].count.ok
          /\ count'[h].bad = count[h].bad - report[h].count.bad
          /\ report'[h].stage = "none"
      BY <2>1, <2>2 DEF TypeOK, Less, NoReport
    <3>2. /\ report[h].count.ok <= count[h].ok /\ report[h].count.bad <= count[h].bad
          /\ count[h].ok <= 2 * Cardinality(Out) /\ count[h].bad <= 2 * Cardinality(Out)
      BY <2>1, <2>2 DEF CountInv
    <3>3. CountsKept(h)'
      BY <1>0, <3>1, <3>2, OutGrows DEF CountOf, CountsKept
    <3> QED
      BY <1>0, <3>1, <3>2, <3>3 DEF CountOf
  <2>3. CASE h # g
    BY <1>0, <2>1, <2>a, <2>3, CountsSame DEF CountOf, TypeOK
  <2> QED
    BY <2>2, <2>3
<1>7. ASSUME NEW g \in Host, LoseReport(g) \/ Exit(g)
      PROVE  CountsKept(h)' /\ count'[h].ok \in Nat /\ count'[h].bad \in Nat
  <2>1. /\ count' = count /\ report'[h] \in {report[h], NoReport}
        /\ Running(h)' => Running(h)
    <3>1. count' = count
      BY <1>7 DEF LoseReport, Exit, workVars
    <3>2. CASE LoseReport(g)
      BY <3>1, <3>2, AnsweredOnly DEF LoseReport
    <3>3. CASE Exit(g)
      BY <3>1, <3>3, Left DEF Exit, Running, TypeOK
    <3> QED
      BY <1>7, <3>2, <3>3
  <2> QED
    BY <1>0, <2>1, CountsSame DEF CountOf, NoReport
<1>8. ASSUME NEW g \in Host, Die(g)
      PROVE  CountsKept(h)' /\ count'[h].ok \in Nat /\ count'[h].bad \in Nat
  <2>1. CASE h = g
    <3>1. count'[h] = Zero /\ ~Running(h)'
      BY <1>8, <2>1 DEF Die, Running, TypeOK
    <3> QED
      BY <3>1, OutGrows DEF CountsKept, Zero
  <2>2. CASE h # g
    <3>1. alive'[h] = alive[h] /\ count'[h] = count[h] /\ report'[h] = report[h]
      BY <1>8, <2>2, Left DEF Die, TypeOK
    <3> QED
      BY <1>0, <3>1, CountsSame DEF CountOf, Running
  <2> QED
    BY <2>1, <2>2
<1> QED
  BY <1>2, <1>3, <1>4, <1>5, <1>6, <1>7, <1>8, StepKinds

\* the directories of a report, in some order
LEMMA OrderTyped ==
  ASSUME NEW S \in SUBSET Dir, NEW s \in SetToSeqs(S)
  PROVE  s \in Seq(Dir) /\ ToSet(s) = S
<1>0. IsFiniteSet(S)
  BY ClusterAssumption, FS_Subset
<1>1. Cardinality(S) \in Nat
  BY <1>0, FS_CardinalityType
<1>2. /\ s \in [1..Cardinality(S) -> S]
      /\ \A i, j \in 1..Cardinality(S) : i # j => s[i] # s[j]
  BY DEF SetToSeqs
<1>3. s \in Seq(S)
  BY <1>1, <1>2
<1>4. ToSet(s) = {s[i] : i \in 1..Cardinality(S)}
  BY <1>2 DEF ToSet
<1>5. {s[i] : i \in 1..Cardinality(S)} = S
  <2> DEFINE D == 1..Cardinality(S)
             R == {s[i] : i \in D}
  <2>1. IsFiniteSet(D) /\ Cardinality(D) = Cardinality(S)
    BY <1>1, FS_Interval
  <2>2. s \in Injection(D, R)
    BY <1>2 DEF Injection, IsInjective
  <2>3. s \in Surjection(D, R)
    BY <1>2 DEF Surjection
  <2>4. ExistsBijection(D, R)
    BY <2>2, <2>3 DEF Bijection, ExistsBijection
  <2>5. IsFiniteSet(R) /\ Cardinality(R) = Cardinality(S)
    BY <2>1, <2>4, FS_Bijection
  <2>6. R \subseteq S
    BY <1>2
  <2> QED
    BY <1>0, <2>5, <2>6, FS_Subset
<1> QED
  BY <1>3, <1>4, <1>5

\* the variables that no process shares
OwnType ==
    /\ deleteSrcAfter \in Modes
    /\ unlisted \subseteq Key /\ queue \subseteq Key
    /\ owed \subseteq Key /\ handled \in Nat /\ failed \in Nat
    /\ delayDel \in Seq(Dir) /\ outcome \in {"running", "completed", "failed"}
    /\ orphans \in Nat /\ doneBy \in [Key -> Host \cup {Manager, Nobody, Gone}]
    /\ trouble \in 0..MaxTrouble /\ faults \in 0..MaxFaults

FetchType ==
    /\ alive \in [Host -> {"up", "reporting", "ending", "gone", "dead"}]
    /\ fetch \in [Host -> {"asked", "answered", "done"}]
    /\ answer \in [Host -> SUBSET Key] /\ inbox \in [Host -> SUBSET Key]

WorkType ==
    /\ task \in [Host -> [key : Key \cup {Nobody}, ok : BOOLEAN]]
    /\ count \in [Host -> Counters]
    /\ done \in [Host -> SUBSET Key] /\ bad \in [Host -> SUBSET Key]
    /\ dirs \in [Host -> SUBSET Dir]

ReportType ==
    report \in [Host -> [stage : {"none", "sent", "applied"}, count : Counters,
                         done : SUBSET Key, bad : SUBSET Key, dirs : SUBSET Dir]]

LEMMA TypeParts == TypeOK <=> OwnType /\ FetchType /\ WorkType /\ ReportType
  BY DEF TypeOK, OwnType, FetchType, WorkType, ReportType

LEMMA OwnTypeStep ==
  ASSUME TypeOK, [Next]_vars
  PROVE  OwnType'
<1> USE DEF OwnType
<1>0. OwnType
  BY TypeParts
<1>1. CASE UNCHANGED <<deleteSrcAfter, managerVars, orphans, doneBy, trouble, faults>>
  BY <1>0, <1>1 DEF managerVars
<1>2. CASE EndJob
  <2>1. Entries \in Nat
    BY <1>0, LenProperties DEF Entries
  <2> QED
    BY <1>0, <1>2, <2>1 DEF EndJob
<1>3. CASE AnswerNobody
  BY <1>0, <1>3 DEF AnswerNobody
<1>4. ASSUME NEW k \in Key, List(k)
      PROVE  OwnType'
  BY <1>0, <1>4 DEF List
<1>5. ASSUME NEW k \in Key, OwnWork(k)
      PROVE  OwnType'
  <2>1. doneBy' \in [Key -> Host \cup {Manager, Nobody, Gone}]
    <3>1. \E x \in {doneBy[k], Manager, Gone} : doneBy' = [doneBy EXCEPT ![k] = x]
      BY <1>0, <1>5 DEF OwnWork
    <3> QED
      BY <1>0, <3>1
  <2>2. delayDel' \in Seq(Dir)
    BY <1>0, <1>5, AppendProperties DEF OwnWork, Delays
  <2>3. faults' \in 0..MaxFaults
    BY <1>0, <1>5, ClusterAssumption DEF OwnWork, Fault
  <2> QED
    BY <1>0, <1>5, <2>1, <2>2, <2>3 DEF OwnWork
<1>6. ASSUME NEW h \in Host, Answer(h)
      PROVE  OwnType'
  BY <1>0, <1>6 DEF Answer
<1>7. ASSUME NEW h \in Host, Apply(h)
      PROVE  OwnType'
  <2>1. CountOf(h) /\ report[h].dirs \subseteq Dir
    BY CountsAreNumbers
  <2>2. delayDel' \in Seq(Dir)
    <3>1. PICK s \in SetToSeqs(report[h].dirs) : delayDel' = delayDel \o s
      BY <1>7 DEF Apply
    <3>2. s \in Seq(Dir)
      BY <2>1, OrderTyped
    <3> QED
      BY <1>0, <3>1, <3>2, ConcatProperties
  <2>3. handled' \in Nat /\ failed' \in Nat
    <3>1. /\ handled' = handled + report[h].count.ok + report[h].count.bad
          /\ failed' = failed + report[h].count.bad
      BY <1>7 DEF Apply
    <3>2. handled \in Nat /\ failed \in Nat
      BY <1>0
    <3> QED
      BY <2>1, <3>1, <3>2 DEF CountOf
  <2> QED
    BY <1>0, <1>7, <2>2, <2>3 DEF Apply
<1>8. ASSUME NEW h \in Host, NEW k \in Key, Work(h, k)
      PROVE  OwnType'
  <2>1. doneBy' \in [Key -> Host \cup {Manager, Nobody, Gone}]
    <3>1. \E x \in {doneBy[k], h, Gone} : doneBy' = [doneBy EXCEPT ![k] = x]
      BY <1>0, <1>8 DEF Work
    <3> QED
      BY <1>0, <3>1
  <2>2. faults' \in 0..MaxFaults
    BY <1>0, <1>8, ClusterAssumption DEF Work, Fault
  <2> QED
    BY <1>0, <1>8, <2>1, <2>2 DEF Work, managerVars
<1>9. ASSUME NEW h \in Host, LoseFetch(h) \/ LoseReport(h) \/ Die(h)
      PROVE  OwnType'
  <2>1. trouble' \in 0..MaxTrouble
    BY <1>0, <1>9, ClusterAssumption DEF LoseFetch, LoseReport, Die, Trouble
  <2>2. orphans' \in {orphans, orphans + 1}
    BY <1>9 DEF LoseFetch, LoseReport, Die
  <2> QED
    BY <1>0, <1>9, <2>1, <2>2 DEF LoseFetch, LoseReport, Die, managerVars
<1>10. ASSUME NEW h \in Host,
             \/ Receive(h) \/ Track(h) \/ Acknowledge(h) \/ LastReport(h) \/ Exit(h) \/ SendStats(h)
      PROVE  OwnType'
  BY <1>1, <1>10 DEF Receive, Track, Acknowledge, LastReport, Exit, SendStats
<1>11. CASE UNCHANGED vars
  BY <1>1, <1>11 DEF vars, managerVars
<1> QED
  BY <1>2, <1>3, <1>4, <1>5, <1>6, <1>7, <1>8, <1>9, <1>10, <1>11, StepKinds

LEMMA FetchTypeStep ==
  ASSUME TypeOK, [Next]_vars
  PROVE  FetchType'
<1> USE DEF FetchType
<1>0. FetchType /\ queue \subseteq Key
  BY TypeParts DEF OwnType
<1>1. CASE UNCHANGED <<alive, fetchVars>>
  BY <1>0, <1>1 DEF fetchVars
<1>2. CASE UNCHANGED vars \/ EndJob \/ AnswerNobody \/ \E k \in Key : List(k) \/ OwnWork(k)
  BY <1>1, <1>2 DEF vars, EndJob, AnswerNobody, List, OwnWork, hostVars
<1>3. ASSUME NEW h \in Host, Answer(h)
      PROVE  FetchType'
  <2>1. PICK batch \in SUBSET queue : answer' = [answer EXCEPT ![h] = batch]
    BY <1>3 DEF Answer
  <2> QED
    BY <1>0, <1>3, <2>1 DEF Answer
<1>4. ASSUME NEW h \in Host,
             \/ Receive(h) \/ LoseFetch(h) \/ LastReport(h) \/ Exit(h) \/ Die(h)
             \/ Acknowledge(h) \/ LoseReport(h) \/ \E k \in Key : Work(h, k)
      PROVE  FetchType'
  BY <1>0, <1>4 DEF Receive, LoseFetch, LastReport, Exit, Die, Acknowledge, LoseReport, Answered,
                    Work, fetchVars
<1>5. ASSUME NEW h \in Host, Track(h) \/ Apply(h) \/ SendStats(h)
      PROVE  FetchType'
  BY <1>1, <1>5 DEF Track, Apply, SendStats
<1> QED
  BY <1>2, <1>3, <1>4, <1>5, StepKinds

\* counters that are numbers within the bound are of their type
LEMMA CountTypeStep ==
  ASSUME TypeOK, PlaceInv, CountInv, [Next]_vars
  PROVE  count' \in [Host -> Counters]
<1>1. \A h \in Host : count'[h].ok \in 0..Most /\ count'[h].bad \in 0..Most
  <2> SUFFICES ASSUME NEW h \in Host
               PROVE  count'[h].ok \in 0..Most /\ count'[h].bad \in 0..Most
    OBVIOUS
  <2>1. Out' \in SUBSET Key
    BY DEF Out
  <2>2. Cardinality(Out') \in Nat /\ Cardinality(Out') <= Cardinality(Key) /\ Cardinality(Key) \in Nat
    BY <2>1, Subsets
  <2>3. /\ count'[h].ok \in Nat /\ count'[h].bad \in Nat
        /\ count'[h].ok <= 2 * Cardinality(Out') /\ count'[h].bad <= 2 * Cardinality(Out')
    BY CountStep DEF CountInv
  <2> QED
    BY <2>2, <2>3 DEF Most
<1>2. count \in [Host -> [ok : 0..Most, bad : 0..Most]]
  BY DEF TypeOK, Counters
<1>3. CASE count' = count
  BY <1>2, <1>3 DEF Counters
<1>4. ASSUME NEW h \in Host,
             \/ count' = [count EXCEPT ![h] = Less(@, report[h].count)]
             \/ count' = [count EXCEPT ![h] = Zero]
             \/ \E n \in {1, 2} : count' = [count EXCEPT ![h].ok = @ + n]
             \/ count' = [count EXCEPT ![h].bad = @ + 1]
      PROVE  count' \in [Host -> Counters]
  <2>1. CASE count' = [count EXCEPT ![h] = Less(@, report[h].count)]
    <3>1. count'[h] = [ok |-> count[h].ok - report[h].count.ok,
                       bad |-> count[h].bad - report[h].count.bad]
      BY <1>2, <2>1 DEF Less
    <3>2. count'[h] \in [ok : 0..Most, bad : 0..Most]
      BY <1>1, <3>1
    <3> QED
      BY <1>2, <2>1, <3>2 DEF Counters
  <2>2. CASE count' = [count EXCEPT ![h] = Zero]
    BY <1>2, <2>2, MostNat DEF Zero, Counters, Most
  <2>3. ASSUME NEW x, count' = [count EXCEPT ![h].ok = x]
        PROVE  count' \in [Host -> Counters]
    <3>1. x \in 0..Most
      BY <1>1, <1>2, <2>3
    <3> QED
      BY <1>2, <2>3, <3>1 DEF Counters
  <2>4. ASSUME NEW x, count' = [count EXCEPT ![h].bad = x]
        PROVE  count' \in [Host -> Counters]
    <3>1. x \in 0..Most
      BY <1>1, <1>2, <2>4
    <3> QED
      BY <1>2, <2>4, <3>1 DEF Counters
  <2> QED
    BY <1>4, <2>1, <2>2, <2>3, <2>4
<1>5. CASE \/ UNCHANGED vars \/ EndJob \/ AnswerNobody
           \/ \E k \in Key : List(k) \/ OwnWork(k)
           \/ \E h \in Host : Answer(h) \/ Receive(h) \/ LoseFetch(h) \/ Track(h) \/ Apply(h)
                              \/ SendStats(h) \/ LastReport(h) \/ LoseReport(h) \/ Exit(h)
  BY <1>3, <1>5 DEF vars, EndJob, AnswerNobody, List, OwnWork, Answer, Receive, LoseFetch, Track,
                    Apply, SendStats, LastReport, LoseReport, Exit, hostVars, workVars
<1>6. ASSUME NEW h \in Host, Acknowledge(h) \/ Die(h) \/ \E k \in Key : Work(h, k)
      PROVE  count' \in [Host -> Counters]
  BY <1>4, <1>6 DEF Acknowledge, Die, Work
<1> QED
  BY <1>5, <1>6, StepKinds

LEMMA WorkTypeStep ==
  ASSUME TypeOK, PlaceInv, StageInv, CountInv, [Next]_vars
  PROVE  WorkType'
<1> USE DEF WorkType
<1>a. WorkType
  BY TypeParts
<1>b. count' \in [Host -> Counters]
  BY CountTypeStep
<1>c. /\ task \in [Host -> [key : Key \cup {Nobody}, ok : BOOLEAN]]
      /\ NoTask \in [key : Key \cup {Nobody}, ok : BOOLEAN]
      /\ \A k \in Key, o \in BOOLEAN :
             [key |-> k, ok |-> o] \in [key : Key \cup {Nobody}, ok : BOOLEAN]
  BY <1>a DEF NoTask
<1>d. ASSUME NEW h \in Host, NEW r \in [key : Key \cup {Nobody}, ok : BOOLEAN],
             task' = [task EXCEPT ![h] = r]
      PROVE  task' \in [Host -> [key : Key \cup {Nobody}, ok : BOOLEAN]]
  BY <1>c, <1>d
<1>1. CASE UNCHANGED workVars
  BY <1>a, <1>1 DEF workVars
<1>2. CASE UNCHANGED vars \/ EndJob \/ AnswerNobody \/ \E k \in Key : List(k) \/ OwnWork(k)
  BY <1>1, <1>2 DEF vars, EndJob, AnswerNobody, List, OwnWork, hostVars
<1>3. ASSUME NEW h \in Host,
             Answer(h) \/ Receive(h) \/ LoseFetch(h) \/ Apply(h) \/ Exit(h)
      PROVE  WorkType'
  BY <1>1, <1>3 DEF Answer, Receive, LoseFetch, Apply, Exit
<1>4. ASSUME NEW h \in Host, NEW k \in Key, Work(h, k)
      PROVE  WorkType'
  <2>1. task' \in [Host -> [key : Key \cup {Nobody}, ok : BOOLEAN]]
    <3>1. \E o \in BOOLEAN : task' = [task EXCEPT ![h] = [key |-> k, ok |-> o]]
      BY <1>4 DEF Work
    <3> QED
      BY <1>c, <1>d, <3>1
  <2>2. dirs' \in [Host -> SUBSET Dir]
    BY <1>a, <1>4 DEF Work, Delays
  <2> QED
    BY <1>a, <1>b, <1>4, <2>1, <2>2 DEF Work
<1>5. ASSUME NEW h \in Host, Track(h)
      PROVE  WorkType'
  <2>1. task[h].key \in Key
    BY <1>5 DEF Track, StageInv
  <2>2. done' \in [Host -> SUBSET Key] /\ bad' \in [Host -> SUBSET Key]
    BY <1>a, <1>5, <2>1 DEF Track
  <2>3. task' \in [Host -> [key : Key \cup {Nobody}, ok : BOOLEAN]]
    BY <1>c, <1>d, <1>5 DEF Track
  <2> QED
    BY <1>b, <1>a, <1>5, <2>2, <2>3 DEF Track
<1>6. ASSUME NEW h \in Host,
             Acknowledge(h) \/ LastReport(h) \/ SendStats(h) \/ LoseReport(h) \/ Die(h)
      PROVE  WorkType'
  <2>1. report[h].done \subseteq Key /\ report[h].bad \subseteq Key /\ report[h].dirs \subseteq Dir
    BY CountsAreNumbers
  <2>2. \/ task' = task
        \/ task' = [task EXCEPT ![h] = NoTask]
    BY <1>6 DEF Acknowledge, LastReport, SendStats, LoseReport, Die
  <2>3. task' \in [Host -> [key : Key \cup {Nobody}, ok : BOOLEAN]]
    BY <1>c, <1>d, <2>2
  <2>4. /\ done' \in [Host -> SUBSET Key] /\ bad' \in [Host -> SUBSET Key]
        /\ dirs' \in [Host -> SUBSET Dir]
    BY <1>a, <1>6, <2>1 DEF Acknowledge, LastReport, SendStats, LoseReport, Die, Send
  <2> QED
    BY <1>b, <2>3, <2>4
<1> QED
  BY <1>2, <1>3, <1>4, <1>5, <1>6, StepKinds

LEMMA ReportTypeStep ==
  ASSUME TypeOK, [Next]_vars
  PROVE  ReportType'
<1> DEFINE R == [stage : {"none", "sent", "applied"}, count : Counters,
                 done : SUBSET Key, bad : SUBSET Key, dirs : SUBSET Dir]
<1>a. report \in [Host -> R] /\ WorkType
  BY TypeParts DEF ReportType
<1>b. NoReport \in R
  BY MostNat DEF NoReport, Zero, Counters, Most
<1>c. \A h \in Host : Stats(h) \in R
  BY <1>a DEF Stats, WorkType
<1>1. CASE report' = report
  BY <1>a, <1>1 DEF ReportType
<1>2. CASE UNCHANGED vars \/ EndJob \/ AnswerNobody \/ \E k \in Key : List(k) \/ OwnWork(k)
  BY <1>1, <1>2 DEF vars, EndJob, AnswerNobody, List, OwnWork, hostVars
<1>3. ASSUME NEW h \in Host,
             \/ Answer(h) \/ Receive(h) \/ LoseFetch(h) \/ Track(h)
             \/ \E k \in Key : Work(h, k)
      PROVE  ReportType'
  BY <1>1, <1>3 DEF Answer, Receive, LoseFetch, Track, Work
<1>4. ASSUME NEW h \in Host, Apply(h)
      PROVE  ReportType'
  <2>1. report' = [report EXCEPT ![h].stage = "applied"]
    BY <1>4 DEF Apply
  <2>2. report' \in [Host -> R]
    BY <1>a, <2>1
  <2> QED
    BY <2>2 DEF ReportType
<1>5. ASSUME NEW h \in Host,
             \/ Acknowledge(h) \/ LastReport(h) \/ Exit(h)
             \/ SendStats(h) \/ LoseReport(h) \/ Die(h)
      PROVE  ReportType'
  <2>1. \E r \in {report[h], NoReport, Stats(h)} : report' = [report EXCEPT ![h] = r]
    <3>1. CASE LeaveReport(h)
      BY <3>1, Left
    <3> QED
      BY <1>5, <3>1 DEF Acknowledge, LastReport, Exit, SendStats, LoseReport, Die, Send, Answered
  <2>2. PICK r \in R : report' = [report EXCEPT ![h] = r]
    BY <1>a, <1>b, <1>c, <2>1
  <2>3. report' \in [Host -> R]
    BY <1>a, <2>2
  <2> QED
    BY <2>3 DEF ReportType
<1> QED
  BY <1>2, <1>3, <1>4, <1>5, StepKinds

LEMMA TypeStep ==
  ASSUME TypeOK, PlaceInv, StageInv, CountInv, [Next]_vars
  PROVE  TypeOK'
<1>1. OwnType' /\ FetchType' /\ WorkType' /\ ReportType'
  BY OwnTypeStep, FetchTypeStep, WorkTypeStep, ReportTypeStep
<1> QED
  BY <1>1 DEF TypeOK, OwnType, FetchType, WorkType, ReportType

-----------------------------------------------------------------------------
(* What has been handled, and what is still owed or put off.               *)

\* what StageInv says of one process
Stages(h) ==
    /\ fetch[h] # "answered" => answer[h] = {}
    /\ alive[h] # "up" => fetch[h] = "done" /\ inbox[h] = {}
    /\ alive[h] = "gone" => dirs[h] = {}
    /\ alive[h] = "reporting" => report[h].stage # "none" /\ report[h].count = count[h]
    /\ task[h] # NoTask => task[h].key \in Key

\* a process that was not concerned keeps what it has
LEMMA StagesSame ==
  ASSUME StageInv, NEW h \in Host,
         alive'[h] = alive[h], fetch'[h] = fetch[h], answer'[h] = answer[h],
         inbox'[h] = inbox[h], report'[h] = report[h], dirs'[h] = dirs[h], task'[h] = task[h],
         count'[h] = count[h]
  PROVE  Stages(h)'
  BY DEF StageInv, Stages

LEMMA StageStep ==
  ASSUME TypeOK, StageInv, [Next]_vars
  PROVE  StageInv'
<1> USE DEF TypeOK
<1> SUFFICES ASSUME NEW h \in Host
             PROVE  Stages(h)'
  BY DEF StageInv, Stages
<1>0. Stages(h)
  BY DEF StageInv, Stages
<1>1. CASE UNCHANGED vars \/ EndJob \/ AnswerNobody \/ \E k \in Key : List(k) \/ OwnWork(k)
  BY <1>1, StagesSame DEF vars, EndJob, AnswerNobody, List, OwnWork, hostVars, fetchVars, workVars
<1>2. ASSUME NEW g \in Host, g # h,
             \/ Answer(g) \/ Receive(g) \/ LoseFetch(g) \/ Track(g)
             \/ Apply(g) \/ Acknowledge(g) \/ LastReport(g) \/ Exit(g)
             \/ SendStats(g) \/ LoseReport(g) \/ Die(g) \/ \E k \in Key : Work(g, k)
      PROVE  Stages(h)'
  <2>1. alive'[h] = alive[h] /\ fetch'[h] = fetch[h] /\ answer'[h] = answer[h] /\ inbox'[h] = inbox[h]
    BY <1>2 DEF Answer, Receive, LoseFetch, Track, Apply, Acknowledge, LastReport, Exit, Answered,
                SendStats, LoseReport, Die, Work, fetchVars
  <2>2. dirs'[h] = dirs[h] /\ task'[h] = task[h] /\ count'[h] = count[h]
    BY <1>2 DEF Answer, Receive, LoseFetch, Track, Apply, Acknowledge, LastReport, Exit,
                SendStats, LoseReport, Die, Work, workVars, Send
  <2>3. report'[h] = report[h]
    BY <1>2 DEF Answer, Receive, LoseFetch, Track, Apply, Acknowledge, LastReport, Exit,
                SendStats, LoseReport, Die, Work, Send, Answered, LeaveReport
  <2> QED
    BY <2>1, <2>2, <2>3, StagesSame
<1>3. CASE Answer(h)
  <2>1. /\ UNCHANGED <<alive, inbox, report, dirs, task, count>> /\ alive[h] = "up"
        /\ fetch'[h] = "answered"
    BY <1>3 DEF Answer, Asks, workVars
  <2> QED
    BY <1>0, <2>1 DEF Stages
<1>4. CASE Receive(h) \/ LoseFetch(h)
  <2>1. /\ UNCHANGED <<alive, report, dirs, task, count>> /\ alive[h] = "up"
        /\ answer'[h] = {}
    BY <1>4 DEF Receive, LoseFetch, workVars
  <2> QED
    BY <1>0, <2>1 DEF Stages
<1>5. ASSUME NEW k \in Key, Work(h, k)
      PROVE  Stages(h)'
  <2>1. /\ UNCHANGED <<alive, report, fetch, answer>> /\ alive[h] = "up"
    BY <1>5 DEF Work
  <2>2. task'[h].key = k
    <3>1. \E o \in BOOLEAN : task' = [task EXCEPT ![h] = [key |-> k, ok |-> o]]
      BY <1>5 DEF Work
    <3> QED
      BY <3>1
  <2> QED
    BY <1>0, <2>1, <2>2 DEF Stages
<1>6. CASE Track(h)
  <2>1. /\ UNCHANGED <<alive, report, fetch, answer, inbox, dirs, count>> /\ task'[h] = NoTask
    BY <1>6 DEF Track, fetchVars
  <2> QED
    BY <1>0, <2>1 DEF Stages
<1>7. CASE Apply(h)
  <2>1. /\ UNCHANGED <<alive, fetch, answer, inbox, dirs, task, count>>
        /\ report'[h].stage = "applied" /\ report'[h].count = report[h].count
        /\ report[h].stage = "sent"
    BY <1>7 DEF Apply, fetchVars, workVars
  <2> QED
    BY <1>0, <2>1 DEF Stages
<1>8. CASE Acknowledge(h) \/ LoseReport(h)
  <2>1. UNCHANGED <<fetch, answer, inbox, task>> /\ Running(h) /\ Answered(h)
    BY <1>8 DEF Acknowledge, LoseReport, fetchVars
  <2>2. /\ alive'[h] # "reporting" /\ alive'[h] # "gone"
        /\ alive'[h] # "up" => alive[h] # "up"
    BY <2>1, AnsweredOnly DEF Running
  <2> QED
    BY <1>0, <2>1, <2>2 DEF Stages
<1>9. CASE SendStats(h)
  <2>1. /\ UNCHANGED <<alive, fetch, answer, inbox, task>> /\ report[h].stage = "none" /\ Running(h)
    BY <1>9 DEF SendStats, fetchVars
  <2> QED
    BY <1>0, <2>1 DEF Stages, Running
<1>10. CASE LastReport(h)
  <2>1. /\ UNCHANGED <<fetch, answer, inbox, task, count>> /\ alive'[h] = "reporting"
        /\ fetch[h] = "done" /\ inbox[h] = {}
        /\ report'[h].stage = "sent" /\ report'[h].count = count[h]
    BY <1>10 DEF LastReport, fetchVars, Send, Stats
  <2> QED
    BY <1>0, <2>1 DEF Stages
<1>11. CASE Exit(h)
  <2>1. /\ UNCHANGED <<fetch, answer, inbox, task, dirs>>
        /\ alive[h] = "ending" /\ alive'[h] = "gone" /\ dirs[h] = {}
    BY <1>11 DEF Exit, fetchVars, workVars
  <2> QED
    BY <1>0, <2>1 DEF Stages
<1>12. CASE Die(h)
  <2>1. /\ alive'[h] = "dead" /\ fetch'[h] = "done" /\ answer'[h] = {} /\ inbox'[h] = {}
        /\ task'[h] = NoTask
    BY <1>12 DEF Die
  <2> QED
    BY <2>1 DEF Stages
<1> QED
  BY <1>1, <1>2, <1>3, <1>4, <1>5, <1>6, <1>7, <1>8, <1>9, <1>10, <1>11, <1>12, StepKinds

\* a key that somebody handled stays handled
LEMMA HandledStays ==
  ASSUME TypeOK, [Next]_vars
  PROVE  \A k \in Key : doneBy[k] # Nobody => doneBy'[k] # Nobody
<1>0. Manager # Nobody /\ Gone # Nobody /\ Nobody \notin Host
  BY HostAssumption DEF Manager, Nobody, Gone
<1>1. CASE doneBy' = doneBy
  BY <1>1
<1>2. ASSUME NEW k \in Key, OwnWork(k)
      PROVE  \A j \in Key : doneBy[j] # Nobody => doneBy'[j] # Nobody
  <2>1. doneBy' = doneBy \/ \E x \in {Manager, Gone} : doneBy' = [doneBy EXCEPT ![k] = x]
    BY <1>2 DEF OwnWork
  <2> QED
    BY <1>0, <2>1 DEF TypeOK
<1>3. ASSUME NEW h \in Host, NEW k \in Key, Work(h, k)
      PROVE  \A j \in Key : doneBy[j] # Nobody => doneBy'[j] # Nobody
  <2>1. doneBy' = doneBy \/ \E x \in {h, Gone} : doneBy' = [doneBy EXCEPT ![k] = x]
    BY <1>3 DEF Work
  <2> QED
    BY <1>0, <2>1 DEF TypeOK
<1>4. CASE UNCHANGED vars \/ EndJob \/ AnswerNobody \/ \E k \in Key : List(k)
  BY <1>1, <1>4 DEF vars, EndJob, AnswerNobody, List
<1>5. ASSUME NEW h \in Host,
             \/ Answer(h) \/ Receive(h) \/ LoseFetch(h) \/ Track(h)
             \/ Apply(h) \/ Acknowledge(h) \/ LastReport(h) \/ Exit(h)
             \/ SendStats(h) \/ LoseReport(h) \/ Die(h)
      PROVE  doneBy' = doneBy
  BY <1>5 DEF Answer, Receive, LoseFetch, Track, Apply, Acknowledge, LastReport, Exit,
              SendStats, LoseReport, Die
<1> QED
  BY <1>1, <1>2, <1>3, <1>4, <1>5, StepKinds

\* what DoneInv says of one process
Dones(h) ==
    /\ \A k \in done[h] \cup report[h].done : doneBy[k] # Nobody
    /\ task[h].ok => doneBy[task[h].key] # Nobody

LEMMA DoneStep ==
  ASSUME TypeOK, StageInv, DoneInv, [Next]_vars
  PROVE  DoneInv'
<1> SUFFICES ASSUME NEW h \in Host
             PROVE  Dones(h)'
  BY DEF DoneInv, Dones
<1>0. /\ Dones(h) /\ done[h] \subseteq Key /\ report[h].done \subseteq Key
      /\ task[h] # NoTask => task[h].key \in Key
      /\ task[h].ok => task[h].key \in Key
      /\ ~NoTask.ok /\ NoReport.done = {}
  BY CountsAreNumbers DEF DoneInv, Dones, StageInv, TypeOK, NoTask, NoReport
<1>m. Gone # Nobody /\ Nobody \notin Host
  BY HostAssumption DEF Gone, Nobody
<1>k. \A k \in Key : doneBy[k] # Nobody => doneBy'[k] # Nobody
  BY HandledStays
<1>a. ASSUME done'[h] \cup report'[h].done \subseteq done[h] \cup report[h].done,
             task'[h] \in {task[h], NoTask}
      PROVE  Dones(h)'
  <2>1. \A k \in done'[h] \cup report'[h].done : doneBy'[k] # Nobody
    BY <1>0, <1>k, <1>a DEF Dones
  <2>2. task'[h].ok => doneBy'[task'[h].key] # Nobody
    BY <1>0, <1>k, <1>a DEF Dones
  <2> QED
    BY <2>1, <2>2 DEF Dones
<1>1. CASE UNCHANGED <<done, report, task>>
  BY <1>a, <1>1
<1>2. CASE UNCHANGED vars \/ EndJob \/ AnswerNobody \/ \E k \in Key : List(k) \/ OwnWork(k)
  BY <1>1, <1>2 DEF vars, EndJob, AnswerNobody, List, OwnWork, hostVars, workVars
<1>3. ASSUME NEW g \in Host, Answer(g) \/ Receive(g) \/ LoseFetch(g)
      PROVE  Dones(h)'
  BY <1>1, <1>3 DEF Answer, Receive, LoseFetch, workVars
<1>8. ASSUME NEW g \in Host, Exit(g)
      PROVE  Dones(h)'
  <2>1. done' = done /\ task' = task /\ report'[h] \in {report[h], NoReport}
    BY <1>8, Left DEF Exit, workVars
  <2> QED
    BY <1>0, <1>a, <2>1
<1>4. ASSUME NEW g \in Host, NEW k \in Key, Work(g, k)
      PROVE  Dones(h)'
  <2>1. UNCHANGED <<done, report>>
    BY <1>4 DEF Work
  <2>2. CASE g # h
    <3>1. task'[h] = task[h]
      BY <1>4, <2>2 DEF Work, TypeOK
    <3> QED
      BY <1>a, <2>1, <3>1
  <2>3. CASE g = h
    <3>1. \/ /\ task' = [task EXCEPT ![h] = [key |-> k, ok |-> TRUE]]
             /\ \E x \in {h, Gone} : doneBy' = [doneBy EXCEPT ![k] = x]
          \/ task' = [task EXCEPT ![h] = [key |-> k, ok |-> FALSE]]
      BY <1>4, <2>3 DEF Work
    <3>2. \/ task'[h] = [key |-> k, ok |-> TRUE] /\ doneBy'[k] \in {h, Gone}
          \/ task'[h] = [key |-> k, ok |-> FALSE]
      BY <3>1 DEF TypeOK
    <3>3. task'[h].ok => doneBy'[task'[h].key] # Nobody
      BY <1>m, <3>2
    <3>4. \A j \in done'[h] \cup report'[h].done : doneBy'[j] # Nobody
      BY <1>0, <1>k, <2>1 DEF Dones
    <3> QED
      BY <3>3, <3>4 DEF Dones
  <2> QED
    BY <2>2, <2>3
<1>5. ASSUME NEW g \in Host, Track(g)
      PROVE  Dones(h)'
  <2>1. report' = report
    BY <1>5 DEF Track
  <2>a. /\ task' = [task EXCEPT ![g] = NoTask]
        /\ \/ done' = done
           \/ task[g].ok /\ done' = [done EXCEPT ![g] = @ \cup {task[g].key}]
    BY <1>5 DEF Track
  <2>b. done \in [Host -> SUBSET Key] /\ DOMAIN task = Host
    BY DEF TypeOK
  <2>2. /\ \/ done'[h] = done[h]
           \/ task[h].ok /\ done'[h] = done[h] \cup {task[h].key}
        /\ task'[h] \in {task[h], NoTask}
    BY <2>a, <2>b
  <2>3. \A k \in done'[h] \cup report'[h].done : doneBy'[k] # Nobody
    BY <1>0, <1>k, <2>1, <2>2 DEF Dones
  <2>4. task'[h].ok => doneBy'[task'[h].key] # Nobody
    BY <1>0, <1>k, <2>2 DEF Dones
  <2> QED
    BY <2>3, <2>4 DEF Dones
<1>6. ASSUME NEW g \in Host, Apply(g)
      PROVE  Dones(h)'
  <2>1. /\ done' = done /\ task' = task
        /\ report' = [report EXCEPT ![g].stage = "applied"]
    BY <1>6 DEF Apply, workVars
  <2>2. report'[h].done = report[h].done
    BY <2>1 DEF TypeOK
  <2> QED
    BY <1>a, <2>1, <2>2
<1>7. ASSUME NEW g \in Host,
             Acknowledge(g) \/ LastReport(g) \/ SendStats(g) \/ LoseReport(g) \/ Die(g)
      PROVE  Dones(h)'
  <2>1. CASE g # h
    <3>1. done'[h] = done[h] /\ task'[h] = task[h] /\ report'[h] = report[h]
      BY <1>7, <2>1 DEF Acknowledge, LastReport, SendStats, LoseReport, Die, Send, Answered,
                        LeaveReport, TypeOK
    <3> QED
      BY <1>a, <3>1
  <2>2. CASE g = h
    <3>1. task'[h] \in {task[h], NoTask}
      BY <1>7, <2>2 DEF Acknowledge, LastReport, SendStats, LoseReport, Die, TypeOK
    <3>2. \/ report'[h] \in {report[h], NoReport} /\ done'[h] \subseteq done[h] \cup report[h].done
          \/ report'[h] = Stats(h) /\ done'[h] = {}
      BY <1>7, <2>2 DEF Acknowledge, LastReport, SendStats, LoseReport, Die, Send, Answered,
                        LeaveReport, TypeOK
    <3>3. Stats(h).done = done[h]
      BY DEF Stats
    <3>4. done'[h] \cup report'[h].done \subseteq done[h] \cup report[h].done
      BY <1>0, <3>2, <3>3
    <3> QED
      BY <1>a, <3>1, <3>4
  <2> QED
    BY <2>1, <2>2
<1> QED
  BY <1>2, <1>3, <1>4, <1>5, <1>6, <1>7, <1>8, StepKinds

LEMMA OwedStep ==
  ASSUME TypeOK, DoneInv, OwedUntilDone, [Next]_vars
  PROVE  OwedUntilDone'
<1>k. \A k \in Key : doneBy[k] # Nobody => doneBy'[k] # Nobody
  BY HandledStays
<1>1. CASE UNCHANGED <<unlisted, owed>>
  BY <1>k, <1>1 DEF OwedUntilDone
<1>2. ASSUME NEW k \in Key, List(k)
      PROVE  OwedUntilDone'
  BY <1>k, <1>2 DEF OwedUntilDone, List
<1>3. ASSUME NEW k \in Key, OwnWork(k)
      PROVE  OwedUntilDone'
  <2>0. doneBy \in [Key -> Host \cup {Manager, Nobody, Gone}] /\ Manager # Nobody /\ Gone # Nobody
    BY DEF TypeOK, Manager, Nobody, Gone
  <2>1. /\ unlisted' = unlisted
        /\ \/ owed' = owed
           \/ owed' = owed \ {k} /\ \E x \in {Manager, Gone} : doneBy' = [doneBy EXCEPT ![k] = x]
    BY <1>3 DEF OwnWork
  <2>2. \/ owed' = owed
        \/ owed' = owed \ {k} /\ doneBy'[k] # Nobody
    BY <2>0, <2>1
  <2> QED
    BY <1>k, <2>1, <2>2 DEF OwedUntilDone
<1>4. ASSUME NEW h \in Host, Apply(h)
      PROVE  OwedUntilDone'
  <2>1. unlisted' = unlisted /\ owed' = owed \ report[h].done
    BY <1>4 DEF Apply
  <2>2. \A k \in report[h].done : doneBy[k] # Nobody
    BY DEF DoneInv
  <2> QED
    BY <1>k, <2>1, <2>2 DEF OwedUntilDone
<1>5. CASE UNCHANGED vars \/ EndJob \/ AnswerNobody
  BY <1>1, <1>5 DEF vars, EndJob, AnswerNobody, managerVars
<1>6. ASSUME NEW h \in Host,
             \/ Answer(h) \/ Receive(h) \/ LoseFetch(h) \/ Track(h)
             \/ Acknowledge(h) \/ LastReport(h) \/ Exit(h)
             \/ SendStats(h) \/ LoseReport(h) \/ Die(h) \/ \E k \in Key : Work(h, k)
      PROVE  OwedUntilDone'
  BY <1>1, <1>6 DEF Answer, Receive, LoseFetch, Track, Acknowledge, LastReport, Exit,
                    SendStats, LoseReport, Die, Work, managerVars
<1> QED
  BY <1>2, <1>3, <1>4, <1>5, <1>6, StepKinds

LEMMA EndStep ==
  ASSUME TypeOK, EndInv, [Next]_vars
  PROVE  EndInv'
<1>1. CASE UNCHANGED <<outcome, unlisted, queue, alive>>
  BY <1>1 DEF EndInv, Running
<1>2. CASE UNCHANGED vars \/ AnswerNobody \/ \E k \in Key : List(k) \/ OwnWork(k)
  BY <1>1, <1>2 DEF vars, managerVars, hostVars, AnswerNobody, List, OwnWork, EndInv, Running
<1>3. CASE EndJob
  BY <1>3 DEF EndJob, EndInv, Closed, hostVars, Running
<1>4. ASSUME NEW h \in Host, Answer(h)
      PROVE  EndInv'
  <2>1. UNCHANGED <<outcome, unlisted, alive>> /\ Running(h)
    BY <1>4 DEF Answer, Asks, Running
  <2> QED
    BY <2>1 DEF EndInv
<1>5. ASSUME NEW h \in Host,
             LastReport(h) \/ Exit(h) \/ Die(h) \/ Acknowledge(h) \/ LoseReport(h)
      PROVE  EndInv'
  <2>1. UNCHANGED <<outcome, unlisted, queue>> /\ Running(h)
    BY <1>5 DEF LastReport, Exit, Die, Acknowledge, LoseReport, managerVars, Running
  <2> QED
    BY <2>1 DEF EndInv
<1>6. ASSUME NEW h \in Host,
             \/ Receive(h) \/ LoseFetch(h) \/ Track(h) \/ Apply(h)
             \/ SendStats(h) \/ \E k \in Key : Work(h, k)
      PROVE  EndInv'
  BY <1>1, <1>6 DEF Receive, LoseFetch, Track, Apply, SendStats, Work, managerVars
<1> QED
  BY <1>2, <1>3, <1>4, <1>5, <1>6, StepKinds

\* what a sequence had it still has when more is appended
LEMMA ToSetGrows ==
  ASSUME NEW S, NEW a \in Seq(S), NEW b \in Seq(S)
  PROVE  ToSet(a \o b) = ToSet(a) \cup ToSet(b)
<1>1. /\ a \o b \in Seq(S) /\ Len(a \o b) = Len(a) + Len(b)
      /\ \A i \in 1..Len(a) + Len(b) : (a \o b)[i] = IF i <= Len(a) THEN a[i] ELSE b[i - Len(a)]
  BY ConcatProperties
<1>2. Len(a) \in Nat /\ Len(b) \in Nat /\ DOMAIN a = 1..Len(a) /\ DOMAIN b = 1..Len(b)
      /\ DOMAIN (a \o b) = 1..Len(a) + Len(b)
  BY <1>1, LenProperties
<1>3. ASSUME NEW x \in ToSet(a \o b)
      PROVE  x \in ToSet(a) \cup ToSet(b)
  <2>1. PICK i \in 1..Len(a) + Len(b) : x = (a \o b)[i]
    BY <1>2, <1>3 DEF ToSet
  <2>2. CASE i <= Len(a)
    BY <1>1, <1>2, <2>1, <2>2 DEF ToSet
  <2>3. CASE i > Len(a)
    <3>1. i - Len(a) \in 1..Len(b) /\ x = b[i - Len(a)]
      BY <1>1, <1>2, <2>1, <2>3
    <3> QED
      BY <1>2, <3>1 DEF ToSet
  <2> QED
    BY <1>2, <2>1, <2>2, <2>3
<1>4. ASSUME NEW x \in ToSet(a)
      PROVE  x \in ToSet(a \o b)
  <2>1. PICK i \in 1..Len(a) : x = a[i]
    BY <1>2, <1>4 DEF ToSet
  <2>2. i \in 1..Len(a) + Len(b) /\ (a \o b)[i] = x
    BY <1>1, <1>2, <2>1
  <2> QED
    BY <1>2, <2>2 DEF ToSet
<1>5. ASSUME NEW x \in ToSet(b)
      PROVE  x \in ToSet(a \o b)
  <2>1. PICK i \in 1..Len(b) : x = b[i]
    BY <1>2, <1>5 DEF ToSet
  <2>2. i + Len(a) \in 1..Len(a) + Len(b) /\ ~(i + Len(a) <= Len(a)) /\ i + Len(a) - Len(a) = i
    BY <1>2, <2>1
  <2>3. (a \o b)[i + Len(a)] = x
    BY <1>1, <2>1, <2>2
  <2> QED
    BY <1>2, <2>2, <2>3 DEF ToSet
<1> QED
  BY <1>3, <1>4, <1>5

LEMMA ToSetAppend ==
  ASSUME NEW S, NEW a \in Seq(S), NEW x \in S
  PROVE  ToSet(Append(a, x)) = ToSet(a) \cup {x}
<1>1. /\ Len(a) \in Nat /\ DOMAIN a = 1..Len(a)
      /\ DOMAIN Append(a, x) = 1..(Len(a) + 1)
  BY AppendProperties, LenProperties
<1>2. /\ \A i \in 1..Len(a) : Append(a, x)[i] = a[i]
      /\ Append(a, x)[Len(a) + 1] = x
  BY AppendProperties
<1>3. ASSUME NEW y \in ToSet(Append(a, x))
      PROVE  y \in ToSet(a) \cup {x}
  <2>1. PICK i \in 1..(Len(a) + 1) : y = Append(a, x)[i]
    BY <1>1, <1>3 DEF ToSet
  <2>2. i \in 1..Len(a) \/ i = Len(a) + 1
    BY <1>1
  <2> QED
    BY <1>1, <1>2, <2>1, <2>2 DEF ToSet
<1>4. ASSUME NEW y \in ToSet(a)
      PROVE  y \in ToSet(Append(a, x))
  <2>1. PICK i \in 1..Len(a) : y = a[i]
    BY <1>1, <1>4 DEF ToSet
  <2>2. i \in 1..(Len(a) + 1) /\ y = Append(a, x)[i]
    BY <1>1, <1>2, <2>1
  <2> QED
    BY <1>1, <2>2 DEF ToSet
<1>5. x \in ToSet(Append(a, x))
  <2>1. Len(a) + 1 \in 1..(Len(a) + 1)
    BY <1>1
  <2> QED
    BY <1>1, <1>2, <2>1 DEF ToSet
<1> QED
  BY <1>3, <1>4, <1>5

\* a process has still to report a directory
ToReport(h, d) == d \in dirs[h] \/ (report[h].stage = "sent" /\ d \in report[h].dirs)

\* what DelayInv says of one directory
Reported(d) ==
    /\ doneBy[d] = Manager => d \in ToSet(delayDel)
    /\ \A h \in Host :
           doneBy[d] = h /\ alive[h] # "dead" => d \in ToSet(delayDel) \/ ToReport(h, d)

\* a directory is reported as it was when what names it is only moved
LEMMA ReportedSame ==
  ASSUME NEW d \in Dir, Reported(d), doneBy'[d] = doneBy[d],
         ToSet(delayDel) \subseteq ToSet(delayDel)',
         \A h \in Host : alive'[h] # "dead" =>
             /\ alive[h] # "dead"
             /\ ToReport(h, d) => ToReport(h, d)' \/ d \in ToSet(delayDel)'
  PROVE  Reported(d)'
  BY DEF Reported

LEMMA DelayStep ==
  ASSUME TypeOK, StageInv, DelayInv, [Next]_vars
  PROVE  DelayInv'
<1> SUFFICES ASSUME deleteSrcAfter', NEW d \in Dir
             PROVE  Reported(d)'
  BY DEF DelayInv, Reported, ToReport
<1>a. deleteSrcAfter' = deleteSrcAfter
  BY StepKinds DEF EndJob, AnswerNobody, List, OwnWork, Answer, Receive, LoseFetch, Track, Apply,
         Acknowledge, LastReport, Exit, SendStats, LoseReport, Die, Work, vars
<1>t. delayDel \in Seq(Dir)
  BY DEF TypeOK
<1>b. /\ Reported(d) /\ d \in Key /\ Manager \notin Host /\ Nobody \notin Host
      /\ Gone # Manager /\ Gone \notin Host
  BY <1>a, ClusterAssumption, HostAssumption DEF DelayInv, Reported, ToReport, Gone, Manager
\* a directory that was gone is nobody's
<1>g. ASSUME NEW k \in Key, doneBy' = [doneBy EXCEPT ![k] = Gone], d = k
      PROVE  Reported(d)'
  <2>1. doneBy'[d] = Gone
    BY <1>b, <1>g DEF TypeOK
  <2> QED
    BY <1>b, <2>1 DEF Reported
<1>1. CASE UNCHANGED <<doneBy, delayDel, alive, dirs, report>>
  BY <1>b, <1>1, ReportedSame DEF ToReport
<1>2. CASE UNCHANGED vars \/ EndJob \/ AnswerNobody \/ \E k \in Key : List(k)
  BY <1>1, <1>2 DEF vars, EndJob, AnswerNobody, List, managerVars, hostVars, workVars
<1>3. ASSUME NEW h \in Host, Answer(h) \/ Receive(h) \/ LoseFetch(h) \/ Track(h)
      PROVE  Reported(d)'
  BY <1>1, <1>3 DEF Answer, Receive, LoseFetch, Track, managerVars, workVars
<1>4. ASSUME NEW k \in Key, OwnWork(k)
      PROVE  Reported(d)'
  <2>1. UNCHANGED <<alive, dirs, report>>
    BY <1>4 DEF OwnWork, hostVars, workVars
  <2>2. CASE d = k /\ doneBy' = [doneBy EXCEPT ![k] = Manager] /\ Delays(k) /\ delayDel' = Append(delayDel, k)
    <3>1. doneBy'[d] = Manager
      BY <1>b, <2>2 DEF TypeOK
    <3>2. ToSet(Append(delayDel, d)) = ToSet(delayDel) \cup {d}
      BY <1>t, ToSetAppend
    <3>4. d \in ToSet(delayDel)'
      BY <2>2, <3>2
    <3> QED
      BY <1>b, <3>1, <3>4 DEF Reported
  <2>3. CASE d # k \/ doneBy' = doneBy
    <3>1. doneBy'[d] = doneBy[d]
      <4>1. \E x : doneBy' = doneBy \/ doneBy' = [doneBy EXCEPT ![k] = x]
        BY <1>4 DEF OwnWork
      <4> QED
        BY <1>b, <2>3, <4>1 DEF TypeOK
    <3>2. \/ delayDel' = delayDel
          \/ k \in Dir /\ delayDel' = Append(delayDel, k)
      BY <1>4 DEF OwnWork, Delays
    <3>3. ToSet(delayDel) \subseteq ToSet(delayDel)'
      <4>1. CASE delayDel' = delayDel
        BY <4>1
      <4>2. CASE k \in Dir /\ delayDel' = Append(delayDel, k)
        <5>1. ToSet(Append(delayDel, k)) = ToSet(delayDel) \cup {k}
          BY <1>t, <4>2, ToSetAppend
        <5> QED
          BY <4>2, <5>1
      <4> QED
        BY <3>2, <4>1, <4>2
    <3> QED
      BY <1>b, <2>1, <3>1, <3>3, ReportedSame DEF ToReport
  <2>4. \/ doneBy' = [doneBy EXCEPT ![k] = Manager]
           /\ delayDel' = IF Delays(k) THEN Append(delayDel, k) ELSE delayDel
        \/ doneBy' = doneBy
        \/ doneBy' = [doneBy EXCEPT ![k] = Gone]
    BY <1>4 DEF OwnWork
  <2>5. d = k => Delays(k)
    BY <1>a DEF Delays
  <2> QED
    BY <1>g, <2>2, <2>3, <2>4, <2>5
<1>5. ASSUME NEW h \in Host, Apply(h)
      PROVE  Reported(d)'
  <2>1. UNCHANGED <<doneBy, alive, dirs>> /\ report' = [report EXCEPT ![h].stage = "applied"]
    BY <1>5 DEF Apply, workVars
  <2>2. PICK s \in SetToSeqs(report[h].dirs) : delayDel' = delayDel \o s
    BY <1>5 DEF Apply
  <2>3. report[h].dirs \in SUBSET Dir
    BY CountsAreNumbers
  <2>4. s \in Seq(Dir) /\ ToSet(s) = report[h].dirs
    BY <2>3, OrderTyped
  <2>5. ToSet(delayDel)' = ToSet(delayDel) \cup report[h].dirs
    BY <1>t, <2>2, <2>4, ToSetGrows
  <2>6. \A g \in Host \ {h} : report'[g] = report[g]
    BY <2>1 DEF TypeOK
  <2> QED
    BY <1>b, <2>1, <2>5, <2>6, ReportedSame DEF ToReport
<1>6. ASSUME NEW h \in Host, NEW k \in Key, Work(h, k)
      PROVE  Reported(d)'
  <2>1. UNCHANGED <<alive, delayDel, report>> /\ alive[h] = "up"
    BY <1>6 DEF Work, managerVars
  <2>2. dirs \in [Host -> SUBSET Dir] /\ doneBy \in [Key -> Host \cup {Manager, Nobody, Gone}]
    BY DEF TypeOK
  <2>3. CASE /\ d = k /\ doneBy' = [doneBy EXCEPT ![k] = h]
             /\ dirs' = IF Delays(k) THEN [dirs EXCEPT ![h] = @ \cup {k}] ELSE dirs
    <3>1. dirs' = [dirs EXCEPT ![h] = @ \cup {k}]
      BY <1>a, <2>3 DEF Delays
    <3>2. doneBy'[d] = h /\ d \in dirs'[h]
      BY <1>b, <2>2, <2>3, <3>1
    <3> QED
      BY <1>b, <3>2 DEF Reported, ToReport
  <2>4. CASE d # k \/ doneBy' = doneBy
    <3>1. doneBy'[d] = doneBy[d]
      <4>1. \E x : doneBy' = doneBy \/ doneBy' = [doneBy EXCEPT ![k] = x]
        BY <1>6 DEF Work
      <4> QED
        BY <1>b, <2>2, <2>4, <4>1
    <3>2. \A g \in Host : dirs[g] \subseteq dirs'[g]
      BY <1>6, <2>2 DEF Work
    <3> QED
      BY <1>b, <2>1, <3>1, <3>2, ReportedSame DEF ToReport
  <2>5. \/ /\ doneBy' = [doneBy EXCEPT ![k] = h]
           /\ dirs' = IF Delays(k) THEN [dirs EXCEPT ![h] = @ \cup {k}] ELSE dirs
        \/ doneBy' = doneBy
        \/ doneBy' = [doneBy EXCEPT ![k] = Gone]
    BY <1>6 DEF Work
  <2> QED
    BY <1>g, <2>3, <2>4, <2>5
<1>7. ASSUME NEW h \in Host,
             Acknowledge(h) \/ LastReport(h) \/ SendStats(h) \/ LoseReport(h) \/ Exit(h) \/ Die(h)
      PROVE  Reported(d)'
  <2>1. UNCHANGED <<doneBy, delayDel>>
    BY <1>7 DEF Acknowledge, LastReport, SendStats, LoseReport, Exit, Die, managerVars
  <2>2. /\ alive \in [Host -> {"up", "reporting", "ending", "gone", "dead"}] /\ dirs \in [Host -> SUBSET Dir]
        /\ DOMAIN report = Host
    BY DEF TypeOK
  <2>3. \A g \in Host \ {h} : alive'[g] = alive[g] /\ dirs'[g] = dirs[g] /\ report'[g] = report[g]
    BY <1>7, <2>2 DEF Acknowledge, LastReport, SendStats, LoseReport, Exit, Die, Send, Answered,
                      LeaveReport, workVars
  <2>4. alive'[h] # "dead" => alive[h] # "dead"
    BY <1>7, <2>2 DEF Acknowledge, LastReport, SendStats, LoseReport, Exit, Die, Running
  <2>5. ASSUME alive'[h] # "dead", ToReport(h, d)
        PROVE  ToReport(h, d)'
    <3>1. CASE Acknowledge(h)
      <4>1. dirs' = dirs /\ report[h].stage = "applied"
        BY <3>1 DEF Acknowledge
      <4> QED
        BY <2>5, <4>1 DEF ToReport
    <3>2. CASE LastReport(h) \/ SendStats(h)
      <4>1. report[h].stage = "none" /\ report'[h] = Stats(h)
        BY <3>2, <2>2 DEF LastReport, SendStats, Send
      <4> QED
        BY <2>5, <4>1 DEF ToReport, Stats
    <3>3. CASE LoseReport(h)
      <4>1. dirs'[h] = dirs[h] \cup report[h].dirs
        BY <3>3, <2>2 DEF LoseReport
      <4> QED
        BY <2>5, <4>1 DEF ToReport
    <3>4. CASE Exit(h)
      <4>1. dirs' = dirs /\ (report[h].stage = "sent" => report'[h] = report[h])
        BY <3>4, Left DEF Exit, workVars
      <4> QED
        BY <2>5, <4>1 DEF ToReport
    <3>5. CASE Die(h)
      BY <2>2, <2>5, <3>5 DEF Die
    <3> QED
      BY <1>7, <3>1, <3>2, <3>3, <3>4, <3>5
  <2> QED
    BY <1>b, <2>1, <2>3, <2>4, <2>5, ReportedSame DEF ToReport
<1> QED
  BY <1>2, <1>3, <1>4, <1>5, <1>6, <1>7, StepKinds

LEMMA NoDelayStep ==
  ASSUME TypeOK, NoDelayInv, [Next]_vars
  PROVE  NoDelayInv'
<1> SUFFICES ASSUME ~deleteSrcAfter'
             PROVE  delayDel' = <<>> /\ \A h \in Host : dirs'[h] = {} /\ report'[h].dirs = {}
  BY DEF NoDelayInv
<1>a. deleteSrcAfter' = deleteSrcAfter
  BY StepKinds DEF EndJob, AnswerNobody, List, OwnWork, Answer, Receive, LoseFetch, Track, Apply,
         Acknowledge, LastReport, Exit, SendStats, LoseReport, Die, Work, vars
<1>b. ~deleteSrcAfter /\ delayDel = <<>> /\ \A h \in Host : dirs[h] = {} /\ report[h].dirs = {}
  BY <1>a DEF NoDelayInv
<1>t. /\ dirs \in [Host -> SUBSET Dir]
      /\ NoReport.dirs = {}
      /\ DOMAIN report = Host
  BY DEF TypeOK, NoReport
<1>1. CASE UNCHANGED <<delayDel, dirs, report>>
  BY <1>b, <1>1
<1>2. CASE UNCHANGED vars \/ EndJob \/ AnswerNobody \/ \E k \in Key : List(k) \/ OwnWork(k)
  BY <1>b, <1>1, <1>2 DEF vars, EndJob, AnswerNobody, List, OwnWork, Delays, managerVars, hostVars,
                          workVars
<1>3. ASSUME NEW g \in Host,
             Answer(g) \/ Receive(g) \/ LoseFetch(g) \/ Track(g) \/ \E k \in Key : Work(g, k)
      PROVE  UNCHANGED <<delayDel, dirs, report>>
  BY <1>b, <1>3 DEF Answer, Receive, LoseFetch, Track, Work, Delays, managerVars, workVars
<1>4. ASSUME NEW g \in Host, Apply(g)
      PROVE  delayDel' = <<>> /\ \A h \in Host : dirs'[h] = {} /\ report'[h].dirs = {}
  <2>1. dirs' = dirs /\ report' = [report EXCEPT ![g].stage = "applied"]
    BY <1>4 DEF Apply, workVars
  <2>2. \A h \in Host : report'[h].dirs = report[h].dirs
    BY <2>1 DEF TypeOK
  <2>3. PICK s \in SetToSeqs(report[g].dirs) : delayDel' = delayDel \o s
    BY <1>4 DEF Apply
  <2>4. s = <<>>
    <3>1. {} \in SUBSET Dir /\ s \in SetToSeqs({})
      BY <1>b, <2>3
    <3>2. s \in Seq(Dir) /\ ToSet(s) = {}
      BY <3>1, OrderTyped
    <3>3. DOMAIN s = 1..Len(s) /\ Len(s) \in Nat
      BY <3>2, LenProperties
    <3>4. 1 \notin DOMAIN s
      BY <3>2 DEF ToSet
    <3>5. Len(s) = 0
      BY <3>3, <3>4
    <3> QED
      BY <3>2, <3>5, EmptySeq
  <2>5. delayDel' = <<>>
    BY <1>b, <2>3, <2>4
  <2> QED
    BY <1>b, <2>1, <2>2, <2>5
<1>5. ASSUME NEW g \in Host,
             \/ Acknowledge(g) \/ LastReport(g) \/ SendStats(g) \/ LoseReport(g)
             \/ Exit(g) \/ Die(g)
      PROVE  delayDel' = <<>> /\ \A h \in Host : dirs'[h] = {} /\ report'[h].dirs = {}
  <2>1. delayDel' = delayDel
    BY <1>5 DEF Acknowledge, LastReport, SendStats, LoseReport, Exit, Die, managerVars
  <2>2. \A h \in Host : dirs'[h] \subseteq dirs[h] \cup report[h].dirs
    BY <1>5, <1>t DEF Acknowledge, LastReport, SendStats, LoseReport, Exit, Die, Send, workVars
  <2>3. \A h \in Host : report'[h] \in {report[h], NoReport, Stats(h)}
    <3>1. CASE LeaveReport(g)
      BY <3>1, Left
    <3> QED
      BY <1>5, <1>t, <3>1 DEF Acknowledge, LastReport, SendStats, LoseReport, Exit, Die, Send,
                              Answered
  <2>4. \A h \in Host : Stats(h).dirs = dirs[h]
    BY DEF Stats
  <2> QED
    BY <1>b, <1>t, <2>1, <2>2, <2>3, <2>4
<1> QED
  BY <1>1, <1>2, <1>3, <1>4, <1>5, StepKinds

LEMMA InitInv == Init => IInv
<1> SUFFICES ASSUME Init PROVE IInv
  OBVIOUS
<1> USE DEF Init
<1>1. TypeOK
  <2>1. OwnType
    BY ClusterAssumption, EmptySeq DEF OwnType
  <2>2. FetchType
    BY DEF FetchType
  <2>3. Zero \in Counters
    BY MostNat DEF Zero, Counters, Most
  <2>4. NoTask \in [key : Key \cup {Nobody}, ok : BOOLEAN]
    BY DEF NoTask
  <2>5. WorkType
    BY <2>3, <2>4 DEF WorkType
  <2>6. NoReport \in [stage : {"none", "sent", "applied"}, count : Counters,
                      done : SUBSET Key, bad : SUBSET Key, dirs : SUBSET Dir]
    BY <2>3 DEF NoReport
  <2>7. ReportType
    BY <2>6 DEF ReportType
  <2> QED
    BY <2>1, <2>2, <2>5, <2>7, TypeParts
<1>2. PlaceInv
  BY DEF PlaceInv, Hand
<1>3. StageInv
  BY DEF StageInv
<1>4. CountInv
  <2>1. Out \in SUBSET Key
    BY DEF Out
  <2>2. Cardinality(Out) \in Nat
    BY <2>1, Subsets
  <2>3. \A h \in Host : count[h].ok = 0 /\ count[h].bad = 0 /\ report[h].stage = "none"
    BY DEF Zero, NoReport
  <2> QED
    BY <2>2, <2>3 DEF CountInv
<1>5. DoneInv
  BY DEF DoneInv, NoReport, NoTask
<1>6. OwedUntilDone /\ EndInv
  BY DEF OwedUntilDone, EndInv
<1>7. DelayInv
  BY ClusterAssumption, HostAssumption DEF DelayInv, Manager, Nobody
<1>8. NoDelayInv
  BY DEF NoDelayInv, NoReport
<1> QED
  BY <1>1, <1>2, <1>3, <1>4, <1>5, <1>6, <1>7, <1>8 DEF IInv

LEMMA NextInv == IInv /\ [Next]_vars => IInv'
  BY TypeStep, PlaceStep, StageStep, CountStep, DoneStep, OwedStep, EndStep, DelayStep, NoDelayStep
     DEF IInv

\* The variables keep their types, whatever is lost and whoever dies; the counters of a
\* process in particular never go below zero when what was reported is subtracted.
THEOREM TypeCorrect == Spec => []TypeOK
<1>1. IInv => TypeOK
  BY DEF IInv
<1> QED
  BY <1>1, InitInv, NextInv, PTL DEF Spec

\* For any number of lost, repeated and late messages and of processes that die, the
\* checkpoint keeps a key until somebody has handled it.
THEOREM OwedKept == Spec => []OwedUntilDone
<1>1. IInv => OwedUntilDone
  BY DEF IInv
<1> QED
  BY <1>1, InitInv, NextInv, PTL DEF Spec

\* When the job ends every directory whose deletion was put off is in the list of the
\* manager, but for those a dead process had, however often reports were lost.
THEOREM DelayedKept == Spec => []DelayedReported
<1>1. IInv => DelayedReported
  <2> SUFFICES ASSUME IInv, outcome # "running", deleteSrcAfter, NEW d \in Dir,
                      doneBy[d] = Manager \/ \E h \in Host : doneBy[d] = h /\ alive[h] # "dead"
               PROVE  \/ d \in ToSet(delayDel)
                      \/ \E h \in Host : /\ alive[h] = "gone" /\ report[h].stage = "sent"
                                        /\ d \in report[h].dirs
    BY DEF DelayedReported, PutOff
  <2>1. CASE doneBy[d] = Manager
    BY <2>1 DEF IInv, DelayInv
  <2>2. ASSUME NEW h \in Host, doneBy[d] = h, alive[h] # "dead"
        PROVE  \/ d \in ToSet(delayDel)
               \/ alive[h] = "gone" /\ report[h].stage = "sent" /\ d \in report[h].dirs
    <3>1. alive[h] = "gone"
      BY <2>2 DEF IInv, EndInv, Running, TypeOK
    <3>2. dirs[h] = {}
      BY <3>1 DEF IInv, StageInv
    <3> QED
      BY <2>2, <3>1, <3>2 DEF IInv, DelayInv
  <2> QED
    BY <2>1, <2>2
<1> QED
  BY <1>1, InitInv, NextInv, PTL DEF Spec

-----------------------------------------------------------------------------
(* One loss.                                                               *)

\* a failure that has not reached the manager stays so until it has
LEMMA UnreportedStays ==
  ASSUME TypeOK, CountInv, NothingLost, NEW h \in Host, Unreported(h), failed' = 0, failed = 0,
         [Next]_vars, ~(\E g \in Host : LoseFetch(g) \/ Die(g)),
         \A g \in Host : LoseReport(g) => report[g].stage = "applied"
  PROVE  Unreported(h)'
<1>t. CountOf(h) /\ DOMAIN report = Host /\ DOMAIN alive = Host
  BY CountsAreNumbers DEF TypeOK
<1>1. CASE alive'[h] = alive[h] /\ count'[h] = count[h] /\ report'[h] = report[h]
  BY <1>1 DEF Unreported
<1>2. CASE UNCHANGED vars \/ EndJob \/ AnswerNobody \/ \E k \in Key : List(k) \/ OwnWork(k)
  BY <1>1, <1>2 DEF vars, EndJob, AnswerNobody, List, OwnWork, hostVars, workVars
<1>3. ASSUME NEW g \in Host, Answer(g) \/ Receive(g) \/ Track(g)
      PROVE  Unreported(h)'
  BY <1>1, <1>3 DEF Answer, Receive, Track, workVars
<1>4. ASSUME NEW g \in Host, NEW k \in Key, Work(g, k)
      PROVE  Unreported(h)'
  <2>1. UNCHANGED <<alive, report>>
    BY <1>4 DEF Work
  <2>2. \/ \E x : count' = [count EXCEPT ![g].ok = x]
        \/ count' = [count EXCEPT ![g].bad = @ + 1]
    BY <1>4 DEF Work
  <2>3. count \in [Host -> [ok : 0..Most, bad : 0..Most]]
    BY DEF TypeOK, Counters
  <2>4. \/ count'[h].bad = count[h].bad
        \/ count'[h].bad = count[h].bad + 1
    BY <2>2, <2>3
  <2>5. count[h].bad > 0 => count'[h].bad > 0
    BY <1>t, <2>4 DEF CountOf
  <2> QED
    BY <2>1, <2>5 DEF Unreported
<1>5. ASSUME NEW g \in Host, Apply(g)
      PROVE  Unreported(h)'
  <2>1. UNCHANGED <<alive, count>> /\ failed' = failed + report[g].count.bad
    BY <1>5 DEF Apply, workVars
  <2>2. CountOf(g)
    BY CountsAreNumbers
  <2>3. report[g].count.bad = 0
    BY <2>1, <2>2 DEF CountOf
  <2>4. CASE g = h
    BY <2>1, <2>3, <2>4, <1>t DEF Unreported, CountOf
  <2>5. CASE g # h
    <3>1. report'[h] = report[h]
      BY <1>5, <1>t, <2>5 DEF Apply
    <3> QED
      BY <1>1, <2>1, <3>1
  <2> QED
    BY <2>4, <2>5
<1>6. ASSUME NEW g \in Host, g # h,
             Acknowledge(g) \/ LastReport(g) \/ SendStats(g) \/ LoseReport(g) \/ Exit(g)
      PROVE  Unreported(h)'
  BY <1>1, <1>6, <1>t DEF Acknowledge, LastReport, SendStats, LoseReport, Exit, Send, Answered,
                          LeaveReport, workVars, TypeOK
<1>7. CASE Acknowledge(h)
  <2>1. /\ Answered(h) /\ report[h].stage = "applied" /\ Running(h)
        /\ count'[h] = Less(count[h], report[h].count)
    BY <1>7 DEF Acknowledge, TypeOK
  <2>a. alive[h] = "up" => alive'[h] = "up"
    BY <2>1, AnsweredOnly
  <2>2. alive[h] = "up" /\ count[h].bad > 0 /\ ~(report[h].count.bad > 0)
    BY <2>1 DEF Unreported, NothingLost
  <2>3. count'[h].bad = count[h].bad - report[h].count.bad
    BY <2>1 DEF Less
  <2>4. count'[h].bad > 0
    BY <1>t, <2>2, <2>3 DEF CountOf
  <2> QED
    BY <2>a, <2>2, <2>4 DEF Unreported
<1>8. CASE SendStats(h) \/ LastReport(h)
  <2>1. report[h].stage = "none" /\ report'[h] = Stats(h)
    BY <1>8, <1>t DEF SendStats, LastReport, Send
  <2> QED
    BY <2>1 DEF Unreported, Stats
<1>9. CASE Exit(h)
  <2>1. alive[h] = "ending" /\ (report[h].stage = "sent" => report'[h] = report[h])
    BY <1>9, Left DEF Exit
  <2> QED
    BY <2>1 DEF Unreported
<1>10. CASE LoseReport(h)
  <2>1. report[h].stage = "applied" /\ Answered(h) /\ count' = count
    BY <1>10 DEF LoseReport
  <2>2. alive[h] = "up" => alive'[h] = "up"
    BY <2>1, AnsweredOnly
  <2> QED
    BY <2>1, <2>2 DEF Unreported
<1> QED
  BY <1>2, <1>3, <1>4, <1>5, <1>6, <1>7, <1>8, <1>9, <1>10, StepKinds

\* the manager never counts a failure less
LEMMA FailedGrows ==
  ASSUME TypeOK, [Next]_vars
  PROVE  failed \in Nat /\ failed' \in Nat /\ failed <= failed'
<1>0. failed \in Nat
  BY DEF TypeOK
<1>1. CASE failed' = failed
  BY <1>0, <1>1
<1>2. ASSUME NEW k \in Key, OwnWork(k)
      PROVE  failed' = failed \/ failed' = failed + 1
  BY <1>2 DEF OwnWork
<1>3. ASSUME NEW h \in Host, Apply(h)
      PROVE  failed' = failed + report[h].count.bad /\ report[h].count.bad \in Nat
  BY <1>3, CountsAreNumbers DEF Apply, CountOf
<1>4. CASE UNCHANGED vars \/ EndJob \/ AnswerNobody \/ \E k \in Key : List(k)
  BY <1>1, <1>4 DEF vars, managerVars, EndJob, AnswerNobody, List
<1>5. ASSUME NEW h \in Host,
             \/ Answer(h) \/ Receive(h) \/ LoseFetch(h) \/ Track(h)
             \/ Acknowledge(h) \/ LastReport(h) \/ Exit(h)
             \/ SendStats(h) \/ LoseReport(h) \/ Die(h) \/ \E k \in Key : Work(h, k)
      PROVE  failed' = failed
  BY <1>5 DEF Answer, Receive, LoseFetch, Track, Acknowledge, LastReport, Exit, SendStats,
              LoseReport, Die, Work, managerVars
<1> QED
  BY <1>0, <1>1, <1>2, <1>3, <1>4, <1>5, StepKinds

\* without a loss nobody has a task but those who can do it
LEMMA NewlyOut ==
  ASSUME TypeOK, StageInv, NothingLost, [Next]_vars, ~(\E g \in Host : LoseFetch(g) \/ Die(g)),
         NEW k \in Out', k \notin Out
  PROVE  OwnWork(k) \/ \E h \in Host : Work(h, k)
<1>0. k \in Key
  BY DEF Out
<1>1. CASE UNCHANGED <<unlisted, queue, answer, inbox>>
  BY <1>1, OutSame
<1>2. ASSUME NEW j \in Key, List(j)
      PROVE  FALSE
  BY <1>2 DEF List, Out, Hand, hostVars, fetchVars
<1>3. ASSUME NEW j \in Key, OwnWork(j), j # k
      PROVE  FALSE
  BY <1>3 DEF OwnWork, Out, Hand, hostVars, fetchVars
<1>4. ASSUME NEW h \in Host, Answer(h)
      PROVE  FALSE
  <2>1. PICK batch \in SUBSET queue :
            /\ answer' = [answer EXCEPT ![h] = batch] /\ queue' = queue \ batch
            /\ UNCHANGED <<unlisted, inbox>>
    BY <1>4 DEF Answer
  <2>2. answer[h] = {}
    BY <1>4 DEF Answer, StageInv
  <2>3. \A g \in Host : Hand(g) \subseteq Hand(g)'
    BY <2>1, <2>2 DEF Hand, TypeOK
  <2>4. queue \subseteq queue' \cup Hand(h)'
    BY <2>1 DEF Hand, TypeOK
  <2> QED
    BY <1>0, <2>1, <2>3, <2>4 DEF Out
<1>5. ASSUME NEW h \in Host, Receive(h)
      PROVE  FALSE
  <2>1. UNCHANGED <<unlisted, queue>> /\ \A g \in Host : Hand(g)' = Hand(g)
    BY <1>5 DEF Receive, managerVars, Hand, TypeOK
  <2> QED
    BY <1>0, <2>1 DEF Out
<1>6. ASSUME NEW h \in Host, NEW j \in Key, Work(h, j), j # k
      PROVE  FALSE
  <2>1. UNCHANGED <<unlisted, queue>> /\ \A g \in Host : Hand(g) \subseteq Hand(g)' \cup {j}
    BY <1>6 DEF Work, managerVars, Hand, TypeOK
  <2> QED
    BY <1>0, <1>6, <2>1 DEF Out
<1>7. CASE AnswerNobody
  BY <1>7 DEF AnswerNobody, NothingLost
<1>8. ASSUME NEW h \in Host,
             \/ Track(h) \/ Apply(h) \/ Acknowledge(h) \/ LastReport(h) \/ Exit(h)
             \/ SendStats(h) \/ LoseReport(h)
      PROVE  UNCHANGED <<unlisted, queue, answer, inbox>>
  BY <1>8 DEF Track, Apply, Acknowledge, LastReport, Exit, SendStats, LoseReport, managerVars,
              fetchVars
<1>9. CASE UNCHANGED vars \/ EndJob
  BY <1>1, <1>9 DEF EndJob, vars, managerVars, hostVars, fetchVars
<1> QED
  BY <1>1, <1>2, <1>3, <1>4, <1>5, <1>6, <1>7, <1>8, <1>9, StepKinds

\* the answer to a report, or its loss when it was applied, leaves no failure unknown
LEMMA NoBadAnswered ==
  ASSUME TypeOK, StageInv, NothingLost, failed = 0, NEW g \in Host, report[g].stage = "applied",
         Acknowledge(g) \/ LoseReport(g), NEW h \in Host
  PROVE  NoBad(h)'
<1>t. CountOf(h) /\ count \in [Host -> [ok : 0..Most, bad : 0..Most]] /\ NoReport.stage = "none"
  BY CountsAreNumbers DEF TypeOK, Counters, NoReport
<1>0. NoBad(h) /\ Answered(g)
  BY DEF NothingLost, Acknowledge, LoseReport
<1>1. CASE h # g
  <2>1. alive'[h] = alive[h] /\ report'[h] = report[h]
    BY <1>0, <1>1, AnsweredOnly
  <2>2. count'[h] = count[h]
    BY <1>t, <1>1 DEF Acknowledge, LoseReport
  <2> QED
    BY <1>0, <2>1, <2>2 DEF NoBad
<1>2. CASE h = g
  <2>1. /\ report'[h].stage = "none" /\ report[h].count.bad = 0
        /\ alive'[h] = "ending" => alive[h] \in {"reporting", "ending"}
    BY <1>0, <1>2, <1>t, AnsweredOnly DEF NothingLost, CountOf
  <2>2. alive'[h] = "ending" => count[h].bad = 0
    BY <1>0, <2>1 DEF NoBad, StageInv
  <2>3. count'[h].bad = count[h].bad \/ count'[h].bad = count[h].bad - report[h].count.bad
    <3>1. count' = count \/ count' = [count EXCEPT ![h] = Less(@, report[h].count)]
      BY <1>2 DEF Acknowledge, LoseReport
    <3> QED
      BY <1>t, <3>1 DEF Less
  <2> QED
    BY <1>t, <2>1, <2>2, <2>3 DEF NoBad, CountOf
<1> QED
  BY <1>1, <1>2

LEMMA NoBadStep ==
  ASSUME TypeOK, StageInv, NothingLost, [Next]_vars, failed = 0, NEW h \in Host,
         ~(\E g \in Host : LoseFetch(g) \/ Die(g)),
         \A g \in Host : LoseReport(g) => report[g].stage = "applied"
  PROVE  NoBad(h)'
<1>t. count \in [Host -> [ok : 0..Most, bad : 0..Most]] /\ NoReport.stage = "none"
  BY DEF TypeOK, Counters, NoReport
<1>0. NoBad(h)
  BY DEF NothingLost
<1>1. CASE alive'[h] = alive[h] /\ count'[h] = count[h] /\ report'[h] = report[h]
  BY <1>0, <1>1 DEF NoBad
<1>2. CASE UNCHANGED vars \/ EndJob \/ AnswerNobody \/ \E k \in Key : List(k) \/ OwnWork(k)
  BY <1>1, <1>2 DEF vars, EndJob, AnswerNobody, List, OwnWork, hostVars, workVars
<1>3. ASSUME NEW g \in Host, Answer(g) \/ Receive(g) \/ Track(g)
      PROVE  NoBad(h)'
  BY <1>1, <1>3 DEF Answer, Receive, Track, workVars
<1>4. ASSUME NEW g \in Host, NEW k \in Key, Work(g, k)
      PROVE  NoBad(h)'
  <2>1. UNCHANGED <<alive, report>> /\ alive[g] = "up" /\ (h # g => count'[h] = count[h])
    BY <1>4, <1>t DEF Work
  <2> QED
    BY <1>1, <2>1 DEF NoBad
<1>5. ASSUME NEW g \in Host, Apply(g)
      PROVE  NoBad(h)'
  <2>1. /\ UNCHANGED <<alive, count>> /\ report' = [report EXCEPT ![g].stage = "applied"]
        /\ report[g].stage = "sent"
    BY <1>5 DEF Apply, workVars
  <2>2. report'[h].count = report[h].count /\ (report'[h].stage # "none" => report[h].stage # "none")
    BY <2>1 DEF TypeOK
  <2> QED
    BY <1>0, <2>1, <2>2 DEF NoBad
<1>6. ASSUME NEW g \in Host, SendStats(g) \/ LastReport(g)
      PROVE  NoBad(h)'
  <2>1. /\ count' = count /\ report' = [report EXCEPT ![g] = Stats(g)]
        /\ alive' = alive \/ alive' = [alive EXCEPT ![g] = "reporting"]
    BY <1>6 DEF SendStats, LastReport, Send
  <2>2. CASE h # g
    BY <1>1, <2>1, <2>2 DEF TypeOK
  <2>3. CASE h = g
    <3>1. /\ report'[h].count = count[h] /\ (alive'[h] = alive[h] \/ alive'[h] = "reporting")
          /\ report[g].stage = "none"
      BY <1>6, <2>1, <2>3 DEF Stats, TypeOK, SendStats, LastReport
    <3>2. alive'[h] # "gone"
      BY <1>6, <2>1, <2>3, <3>1 DEF SendStats, LastReport, Running, TypeOK
    <3> QED
      BY <1>0, <2>1, <3>1, <3>2 DEF NoBad
  <2> QED
    BY <2>2, <2>3
<1>7. ASSUME NEW g \in Host, Exit(g)
      PROVE  NoBad(h)'
  <2>1. count' = count /\ report'[h] \in {report[h], NoReport}
    BY <1>7, Left DEF Exit, workVars
  <2>2. alive'[h] = alive[h] \/ (alive[h] = "ending" /\ alive'[h] = "gone")
    BY <1>7 DEF Exit, TypeOK
  <2> QED
    BY <1>0, <1>t, <2>1, <2>2 DEF NoBad
<1>8. ASSUME NEW g \in Host, Acknowledge(g) \/ LoseReport(g)
      PROVE  NoBad(h)'
  <2>1. report[g].stage = "applied"
    BY <1>8 DEF Acknowledge
  <2> QED
    BY <1>8, <2>1, NoBadAnswered
<1> QED
  BY <1>2, <1>3, <1>4, <1>5, <1>6, <1>7, <1>8, StepKinds

\* while no task is lost none gets lost, but by a fetch that fails or a death; a report
\* that was applied may be lost and changes nothing
LEMMA NothingLostStep ==
  ASSUME TypeOK, PlaceInv, StageInv, CountInv, NothingLost, [Next]_vars,
         ~(\E g \in Host : LoseFetch(g) \/ Die(g)),
         \A g \in Host : LoseReport(g) => report[g].stage = "applied"
  PROVE  NothingLost'
<1>f. failed \in Nat /\ failed' \in Nat /\ failed <= failed'
  BY FailedGrows
<1>1. orphans' = 0
  <2>1. orphans = 0
    BY DEF NothingLost
  <2> QED
    BY <2>1, StepKinds DEF EndJob, AnswerNobody, List, OwnWork, Answer, Receive, Track, Apply,
         Acknowledge, LastReport, Exit, SendStats, LoseReport, Work, vars
<1>2. \A h \in Host : alive'[h] # "dead"
  <2>1. \A h \in Host : alive[h] # "dead"
    BY DEF NothingLost
  <2>2. \/ alive' = alive
        \/ \E g \in Host, a \in {"reporting", "ending", "gone"} : alive' = [alive EXCEPT ![g] = a]
    BY StepKinds DEF EndJob, AnswerNobody, List, OwnWork, Answer, Receive, Track, Apply,
         Acknowledge, LastReport, Exit, SendStats, LoseReport, Work, vars, hostVars, Answered
  <2> QED
    BY <2>1, <2>2 DEF TypeOK
<1>3. ASSUME NEW h \in Host, report'[h].stage = "applied", report'[h].count.bad > 0
      PROVE  failed' > 0
  <2>0. CountOf(h) /\ DOMAIN report = Host /\ NoReport.stage = "none"
    BY CountsAreNumbers DEF TypeOK, NoReport
  <2>1. CASE report'[h] = report[h]
    BY <1>f, <1>3, <2>1 DEF NothingLost
  <2>2. CASE Apply(h)
    <3>1. report' = [report EXCEPT ![h].stage = "applied"] /\ failed' = failed + report[h].count.bad
      BY <2>2 DEF Apply
    <3>2. report'[h].count = report[h].count
      BY <3>1 DEF TypeOK
    <3> QED
      BY <1>3, <1>f, <2>0, <3>1, <3>2 DEF CountOf
  <2>3. \/ report' = report
        \/ \E g \in Host : report' = [report EXCEPT ![g] = NoReport]
        \/ \E g \in Host : report' = [report EXCEPT ![g] = Stats(g)]
        \/ \E g \in Host : Apply(g) \/ Exit(g)
    BY StepKinds DEF EndJob, AnswerNobody, List, OwnWork, Answer, Receive, Track, Acknowledge,
         LastReport, SendStats, LoseReport, Work, vars, hostVars, Send, Answered
  <2>6. ASSUME NEW g \in Host, Exit(g)
        PROVE  report'[h] \in {report[h], NoReport}
    BY <2>6, Left DEF Exit
  <2>4. ASSUME NEW g \in Host, Apply(g), g # h
        PROVE  report'[h] = report[h]
    BY <2>0, <2>4 DEF Apply
  <2>5. Stats(h).stage = "sent"
    BY DEF Stats
  <2> QED
    BY <1>3, <2>0, <2>1, <2>2, <2>3, <2>4, <2>5, <2>6
<1>5. ASSUME NEW h \in Host, ~(failed' > 0)
      PROVE  NoBad(h)'
  <2>1. failed = 0
    BY <1>5, <1>f
  <2> QED
    BY <2>1, NoBadStep
<1>4. ASSUME NEW k \in Out', doneBy'[k] = Nobody, ~(failed' > 0)
      PROVE  \E h \in Host : Unreported(h)'
  <2>1. k \in Key /\ failed = 0 /\ failed' = 0
    BY <1>4, <1>f DEF Out
  <2>2. doneBy[k] = Nobody
    BY <1>4, <2>1, HandledStays
  <2>3. CASE k \in Out
    <3>1. PICK h \in Host : Unreported(h)
      BY <2>1, <2>2, <2>3 DEF NothingLost
    <3> QED
      BY <2>1, <3>1, UnreportedStays
  <2>4. CASE OwnWork(k)
    <3>1. doneBy' = [doneBy EXCEPT ![k] = Manager] \/ failed' = failed + 1
      BY <2>4, Zenon DEF OwnWork
    <3>2. doneBy'[k] = Manager
      BY <2>1, <3>1 DEF TypeOK
    <3> QED
      BY <1>4, <3>2 DEF Manager, Nobody
  <2>5. ASSUME NEW h \in Host, Work(h, k)
        PROVE  Unreported(h)'
    <3>1. alive' = alive /\ alive[h] = "up"
      BY <2>5 DEF Work
    <3>2. \/ doneBy' = [doneBy EXCEPT ![k] = h]
          \/ count' = [count EXCEPT ![h].bad = @ + 1]
      BY <2>5 DEF Work
    <3>3. doneBy' # [doneBy EXCEPT ![k] = h]
      BY <1>4, <2>1, HostAssumption DEF TypeOK
    <3>4. count'[h].bad = count[h].bad + 1
      BY <3>2, <3>3 DEF TypeOK, Counters
    <3>5. CountOf(h)
      BY CountsAreNumbers
    <3>6. count'[h].bad > 0
      BY <3>4, <3>5 DEF CountOf
    <3> QED
      BY <3>1, <3>6 DEF Unreported
  <2> QED
    BY <2>3, <2>4, <2>5, NewlyOut
<1> QED
  BY <1>1, <1>2, <1>3, <1>4, <1>5 DEF NothingLost

\* what CountedAt says of one process
HostCounted(w, h) ==
    /\ Running(h) =>
           count[h].ok <= Cardinality(Of(w, h, "kept"))
                          + IF report[h].stage = "none" THEN 0 ELSE report[h].count.ok
    /\ report[h].stage = "sent" => report[h].count.ok <= Cardinality(Of(w, h, "sent"))

LEMMA OfSizes ==
  ASSUME NEW w, NEW h, NEW x
  PROVE  /\ Of(w, h, x) \in SUBSET Key /\ Counted(w) \in SUBSET Key
         /\ Of(w, h, x)' \in SUBSET Key /\ Counted(w)' \in SUBSET Key
         /\ IsFiniteSet(Of(w, h, x)) /\ IsFiniteSet(Counted(w))
         /\ Cardinality(Of(w, h, x)) \in Nat /\ Cardinality(Counted(w)) \in Nat
         /\ Cardinality(Of(w, h, x)') \in Nat /\ Cardinality(Counted(w)') \in Nat
<1>1. /\ Of(w, h, x) \in SUBSET Key /\ Counted(w) \in SUBSET Key
      /\ Of(w, h, x)' \in SUBSET Key /\ Counted(w)' \in SUBSET Key
  BY DEF Of, Counted
<1> QED
  BY <1>1, Subsets

\* who did nothing and lost nothing counts as before
LEMMA HostCountedSame ==
  ASSUME NEW w, NEW v, NEW h \in Host, HostCounted(w, h),
         Running(h)' => Running(h), count'[h] = count[h], report'[h] = report[h],
         \A x \in {"kept", "sent"} : Of(v, h, x)' = Of(w, h, x)
  PROVE  HostCounted(v, h)'
  BY DEF HostCounted

\* two disjoint sets of keys have as many members together as both
LEMMA TwoSets ==
  ASSUME NEW S \in SUBSET Key, NEW T \in SUBSET Key, S \cap T = {}
  PROVE  Cardinality(S \cup T) = Cardinality(S) + Cardinality(T)
<1>1. IsFiniteSet(S) /\ IsFiniteSet(T) /\ Cardinality(S) \in Nat /\ Cardinality(T) \in Nat
  BY Subsets
<1>2. Cardinality(S \cup T) = Cardinality(S) + Cardinality(T) - Cardinality(S \cap T)
  BY <1>1, FS_Union
<1>3. Cardinality(S \cap T) = 0
  BY FS_EmptySet
<1> QED
  BY <1>1, <1>2, <1>3

\* it is enough to look at the processes when the manager counts nothing
LEMMA CountedByHosts ==
  ASSUME NEW w \in [Key -> Place], NEW v \in [Key -> Place], CountedAt(w),
         UNCHANGED <<handled, failed>>, Counted(v)' = Counted(w),
         \A h \in Host : HostCounted(v, h)'
  PROVE  CountedOnce'
<1>1. CountedAt(v)'
  BY DEF CountedAt, HostCounted
<1> QED
  BY <1>1 DEF CountedOnce

\* a key may be put back among those that nobody counts
LEMMA KeptPlace ==
  ASSUME NEW w \in [Key -> Place], NEW k \in Key
  PROVE  \E v \in [Key -> Place] : v[k] = "kept" /\ \A j \in Key \ {k} : v[j] = w[j]
<1> DEFINE u == [w EXCEPT ![k] = "kept"]
<1>1. u \in [Key -> Place] /\ u[k] = "kept" /\ \A j \in Key \ {k} : u[j] = w[j]
  BY DEF Place
<1> QED
  BY <1>1

LEMMA WorkCounted ==
  ASSUME TypeOK, PlaceInv, ~deleteSrcAfter, CountedOnce, [Next]_vars,
         NEW g \in Host, NEW k \in Key, Work(g, k)
  PROVE  CountedOnce'
<1>1. PICK w \in [Key -> Place] : CountedAt(w)
  BY DEF CountedOnce
<1>2. \A h \in Host : HostCounted(w, h) /\ CountOf(h)
  BY <1>1, CountsAreNumbers DEF CountedAt, HostCounted
<1>3. UNCHANGED <<handled, failed, alive, report>>
  BY DEF Work, managerVars
<1>t. /\ count \in [Host -> [ok : 0..Most, bad : 0..Most]]
      /\ doneBy \in [Key -> Host \cup {Manager, Nobody, Gone}]
      /\ Nobody # Manager /\ Nobody \notin Host /\ Manager \notin Host
  BY HostAssumption DEF TypeOK, Counters, Nobody, Manager
<1>4. \/ /\ count' = [count EXCEPT ![g].ok = @ + 1]
         /\ doneBy' = [doneBy EXCEPT ![k] = g]
      \/ /\ count' = [count EXCEPT ![g].bad = @ + 1]
         /\ doneBy' = doneBy
      \/ /\ count' = [count EXCEPT ![g].bad = @ + 1]
         /\ doneBy' = [doneBy EXCEPT ![k] = Gone]
  BY DEF Work
<1>7. CASE count' = [count EXCEPT ![g].bad = @ + 1] /\ doneBy' = [doneBy EXCEPT ![k] = Gone]
  <2>1. k \notin Out
    BY WorkOut
  <2>2. doneBy[k] = Nobody
    BY <2>1 DEF PlaceInv
  <2>3. PICK v \in [Key -> Place] : v[k] = "kept" /\ \A j \in Key \ {k} : v[j] = w[j]
    BY KeptPlace
  <2>4. \A h \in Host : count'[h].ok = count[h].ok
    BY <1>7, <1>t
  <2>5. doneBy'[k] = Gone /\ Gone \notin Host /\ \A j \in Key \ {k} : doneBy'[j] = doneBy[j]
    BY <1>7, <1>t, HostAssumption
  <2>6. \A h \in Host : \A x : Of(v, h, x)' = Of(w, h, x)
    BY <1>t, <2>2, <2>3, <2>5 DEF Of
  <2>7. \A h \in Host : HostCounted(v, h)'
    BY <1>2, <1>3, <2>4, <2>6 DEF HostCounted, Running
  <2>8. Counted(v)' = Counted(w)
    BY <2>2, <2>3, <2>5 DEF Counted
  <2> QED
    BY <1>1, <1>3, <2>3, <2>7, <2>8, CountedByHosts
<1>5. CASE count' = [count EXCEPT ![g].bad = @ + 1] /\ doneBy' = doneBy
  <2>1. \A h \in Host : count'[h].ok = count[h].ok
    BY <1>5, <1>t
  <2>2. \A h : \A x : Of(w, h, x)' = Of(w, h, x)
    BY <1>5 DEF Of
  <2>3. \A h \in Host : HostCounted(w, h)'
    BY <1>2, <1>3, <2>1, <2>2 DEF HostCounted, Running
  <2>4. Counted(w)' = Counted(w)
    BY <1>5 DEF Counted
  <2> QED
    BY <1>1, <1>3, <2>3, <2>4, CountedByHosts
<1>6. CASE count' = [count EXCEPT ![g].ok = @ + 1] /\ doneBy' = [doneBy EXCEPT ![k] = g]
  <2>1. doneBy[k] = Nobody
    <3>1. k \notin Out
      BY WorkOut
    <3> QED
      BY <3>1 DEF PlaceInv
  <2> DEFINE v == [w EXCEPT ![k] = "kept"]
  <2>2. v \in [Key -> Place] /\ v[k] = "kept" /\ \A j \in Key \ {k} : v[j] = w[j]
    BY DEF Place
  <2> HIDE DEF v
  <2>3. doneBy'[k] = g /\ \A j \in Key \ {k} : doneBy'[j] = doneBy[j]
    BY <1>6, <1>t
  <2>4. Counted(v)' = Counted(w)
    BY <2>1, <2>2, <2>3 DEF Counted
  <2>5. \A h \in Host, x \in {"kept", "sent"} :
            ~(h = g /\ x = "kept") => Of(v, h, x)' = Of(w, h, x)
    BY <1>t, <2>1, <2>2, <2>3 DEF Of
  <2>6. Cardinality(Of(w, g, "kept")) + 1 <= Cardinality(Of(v, g, "kept")')
    <3>1. /\ Of(w, g, "kept") \subseteq Of(v, g, "kept")' /\ k \in Of(v, g, "kept")'
          /\ k \notin Of(w, g, "kept")
      BY <1>t, <2>1, <2>2, <2>3 DEF Of
    <3>2. Of(w, g, "kept") \in SUBSET Key /\ Of(v, g, "kept")' \in SUBSET Key
      BY DEF Of
    <3> QED
      BY <3>1, <3>2, OneMore
  <2>7. HostCounted(v, g)'
    <3>1. count'[g].ok = count[g].ok + 1
      BY <1>6, <1>t
    <3>2. /\ Cardinality(Of(w, g, "kept")) \in Nat /\ Cardinality(Of(v, g, "kept")') \in Nat
      BY OfSizes
    <3>3. /\ HostCounted(w, g) /\ CountOf(g)
          /\ Of(v, g, "sent")' = Of(w, g, "sent") /\ report'[g] = report[g]
          /\ Running(g)' = Running(g)
      BY <1>2, <1>3, <2>5 DEF Running
    <3> QED
      BY <2>6, <3>1, <3>2, <3>3 DEF HostCounted, CountOf
  <2>8. ASSUME NEW h \in Host, h # g
        PROVE  HostCounted(v, h)'
    <3>1. count'[h] = count[h]
      BY <1>6, <1>t, <2>8
    <3> QED
      BY <1>2, <1>3, <2>5, <2>8, <3>1, HostCountedSame DEF Running
  <2> QED
    BY <1>1, <1>3, <2>2, <2>4, <2>7, <2>8, CountedByHosts
<1> QED
  BY <1>4, <1>5, <1>6, <1>7

LEMMA OwnWorkCounted ==
  ASSUME TypeOK, PlaceInv, ~deleteSrcAfter, CountedOnce, NEW k \in Key, OwnWork(k)
  PROVE  CountedOnce'
<1>1. PICK w \in [Key -> Place] : CountedAt(w)
  BY DEF CountedOnce
<1>2. \A h \in Host : HostCounted(w, h) /\ CountOf(h)
  BY <1>1, CountsAreNumbers DEF CountedAt, HostCounted
<1>3. UNCHANGED <<alive, report, count>> /\ handled' = handled + 1
  BY DEF OwnWork, hostVars, workVars
<1>t. /\ doneBy \in [Key -> Host \cup {Manager, Nobody, Gone}] /\ handled \in Nat /\ failed \in Nat
      /\ Nobody # Manager /\ Nobody \notin Host /\ Manager \notin Host
  BY HostAssumption DEF TypeOK, Nobody, Manager
<1>c. Cardinality(Counted(w)) \in Nat /\ handled <= Cardinality(Counted(w)) + failed
  BY <1>1, OfSizes DEF CountedAt
<1>4. \/ failed' = failed /\ doneBy' = [doneBy EXCEPT ![k] = Manager]
      \/ failed' = failed + 1 /\ doneBy' = doneBy
      \/ failed' = failed + 1 /\ doneBy' = [doneBy EXCEPT ![k] = Gone]
  BY DEF OwnWork
<1>7. CASE failed' = failed + 1 /\ doneBy' = [doneBy EXCEPT ![k] = Gone]
  <2>1. doneBy[k] = Nobody
    BY DEF OwnWork, PlaceInv, Out
  <2>2. PICK v \in [Key -> Place] : v[k] = "kept" /\ \A j \in Key \ {k} : v[j] = w[j]
    BY KeptPlace
  <2>3. doneBy'[k] = Gone /\ Gone \notin Host /\ \A j \in Key \ {k} : doneBy'[j] = doneBy[j]
    BY <1>7, <1>t, HostAssumption
  <2>4. Counted(v)' = Counted(w) /\ \A h \in Host : \A x : Of(v, h, x)' = Of(w, h, x)
    BY <1>t, <2>1, <2>2, <2>3 DEF Of, Counted
  <2>5. \A h \in Host : HostCounted(v, h)'
    BY <1>2, <1>3, <2>4 DEF HostCounted, Running
  <2>6. handled' <= Cardinality(Counted(v)') + failed'
    BY <1>t, <1>c, <1>3, <1>7, <2>4
  <2>7. CountedAt(v)'
    BY <2>5, <2>6 DEF CountedAt, HostCounted
  <2> QED
    BY <2>2, <2>7 DEF CountedOnce
<1>5. CASE failed' = failed + 1 /\ doneBy' = doneBy
  <2>1. Counted(w)' = Counted(w) /\ \A h : \A x : Of(w, h, x)' = Of(w, h, x)
    BY <1>5 DEF Of, Counted
  <2>2. \A h \in Host : HostCounted(w, h)'
    BY <1>2, <1>3, <2>1 DEF HostCounted, Running
  <2>3. handled' <= Cardinality(Counted(w)') + failed'
    BY <1>t, <1>c, <1>3, <1>5, <2>1
  <2>4. CountedAt(w)'
    BY <2>2, <2>3 DEF CountedAt, HostCounted
  <2> QED
    BY <2>4 DEF CountedOnce
<1>6. CASE failed' = failed /\ doneBy' = [doneBy EXCEPT ![k] = Manager]
  <2>1. doneBy[k] = Nobody
    BY DEF OwnWork, PlaceInv, Out
  <2> DEFINE v == [w EXCEPT ![k] = "counted"]
  <2>2. v \in [Key -> Place] /\ v[k] = "counted" /\ \A j \in Key \ {k} : v[j] = w[j]
    BY DEF Place
  <2> HIDE DEF v
  <2>3. doneBy'[k] = Manager /\ \A j \in Key \ {k} : doneBy'[j] = doneBy[j]
    BY <1>6, <1>t
  <2>4. \A h \in Host, x \in {"kept", "sent"} : Of(v, h, x)' = Of(w, h, x)
    BY <1>t, <2>1, <2>2, <2>3 DEF Of
  <2>5. Cardinality(Counted(w)) + 1 <= Cardinality(Counted(v)') /\ Cardinality(Counted(v)') \in Nat
    <3>1. Counted(w) \subseteq Counted(v)' /\ k \in Counted(v)' /\ k \notin Counted(w)
      BY <1>t, <2>1, <2>2, <2>3 DEF Counted
    <3>2. Counted(w) \in SUBSET Key /\ Counted(v)' \in SUBSET Key
      BY DEF Counted
    <3> QED
      BY <3>1, <3>2, OneMore, Subsets
  <2>6. \A h \in Host : HostCounted(v, h)'
    BY <1>2, <1>3, <2>4, HostCountedSame DEF Running
  <2>7. handled' <= Cardinality(Counted(v)') + failed'
    BY <1>t, <1>c, <1>3, <1>6, <2>5
  <2>8. CountedAt(v)'
    BY <2>6, <2>7 DEF CountedAt, HostCounted
  <2> QED
    BY <2>2, <2>8 DEF CountedOnce
<1> QED
  BY <1>4, <1>5, <1>6, <1>7

LEMMA SendCounted ==
  ASSUME TypeOK, CountedOnce, NEW g \in Host, SendStats(g) \/ LastReport(g)
  PROVE  CountedOnce'
<1>1. PICK w \in [Key -> Place] : CountedAt(w)
  BY DEF CountedOnce
<1>2. \A h \in Host : HostCounted(w, h) /\ CountOf(h)
  BY <1>1, CountsAreNumbers DEF CountedAt, HostCounted
<1>t. DOMAIN report = Host /\ DOMAIN alive = Host
  BY DEF TypeOK
<1>3. /\ UNCHANGED <<handled, failed, count, doneBy>> /\ Running(g) /\ report[g].stage = "none"
      /\ report'[g] = Stats(g) /\ \A h \in Host \ {g} : report'[h] = report[h] /\ alive'[h] = alive[h]
  BY <1>t DEF SendStats, LastReport, Send, managerVars, Running
<1>4. PICK v \in [Key -> Place] :
          /\ \A k \in Of(w, g, "kept") : v[k] = "sent"
          /\ \A k \in Key \ Of(w, g, "kept") : v[k] = w[k]
  <2> DEFINE u == [k \in Key |-> IF k \in Of(w, g, "kept") THEN "sent" ELSE w[k]]
  <2>1. /\ u \in [Key -> Place]
        /\ \A k \in Of(w, g, "kept") : u[k] = "sent"
        /\ \A k \in Key \ Of(w, g, "kept") : u[k] = w[k]
    BY DEF Place, Of
  <2> QED
    BY <2>1
<1>5. Counted(v)' = Counted(w)
  BY <1>3, <1>4 DEF Counted, Of
<1>6. \A h \in Host \ {g}, x \in {"kept", "sent"} : Of(v, h, x)' = Of(w, h, x)
  BY <1>3, <1>4 DEF Of
<1>7. HostCounted(v, g)'
  <2>1. Of(w, g, "kept") \subseteq Of(v, g, "sent")'
    BY <1>3, <1>4 DEF Of
  <2>2. Cardinality(Of(w, g, "kept")) <= Cardinality(Of(v, g, "sent")')
    BY <2>1, OfSizes, NoMore
  <2>3. /\ Cardinality(Of(w, g, "kept")) \in Nat /\ Cardinality(Of(v, g, "sent")') \in Nat
        /\ Cardinality(Of(v, g, "kept")') \in Nat
    BY OfSizes
  <2>4. count[g].ok <= Cardinality(Of(w, g, "kept")) + 0 /\ CountOf(g)
    BY <1>2, <1>3 DEF HostCounted
  <2>5. report'[g].stage = "sent" /\ report'[g].count = count[g] /\ count'[g] = count[g]
    BY <1>3 DEF Stats
  <2> QED
    BY <2>2, <2>3, <2>4, <2>5 DEF HostCounted, CountOf
<1>8. ASSUME NEW h \in Host, h # g
      PROVE  HostCounted(v, h)'
  BY <1>2, <1>3, <1>6, <1>8, HostCountedSame DEF Running
<1> QED
  BY <1>1, <1>3, <1>4, <1>5, <1>7, <1>8, CountedByHosts

LEMMA ApplyCounted ==
  ASSUME TypeOK, CountedOnce, NEW g \in Host, Apply(g)
  PROVE  CountedOnce'
<1>1. PICK w \in [Key -> Place] : CountedAt(w)
  BY DEF CountedOnce
<1>2. \A h \in Host : HostCounted(w, h) /\ CountOf(h)
  BY <1>1, CountsAreNumbers DEF CountedAt, HostCounted
<1>t. DOMAIN report = Host /\ handled \in Nat /\ failed \in Nat
  BY DEF TypeOK
<1>3. /\ UNCHANGED <<count, doneBy, alive>> /\ report[g].stage = "sent"
      /\ handled' = handled + report[g].count.ok + report[g].count.bad
      /\ failed' = failed + report[g].count.bad
      /\ report' = [report EXCEPT ![g].stage = "applied"]
  BY DEF Apply, workVars
<1>4. /\ report'[g].stage = "applied" /\ report'[g].count = report[g].count
      /\ \A h \in Host \ {g} : report'[h] = report[h]
  BY <1>3 DEF TypeOK
<1>5. PICK v \in [Key -> Place] :
          /\ \A k \in Of(w, g, "sent") : v[k] = "counted"
          /\ \A k \in Key \ Of(w, g, "sent") : v[k] = w[k]
  <2> DEFINE u == [k \in Key |-> IF k \in Of(w, g, "sent") THEN "counted" ELSE w[k]]
  <2>1. /\ u \in [Key -> Place]
        /\ \A k \in Of(w, g, "sent") : u[k] = "counted"
        /\ \A k \in Key \ Of(w, g, "sent") : u[k] = w[k]
    BY DEF Place, Of
  <2> QED
    BY <2>1
<1>6. Counted(v)' = Counted(w) \cup Of(w, g, "sent")
  BY <1>3, <1>5, HostAssumption DEF Counted, Of
<1>7. Cardinality(Counted(v)') = Cardinality(Counted(w)) + Cardinality(Of(w, g, "sent"))
  <2>1. Counted(w) \cap Of(w, g, "sent") = {}
    BY DEF Counted, Of
  <2> QED
    BY <1>6, <2>1, OfSizes, TwoSets
<1>8. \A h \in Host, x \in {"kept", "sent"} :
          ~(h = g /\ x = "sent") => Of(v, h, x)' = Of(w, h, x)
  BY <1>3, <1>5 DEF Of
<1>9. HostCounted(v, g)'
  <2>1. Of(v, g, "kept")' = Of(w, g, "kept")
    BY <1>8
  <2> QED
    BY <1>2, <1>3, <1>4, <2>1 DEF HostCounted, Running
<1>10. ASSUME NEW h \in Host, h # g
       PROVE  HostCounted(v, h)'
  BY <1>2, <1>3, <1>4, <1>8, <1>10, HostCountedSame DEF Running
<1>11. handled' <= Cardinality(Counted(v)') + failed'
  <2>1. handled <= Cardinality(Counted(w)) + failed
    BY <1>1 DEF CountedAt
  <2>2. report[g].count.ok <= Cardinality(Of(w, g, "sent")) /\ CountOf(g)
    BY <1>2, <1>3 DEF HostCounted
  <2>3. Cardinality(Of(w, g, "sent")) \in Nat /\ Cardinality(Counted(w)) \in Nat
    BY OfSizes
  <2> QED
    BY <1>t, <1>3, <1>7, <2>1, <2>2, <2>3 DEF CountOf
<1>12. CountedAt(v)'
  BY <1>9, <1>10, <1>11 DEF CountedAt, HostCounted
<1> QED
  BY <1>5, <1>12 DEF CountedOnce

LEMMA AcknowledgeCounted ==
  ASSUME TypeOK, CountedOnce, NEW g \in Host, Acknowledge(g)
  PROVE  CountedOnce'
<1>1. PICK w \in [Key -> Place] : CountedAt(w)
  BY DEF CountedOnce
<1>2. \A h \in Host : HostCounted(w, h) /\ CountOf(h)
  BY <1>1, CountsAreNumbers DEF CountedAt, HostCounted
<1>a. \A h \in Host : Running(h)' <=> Running(h)
  BY AnsweredOnly DEF Acknowledge
<1>3. /\ UNCHANGED <<handled, failed, doneBy>> /\ Running(g) /\ report[g].stage = "applied"
      /\ report'[g] = NoReport /\ count'[g] = Less(count[g], report[g].count)
      /\ \A h \in Host \ {g} : report'[h] = report[h] /\ count'[h] = count[h]
  BY DEF Acknowledge, Answered, managerVars, TypeOK
<1>4. Counted(w)' = Counted(w) /\ \A h : \A x : Of(w, h, x)' = Of(w, h, x)
  BY <1>3 DEF Counted, Of
<1>5. HostCounted(w, g)'
  <2>1. count'[g].ok = count[g].ok - report[g].count.ok /\ report'[g].stage = "none"
    BY <1>3 DEF Less, NoReport
  <2>2. count[g].ok <= Cardinality(Of(w, g, "kept")) + report[g].count.ok /\ CountOf(g)
    BY <1>2, <1>3 DEF HostCounted
  <2>3. Cardinality(Of(w, g, "kept")) \in Nat
    BY OfSizes
  <2>4. count'[g].ok <= Cardinality(Of(w, g, "kept")) + 0
    BY <2>1, <2>2, <2>3 DEF CountOf
  <2> QED
    BY <1>4, <2>1, <2>4 DEF HostCounted
<1>6. ASSUME NEW h \in Host, h # g
      PROVE  HostCounted(w, h)'
  BY <1>2, <1>3, <1>4, <1>6, <1>a, HostCountedSame
<1> QED
  BY <1>1, <1>3, <1>4, <1>5, <1>6, CountedByHosts

LEMMA LoseReportCounted ==
  ASSUME TypeOK, CountedOnce, NEW g \in Host, LoseReport(g), report[g].stage = "sent"
  PROVE  CountedOnce'
<1>1. PICK w \in [Key -> Place] : CountedAt(w)
  BY DEF CountedOnce
<1>2. \A h \in Host : HostCounted(w, h) /\ CountOf(h)
  BY <1>1, CountsAreNumbers DEF CountedAt, HostCounted
<1>a. \A h \in Host : Running(h)' <=> Running(h)
  BY AnsweredOnly DEF LoseReport
<1>3. /\ UNCHANGED <<handled, failed, count, doneBy>> /\ Running(g)
      /\ report'[g].stage = "none" /\ \A h \in Host \ {g} : report'[h] = report[h]
  BY DEF LoseReport, Answered, managerVars, TypeOK, NoReport
<1>4. PICK v \in [Key -> Place] :
          /\ \A k \in Of(w, g, "sent") : v[k] = "kept"
          /\ \A k \in Key \ Of(w, g, "sent") : v[k] = w[k]
  <2> DEFINE u == [k \in Key |-> IF k \in Of(w, g, "sent") THEN "kept" ELSE w[k]]
  <2>1. /\ u \in [Key -> Place]
        /\ \A k \in Of(w, g, "sent") : u[k] = "kept"
        /\ \A k \in Key \ Of(w, g, "sent") : u[k] = w[k]
    BY DEF Place, Of
  <2> QED
    BY <2>1
<1>5. Counted(v)' = Counted(w)
  BY <1>3, <1>4 DEF Counted, Of
<1>6. \A h \in Host \ {g}, x \in {"kept", "sent"} : Of(v, h, x)' = Of(w, h, x)
  BY <1>3, <1>4 DEF Of
<1>7. HostCounted(v, g)'
  <2>1. Of(v, g, "kept")' = Of(w, g, "kept") \cup Of(w, g, "sent")
    BY <1>3, <1>4 DEF Of
  <2>2. Of(w, g, "kept") \cap Of(w, g, "sent") = {}
    BY DEF Of
  <2>3. Cardinality(Of(v, g, "kept")') = Cardinality(Of(w, g, "kept")) + Cardinality(Of(w, g, "sent"))
    BY <2>1, <2>2, OfSizes, TwoSets
  <2>4. /\ count[g].ok <= Cardinality(Of(w, g, "kept")) + report[g].count.ok /\ CountOf(g)
        /\ report[g].count.ok <= Cardinality(Of(w, g, "sent"))
    BY <1>2, <1>3 DEF HostCounted
  <2>5. Cardinality(Of(w, g, "kept")) \in Nat /\ Cardinality(Of(w, g, "sent")) \in Nat
    BY OfSizes
  <2>6. count'[g].ok <= Cardinality(Of(v, g, "kept")') + 0
    BY <1>3, <2>3, <2>4, <2>5 DEF CountOf
  <2> QED
    BY <1>3, <2>6 DEF HostCounted
<1>8. ASSUME NEW h \in Host, h # g
      PROVE  HostCounted(v, h)'
  BY <1>2, <1>3, <1>6, <1>8, <1>a, HostCountedSame
<1> QED
  BY <1>1, <1>3, <1>4, <1>5, <1>7, <1>8, CountedByHosts

\* no success is counted twice while no report is lost that was applied
LEMMA CountedOnceStep ==
  ASSUME TypeOK, PlaceInv, ~deleteSrcAfter, CountedOnce, [Next]_vars, ~EndJob,
         \A g \in Host : LoseReport(g) => report[g].stage = "sent"
  PROVE  CountedOnce'
<1>1. CASE /\ UNCHANGED <<handled, failed, count, doneBy>>
           /\ \A h \in Host : /\ Running(h)' => Running(h)
                              /\ \/ report'[h] = report[h]
                                 \/ ~Running(h)' /\ report'[h].stage = "none"
  <2>1. PICK w \in [Key -> Place] : CountedAt(w)
    BY DEF CountedOnce
  <2>2. Counted(w)' = Counted(w) /\ \A h : \A x : Of(w, h, x)' = Of(w, h, x)
    BY <1>1 DEF Counted, Of
  <2>3. \A h \in Host : HostCounted(w, h)
    BY <2>1 DEF CountedAt, HostCounted
  <2>4. \A h \in Host : HostCounted(w, h)'
    BY <1>1, <2>2, <2>3 DEF HostCounted
  <2> QED
    BY <1>1, <2>1, <2>2, <2>4, CountedByHosts
<1>2. CASE UNCHANGED vars \/ AnswerNobody \/ \E k \in Key : List(k)
  BY <1>1, <1>2 DEF vars, AnswerNobody, List, managerVars, hostVars, workVars, Running
<1>3. ASSUME NEW h \in Host, Answer(h) \/ Receive(h) \/ LoseFetch(h) \/ Track(h)
      PROVE  CountedOnce'
  BY <1>1, <1>3 DEF Answer, Receive, LoseFetch, Track, managerVars, workVars, Running
<1>4. ASSUME NEW g \in Host, Exit(g)
      PROVE  CountedOnce'
  <2>1. \A h \in Host : (Running(h)' => Running(h)) /\ (h = g => ~Running(h)')
    BY <1>4 DEF Exit, Running, TypeOK
  <2>2. \A h \in Host : report'[h] = report[h] \/ (h = g /\ report'[h].stage = "none")
    BY <1>4, Left DEF Exit, NoReport
  <2>3. UNCHANGED <<handled, failed, count, doneBy>>
    BY <1>4 DEF Exit, managerVars, workVars
  <2> QED
    BY <1>1, <2>1, <2>2, <2>3
<1>5. ASSUME NEW g \in Host, Die(g)
      PROVE  CountedOnce'
  <2>0. UNCHANGED <<handled, failed, doneBy>> /\ NoReport.stage = "none"
    BY <1>5 DEF Die, managerVars, NoReport
  <2>1. PICK w \in [Key -> Place] : CountedAt(w)
    BY DEF CountedOnce
  <2>2. Counted(w)' = Counted(w) /\ \A h : \A x : Of(w, h, x)' = Of(w, h, x)
    BY <2>0 DEF Counted, Of
  <2>3. ASSUME NEW h \in Host
        PROVE  HostCounted(w, h)'
    <3>1. HostCounted(w, h)
      BY <2>1 DEF CountedAt, HostCounted
    <3>2. CASE h = g
      <4>1. ~Running(h)' /\ report'[h] \in {report[h], NoReport}
        BY <1>5, <3>2, Left DEF Die, Running, TypeOK
      <4> QED
        BY <2>0, <2>2, <3>1, <4>1 DEF HostCounted
    <3>3. CASE h # g
      <4>1. alive'[h] = alive[h] /\ count'[h] = count[h] /\ report'[h] = report[h]
        BY <1>5, <3>3, Left DEF Die, TypeOK
      <4> QED
        BY <2>2, <3>1, <4>1, HostCountedSame DEF Running
    <3> QED
      BY <3>2, <3>3
  <2> QED
    BY <2>0, <2>1, <2>2, <2>3, CountedByHosts
<1> QED
  BY <1>2, <1>3, <1>4, <1>5, StepKinds, OwnWorkCounted, WorkCounted, SendCounted, ApplyCounted,
     AcknowledgeCounted, LoseReportCounted

\* a job that ends as completed with all its tasks accounted for has done them
LEMMA EndKnown ==
  ASSUME IInv, ~deleteSrcAfter, NothingLost \/ CountedOnce, EndJob, outcome' = "completed"
  PROVE  \A k \in Key : doneBy[k] # Nobody
<1>1. /\ unlisted = {} /\ queue = {} /\ \A h \in Host : ~Running(h)
      /\ ~(failed > 0) /\ ~(Cardinality(Key) > handled + Entries)
  BY DEF EndJob, Closed
<1>t. TypeOK /\ StageInv /\ delayDel = <<>> /\ handled \in Nat /\ failed \in Nat
  BY DEF IInv, NoDelayInv, TypeOK
<1>2. failed = 0 /\ Entries = 0
  BY <1>1, <1>t DEF Entries
<1>3. CASE NothingLost
  <2>1. ASSUME NEW h \in Host
        PROVE  Hand(h) = {} /\ ~Unreported(h)
    <3>1. alive[h] = "gone"
      BY <1>1, <1>3, <1>t DEF NothingLost, Running, TypeOK
    <3>2. fetch[h] = "done" /\ inbox[h] = {}
      BY <1>t, <3>1 DEF StageInv
    <3>4. report[h].stage = "sent" => report[h].count.bad = 0
      BY <1>2, <1>3, <3>1 DEF NothingLost, NoBad
    <3>3. answer[h] = {}
      BY <1>t, <3>2 DEF StageInv
    <3> QED
      BY <3>1, <3>2, <3>3, <3>4 DEF Hand, Unreported
  <2>2. Out = Key
    BY <1>1, <2>1 DEF Out
  <2> QED
    BY <1>2, <1>3, <2>1, <2>2 DEF NothingLost
<1>4. CASE CountedOnce
  <2>1. PICK w \in [Key -> Place] : CountedAt(w)
    BY <1>4 DEF CountedOnce
  <2>2. Counted(w) \in SUBSET Key
    BY DEF Counted
  <2>3. /\ Cardinality(Counted(w)) \in Nat /\ Cardinality(Key) \in Nat
        /\ Cardinality(Counted(w)) <= Cardinality(Key)
    BY <2>2, Subsets
  <2>4. handled <= Cardinality(Counted(w)) + failed
    BY <2>1 DEF CountedAt
  <2>5. Cardinality(Key) = Cardinality(Counted(w))
    BY <1>1, <1>2, <1>t, <2>3, <2>4
  <2>6. Counted(w) = Key
    BY <2>2, <2>5, ClusterAssumption, FS_Subset
  <2> QED
    BY <2>6 DEF Counted
<1> QED
  BY <1>3, <1>4

\* a loss is counted, and the outcome is decided once
LEMMA TroubleKinds ==
  ASSUME TypeOK, [Next]_vars
  PROVE  /\ deleteSrcAfter' = deleteSrcAfter
         /\ ~EndJob => outcome' = outcome
         /\ \/ trouble' = trouble /\ ~(\E g \in Host : LoseFetch(g) \/ Die(g) \/ LoseReport(g))
            \/ trouble' = trouble + 1 /\ trouble < MaxTrouble
<1>t. trouble \in Nat
  BY ClusterAssumption DEF TypeOK
<1>1. deleteSrcAfter' = deleteSrcAfter
  BY StepKinds DEF EndJob, AnswerNobody, List, OwnWork, Answer, Receive, LoseFetch, Track, Apply,
         Acknowledge, LastReport, Exit, SendStats, LoseReport, Die, Work, vars
<1>2. ~EndJob => outcome' = outcome
  BY StepKinds DEF AnswerNobody, List, OwnWork, Answer, Receive, LoseFetch, Track, Apply,
         Acknowledge, LastReport, Exit, SendStats, LoseReport, Die, Work, vars, managerVars
<1>3. \/ trouble' = trouble
      \/ trouble' = trouble + 1 /\ trouble < MaxTrouble
  BY StepKinds DEF EndJob, AnswerNobody, List, OwnWork, Answer, Receive, LoseFetch, Track, Apply,
         Acknowledge, LastReport, Exit, SendStats, LoseReport, Die, Work, vars, Trouble
<1>4. ASSUME NEW g \in Host, LoseFetch(g) \/ Die(g) \/ LoseReport(g)
      PROVE  trouble' = trouble + 1 /\ trouble < MaxTrouble
  BY <1>4 DEF LoseFetch, Die, LoseReport, Trouble
<1> QED
  BY <1>t, <1>1, <1>2, <1>3, <1>4

\* when nothing was lost before, a loss leaves one of the two accounts intact
LEMMA FirstLoss ==
  ASSUME IInv, ~deleteSrcAfter, NothingLost, CountedOnce, [Next]_vars, ~EndJob
  PROVE  NothingLost' \/ CountedOnce'
<1>t. TypeOK /\ PlaceInv /\ StageInv /\ CountInv
  BY DEF IInv
<1>1. CASE \A g \in Host : LoseReport(g) => report[g].stage = "sent"
  BY <1>t, <1>1, CountedOnceStep
<1>2. ASSUME NEW g \in Host, LoseReport(g), report[g].stage # "sent"
      PROVE  NothingLost'
  <2>1. /\ UNCHANGED <<orphans, failed, doneBy, count, unlisted, queue, answer, inbox>>
        /\ report' = [report EXCEPT ![g] = NoReport] /\ report[g].stage = "applied"
    BY <1>2 DEF LoseReport, Answered, managerVars, fetchVars
  <2>a. \A h \in Host : alive'[h] # "dead" /\ (alive[h] = "up" => alive'[h] = "up")
    BY <1>2, <1>t, AnsweredOnly DEF LoseReport, NothingLost
  <2>b. \A h \in Host : failed' > 0 \/ NoBad(h)'
    <3>1. failed \in Nat
      BY <1>t DEF TypeOK
    <3>2. CASE failed = 0
      BY <1>t, <1>2, <2>1, <3>2, NoBadAnswered
    <3> QED
      BY <2>1, <3>1, <3>2
  <2>2. Out' = Out
    BY <2>1, OutSame
  <2>3. /\ report'[g] = NoReport /\ \A h \in Host \ {g} : report'[h] = report[h]
        /\ NoReport.stage = "none"
    BY <1>t, <2>1 DEF TypeOK, NoReport
  <2>4. \A h \in Host : Unreported(h) => Unreported(h)'
    BY <2>1, <2>a, <2>3 DEF Unreported
  <2>5. \A h \in Host : report'[h].stage = "applied" /\ report'[h].count.bad > 0 => failed' > 0
    BY <2>1, <2>3 DEF NothingLost
  <2> QED
    BY <2>1, <2>2, <2>4, <2>5, <2>a, <2>b DEF NothingLost
<1> QED
  BY <1>1, <1>2

LEMMA LossStep ==
  ASSUME MaxTrouble <= 1, IInv, LossInv, [Next]_vars
  PROVE  LossInv'
<1>t. TypeOK /\ PlaceInv /\ StageInv /\ CountInv /\ OwedUntilDone /\ trouble \in Nat
  BY ClusterAssumption DEF IInv, TypeOK
<1>1. deleteSrcAfter' = deleteSrcAfter
  BY <1>t, TroubleKinds
<1> SUFFICES ASSUME ~deleteSrcAfter
             PROVE  /\ outcome' = "running" => /\ trouble' = 0 => NothingLost' /\ CountedOnce'
                                               /\ NothingLost' \/ CountedOnce'
                    /\ LossIsFailure'
  BY <1>1 DEF LossInv
<1>0. /\ outcome = "running" => /\ trouble = 0 => NothingLost /\ CountedOnce
                                /\ NothingLost \/ CountedOnce
      /\ LossIsFailure
  BY DEF LossInv
<1>d. \A k \in Key : doneBy[k] # Nobody => doneBy'[k] # Nobody
  BY <1>t, HandledStays
<1>2. CASE EndJob
  <2>1. outcome = "running" /\ outcome' # "running"
    BY <1>2 DEF EndJob
  <2>2. outcome' = "completed" => \A k \in Key : doneBy[k] # Nobody
    BY <1>0, <1>2, <2>1, EndKnown
  <2> QED
    BY <1>d, <2>1, <2>2 DEF LossIsFailure
<1>3. CASE ~EndJob
  <2>1. outcome' = outcome
    BY <1>t, <1>3, TroubleKinds
  <2>2. LossIsFailure'
    BY <1>0, <1>d, <2>1 DEF LossIsFailure
  <2>3. ASSUME outcome = "running"
        PROVE  /\ trouble' = 0 => NothingLost' /\ CountedOnce'
               /\ NothingLost' \/ CountedOnce'
    <3>1. CASE ~(\E g \in Host : LoseFetch(g) \/ Die(g) \/ LoseReport(g)) /\ trouble' = trouble
      <4>1. NothingLost => NothingLost'
        BY <1>t, <3>1, NothingLostStep
      <4>2. CountedOnce => CountedOnce'
        BY <1>t, <1>3, <3>1, CountedOnceStep
      <4> QED
        BY <1>0, <2>3, <3>1, <4>1, <4>2
    <3>2. CASE trouble' = trouble + 1 /\ trouble < MaxTrouble
      <4>1. trouble = 0 /\ trouble' # 0
        BY <1>t, <3>2, ClusterAssumption
      <4> QED
        BY <1>0, <1>3, <2>3, <4>1, FirstLoss
    <3> QED
      BY <1>t, <3>1, <3>2, TroubleKinds
  <2> QED
    BY <2>1, <2>2, <2>3
<1> QED
  BY <1>2, <1>3

LEMMA InitLoss == Init => LossInv
<1> SUFFICES ASSUME Init PROVE LossInv
  OBVIOUS
<1> USE DEF Init
<1>1. NothingLost
  <2>1. Out = {}
    BY DEF Out
  <2> QED
    BY <2>1 DEF NothingLost, NoBad, NoReport
<1>2. CountedOnce
  <2> DEFINE w == [k \in Key |-> "kept"]
  <2>1. w \in [Key -> Place]
    BY DEF Place
  <2>2. CountedAt(w)
    <3>1. Cardinality(Counted(w)) \in Nat /\ \A h : Cardinality(Of(w, h, "kept")) \in Nat
      BY OfSizes
    <3>2. handled = 0 /\ failed = 0 /\ \A h \in Host : count[h].ok = 0 /\ report[h].stage = "none"
      BY DEF Zero, NoReport
    <3> HIDE DEF w
    <3> QED
      BY <3>1, <3>2 DEF CountedAt
  <2> QED
    BY <2>1, <2>2 DEF CountedOnce
<1>3. LossIsFailure
  BY DEF LossIsFailure
<1> QED
  BY <1>1, <1>2, <1>3 DEF LossInv

\* Without --delete-src-after, if no more than one message is lost or one process dies, a
\* job that ends as completed has handled every object: the lost tasks leave the total
\* short, and only a second loss, that of an answer to a report, could make up for them.
THEOREM OneLossFails == MaxTrouble <= 1 => (Spec => []OneLossIsFailure)
<1> SUFFICES ASSUME MaxTrouble <= 1
             PROVE  Spec => []OneLossIsFailure
  OBVIOUS
<1>1. Init => IInv /\ LossInv
  BY InitInv, InitLoss
<1>2. IInv /\ LossInv /\ [Next]_vars => (IInv /\ LossInv)'
  BY NextInv, LossStep
<1>3. IInv /\ LossInv => OneLossIsFailure
  BY DEF LossInv, OneLossIsFailure
<1> QED
  BY <1>1, <1>2, <1>3, PTL DEF Spec
=============================================================================
