---------------------------- MODULE AsyncDbProofs ----------------------------
(***************************************************************************)
(* What AsyncDb promises for every number of records, every channel and    *)
(* batch size: types, one place for each record no commit of which went    *)
(* unanswered, and a flush behind Close when one caller closes.            *)
(***************************************************************************)
EXTENDS AsyncDb, TLAPS

-----------------------------------------------------------------------------
(* Sequences without repetition.                                           *)

\* What Append adds.
LEMMA AppendElements ==
    ASSUME NEW T, NEW s \in Seq(T), NEW e \in T
    PROVE  /\ Append(s, e) \in Seq(T)
           /\ Elements(Append(s, e)) = Elements(s) \cup {e}
           /\ Distinct(s) /\ e \notin Elements(s) => Distinct(Append(s, e))
<1> DEFINE a == Append(s, e)
<1>1. a \in Seq(T) /\ DOMAIN a = 1 .. Len(s) + 1 /\ a[Len(s) + 1] = e
      /\ \A i \in 1 .. Len(s) : a[i] = s[i]
    OBVIOUS
<1>2. DOMAIN s = 1 .. Len(s) /\ Len(s) \in Nat
    OBVIOUS
<1> HIDE DEF a
<1>3. Elements(a) = Elements(s) \cup {e}
    BY <1>1, <1>2 DEF Elements
<1>4. ASSUME Distinct(s), e \notin Elements(s)
      PROVE  Distinct(a)
    BY <1>1, <1>2, <1>4 DEF Elements, Distinct
<1> QED BY <1>1, <1>3, <1>4 DEF a

\* What Tail leaves.
LEMMA TailElements ==
    ASSUME NEW T, NEW s \in Seq(T), s # <<>>
    PROVE  /\ Tail(s) \in Seq(T) /\ Head(s) \in T
           /\ Elements(s) = Elements(Tail(s)) \cup {Head(s)}
           /\ Distinct(s) => Distinct(Tail(s)) /\ Head(s) \notin Elements(Tail(s))
<1> DEFINE t == Tail(s)
<1>1. t \in Seq(T) /\ Len(s) \in Nat \ {0} /\ DOMAIN t = 1 .. Len(s) - 1
      /\ \A i \in 1 .. Len(s) - 1 : t[i] = s[i + 1]
    OBVIOUS
<1>2. DOMAIN s = 1 .. Len(s) /\ Head(s) = s[1] /\ Head(s) \in T
    OBVIOUS
<1> HIDE DEF t
<1>3. Elements(s) = Elements(t) \cup {s[1]}
  <2>1. ASSUME NEW i \in DOMAIN s
        PROVE  s[i] \in Elements(t) \cup {s[1]}
    <3>1. CASE i = 1
        BY <3>1
    <3>2. CASE i # 1
        BY <3>2, <1>1, <1>2, i - 1 \in DOMAIN t, t[i - 1] = s[i] DEF Elements
    <3> QED BY <3>1, <3>2
  <2>2. ASSUME NEW i \in DOMAIN t
        PROVE  t[i] \in Elements(s)
    BY <1>1, <1>2, i + 1 \in DOMAIN s DEF Elements
  <2>3. s[1] \in Elements(s)
    BY <1>1, <1>2 DEF Elements
  <2> QED BY <2>1, <2>2, <2>3 DEF Elements
<1>4. ASSUME Distinct(s)
      PROVE  Distinct(t) /\ s[1] \notin Elements(t)
  <2>1. \A i \in DOMAIN t : i + 1 \in DOMAIN s /\ t[i] = s[i + 1] /\ i + 1 # 1 /\ i \in Nat
    BY <1>1, <1>2
  <2>2. 1 \in DOMAIN s
    BY <1>1, <1>2
  <2> QED BY <1>4, <2>1, <2>2 DEF Distinct, Elements
<1> QED BY <1>1, <1>2, <1>3, <1>4 DEF t

\* What concatenation joins.
LEMMA ConcatElements ==
    ASSUME NEW T, NEW s \in Seq(T), NEW t \in Seq(T)
    PROVE  /\ s \o t \in Seq(T)
           /\ Elements(s \o t) = Elements(s) \cup Elements(t)
           /\ \A U : DistinctBut(s, U) /\ Distinct(t) /\ Elements(s) \cap Elements(t) \subseteq U
              => DistinctBut(s \o t, U)
<1> DEFINE u == s \o t
<1>1. /\ u \in Seq(T) /\ DOMAIN u = 1 .. Len(s) + Len(t)
      /\ \A i \in 1 .. Len(s) + Len(t) : u[i] = IF i <= Len(s) THEN s[i] ELSE t[i - Len(s)]
    OBVIOUS
<1>2. /\ DOMAIN s = 1 .. Len(s) /\ DOMAIN t = 1 .. Len(t)
      /\ Len(s) \in Nat /\ Len(t) \in Nat
    OBVIOUS
<1> HIDE DEF u
<1>3. \A i \in DOMAIN u : \/ i \in DOMAIN s /\ u[i] = s[i]
                          \/ i - Len(s) \in DOMAIN t /\ u[i] = t[i - Len(s)] /\ i > Len(s)
    BY <1>1, <1>2
<1>4. \A i \in DOMAIN s : i \in DOMAIN u /\ u[i] = s[i]
    BY <1>1, <1>2
<1>5. \A i \in DOMAIN t : i + Len(s) \in DOMAIN u /\ u[i + Len(s)] = t[i]
    BY <1>1, <1>2
<1>6. Elements(u) = Elements(s) \cup Elements(t)
    BY <1>3, <1>4, <1>5 DEF Elements
<1>7. ASSUME NEW U, DistinctBut(s, U), Distinct(t), Elements(s) \cap Elements(t) \subseteq U
      PROVE  DistinctBut(u, U)
  <2>1. SUFFICES ASSUME NEW i \in DOMAIN u, NEW j \in DOMAIN u, u[i] = u[j], u[i] \notin U
                 PROVE  i = j
    BY DEF DistinctBut
  <2>2. CASE i \in DOMAIN s /\ u[i] = s[i] /\ j \in DOMAIN s /\ u[j] = s[j]
    BY <1>7, <2>1, <2>2 DEF DistinctBut
  <2>3. CASE i - Len(s) \in DOMAIN t /\ u[i] = t[i - Len(s)]
             /\ j - Len(s) \in DOMAIN t /\ u[j] = t[j - Len(s)]
    <3>1. i - Len(s) = j - Len(s)
        BY <1>7, <2>1, <2>3 DEF Distinct
    <3> QED BY <3>1, <1>1, <1>2
  <2>4. \A m \in DOMAIN s, n \in DOMAIN t : s[m] = t[n] => s[m] \in U
    BY <1>7 DEF Elements
  <2> QED BY <2>1, <2>2, <2>3, <2>4, <1>3
<1> QED BY <1>1, <1>6, <1>7 DEF u

\* The empty sequence.
LEMMA EmptyElements ==
    Elements(<<>>) = {} /\ Distinct(<<>>) /\ \A U : DistinctBut(<<>>, U)
    BY DEF Elements, Distinct, DistinctBut

-----------------------------------------------------------------------------
(* Types, and one place for each record.                                   *)

Inv == TypeOK /\ OnePlaceEach /\ accepted \subseteq calls

\* It holds before the first record.
LEMMA InvInit == Init => Inv
<1> SUFFICES ASSUME Init PROVE Inv
    OBVIOUS
<1>2. TypeOK
  <2>1. /\ <<>> \in Seq(Record) /\ Len(<<>>) = 0 /\ 0 <= ChannelSize
        /\ 0 \in 0 .. MaxRetries - 1
    BY SizeAssumption DEF MaxRetries
  <2>2. [c \in Closer |-> "idle"] \in [Closer -> {"idle", "waiting", "returned"}]
    OBVIOUS
  <2>3. /\ ch \in Seq(Record) /\ Len(ch) <= ChannelSize /\ batch \in Seq(Record)
        /\ table \in Seq(Record) /\ flushRetries \in 0 .. MaxRetries - 1
    BY <2>1 DEF Init
  <2> QED BY <2>2, <2>3 DEF Init, TypeOK
<1>3. OnePlaceEach
    BY EmptyElements DEF Init, OnePlaceEach
<1> QED BY <1>2, <1>3 DEF Init, Inv

\* A write that failed leaves the batch where it is or makes it dropped, and what it wrote
\* all the same is unanswered.
LEMMA FailInv == ASSUME Inv, FlushFails PROVE Inv'
<1> USE DEF Inv
<1>1. \/ batch' = <<>> /\ dropped' = dropped \cup Elements(batch)
      \/ batch' = batch /\ dropped' = dropped
  BY DEF FlushFails, RetryOrDrop
<1>2. batch \in Seq(Record) /\ table \in Seq(Record) /\ Elements(batch) \subseteq Record
  BY DEF TypeOK, Elements
<1>3. /\ writing' = FALSE /\ UNCHANGED <<ch, worker, chVars, endVars>>
      /\ flushRetries' \in 0 .. MaxRetries - 1
  BY DEF FlushFails, RetryOrDrop, TypeOK, MaxRetries
<1>4. /\ table' \in Seq(Record)
      /\ Elements(table') \subseteq Elements(table) \cup Elements(batch)
      /\ Elements(table) \subseteq Elements(table')
      /\ unanswered \subseteq unanswered' /\ unanswered' \subseteq unanswered \cup Elements(batch)
      /\ unanswered' \subseteq Elements(table')
      /\ Elements(batch) \cap Elements(table') \subseteq unanswered'
      /\ DistinctBut(table', unanswered')
  <2>1. CASE UNCHANGED <<table, unanswered>>
    BY <2>1, <1>2 DEF OnePlaceEach
  <2>2. CASE table' = table \o batch /\ unanswered' = unanswered \cup Elements(batch)
    <3>1. /\ table' \in Seq(Record)
          /\ Elements(table') = Elements(table) \cup Elements(batch)
          /\ DistinctBut(table, unanswered') /\ Distinct(batch)
             /\ Elements(table) \cap Elements(batch) \subseteq unanswered'
             => DistinctBut(table', unanswered')
      BY <2>2, <1>2, ConcatElements
    <3>2. DistinctBut(table, unanswered')
      BY <2>2 DEF OnePlaceEach, DistinctBut
    <3> QED BY <2>2, <3>1, <3>2 DEF OnePlaceEach
  <2> QED BY <2>1, <2>2 DEF FlushFails
<1>5. TypeOK'
  <2>1. batch' \in Seq(Record) /\ dropped' \subseteq Record
    <3>1. dropped \subseteq Record /\ <<>> \in Seq(Record)
        BY DEF TypeOK
    <3> QED BY ONLY <1>1, <1>2, <3>1
  <2>2. unanswered' \subseteq Record
    BY <1>2, <1>4 DEF TypeOK
  <2> QED BY <1>3, <1>4, <2>1, <2>2 DEF TypeOK, chVars, endVars
<1>6. OnePlaceEach'
  <2>1. /\ Distinct(batch') /\ Elements(batch') \subseteq Elements(batch)
        /\ Elements(batch') \cup dropped' = Elements(batch) \cup dropped
        /\ Elements(batch') \cap dropped' = {}
    BY <1>1, EmptyElements DEF OnePlaceEach
  <2>2. ch' = ch /\ accepted' = accepted
    BY <1>3 DEF chVars
  <2>3. dropped' \subseteq Elements(batch) \cup dropped
    BY <1>1
  <2> QED BY <1>4, <2>1, <2>2, <2>3 DEF OnePlaceEach
<1>7. (accepted \subseteq calls)'
    BY <1>3 DEF chVars
<1> QED BY <1>5, <1>6, <1>7

\* Every step of the workers, the goroutine and the callers of Close keeps it.
LEMMA InvStep == Inv /\ [Next]_vars => Inv'
<1> SUFFICES ASSUME Inv, [Next]_vars PROVE Inv'
    OBVIOUS
<1> USE DEF Inv
<1>1. ASSUME NEW r \in Record, RecordObject(r) PROVE Inv'
  <2>1. CASE ~closed /\ Len(ch) < ChannelSize
    <3>1. /\ ch' = Append(ch, r) /\ accepted' = accepted \cup {r}
          /\ calls' = calls \cup {r} /\ r \notin calls
          /\ UNCHANGED <<batch, worker, writing, flushVars, endVars>>
        BY <1>1, <2>1 DEF RecordObject
    <3>2. r \notin Elements(ch) /\ r \notin Elements(batch)
          /\ r \notin Elements(table) /\ r \notin dropped
        BY <3>1 DEF OnePlaceEach
    <3>3. ch \in Seq(Record) /\ Len(ch) <= ChannelSize
        BY DEF TypeOK
    <3>4. /\ ch' \in Seq(Record)
          /\ Elements(ch') = Elements(ch) \cup {r}
          /\ Distinct(ch) => Distinct(ch')
        BY <3>1, <3>2, <3>3, AppendElements
    <3>5. Len(ch') <= ChannelSize
        BY <3>1, <3>3, <2>1, SizeAssumption
    <3>6. TypeOK'
        BY <3>1, <3>4, <3>5 DEF TypeOK, flushVars, endVars
    <3>7. OnePlaceEach'
        BY <3>1, <3>2, <3>4 DEF OnePlaceEach, flushVars
    <3> QED BY <3>1, <3>6, <3>7
  <2>2. CASE ~(~closed /\ Len(ch) < ChannelSize)
    BY <1>1, <2>2 DEF RecordObject, TypeOK, OnePlaceEach, flushVars, endVars
  <2> QED BY <2>1, <2>2
<1>2. CASE Receive
  <2>1. /\ ch # <<>> /\ batch' = Append(batch, Head(ch)) /\ ch' = Tail(ch)
        /\ UNCHANGED <<worker, chVars, flushVars, endVars>>
        /\ writing' \in BOOLEAN
    BY <1>2 DEF Receive
  <2>2. ch \in Seq(Record) /\ batch \in Seq(Record)
    BY DEF TypeOK
  <2>3. /\ ch' \in Seq(Record) /\ Head(ch) \in Record
        /\ Elements(ch) = Elements(ch') \cup {Head(ch)}
        /\ Distinct(ch) => Distinct(ch') /\ Head(ch) \notin Elements(ch')
    BY <2>1, <2>2, TailElements
  <2>4. /\ batch' \in Seq(Record)
        /\ Elements(batch') = Elements(batch) \cup {Head(ch)}
        /\ Distinct(batch) /\ Head(ch) \notin Elements(batch) => Distinct(batch')
    BY <2>1, <2>2, <2>3, AppendElements
  <2>5. Len(ch') <= ChannelSize
    BY <2>1, <2>2, SizeAssumption DEF TypeOK
  <2>6. TypeOK'
    BY <2>1, <2>3, <2>4, <2>5 DEF TypeOK, chVars, flushVars, endVars
  <2>7. OnePlaceEach'
    BY <2>1, <2>3, <2>4 DEF OnePlaceEach, chVars, flushVars
  <2> QED BY <2>1, <2>6, <2>7 DEF chVars
<1>3. CASE Tick \/ Done \/ Drained
  <2>1. UNCHANGED <<ch, batch, chVars, flushVars, endVars>>
        /\ writing' \in BOOLEAN /\ worker' \in {"select", "draining", "final", "stopped"}
    BY <1>3 DEF Tick, Done, Drained, TypeOK
  <2> QED BY <2>1 DEF TypeOK, OnePlaceEach, chVars, flushVars, endVars
<1>4. CASE FlushSucceeds
  <2>1. /\ table' = table \o batch /\ batch' = <<>> /\ flushRetries' = 0
        /\ writing' = FALSE
        /\ UNCHANGED <<ch, worker, dropped, unanswered, chVars, endVars>>
    BY <1>4 DEF FlushSucceeds
  <2>2. /\ table' \in Seq(Record)
        /\ Elements(table') = Elements(table) \cup Elements(batch)
        /\ /\ DistinctBut(table, unanswered) /\ Distinct(batch)
           /\ Elements(table) \cap Elements(batch) \subseteq unanswered
           => DistinctBut(table', unanswered)
    BY <2>1, ConcatElements DEF TypeOK
  <2>7. flushRetries' \in 0 .. MaxRetries - 1 /\ batch' \in Seq(Record)
    BY <2>1 DEF MaxRetries
  <2>4. TypeOK'
    BY <2>1, <2>2, <2>7 DEF TypeOK, chVars, endVars
  <2>5. OnePlaceEach'
    BY <2>1, <2>2, EmptyElements DEF OnePlaceEach, chVars
  <2> QED BY <2>1, <2>4, <2>5 DEF chVars
<1>5. CASE FlushFails
    BY <1>5, FailInv
<1>6. ASSUME NEW c \in Closer, Close(c) \/ CloserStep(c) PROVE Inv'
  <2>1. /\ UNCHANGED <<ch, batch, worker, writing, chVars, flushVars>>
        /\ closed' \in BOOLEAN /\ up' \in BOOLEAN
        /\ closer' \in [Closer -> {"idle", "waiting", "returned"}]
    BY <1>6 DEF Close, CloserStep, CloseReturn, Exit, TypeOK
  <2> QED BY <2>1 DEF TypeOK, OnePlaceEach, chVars, flushVars
<1>7. CASE Abandon \/ UNCHANGED vars
    BY <1>7 DEF Abandon, vars, TypeOK, OnePlaceEach, chVars, flushVars
<1> QED
    BY <1>1, <1>2, <1>3, <1>4, <1>5, <1>6, <1>7 DEF Next, WorkerStep, Ended

\* Every variable keeps its type.
THEOREM TypeCorrect == Spec => []TypeOK
<1>1. Inv => TypeOK
    BY DEF Inv
<1> QED BY <1>1, InvInit, InvStep, PTL DEF Spec

\* An accepted record is in the channel, the batch, the table or among the dropped ones,
\* and, if no commit of it went unanswered, in one of them only and once, through every
\* retry of RecordObjects.
THEOREM EachInOnePlace == Spec => []OnePlaceEach
<1>1. Inv => OnePlaceEach
    BY DEF Inv
<1> QED BY <1>1, InvInit, InvStep, PTL DEF Spec

-----------------------------------------------------------------------------
(* The flush before the end.                                               *)

\* What the worker has done by the time it is in each of its states, and what
\* the only caller of Close waits for.
CloseInv ==
    /\ worker # "select" => closed
    /\ worker \in {"final", "stopped"} => ch = <<>>
    /\ worker = "stopped" => batch = <<>> /\ ~writing
    /\ closed => \E c \in Closer : closer[c] # "idle"
    /\ OnlyCloser => \A c \in Closer : closer[c] = "returned" => worker = "stopped"

\* It is kept: once a second caller has come there is never one alone again.
LEMMA CloseInvStep == Inv /\ CloseInv /\ [Next]_vars => CloseInv'
<1> SUFFICES ASSUME Inv, CloseInv, [Next]_vars PROVE CloseInv'
    OBVIOUS
<1> USE DEF CloseInv
<1>1. ASSUME NEW r \in Record, RecordObject(r) PROVE CloseInv'
    BY <1>1 DEF RecordObject, flushVars, endVars, OnlyCloser
<1>2. CASE Receive
    BY <1>2 DEF Receive, flushVars, chVars, endVars, OnlyCloser
<1>3. CASE Tick \/ Done \/ Drained
    BY <1>3 DEF Tick, Done, Drained, flushVars, chVars, endVars, OnlyCloser
<1>4. CASE FlushSucceeds
    BY <1>4 DEF FlushSucceeds, chVars, endVars, OnlyCloser
<1>5. CASE FlushFails
    BY <1>5 DEF FlushFails, RetryOrDrop, chVars, endVars, OnlyCloser
<1>6. ASSUME NEW c \in Closer, Close(c) PROVE CloseInv'
  <2>1. /\ up /\ closer[c] = "idle" /\ closed'
        /\ closer' = [closer EXCEPT ![c] = IF closed THEN "returned" ELSE "waiting"]
        /\ UNCHANGED <<ch, batch, worker, writing, up>>
    BY <1>6 DEF Close
  <2>2. /\ closer'[c] # "idle" /\ \A d \in Closer : d # c => closer'[d] = closer[d]
        /\ closer'[c] = IF closed THEN "returned" ELSE "waiting"
    BY <2>1 DEF Inv, TypeOK
  <2>3. ASSUME OnlyCloser', NEW d \in Closer, closer'[d] = "returned"
        PROVE  worker' = "stopped"
    <3>1. d = c
        BY <2>2, <2>3 DEF OnlyCloser
    <3>2. closed
        BY <2>2, <2>3, <3>1
    <3>3. PICK e \in Closer : closer[e] # "idle"
        BY <3>2
    <3>4. e # c /\ closer'[e] # "idle"
        BY <2>1, <2>2, <3>3
    <3> QED BY <2>2, <2>3, <3>4 DEF OnlyCloser
  <2> QED BY <2>1, <2>2, <2>3
<1>7. ASSUME NEW c \in Closer, CloserStep(c) PROVE CloseInv'
  <2>1. CASE CloseReturn(c)
    <3>1. /\ closer[c] = "waiting" /\ worker = "stopped"
          /\ closer' = [closer EXCEPT ![c] = "returned"]
          /\ UNCHANGED <<ch, batch, worker, writing, closed, up>>
        BY <2>1 DEF CloseReturn
    <3>2. \A d \in Closer : closer'[d] # "idle" <=> closer[d] # "idle"
        BY <3>1 DEF Inv, TypeOK
    <3> QED BY <3>1, <3>2 DEF OnlyCloser
  <2>2. CASE Exit(c)
    BY <2>2 DEF Exit, OnlyCloser
  <2> QED BY <1>7, <2>1, <2>2 DEF CloserStep
<1>8. CASE Abandon \/ UNCHANGED vars
    BY <1>8 DEF Abandon, vars, OnlyCloser
<1> QED
    BY <1>1, <1>2, <1>3, <1>4, <1>5, <1>6, <1>7, <1>8 DEF Next, WorkerStep, Ended

\* Behind the only Close every accepted record is in the table or given up after
\* failed writes.
THEOREM FlushedByClose == Spec => []CloseFlushes
<1>1. Init => CloseInv
    BY DEF Init, CloseInv
<1>2. Inv /\ CloseInv => CloseFlushes
    BY EmptyElements DEF Inv, CloseInv, CloseFlushes, OnePlaceEach
<1> QED BY <1>1, <1>2, InvInit, InvStep, CloseInvStep, PTL DEF Spec
=============================================================================
