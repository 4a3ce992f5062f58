--------------------------- MODULE ProduceProofs ---------------------------
(***************************************************************************)
(* Proofs about Produce for every set of keys, division into prefixes,     *)
(* command line and pair of sides: the type invariant, that nothing the    *)
(* source holds is deleted from the destination as extra, that every key   *)
(* gets the outcome it deserves and none is lost, that the limit is kept   *)
(* and that the channel of child prefixes is not closed too early.         *)
(***************************************************************************)
EXTENDS Produce, FiniteSetTheorems, TLAPS

\* where a producer still reads its listings, and where it handles obj
Active == Loop \cup {"idle"}
Busy == Loop \ {"recv", "rest"}

\* a key takes part in the merge
Merged(k) == On("dirs") \/ k \notin DirKey

\* produce is done with source object k
Passed(p, k) == k <= read[p]["src"] /\ ~(pc[p] \in Busy /\ k = obj[p])

\* a listing that ended has sent all
EndedInv ==
    \A p \in Producer, s \in Side :
        listing[p][s] = "ended" => \A k \in Listed(p, s) : k <= at[p][s]

\* the object in hand is the last received; none is after the source has ended
ObjectInv(p) ==
    /\ pc[p] \in Busy /\ obj[p] # 0 => obj[p] = read[p]["src"]
    /\ pc[p] \in {"claim", "align", "decide"} => obj[p] # 0
    /\ pc[p] = "rest" => obj[p] = 0
    /\ pc[p] \in {"rest", "extra", "taken", "settle"} /\ obj[p] = 0 =>
           \A k \in Listed(p, "src") : k <= read[p]["src"]

\* the cursor is the last destination object received, and it is behind the
\* source object only while it is handled as extra
CursorInv(p) ==
    /\ cursor[p] # 0 => cursor[p] \in Listed(p, "dst") /\ cursor[p] = read[p]["dst"]
    /\ pc[p] \in {"extra", "taken", "settle"} =>
           cursor[p] # 0 /\ (obj[p] # 0 => cursor[p] < obj[p])
    /\ pc[p] = "taken" => Merged(cursor[p])
    /\ pc[p] = "decide" =>
           \/ cursor[p] # 0 /\ cursor[p] >= obj[p]
           \/ \A k \in Listed(p, "dst") : k <= read[p]["dst"]

\* the cursor stands on no source object that is done with ...
AheadInv(p) ==
    cursor[p] # 0 /\ cursor[p] \in Listed(p, "src") /\ Merged(cursor[p])
        => ~Passed(p, cursor[p])

\* ... and no object of both sides, done with at the source, is still to come
BehindInv(p) ==
    \A k \in Listed(p, "src") \cap Listed(p, "dst") :
        Merged(k) /\ Passed(p, k) => k <= read[p]["dst"]

MergeInv ==
    \A p \in Producer : pc[p] \in Active =>
        ObjectInv(p) /\ CursorInv(p) /\ AheadInv(p) /\ BehindInv(p)

Inv == TypeOK /\ EndedInv /\ MergeInv /\ SourceKept

-----------------------------------------------------------------------------
(* Types.                                                                  *)

LEMMA KeysAreNumbers == Key \subseteq Nat /\ Child \subseteq Nat /\ 0 \notin Key
  BY KeyAssumption

\* what a listing sends, and what of it reaches produce
LEMMA ListedKeys ==
  ASSUME NEW p \in Producer, NEW s \in Side
  PROVE  /\ Listed(p, s) \subseteq Key
         /\ Entries(p, s) \subseteq Key \cup Child
         /\ Listed(p, s) \subseteq Entries(p, s)
  BY DEF Listed, Mine, Entries, Below

LEMMA DecisionType ==
  ASSUME NEW k, NEW d \in BOOLEAN
  PROVE  Decision(k, d) \in Outcome
<1>1. \A o \in Outcome : Marked(k, o) \in Outcome
  BY DEF Marked, Outcome
<1>2. CASE FirstGateSkips(k)
  BY <1>2 DEF Decision, Outcome
<1>3. CASE ~FirstGateSkips(k) /\ ~d
  BY <1>3 DEF Decision, Outcome
<1>4. CASE ~FirstGateSkips(k) /\ d
  BY <1>1, <1>4 DEF Decision, Outcome
<1> QED
  BY <1>2, <1>3, <1>4

LEMMA HeldNumbers ==
  ASSUME TypeOK, NEW p \in Producer
  PROVE  /\ obj[p] \in Nat /\ cursor[p] \in Nat
         /\ \A s \in Side : read[p][s] \in Nat /\ at[p][s] \in Nat
<1>1. obj[p] \in Key \cup {0} /\ cursor[p] \in Key \cup {0}
  BY DEF TypeOK
<1>4. \A k \in Key \cup {0} : k \in Nat
  BY KeysAreNumbers
<1>2. obj[p] \in Nat /\ cursor[p] \in Nat
  BY <1>1, <1>4
<1>3. \A s \in Side : read[p][s] \in Nat /\ at[p][s] \in Nat
  BY DEF TypeOK
<1> QED
  BY <1>2, <1>3

LEMMA InitType == Init => TypeOK
<1> SUFFICES ASSUME Init PROVE TypeOK
  OBVIOUS
<1>1. config \in Configuration /\ limit \in Int
  BY ConfigurationAssumption DEF Init
<1>2. pc \in [Producer -> Loop \cup {"idle", "returned", "children", "done", "error"}]
  BY DEF Init, Loop
<1>3. outcome \in [Key -> Outcome]
  BY DEF Init, Outcome
<1>4. /\ listing \in [Producer -> [Side -> {"open", "ended", "failed"}]]
      /\ at \in [Producer -> [Side -> Nat]] /\ read \in [Producer -> [Side -> Nat]]
  BY DEF Init
<1>5. obj \in [Producer -> Key \cup {0}] /\ cursor \in [Producer -> Key \cup {0}]
  BY DEF Init
<1> QED
  BY <1>1, <1>2, <1>3, <1>4, <1>5 DEF Init, TypeOK

LEMMA NextType == TypeOK /\ MergeInv /\ [Next]_vars => TypeOK'
<1> SUFFICES ASSUME TypeOK, MergeInv, [Next]_vars
             PROVE  TypeOK'
  OBVIOUS
<1> USE KeysAreNumbers DEF TypeOK, Loop
<1>1. CASE UNCHANGED vars
  BY <1>1 DEF vars
<1>2. CASE Finish
  BY <1>2 DEF Finish, Goto, histVars
<1>3. ASSUME NEW p \in Producer, List(p) \/ Step(p) \/ \E s \in Side : ListingFails(p, s)
      PROVE  TypeOK'
  <2>1. ASSUME NEW s \in Side, Send(p, s)
        PROVE  TypeOK'
    <3>1. PICK e \in Entries(p, s) :
              /\ at' = [at EXCEPT ![p][s] = e]
              /\ \/ pc' = [pc EXCEPT ![e] = IF @ = "idle" /\ ~cpClosed THEN "recv" ELSE @]
                    /\ panicked' = (panicked \/ cpClosed)
                 \/ UNCHANGED <<pc, panicked>>
      BY <2>1 DEF Send, First, Ahead
    <3>2. e \in Nat
      BY ListedKeys
    <3>3. at' \in [Producer -> [Side -> Nat]]
      BY <3>1, <3>2
    <3>4. pc' \in [Producer -> Loop \cup {"idle", "returned", "children", "done", "error"}]
      BY <3>1
    <3>5. panicked' \in BOOLEAN
      BY <3>1
    <3> QED
      BY <2>1, <3>3, <3>4, <3>5 DEF Send, histVars
  <2>2. ASSUME NEW s \in Side, ListingEnds(p, s)
        PROVE  TypeOK'
    BY <2>2 DEF ListingEnds, histVars
  <2>3. ASSUME NEW s \in Side, ListingFails(p, s)
        PROVE  TypeOK'
    BY <2>3 DEF ListingFails, ListingBreaks, histVars
  <2>4. CASE Receive(p)
    <3>1. PICK k \in Listed(p, "src") :
              /\ read' = [read EXCEPT ![p]["src"] = k]
              /\ \/ UNCHANGED <<obj, pc, claimed>>
                 \/ /\ obj' = [obj EXCEPT ![p] = k]
                    /\ \/ Goto(p, "claim") /\ UNCHANGED claimed
                       \/ Goto(p, "align") /\ claimed' = claimed \cup {k}
      BY <2>4 DEF Receive, First, Waiting, Ahead
    <3>2. k \in Key /\ k \in Nat
      BY ListedKeys DEF Side
    <3>3. read' \in [Producer -> [Side -> Nat]]
      BY <3>1, <3>2
    <3>6. obj' \in [Producer -> Key \cup {0}]
      BY <3>1, <3>2
    <3>7. claimed' \in {claimed, claimed \cup {k}}
      BY <3>1
    <3>4. claimed' \subseteq Key
      BY <3>2, <3>7
    <3>5. pc' \in [Producer -> Loop \cup {"idle", "returned", "children", "done", "error"}]
      BY <3>1 DEF Goto
    <3> QED
      BY <2>4, <3>3, <3>4, <3>5, <3>6 DEF Receive
  <2>5. CASE ReceiveEnd(p)
    BY <2>5 DEF ReceiveEnd, Goto, histVars
  <2>6. CASE Claim(p)
    <3>1. obj[p] \in Key
      BY <2>6 DEF Claim, MergeInv, Active, ObjectInv
    <3>2. limit' \in Int
      BY <2>6 DEF Claim
    <3>4. claimed' \in {claimed, claimed \cup {obj[p]}}
      BY <2>6 DEF Claim
    <3>5. claimed' \subseteq Key
      BY <3>1, <3>4
    <3>3. pc' \in [Producer -> Loop \cup {"idle", "returned", "children", "done", "error"}]
      BY <2>6 DEF Claim, Goto
    <3> QED
      BY <2>6, <3>2, <3>3, <3>5 DEF Claim
  <2>7. ASSUME Advance(p)
        PROVE  /\ read' \in [Producer -> [Side -> Nat]]
               /\ cursor' \in [Producer -> Key \cup {0}]
    <3>1. PICK k \in Listed(p, "dst") :
              /\ read' = [read EXCEPT ![p]["dst"] = k]
              /\ cursor' = [cursor EXCEPT ![p] = k]
      BY <2>7 DEF Advance, First, Waiting, Ahead
    <3>2. k \in Key /\ k \in Nat
      BY ListedKeys DEF Side
    <3> QED
      BY <3>1, <3>2
  <2>8. CASE Align(p)
    <3>1. /\ read' \in [Producer -> [Side -> Nat]]
          /\ cursor' \in [Producer -> Key \cup {0}]
      BY <2>7, <2>8 DEF Align
    <3>2. pc' \in [Producer -> Loop \cup {"idle", "returned", "children", "done", "error"}]
      BY <2>8 DEF Align, Goto
    <3> QED
      BY <2>8, <3>1, <3>2 DEF Align, histVars
  <2>9. CASE Rest(p)
    <3>1. /\ read' \in [Producer -> [Side -> Nat]]
          /\ cursor' \in [Producer -> Key \cup {0}]
      BY <2>7, <2>9 DEF Rest
    <3>2. pc' \in [Producer -> Loop \cup {"idle", "returned", "children", "done", "error"}]
      BY <2>9 DEF Rest, Goto
    <3> QED
      BY <2>9, <3>1, <3>2 DEF Rest, histVars
  <2>10. CASE ExtraKept(p) \/ ExtraChecked(p) \/ ExtraSettled(p)
    <3>1. pc' \in [Producer -> Loop \cup {"idle", "returned", "children", "done", "error"}]
      BY <2>10 DEF ExtraKept, ExtraChecked, ExtraSettled, Resume, Goto
    <3>2. cursor' \in [Producer -> Key \cup {0}]
      BY <2>10 DEF ExtraKept, ExtraChecked, ExtraSettled
    <3> QED
      BY <2>10, <3>1, <3>2 DEF ExtraKept, ExtraChecked, ExtraSettled, histVars
  <2>11. CASE ExtraTaken(p)
    <3>1. cursor[p] \in Key
      BY <2>11 DEF ExtraTaken, MergeInv, Active, CursorInv
    <3>2. limit' \in Int
      BY <2>11 DEF ExtraTaken
    <3>3. extras' = extras \cup {cursor[p]}
      BY <2>11 DEF ExtraTaken
    <3>4. extras' \subseteq Key
      BY <3>1, <3>3
    <3> QED
      BY <2>11, <3>2, <3>4 DEF ExtraTaken, Goto
  <2>12. CASE Decide(p)
    <3>1. PICK d \in BOOLEAN :
              outcome' = [outcome EXCEPT ![obj[p]] = Decision(obj[p], d)]
      BY <2>12 DEF Decide
    <3>2. outcome' \in [Key -> Outcome]
      BY <3>1, DecisionType
    <3>3. cursor' \in [Producer -> Key \cup {0}]
      BY <2>12 DEF Decide
    <3>4. pc' \in [Producer -> Loop \cup {"idle", "returned", "children", "done", "error"}]
      BY <2>12 DEF Decide, Goto
    <3> QED
      BY <2>12, <3>2, <3>3, <3>4 DEF Decide
  <2>13. CASE Close(p)
    BY <2>13 DEF Close, Goto, histVars
  <2> QED
    BY <1>3, <2>1, <2>2, <2>3, <2>4, <2>5, <2>6, <2>8, <2>9, <2>10, <2>11, <2>12, <2>13
       DEF List, Step
<1> QED
  BY <1>1, <1>2, <1>3 DEF Next, Over

-----------------------------------------------------------------------------
(* The merge.                                                              *)

ProducerInv(p) == ObjectInv(p) /\ CursorInv(p) /\ AheadInv(p) /\ BehindInv(p)

LEMMA ListedSame ==
  ASSUME config' = config
  PROVE  /\ \A p \in Producer, s \in Side : Listed(p, s)' = Listed(p, s)
         /\ \A k : Merged(k)' = Merged(k)
  BY DEF Listed, Mine, Merged, On

\* a producer none of whose variables changes keeps its invariant
LEMMA Untouched ==
  ASSUME NEW q \in Producer, config' = config,
         pc'[q] = pc[q], obj'[q] = obj[q], cursor'[q] = cursor[q], read'[q] = read[q],
         ProducerInv(q)
  PROVE  ProducerInv(q)'
<1>1. /\ Listed(q, "src")' = Listed(q, "src") /\ Listed(q, "dst")' = Listed(q, "dst")
      /\ \A k : Merged(k)' = Merged(k)
  BY ListedSame DEF Side
<1>2. \A k : Passed(q, k)' = Passed(q, k)
  BY DEF Passed
<1>3. ObjectInv(q)'
  BY <1>1 DEF ProducerInv, ObjectInv
<1>4. CursorInv(q)'
  BY <1>1 DEF ProducerInv, CursorInv
<1>5. AheadInv(q)'
  BY <1>1, <1>2 DEF ProducerInv, AheadInv
<1>6. BehindInv(q)'
  BY <1>1, <1>2 DEF ProducerInv, BehindInv
<1> QED
  BY <1>3, <1>4, <1>5, <1>6 DEF ProducerInv

\* it is enough to look at the producer that moves
LEMMA OneMoves ==
  ASSUME TypeOK, MergeInv, config' = config, NEW p \in Producer,
         \A q \in Producer \ {p} :
            /\ pc'[q] = pc[q] /\ obj'[q] = obj[q]
            /\ cursor'[q] = cursor[q] /\ read'[q] = read[q],
         pc'[p] \in Active => ProducerInv(p)'
  PROVE  MergeInv'
<1> SUFFICES ASSUME NEW q \in Producer, pc'[q] \in Active
             PROVE  ProducerInv(q)'
  BY DEF MergeInv, ProducerInv, Active, Loop
<1>1. CASE q = p
  BY <1>1
<1>2. CASE q # p
  BY <1>2, Untouched DEF MergeInv, ProducerInv
<1> QED
  BY <1>1, <1>2

LEMMA ReceiveMerge ==
  ASSUME TypeOK, MergeInv, NEW p \in Producer, Receive(p)
  PROVE  MergeInv'
<1> USE DEF Active, Loop
<1>1. PICK k \in First(Waiting(p, "src")) :
          /\ read' = [read EXCEPT ![p]["src"] = k]
          /\ \/ ~Merged(k) /\ UNCHANGED <<obj, pc>>
             \/ /\ obj' = [obj EXCEPT ![p] = k]
                /\ Goto(p, "claim") \/ Goto(p, "align")
  BY DEF Receive, Merged
<1>2. /\ k \in Key /\ k \in Nat /\ k \in Listed(p, "src") /\ k > read[p]["src"]
      /\ \A j \in Listed(p, "src") : j > read[p]["src"] => k <= j
  <2>1. Listed(p, "src") \subseteq Key /\ at[p]["src"] \in Nat /\ read[p]["src"] \in Nat
    BY ListedKeys DEF Side, TypeOK
  <2>2. /\ k \in Listed(p, "src") /\ k > read[p]["src"] /\ k <= at[p]["src"]
        /\ \A j \in Listed(p, "src") :
               j > read[p]["src"] /\ j <= at[p]["src"] => k <= j
    BY DEF First, Waiting, Ahead
  <2>3. \A j \in Listed(p, "src") : j \in Nat
    BY <2>1, KeysAreNumbers
  <2> QED
    BY <2>1, <2>2, <2>3
<1>3. pc[p] = "recv" /\ cursor' = cursor /\ config' = config
  BY DEF Receive
<1>4. \A q \in Producer \ {p} :
            /\ pc'[q] = pc[q] /\ obj'[q] = obj[q]
            /\ cursor'[q] = cursor[q] /\ read'[q] = read[q]
  BY <1>1, <1>3 DEF TypeOK, Goto
<1>5. /\ read'[p]["src"] = k /\ read'[p]["dst"] = read[p]["dst"]
      /\ \/ ~Merged(k) /\ pc'[p] = "recv"
         \/ obj'[p] = k /\ pc'[p] \in {"claim", "align"}
  BY <1>1, <1>3 DEF TypeOK, Goto, Side
<1>6. ProducerInv(p)
  BY <1>3 DEF MergeInv, ProducerInv
<1>7. /\ Listed(p, "src")' = Listed(p, "src") /\ Listed(p, "dst")' = Listed(p, "dst")
      /\ \A j : Merged(j)' = Merged(j)
  BY <1>3, ListedSame DEF Side
<1>8. \A j \in Listed(p, "src") : Merged(j) /\ Passed(p, j)' => Passed(p, j)
  <2> SUFFICES ASSUME NEW j \in Listed(p, "src"), Merged(j), Passed(p, j)'
               PROVE  Passed(p, j)
    OBVIOUS
  <2>4. Listed(p, "src") \subseteq Key
    BY ListedKeys DEF Side
  <2>1. j \in Nat
    BY <2>4, KeysAreNumbers
  <2>5. read[p]["src"] \in Nat
    BY DEF Side, TypeOK
  <2>2. j <= k
    BY <1>5 DEF Passed
  <2>3. j # k
    BY <1>5, <1>2 DEF Passed, Busy
  <2> QED
    BY <1>2, <1>3, <2>1, <2>2, <2>3, <2>5 DEF Passed, Busy
<1>9. ObjectInv(p)'
  BY <1>2, <1>5, KeysAreNumbers DEF ObjectInv, Busy
<1>10. CursorInv(p)'
  BY <1>3, <1>5, <1>6, <1>7 DEF CursorInv, ProducerInv
<1>11. AheadInv(p)'
  BY <1>3, <1>6, <1>7, <1>8 DEF AheadInv, ProducerInv
<1>12. BehindInv(p)'
  BY <1>5, <1>6, <1>7, <1>8 DEF BehindInv, ProducerInv
<1> QED
  BY <1>3, <1>4, <1>9, <1>10, <1>11, <1>12, OneMoves DEF ProducerInv

\* a step that leaves what was received, and what is passed, as it was
LEMMA SameReadMerge ==
  ASSUME TypeOK, MergeInv, NEW p \in Producer, UNCHANGED <<config, read, obj>>,
         \A q \in Producer \ {p} : pc'[q] = pc[q] /\ cursor'[q] = cursor[q],
         cursor'[p] \in {cursor[p], 0}, pc[p] \in Active,
         pc'[p] \in Active =>
            /\ \A j \in Key : Passed(p, j)' = Passed(p, j)
            /\ ObjectInv(p)' /\ CursorInv(p)'
  PROVE  MergeInv'
<1>1. SUFFICES ASSUME pc'[p] \in Active
               PROVE  AheadInv(p)' /\ BehindInv(p)'
  BY OneMoves DEF ProducerInv
<1>2. ProducerInv(p)
  BY DEF MergeInv, ProducerInv
<1>3. /\ Listed(p, "src")' = Listed(p, "src") /\ Listed(p, "dst")' = Listed(p, "dst")
      /\ Listed(p, "src") \subseteq Key
      /\ \A j : Merged(j)' = Merged(j)
  BY ListedSame, ListedKeys DEF Side
<1>4. AheadInv(p)'
  BY <1>1, <1>2, <1>3 DEF AheadInv, ProducerInv
<1>5. BehindInv(p)'
  BY <1>1, <1>2, <1>3 DEF BehindInv, ProducerInv
<1> QED
  BY <1>4, <1>5

LEMMA ReceiveEndMerge ==
  ASSUME TypeOK, EndedInv, MergeInv, NEW p \in Producer, ReceiveEnd(p)
  PROVE  MergeInv'
<1> USE DEF Active, Loop
<1>1. /\ pc[p] = "recv" /\ cursor' = cursor /\ config' = config /\ read' = read
      /\ \/ /\ Drained(p, "src", "ended")
            /\ obj' = [obj EXCEPT ![p] = 0]
            /\ Goto(p, "rest") \/ Goto(p, "returned")
         \/ Goto(p, "error") /\ UNCHANGED obj
  BY DEF ReceiveEnd
<1>2. \A q \in Producer \ {p} :
            /\ pc'[q] = pc[q] /\ obj'[q] = obj[q]
            /\ cursor'[q] = cursor[q] /\ read'[q] = read[q]
  BY <1>1 DEF TypeOK, Goto
<1>3. SUFFICES ASSUME pc'[p] \in Active
               PROVE  ProducerInv(p)'
  BY <1>1, <1>2, OneMoves
<1>4. pc'[p] = "rest" /\ obj'[p] = 0 /\ Drained(p, "src", "ended")
  BY <1>1, <1>3 DEF TypeOK, Goto
<1>5. ProducerInv(p)
  BY <1>1 DEF MergeInv, ProducerInv
<1>6. /\ Listed(p, "src")' = Listed(p, "src") /\ Listed(p, "dst")' = Listed(p, "dst")
      /\ \A j : Merged(j)' = Merged(j)
  BY <1>1, ListedSame DEF Side
<1>7. \A j : Passed(p, j)' = Passed(p, j)
  BY <1>1, <1>4 DEF Passed, Busy
<1>8. \A k \in Listed(p, "src") : k <= read[p]["src"]
  <2>1. Listed(p, "src") \subseteq Key /\ read[p]["src"] \in Nat
    BY ListedKeys DEF Side, TypeOK
  <2>2. \A k \in Listed(p, "src") : k \in Nat /\ k <= at[p]["src"]
    BY <1>4, <2>1, KeysAreNumbers DEF EndedInv, Drained, Side
  <2>3. \A k \in Listed(p, "src") : k <= at[p]["src"] => ~(k > read[p]["src"])
    BY <1>4 DEF Drained, Waiting, Ahead
  <2> QED
    BY <2>1, <2>2, <2>3
<1>9. ObjectInv(p)'
  BY <1>1, <1>4, <1>6, <1>8 DEF ObjectInv, Busy
<1>10. CursorInv(p)'
  BY <1>1, <1>4, <1>5, <1>6 DEF CursorInv, ProducerInv
<1>11. AheadInv(p)'
  BY <1>1, <1>5, <1>6, <1>7 DEF AheadInv, ProducerInv
<1>12. BehindInv(p)'
  BY <1>1, <1>5, <1>6, <1>7 DEF BehindInv, ProducerInv
<1> QED
  BY <1>9, <1>10, <1>11, <1>12 DEF ProducerInv

LEMMA ClaimMerge ==
  ASSUME TypeOK, MergeInv, NEW p \in Producer, Claim(p)
  PROVE  MergeInv'
<1>1. /\ pc[p] = "claim" /\ UNCHANGED <<config, read, obj, cursor>>
      /\ pc'[p] \in {"returned", "align"}
      /\ \A q \in Producer \ {p} : pc'[q] = pc[q]
  BY DEF Claim, Goto, TypeOK
<1>2. ProducerInv(p)
  BY <1>1 DEF MergeInv, ProducerInv, Active, Loop
<1>3. ASSUME pc'[p] \in Active
      PROVE  /\ \A j \in Key : Passed(p, j)' = Passed(p, j)
             /\ ObjectInv(p)' /\ CursorInv(p)'
  <2>1. pc'[p] = "align"
    BY <1>1, <1>3 DEF Active, Loop
  <2>2. /\ Listed(p, "src")' = Listed(p, "src") /\ Listed(p, "dst")' = Listed(p, "dst")
        /\ \A j : Merged(j)' = Merged(j)
    BY <1>1, ListedSame DEF Side
  <2>3. \A j \in Key : Passed(p, j)' = Passed(p, j)
    BY <1>1, <2>1 DEF Passed, Busy, Loop
  <2>4. ObjectInv(p)'
    BY <1>1, <1>2, <2>1, <2>2 DEF ObjectInv, ProducerInv, Busy, Loop
  <2>5. CursorInv(p)'
    BY <1>1, <1>2, <2>1, <2>2 DEF CursorInv, ProducerInv
  <2> QED
    BY <2>3, <2>4, <2>5
<1> QED
  BY <1>1, <1>3, SameReadMerge DEF Active, Loop

\* the cursor takes the next destination object, in either loop
LEMMA AdvanceMerge ==
  ASSUME TypeOK, MergeInv, NEW p \in Producer, pc[p] \in {"align", "rest"},
         Advance(p), UNCHANGED <<config, pc, obj>>
  PROVE  MergeInv'
<1> USE DEF Active, Loop
<1>1. PICK k \in First(Waiting(p, "dst")) :
          /\ read' = [read EXCEPT ![p]["dst"] = k]
          /\ cursor' = [cursor EXCEPT ![p] = k]
  BY DEF Advance
<1>2. k \in Listed(p, "dst") /\ k > read[p]["dst"]
  BY DEF First, Waiting, Ahead
<1>3. Listed(p, "dst") \subseteq Key /\ read[p]["dst"] \in Nat
  BY ListedKeys DEF Side, TypeOK
<1>4. k \in Nat
  BY <1>2, <1>3, KeysAreNumbers
<1>5. /\ read'[p]["dst"] = k /\ read'[p]["src"] = read[p]["src"] /\ cursor'[p] = k
      /\ \A q \in Producer \ {p} : cursor'[q] = cursor[q] /\ read'[q] = read[q]
  BY <1>1 DEF TypeOK, Side
<1>6. ProducerInv(p)
  BY DEF MergeInv, ProducerInv
<1>7. /\ Listed(p, "src")' = Listed(p, "src") /\ Listed(p, "dst")' = Listed(p, "dst")
      /\ \A j : Merged(j)' = Merged(j)
  BY ListedSame DEF Side
<1>8. \A j : Passed(p, j)' = Passed(p, j)
  BY <1>5 DEF Passed
<1>9. ObjectInv(p)'
  BY <1>5, <1>6, <1>7 DEF ObjectInv, ProducerInv
<1>10. CursorInv(p)'
  BY <1>2, <1>5, <1>7 DEF CursorInv
<1>11. AheadInv(p)'
  <2>1. k \in Listed(p, "src") /\ Merged(k) => ~Passed(p, k)
    BY <1>2, <1>3, <1>4, <1>6 DEF BehindInv, ProducerInv
  <2> QED
    BY <1>5, <1>7, <1>8, <2>1 DEF AheadInv
<1>12. BehindInv(p)'
  <2>1. \A j \in Listed(p, "dst") : j \in Nat
    BY <1>3, KeysAreNumbers
  <2>2. \A j \in Listed(p, "dst") : j <= read[p]["dst"] => j <= k
    BY <1>2, <1>3, <1>4, <2>1
  <2> QED
    BY <1>5, <1>6, <1>7, <1>8, <2>2 DEF BehindInv, ProducerInv
<1> QED
  BY <1>5, <1>9, <1>10, <1>11, <1>12, OneMoves DEF ProducerInv

LEMMA AlignMerge ==
  ASSUME TypeOK, EndedInv, MergeInv, NEW p \in Producer, Align(p)
  PROVE  MergeInv'
<1>1. pc[p] = "align" /\ UNCHANGED <<config, obj>>
  BY DEF Align
<1>2. CASE Advance(p) /\ UNCHANGED pc
  BY <1>1, <1>2, AdvanceMerge
<1>3. CASE ~(Advance(p) /\ UNCHANGED pc)
  <2>1. /\ UNCHANGED <<read, cursor>>
        /\ \/ cursor[p] # 0 /\ cursor[p] < obj[p] /\ Goto(p, "extra")
           \/ cursor[p] # 0 /\ ~(cursor[p] < obj[p]) /\ Goto(p, "decide")
           \/ cursor[p] = 0 /\ Drained(p, "dst", "ended") /\ Goto(p, "decide")
           \/ Goto(p, "error")
    BY <1>3 DEF Align
  <2>2. /\ \A q \in Producer \ {p} : pc'[q] = pc[q]
        /\ \A l : Goto(p, l) => pc'[p] = l
    BY <2>1 DEF Goto, TypeOK
  <2>3. ASSUME pc'[p] \in Active
        PROVE  /\ \A j \in Key : Passed(p, j)' = Passed(p, j)
               /\ ObjectInv(p)' /\ CursorInv(p)'
    <3>1. /\ pc'[p] \in {"extra", "decide"}
          /\ pc'[p] = "extra" => cursor[p] # 0 /\ cursor[p] < obj[p]
          /\ pc'[p] = "decide" =>
                 \/ cursor[p] # 0 /\ ~(cursor[p] < obj[p])
                 \/ Drained(p, "dst", "ended")
      BY <2>1, <2>2, <2>3 DEF Active, Loop
    <3>2. ProducerInv(p)
      BY <1>1 DEF MergeInv, ProducerInv, Active, Loop
    <3>3. /\ Listed(p, "src")' = Listed(p, "src") /\ Listed(p, "dst")' = Listed(p, "dst")
          /\ Listed(p, "dst") \subseteq Key
          /\ \A j : Merged(j)' = Merged(j)
      BY <1>1, ListedSame, ListedKeys DEF Side
    <3>4. \A j \in Key : Passed(p, j)' = Passed(p, j)
      BY <1>1, <2>1, <3>1 DEF Passed, Busy, Loop
    <3>5. ObjectInv(p)'
      BY <1>1, <2>1, <3>1, <3>2, <3>3 DEF ObjectInv, ProducerInv, Busy, Loop
    <3>6. ASSUME Drained(p, "dst", "ended")
          PROVE  \A k \in Listed(p, "dst") : k <= read[p]["dst"]
      <4>1. read[p]["dst"] \in Nat
        BY DEF Side, TypeOK
      <4>2. \A k \in Listed(p, "dst") : k \in Nat
        BY <3>3, KeysAreNumbers
      <4>3. \A k \in Listed(p, "dst") : k <= at[p]["dst"]
        BY <3>6 DEF EndedInv, Drained, Side
      <4>4. \A k \in Listed(p, "dst") : k <= at[p]["dst"] => ~(k > read[p]["dst"])
        BY <3>6 DEF Drained, Waiting, Ahead
      <4> QED
        BY <4>1, <4>2, <4>3, <4>4
    <3>7. cursor[p] \in Nat /\ obj[p] \in Nat
      BY HeldNumbers
    <3>8. CursorInv(p)'
      BY <1>1, <2>1, <3>1, <3>2, <3>3, <3>6, <3>7 DEF CursorInv, ProducerInv
    <3> QED
      BY <3>4, <3>5, <3>8
  <2> QED
    BY <1>1, <2>1, <2>2, <2>3, SameReadMerge DEF Active, Loop
<1> QED
  BY <1>2, <1>3

\* handleExtraObject: the cursor is behind what is passed, or it is dropped
LEMMA ExtraMerge ==
  ASSUME TypeOK, MergeInv, NEW p \in Producer,
         ExtraKept(p) \/ ExtraChecked(p) \/ ExtraTaken(p) \/ ExtraSettled(p)
  PROVE  MergeInv'
<1>1. /\ UNCHANGED <<config, read, obj>>
      /\ pc[p] \in {"extra", "taken", "settle"}
      /\ \/ UNCHANGED cursor /\ pc[p] = "extra" /\ ExtraWanted(p) /\ Goto(p, "taken")
         \/ UNCHANGED cursor /\ pc[p] = "taken" /\ Goto(p, "settle")
         \/ UNCHANGED cursor /\ Goto(p, "returned")
         \/ cursor' = [cursor EXCEPT ![p] = 0] /\ Resume(p)
  BY DEF ExtraKept, ExtraChecked, ExtraTaken, ExtraSettled
<1>2. /\ \A q \in Producer \ {p} : pc'[q] = pc[q] /\ cursor'[q] = cursor[q]
      /\ cursor'[p] \in {cursor[p], 0}
      /\ \A l \in STRING : Goto(p, l) => pc'[p] = l
  BY <1>1 DEF Goto, Resume, TypeOK
<1>3. ProducerInv(p)
  BY <1>1 DEF MergeInv, ProducerInv, Active, Loop
<1>4. ASSUME pc'[p] \in Active
      PROVE  /\ \A j \in Key : Passed(p, j)' = Passed(p, j)
             /\ ObjectInv(p)' /\ CursorInv(p)'
  <2>1. \/ UNCHANGED cursor /\ pc[p] = "extra" /\ ExtraWanted(p) /\ pc'[p] = "taken"
        \/ UNCHANGED cursor /\ pc[p] = "taken" /\ pc'[p] = "settle"
        \/ cursor'[p] = 0 /\ pc'[p] = IF obj[p] # 0 THEN "align" ELSE "rest"
    BY <1>1, <1>4 DEF Goto, Resume, TypeOK, Active, Loop
  <2>2. /\ Listed(p, "src")' = Listed(p, "src") /\ Listed(p, "dst")' = Listed(p, "dst")
        /\ \A j : Merged(j)' = Merged(j)
    BY <1>1, ListedSame DEF Side
  <2>3. \A j \in Key : Passed(p, j)' = Passed(p, j)
    BY <1>1, <2>1, KeysAreNumbers DEF Passed, Busy, Loop
  <2>4. ObjectInv(p)'
    BY <1>1, <1>3, <2>1, <2>2 DEF ObjectInv, ProducerInv, Busy, Loop
  <2>5. CursorInv(p)'
    <3>1. ExtraWanted(p) => Merged(cursor[p])
      BY DEF ExtraWanted, Merged
    <3> QED
      BY <1>1, <1>3, <2>1, <2>2, <3>1 DEF CursorInv, ProducerInv
  <2> QED
    BY <2>3, <2>4, <2>5
<1> QED
  BY <1>1, <1>2, <1>4, SameReadMerge DEF Active, Loop

LEMMA DecideMerge ==
  ASSUME TypeOK, MergeInv, NEW p \in Producer, Decide(p)
  PROVE  MergeInv'
<1>1. /\ pc[p] = "decide" /\ UNCHANGED <<config, read, obj>>
      /\ pc'[p] = "recv" /\ cursor'[p] = IF cursor[p] = obj[p] THEN 0 ELSE cursor[p]
      /\ \A q \in Producer \ {p} : pc'[q] = pc[q] /\ cursor'[q] = cursor[q]
  BY DEF Decide, Goto, TypeOK
<1>2. ProducerInv(p)
  BY <1>1 DEF MergeInv, ProducerInv, Active, Loop
<1>3. /\ Listed(p, "src")' = Listed(p, "src") /\ Listed(p, "dst")' = Listed(p, "dst")
      /\ Listed(p, "dst") \subseteq Key
      /\ \A j : Merged(j)' = Merged(j)
  BY <1>1, ListedSame, ListedKeys DEF Side
<1>4. obj[p] # 0 /\ obj[p] = read[p]["src"]
  BY <1>1, <1>2 DEF ObjectInv, ProducerInv, Busy, Loop
<1>5. /\ cursor[p] \in Nat /\ obj[p] \in Nat
      /\ read[p]["src"] \in Nat /\ read[p]["dst"] \in Nat
  BY HeldNumbers DEF Side
<1>6. \A j : Passed(p, j)' <=> Passed(p, j) \/ j = obj[p]
  BY <1>1, <1>4, <1>5 DEF Passed, Busy, Loop
<1>7. ObjectInv(p)'
  BY <1>1 DEF ObjectInv, Busy, Loop
<1>8. CursorInv(p)'
  BY <1>1, <1>2, <1>3 DEF CursorInv, ProducerInv
<1>9. AheadInv(p)'
  BY <1>1, <1>2, <1>3, <1>6 DEF AheadInv, ProducerInv
<1>10. obj[p] \in Listed(p, "dst") => obj[p] <= read[p]["dst"]
  BY <1>1, <1>2, <1>5 DEF CursorInv, ProducerInv
<1>11. BehindInv(p)'
  BY <1>1, <1>2, <1>3, <1>6, <1>10 DEF BehindInv, ProducerInv
<1> QED
  BY <1>1, <1>7, <1>8, <1>9, <1>11, OneMoves DEF ProducerInv

LEMMA RestMerge ==
  ASSUME TypeOK, MergeInv, NEW p \in Producer, Rest(p)
  PROVE  MergeInv'
<1>1. pc[p] = "rest" /\ UNCHANGED <<config, obj>>
  BY DEF Rest
<1>2. CASE Advance(p) /\ UNCHANGED pc
  BY <1>1, <1>2, AdvanceMerge
<1>3. CASE ~(Advance(p) /\ UNCHANGED pc)
  <2>1. /\ UNCHANGED <<read, cursor>>
        /\ \/ cursor[p] # 0 /\ pc'[p] = "extra"
           \/ pc'[p] \in {"returned", "error"}
        /\ \A q \in Producer \ {p} : pc'[q] = pc[q]
    BY <1>3 DEF Rest, Goto, TypeOK
  <2>2. ASSUME pc'[p] \in Active
        PROVE  /\ \A j \in Key : Passed(p, j)' = Passed(p, j)
               /\ ObjectInv(p)' /\ CursorInv(p)'
    <3>1. pc'[p] = "extra" /\ cursor[p] # 0
      BY <2>1, <2>2 DEF Active, Loop
    <3>2. ProducerInv(p)
      BY <1>1 DEF MergeInv, ProducerInv, Active, Loop
    <3>3. /\ Listed(p, "src")' = Listed(p, "src") /\ Listed(p, "dst")' = Listed(p, "dst")
          /\ \A j : Merged(j)' = Merged(j)
      BY <1>1, ListedSame DEF Side
    <3>4. obj[p] = 0
      BY <1>1, <3>2 DEF ObjectInv, ProducerInv
    <3>5. \A j \in Key : Passed(p, j)' = Passed(p, j)
      BY <1>1, <2>1, <3>1, <3>4, KeysAreNumbers DEF Passed, Busy, Loop
    <3>6. ObjectInv(p)'
      BY <1>1, <2>1, <3>1, <3>2, <3>3, <3>4 DEF ObjectInv, ProducerInv
    <3>7. CursorInv(p)'
      BY <1>1, <2>1, <3>1, <3>2, <3>3, <3>4 DEF CursorInv, ProducerInv
    <3> QED
      BY <3>5, <3>6, <3>7
  <2> QED
    BY <1>1, <2>1, <2>2, SameReadMerge DEF Active, Loop
<1> QED
  BY <1>2, <1>3

-----------------------------------------------------------------------------
(* The listings.                                                           *)

LEMMA ListMerge ==
  ASSUME TypeOK, MergeInv, NEW p \in Producer,
         List(p) \/ \E s \in Side : ListingFails(p, s)
  PROVE  MergeInv'
<1>1. /\ UNCHANGED <<config, obj, cursor, read>>
      /\ \/ UNCHANGED pc
         \/ \E e \in Producer : pc' = [pc EXCEPT ![e] = IF @ = "idle" /\ ~cpClosed
                                                        THEN "recv" ELSE @]
  BY DEF List, Send, ListingEnds, ListingFails, ListingBreaks, Producer, histVars
<1>2. \A q \in Producer : pc'[q] = pc[q] \/ (pc[q] = "idle" /\ pc'[q] = "recv")
  BY <1>1 DEF TypeOK
<1> SUFFICES ASSUME NEW q \in Producer, pc'[q] \in Active
             PROVE  ProducerInv(q)'
  BY DEF MergeInv, ProducerInv, Active, Loop
<1>3. ProducerInv(q)
  BY <1>2 DEF MergeInv, ProducerInv, Active, Loop
<1>4. CASE pc'[q] = pc[q]
  BY <1>1, <1>3, <1>4, Untouched
<1>5. CASE pc[q] = "idle" /\ pc'[q] = "recv"
  <2>1. /\ Listed(q, "src")' = Listed(q, "src") /\ Listed(q, "dst")' = Listed(q, "dst")
        /\ \A j : Merged(j)' = Merged(j)
    BY <1>1, ListedSame DEF Side
  <2>2. \A j : Passed(q, j)' = Passed(q, j)
    BY <1>1, <1>5 DEF Passed, Busy, Loop
  <2>3. ObjectInv(q)'
    BY <1>5 DEF ObjectInv, Busy, Loop
  <2>4. CursorInv(q)'
    BY <1>1, <1>3, <1>5, <2>1 DEF CursorInv, ProducerInv
  <2>5. AheadInv(q)'
    BY <1>1, <1>3, <2>1, <2>2 DEF AheadInv, ProducerInv
  <2>6. BehindInv(q)'
    BY <1>1, <1>3, <2>1, <2>2 DEF BehindInv, ProducerInv
  <2> QED
    BY <2>3, <2>4, <2>5, <2>6 DEF ProducerInv
<1> QED
  BY <1>2, <1>4, <1>5

LEMMA InitInv == Init => Inv
<1> SUFFICES ASSUME Init PROVE Inv
  OBVIOUS
<1>1. TypeOK
  BY InitType
<1>2. EndedInv
  BY DEF Init, EndedInv
<1>3. SourceKept
  BY DEF Init, SourceKept
<1>4. ASSUME NEW p \in Producer
      PROVE  ProducerInv(p)
  <2>1. /\ pc[p] \in {"recv", "idle"} /\ obj[p] = 0 /\ cursor[p] = 0
        /\ read[p]["src"] = 0 /\ read[p]["dst"] = 0
    BY DEF Init, Side
  <2>2. ObjectInv(p) /\ CursorInv(p) /\ AheadInv(p)
    BY <2>1 DEF ObjectInv, CursorInv, AheadInv, Busy, Loop
  <2>3. \A k \in Listed(p, "src") : ~Passed(p, k)
    <3>1. Listed(p, "src") \subseteq Key
      BY ListedKeys DEF Side
    <3>2. \A k \in Key : ~(k <= 0)
      BY KeyAssumption
    <3> QED
      BY <2>1, <3>1, <3>2 DEF Passed
  <2>4. BehindInv(p)
    BY <2>3 DEF BehindInv
  <2> QED
    BY <2>2, <2>4 DEF ProducerInv
<1> QED
  BY <1>1, <1>2, <1>3, <1>4 DEF Inv, MergeInv, ProducerInv

\* an ended listing has sent everything, and sends no more
LEMMA NextEnded ==
  ASSUME TypeOK, EndedInv, [Next]_vars
  PROVE  EndedInv'
<1>1. CASE UNCHANGED vars
  BY <1>1, ListedSame DEF vars, EndedInv
<1>2. CASE UNCHANGED <<config, listing, at>>
  BY <1>2, ListedSame DEF EndedInv
<1>3. ASSUME NEW p \in Producer, NEW s \in Side, Send(p, s)
      PROVE  EndedInv'
  <2>1. PICK e : at' = [at EXCEPT ![p][s] = e]
    BY <1>3 DEF Send
  <2>2. listing' = listing /\ listing[p][s] = "open" /\ config' = config
    BY <1>3 DEF Send
  <2>3. \A q \in Producer, t \in Side : ~(q = p /\ t = s) => at'[q][t] = at[q][t]
    BY <2>1 DEF TypeOK
  <2> QED
    BY <2>2, <2>3, ListedSame DEF EndedInv
<1>4. ASSUME NEW p \in Producer, NEW s \in Side, ListingEnds(p, s)
      PROVE  EndedInv'
  <2>1. /\ listing' = [listing EXCEPT ![p][s] = "ended"] /\ UNCHANGED <<config, at>>
        /\ Ahead(Entries(p, s), at[p][s]) = {}
    BY <1>4 DEF ListingEnds
  <2>2. \A k \in Listed(p, s) : k <= at[p][s]
    <3>1. \A k \in Listed(p, s) : ~(k > at[p][s])
      BY <2>1, ListedKeys DEF Ahead
    <3>2. Listed(p, s) \subseteq Key
      BY ListedKeys
    <3>3. \A k \in Listed(p, s) : k \in Nat
      BY <3>2, KeysAreNumbers
    <3> QED
      BY <3>1, <3>3, HeldNumbers
  <2>3. \A q \in Producer, t \in Side :
            ~(q = p /\ t = s) => listing'[q][t] = listing[q][t]
    BY <2>1 DEF TypeOK
  <2> QED
    BY <2>1, <2>2, <2>3, ListedSame DEF EndedInv
<1>5. ASSUME NEW p \in Producer, NEW s \in Side, ListingFails(p, s)
      PROVE  EndedInv'
  <2>1. listing' = [listing EXCEPT ![p][s] = "failed"] /\ UNCHANGED <<config, at>>
    BY <1>5 DEF ListingFails, ListingBreaks
  <2>2. \A q \in Producer, t \in Side :
            listing'[q][t] = "ended" => listing[q][t] = "ended"
    BY <2>1 DEF TypeOK
  <2> QED
    BY <2>1, <2>2, ListedSame DEF EndedInv
<1>6. ASSUME NEW p \in Producer, Step(p)
      PROVE  UNCHANGED <<config, listing, at>>
  BY <1>6 DEF Step, Receive, ReceiveEnd, Claim, Align, ExtraKept, ExtraChecked, ExtraTaken,
              ExtraSettled, Decide, Rest, Close
<1>7. CASE Finish
  BY <1>7, <1>2 DEF Finish
<1> QED
  BY <1>1, <1>2, <1>3, <1>4, <1>5, <1>6, <1>7 DEF Next, List, Over

\* what is deleted as extra is not in the source
LEMMA TakenExtra ==
  ASSUME TypeOK, MergeInv, NEW p \in Producer, pc[p] = "taken"
  PROVE  cursor[p] \notin config.objects["src"]
<1>1. ProducerInv(p)
  BY DEF MergeInv, ProducerInv, Active, Loop
<1>2. /\ cursor[p] # 0 /\ cursor[p] \in Listed(p, "dst") /\ Merged(cursor[p])
      /\ obj[p] # 0 => cursor[p] < obj[p] /\ obj[p] = read[p]["src"]
      /\ obj[p] = 0 => \A k \in Listed(p, "src") : k <= read[p]["src"]
  BY <1>1 DEF ProducerInv, CursorInv, ObjectInv, Busy, Loop
<1>3. /\ cursor[p] \in Nat /\ obj[p] \in Nat /\ read[p]["src"] \in Nat
  BY HeldNumbers DEF Side
<1>4. SUFFICES ASSUME cursor[p] \in config.objects["src"]
               PROVE  FALSE
  OBVIOUS
<1>5. cursor[p] \in Listed(p, "src")
  BY <1>2, <1>4 DEF Listed
<1>6. Passed(p, cursor[p])
  BY <1>2, <1>3, <1>5 DEF Passed
<1> QED
  BY <1>1, <1>2, <1>5, <1>6 DEF ProducerInv, AheadInv

LEMMA NextInv == Inv /\ [Next]_vars => Inv'
<1> SUFFICES ASSUME Inv, [Next]_vars
             PROVE  Inv'
  OBVIOUS
<1>1. TypeOK /\ EndedInv /\ MergeInv /\ SourceKept
  BY DEF Inv
<1>2. TypeOK' /\ EndedInv'
  BY <1>1, NextType, NextEnded
<1>3. MergeInv'
  <2>1. CASE UNCHANGED vars
    <3>1. \A q \in Producer : pc[q] \in Active => ProducerInv(q)'
      BY <1>1, <2>1, Untouched DEF MergeInv, ProducerInv, vars
    <3> QED
      BY <2>1, <3>1 DEF MergeInv, ProducerInv, vars, Active, Loop
  <2>2. CASE Finish
    <3>1. /\ UNCHANGED <<config, obj, cursor, read>> /\ 0 \in Producer
          /\ pc'[0] = "done" /\ \A q \in Producer \ {0} : pc'[q] = pc[q]
      BY <1>1, <2>2 DEF Finish, Goto, TypeOK, Producer
    <3> QED
      BY <1>1, <3>1, OneMoves DEF Active, Loop
  <2>3. ASSUME NEW p \in Producer, Close(p)
        PROVE  MergeInv'
    <3>1. /\ UNCHANGED <<config, obj, cursor, read>>
          /\ pc'[p] \in {"children", "done"}
          /\ \A q \in Producer \ {p} : pc'[q] = pc[q]
      BY <1>1, <2>3 DEF Close, Goto, TypeOK, histVars
    <3> QED
      BY <1>1, <3>1, OneMoves DEF Active, Loop
  <2>4. ASSUME NEW p \in Producer, Step(p)
        PROVE  MergeInv'
    BY <1>1, <2>3, <2>4, ReceiveMerge, ReceiveEndMerge, ClaimMerge, AlignMerge,
       ExtraMerge, DecideMerge, RestMerge DEF Step
  <2> QED
    BY <1>1, <2>1, <2>2, <2>4, ListMerge DEF Next, Over
<1>4. SourceKept'
  <2>1. config' = config
    BY DEF Next, Over, Finish, List, Step, Send, ListingEnds, ListingFails, ListingBreaks,
           Receive, ReceiveEnd, Claim, Align, ExtraKept, ExtraChecked, ExtraTaken,
           ExtraSettled, Decide, Rest, Close, vars
  <2>2. \/ extras' = extras
        \/ \E p \in Producer : pc[p] = "taken" /\ extras' = extras \cup {cursor[p]}
    BY DEF Next, Over, Finish, List, Step, Send, ListingEnds, ListingFails, ListingBreaks,
           Receive, ReceiveEnd, Claim, Align, ExtraKept, ExtraChecked, ExtraTaken,
           ExtraSettled, Decide, Rest, Close, vars, histVars
  <2> QED
    BY <1>1, <2>1, <2>2, TakenExtra DEF SourceKept
<1> QED
  BY <1>2, <1>3, <1>4 DEF Inv

-----------------------------------------------------------------------------
(* What becomes of the keys.                                               *)

Returned == {"returned", "children", "done"}

\* produce holds a counted source object
Holding == {"align", "extra", "taken", "settle", "decide"}

\* the object in hand is one of the producer's, and one that takes part; the limit is
\* claimed, and extra objects are deleted, with their options only; past its last
\* source object the producer has seen the listing end
HeldInv(p) ==
    /\ obj[p] # 0 => obj[p] \in Listed(p, "src") /\ Merged(obj[p])
    /\ pc[p] = "claim" => config.limit >= 0
    /\ pc[p] \in {"taken", "settle"} => On("deleteDst")
    /\ pc[p] = "rest" \/ (pc[p] \in Holding /\ obj[p] = 0) => listing[p]["src"] = "ended"

\* a key of both sides that is still to be handled is ahead of the destination
\* listing, or under the cursor
KeptInv(p) ==
    \A k \in Listed(p, "src") \cap Listed(p, "dst") :
        Merged(k) /\ ~Passed(p, k) /\ k <= read[p]["dst"] => cursor[p] = k

\* what is done with has the outcome it deserves, the rest has none
OutcomeInv(p) ==
    \A k \in Listed(p, "src") :
        outcome[k] = IF Merged(k) /\ Passed(p, k) THEN Decision(k, k \in Listed(p, "dst"))
                     ELSE "none"

\* the destination cursor has left k behind
Left(p, k) == k <= read[p]["dst"] /\ (k = cursor[p] => pc[p] = "settle")

\* extra objects deleted were left behind; without a limit each of those is deleted
ExtrasInv(p) ==
    /\ \A k \in extras \cap Mine(p) : Merged(k) /\ k \in Listed(p, "dst") /\ Left(p, k)
    /\ config.limit < 0 /\ On("deleteDst") =>
           \A k \in Listed(p, "dst") \ config.objects["src"] :
               Merged(k) /\ Left(p, k) => k \in extras

\* what was counted is in hand or decided
ClaimedInv(p) ==
    \A k \in claimed \cap Mine(p) :
        outcome[k] # "none" \/ (k = obj[p] /\ pc[p] \in Holding)

ResultInv(p) ==
    HeldInv(p) /\ KeptInv(p) /\ OutcomeInv(p) /\ ExtrasInv(p) /\ ClaimedInv(p)

ResultsInv == \A p \in Producer : pc[p] \in Active => ResultInv(p)

UnlimitedInv == config.limit < 0 => limit < 0

\* the promises of a producer that has returned
RightInv(p) ==
    config.limit < 0 =>
        /\ listing[p]["src"] = "ended"
        /\ \A k \in Listed(p, "src") :
               outcome[k] = IF k \in DirKey /\ ~On("dirs") THEN "none"
                            ELSE Decision(k, k \in Listed(p, "dst"))
        /\ On("deleteDst") =>
               extras \cap Mine(p) =
                   {k \in Listed(p, "dst") \ config.objects["src"] : On("dirs") \/ k \notin DirKey}

LostInv(p) ==
    ~(On("deleteDst") /\ config.limit >= 0) =>
        \A k \in claimed \cap Mine(p) : outcome[k] # "none"

ReturnedInv == \A p \in Producer : pc[p] \in Returned => RightInv(p) /\ LostInv(p)

MoreInv == UnlimitedInv /\ ResultsInv /\ ReturnedInv

\* the configuration never changes, nor what is defined by it alone
LEMMA ConfigSame ==
  ASSUME config' = config
  PROVE  /\ \A f : On(f)' = On(f)
         /\ \A p \in Producer : Mine(p)' = Mine(p)
         /\ \A p \in Producer, s \in Side : Listed(p, s)' = Listed(p, s)
         /\ \A k : Merged(k)' = Merged(k)
         /\ \A k, d : Decision(k, d)' = Decision(k, d)
<1>1. \A f : On(f)' = On(f)
  BY DEF On
<1>2. \A p \in Producer : Mine(p)' = Mine(p)
  BY <1>1 DEF Mine
<1>3. \A k, o : Marked(k, o)' = Marked(k, o)
  BY <1>1 DEF Marked
<1>4. /\ Differs' = Differs /\ SecondGateSends' = SecondGateSends
      /\ \A k : FirstGateSkips(k)' = FirstGateSkips(k)
  BY <1>1 DEF Differs, SecondGateSends, FirstGateSkips
<1>5. \A k, d : Decision(k, d)' = Decision(k, d)
  BY <1>1, <1>3, <1>4 DEF Decision
<1> QED
  BY <1>1, <1>2, <1>5, ListedSame

\* produce decides something
LEMMA DecisionMade ==
  ASSUME NEW k, NEW d \in BOOLEAN
  PROVE  Decision(k, d) # "none"
<1>1. \A o \in Outcome \ {"none"} : Marked(k, o) # "none"
  BY DEF Marked, Outcome
<1>2. CASE FirstGateSkips(k)
  BY <1>2 DEF Decision
<1>3. CASE ~FirstGateSkips(k) /\ ~d
  BY <1>3 DEF Decision
<1>4. CASE ~FirstGateSkips(k) /\ d
  BY <1>1, <1>4 DEF Decision, Outcome
<1> QED
  BY <1>2, <1>3, <1>4

\* a key is listed by one producer
LEMMA MineApart ==
  /\ \A p, q \in Producer : p # q => Mine(p) \cap Mine(q) = {}
  /\ \A p \in Producer : Mine(p) \subseteq Key
  BY DEF Mine

\* a producer keeps its promises when another one moves
LEMMA OthersResults ==
  ASSUME NEW q \in Producer, config' = config,
         listing[q]["src"] = "ended" => listing'[q]["src"] = "ended",
         pc'[q] = pc[q], obj'[q] = obj[q], cursor'[q] = cursor[q], read'[q] = read[q],
         \A k \in Mine(q) : /\ outcome'[k] = outcome[k]
                            /\ k \in claimed' <=> k \in claimed
                            /\ k \in extras' <=> k \in extras
  PROVE  /\ ResultInv(q) => ResultInv(q)'
         /\ RightInv(q) => RightInv(q)'
         /\ LostInv(q) => LostInv(q)'
<1>1. /\ Listed(q, "src")' = Listed(q, "src") /\ Listed(q, "dst")' = Listed(q, "dst")
      /\ Mine(q)' = Mine(q) /\ \A k : Merged(k)' = Merged(k)
      /\ \A f : On(f)' = On(f)
      /\ \A k, d : Decision(k, d)' = Decision(k, d)
  BY ConfigSame DEF Side
<1>2. \A k : Passed(q, k)' = Passed(q, k) /\ Left(q, k)' = Left(q, k)
  BY DEF Passed, Left
<1>3. Listed(q, "src") \subseteq Mine(q) /\ Listed(q, "dst") \subseteq Mine(q)
  BY DEF Listed
<1>4. HeldInv(q) => HeldInv(q)'
  BY <1>1 DEF HeldInv
<1>5. KeptInv(q) => KeptInv(q)'
  BY <1>1, <1>2 DEF KeptInv
<1>6. OutcomeInv(q) => OutcomeInv(q)'
  BY <1>1, <1>2, <1>3 DEF OutcomeInv
<1>7. ExtrasInv(q) => ExtrasInv(q)'
  BY <1>1, <1>2, <1>3 DEF ExtrasInv
<1>8. ClaimedInv(q) => ClaimedInv(q)'
  BY <1>1 DEF ClaimedInv
<1>9. RightInv(q) => RightInv(q)'
  <2> SUFFICES ASSUME RightInv(q), config.limit < 0
               PROVE  RightInv(q)'
    BY DEF RightInv
  <2>1. \A k \in Listed(q, "src")' :
            outcome'[k] = IF k \in DirKey /\ ~On("dirs")' THEN "none"
                          ELSE Decision(k, k \in Listed(q, "dst"))'
    BY <1>1, <1>3 DEF RightInv
  <2>2. extras' \cap Mine(q)' = extras \cap Mine(q)
    BY <1>1
  <2> QED
    BY <1>1, <2>1, <2>2 DEF RightInv
<1>10. LostInv(q) => LostInv(q)'
  BY <1>1 DEF LostInv
<1> QED
  BY <1>4, <1>5, <1>6, <1>7, <1>8, <1>9, <1>10 DEF ResultInv

\* it is enough to look at the producer that moves
LEMMA OneResult ==
  ASSUME TypeOK, ResultsInv, ReturnedInv, NEW p \in Producer,
         UNCHANGED <<config, listing>>,
         \A q \in Producer \ {p} :
            /\ pc'[q] = pc[q] /\ obj'[q] = obj[q]
            /\ cursor'[q] = cursor[q] /\ read'[q] = read[q],
         \A k \in Key \ Mine(p) : /\ outcome'[k] = outcome[k]
                                  /\ k \in claimed' <=> k \in claimed
                                  /\ k \in extras' <=> k \in extras,
         pc'[p] \in Active => ResultInv(p)',
         pc'[p] \in Returned => RightInv(p)' /\ LostInv(p)'
  PROVE  ResultsInv' /\ ReturnedInv'
<1>1. ASSUME NEW q \in Producer, q # p
      PROVE  /\ ResultInv(q) => ResultInv(q)'
             /\ RightInv(q) => RightInv(q)'
             /\ LostInv(q) => LostInv(q)'
  <2>1. \A k \in Mine(q) : k \in Key \ Mine(p)
    BY <1>1, MineApart
  <2> QED
    BY <1>1, <2>1, OthersResults
<1>2. ASSUME NEW q \in Producer, q # p
      PROVE  pc'[q] = pc[q]
  BY <1>2
<1>3. ResultsInv'
  BY <1>1, <1>2 DEF ResultsInv, Active, Loop
<1>4. ReturnedInv'
  BY <1>1, <1>2 DEF ReturnedInv, Returned
<1> QED
  BY <1>3, <1>4

\* what an ended listing leaves nothing of has been received
LEMMA DrainedPast ==
  ASSUME TypeOK, EndedInv, NEW p \in Producer, NEW s \in Side, Drained(p, s, "ended")
  PROVE  \A k \in Listed(p, s) : k <= read[p][s]
<1>1. read[p][s] \in Nat /\ at[p][s] \in Nat
  BY HeldNumbers
<1>2. \A k \in Listed(p, s) : k \in Nat
  BY ListedKeys, KeysAreNumbers
<1>3. \A k \in Listed(p, s) : k <= at[p][s]
  BY DEF EndedInv, Drained
<1>4. \A k \in Listed(p, s) : k <= at[p][s] => ~(k > read[p][s])
  BY DEF Drained, Waiting, Ahead
<1> QED
  BY <1>1, <1>2, <1>3, <1>4

\* a producer whose keys keep their place keeps its outcomes
LEMMA KeepsOutcome ==
  ASSUME NEW p \in Producer, UNCHANGED <<config, outcome>>, OutcomeInv(p),
         \A j \in Listed(p, "src") : Merged(j) => (Passed(p, j)' <=> Passed(p, j))
  PROVE  OutcomeInv(p)'
<1>1. /\ Listed(p, "src")' = Listed(p, "src") /\ Listed(p, "dst")' = Listed(p, "dst")
      /\ \A k : Merged(k)' = Merged(k)
      /\ \A k, d : Decision(k, d)' = Decision(k, d)
  BY ConfigSame DEF Side
<1> SUFFICES ASSUME NEW k \in Listed(p, "src")
             PROVE  outcome'[k] = IF Merged(k)' /\ Passed(p, k)'
                                  THEN Decision(k, k \in Listed(p, "dst"))' ELSE "none"
  BY <1>1 DEF OutcomeInv
<1>2. outcome[k] = IF Merged(k) /\ Passed(p, k)
                   THEN Decision(k, k \in Listed(p, "dst")) ELSE "none"
  BY DEF OutcomeInv
<1>3. Decision(k, k \in Listed(p, "dst"))' = Decision(k, k \in Listed(p, "dst"))
  BY <1>1
<1> QED
  BY <1>1, <1>2, <1>3

\* what the lists of a producer hold
LEMMA ListedNumbers ==
  ASSUME NEW p \in Producer, NEW s \in Side
  PROVE  /\ Listed(p, s) \subseteq Mine(p) /\ Listed(p, s) \subseteq Key
         /\ \A k \in Listed(p, s) : k \in Nat /\ k # 0
  BY ListedKeys, KeysAreNumbers DEF Listed

LEMMA ReceiveResult ==
  ASSUME TypeOK, MergeInv, ResultsInv, ReturnedInv, UnlimitedInv,
         NEW p \in Producer, Receive(p)
  PROVE  ResultsInv' /\ ReturnedInv'
<1> USE DEF Active, Loop
<1>1. PICK k \in First(Waiting(p, "src")) :
          /\ read' = [read EXCEPT ![p]["src"] = k]
          /\ \/ ~Merged(k) /\ UNCHANGED <<obj, pc, claimed>>
             \/ /\ Merged(k) /\ obj' = [obj EXCEPT ![p] = k]
                /\ \/ limit >= 0 /\ Goto(p, "claim") /\ UNCHANGED claimed
                   \/ Goto(p, "align") /\ claimed' = claimed \cup {k}
  BY DEF Receive, Merged
<1>2. k \in Listed(p, "src") /\ k > read[p]["src"]
  BY DEF First, Waiting, Ahead
<1>3. /\ k \in Mine(p) /\ k \in Key /\ k \in Nat /\ k # 0
      /\ read[p]["src"] \in Nat
  BY <1>2, ListedNumbers, HeldNumbers DEF Side
<1>4. /\ pc[p] = "recv" /\ UNCHANGED <<config, listing, cursor, outcome, extras>>
      /\ ResultInv(p)
  BY DEF Receive, ResultsInv
<1>5. \A q \in Producer \ {p} :
            /\ pc'[q] = pc[q] /\ obj'[q] = obj[q]
            /\ cursor'[q] = cursor[q] /\ read'[q] = read[q]
  BY <1>1, <1>4 DEF TypeOK, Goto
<1>6. /\ read'[p]["src"] = k /\ read'[p]["dst"] = read[p]["dst"]
      /\ \/ ~Merged(k) /\ pc'[p] = "recv" /\ obj'[p] = obj[p] /\ claimed' = claimed
         \/ /\ Merged(k) /\ obj'[p] = k /\ pc'[p] = "claim" /\ claimed' = claimed
            /\ limit >= 0
         \/ /\ Merged(k) /\ obj'[p] = k /\ pc'[p] = "align"
            /\ claimed' = claimed \cup {k}
  BY <1>1, <1>4 DEF TypeOK, Goto, Side
<1>7. /\ Listed(p, "src")' = Listed(p, "src") /\ Listed(p, "dst")' = Listed(p, "dst")
      /\ Mine(p)' = Mine(p) /\ \A j : Merged(j)' = Merged(j)
      /\ \A f : On(f)' = On(f)
  BY <1>4, ConfigSame DEF Side
<1>8. ASSUME NEW j \in Listed(p, "src"), Merged(j)
      PROVE  Passed(p, j)' <=> Passed(p, j)
  <2>1. j \in Nat
    BY ListedNumbers DEF Side
  <2>2. Passed(p, j) <=> j <= read[p]["src"]
    BY <1>4 DEF Passed, Busy
  <2>3. Passed(p, j)' <=> j <= k /\ j # k
    BY <1>6, <1>8 DEF Passed, Busy
  <2>4. j < k => j <= read[p]["src"]
    <3>1. k <= at[p]["src"] /\ at[p]["src"] \in Nat
      BY HeldNumbers DEF First, Waiting, Ahead, Side
    <3>2. \A i \in Waiting(p, "src") : k <= i
      BY DEF First
    <3> QED
      BY <1>3, <2>1, <3>1, <3>2 DEF Waiting, Ahead
  <2> QED
    BY <1>2, <1>3, <2>1, <2>2, <2>3, <2>4
<1>9. HeldInv(p)'
  <2>1. limit \in Int /\ config.limit \in Int
    BY ConfigurationAssumption DEF TypeOK
  <2>2. limit >= 0 => config.limit >= 0
    BY <2>1 DEF UnlimitedInv
  <2> QED
    BY <1>2, <1>3, <1>4, <1>6, <1>7, <2>2 DEF HeldInv, ResultInv, Holding
<1>10. KeptInv(p)'
  BY <1>4, <1>6, <1>7, <1>8 DEF KeptInv, ResultInv
<1>11. OutcomeInv(p)'
  BY <1>4, <1>8, KeepsOutcome DEF ResultInv
<1>12. \A j : Left(p, j)' <=> Left(p, j)
  BY <1>4, <1>6 DEF Left
<1>13. ExtrasInv(p)'
  BY <1>4, <1>7, <1>12 DEF ExtrasInv, ResultInv
<1>14. ClaimedInv(p)'
  BY <1>4, <1>6, <1>7 DEF ClaimedInv, ResultInv, Holding
<1>15. pc'[p] \notin Returned
  BY <1>6 DEF Returned
<1>16. \A j \in Key \ Mine(p) : j \in claimed' <=> j \in claimed
  BY <1>3, <1>6
<1> QED
  BY <1>4, <1>5, <1>9, <1>10, <1>11, <1>13, <1>14, <1>15, <1>16, OneResult DEF ResultInv

LEMMA ReceiveEndResult ==
  ASSUME TypeOK, EndedInv, MergeInv, ResultsInv, ReturnedInv,
         NEW p \in Producer, ReceiveEnd(p)
  PROVE  ResultsInv' /\ ReturnedInv'
<1> USE DEF Active, Loop
<1>1. /\ pc[p] = "recv" /\ UNCHANGED <<config, listing, cursor, read, outcome, claimed, extras>>
      /\ \/ /\ Drained(p, "src", "ended")
            /\ obj' = [obj EXCEPT ![p] = 0]
            /\ \/ On("deleteDst") /\ Goto(p, "rest")
               \/ ~On("deleteDst") /\ Goto(p, "returned")
         \/ Goto(p, "error") /\ UNCHANGED obj
  BY DEF ReceiveEnd, histVars
<1>2. \A q \in Producer \ {p} :
            /\ pc'[q] = pc[q] /\ obj'[q] = obj[q]
            /\ cursor'[q] = cursor[q] /\ read'[q] = read[q]
  BY <1>1 DEF TypeOK, Goto
<1>3. ResultInv(p)
  BY <1>1 DEF ResultsInv
<1>4. /\ Listed(p, "src")' = Listed(p, "src") /\ Listed(p, "dst")' = Listed(p, "dst")
      /\ Mine(p)' = Mine(p) /\ \A j : Merged(j)' = Merged(j)
      /\ \A f : On(f)' = On(f)
      /\ \A k, d : Decision(k, d)' = Decision(k, d)
  BY <1>1, ConfigSame DEF Side
<1>5. ASSUME pc'[p] \in Active
      PROVE  ResultInv(p)'
  <2>1. pc'[p] = "rest" /\ obj'[p] = 0 /\ listing[p]["src"] = "ended"
    BY <1>1, <1>5 DEF TypeOK, Goto, Drained
  <2>2. \A j : Passed(p, j)' <=> Passed(p, j)
    BY <1>1, <2>1 DEF Passed, Busy
  <2>3. \A j : Left(p, j)' <=> Left(p, j)
    BY <1>1, <2>1 DEF Left
  <2>4. HeldInv(p)'
    BY <1>1, <2>1 DEF HeldInv
  <2>5. KeptInv(p)'
    BY <1>1, <1>3, <1>4, <2>2 DEF KeptInv, ResultInv
  <2>6. OutcomeInv(p)'
    BY <1>1, <1>3, <2>2, KeepsOutcome DEF ResultInv
  <2>7. ExtrasInv(p)'
    BY <1>1, <1>3, <1>4, <2>3 DEF ExtrasInv, ResultInv
  <2>8. ClaimedInv(p)'
    BY <1>1, <1>3, <1>4, <2>1 DEF ClaimedInv, ResultInv, Holding
  <2> QED
    BY <2>4, <2>5, <2>6, <2>7, <2>8 DEF ResultInv
<1>6. ASSUME pc'[p] \in Returned
      PROVE  RightInv(p)' /\ LostInv(p)'
  <2>1. ~On("deleteDst") /\ Drained(p, "src", "ended")
    BY <1>1, <1>6 DEF TypeOK, Goto, Returned
  <2>2. \A k \in Listed(p, "src") : Passed(p, k)
    BY <1>1, <2>1, DrainedPast DEF Passed, Busy, Side
  <2>3. \A k \in Listed(p, "src") :
            outcome[k] = IF k \in DirKey /\ ~On("dirs") THEN "none"
                         ELSE Decision(k, k \in Listed(p, "dst"))
    BY <1>3, <2>2 DEF OutcomeInv, ResultInv, Merged
  <2>4. \A k \in Listed(p, "src") :
            Decision(k, k \in Listed(p, "dst"))' = Decision(k, k \in Listed(p, "dst"))
    BY <1>4
  <2>5. RightInv(p)'
    BY <1>1, <1>4, <2>1, <2>3, <2>4 DEF RightInv, Drained
  <2>6. LostInv(p)'
    BY <1>1, <1>3, <1>4 DEF LostInv, ClaimedInv, ResultInv, Holding
  <2> QED
    BY <2>5, <2>6
<1> QED
  BY <1>1, <1>2, <1>5, <1>6, OneResult

LEMMA ClaimResult ==
  ASSUME TypeOK, MergeInv, ResultsInv, ReturnedInv, NEW p \in Producer, Claim(p)
  PROVE  ResultsInv' /\ ReturnedInv'
<1> USE DEF Active, Loop
<1>1. /\ pc[p] = "claim"
      /\ UNCHANGED <<config, listing, cursor, read, obj, outcome, extras>>
      /\ \/ pc'[p] = "returned" /\ UNCHANGED claimed
         \/ pc'[p] = "align" /\ claimed' = claimed \cup {obj[p]}
      /\ \A q \in Producer \ {p} : pc'[q] = pc[q]
  BY DEF Claim, TypeOK, Goto
<1>2. ResultInv(p) /\ obj[p] # 0
  BY <1>1 DEF ResultsInv, MergeInv, ObjectInv
<1>3. /\ Listed(p, "src")' = Listed(p, "src") /\ Listed(p, "dst")' = Listed(p, "dst")
      /\ Mine(p)' = Mine(p) /\ \A j : Merged(j)' = Merged(j)
      /\ \A f : On(f)' = On(f)
  BY <1>1, ConfigSame DEF Side
<1>4. obj[p] \in Mine(p)
  BY <1>2, ListedNumbers DEF ResultInv, HeldInv, Side
<1>5. ASSUME pc'[p] \in Active
      PROVE  ResultInv(p)'
  <2>1. pc'[p] = "align" /\ claimed' = claimed \cup {obj[p]}
    BY <1>1, <1>5
  <2>2. \A j : (Passed(p, j)' <=> Passed(p, j)) /\ (Left(p, j)' <=> Left(p, j))
    BY <1>1, <2>1 DEF Passed, Busy, Left
  <2>3. HeldInv(p)'
    BY <1>1, <1>2, <1>3, <2>1 DEF HeldInv, ResultInv
  <2>4. KeptInv(p)'
    BY <1>1, <1>2, <1>3, <2>2 DEF KeptInv, ResultInv
  <2>5. OutcomeInv(p)'
    BY <1>1, <1>2, <2>2, KeepsOutcome DEF ResultInv
  <2>6. ExtrasInv(p)'
    BY <1>1, <1>2, <1>3, <2>2 DEF ExtrasInv, ResultInv
  <2>7. ClaimedInv(p)'
    BY <1>1, <1>2, <1>3, <2>1 DEF ClaimedInv, ResultInv, Holding
  <2> QED
    BY <2>3, <2>4, <2>5, <2>6, <2>7 DEF ResultInv
<1>6. ASSUME pc'[p] \in Returned
      PROVE  RightInv(p)' /\ LostInv(p)'
  <2>1. claimed' = claimed
    BY <1>1, <1>6 DEF Returned
  <2>2. config.limit >= 0 /\ config.limit \in Int
    BY <1>1, <1>2, ConfigurationAssumption DEF ResultInv, HeldInv, TypeOK
  <2>3. RightInv(p)'
    BY <1>1, <2>2 DEF RightInv
  <2>4. LostInv(p)'
    BY <1>1, <1>2, <1>3, <2>1 DEF LostInv, ClaimedInv, ResultInv, Holding
  <2> QED
    BY <2>3, <2>4
<1>7. \A k \in Key \ Mine(p) : k \in claimed' <=> k \in claimed
  BY <1>1, <1>4
<1> QED
  BY <1>1, <1>5, <1>6, <1>7, OneResult

\* the cursor takes the next destination object, in either loop
LEMMA AdvanceResult ==
  ASSUME TypeOK, MergeInv, ResultsInv, ReturnedInv,
         NEW p \in Producer, pc[p] \in {"align", "rest"}, Advance(p),
         UNCHANGED <<config, pc, obj, listing, outcome, claimed, extras>>
  PROVE  ResultsInv' /\ ReturnedInv'
<1> USE DEF Active, Loop
<1>1. PICK k \in First(Waiting(p, "dst")) :
          /\ read' = [read EXCEPT ![p]["dst"] = k]
          /\ cursor' = [cursor EXCEPT ![p] = k]
  BY DEF Advance
<1>2. k \in Listed(p, "dst") /\ k > read[p]["dst"] /\ k <= at[p]["dst"] /\ cursor[p] = 0
  BY DEF First, Waiting, Ahead, Advance
<1>3. k \in Nat /\ k # 0 /\ read[p]["dst"] \in Nat /\ at[p]["dst"] \in Nat
  BY <1>2, ListedNumbers, HeldNumbers DEF Side
<1>4. /\ read'[p]["dst"] = k /\ read'[p]["src"] = read[p]["src"] /\ cursor'[p] = k
      /\ \A q \in Producer \ {p} : cursor'[q] = cursor[q] /\ read'[q] = read[q]
  BY <1>1 DEF TypeOK, Side
<1>5. ResultInv(p)
  BY DEF ResultsInv
<1>6. /\ Listed(p, "src")' = Listed(p, "src") /\ Listed(p, "dst")' = Listed(p, "dst")
      /\ Mine(p)' = Mine(p) /\ \A j : Merged(j)' = Merged(j)
      /\ \A f : On(f)' = On(f)
  BY ConfigSame DEF Side
<1>7. \A j : Passed(p, j)' <=> Passed(p, j)
  BY <1>4 DEF Passed
<1>8. ASSUME NEW j \in Listed(p, "dst"), j <= k, j # k
      PROVE  j <= read[p]["dst"]
  <2>1. j \in Nat
    BY ListedNumbers DEF Side
  <2>2. j \notin Waiting(p, "dst")
    BY <1>3, <1>8, <2>1 DEF First
  <2> QED
    BY <1>2, <1>3, <1>8, <2>1, <2>2 DEF Waiting, Ahead
<1>9. HeldInv(p)'
  BY <1>5, <1>6 DEF HeldInv, ResultInv
<1>10. KeptInv(p)'
  <2> SUFFICES ASSUME NEW j \in Listed(p, "src") \cap Listed(p, "dst"),
                      Merged(j), ~Passed(p, j), j <= k, j # k
               PROVE  FALSE
    BY <1>4, <1>6, <1>7 DEF KeptInv
  <2>1. j # 0
    BY ListedNumbers DEF Side
  <2>2. j <= read[p]["dst"]
    BY <1>8
  <2> QED
    BY <1>2, <1>5, <2>1, <2>2 DEF KeptInv, ResultInv
<1>11. OutcomeInv(p)'
  BY <1>5, <1>7, KeepsOutcome DEF ResultInv
<1>12. \A j \in Listed(p, "dst") : Left(p, j)' <=> Left(p, j)
  <2> SUFFICES ASSUME NEW j \in Listed(p, "dst")
               PROVE  Left(p, j)' <=> Left(p, j)
    OBVIOUS
  <2>1. j \in Nat /\ j # 0
    BY ListedNumbers DEF Side
  <2>2. Left(p, j) <=> j <= read[p]["dst"]
    BY <1>2, <2>1 DEF Left
  <2>3. Left(p, j)' <=> (j <= k /\ j # k)
    BY <1>4 DEF Left
  <2> QED
    BY <1>2, <1>3, <1>8, <2>1, <2>2, <2>3
<1>13. ExtrasInv(p)'
  <2>1. \A j \in extras \cap Mine(p) : Merged(j) /\ j \in Listed(p, "dst") /\ Left(p, j)'
    BY <1>5, <1>12 DEF ExtrasInv, ResultInv
  <2>2. config.limit < 0 /\ On("deleteDst") =>
            \A j \in Listed(p, "dst") \ config.objects["src"] :
                Merged(j) /\ Left(p, j)' => j \in extras
    BY <1>5, <1>12 DEF ExtrasInv, ResultInv
  <2> QED
    BY <1>6, <2>1, <2>2 DEF ExtrasInv
<1>14. ClaimedInv(p)'
  BY <1>5, <1>6 DEF ClaimedInv, ResultInv
<1> QED
  BY <1>4, <1>9, <1>10, <1>11, <1>13, <1>14, OneResult DEF ResultInv, Returned

\* a step that only moves produce on, holding what it held
LEMMA MoveResult ==
  ASSUME TypeOK, MergeInv, ResultsInv, ReturnedInv, NEW p \in Producer,
         UNCHANGED <<config, obj, read, cursor, listing, outcome, claimed, extras>>,
         \A q \in Producer \ {p} : pc'[q] = pc[q],
         pc[p] \in Active, pc'[p] \notin Returned,
         pc'[p] \in Active =>
            /\ \A j \in Listed(p, "src") : Passed(p, j)' <=> Passed(p, j)
            /\ HeldInv(p)'
            /\ pc[p] # "settle" /\ pc'[p] # "settle"
            /\ pc[p] \in Holding => pc'[p] \in Holding
  PROVE  ResultsInv' /\ ReturnedInv'
<1>1. /\ Listed(p, "src")' = Listed(p, "src") /\ Listed(p, "dst")' = Listed(p, "dst")
      /\ Mine(p)' = Mine(p) /\ \A j : Merged(j)' = Merged(j)
      /\ \A f : On(f)' = On(f)
  BY ConfigSame DEF Side
<1>2. ResultInv(p)
  BY DEF ResultsInv
<1>3. ASSUME pc'[p] \in Active
      PROVE  ResultInv(p)'
  <2>1. \A j : Left(p, j)' <=> Left(p, j)
    BY <1>3 DEF Left
  <2>2. KeptInv(p)'
    BY <1>1, <1>2, <1>3 DEF KeptInv, ResultInv
  <2>3. OutcomeInv(p)'
    BY <1>2, <1>3, KeepsOutcome DEF ResultInv
  <2>4. ExtrasInv(p)'
    BY <1>1, <1>2, <2>1 DEF ExtrasInv, ResultInv
  <2>5. ClaimedInv(p)'
    BY <1>1, <1>2, <1>3 DEF ClaimedInv, ResultInv
  <2> QED
    BY <1>3, <2>2, <2>3, <2>4, <2>5 DEF ResultInv
<1> QED
  BY <1>3, OneResult

LEMMA AlignResult ==
  ASSUME TypeOK, MergeInv, ResultsInv, ReturnedInv, NEW p \in Producer, Align(p)
  PROVE  ResultsInv' /\ ReturnedInv'
<1>1. pc[p] = "align" /\ UNCHANGED <<config, obj, listing, outcome, claimed, extras>>
  BY DEF Align, histVars
<1>2. CASE Advance(p) /\ UNCHANGED pc
  BY <1>1, <1>2, AdvanceResult
<1>3. CASE ~(Advance(p) /\ UNCHANGED pc)
  <2>1. /\ UNCHANGED <<read, cursor>> /\ pc'[p] \in {"extra", "decide", "error"}
        /\ \A q \in Producer \ {p} : pc'[q] = pc[q]
    BY <1>3 DEF Align, Goto, TypeOK
  <2>2. obj[p] # 0 /\ ResultInv(p)
    BY <1>1 DEF MergeInv, ObjectInv, ResultsInv, Active, Loop
  <2>3. \A j : pc'[p] # "error" => (Passed(p, j)' <=> Passed(p, j))
    BY <1>1, <2>1 DEF Passed, Busy, Loop
  <2>4. HeldInv(p)'
    <3>1. /\ Listed(p, "src")' = Listed(p, "src") /\ \A j : Merged(j)' = Merged(j)
      BY <1>1, ConfigSame DEF Side
    <3> QED
      BY <1>1, <2>1, <2>2, <3>1 DEF HeldInv, ResultInv, Holding
  <2> QED
    BY <1>1, <2>1, <2>3, <2>4, MoveResult DEF Active, Loop, Returned, Holding
<1> QED
  BY <1>2, <1>3

\* the cursor of an extra object was on nothing the source has still to handle
LEMMA ExtraBehind ==
  ASSUME TypeOK, MergeInv, NEW p \in Producer, pc[p] \in {"extra", "taken", "settle"}
  PROVE  /\ cursor[p] # 0 /\ cursor[p] \in Listed(p, "dst")
         /\ cursor[p] \in Listed(p, "src") => Passed(p, cursor[p])
         /\ cursor[p] = read[p]["dst"]
<1>1. ObjectInv(p) /\ CursorInv(p)
  BY DEF MergeInv, Active, Loop
<1>2. /\ cursor[p] # 0 /\ cursor[p] \in Listed(p, "dst") /\ cursor[p] = read[p]["dst"]
      /\ obj[p] # 0 => cursor[p] < obj[p] /\ obj[p] = read[p]["src"]
      /\ obj[p] = 0 => \A k \in Listed(p, "src") : k <= read[p]["src"]
  BY <1>1 DEF CursorInv, ObjectInv, Busy, Loop
<1>3. cursor[p] \in Nat /\ obj[p] \in Nat /\ read[p]["src"] \in Nat
  BY HeldNumbers DEF Side
<1> QED
  BY <1>2, <1>3 DEF Passed

\* the extra object is let go of
LEMMA DropResult ==
  ASSUME TypeOK, MergeInv, ResultsInv, ReturnedInv, UnlimitedInv,
         NEW p \in Producer, ExtraKept(p) \/ (ExtraSettled(p) /\ limit # 0)
  PROVE  ResultsInv' /\ ReturnedInv'
<1>1. /\ pc[p] \in {"extra", "settle"}
      /\ UNCHANGED <<config, obj, read, listing, outcome, claimed, extras>>
      /\ cursor' = [cursor EXCEPT ![p] = 0] /\ Resume(p)
  BY DEF ExtraKept, ExtraSettled, histVars
<1>2. /\ cursor'[p] = 0 /\ pc'[p] = IF obj[p] # 0 THEN "align" ELSE "rest"
      /\ \A q \in Producer \ {p} : pc'[q] = pc[q] /\ cursor'[q] = cursor[q]
  BY <1>1 DEF TypeOK, Resume, Goto
<1>3. ResultInv(p)
  BY <1>1 DEF ResultsInv, Active, Loop
<1>4. /\ Listed(p, "src")' = Listed(p, "src") /\ Listed(p, "dst")' = Listed(p, "dst")
      /\ Mine(p)' = Mine(p) /\ \A j : Merged(j)' = Merged(j)
      /\ \A f : On(f)' = On(f)
  BY <1>1, ConfigSame DEF Side
<1>5. \A j \in Listed(p, "src") : Passed(p, j)' <=> Passed(p, j)
  <2>1. \A j \in Listed(p, "src") : j # 0
    BY ListedNumbers DEF Side
  <2> QED
    BY <1>1, <1>2, <2>1 DEF Passed, Busy, Loop
<1>6. HeldInv(p)'
  BY <1>1, <1>2, <1>3, <1>4 DEF HeldInv, ResultInv, Holding
<1>7. KeptInv(p)'
  <2>1. cursor[p] \in Listed(p, "src") => Passed(p, cursor[p])
    BY <1>1, ExtraBehind
  <2> QED
    BY <1>1, <1>3, <1>4, <1>5, <2>1 DEF KeptInv, ResultInv
<1>8. OutcomeInv(p)'
  BY <1>1, <1>3, <1>5, KeepsOutcome DEF ResultInv
<1>9. ExtrasInv(p)'
  <2>1. \A j \in Listed(p, "dst") : Left(p, j)' <=> j <= read[p]["dst"]
    <3>1. \A j \in Listed(p, "dst") : j # 0
      BY ListedNumbers DEF Side
    <3> QED
      BY <1>1, <1>2, <3>1 DEF Left
  <2>2. \A j \in extras \cap Mine(p) : Merged(j) /\ j \in Listed(p, "dst") /\ Left(p, j)'
    BY <1>3, <2>1 DEF ExtrasInv, ResultInv, Left
  <2>3. ASSUME config.limit < 0, On("deleteDst"),
               NEW j \in Listed(p, "dst") \ config.objects["src"],
               Merged(j), Left(p, j)'
        PROVE  j \in extras
    <3>1. j <= read[p]["dst"]
      BY <2>1, <2>3
    <3>2. j = cursor[p] => pc[p] = "settle"
      <4>1. SUFFICES ASSUME j = cursor[p], ExtraKept(p)
                     PROVE  FALSE
        BY DEF ExtraSettled
      <4>2. limit = 0
        BY <2>3, <4>1 DEF ExtraKept, Merged
      <4> QED
        BY <2>3, <4>2 DEF UnlimitedInv
    <3> QED
      BY <1>3, <2>3, <3>1, <3>2 DEF ExtrasInv, ResultInv, Left
  <2> QED
    BY <1>1, <1>4, <2>2, <2>3 DEF ExtrasInv
<1>10. ClaimedInv(p)'
  <2>1. \A k \in claimed \cap Mine(p) : k # 0
    BY KeyAssumption DEF TypeOK
  <2> QED
    BY <1>1, <1>2, <1>3, <1>4, <2>1 DEF ClaimedInv, ResultInv, Holding
<1> QED
  BY <1>1, <1>2, <1>6, <1>7, <1>8, <1>9, <1>10, OneResult DEF ResultInv, Returned

LEMMA ExtraCheckedResult ==
  ASSUME TypeOK, MergeInv, ResultsInv, ReturnedInv, NEW p \in Producer, ExtraChecked(p)
  PROVE  ResultsInv' /\ ReturnedInv'
<1>1. /\ pc[p] = "extra" /\ pc'[p] = "taken" /\ On("deleteDst")
      /\ UNCHANGED <<config, obj, read, cursor, listing, outcome, claimed, extras>>
      /\ \A q \in Producer \ {p} : pc'[q] = pc[q]
  BY DEF ExtraChecked, ExtraWanted, histVars, Goto, TypeOK
<1>2. ResultInv(p)
  BY <1>1 DEF ResultsInv, Active, Loop
<1>3. \A j : Passed(p, j)' <=> Passed(p, j)
  BY <1>1 DEF Passed, Busy, Loop
<1>4. HeldInv(p)'
  <2>1. /\ Listed(p, "src")' = Listed(p, "src") /\ \A j : Merged(j)' = Merged(j)
        /\ \A f : On(f)' = On(f)
    BY <1>1, ConfigSame DEF Side
  <2> QED
    BY <1>1, <1>2, <2>1 DEF HeldInv, ResultInv, Holding
<1> QED
  BY <1>1, <1>3, <1>4, MoveResult DEF Active, Loop, Returned, Holding

LEMMA ExtraTakenResult ==
  ASSUME TypeOK, MergeInv, ResultsInv, ReturnedInv, NEW p \in Producer, ExtraTaken(p)
  PROVE  ResultsInv' /\ ReturnedInv'
<1>1. /\ pc[p] = "taken" /\ pc'[p] = "settle" /\ extras' = extras \cup {cursor[p]}
      /\ UNCHANGED <<config, obj, read, cursor, listing, outcome, claimed>>
      /\ \A q \in Producer \ {p} : pc'[q] = pc[q]
  BY DEF ExtraTaken, Goto, TypeOK
<1>2. ResultInv(p) /\ Merged(cursor[p])
  BY <1>1 DEF ResultsInv, MergeInv, CursorInv, Active, Loop
<1>3. cursor[p] # 0 /\ cursor[p] \in Listed(p, "dst") /\ cursor[p] = read[p]["dst"]
  BY <1>1, ExtraBehind
<1>4. /\ Listed(p, "src")' = Listed(p, "src") /\ Listed(p, "dst")' = Listed(p, "dst")
      /\ Mine(p)' = Mine(p) /\ \A j : Merged(j)' = Merged(j)
      /\ \A f : On(f)' = On(f)
  BY <1>1, ConfigSame DEF Side
<1>5. \A j : Passed(p, j)' <=> Passed(p, j)
  BY <1>1 DEF Passed, Busy, Loop
<1>6. HeldInv(p)'
  BY <1>1, <1>2, <1>4 DEF HeldInv, ResultInv, Holding
<1>7. KeptInv(p)'
  BY <1>1, <1>2, <1>4, <1>5 DEF KeptInv, ResultInv
<1>8. OutcomeInv(p)'
  BY <1>1, <1>2, <1>5, KeepsOutcome DEF ResultInv
<1>9. ExtrasInv(p)'
  <2>1. \A j : Left(p, j)' <=> j <= read[p]["dst"]
    BY <1>1 DEF Left
  <2>2. cursor[p] \in Nat
    BY HeldNumbers
  <2>3. \A j \in extras' \cap Mine(p) : Merged(j) /\ j \in Listed(p, "dst") /\ Left(p, j)'
    BY <1>1, <1>2, <1>3, <2>1, <2>2 DEF ExtrasInv, ResultInv, Left
  <2>4. config.limit < 0 /\ On("deleteDst") =>
            \A j \in Listed(p, "dst") \ config.objects["src"] :
                Merged(j) /\ Left(p, j)' => j \in extras'
    BY <1>1, <1>2, <2>1 DEF ExtrasInv, ResultInv, Left
  <2> QED
    BY <1>1, <1>4, <2>3, <2>4 DEF ExtrasInv
<1>10. ClaimedInv(p)'
  BY <1>1, <1>2, <1>4 DEF ClaimedInv, ResultInv, Holding
<1>11. \A k \in Key \ Mine(p) : k \in extras' <=> k \in extras
  BY <1>1, <1>3, ListedNumbers DEF Side
<1> QED
  BY <1>1, <1>6, <1>7, <1>8, <1>9, <1>10, <1>11, OneResult DEF ResultInv, Returned

\* produce returns when an extra object used the limit up
LEMMA UsedUpResult ==
  ASSUME TypeOK, MergeInv, ResultsInv, ReturnedInv, UnlimitedInv,
         NEW p \in Producer, ExtraSettled(p), limit = 0
  PROVE  ResultsInv' /\ ReturnedInv'
<1>1. /\ pc[p] = "settle" /\ pc'[p] = "returned"
      /\ UNCHANGED <<config, obj, read, cursor, listing, outcome, claimed, extras>>
      /\ \A q \in Producer \ {p} : pc'[q] = pc[q]
  BY DEF ExtraSettled, Goto, TypeOK, histVars
<1>2. On("deleteDst") /\ On("deleteDst")' = On("deleteDst")
  BY <1>1, ConfigSame DEF ResultsInv, ResultInv, HeldInv, Active, Loop
<1>3. ~(config.limit < 0) /\ config.limit >= 0
  BY ConfigurationAssumption DEF UnlimitedInv, TypeOK
<1>4. RightInv(p)' /\ LostInv(p)'
  BY <1>1, <1>2, <1>3 DEF RightInv, LostInv
<1> QED
  BY <1>1, <1>4, OneResult DEF Active, Loop

LEMMA DecideResult ==
  ASSUME TypeOK, MergeInv, ResultsInv, ReturnedInv, NEW p \in Producer, Decide(p)
  PROVE  ResultsInv' /\ ReturnedInv'
<1>1. /\ pc[p] = "decide" /\ pc'[p] = "recv"
      /\ outcome' = [outcome EXCEPT ![obj[p]] = Decision(obj[p], cursor[p] = obj[p])]
      /\ cursor'[p] = IF cursor[p] = obj[p] THEN 0 ELSE cursor[p]
      /\ UNCHANGED <<config, obj, read, listing, claimed, extras>>
      /\ \A q \in Producer \ {p} : pc'[q] = pc[q] /\ cursor'[q] = cursor[q]
  BY DEF Decide, Goto, TypeOK
<1>2. /\ ResultInv(p) /\ obj[p] # 0 /\ ObjectInv(p) /\ CursorInv(p)
      /\ obj[p] = read[p]["src"]
  BY <1>1 DEF ResultsInv, MergeInv, ObjectInv, Busy, Active, Loop
<1>3. obj[p] \in Listed(p, "src") /\ Merged(obj[p])
  BY <1>2 DEF ResultInv, HeldInv
<1>4. /\ Listed(p, "src")' = Listed(p, "src") /\ Listed(p, "dst")' = Listed(p, "dst")
      /\ Mine(p)' = Mine(p) /\ \A j : Merged(j)' = Merged(j)
      /\ \A f : On(f)' = On(f)
      /\ \A k, d : Decision(k, d)' = Decision(k, d)
  BY <1>1, ConfigSame DEF Side
<1>5. obj[p] \in Key /\ obj[p] \in Mine(p) /\ obj[p] \in Nat
  BY <1>3, ListedNumbers DEF Side
<1>6. \A j : Passed(p, j)' <=> Passed(p, j) \/ j = obj[p]
  BY <1>1, <1>2, <1>5 DEF Passed, Busy, Loop
<1>7. ~Passed(p, obj[p])
  BY <1>1 DEF Passed, Busy, Loop
<1>8. (cursor[p] = obj[p]) <=> (obj[p] \in Listed(p, "dst"))
  <2>1. cursor[p] = obj[p] => obj[p] \in Listed(p, "dst")
    BY <1>2 DEF CursorInv
  <2>2. obj[p] \in Listed(p, "dst") => obj[p] <= read[p]["dst"]
    BY <1>1, <1>2, HeldNumbers DEF CursorInv
  <2> QED
    BY <1>2, <1>3, <1>7, <2>1, <2>2 DEF KeptInv, ResultInv
<1>9. /\ outcome'[obj[p]] = Decision(obj[p], obj[p] \in Listed(p, "dst"))
      /\ \A k \in Key \ {obj[p]} : outcome'[k] = outcome[k]
  <2>1. outcome'[obj[p]] = Decision(obj[p], cursor[p] = obj[p])
    BY <1>1, <1>5 DEF TypeOK
  <2>2. (cursor[p] = obj[p]) = (obj[p] \in Listed(p, "dst"))
    BY <1>8
  <2> QED
    BY <1>1, <2>1, <2>2 DEF TypeOK
<1>10. outcome'[obj[p]] # "none"
  <2>1. (obj[p] \in Listed(p, "dst")) \in BOOLEAN
    OBVIOUS
  <2>2. \A d \in BOOLEAN : Decision(obj[p], d) # "none"
    BY DecisionMade
  <2>3. Decision(obj[p], obj[p] \in Listed(p, "dst")) # "none"
    BY <2>1, <2>2, Zenon
  <2> QED
    BY <1>9, <2>3
<1>11. HeldInv(p)'
  BY <1>1, <1>2, <1>4 DEF HeldInv, ResultInv, Holding
<1>12. KeptInv(p)'
  BY <1>1, <1>2, <1>4, <1>6 DEF KeptInv, ResultInv
<1>13. OutcomeInv(p)'
  <2> SUFFICES ASSUME NEW k \in Listed(p, "src")
               PROVE  outcome'[k] = IF Merged(k) /\ (Passed(p, k) \/ k = obj[p])
                                    THEN Decision(k, k \in Listed(p, "dst")) ELSE "none"
    <3>1. \A k : Decision(k, k \in Listed(p, "dst"))' = Decision(k, k \in Listed(p, "dst"))
      BY <1>4
    <3> QED
      BY <1>4, <1>6, <3>1 DEF OutcomeInv
  <2>1. CASE k = obj[p]
    BY <1>3, <1>9, <2>1
  <2>2. CASE k # obj[p]
    <3>1. outcome'[k] = outcome[k]
      BY <1>9, <2>2, ListedNumbers DEF Side
    <3> QED
      BY <1>2, <2>2, <3>1 DEF OutcomeInv, ResultInv
  <2> QED
    BY <2>1, <2>2
<1>14. ExtrasInv(p)'
  <2>1. \A j \in Listed(p, "dst") : j # 0
    BY ListedNumbers DEF Side
  <2>2. \A j \in Listed(p, "dst") : Left(p, j) => Left(p, j)'
    BY <1>1, <2>1 DEF Left
  <2>3. \A j \in Listed(p, "dst") \ config.objects["src"] : Left(p, j)' => Left(p, j)
    BY <1>1, <1>3 DEF Left, Listed
  <2> QED
    BY <1>1, <1>2, <1>4, <2>2, <2>3 DEF ExtrasInv, ResultInv
<1>15. ClaimedInv(p)'
  <2>1. \A k \in claimed : k \in Key
    BY DEF TypeOK
  <2> QED
    BY <1>1, <1>2, <1>4, <1>9, <1>10, <2>1 DEF ClaimedInv, ResultInv
<1>16. \A k \in Key \ Mine(p) : outcome'[k] = outcome[k]
  BY <1>5, <1>9
<1> QED
  BY <1>1, <1>11, <1>12, <1>13, <1>14, <1>15, <1>16, OneResult DEF ResultInv, Returned

LEMMA RestResult ==
  ASSUME TypeOK, EndedInv, MergeInv, SourceKept, ResultsInv, ReturnedInv,
         NEW p \in Producer, Rest(p)
  PROVE  ResultsInv' /\ ReturnedInv'
<1>1. /\ pc[p] = "rest" /\ UNCHANGED <<config, obj, listing, outcome, claimed, extras>>
      /\ ObjectInv(p) /\ CursorInv(p) /\ ResultInv(p)
  BY DEF Rest, histVars, MergeInv, ResultsInv, Active, Loop
<1>2. obj[p] = 0
  BY <1>1 DEF ObjectInv
<1>3. CASE Advance(p) /\ UNCHANGED pc
  BY <1>1, <1>3, AdvanceResult
<1>4. CASE pc'[p] \in {"extra", "error"} /\ Rest(p) /\ ~(Advance(p) /\ UNCHANGED pc)
  <2>1. UNCHANGED <<read, cursor>> /\ \A q \in Producer \ {p} : pc'[q] = pc[q]
    BY <1>4 DEF Rest, Goto, TypeOK
  <2>2. \A j \in Listed(p, "src") : pc'[p] = "extra" => (Passed(p, j)' <=> Passed(p, j))
    <3>1. \A j \in Listed(p, "src") : j # 0
      BY ListedNumbers DEF Side
    <3> QED
      BY <1>1, <1>2, <2>1, <3>1 DEF Passed, Busy, Loop
  <2>3. HeldInv(p)'
    BY <1>1, <1>2, <1>4 DEF HeldInv, ResultInv, Holding
  <2> QED
    BY <1>1, <1>4, <2>1, <2>2, <2>3, MoveResult DEF Active, Loop, Returned, Holding
<1>5. CASE /\ UNCHANGED <<read, cursor>> /\ cursor[p] = 0
           /\ Drained(p, "dst", "ended") /\ Goto(p, "returned")
  <2>1. pc'[p] = "returned" /\ \A q \in Producer \ {p} : pc'[q] = pc[q]
    BY <1>5 DEF Goto, TypeOK
  <2>2. /\ Listed(p, "src")' = Listed(p, "src") /\ Listed(p, "dst")' = Listed(p, "dst")
        /\ Mine(p)' = Mine(p) /\ \A f : On(f)' = On(f)
        /\ \A k, d : Decision(k, d)' = Decision(k, d)
    BY <1>1, ConfigSame DEF Side
  <2>3. \A k \in Listed(p, "src") : Passed(p, k)
    BY <1>1, <1>2 DEF ObjectInv, Passed, Busy
  <2>4. \A k \in Listed(p, "src") :
            outcome[k] = IF k \in DirKey /\ ~On("dirs") THEN "none"
                         ELSE Decision(k, k \in Listed(p, "dst"))
    BY <1>1, <2>3 DEF OutcomeInv, ResultInv, Merged
  <2>5. \A k \in Listed(p, "src") :
            Decision(k, k \in Listed(p, "dst"))' = Decision(k, k \in Listed(p, "dst"))
    BY <2>2
  <2>6. \A k \in Listed(p, "dst") : Left(p, k)
    <3>1. \A k \in Listed(p, "dst") : k <= read[p]["dst"] /\ k # 0
      BY <1>5, DrainedPast, ListedNumbers DEF Side
    <3> QED
      BY <1>5, <3>1 DEF Left
  <2>7. config.limit < 0 /\ On("deleteDst") =>
            extras \cap Mine(p) =
                {k \in Listed(p, "dst") \ config.objects["src"] : On("dirs") \/ k \notin DirKey}
    <3>1. \A k \in extras \cap Mine(p) :
              k \in Listed(p, "dst") \ config.objects["src"] /\ Merged(k)
      BY <1>1 DEF ExtrasInv, ResultInv, SourceKept
    <3>2. config.limit < 0 /\ On("deleteDst") =>
              \A k \in Listed(p, "dst") \ config.objects["src"] :
                  Merged(k) => k \in extras \cap Mine(p)
      BY <1>1, <2>6, ListedNumbers DEF ExtrasInv, ResultInv, Side
    <3> QED
      BY <3>1, <3>2 DEF Merged
  <2>8. RightInv(p)'
    <3>1. listing[p]["src"] = "ended"
      BY <1>1 DEF ResultInv, HeldInv
    <3> QED
      BY <1>1, <2>2, <2>4, <2>5, <2>7, <3>1 DEF RightInv
  <2>9. LostInv(p)'
    BY <1>1, <2>2 DEF LostInv, ClaimedInv, ResultInv, Holding
  <2> QED
    BY <1>1, <1>5, <2>1, <2>8, <2>9, OneResult DEF Active, Loop
<1>6. \/ Advance(p) /\ UNCHANGED pc
      \/ pc'[p] \in {"extra", "error"}
      \/ /\ UNCHANGED <<read, cursor>> /\ cursor[p] = 0
         /\ Drained(p, "dst", "ended") /\ Goto(p, "returned")
  BY DEF Rest, Goto, TypeOK
<1> QED
  BY <1>3, <1>4, <1>5, <1>6

\* a producer that has returned closes its channel and ends
LEMMA CloseResult ==
  ASSUME TypeOK, ResultsInv, ReturnedInv,
         \/ Finish
         \/ \E p \in Producer : Close(p)
  PROVE  ResultsInv' /\ ReturnedInv'
<1>1. PICK p \in Producer :
          /\ pc[p] \in Returned /\ pc'[p] \in Returned
          /\ \A q \in Producer \ {p} : pc'[q] = pc[q]
          /\ UNCHANGED <<config, listing, obj, cursor, read, outcome, claimed, extras>>
  <2>1. CASE Finish
    <3>1. 0 \in Producer
      BY DEF Producer
    <3> QED
      BY <2>1, <3>1 DEF Finish, Goto, TypeOK, histVars, Returned
  <2>2. CASE \E p \in Producer : Close(p)
    BY <2>2 DEF Close, Goto, TypeOK, histVars, Returned
  <2> QED
    BY <2>1, <2>2
<1>2. RightInv(p) /\ LostInv(p)
  BY <1>1 DEF ReturnedInv
<1>3. /\ Listed(p, "src")' = Listed(p, "src") /\ Listed(p, "dst")' = Listed(p, "dst")
      /\ Mine(p)' = Mine(p) /\ \A f : On(f)' = On(f)
      /\ \A k : Decision(k, k \in Listed(p, "dst"))' = Decision(k, k \in Listed(p, "dst"))
  BY <1>1, ConfigSame DEF Side
<1>4. RightInv(p)' /\ LostInv(p)'
  BY <1>1, <1>2, <1>3 DEF RightInv, LostInv
<1> QED
  BY <1>1, <1>4, OneResult DEF Returned, Active, Loop

\* the listings go on, and start the producers of the child prefixes
LEMMA ListResult ==
  ASSUME TypeOK, ResultsInv, ReturnedInv, NEW p \in Producer,
         List(p) \/ \E s \in Side : ListingFails(p, s)
  PROVE  ResultsInv' /\ ReturnedInv'
<1>1. /\ UNCHANGED <<config, obj, cursor, read, outcome, claimed, extras>>
      /\ \/ UNCHANGED pc
         \/ \E e \in Producer : pc' = [pc EXCEPT ![e] = IF @ = "idle" /\ ~cpClosed
                                                        THEN "recv" ELSE @]
  BY DEF List, Send, ListingEnds, ListingFails, ListingBreaks, Producer, histVars
<1>2. \A q \in Producer : pc'[q] = pc[q] \/ (pc[q] = "idle" /\ pc'[q] = "recv")
  BY <1>1 DEF TypeOK
<1>3. \A q \in Producer : listing[q]["src"] = "ended" => listing'[q]["src"] = "ended"
  BY DEF List, Send, ListingEnds, ListingFails, ListingBreaks, TypeOK, Side
<1>4. ASSUME NEW q \in Producer, pc'[q] = pc[q]
      PROVE  /\ ResultInv(q) => ResultInv(q)'
             /\ RightInv(q) => RightInv(q)'
             /\ LostInv(q) => LostInv(q)'
  BY <1>1, <1>3, <1>4, OthersResults
<1>5. ASSUME NEW q \in Producer, pc[q] = "idle", pc'[q] = "recv"
      PROVE  ResultInv(q)'
  <2>1. /\ Listed(q, "src")' = Listed(q, "src") /\ Listed(q, "dst")' = Listed(q, "dst")
        /\ Mine(q)' = Mine(q) /\ \A j : Merged(j)' = Merged(j)
        /\ \A f : On(f)' = On(f)
    BY <1>1, ConfigSame DEF Side
  <2>2. ResultInv(q)
    BY <1>5 DEF ResultsInv, Active
  <2>3. \A j : (Passed(q, j)' <=> Passed(q, j)) /\ (Left(q, j)' <=> Left(q, j))
    BY <1>1, <1>5 DEF Passed, Busy, Loop, Left
  <2>4. HeldInv(q)'
    BY <1>1, <1>5, <2>1, <2>2 DEF HeldInv, ResultInv, Holding
  <2>5. KeptInv(q)'
    BY <1>1, <2>1, <2>2, <2>3 DEF KeptInv, ResultInv
  <2>6. OutcomeInv(q)'
    BY <1>1, <2>2, <2>3, KeepsOutcome DEF ResultInv
  <2>7. ExtrasInv(q)'
    BY <1>1, <2>1, <2>2, <2>3 DEF ExtrasInv, ResultInv
  <2>8. ClaimedInv(q)'
    BY <1>1, <1>5, <2>1, <2>2 DEF ClaimedInv, ResultInv, Holding
  <2> QED
    BY <2>4, <2>5, <2>6, <2>7, <2>8 DEF ResultInv
<1>6. ResultsInv'
  BY <1>2, <1>4, <1>5 DEF ResultsInv, Active, Loop
<1>7. ReturnedInv'
  BY <1>2, <1>4 DEF ReturnedInv, Returned
<1> QED
  BY <1>6, <1>7

LEMMA InitMore == Init => MoreInv
<1> SUFFICES ASSUME Init PROVE MoreInv
  OBVIOUS
<1>1. UnlimitedInv
  BY DEF Init, UnlimitedInv
<1>2. ReturnedInv
  BY DEF Init, ReturnedInv, Returned
<1>3. ASSUME NEW p \in Producer
      PROVE  ResultInv(p)
  <2>1. /\ pc[p] \in {"recv", "idle"} /\ obj[p] = 0 /\ cursor[p] = 0
        /\ read[p]["src"] = 0 /\ read[p]["dst"] = 0
        /\ claimed = {} /\ extras = {} /\ outcome = [k \in Key |-> "none"]
    BY <1>3 DEF Init, Side
  <2>2. \A s \in Side : \A k \in Listed(p, s) : k \in Key /\ ~(k <= 0)
    <3>1. \A s \in Side : Listed(p, s) \subseteq Key
      BY ListedKeys
    <3>2. \A k \in Key : ~(k <= 0)
      BY KeyAssumption
    <3> QED
      BY <3>1, <3>2
  <2>3. HeldInv(p) /\ ClaimedInv(p)
    BY <2>1 DEF HeldInv, ClaimedInv, Holding
  <2>4. KeptInv(p)
    BY <2>1, <2>2 DEF KeptInv, Side
  <2>5. OutcomeInv(p)
    BY <2>1, <2>2 DEF OutcomeInv, Passed, Side
  <2>6. ExtrasInv(p)
    BY <2>1, <2>2 DEF ExtrasInv, Left, Side
  <2> QED
    BY <2>3, <2>4, <2>5, <2>6 DEF ResultInv
<1> QED
  BY <1>1, <1>2, <1>3 DEF MoreInv, ResultsInv

\* no limit never becomes one
LEMMA NextUnlimited ==
  ASSUME TypeOK, UnlimitedInv, [Next]_vars
  PROVE  UnlimitedInv' /\ config' = config
<1>1. config' = config /\ limit' \in {limit, limit - 1}
  BY DEF Next, Over, Finish, List, Step, Send, ListingEnds, ListingFails, ListingBreaks,
         Receive, ReceiveEnd, Claim, Align, ExtraKept, ExtraChecked, ExtraTaken,
         ExtraSettled, Decide, Rest, Close, vars
<1>2. limit \in Int
  BY DEF TypeOK
<1> QED
  BY <1>1, <1>2 DEF UnlimitedInv

LEMMA NextMore == Inv /\ MoreInv /\ [Next]_vars => MoreInv'
<1> SUFFICES ASSUME Inv, MoreInv, [Next]_vars
             PROVE  MoreInv'
  OBVIOUS
<1>1. /\ TypeOK /\ EndedInv /\ MergeInv /\ SourceKept
      /\ UnlimitedInv /\ ResultsInv /\ ReturnedInv
  BY DEF Inv, MoreInv
<1>2. UnlimitedInv'
  BY <1>1, NextUnlimited
<1>3. ResultsInv' /\ ReturnedInv'
  <2>1. CASE UNCHANGED vars
    <3>1. \A q \in Producer : /\ ResultInv(q) => ResultInv(q)'
                              /\ RightInv(q) => RightInv(q)'
                              /\ LostInv(q) => LostInv(q)'
      BY <2>1, OthersResults DEF vars, histVars
    <3> QED
      BY <1>1, <2>1, <3>1 DEF vars, ResultsInv, ReturnedInv, Active, Loop, Returned
  <2>2. ASSUME NEW p \in Producer, Step(p)
        PROVE  ResultsInv' /\ ReturnedInv'
    <3>1. CASE ExtraSettled(p)
      <4>1. CASE limit = 0
        BY <1>1, <3>1, <4>1, UsedUpResult
      <4>2. CASE limit # 0
        BY <1>1, <3>1, <4>2, DropResult
      <4> QED
        BY <4>1, <4>2
    <3>2. CASE Close(p)
      BY <1>1, <3>2, CloseResult
    <3> QED
      BY <1>1, <2>2, <3>1, <3>2, ReceiveResult, ReceiveEndResult, ClaimResult, AlignResult,
         DropResult, ExtraCheckedResult, ExtraTakenResult, DecideResult, RestResult DEF Step
  <2>3. CASE Finish
    BY <1>1, <2>3, CloseResult
  <2> QED
    BY <1>1, <2>1, <2>2, <2>3, ListResult DEF Next, Over
<1> QED
  BY <1>2, <1>3 DEF MoreInv

LEMMA MoreTheorems == MoreInv => MergeRight /\ NoneLost
  BY DEF MoreInv, ReturnedInv, RightInv, LostInv, MergeRight, NoneLost, Returned

-----------------------------------------------------------------------------
(* The channel of child prefixes.                                          *)

ClosedInv ==
    /\ cpClosed => pc[0] \in {"children", "done"} /\ listing[0]["dst"] # "open"
    /\ NoneBelow => ~panicked

LEMMA InitClosed == Init => ClosedInv
  BY DEF Init, ClosedInv

LEMMA NextClosed ==
  ASSUME TypeOK, ReturnedInv, ClosedInv, [Next]_vars
  PROVE  ClosedInv'
<1>c. config' = config
  BY DEF Next, Over, Finish, List, Send, ListingEnds, ListingFails, ListingBreaks, Step, Receive,
         ReceiveEnd, Claim, Align, ExtraKept, ExtraChecked, ExtraTaken, ExtraSettled, Decide, Rest,
         Close, vars
<1>n. NoneBelow' <=> NoneBelow
  BY <1>c DEF NoneBelow, On
<1>1. 0 \in Producer
  BY DEF Producer
<1>2. CASE UNCHANGED vars
  BY <1>2, <1>n DEF vars, ClosedInv
<1>3. CASE Finish
  BY <1>1, <1>3, <1>n DEF Finish, Goto, ClosedInv, TypeOK
<1>4. ASSUME NEW p \in Producer, Step(p)
      PROVE  ClosedInv'
  <2>1. CASE Close(p)
    BY <1>1, <1>n, <2>1 DEF Close, Goto, ClosedInv, TypeOK
  <2>2. CASE ~Close(p)
    <3>1. /\ UNCHANGED <<cpClosed, panicked, listing>>
          /\ pc[p] \notin {"children", "done"}
          /\ \A q \in Producer \ {p} : pc'[q] = pc[q]
      BY <1>4, <2>2 DEF Step, Receive, ReceiveEnd, Claim, Align, ExtraKept, ExtraChecked,
         ExtraTaken, ExtraSettled, Decide, Rest, Goto, Resume, TypeOK
    <3> QED
      BY <1>1, <1>n, <3>1 DEF ClosedInv
  <2> QED
    BY <2>1, <2>2
<1>5. ASSUME NEW p \in Producer, NEW s \in Side, ListingEnds(p, s) \/ ListingFails(p, s)
      PROVE  ClosedInv'
  <2>1. /\ UNCHANGED <<pc, cpClosed, panicked>>
        /\ \A q \in Producer, t \in Side : listing'[q][t] = "open" => listing[q][t] = "open"
    <3>1. PICK l \in {"ended", "failed"} : listing' = [listing EXCEPT ![p][s] = l]
      BY <1>5 DEF ListingEnds, ListingFails, ListingBreaks
    <3>2. listing \in [Producer -> [Side -> {"open", "ended", "failed"}]]
      BY DEF TypeOK
    <3>3. \A q \in Producer, t \in Side : listing'[q][t] \in {listing[q][t], l}
      BY <3>1, <3>2
    <3>4. UNCHANGED <<pc, cpClosed, panicked>>
      BY <1>5 DEF ListingEnds, ListingFails, ListingBreaks
    <3> QED
      BY <3>3, <3>4
  <2> QED
    BY <1>1, <1>n, <2>1 DEF ClosedInv, Side
<1>6. ASSUME NEW p \in Producer, NEW s \in Side, Send(p, s)
      PROVE  ClosedInv'
  <2>1. PICK e \in Entries(p, s) :
            \/ /\ e \in Child /\ panicked' = (panicked \/ cpClosed)
               /\ pc' = [pc EXCEPT ![e] = IF @ = "idle" /\ ~cpClosed THEN "recv" ELSE @]
            \/ UNCHANGED <<pc, panicked>>
    BY <1>6 DEF Send, First, Ahead
  <2>2. UNCHANGED <<cpClosed, listing, config>> /\ listing[p][s] = "open"
    BY <1>6 DEF Send
  <2>3. e \in Child => e \in Below(p, s)
    <3>1. Listed(p, s) \cap Child = {}
      BY ListedKeys, KeyAssumption
    <3> QED
      BY <3>1 DEF Entries
  <2>4. NoneBelow /\ e \in Child => ~cpClosed
    <3>1. SUFFICES ASSUME NoneBelow, e \in Child, cpClosed
                   PROVE  FALSE
      OBVIOUS
    <3>2. /\ p = 0 /\ On("deep")
          /\ \E k \in config.objects[s] : OwnerOf[k] = e
      BY <2>3, <3>1 DEF Below
    <3>3. s = "src" /\ pc[0] \in Returned /\ listing[0]["src"] = "open"
      BY <2>2, <3>1, <3>2 DEF ClosedInv, Side, Returned
    <3>4. ~(config.limit < 0)
      <4>1. RightInv(0)
        BY <1>1, <3>3 DEF ReturnedInv
      <4> QED
        BY <3>3, <4>1 DEF RightInv
    <3>5. config \in Configuration /\ config.limit >= 0
      BY <3>4, ConfigurationAssumption DEF TypeOK
    <3>6. \A k \in config.objects["src"] : OwnerOf[k] \notin Child
      BY <3>1, <3>2, <3>5 DEF NoneBelow, On
    <3> QED
      BY <3>1, <3>2, <3>3, <3>6
  <2>5. NoneBelow' => ~panicked'
    BY <1>n, <2>1, <2>4 DEF ClosedInv
  <2>6. pc'[0] = pc[0] \/ pc[0] = "idle"
    BY <1>1, <2>1 DEF TypeOK
  <2> QED
    BY <2>2, <2>5, <2>6 DEF ClosedInv
<1> QED
  BY <1>2, <1>3, <1>4, <1>5, <1>6 DEF Next, Over, List

-----------------------------------------------------------------------------
(* The limit.                                                              *)

Limited == config.limit >= 0 /\ OneCounts

LimitInv ==
    /\ IsFiniteSet(claimed) /\ IsFiniteSet(extras)
    /\ Limited =>
           /\ limit >= 0
           /\ Cardinality(claimed) + Cardinality(extras) + limit = config.limit
           /\ \A p \in Producer : pc[p] = "taken" => limit >= 1

LEMMA LimitedSame ==
  ASSUME config' = config
  PROVE  Limited' <=> Limited
  BY DEF Limited, OneCounts, On

\* nobody else counts while an extra object is about to be
LEMMA OneTakes ==
  ASSUME Limited, TypeOK, MergeInv, ResultsInv,
         NEW p \in Producer, NEW q \in Producer,
         pc[q] = "taken", pc[p] \in {"claim", "taken"}
  PROVE  p = q
<1>1. /\ ObjectInv(p) /\ CursorInv(p) /\ ResultInv(p)
      /\ CursorInv(q) /\ ResultInv(q)
  BY DEF MergeInv, ResultsInv, Active, Loop
<1>2. PICK s \in Side : \E j \in Listed(p, s) : Merged(j)
  <2>1. CASE pc[p] = "claim"
    BY <1>1, <2>1 DEF ObjectInv, ResultInv, HeldInv, Side
  <2>2. CASE pc[p] = "taken"
    BY <1>1, <2>2 DEF CursorInv, Side
  <2> QED
    BY <2>1, <2>2
<1>3. PICK k \in Listed(p, s) : Merged(k)
  BY <1>2
<1>4. /\ cursor[q] \in Listed(q, "dst") /\ Merged(cursor[q]) /\ On("deleteDst")
  BY <1>1 DEF CursorInv, ResultInv, HeldInv
<1>5. CASE On("deep")
  <2>1. PICK r \in Producer : \A t \in Side : \A j \in config.objects[t] :
            Merged(j) => OwnerOf[j] = r
    BY <1>4, <1>5 DEF Limited, OneCounts, On, Merged
  <2>2. OwnerOf[k] = p /\ k \in config.objects[s]
    BY <1>3, <1>5 DEF Listed, Mine
  <2>3. OwnerOf[cursor[q]] = q /\ cursor[q] \in config.objects["dst"]
    BY <1>4, <1>5 DEF Listed, Mine
  <2> QED
    BY <1>3, <1>4, <2>1, <2>2, <2>3 DEF Side
<1>6. CASE ~On("deep")
  BY <1>3, <1>4, <1>6 DEF Listed, Mine
<1> QED
  BY <1>5, <1>6

LEMMA InitLimit == Init => LimitInv
<1> SUFFICES ASSUME Init PROVE LimitInv
  OBVIOUS
<1>1. claimed = {} /\ extras = {} /\ limit = config.limit
  BY DEF Init
<1>2. IsFiniteSet({}) /\ Cardinality({}) = 0
  BY FS_EmptySet
<1>3. \A p \in Producer : pc[p] # "taken"
  BY DEF Init
<1>4. Limited => config.limit \in Int
  BY ConfigurationAssumption DEF Init, Limited
<1> QED
  BY <1>1, <1>2, <1>3, <1>4 DEF LimitInv, Limited

\* a step that counts nothing
LEMMA NothingCounted ==
  ASSUME LimitInv, UNCHANGED <<config, limit, claimed, extras>>,
         Limited => \A p \in Producer : pc'[p] = "taken" => pc[p] = "taken" \/ limit >= 1
  PROVE  LimitInv'
  BY LimitedSame DEF LimitInv

\* the source object is counted, once
LEMMA ClaimLimit ==
  ASSUME Inv, MoreInv, LimitInv, NEW p \in Producer, Claim(p)
  PROVE  LimitInv'
<1>1. TypeOK /\ MergeInv /\ ResultsInv
  BY DEF Inv, MoreInv
<1>2. pc[p] = "claim" /\ UNCHANGED <<config, extras, outcome>>
  BY DEF Claim
<1>3. CASE limit <= 0
  <2>1. UNCHANGED <<limit, claimed>> /\ pc' = [pc EXCEPT ![p] = "returned"]
    BY <1>3 DEF Claim, Goto
  <2> QED
    BY <1>1, <1>2, <2>1, NothingCounted DEF TypeOK
<1>4. CASE ~(limit <= 0)
  <2>1. /\ limit' = limit - 1 /\ claimed' = claimed \cup {obj[p]}
        /\ pc' = [pc EXCEPT ![p] = "align"]
    BY <1>4 DEF Claim, Goto
  <2>2. obj[p] \in Listed(p, "src") /\ ResultInv(p)
    BY <1>1, <1>2 DEF MergeInv, ObjectInv, ResultsInv, ResultInv, HeldInv, Active, Loop
  <2>3. obj[p] \notin claimed
    <3>1. ~Passed(p, obj[p])
      BY <1>2 DEF Passed, Busy, Loop
    <3>2. outcome[obj[p]] = "none"
      BY <2>2, <3>1 DEF ResultInv, OutcomeInv
    <3>3. obj[p] \in Mine(p)
      BY <2>2 DEF Listed
    <3> QED
      BY <1>2, <2>2, <3>2, <3>3 DEF ResultInv, ClaimedInv, Holding
  <2>4. /\ IsFiniteSet(claimed) /\ IsFiniteSet(extras) /\ limit \in Int
        /\ Cardinality(claimed) \in Nat /\ Cardinality(extras) \in Nat
    BY <1>1, FS_CardinalityType DEF LimitInv, TypeOK
  <2>5. IsFiniteSet(claimed') /\ Cardinality(claimed') = Cardinality(claimed) + 1
    BY <2>1, <2>3, <2>4, FS_AddElement
  <2>6. \A q \in Producer : Limited => pc'[q] # "taken"
    <3>1. \A q \in Producer : Limited /\ pc[q] = "taken" => q = p
      BY <1>1, <1>2, OneTakes
    <3> QED
      BY <1>1, <1>2, <2>1, <3>1 DEF TypeOK
  <2>7. config.limit \in Int
    BY <1>1, ConfigurationAssumption DEF TypeOK
  <2>8. Limited =>
            Cardinality(claimed') + Cardinality(extras) + (limit - 1) = config.limit
    <3>1. Limited =>
              Cardinality(claimed) + Cardinality(extras) + limit = config.limit
      BY DEF LimitInv
    <3>2. Cardinality(claimed') = Cardinality(claimed) + 1
      BY <2>5
    <3> QED
      BY <2>4, <2>7, <3>1, <3>2
  <2>9. limit - 1 >= 0
    BY <1>4, <2>4
  <2> QED
    BY <1>2, <2>1, <2>4, <2>5, <2>6, <2>8, <2>9, LimitedSame DEF LimitInv
<1> QED
  BY <1>3, <1>4

\* so is the extra one
LEMMA TakenLimit ==
  ASSUME Inv, MoreInv, LimitInv, NEW p \in Producer, ExtraTaken(p)
  PROVE  LimitInv'
<1>1. TypeOK /\ MergeInv /\ ResultsInv
  BY DEF Inv, MoreInv
<1>2. /\ pc[p] = "taken" /\ UNCHANGED <<config, claimed>>
      /\ limit' = limit - 1 /\ extras' = extras \cup {cursor[p]}
      /\ pc' = [pc EXCEPT ![p] = "settle"]
  BY DEF ExtraTaken, Goto
<1>3. cursor[p] \notin extras
  <2>1. cursor[p] \in Listed(p, "dst") /\ ResultInv(p)
    BY <1>1, <1>2 DEF MergeInv, CursorInv, ResultsInv, Active, Loop
  <2>2. cursor[p] \in Mine(p) /\ ~Left(p, cursor[p])
    BY <1>2, <2>1 DEF Listed, Left
  <2> QED
    BY <2>1, <2>2 DEF ResultInv, ExtrasInv
<1>4. /\ IsFiniteSet(claimed) /\ IsFiniteSet(extras) /\ limit \in Int
      /\ Cardinality(claimed) \in Nat /\ Cardinality(extras) \in Nat
  BY <1>1, FS_CardinalityType DEF LimitInv, TypeOK
<1>5. IsFiniteSet(extras') /\ Cardinality(extras') = Cardinality(extras) + 1
  BY <1>2, <1>3, <1>4, FS_AddElement
<1>6. \A q \in Producer : Limited => pc'[q] # "taken"
  <2>1. \A q \in Producer : Limited /\ pc[q] = "taken" => q = p
    BY <1>1, <1>2, OneTakes
  <2> QED
    BY <1>1, <1>2, <2>1 DEF TypeOK
<1>7. config.limit \in Int
  BY <1>1, ConfigurationAssumption DEF TypeOK
<1>8. Limited =>
          /\ limit - 1 >= 0
          /\ Cardinality(claimed) + Cardinality(extras') + (limit - 1) = config.limit
  BY <1>2, <1>4, <1>5, <1>7 DEF LimitInv
<1> QED
  BY <1>2, <1>4, <1>5, <1>6, <1>8, LimitedSame DEF LimitInv

LEMMA NextLimit == Inv /\ MoreInv /\ LimitInv /\ [Next]_vars => LimitInv'
<1> SUFFICES ASSUME Inv, MoreInv, LimitInv, [Next]_vars
             PROVE  LimitInv'
  OBVIOUS
<1>1. TypeOK /\ UnlimitedInv /\ limit \in Int
  BY DEF Inv, MoreInv, TypeOK
<1>2. CASE UNCHANGED vars
  BY <1>2, NothingCounted DEF vars, histVars
<1>3. CASE Finish
  BY <1>1, <1>3, NothingCounted DEF Finish, Goto, histVars, TypeOK
<1>4. ASSUME NEW p \in Producer, List(p) \/ \E s \in Side : ListingFails(p, s)
      PROVE  LimitInv'
  <2>1. /\ UNCHANGED <<config, limit, claimed, extras>>
        /\ \/ UNCHANGED pc
           \/ \E e \in Producer : pc' = [pc EXCEPT ![e] = IF @ = "idle" /\ ~cpClosed
                                                          THEN "recv" ELSE @]
    BY <1>4 DEF List, Send, ListingEnds, ListingFails, ListingBreaks, Producer, histVars
  <2>2. \A q \in Producer : pc'[q] = "taken" => pc[q] = "taken"
    BY <1>1, <2>1 DEF TypeOK
  <2> QED
    BY <2>1, <2>2, NothingCounted
<1>5. ASSUME NEW p \in Producer, Receive(p)
      PROVE  LimitInv'
  <2>1. /\ UNCHANGED <<config, limit, extras>>
        /\ limit >= 0 => UNCHANGED claimed
        /\ \E k : claimed' \in {claimed, claimed \cup {k}}
        /\ \A q \in Producer : pc'[q] = "taken" => pc[q] = "taken"
    BY <1>1, <1>5 DEF Receive, Goto, TypeOK
  <2>2. CASE Limited
    BY <2>1, <2>2, NothingCounted DEF LimitInv
  <2>3. CASE ~Limited
    <3>1. IsFiniteSet(claimed')
      BY <2>1, FS_AddElement DEF LimitInv
    <3> QED
      BY <2>1, <2>3, <3>1, LimitedSame DEF LimitInv
  <2> QED
    BY <2>2, <2>3
<1>6. ASSUME NEW p \in Producer, ExtraChecked(p)
      PROVE  LimitInv'
  <2>1. /\ UNCHANGED <<config, limit, claimed, extras>> /\ limit # 0
        /\ \A q \in Producer : pc'[q] = "taken" => pc[q] = "taken" \/ q = p
    BY <1>1, <1>6 DEF ExtraChecked, ExtraWanted, Goto, histVars, TypeOK
  <2>2. Limited => limit >= 1
    BY <1>1, <2>1 DEF LimitInv
  <2> QED
    BY <2>1, <2>2, NothingCounted
<1>7. ASSUME NEW p \in Producer,
             \/ ReceiveEnd(p) \/ Align(p) \/ ExtraKept(p) \/ ExtraSettled(p)
             \/ Decide(p) \/ Rest(p) \/ Close(p)
      PROVE  LimitInv'
  <2>1. UNCHANGED <<config, limit, claimed, extras>>
    BY <1>7 DEF ReceiveEnd, Align, ExtraKept, ExtraSettled, Decide, Rest, Close, histVars
  <2>2. \A q \in Producer : pc'[q] = "taken" => pc[q] = "taken"
    BY <1>1, <1>7 DEF ReceiveEnd, Align, ExtraKept, ExtraSettled, Decide, Rest, Close,
       Goto, Resume, TypeOK
  <2> QED
    BY <2>1, <2>2, NothingCounted
<1> QED
  BY <1>2, <1>3, <1>4, <1>5, <1>6, <1>7, ClaimLimit, TakenLimit DEF Next, Over, Step

LEMMA LimitTheorem == TypeOK /\ LimitInv => LimitKept
<1> SUFFICES ASSUME TypeOK, LimitInv, Limited
             PROVE  Cardinality(claimed) + Cardinality(extras) <= config.limit
  BY DEF LimitKept, WithinLimit, Limited
<1>1. Cardinality(claimed) \in Nat /\ Cardinality(extras) \in Nat /\ limit \in Int
  BY FS_CardinalityType DEF LimitInv, TypeOK
<1> QED
  BY <1>1 DEF LimitInv

-----------------------------------------------------------------------------
\* Every variable of the producers keeps its type, whatever the keys, prefixes and
\* command line are.
THEOREM TypeCorrect == Spec => []TypeOK
<1>1. Inv => TypeOK
  BY DEF Inv
<1> QED
  BY <1>1, InitInv, NextInv, PTL DEF Spec

\* However the listing goroutines, the producers of the prefixes and the failures of
\* listAll interleave, and whatever the limit does, an object the source holds is
\* never queued for deletion as extra.  (CutSpec is what the theorem leaves out.)
THEOREM NoSourceObjectExtra == Spec => []SourceKept
<1>1. Inv => SourceKept
  BY DEF Inv
<1> QED
  BY <1>1, InitInv, NextInv, PTL DEF Spec

\* Whatever order the two listings come in and however the producers interleave,
\* without a limit a producer that returns has decided each of its source objects by
\* what the destination holds under its key, and deleted the extra objects, no other.
THEOREM EveryKeyDecided == Spec => []MergeRight
<1> QED
  BY InitInv, NextInv, InitMore, NextMore, MoreTheorems, PTL DEF Spec

\* An object that was counted is decided before its producer returns, but for a limit
\* that is used up on extra objects.
THEOREM NoneIsLost == Spec => []NoneLost
<1> QED
  BY InitInv, NextInv, InitMore, NextMore, MoreTheorems, PTL DEF Spec

\* The channel of child prefixes is closed when no listing sends on it any more, unless the
\* command line has a limit and the source child prefixes: produce returns before the end
\* of the source only when the limit has run out.
THEOREM NoSendAfterClose == Spec => []NoSendOnClosed
<1>1. Inv /\ MoreInv => TypeOK /\ ReturnedInv
  BY DEF Inv, MoreInv
<1>2. Inv /\ MoreInv /\ ClosedInv /\ [Next]_vars => ClosedInv'
  BY <1>1, NextClosed
<1>3. ClosedInv => NoSendOnClosed
  BY DEF ClosedInv, NoSendOnClosed
<1> QED
  BY <1>2, <1>3, InitInv, NextInv, InitMore, NextMore, InitClosed, PTL DEF Spec

\* No more objects are copied and deleted than --limit allows, by any number of producers
\* without --delete-dst, and with it if no two of them have objects to count.
THEOREM LimitObserved == Spec => []LimitKept
<1>1. Inv /\ MoreInv /\ LimitInv /\ [Next]_vars => LimitInv'
  BY NextLimit
<1>2. Inv /\ LimitInv => LimitKept
  BY LimitTheorem DEF Inv
<1> QED
  BY <1>1, <1>2, InitInv, NextInv, InitMore, NextMore, InitLimit, PTL DEF Spec
=============================================================================
