---------------------------- MODULE ObjectsProofs ----------------------------
(***************************************************************************)
(* Proofs about the calls of MCObjects, for any sizes, bounds and calls:   *)
(* which keys a listing or the walk of a tree sends, what readers see of   *)
(* an object while it is put or deleted, what a read returns, and what is  *)
(* made of the parts of an upload, through failures, retries and crashes.  *)
(***************************************************************************)
EXTENDS MCObjects, SequenceTheorems, FiniteSetTheorems, WellFoundedInduction, TLAPS

-----------------------------------------------------------------------------
(* The size of a part.                                                     *)

LEMMA Division ==
  /\ \A a \in Nat, b \in Nat \ {0} :
         /\ a \div b \in Nat /\ a % b \in 0 .. (b - 1)
         /\ b * (a \div b) <= a /\ a < b * (a \div b) + b /\ a = b * (a \div b) + (a % b)
  /\ \A a \in Nat, b \in Nat \ {0}, c \in Nat : a < c * b => a \div b < c
  BY SMT

LEMMA Products ==
  /\ \A a, b \in Nat : a * b \in Nat /\ a * b = b * a
  /\ \A a, b, c \in Nat : a <= b => a * c <= b * c
  /\ \A a, b \in Nat, c \in Nat \ {0} : a * c <= b * c => a <= b
  /\ \A a \in Nat, b \in Nat \ {0} : (a * b) % b = 0
  BY SMT

LEMMA Sizes0 ==
  /\ MinPart \in Nat \ {0} /\ MaxPart \in Nat \ {0} /\ MaxCount \in Nat \ {0}
  /\ Align \in Nat \ {0} /\ PartAttempts \in Nat \ {0} /\ FewerCount \in Nat \ {0}
  /\ MinPart <= MaxPart /\ MinPart % Align = 0 /\ MaxPart % Align = 0
  /\ MaxCount <= MinPart + 1
  BY PartsAssumption

\* A number rounded up to whole units.
LEMMA RoundUp ==
  ASSUME NEW q \in Nat \ {0}, NEW a \in Nat \ {0}
  PROVE  LET r == ((q - 1) \div a + 1) * a IN
         /\ r \in Nat \ {0} /\ q <= r /\ r % a = 0
         /\ q % a # 0 => q + 1 <= r
         /\ \A m \in Nat : m % a = 0 /\ q <= m => r <= m
<1> DEFINE k == (q - 1) \div a
           r == (k + 1) * a
<1>0. q - 1 \in Nat
  OBVIOUS
<1>1. /\ k \in Nat /\ a * k <= q - 1 /\ q - 1 < a * k + a
  BY <1>0, Division
<1>2. r \in Nat /\ r = a * k + a
  BY <1>1, SMT
<1>3. r % a = 0
  <2>1. k + 1 \in Nat
    BY <1>1
  <2> HIDE DEF k
  <2> QED
    BY <2>1, Products
<1>4. q % a # 0 => q + 1 <= r
  BY <1>1, <1>2, <1>3
<1>5. ASSUME NEW m \in Nat, m % a = 0, q <= m
      PROVE  r <= m
  <2>1. m = a * (m \div a) /\ m \div a \in Nat
    BY <1>5, Division
  <2>2. q - 1 < (m \div a) * a
    BY <1>5, <2>1, Products
  <2>3. k < m \div a
    BY <1>0, <2>1, <2>2, Division
  <2> DEFINE n == m \div a
  <2>4. k + 1 <= n /\ n \in Nat /\ m = a * n
    BY <1>1, <2>1, <2>3
  <2> HIDE DEF n, k
  <2>5. (k + 1) * a <= n * a
    BY <1>1, <2>4, Products
  <2> QED
    BY <1>1, <2>4, <2>5, Products
<1> QED
  BY <1>1, <1>2, <1>3, <1>4, <1>5

\* The parts are as many and as large as the service takes, and end where an
\* encrypted chunk ends; one too many if the size of a part is a whole number of
\* units before it is rounded up.
THEOREM PartsFit ==
  ASSUME NEW size \in Nat \ {0}
  PROVE  /\ PartSize(size) \in Nat \ {0} /\ MinPart <= PartSize(size)
         /\ PartSize(size) % Align = 0
         /\ size <= MaxPart * MaxCount => PartSize(size) <= MaxPart
         /\ Count(size) \in 1 .. (MaxCount + 1)
         /\ Count(size) <= MaxCount \/ (size \div MaxCount) % Align = 0
         /\ LastSize(size) \in 1 .. PartSize(size)
<1> DEFINE ps == PartSize(size)
           q == size \div MaxCount
<1>1. /\ q \in Nat /\ MaxCount * q <= size /\ size < MaxCount * q + MaxCount
  BY Division, Sizes0
<1>2. /\ ps \in Nat \ {0} /\ MinPart <= ps /\ ps % Align = 0
      /\ size <= MaxPart * MaxCount => ps <= MaxPart
      /\ size - 1 < (MaxCount + 1) * ps
      /\ size - 1 < MaxCount * ps \/ q % Align = 0
  <2>1. CASE size > MinPart * MaxCount
    <3>1. MinPart <= q
      <4>1. MinPart * MaxCount < (q + 1) * MaxCount
        BY <1>1, <2>1, Sizes0
      <4> QED
        BY <1>1, <4>1, Sizes0
    <3>2. ps = ((q - 1) \div Align + 1) * Align
      BY <2>1 DEF PartSize
    <3>3. /\ ps \in Nat \ {0} /\ q <= ps /\ ps % Align = 0
          /\ q % Align # 0 => q + 1 <= ps
          /\ \A m \in Nat : m % Align = 0 /\ q <= m => ps <= m
      <4>1. q \in Nat \ {0}
        BY <1>1, <3>1, Sizes0
      <4> HIDE DEF q, ps
      <4> QED
        BY <3>2, <4>1, RoundUp, Sizes0
    <3> HIDE DEF q, ps
    <3>4. size <= MaxPart * MaxCount => ps <= MaxPart
      <4>1. size <= MaxPart * MaxCount => q <= MaxPart
        BY <1>1, Sizes0
      <4> QED
        BY <3>3, <4>1, Sizes0
    <3>5. size - 1 < (MaxCount + 1) * ps
      <4>1. size <= MaxCount * q + q
        BY <1>1, <3>1, Sizes0
      <4>2. (MaxCount + 1) * q <= (MaxCount + 1) * ps
        BY <1>1, <3>3, Sizes0
      <4> QED
        BY <1>1, <3>3, <4>1, <4>2, Sizes0
    <3>6. size - 1 < MaxCount * ps \/ q % Align = 0
      <4>1. q % Align # 0 => MaxCount * (q + 1) <= MaxCount * ps
        BY <1>1, <3>3, Sizes0
      <4> QED
        BY <1>1, <3>3, <4>1, Sizes0
    <3> QED
      BY <1>1, <3>1, <3>3, <3>4, <3>5, <3>6, Sizes0
  <2>2. CASE ~(size > MinPart * MaxCount)
    <3>1. ps = MinPart
      BY <2>2 DEF PartSize
    <3> HIDE DEF q, ps
    <3> QED
      BY <2>2, <3>1, Sizes0
  <2> QED
    BY <2>1, <2>2
<1> HIDE DEF q, ps
<1>3. /\ (size - 1) \div ps \in Nat /\ (size - 1) \div ps < MaxCount + 1
      /\ (size - 1) \div ps < MaxCount \/ q % Align = 0
  <2>1. size - 1 \in Nat /\ MaxCount + 1 \in Nat /\ MaxCount \in Nat
    BY Sizes0
  <2> QED
    BY <1>2, <2>1, Division
<1>4. Count(size) = (size - 1) \div ps + 1
  BY DEF Count, ps
<1>5. LastSize(size) = size - (Count(size) - 1) * ps
  BY DEF LastSize, ps
<1>6. LastSize(size) \in 1 .. ps
  <2>1. size - 1 \in Nat
    OBVIOUS
  <2> DEFINE c == (size - 1) \div ps
  <2>2. ps * c <= size - 1 /\ size - 1 < ps * c + ps /\ c \in Nat
    BY <1>2, <2>1, Division
  <2>3. LastSize(size) = size - c * ps
    BY <1>2, <1>4, <1>5, <2>2
  <2> HIDE DEF c
  <2>4. c * ps = ps * c /\ ps * c \in Nat
    BY <1>2, <2>2, Products
  <2> QED
    BY <1>2, <2>2, <2>3, <2>4
<1>7. Count(size) \in 1 .. (MaxCount + 1) /\ (Count(size) <= MaxCount \/ q % Align = 0)
  BY <1>3, <1>4, Sizes0
<1> QED
  BY <1>2, <1>6, <1>7 DEF ps, q

-----------------------------------------------------------------------------
(* What holds of an upload besides its type.                               *)

Sending == {"part", "tcreate", "tparts", "tcomplete", "tcopy", "tdelete", "tdrop", "tabort",
            "complete", "abort"}
\* a part is put together as an object of its own
Copying == {"tcreate", "tparts", "tcomplete", "tcopy"}

\* a part that is placed or remembered under a number is the one the upload has there
PartsInv ==
    ~Misnumbered =>
        \A n \in Number : \A p \in {placed[n], saved.parts[n]} :
            p = NoPart \/ (p = [num |-> n, range |-> n] /\ stored[n] = n)

TargetInv ==
    /\ target # <<>> /\ ~Misnumbered => target = [i \in Parts |-> i]
    /\ upc = "ok" => target # <<>> /\ ~open

\* where the calls stand: what they have made and what is left to do
StandInv ==
    /\ upc # "idle"
    /\ upc = "complete" => Placed = Parts
    /\ upc \in Copying => Placed # Parts
    /\ upc \in Sending /\ ucall.checkpoint => saved.known
    /\ upc \in Sending \/ saved.known => ~TooLarge
    /\ tmp # "absent" => upc \in {"tparts", "tcomplete", "tcopy", "tdelete", "tdrop", "tabort"}

\* what is left behind, or fails, has a reason
ReasonInv ==
    /\ stray => ufaults > 0 \/ ucrashes > 0
    /\ upc = "failed" /\ open => saved.known \/ ufaults > 0 \/ TooLarge
    /\ ufaults = 0 =>
           /\ upc \in {"tparts", "tcomplete"} => tmp = "open"
           /\ upc # "tabort"
           /\ upc \in Sending \/ saved.known => open
           /\ ~TooMany /\ ~Misnumbered =>
                  upc \notin {"tdrop", "abort"} /\ (upc = "failed" => TooLarge)

UploadInv ==
    /\ UploadTypeOK
    /\ IF ucall = <<>> THEN upc = "idle" ELSE PartsInv /\ TargetInv /\ StandInv /\ ReasonInv

-----------------------------------------------------------------------------
(* What holds of a Put or a Delete besides its type.                       *)

\* the file that is written, and the step that writes it
File == IF InPlace THEN object ELSE temp
OfFile == Steps[1] \in {"create", "unlink"}
WriteAt == IF Steps[1] = "unlink" THEN 3 ELSE 2

\* each attempt has had a fault of its own
AttemptInv ==
    /\ rpc = "run" => rfaults >= attempt - 1 \/ (~IsPut /\ rcall.what.missing = "error")
    /\ rpc = "clean" => rfaults >= attempt
    /\ rpc = "failed" =>
           final \/ rfaults >= Attempts \/ (~IsPut /\ rcall.what.missing = "error")

\* what readers see is what was there or all of the new, but where it is known to tear or
\* to vanish; the temporary file has all of the new before it is renamed
PutInv ==
    /\ before \in {"none", "old", "longer"}
    /\ object \in {before, "new"} \cup (IF MayTear THEN {"part", "mixed"} ELSE {})
                                  \cup (IF MayVanish THEN {"none"} ELSE {})
    /\ temp # "none" => OfFile /\ ~InPlace
    /\ rpc \in {"ok", "failed"} => temp = "none"
    /\ rpc = "run" => /\ step \in 1 .. Len(Steps)
                      /\ OfFile /\ step > WriteAt => File = "new"
    /\ rpc = "ok" => object = "new" \/ (rcall.what = cephPut /\ before = "longer")
    /\ litter => rcall.what = cifsPut

DeleteInv == rpc = "ok" => object = "none" \/ rcall.what.latest

RequestInv ==
    /\ RequestsTypeOK
    /\ IF rcall = <<>> THEN rpc = "idle"
       ELSE AttemptInv /\ IF IsPut THEN PutInv ELSE DeleteInv

-----------------------------------------------------------------------------
(* The parts of an upload.                                                 *)

\* A set of numbers that is not empty has a least one.
LEMMA LeastNumber ==
  ASSUME NEW S \in SUBSET Nat, S # {}
  PROVE  \E i \in S : \A j \in S : i <= j
<1> DEFINE R == OpToRel(<, Nat)
<1>1. IsWellFoundedOn(R, Nat)
  BY NatLessThanWellFounded
<1>2. \A x, y \in Nat : y < x => <<y, x>> \in R
  BY DEF OpToRel
<1> HIDE DEF R
<1>3. PICK i \in S : \A y \in S : ~(<<y, i>> \in R)
  BY <1>1, WFMin
<1>4. \A y \in S : ~(y < i)
  BY <1>2, <1>3
<1> QED
  BY <1>4

LEMMA MultipartFacts ==
  \A up \in Multiparts :
      /\ up.copies \in BOOLEAN /\ up.fewer \in BOOLEAN /\ up.number \in {0, -1}
<1>1. Multiparts \subseteq
          {Multipart(TRUE, 0, FALSE), Multipart(FALSE, 0, FALSE), Multipart(TRUE, 0, TRUE),
           Multipart(FALSE, -1, FALSE)}
  BY DEF Multiparts, s3Multipart, ossMultipart, tosMultipart, cosMultipart,
         obsMultipart, bosMultipart, ks3Multipart, qingstorMultipart, ibmcosMultipart,
         oosMultipart, storjMultipart, scwMultipart, ufileMultipart
<1>2. \A c, f \in BOOLEAN, n \in {0, -1} :
          /\ Multipart(c, n, f).copies \in BOOLEAN /\ Multipart(c, n, f).fewer \in BOOLEAN
          /\ Multipart(c, n, f).number \in {0, -1}
  BY DEF Multipart
<1> QED
  BY <1>1, <1>2

\* What is known of a call that is made.
LEMMA CallFacts ==
  ASSUME UploadTypeOK, ucall # <<>>
  PROVE  /\ ucall.size \in Nat \ {0} /\ ucall.checkpoint \in BOOLEAN
         /\ ucall.up.copies \in BOOLEAN /\ ucall.up.number \in {0, -1}
         /\ Count(ucall.size) \in Nat \ {0}
         /\ Parts \subseteq Number /\ Parts \subseteq Nat /\ 1 \in Parts
         /\ \A i \in Parts : Sent(i) \in Part
         /\ ServiceCount \in Nat
<1>1. ucall \in [up : Multiparts, size : Nat \ {0}, checkpoint : BOOLEAN]
  BY PartsAssumption DEF UploadTypeOK
<1>2. /\ ucall.size \in Nat \ {0} /\ ucall.checkpoint \in BOOLEAN
      /\ ucall.up.copies \in BOOLEAN /\ ucall.up.number \in {0, -1}
      /\ ucall.up.fewer \in BOOLEAN
  BY <1>1, MultipartFacts
<1>3. Count(ucall.size) \in 1 .. (MaxCount + 1) /\ MaxCount \in Nat
  BY <1>2, PartsFit, Sizes0
<1>4. Parts \subseteq Number /\ Parts \subseteq Nat /\ 1 \in Parts /\ \A i \in Parts : i >= 1
  BY <1>3 DEF Parts, Number
<1>5. \A i \in Parts : Sent(i) \in Part
  BY <1>2, <1>3, <1>4 DEF Sent, Part, Number, Parts
<1> QED
  BY <1>2, <1>3, <1>4, <1>5, Sizes0 DEF ServiceCount

\* The next part is the first one that is not placed.
LEMMA NextFacts ==
  ASSUME UploadTypeOK, ucall # <<>>, Placed # Parts
  PROVE  Next1 \in Parts /\ placed[Next1] = NoPart
<1>1. Parts \ Placed # {} /\ Parts \ Placed \in SUBSET Nat
  BY CallFacts DEF Placed
<1>2. \E i \in Parts \ Placed : \A j \in Parts \ Placed : i <= j
  BY <1>1, LeastNumber
<1>3. Next1 \in Parts \ Placed
  BY <1>2 DEF Next1
<1> QED
  BY <1>3 DEF Placed

\* What depends on the call alone.
LEMMA SameCall ==
  ASSUME ucall' = ucall
  PROVE  /\ Parts' = Parts /\ (TooLarge' <=> TooLarge) /\ (TooMany' <=> TooMany)
         /\ (Misnumbered' <=> Misnumbered)
  BY DEF Parts, TooLarge, TooMany, Misnumbered, ServiceCount

\* A step that leaves the parts alone.
LEMMA SameParts ==
  ASSUME UploadTypeOK, ucall # <<>>, PartsInv, TargetInv, StandInv, ReasonInv,
         UNCHANGED <<ucall, stored, placed, saved, resumed, target>>
  PROVE  /\ PartsInv' /\ Placed' = Placed
         /\ (target' # <<>> /\ ~Misnumbered' => target' = [i \in Parts' |-> i])
<1>1. PartsInv'
  BY SameCall DEF PartsInv
<1>2. Placed' = Placed
  BY SameCall DEF Placed
<1> QED
  BY <1>1, <1>2, SameCall DEF TargetInv

\* The steps that leave the parts alone and make no fault.
LEMMA MoveInv ==
  ASSUME UploadTypeOK, ucall # <<>>, PartsInv, TargetInv, StandInv, ReasonInv,
         \/ PartRefused \/ BeginCopy \/ TempCreate \/ TempParts \/ TempComplete
         \/ TempAbort \/ AllPlaced \/ CompleteRefused \/ TempDelete
  PROVE  UploadTypeOK' /\ PartsInv' /\ TargetInv' /\ StandInv' /\ ReasonInv'
<1>1. UNCHANGED <<ucall, open, stored, placed, saved, resumed, target, ucrashes>>
  BY DEF PartRefused, BeginCopy, TempCreate, TempParts, TempComplete, TempAbort, AllPlaced,
         CompleteRefused, TempDelete, partState, tmpVars
<1>2. /\ PartsInv' /\ Placed' = Placed
      /\ (target' # <<>> /\ ~Misnumbered' => target' = [i \in Parts' |-> i])
      /\ Parts' = Parts /\ (TooLarge' <=> TooLarge) /\ (TooMany' <=> TooMany)
      /\ (Misnumbered' <=> Misnumbered)
  BY <1>1, SameParts, SameCall
<1>3. ufaults \in Nat /\ tries \in 1 .. PartAttempts /\ PartAttempts \in Nat \ {0}
  BY Sizes0, PartsAssumption DEF UploadTypeOK
<1>4. CASE PartRefused
  <2>1. /\ upc = "part" /\ upc' = "abort" /\ tries' = 1 /\ UNCHANGED <<tmp, stray, ufaults>>
        /\ ~Taken(Next1) /\ Placed # Parts
    BY <1>4 DEF PartRefused, tmpVars, NotTaken
  <2>2. Next1 \in Parts
    BY <2>1, NextFacts
  <2>3. ~open \/ TooMany
    BY <2>1, <2>2, CallFacts DEF Taken, TooMany, Parts
  <2>4. UploadTypeOK' /\ TargetInv' /\ StandInv'
    BY <1>1, <1>2, <1>3, <2>1 DEF UploadTypeOK, UPC, TargetInv, StandInv, Copying, Sending
  <2>5. ReasonInv'
    BY <1>1, <1>2, <1>3, <2>1, <2>3 DEF ReasonInv, Sending
  <2> QED
    BY <1>2, <2>4, <2>5
<1>5. CASE BeginCopy \/ TempCreate \/ TempParts
  <2>1. /\ upc \in {"part", "tcreate", "tparts"} /\ tries' = 1 /\ UNCHANGED <<stray, ufaults>>
        /\ Placed # Parts
        /\ \/ upc = "part" /\ upc' = "tcreate" /\ tmp' = tmp
           \/ upc = "tcreate" /\ upc' = "tparts" /\ tmp' = "open"
           \/ upc = "tparts" /\ upc' = "tcomplete" /\ tmp' = tmp
    BY <1>5 DEF BeginCopy, TempCreate, TempParts, tmpVars, NotTaken, StandInv, Copying
  <2>2. UploadTypeOK' /\ TargetInv' /\ StandInv'
    BY <1>1, <1>2, <1>3, <2>1 DEF UploadTypeOK, UPC, TargetInv, StandInv, Copying, Sending
  <2>3. ReasonInv'
    BY <1>1, <1>2, <1>3, <2>1 DEF ReasonInv, Sending
  <2> QED
    BY <1>2, <2>2, <2>3
<1>6. CASE TempComplete
  <2>1. /\ upc = "tcomplete" /\ tries' = 1 /\ UNCHANGED <<stray, ufaults>>
        /\ \/ tmp = "open" /\ upc' = "tcopy" /\ tmp' = "there"
           \/ tmp # "open" /\ upc' = "tabort" /\ tmp' = tmp
    BY <1>6 DEF TempComplete
  <2>2. UploadTypeOK' /\ TargetInv' /\ StandInv'
    BY <1>1, <1>2, <1>3, <2>1 DEF UploadTypeOK, UPC, TargetInv, StandInv, Copying, Sending
  <2>3. ReasonInv'
    BY <1>1, <1>2, <1>3, <2>1 DEF ReasonInv, Sending
  <2> QED
    BY <1>2, <2>2, <2>3
<1>7. CASE TempAbort
  <2>1. /\ upc = "tabort" /\ tries' = tries /\ ufaults' = ufaults
        /\ stray' = (stray \/ tmp = "there") /\ tmp' = "absent" /\ upc' = "abort"
    BY <1>7 DEF TempAbort
  <2>2. UploadTypeOK' /\ TargetInv' /\ StandInv'
    BY <1>1, <1>2, <1>3, <2>1 DEF UploadTypeOK, UPC, TargetInv, StandInv, Copying, Sending
  <2>3. ReasonInv'
    BY <1>1, <1>2, <1>3, <2>1 DEF ReasonInv, Sending
  <2> QED
    BY <1>2, <2>2, <2>3
<1>8. CASE AllPlaced
  <2>1. /\ upc = "part" /\ Placed = Parts /\ upc' = "complete" /\ tries' = 1
        /\ UNCHANGED <<tmp, stray, ufaults>>
    BY <1>8 DEF AllPlaced, tmpVars
  <2>2. UploadTypeOK' /\ TargetInv' /\ StandInv'
    BY <1>1, <1>2, <1>3, <2>1 DEF UploadTypeOK, UPC, TargetInv, StandInv, Copying, Sending
  <2>3. ReasonInv'
    BY <1>1, <1>2, <1>3, <2>1 DEF ReasonInv, Sending
  <2> QED
    BY <1>2, <2>2, <2>3
<1>9. CASE CompleteRefused
  <2>1. /\ upc = "complete" /\ upc' = "abort" /\ tries' = tries
        /\ UNCHANGED <<tmp, stray, ufaults>>
        /\ ~Matches \/ \E i \in Parts : placed[i].range # i
    BY <1>9 DEF CompleteRefused, tmpVars
  <2>2. ~open \/ Misnumbered
    <3> SUFFICES ASSUME open, ~Misnumbered PROVE FALSE
      OBVIOUS
    <3>1. \A i \in Parts : placed[i] = [num |-> i, range |-> i] /\ stored[i] = i
      <4> SUFFICES ASSUME NEW i \in Parts
                   PROVE  placed[i] = [num |-> i, range |-> i] /\ stored[i] = i
        OBVIOUS
      <4>1. i \in Placed /\ i \in Number
        BY <2>1, CallFacts DEF StandInv
      <4> QED
        BY <4>1 DEF PartsInv, Placed
    <3>2. \A i \in Parts : placed[i].num = i /\ placed[i].range = i /\ stored[i] = i
      <4> SUFFICES ASSUME NEW i \in Parts
                   PROVE  placed[i].num = i /\ placed[i].range = i /\ stored[i] = i
        OBVIOUS
      <4>1. placed[i] = [num |-> i, range |-> i] /\ stored[i] = i
        BY <3>1
      <4> QED
        BY <4>1
    <3> QED
      BY <2>1, <3>2 DEF Matches, Misnumbered
  <2>3. UploadTypeOK' /\ TargetInv' /\ StandInv'
    BY <1>1, <1>2, <1>3, <2>1 DEF UploadTypeOK, UPC, TargetInv, StandInv, Copying, Sending
  <2>4. ReasonInv'
    BY <1>1, <1>2, <1>3, <2>1, <2>2 DEF ReasonInv, Sending
  <2> QED
    BY <1>2, <2>3, <2>4
<1>10. CASE TempDelete
  <2>1. /\ upc \in {"tdelete", "tdrop"} /\ tries' = tries /\ tmp' = "absent"
        /\ upc' = IF upc = "tdelete" THEN "part" ELSE "abort"
        /\ ufaults' \in 0 .. PartFaults
        /\ \/ UNCHANGED <<stray, ufaults>>
           \/ ufaults' > 0 /\ stray' = TRUE
    BY <1>3, <1>10, PartsAssumption, SMTT(30) DEF TempDelete, UploadFault, UploadTypeOK, partState
  <2>2. UploadTypeOK' /\ TargetInv' /\ StandInv'
    BY <1>1, <1>2, <1>3, <2>1 DEF UploadTypeOK, UPC, TargetInv, StandInv, Copying, Sending
  <2>3. ReasonInv'
    BY <1>1, <1>2, <1>3, <2>1 DEF ReasonInv, Sending
  <2> QED
    BY <1>2, <2>2, <2>3
<1> QED
  BY <1>4, <1>5, <1>6, <1>7, <1>8, <1>9, <1>10

\* A part that is sent, or copied, is placed and remembered as what is stored.
LEMMA PlaceInv ==
  ASSUME UploadTypeOK, ucall # <<>>, PartsInv, Placed # Parts, ucall' = ucall,
         stored' = [stored EXCEPT ![Next1] = Next1],
         Place(Next1) \/ UNCHANGED <<placed, saved>>
  PROVE  /\ PartsInv' /\ stored' \in [Number -> Number] /\ placed' \in [Number -> Part]
         /\ saved' \in [known : BOOLEAN, parts : [Number -> Part]]
         /\ saved'.known = saved.known
<1> DEFINE i == Next1
<1>1. i \in Parts /\ i \in Number /\ Sent(i) \in Part
  BY NextFacts, CallFacts
<1>2. /\ stored \in [Number -> Number] /\ placed \in [Number -> Part]
      /\ saved \in [known : BOOLEAN, parts : [Number -> Part]]
  BY DEF UploadTypeOK
<1>3. Sent(i).num \in Number
  BY <1>1 DEF Part
<1> HIDE DEF i
<1>4. stored' = [stored EXCEPT ![i] = i] /\ stored' \in [Number -> Number]
  BY <1>1, <1>2 DEF i
<1>5. CASE UNCHANGED <<placed, saved>>
  BY <1>1, <1>2, <1>4, <1>5, SameCall DEF PartsInv
<1>6. CASE Place(i)
  <2>1. placed' = [placed EXCEPT ![i] = Sent(i)]
    BY <1>6 DEF Place
  <2>2. saved' = saved \/ saved' = [saved EXCEPT !.parts[Sent(i).num] = Sent(i)]
    BY <1>6 DEF Place
  <2>3. placed' \in [Number -> Part]
    BY <1>1, <1>2, <2>1
  <2>4. /\ saved' \in [known : BOOLEAN, parts : [Number -> Part]] /\ saved'.known = saved.known
        /\ \A n \in Number : saved'.parts[n] = saved.parts[n]
                             \/ (n = Sent(i).num /\ saved'.parts[n] = Sent(i))
    BY <1>1, <1>2, <1>3, <2>2
  <2>5. PartsInv'
    <3> SUFFICES ASSUME ~Misnumbered, NEW n \in Number, NEW p \in {placed'[n], saved'.parts[n]}
                 PROVE  p = NoPart \/ (p = [num |-> n, range |-> n] /\ stored'[n] = n)
      BY SameCall DEF PartsInv
    <3>1. Sent(i) = [num |-> i, range |-> i]
      BY <1>1, CallFacts DEF Sent, Misnumbered
    <3>2. \/ p \in {placed[n], saved.parts[n]}
          \/ p = Sent(i) /\ n = i
      <4>1. Sent(i).num = i
        BY <3>1
      <4>2. placed'[n] = placed[n] \/ (placed'[n] = Sent(i) /\ n = i)
        BY <1>2, <2>1
      <4> QED
        BY <2>4, <4>1, <4>2
    <3>3. stored'[n] = stored[n] \/ (n = i /\ stored'[n] = n)
      BY <1>2, <1>4
    <3>4. CASE p \in {placed[n], saved.parts[n]}
      <4>1. p = NoPart \/ (p = [num |-> n, range |-> n] /\ stored[n] = n)
        BY <3>4 DEF PartsInv
      <4> QED
        BY <3>3, <4>1
    <3>5. CASE p = Sent(i) /\ n = i
      BY <1>1, <1>2, <1>4, <3>1, <3>5
    <3> QED
      BY <3>2, <3>4, <3>5
  <2> QED
    BY <1>4, <2>3, <2>4, <2>5
<1> QED
  BY <1>5, <1>6 DEF i

\* What is completed is made of the ranges in their order.
LEMMA AssembledInv ==
  ASSUME UploadTypeOK, ucall # <<>>, PartsInv, Placed = Parts
  PROVE  /\ Assembled \in Seq(Number) /\ Assembled # <<>>
         /\ ~Misnumbered => Assembled = [i \in Parts |-> i]
<1>1. placed \in [Number -> Part] /\ Parts \subseteq Number
  BY CallFacts DEF UploadTypeOK
<1>2. \A i \in Parts : placed[i].range \in Number
  BY <1>1 DEF Part
<1>3. Assembled \in Seq(Number)
  <2>1. Parts = 1 .. Count(ucall.size) /\ Count(ucall.size) \in Nat
    BY CallFacts DEF Parts
  <2> QED
    BY <1>2, <2>1 DEF Assembled
<1>4. Assembled # <<>>
  <2>1. 1 \in DOMAIN Assembled
    BY CallFacts DEF Assembled
  <2> QED
    BY <2>1
<1>5. ASSUME ~Misnumbered PROVE Assembled = [i \in Parts |-> i]
  <2>1. ASSUME NEW i \in Parts PROVE placed[i].range = i
    <3>1. placed[i] = [num |-> i, range |-> i]
      BY <1>1, <1>5 DEF PartsInv, Placed
    <3> QED
      BY <3>1
  <2> QED
    BY <2>1 DEF Assembled
<1> QED
  BY <1>3, <1>4, <1>5

\* The steps that place a part.
LEMMA SendInv ==
  ASSUME UploadTypeOK, ucall # <<>>, PartsInv, TargetInv, StandInv, ReasonInv,
         TakeSaved \/ SendPart \/ TempCopy
  PROVE  UploadTypeOK' /\ PartsInv' /\ TargetInv' /\ StandInv' /\ ReasonInv'
<1>1. UNCHANGED <<ucall, open, resumed, target, tmp, stray, ufaults, ucrashes>>
  BY DEF TakeSaved, SendPart, TempCopy, tmpVars
<1>2. /\ Parts' = Parts /\ (TooLarge' <=> TooLarge) /\ (TooMany' <=> TooMany)
      /\ (Misnumbered' <=> Misnumbered)
  BY <1>1, SameCall
<1>3. Placed # Parts
  BY DEF TakeSaved, SendPart, TempCopy, NotTaken, StandInv, Copying
<1>4. Next1 \in Parts /\ Next1 \in Number
  BY <1>3, NextFacts, CallFacts
<1>5. 1 \in 1 .. PartAttempts
  BY Sizes0
<1>6. CASE TakeSaved
  <2>1. /\ upc = "part" /\ placed' = [placed EXCEPT ![Next1] = saved.parts[Next1]]
        /\ UNCHANGED <<upc, tries, stored, saved>>
    BY <1>6 DEF TakeSaved
  <2>2. UploadTypeOK'
    BY <1>1, <1>4, <2>1 DEF UploadTypeOK
  <2>3. PartsInv'
    <3> SUFFICES ASSUME ~Misnumbered, NEW n \in Number, NEW p \in {placed'[n], saved.parts[n]}
                 PROVE  p = NoPart \/ (p = [num |-> n, range |-> n] /\ stored[n] = n)
      BY <1>2, <2>1 DEF PartsInv
    <3>1. p \in {placed[n], saved.parts[n]}
      BY <1>4, <2>1 DEF UploadTypeOK
    <3> QED
      BY <3>1 DEF PartsInv
  <2>4. TargetInv' /\ StandInv'
    BY <1>1, <1>2, <2>1 DEF TargetInv, StandInv, Copying, Sending
  <2>5. ReasonInv'
    BY <1>1, <1>2, <2>1 DEF ReasonInv, Sending
  <2> QED
    BY <2>2, <2>3, <2>4, <2>5
<1>7. CASE SendPart
  <2>1. /\ upc = "part" /\ upc' = upc /\ tries' = 1
        /\ stored' = [stored EXCEPT ![Next1] = Next1] /\ Place(Next1)
    BY <1>7 DEF SendPart
  <2>2. /\ PartsInv' /\ stored' \in [Number -> Number] /\ placed' \in [Number -> Part]
        /\ saved' \in [known : BOOLEAN, parts : [Number -> Part]]
        /\ saved'.known = saved.known
    BY <1>1, <1>3, <2>1, PlaceInv
  <2>3. UploadTypeOK'
    BY <1>1, <1>5, <2>1, <2>2 DEF UploadTypeOK
  <2>4. TargetInv' /\ StandInv'
    BY <1>1, <1>2, <2>1, <2>2 DEF TargetInv, StandInv, Copying, Sending
  <2>5. ReasonInv'
    BY <1>1, <1>2, <2>1, <2>2 DEF ReasonInv, Sending
  <2> QED
    BY <2>2, <2>3, <2>4, <2>5
<1>8. CASE TempCopy
  <2>1. /\ upc = "tcopy" /\ tries' = 1
        /\ \/ /\ upc' = "tdelete" /\ stored' = [stored EXCEPT ![Next1] = Next1] /\ Place(Next1)
           \/ upc' = "tdrop" /\ UNCHANGED <<stored, placed, saved>> /\ ~Taken(Next1)
    BY <1>8 DEF TempCopy
  <2>2. /\ PartsInv' /\ stored' \in [Number -> Number] /\ placed' \in [Number -> Part]
        /\ saved' \in [known : BOOLEAN, parts : [Number -> Part]]
        /\ saved'.known = saved.known
    <3>1. CASE Place(Next1) /\ stored' = [stored EXCEPT ![Next1] = Next1]
      BY <1>1, <1>3, <3>1, PlaceInv
    <3>2. CASE UNCHANGED <<stored, placed, saved>>
      BY <1>1, <3>2, SameParts DEF UploadTypeOK
    <3> QED
      BY <2>1, <3>1, <3>2
  <2>3. upc' = "tdrop" => ~open \/ TooMany
    BY <1>4, <2>1, CallFacts DEF Taken, TooMany, Parts
  <2>4. UploadTypeOK'
    BY <1>1, <1>5, <2>1, <2>2 DEF UploadTypeOK, UPC
  <2>5. TargetInv' /\ StandInv'
    BY <1>1, <1>2, <2>1, <2>2 DEF TargetInv, StandInv, Copying, Sending
  <2>6. ReasonInv'
    BY <1>1, <1>2, <2>1, <2>2, <2>3 DEF ReasonInv, Sending
  <2> QED
    BY <2>2, <2>4, <2>5, <2>6
<1> QED
  BY <1>6, <1>7, <1>8

\* Nothing is placed nor remembered.
LEMMA NoneFacts ==
  /\ NoPart \in Part /\ 0 \in Number
  /\ [n \in Number |-> NoPart] \in [Number -> Part] /\ [n \in Number |-> 0] \in [Number -> Number]
  /\ \A b \in BOOLEAN : [NotSaved EXCEPT !.known = b]
                           \in [known : BOOLEAN, parts : [Number -> Part]]
  /\ NotSaved \in [known : BOOLEAN, parts : [Number -> Part]]
  /\ NotSaved.known = FALSE /\ \A n \in Number : NotSaved.parts[n] = NoPart
  /\ \A b \in BOOLEAN : /\ [NotSaved EXCEPT !.known = b].known = b
                        /\ \A n \in Number : [NotSaved EXCEPT !.known = b].parts[n] = NoPart
<1>1. 0 \in Number /\ NoPart \in Part
  BY Sizes0 DEF Number, NoPart, Part
<1> HIDE DEF NoPart
<1> QED
  BY <1>1 DEF NotSaved

\* An upload begins anew.
LEMMA CreateInv ==
  ASSUME UploadTypeOK, ucall # <<>>, PartsInv, TargetInv, StandInv, ReasonInv, CreateUpload
  PROVE  UploadTypeOK' /\ PartsInv' /\ TargetInv' /\ StandInv' /\ ReasonInv'
<1>1. /\ upc = "create" /\ UNCHANGED <<ucall, target, tmp, stray, ufaults, ucrashes>>
      /\ upc' = (IF TooLarge THEN "failed" ELSE "part") /\ open' = TRUE /\ resumed' = FALSE
      /\ tries' = 1 /\ stored' = [n \in Number |-> 0] /\ placed' = [n \in Number |-> NoPart]
      /\ saved' = [NotSaved EXCEPT !.known = ucall.checkpoint /\ ~TooLarge]
  BY DEF CreateUpload, tmpVars
<1>2. /\ Parts' = Parts /\ (TooLarge' <=> TooLarge) /\ (TooMany' <=> TooMany)
      /\ (Misnumbered' <=> Misnumbered)
  BY <1>1, SameCall
<1>3. (ucall.checkpoint /\ ~TooLarge) \in BOOLEAN /\ 1 \in 1 .. PartAttempts
  BY Sizes0
<1>4. /\ saved' \in [known : BOOLEAN, parts : [Number -> Part]]
      /\ saved'.known = (ucall.checkpoint /\ ~TooLarge)
      /\ \A n \in Number : saved'.parts[n] = NoPart
  <2> DEFINE b == ucall.checkpoint /\ ~TooLarge
  <2>1. b \in BOOLEAN /\ saved' = [NotSaved EXCEPT !.known = b]
    BY <1>1, <1>3
  <2> HIDE DEF b
  <2>2. /\ saved' \in [known : BOOLEAN, parts : [Number -> Part]] /\ saved'.known = b
        /\ \A n \in Number : saved'.parts[n] = NoPart
    BY <2>1, NoneFacts
  <2> QED
    BY <2>2 DEF b
<1>5. UploadTypeOK'
  BY <1>1, <1>3, <1>4, NoneFacts DEF UploadTypeOK, UPC
<1>6. PartsInv'
  BY <1>1, <1>4 DEF PartsInv
<1>7. TargetInv' /\ StandInv'
  BY <1>1, <1>2, <1>4 DEF TargetInv, StandInv, Copying, Sending
<1>8. ReasonInv'
  BY <1>1, <1>2, <1>4 DEF ReasonInv, Sending
<1> QED
  BY <1>5, <1>6, <1>7, <1>8

\* The upload is completed, aborted, or found again by the next run.
LEMMA EndInv ==
  ASSUME UploadTypeOK, ucall # <<>>, PartsInv, TargetInv, StandInv, ReasonInv,
         CompleteUpload \/ Abort \/ UploadRestart
  PROVE  UploadTypeOK' /\ PartsInv' /\ TargetInv' /\ StandInv' /\ ReasonInv'
<1>1. UNCHANGED <<ucall, stored, placed, tmp, stray, ucrashes>>
  BY DEF CompleteUpload, Abort, UploadRestart, tmpVars
<1>2. /\ Parts' = Parts /\ (TooLarge' <=> TooLarge) /\ (TooMany' <=> TooMany)
      /\ (Misnumbered' <=> Misnumbered)
  BY <1>1, SameCall
<1>3. ufaults \in Nat /\ 1 \in 1 .. PartAttempts /\ PartFaults \in Nat
  BY Sizes0, PartsAssumption DEF UploadTypeOK
<1>4. saved' = saved \/ saved' = NotSaved
  BY DEF CompleteUpload, Abort, UploadRestart
<1>5. PartsInv'
  BY <1>1, <1>2, <1>4, NoneFacts DEF PartsInv
<1>6. saved' \in [known : BOOLEAN, parts : [Number -> Part]]
  BY <1>4, NoneFacts DEF UploadTypeOK
<1>7. Placed' = Placed
  BY <1>1, <1>2 DEF Placed
<1>8. CASE CompleteUpload
  <2>1. /\ upc = "complete" /\ target' = Assembled /\ open' = FALSE /\ saved' = NotSaved
        /\ upc' = "ok" /\ UNCHANGED <<tries, resumed, ufaults>>
    BY <1>8 DEF CompleteUpload
  <2>2. /\ Assembled \in Seq(Number) /\ Assembled # <<>>
        /\ ~Misnumbered => Assembled = [i \in Parts |-> i]
    BY <2>1, AssembledInv DEF StandInv
  <2>3. UploadTypeOK'
    BY <1>1, <1>6, <2>1, <2>2 DEF UploadTypeOK, UPC
  <2>4. TargetInv'
    BY <1>1, <1>2, <2>1, <2>2 DEF TargetInv
  <2>5. StandInv'
    BY <1>1, <1>2, <2>1, NoneFacts DEF StandInv, Copying, Sending
  <2>6. ReasonInv'
    BY <1>1, <1>2, <2>1, NoneFacts DEF ReasonInv, Sending
  <2> QED
    BY <1>5, <2>3, <2>4, <2>5, <2>6
<1>9. CASE Abort
  <2>1. /\ upc = "abort" /\ tries' = 1 /\ UNCHANGED <<resumed, target>>
        /\ \/ /\ ucall.checkpoint /\ ~resumed /\ upc' = "failed"
              /\ UNCHANGED <<open, saved, ufaults>>
           \/ /\ ~(ucall.checkpoint /\ ~resumed)
              /\ upc' = (IF resumed THEN "create" ELSE "failed") /\ saved' = NotSaved
              /\ \/ open' = FALSE /\ ufaults' = ufaults
                 \/ open' = open /\ ufaults < PartFaults /\ ufaults' = ufaults + 1
    BY <1>9 DEF Abort, UploadFault
  <2>2. UploadTypeOK'
    <3>1. ufaults' \in 0 .. PartFaults
      BY <1>3, <2>1 DEF UploadTypeOK
    <3>2. open' \in BOOLEAN /\ upc' \in UPC
      BY <2>1 DEF UploadTypeOK, UPC
    <3> QED
      BY <1>1, <1>3, <1>6, <2>1, <3>1, <3>2 DEF UploadTypeOK
  <2>3. TargetInv' /\ StandInv'
    BY <1>1, <1>2, <1>7, <2>1, NoneFacts DEF TargetInv, StandInv, Copying, Sending
  <2>4. ReasonInv'
    BY <1>1, <1>2, <1>3, <2>1, NoneFacts DEF ReasonInv, StandInv, Sending
  <2> QED
    BY <1>5, <2>2, <2>3, <2>4
<1>10. CASE UploadRestart
  <2>1. /\ upc = "dead" /\ tries' = 1 /\ UNCHANGED <<open, saved, target, ufaults>>
        /\ \/ saved.known /\ upc' = "part" /\ resumed' = TRUE
           \/ upc' = "create" /\ resumed' = FALSE
    BY <1>10 DEF UploadRestart
  <2>2. UploadTypeOK'
    BY <1>1, <1>3, <1>6, <2>1 DEF UploadTypeOK, UPC
  <2>3. TargetInv' /\ StandInv'
    BY <1>1, <1>2, <1>7, <2>1 DEF TargetInv, StandInv, Copying, Sending
  <2>4. ReasonInv'
    BY <1>1, <1>2, <2>1 DEF ReasonInv, Sending
  <2> QED
    BY <1>5, <2>2, <2>3, <2>4
<1> QED
  BY <1>8, <1>9, <1>10

\* A request fails, with or without having taken effect.
LEMMA FaultInv ==
  ASSUME UploadTypeOK, ucall # <<>>, PartsInv, TargetInv, StandInv, ReasonInv, UploadFails
  PROVE  UploadTypeOK' /\ PartsInv' /\ TargetInv' /\ StandInv' /\ ReasonInv'
<1>1. /\ upc \in {"create", "part", "tcreate", "tparts", "tcomplete", "tcopy", "complete"}
      /\ upc = "part" => Placed # Parts
      /\ ufaults < PartFaults /\ ufaults' = ufaults + 1
      /\ UNCHANGED <<ucall, placed, saved, resumed, stray, ucrashes>>
      /\ \/ tries < PartAttempts /\ tries' = tries + 1 /\ upc' = upc
         \/ tries' = 1 /\ upc' = GivenUp
  BY DEF UploadFails, UploadFault, NotTaken
<1>2. \/ UNCHANGED <<stored, target, open, tmp>>
      \/ /\ upc \in {"part", "tcopy"}
         /\ stored' = [stored EXCEPT ![Next1] = Next1] /\ UNCHANGED <<target, open, tmp>>
      \/ /\ upc = "tcomplete" /\ tmp = "open" /\ tmp' = "there"
         /\ UNCHANGED <<stored, target, open>>
      \/ /\ upc = "complete" /\ target' = Assembled /\ open' = FALSE
         /\ UNCHANGED <<stored, tmp>>
  BY DEF UploadFails
<1>3. /\ Parts' = Parts /\ (TooLarge' <=> TooLarge) /\ (TooMany' <=> TooMany)
      /\ (Misnumbered' <=> Misnumbered) /\ Placed' = Placed
  BY <1>1, SameCall DEF Placed
<1>4. PartsInv' /\ stored' \in [Number -> Number]
  <2>1. CASE stored' = stored
    BY <1>1, <1>3, <2>1 DEF PartsInv, UploadTypeOK
  <2>2. CASE upc \in {"part", "tcopy"} /\ stored' = [stored EXCEPT ![Next1] = Next1]
    <3>1. Placed # Parts
      BY <1>1, <2>2 DEF StandInv, Copying
    <3> QED
      BY <1>1, <2>2, <3>1, PlaceInv
  <2> QED
    BY <1>2, <2>1, <2>2
<1>5. upc = "complete" => /\ Assembled \in Seq(Number) /\ Assembled # <<>>
                          /\ ~Misnumbered => Assembled = [i \in Parts |-> i]
  BY AssembledInv DEF StandInv
<1>6. /\ ufaults' \in 0 .. PartFaults /\ ufaults' > 0 /\ tries' \in 1 .. PartAttempts
      /\ ufaults \in Nat
  <2>1. /\ PartFaults \in Nat /\ PartAttempts \in Nat \ {0} /\ ufaults \in 0 .. PartFaults
        /\ tries \in 1 .. PartAttempts
    BY Sizes0, PartsAssumption DEF UploadTypeOK
  <2> QED
    BY <1>1, <2>1
<1>7. upc' = upc \/ upc' = GivenUp
  BY <1>1
<1>8. /\ upc = "create" => GivenUp = "failed"
      /\ upc \in {"part", "tcreate", "complete"} => GivenUp = "abort"
      /\ upc \in {"tparts", "tcomplete"} => GivenUp = "tabort"
      /\ upc = "tcopy" => GivenUp = "tdrop"
  BY DEF GivenUp
<1>9. UploadTypeOK'
  <2>1. upc' \in UPC
    BY <1>1, <1>7, <1>8 DEF UPC
  <2>2. open' \in BOOLEAN /\ tmp' \in {"absent", "open", "there"} /\ target' \in Seq(Number)
    BY <1>2, <1>5 DEF UploadTypeOK
  <2> QED
    BY <1>1, <1>4, <1>6, <2>1, <2>2 DEF UploadTypeOK
<1>10. TargetInv'
  <2>1. upc' # "ok"
    BY <1>1, <1>7, <1>8
  <2>2. target' = target \/ (upc = "complete" /\ target' = Assembled)
    BY <1>2
  <2> QED
    BY <1>3, <1>5, <2>1, <2>2 DEF TargetInv
<1>11. StandInv'
  <2>1. tmp' = tmp \/ upc = "tcomplete"
    BY <1>2
  <2> QED
    BY <1>1, <1>3, <1>7, <1>8, <2>1 DEF StandInv, Copying, Sending
<1>12. ReasonInv'
  BY <1>6 DEF ReasonInv
<1> QED
  BY <1>4, <1>9, <1>10, <1>11, <1>12

\* The process dies, and the checkpoint has some of what it had.
LEMMA CrashInv ==
  ASSUME UploadTypeOK, ucall # <<>>, PartsInv, TargetInv, StandInv, ReasonInv, UploadCrash
  PROVE  UploadTypeOK' /\ PartsInv' /\ TargetInv' /\ StandInv' /\ ReasonInv'
<1>1. /\ upc \notin {"idle", "dead", "ok"} /\ upc' = "dead"
      /\ ucrashes < PartCrashes /\ ucrashes' = ucrashes + 1
      /\ tmp' = "absent" /\ stray' = (stray \/ tmp = "there")
      /\ placed' = [n \in Number |-> NoPart]
      /\ UNCHANGED <<ucall, tries, open, stored, resumed, target, ufaults>>
  BY DEF UploadCrash
<1>2. /\ saved' \in [known : BOOLEAN, parts : [Number -> Part]]
      /\ saved'.known => saved.known
      /\ \A n \in Number : saved'.parts[n] \in {NoPart, saved.parts[n]}
  <2>1. CASE saved' = NotSaved
    BY <2>1, NoneFacts
  <2>2. ASSUME NEW S \in SUBSET Number,
               saved' = [saved EXCEPT !.parts = [n \in Number |-> IF n \in S THEN @[n] ELSE NoPart]]
        PROVE  /\ saved' \in [known : BOOLEAN, parts : [Number -> Part]]
               /\ saved'.known => saved.known
               /\ \A n \in Number : saved'.parts[n] \in {NoPart, saved.parts[n]}
    <3>1. saved \in [known : BOOLEAN, parts : [Number -> Part]] /\ NoPart \in Part
      BY NoneFacts DEF UploadTypeOK
    <3> DEFINE ps == [n \in Number |-> IF n \in S THEN saved.parts[n] ELSE NoPart]
    <3>2. ps \in [Number -> Part]
      BY <3>1
    <3>3. saved' = [saved EXCEPT !.parts = ps]
      BY <2>2
    <3>4. \A n \in Number : ps[n] \in {NoPart, saved.parts[n]}
      OBVIOUS
    <3> HIDE DEF ps
    <3> QED
      BY <3>1, <3>2, <3>3, <3>4
  <2> QED
    BY <2>1, <2>2 DEF UploadCrash
<1>3. /\ Parts' = Parts /\ (TooLarge' <=> TooLarge) /\ (TooMany' <=> TooMany)
      /\ (Misnumbered' <=> Misnumbered)
  BY <1>1, SameCall
<1>4. ucrashes' \in 0 .. PartCrashes /\ ucrashes' > 0
  BY <1>1, PartsAssumption DEF UploadTypeOK
<1>5. UploadTypeOK'
  BY <1>1, <1>2, <1>4, NoneFacts DEF UploadTypeOK, UPC
<1>6. PartsInv'
  <2> SUFFICES ASSUME ~Misnumbered, NEW n \in Number, NEW p \in {placed'[n], saved'.parts[n]}
               PROVE  p = NoPart \/ (p = [num |-> n, range |-> n] /\ stored[n] = n)
    BY <1>1, <1>3 DEF PartsInv
  <2>1. p = NoPart \/ p = saved.parts[n]
    BY <1>1, <1>2
  <2> QED
    BY <2>1 DEF PartsInv
<1>7. TargetInv' /\ StandInv'
  BY <1>1, <1>2, <1>3 DEF TargetInv, StandInv, Copying, Sending
<1>8. ReasonInv'
  BY <1>1, <1>2, <1>3, <1>4 DEF ReasonInv, Sending
<1> QED
  BY <1>5, <1>6, <1>7, <1>8

LEMMA UploadInvInit == UploadInit \/ UploadIdle => UploadInv
<1> SUFFICES ASSUME UploadInit \/ UploadIdle PROVE UploadInv
  OBVIOUS
<1>1. /\ tries = 1 /\ open = FALSE /\ stored = [n \in Number |-> 0]
      /\ placed = [n \in Number |-> NoPart] /\ saved = NotSaved /\ resumed = FALSE
      /\ target = <<>> /\ tmp = "absent" /\ stray = FALSE /\ ufaults = 0 /\ ucrashes = 0
      /\ \/ ucall = <<>> /\ upc = "idle"
         \/ ucall \in PartCalls /\ upc = "create"
  BY DEF UploadInit, UploadIdle, NoUpload
<1>2. UploadTypeOK
  <2>1. 0 \in 0 .. PartFaults /\ 0 \in 0 .. PartCrashes /\ 1 \in 1 .. PartAttempts
    BY Sizes0, PartsAssumption
  <2> QED
    BY <1>1, <2>1, NoneFacts DEF UploadTypeOK, UPC
<1>3. PartsInv
  BY <1>1, NoneFacts DEF PartsInv
<1>4. upc = "create" => TargetInv /\ StandInv /\ ReasonInv
  BY <1>1, NoneFacts DEF TargetInv, StandInv, ReasonInv, Copying, Sending
<1>5. ucall \in PartCalls => ucall # <<>>
  <2> SUFFICES ASSUME <<>> \in PartCalls PROVE FALSE
    OBVIOUS
  <2>1. <<>> \in [up : Multiparts, size : Nat \ {0}, checkpoint : BOOLEAN]
    BY PartsAssumption
  <2>2. DOMAIN <<>> = {"up", "size", "checkpoint"}
    BY <2>1
  <2> QED
    BY <2>2
<1> QED
  BY <1>1, <1>2, <1>3, <1>4, <1>5 DEF UploadInv

LEMMA UploadInvStep == UploadInv /\ [UploadNext]_uploadVars => UploadInv'
<1> SUFFICES ASSUME UploadInv, [UploadNext]_uploadVars PROVE UploadInv'
  OBVIOUS
<1>1. CASE UNCHANGED uploadVars
  BY <1>1, SameCall
     DEF uploadVars, partState, tmpVars, UploadInv, UploadTypeOK, PartsInv, TargetInv, StandInv,
         ReasonInv, Placed
<1>2. CASE UploadNext
  <2>1. ucall' = ucall /\ upc # "idle"
    BY <1>2 DEF UploadNext, UploadSystem, TakeSaved, SendPart, PartRefused, BeginCopy, TempCreate,
       TempParts, TempComplete, TempCopy, TempDelete, TempAbort, CreateUpload, AllPlaced,
       CompleteUpload, CompleteRefused, UploadFails, Abort, UploadRestart, UploadCrash
  <2>2. ucall # <<>> /\ UploadTypeOK /\ PartsInv /\ TargetInv /\ StandInv /\ ReasonInv
    BY <2>1 DEF UploadInv
  <2> QED
    BY <1>2, <2>1, <2>2, MoveInv, SendInv, CreateInv, EndInv, FaultInv, CrashInv, SMTT(30)
       DEF UploadNext, UploadSystem, UploadInv
<1> QED
  BY <1>1, <1>2

\* What the invariant says to who calls.
LEMMA UploadInvSays == UploadInv => PartsRight
<1> SUFFICES ASSUME UploadInv, ucall # <<>> PROVE PartsRight
  BY DEF PartsRight
<1>1. UploadTypeOK /\ PartsInv /\ TargetInv /\ StandInv /\ ReasonInv
  BY DEF UploadInv
<1>2. ucall.size \in Nat \ {0} /\ Parts \subseteq Number
  BY <1>1, CallFacts
<1>3. ASSUME upc = "complete", ~Misnumbered, NEW i \in Parts
      PROVE  placed[i].range = i /\ stored[i] = i
  <2>1. i \in Placed /\ i \in Number
    BY <1>1, <1>2, <1>3 DEF StandInv
  <2>2. placed[i] = [num |-> i, range |-> i] /\ stored[i] = i
    BY <1>1, <1>3, <2>1 DEF PartsInv, Placed
  <2> QED
    BY <2>2
<1>4. upc = "failed" => ufaults > 0 \/ TooLarge \/ TooMany \/ Misnumbered
  <2>1. ufaults \in 0 .. PartFaults /\ PartFaults \in Nat
    BY <1>1, PartsAssumption DEF UploadTypeOK
  <2> QED
    BY <1>1, <2>1 DEF ReasonInv
<1>5. UploadEnded => tmp = "absent"
  BY <1>1 DEF StandInv, UploadEnded
<1>6. ASSUME ~TooLarge
      PROVE  /\ Count(ucall.size) <= MaxCount \/ NotMoreParts
             /\ PartSize(ucall.size) \in MinPart .. MaxPart
             /\ PartSize(ucall.size) % Align = 0
             /\ LastSize(ucall.size) \in 1 .. PartSize(ucall.size)
  <2> DEFINE ps == PartSize(ucall.size)
             all == MaxPart * MaxCount
  <2>1. MinPart \in Nat /\ MaxPart \in Nat /\ all \in Nat
    BY Sizes0
  <2>2. /\ ps \in Nat /\ MinPart <= ps /\ ps % Align = 0
        /\ ucall.size <= all => ps <= MaxPart
        /\ Count(ucall.size) \in 1 .. (MaxCount + 1)
        /\ Count(ucall.size) <= MaxCount \/ NotMoreParts
        /\ LastSize(ucall.size) \in 1 .. ps
    BY <1>2, PartsFit DEF NotMoreParts
  <2>3. ~(ucall.size > all)
    BY <1>6 DEF TooLarge
  <2> HIDE DEF ps, all
  <2>4. ucall.size <= all
    BY <1>2, <2>1, <2>3
  <2>5. ps \in MinPart .. MaxPart
    BY <2>1, <2>2, <2>4
  <2> QED
    BY <2>2, <2>5 DEF ps
<1> QED
  BY <1>1, <1>3, <1>4, <1>5, <1>6 DEF PartsRight, TargetInv, ReasonInv

-----------------------------------------------------------------------------
(* Putting and deleting an object.                                         *)

\* The kinds of Put: a request; over the object from its start; in place; a file that is
\* renamed; one for which the object makes way first, or only in place.
OnePut == /\ Steps = <<"put">> /\ ~InPlace /\ ~MayTear /\ ~MayVanish
          /\ rcall.what # cephPut /\ rcall.what # glusterPut
OverPut == /\ Steps = <<"begin", "extend">> /\ ~InPlace /\ MayTear /\ ~MayVanish
           /\ rcall.what = cephPut /\ rcall.what # glusterPut
GlusterPut == /\ Steps = <<"create", "write">> /\ InPlace /\ MayTear /\ MayVanish
              /\ rcall.what # cephPut /\ rcall.what = glusterPut /\ rcall.what.cleans
FilePut == /\ Steps = <<"create", "write", "rename">> /\ (MayTear <=> InPlace) /\ ~MayVanish
           /\ rcall.what # cephPut /\ rcall.what # glusterPut
           /\ rcall.what.cleans \/ rcall.what = cifsPut
MakeWayPut == /\ Steps = <<"create", "write", "remove", "rename">> /\ (MayTear <=> InPlace)
              /\ MayVanish /\ rcall.what # cephPut /\ rcall.what # glusterPut
              /\ rcall.what.cleans
UnlinkPut == /\ Steps = <<"unlink", "create", "write", "rename">> /\ (MayTear <=> InPlace)
             /\ (MayVanish <=> InPlace) /\ rcall.what # cephPut /\ rcall.what # glusterPut
             /\ rcall.what.cleans

LEMMA PutKinds ==
  ASSUME rcall.what \in Puts
  PROVE  IsPut /\ (OnePut \/ OverPut \/ GlusterPut \/ FilePut \/ MakeWayPut \/ UnlinkPut)
<1>1. rcall.what \in {OneRequest, filePut, cifsPut, sftpPut, glusterPut, cephPut, nfsPut}
  BY DEF Puts, s3Put, ossPut, tosPut, cosPut, obsPut, bosPut, ks3Put, ibmcosPut, qingstorPut,
         ufilePut, swiftPut, dragonflyPut, sqlPut, memPut, storjPut, azurePut, qiniuPut, b2Put,
         gsPut, etcdPut, tikvPut, redisPut, webdavPut, bunnyPut, filePut, nfsPut, hdfsPut
<1>2. CASE rcall.what = OneRequest
  BY <1>2 DEF IsPut, OnePut, Steps, InPlace, MayTear, MayVanish, OneRequest, Put, cephPut,
              glusterPut, sftpPut, nfsPut, hdfsPut
<1>3. CASE rcall.what = cephPut
  BY <1>3 DEF IsPut, OverPut, Steps, InPlace, MayTear, MayVanish, Put, cephPut, glusterPut,
              sftpPut, nfsPut, hdfsPut
<1>4. CASE rcall.what = glusterPut
  BY <1>4 DEF IsPut, GlusterPut, Steps, InPlace, MayTear, MayVanish, Put, cephPut, glusterPut,
              sftpPut, nfsPut, hdfsPut
<1>5. CASE rcall.what \in {filePut, cifsPut}
  <2>1. /\ rcall.what.steps = <<"create", "write", "rename">> /\ rcall.what.op = "put"
        /\ rcall.what.cleans \/ rcall.what = cifsPut
    <3>1. CASE rcall.what = filePut
      BY <3>1 DEF Put, filePut
    <3>2. CASE rcall.what = cifsPut
      BY <3>2 DEF Put, cifsPut
    <3> QED
      BY <1>5, <3>1, <3>2
  <2>2. /\ Len(cephPut.steps) = 2 /\ Len(glusterPut.steps) = 2 /\ Len(sftpPut.steps) = 4
        /\ Len(nfsPut.steps) = 4 /\ Len(hdfsPut.steps) = 4 /\ Len(rcall.what.steps) = 3
    BY <2>1 DEF Put, cephPut, glusterPut, sftpPut, nfsPut, hdfsPut
  <2>3. rcall.what \notin {cephPut, glusterPut, sftpPut, nfsPut, hdfsPut}
    BY <2>2
  <2> QED
    BY <2>1, <2>3 DEF IsPut, FilePut, Steps, InPlace, MayTear, MayVanish
<1>6. CASE rcall.what = sftpPut
  BY <1>6 DEF IsPut, MakeWayPut, Steps, InPlace, MayTear, MayVanish, Put, cephPut, glusterPut,
              sftpPut, nfsPut, hdfsPut
<1>7. CASE rcall.what = nfsPut
  <2>1. /\ rcall.what.steps = <<"unlink", "create", "write", "rename">>
        /\ rcall.what.op = "put" /\ rcall.what.cleans
    BY <1>7 DEF Put, nfsPut
  <2>2. /\ Len(cephPut.steps) = 2 /\ Len(glusterPut.steps) = 2 /\ sftpPut.steps[1] = "create"
    BY DEF Put, cephPut, glusterPut, sftpPut
  <2>3. /\ rcall.what \notin {cephPut, glusterPut, sftpPut}
        /\ rcall.what \in {nfsPut, hdfsPut}
    BY <1>7, <2>1, <2>2
  <2> QED
    BY <2>1, <2>3 DEF IsPut, UnlinkPut, Steps, InPlace, MayTear, MayVanish
<1> QED
  BY <1>1, <1>2, <1>3, <1>4, <1>5, <1>6, <1>7

LEMMA DeleteKinds ==
  ASSUME rcall.what \in Deletes
  PROVE  ~IsPut
<1>1. rcall.what \in {Quiet, dragonflyDelete, b2Delete}
  BY DEF Deletes, s3Delete, ossDelete, tosDelete, cosDelete, obsDelete, bosDelete, ks3Delete,
         ibmcosDelete, qingstorDelete, swiftDelete, sqlDelete, memDelete, storjDelete,
         azureDelete, qiniuDelete, gsDelete, etcdDelete, tikvDelete, redisDelete, webdavDelete,
         bunnyDelete, restfulDelete, fileDelete, sftpDelete, nfsDelete, hdfsDelete, cifsDelete,
         glusterDelete, cephDelete
<1> QED
  BY <1>1 DEF IsPut, Quiet, dragonflyDelete, b2Delete, Delete

LEMMA RequestCallFacts ==
  ASSUME RequestsTypeOK, rcall # <<>>
  PROVE  /\ IsPut <=> rcall.what \in Puts
         /\ ~IsPut <=> rcall.what \in Deletes
         /\ rcall.inplace \in BOOLEAN
<1>1. rcall.what \in Puts \cup Deletes /\ rcall.inplace \in BOOLEAN
  BY RequestAssumption DEF RequestsTypeOK
<1> QED
  BY <1>1, PutKinds, DeleteKinds

LEMMA StepCount ==
  ASSUME RequestsTypeOK, rcall # <<>>, IsPut
  PROVE  Len(Steps) \in 1 .. 4 /\ 1 \in 1 .. Len(Steps)
<1>1. OnePut \/ OverPut \/ GlusterPut \/ FilePut \/ MakeWayPut \/ UnlinkPut
  BY RequestCallFacts, PutKinds
<1>2. \/ Steps = <<"put">> \/ Steps = <<"begin", "extend">> \/ Steps = <<"create", "write">>
      \/ Steps = <<"create", "write", "rename">>
      \/ Steps = <<"create", "write", "remove", "rename">>
      \/ Steps = <<"unlink", "create", "write", "rename">>
  BY <1>1 DEF OnePut, OverPut, GlusterPut, FilePut, MakeWayPut, UnlinkPut
<1>3. Len(Steps) \in 1 .. 4
  BY <1>2
<1>4. \A n \in 1 .. 4 : 1 \in 1 .. n
  OBVIOUS
<1> QED
  BY <1>3, <1>4, Zenon

\* What depends on the call alone.
LEMMA SameRequest ==
  ASSUME rcall' = rcall
  PROVE  /\ Steps' = Steps /\ (IsPut' <=> IsPut) /\ (InPlace' <=> InPlace)
         /\ (MayTear' <=> MayTear) /\ (MayVanish' <=> MayVanish)
  BY DEF Steps, IsPut, InPlace, MayTear, MayVanish

LEMMA RequestNumbers ==
  /\ Attempts \in Nat \ {0} /\ RequestFaults \in Nat /\ RequestCrashes \in Nat
  /\ 1 \in 1 .. Attempts /\ 0 \in 0 .. RequestFaults /\ 0 \in 0 .. RequestCrashes
  BY RequestAssumption

\* A Put has the invariant again if what it does to the object and to the files is in order.
LEMMA PutInvAgain ==
  ASSUME RequestsTypeOK, rcall # <<>>, IsPut, PutInv, rcall' = rcall, before' = before,
         object' \in {object, before, "new"} \cup (IF MayTear THEN {"part", "mixed"} ELSE {})
                                     \cup (IF MayVanish THEN {"none"} ELSE {}),
         temp' # "none" => OfFile /\ ~InPlace,
         rpc' \in {"ok", "failed"} => temp' = "none",
         rpc' = "run" => /\ step' \in 1 .. Len(Steps)
                         /\ OfFile /\ step' > WriteAt =>
                                (IF InPlace THEN object' ELSE temp') = "new",
         rpc' = "ok" => object' = "new" \/ (rcall.what = cephPut /\ before = "longer"),
         litter' => litter \/ rcall.what = cifsPut
  PROVE  PutInv'
<1>1. /\ Steps' = Steps /\ (InPlace' <=> InPlace)
      /\ (MayTear' <=> MayTear) /\ (MayVanish' <=> MayVanish)
      /\ (OfFile' <=> OfFile) /\ WriteAt' = WriteAt
  BY SameRequest DEF OfFile, WriteAt
<1>2. File' = IF InPlace THEN object' ELSE temp'
  BY <1>1 DEF File
<1>3. object' \in {before, "new"} \cup (IF MayTear THEN {"part", "mixed"} ELSE {})
                                 \cup (IF MayVanish THEN {"none"} ELSE {})
  BY DEF PutInv
<1> QED
  BY <1>1, <1>2, <1>3 DEF PutInv

\* The steps of a Put that go well, or stop half-way.
LEMMA PutDoes ==
  ASSUME RequestsTypeOK, rcall # <<>>, IsPut, PutInv, rpc = "run",
         NEW s, s = Steps[step], Does(s) \/ (HalfDone(s) /\ ~Skipped(s))
  PROVE  /\ step \in 1 .. Len(Steps) /\ Len(Steps) <= 4
         /\ object' \in {object, before, "new"} \cup (IF MayTear THEN {"part", "mixed"} ELSE {})
                                       \cup (IF MayVanish THEN {"none"} ELSE {})
         /\ temp' \in {temp, "none", "part", "new"}
         /\ temp' # "none" => OfFile /\ ~InPlace
         /\ Does(s) /\ step = Len(Steps) =>
                /\ temp' = "none"
                /\ object' = "new" \/ (rcall.what = cephPut /\ before = "longer")
         /\ Does(s) /\ OfFile /\ step >= WriteAt /\ step < Len(Steps) =>
                (IF InPlace THEN object' ELSE temp') = "new"
         /\ s = "remove" /\ ~Skipped(s) =>
                ~InPlace /\ temp' = temp /\ temp = "new" /\ step = 3 /\ Len(Steps) = 4
         /\ s = "unlink" => step = 1 /\ Len(Steps) = 4 /\ WriteAt = 3
<1>1. /\ before \in {"none", "old", "longer"} /\ step \in 1 .. Len(Steps)
      /\ (OfFile <=> Steps[1] \in {"create", "unlink"})
      /\ WriteAt = (IF Steps[1] = "unlink" THEN 3 ELSE 2)
      /\ temp # "none" => OfFile /\ ~InPlace
      /\ OfFile /\ step > WriteAt => File = "new"
  BY DEF PutInv, OfFile, WriteAt
<1>2. OnePut \/ OverPut \/ GlusterPut \/ FilePut \/ MakeWayPut \/ UnlinkPut
  BY RequestCallFacts, PutKinds
<1>3. CASE OnePut
  <2>1. /\ Len(Steps) = 1 /\ step = 1 /\ s = "put" /\ Steps[1] = "put" /\ ~InPlace
        /\ temp = "none"
    BY <1>1, <1>3 DEF OnePut
  <2> QED
    BY <2>1 DEF Does, HalfDone, Skipped, Written
<1>4. CASE OverPut
  <2>1. /\ Len(Steps) = 2 /\ Steps[1] = "begin" /\ ~InPlace /\ temp = "none" /\ MayTear
        /\ rcall.what = cephPut
        /\ \/ step = 1 /\ s = "begin"
           \/ step = 2 /\ s = "extend"
    BY <1>1, <1>4 DEF OverPut
  <2> QED
    BY <1>1, <2>1 DEF Does, HalfDone, Skipped, Written
<1>5. CASE GlusterPut
  <2>1. /\ Len(Steps) = 2 /\ Steps[1] = "create" /\ InPlace /\ temp = "none" /\ MayTear
        /\ \/ step = 1 /\ s = "create"
           \/ step = 2 /\ s = "write"
    BY <1>1, <1>5 DEF GlusterPut
  <2> QED
    BY <1>1, <2>1 DEF Does, HalfDone, Skipped, Written
<1>6. CASE FilePut
  <2>1. /\ Len(Steps) = 3 /\ Steps[1] = "create" /\ (MayTear <=> InPlace)
        /\ step > 2 => (IF InPlace THEN object ELSE temp) = "new"
        /\ \/ step = 1 /\ s = "create"
           \/ step = 2 /\ s = "write"
           \/ step = 3 /\ s = "rename"
    BY <1>1, <1>6 DEF FilePut, File
  <2>2. CASE step = 1
    <3>1. s = "create" /\ ~Skipped(s)
      BY <2>1, <2>2 DEF Skipped
    <3>2. \/ Does(s) /\ IF InPlace THEN object' = "part" /\ temp' = temp
                        ELSE temp' = "part" /\ object' = object
          \/ object' = object /\ temp' = temp
      BY <3>1 DEF Does, HalfDone, Written
    <3>3. InPlace => temp = "none"
      BY <1>1
    <3> QED
      BY <1>1, <2>1, <2>2, <3>1, <3>2, <3>3
  <2>3. CASE step = 2
    BY <1>1, <2>1, <2>3 DEF Does, HalfDone, Skipped, Written
  <2>4. CASE step = 3
    BY <1>1, <2>1, <2>4 DEF Does, HalfDone, Skipped, Written
  <2> QED
    BY <2>1, <2>2, <2>3, <2>4
<1>7. CASE MakeWayPut
  <2>1. /\ Len(Steps) = 4 /\ Steps[1] = "create" /\ (MayTear <=> InPlace) /\ MayVanish
        /\ step > 2 => (IF InPlace THEN object ELSE temp) = "new"
        /\ \/ step = 1 /\ s = "create"
           \/ step = 2 /\ s = "write"
           \/ step = 3 /\ s = "remove"
           \/ step = 4 /\ s = "rename"
    BY <1>1, <1>7 DEF MakeWayPut, File
  <2>2. CASE step = 1
    <3>1. s = "create" /\ ~Skipped(s)
      BY <2>1, <2>2 DEF Skipped
    <3>2. \/ Does(s) /\ IF InPlace THEN object' = "part" /\ temp' = temp
                        ELSE temp' = "part" /\ object' = object
          \/ object' = object /\ temp' = temp
      BY <3>1 DEF Does, HalfDone, Written
    <3>3. InPlace => temp = "none"
      BY <1>1
    <3> QED
      BY <1>1, <2>1, <2>2, <3>1, <3>2, <3>3
  <2>3. CASE step = 2
    BY <1>1, <2>1, <2>3 DEF Does, HalfDone, Skipped, Written
  <2>4. CASE step = 3
    BY <1>1, <2>1, <2>4 DEF Does, HalfDone, Skipped, Written
  <2>5. CASE step = 4
    BY <1>1, <2>1, <2>5 DEF Does, HalfDone, Skipped, Written
  <2> QED
    BY <2>1, <2>2, <2>3, <2>4, <2>5
<1>8. CASE UnlinkPut
  <2>1. /\ Len(Steps) = 4 /\ Steps[1] = "unlink" /\ (MayTear <=> InPlace)
        /\ (MayVanish <=> InPlace) /\ OfFile /\ WriteAt = 3
        /\ step > 3 => (IF InPlace THEN object ELSE temp) = "new"
        /\ \/ step = 1 /\ s = "unlink"
           \/ step = 2 /\ s = "create"
           \/ step = 3 /\ s = "write"
           \/ step = 4 /\ s = "rename"
    BY <1>1, <1>8 DEF UnlinkPut, File
  <2>2. CASE step = 1
    BY <1>1, <2>1, <2>2 DEF Does, HalfDone, Skipped
  <2>3. CASE step = 2
    <3>1. s = "create" /\ ~Skipped(s)
      BY <2>1, <2>3 DEF Skipped
    <3>2. \/ Does(s) /\ IF InPlace THEN object' = "part" /\ temp' = temp
                        ELSE temp' = "part" /\ object' = object
          \/ object' = object /\ temp' = temp
      BY <3>1 DEF Does, HalfDone, Written
    <3>3. InPlace => temp = "none"
      BY <1>1
    <3> QED
      BY <1>1, <2>1, <2>3, <3>1, <3>2, <3>3
  <2>4. CASE step = 3
    BY <1>1, <2>1, <2>4 DEF Does, HalfDone, Skipped, Written
  <2>5. CASE step = 4
    BY <1>1, <2>1, <2>5 DEF Does, HalfDone, Skipped, Written
  <2> QED
    BY <2>1, <2>2, <2>3, <2>4, <2>5
<1> QED
  BY <1>2, <1>3, <1>4, <1>5, <1>6, <1>7, <1>8

\* The whole again, or the end.
LEMMA AgainFacts ==
  ASSUME RequestsTypeOK, NEW last, Again(last)
  PROVE  /\ step' \in 1 .. 5 /\ attempt' \in 1 .. Attempts
         /\ \/ rpc' = "run" /\ step' = 1 /\ attempt' = attempt + 1
            \/ rpc' = "failed" /\ (attempt = Attempts \/ last)
<1>1. Attempts \in Nat \ {0} /\ attempt \in 1 .. Attempts /\ step \in 1 .. 5
  BY RequestNumbers DEF RequestsTypeOK
<1> QED
  BY <1>1 DEF Again

\* Whether a call is tried again depends on the faults alone.
LEMMA AttemptInvAgain ==
  ASSUME RequestsTypeOK, rcall # <<>>, AttemptInv, rcall' = rcall, RequestsSystem \/ Crash
  PROVE  AttemptInv'
<1>1. /\ Attempts \in Nat \ {0} /\ attempt \in 1 .. Attempts
      /\ rfaults \in Nat /\ (IsPut' <=> IsPut)
  BY RequestNumbers, SameRequest DEF RequestsTypeOK
<1>2. CASE PutStep \/ DeleteDone \/ Crash \/ Restart
  <2>1. \/ UNCHANGED <<rpc, attempt, rfaults, final>>
        \/ rpc' \in {"ok", "dead"}
        \/ rpc' = "run" /\ attempt' = 1 /\ rfaults' = rfaults
    BY <1>2 DEF PutStep, DeleteDone, Crash, Restart
  <2> QED
    BY <1>1, <2>1 DEF AttemptInv
<1>3. CASE PutFails
  <2>1. /\ rpc = "run" /\ IsPut /\ rfaults' = rfaults + 1 /\ attempt' = attempt
        /\ rpc' \in {"run", "clean"}
    BY <1>3 DEF PutFails, RequestFault
  <2> QED
    BY <1>1, <2>1 DEF AttemptInv
<1>4. CASE Clean
  <2>1. /\ rpc = "clean" /\ Again(final) /\ final' = final
        /\ rfaults' \in {rfaults, rfaults + 1}
    BY <1>4 DEF Clean, RequestFault
  <2> QED
    BY <1>1, <2>1, AgainFacts DEF AttemptInv
<1>5. CASE DeleteRefused
  <2>1. /\ ~IsPut /\ rcall.what.missing = "error" /\ Again(FALSE)
    BY <1>5 DEF DeleteRefused
  <2> QED
    BY <1>1, <2>1, AgainFacts DEF AttemptInv
<1>6. CASE DeleteFails
  <2>1. /\ rpc = "run" /\ ~IsPut /\ Again(final') /\ rfaults' = rfaults + 1
    BY <1>6 DEF DeleteFails, RequestFault
  <2> QED
    BY <1>1, <2>1, AgainFacts DEF AttemptInv
<1> QED
  BY <1>2, <1>3, <1>4, <1>5, <1>6 DEF RequestsSystem

\* A Put, until it is cleaned up after.
LEMMA PutInvStep ==
  ASSUME RequestsTypeOK, rcall # <<>>, IsPut, PutInv, rcall' = rcall, PutStep \/ PutFails
  PROVE  RequestsTypeOK' /\ PutInv'
<1> DEFINE s == Steps[step]
<1>1. /\ rpc = "run" /\ before' = before /\ litter' = litter /\ attempt' = attempt
      /\ beneath' = beneath /\ crashes' = crashes
      /\ Does(s) \/ (HalfDone(s) /\ ~Skipped(s))
  BY DEF PutStep, PutFails
<1>2. /\ step \in 1 .. Len(Steps) /\ Len(Steps) <= 4
      /\ object' \in {object, before, "new"} \cup (IF MayTear THEN {"part", "mixed"} ELSE {})
                                     \cup (IF MayVanish THEN {"none"} ELSE {})
      /\ temp' \in {temp, "none", "part", "new"}
      /\ temp' # "none" => OfFile /\ ~InPlace
      /\ Does(s) /\ step = Len(Steps) =>
             /\ temp' = "none"
             /\ object' = "new" \/ (rcall.what = cephPut /\ before = "longer")
      /\ Does(s) /\ OfFile /\ step >= WriteAt /\ step < Len(Steps) =>
             (IF InPlace THEN object' ELSE temp') = "new"
      /\ s = "remove" /\ ~Skipped(s) =>
             ~InPlace /\ temp' = temp /\ temp = "new" /\ step = 3 /\ Len(Steps) = 4
      /\ s = "unlink" => step = 1 /\ Len(Steps) = 4 /\ WriteAt = 3
      /\ WriteAt \in {2, 3}
  BY <1>1, PutDoes DEF WriteAt
<1>3. Len(Steps) \in Nat
  BY StepCount
<1>4. \/ /\ Does(s) /\ step' = step + 1 /\ UNCHANGED <<final, rfaults>>
         /\ rpc' = IF step = Len(Steps) THEN "ok" ELSE "run"
      \/ /\ s = "remove" /\ ~Skipped(s) /\ step' = step + 1 /\ rpc' = rpc /\ final' = final
         /\ rfaults' = rfaults + 1 /\ rfaults < RequestFaults
      \/ /\ s = "unlink" /\ Does(s) /\ step' = step + 1 /\ rpc' = rpc /\ final' = final
         /\ rfaults' = rfaults + 1 /\ rfaults < RequestFaults
      \/ /\ rpc' = "clean" /\ final' \in BOOLEAN /\ step' = step
         /\ rfaults' = rfaults + 1 /\ rfaults < RequestFaults
  BY DEF PutStep, PutFails, RequestFault
<1> HIDE DEF s
<1>5. RequestsTypeOK'
  <2>1. {object, before, beneath, temp} \subseteq Data
    BY DEF RequestsTypeOK
  <2>2. {object', before', beneath', temp'} \subseteq Data
    BY <1>1, <1>2, <2>1 DEF Data
  <2>3. step' \in 1 .. 5
    BY <1>2, <1>3, <1>4
  <2>4. rfaults' \in 0 .. RequestFaults
    BY <1>4, RequestNumbers DEF RequestsTypeOK
  <2>5. rpc' \in RPC /\ final' \in BOOLEAN
    BY <1>1, <1>4 DEF RPC, RequestsTypeOK
  <2> QED
    BY <1>1, <2>2, <2>3, <2>4, <2>5 DEF RequestsTypeOK
<1>6. CASE rpc' = "clean"
  BY <1>1, <1>2, <1>5, <1>6, PutInvAgain
<1>7. CASE Does(s) /\ step = Len(Steps) /\ rpc' = "ok"
  BY <1>1, <1>2, <1>5, <1>7, PutInvAgain
<1>8. CASE rpc' = "run"
  <2> DEFINE removed == s = "remove" /\ ~Skipped(s)
  <2>4. /\ step' = step + 1
        /\ (Does(s) /\ step # Len(Steps)) \/ removed
    BY <1>2, <1>4, <1>8
  <2>5. removed => step < Len(Steps)
    BY <1>2
  <2>1. /\ step < Len(Steps) /\ step' = step + 1
        /\ Does(s) \/ removed
    BY <1>2, <1>3, <2>4, <2>5
  <2>2. step' \in 1 .. Len(Steps)
    BY <1>2, <1>3, <2>1
  <2>3. OfFile /\ step' > WriteAt => (IF InPlace THEN object' ELSE temp') = "new"
    BY <1>2, <1>3, <2>1
  <2> QED
    BY <1>1, <1>2, <1>5, <1>8, <2>2, <2>3, PutInvAgain
<1> QED
  BY <1>1, <1>4, <1>5, <1>6, <1>7, <1>8

\* A Put that is cleaned up after, or dies.
LEMMA PutInvEnd ==
  ASSUME RequestsTypeOK, rcall # <<>>, IsPut, PutInv, rcall' = rcall, Clean \/ Restart \/ Crash
  PROVE  PutInv'
<1>1. OnePut \/ OverPut \/ GlusterPut \/ FilePut \/ MakeWayPut \/ UnlinkPut
  BY RequestCallFacts, PutKinds
<1>2. 1 \in 1 .. Len(Steps) /\ WriteAt \in {2, 3}
  BY StepCount DEF WriteAt
<1>3. temp # "none" => rcall.what.cleans \/ rcall.what = cifsPut
  <2>1. temp # "none" => OfFile /\ ~InPlace
    BY DEF PutInv
  <2> QED
    BY <1>1, <2>1 DEF OfFile, OnePut, OverPut, GlusterPut, FilePut, MakeWayPut, UnlinkPut
<1>4. CASE Clean
  <2> DEFINE left == temp # "none" /\ ~rcall.what.cleans
  <2>3. litter' = (litter \/ left) \/ litter' = litter
    BY <1>4 DEF Clean
  <2>4. litter' => litter \/ left
    BY <2>3
  <2>1. /\ object' = object \/ (MayVanish /\ object' = "none")
        /\ temp' = "none" /\ before' = before /\ Again(final)
    BY <1>4 DEF Clean, MayVanish
  <2>2. rpc' \in {"run", "failed"} /\ (rpc' = "run" => step' = 1)
    BY <2>1, AgainFacts
  <2> QED
    BY <1>2, <1>3, <2>1, <2>2, <2>4, PutInvAgain
<1>5. CASE Restart
  <2>1. /\ object' = object /\ temp' = "none" /\ before' = before /\ litter' = litter
        /\ rpc' = "run" /\ step' = 1
    BY <1>5 DEF Restart
  <2> QED
    BY <1>2, <2>1, PutInvAgain
<1>6. CASE Crash
  <2>1. UNCHANGED <<object, temp, before, litter>> /\ rpc' = "dead"
    BY <1>6 DEF Crash, dataVars
  <2>2. temp' # "none" => OfFile /\ ~InPlace
    BY <2>1 DEF PutInv
  <2> QED
    BY <2>1, <2>2, PutInvAgain
<1> QED
  BY <1>4, <1>5, <1>6

\* The other steps keep the types, and a Delete does what it says.
LEMMA RestInv ==
  ASSUME RequestsTypeOK, rcall # <<>>, rcall' = rcall,
         Clean \/ DeleteDone \/ DeleteRefused \/ DeleteFails \/ Crash \/ Restart
  PROVE  RequestsTypeOK' /\ (~IsPut => DeleteInv')
<1>1. /\ {object, before, beneath, temp} \subseteq Data /\ rfaults \in 0 .. RequestFaults
      /\ step \in 1 .. 5 /\ attempt \in 1 .. Attempts /\ litter \in BOOLEAN
      /\ final \in BOOLEAN /\ crashes \in 0 .. RequestCrashes /\ "none" \in Data
      /\ RequestFaults \in Nat /\ RequestCrashes \in Nat /\ 1 \in 1 .. Attempts
  BY RequestNumbers DEF RequestsTypeOK, Data
<1>2. CASE Clean
  <2>3. litter' = (litter \/ (temp # "none" /\ ~rcall.what.cleans)) \/ litter' = litter
    BY <1>2 DEF Clean
  <2>4. litter' \in BOOLEAN
    BY <1>1, <2>3
  <2>5. rfaults' \in 0 .. RequestFaults
    BY <1>1, <1>2 DEF Clean, RequestFault
  <2>6. object' \in {object, "none"} /\ temp' = "none" /\ UNCHANGED <<before, beneath>>
    BY <1>2 DEF Clean
  <2>7. Again(final) /\ UNCHANGED <<final, crashes>>
    BY <1>2 DEF Clean
  <2>1. /\ {object', before', beneath', temp'} \subseteq Data /\ litter' \in BOOLEAN
        /\ rfaults' \in 0 .. RequestFaults /\ Again(final) /\ UNCHANGED <<final, crashes>>
    BY <1>1, <2>4, <2>5, <2>6, <2>7
  <2>2. /\ rpc' \in {"run", "failed"} /\ step' \in 1 .. 5 /\ attempt' \in 1 .. Attempts
    BY <2>1, AgainFacts
  <2> QED
    BY <1>1, <2>1, <2>2 DEF RequestsTypeOK, RPC, DeleteInv
<1>3. CASE DeleteDone
  <2>1. /\ {object', before', beneath', temp'} \subseteq Data /\ rpc' = "ok"
        /\ UNCHANGED <<step, attempt, litter, final, rfaults, crashes>>
        /\ object' = "none" \/ rcall.what.latest
    BY <1>1, <1>3 DEF DeleteDone
  <2> QED
    BY <1>1, <2>1 DEF RequestsTypeOK, RPC, DeleteInv
<1>4. CASE DeleteRefused
  <2>1. /\ {object', before', beneath', temp'} \subseteq Data
        /\ UNCHANGED <<litter, final, rfaults, crashes>> /\ Again(FALSE)
    BY <1>1, <1>4 DEF DeleteRefused, dataVars
  <2>2. /\ rpc' \in {"run", "failed"} /\ step' \in 1 .. 5 /\ attempt' \in 1 .. Attempts
    BY <2>1, AgainFacts
  <2> QED
    BY <1>1, <2>1, <2>2 DEF RequestsTypeOK, RPC, DeleteInv
<1>5. CASE DeleteFails
  <2>1. /\ {object', before', beneath', temp'} \subseteq Data /\ final' \in BOOLEAN
        /\ rfaults' \in 0 .. RequestFaults /\ UNCHANGED <<litter, crashes>> /\ Again(final')
    BY <1>1, <1>5 DEF DeleteFails, RequestFault
  <2>2. /\ rpc' \in {"run", "failed"} /\ step' \in 1 .. 5 /\ attempt' \in 1 .. Attempts
    BY <2>1, AgainFacts
  <2> QED
    BY <1>1, <2>1, <2>2 DEF RequestsTypeOK, RPC, DeleteInv
<1>6. CASE Crash
  BY <1>1, <1>6 DEF Crash, dataVars, RequestsTypeOK, RPC, DeleteInv
<1>7. CASE Restart
  <2>1. /\ rpc' = "run" /\ step' = 1 /\ attempt' = 1 /\ final' = FALSE /\ temp' = "none"
        /\ UNCHANGED <<object, before, beneath, litter, rfaults, crashes>>
    BY <1>7 DEF Restart
  <2>2. {object', before', beneath', temp'} \subseteq Data
    BY <1>1, <2>1
  <2> QED
    <3>1. step' \in 1 .. 5 /\ rpc' \in RPC /\ rpc' # "ok"
      BY <2>1 DEF RPC
    <3>2. /\ attempt' \in 1 .. Attempts
          /\ rfaults' \in 0 .. RequestFaults /\ crashes' \in 0 .. RequestCrashes
      BY <1>1, <2>1
    <3>3. litter' \in BOOLEAN /\ final' \in BOOLEAN
      BY <1>1, <2>1, Zenon
    <3> QED
      BY <2>2, <3>1, <3>2, <3>3 DEF RequestsTypeOK, DeleteInv
<1> QED
  BY <1>2, <1>3, <1>4, <1>5, <1>6, <1>7

LEMMA RequestInvInit == RequestsInit \/ RequestsIdle => RequestInv
<1> SUFFICES ASSUME RequestsInit \/ RequestsIdle PROVE RequestInv
  OBVIOUS
<1>1. /\ step = 1 /\ attempt = 1 /\ temp = "none" /\ litter = FALSE /\ final = FALSE
      /\ before = object /\ rfaults = 0 /\ crashes = 0
      /\ object \in {"none", "old", "longer"} /\ beneath \in {"none", "old"}
      /\ \/ rcall = <<>> /\ rpc = "idle"
         \/ rcall \in RequestCalls /\ rpc = "run"
  BY DEF RequestsInit, RequestsIdle, NoRequest
<1>2. RequestsTypeOK
  <2>1. litter \in BOOLEAN /\ final \in BOOLEAN
    BY <1>1, Zenon
  <2>2. {object, before, beneath, temp} \subseteq Data
    BY <1>1 DEF Data
  <2>3. /\ rfaults \in 0 .. RequestFaults /\ crashes \in 0 .. RequestCrashes
        /\ attempt \in 1 .. Attempts /\ step \in 1 .. 5
    BY <1>1, RequestNumbers
  <2> QED
    BY <1>1, <2>1, <2>2, <2>3 DEF RequestsTypeOK, RPC
<1>3. rcall \in RequestCalls => rcall # <<>>
  <2> SUFFICES ASSUME <<>> \in RequestCalls PROVE FALSE
    OBVIOUS
  <2>1. <<>> \in [what : Puts \cup Deletes, inplace : BOOLEAN]
    BY RequestAssumption
  <2>2. DOMAIN <<>> = {"what", "inplace"}
    BY <2>1
  <2> QED
    BY <2>2
<1>4. ASSUME rpc = "run", rcall # <<>>
      PROVE  AttemptInv /\ (IsPut => PutInv) /\ DeleteInv
  <2>1. AttemptInv /\ DeleteInv
    BY <1>1, <1>4 DEF AttemptInv, DeleteInv
  <2>2. ASSUME IsPut PROVE PutInv
    <3>2. 1 \in 1 .. Len(Steps) /\ WriteAt \in {2, 3}
      BY <1>2, <1>4, <2>2, StepCount DEF WriteAt
    <3>3. ~litter
      BY <1>1, Zenon
    <3> QED
      BY <1>1, <1>4, <3>2, <3>3 DEF PutInv
  <2> QED
    BY <2>1, <2>2
<1> QED
  BY <1>1, <1>2, <1>3, <1>4 DEF RequestInv

LEMMA RequestInvStep == RequestInv /\ [RequestsNext]_requestVars => RequestInv'
<1> SUFFICES ASSUME RequestInv, [RequestsNext]_requestVars PROVE RequestInv'
  OBVIOUS
<1>1. CASE UNCHANGED requestVars
  BY <1>1
     DEF requestVars, dataVars, RequestInv, RequestsTypeOK, AttemptInv, PutInv, DeleteInv, IsPut,
         Steps, InPlace, MayTear, MayVanish, File, OfFile, WriteAt
<1>2. CASE RequestsNext
  <2>1. rcall' = rcall /\ rpc # "idle"
    BY <1>2 DEF RequestsNext, RequestsSystem, PutStep, PutFails, Clean, DeleteDone, DeleteRefused,
       DeleteFails, Restart, Crash
  <2>2. /\ rcall # <<>> /\ RequestsTypeOK /\ AttemptInv
        /\ IF IsPut THEN PutInv ELSE DeleteInv
    BY <2>1 DEF RequestInv
  <2>3. AttemptInv'
    BY <1>2, <2>1, <2>2, AttemptInvAgain DEF RequestsNext
  <2>4. IsPut' <=> IsPut
    BY <2>1, SameRequest
  <2>5. CASE PutStep \/ PutFails
    <3>1. IsPut
      BY <2>5 DEF PutStep, PutFails
    <3>2. RequestsTypeOK' /\ PutInv'
      BY <2>1, <2>2, <2>5, <3>1, PutInvStep
    <3> QED
      BY <2>1, <2>2, <2>3, <2>4, <3>1, <3>2 DEF RequestInv
  <2>6. CASE Clean \/ DeleteDone \/ DeleteRefused \/ DeleteFails \/ Crash \/ Restart
    <3>1. RequestsTypeOK' /\ (~IsPut => DeleteInv')
      BY <2>1, <2>2, <2>6, RestInv
    <3>2. ASSUME IsPut PROVE PutInv'
      <4>1. Clean \/ Restart \/ Crash
        BY <2>6, <3>2 DEF DeleteDone, DeleteRefused, DeleteFails
      <4> QED
        BY <2>1, <2>2, <3>2, <4>1, PutInvEnd
    <3> QED
      BY <2>1, <2>2, <2>3, <2>4, <3>1, <3>2 DEF RequestInv
  <2> QED
    BY <1>2, <2>5, <2>6 DEF RequestsNext, RequestsSystem
<1> QED
  BY <1>1, <1>2

\* What the invariant says to who calls.
LEMMA RequestInvSays == RequestInv => RequestsRight
<1> SUFFICES ASSUME RequestInv, rcall # <<>> PROVE RequestsRight
  BY DEF RequestsRight
<1>1. RequestsTypeOK /\ AttemptInv /\ IF IsPut THEN PutInv ELSE DeleteInv
  BY DEF RequestInv
<1>2. ASSUME IsPut
      PROVE  /\ object \in Whole \/ MayTear
             /\ object = "none" => before = "none" \/ MayVanish
             /\ rpc = "ok" => object = "new" \/ (rcall.what = cephPut /\ before = "longer")
             /\ rpc \in {"ok", "failed"} => temp = "none"
             /\ litter => rcall.what = cifsPut
  BY <1>1, <1>2 DEF PutInv, Whole
<1>3. ASSUME ~IsPut, rpc = "ok" PROVE object = "none" \/ rcall.what.latest
  BY <1>1, <1>3 DEF DeleteInv
<1>4. rpc = "failed" => final \/ rfaults >= Attempts \/ (~IsPut /\ rcall.what.missing = "error")
  BY <1>1 DEF AttemptInv
<1> QED
  BY <1>2, <1>3, <1>4 DEF RequestsRight

-----------------------------------------------------------------------------
(* What holds of a read besides its type.                                  *)

\* what was opened is the object as it is read
Steady == ~gcall.get.live \/ gchanges = 0

\* what happened has a reason
WhyInv ==
    /\ gcall \in ReadCalls /\ gpc # "idle"
    /\ version = Gone => vanished
    /\ gchanges = 0 => version = 1
    /\ gpc \in {"read", "ok"} /\ gcall.kind # "single" =>
           /\ gchanges = 0 => opened = 1
           /\ Steady => opened # Gone
    /\ gpc \in {"get", "read", "look"} => gcall.kind # "single"
    /\ gpc = "meta" => gcall.kind \in {"stream", "single"}
    /\ gpc = "target" => gcall.kind = "single"
    /\ gpc \in {"meta", "get", "target"} => read = <<>> /\ raw = <<>>
    /\ gpc \in {"look", "failed"} =>
           gfaults > 0 \/ gchanges > 0 \/ (gcall.get.zero = "refused" /\ Limit = 0)
    /\ gpc = "skipped" => vanished
    /\ gpc = "panic" => gcall.head.failed = "nothing" \/ gcall.head.gone = "pointer"

\* each byte comes from its place, and from what was opened
BytesInv ==
    /\ \A i \in DOMAIN read : read[i][2] = gcall.off + i - 1
    /\ Limit >= 0 => Len(read) <= Limit
    /\ ~gcall.get.live => \A i \in DOMAIN read : read[i][1] = opened
    /\ Steady => read = <<>> \/ gcall.off + Len(read) <= gcall.sizes[opened]

\* what a caller that got no error has
CallerInv ==
    gpc = "ok" /\ gcall.kind # "single" =>
        /\ gcall.kind = "full" => Len(read) = gcall.len
        /\ gcall.kind # "full" /\ Steady =>
               \/ Len(read) = gcall.sizes[opened] /\ (Limit >= 0 => Len(read) <= Limit)
               \/ Len(read) = Limit /\ Limit <= gcall.sizes[opened]

\* without encryption
PlainInv ==
    gpc = "read" /\ ~gcall.encrypted =>
        /\ raw = <<>> /\ at = gcall.off + Len(read)

\* the chunk that is being read
RawInv ==
    gpc = "read" /\ gcall.encrypted =>
        /\ Len(raw) <= EncChunk /\ Len(raw) <= at
        /\ \A i \in DOMAIN raw :
               /\ raw[i][1] # Gone /\ raw[i][2] = at - Len(raw) + i - 1
               /\ raw[i][2] < StoredSize(raw[i][1])
               /\ raw[i][1] = 2 => opened # 1
               /\ ~gcall.get.live => raw[i][1] = opened
        /\ BaseLimit > 0 => at <= BaseOff + BaseLimit

\* the chunk c is next, and those before it were given to the caller
AtChunk(c) ==
    /\ at - Len(raw) = c * EncChunk /\ FirstChunk <= c
    /\ IF c = FirstChunk THEN read = <<>> ELSE Len(read) = c * PlainChunk - gcall.off

\* the last chunk, a shorter one, was given to the caller
Over ==
    /\ raw = <<>> /\ at >= StoredSize(opened)
    /\ IF gcall.get.live THEN opened # 1 /\ at >= StoredSize(2)
       ELSE Len(read) = gcall.sizes[opened] - gcall.off

ChunkInv ==
    gpc = "read" /\ gcall.encrypted => Satisfied \/ Over \/ \E c \in 0..at : AtChunk(c)

ReadInv ==
    ReadTypeOK /\ WhyInv /\ BytesInv /\ CallerInv /\ PlainInv /\ RawInv /\ ChunkInv

-----------------------------------------------------------------------------
(* Plain bytes and what is stored of them.                                 *)

LEMMA Chunk0 == PlainChunk \in Nat \ {0} /\ Overhead \in Nat \ {0} /\ EncChunk \in Nat \ {0}
  BY ReadingAssumption DEF EncChunk

LEMMA Quotient ==
  ASSUME NEW a \in Nat, NEW b \in Nat \ {0}, NEW q \in Nat, NEW r \in Nat,
         a = q * b + r, r < b
  PROVE  a \div b = q /\ a % b = r
<1> DEFINE d == a \div b
           m == a % b
<1>1. d \in Nat /\ m \in 0 .. (b - 1) /\ a = b * d + m
  BY Division
<1> HIDE DEF d, m
<1>2. d = q
  <2>1. CASE d < q
    <3>1. d + 1 <= q /\ d + 1 \in Nat
      BY <1>1, <2>1
    <3>2. (d + 1) * b <= q * b
      BY <1>1, <3>1, Products
    <3>3. (d + 1) * b = d * b + b /\ d * b \in Nat /\ q * b \in Nat /\ b * d = d * b
      BY <1>1, Products
    <3> DEFINE db == d * b
               qb == q * b
    <3> HIDE DEF db, qb
    <3>4. db \in Nat /\ qb \in Nat /\ db + b <= qb /\ a = db + m /\ a = qb + r
      BY <1>1, <3>2, <3>3 DEF db, qb
    <3> QED
      BY <1>1, <3>4
  <2>2. CASE q < d
    <3>1. q + 1 <= d /\ q + 1 \in Nat
      BY <1>1, <2>2
    <3>2. (q + 1) * b <= d * b
      BY <1>1, <3>1, Products
    <3>3. (q + 1) * b = q * b + b /\ q * b \in Nat /\ d * b \in Nat /\ b * d = d * b
      BY <1>1, Products
    <3> DEFINE db == d * b
               qb == q * b
    <3> HIDE DEF db, qb
    <3>4. db \in Nat /\ qb \in Nat /\ qb + b <= db /\ a = db + m /\ a = qb + r
      BY <1>1, <3>2, <3>3 DEF db, qb
    <3> QED
      BY <1>1, <3>4
  <2> QED
    BY <1>1, <2>1, <2>2
<1>3. m = r
  <2>1. b * d = q * b
    BY <1>2, Products
  <2>2. q * b \in Nat
    BY Products
  <2> DEFINE qb == q * b
  <2>3. a = qb + m /\ a = qb + r /\ qb \in Nat
    BY <1>1, <2>1, <2>2
  <2> HIDE DEF qb
  <2> QED
    BY <1>1, <2>3
<1> QED
  BY <1>2, <1>3 DEF d, m

\* Chunk c has plain bytes exactly if it has stored ones, and as many but for its
\* overhead: all it can hold, or what is left of the object.
LEMMA Chunks ==
  ASSUME NEW n \in Nat, NEW c \in Nat
  PROVE  /\ Encrypted(n) \in Nat /\ c * PlainChunk \in Nat /\ c * EncChunk \in Nat
         /\ c * PlainChunk < n <=> c * EncChunk < Encrypted(n)
         /\ c * PlainChunk + PlainChunk <= n => c * EncChunk + EncChunk <= Encrypted(n)
         /\ c * PlainChunk < n /\ n < c * PlainChunk + PlainChunk =>
                Encrypted(n) = c * EncChunk + (n - c * PlainChunk) + Overhead
<1> DEFINE k == (n + PlainChunk - 1) \div PlainChunk
           kp == PlainChunk * k
           ko == Overhead * k
           cp == c * PlainChunk
           co == c * Overhead
<1>1. /\ k \in Nat /\ kp \in Nat /\ ko \in Nat /\ cp \in Nat /\ co \in Nat
      /\ kp <= n + PlainChunk - 1 /\ n - 1 < kp
  <2>1. n + PlainChunk - 1 \in Nat
    BY Chunk0
  <2>2. k \in Nat /\ kp <= n + PlainChunk - 1 /\ n + PlainChunk - 1 < kp + PlainChunk
    BY <2>1, Chunk0, Division
  <2> HIDE DEF k
  <2>3. kp \in Nat /\ ko \in Nat /\ cp \in Nat /\ co \in Nat
    BY <2>2, Chunk0, Products
  <2> QED
    BY <2>1, <2>2, <2>3, Chunk0
<1>2. Encrypted(n) = n + ko
  BY DEF Encrypted
<1>3. c * EncChunk = cp + co
  BY Chunk0 DEF EncChunk
<1> HIDE DEF k
<1>4. ASSUME c < k PROVE cp < n /\ co + Overhead <= ko
  <2>1. c + 1 <= k /\ c + 1 \in Nat
    BY <1>1, <1>4
  <2>2. (c + 1) * PlainChunk <= k * PlainChunk /\ (c + 1) * Overhead <= k * Overhead
    BY <1>1, <2>1, Chunk0, Products
  <2>3. (c + 1) * PlainChunk = cp + PlainChunk /\ (c + 1) * Overhead = co + Overhead
    BY Chunk0
  <2>4. k * PlainChunk = kp /\ k * Overhead = ko
    BY <1>1, Chunk0, Products
  <2> QED
    BY <1>1, <2>2, <2>3, <2>4, Chunk0
<1>5. ASSUME k <= c PROVE n <= cp /\ ko <= co
  <2>1. k * PlainChunk <= c * PlainChunk /\ k * Overhead <= c * Overhead
    BY <1>1, <1>5, Chunk0, Products
  <2>2. k * PlainChunk = kp /\ k * Overhead = ko
    BY <1>1, Chunk0, Products
  <2> QED
    BY <1>1, <2>1, <2>2
<1>6. ASSUME c + 1 < k PROVE cp + PlainChunk < n
  <2>1. c + 2 <= k /\ c + 2 \in Nat
    BY <1>1, <1>6
  <2>2. (c + 2) * PlainChunk <= k * PlainChunk
    BY <1>1, <2>1, Chunk0, Products
  <2>3. (c + 2) * PlainChunk = cp + PlainChunk + PlainChunk
    BY Chunk0
  <2>4. k * PlainChunk = kp
    BY <1>1, Chunk0, Products
  <2> QED
    BY <1>1, <2>2, <2>3, <2>4, Chunk0
<1>7. ASSUME cp < n, n < cp + PlainChunk PROVE ko = co + Overhead
  <2>1. k = c + 1
    BY <1>1, <1>5, <1>6, <1>7, Chunk0
  <2>2. ko = (c + 1) * Overhead /\ (c + 1) * Overhead = co + Overhead
    BY <2>1, Chunk0
  <2> QED
    BY <2>2
<1> HIDE DEF kp, ko, cp, co
<1>8. cp < n => c < k
  BY <1>1, <1>5
<1>9. c * PlainChunk = cp
  BY DEF cp
<1> QED
  BY <1>1, <1>2, <1>3, <1>4, <1>5, <1>7, <1>8, <1>9, Chunk0 DEF EncChunk

\* What List and Head say of an object that was encrypted is what was encrypted.
LEMMA PlainOfEncrypted ==
  ASSUME NEW n \in Nat
  PROVE  PlainSize(Encrypted(n)) = n
<1>1. CASE n = 0
  <2>1. PlainChunk - 1 \in Nat /\ PlainChunk - 1 < 1 * PlainChunk
    BY Chunk0
  <2>2. (PlainChunk - 1) \div PlainChunk = 0
    BY <2>1, Chunk0, Division
  <2>3. Encrypted(n) = 0
    BY <1>1, <2>2, Chunk0 DEF Encrypted
  <2> QED
    BY <1>1, <2>3, Chunk0 DEF PlainSize
<1>2. CASE n > 0
  <2> DEFINE c == (n - 1) \div PlainChunk
             cp == c * PlainChunk
             ce == c * EncChunk
             s == Encrypted(n)
  <2>1. n - 1 \in Nat
    BY <1>2
  <2>2. c \in Nat /\ cp \in Nat /\ cp < n /\ n <= cp + PlainChunk
    <3>1. c \in Nat /\ PlainChunk * c <= n - 1 /\ n - 1 < PlainChunk * c + PlainChunk
      BY <2>1, Chunk0, Division
    <3> HIDE DEF c
    <3>2. cp = PlainChunk * c /\ cp \in Nat
      BY <3>1, Chunk0, Products
    <3> HIDE DEF cp
    <3> QED
      BY <3>1, <3>2, Chunk0
  <2> HIDE DEF c
  <2>3. /\ s \in Nat /\ ce \in Nat /\ ce < s
        /\ n < cp + PlainChunk => s = ce + (n - cp) + Overhead
        /\ n = cp + PlainChunk => s = ce + EncChunk
    <3>1. /\ s \in Nat /\ ce \in Nat /\ ce < s
          /\ n < cp + PlainChunk => s = ce + (n - cp) + Overhead
      BY <2>2, Chunks
    <3>2. ASSUME n = cp + PlainChunk PROVE s = ce + EncChunk
      <4>1. (c + 1) * PlainChunk = cp + PlainChunk /\ (c + 1) * EncChunk = ce + EncChunk
        BY <2>2, Chunk0
      <4>2. c + 1 \in Nat
        BY <2>2
      <4>3. ~((c + 1) * EncChunk < s)
        BY <2>2, <3>2, <4>1, <4>2, Chunks
      <4>4. ce + EncChunk <= s
        BY <2>2, <3>2, Chunks
      <4> QED
        BY <3>1, <4>1, <4>3, <4>4, Chunk0
    <3> QED
      BY <3>1, <3>2
  <2>4. s > Overhead
    <3>1. n < cp + PlainChunk => s > Overhead
      BY <2>2, <2>3, Chunk0
    <3>2. n = cp + PlainChunk => s > Overhead
      BY <2>2, <2>3, Chunk0 DEF EncChunk
    <3> QED
      BY <2>2, <3>1, <3>2, Chunk0
  <2>5. PlainSize(s) = (s \div EncChunk) * PlainChunk
              + (IF s % EncChunk > Overhead THEN (s % EncChunk) - Overhead ELSE 0)
    <3> HIDE DEF s
    <3> QED
      BY <2>3, <2>4, Chunk0 DEF PlainSize
  <2>6. CASE n < cp + PlainChunk
    <3> DEFINE r == (n - cp) + Overhead
    <3>1. r \in Nat /\ r < EncChunk /\ s = ce + r /\ r > Overhead
      BY <2>2, <2>3, <2>6, Chunk0 DEF EncChunk
    <3> HIDE DEF r, s
    <3>2. s \div EncChunk = c /\ s % EncChunk = r
      BY <2>2, <2>3, <3>1, Chunk0, Quotient
    <3>3. PlainSize(s) = cp + (r - Overhead)
      BY <2>5, <3>1, <3>2
    <3>4. r = (n - cp) + Overhead
      BY DEF r
    <3> HIDE DEF cp
    <3> QED
      BY <2>2, <3>3, <3>4, Chunk0 DEF s
  <2>7. CASE n = cp + PlainChunk
    <3>1. s = (c + 1) * EncChunk + 0 /\ (c + 1) * PlainChunk = cp + PlainChunk
      BY <2>2, <2>3, <2>7, Chunk0
    <3> HIDE DEF s
    <3>2. s \div EncChunk = c + 1 /\ s % EncChunk = 0
      <4>1. c + 1 \in Nat /\ 0 \in Nat /\ 0 < EncChunk
        BY <2>2, Chunk0
      <4> QED
        BY <2>3, <3>1, <4>1, Chunk0, Quotient
    <3>3. PlainSize(s) = (c + 1) * PlainChunk + 0
      BY <2>5, <3>2, Chunk0
    <3> QED
      BY <2>2, <2>7, <3>1, <3>3, Chunk0 DEF s
  <2> QED
    BY <2>2, <2>6, <2>7, Chunk0
<1> QED
  BY <1>1, <1>2

-----------------------------------------------------------------------------
(* The call, and the range it asks of the store.                           *)

LEMMA MinOfTwo ==
  ASSUME NEW a \in Int, NEW b \in Int
  PROVE  Min({a, b}) = IF a <= b THEN a ELSE b
BY DEF Min

LEMMA ReadCallFacts ==
  ASSUME gcall \in ReadCalls
  PROVE  /\ gcall.off \in Nat /\ gcall.len \in Nat /\ gcall.kind \in ReadKinds
         /\ gcall.encrypted \in BOOLEAN
         /\ gcall.sizes[1] \in Nat /\ gcall.sizes[2] \in Nat
         /\ gcall.kind = "full" =>
                gcall.off + gcall.len <= gcall.sizes[1] /\ (gcall.len > 0 \/ gcall.off = 0)
         /\ gcall.kind # "full" => gcall.off = 0
         /\ gcall.kind = "whole" /\ gcall.encrypted /\ gcall.get.live => gcall.sizes[1] = 0
<1>1. gcall.sizes \in [1 .. 2 -> Nat] /\ gcall.off \in Nat /\ gcall.len \in Nat
  BY ReadingAssumption DEF MaxVersions
<1> QED
  BY <1>1, ReadingAssumption

LEMMA Stored ==
  ASSUME gcall \in ReadCalls
  PROVE  /\ StoredSize(Gone) = 0
         /\ \A v \in {1, 2} :
                StoredSize(v) = IF gcall.encrypted THEN Encrypted(gcall.sizes[v])
                                ELSE gcall.sizes[v]
         /\ \A v \in 0 .. 2 : StoredSize(v) \in Nat
<1>1. Encrypted(gcall.sizes[1]) \in Nat /\ Encrypted(gcall.sizes[2]) \in Nat
  BY ReadCallFacts, Chunks
<1> QED
  BY <1>1, ReadCallFacts DEF StoredSize, Gone

LEMMA Limits ==
  ASSUME gcall \in ReadCalls
  PROVE  /\ Listed = gcall.sizes[1]
         /\ gcall.kind = "stream" => Limit = gcall.sizes[1]
         /\ gcall.kind = "whole" => Limit = -1
         /\ gcall.kind \in {"full", "single"} => Limit = gcall.len
         /\ Limit \in Int /\ Limit >= -1
<1>1. Listed = gcall.sizes[1]
  BY ReadCallFacts, Stored, PlainOfEncrypted DEF Listed
<1>2. /\ gcall.kind = "stream" => Limit = Listed
      /\ gcall.kind = "whole" => Limit = -1
      /\ gcall.kind \in {"full", "single"} => Limit = gcall.len
  BY DEF Limit, All
<1> QED
  BY <1>1, <1>2, ReadCallFacts DEF ReadKinds

\* The range of the adapter below begins and ends with a chunk.
LEMMA Ranges ==
  ASSUME gcall \in ReadCalls
  PROVE  /\ FirstChunk \in Nat /\ BaseOff \in Nat /\ BaseLimit \in Int
         /\ FirstChunk * PlainChunk <= gcall.off
         /\ gcall.off < FirstChunk * PlainChunk + PlainChunk
         /\ gcall.off = 0 => FirstChunk = 0 /\ BaseOff = 0
         /\ gcall.encrypted => BaseOff = FirstChunk * EncChunk
         /\ ~gcall.encrypted => BaseOff = gcall.off /\ BaseLimit = Limit
         /\ gcall.encrypted /\ Limit > 0 =>
                \E e \in Nat :
                    /\ FirstChunk < e /\ BaseLimit > 0 /\ BaseOff + BaseLimit = e * EncChunk
                    /\ gcall.off + Limit <= e * PlainChunk
         /\ gcall.encrypted /\ ~(Limit > 0) => BaseLimit = -1
<1> DEFINE f == FirstChunk
<1>1. f \in Nat /\ PlainChunk * f <= gcall.off /\ gcall.off < PlainChunk * f + PlainChunk
  BY Chunk0, ReadCallFacts, Division DEF FirstChunk
<1> HIDE DEF f
<1>2. f * PlainChunk = PlainChunk * f /\ f * PlainChunk \in Nat /\ f * EncChunk \in Nat
  BY <1>1, Chunk0, Products
<1>3. gcall.off = 0 => f = 0
  <2>1. f >= 1 => 1 * PlainChunk <= f * PlainChunk
    BY <1>1, Chunk0, Products
  <2> QED
    BY <1>1, <1>2, <2>1, Chunk0
<1>4. BaseOff = IF gcall.encrypted THEN f * EncChunk ELSE gcall.off
  BY DEF BaseOff, f
<1>5. f = 0 => f * EncChunk = 0
  BY Chunk0
<1>6. ASSUME gcall.encrypted, Limit > 0
      PROVE  \E e \in Nat : /\ f < e /\ BaseLimit > 0 /\ BaseLimit \in Int
                            /\ BaseOff + BaseLimit = e * EncChunk
                            /\ gcall.off + Limit <= e * PlainChunk
  <2> DEFINE a == gcall.off + Limit - 1
             d == a \div PlainChunk
  <2>1. a \in Nat
    BY <1>6, ReadCallFacts, Limits
  <2>2. d \in Nat /\ PlainChunk * d <= a /\ a < PlainChunk * d + PlainChunk
    BY <2>1, Chunk0, Division
  <2>3. BaseLimit = (d - f + 1) * EncChunk
    BY <1>6 DEF BaseLimit, f
  <2>4. gcall.off + Limit = a + 1 /\ gcall.off <= a
    BY <1>6, ReadCallFacts, Limits
  <2> HIDE DEF a, d
  <2>5. f <= d
    <3>1. (d + 1) * PlainChunk = PlainChunk * d + PlainChunk
      BY <2>2, Chunk0
    <3>2. d + 1 <= f => (d + 1) * PlainChunk <= f * PlainChunk
      BY <1>1, <2>2, Chunk0, Products
    <3>3. PlainChunk * d \in Nat
      BY <2>2, Chunk0, Products
    <3> DEFINE pd == PlainChunk * d
               fp == f * PlainChunk
    <3>4. /\ pd \in Nat /\ fp \in Nat /\ fp <= gcall.off /\ a < pd + PlainChunk
          /\ d + 1 <= f => pd + PlainChunk <= fp
      BY <1>1, <1>2, <2>2, <3>1, <3>2, <3>3
    <3> HIDE DEF pd, fp
    <3> QED
      BY <1>1, <2>1, <2>2, <2>4, <3>4, ReadCallFacts, Chunk0
  <2>6. /\ d - f + 1 \in Nat \ {0}
        /\ (d - f + 1) * EncChunk = (d + 1) * EncChunk - f * EncChunk
    BY <1>1, <2>2, <2>5, Chunk0
  <2>7. (d - f + 1) * EncChunk > 0
    <3>1. 1 * EncChunk <= (d - f + 1) * EncChunk
      BY <2>6, Chunk0, Products
    <3>2. (d - f + 1) * EncChunk \in Nat
      BY <2>6, Chunk0, Products
    <3> QED
      BY <3>1, <3>2, Chunk0
  <2>8. (d + 1) * EncChunk \in Nat /\ d + 1 \in Nat
    BY <2>2, Chunk0, Products
  <2>9. BaseOff + BaseLimit = (d + 1) * EncChunk /\ BaseLimit > 0 /\ BaseLimit \in Int
    BY <1>2, <1>4, <1>6, <2>3, <2>6, <2>7, <2>8
  <2>10. gcall.off + Limit <= (d + 1) * PlainChunk
    <3>1. (d + 1) * PlainChunk = PlainChunk * d + PlainChunk
      BY <2>2, Chunk0
    <3>2. PlainChunk * d \in Nat
      BY <2>2, Chunk0, Products
    <3> QED
      BY <2>1, <2>2, <2>4, <3>1, <3>2, Chunk0
  <2> QED
    BY <1>1, <2>2, <2>5, <2>8, <2>9, <2>10
<1>7. gcall.encrypted /\ ~(Limit > 0) => BaseLimit = -1
  BY DEF BaseLimit, All
<1>8. ~gcall.encrypted => BaseLimit = Limit
  BY DEF BaseLimit
<1>9. BaseLimit \in Int
  BY <1>6, <1>7, <1>8, ReadCallFacts, Limits
<1> QED
  BY <1>1, <1>2, <1>3, <1>4, <1>5, <1>6, <1>7, <1>8, <1>9, ReadCallFacts DEF f

\* The range does not change while it is read.
LEMMA CallStays ==
  ASSUME gcall' = gcall
  PROVE  /\ Limit' = Limit /\ Listed' = Listed /\ FirstChunk' = FirstChunk
         /\ BaseOff' = BaseOff /\ BaseLimit' = BaseLimit
         /\ \A v : StoredSize(v)' = StoredSize(v)
<1>1. \A v : StoredSize(v)' = StoredSize(v)
  BY DEF StoredSize
<1>2. Listed' = Listed
  BY <1>1 DEF Listed
<1>3. Limit' = Limit
  BY <1>2 DEF Limit
<1>4. FirstChunk' = FirstChunk
  BY DEF FirstChunk
<1> QED
  BY <1>1, <1>2, <1>3, <1>4 DEF BaseOff, BaseLimit

\* A chunk that was read: the version of its first byte has it, and its plain bytes
\* are those of that version from the place where the chunk begins.
PlainLength(c, n) == IF c * PlainChunk + PlainChunk <= n THEN PlainChunk ELSE n - c * PlainChunk

LEMMA RawChunk ==
  ASSUME ReadTypeOK, gcall \in ReadCalls, gcall.encrypted, gpc = "read", RawInv, raw # <<>>,
         NEW c \in Nat, at - Len(raw) = c * EncChunk,
         NEW v, v = raw[1][1], NEW m, m = PlainLength(c, gcall.sizes[v])
  PROVE  /\ v \in {1, 2} /\ c * PlainChunk < gcall.sizes[v] /\ m \in 1 .. PlainChunk
         /\ c * PlainChunk + m <= gcall.sizes[v]
         /\ m < PlainChunk => /\ c * PlainChunk + m = gcall.sizes[v]
                              /\ StoredSize(v) = c * EncChunk + m + Overhead
         /\ c * EncChunk + m + Overhead <= StoredSize(v)
         /\ Decrypted(raw) = [i \in 1 .. m |-> <<v, c * PlainChunk + i - 1>>]
         /\ Authentic(raw) <=> /\ Len(raw) >= m + Overhead
                               /\ \A i \in 1 .. (m + Overhead) : raw[i] = <<v, c * EncChunk + i - 1>>
<1> DEFINE cp == c * PlainChunk
           ce == c * EncChunk
           n == gcall.sizes[v]
           s == StoredSize(v)
<1>1. /\ Len(raw) \in Nat \ {0} /\ 1 \in DOMAIN raw /\ at \in Nat
      /\ raw[1] \in Cell
  <2>1. raw \in Seq(Cell)
    BY DEF ReadTypeOK
  <2> QED
    BY <2>1, EmptySeq, LenProperties, ElementOfSeq DEF ReadTypeOK
<1>2. raw[1][1] # Gone /\ raw[1][2] = at - Len(raw) + 1 - 1 /\ raw[1][2] < StoredSize(raw[1][1])
  BY <1>1 DEF RawInv
<1>3. v \in {1, 2}
  BY <1>1, <1>2 DEF Cell, MaxVersions, Gone
<1>4. n \in Nat /\ s = Encrypted(n)
  BY <1>3, ReadCallFacts, Stored
<1>5. /\ cp \in Nat /\ ce \in Nat /\ s \in Nat
      /\ cp < n <=> ce < s
      /\ cp + PlainChunk <= n => ce + EncChunk <= s
      /\ cp < n /\ n < cp + PlainChunk => s = ce + (n - cp) + Overhead
  <2> HIDE DEF n, s
  <2>1. /\ Encrypted(n) \in Nat /\ cp \in Nat /\ ce \in Nat
        /\ cp < n <=> ce < Encrypted(n)
        /\ cp + PlainChunk <= n => ce + EncChunk <= Encrypted(n)
        /\ cp < n /\ n < cp + PlainChunk => Encrypted(n) = ce + (n - cp) + Overhead
    BY <1>4, Chunks
  <2> QED
    BY <1>4, <2>1
<1>6. raw[1][2] = ce /\ ce < s
  BY <1>1, <1>2, <1>5
<1>7. raw[1][2] \div EncChunk = c
  <2>1. ce = ce + 0 /\ 0 \in Nat /\ 0 < EncChunk
    BY <1>5, Chunk0
  <2> QED
    BY <1>5, <1>6, <2>1, Chunk0, Quotient
<1>8. m = IF cp + PlainChunk <= n THEN PlainChunk ELSE n - cp
  BY DEF PlainLength
<1>9. Min({EncChunk, s - ce}) = m + Overhead
  <2>1. Min({EncChunk, s - ce}) = IF EncChunk <= s - ce THEN EncChunk ELSE s - ce
    BY <1>5, Chunk0, MinOfTwo
  <2> HIDE DEF cp, ce, n, s
  <2> QED
    BY <1>4, <1>5, <1>6, <1>8, <2>1, Chunk0 DEF EncChunk
<1>10. Decrypted(raw) = [i \in 1 .. m |-> <<v, c * PlainChunk + i - 1>>]
  <2> DEFINE l == Min({EncChunk, s - ce})
             k == l - Overhead
  <2>1. Decrypted(raw) = [i \in 1 .. k |-> <<v, c * PlainChunk + i - 1>>]
    BY <1>7 DEF Decrypted
  <2>2. m \in Int
    <3> HIDE DEF cp, n
    <3> QED
      BY <1>4, <1>5, <1>8, Chunk0
  <2>3. l = m + Overhead
    BY <1>9
  <2> HIDE DEF l
  <2>4. k = m
    BY <2>2, <2>3, Chunk0
  <2> HIDE DEF k
  <2> QED
    BY <2>1, <2>4
<1>11. Authentic(raw) <=> /\ Len(raw) >= m + Overhead
                          /\ \A i \in 1 .. (m + Overhead) : raw[i] = <<v, c * EncChunk + i - 1>>
  BY <1>7, <1>9 DEF Authentic
<1>12. /\ cp < n /\ m \in 1 .. PlainChunk /\ cp + m <= n
       /\ m < PlainChunk => cp + m = n /\ s = ce + m + Overhead
       /\ ce + m + Overhead <= s
  <2> HIDE DEF cp, ce, n, s
  <2> QED
    BY <1>4, <1>5, <1>6, <1>8, Chunk0 DEF EncChunk
<1> QED
  BY <1>3, <1>10, <1>11, <1>12

-----------------------------------------------------------------------------
(* The steps that take no byte.                                            *)

LEMMA ReadInvInit ==
  ASSUME ReadInit
  PROVE  ReadInv
<1>1. /\ gcall \in ReadCalls /\ version = 1 /\ gpc \in {"meta", "get"}
      /\ gpc = "meta" <=> gcall.kind \in {"stream", "single"}
  BY DEF ReadInit
<1>2. /\ vanished = FALSE /\ opened = 0 /\ at = 0 /\ raw = <<>> /\ read = <<>>
      /\ gfaults = 0 /\ gchanges = 0
  BY DEF ReadInit, NoRead, Gone
<1>3. ReadTypeOK
  <2>1. raw \in Seq(Cell) /\ read \in Seq(Cell)
    BY <1>2, EmptySeq
  <2>2. gcall = <<>> \/ gcall \in ReadCalls
    BY <1>1
  <2>3. gpc \in GPC /\ {version, opened} \subseteq 0 .. MaxVersions
    BY <1>1, <1>2 DEF GPC, MaxVersions
  <2>4. at \in Nat /\ gfaults \in 0 .. ReadFaults /\ gchanges \in 0 .. ReadChanges
    BY <1>2, ReadingAssumption
  <2>5. vanished \in BOOLEAN
    BY <1>2
  <2> QED
    BY <2>1, <2>2, <2>3, <2>4, <2>5 DEF ReadTypeOK
<1>4. WhyInv
  <2>1. gpc = "get" => gcall.kind # "single"
    BY <1>1
  <2>2. version # Gone
    BY <1>1 DEF Gone
  <2> QED
    BY <1>1, <1>2, <2>1, <2>2 DEF WhyInv
<1>5. BytesInv
  <2>1. DOMAIN read = {} /\ Len(read) = 0
    BY <1>2
  <2>2. Limit >= 0 => Len(read) <= Limit
    BY <1>1, <2>1, Limits
  <2> QED
    BY <1>2, <2>1, <2>2 DEF BytesInv
<1>6. gpc # "read" /\ gpc # "ok"
  BY <1>1
<1> QED
  BY <1>3, <1>4, <1>5, <1>6 DEF ReadInv, CallerInv, PlainInv, RawInv, ChunkInv

\* What the caller has stays right if it reads on no longer.
LEMMA LeftAlone ==
  ASSUME ReadInv, gcall' = gcall, read' = read, opened' = opened,
         gchanges' = gchanges, gpc' # "read", gpc' = "ok" => gcall.kind = "single"
  PROVE  BytesInv' /\ CallerInv' /\ PlainInv' /\ RawInv' /\ ChunkInv'
<1>1. Limit' = Limit /\ (Steady' <=> Steady)
  BY CallStays DEF Steady
<1>2. BytesInv'
  BY <1>1 DEF ReadInv, BytesInv
<1> QED
  BY <1>2 DEF CallerInv, PlainInv, RawInv, ChunkInv

LEMMA FaultTyped ==
  ASSUME ReadTypeOK, ReadFault
  PROVE  gfaults' \in 0 .. ReadFaults /\ gfaults' > 0
BY ReadingAssumption DEF ReadTypeOK, ReadFault

LEMMA MetaInv == ASSUME ReadInv, Meta PROVE ReadInv'
<1> USE DEF ReadInv
<1>1. /\ gpc = "meta" /\ gcall.kind = "stream"
      /\ UNCHANGED <<gcall, version, vanished, opened, at, raw, read, gchanges>>
      /\ \/ gpc' = "get" /\ gfaults' = gfaults
         \/ gpc' = "get" /\ ReadFault
         \/ gpc' = "panic" /\ gcall.head.failed = "nothing" /\ ReadFault
  BY DEF Meta
<1>2. ReadTypeOK'
  BY <1>1, FaultTyped DEF ReadTypeOK, GPC
<1>3. WhyInv'
  BY <1>1 DEF WhyInv
<1> QED
  BY <1>1, <1>2, <1>3, LeftAlone

LEMMA OpenFailsInv == ASSUME ReadInv, OpenFails PROVE ReadInv'
<1> USE DEF ReadInv
<1>1. /\ gpc = "get" /\ gpc' = "look" /\ ReadFault
      /\ UNCHANGED <<gcall, version, vanished, opened, at, raw, read, gchanges>>
  BY DEF OpenFails
<1>2. ReadTypeOK' /\ gfaults' > 0
  BY <1>1, FaultTyped DEF ReadTypeOK, GPC
<1>3. WhyInv'
  BY <1>1, <1>2 DEF WhyInv
<1> QED
  BY <1>1, <1>2, <1>3, LeftAlone

LEMMA BreaksInv == ASSUME ReadInv, Breaks PROVE ReadInv'
<1> USE DEF ReadInv
<1>1. /\ gpc = "read" /\ gpc' = "look" /\ ReadFault
      /\ UNCHANGED <<gcall, version, vanished, opened, at, raw, read, gchanges>>
  BY DEF Breaks
<1>2. ReadTypeOK' /\ gfaults' > 0
  BY <1>1, FaultTyped DEF ReadTypeOK, GPC
<1>3. WhyInv'
  BY <1>1, <1>2 DEF WhyInv
<1> QED
  BY <1>1, <1>2, <1>3, LeftAlone

LEMMA LookAgainInv == ASSUME ReadInv, LookAgain PROVE ReadInv'
<1> USE DEF ReadInv
<1>1. /\ gpc = "look"
      /\ UNCHANGED <<gcall, version, vanished, opened, at, raw, read, gchanges>>
      /\ \/ gpc' = "skipped" /\ version = Gone /\ gfaults' = gfaults
         \/ gpc' = "failed" /\ gfaults' = gfaults
         \/ gpc' = "failed" /\ ReadFault
  BY DEF LookAgain
<1>2. ReadTypeOK' /\ (gfaults' = gfaults \/ gfaults' > 0)
  BY <1>1, FaultTyped DEF ReadTypeOK, GPC
<1>3. Limit' = Limit
  BY <1>1, CallStays
<1>4. WhyInv'
  BY <1>1, <1>2, <1>3 DEF WhyInv
<1> QED
  BY <1>1, <1>2, <1>4, LeftAlone

LEMMA SourceHeadInv == ASSUME ReadInv, SourceHead PROVE ReadInv'
<1> USE DEF ReadInv
<1>1. /\ gpc = "meta" /\ gcall.kind = "single"
      /\ UNCHANGED <<gcall, version, vanished, opened, at, raw, read, gchanges>>
      /\ \/ gpc' = "failed" /\ version = Gone /\ gfaults' = gfaults
         \/ gpc' = "target" /\ gfaults' = gfaults
         \/ gpc' = "panic" /\ gcall.head.failed = "nothing" /\ ReadFault
         \/ gpc' = "failed" /\ ReadFault
  BY DEF SourceHead
<1>2. ReadTypeOK' /\ (ReadFault => gfaults' > 0)
  BY <1>1, FaultTyped DEF ReadTypeOK, GPC
<1>3. version = Gone => gchanges > 0
  BY DEF WhyInv, ReadTypeOK, Gone
<1>4. WhyInv'
  BY <1>1, <1>2, <1>3 DEF WhyInv
<1> QED
  BY <1>1, <1>2, <1>4, LeftAlone

LEMMA TargetHeadInv == ASSUME ReadInv, TargetHead PROVE ReadInv'
<1> USE DEF ReadInv
<1>1. /\ gpc = "target"
      /\ UNCHANGED <<gcall, version, vanished, opened, at, raw, read, gchanges>>
      /\ \/ gpc' = "ok" /\ gfaults' = gfaults
         \/ gpc' = "panic" /\ gcall.head.gone = "pointer" /\ gfaults' = gfaults
         \/ gpc' = "ok" /\ ReadFault
         \/ gpc' = "failed" /\ ReadFault
  BY DEF TargetHead
<1>2. ReadTypeOK' /\ (ReadFault => gfaults' > 0)
  BY <1>1, FaultTyped DEF ReadTypeOK, GPC
<1>3. gcall.kind = "single"
  BY <1>1 DEF WhyInv
<1>4. WhyInv'
  BY <1>1, <1>2, <1>3 DEF WhyInv
<1> QED
  BY <1>1, <1>2, <1>3, <1>4, LeftAlone

LEMMA ObjectChangesInv == ASSUME ReadInv, ObjectChanges PROVE ReadInv'
<1> USE DEF ReadInv
<1>1. /\ gpc \in {"meta", "get", "read", "look"} /\ gchanges < ReadChanges
      /\ gchanges' = gchanges + 1 /\ version' \in {0, 2}
      /\ vanished' = (vanished \/ version' = Gone)
      /\ opened' = opened \/ (gcall.get.live /\ gpc = "read" /\ opened' = version')
      /\ UNCHANGED <<gcall, gpc, at, raw, read, gfaults>>
  BY DEF ObjectChanges, Gone
<1>2. /\ ReadTypeOK' /\ gchanges' > 0 /\ gchanges' # 0 /\ (Steady' <=> ~gcall.get.live)
      /\ Steady' => opened' = opened /\ Steady
      /\ opened' # opened => opened' \in {0, 2}
  <2>1. gchanges \in Nat
    BY DEF ReadTypeOK
  <2> QED
    BY <1>1, <2>1, ReadingAssumption DEF ReadTypeOK, MaxVersions, Gone, Steady
<1>3. /\ Limit' = Limit /\ FirstChunk' = FirstChunk /\ BaseOff' = BaseOff /\ BaseLimit' = BaseLimit
      /\ \A v : StoredSize(v)' = StoredSize(v)
  BY <1>1, CallStays
<1>4. WhyInv'
  BY <1>1, <1>2 DEF WhyInv
<1>5. BytesInv'
  BY <1>1, <1>2, <1>3 DEF BytesInv
<1>6. CallerInv' /\ PlainInv'
  BY <1>1 DEF CallerInv, PlainInv
<1>7. RawInv'
  <2> SUFFICES ASSUME gpc = "read", gcall.encrypted
               PROVE  RawInv'
    BY <1>1 DEF RawInv
  <2>1. /\ Len(raw) <= EncChunk /\ Len(raw) <= at
        /\ BaseLimit > 0 => at <= BaseOff + BaseLimit
    BY DEF RawInv
  <2>2. ASSUME NEW i \in DOMAIN raw
        PROVE  /\ raw[i][1] # Gone /\ raw[i][2] = at - Len(raw) + i - 1
               /\ raw[i][2] < StoredSize(raw[i][1])'
               /\ raw[i][1] = 2 => opened' # 1
               /\ ~gcall.get.live => raw[i][1] = opened'
    <3>1. /\ raw[i][1] # Gone /\ raw[i][2] = at - Len(raw) + i - 1
          /\ raw[i][2] < StoredSize(raw[i][1])
          /\ raw[i][1] = 2 => opened # 1
          /\ ~gcall.get.live => raw[i][1] = opened
      BY DEF RawInv
    <3>2. raw[i][2] < StoredSize(raw[i][1])'
      BY <1>1, <3>1 DEF StoredSize
    <3> QED
      BY <1>1, <1>2, <3>1, <3>2
  <2>3. \A i \in DOMAIN raw : raw[i][2] < (StoredSize(raw[i][1]))'
    BY <2>2
  <2> QED
    BY <1>1, <1>3, <2>1, <2>2, <2>3 DEF RawInv
<1>8. ChunkInv'
  <2> SUFFICES ASSUME gpc = "read", gcall.encrypted
               PROVE  (Satisfied \/ Over \/ \E c \in 0..at : AtChunk(c))'
    BY <1>1 DEF ChunkInv
  <2>1. CASE Satisfied
    BY <1>1, <1>3, <2>1 DEF Satisfied
  <2>2. CASE Over
    <3>1. opened' = opened \/ opened' = 2 \/ opened' = Gone
      BY <1>1, <1>2 DEF Gone
    <3>2. at >= StoredSize(opened')
      <4>1. opened' = Gone => StoredSize(opened') = 0
        BY DEF StoredSize
      <4>2. at >= StoredSize(2) \/ opened' = opened
        BY <1>1, <2>2 DEF Over
      <4>3. at \in Nat
        BY DEF ReadTypeOK
      <4> QED
        BY <2>2, <3>1, <4>1, <4>2, <4>3 DEF Over
    <3>3. at >= StoredSize(opened)' /\ (at >= StoredSize(2) <=> at >= StoredSize(2)')
      BY <1>1, <3>2 DEF StoredSize
    <3>4. opened # 1 => opened' # 1
      BY <1>2, <3>1 DEF Gone
    <3>5. Over'
      BY <1>1, <1>2, <2>2, <3>3, <3>4 DEF Over
    <3> QED
      BY <3>5
  <2>3. ASSUME NEW c \in 0 .. at, AtChunk(c) PROVE AtChunk(c)'
    BY <1>1, <1>3, <2>3 DEF AtChunk
  <2> QED
    BY <1>1, <2>1, <2>2, <2>3 DEF ChunkInv
<1> QED
  BY <1>2, <1>4, <1>5, <1>6, <1>7, <1>8

\* Nobody refuses the range of an object that is as it was listed, but an empty one
\* where a limit of 0 is no range.
LEMMA NotRefused ==
  ASSUME gcall \in ReadCalls, gcall.kind # "single", Refused(StoredSize(1))
  PROVE  gcall.get.zero = "refused" /\ Limit = 0
<1>1. CASE BaseLimit = 0 /\ gcall.get.zero = "refused"
  BY <1>1, ReadCallFacts, Limits, Ranges
<1>2. CASE (BaseOff > 0 \/ BaseLimit > 0) /\ BaseOff >= StoredSize(1)
  <2> DEFINE n == gcall.sizes[1]
  <2>1. n \in Nat /\ StoredSize(1) = IF gcall.encrypted THEN Encrypted(n) ELSE n
    BY ReadCallFacts, Stored
  <2>2. ~(gcall.off < n)
    <3> SUFFICES ASSUME gcall.off < n PROVE FALSE
      OBVIOUS
    <3>1. CASE gcall.encrypted
      <4>1. FirstChunk * PlainChunk < n
        <5>1. FirstChunk * PlainChunk \in Nat
          BY Chunk0, Ranges, Products
        <5> QED
          BY <2>1, <5>1, Ranges, ReadCallFacts
      <4>2. FirstChunk * EncChunk < Encrypted(n)
        BY <2>1, <4>1, Chunks, Ranges
      <4>3. BaseOff = FirstChunk * EncChunk
        BY <3>1, Ranges
      <4>4. BaseOff < StoredSize(1)
        BY <2>1, <3>1, <4>2, <4>3
      <4>5. BaseOff \in Nat /\ StoredSize(1) \in Nat
        BY <2>1, <3>1, Chunks, Ranges
      <4> HIDE DEF n
      <4> QED
        BY <1>2, <4>4, <4>5
    <3>2. CASE ~gcall.encrypted
      BY <1>2, <2>1, <3>2, Ranges, ReadCallFacts
    <3> QED
      BY <3>1, <3>2
  <2>3. gcall.off = 0 /\ n = 0 /\ ~(Limit > 0)
    BY <2>1, <2>2, ReadCallFacts, Limits DEF ReadKinds
  <2>4. BaseOff = 0 /\ ~(BaseLimit > 0)
    BY <2>3, Ranges, ReadCallFacts, Limits
  <2> QED
    BY <1>2, <2>4
<1> QED
  BY <1>1, <1>2 DEF Refused

LEMMA OpenInv == ASSUME ReadInv, Open PROVE ReadInv'
<1> USE DEF ReadInv
<1>1. /\ gpc = "get" /\ opened' = version /\ at' = BaseOff
      /\ UNCHANGED <<gcall, version, vanished, raw, read, gfaults, gchanges>>
      /\ \/ gpc' = "look" /\ (version = Gone \/ Refused(StoredSize(version)))
         \/ gpc' = "read" /\ version # Gone
  BY DEF Open
<1>2. /\ gcall \in ReadCalls /\ gcall.kind # "single" /\ read = <<>> /\ raw = <<>>
      /\ Len(read) = 0 /\ DOMAIN read = {} /\ Len(raw) = 0 /\ DOMAIN raw = {}
  BY <1>1 DEF WhyInv
<1>3. /\ Limit' = Limit /\ FirstChunk' = FirstChunk /\ BaseOff' = BaseOff /\ BaseLimit' = BaseLimit
      /\ (Steady' <=> Steady)
  BY <1>1, CallStays DEF Steady
<1>4. ReadTypeOK'
  <2>1. at' \in Nat
    BY <1>1, <1>2, Ranges
  <2> QED
    BY <1>1, <2>1 DEF ReadTypeOK, GPC
<1>5. WhyInv'
  <2>1. gpc' = "look" /\ gchanges = 0 => gcall.get.zero = "refused" /\ Limit = 0
    <3> SUFFICES ASSUME gpc' = "look", gchanges = 0
                 PROVE  gcall.get.zero = "refused" /\ Limit = 0
      OBVIOUS
    <3>1. version = 1
      BY DEF WhyInv
    <3>2. Refused(StoredSize(1))
      BY <1>1, <3>1 DEF Gone
    <3> QED
      BY <1>2, <3>2, NotRefused
  <2>2. gchanges \in Nat
    BY DEF ReadTypeOK
  <2> QED
    BY <1>1, <1>2, <1>3, <2>1, <2>2 DEF WhyInv
<1>6. BytesInv'
  BY <1>1, <1>2, <1>3 DEF BytesInv
<1>7. CallerInv'
  BY <1>1 DEF CallerInv
<1>8. PlainInv'
  BY <1>1, <1>2, Ranges, ReadCallFacts DEF PlainInv
<1>9. RawInv'
  <2> SUFFICES ASSUME gcall.encrypted
               PROVE  RawInv'
    BY <1>1 DEF RawInv
  <2>1. Len(raw) <= EncChunk /\ Len(raw) <= at'
    BY <1>1, <1>2, Chunk0, Ranges
  <2>2. BaseLimit > 0 => at' <= BaseOff + BaseLimit
    BY <1>1, <1>2, Ranges
  <2> QED
    BY <1>1, <1>2, <1>3, <2>1, <2>2 DEF RawInv
<1>10. ChunkInv'
  <2> SUFFICES ASSUME gcall.encrypted, gpc' = "read"
               PROVE  \E c \in 0 .. at' : AtChunk(c)'
    BY <1>1 DEF ChunkInv
  <2>1. at' = FirstChunk * EncChunk
    BY <1>1, <1>2, Ranges
  <2>2. FirstChunk \in 0 .. at'
    <3>1. FirstChunk \in Nat /\ EncChunk \in Nat /\ 1 \in Nat /\ 1 <= EncChunk
      BY <1>2, Ranges, Chunk0
    <3>2. 1 * FirstChunk <= EncChunk * FirstChunk
      BY <3>1, Products
    <3>3. EncChunk * FirstChunk = FirstChunk * EncChunk
      BY <3>1, Products
    <3>4. FirstChunk <= at'
      BY ONLY <2>1, <3>1, <3>2, <3>3
    <3> QED
      BY <2>1, <3>1, <3>4
  <2>3. AtChunk(FirstChunk)'
    <3>1. at' - Len(raw') = FirstChunk * EncChunk
      BY <1>1, <1>2, <2>1, Ranges
    <3> QED
      BY <1>1, <1>2, <1>3, <3>1, Ranges DEF AtChunk
  <2> QED
    BY <1>3, <2>2, <2>3
<1> QED
  BY <1>4, <1>5, <1>6, <1>7, <1>8, <1>9, <1>10

-----------------------------------------------------------------------------
(* A byte, and the end of the body.                                        *)

LEMMA LimitRead ==
  ASSUME ReadTypeOK, gcall \in ReadCalls
  PROVE  /\ Len(read) \in Nat /\ read \in [1 .. Len(read) -> Cell] /\ DOMAIN read = 1 .. Len(read)
         /\ Len(raw) \in Nat /\ raw \in [1 .. Len(raw) -> Cell] /\ DOMAIN raw = 1 .. Len(raw)
         /\ Limit \in Int /\ (~Satisfied => Limit = -1 \/ Len(read) < Limit)
         /\ at \in Nat /\ opened \in 0 .. 2 /\ StoredSize(opened) \in Nat
<1>1. read \in Seq(Cell) /\ raw \in Seq(Cell) /\ at \in Nat /\ opened \in 0 .. 2
  BY DEF ReadTypeOK, MaxVersions
<1>2. Len(read) \in Nat /\ read \in [1 .. Len(read) -> Cell] /\ DOMAIN read = 1 .. Len(read)
  BY <1>1, LenProperties
<1>3. Len(raw) \in Nat /\ raw \in [1 .. Len(raw) -> Cell] /\ DOMAIN raw = 1 .. Len(raw)
  BY <1>1, LenProperties
<1> QED
  BY <1>1, <1>2, <1>3, Limits, Stored DEF Satisfied

LEMMA ReadByteInv == ASSUME ReadInv, ReadByte PROVE ReadInv'
<1> USE DEF ReadInv
<1>1. /\ gpc = "read" /\ ~Satisfied /\ ~BodyEnds /\ ~ChunkReady /\ at' = at + 1
      /\ UNCHANGED <<gcall, gpc, version, vanished, opened, gfaults, gchanges>>
      /\ gcall.encrypted => raw' = Append(raw, <<opened, at>>) /\ read' = read
      /\ ~gcall.encrypted => read' = Append(read, <<opened, at>>) /\ raw' = raw
  BY DEF ReadByte
<1>2. gcall \in ReadCalls /\ gcall.kind # "single"
  BY <1>1 DEF WhyInv
<1>3. /\ Limit' = Limit /\ FirstChunk' = FirstChunk /\ BaseOff' = BaseOff /\ BaseLimit' = BaseLimit
      /\ (Steady' <=> Steady) /\ Limit \in Int
      /\ \A v : StoredSize(v)' = StoredSize(v)
  BY <1>1, <1>2, CallStays, Limits DEF Steady
<1>4. /\ Len(read) \in Nat /\ Len(raw) \in Nat /\ at \in Nat /\ opened \in 0 .. 2
      /\ read \in Seq(Cell) /\ raw \in Seq(Cell) /\ <<opened, at>> \in Cell
      /\ DOMAIN read = 1 .. Len(read) /\ DOMAIN raw = 1 .. Len(raw)
      /\ Limit = -1 \/ Len(read) < Limit
  BY <1>1, <1>2, LimitRead DEF ReadTypeOK, Cell
<1>5. /\ at < StoredSize(opened) /\ StoredSize(opened) \in Nat /\ opened \in {1, 2}
      /\ BaseLimit > 0 => at < BaseOff + BaseLimit
  <2>1. at < StoredSize(opened) /\ StoredSize(opened) \in Nat
    BY <1>1, <1>2, <1>4, LimitRead DEF BodyEnds
  <2>2. opened # 0
    BY <1>2, <1>4, <2>1, Stored DEF Gone
  <2>3. BaseLimit > 0 => at < BaseOff + BaseLimit
    BY <1>1, <1>2, <1>4, Ranges DEF BodyEnds
  <2> QED
    BY <1>4, <2>1, <2>2, <2>3
<1>6. ReadTypeOK'
  <2>1. Append(read, <<opened, at>>) \in Seq(Cell) /\ Append(raw, <<opened, at>>) \in Seq(Cell)
    BY <1>4, AppendProperties
  <2>2. at' \in Nat
    BY <1>1, <1>4
  <2>3. read \in Seq(Cell) /\ raw \in Seq(Cell)
    BY <1>4
  <2>4. read' \in Seq(Cell) /\ raw' \in Seq(Cell)
    BY <1>1, <2>1, <2>3, Zenon
  <2> QED
    BY <1>1, <2>2, <2>4 DEF ReadTypeOK
<1>7. WhyInv'
  BY <1>1, <1>2, <1>3 DEF WhyInv
<1>8. CallerInv'
  BY <1>1 DEF CallerInv
<1>9. CASE ~gcall.encrypted
  <2>1. /\ Len(read') = Len(read) + 1
        /\ DOMAIN read' = 1 .. (Len(read) + 1)
        /\ \A i \in 1 .. Len(read) : read'[i] = read[i]
        /\ read'[Len(read) + 1] = <<opened, at>>
    BY <1>1, <1>4, <1>9, AppendProperties, LenProperties
  <2>2. at = gcall.off + Len(read)
    BY <1>1, <1>9 DEF PlainInv
  <2>3. BytesInv'
    <3>1. \A i \in DOMAIN read' : read'[i][2] = gcall.off + i - 1
      <4>1. gcall.off \in Nat
        BY <1>2, ReadCallFacts
      <4>2. ASSUME NEW i \in 1 .. Len(read) PROVE read'[i][2] = gcall.off + i - 1
        BY <1>4, <2>1 DEF BytesInv
      <4>3. read'[Len(read) + 1][2] = gcall.off + (Len(read) + 1) - 1
        BY <1>4, <2>1, <2>2, <4>1
      <4>4. DOMAIN read' = 1 .. Len(read) \cup {Len(read) + 1}
        BY <1>4, <2>1
      <4> QED
        BY <4>2, <4>3, <4>4
    <3>2. Limit >= 0 => Len(read') <= Limit
      BY <1>3, <1>4, <2>1
    <3>3. ~gcall.get.live => \A i \in DOMAIN read' : read'[i][1] = opened
      BY <1>4, <2>1 DEF BytesInv
    <3>4. gcall.off + Len(read') <= gcall.sizes[opened]
      <4>1. StoredSize(opened) = gcall.sizes[opened]
        BY <1>2, <1>5, <1>9, Stored
      <4> QED
        BY <1>2, <1>4, <1>5, <2>1, <2>2, <4>1, ReadCallFacts
    <3> QED
      BY <1>1, <1>3, <3>1, <3>2, <3>3, <3>4 DEF BytesInv
  <2>4. PlainInv'
    BY <1>1, <1>2, <1>4, <1>9, <2>1, <2>2, ReadCallFacts, SMTT(30) DEF PlainInv
  <2> QED
    BY <1>1, <1>6, <1>7, <1>8, <1>9, <2>3, <2>4 DEF RawInv, ChunkInv
<1>10. CASE gcall.encrypted
  <2>1. /\ Len(raw') = Len(raw) + 1
        /\ DOMAIN raw' = 1 .. (Len(raw) + 1)
        /\ \A i \in 1 .. Len(raw) : raw'[i] = raw[i]
        /\ raw'[Len(raw) + 1] = <<opened, at>>
    BY <1>1, <1>4, <1>10, AppendProperties, LenProperties
  <2>2. BytesInv' /\ PlainInv'
    BY <1>1, <1>3, <1>10 DEF BytesInv, PlainInv
  <2>3. /\ Len(raw) <= EncChunk /\ Len(raw) <= at
        /\ \A i \in 1 .. Len(raw) :
               /\ raw[i][1] # Gone /\ raw[i][2] = at - Len(raw) + i - 1
               /\ raw[i][2] < StoredSize(raw[i][1])
               /\ raw[i][1] = 2 => opened # 1
               /\ ~gcall.get.live => raw[i][1] = opened
    BY <1>1, <1>4, <1>10 DEF RawInv
  <2>4. Len(raw) < EncChunk
    <3>1. raw = <<>> => Len(raw) = 0
      OBVIOUS
    <3>2. raw = <<>> \/ Len(raw) # EncChunk
      BY <1>1 DEF ChunkReady
    <3>3. Len(raw) <= EncChunk /\ Len(raw) \in Nat
      BY <1>4, <2>3
    <3> QED
      BY <3>1, <3>2, <3>3, Chunk0
  <2>5. RawInv'
    <3>1. Len(raw') <= EncChunk /\ Len(raw') <= at'
      BY <1>1, <1>4, <2>1, <2>3, <2>4, Chunk0
    <3>2. ASSUME NEW i \in DOMAIN raw'
          PROVE  /\ raw'[i][1] # Gone /\ raw'[i][2] = at' - Len(raw') + i - 1
                 /\ raw'[i][2] < StoredSize(raw'[i][1])
                 /\ raw'[i][1] = 2 => opened # 1
                 /\ ~gcall.get.live => raw'[i][1] = opened
      <4>1. CASE i \in 1 .. Len(raw)
        BY <1>1, <1>4, <2>1, <2>3, <4>1
      <4>2. CASE i = Len(raw) + 1
        <5>1. raw'[i][1] = opened /\ raw'[i][2] = at
          BY <2>1, <4>2
        <5>2. i = Len(raw') /\ at' - Len(raw') + i - 1 = at
          BY <1>1, <1>4, <2>1, <4>2
        <5>3. opened # Gone /\ (opened = 2 => opened # 1)
          BY <1>5 DEF Gone
        <5> QED
          BY <1>5, <5>1, <5>2, <5>3
      <4> QED
        BY <1>4, <2>1, <4>1, <4>2
    <3>3. BaseLimit > 0 => at' <= BaseOff + BaseLimit
      BY <1>1, <1>2, <1>4, <1>5, Ranges
    <3>4. \A i \in DOMAIN raw' : (raw[i][2] < StoredSize(raw[i][1]))'
      BY <1>1, <3>2 DEF StoredSize
    <3> QED
      BY <1>1, <1>3, <3>1, <3>2, <3>3, <3>4 DEF RawInv
  <2>6. ChunkInv'
    <3>1. ~Over
      BY <1>4, <1>5 DEF Over
    <3>2. PICK c \in 0 .. at : AtChunk(c)
      BY <1>1, <1>10, <3>1 DEF ChunkInv
    <3>3. at' - Len(raw') = at - Len(raw)
      BY <1>1, <1>4, <2>1
    <3>4. AtChunk(c)'
      BY <1>1, <1>3, <1>10, <3>2, <3>3 DEF AtChunk
    <3>5. c \in 0 .. at'
      BY <1>1, <1>4
    <3> QED
      BY <3>4, <3>5 DEF ChunkInv
  <2> QED
    BY <1>6, <1>7, <1>8, <2>2, <2>5, <2>6
<1> QED
  BY <1>9, <1>10

\* A body that ends before the caller has what it wants: a stream has all there is, and
\* a part was listed before the object changed.
LEMMA BodyEnded ==
  ASSUME ReadInv, gpc = "read", ~Satisfied, BodyEnds, raw = <<>>
  PROVE  /\ gcall.kind # "full" /\ Steady => Len(read) = gcall.sizes[opened]
         /\ gcall.kind = "full" => gchanges # 0
<1> USE DEF ReadInv
<1>1. /\ gcall \in ReadCalls /\ gcall.kind # "single"
      /\ gchanges = 0 => opened = 1
      /\ Steady => opened # 0
  BY DEF WhyInv, Gone
<1>2. /\ Len(read) \in Nat /\ at \in Nat /\ opened \in 0 .. 2 /\ Limit \in Int
      /\ Limit = -1 \/ Len(read) < Limit
      /\ Len(raw) = 0 /\ gcall.off \in Nat /\ StoredSize(opened) \in Nat
      /\ read = <<>> => Len(read) = 0
  BY <1>1, LimitRead, ReadCallFacts
<1>3. Steady => read = <<>> \/ gcall.off + Len(read) <= gcall.sizes[opened]
  BY DEF BytesInv
<1>4. gcall.kind = "full" => /\ Limit = gcall.len /\ gcall.len \in Nat /\ gcall.sizes[1] \in Nat
                             /\ gcall.off + gcall.len <= gcall.sizes[1]
  BY <1>1, ReadCallFacts, Limits
<1>5. gcall.kind # "full" => gcall.off = 0
  BY <1>1, ReadCallFacts
<1>6. CASE ~gcall.encrypted
  <2>1. at = gcall.off + Len(read)
    BY <1>6 DEF PlainInv
  <2>2. at >= StoredSize(opened)
    <3>1. BaseOff = gcall.off /\ BaseLimit = Limit
      BY <1>1, <1>6, Ranges
    <3> QED
      BY <1>2, <2>1, <3>1 DEF BodyEnds
  <2>3. opened # 0 => StoredSize(opened) = gcall.sizes[opened] /\ gcall.sizes[opened] \in Nat
    BY <1>1, <1>2, <1>6, Stored, ReadCallFacts
  <2>4. ASSUME gcall.kind # "full", Steady PROVE Len(read) = gcall.sizes[opened]
    BY <1>1, <1>2, <1>3, <1>5, <2>1, <2>2, <2>3, <2>4
  <2>5. ASSUME gcall.kind = "full", gchanges = 0 PROVE FALSE
    <3>1. opened = 1 /\ StoredSize(1) = gcall.sizes[1]
      BY <1>1, <2>3, <2>5
    <3>2. gcall.off + Len(read) >= gcall.sizes[1]
      BY <2>1, <2>2, <3>1
    <3> QED
      BY <1>2, <1>4, <2>5, <3>2, SMTT(30)
  <2> QED
    BY <2>4, <2>5
<1>7. CASE gcall.encrypted /\ Over
  <2>1. ASSUME gchanges = 0 PROVE ~gcall.get.live
    BY <1>1, <1>7, <2>1 DEF Over
  <2>2. Steady => ~gcall.get.live
    BY <2>1 DEF Steady
  <2>3. ~gcall.get.live => Len(read) = gcall.sizes[opened] - gcall.off
    BY <1>7 DEF Over
  <2>4. ASSUME gcall.kind # "full", Steady PROVE Len(read) = gcall.sizes[opened]
    <3>1. gcall.sizes[opened] \in Nat
      BY <1>1, <1>2, <2>4, ReadCallFacts
    <3> QED
      BY <1>5, <2>2, <2>3, <2>4, <3>1
  <2>5. ASSUME gcall.kind = "full", gchanges = 0 PROVE FALSE
    BY <1>1, <1>2, <1>4, <2>1, <2>3, <2>5, SMTT(30)
  <2> QED
    BY <2>4, <2>5
<1>8. ASSUME gcall.encrypted, NEW c \in 0 .. at, AtChunk(c)
      PROVE  /\ gcall.kind # "full" /\ Steady => Len(read) = gcall.sizes[opened]
             /\ gcall.kind = "full" => gchanges # 0
  <2> DEFINE cp == c * PlainChunk
             ce == c * EncChunk
             f == FirstChunk
             fp == f * PlainChunk
  <2>1. /\ at = ce /\ f <= c /\ (c = f => read = <<>>)
        /\ c # f => Len(read) = cp - gcall.off
    BY <1>2, <1>8 DEF AtChunk
  <2>2. /\ c \in Nat /\ cp \in Nat /\ ce \in Nat /\ f \in Nat /\ fp \in Nat
        /\ fp <= gcall.off /\ gcall.off < fp + PlainChunk
    <3>1. c \in Nat /\ f \in Nat
      BY <1>1, Ranges
    <3>2. cp \in Nat /\ ce \in Nat /\ fp \in Nat
      BY <3>1, Chunk0, Products
    <3> QED
      BY <1>1, <3>1, <3>2, Ranges
  <2>3. at >= StoredSize(opened)
    <3> SUFFICES ASSUME BaseLimit >= 0, at >= BaseOff + BaseLimit
                 PROVE  FALSE
      BY <1>1, <1>2, Ranges DEF BodyEnds
    <3>1. Limit > 0
      BY <1>1, <1>8, Ranges
    <3>2. PICK e \in Nat : f < e /\ BaseOff + BaseLimit = e * EncChunk
                           /\ gcall.off + Limit <= e * PlainChunk
      BY <1>1, <1>8, <3>1, Ranges
    <3>3. e <= c
      <4>1. e * EncChunk <= c * EncChunk
        BY <2>1, <3>2
      <4> QED
        BY <2>2, <3>2, <4>1, Chunk0, Products
    <3>4. e * PlainChunk <= cp /\ e * PlainChunk \in Nat
      BY <2>2, <3>2, <3>3, Chunk0, Products
    <3> DEFINE ep == e * PlainChunk
    <3>5. ep <= cp /\ ep \in Nat /\ gcall.off + Limit <= ep
      BY <3>2, <3>4
    <3>6. c # f
      BY <2>2, <3>2, <3>3
    <3> HIDE DEF ep, cp, ce, f, fp
    <3> QED
      BY <1>2, <2>1, <2>2, <3>1, <3>5, <3>6, SMTT(30)
  <2>4. ASSUME opened # 0
        PROVE  gcall.sizes[opened] \in Nat /\ gcall.sizes[opened] <= cp
    <3> DEFINE n == gcall.sizes[opened]
    <3>1. n \in Nat /\ StoredSize(opened) = Encrypted(n)
      BY <1>1, <1>2, <1>8, <2>4, ReadCallFacts, Stored
    <3>2. ~(ce < Encrypted(n)) /\ (cp < n <=> ce < Encrypted(n))
      <4>1. Encrypted(n) \in Nat /\ (cp < n <=> ce < Encrypted(n))
        BY <2>2, <3>1, Chunks
      <4> QED
        BY <2>1, <2>2, <2>3, <3>1, <4>1
    <3> HIDE DEF n, cp, ce
    <3>3. n <= cp
      BY <2>2, <3>1, <3>2
    <3> QED
      BY <3>1, <3>3 DEF n
  <2>5. ASSUME gcall.kind # "full", Steady PROVE Len(read) = gcall.sizes[opened]
    <3>1. f = 0
      BY <1>1, <1>5, <2>5, Ranges
    <3>2. c = f => cp = 0
      BY <3>1, Chunk0
    <3> DEFINE n == gcall.sizes[opened]
    <3>3. n \in Nat /\ n <= cp /\ (read = <<>> \/ Len(read) <= n)
      BY <1>1, <1>2, <1>3, <1>5, <2>4, <2>5
    <3> HIDE DEF n, cp, ce, f, fp
    <3>4. Len(read) = n
      BY <1>2, <1>5, <2>1, <2>2, <2>5, <3>2, <3>3
    <3> QED
      BY <3>4 DEF n
  <2>6. ASSUME gcall.kind = "full", gchanges = 0 PROVE FALSE
    <3>1. gcall.sizes[1] <= cp
      BY <1>1, <2>4, <2>6
    <3> HIDE DEF cp, ce, fp
    <3>2. c = f => cp = fp
      BY DEF cp, fp
    <3> HIDE DEF f
    <3> QED
      BY <1>2, <1>4, <2>1, <2>2, <2>6, <3>1, <3>2, SMTT(30)
  <2> QED
    BY <2>5, <2>6
<1>9. gcall.encrypted => Over \/ \E c \in 0 .. at : AtChunk(c)
  BY DEF ChunkInv
<1> QED
  BY <1>6, <1>7, <1>8, <1>9

LEMMA FinishInv == ASSUME ReadInv, Finish PROVE ReadInv'
<1> USE DEF ReadInv
<1>1. /\ gpc = "read" /\ (Satisfied \/ (BodyEnds /\ raw = <<>>))
      /\ UNCHANGED <<gcall, version, vanished, opened, at, raw, read, gfaults, gchanges>>
      /\ gpc' = IF Satisfied \/ gcall.kind # "full" THEN "ok" ELSE "look"
  BY DEF Finish, AtEnd
<1>2. ReadTypeOK'
  BY <1>1 DEF ReadTypeOK, GPC
<1>3. /\ Limit' = Limit /\ (Steady' <=> Steady)
  BY <1>1, CallStays DEF Steady
<1>4. gcall \in ReadCalls /\ gcall.kind # "single" /\ (Steady => opened # 0)
  BY <1>1 DEF WhyInv, Gone
<1>5. WhyInv'
  <2>1. gpc' = "look" => gchanges > 0
    <3>1. gpc' = "look" => gchanges # 0
      BY <1>1, BodyEnded
    <3> QED
      BY <3>1 DEF ReadTypeOK
  <2> QED
    BY <1>1, <1>3, <2>1 DEF WhyInv
<1>6. BytesInv'
  BY <1>1, <1>3 DEF BytesInv
<1>7. CallerInv'
  <2> SUFFICES ASSUME gpc' = "ok"
               PROVE  /\ gcall.kind = "full" => Len(read) = gcall.len
                      /\ gcall.kind # "full" /\ Steady =>
                            \/ /\ Len(read) = gcall.sizes[opened]
                               /\ Limit >= 0 => Len(read) <= Limit
                            \/ Len(read) = Limit /\ Limit <= gcall.sizes[opened]
    BY <1>1, <1>3 DEF CallerInv
  <2>1. /\ Limit >= 0 => Len(read) <= Limit
        /\ Steady => read = <<>> \/ gcall.off + Len(read) <= gcall.sizes[opened]
    BY DEF BytesInv
  <2>2. CASE Satisfied
    <3>1. Len(read) = Limit /\ Limit \in Nat
      BY <1>4, <2>1, <2>2, LimitRead DEF Satisfied
    <3>2. gcall.kind = "full" => Limit = gcall.len
      BY <1>4, Limits
    <3>3. ASSUME gcall.kind # "full", Steady PROVE Limit <= gcall.sizes[opened]
      <4>1. gcall.sizes[opened] \in Nat /\ gcall.off \in Nat
        BY <1>4, <3>3, LimitRead, ReadCallFacts
      <4>2. read = <<>> => Len(read) = 0
        OBVIOUS
      <4> QED
        BY <2>1, <3>1, <3>3, <4>1, <4>2
    <3> QED
      BY <3>1, <3>2, <3>3
  <2>3. CASE ~Satisfied
    <3>1. gcall.kind # "full"
      BY <1>1, <2>3
    <3>2. Steady => Len(read) = gcall.sizes[opened]
      BY <1>1, <2>3, <3>1, BodyEnded
    <3> QED
      BY <2>1, <3>1, <3>2
  <2> QED
    BY <2>2, <2>3
<1>8. gpc' # "read"
  BY <1>1
<1> QED
  BY <1>2, <1>5, <1>6, <1>7, <1>8 DEF PlainInv, RawInv, ChunkInv

-----------------------------------------------------------------------------
(* A chunk is decrypted.                                                   *)

\* Where the caller stands when chunk c is there: skip is how far the range begins
\* behind the chunk.
Skip == IF read = <<>> THEN gcall.off - FirstChunk * PlainChunk ELSE 0

LEMMA ChunkPlace ==
  ASSUME ReadInv, gpc = "read", gcall.encrypted, NEW c \in 0 .. at, AtChunk(c)
  PROVE  /\ Skip \in Nat /\ Skip < PlainChunk /\ (Skip > 0 => read = <<>> /\ gcall.off > 0)
         /\ gcall.off + Len(read) = c * PlainChunk + Skip
         /\ c * PlainChunk \in Nat /\ c * EncChunk \in Nat
<1> USE DEF ReadInv
<1> DEFINE cp == c * PlainChunk
           f == FirstChunk
           fp == f * PlainChunk
<1>1. gcall \in ReadCalls
  BY DEF WhyInv
<1>2. /\ Len(read) \in Nat /\ gcall.off \in Nat /\ at \in Nat /\ c \in Nat
      /\ read = <<>> => Len(read) = 0
  BY <1>1, LimitRead, ReadCallFacts
<1>3. f \in Nat /\ fp \in Nat /\ fp <= gcall.off /\ gcall.off < fp + PlainChunk
      /\ cp \in Nat /\ c * EncChunk \in Nat
  <2>1. f \in Nat
    BY <1>1, Ranges
  <2>2. fp \in Nat /\ cp \in Nat /\ c * EncChunk \in Nat
    BY <1>2, <2>1, Chunk0, Products
  <2> QED
    BY <1>1, <2>1, <2>2, Ranges
<1>4. /\ f <= c /\ (c = f => read = <<>> /\ cp = fp)
      /\ c # f => Len(read) = cp - gcall.off
  BY DEF AtChunk
<1>5. c # f => fp + PlainChunk <= cp
  <2>1. c # f => f + 1 <= c /\ f + 1 \in Nat
    BY <1>2, <1>3, <1>4
  <2>2. c # f => (f + 1) * PlainChunk <= c * PlainChunk
    BY <1>2, <2>1, Chunk0, Products
  <2>3. (f + 1) * PlainChunk = fp + PlainChunk
    BY <1>3, Chunk0
  <2> QED
    BY <2>2, <2>3
<1>6. Skip = IF read = <<>> THEN gcall.off - fp ELSE 0
  BY DEF Skip
<1> HIDE DEF cp, f, fp
<1>7. /\ Skip \in Nat /\ Skip < PlainChunk /\ (Skip > 0 => read = <<>> /\ gcall.off > 0)
      /\ gcall.off + Len(read) = cp + Skip
  <2>1. CASE c = f
    <3>1. Skip = gcall.off - fp /\ read = <<>> /\ cp = fp /\ Len(read) = 0
      BY <1>2, <1>4, <1>6, <2>1
    <3>2. gcall.off - fp \in Nat /\ gcall.off - fp < PlainChunk
      BY <1>2, <1>3, Chunk0
    <3>3. gcall.off - fp > 0 => gcall.off > 0
      BY <1>2, <1>3
    <3>4. gcall.off + 0 = fp + (gcall.off - fp)
      BY <1>2, <1>3
    <3> QED
      BY <3>1, <3>2, <3>3, <3>4
  <2>2. CASE c # f
    <3>1. Len(read) = cp - gcall.off /\ fp + PlainChunk <= cp
      BY <1>4, <1>5, <2>2
    <3>2. Len(read) > 0
      BY <1>2, <1>3, <3>1, Chunk0
    <3>3. Skip = 0
      BY <1>2, <1>6, <3>2
    <3> QED
      BY <1>2, <1>3, <3>1, <3>3, Chunk0
  <2> QED
    BY <2>1, <2>2
<1> QED
  BY <1>3, <1>7 DEF cp

LEMMA DecryptCase ==
  ASSUME ReadInv, Decrypt
  PROVE  /\ gpc = "read" /\ gcall.encrypted /\ raw # <<>> /\ ~Satisfied /\ ChunkReady
         /\ gcall \in ReadCalls /\ gcall.kind # "single"
         /\ \E c \in 0 .. at : AtChunk(c)
<1> USE DEF ReadInv
<1>1. gpc = "read" /\ ~Satisfied /\ ChunkReady
  BY DEF Decrypt
<1>2. raw # <<>>
  BY <1>1 DEF ChunkReady
<1>3. gcall.encrypted /\ ~Over
  BY <1>1, <1>2 DEF PlainInv, Over
<1> QED
  BY <1>1, <1>2, <1>3 DEF ChunkInv, WhyInv

\* Whatever breaks a chunk is a change of the object.
LEMMA AuthenticUnlessChanged ==
  ASSUME ReadInv, gpc = "read", gcall.encrypted, raw # <<>>, ChunkReady, gchanges = 0,
         NEW c \in 0 .. at, AtChunk(c)
  PROVE  Authentic(raw)
<1> USE DEF ReadInv
<1> DEFINE v == raw[1][1]
           m == PlainLength(c, gcall.sizes[v])
           ce == c * EncChunk
<1>1. gcall \in ReadCalls /\ opened = 1
  BY DEF WhyInv
<1>2. /\ Len(raw) \in Nat /\ raw \in [1 .. Len(raw) -> Cell] /\ DOMAIN raw = 1 .. Len(raw)
      /\ at \in Nat /\ c \in Nat /\ StoredSize(opened) \in Nat
  BY <1>1, LimitRead
<1>3. Len(raw) > 0
  BY <1>2, EmptySeq DEF ReadTypeOK
<1>4. at - Len(raw) = ce /\ ce \in Nat
  <2>1. ce \in Nat
    BY <1>2, Chunk0, Products
  <2> QED
    BY <2>1 DEF AtChunk
<1>5. /\ v \in {1, 2} /\ m \in 1 .. PlainChunk
      /\ ce + m + Overhead <= StoredSize(v)
      /\ m < PlainChunk => StoredSize(v) = ce + m + Overhead
      /\ Authentic(raw) <=> /\ Len(raw) >= m + Overhead
                            /\ \A i \in 1 .. (m + Overhead) : raw[i] = <<v, ce + i - 1>>
  <2>1. v = raw[1][1] /\ m = PlainLength(c, gcall.sizes[v])
    OBVIOUS
  <2> HIDE DEF v, m
  <2>2. at - Len(raw) = c * EncChunk /\ c \in Nat /\ gcall \in ReadCalls
    BY <1>1, <1>2, <1>4
  <2>3. /\ v \in {1, 2} /\ m \in 1 .. PlainChunk
        /\ m < PlainChunk => StoredSize(v) = c * EncChunk + m + Overhead
        /\ c * EncChunk + m + Overhead <= StoredSize(v)
        /\ Authentic(raw) <=> /\ Len(raw) >= m + Overhead
                              /\ \A i \in 1 .. (m + Overhead) : raw[i] = <<v, c * EncChunk + i - 1>>
    BY <2>1, <2>2, RawChunk
  <2> QED
    BY <2>3
<1>6. \A i \in 1 .. Len(raw) : raw[i] = <<1, ce + i - 1>>
  <2> SUFFICES ASSUME NEW i \in 1 .. Len(raw)
               PROVE  raw[i] = <<1, ce + i - 1>>
    OBVIOUS
  <2>1. raw[i] \in Cell
    BY <1>2
  <2>2. raw[i][1] # Gone /\ raw[i][1] # 2 /\ raw[i][2] = at - Len(raw) + i - 1
    BY <1>1, <1>2 DEF RawInv
  <2>3. raw[i][1] = 1 /\ raw[i][2] = ce + i - 1
    BY <1>4, <2>1, <2>2 DEF Cell, MaxVersions, Gone
  <2> QED
    BY <2>1, <2>3 DEF Cell
<1>7. v = 1
  BY <1>2, <1>3, <1>6
<1>8. Len(raw) >= m + Overhead
  <2>1. Len(raw) <= EncChunk /\ (BaseLimit > 0 => at <= BaseOff + BaseLimit)
    BY DEF RawInv
  <2>2. CASE Len(raw) = EncChunk
    BY <1>5, <2>2, Chunk0 DEF EncChunk
  <2>3. CASE at >= StoredSize(opened)
    <3>1. at >= ce + m + Overhead
      <4>1. StoredSize(v) = StoredSize(opened)
        BY <1>1, <1>7
      <4> HIDE DEF v, m, ce
      <4> QED
        BY <1>2, <1>4, <1>5, <2>3, <4>1, Chunk0
    <3> HIDE DEF v, m, ce
    <3> QED
      BY <1>2, <1>4, <1>5, <3>1, Chunk0
  <2>4. CASE BaseLimit >= 0 /\ at >= BaseOff + BaseLimit
    <3>1. Limit > 0
      BY <1>1, <2>4, Ranges
    <3>2. PICK e \in Nat : /\ FirstChunk < e /\ BaseLimit > 0
                           /\ BaseOff + BaseLimit = e * EncChunk
      BY <1>1, <3>1, Ranges
    <3> DEFINE ee == e * EncChunk
    <3>3. ee \in Nat /\ at = ee
      <4>1. ee \in Nat
        BY <3>2, Chunk0, Products
      <4> QED
        BY <1>1, <1>2, <2>1, <2>4, <3>2, <4>1, Ranges
    <3>4. ce < ee
      <4> HIDE DEF ce, ee
      <4> QED
        BY <1>2, <1>3, <1>4, <3>3
    <3>5. c < e
      <4>1. e <= c => e * EncChunk <= c * EncChunk
        BY <1>2, <3>2, Chunk0, Products
      <4>2. ~(ee <= ce)
        <5> HIDE DEF ce, ee
        <5> QED
          BY <1>4, <3>3, <3>4
      <4> QED
        BY <1>2, <3>2, <4>1, <4>2
    <3>6. ce + EncChunk <= ee
      <4>1. c + 1 <= e /\ c + 1 \in Nat
        BY <1>2, <3>2, <3>5
      <4>2. (c + 1) * EncChunk <= e * EncChunk
        BY <3>2, <4>1, Chunk0, Products
      <4>3. (c + 1) * EncChunk = ce + EncChunk
        BY <1>2, Chunk0
      <4> QED
        BY <4>2, <4>3
    <3>7. Len(raw) = EncChunk
      <4>1. Len(raw) \in Nat /\ Len(raw) <= EncChunk /\ at - Len(raw) = ce /\ ce \in Nat
        BY <1>2, <1>4, <2>1
      <4> HIDE DEF ce, ee
      <4> QED
        BY <3>3, <3>6, <4>1, Chunk0
    <3> QED
      BY <2>2, <3>7
  <2> QED
    BY <1>1, <2>2, <2>3, <2>4, Ranges DEF ChunkReady, BodyEnds
<1>9. \A i \in 1 .. (m + Overhead) : raw[i] = <<v, ce + i - 1>>
  <2>1. 1 .. (m + Overhead) \subseteq 1 .. Len(raw)
    <3> HIDE DEF v, m, ce
    <3> QED
      BY <1>2, <1>5, <1>8, Chunk0
  <2> QED
    BY <1>6, <1>7, <2>1
<1> QED
  BY <1>5, <1>8, <1>9

LEMMA PieceOf ==
  ASSUME NEW S, NEW s \in Seq(S), NEW d \in Seq(S), NEW k \in Nat, NEW n \in Nat,
         k + n <= Len(d)
  PROVE  LET t == s \o SubSeq(d, k + 1, k + n) IN
         /\ t \in Seq(S) /\ Len(t) = Len(s) + n
         /\ \A i \in 1 .. Len(s) : t[i] = s[i]
         /\ \A i \in 1 .. n : t[Len(s) + i] = d[k + i]
<1> DEFINE u == SubSeq(d, k + 1, k + n)
<1>1. Len(s) \in Nat /\ Len(d) \in Nat
  BY LenProperties
<1>2. \A i \in (k + 1) .. (k + n) : d[i] \in S
  <2>1. \A i \in (k + 1) .. (k + n) : i \in 1 .. Len(d)
    BY <1>1
  <2> QED
    BY <2>1, ElementOfSeq
<1>3. /\ u \in Seq(S)
      /\ Len(u) = IF k + 1 <= k + n THEN k + n - (k + 1) + 1 ELSE 0
      /\ \A i \in 1 .. k + n - (k + 1) + 1 : u[i] = d[k + 1 + i - 1]
  <2>1. k + 1 \in Int /\ k + n \in Int
    OBVIOUS
  <2> QED
    BY <1>2, <2>1, SubSeqProperties
<1>4. Len(u) = n /\ \A i \in 1 .. n : u[i] = d[k + i]
  <2>1. Len(u) = n /\ k + n - (k + 1) + 1 = n
    BY <1>3
  <2>2. \A i \in 1 .. n : k + 1 + i - 1 = k + i
    OBVIOUS
  <2> QED
    BY <1>3, <2>1, <2>2
<1> HIDE DEF u
<1>5. /\ s \o u \in Seq(S) /\ Len(s \o u) = Len(s) + Len(u)
      /\ \A i \in 1 .. Len(s) + Len(u) :
             (s \o u)[i] = IF i <= Len(s) THEN s[i] ELSE u[i - Len(s)]
  BY <1>3, ConcatProperties
<1>6. \A i \in 1 .. Len(s) : (s \o u)[i] = s[i]
  BY <1>1, <1>4, <1>5
<1>7. ASSUME NEW i \in 1 .. n PROVE (s \o u)[Len(s) + i] = d[k + i]
  <2>1. Len(s) + i \in 1 .. Len(s) + Len(u) /\ ~(Len(s) + i <= Len(s)) /\ Len(s) + i - Len(s) = i
    BY <1>1, <1>4
  <2>2. (s \o u)[Len(s) + i] = u[i]
    BY <1>5, <2>1
  <2> QED
    BY <1>4, <2>2
<1> QED
  BY <1>4, <1>5, <1>6, <1>7 DEF u

LEMMA SameLength ==
  ASSUME NEW a \in Nat, NEW b \in Nat, 1 .. a = 1 .. b
  PROVE  a = b
<1>1. CASE a < b
  <2>1. b \in 1 .. b /\ b \notin 1 .. a
    BY <1>1
  <2> QED
    BY <2>1
<1>2. CASE b < a
  <2>1. a \in 1 .. a /\ a \notin 1 .. b
    BY <1>2, SMTT(30)
  <2> QED
    BY <2>1
<1> QED
  BY <1>1, <1>2

\* The caller gets of a chunk what it wants of it, each byte from its place.
LEMMA DecryptInv == ASSUME ReadInv, Decrypt PROVE ReadInv'
<1> USE DEF ReadInv
<1>1. /\ gpc = "read" /\ gcall.encrypted /\ raw # <<>> /\ ~Satisfied /\ ChunkReady
      /\ gcall \in ReadCalls /\ gcall.kind # "single"
      /\ raw' = <<>> /\ UNCHANGED <<gcall, version, vanished, opened, at, gfaults, gchanges>>
  BY DecryptCase DEF Decrypt
<1>2. PICK c \in 0 .. at : AtChunk(c)
  BY DecryptCase
<1> DEFINE v == raw[1][1]
           n == gcall.sizes[v]
           m == PlainLength(c, n)
           cp == c * PlainChunk
           ce == c * EncChunk
           rest == m - Skip
           k == IF Limit < 0 THEN rest ELSE Min({rest, Limit - Len(read)})
<1>3. /\ Len(read) \in Nat /\ read \in Seq(Cell) /\ DOMAIN read = 1 .. Len(read)
      /\ Len(raw) \in Nat /\ raw \in [1 .. Len(raw) -> Cell] /\ DOMAIN raw = 1 .. Len(raw)
      /\ Limit \in Int /\ (Limit = -1 \/ Len(read) < Limit) /\ at \in Nat /\ c \in Nat
      /\ opened \in 0 .. 2 /\ gcall.off \in Nat /\ raw' = <<>> /\ Len(raw') = 0
  BY <1>1, LimitRead, ReadCallFacts DEF ReadTypeOK
<1>4. Len(raw) > 0 /\ Len(raw) <= EncChunk /\ at - Len(raw) = ce
  BY <1>1, <1>2, <1>3, EmptySeq DEF ReadTypeOK, RawInv, AtChunk
<1>5. /\ v \in {1, 2} /\ cp < n /\ m \in 1 .. PlainChunk /\ cp + m <= n
      /\ m < PlainChunk => cp + m = n /\ StoredSize(v) = ce + m + Overhead
      /\ Decrypted(raw) = [i \in 1 .. m |-> <<v, cp + i - 1>>]
      /\ Authentic(raw) => Len(raw) >= m + Overhead
  <2>1. v = raw[1][1] /\ m = PlainLength(c, gcall.sizes[v])
    OBVIOUS
  <2> HIDE DEF v, m
  <2> QED
    BY <1>1, <1>3, <1>4, <2>1, RawChunk
<1>6. /\ Skip \in Nat /\ Skip < PlainChunk /\ (Skip > 0 => read = <<>> /\ gcall.off > 0)
      /\ gcall.off + Len(read) = cp + Skip /\ cp \in Nat /\ ce \in Nat
  BY <1>1, <1>2, ChunkPlace
<1>7. v = 2 => opened # 1
  BY <1>1, <1>3, <1>4 DEF RawInv
<1>8. ~gcall.get.live => v = opened
  BY <1>1, <1>3, <1>4 DEF RawInv
<1>9. gchanges = 0 => opened = 1 /\ v = 1
  BY <1>1, <1>5, <1>7 DEF WhyInv
<1>10. n \in Nat
  BY <1>1, <1>5, ReadCallFacts
<1>11. v = 1 /\ gcall.kind = "full" => gcall.off + gcall.len <= n /\ Limit = gcall.len /\ gcall.len \in Nat
  BY <1>1, ReadCallFacts, Limits
<1>12. Decrypted(raw) \in Seq(Cell) /\ Len(Decrypted(raw)) = m
  <2> HIDE DEF v, m, n, cp
  <2>1. m \in Nat
    BY <1>5, Chunk0
  <2>2. \A i \in 1 .. m : <<v, cp + i - 1>> \in Cell
    BY <1>5, <1>6, <2>1 DEF Cell, MaxVersions
  <2>3. Decrypted(raw) \in [1 .. m -> Cell]
    BY <1>5, <2>2
  <2>4. Decrypted(raw) \in Seq(Cell)
    BY <2>1, <2>3, SeqDef
  <2>5. DOMAIN Decrypted(raw) = 1 .. Len(Decrypted(raw)) /\ Len(Decrypted(raw)) \in Nat
    BY <2>4, LenProperties
  <2>6. DOMAIN Decrypted(raw) = 1 .. m
    BY <1>5
  <2>7. 1 .. m = 1 .. Len(Decrypted(raw))
    BY <2>5, <2>6, SMTT(30)
  <2>8. m = Len(Decrypted(raw))
    BY <2>1, <2>5, <2>7, SameLength
  <2> QED
    BY <2>4, <2>8
<1>13. /\ Limit' = Limit /\ FirstChunk' = FirstChunk /\ BaseOff' = BaseOff /\ BaseLimit' = BaseLimit
       /\ (Steady' <=> Steady)
       /\ \A w : StoredSize(w)' = StoredSize(w)
  BY <1>1, CallStays DEF Steady
<1>14. \/ ~Authentic(raw) /\ gpc' = "look" /\ read' = read
       \/ rest <= 0 /\ gpc' = AtEnd /\ read' = read
       \/ /\ Authentic(raw) /\ ~(rest <= 0) /\ gpc' = gpc
          /\ read' = read \o SubSeq(Decrypted(raw), Skip + 1, Skip + k)
  <2>1. rest = Len(Decrypted(raw)) - Skip
    BY <1>12
  <2> HIDE DEF m
  <2> QED
    BY <2>1 DEF Decrypt, Skip
<1>15. ASSUME gpc' = "look", read' = read, gchanges # 0
       PROVE  ReadInv'
  <2>1. ReadTypeOK'
    BY <1>1, <1>15, EmptySeq DEF ReadTypeOK, GPC
  <2>2. gchanges > 0
    BY <1>15 DEF ReadTypeOK
  <2>3. WhyInv'
    BY <1>1, <1>15, <2>2 DEF WhyInv
  <2> QED
    BY <1>1, <1>15, <2>1, <2>3, LeftAlone
<1>16. CASE ~Authentic(raw) /\ gpc' = "look" /\ read' = read
  <2>1. gchanges # 0
    BY <1>1, <1>2, <1>16, AuthenticUnlessChanged
  <2> QED
    BY <1>15, <1>16, <2>1
<1>17. CASE rest <= 0 /\ gpc' = AtEnd /\ read' = read
  <2>1. Skip >= m /\ Skip > 0 /\ m < PlainChunk /\ cp + m = n
    <3> HIDE DEF m, n, cp, ce, v
    <3> QED
      BY <1>5, <1>6, <1>17, Chunk0
  <2>2. gcall.kind = "full" /\ gpc' = "look"
    BY <1>1, <1>6, <1>17, <2>1, ReadCallFacts DEF AtEnd
  <2>3. ~(v = 1)
    <3> SUFFICES ASSUME v = 1 PROVE FALSE
      OBVIOUS
    <3>1. gcall.off + gcall.len <= n /\ Limit = gcall.len /\ gcall.len \in Nat
      BY <1>11, <2>2
    <3>2. Len(read) = 0
      BY <1>6, <2>1
    <3> HIDE DEF m, n, cp, ce, v
    <3> QED
      BY <1>3, <1>5, <1>6, <1>10, <2>1, <3>1, <3>2, SMTT(30)
  <2>4. gchanges # 0
    BY <1>9, <2>3
  <2> QED
    BY <1>15, <1>17, <2>2, <2>4
<1>18. CASE /\ Authentic(raw) /\ ~(rest <= 0) /\ gpc' = gpc
            /\ read' = read \o SubSeq(Decrypted(raw), Skip + 1, Skip + k)
  <2>1. /\ k \in Nat \ {0} /\ k <= rest /\ rest \in Nat
        /\ Limit >= 0 => Len(read) + k <= Limit
        /\ k = rest \/ (Limit >= 0 /\ Len(read) + k = Limit)
    <3>0. Len(read) \in Nat /\ Limit \in Int /\ (Limit = -1 \/ Len(read) < Limit)
      BY <1>3
    <3>1. rest \in Nat \ {0}
      <4> HIDE DEF m
      <4> QED
        BY <1>5, <1>6, <1>18
    <3>2. CASE Limit < 0
      <4>1. k = rest
        BY <3>2
      <4> HIDE DEF k, rest
      <4> QED
        BY <3>0, <3>1, <3>2, <4>1
    <3>3. CASE Limit >= 0
      <4>1. Limit - Len(read) \in Nat \ {0}
        BY <3>0, <3>3
      <4> DEFINE l == Limit - Len(read)
      <4>2. Min({rest, l}) = IF rest <= l THEN rest ELSE l
        <5> HIDE DEF l, rest
        <5> QED
          BY <3>1, <4>1, MinOfTwo DEF l
      <4>3. k = IF rest <= l THEN rest ELSE l
        <5>1. k = Min({rest, l})
          BY <3>0, <3>3
        <5> HIDE DEF k, l, rest
        <5> QED
          BY <4>2, <5>1
      <4> HIDE DEF k, rest
      <4> QED
        BY <3>0, <3>1, <3>3, <4>1, <4>3
    <3> QED
      BY <3>0, <3>2, <3>3
  <2>2. Skip + k <= m
    <3> HIDE DEF k, m
    <3> QED
      BY <1>5, <1>6, <2>1
  <2>3. /\ read' \in Seq(Cell) /\ Len(read') = Len(read) + k
        /\ \A i \in 1 .. Len(read) : read'[i] = read[i]
        /\ \A i \in 1 .. k : read'[Len(read) + i] = Decrypted(raw)[Skip + i]
    <3> HIDE DEF k, m, n, cp, ce, v
    <3> DEFINE t == read \o SubSeq(Decrypted(raw), Skip + 1, Skip + k)
    <3>1. /\ read \in Seq(Cell) /\ Decrypted(raw) \in Seq(Cell) /\ Skip \in Nat /\ k \in Nat
          /\ Skip + k <= Len(Decrypted(raw))
      BY <1>3, <1>6, <1>12, <2>1, <2>2
    <3>2. /\ t \in Seq(Cell) /\ Len(t) = Len(read) + k
          /\ \A i \in 1 .. Len(read) : t[i] = read[i]
          /\ \A i \in 1 .. k : t[Len(read) + i] = Decrypted(raw)[Skip + i]
      BY <3>1, PieceOf
    <3>3. read' = t
      BY <1>18
    <3> HIDE DEF t
    <3> QED
      BY <3>2, <3>3
  <2>4. \A i \in 1 .. k : read'[Len(read) + i] = <<v, gcall.off + (Len(read) + i) - 1>>
    <3> SUFFICES ASSUME NEW i \in 1 .. k
                 PROVE  read'[Len(read) + i] = <<v, gcall.off + (Len(read) + i) - 1>>
      OBVIOUS
    <3> HIDE DEF k, m, n, cp, ce, v
    <3>1. Skip + i \in 1 .. m
      BY <1>5, <1>6, <2>1, <2>2
    <3>2. Decrypted(raw)[Skip + i] = <<v, cp + (Skip + i) - 1>>
      BY <1>5, <3>1
    <3>3. cp + (Skip + i) - 1 = gcall.off + (Len(read) + i) - 1
      BY <1>3, <1>6, SMTT(30)
    <3> QED
      BY <2>3, <3>2, <3>3
  <2>5. /\ DOMAIN read' = 1 .. (Len(read) + k) /\ Len(read') \in Nat \ {0} /\ read' # <<>>
        /\ gcall.off + Len(read') = cp + Skip + k
    <3> HIDE DEF k, m, n, cp, ce, v
    <3>1. DOMAIN read' = 1 .. (Len(read) + k)
      BY <2>3, LenProperties
    <3>2. Len(read') \in Nat \ {0} /\ gcall.off + Len(read') = cp + Skip + k
      <4>1. Len(read) \in Nat /\ Len(read') = Len(read) + k /\ k \in Nat \ {0}
        BY <1>3, <2>1, <2>3
      <4>2. /\ gcall.off \in Nat /\ cp \in Nat /\ Skip \in Nat
            /\ gcall.off + Len(read) = cp + Skip
        BY <1>3, <1>6
      <4> QED
        BY <4>1, <4>2
    <3>3. read' # <<>>
      BY <3>2
    <3> QED
      BY <3>1, <3>2, <3>3
  <2>6. ReadTypeOK'
    <3>1. raw' \in Seq(Cell)
      BY <1>1, EmptySeq
    <3>2. read' \in Seq(Cell)
      BY <2>3
    <3> QED
      BY <1>1, <1>18, <3>1, <3>2 DEF ReadTypeOK
  <2>7. WhyInv'
    BY <1>1, <1>13, <1>18 DEF WhyInv
  <2>8. gcall.off + Len(read') <= n
    <3> HIDE DEF k, m, n, cp, ce, v
    <3> QED
      BY <1>5, <1>6, <1>10, <2>1, <2>2, <2>5
  <2>9. BytesInv'
    <3>1. ASSUME NEW i \in DOMAIN read'
          PROVE  /\ read'[i][2] = gcall.off + i - 1
                 /\ ~gcall.get.live => read'[i][1] = opened
      <4>1. CASE i \in 1 .. Len(read)
        BY <1>3, <2>3, <4>1 DEF BytesInv
      <4>2. CASE i \notin 1 .. Len(read)
        <5> DEFINE j == i - Len(read)
        <5>1. j \in 1 .. k /\ i = Len(read) + j
          <6> HIDE DEF k
          <6> QED
            BY <1>3, <2>1, <2>5, <4>2, SMTT(30)
        <5>2. read'[i] = <<v, gcall.off + i - 1>>
          <6> HIDE DEF k, v, j
          <6> QED
            BY <2>4, <5>1
        <5> HIDE DEF k, v
        <5> QED
          BY <1>8, <5>2
      <4> QED
        BY <4>1, <4>2
    <3>2. Limit >= 0 => Len(read') <= Limit
      BY <2>1, <2>3
    <3>3. Steady => v = opened
      BY <1>8, <1>9 DEF Steady
    <3>4. Steady => gcall.off + Len(read') <= gcall.sizes[opened]
      BY <2>8, <3>3, SMTT(30)
    <3> QED
      BY <1>1, <1>13, <3>1, <3>2, <3>4 DEF BytesInv
  <2>10. CallerInv' /\ PlainInv'
    BY <1>1, <1>18 DEF CallerInv, PlainInv
  <2>11. RawInv'
    <3>1. DOMAIN raw' = {} /\ Len(raw') <= EncChunk /\ Len(raw') <= at
      BY <1>1, <1>3, Chunk0
    <3>2. BaseLimit > 0 => at <= BaseOff + BaseLimit
      BY <1>1 DEF RawInv
    <3> QED
      BY <1>1, <1>13, <3>1, <3>2 DEF RawInv
  <2>12. ChunkInv'
    <3> SUFFICES (Satisfied \/ Over \/ \E d \in 0 .. at : AtChunk(d))'
      BY DEF ChunkInv
    <3>1. CASE k # rest
      <4>1. Limit >= 0 /\ Len(read') >= Limit
        BY <1>3, <2>1, <2>3, <3>1
      <4> QED
        BY <1>13, <4>1 DEF Satisfied
    <3>2. CASE k = rest /\ m = PlainChunk
      <4>1. Len(raw) = EncChunk
        <5> HIDE DEF m
        <5> QED
          BY <1>3, <1>4, <1>5, <1>18, <3>2, Chunk0, SMTT(30) DEF EncChunk
      <4>2. (c + 1) * EncChunk = ce + EncChunk /\ (c + 1) * PlainChunk = cp + PlainChunk
        BY <1>3, Chunk0
      <4>3. at = (c + 1) * EncChunk
        <5> HIDE DEF ce
        <5> QED
          BY <1>3, <1>4, <1>6, <4>1, <4>2, Chunk0
      <4>4. Len(read') = (c + 1) * PlainChunk - gcall.off
        <5> HIDE DEF m, cp
        <5>1. k = m - Skip
          BY <3>2
        <5> HIDE DEF k
        <5> QED
          BY <1>3, <1>6, <2>1, <2>5, <3>2, <4>2, <5>1, Chunk0, SMTT(30)
      <4>5. FirstChunk \in Nat /\ FirstChunk <= c
        BY <1>1, <1>2, Ranges DEF AtChunk
      <4>6. c + 1 \in 0 .. at
        <5> DEFINE d == c + 1
        <5>1. d \in Nat /\ 1 <= EncChunk /\ EncChunk \in Nat
          BY <1>3, Chunk0
        <5>2. d * EncChunk = at
          BY <4>3
        <5> HIDE DEF d
        <5>3. 1 * d <= EncChunk * d /\ EncChunk * d = d * EncChunk
          BY <5>1, Products
        <5>4. d \in 0 .. at
          BY <1>3, <5>1, <5>2, <5>3
        <5> QED
          BY <5>4 DEF d
      <4>7. AtChunk(c + 1)'
        <5>1. at - Len(raw') = (c + 1) * EncChunk
          BY <1>3, <4>3
        <5>2. c + 1 # FirstChunk /\ FirstChunk <= c + 1
          BY <1>3, <4>5
        <5> QED
          BY <1>1, <1>13, <4>4, <5>1, <5>2 DEF AtChunk
      <4> QED
        BY <1>1, <4>6, <4>7
    <3>3. CASE k = rest /\ m < PlainChunk
      <4>1. gcall.off + Len(read') = n /\ cp + m = n /\ StoredSize(v) = ce + m + Overhead
        <5>1. cp + m = n /\ StoredSize(v) = ce + m + Overhead
          BY <1>5, <3>3
        <5>2. k = m - Skip
          BY <3>3
        <5> HIDE DEF k, m, n, cp, ce, v
        <5> QED
          BY <1>5, <1>6, <2>1, <2>5, <5>1, <5>2
      <4>2. at >= StoredSize(v)
        <5> HIDE DEF m, ce, v
        <5>1. /\ Len(raw) >= m + Overhead /\ at - Len(raw) = ce /\ m \in Nat /\ ce \in Nat
              /\ StoredSize(v) = ce + m + Overhead
          BY <1>4, <1>5, <1>6, <1>18, <4>1, Chunk0
        <5>2. Len(raw) \in Nat /\ at \in Nat
          BY <1>3
        <5> QED
          BY <5>1, <5>2, Chunk0
      <4>3. CASE ~gcall.get.live
        <5>1. v = opened
          BY <1>8, <4>3
        <5>2. at >= StoredSize(opened) /\ Len(read') = gcall.sizes[opened] - gcall.off
          BY <1>3, <1>10, <2>5, <4>1, <4>2, <5>1
        <5>3. at' >= StoredSize(opened)'
          BY <1>1, <5>2 DEF StoredSize
        <5>4. Over'
          BY <1>1, <4>3, <5>2, <5>3 DEF Over
        <5> QED
          BY <5>4
      <4>4. CASE gcall.get.live /\ v = 1
        <5>1. /\ gcall.kind = "full" => gcall.off + gcall.len <= n /\ Limit = gcall.len
              /\ gcall.kind = "stream" => Limit = n /\ gcall.off = 0
              /\ gcall.kind # "whole"
              /\ gcall.len \in Nat
          <6>1. gcall.kind = "whole" => n = 0
            BY <1>1, <4>4, ReadCallFacts
          <6>2. n # 0
            <7> HIDE DEF n, cp
            <7> QED
              BY <1>5, <1>6, <1>10
          <6> QED
            BY <1>1, <1>11, <4>4, <6>1, <6>2, ReadCallFacts, Limits
        <5>2. gcall.kind \in {"full", "stream"}
          BY <1>1, <5>1, ReadCallFacts DEF ReadKinds
        <5>3. Limit >= 0 /\ Len(read') >= Limit
          <6> HIDE DEF n
          <6> QED
            BY <1>3, <1>10, <2>5, <4>1, <5>1, <5>2
        <5> QED
          BY <1>13, <5>3 DEF Satisfied
      <4>5. CASE gcall.get.live /\ v = 2
        <5>1. at >= StoredSize(2) /\ opened \in {0, 2}
          BY <1>3, <1>7, <4>2, <4>5
        <5>2. at >= StoredSize(opened)
          <6>1. StoredSize(0) = 0
            BY <1>1, Stored DEF Gone
          <6> QED
            BY <1>3, <5>1, <6>1
        <5>3. at' >= StoredSize(opened)' /\ at' >= StoredSize(2)'
          BY <1>1, <5>1, <5>2 DEF StoredSize
        <5>4. Over'
          BY <1>1, <4>5, <5>1, <5>3 DEF Over
        <5> QED
          BY <5>4
      <4> QED
        BY <1>5, <4>3, <4>4, <4>5
    <3>4. m = PlainChunk \/ m < PlainChunk
      <4> HIDE DEF m
      <4> QED
        BY <1>5, Chunk0
    <3> QED
      BY <3>1, <3>2, <3>3, <3>4
  <2> QED
    BY <2>6, <2>7, <2>9, <2>10, <2>11, <2>12
<1> QED
  BY <1>14, <1>16, <1>17, <1>18

LEMMA ReadInvStep == ReadInv /\ [ReadNext]_readVars => ReadInv'
<1> SUFFICES ASSUME ReadInv, [ReadNext]_readVars
             PROVE  ReadInv'
  OBVIOUS
<1>1. CASE UNCHANGED readVars
  <2>1. /\ UNCHANGED <<gcall, gpc, version, vanished, opened, at, raw, read, gfaults, gchanges>>
        /\ Limit' = Limit /\ FirstChunk' = FirstChunk /\ BaseOff' = BaseOff
        /\ BaseLimit' = BaseLimit /\ Steady' = Steady
    BY <1>1, CallStays DEF readVars, Steady
  <2>2. ReadTypeOK' /\ WhyInv' /\ BytesInv' /\ CallerInv' /\ PlainInv'
    BY <2>1 DEF ReadInv, ReadTypeOK, WhyInv, BytesInv, CallerInv, PlainInv
  <2>3. RawInv'
    BY <2>1 DEF ReadInv, RawInv, StoredSize
  <2>4. Over' = Over /\ Satisfied' = Satisfied
    BY <2>1 DEF Over, Satisfied, StoredSize
  <2>5. \A c : AtChunk(c)' = AtChunk(c)
    BY <2>1 DEF AtChunk
  <2>6. ChunkInv'
    BY <2>1, <2>4, <2>5 DEF ReadInv, ChunkInv
  <2> QED
    BY <2>2, <2>3, <2>6 DEF ReadInv
<1>2. CASE ReadNext
  BY <1>2, MetaInv, OpenInv, OpenFailsInv, ReadByteInv, DecryptInv, FinishInv, BreaksInv,
     LookAgainInv, SourceHeadInv, TargetHeadInv, ObjectChangesInv DEF ReadNext, ReadSystem
<1> QED
  BY <1>1, <1>2

LEMMA ReadInvSays == ReadInv => ReadRight
<1> SUFFICES ASSUME ReadInv, gcall # <<>>
             PROVE  ReadRight
  BY DEF ReadRight
<1> USE DEF ReadInv
<1>1. gcall \in ReadCalls
  BY DEF WhyInv
<1>2. ASSUME gpc = "ok", gcall.kind # "single"
      PROVE  /\ \A i \in DOMAIN read : read[i][2] = gcall.off + i - 1
             /\ gcall.get.live \/ Cardinality(Versions) <= 1
             /\ gcall.kind = "full" => Len(read) = gcall.len
             /\ gcall.kind # "full" /\ gchanges = 0 => Len(read) = gcall.sizes[1]
             /\ gcall.kind = "stream" /\ ~gcall.get.live =>
                    Len(read) = Min({Listed, gcall.sizes[opened]})
  <2>1. \A i \in DOMAIN read : read[i][2] = gcall.off + i - 1
    BY DEF BytesInv
  <2>2. ASSUME ~gcall.get.live PROVE Cardinality(Versions) <= 1
    <3>1. Versions \subseteq {opened}
      BY <2>2 DEF BytesInv, Versions
    <3>2. Versions = {} \/ Versions = {opened}
      BY <3>1
    <3>3. Cardinality({}) = 0 /\ Cardinality({opened}) = 1
      BY FS_EmptySet, FS_Singleton
    <3>4. Cardinality(Versions) = 0 \/ Cardinality(Versions) = 1
      BY <3>2, <3>3, Zenon
    <3> QED
      BY <3>4
  <2>3. /\ gcall.kind = "full" => Len(read) = gcall.len
        /\ gcall.kind # "full" /\ Steady =>
               \/ Len(read) = gcall.sizes[opened] /\ (Limit >= 0 => Len(read) <= Limit)
               \/ Len(read) = Limit /\ Limit <= gcall.sizes[opened]
    BY <1>2 DEF CallerInv
  <2>4. /\ gchanges = 0 => opened = 1
        /\ Steady => opened \in {1, 2}
    BY <1>2 DEF WhyInv, ReadTypeOK, MaxVersions, Gone
  <2>5. /\ gcall.kind \in {"full", "stream", "whole"} /\ Listed = gcall.sizes[1]
        /\ gcall.kind = "stream" => Limit = gcall.sizes[1]
        /\ gcall.kind = "whole" => Limit = -1
        /\ gcall.sizes[1] \in Nat /\ gcall.sizes[2] \in Nat /\ Len(read) \in Nat
    BY <1>1, <1>2, ReadCallFacts, Limits, LimitRead DEF ReadKinds
  <2>6. ASSUME gcall.kind # "full", gchanges = 0 PROVE Len(read) = gcall.sizes[1]
    BY <2>3, <2>4, <2>5, <2>6 DEF Steady
  <2>7. ASSUME gcall.kind = "stream", ~gcall.get.live
        PROVE  Len(read) = Min({Listed, gcall.sizes[opened]})
    <3> DEFINE n == gcall.sizes[opened]
               l == gcall.sizes[1]
    <3>1. n \in Nat /\ l \in Nat
      BY <2>4, <2>5, <2>7 DEF Steady
    <3>2. \/ Len(read) = n /\ n <= l
          \/ Len(read) = l /\ l <= n
      BY <2>3, <2>5, <2>7 DEF Steady
    <3>3. Min({l, n}) = IF l <= n THEN l ELSE n
      <4> HIDE DEF l, n
      <4> QED
        BY <3>1, MinOfTwo
    <3>4. Listed = l
      BY <2>5
    <3>5. Len(read) = Min({l, n})
      <4> HIDE DEF l, n
      <4> QED
        BY <3>1, <3>2, <3>3
    <3> QED
      BY <3>4, <3>5
  <2> QED
    BY <2>1, <2>2, <2>3, <2>6, <2>7
<1> QED
  BY <1>2 DEF ReadRight, WhyInv

\* No call of this kind is made.
LEMMA IdleReadStep == ReadIdle /\ [ReadNext]_readVars => ReadIdle'
<1> SUFFICES ASSUME ReadIdle, [ReadNext]_readVars
             PROVE  ReadIdle'
  OBVIOUS
<1>1. ~ReadNext
  BY DEF ReadIdle, ReadNext, ReadSystem, Meta, Open, OpenFails, ReadByte, Decrypt, Finish,
         Breaks, LookAgain, SourceHead, TargetHead, ObjectChanges
<1> QED
  BY <1>1 DEF ReadIdle, NoRead, readVars

LEMMA IdleRead == ReadIdle => ReadRight
BY DEF ReadIdle, ReadRight

-----------------------------------------------------------------------------
(* What is listed so far.                                                  *)

\* sequence u is s and then members of S
Grows(s, u, S) ==
    /\ DOMAIN s \subseteq DOMAIN u /\ \A i \in DOMAIN s : u[i] = s[i]
    /\ \A i \in DOMAIN u : \A j \in DOMAIN s : i < j => i \in DOMAIN s
    /\ \A i \in DOMAIN u : i \notin DOMAIN s => u[i] \in S
    /\ \A x \in S : \E i \in DOMAIN u : u[i] = x
Rises(s, u) == \A i, j \in DOMAIN u : i < j /\ i \notin DOMAIN s => u[i] < u[j]

\* the first key may be the start key, and come again
FirstAgain(i) == (StartsAtMarker \/ MayGoBack) /\ i = 1 /\ listed[1] = lcall.start
KeyInRange(k) == /\ InRange(k) \/ k = lcall.start
                 /\ k > lcall.start \/ MayGoBack
                    \/ (k = lcall.start /\ (lcall.head \/ StartsAtMarker))

OrderInv == \A i, j \in DOMAIN listed : i < j => listed[i] < listed[j] \/ MayRepeat \/ FirstAgain(i)
KeysInv ==
    \A i \in DOMAIN listed : listed[i] # Nil => listed[i] \in ever /\ KeyInRange(listed[i])
NoNilInv == lpc # "closed" => \A i \in DOMAIN listed : listed[i] # Nil
CompleteInv == Complete => Wanted \subseteq SentKeys \/ MayStopEarly \/ MaySkip
SoFarInv == OrderInv /\ KeysInv /\ NoNilInv /\ CompleteInv

\* nothing is sent but the start key
Begun == \A i \in DOMAIN listed : i = 1 /\ listed[1] = lcall.start /\ lcall.head /\ lcall.start # 0

CallInv ==
    /\ lcall = <<>> <=> lpc = "idle"
    /\ lpc \in {"first", "page"} => lcall.list \in FlatLists
    /\ lpc \in {"scan", "send"} => lcall.list = Redis
    /\ lpc \in {"iterate", "stat"} => lcall.list = Ceph
    /\ lpc = "head" => listed = <<>>
    /\ lpc \in {"first", "scan", "iterate"} => Begun
    /\ lpc \in {"head", "first", "iterate"} =>
          /\ sent = 0 /\ token = 0 /\ found = <<>> /\ cursor = 0 /\ node = 1 /\ taken = 0
    /\ lpc \in {"idle", "head", "first", "scan", "send", "iterate"} => stat = [j \in Stat |-> NoStat]

\* between two pages
PageInv ==
    lpc = "page" =>
        /\ sent = 0 => MayGoBack /\ Begun
        /\ sent >= lcall.start \/ MayGoBack
        /\ \A i \in DOMAIN listed : listed[i] <= sent \/ (MayGoBack /\ FirstAgain(i))
        /\ lcall.list.token => sent <= token
        /\ \A k \in Wanted : k \in SentKeys \/ k > (IF lcall.list.token THEN token ELSE sent)

FoundInv == \A i \in DOMAIN found : found[i] > lcall.start /\ found[i] \in ever
FoundOnce == \A i, j \in DOMAIN found : i # j => found[i] # found[j]

ScanInv ==
    lpc = "scan" =>
        /\ FoundInv
        /\ \A i \in DOMAIN found :
              NodeOf(found[i]) < node \/ (NodeOf(found[i]) = node /\ found[i] <= cursor)
        /\ lchanges = 0 => FoundOnce
        /\ Masters = 1 => \A k \in Wanted : k \in ToSet(found) \/ k > cursor

BatchInv ==
    lpc = "send" =>
        /\ FoundInv
        /\ lchanges = 0 => FoundOnce /\ \A i \in DOMAIN listed, j \in DOMAIN found : listed[i] < found[j]
        /\ Masters = 1 => Wanted \subseteq SentKeys \cup ToSet(found)

\* the goroutines of Ceph look at the names behind the one that is taken next
StatInv ==
    /\ \A j \in Stat : stat[j].pc \in {"start", "stat", "ready"} => stat[j].at \in DOMAIN found
    /\ lpc = "stat" =>
          /\ FoundInv /\ taken <= Len(found) /\ Len(found) <= Keys
          /\ \A i, j \in DOMAIN found : i < j => found[i] < found[j]
          /\ \A i \in DOMAIN listed, j \in DOMAIN found : j > taken => listed[i] < found[j]
          /\ \A k \in Wanted : k \in SentKeys \/ \E j \in DOMAIN found : j > taken /\ found[j] = k
          /\ \A j \in Stat : stat[j].pc \in {"start", "stat", "ready"} =>
                /\ stat[j].at > taken /\ stat[j].at <= taken + Stats /\ (stat[j].at - 1) % Stats = j
                /\ stat[j].pc = "ready" => \/ stat[j].result = Nil
                                           \/ stat[j].result = found[stat[j].at]
                                           \/ stat[j].result = 0 /\ found[stat[j].at] \notin always

ListInv ==
    /\ ListTypeOK /\ CallInv
    /\ lcall # <<>> => SoFarInv /\ PageInv /\ ScanInv /\ BatchInv /\ StatInv

-----------------------------------------------------------------------------
\* of any two members of S one comes before the other, and so do all before it
Ranked(S, below) ==
    \A x, y \in S : x # y => (x \in below[y] /\ below[x] \subseteq below[y])
                             \/ (y \in below[x] /\ below[y] \subseteq below[x])

\* In a finite linear order each place is that of one member.
LEMMA Places ==
    ASSUME NEW S, IsFiniteSet(S), NEW below \in [S -> SUBSET S],
           \A x \in S : x \notin below[x], Ranked(S, below)
    PROVE  /\ \A x \in S : Cardinality(below[x]) \in 0..(Cardinality(S) - 1)
           /\ \A x, y \in S : x \in below[y] => Cardinality(below[x]) < Cardinality(below[y])
           /\ \A n \in 0..(Cardinality(S) - 1) : \E x \in S : Cardinality(below[x]) = n
<1> DEFINE N == Cardinality(S)
           rank == [x \in S |-> Cardinality(below[x])]
<1>1. N \in Nat
  BY FS_CardinalityType
<1>2. ASSUME NEW x \in S PROVE IsFiniteSet(below[x]) /\ Cardinality(below[x]) \in 0..(N - 1)
  <2>1. below[x] \in SUBSET (S \ {x})
    OBVIOUS
  <2>2. IsFiniteSet(S \ {x}) /\ Cardinality(S \ {x}) = N - 1
    BY FS_RemoveElement
  <2>3. IsFiniteSet(below[x]) /\ Cardinality(below[x]) <= N - 1
    BY <2>1, <2>2, FS_Subset
  <2>4. QED
    BY <1>1, <2>3, FS_CardinalityType
<1>3. ASSUME NEW x \in S, NEW y \in S, x \in below[y]
      PROVE  Cardinality(below[x]) < Cardinality(below[y])
  <2>1. x # y /\ below[x] \subseteq below[y]
    BY <1>3 DEF Ranked
  <2>2. IsFiniteSet(below[y]) /\ Cardinality(below[x]) \in Nat /\ Cardinality(below[y]) \in Nat
    BY <1>1, <1>2
  <2>3. Cardinality(below[x]) <= Cardinality(below[y])
        /\ (Cardinality(below[y]) = Cardinality(below[x]) => below[y] = below[x])
    BY <2>1, <2>2, FS_Subset
  <2>4. below[y] # below[x]
    BY <1>3
  <2>5. QED
    BY <2>2, <2>3, <2>4
<1>4. rank \in Injection(S, 0..(N - 1))
  <2>1. rank \in [S -> 0..(N - 1)]
    BY <1>2
  <2>2. ASSUME NEW x \in S, NEW y \in S, x # y PROVE rank[x] # rank[y]
    <3>1. x \in below[y] \/ y \in below[x]
      BY <2>2 DEF Ranked
    <3>2. /\ rank[x] = Cardinality(below[x]) /\ rank[y] = Cardinality(below[y])
          /\ Cardinality(below[x]) \in Int /\ Cardinality(below[y]) \in Int
      BY <1>1, <1>2
    <3>3. CASE x \in below[y]
      BY <1>3, <3>2, <3>3
    <3>4. CASE y \in below[x]
      BY <1>3, <3>2, <3>4
    <3>5. QED
      BY <3>1, <3>3, <3>4
  <2>3. QED
    BY <2>1, <2>2 DEF Injection, IsInjective
<1>5. IsFiniteSet(0..(N - 1)) /\ Cardinality(0..(N - 1)) = N
  <2>1. 0 \in Int /\ N - 1 \in Int
    BY <1>1
  <2> HIDE DEF N
  <2>2. /\ IsFiniteSet(0..(N - 1))
        /\ Cardinality(0..(N - 1)) = IF 0 > N - 1 THEN 0 ELSE (N - 1) - 0 + 1
    BY <2>1, FS_Interval
  <2>3. QED
    BY <1>1, <2>2
<1>6. rank \in Surjection(S, 0..(N - 1))
  <2> DEFINE T == 0..(N - 1)
  <2>1. rank \in Injection(S, T) /\ IsFiniteSet(T) /\ Cardinality(S) = Cardinality(T)
    BY <1>4, <1>5
  <2> HIDE DEF rank, T, N
  <2>2. Cardinality(S) = Cardinality(T) <=> rank \in Surjection(S, T)
    BY <2>1, FS_Injection, Zenon
  <2>3. QED
    BY <2>1, <2>2 DEF T
<1>7. \A n \in 0..(N - 1) : \E x \in S : rank[x] = n
  BY <1>6 DEF Surjection
<1>8. QED
  BY <1>2, <1>3, <1>7

\* A set of numbers in order: all of them, each once, from the least to the greatest.
LEMMA Order ==
    ASSUME NEW S, S \subseteq Nat, IsFiniteSet(S)
    PROVE  /\ InOrder(S) \in Seq(S) /\ Len(InOrder(S)) = Cardinality(S)
           /\ DOMAIN InOrder(S) = 1..Cardinality(S)
           /\ \A i, j \in DOMAIN InOrder(S) : i < j => InOrder(S)[i] < InOrder(S)[j]
           /\ \A k \in S : \E i \in DOMAIN InOrder(S) : InOrder(S)[i] = k
<1> DEFINE N == Cardinality(S)
           below == [k \in S |-> {j \in S : j < k}]
           seq == InOrder(S)
<1>1. N \in Nat
  BY FS_CardinalityType
<1>2. /\ below \in [S -> SUBSET S]
      /\ \A x \in S : x \notin below[x]
      /\ Ranked(S, below)
  <2>1. \A x, y \in S : x # y => x < y \/ y < x
    OBVIOUS
  <2>2. \A x, y, z \in S : x < y /\ y < z => x < z
    OBVIOUS
  <2>3. \A x \in S : ~(x < x)
    OBVIOUS
  <2>4. Ranked(S, below)
    BY <2>1, <2>2, ZenonT(60) DEF Ranked
  <2>5. QED
    BY <2>3, <2>4, Zenon
<1>3. /\ \A x \in S : Cardinality(below[x]) \in 0..(N - 1)
      /\ \A x, y \in S : x \in below[y] => Cardinality(below[x]) < Cardinality(below[y])
      /\ \A n \in 0..(N - 1) : \E x \in S : Cardinality(below[x]) = n
  <2> HIDE DEF below
  <2>1. QED
    BY <1>2, Places
<1>4. ASSUME NEW k \in S PROVE below[k] = {j \in S : j < k}
  OBVIOUS
<1>5. seq = [i \in 1..N |-> Nth(S, i)]
  BY DEF InOrder
<1> HIDE DEF below, N, seq
<1>6. ASSUME NEW i \in 1..N PROVE seq[i] \in S /\ Cardinality(below[seq[i]]) = i - 1
  <2>1. i - 1 \in 0..(N - 1)
    BY <1>1
  <2>2. PICK k \in S : Cardinality(below[k]) = i - 1
    BY <1>3, <2>1
  <2>3. Cardinality({j \in S : j < k}) = i - 1
    BY <1>4, <2>2
  <2>4. seq[i] \in S /\ Cardinality({j \in S : j < seq[i]}) = i - 1
    BY <1>5, <2>3 DEF Nth
  <2>5. QED
    BY <1>4, <2>4
<1>7. seq \in [1..N -> S]
  BY <1>5, <1>6
<1>8. seq \in Seq(S) /\ Len(seq) = N /\ DOMAIN seq = 1..N
  BY <1>1, <1>7
<1>9. ASSUME NEW i \in 1..N, NEW j \in 1..N, i < j PROVE seq[i] < seq[j]
  <2>2. seq[i] \in S /\ seq[j] \in S
    BY <1>6
  <2>3. seq[j] # seq[i] /\ ~(seq[j] < seq[i])
    <3> DEFINE x == seq[i]
               y == seq[j]
    <3>1. x \in S /\ y \in S /\ Cardinality(below[x]) = i - 1 /\ Cardinality(below[y]) = j - 1
      BY <1>6
    <3> HIDE DEF x, y
    <3>2. i - 1 < j - 1 /\ ~(j - 1 < i - 1) /\ i - 1 # j - 1
      BY <1>1, <1>9
    <3>3. y \notin below[x] /\ x # y
      BY <1>3, <3>1, <3>2, Zenon
    <3>4. below[x] = {l \in S : l < x}
      BY <1>4, <3>1
    <3>5. ~(y < x) /\ x # y
      BY <3>1, <3>3, <3>4
    <3>6. QED
      BY <3>5 DEF x, y
  <2>4. QED
    <3>1. seq[i] \in Nat /\ seq[j] \in Nat
      BY <2>2
    <3>2. QED
      BY <2>3, <3>1
<1>10. ASSUME NEW k \in S PROVE \E i \in 1..N : seq[i] = k
  <2>1. PICK n \in 0..(N - 1) : n = Cardinality(below[k])
    BY <1>3
  <2>2. n + 1 \in 1..N
    BY <1>1
  <2>3. seq[n + 1] \in S /\ Cardinality(below[seq[n + 1]]) = n
    BY <1>1, <1>6, <2>2
  <2>4. seq[n + 1] = k
    <3> DEFINE x == seq[n + 1]
    <3>1. x \in S /\ Cardinality(below[x]) = n
      BY <2>3
    <3> HIDE DEF x
    <3>2. ~(n < n)
      OBVIOUS
    <3>3. x \notin below[k] /\ k \notin below[x]
      BY <1>3, <2>1, <3>1, <3>2, Zenon
    <3>4. below[x] = {l \in S : l < x} /\ below[k] = {l \in S : l < k}
      BY <1>4, <3>1
    <3>5. ~(x < k) /\ ~(k < x)
      BY <3>1, <3>3, <3>4
    <3>6. x \in Nat /\ k \in Nat
      BY <3>1
    <3>7. x = k
      BY <3>5, <3>6
    <3>8. QED
      BY <3>7 DEF x
  <2>5. QED
    BY <2>2, <2>4
<1>11. QED
  BY <1>8, <1>9, <1>10 DEF N, seq

\* The least and the greatest of some numbers.
LEMMA Extremes ==
    ASSUME NEW S, S \subseteq Nat, IsFiniteSet(S), S # {}
    PROVE  /\ Max(S) \in S /\ \A k \in S : k <= Max(S)
           /\ \E m \in S : \A k \in S : m <= k
<1> DEFINE N == Cardinality(S)
           seq == InOrder(S)
<1>1. N \in Nat /\ N # 0
  BY FS_CardinalityType, FS_EmptySet
<1>2. /\ DOMAIN seq = 1..N /\ seq \in Seq(S) /\ Len(seq) = N
      /\ \A i, j \in 1..N : i < j => seq[i] < seq[j]
      /\ \A k \in S : \E i \in 1..N : seq[i] = k
  BY Order
<1> HIDE DEF N, seq
<1>3. \A i \in 1..N : seq[i] \in S
  BY <1>2
<1>4. seq[N] \in S /\ \A k \in S : seq[N] >= k
  <2>1. ASSUME NEW k \in S PROVE seq[N] >= k
    <3>1. PICK i \in 1..N : seq[i] = k
      BY <1>2
    <3>2. N \in 1..N /\ (i < N \/ i = N)
      BY <1>1
    <3>3. seq[i] \in Nat /\ seq[N] \in Nat
      BY <1>3, <3>2
    <3>4. QED
      BY <1>2, <3>1, <3>2, <3>3
  <2>2. N \in 1..N
    BY <1>1
  <2>3. QED
    BY <1>3, <2>1, <2>2
<1>5. seq[1] \in S /\ \A k \in S : seq[1] <= k
  <2>1. ASSUME NEW k \in S PROVE seq[1] <= k
    <3>1. PICK i \in 1..N : seq[i] = k
      BY <1>2
    <3>2. 1 \in 1..N /\ (1 < i \/ i = 1)
      BY <1>1
    <3>3. seq[i] \in Nat /\ seq[1] \in Nat
      BY <1>3, <3>2
    <3>4. QED
      BY <1>2, <3>1, <3>2, <3>3
  <2>2. 1 \in 1..N
    BY <1>1
  <2>3. QED
    BY <1>3, <2>1, <2>2
<1>6. Max(S) \in S /\ \A k \in S : Max(S) >= k
  BY <1>4, Zenon DEF Max
<1>7. \A k \in S : k <= Max(S)
  BY <1>6
<1>8. QED
  BY <1>5, <1>6, <1>7

\* Keys are finitely many.
LEMMA KeySets == ASSUME NEW S, S \subseteq Key PROVE IsFiniteSet(S) /\ S \subseteq Nat /\ Cardinality(S) \in 0..Keys
<1>1. Keys \in Nat
  BY ListingAssumption
<1>2. IsFiniteSet(Key) /\ Cardinality(Key) = Keys
  <2>1. Cardinality(1..Keys) = IF 1 > Keys THEN 0 ELSE Keys - 1 + 1
    BY <1>1, FS_Interval
  <2>2. IsFiniteSet(1..Keys)
    BY <1>1, FS_Interval
  <2>3. QED
    BY <1>1, <2>1, <2>2 DEF Key
<1>3. IsFiniteSet(S) /\ Cardinality(S) <= Keys
  BY <1>2, FS_Subset
<1>4. Cardinality(S) \in Nat
  BY <1>3, FS_CardinalityType
<1>5. QED
  BY <1>1, <1>3, <1>4 DEF Key

\* The first keys of a page: those before all others, a page of them if there are more.
LEMMA FirstKeys ==
    ASSUME NEW S, S \subseteq Key
    PROVE  /\ FirstOf(S) \subseteq S
           /\ \A k \in FirstOf(S), j \in S \ FirstOf(S) : k < j
           /\ S # {} => FirstOf(S) # {}
           /\ S # FirstOf(S) => /\ Cardinality(FirstOf(S)) = Page
                                /\ \A m \in Nat : \E k \in FirstOf(S) : k # m
<1> DEFINE Below(k) == {j \in S : j < k}
<1>1. Page \in Nat /\ Page > 1
  BY ListingAssumption
<1>2. S \subseteq Nat /\ IsFiniteSet(S)
  BY KeySets
<1>3. FirstOf(S) = {k \in S : Cardinality(Below(k)) < Page}
  BY DEF FirstOf
<1>4. ASSUME NEW T, T \subseteq S PROVE IsFiniteSet(T) /\ Cardinality(T) \in Nat /\ T \subseteq Nat
  <2>1. IsFiniteSet(T)
    BY <1>2, <1>4, FS_Subset
  <2>2. QED
    BY <1>2, <1>4, <2>1, FS_CardinalityType
<1>5. ASSUME NEW k \in FirstOf(S), NEW j \in S \ FirstOf(S) PROVE k < j
  <2>1. k \in S /\ j \in S /\ k \in Nat /\ j \in Nat
    BY <1>2, <1>3
  <2>2. SUFFICES ASSUME j <= k PROVE FALSE
    BY <2>1
  <2>3. Below(j) \subseteq Below(k) /\ Below(k) \subseteq S /\ Below(j) \subseteq S
    <3>1. \A i \in S : i < j => i < k
      BY <1>2, <2>1, <2>2
    <3>2. QED
      BY <3>1
  <2> HIDE DEF Below
  <2> DEFINE B == Below(j)
             C == Below(k)
  <2>4. Cardinality(Below(j)) <= Cardinality(Below(k))
    <3>1. B \in SUBSET C /\ IsFiniteSet(C)
      BY <1>4, <2>3
    <3> HIDE DEF B, C
    <3>2. Cardinality(B) <= Cardinality(C)
      BY <3>1, FS_Subset
    <3>3. QED
      BY <3>2 DEF B, C
  <2>5. Cardinality(Below(k)) < Page /\ ~(Cardinality(Below(j)) < Page)
    BY <1>3, <2>1
  <2>6. Cardinality(Below(k)) \in Nat /\ Cardinality(Below(j)) \in Nat
    BY <1>4, <2>3
  <2>7. QED
    BY <1>1, <2>4, <2>5, <2>6
<1>6. ASSUME S # {} PROVE FirstOf(S) # {}
  <2>1. PICK m \in S : \A k \in S : m <= k
    BY <1>2, <1>6, Extremes
  <2>2. Below(m) = {}
    <3>1. \A k \in S : ~(k < m)
      BY <1>2, <2>1
    <3>2. QED
      BY <3>1
  <2>3. Cardinality(Below(m)) = 0
    BY <2>2, FS_EmptySet
  <2>4. QED
    BY <1>1, <1>3, <2>3
<1>7. ASSUME S # FirstOf(S) PROVE Cardinality(FirstOf(S)) = Page
  <2> DEFINE F == FirstOf(S)
  <2>1. F \subseteq S
    BY <1>3
  <2>2. S \ F # {} /\ F # {} /\ S \ F \subseteq S
    BY <1>6, <1>7, <2>1
  <2>3. PICK m \in S \ F : \A k \in S \ F : m <= k
    BY <1>4, <2>2, Extremes
  <2>4. PICK x \in F : \A k \in F : k <= x
    BY <1>4, <2>1, <2>2, Extremes
  <2>5. Below(m) = F
    <3>1. \A k \in F : k \in S /\ k < m
      BY <1>5, <2>1, <2>3
    <3>2. \A k \in S : k < m => k \in F
      BY <1>2, <2>3
    <3>3. QED
      BY <3>1, <3>2
  <2>6. Cardinality(F) >= Page
    <3>1. ~(Cardinality(Below(m)) < Page)
      BY <1>3, <2>3
    <3>2. Cardinality(F) \in Nat
      BY <1>4, <2>1
    <3> HIDE DEF F, Below
    <3>3. QED
      BY <1>1, <2>5, <3>1, <3>2
  <2>7. F \ {x} \subseteq Below(x)
    <3>1. \A k \in F : k \in S /\ k \in Nat /\ x \in Nat /\ k <= x
      BY <1>2, <2>1, <2>4
    <3>2. \A k \in F : k # x => k < x
      BY <3>1
    <3>3. QED
      BY <3>1, <3>2
  <2>8. Below(x) \subseteq S /\ F \ {x} \subseteq S
    BY <2>1
  <2>9. Cardinality(Below(x)) < Page
    BY <1>3, <2>4
  <2> HIDE DEF Below, F
  <2>10. Cardinality(F \ {x}) = Cardinality(F) - 1
    <3>1. IsFiniteSet(F) /\ x \in F
      BY <1>4, <2>1, <2>4
    <3>2. QED
      BY <3>1, FS_RemoveElement
  <2>11. Cardinality(F \ {x}) <= Cardinality(Below(x))
    <3> DEFINE A == F \ {x}
               B == Below(x)
    <3>1. A \in SUBSET B /\ IsFiniteSet(B)
      BY <1>4, <2>7, <2>8
    <3> HIDE DEF A, B
    <3>2. Cardinality(A) <= Cardinality(B)
      BY <3>1, FS_Subset
    <3>3. QED
      BY <3>2 DEF A, B
  <2>12. /\ Cardinality(F) \in Nat /\ Cardinality(F \ {x}) \in Nat /\ Cardinality(Below(x)) \in Nat
    BY <1>4, <2>1, <2>8
  <2>13. QED
    BY <1>1, <2>6, <2>9, <2>10, <2>11, <2>12 DEF F
<1>8. ASSUME S # FirstOf(S), NEW m \in Nat PROVE \E k \in FirstOf(S) : k # m
  <2>1. SUFFICES ASSUME FirstOf(S) \subseteq {m} PROVE FALSE
    OBVIOUS
  <2>2. IsFiniteSet({m}) /\ Cardinality({m}) = 1
    BY FS_Singleton
  <2>3. Cardinality(FirstOf(S)) <= 1
    BY <2>1, <2>2, FS_Subset
  <2>4. QED
    BY <1>1, <1>7, <1>8, <2>3
<1>9. FirstOf(S) \subseteq S
  BY <1>3
<1>10. \A k \in FirstOf(S), j \in S \ FirstOf(S) : k < j
  BY <1>5
<1>11. S # FirstOf(S) => /\ Cardinality(FirstOf(S)) = Page
                         /\ \A m \in Nat : \E k \in FirstOf(S) : k # m
  BY <1>7, <1>8
<1>12. QED
  BY <1>6, <1>9, <1>10, <1>11

\* A sequence that is made longer.
LEMMA Longer ==
    ASSUME NEW T, NEW s \in Seq(T), NEW w \in Seq(T)
    PROVE  /\ Grows(s, s \o w, {w[i] : i \in DOMAIN w})
           /\ s \o w \in Seq(T)
           /\ (\A i, j \in DOMAIN w : i < j => w[i] < w[j]) => Rises(s, s \o w)
<1> DEFINE u == s \o w
           m == Len(s)
           n == Len(w)
<1>1. /\ u \in Seq(T) /\ Len(u) = m + n /\ m \in Nat /\ n \in Nat
      /\ \A i \in 1..(m + n) : u[i] = IF i <= m THEN s[i] ELSE w[i - m]
  BY ConcatProperties, LenProperties
<1>2. DOMAIN s = 1..m /\ DOMAIN w = 1..n
  BY LenProperties
<1>3. DOMAIN u = 1..(m + n)
  <2> HIDE DEF u
  <2>1. DOMAIN u = 1..Len(u)
    BY <1>1, LenProperties
  <2>2. QED
    BY <1>1, <2>1
<1> HIDE DEF u, m, n
<1>4. \A i \in 1..m : i \in 1..(m + n) /\ u[i] = s[i]
  BY <1>1
<1>5. \A i \in 1..(m + n) : i \notin 1..m => i - m \in 1..n /\ u[i] = w[i - m]
  BY <1>1
<1>6. \A i \in 1..n : i + m \in 1..(m + n) /\ u[i + m] = w[i]
  <2> SUFFICES ASSUME NEW i \in 1..n PROVE i + m \in 1..(m + n) /\ u[i + m] = w[i]
    OBVIOUS
  <2>1. i + m \in 1..(m + n) /\ ~(i + m <= m) /\ (i + m) - m = i
    BY <1>1
  <2>2. QED
    BY <1>1, <2>1
<1>7. Grows(s, u, {w[i] : i \in DOMAIN w})
  <2>1. DOMAIN s \subseteq DOMAIN u /\ \A i \in DOMAIN s : u[i] = s[i]
    BY <1>2, <1>3, <1>4
  <2>2. \A i \in DOMAIN u : \A j \in DOMAIN s : i < j => i \in DOMAIN s
    BY <1>1, <1>2, <1>3
  <2>3. \A i \in DOMAIN u : i \notin DOMAIN s => u[i] \in {w[j] : j \in DOMAIN w}
    BY <1>2, <1>3, <1>5
  <2>4. \A x \in {w[j] : j \in DOMAIN w} : \E i \in DOMAIN u : u[i] = x
    BY <1>2, <1>3, <1>6
  <2>5. QED
    BY <2>1, <2>2, <2>3, <2>4 DEF Grows
<1>8. ASSUME \A i, j \in DOMAIN w : i < j => w[i] < w[j] PROVE Rises(s, u)
  <2> SUFFICES ASSUME NEW i \in DOMAIN u, NEW j \in DOMAIN u, i < j, i \notin DOMAIN s
               PROVE  u[i] < u[j]
    BY DEF Rises
  <2>1. i \in 1..(m + n) /\ j \in 1..(m + n) /\ i \notin 1..m /\ j \notin 1..m
    BY <1>1, <1>2, <1>3
  <2>2. i - m \in 1..n /\ j - m \in 1..n /\ i - m < j - m /\ u[i] = w[i - m] /\ u[j] = w[j - m]
    BY <1>1, <1>5, <2>1
  <2>3. QED
    BY <1>2, <1>8, <2>2
<1>9. QED
  BY <1>1, <1>7, <1>8 DEF u

\* One is sent.
LEMMA OneLonger ==
    ASSUME NEW T, NEW s \in Seq(T), NEW x \in T
    PROVE  Grows(s, Append(s, x), {x}) /\ Append(s, x) \in Seq(T) /\ Rises(s, Append(s, x))
<1>1. <<x>> \in Seq(T) /\ DOMAIN <<x>> = {1} /\ <<x>>[1] = x
  OBVIOUS
<1>2. Append(s, x) = s \o <<x>>
  OBVIOUS
<1> DEFINE w == <<x>>
<1>3. w \in Seq(T) /\ {w[i] : i \in DOMAIN w} = {x}
  BY <1>1
<1>4. \A i, j \in DOMAIN w : ~(i < j)
  BY <1>1
<1> HIDE DEF w
<1>5. Grows(s, s \o w, {x}) /\ s \o w \in Seq(T) /\ Rises(s, s \o w)
  BY <1>3, <1>4, Longer, ZenonT(60)
<1>6. QED
  BY <1>2, <1>5 DEF w

\* The keys of a set are sent in order.
LEMMA SetLonger ==
    ASSUME NEW T, NEW s \in Seq(T), NEW S, S \subseteq Key, S \subseteq T
    PROVE  /\ Grows(s, s \o InOrder(S), S) /\ s \o InOrder(S) \in Seq(T)
           /\ Rises(s, s \o InOrder(S))
<1> DEFINE w == InOrder(S)
<1>1. S \subseteq Nat /\ IsFiniteSet(S)
  BY KeySets
<1>2. /\ w \in Seq(S)
      /\ \A i, j \in DOMAIN w : i < j => w[i] < w[j]
      /\ \A k \in S : \E i \in DOMAIN w : w[i] = k
  BY <1>1, Order
<1> HIDE DEF w
<1>3. \A i \in DOMAIN w : w[i] \in S
  BY <1>2, LenProperties, ElementOfSeq
<1>4. {w[i] : i \in DOMAIN w} = S
  BY <1>2, <1>3
<1>5. w \in Seq(T)
  BY <1>2, SeqMonotonic
<1>6. /\ Grows(s, s \o w, {w[i] : i \in DOMAIN w}) /\ s \o w \in Seq(T)
      /\ (\A i, j \in DOMAIN w : i < j => w[i] < w[j]) => Rises(s, s \o w)
  BY <1>5, Longer
<1>7. Rises(s, s \o w)
  BY <1>2, <1>6
<1>8. QED
  BY <1>4, <1>6, <1>7 DEF w

\* Nothing is sent.
LEMMA NotLonger == ASSUME NEW s PROVE Grows(s, s, {}) /\ Rises(s, s)
  BY DEF Grows, Rises

-----------------------------------------------------------------------------
(* Every step of a listing.                                                *)

\* What the values of a call and of what was found and sent are.
LEMMA ListFacts ==
    ASSUME ListTypeOK, lcall # <<>>
    PROVE  /\ lcall \in ListCalls /\ lcall.list \in FlatLists \cup {Redis, Ceph}
           /\ lcall.start \in Key \cup {0} /\ lcall.end \in Key \cup {0} /\ lcall.head \in BOOLEAN
           /\ lcall.start \in Nat /\ lcall.end \in Nat
           /\ Keys \in Nat /\ Key \subseteq Nat \ {0} /\ Nil \in Nat /\ Nil \notin Key
           /\ \A k \in Key : k < Nil
           /\ DOMAIN listed = 1..Len(listed) /\ Len(listed) \in Nat
           /\ \A i \in DOMAIN listed : listed[i] \in Key \cup {Nil} /\ i \in Nat \ {0}
           /\ DOMAIN found = 1..Len(found) /\ Len(found) \in Nat
           /\ \A i \in DOMAIN found : found[i] \in Key /\ i \in Nat \ {0}
<1>1. Keys \in Nat /\ Key \subseteq Nat \ {0} /\ Nil \in Nat /\ Nil \notin Key /\ \A k \in Key : k < Nil
  BY ListingAssumption DEF Key, Nil
<1>2. lcall \in ListCalls
  BY DEF ListTypeOK
<1>3. /\ lcall.list \in FlatLists \cup {Redis, Ceph} /\ lcall.start \in Key \cup {0}
      /\ lcall.end \in Key \cup {0} /\ lcall.head \in BOOLEAN
  BY <1>2, ListingAssumption
<1>4. /\ DOMAIN listed = 1..Len(listed) /\ Len(listed) \in Nat
      /\ \A i \in DOMAIN listed : listed[i] \in Key \cup {Nil}
  BY LenProperties, ElementOfSeq DEF ListTypeOK
<1>5. /\ DOMAIN found = 1..Len(found) /\ Len(found) \in Nat
      /\ \A i \in DOMAIN found : found[i] \in Key
  BY LenProperties, ElementOfSeq DEF ListTypeOK
<1>6. lcall.start \in Nat /\ lcall.end \in Nat
  <2>1. \A n \in Key \cup {0} : n \in Nat
    BY ListingAssumption DEF Key
  <2>2. QED
    BY <1>3, <2>1
<1>7. QED
  BY <1>1, <1>2, <1>3, <1>4, <1>5, <1>6

\* What was sent, and what is.
LEMMA SentGrows ==
    ASSUME NEW S, Grows(listed, listed', S), ListTypeOK, ListTypeOK'
    PROVE  SentKeys' = SentKeys \cup (S \ {Nil})
<1>1. DOMAIN listed \subseteq DOMAIN listed' /\ \A i \in DOMAIN listed : listed'[i] = listed[i]
  BY DEF Grows
<1>2. \A i \in DOMAIN listed' : i \notin DOMAIN listed => listed'[i] \in S
  BY DEF Grows
<1>3. \A x \in S : \E i \in DOMAIN listed' : listed'[i] = x
  BY DEF Grows
<1>4. {listed'[i] : i \in DOMAIN listed'} = {listed[i] : i \in DOMAIN listed} \cup S
  BY <1>1, <1>2, <1>3
<1>5. QED
  BY <1>4 DEF SentKeys, ToSet

\* Keys sent after the others keep what is listed in order and within the range.
LEMMA SentMore ==
    ASSUME ListTypeOK, ListTypeOK', lcall # <<>>, lcall' = lcall, OrderInv, KeysInv,
           NEW S, Grows(listed, listed', S), Rises(listed, listed') \/ MayRepeat',
           ever \subseteq ever', lchanges <= lchanges',
           \A i \in DOMAIN listed, x \in S : listed[i] < x \/ MayRepeat' \/ FirstAgain(i),
           \A x \in S : x # Nil => x \in ever' /\ KeyInRange(x)
    PROVE  OrderInv' /\ KeysInv'
<1>1. /\ DOMAIN listed \subseteq DOMAIN listed' /\ \A i \in DOMAIN listed : listed'[i] = listed[i]
      /\ \A i \in DOMAIN listed' : \A j \in DOMAIN listed : i < j => i \in DOMAIN listed
      /\ \A i \in DOMAIN listed' : i \notin DOMAIN listed => listed'[i] \in S
  BY DEF Grows
<1>2. \A x : KeyInRange(x)' = KeyInRange(x)
  BY DEF KeyInRange, InRange, MayGoBack, StartsAtMarker
<1>3. MayRepeat => MayRepeat'
  BY DEF MayRepeat, ListTypeOK
<1>4. \A i \in DOMAIN listed : FirstAgain(i) => FirstAgain(i)'
  BY <1>1 DEF FirstAgain, MayGoBack, StartsAtMarker
<1>5. KeysInv'
  BY <1>1, <1>2 DEF KeysInv, Nil
<1>6. ASSUME NEW i \in DOMAIN listed', NEW j \in DOMAIN listed', i < j
      PROVE  listed'[i] < listed'[j] \/ MayRepeat' \/ FirstAgain(i)'
  <2>1. CASE j \in DOMAIN listed
    BY <1>1, <1>3, <1>4, <1>6, <2>1 DEF OrderInv
  <2>2. CASE i \in DOMAIN listed /\ j \notin DOMAIN listed
    BY <1>1, <1>4, <1>6, <2>2
  <2>3. CASE i \notin DOMAIN listed
    BY <1>6, <2>3 DEF Rises
  <2>4. QED
    BY <2>1, <2>2, <2>3
<1>7. OrderInv'
  BY <1>6 DEF OrderInv
<1>8. QED
  BY <1>5, <1>7

\* The adapters: what is passed on, and what is left of a page.
LEMMA Adapters ==
    ASSUME NEW l \in FlatLists
    PROVE  /\ l.token \in BOOLEAN /\ l.drops \in BOOLEAN
           /\ l.from \in {"after", "from", "any"} /\ l.more \in {"truncated", "full", "left"}
           /\ l.more = "full" => ~l.drops /\ ~l.token
           /\ l.from = "any" => l.token /\ l.drops
           /\ l.more = "left" => l.from = "any"
<1> DEFINE Ok(f) == /\ f.token \in BOOLEAN /\ f.drops \in BOOLEAN
                    /\ f.from \in {"after", "from", "any"} /\ f.more \in {"truncated", "full", "left"}
                    /\ f.more = "full" => ~f.drops /\ ~f.token
                    /\ f.from = "any" => f.token /\ f.drops
                    /\ f.more = "left" => f.from = "any"
<1>1. Ok(Token) /\ Ok(Marker) /\ Ok(MarkerFull)
  BY DEF Token, Marker, MarkerFull, Flat
<1>2. Ok(oosList) /\ Ok(azureList) /\ Ok(qiniuList)
  BY DEF oosList, azureList, qiniuList, Flat
<1>3. Ok(b2List) /\ Ok(gsList) /\ Ok(etcdList) /\ Ok(tikvList)
  BY DEF b2List, gsList, etcdList, tikvList, Flat
<1>4. l \in {Token, Marker, MarkerFull, oosList, azureList, qiniuList, b2List, gsList, etcdList, tikvList}
  BY DEF FlatLists, s3List, ossList, tosList, cosList, obsList, bosList, ks3List, ibmcosList,
         qingstorList, ufileList, swiftList, dragonflyList, sqlList, memList, storjList
<1> HIDE DEF Ok
<1>5. Ok(l)
  BY <1>1, <1>2, <1>3, <1>4
<1>6. QED
  BY <1>5 DEF Ok

\* Redis and Ceph list in a way of their own.
LEMMA FlatKinds == /\ Redis \notin FlatLists /\ Ceph \notin FlatLists /\ Redis # Ceph
                   /\ Redis.more = "scan" /\ Ceph.more = "stat" /\ Redis.from = "after" /\ Ceph.from = "after"
<1>1. /\ Redis.more = "scan" /\ Ceph.more = "stat" /\ Redis.from = "after" /\ Ceph.from = "after"
  BY DEF Redis, Ceph, Flat
<1>2. \A l \in FlatLists : l.more # "scan" /\ l.more # "stat"
  BY Adapters
<1>3. QED
  BY <1>1, <1>2

\* A page and what is behind it.
LEMMA Answer ==
    ASSUME ListTypeOK, NEW l \in FlatLists, NEW marker \in Key \cup {0}, NEW tok \in Key \cup {0}
    PROVE  LET A == Asked(l, marker, tok)
               F == FirstOf(A)
               S == Shown(l, marker, tok)
               more == HasMore(l, marker, tok)
           IN  /\ S \subseteq F /\ F \subseteq A /\ A \subseteq have /\ A \subseteq Key
               /\ \A k \in F, j \in A \ F : k < j
               /\ \A k \in F : k \in S \/ k <= marker
               /\ \A k \in S : \/ k > marker
                               \/ k = marker /\ l.from = "from" /\ ~l.drops
               /\ A # {} => F # {}
               /\ \A k \in A \ F : k > marker \/ l.from = "any"
               /\ \A k \in A : l.token => k > tok
               /\ ~more => A = F \/ (l.more = "left" /\ S = {})
               /\ more \in BOOLEAN
               /\ more => S # {} \/ (l.from = "any" /\ l.more = "truncated")
               /\ NextToken(l, marker, tok) \in Key \cup {0}
               /\ more /\ l.token => /\ NextToken(l, marker, tok) \in F
                                     /\ \A k \in F : k <= NextToken(l, marker, tok)
<1> DEFINE A == Asked(l, marker, tok)
           F == FirstOf(A)
           S == Shown(l, marker, tok)
           more == HasMore(l, marker, tok)
           next == NextToken(l, marker, tok)
<1>1. /\ l.token \in BOOLEAN /\ l.drops \in BOOLEAN
      /\ l.from \in {"after", "from", "any"} /\ l.more \in {"truncated", "full", "left"}
      /\ l.more = "full" => ~l.drops /\ ~l.token
      /\ l.from = "any" => l.token /\ l.drops
      /\ l.more = "left" => l.from = "any"
  BY Adapters
<1>2. /\ \A k \in A : /\ k \in have /\ (l.token => k > tok)
                      /\ (l.from = "after" => k > marker) /\ (l.from = "from" => k >= marker)
      /\ S = {k \in F : l.drops => k > marker}
  BY DEF Asked, Shown
<1>3. A \subseteq have /\ A \subseteq Key
  BY <1>2 DEF ListTypeOK
<1>4. more <=> CASE l.more = "truncated" -> A # F
                 [] l.more = "full" -> Cardinality(S) = Page
                 [] l.more = "left" -> A # F /\ S # {}
  BY DEF HasMore, Truncated
<1>5. next = IF l.token /\ more THEN Max(F) ELSE 0
  BY DEF NextToken
<1> HIDE DEF A, S, more, next
<1>6. /\ F \subseteq A
      /\ \A k \in F, j \in A \ F : k < j
      /\ A # {} => F # {}
      /\ A # F => Cardinality(F) = Page /\ \A m \in Nat : \E k \in F : k # m
  BY <1>3, FirstKeys
<1> HIDE DEF F
<1>7. Key \subseteq Nat \ {0} /\ marker \in Nat /\ Page \in Nat /\ Page > 1
  BY ListingAssumption DEF Key
<1>8. \A k \in F : k \in S \/ k <= marker
  BY <1>2, <1>3, <1>6, <1>7
<1>9. \A k \in S : k > marker \/ (k = marker /\ l.from = "from" /\ ~l.drops)
  BY <1>1, <1>2, <1>3, <1>6, <1>7
<1>10. ASSUME ~more PROVE A = F \/ (l.more = "left" /\ S = {})
  <2>1. CASE l.more = "full"
    <3>1. S = F
      BY <1>1, <1>2, <2>1
    <3>2. QED
      BY <1>4, <1>6, <1>10, <2>1, <3>1
  <2>2. QED
    BY <1>1, <1>4, <1>10, <2>1
<1>11. ASSUME more PROVE S # {} \/ (l.from = "any" /\ l.more = "truncated")
  <2>1. CASE l.more = "full"
    <3>1. Cardinality(S) = Page
      BY <1>4, <1>11, <2>1
    <3>2. QED
      BY <1>7, <3>1, FS_EmptySet
  <2>2. CASE l.more = "left"
    BY <1>4, <1>11, <2>2
  <2>3. CASE l.more = "truncated" /\ l.from # "any"
    <3>1. A # F
      BY <1>4, <1>11, <2>3
    <3>2. PICK k \in F : k # marker
      BY <1>6, <1>7, <3>1
    <3>3. k > marker
      BY <1>1, <1>2, <1>3, <1>6, <1>7, <2>3, <3>2
    <3>4. QED
      BY <1>2, <3>2, <3>3
  <2>4. QED
    BY <1>1, <2>1, <2>2, <2>3
<1>12. ASSUME more, l.token PROVE next \in F /\ \A k \in F : k <= next
  <2>1. A # F
    BY <1>1, <1>4, <1>12
  <2>2. F # {} /\ IsFiniteSet(F) /\ F \subseteq Nat
    BY <1>3, <1>6, <1>7, <2>1, KeySets
  <2>3. QED
    BY <1>5, <1>12, <2>2, Extremes
<1>13. next \in Key \cup {0}
  BY <1>3, <1>5, <1>6, <1>12
<1>14. S \subseteq F /\ \A k \in A : l.token => k > tok
  BY <1>2
<1>15. \A k \in A \ F : k > marker \/ l.from = "any"
  <2> SUFFICES ASSUME NEW k \in A \ F, l.from = "from", ~(k > marker) PROVE FALSE
    BY <1>1, <1>2
  <2>1. PICK j \in F : TRUE
    BY <1>6
  <2>2. j < k /\ j >= marker /\ j \in Nat /\ k \in Nat
    BY <1>2, <1>3, <1>6, <1>7, <2>1
  <2>3. QED
    BY <1>7, <2>2
<1>16. more \in BOOLEAN
  BY <1>1, <1>4
<1>17. QED
  BY <1>3, <1>6, <1>8, <1>9, <1>10, <1>11, <1>12, <1>13, <1>14, <1>15, <1>16 DEF A, F, S, more, next

\* A page that is sent: Left is what is behind it.
LEMMA PageSent ==
    ASSUME ListTypeOK, CallInv, SoFarInv, lpc \in {"first", "page"},
           NEW objs, objs \subseteq have, NEW more \in BOOLEAN, NEW tok \in Key \cup {0},
           NEW Left, Left \subseteq Key,
           SendPage(objs, more, tok),
           UNCHANGED <<lcall, storeVars, scanVars, statVars, lfaults>>,
           \A k \in objs : k > lcall.start \/ MayGoBack \/ (k = lcall.start /\ StartsAtMarker),
           \A i \in DOMAIN listed, k \in objs : sent = 0 \/ k > sent => listed[i] < k \/ FirstAgain(i),
           \A i \in DOMAIN listed : sent # 0 => listed[i] <= sent \/ (MayGoBack /\ FirstAgain(i)),
           sent = 0 => Begun,
           more => sent >= lcall.start \/ MayGoBack \/ objs # {},
           more => objs # {} \/ sent # 0 \/ MayGoBack,
           \A k \in Wanted : k \in SentKeys \/ k \in objs \/ k \in Left,
           \A k \in Left : k > sent /\ \A j \in objs : j < k,
           ~more => Left = {} \/ MayStopEarly,
           more /\ lcall.list.token => /\ \A k \in objs : k <= tok
                                       /\ \A k \in Left : k > tok
                                       /\ sent <= tok
    PROVE  ListTypeOK' /\ SoFarInv' /\ PageInv'
<1> DEFINE out == sent # 0 /\ \E k \in objs : k <= sent
           wanted == {k \in objs : InRange(k)}
<1>1. /\ listed' = IF out THEN Append(listed, Nil) ELSE listed \o InOrder(wanted)
      /\ lpc' = IF out \/ wanted # objs \/ ~more THEN "closed" ELSE "page"
      /\ sent' = IF out \/ wanted = {} THEN sent ELSE Max(wanted)
      /\ token' = tok /\ retries' = 0
  BY DEF SendPage
<1> DEFINE S == IF out THEN {Nil} ELSE wanted
<1>2. lcall # <<>> /\ lpc # "closed"
  BY DEF CallInv
<1>3. /\ Keys \in Nat /\ Key \subseteq Nat \ {0} /\ Nil \in Nat /\ Nil \notin Key /\ \A k \in Key : k < Nil
      /\ lcall.start \in Key \cup {0} /\ lcall.end \in Key \cup {0}
      /\ lcall.start \in Nat /\ lcall.end \in Nat
      /\ DOMAIN listed = 1..Len(listed) /\ Len(listed) \in Nat
      /\ \A i \in DOMAIN listed : listed[i] \in Key \cup {Nil} /\ i \in Nat \ {0}
  BY <1>2, ListFacts
<1>4. have \subseteq Key /\ have \subseteq ever /\ listed \in Seq(Key \cup {Nil}) /\ sent \in Key \cup {0}
  BY DEF ListTypeOK
<1>5. wanted \subseteq objs /\ wanted \subseteq Key /\ objs \subseteq Key /\ objs \subseteq ever
  BY <1>4
<1>6. wanted # {} => Max(wanted) \in wanted /\ \A k \in wanted : k <= Max(wanted)
  <2> HIDE DEF wanted
  <2>1. wanted \subseteq Nat /\ IsFiniteSet(wanted)
    BY <1>5, KeySets
  <2>2. QED
    BY <2>1, Extremes
<1> HIDE DEF wanted, out
<1>7. /\ Grows(listed, listed', S) /\ listed' \in Seq(Key \cup {Nil}) /\ Rises(listed, listed')
  <2>1. CASE out
    BY <1>1, <1>4, <2>1, OneLonger
  <2>2. CASE ~out
    BY <1>1, <1>4, <1>5, <2>2, SetLonger
  <2>3. QED
    BY <2>1, <2>2
<1>8. sent' \in Key \cup {0}
  BY <1>1, <1>4, <1>5, <1>6
<1>9. ListTypeOK'
  <2>1. /\ lpc' \in LPC /\ token' \in Key \cup {0} /\ retries' \in 0..Retries
    BY <1>1, ListingAssumption DEF LPC
  <2>2. QED
    BY <1>7, <1>8, <2>1 DEF ListTypeOK, storeVars, scanVars, statVars
<1>10. /\ lcall' = lcall /\ ever' = ever /\ lchanges' = lchanges /\ always' = always /\ have' = have
  BY DEF storeVars
<1>11. \A k \in objs : ~out /\ sent # 0 => k > sent
  BY <1>3, <1>4, <1>5 DEF out
<1>12. \A i \in DOMAIN listed, x \in S : listed[i] < x \/ MayRepeat' \/ FirstAgain(i)
  <2>1. CASE out
    <3>1. \A i \in DOMAIN listed : listed[i] # Nil
      BY <1>2 DEF SoFarInv, NoNilInv
    <3>2. QED
      BY <1>3, <2>1, <3>1
  <2>2. CASE ~out
    BY <1>5, <1>11, <2>2
  <2>3. QED
    BY <2>1, <2>2
<1>13. \A x \in S : x # Nil => x \in ever' /\ KeyInRange(x)
  <2>1. \A x \in wanted : InRange(x)
    BY DEF wanted
  <2>2. QED
    BY <1>5, <1>10, <2>1 DEF KeyInRange
<1>14. OrderInv' /\ KeysInv'
  <2>1. lchanges <= lchanges' /\ ever \subseteq ever'
    BY <1>10, ListingAssumption DEF ListTypeOK
  <2>2. OrderInv /\ KeysInv
    BY DEF SoFarInv
  <2> HIDE DEF S
  <2>3. QED
    BY <1>2, <1>7, <1>9, <1>10, <1>12, <1>13, <2>1, <2>2, SentMore
<1>15. SentKeys' = SentKeys \cup (S \ {Nil})
  BY <1>7, <1>9, SentGrows
<1>16. Wanted' = Wanted /\ MayStopEarly' = MayStopEarly /\ MayGoBack' = MayGoBack
  BY <1>10 DEF Wanted, MayStopEarly, MayGoBack
<1>17. ASSUME ~out PROVE S = wanted /\ SentKeys' = SentKeys \cup wanted
  BY <1>3, <1>5, <1>15, <1>17
<1>18. NoNilInv'
  <2> SUFFICES ASSUME lpc' # "closed" PROVE \A i \in DOMAIN listed' : listed'[i] # Nil
    BY DEF NoNilInv, Nil
  <2>1. ~out /\ \A i \in DOMAIN listed : listed[i] # Nil
    BY <1>1, <1>2 DEF SoFarInv, NoNilInv
  <2>2. Nil \notin S
    BY <1>3, <1>5, <2>1
  <2>3. QED
    BY <1>7, <2>1, <2>2 DEF Grows
<1>19. ASSUME ~out, NEW k \in Wanted, k \in objs, k \notin wanted PROVE FALSE
  BY <1>19 DEF Wanted, wanted, InRange
<1>20. CompleteInv'
  <2> SUFFICES ASSUME lpc' = "closed", ~Contains(listed', Nil), NEW k \in Wanted, k \notin SentKeys', ~MayStopEarly
               PROVE  FALSE
    BY <1>16 DEF CompleteInv, Complete, Nil
  <2>1. ~out
    <3>1. SUFFICES ASSUME out PROVE Nil \in S
      BY <1>7, <1>9, LenProperties DEF Grows, Contains, ListTypeOK
    <3>2. QED
      BY <3>1
  <2>2. k \in Left
    BY <1>17, <1>19, <2>1
  <2>3. wanted # objs /\ Left # {}
    BY <1>1, <2>1, <2>2
  <2>4. PICK j \in objs : j \notin wanted
    BY <1>5, <2>3
  <2>5. j < k /\ j \in Nat /\ k \in Nat
    BY <1>3, <1>5, <2>2, <2>4
  <2>6. lcall.end # 0 /\ lcall.end < j
    <3>1. ~InRange(j)
      BY <2>4 DEF wanted
    <3>2. lcall.end # 0 /\ ~(j <= lcall.end) /\ lcall.end \in Nat
      BY <1>3, <3>1 DEF InRange
    <3>3. QED
      BY <2>5, <3>2
  <2>7. k <= lcall.end
    BY <2>6 DEF Wanted
  <2>8. QED
    <3>1. lcall.end \in Nat
      BY <1>3
    <3>2. QED
      BY <2>5, <2>6, <2>7, <3>1
<1>21. PageInv'
  <2> SUFFICES ASSUME lpc' = "page"
               PROVE  /\ sent' = 0 => MayGoBack /\ Begun'
                      /\ sent' >= lcall.start \/ MayGoBack
                      /\ \A i \in DOMAIN listed' : listed'[i] <= sent' \/ (MayGoBack /\ FirstAgain(i)')
                      /\ lcall.list.token => sent' <= tok
                      /\ \A k \in Wanted : k \in SentKeys' \/ k > (IF lcall.list.token THEN tok ELSE sent')
    BY <1>1, <1>10, <1>16 DEF PageInv
  <2>1. ~out /\ wanted = objs /\ more /\ S = objs /\ SentKeys' = SentKeys \cup objs
    BY <1>1, <1>17
  <2>2. CASE objs = {}
    <3>1. sent' = sent /\ sent \in Nat
      BY <1>1, <1>3, <1>4, <2>1, <2>2
    <3>2. DOMAIN listed' = DOMAIN listed /\ \A i \in DOMAIN listed : listed'[i] = listed[i]
      <4>1. S = {}
        BY <2>1, <2>2
      <4> HIDE DEF S
      <4>2. Grows(listed, listed', {})
        BY <1>7, <4>1
      <4>3. QED
        BY <4>2 DEF Grows
    <3>3. Begun' <=> Begun
      BY <1>10, <3>2 DEF Begun
    <3>4. \A i \in DOMAIN listed : FirstAgain(i) => FirstAgain(i)'
      BY <1>10, <3>2 DEF FirstAgain, StartsAtMarker, MayGoBack
    <3>5. \A k \in Wanted : k \in SentKeys \/ k \in Left
      BY <2>2
    <3>6. \A i \in DOMAIN listed : listed[i] <= sent \/ (MayGoBack /\ FirstAgain(i))
      <4>1. CASE sent # 0
        BY <4>1
      <4>2. CASE sent = 0
        <5>1. MayGoBack /\ Begun
          BY <2>1, <2>2, <4>2
        <5>2. QED
          BY <5>1 DEF Begun, FirstAgain
      <4>3. QED
        BY <4>1, <4>2
    <3>7. \A k \in Wanted : k \in SentKeys' \/ k > (IF lcall.list.token THEN tok ELSE sent)
      BY <2>1, <3>5
    <3>8. QED
      BY <2>1, <2>2, <3>1, <3>2, <3>3, <3>4, <3>6, <3>7
  <2>3. CASE objs # {}
    <3>1. sent' = Max(objs) /\ sent' \in objs /\ \A k \in objs : k <= sent'
      BY <1>1, <1>6, <2>1, <2>3
    <3>2. sent' \in Nat \ {0} /\ \A k \in objs : k \in Nat
      BY <1>3, <1>5, <3>1
    <3>3. sent' >= lcall.start \/ MayGoBack
      <4>1. sent' > lcall.start \/ MayGoBack \/ sent' = lcall.start
        BY <3>1
      <4>2. lcall.start \in Nat
        BY <1>3
      <4>3. QED
        BY <3>2, <4>1, <4>2
    <3>4. ASSUME NEW i \in DOMAIN listed' PROVE listed'[i] <= sent' \/ (MayGoBack /\ FirstAgain(i)')
      <4>1. CASE i \notin DOMAIN listed
        BY <1>7, <2>1, <3>1, <4>1 DEF Grows
      <4>2. CASE i \in DOMAIN listed
        <5>1. listed'[i] = listed[i] /\ (FirstAgain(i) => FirstAgain(i)')
          BY <1>7, <1>10, <4>2 DEF Grows, FirstAgain, StartsAtMarker, MayGoBack
        <5>2. CASE sent # 0
          <6>1. sent < sent' /\ sent \in Nat
            BY <1>3, <1>4, <1>11, <2>1, <3>1, <3>2, <5>2
          <6>2. listed[i] <= sent \/ (MayGoBack /\ FirstAgain(i))
            BY <4>2, <5>2
          <6>3. listed[i] \in Nat
            BY <1>3, <4>2
          <6>4. QED
            BY <3>2, <5>1, <6>1, <6>2, <6>3
        <5>3. CASE sent = 0
          <6>1. listed[i] = lcall.start /\ i = 1 /\ listed[1] = lcall.start
            BY <4>2, <5>3 DEF Begun
          <6>2. QED
            BY <3>3, <3>2, <1>3, <5>1, <6>1 DEF FirstAgain
        <5>4. QED
          BY <5>2, <5>3
      <4>3. QED
        BY <4>1, <4>2
    <3>5. lcall.list.token => sent' <= tok
      BY <2>1, <3>1
    <3>6. \A k \in Wanted : k \in SentKeys' \/ k \in Left
      BY <2>1
    <3>7. \A k \in Left : k > (IF lcall.list.token THEN tok ELSE sent')
      BY <1>3, <2>1, <3>1, <3>2
    <3>8. QED
      BY <3>2, <3>3, <3>4, <3>5, <3>6, <3>7
  <2>4. QED
    BY <2>2, <2>3
<1>22. QED
  BY <1>9, <1>14, <1>18, <1>20, <1>21 DEF SoFarInv

\* A page leaves the others alone.
LEMMA PageOthers ==
    ASSUME CallInv, StatInv, lpc \in {"first", "page"}, lpc' \in {"page", "closed"},
           UNCHANGED <<lcall, scanVars, statVars>>
    PROVE  CallInv' /\ ScanInv' /\ BatchInv' /\ StatInv'
<1>1. CallInv'
  BY DEF CallInv
<1>2. StatInv'
  BY DEF StatInv, scanVars, statVars
<1>3. QED
  BY <1>1, <1>2 DEF ScanInv, BatchInv

\* The first page: all that is wanted is in it or behind it.
LEMMA FirstPageInv == ASSUME ListInv, FirstPage PROVE ListInv'
<1> DEFINE l == lcall.list
           objs == Shown(l, lcall.start, 0)
           more == HasMore(l, lcall.start, 0)
           tok == NextToken(l, lcall.start, 0)
           A == Asked(l, lcall.start, 0)
           F == FirstOf(A)
           Left == A \ F
<1>1. /\ lpc = "first" /\ SendPage(objs, more, tok)
      /\ UNCHANGED <<lcall, storeVars, scanVars, statVars, lfaults>>
  BY DEF FirstPage
<1>2. lcall # <<>> /\ l \in FlatLists /\ Begun /\ sent = 0
  BY <1>1 DEF ListInv, CallInv
<1>3. ListTypeOK /\ CallInv /\ SoFarInv /\ StatInv
  BY <1>2 DEF ListInv
<1>4. /\ Key \subseteq Nat \ {0} /\ lcall.start \in Key \cup {0} /\ lcall.start \in Nat
  BY <1>2, <1>3, ListFacts
<1>5. /\ objs \subseteq F /\ F \subseteq A /\ A \subseteq have /\ A \subseteq Key
      /\ \A k \in F, j \in A \ F : k < j
      /\ \A k \in F : k \in objs \/ k <= lcall.start
      /\ \A k \in objs : k > lcall.start \/ (k = lcall.start /\ l.from = "from" /\ ~l.drops)
      /\ A # {} => F # {}
      /\ ~more => A = F \/ (l.more = "left" /\ objs = {})
      /\ more => objs # {} \/ (l.from = "any" /\ l.more = "truncated")
      /\ tok \in Key \cup {0}
      /\ more /\ l.token => tok \in F /\ \A k \in F : k <= tok
      /\ more \in BOOLEAN
  BY <1>2, <1>3, <1>4, Answer
<1>6. l.from = "any" => l.token
  BY <1>2, Adapters
<1>7. \A k \in have : k > lcall.start => k \in A
  <2>1. have \subseteq Key
    BY <1>3 DEF ListTypeOK
  <2>2. \A k \in have : k > 0 /\ (k > lcall.start => k >= lcall.start)
    BY <1>4, <2>1
  <2>3. QED
    BY <2>2, Zenon DEF Asked
<1>8. \A k \in Wanted : k \in have /\ k > lcall.start
  BY <1>3 DEF Wanted, ListTypeOK
<1> HIDE DEF objs, more, tok, A, F
<1>9. \A k \in Wanted : k \in SentKeys \/ k \in objs \/ k \in Left
  <2> SUFFICES ASSUME NEW k \in Wanted, k \notin Left PROVE k \in objs
    OBVIOUS
  <2>1. k \in A /\ k > lcall.start
    BY <1>7, <1>8
  <2>2. k \in F /\ k \in Nat
    BY <1>4, <1>5, <2>1
  <2>3. ~(k <= lcall.start)
    BY <1>4, <2>1, <2>2
  <2>4. QED
    BY <1>5, <2>2, <2>3
<1>10. \A k \in Left : k > sent /\ \A j \in objs : j < k
  BY <1>2, <1>4, <1>5
<1>11. lcall.start = 0 => F \subseteq objs
  BY <1>4, <1>5
<1>12. ~more => Left = {} \/ MayStopEarly
  BY <1>5, <1>11 DEF MayStopEarly
<1>13. more => objs # {} \/ MayGoBack
  BY <1>5, <1>6, <1>11 DEF MayGoBack
<1>14. more /\ l.token => /\ \A k \in objs : k <= tok
                          /\ \A k \in Left : k > tok
                          /\ sent <= tok
  BY <1>2, <1>4, <1>5
<1>15. \A k \in objs : k > lcall.start \/ MayGoBack \/ (k = lcall.start /\ StartsAtMarker)
  BY <1>5 DEF StartsAtMarker
<1>16. \A i \in DOMAIN listed, k \in objs : sent = 0 \/ k > sent => listed[i] < k \/ FirstAgain(i)
  BY <1>2, <1>5 DEF Begun, FirstAgain, StartsAtMarker
<1>17. objs \subseteq have /\ Left \subseteq Key
  BY <1>5
<1>18. ListTypeOK' /\ SoFarInv' /\ PageInv'
  <2> HIDE DEF Left
  <2>1. QED
    BY <1>1, <1>2, <1>3, <1>5, <1>9, <1>10, <1>12, <1>13, <1>14, <1>15, <1>16, <1>17, PageSent
<1>19. CallInv' /\ ScanInv' /\ BatchInv' /\ StatInv'
  <2>1. lpc' \in {"page", "closed"}
    BY <1>1 DEF SendPage
  <2>2. QED
    BY <1>1, <1>3, <2>1, PageOthers
<1>20. QED
  BY <1>18, <1>19 DEF ListInv

\* A later page, asked for with the last key sent or a token.
LEMMA NextPageInv == ASSUME ListInv, NextPage PROVE ListInv'
<1> DEFINE l == lcall.list
           shown == Shown(l, sent, token)
           objs == shown \ {sent}
           more == HasMore(l, sent, token)
           tok == NextToken(l, sent, token)
           A == Asked(l, sent, token)
           F == FirstOf(A)
           Left == A \ F
<1>1. /\ lpc = "page" /\ SendPage(objs, more, tok)
      /\ UNCHANGED <<lcall, storeVars, scanVars, statVars, lfaults>>
  BY DEF NextPage
<1>2. lcall # <<>> /\ l \in FlatLists
  BY <1>1 DEF ListInv, CallInv
<1>3. ListTypeOK /\ CallInv /\ SoFarInv /\ StatInv /\ PageInv
  BY <1>2 DEF ListInv
<1>4. /\ Key \subseteq Nat \ {0} /\ lcall.start \in Nat
      /\ sent \in Key \cup {0} /\ token \in Key \cup {0} /\ sent \in Nat /\ token \in Nat
  <2>1. Key \subseteq Nat \ {0} /\ lcall.start \in Nat
    BY <1>2, <1>3, ListFacts
  <2>2. sent \in Key \cup {0} /\ token \in Key \cup {0}
    BY <1>3 DEF ListTypeOK
  <2>3. QED
    BY <2>1, <2>2
<1>5. /\ shown \subseteq F /\ F \subseteq A /\ A \subseteq have /\ A \subseteq Key
      /\ \A k \in F, j \in A \ F : k < j
      /\ \A k \in F : k \in shown \/ k <= sent
      /\ \A k \in shown : k > sent \/ (k = sent /\ l.from = "from" /\ ~l.drops)
      /\ A # {} => F # {}
      /\ \A k \in A \ F : k > sent \/ l.from = "any"
      /\ \A k \in A : l.token => k > token
      /\ ~more => A = F \/ (l.more = "left" /\ shown = {})
      /\ tok \in Key \cup {0}
      /\ more /\ l.token => tok \in F /\ \A k \in F : k <= tok
      /\ more \in BOOLEAN
  BY <1>2, <1>3, <1>4, Answer
<1>6. /\ l.from = "any" => l.token
      /\ l.more = "left" => l.token
  BY <1>2, Adapters
<1>7. \A k \in have : k > sent /\ (l.token => k > token) => k \in A
  <2>1. have \subseteq Key
    BY <1>3 DEF ListTypeOK
  <2>2. \A k \in have : k > sent => k >= sent
    BY <1>4, <2>1
  <2>3. QED
    BY <2>2, Zenon DEF Asked
<1>8. /\ sent = 0 => MayGoBack /\ Begun
      /\ sent >= lcall.start \/ MayGoBack
      /\ \A i \in DOMAIN listed : listed[i] <= sent \/ (MayGoBack /\ FirstAgain(i))
      /\ l.token => sent <= token
      /\ \A k \in Wanted : k \in SentKeys \/ k > (IF l.token THEN token ELSE sent)
  BY <1>1, <1>3 DEF PageInv
<1>9. \A k \in Wanted : k \in have /\ k \in Nat
  BY <1>3, <1>4 DEF Wanted, ListTypeOK
<1> HIDE DEF shown, more, tok, A, F
<1>10. \A k \in Wanted : k \in SentKeys \/ (k \in A /\ k > sent)
  <2> SUFFICES ASSUME NEW k \in Wanted, k \notin SentKeys PROVE k \in A /\ k > sent
    OBVIOUS
  <2>1. k > (IF l.token THEN token ELSE sent) /\ (l.token => sent <= token) /\ k \in Nat /\ k \in have
    BY <1>8, <1>9
  <2>2. k > sent /\ (l.token => k > token)
    BY <1>4, <2>1
  <2>3. QED
    BY <1>7, <2>1, <2>2
<1>11. \A k \in Wanted : k \in SentKeys \/ k \in objs \/ k \in Left
  BY <1>4, <1>5, <1>9, <1>10
<1>12. \A k \in A : k \in Nat /\ k # 0
  BY <1>4, <1>5
<1>13. \A k \in Left : k > sent /\ \A j \in objs : j < k
  BY <1>4, <1>5, <1>6, <1>8, <1>12
<1>14. ~more => Left = {} \/ MayStopEarly
  <2> SUFFICES ASSUME ~more, A # F PROVE MayStopEarly
    OBVIOUS
  <2>1. l.more = "left" /\ shown = {} /\ F # {}
    BY <1>5
  <2>2. PICK k \in F : TRUE
    BY <2>1
  <2>3. k > token /\ k <= sent /\ sent <= token /\ k \in Nat
    BY <1>5, <1>6, <1>8, <1>12, <2>1, <2>2
  <2>4. QED
    BY <1>4, <2>3
<1>15. more /\ l.token => /\ \A k \in objs : k <= tok
                          /\ \A k \in Left : k > tok
                          /\ sent <= tok
  BY <1>4, <1>5, <1>8, <1>12
<1>16. \A k \in objs : k > sent
  BY <1>5
<1>17. \A k \in objs : k > lcall.start \/ MayGoBack
  <2> SUFFICES ASSUME NEW k \in objs, ~MayGoBack PROVE k > lcall.start
    OBVIOUS
  <2>1. k \in Nat /\ k > sent /\ sent >= lcall.start
    BY <1>5, <1>8, <1>12, <1>16
  <2>2. QED
    BY <1>4, <2>1
<1>18. \A i \in DOMAIN listed, k \in objs : sent = 0 \/ k > sent => listed[i] < k \/ FirstAgain(i)
  <2> SUFFICES ASSUME NEW i \in DOMAIN listed, NEW k \in objs, ~FirstAgain(i) PROVE listed[i] < k
    OBVIOUS
  <2>1. listed[i] <= sent /\ k > sent /\ k \in Nat /\ listed[i] \in Nat
    <3>1. listed[i] \in Nat
      BY <1>2, <1>3, ListFacts
    <3>2. QED
      BY <1>5, <1>8, <1>12, <1>16, <3>1
  <2>2. QED
    BY <1>4, <2>1
<1>19. objs \subseteq have /\ Left \subseteq Key
  BY <1>5
<1>20. ListTypeOK' /\ SoFarInv' /\ PageInv'
  <2>1. \A k \in objs : k > lcall.start \/ MayGoBack \/ (k = lcall.start /\ StartsAtMarker)
    BY <1>17
  <2>2. \A i \in DOMAIN listed : sent # 0 => listed[i] <= sent \/ (MayGoBack /\ FirstAgain(i))
    BY <1>8
  <2>3. /\ sent = 0 => Begun
        /\ more => sent >= lcall.start \/ MayGoBack \/ objs # {}
        /\ more => objs # {} \/ sent # 0 \/ MayGoBack
        /\ lpc \in {"first", "page"}
    BY <1>1, <1>8
  <2> HIDE DEF Left, objs, l
  <2>4. QED
    BY <1>1, <1>3, <1>5, <1>11, <1>13, <1>14, <1>15, <1>18, <1>19, <2>1, <2>2, <2>3, PageSent, ZenonT(60) DEF l
<1>21. CallInv' /\ ScanInv' /\ BatchInv' /\ StatInv'
  <2>1. lpc' \in {"page", "closed"}
    BY <1>1 DEF SendPage
  <2>2. QED
    BY <1>1, <1>3, <2>1, PageOthers
<1>22. QED
  BY <1>20, <1>21 DEF ListInv

\* The first step of a listing: the start key, or nothing.
LEMMA HeadStartInv == ASSUME ListInv, HeadStart PROVE ListInv'
<1>1. /\ lpc = "head"
      /\ UNCHANGED <<lcall, storeVars, pageVars, scanVars, statVars>>
      /\ lpc' = CASE lcall.list = Redis -> "scan" [] lcall.list = Ceph -> "iterate" [] OTHER -> "first"
  BY DEF HeadStart
<1>2. lcall # <<>> /\ ListTypeOK /\ CallInv /\ StatInv
  BY <1>1 DEF ListInv, CallInv
<1>3. /\ lcall.list \in FlatLists \cup {Redis, Ceph}
      /\ Key \subseteq Nat \ {0} /\ Nil \notin Key /\ have \subseteq Key /\ have \subseteq ever
  BY <1>2, ListFacts DEF ListTypeOK
<1>4. /\ listed = <<>> /\ sent = 0 /\ token = 0 /\ found = <<>> /\ cursor = 0 /\ node = 1 /\ taken = 0
      /\ stat = [j \in Stat |-> NoStat]
  BY <1>1, <1>2 DEF CallInv
<1>5. \/ listed' = <<>>
      \/ listed' = <<lcall.start>> /\ lcall.head /\ lcall.start \in have
  BY <1>4 DEF HeadStart
<1>6. lfaults' \in 0..ListFaults
  BY <1>2, ListingAssumption DEF HeadStart, ListFault, ListTypeOK
<1>7. /\ listed' \in Seq(Key \cup {Nil})
      /\ \A i \in DOMAIN listed' : i = 1 /\ listed'[1] = lcall.start /\ lcall.head /\ lcall.start \in have
  <2>1. CASE listed' = <<>>
    BY <2>1
  <2>2. CASE listed' = <<lcall.start>> /\ lcall.head /\ lcall.start \in have
    <3>1. lcall.start \in Key \cup {Nil}
      BY <1>3, <2>2
    <3> DEFINE x == lcall.start
    <3> HIDE DEF x
    <3>2. <<x>> \in Seq({x}) /\ DOMAIN <<x>> = {1} /\ <<x>>[1] = x
      OBVIOUS
    <3>3. <<x>> \in Seq(Key \cup {Nil})
      BY <3>1, <3>2, SeqMonotonic DEF x
    <3>4. QED
      BY <2>2, <3>2, <3>3 DEF x
  <2>3. QED
    BY <1>5, <2>1, <2>2
<1>8. lpc' \in {"first", "scan", "iterate"}
  BY <1>1
<1>9. ListTypeOK'
  BY <1>1, <1>2, <1>6, <1>7, <1>8 DEF ListTypeOK, storeVars, pageVars, scanVars, statVars, LPC
<1>10. Begun'
  BY <1>1, <1>3, <1>7 DEF Begun
<1>11. CallInv'
  <2>1. /\ lpc' = "first" => lcall.list \in FlatLists
        /\ lpc' = "scan" => lcall.list = Redis
        /\ lpc' = "iterate" => lcall.list = Ceph
    BY <1>1, <1>3
  <2>2. QED
    BY <1>1, <1>2, <1>4, <1>8, <1>10, <2>1 DEF CallInv, pageVars, scanVars, statVars
<1>12. SoFarInv'
  <2>1. OrderInv'
    BY <1>7 DEF OrderInv
  <2>2. KeysInv'
    BY <1>1, <1>3, <1>7 DEF KeysInv, KeyInRange, storeVars
  <2>3. NoNilInv'
    BY <1>3, <1>7 DEF NoNilInv, Nil
  <2>4. CompleteInv'
    BY <1>8 DEF CompleteInv, Complete
  <2>5. QED
    BY <2>1, <2>2, <2>3, <2>4 DEF SoFarInv
<1>13. ScanInv'
  <2>1. found' = <<>> /\ cursor' = 0
    BY <1>1, <1>4 DEF scanVars
  <2>2. \A k \in Wanted' : k > cursor'
    BY <1>3, <1>9, <2>1 DEF Wanted, ListTypeOK
  <2>3. DOMAIN found' = {}
    BY <2>1
  <2>4. QED
    BY <2>2, <2>3 DEF ScanInv, FoundInv, FoundOnce
<1>14. StatInv'
  <2>1. stat' = stat /\ \A j \in Stat : stat[j].pc = "none"
    BY <1>1, <1>4 DEF statVars, NoStat
  <2>2. QED
    BY <1>8, <2>1 DEF StatInv
<1>15. QED
  BY <1>8, <1>9, <1>11, <1>12, <1>13, <1>14 DEF ListInv, PageInv, BatchInv

\* The first request fails: nobody gets a channel.
LEMMA RefusedInv ==
    ASSUME ListInv, lpc \in {"first", "scan", "iterate"}, lpc' = "refused", ListFault,
           UNCHANGED <<lcall, storeVars, pageVars, scanVars, statVars, listed>>
    PROVE  ListInv'
<1>1. lcall # <<>> /\ ListTypeOK /\ CallInv /\ StatInv /\ SoFarInv
  BY DEF ListInv, CallInv
<1> USE DEF storeVars, pageVars, scanVars, statVars
<1>2. ListTypeOK'
  BY <1>1, ListingAssumption DEF ListTypeOK, LPC, ListFault
<1>3. CallInv'
  BY <1>1 DEF CallInv
<1>4. SoFarInv'
  <2>1. OrderInv'
    BY <1>1 DEF SoFarInv, OrderInv, MayRepeat, FirstAgain, MayGoBack, StartsAtMarker
  <2>2. KeysInv' /\ NoNilInv'
    BY <1>1 DEF SoFarInv, KeysInv, NoNilInv, Nil, KeyInRange, InRange, MayGoBack, StartsAtMarker
  <2>3. CompleteInv'
    BY DEF CompleteInv, Complete
  <2>4. QED
    BY <2>1, <2>2, <2>3 DEF SoFarInv
<1>5. StatInv'
  BY <1>1 DEF StatInv
<1>6. QED
  BY <1>2, <1>3, <1>4, <1>5 DEF ListInv, PageInv, ScanInv, BatchInv

\* The nil that ends a listing comes after all that was sent.
LEMMA NilSent ==
    ASSUME ListTypeOK, lcall # <<>>, SoFarInv, lpc # "closed", lpc' = "closed", listed' = Append(listed, Nil),
           UNCHANGED <<lcall, storeVars>>, ListTypeOK'
    PROVE  SoFarInv'
<1>1. /\ Nil \notin Key /\ \A k \in Key : k < Nil
      /\ \A i \in DOMAIN listed : listed[i] \in Key \cup {Nil}
  BY ListFacts
<1>2. Grows(listed, listed', {Nil}) /\ Rises(listed, listed')
  <2>1. listed \in Seq(Key \cup {Nil}) /\ Nil \in Key \cup {Nil}
    BY DEF ListTypeOK
  <2>2. QED
    BY <2>1, OneLonger
<1>3. \A i \in DOMAIN listed : listed[i] # Nil /\ listed[i] < Nil
  BY <1>1 DEF SoFarInv, NoNilInv
<1>4. lchanges <= lchanges' /\ ever \subseteq ever'
  BY ListingAssumption DEF storeVars, ListTypeOK
<1> DEFINE S == {Nil}
<1>5. \A i \in DOMAIN listed, x \in S : listed[i] < x \/ MayRepeat' \/ FirstAgain(i)
  BY <1>3
<1>6. \A x \in S : x # Nil => x \in ever' /\ KeyInRange(x)
  OBVIOUS
<1>7. Grows(listed, listed', S) /\ OrderInv /\ KeysInv /\ lcall' = lcall
  BY <1>2 DEF SoFarInv
<1> HIDE DEF S
<1>8. OrderInv' /\ KeysInv'
  BY <1>2, <1>4, <1>5, <1>6, <1>7, SentMore
<1>9. Contains(listed', Nil)
  BY <1>2, LenProperties DEF Grows, Contains, ListTypeOK
<1>10. CompleteInv'
  BY <1>9 DEF CompleteInv, Complete, Nil
<1>11. NoNilInv'
  BY DEF NoNilInv
<1>12. QED
  BY <1>8, <1>10, <1>11 DEF SoFarInv

\* A request for a page fails: it is made again, or nil ends the listing.
LEMMA PageFailsInv == ASSUME ListInv, PageFails PROVE ListInv'
<1> USE DEF storeVars, scanVars, statVars
<1>1. /\ lpc = "page" /\ ListFault
      /\ \/ retries < Retries /\ retries' = retries + 1 /\ UNCHANGED <<lpc, listed>>
         \/ lpc' = "closed" /\ listed' = Append(listed, Nil) /\ UNCHANGED retries
      /\ UNCHANGED <<lcall, storeVars, sent, token, scanVars, statVars>>
  BY DEF PageFails
<1>2. lcall # <<>> /\ ListTypeOK /\ CallInv /\ StatInv /\ SoFarInv /\ PageInv
  BY <1>1 DEF ListInv, CallInv
<1>3. ListTypeOK'
  <2>1. listed' \in Seq(Key \cup {Nil})
    <3>1. listed \in Seq(Key \cup {Nil}) /\ Nil \in Key \cup {Nil}
      BY <1>2 DEF ListTypeOK
    <3>2. Append(listed, Nil) \in Seq(Key \cup {Nil})
      BY <3>1, OneLonger
    <3>3. QED
      BY <1>1, <3>1, <3>2
  <2>2. lpc' \in LPC /\ lfaults' \in 0..ListFaults /\ retries' \in 0..Retries
    BY <1>1, <1>2, ListingAssumption DEF ListTypeOK, LPC, ListFault
  <2>3. QED
    BY <1>1, <1>2, <2>1, <2>2 DEF ListTypeOK
<1>4. CASE lpc' = "closed"
  <2>1. SoFarInv'
    BY <1>1, <1>2, <1>3, <1>4, NilSent
  <2>2. CallInv' /\ ScanInv' /\ BatchInv' /\ StatInv'
    BY <1>1, <1>2, <1>4, PageOthers
  <2>3. QED
    BY <1>3, <1>4, <2>1, <2>2 DEF ListInv, PageInv
<1>5. CASE lpc' # "closed"
  <2>1. UNCHANGED <<lpc, listed>>
    BY <1>1, <1>5
  <2>2. CallInv' /\ ScanInv' /\ BatchInv' /\ StatInv'
    BY <1>1, <1>2, <2>1, PageOthers
  <2>3. OrderInv' /\ KeysInv' /\ NoNilInv' /\ CompleteInv'
    BY <1>1, <1>2, <2>1 DEF SoFarInv, OrderInv, KeysInv, NoNilInv, CompleteInv, MayRepeat, FirstAgain,
         MayGoBack, StartsAtMarker, KeyInRange, InRange, Complete, Nil
  <2>4. PageInv'
    <3>1. Wanted' = Wanted /\ SentKeys' = SentKeys /\ MayGoBack' = MayGoBack /\ Begun' = Begun
          /\ \A i : FirstAgain(i)' = FirstAgain(i)
      BY <1>1, <2>1 DEF Wanted, SentKeys, MayGoBack, Begun, FirstAgain, StartsAtMarker, Nil
    <3>2. QED
      BY <1>1, <1>2, <2>1, <3>1 DEF PageInv
  <2>5. QED
    BY <1>3, <2>2, <2>3, <2>4 DEF ListInv, SoFarInv
<1>6. QED
  BY <1>4, <1>5

\* A key comes or goes.
LEMMA KeyChangesInv == ASSUME ListInv, KeyChanges PROVE ListInv'
<1> USE DEF pageVars, scanVars, statVars
<1>1. /\ lpc \in {"head", "first", "page", "scan", "send", "iterate", "stat"}
      /\ lchanges < ListChanges /\ lchanges' = lchanges + 1
      /\ UNCHANGED <<lcall, lpc, pageVars, scanVars, statVars, listed, lfaults>>
  BY DEF KeyChanges
<1>2. PICK k \in Key :
          /\ have' = IF k \in have THEN have \ {k} ELSE have \cup {k}
          /\ always' = always \ {k} /\ ever' = ever \cup {k}
  BY DEF KeyChanges
<1>3. lcall # <<>> /\ ListTypeOK /\ CallInv /\ StatInv /\ SoFarInv /\ PageInv /\ ScanInv /\ BatchInv
  BY <1>1 DEF ListInv, CallInv
<1>4. /\ always' \subseteq always /\ ever \subseteq ever' /\ lchanges' # 0 /\ lchanges' > 0
      /\ lchanges' \in 0..ListChanges
  BY <1>1, <1>2, <1>3, ListingAssumption DEF ListTypeOK
<1>5. ListTypeOK'
  <2>1. have' \subseteq Key /\ always' \subseteq have' /\ have' \subseteq ever' /\ ever' \subseteq Key
    BY <1>2, <1>3 DEF ListTypeOK
  <2>2. QED
    BY <1>1, <1>3, <1>4, <2>1 DEF ListTypeOK
<1>6. CallInv'
  BY <1>1, <1>3 DEF CallInv, Begun
<1>7. /\ Wanted' \subseteq Wanted /\ SentKeys' = SentKeys /\ MayGoBack' = MayGoBack /\ Begun' = Begun
      /\ \A i : FirstAgain(i)' = FirstAgain(i)
  BY <1>1, <1>4 DEF Wanted, SentKeys, MayGoBack, Begun, FirstAgain, StartsAtMarker, Nil
<1>8. OrderInv' /\ KeysInv' /\ NoNilInv' /\ CompleteInv'
  <2>1. OrderInv'
    BY <1>1, <1>3, <1>4, <1>7 DEF SoFarInv, OrderInv, MayRepeat
  <2>2. KeysInv' /\ NoNilInv'
    BY <1>1, <1>3, <1>4 DEF SoFarInv, KeysInv, NoNilInv, KeyInRange, InRange, MayGoBack, StartsAtMarker, Nil
  <2>3. CompleteInv'
    BY <1>1 DEF CompleteInv, Complete
  <2>4. QED
    BY <2>1, <2>2, <2>3
<1>9. PageInv'
  BY <1>1, <1>3, <1>7 DEF PageInv
<1>10. FoundInv => FoundInv'
  BY <1>1, <1>4 DEF FoundInv
<1>11. ScanInv' /\ BatchInv'
  <2>1. ScanInv'
    BY <1>1, <1>3, <1>4, <1>7, <1>10 DEF ScanInv
  <2>2. BatchInv'
    BY <1>1, <1>3, <1>4, <1>7, <1>10 DEF BatchInv
  <2>3. QED
    BY <2>1, <2>2
<1>12. StatInv'
  BY <1>1, <1>3, <1>4, <1>7, <1>10 DEF StatInv, Nil
<1>13. QED
  BY <1>5, <1>6, <1>8, <1>9, <1>11, <1>12 DEF ListInv, SoFarInv

\* The nodes of a cluster.
LEMMA Nodes == ASSUME NEW k \in Key \cup {0} PROVE NodeOf(k) \in 1..Masters
<1>1. Masters \in Nat \ {0} /\ k + 1 \in Nat
  BY ListingAssumption DEF Key
<1>2. (k + 1) % Masters \in 0..(Masters - 1)
  BY <1>1
<1>3. QED
  BY <1>1, <1>2 DEF NodeOf

\* Keys of a node that were found, the ones of the batch, and one that is given again.
LEMMA Batch ==
    ASSUME NEW s \in Seq(Key), NEW N, N \subseteq Key, NEW u,
           \/ u = s \o InOrder(N)
           \/ \E i \in DOMAIN s : u = Append(s \o InOrder(N), s[i])
    PROVE  /\ u \in Seq(Key)
           /\ \A i \in DOMAIN u : u[i] \in N \/ \E j \in DOMAIN s : u[i] = s[j]
           /\ \A k \in N : \E i \in DOMAIN u : u[i] = k
           /\ \A j \in DOMAIN s : \E i \in DOMAIN u : u[i] = s[j]
<1> DEFINE f == s \o InOrder(N)
<1>1. Grows(s, f, N) /\ f \in Seq(Key)
  BY SetLonger
<1> HIDE DEF f
<1>2. ASSUME u = f
      PROVE  /\ u \in Seq(Key)
             /\ \A i \in DOMAIN u : u[i] \in N \/ \E j \in DOMAIN s : u[i] = s[j]
             /\ \A k \in N : \E i \in DOMAIN u : u[i] = k
             /\ \A j \in DOMAIN s : \E i \in DOMAIN u : u[i] = s[j]
  BY <1>1, <1>2 DEF Grows
<1>3. ASSUME NEW i \in DOMAIN s, u = Append(f, s[i])
      PROVE  /\ u \in Seq(Key)
             /\ \A n \in DOMAIN u : u[n] \in N \/ \E j \in DOMAIN s : u[n] = s[j]
             /\ \A k \in N : \E n \in DOMAIN u : u[n] = k
             /\ \A j \in DOMAIN s : \E n \in DOMAIN u : u[n] = s[j]
  <2>1. s[i] \in Key
    BY LenProperties, ElementOfSeq
  <2>2. Grows(f, u, {s[i]}) /\ u \in Seq(Key)
    BY <1>1, <1>3, <2>1, OneLonger
  <2>3. \A n \in DOMAIN u : n \in DOMAIN f \/ u[n] = s[i]
    BY <2>2 DEF Grows
  <2>4. \A n \in DOMAIN f : n \in DOMAIN u /\ u[n] = f[n]
    BY <2>2 DEF Grows
  <2>5. \A n \in DOMAIN f : f[n] \in N \/ \E j \in DOMAIN s : f[n] = s[j]
    BY <1>1 DEF Grows
  <2>6. \A k \in N : \E n \in DOMAIN f : f[n] = k
    BY <1>1 DEF Grows
  <2>7. \A j \in DOMAIN s : j \in DOMAIN f /\ f[j] = s[j]
    BY <1>1 DEF Grows
  <2>8. \A n \in DOMAIN u : u[n] \in N \/ \E j \in DOMAIN s : u[n] = s[j]
    BY <2>3, <2>4, <2>5
  <2>9. QED
    BY <2>2, <2>4, <2>6, <2>7, <2>8
<1>4. QED
  BY <1>2, <1>3 DEF f

\* A batch of a scan: what is found of the node is up to the cursor.
LEMMA ScanStepInv == ASSUME ListInv, Scan PROVE ListInv'
<1> DEFINE left == {k \in have : NodeOf(k) = node /\ k > cursor}
           batch == FirstOf(left)
           N == {k \in batch : k > lcall.start}
<1>1. /\ lpc = "scan"
      /\ \/ found' = found \o InOrder(N) /\ UNCHANGED lchanges
         \/ /\ lchanges < ListChanges /\ lchanges' = lchanges + 1
            /\ \E i \in DOMAIN found : NodeOf(found[i]) = node /\ found' = Append(found \o InOrder(N), found[i])
      /\ IF batch = left
         THEN /\ lpc' = IF node = Masters THEN "send" ELSE "scan"
              /\ node' = IF node = Masters THEN node ELSE node + 1
              /\ UNCHANGED cursor
         ELSE cursor' = Max(batch) /\ UNCHANGED <<lpc, node>>
      /\ UNCHANGED <<lcall, have, always, ever, pageVars, statVars, listed, lfaults>>
  BY Zenon DEF Scan
<1>2. lcall # <<>> /\ ListTypeOK /\ CallInv /\ StatInv /\ SoFarInv /\ ScanInv /\ lcall.list = Redis /\ Begun
  BY <1>1 DEF ListInv, CallInv
<1>3. /\ Key \subseteq Nat \ {0} /\ lcall.start \in Nat
      /\ DOMAIN found = 1..Len(found) /\ Len(found) \in Nat /\ \A i \in DOMAIN found : found[i] \in Key
  BY <1>2, ListFacts
<1>4. /\ have \subseteq Key /\ have \subseteq ever /\ always \subseteq have /\ cursor \in Key \cup {0} /\ cursor \in Nat
      /\ node \in 1..Masters /\ Masters \in Nat \ {0} /\ found \in Seq(Key)
  BY <1>2, <1>3, ListingAssumption DEF ListTypeOK
<1>5. /\ left \subseteq Key /\ left \subseteq have /\ batch \subseteq left
      /\ \A k \in batch, j \in left \ batch : k < j
      /\ left # {} => batch # {}
  BY <1>4, FirstKeys
<1>6. batch # {} => Max(batch) \in batch /\ \A k \in batch : k <= Max(batch)
  <2> HIDE DEF batch, left
  <2>1. batch \subseteq Nat /\ IsFiniteSet(batch)
    BY <1>5, KeySets
  <2>2. QED
    BY <2>1, Extremes
<1>7. \A k \in left : k \in have /\ NodeOf(k) = node /\ k > cursor
  OBVIOUS
<1>8. \A k \in have : NodeOf(k) = node /\ k > cursor => k \in left
  OBVIOUS
<1> HIDE DEF left, batch
<1>9. N \subseteq Key /\ N \subseteq batch /\ \A k \in batch : k > lcall.start <=> k \in N
  BY <1>5
<1>10. \A k \in N : k > lcall.start /\ k \in ever /\ NodeOf(k) = node /\ k > cursor
  BY <1>4, <1>5, <1>7
<1> HIDE DEF N
<1>11. /\ found' \in Seq(Key)
       /\ \A i \in DOMAIN found' : found'[i] \in N \/ \E j \in DOMAIN found : found'[i] = found[j]
       /\ \A k \in N : \E i \in DOMAIN found' : found'[i] = k
       /\ \A j \in DOMAIN found : \E i \in DOMAIN found' : found'[i] = found[j]
  <2>1. \/ found' = found \o InOrder(N)
        \/ \E i \in DOMAIN found : found' = Append(found \o InOrder(N), found[i])
    BY <1>1
  <2>2. found \in Seq(Key) /\ N \subseteq Key
    BY <1>4, <1>9
  <2> DEFINE s == found
             u == found'
  <2>3. /\ s \in Seq(Key) /\ N \subseteq Key
        /\ \/ u = s \o InOrder(N)
           \/ \E i \in DOMAIN s : u = Append(s \o InOrder(N), s[i])
    BY <2>1, <2>2
  <2> HIDE DEF s, u
  <2>4. /\ u \in Seq(Key)
        /\ \A i \in DOMAIN u : u[i] \in N \/ \E j \in DOMAIN s : u[i] = s[j]
        /\ \A k \in N : \E i \in DOMAIN u : u[i] = k
        /\ \A j \in DOMAIN s : \E i \in DOMAIN u : u[i] = s[j]
    BY <2>3, Batch
  <2>5. QED
    BY <2>4 DEF s, u
<1>12. lcall' = lcall /\ have' = have /\ always' = always /\ ever' = ever /\ listed' = listed /\ stat' = stat
       /\ taken' = taken /\ lfaults' = lfaults /\ sent' = sent /\ token' = token /\ retries' = retries
  BY <1>1 DEF pageVars, statVars
<1>13. /\ lpc' \in {"scan", "send"} /\ node' \in 1..Masters
       /\ cursor' = IF batch = left THEN cursor ELSE Max(batch)
       /\ lpc' = "send" => batch = left /\ node = Masters
       /\ batch = left /\ lpc' = "scan" => node' = node + 1
       /\ batch # left => node' = node /\ batch # {}
  <2>1. CASE batch = left
    BY <1>1, <1>4, <2>1
  <2>2. CASE batch # left
    <3>1. batch # {}
      BY <1>5, <2>2
    <3>2. QED
      BY <1>1, <1>4, <2>2, <3>1
  <2>3. QED
    BY <2>1, <2>2
<1>14. lchanges' \in 0..ListChanges /\ lchanges <= lchanges'
       /\ (lchanges' = 0 => lchanges = 0 /\ found' = found \o InOrder(N))
  BY <1>1, <1>2, ListingAssumption DEF ListTypeOK
<1>15. cursor' \in Key \cup {0} /\ cursor <= cursor'
  BY <1>3, <1>4, <1>5, <1>6, <1>7, <1>13
<1>16. ListTypeOK'
  BY <1>2, <1>11, <1>12, <1>13, <1>14, <1>15 DEF ListTypeOK, LPC
<1>17. CallInv'
  BY <1>2, <1>1, <1>12, <1>13 DEF CallInv, Begun
<1>18. SoFarInv'
  <2>1. OrderInv'
    BY <1>2, <1>12, <1>14, ListingAssumption
       DEF SoFarInv, OrderInv, MayRepeat, FirstAgain, MayGoBack, StartsAtMarker, ListTypeOK
  <2>2. KeysInv' /\ NoNilInv'
    BY <1>1, <1>2, <1>12 DEF SoFarInv, KeysInv, NoNilInv, Nil, KeyInRange, InRange, MayGoBack, StartsAtMarker
  <2>3. CompleteInv'
    BY <1>13 DEF CompleteInv, Complete
  <2>4. QED
    BY <2>1, <2>2, <2>3 DEF SoFarInv
<1>19. StatInv'
  <2>1. \A j \in Stat : stat'[j].pc = "none"
    BY <1>1, <1>2, <1>12 DEF CallInv, NoStat
  <2>2. QED
    BY <1>13, <2>1 DEF StatInv
<1>20. /\ FoundInv /\ \A i \in DOMAIN found :
              NodeOf(found[i]) < node \/ (NodeOf(found[i]) = node /\ found[i] <= cursor)
       /\ lchanges = 0 => FoundOnce
       /\ Masters = 1 => \A k \in Wanted : k \in ToSet(found) \/ k > cursor
  BY <1>1, <1>2 DEF ScanInv
<1>0. \A k \in Key : NodeOf(k) \in Nat /\ k \in Nat
  <2> SUFFICES ASSUME NEW k \in Key PROVE NodeOf(k) \in Nat
    BY <1>3
  <2> DEFINE n == NodeOf(k)
  <2>1. n \in 1..Masters
    BY Nodes
  <2> HIDE DEF n
  <2>2. n \in Nat
    BY <1>4, <2>1
  <2>3. QED
    BY <2>2 DEF n
<1>21. FoundInv'
  BY <1>10, <1>11, <1>12, <1>20 DEF FoundInv
<1>22. ASSUME lchanges' = 0 PROVE FoundOnce'
  <2>1. /\ DOMAIN found \subseteq DOMAIN found' /\ \A i \in DOMAIN found : found'[i] = found[i]
        /\ \A i \in DOMAIN found' : i \notin DOMAIN found => found'[i] \in N
        /\ \A i, j \in DOMAIN found' : i < j /\ i \notin DOMAIN found => found'[i] < found'[j]
    <3>1. found \in Seq(Key) /\ N \subseteq Key /\ found' = found \o InOrder(N)
      BY <1>4, <1>9, <1>14, <1>22
    <3>2. Grows(found, found', N) /\ Rises(found, found')
      BY <3>1, SetLonger
    <3>3. QED
      BY <3>2 DEF Grows, Rises
  <2>2. FoundOnce
    BY <1>14, <1>20, <1>22
  <2>3. ASSUME NEW i \in DOMAIN found', NEW j \in DOMAIN found', i < j PROVE found'[i] # found'[j]
    <3>1. CASE i \notin DOMAIN found
      <4>1. found'[i] < found'[j] /\ found'[i] \in Nat
        BY <1>3, <1>9, <2>1, <2>3, <3>1
      <4>2. QED
        BY <4>1
    <3>2. CASE i \in DOMAIN found /\ j \in DOMAIN found
      <4>1. found'[i] = found[i] /\ found'[j] = found[j] /\ i # j
        BY <1>3, <2>1, <2>3, <3>2
      <4>2. found[i] # found[j]
        BY <2>2, <3>2, <4>1 DEF FoundOnce
      <4>3. QED
        BY <4>1, <4>2
    <3>3. CASE i \in DOMAIN found /\ j \notin DOMAIN found
      <4>1. found'[j] > cursor /\ NodeOf(found'[j]) = node
        BY <1>10, <2>1, <3>3
      <4>2. found'[i] = found[i] /\ found[i] \in Key /\ NodeOf(found[i]) \in 1..Masters
        BY <1>3, <2>1, <3>3, Nodes
      <4>3. NodeOf(found[i]) < node \/ found[i] <= cursor
        BY <1>20, <3>3
      <4>4. found[i] = found'[j] => NodeOf(found[i]) = node /\ found[i] > cursor
        BY <4>1
      <4>5. NodeOf(found[i]) \in Nat /\ found[i] \in Nat /\ node \in Nat /\ cursor \in Nat
        <5>1. found[i] \in Key
          BY <1>3, <3>3
        <5>2. NodeOf(found[i]) \in Nat /\ found[i] \in Nat
          BY <1>0, <5>1
        <5>3. QED
          BY <1>4, <5>2
      <4>6. ~(NodeOf(found[i]) = node /\ found[i] > cursor)
        BY <4>3, <4>5
      <4>7. QED
        BY <4>2, <4>4, <4>6
    <3>4. QED
      BY <3>1, <3>2, <3>3
  <2>4. \A i, j \in DOMAIN found' : i \in Nat /\ j \in Nat
    BY <1>11, LenProperties
  <2>5. QED
    BY <2>3, <2>4 DEF FoundOnce
<1>23. ASSUME Masters = 1, NEW k \in Wanted PROVE k \in ToSet(found') \/ (k > cursor' /\ batch # left)
  <2>1. k \in have /\ k > lcall.start /\ k \in Key /\ NodeOf(k) = node
    <3>1. k \in have /\ k > lcall.start /\ k \in Key
      BY <1>4 DEF Wanted
    <3>2. NodeOf(k) \in 1..Masters
      BY <3>1, Nodes
    <3>3. QED
      BY <1>4, <1>23, <3>1, <3>2
  <2>2. CASE k \in ToSet(found)
    BY <1>11, <2>2 DEF ToSet
  <2>3. CASE k > cursor
    <3>1. k \in left
      BY <1>8, <2>1, <2>3
    <3>2. CASE k \in batch
      BY <1>9, <1>11, <2>1, <3>2 DEF ToSet
    <3>3. CASE k \notin batch
      <4>1. batch # left /\ batch # {} /\ k \in left \ batch
        BY <1>5, <3>1, <3>3
      <4>2. Max(batch) \in batch /\ cursor' = Max(batch)
        BY <1>6, <1>13, <4>1
      <4>3. Max(batch) < k
        BY <1>5, <4>1, <4>2
      <4>4. QED
        BY <4>1, <4>2, <4>3
    <3>4. QED
      BY <3>2, <3>3
  <2>4. QED
    BY <1>20, <1>23, <2>2, <2>3
<1>24. Wanted' = Wanted
  BY <1>12 DEF Wanted
<1>25. ASSUME lpc' = "scan" PROVE ScanInv'
  <2>1. ASSUME NEW i \in DOMAIN found'
        PROVE  NodeOf(found'[i]) < node' \/ (NodeOf(found'[i]) = node' /\ found'[i] <= cursor')
    <3>1. NodeOf(found'[i]) \in Nat /\ found'[i] \in Nat
      <4>1. found'[i] \in Key
        BY <1>11, LenProperties, ElementOfSeq
      <4>2. QED
        BY <1>0, <4>1
    <3>2. CASE batch = left
      <4>1. node' = node + 1
        BY <1>13, <1>25, <3>2
      <4>2. NodeOf(found'[i]) = node \/ NodeOf(found'[i]) < node
        BY <1>10, <1>11, <1>20
      <4>3. QED
        BY <1>4, <3>1, <4>1, <4>2
    <3>3. CASE batch # left
      <4>1. node' = node /\ cursor' = Max(batch)
        BY <1>13, <3>3
      <4>2. CASE found'[i] \in N
        <5>1. found'[i] \in batch /\ NodeOf(found'[i]) = node
          BY <1>9, <1>10, <4>2
        <5>2. QED
          BY <1>6, <4>1, <5>1
      <4>3. CASE found'[i] \notin N
        <5>1. NodeOf(found'[i]) < node \/ (NodeOf(found'[i]) = node /\ found'[i] <= cursor)
          BY <1>11, <1>20, <4>3
        <5>2. cursor' \in Nat
          BY <1>3, <1>15
        <5> DEFINE x == found'[i]
                   m == NodeOf(x)
        <5>3. (m < node \/ (m = node /\ x <= cursor)) /\ m \in Nat /\ x \in Nat
          BY <3>1, <5>1
        <5> HIDE DEF x, m
        <5>4. m < node \/ (m = node /\ x <= cursor')
          BY <1>4, <1>15, <5>2, <5>3
        <5>5. QED
          BY <4>1, <5>4 DEF x, m
      <4>4. QED
        BY <4>2, <4>3
    <3>4. QED
      BY <3>2, <3>3
  <2>2. Masters = 1 => \A k \in Wanted' : k \in ToSet(found') \/ k > cursor'
    BY <1>23, <1>24
  <2>3. QED
    BY <1>21, <1>22, <2>1, <2>2 DEF ScanInv
<1>26. ASSUME lpc' = "send" PROVE BatchInv'
  <2>1. \A i \in DOMAIN listed', j \in DOMAIN found' : listed'[i] < found'[j]
    BY <1>2, <1>12, <1>21 DEF Begun, FoundInv
  <2>2. Masters = 1 => Wanted' \subseteq SentKeys' \cup ToSet(found')
    BY <1>13, <1>23, <1>24, <1>26
  <2>3. QED
    BY <1>21, <1>22, <2>1, <2>2 DEF BatchInv
<1>27. QED
  BY <1>13, <1>16, <1>17, <1>18, <1>19, <1>25, <1>26 DEF ListInv, PageInv, ScanInv, BatchInv

\* Sorted gives each of the keys found once, and none before a lesser one.
LEMMA SortedKeys ==
    ASSUME NEW seq \in Seq(Nat)
    PROVE  LET u == Sorted(seq) IN
           /\ DOMAIN u = 1..Len(seq)
           /\ \A i, j \in 1..Len(seq) : i < j => u[i] <= u[j]
           /\ \E p \in [1..Len(seq) -> 1..Len(seq)] :
                 /\ \A n \in 1..Len(seq) : u[n] = seq[p[n]]
                 /\ \A m, n \in 1..Len(seq) : m # n => p[m] # p[n]
                 /\ \A i \in 1..Len(seq) : \E n \in 1..Len(seq) : p[n] = i
<1> DEFINE N == Len(seq)
           D == DOMAIN seq
           lesser(i) == {j \in D : seq[j] < seq[i] \/ (seq[j] = seq[i] /\ j < i)}
           below == [i \in D |-> lesser(i)]
           p == [n \in D |-> CHOOSE i \in D : Cardinality(lesser(i)) = n - 1]
           u == Sorted(seq)
<1>1. N \in Nat /\ D = 1..N /\ \A i \in D : seq[i] \in Nat
  BY LenProperties, ElementOfSeq
<1>2. u = [n \in D |-> seq[CHOOSE i \in D : Cardinality(lesser(i)) = n - 1]]
  BY Zenon DEF Sorted
<1>3. IsFiniteSet(D) /\ Cardinality(D) = N
  <2> HIDE DEF N
  <2>1. 1 \in Int /\ N \in Int
    BY <1>1
  <2>2. IsFiniteSet(1..N) /\ Cardinality(1..N) = IF 1 > N THEN 0 ELSE N - 1 + 1
    BY <2>1, FS_Interval
  <2>3. QED
    BY <1>1, <2>2
<1> HIDE DEF D, N, u
<1> DEFINE Less(i, j) == seq[i] < seq[j] \/ (seq[i] = seq[j] /\ i < j)
<1>4. \A i \in D : ~Less(i, i)
  BY <1>1
<1>5. \A i, j \in D : i # j => Less(i, j) \/ Less(j, i)
  BY <1>1
<1>6. \A i, j, k \in D : Less(i, j) /\ Less(j, k) => Less(i, k)
  BY <1>1
<1>7. \A i, j \in D : Less(i, j) => seq[i] <= seq[j]
  BY <1>1
<1>8. \A i \in D : lesser(i) = {j \in D : Less(j, i)}
  OBVIOUS
<1>9. \A i \in D : below[i] = lesser(i)
  OBVIOUS
<1>10. below \in [D -> SUBSET D]
  OBVIOUS
<1> HIDE DEF Less, lesser, below
<1>11. \A i \in D : i \notin below[i]
  BY <1>4, <1>8, <1>9
<1>12. Ranked(D, below)
  <2> SUFFICES ASSUME NEW x \in D, NEW y \in D, x # y
               PROVE  (x \in below[y] /\ below[x] \subseteq below[y])
                      \/ (y \in below[x] /\ below[y] \subseteq below[x])
    BY DEF Ranked
  <2>1. CASE Less(x, y)
    BY <1>6, <1>8, <1>9, <2>1
  <2>2. CASE Less(y, x)
    BY <1>6, <1>8, <1>9, <2>2
  <2>3. QED
    BY <1>5, <2>1, <2>2
<1>13. /\ \A x, y \in D : x \in below[y] => Cardinality(below[x]) < Cardinality(below[y])
       /\ \A n \in 0..(N - 1) : \E x \in D : Cardinality(below[x]) = n
       /\ \A x \in D : Cardinality(below[x]) \in 0..(N - 1)
  BY <1>3, <1>10, <1>11, <1>12, Places
<1>14. ASSUME NEW n \in D PROVE p[n] \in D /\ Cardinality(below[p[n]]) = n - 1
  <2>1. n - 1 \in 0..(N - 1)
    BY <1>1
  <2>2. PICK i \in D : Cardinality(lesser(i)) = n - 1
    BY <1>9, <1>13, <2>1
  <2>3. p[n] \in D /\ Cardinality(lesser(p[n])) = n - 1
    BY <2>2
  <2>4. QED
    BY <1>9, <2>3
<1>15. \A n \in D : u[n] = seq[p[n]]
  BY <1>2
<1>16. DOMAIN u = D
  BY <1>2
<1>17. p \in [D -> D]
  BY <1>14
<1> HIDE DEF p
<1>18. ASSUME NEW m \in D, NEW n \in D, p[m] = p[n] PROVE m = n
  <2>1. m - 1 = n - 1
    BY <1>14, <1>18
  <2>2. QED
    BY <1>1, <2>1
<1>19. ASSUME NEW i \in D PROVE \E n \in D : p[n] = i
  <2> DEFINE c == Cardinality(below[i])
  <2>1. c \in 0..(N - 1)
    BY <1>13
  <2> HIDE DEF c
  <2>2. c + 1 \in D /\ (c + 1) - 1 = c
    BY <1>1, <2>1
  <2> DEFINE x == p[c + 1]
  <2>3. x \in D /\ Cardinality(below[x]) = c
    BY <1>14, <2>2
  <2> HIDE DEF x
  <2>4. ~(c < c)
    BY <2>1
  <2>5. x \notin below[i] /\ i \notin below[x]
    BY <1>13, <2>3, <2>4 DEF c
  <2>6. x = i
    BY <1>5, <1>8, <1>9, <2>3, <2>5
  <2>7. QED
    BY <2>2, <2>6 DEF x
<1>20. ASSUME NEW i \in D, NEW j \in D, i < j PROVE u[i] <= u[j]
  <2> DEFINE x == p[i]
             y == p[j]
  <2>1. x \in D /\ y \in D /\ Cardinality(below[x]) = i - 1 /\ Cardinality(below[y]) = j - 1
    BY <1>14
  <2> HIDE DEF x, y
  <2>2. ~(j - 1 < i - 1) /\ i - 1 # j - 1
    BY <1>1, <1>20
  <2>3. y \notin below[x] /\ x # y
    BY <1>13, <2>1, <2>2, Zenon
  <2>4. Less(x, y)
    BY <1>5, <1>8, <1>9, <2>1, <2>3
  <2>5. seq[x] <= seq[y]
    BY <1>7, <2>1, <2>4
  <2>6. QED
    BY <1>15, <2>5 DEF x, y
<1>21. /\ DOMAIN u = 1..N
       /\ \A i, j \in 1..N : i < j => u[i] <= u[j]
       /\ \E q \in [1..N -> 1..N] :
             /\ \A n \in 1..N : u[n] = seq[q[n]]
             /\ \A m, n \in 1..N : m # n => q[m] # q[n]
             /\ \A i \in 1..N : \E n \in 1..N : q[n] = i
  <2>1. /\ p \in [1..N -> 1..N] /\ \A n \in 1..N : u[n] = seq[p[n]]
        /\ \A m, n \in 1..N : m # n => p[m] # p[n]
        /\ \A i \in 1..N : \E n \in 1..N : p[n] = i
    BY <1>1, <1>15, <1>17, <1>18, <1>19
  <2>2. DOMAIN u = 1..N /\ \A i, j \in 1..N : i < j => u[i] <= u[j]
    BY <1>1, <1>16, <1>20
  <2>3. QED
    BY <2>1, <2>2
<1>22. QED
  BY <1>21 DEF N, u

\* Some of a sequence of keys are sent, in their order.
LEMMA PickLonger ==
    ASSUME NEW T, Key \subseteq T, NEW s \in Seq(T), NEW n \in Nat, NEW u, \A i \in 1..n : u[i] \in Key,
           NEW W, W \subseteq 1..n
    PROVE  LET v == s \o [i \in 1..Cardinality(W) |-> u[Nth(W, i)]] IN
           /\ Grows(s, v, {u[i] : i \in W}) /\ v \in Seq(T)
           /\ (\A i, j \in 1..n : i < j => u[i] < u[j]) => Rises(s, v)
<1> DEFINE order == InOrder(W)
           N == Cardinality(W)
           w == [i \in 1..N |-> u[Nth(W, i)]]
<1>1. W \subseteq Nat /\ IsFiniteSet(W) /\ N \in Nat
  <2>1. IsFiniteSet(1..n)
    BY FS_Interval
  <2>2. IsFiniteSet(W)
    BY <2>1, FS_Subset
  <2>3. QED
    BY <2>2, FS_CardinalityType
<1>2. /\ order \in Seq(W) /\ DOMAIN order = 1..N
      /\ \A i, j \in DOMAIN order : i < j => order[i] < order[j]
      /\ \A k \in W : \E i \in DOMAIN order : order[i] = k
  BY <1>1, Order
<1>3. \A i \in 1..N : order[i] = Nth(W, i)
  BY DEF InOrder
<1> HIDE DEF order, N
<1>4. \A i \in 1..N : order[i] \in W
  BY <1>2, LenProperties, ElementOfSeq
<1>5. \A i \in 1..N : w[i] = u[order[i]]
  BY <1>3
<1>6. DOMAIN w = 1..N
  OBVIOUS
<1>7. w \in Seq(T)
  <2>1. w \in [1..N -> T]
    BY <1>3, <1>4
  <2>2. QED
    BY <1>1, <2>1
<1> HIDE DEF w
<1>8. {w[i] : i \in DOMAIN w} = {u[i] : i \in W}
  <2>1. \A i \in 1..N : \E k \in W : w[i] = u[k]
    BY <1>4, <1>5
  <2>2. \A k \in W : \E i \in 1..N : w[i] = u[k]
    BY <1>2, <1>5
  <2>3. {w[i] : i \in 1..N} = {u[i] : i \in W}
    <3> DEFINE A == {w[i] : i \in 1..N}
               B == {u[i] : i \in W}
    <3>1. ASSUME NEW x \in A PROVE x \in B
      <4>1. PICK i \in 1..N : x = w[i]
        OBVIOUS
      <4>2. QED
        BY <2>1, <4>1
    <3>2. ASSUME NEW x \in B PROVE x \in A
      <4>1. PICK k \in W : x = u[k]
        OBVIOUS
      <4>2. QED
        BY <2>2, <4>1
    <3> HIDE DEF A, B
    <3>3. A = B
      BY <3>1, <3>2
    <3>4. QED
      BY <3>3 DEF A, B
  <2>4. QED
    BY <1>6, <2>3
<1>9. (\A i, j \in 1..n : i < j => u[i] < u[j]) => \A i, j \in DOMAIN w : i < j => w[i] < w[j]
  <2> SUFFICES ASSUME \A i, j \in 1..n : i < j => u[i] < u[j], NEW i \in 1..N, NEW j \in 1..N, i < j
               PROVE  w[i] < w[j]
    BY <1>6
  <2> DEFINE x == order[i]
             y == order[j]
  <2>1. x < y /\ x \in 1..n /\ y \in 1..n /\ w[i] = u[x] /\ w[j] = u[y]
    BY <1>2, <1>4, <1>5
  <2> HIDE DEF x, y
  <2>2. QED
    BY <2>1
<1>10. /\ Grows(s, s \o w, {w[i] : i \in DOMAIN w}) /\ s \o w \in Seq(T)
       /\ (\A i, j \in DOMAIN w : i < j => w[i] < w[j]) => Rises(s, s \o w)
  BY <1>7, Longer
<1>11. QED
  BY <1>8, <1>9, <1>10 DEF w, N

\* A batch of the keys that were found: those sent are in order unless one was given twice.
LEMMA SendFoundInv == ASSUME ListInv, SendFound PROVE ListInv'
<1> DEFINE sorted == Sorted(found)
           L == Len(found)
           n == IF Len(sorted) < Page THEN Len(sorted) ELSE Page
           there == {i \in 1..n : sorted[i] \in have}
           W == {i \in there : InRange(sorted[i])}
           S == {sorted[i] : i \in W}
<1>1. /\ lpc = "send"
      /\ listed' = listed \o [i \in 1..Cardinality(W) |-> sorted[Nth(W, i)]]
      /\ found' = SubSeq(sorted, n + 1, Len(sorted))
      /\ lpc' = IF n = Len(sorted) \/ W # there THEN "closed" ELSE "send"
      /\ UNCHANGED <<lcall, storeVars, pageVars, node, cursor, statVars, lfaults>>
  BY Zenon DEF SendFound
<1>2. lcall # <<>> /\ ListTypeOK /\ CallInv /\ StatInv /\ SoFarInv /\ BatchInv /\ lcall.list = Redis
  BY <1>1 DEF ListInv, CallInv
<1>3. /\ Key \subseteq Nat \ {0} /\ lcall.start \in Nat /\ lcall.end \in Nat /\ Nil \notin Key
      /\ DOMAIN found = 1..L /\ L \in Nat /\ \A i \in DOMAIN found : found[i] \in Key
      /\ \A i \in DOMAIN listed : listed[i] \in Key \cup {Nil}
  BY <1>2, ListFacts
<1>4. /\ have \subseteq Key /\ have \subseteq ever /\ always \subseteq have
      /\ listed \in Seq(Key \cup {Nil}) /\ Page \in Nat
  BY <1>2, ListingAssumption DEF ListTypeOK
<1>5. /\ DOMAIN sorted = 1..L
      /\ \A i, j \in 1..L : i < j => sorted[i] <= sorted[j]
      /\ \E p \in [1..L -> 1..L] :
            /\ \A m \in 1..L : sorted[m] = found[p[m]]
            /\ \A l, m \in 1..L : l # m => p[l] # p[m]
            /\ \A i \in 1..L : \E m \in 1..L : p[m] = i
  <2>1. found \in Seq(Nat)
    <3>1. found \in Seq(Key) /\ Key \subseteq Nat
      BY <1>2, <1>3 DEF ListTypeOK
    <3>2. QED
      BY <3>1, SeqMonotonic
  <2>2. QED
    BY <2>1, SortedKeys, Zenon
<1> HIDE DEF sorted, L
<1>6. PICK p \in [1..L -> 1..L] :
            /\ \A m \in 1..L : sorted[m] = found[p[m]]
            /\ \A l, m \in 1..L : l # m => p[l] # p[m]
            /\ \A i \in 1..L : \E m \in 1..L : p[m] = i
  BY <1>5
<1>7. \A m \in 1..L : p[m] \in DOMAIN found /\ sorted[m] \in Key
  BY <1>3, <1>6
<1>8. /\ FoundInv
      /\ lchanges = 0 => FoundOnce /\ \A i \in DOMAIN listed, j \in DOMAIN found : listed[i] < found[j]
      /\ Masters = 1 => Wanted \subseteq SentKeys \cup ToSet(found)
  BY <1>1, <1>2 DEF BatchInv
<1>9. \A m \in 1..L : sorted[m] > lcall.start /\ sorted[m] \in ever
  BY <1>6, <1>7, <1>8 DEF FoundInv
<1>10. Len(sorted) = L /\ n \in 0..L
  <2>1. Len(sorted) = L
    <3>1. sorted \in Seq(Key)
      <4>1. sorted = [m \in 1..L |-> sorted[m]]
        BY <1>5 DEF sorted, Sorted
      <4>2. sorted \in [1..L -> Key]
        BY <1>7, <4>1
      <4>3. QED
        BY <1>3, <4>2
    <3>2. QED
      BY <1>3, <1>5, <3>1, LenProperties
  <2>2. QED
    BY <1>3, <1>4, <2>1
<1> HIDE DEF n
<1>11. /\ found' \in Seq(Key) /\ Len(found') = L - n /\ DOMAIN found' = 1..(L - n)
       /\ \A i \in 1..(L - n) : i + n \in (n + 1)..L /\ i + n \in 1..L /\ found'[i] = sorted[i + n]
  <2> DEFINE m == n + 1
  <2>1. m \in Int /\ L \in Int /\ \A i \in m..L : sorted[i] \in Key
    BY <1>3, <1>7, <1>10
  <2>2. found' = SubSeq(sorted, m, L)
    BY <1>1, <1>10
  <2>3. /\ found' \in Seq(Key) /\ Len(found') = IF m <= L THEN L - m + 1 ELSE 0
        /\ \A i \in 1..(L - m + 1) : found'[i] = sorted[m + i - 1]
    <3> HIDE DEF m
    <3>1. QED
      BY <2>1, <2>2, SubSeqProperties
  <2>4. L - m + 1 = L - n /\ Len(found') = L - n
    BY <1>3, <1>10, <2>3
  <2>5. \A i \in 1..(L - n) : i + n \in (n + 1)..L /\ i + n \in 1..L /\ m + i - 1 = i + n
    BY <1>3, <1>10
  <2>6. DOMAIN found' = 1..(L - n)
    BY <2>3, <2>4, LenProperties
  <2>7. QED
    BY <2>3, <2>4, <2>5, <2>6
<1>12. /\ Grows(listed, listed', S) /\ listed' \in Seq(Key \cup {Nil})
       /\ (\A i, j \in 1..n : i < j => sorted[i] < sorted[j]) => Rises(listed, listed')
  <2> DEFINE T == Key \cup {Nil}
             u == sorted
  <2>1. n \in Nat /\ Key \subseteq T /\ listed \in Seq(T) /\ W \subseteq 1..n /\ \A i \in 1..n : u[i] \in Key
    BY <1>3, <1>4, <1>7, <1>10
  <2>2. listed' = listed \o [i \in 1..Cardinality(W) |-> u[Nth(W, i)]]
    BY <1>1
  <2> HIDE DEF T, W, u
  <2>3. /\ Grows(listed, listed', {u[i] : i \in W}) /\ listed' \in Seq(T)
        /\ (\A i, j \in 1..n : i < j => u[i] < u[j]) => Rises(listed, listed')
    <3> DEFINE s == listed
               v == s \o [i \in 1..Cardinality(W) |-> u[Nth(W, i)]]
    <3>1. s \in Seq(T) /\ listed' = v
      BY <2>1, <2>2
    <3> HIDE DEF s
    <3>2. /\ Grows(s, v, {u[i] : i \in W}) /\ v \in Seq(T)
          /\ (\A i, j \in 1..n : i < j => u[i] < u[j]) => Rises(s, v)
      BY <2>1, <3>1, PickLonger
    <3>3. QED
      BY <3>1, <3>2 DEF s
  <2>4. QED
    BY <2>3 DEF T, u
<1>13. lcall' = lcall /\ have' = have /\ always' = always /\ ever' = ever /\ stat' = stat /\ taken' = taken
       /\ lfaults' = lfaults /\ lchanges' = lchanges /\ node' = node /\ cursor' = cursor /\ UNCHANGED pageVars
  BY <1>1 DEF storeVars, statVars
<1>14. /\ lpc' \in {"closed", "send"}
       /\ lpc' = "closed" => n = L \/ W # there
       /\ lpc' = "send" => W = there
  BY <1>1, <1>10
<1>15. ListTypeOK'
  BY <1>2, <1>11, <1>12, <1>13, <1>14 DEF ListTypeOK, LPC, pageVars
<1>16. \A m \in 1..n : m \in 1..L
  BY <1>3, <1>10
<1>17. \A x \in S : x \in Key /\ x > lcall.start /\ x \in ever /\ InRange(x)
  BY <1>7, <1>9, <1>16
<1>18. /\ \A m \in 1..n : sorted[m] \in have /\ InRange(sorted[m]) => sorted[m] \in S
       /\ W # there => \E m \in 1..n : ~InRange(sorted[m])
       /\ \A x \in S : \E m \in 1..n : x = sorted[m]
       /\ W = there => \A m \in 1..n : sorted[m] \in have => sorted[m] \in S
  OBVIOUS
<1> HIDE DEF S, W, there
<1>19. ASSUME lchanges = 0, NEW i \in 1..L, NEW j \in 1..L, i < j PROVE sorted[i] < sorted[j]
  <2>1. p[i] # p[j] /\ p[i] \in DOMAIN found /\ p[j] \in DOMAIN found
    BY <1>3, <1>6, <1>7, <1>19
  <2>2. found[p[i]] # found[p[j]]
    BY <1>8, <1>19, <2>1 DEF FoundOnce
  <2>3. sorted[i] # sorted[j] /\ sorted[i] <= sorted[j] /\ sorted[i] \in Nat /\ sorted[j] \in Nat
    BY <1>3, <1>5, <1>6, <1>7, <1>19, <2>2
  <2>4. QED
    BY <2>3
<1>20. lchanges # 0 => MayRepeat /\ MayRepeat'
  <2>1. lchanges \in Nat
    BY <1>2, ListingAssumption DEF ListTypeOK
  <2>2. QED
    BY <1>2, <1>13, <2>1 DEF MayRepeat
<1>21. OrderInv' /\ KeysInv'
  <2>1. Rises(listed, listed') \/ MayRepeat'
    BY <1>12, <1>16, <1>19, <1>20
  <2>2. \A i \in DOMAIN listed, x \in S : listed[i] < x \/ MayRepeat' \/ FirstAgain(i)
    <3> SUFFICES ASSUME NEW i \in DOMAIN listed, NEW x \in S, lchanges = 0 PROVE listed[i] < x
      BY <1>20
    <3>1. PICK m \in 1..n : x = sorted[m]
      BY <1>18
    <3>2. p[m] \in DOMAIN found /\ x = found[p[m]]
      BY <1>6, <1>7, <1>16, <3>1
    <3>3. QED
      BY <1>8, <3>2
  <2>3. \A x \in S : x # Nil => x \in ever' /\ KeyInRange(x)
    BY <1>13, <1>17 DEF KeyInRange
  <2>4. lchanges <= lchanges' /\ ever \subseteq ever' /\ lcall' = lcall
    BY <1>2, <1>13, ListingAssumption DEF ListTypeOK
  <2>5. OrderInv /\ KeysInv /\ Grows(listed, listed', S)
    BY <1>2, <1>12 DEF SoFarInv
  <2>6. QED
    BY <1>2, <1>15, <2>1, <2>2, <2>3, <2>4, <2>5, SentMore
<1>22. SentKeys' = SentKeys \cup S
  <2>1. SentKeys' = SentKeys \cup (S \ {Nil})
    BY <1>2, <1>12, <1>15, SentGrows
  <2>2. QED
    BY <1>3, <1>17, <2>1
<1>23. NoNilInv'
  <2>1. \A i \in DOMAIN listed : listed[i] # Nil
    BY <1>1, <1>2 DEF SoFarInv, NoNilInv
  <2>2. \A i \in DOMAIN listed' : listed'[i] # Nil
    BY <1>3, <1>12, <1>17, <2>1 DEF Grows
  <2>3. QED
    BY <2>2 DEF NoNilInv, Nil
<1>24. Wanted' = Wanted /\ \A k \in Wanted : k \in have /\ InRange(k) /\ k \in Nat
  BY <1>3, <1>4, <1>13 DEF Wanted, InRange
<1>25. ASSUME Masters = 1, NEW k \in Wanted, k \notin SentKeys'
       PROVE  \E i \in DOMAIN found' : found'[i] = k /\ sorted[i + n] = k /\ i + n \in (n + 1)..L
  <2>1. PICK i \in DOMAIN found : found[i] = k
    BY <1>8, <1>22, <1>25 DEF ToSet
  <2>2. PICK m \in 1..L : p[m] = i
    BY <1>3, <1>6, <2>1
  <2>3. sorted[m] = k
    BY <1>6, <2>1, <2>2
  <2>4. ~(m <= n)
    <3>1. SUFFICES ASSUME m \in 1..n PROVE FALSE
      BY <1>10
    <3>2. k \in S
      BY <1>18, <1>24, <2>3, <3>1
    <3>3. QED
      BY <1>22, <1>25, <3>2
  <2>5. m - n \in 1..(L - n) /\ (m - n) + n = m
    BY <1>3, <1>10, <2>4
  <2>6. QED
    BY <1>11, <2>3, <2>5
<1>26. CompleteInv'
  <2> SUFFICES ASSUME lpc' = "closed", Masters = 1, NEW k \in Wanted, k \notin SentKeys' PROVE FALSE
    <3>1. Masters \in Nat \ {0} /\ ~(Masters > 1) => Masters = 1
      BY ListingAssumption
    <3>2. MaySkip' <=> Masters > 1
      BY <1>2, <1>13 DEF MaySkip
    <3>3. Masters \in Nat \ {0}
      BY ListingAssumption
    <3>4. QED
      BY <1>24, <3>1, <3>2, <3>3 DEF CompleteInv, Complete
  <2>1. PICK i \in DOMAIN found' : sorted[i + n] = k /\ i + n \in (n + 1)..L
    BY <1>25
  <2>2. n # L
    BY <1>3, <1>10, <2>1
  <2>3. PICK m \in 1..n : ~InRange(sorted[m])
    BY <1>14, <1>18, <2>2
  <2> DEFINE q == i + n
  <2>4. q \in 1..L /\ m \in 1..L /\ m < q /\ sorted[q] = k
    <3>1. q \in (n + 1)..L /\ sorted[q] = k
      BY <2>1
    <3> HIDE DEF q
    <3>2. QED
      BY <1>3, <1>10, <3>1
  <2> HIDE DEF q
  <2>5. sorted[m] <= k /\ sorted[m] \in Nat /\ k \in Nat
    BY <1>3, <1>5, <1>7, <1>24, <2>4
  <2>6. InRange(k) /\ lcall.end \in Nat
    BY <1>3, <1>24
  <2>7. QED
    BY <2>3, <2>5, <2>6 DEF InRange
<1>27. ASSUME lpc' = "send" PROVE BatchInv'
  <2>1. FoundInv'
    BY <1>9, <1>11, <1>13 DEF FoundInv
  <2>2. ASSUME lchanges' = 0
        PROVE  FoundOnce' /\ \A i \in DOMAIN listed', j \in DOMAIN found' : listed'[i] < found'[j]
    <3>1. ASSUME NEW i \in DOMAIN found', NEW j \in DOMAIN found', i # j PROVE found'[i] # found'[j]
      <4> DEFINE x == i + n
                 y == j + n
      <4>1. x \in 1..L /\ y \in 1..L /\ (x < y \/ y < x) /\ found'[i] = sorted[x] /\ found'[j] = sorted[y]
        <5>1. i \in 1..(L - n) /\ j \in 1..(L - n)
          BY <1>11
        <5>2. x \in 1..L /\ y \in 1..L /\ (x < y \/ y < x)
          <6>1. i \in Int /\ j \in Int /\ i # j /\ n \in Int /\ L \in Int
            BY <1>3, <1>10, <3>1, <5>1
          <6>2. i + n < j + n \/ j + n < i + n
            BY <6>1
          <6>3. i + n \in 1..L /\ j + n \in 1..L
            BY <1>11, <5>1
          <6>4. QED
            BY <6>2, <6>3
        <5>3. QED
          BY <1>11, <5>1, <5>2
      <4> HIDE DEF x, y
      <4>2. sorted[x] \in Nat /\ sorted[y] \in Nat /\ (sorted[x] < sorted[y] \/ sorted[y] < sorted[x])
        BY <1>3, <1>7, <1>13, <1>19, <2>2, <4>1
      <4>3. QED
        BY <4>1, <4>2
    <3>2. ASSUME NEW i \in DOMAIN listed', NEW j \in DOMAIN found' PROVE listed'[i] < found'[j]
      <4> DEFINE y == j + n
      <4>1. y \in 1..L /\ y \in (n + 1)..L /\ found'[j] = sorted[y]
        BY <1>11
      <4> HIDE DEF y
      <4>2. CASE i \in DOMAIN listed
        <5>1. listed'[i] = listed[i]
          BY <1>12, <4>2 DEF Grows
        <5>2. p[y] \in DOMAIN found /\ sorted[y] = found[p[y]]
          BY <1>6, <1>7, <4>1
        <5>3. QED
          BY <1>8, <1>13, <2>2, <4>1, <4>2, <5>1, <5>2
      <4>3. CASE i \notin DOMAIN listed
        <5>1. listed'[i] \in S
          BY <1>12, <4>3 DEF Grows
        <5>2. PICK m \in 1..n : listed'[i] = sorted[m]
          BY <1>18, <5>1
        <5>3. m < y /\ m \in 1..L
          BY <1>3, <1>10, <4>1
        <5>4. QED
          BY <1>13, <1>19, <2>2, <4>1, <5>2, <5>3
      <4>4. QED
        BY <4>2, <4>3
    <3>3. QED
      BY <3>1, <3>2 DEF FoundOnce
  <2>3. Masters = 1 => Wanted' \subseteq SentKeys' \cup ToSet(found')
    BY <1>24, <1>25 DEF ToSet
  <2>4. QED
    BY <2>1, <2>2, <2>3 DEF BatchInv
<1>28. CallInv'
  BY <1>2, <1>1, <1>13, <1>14 DEF CallInv
<1>29. StatInv'
  <2>1. \A j \in Stat : stat'[j].pc = "none"
    BY <1>1, <1>2, <1>13 DEF CallInv, NoStat
  <2>2. QED
    BY <1>14, <2>1 DEF StatInv
<1>30. QED
  BY <1>14, <1>15, <1>21, <1>23, <1>26, <1>27, <1>28, <1>29 DEF ListInv, SoFarInv, PageInv, ScanInv, BatchInv

\* The sizes cannot be asked for: nil ends the listing.
LEMMA SizesFailInv == ASSUME ListInv, SizesFail PROVE ListInv'
<1>1. /\ lpc = "send" /\ ListFault /\ listed' = Append(listed, Nil) /\ lpc' = "closed"
      /\ UNCHANGED <<lcall, storeVars, pageVars, scanVars, statVars>>
  BY DEF SizesFail
<1>2. lcall # <<>> /\ ListTypeOK /\ CallInv /\ StatInv /\ SoFarInv
  BY <1>1 DEF ListInv, CallInv
<1>3. ListTypeOK'
  <2>1. listed \in Seq(Key \cup {Nil}) /\ Nil \in Key \cup {Nil}
    BY <1>2 DEF ListTypeOK
  <2>2. Append(listed, Nil) \in Seq(Key \cup {Nil})
    BY <2>1, OneLonger
  <2>3. lfaults' \in 0..ListFaults /\ lpc' \in LPC
    BY <1>1, <1>2, ListingAssumption DEF ListTypeOK, ListFault, LPC
  <2>4. QED
    BY <1>1, <1>2, <2>2, <2>3 DEF ListTypeOK, storeVars, pageVars, scanVars, statVars
<1>4. SoFarInv'
  BY <1>1, <1>2, <1>3, NilSent
<1>5. CallInv'
  BY <1>1, <1>2 DEF CallInv
<1>6. StatInv'
  BY <1>1, <1>2 DEF StatInv, statVars, scanVars
<1>7. QED
  BY <1>1, <1>3, <1>4, <1>5, <1>6 DEF ListInv, PageInv, ScanInv, BatchInv

\* All names, in order, and the first of them given to the goroutines.
LEMMA IterateInv == ASSUME ListInv, Iterate PROVE ListInv'
<1> DEFINE N == {k \in have : k > lcall.start}
<1>1. /\ lpc = "iterate" /\ found' = InOrder(N) /\ lpc' = "stat"
      /\ stat' = [j \in Stat |-> IF j < Len(InOrder(N)) THEN [NoStat EXCEPT !.pc = "start", !.at = j + 1] ELSE NoStat]
      /\ UNCHANGED <<lcall, storeVars, pageVars, node, cursor, taken, listed, lfaults>>
  BY Zenon DEF Iterate
<1>2. lcall # <<>> /\ ListTypeOK /\ CallInv /\ StatInv /\ SoFarInv /\ Begun /\ lcall.list = Ceph /\ taken = 0
  BY <1>1 DEF ListInv, CallInv
<1>3. Key \subseteq Nat \ {0} /\ lcall.start \in Nat /\ Nil \notin Key
      /\ \A i \in DOMAIN listed : listed[i] \in Key \cup {Nil}
  BY <1>2, ListFacts
<1>4. have \subseteq Key /\ have \subseteq ever /\ always \subseteq have /\ N \subseteq Key
  BY <1>2 DEF ListTypeOK
<1>5. \A k \in have : k > lcall.start <=> k \in N
  OBVIOUS
<1> DEFINE L == Cardinality(N)
<1>6. L \in 0..Keys /\ N \subseteq Nat /\ IsFiniteSet(N) /\ Keys \in Nat /\ L \in Nat
  BY <1>4, KeySets, ListingAssumption
<1>7. /\ found' \in Seq(N) /\ Len(found') = L /\ DOMAIN found' = 1..L
      /\ \A i, j \in DOMAIN found' : i < j => found'[i] < found'[j]
      /\ \A k \in N : \E i \in DOMAIN found' : found'[i] = k
  <2> HIDE DEF N
  <2>1. QED
    BY <1>1, <1>6, Order
<1>8. \A i \in DOMAIN found' : found'[i] \in N
  BY <1>7, LenProperties, ElementOfSeq
<1>9. N \subseteq have /\ \A k \in N : k > lcall.start
  OBVIOUS
<1>10. Len(InOrder(N)) = L
  BY <1>1, <1>7
<1> HIDE DEF N, L
<1>11. found' \in Seq(Key)
  BY <1>4, <1>7, SeqMonotonic
<1>12. lcall' = lcall /\ have' = have /\ always' = always /\ ever' = ever /\ listed' = listed /\ taken' = 0
       /\ lfaults' = lfaults /\ lchanges' = lchanges /\ node' = node /\ cursor' = cursor /\ UNCHANGED pageVars
  BY <1>1, <1>2 DEF storeVars
<1>13. Stats \in Nat \ {0} /\ \A j \in Stat : j \in 0..(Stats - 1) /\ j \in Nat
  BY ListingAssumption DEF Stat
<1>14. ASSUME NEW j \in Stat
       PROVE  /\ stat'[j] = IF j < L THEN [pc |-> "start", at |-> j + 1, result |-> 0]
                            ELSE [pc |-> "none", at |-> 0, result |-> 0]
              /\ j < L => j + 1 \in 1..L /\ j + 1 \in 1..Stats /\ j % Stats = j
  <2>1. stat'[j] = IF j < L THEN [pc |-> "start", at |-> j + 1, result |-> 0]
                   ELSE [pc |-> "none", at |-> 0, result |-> 0]
    <3>1. stat'[j] = IF j < L THEN [NoStat EXCEPT !.pc = "start", !.at = j + 1] ELSE NoStat
      BY <1>1, <1>10
    <3>2. [NoStat EXCEPT !.pc = "start", !.at = j + 1] = [pc |-> "start", at |-> j + 1, result |-> 0]
      <4> DEFINE n == j + 1
                 y == [NoStat EXCEPT !.pc = "start"]
      <4>1. y = [pc |-> "start", at |-> 0, result |-> 0]
        BY DEF NoStat
      <4>2. [NoStat EXCEPT !.pc = "start", !.at = n] = [y EXCEPT !.at = n]
        OBVIOUS
      <4> HIDE DEF n, y
      <4>3. [y EXCEPT !.at = n] = [pc |-> "start", at |-> n, result |-> 0]
        BY <4>1
      <4>4. QED
        BY <4>2, <4>3 DEF n
    <3>3. QED
      BY <3>1, <3>2 DEF NoStat
  <2>2. j + 1 \in 1..Stats /\ (j < L => j + 1 \in 1..L)
    BY <1>6, <1>13
  <2>3. j % Stats = j
    BY <1>13
  <2>4. QED
    BY <2>1, <2>2, <2>3
<1>15. ListTypeOK'
  <2>1. stat' \in [Stat -> [pc : {"none", "start", "stat", "ready", "gone", "lost"}, at : 0..Keys,
                            result : Key \cup {0, Nil}]]
    <3>1. DOMAIN stat' = Stat /\ stat' = [j \in Stat |-> stat'[j]]
      BY <1>1
    <3>2. ASSUME NEW j \in Stat
          PROVE stat'[j] \in [pc : {"none", "start", "stat", "ready", "gone", "lost"}, at : 0..Keys,
                              result : Key \cup {0, Nil}]
      <4>1. j < L => j + 1 \in 0..Keys
        BY <1>6, <1>13
      <4>2. 0 \in 0..Keys
        BY <1>6
      <4>3. CASE j < L
        <5>1. stat'[j] = [pc |-> "start", at |-> j + 1, result |-> 0] /\ j + 1 \in 0..Keys
          BY <1>14, <4>1, <4>3
        <5>2. QED
          BY <5>1
      <4>4. CASE ~(j < L)
        <5>1. stat'[j] = [pc |-> "none", at |-> 0, result |-> 0]
          BY <1>14, <4>4
        <5>2. QED
          BY <4>2, <5>1
      <4>5. QED
        BY <4>3, <4>4
    <3>3. QED
      BY <3>1, <3>2
  <2>2. taken' \in 0..Keys /\ lpc' \in LPC
    <3>1. taken' = 0 /\ lpc' = "stat" /\ Keys \in Nat
      BY <1>1, <1>6, <1>12
    <3>2. QED
      BY <3>1 DEF LPC
  <2>3. QED
    BY <1>2, <1>11, <1>12, <2>1, <2>2 DEF ListTypeOK, pageVars, Nil
<1>16. CallInv'
  BY <1>2, <1>1, <1>12 DEF CallInv
<1>17. SoFarInv'
  <2>1. OrderInv'
    BY <1>2, <1>12 DEF SoFarInv, OrderInv, MayRepeat, FirstAgain, MayGoBack, StartsAtMarker
  <2>2. KeysInv' /\ NoNilInv'
    BY <1>1, <1>2, <1>12 DEF SoFarInv, KeysInv, NoNilInv, Nil, KeyInRange, InRange, MayGoBack, StartsAtMarker
  <2>3. CompleteInv'
    BY <1>1 DEF CompleteInv, Complete
  <2>4. QED
    BY <2>1, <2>2, <2>3 DEF SoFarInv
<1>18. StatInv'
  <2>1. ASSUME NEW j \in Stat, stat'[j].pc \in {"start", "stat", "ready"}
        PROVE  /\ stat'[j].at \in DOMAIN found'
               /\ stat'[j].at > taken' /\ stat'[j].at <= taken' + Stats /\ (stat'[j].at - 1) % Stats = j
               /\ stat'[j].pc = "start"
    <3>1. j < L /\ stat'[j].at = j + 1 /\ stat'[j].pc = "start"
      <4>1. CASE j < L
        <5>1. stat'[j] = [pc |-> "start", at |-> j + 1, result |-> 0]
          BY <1>14, <4>1
        <5>2. QED
          BY <4>1, <5>1
      <4>2. CASE ~(j < L)
        <5>1. stat'[j] = [pc |-> "none", at |-> 0, result |-> 0]
          BY <1>14, <4>2
        <5>2. QED
          BY <2>1, <5>1
      <4>3. QED
        BY <4>1, <4>2
    <3>2. j + 1 \in 1..L /\ j + 1 \in 1..Stats /\ j % Stats = j
      BY <1>14, <3>1
    <3>3. (j + 1) - 1 = j /\ j + 1 > 0 /\ j + 1 <= 0 + Stats
      BY <1>13, <3>2
    <3>4. taken' = 0 /\ DOMAIN found' = 1..L
      BY <1>7, <1>12
    <3> DEFINE a == stat'[j].at
               t == taken'
    <3>5. a = j + 1 /\ t = 0
      BY <3>1, <3>4
    <3> HIDE DEF a, t
    <3>6. a \in 1..L /\ a > t /\ a <= t + Stats /\ (a - 1) % Stats = j
      BY <3>2, <3>3, <3>5
    <3>7. QED
      BY <3>1, <3>4, <3>6 DEF a, t
  <2>2. FoundInv'
    BY <1>4, <1>8, <1>9, <1>12 DEF FoundInv
  <2>3. taken' <= Len(found') /\ Len(found') <= Keys
    BY <1>6, <1>7, <1>12
  <2>4. \A i \in DOMAIN listed', j \in DOMAIN found' : listed'[i] < found'[j]
    BY <1>2, <1>8, <1>9, <1>12 DEF Begun
  <2>5. \A k \in Wanted' : k \in SentKeys' \/ \E j \in DOMAIN found' : j > taken' /\ found'[j] = k
    <3>1. \A j \in DOMAIN found' : j > 0
      BY <1>6, <1>7
    <3>2. \A k \in Wanted' : k \in N
      BY <1>4, <1>5, <1>12 DEF Wanted
    <3>3. QED
      BY <1>7, <1>12, <3>1, <3>2
  <2>6. stat' \in [Stat -> [pc : {"none", "start", "stat", "ready", "gone", "lost"}, at : 0..Keys,
                            result : Key \cup {0, Nil}]]
    BY <1>15 DEF ListTypeOK, Nil
  <2>7. QED
    BY <1>7, <2>1, <2>2, <2>3, <2>4, <2>5 DEF StatInv, Nil
<1>19. QED
  BY <1>1, <1>15, <1>16, <1>17, <1>18 DEF ListInv, PageInv, ScanInv, BatchInv

\* A goroutine moves on, or asks for a size: what is sent stays as it is.
LEMMA StatMoves ==
    ASSUME ListInv, lcall # <<>>, NEW j \in Stat, stat[j].pc \in {"start", "stat"},
           NEW pc \in {"stat", "lost", "ready"}, NEW result,
           stat' = [stat EXCEPT ![j] = [pc |-> pc, at |-> @.at, result |-> result]],
           pc = "ready" => \/ result = Nil
                           \/ result = found[stat[j].at]
                           \/ result = 0 /\ found[stat[j].at] \notin have,
           result \in Key \cup {0, Nil},
           lfaults' \in 0..ListFaults,
           UNCHANGED <<lcall, lpc, storeVars, pageVars, scanVars, taken, listed>>
    PROVE  ListInv'
<1> USE DEF storeVars, pageVars, scanVars
<1>1. ListTypeOK /\ CallInv /\ SoFarInv /\ PageInv /\ ScanInv /\ BatchInv /\ StatInv
  BY DEF ListInv
<1>2. stat \in [Stat -> [pc : {"none", "start", "stat", "ready", "gone", "lost"}, at : 0..Keys,
                         result : Key \cup {0, Nil}]] /\ always \subseteq have
  BY <1>1 DEF ListTypeOK
<1>3. /\ stat'[j] = [pc |-> pc, at |-> stat[j].at, result |-> result]
      /\ \A i \in Stat : i # j => stat'[i] = stat[i]
      /\ stat' \in [Stat -> [pc : {"none", "start", "stat", "ready", "gone", "lost"}, at : 0..Keys,
                             result : Key \cup {0, Nil}]]
  BY <1>2
<1>4. ListTypeOK'
  BY <1>1, <1>3 DEF ListTypeOK, Nil
<1>5. lpc \notin {"head", "first", "scan", "send", "iterate"}
  BY <1>1 DEF CallInv, NoStat
<1>6. CallInv'
  BY <1>1, <1>5 DEF CallInv
<1>7. OrderInv' /\ KeysInv' /\ NoNilInv' /\ CompleteInv'
  BY <1>1 DEF SoFarInv, OrderInv, KeysInv, NoNilInv, CompleteInv, MayRepeat, FirstAgain, MayGoBack,
     StartsAtMarker, KeyInRange, InRange, Complete, Nil, Wanted, SentKeys, MayStopEarly, MaySkip
<1>8. Wanted' = Wanted /\ SentKeys' = SentKeys /\ MayGoBack' = MayGoBack /\ Begun' = Begun
      /\ \A i : FirstAgain(i)' = FirstAgain(i)
  BY DEF Wanted, SentKeys, MayGoBack, Begun, FirstAgain, StartsAtMarker, Nil
<1>9. PageInv'
  BY <1>1, <1>8 DEF PageInv
<1>10. StatInv'
  <2>1. ASSUME NEW i \in Stat, stat'[i].pc \in {"start", "stat", "ready"}
        PROVE  /\ stat'[i].at \in DOMAIN found'
               /\ lpc' = "stat" =>
                    /\ stat'[i].at > taken' /\ stat'[i].at <= taken' + Stats /\ (stat'[i].at - 1) % Stats = i
                    /\ stat'[i].pc = "ready" => \/ stat'[i].result = Nil
                                                \/ stat'[i].result = found'[stat'[i].at]
                                                \/ stat'[i].result = 0 /\ found'[stat'[i].at] \notin always'
    <3>1. CASE i = j
      <4>1. stat'[i].at = stat[i].at /\ stat[i].pc \in {"start", "stat", "ready"}
            /\ stat'[i].pc = pc /\ stat'[i].result = result
        BY <1>3, <3>1
      <4>2. /\ stat[i].at \in DOMAIN found
            /\ lpc = "stat" => stat[i].at > taken /\ stat[i].at <= taken + Stats /\ (stat[i].at - 1) % Stats = i
        BY <1>1, <4>1 DEF StatInv
      <4>3. pc = "ready" => \/ result = Nil
                            \/ result = found[stat[i].at]
                            \/ result = 0 /\ found[stat[i].at] \notin always
        BY <1>2, <3>1
      <4>4. found' = found /\ taken' = taken /\ always' = always /\ lpc' = lpc
        OBVIOUS
      <4>5. QED
        BY <4>1, <4>2, <4>3, <4>4
    <3>2. CASE i # j
      <4>1. stat'[i] = stat[i]
        BY <1>3, <3>2
      <4>2. QED
        BY <1>1, <2>1, <4>1 DEF StatInv
    <3>3. QED
      BY <3>1, <3>2
  <2>2. lpc = "stat" =>
          /\ FoundInv' /\ taken' <= Len(found') /\ Len(found') <= Keys
          /\ \A i, n \in DOMAIN found' : i < n => found'[i] < found'[n]
          /\ \A i \in DOMAIN listed', n \in DOMAIN found' : n > taken' => listed'[i] < found'[n]
          /\ \A k \in Wanted' : k \in SentKeys' \/ \E n \in DOMAIN found' : n > taken' /\ found'[n] = k
    BY <1>1, <1>8 DEF StatInv, FoundInv
  <2>3. QED
    BY <2>1, <2>2 DEF StatInv, Nil
<1>11. QED
  BY <1>4, <1>5, <1>6, <1>7, <1>9, <1>10 DEF ListInv, SoFarInv, ScanInv, BatchInv

\* A goroutine opens its context.
LEMMA StatStartInv == ASSUME ListInv, lcall # <<>>, NEW j \in Stat, StatStart(j) PROVE ListInv'
<1>1. stat[j].pc = "start" /\ ListTypeOK
  BY DEF StatStart, ListInv
<1>2. stat \in [Stat -> [pc : {"none", "start", "stat", "ready", "gone", "lost"}, at : 0..Keys,
                         result : Key \cup {0, Nil}]] /\ lfaults \in 0..ListFaults
  BY <1>1 DEF ListTypeOK
<1>3. ASSUME NEW p \in {"stat", "lost"}, stat' = [stat EXCEPT ![j].pc = p]
      PROVE  stat' = [stat EXCEPT ![j] = [pc |-> p, at |-> @.at, result |-> stat[j].result]]
  <2>1. [stat[j] EXCEPT !.pc = p] = [pc |-> p, at |-> stat[j].at, result |-> stat[j].result]
    BY <1>2
  <2>2. QED
    BY <1>3, <2>1
<1>4. \E p \in {"stat", "lost"} : stat' = [stat EXCEPT ![j].pc = p]
  BY DEF StatStart
<1>5. lfaults' \in 0..ListFaults
  BY <1>2, ListingAssumption DEF StatStart, ListFault
<1>6. stat[j].result \in Key \cup {0, Nil}
  BY <1>2
<1>7. PICK p \in {"stat", "lost"} : stat' = [stat EXCEPT ![j].pc = p]
  BY <1>4
<1> DEFINE r == stat[j].result
<1>8. stat' = [stat EXCEPT ![j] = [pc |-> p, at |-> @.at, result |-> r]]
  BY <1>3, <1>7
<1>9. /\ r \in Key \cup {0, Nil} /\ p \in {"stat", "lost", "ready"} /\ p # "ready"
      /\ stat[j].pc \in {"start", "stat"}
      /\ UNCHANGED <<lcall, lpc, storeVars, pageVars, scanVars, taken, listed>>
  BY <1>1, <1>6 DEF StatStart
<1> HIDE DEF r
<1>10. QED
  BY <1>5, <1>8, <1>9, StatMoves

\* A goroutine has its answer.
LEMMA StatKeyInv == ASSUME ListInv, lcall # <<>>, NEW j \in Stat, StatKey(j) PROVE ListInv'
<1>1. stat[j].pc = "stat" /\ ListTypeOK /\ StatInv
  BY DEF StatKey, ListInv
<1>2. stat \in [Stat -> [pc : {"none", "start", "stat", "ready", "gone", "lost"}, at : 0..Keys,
                         result : Key \cup {0, Nil}]] /\ lfaults \in 0..ListFaults
  BY <1>1 DEF ListTypeOK
<1> DEFINE k == found[stat[j].at]
<1>3. k \in Key
  <2>1. stat[j].at \in DOMAIN found
    BY <1>1 DEF StatInv
  <2>2. QED
    BY <1>1, <2>1, ListFacts
<1>4. PICK r \in {Nil, IF k \in have THEN k ELSE 0} : stat' = [stat EXCEPT ![j].pc = "ready", ![j].result = r]
  BY DEF StatKey
<1>5. stat' = [stat EXCEPT ![j] = [pc |-> "ready", at |-> @.at, result |-> r]]
  <2> DEFINE x == stat[j]
  <2>1. x \in [pc : {"none", "start", "stat", "ready", "gone", "lost"}, at : 0..Keys, result : Key \cup {0, Nil}]
    BY <1>2
  <2> HIDE DEF x
  <2>3. [x EXCEPT !.pc = "ready", !.result = r] = [pc |-> "ready", at |-> x.at, result |-> r]
    <3> DEFINE y == [x EXCEPT !.pc = "ready"]
    <3>1. y = [pc |-> "ready", at |-> x.at, result |-> x.result]
      BY <2>1
    <3>2. [x EXCEPT !.pc = "ready", !.result = r] = [y EXCEPT !.result = r]
      OBVIOUS
    <3> HIDE DEF y
    <3>3. [y EXCEPT !.result = r] = [pc |-> "ready", at |-> x.at, result |-> r]
      BY <3>1
    <3>4. QED
      BY <3>2, <3>3
  <2>2. QED
    BY <1>2, <1>4, <2>3 DEF x
<1>6. lfaults' \in 0..ListFaults
  BY <1>2, ListingAssumption DEF StatKey, ListFault
<1>7. /\ r \in Key \cup {0, Nil}
      /\ r = Nil \/ r = k \/ (r = 0 /\ k \notin have)
  BY <1>3, <1>4
<1>8. /\ stat[j].pc \in {"start", "stat"} /\ "ready" \in {"stat", "lost", "ready"}
      /\ UNCHANGED <<lcall, lpc, storeVars, pageVars, scanVars, taken, listed>>
  BY <1>1 DEF StatKey
<1>9. QED
  BY <1>5, <1>6, <1>7, <1>8, StatMoves

\* The n-th name is looked at by one goroutine; its next name is Stats further on.
LEMMA Turns ==
    ASSUME NEW a \in Nat, NEW t \in Nat, Stats \in Nat \ {0}
    PROVE  /\ t % Stats \in 0..(Stats - 1)
           /\ t <= a /\ a < t + Stats /\ a % Stats = t % Stats => a = t
           /\ (t + Stats) % Stats = t % Stats
<1> DEFINE d == a - t
<1>1. t % Stats \in 0..(Stats - 1) /\ (t + Stats) % Stats = t % Stats
  <2> DEFINE u == t + Stats
             q == u \div Stats
             p == t \div Stats
             r == t % Stats
             s == u % Stats
  <2>1. /\ t = Stats * p + r /\ p \in Int /\ r \in 0..(Stats - 1)
    BY SMT
  <2>2. u \in Nat /\ u = t + Stats
    OBVIOUS
  <2> HIDE DEF u
  <2>3. /\ u = Stats * q + s /\ q \in Int /\ s \in 0..(Stats - 1)
    BY <2>2, SMT
  <2> HIDE DEF q, p, r, s
  <2>4. Stats * (q - p - 1) = r - s
    BY <2>1, <2>2, <2>3
  <2> DEFINE m == q - p - 1
  <2>5. m \in Int /\ r - s = Stats * m
    BY <2>1, <2>3, <2>4
  <2> HIDE DEF m
  <2>6. m >= 1 => Stats * m >= Stats
    BY <2>5
  <2>7. m <= -1 => Stats * m <= -Stats
    BY <2>5
  <2>8. m = 0
    BY <2>1, <2>3, <2>5, <2>6, <2>7
  <2>9. s = r
    BY <2>1, <2>3, <2>5, <2>8
  <2>10. QED
    BY <2>1, <2>9 DEF r, s, u
<1>2. ASSUME t <= a, a < t + Stats, a % Stats = t % Stats PROVE a = t
  <2> DEFINE q == a \div Stats
             p == t \div Stats
             r == t % Stats
  <2>1. /\ a = Stats * q + (a % Stats) /\ t = Stats * p + r
        /\ q \in Int /\ p \in Int /\ r \in 0..(Stats - 1)
    BY SMT
  <2>2. a = Stats * q + r
    BY <1>2, <2>1
  <2> HIDE DEF q, p, r
  <2>3. a - t = Stats * (q - p)
    BY <2>1, <2>2
  <2>4. 0 <= a - t /\ a - t < Stats
    BY <1>2
  <2> DEFINE m == q - p
  <2>5. m \in Int /\ a - t = Stats * m
    BY <2>1, <2>3
  <2> HIDE DEF m
  <2>6. m >= 1 => Stats * m >= Stats
    BY <2>5
  <2>7. m <= -1 => Stats * m <= -Stats
    BY <2>5
  <2>8. m = 0
    BY <2>4, <2>5, <2>6, <2>7
  <2>9. QED
    BY <2>5, <2>8
<1>3. QED
  BY <1>1, <1>2

\* The next result is sent, and its goroutine goes on.
LEMMA TakeStatInv == ASSUME ListInv, TakeStat PROVE ListInv'
<1> DEFINE j == taken % Stats
           result == stat[j].result
           after == stat[j].at + Stats
           goesOn == result # Nil /\ after <= Len(found)
<1>1. /\ lpc = "stat" /\ taken < Len(found) /\ stat[j].pc = "ready"
      /\ taken' = taken + 1
      /\ listed' = IF result = Nil \/ (result # 0 /\ InRange(result)) THEN Append(listed, result) ELSE listed
      /\ lpc' = IF result = Nil \/ (result # 0 /\ ~InRange(result)) THEN "closed" ELSE "stat"
      /\ stat' = [stat EXCEPT ![j] = IF goesOn
                                     THEN [pc |-> "stat", at |-> after, result |-> 0]
                                     ELSE [@ EXCEPT !.pc = "gone"]]
      /\ UNCHANGED <<lcall, storeVars, pageVars, scanVars, lfaults>>
  BY Zenon DEF TakeStat
<1>2. lcall # <<>> /\ ListTypeOK /\ CallInv /\ StatInv /\ SoFarInv /\ lcall.list = Ceph
  BY <1>1 DEF ListInv, CallInv
<1>3. /\ Key \subseteq Nat \ {0} /\ lcall.start \in Nat /\ lcall.end \in Nat /\ Nil \notin Key /\ Nil \in Nat
      /\ Nil # 0 /\ Keys \in Nat
      /\ DOMAIN found = 1..Len(found) /\ Len(found) \in Nat /\ \A i \in DOMAIN found : found[i] \in Key
      /\ \A i \in DOMAIN listed : listed[i] \in Key \cup {Nil}
  <2>1. Nil # 0
    BY ListingAssumption DEF Nil
  <2>2. QED
    BY <1>2, <2>1, ListFacts
<1>4. /\ stat \in [Stat -> [pc : {"none", "start", "stat", "ready", "gone", "lost"}, at : 0..Keys,
                            result : Key \cup {0, Nil}]]
      /\ listed \in Seq(Key \cup {Nil}) /\ taken \in Nat /\ Stats \in Nat \ {0}
      /\ always \subseteq have /\ have \subseteq ever
  BY <1>2, ListingAssumption DEF ListTypeOK
<1>5. j \in Stat
  BY <1>4, Turns DEF Stat
<1>6. /\ FoundInv /\ Len(found) <= Keys
      /\ \A i, l \in DOMAIN found : i < l => found[i] < found[l]
      /\ \A i \in DOMAIN listed, l \in DOMAIN found : l > taken => listed[i] < found[l]
      /\ \A k \in Wanted : k \in SentKeys \/ \E l \in DOMAIN found : l > taken /\ found[l] = k
      /\ \A i \in Stat : stat[i].pc \in {"start", "stat", "ready"} =>
            /\ stat[i].at \in DOMAIN found
            /\ stat[i].at > taken /\ stat[i].at <= taken + Stats /\ (stat[i].at - 1) % Stats = i
            /\ stat[i].pc = "ready" => \/ stat[i].result = Nil
                                       \/ stat[i].result = found[stat[i].at]
                                       \/ stat[i].result = 0 /\ found[stat[i].at] \notin always
  BY <1>1, <1>2 DEF StatInv
<1>7. ASSUME NEW i \in Stat, stat[i].pc \in {"start", "stat", "ready"}, stat[i].at = taken + 1 PROVE i = j
  <2>1. (stat[i].at - 1) % Stats = i
    BY <1>6, <1>7
  <2>2. stat[i].at - 1 = taken
    BY <1>4, <1>7
  <2>3. QED
    BY <2>1, <2>2
<1>8. stat[j].at = taken + 1
  <2> DEFINE a == stat[j].at - 1
  <2>1. /\ stat[j].at \in DOMAIN found /\ stat[j].at > taken /\ stat[j].at <= taken + Stats
        /\ a % Stats = j
    BY <1>1, <1>5, <1>6
  <2>3. a % Stats = taken % Stats
    BY <2>1
  <2> DEFINE b == stat[j].at
  <2>4. b \in Nat /\ a = b - 1 /\ b > taken /\ b <= taken + Stats
    BY <1>3, <2>1
  <2> HIDE DEF a, b
  <2>2. a \in Nat /\ taken <= a /\ a < taken + Stats
    BY <1>4, <2>4
  <2>5. a = taken
    BY <1>4, <2>2, <2>3, Turns
  <2>6. b = taken + 1
    BY <1>4, <2>4, <2>5
  <2>7. QED
    BY <2>6 DEF b
<1> DEFINE T == taken + 1
           k == found[T]
<1>9. /\ T \in DOMAIN found /\ k \in Key /\ k > lcall.start /\ k \in ever /\ T > taken /\ T \in Nat
      /\ taken' = T /\ T <= Len(found)
  <2>1. T \in DOMAIN found /\ T > taken /\ T \in Nat /\ taken' = T /\ T <= Len(found)
    BY <1>1, <1>3, <1>4
  <2>2. QED
    BY <1>3, <1>6, <2>1 DEF FoundInv
<1>10. result = Nil \/ result = k \/ (result = 0 /\ k \notin always)
  BY <1>1, <1>5, <1>6, <1>8
<1>11. after = T + Stats
  BY <1>8
<1>12. j \in Stat /\ stat'[j].pc \in {"stat", "gone"} /\ (goesOn => stat'[j].at = after)
       /\ (stat'[j].pc = "stat" => goesOn)
       /\ \A i \in Stat : i # j => stat'[i] = stat[i]
  <2>1. [stat[j] EXCEPT !.pc = "gone"].pc = "gone"
    BY <1>4, <1>5
  <2>2. stat'[j] = IF goesOn THEN [pc |-> "stat", at |-> after, result |-> 0] ELSE [stat[j] EXCEPT !.pc = "gone"]
    BY <1>1, <1>4, <1>5
  <2>3. \A i \in Stat : i # j => stat'[i] = stat[i]
    BY <1>1, <1>4
  <2> HIDE DEF goesOn, after, j
  <2>4. CASE goesOn
    BY <1>5, <2>2, <2>3, <2>4
  <2>5. CASE ~goesOn
    BY <1>5, <2>1, <2>2, <2>3, <2>5
  <2>6. QED
    BY <2>4, <2>5
<1>13. stat' \in [Stat -> [pc : {"none", "start", "stat", "ready", "gone", "lost"}, at : 0..Keys,
                           result : Key \cup {0, Nil}]]
  <2> DEFINE R == [pc : {"none", "start", "stat", "ready", "gone", "lost"}, at : 0..Keys, result : Key \cup {0, Nil}]
             new == IF goesOn THEN [pc |-> "stat", at |-> after, result |-> 0] ELSE [stat[j] EXCEPT !.pc = "gone"]
  <2>1. [stat[j] EXCEPT !.pc = "gone"] \in R
    BY <1>4, <1>5
  <2>2. goesOn => after \in 0..Keys
    BY <1>3, <1>4, <1>6, <1>9, <1>11
  <2>3. [pc |-> "stat", at |-> after, result |-> 0] \in R \/ ~goesOn
    BY <2>2
  <2>4. new \in R
    BY <2>1, <2>3
  <2>5. stat' = [stat EXCEPT ![j] = new]
    BY <1>1
  <2> HIDE DEF new, R, j
  <2>6. stat' \in [Stat -> R]
    BY <1>4, <2>4, <2>5 DEF R
  <2>7. QED
    BY <2>6 DEF R
<1>14. goesOn => after \in DOMAIN found /\ after > T /\ after <= T + Stats /\ (after - 1) % Stats = j
  <2> SUFFICES ASSUME goesOn PROVE after \in DOMAIN found /\ after > T /\ after <= T + Stats /\ (after - 1) % Stats = j
    OBVIOUS
  <2>1. after - 1 = taken + Stats
    BY <1>4, <1>11
  <2>2. (taken + Stats) % Stats = j
    BY <1>4, Turns
  <2>3. after \in DOMAIN found /\ after > T /\ after <= T + Stats
    BY <1>3, <1>4, <1>9, <1>11
  <2>4. QED
    BY <2>1, <2>2, <2>3
<1>15. lcall' = lcall /\ have' = have /\ always' = always /\ ever' = ever /\ found' = found
       /\ lfaults' = lfaults /\ lchanges' = lchanges /\ node' = node /\ cursor' = cursor /\ UNCHANGED pageVars
  BY <1>1 DEF storeVars, scanVars
<1> HIDE DEF j, result, after, goesOn, T, k
<1>16. result \in Key \cup {0, Nil}
  BY <1>9, <1>10
<1>17. listed' \in Seq(Key \cup {Nil})
  <2>1. CASE result = 0
    BY <1>1, <1>3, <1>4, <2>1
  <2>2. CASE result # 0
    <3>1. result \in Key \cup {Nil}
      BY <1>16, <2>2
    <3>2. Append(listed, result) \in Seq(Key \cup {Nil})
      BY <1>4, <3>1, OneLonger
    <3>3. QED
      BY <1>1, <1>4, <3>2
  <2>3. QED
    BY <2>1, <2>2
<1>18. ListTypeOK'
  <2>1. taken' \in 0..Keys
    BY <1>3, <1>6, <1>9
  <2>2. lpc' \in LPC
    BY <1>1 DEF LPC
  <2>3. QED
    BY <1>2, <1>13, <1>15, <1>17, <2>1, <2>2 DEF ListTypeOK, pageVars, Nil
<1>19. Wanted' = Wanted /\ \A l \in Wanted : l \in Nat /\ l \in always /\ InRange(l)
  <2>1. have \subseteq Key
    BY <1>2 DEF ListTypeOK
  <2>2. QED
    BY <1>3, <1>4, <1>15, <2>1 DEF Wanted, InRange
<1>20. ASSUME NEW l \in Wanted PROVE l \in SentKeys \/ l = k \/ \E i \in DOMAIN found : i > T /\ found[i] = l
  <2>1. CASE l \in SentKeys
    BY <2>1
  <2>2. CASE \E i \in DOMAIN found : i > taken /\ found[i] = l
    <3>1. PICK i \in DOMAIN found : i > taken /\ found[i] = l
      BY <2>2
    <3>2. i \in Nat
      BY <1>3
    <3>3. i = T \/ i > T
      BY <1>4, <3>1, <3>2 DEF T
    <3>4. QED
      BY <3>1, <3>3 DEF k
  <2>3. QED
    BY <1>6, <2>1, <2>2
<1>21. \A i \in DOMAIN listed : listed[i] < k
  BY <1>6, <1>9 DEF k
<1>22. \A i \in DOMAIN found : i > T => k < found[i]
  BY <1>6, <1>9 DEF k
<1>23. StatInv'
  <2>1. ASSUME NEW i \in Stat, stat'[i].pc \in {"start", "stat", "ready"}
        PROVE  /\ stat'[i].at \in DOMAIN found
               /\ stat'[i].at > T /\ stat'[i].at <= T + Stats /\ (stat'[i].at - 1) % Stats = i
               /\ stat'[i].pc = "ready" => \/ stat'[i].result = Nil
                                           \/ stat'[i].result = found[stat'[i].at]
                                           \/ stat'[i].result = 0 /\ found[stat'[i].at] \notin always
    <3>1. CASE i = j
      <4>1. stat'[i].pc = "stat" /\ goesOn /\ stat'[i].at = after
        BY <1>12, <2>1, <3>1
      <4>2. QED
        BY <1>14, <3>1, <4>1
    <3>2. CASE i # j
      <4>1. stat'[i] = stat[i]
        BY <1>12, <3>2
      <4>2. /\ stat[i].at \in DOMAIN found
            /\ stat[i].at > taken /\ stat[i].at <= taken + Stats /\ (stat[i].at - 1) % Stats = i
            /\ stat[i].pc = "ready" => \/ stat[i].result = Nil
                                       \/ stat[i].result = found[stat[i].at]
                                       \/ stat[i].result = 0 /\ found[stat[i].at] \notin always
        BY <1>6, <2>1, <4>1
      <4>3. stat[i].at # taken + 1
        BY <1>7, <2>1, <3>2, <4>1
      <4> DEFINE a == stat[i].at
      <4>4. a \in Nat /\ a > taken /\ a <= taken + Stats /\ a # taken + 1
        BY <1>3, <4>2, <4>3
      <4> HIDE DEF a
      <4>5. a > T /\ a <= T + Stats
        BY <1>4, <4>4 DEF T
      <4>6. QED
        BY <4>1, <4>2, <4>5 DEF a
    <3>3. QED
      BY <3>1, <3>2
  <2>2. ASSUME lpc' = "stat"
        PROVE  /\ FoundInv' /\ taken' <= Len(found') /\ Len(found') <= Keys
               /\ \A i, l \in DOMAIN found' : i < l => found'[i] < found'[l]
               /\ \A i \in DOMAIN listed', l \in DOMAIN found' : l > taken' => listed'[i] < found'[l]
               /\ \A l \in Wanted' : l \in SentKeys' \/ \E i \in DOMAIN found' : i > taken' /\ found'[i] = l
    <3>1. FoundInv' /\ taken' <= Len(found') /\ Len(found') <= Keys
          /\ \A i, l \in DOMAIN found' : i < l => found'[i] < found'[l]
      BY <1>6, <1>9, <1>15 DEF FoundInv
    <3>2. result # Nil /\ ((listed' = listed /\ result = 0) \/ (listed' = Append(listed, k) /\ result = k))
      <4>1. result # Nil /\ ~(result # 0 /\ ~InRange(result))
        BY <1>1, <2>2
      <4>2. CASE result = 0
        BY <1>1, <4>1, <4>2
      <4>3. CASE result # 0
        BY <1>1, <1>10, <4>1, <4>3
      <4>4. QED
        BY <4>2, <4>3
    <3>3. CASE result = 0
      <4>1. listed' = listed /\ k \notin Wanted
        BY <1>3, <1>9, <1>10, <1>19, <3>2, <3>3
      <4>2. \A i \in DOMAIN listed, l \in DOMAIN found : l > T => listed[i] < found[l]
        <5>1. \A l \in DOMAIN found : l > T => l > taken
          BY <1>3, <1>4, <1>9
        <5>2. QED
          BY <1>6, <5>1
      <4>3. SentKeys' = SentKeys
        BY <4>1 DEF SentKeys, Nil
      <4>4. QED
        BY <1>9, <1>15, <1>19, <1>20, <3>1, <4>1, <4>2, <4>3
    <3>4. CASE result # 0
      <4>1. listed' = Append(listed, k)
        BY <3>2, <3>4
      <4>2. listed \in Seq(Key \cup {Nil}) /\ k \in Key \cup {Nil}
        BY <1>4, <1>9
      <4>3. Grows(listed, listed', {k})
        BY <4>1, <4>2, OneLonger
      <4>4. SentKeys' = SentKeys \cup ({k} \ {Nil})
        BY <1>2, <1>18, <4>3, SentGrows
      <4>5. SentKeys' = SentKeys \cup {k}
        BY <1>3, <1>9, <4>4
      <4>6. ASSUME NEW i \in DOMAIN listed', NEW l \in DOMAIN found, l > T PROVE listed'[i] < found[l]
        <5>1. CASE i \in DOMAIN listed
          <6>1. l > taken /\ listed'[i] = listed[i]
            BY <1>3, <1>4, <1>9, <4>3, <4>6, <5>1 DEF Grows
          <6>2. QED
            BY <1>6, <5>1, <6>1
        <5>2. CASE i \notin DOMAIN listed
          <6>1. listed'[i] = k
            BY <4>3, <5>2 DEF Grows
          <6>2. QED
            BY <1>22, <4>6, <6>1
        <5>3. QED
          BY <5>1, <5>2
      <4>7. QED
        BY <1>9, <1>15, <1>19, <1>20, <3>1, <4>5, <4>6
    <3>5. QED
      BY <3>3, <3>4
  <2>3. QED
    <3>1. taken' = T /\ found' = found /\ always' = always
      BY <1>9, <1>15
    <3>2. QED
      BY <2>1, <2>2, <3>1 DEF StatInv, Nil
<1>24. CallInv'
  BY <1>1, <1>2, <1>15 DEF CallInv
<1>25. SoFarInv'
  <2>1. CASE result = Nil
    <3>1. lpc # "closed" /\ lpc' = "closed" /\ listed' = Append(listed, Nil) /\ UNCHANGED <<lcall, storeVars>>
      BY <1>1, <2>1
    <3>2. QED
      BY <1>2, <1>18, <3>1, NilSent
  <2>2. CASE result = 0 \/ (result = k /\ ~InRange(k))
    <3>1. listed' = listed /\ result # Nil
      BY <1>1, <1>3, <1>9, <2>2
    <3>2. OrderInv' /\ KeysInv'
      BY <1>2, <1>15, <3>1
         DEF SoFarInv, OrderInv, KeysInv, MayRepeat, FirstAgain, MayGoBack, StartsAtMarker, KeyInRange, InRange, Nil
    <3>3. NoNilInv'
      BY <1>1, <1>2, <3>1 DEF SoFarInv, NoNilInv, Nil
    <3>4. CompleteInv'
      <4> SUFFICES ASSUME lpc' = "closed", NEW l \in Wanted, l \notin SentKeys PROVE FALSE
        <5>1. SentKeys' = SentKeys
          BY <3>1 DEF SentKeys, Nil
        <5>2. QED
          BY <1>19, <5>1 DEF CompleteInv, Complete
      <4>1. result # 0 /\ result = k /\ ~InRange(k)
        BY <1>1, <1>3, <2>2, <3>1
      <4>2. l = k \/ l > k
        BY <1>20, <1>22
      <4>3. InRange(l) /\ lcall.end \in Nat /\ k \in Nat /\ l \in Nat
        BY <1>3, <1>9, <1>19
      <4>4. QED
        BY <4>1, <4>2, <4>3 DEF InRange
    <3>5. QED
      BY <3>2, <3>3, <3>4 DEF SoFarInv
  <2>3. CASE result = k /\ InRange(k)
    <3>1. result # 0 /\ result # Nil
      BY <1>3, <1>9, <2>3
    <3>2. listed' = Append(listed, k) /\ lpc' = "stat"
      BY <1>1, <2>3, <3>1
    <3>3. listed \in Seq(Key \cup {Nil}) /\ k \in Key \cup {Nil}
      BY <1>4, <1>9
    <3> DEFINE S == {k}
    <3>4. Grows(listed, listed', S) /\ Rises(listed, listed')
      BY <3>2, <3>3, OneLonger
    <3>5. \A i \in DOMAIN listed, x \in S : listed[i] < x \/ MayRepeat' \/ FirstAgain(i)
      BY <1>21
    <3>6. \A x \in S : x # Nil => x \in ever' /\ KeyInRange(x)
      BY <1>9, <1>15, <2>3 DEF KeyInRange
    <3>7. lchanges <= lchanges' /\ ever \subseteq ever' /\ lcall' = lcall
      BY <1>2, <1>15, ListingAssumption DEF ListTypeOK
    <3>8. OrderInv /\ KeysInv /\ NoNilInv
      BY <1>2 DEF SoFarInv
    <3>9. NoNilInv'
      <4>1. \A i \in DOMAIN listed : listed[i] # Nil
        BY <1>1, <3>8 DEF NoNilInv
      <4>2. \A i \in DOMAIN listed' : listed'[i] # Nil
        BY <1>3, <1>9, <3>4, <4>1 DEF Grows
      <4>3. QED
        BY <4>2 DEF NoNilInv, Nil
    <3> HIDE DEF S
    <3>10. OrderInv' /\ KeysInv'
      BY <1>2, <1>18, <3>4, <3>5, <3>6, <3>7, <3>8, SentMore
    <3>11. CompleteInv'
      BY <3>2 DEF CompleteInv, Complete
    <3>12. QED
      BY <3>9, <3>10, <3>11 DEF SoFarInv
  <2>4. QED
    BY <1>10, <2>1, <2>2, <2>3
<1>26. lpc' \in {"stat", "closed"}
  BY <1>1
<1>27. QED
  BY <1>18, <1>23, <1>24, <1>25, <1>26 DEF ListInv, PageInv, ScanInv, BatchInv

\* All results were sent.
LEMMA StatsEndInv == ASSUME ListInv, StatsEnd PROVE ListInv'
<1>1. /\ lpc = "stat" /\ taken = Len(found) /\ lpc' = "closed"
      /\ UNCHANGED <<lcall, storeVars, pageVars, scanVars, statVars, listed, lfaults>>
  BY DEF StatsEnd
<1>2. lcall # <<>> /\ ListTypeOK /\ CallInv /\ StatInv /\ SoFarInv
  BY <1>1 DEF ListInv, CallInv
<1> USE DEF storeVars, pageVars, scanVars, statVars
<1>3. ListTypeOK'
  BY <1>1, <1>2 DEF ListTypeOK, LPC
<1>4. CallInv'
  BY <1>1, <1>2 DEF CallInv
<1>5. OrderInv' /\ KeysInv' /\ NoNilInv'
  BY <1>1, <1>2 DEF SoFarInv, OrderInv, KeysInv, NoNilInv, MayRepeat, FirstAgain, MayGoBack,
     StartsAtMarker, KeyInRange, InRange, Nil
<1>6. CompleteInv'
  <2>1. \A k \in Wanted : k \in SentKeys \/ \E j \in DOMAIN found : j > taken /\ found[j] = k
    BY <1>1, <1>2 DEF StatInv
  <2>2. \A j \in DOMAIN found : ~(j > taken)
    BY <1>1, <1>2, ListFacts
  <2>3. Wanted \subseteq SentKeys
    BY <2>1, <2>2
  <2>4. Wanted' = Wanted /\ SentKeys' = SentKeys
    BY <1>1 DEF Wanted, SentKeys, Nil
  <2>5. QED
    BY <2>3, <2>4 DEF CompleteInv
<1>7. StatInv'
  BY <1>1, <1>2 DEF StatInv
<1>8. QED
  BY <1>1, <1>3, <1>4, <1>5, <1>6, <1>7 DEF ListInv, SoFarInv, PageInv, ScanInv, BatchInv

-----------------------------------------------------------------------------
\* A listing that begins, and a store that is not listed.
LEMMA ListBegins == ASSUME ListInit \/ ListIdle PROVE ListInv
<1>1. NoListing
  BY DEF ListInit, ListIdle
<1>2. /\ stat = [j \in Stat |-> NoStat] /\ found = <<>> /\ listed = <<>> /\ lchanges = 0 /\ lfaults = 0
      /\ sent = 0 /\ token = 0 /\ retries = 0 /\ node = 1 /\ cursor = 0 /\ taken = 0
  BY <1>1 DEF NoListing
<1>3. ListTypeOK
  <2>1. stat \in [Stat -> [pc : {"none", "start", "stat", "ready", "gone", "lost"}, at : 0..Keys,
                           result : Key \cup {0, Nil}]]
    BY <1>2, ListingAssumption DEF NoStat
  <2>2. (lcall = <<>> \/ lcall \in ListCalls) /\ lpc \in LPC
        /\ have \subseteq Key /\ always \subseteq have /\ have \subseteq ever /\ ever \subseteq Key
    BY DEF ListInit, ListIdle, LPC
  <2>3. /\ found \in Seq(Key) /\ listed \in Seq(Key \cup {Nil})
        /\ sent \in Key \cup {0} /\ token \in Key \cup {0} /\ retries \in 0..Retries
        /\ node \in 1..Masters /\ cursor \in Key \cup {0} /\ taken \in 0..Keys
        /\ lfaults \in 0..ListFaults /\ lchanges \in 0..ListChanges
    BY <1>2, ListingAssumption
  <2>4. QED
    BY <2>1, <2>2, <2>3 DEF ListTypeOK
<1>4. DOMAIN listed = {} /\ DOMAIN found = {}
  BY <1>2
<1>5. ASSUME NEW c \in ListCalls PROVE c # <<>>
  <2>1. c \in [list : FlatLists \cup {Redis, Ceph}, start : Key \cup {0}, head : BOOLEAN, end : Key \cup {0}]
    BY ListingAssumption
  <2>2. QED
    BY <2>1
<1>6. CallInv
  BY <1>2, <1>5 DEF CallInv, ListInit, ListIdle
<1>7. lpc \in {"idle", "head"}
  BY DEF ListInit, ListIdle
<1>8. SoFarInv
  BY <1>4, <1>7 DEF SoFarInv, OrderInv, KeysInv, NoNilInv, CompleteInv, Complete
<1>9. StatInv
  <2>1. \A j \in Stat : stat[j].pc = "none"
    BY <1>2 DEF NoStat
  <2>2. QED
    BY <1>7, <2>1 DEF StatInv
<1>10. QED
  BY <1>3, <1>6, <1>7, <1>8, <1>9 DEF ListInv, PageInv, ScanInv, BatchInv

\* Each step of a listing, and each that leaves it alone.
LEMMA ListSteps == ASSUME ListInv, ListNext \/ UNCHANGED listVars PROVE ListInv'
<1>1. CASE UNCHANGED listVars
  <2> USE <1>1 DEF listVars, storeVars, pageVars, scanVars, statVars
  <2>1. ListTypeOK'
    BY DEF ListInv, ListTypeOK
  <2>2. CallInv'
    BY DEF ListInv, CallInv, Begun
  <2>3. ASSUME lcall # <<>>
        PROVE OrderInv' /\ KeysInv' /\ NoNilInv' /\ CompleteInv'
    BY <2>3 DEF ListInv, SoFarInv, OrderInv, KeysInv, NoNilInv, CompleteInv, MayRepeat, FirstAgain, MayGoBack,
       StartsAtMarker, KeyInRange, InRange, Complete, Nil, Wanted, SentKeys, MayStopEarly, MaySkip
  <2>4. Wanted' = Wanted /\ SentKeys' = SentKeys /\ MayGoBack' = MayGoBack /\ Begun' = Begun
        /\ (\A i : FirstAgain(i)' = FirstAgain(i)) /\ FoundInv' = FoundInv /\ FoundOnce' = FoundOnce
    BY DEF Wanted, SentKeys, MayGoBack, Begun, FirstAgain, StartsAtMarker, Nil, FoundInv, FoundOnce
  <2>5. ASSUME lcall # <<>> PROVE PageInv' /\ ScanInv' /\ BatchInv' /\ StatInv'
    <3>1. PageInv'
      BY <2>4, <2>5 DEF ListInv, PageInv
    <3>2. ScanInv' /\ BatchInv'
      BY <2>4, <2>5 DEF ListInv, ScanInv, BatchInv
    <3>3. StatInv'
      BY <2>4, <2>5 DEF ListInv, StatInv, Nil
    <3>4. QED
      BY <3>1, <3>2, <3>3
  <2>6. QED
    BY <2>1, <2>2, <2>3, <2>5 DEF ListInv, SoFarInv
<1>2. CASE HeadStart \/ FirstPage \/ NextPage \/ PageFails \/ KeyChanges
  BY <1>2, HeadStartInv, FirstPageInv, NextPageInv, PageFailsInv, KeyChangesInv
<1>3. CASE FirstFails \/ ScanFails \/ IterateFails
  BY <1>3, RefusedInv DEF FirstFails, ScanFails, IterateFails
<1>4. CASE Scan \/ SendFound \/ SizesFail \/ Iterate \/ TakeStat \/ StatsEnd
  BY <1>4, ScanStepInv, SendFoundInv, SizesFailInv, IterateInv, TakeStatInv, StatsEndInv
<1>5. CASE \E j \in Stat : StatStart(j) \/ StatKey(j)
  <2>1. PICK j \in Stat : StatStart(j) \/ StatKey(j)
    BY <1>5
  <2>2. lcall # <<>>
    <3>1. stat[j].pc \in {"start", "stat"}
      BY <2>1 DEF StatStart, StatKey
    <3>2. lpc # "idle"
      BY <3>1 DEF ListInv, CallInv, NoStat
    <3>3. QED
      BY <3>2 DEF ListInv, CallInv
  <2>3. QED
    BY <2>1, <2>2, StatStartInv, StatKeyInv
<1>6. QED
  BY <1>1, <1>2, <1>3, <1>4, <1>5 DEF ListNext, ListSystem

\* What is promised of a listing.
LEMMA ListPromise == ListInv => ListedRight
<1> SUFFICES ASSUME ListInv, lcall # <<>> PROVE ListedRight
  BY DEF ListedRight
<1>1. OrderInv /\ KeysInv /\ CompleteInv /\ ListTypeOK
  BY DEF ListInv, SoFarInv
<1>2. \A k \in SentKeys : \E i \in DOMAIN listed : listed[i] = k /\ k # Nil
  BY DEF SentKeys, ToSet
<1>3. \A i, j \in DOMAIN listed :
         i < j => listed[i] < listed[j] \/ MayRepeat
                  \/ ((StartsAtMarker \/ MayGoBack) /\ i = 1 /\ listed[i] = lcall.start)
  BY <1>1 DEF OrderInv, FirstAgain
<1>4. SentKeys \subseteq ever
      /\ \A k \in SentKeys : /\ lcall.end = 0 \/ k <= lcall.end \/ k = lcall.start
                             /\ k > lcall.start \/ MayGoBack
                                \/ (k = lcall.start /\ (lcall.head \/ StartsAtMarker))
  BY <1>1, <1>2 DEF KeysInv, KeyInRange, InRange
<1>5. Complete => Wanted \subseteq SentKeys \/ MayStopEarly \/ MaySkip
  BY <1>1 DEF CompleteInv
<1>6. QED
  BY <1>3, <1>4, <1>5 DEF ListedRight

-----------------------------------------------------------------------------
(* What holds of a walk besides its type.                                  *)

\* what is left of a directory from the p-th entry on
From(list, p) == {list[q] : q \in {r \in DOMAIN list : r >= p}}
Waiting(d) == From(entries[d], pos[d])

\* the entries of d come in order, and once
GoodEntries(d, list) ==
    /\ \A p, q \in DOMAIN list : p < q => list[p] < list[q]
    /\ \A q \in DOMAIN list : IF list[q] = 0 THEN d = 0 ELSE ParentOf[list[q]] = d

\* What a helper has listed of a directory is the beginning of it; K is what has to be there.
GoodBatch(h, d, K) ==
    /\ \A i, j \in DOMAIN h.batch : i < j => h.batch[i] < h.batch[j]
    /\ \A i \in DOMAIN h.batch : ParentOf[h.batch[i]] = d
    /\ h.more => h.batch # <<>>
    /\ \A n \in K : ParentOf[n] = d => n \in ToSet(h.batch) \/ (h.more /\ h.batch[Len(h.batch)] < n)
GoodHelper(h, list, K) ==
    h.pc \in {"list", "ready"} =>
        /\ h.at \in DOMAIN list /\ list[h.at] \in Directory \ {0}
        /\ h.pc = "ready" /\ ~h.err => GoodBatch(h, list[h.at], K)

\* the directories above what was kept were kept, and can be read
KeptInv == \A n \in kept : Above(n) \ {0} \subseteq kept /\ Above(n) \cap secret = {}
EntriesInv == \A d \in Directory : GoodEntries(d, entries[d])
HelperInv == \A d \in Directory, c \in Helper : GoodHelper(helper[d][c], entries[d], kept)

\* what waits in a directory comes after all that is further in, and all that was sent
StackInv ==
    /\ wpc = "walk" <=> stack # <<>>
    /\ wpc = "root" => walked = <<>> /\ \A d \in Directory : pos[d] = 1
    /\ \A i, j \in DOMAIN stack : i < j => stack[i] < stack[j]
    /\ \A d \in ToSet(stack) : \A x \in Waiting(d) :
          /\ \A e \in ToSet(stack) : d < e => e < x /\ \A y \in ToSet(entries[e]) : y < x
          /\ \A e \in Directory : pos[e] # 1 => e < x
          /\ \A y \in ToSet(walked) : y < x

WalkedInv ==
    /\ \A i, j \in DOMAIN walked : i < j => walked[i] < walked[j]
    /\ \A x \in ToSet(walked) :
          IF x = Failed THEN wpc = "closed" ELSE x >= wcall.start /\ ~Ended(x)

\* what has to be sent was, or waits, or a directory it is in does
ToSend(n) == n > wcall.start /\ ~Ended(n)
LeftInv ==
    wpc = "walk" \/ WalkComplete =>
        \A n \in kept : ToSend(n) =>
            \/ n \in ToSet(walked)
            \/ \E d \in ToSet(stack) : \E x \in Waiting(d) : x # 0 /\ x \in {n} \cup Above(n)

WalkInv ==
    /\ WalkTypeOK /\ wcall \in WalkCalls /\ wpc \in {"root", "walk", "closed", "refused"}
    /\ KeptInv /\ EntriesInv /\ HelperInv /\ StackInv /\ WalkedInv /\ LeftInv

-----------------------------------------------------------------------------
(* Directories and what is in them.                                        *)

\* What the names are.
LEMMA NameFacts ==
    /\ Names \in Nat /\ Name \subseteq Nat \ {0} /\ IsFiniteSet(Name) /\ Cardinality(Name) = Names
    /\ Directory \subseteq Name \cup {0} /\ Directory \subseteq Nat /\ 0 \in Directory
    /\ \A n \in Name : ParentOf[n] \in Directory /\ ParentOf[n] \in Nat /\ ParentOf[n] < n
    /\ Failed \in Nat /\ Failed \notin Name \cup {0} /\ \A n \in Name \cup {0} : n < Failed
    /\ \A n \in Name, i \in Nat : 0 < i /\ i <= n => i \in Name
<1>1. Names \in Nat
  BY WalkAssumption
<1>2. IsFiniteSet(1..Names) /\ Cardinality(1..Names) = Names
  <2>1. /\ IsFiniteSet(1..Names)
        /\ Cardinality(1..Names) = IF 1 > Names THEN 0 ELSE Names - 1 + 1
    BY <1>1, FS_Interval
  <2>2. QED
    BY <1>1, <2>1
<1>3. Name \subseteq Nat \ {0} /\ \A n \in Name, i \in Nat : 0 < i /\ i <= n => i \in Name
  BY <1>1 DEF Name
<1>4. Directory \subseteq Name \cup {0} /\ 0 \in Directory
  BY WalkAssumption
<1>5. \A n \in Name : ParentOf[n] \in Directory /\ ParentOf[n] < n
  BY WalkAssumption
<1>6. Failed \in Nat /\ Failed \notin Name \cup {0} /\ \A n \in Name \cup {0} : n < Failed
  BY <1>1 DEF Name, Failed
<1>7. Directory \subseteq Nat
  BY <1>3, <1>4
<1>8. IsFiniteSet(Name) /\ Cardinality(Name) = Names
  BY <1>2 DEF Name
<1>9. QED
  BY <1>1, <1>3, <1>4, <1>5, <1>6, <1>7, <1>8

\* Sets of names and the root.
LEMMA NameSets ==
    ASSUME NEW S, S \subseteq Name \cup {0}
    PROVE  IsFiniteSet(S) /\ S \subseteq Nat /\ Cardinality(S) \in 0..(Names + 1)
                          /\ (S \subseteq Name => Cardinality(S) <= Names)
<1>1. IsFiniteSet(Name \cup {0}) /\ Cardinality(Name \cup {0}) = Names + 1
  <2>1. 0 \notin Name
    BY NameFacts
  <2>2. QED
    BY <2>1, NameFacts, FS_AddElement
<1>2. IsFiniteSet(S) /\ Cardinality(S) <= Names + 1
  BY <1>1, FS_Subset
<1>3. S \subseteq Name => Cardinality(S) <= Names
  BY NameFacts, FS_Subset
<1>4. Cardinality(S) \in Nat
  BY <1>2, FS_CardinalityType
<1>5. QED
  BY <1>2, <1>3, <1>4, NameFacts

\* The directories a name is in.
LEMMA AboveFacts ==
    /\ \A n \in Name : ParentOf[n] \in Above(n) /\ 0 \in Above(n)
    /\ \A n \in Name : Above(n) \subseteq Directory /\ \A d \in Above(n) : d \in Nat /\ d < n
    /\ \A n, m \in Name : \A d \in Above(n) : d < m /\ m < n => d \in Above(m)
    /\ \A n, m \in Name : m \in Above(n) => Above(m) \subseteq Above(n)
    /\ \A n, m \in Name : \A d \in Above(n) : d < m /\ m <= n => d <= ParentOf[m]
<1>1. ASSUME NEW n \in Name, NEW d \in Above(n)
      PROVE  d \in Nat /\ d < n /\ \A m \in Name : d < m /\ m <= n => d <= ParentOf[m]
  <2>1. n \in Nat /\ Name \subseteq Nat
    BY NameFacts
  <2>2. d \in 0..(n - 1) /\ \A m \in (d + 1)..n : d <= ParentOf[m]
    BY <1>1 DEF Above
  <2>3. \A m \in Name : d < m /\ m <= n => m \in (d + 1)..n
    BY <2>1, <2>2
  <2>4. QED
    BY <2>1, <2>2, <2>3
<1>2. ASSUME NEW n \in Name, NEW d \in Nat, d < n, \A m \in Name : d < m /\ m <= n => d <= ParentOf[m]
      PROVE  d \in Above(n)
  <2>1. n \in Nat
    BY NameFacts
  <2>2. \A m \in (d + 1)..n : m \in Name /\ d < m /\ m <= n
    BY <1>2, <2>1, NameFacts
  <2>3. QED
    BY <1>2, <2>1, <2>2 DEF Above
<1>3. ASSUME NEW n \in Name PROVE ParentOf[n] \in Above(n) /\ 0 \in Above(n)
  <2>1. ASSUME NEW m \in Name, ParentOf[n] < m, m <= n PROVE ParentOf[n] <= ParentOf[m]
    <3>1. CASE m = n
      BY <3>1, NameFacts
    <3>2. CASE m < n
      BY <2>1, <3>2, WalkAssumption
    <3>3. QED
      BY <2>1, <3>1, <3>2, NameFacts
  <2>2. ParentOf[n] \in Above(n)
    BY <1>2, <2>1, NameFacts
  <2>3. \A m \in Name : 0 <= ParentOf[m]
    BY NameFacts
  <2>4. QED
    BY <1>2, <2>2, <2>3, NameFacts
<1>4. ASSUME NEW n \in Name, NEW d \in Above(n) PROVE d \in Directory
  <2>1. d \in Nat /\ d < n /\ n \in Nat
    BY <1>1, NameFacts
  <2>2. d + 1 \in Name /\ d < d + 1 /\ d + 1 <= n
    BY <2>1, NameFacts
  <2>3. d <= ParentOf[d + 1] /\ ParentOf[d + 1] < d + 1 /\ ParentOf[d + 1] \in Nat /\ ParentOf[d + 1] \in Directory
    BY <1>1, <2>2, NameFacts
  <2>4. QED
    BY <2>1, <2>3
<1>5. ASSUME NEW n \in Name, NEW m \in Name, NEW d \in Above(n), d < m, m < n PROVE d \in Above(m)
  <2>1. \A k \in Name : d < k /\ k <= m => d <= ParentOf[k]
    BY <1>1, <1>5, NameFacts
  <2>2. QED
    BY <1>1, <1>2, <1>5, <2>1
<1>6. ASSUME NEW n \in Name, NEW m \in Name, m \in Above(n), NEW d \in Above(m) PROVE d \in Above(n)
  <2>1. /\ d \in Nat /\ d < m /\ m < n /\ m \in Nat /\ n \in Nat
        /\ \A k \in Name : d < k /\ k <= m => d <= ParentOf[k]
        /\ \A k \in Name : m < k /\ k <= n => m <= ParentOf[k]
    BY <1>1, <1>6, NameFacts
  <2>2. ASSUME NEW k \in Name, d < k, k <= n PROVE d <= ParentOf[k]
    BY <2>1, <2>2, NameFacts
  <2>3. QED
    BY <1>2, <2>1, <2>2
<1>7. QED
  BY <1>1, <1>3, <1>4, <1>5, <1>6

\* On the way down from a directory to a name in it there is one of its entries.
LEMMA WayDown ==
    ASSUME NEW n \in Name, NEW d \in Above(n)
    PROVE  \E x \in Name : x \in {n} \cup Above(n) /\ d < x /\ ParentOf[x] = d
<1> DEFINE S == {x \in {n} \cup Above(n) : d < x}
<1>1. d \in Nat /\ d < n /\ Above(n) \subseteq Directory
  BY AboveFacts
<1>2. S \subseteq Nat /\ IsFiniteSet(S) /\ S # {}
  <2>1. S \subseteq Name \cup {0} /\ n \in S
    BY <1>1, NameFacts
  <2>2. QED
    BY <2>1, NameSets
<1>3. PICK x \in S : \A k \in S : x <= k
  BY <1>2, Extremes
<1>4. x \in Name /\ x \in {n} \cup Above(n) /\ d < x /\ x \in Nat /\ x <= n /\ n \in Nat
  <2>1. x \in {n} \cup Above(n) /\ d < x
    BY <1>3
  <2>2. x \in Name \cup {0} /\ x <= n /\ n \in Nat
    BY <2>1, AboveFacts, NameFacts
  <2>3. QED
    BY <1>1, <2>1, <2>2, NameFacts
<1>5. ParentOf[x] \in Nat /\ d <= ParentOf[x] /\ ParentOf[x] < x
  BY <1>4, AboveFacts, NameFacts
<1>6. ParentOf[x] \in {n} \cup Above(n)
  <2>1. ParentOf[x] \in Above(x)
    BY <1>4, AboveFacts
  <2>2. QED
    BY <1>4, <2>1, AboveFacts
<1>7. ~(d < ParentOf[x])
  <2>1. SUFFICES ASSUME d < ParentOf[x] PROVE FALSE
    OBVIOUS
  <2>2. ParentOf[x] \in S
    BY <1>6, <2>1
  <2>3. x <= ParentOf[x]
    BY <1>3, <2>2
  <2>4. QED
    BY <1>4, <1>5, <2>3
<1>8. QED
  BY <1>1, <1>4, <1>5, <1>7

\* What is in a directory comes before what comes after the directory.
LEMMA WithinFirst ==
    ASSUME NEW x \in Name, NEW s \in Name, ParentOf[x] < s, ParentOf[s] < ParentOf[x]
    PROVE  x < s
<1>1. x \in Nat /\ s \in Nat /\ ParentOf[x] \in Nat /\ ParentOf[s] \in Nat
  BY NameFacts
<1>2. x # s
  BY <1>1
<1>3. ~(s < x)
  <2>1. s < x => ParentOf[x] <= ParentOf[s]
    BY WalkAssumption
  <2>2. QED
    BY <1>1, <2>1
<1>4. QED
  BY <1>1, <1>2, <1>3

\* A set of names that has the directory of each has all directories it is in.
LEMMA ClosedUp ==
    ASSUME NEW S \in SUBSET Name, \A n \in S : ParentOf[n] \in S \cup {0}, NEW n \in S
    PROVE  Above(n) \ {0} \subseteq S
<1> DEFINE M == (Above(n) \ {0}) \ S
<1>1. SUFFICES ASSUME M # {} PROVE FALSE
  OBVIOUS
<1>2. M \subseteq Nat /\ IsFiniteSet(M)
  <2>1. M \subseteq Name \cup {0}
    BY AboveFacts, NameFacts
  <2>2. QED
    BY <2>1, NameSets
<1>3. Max(M) \in M /\ \A k \in M : k <= Max(M)
  BY <1>1, <1>2, Extremes
<1>4. PICK x \in Name : x \in {n} \cup Above(n) /\ Max(M) < x /\ ParentOf[x] = Max(M)
  BY <1>3, WayDown
<1>5. x \notin M
  <2>1. Max(M) \in Nat /\ x \in Nat
    BY <1>2, <1>3, NameFacts
  <2>2. QED
    BY <1>3, <1>4, <2>1
<1>6. x \in S
  BY <1>4, <1>5, NameFacts
<1>7. QED
  BY <1>3, <1>4, <1>6

-----------------------------------------------------------------------------
(* Sequences of numbers that rise.                                         *)

Rising(s) == \A i, j \in DOMAIN s : i < j => s[i] < s[j]
AllBefore(R, S) == \A x \in R, y \in S : x < y
RisesThrough(T, s, S) == s \in Seq(T) /\ Rising(s) /\ ToSet(s) = S

\* Names in order.
LEMMA NamesInOrder ==
    ASSUME NEW S, S \subseteq Name
    PROVE  /\ InOrder(S) \in Seq(Name) /\ Rising(InOrder(S)) /\ ToSet(InOrder(S)) = S
           /\ Len(InOrder(S)) \in Nat /\ Len(InOrder(S)) = Cardinality(S)
<1> DEFINE w == InOrder(S)
<1>1. S \subseteq Nat /\ IsFiniteSet(S)
  <2>1. S \subseteq Name \cup {0}
    OBVIOUS
  <2>2. QED
    BY <2>1, NameSets
<1>2. /\ w \in Seq(S) /\ \A i, j \in DOMAIN w : i < j => w[i] < w[j]
      /\ \A k \in S : \E i \in DOMAIN w : w[i] = k
      /\ Len(w) = Cardinality(S)
  BY <1>1, Order
<1> HIDE DEF w
<1>3. \A i \in DOMAIN w : w[i] \in S
  BY <1>2, LenProperties, ElementOfSeq
<1>4. ToSet(w) = S
  BY <1>2, <1>3 DEF ToSet
<1>5. w \in Seq(Name)
  BY <1>2, SeqMonotonic
<1>6. QED
  BY <1>2, <1>4, <1>5, LenProperties DEF w, Rising

\* One rising sequence behind another.
LEMMA Joined ==
    ASSUME NEW T, NEW s, NEW w, NEW R, NEW S,
           RisesThrough(T, s, R), RisesThrough(T, w, S), AllBefore(R, S)
    PROVE  RisesThrough(T, s \o w, R \cup S)
<1> DEFINE u == s \o w
<1>0. s \in Seq(T) /\ w \in Seq(T) /\ Rising(s) /\ Rising(w) /\ ToSet(s) = R /\ ToSet(w) = S
  BY DEF RisesThrough
<1>1. /\ Grows(s, u, {w[i] : i \in DOMAIN w}) /\ u \in Seq(T)
      /\ (\A i, j \in DOMAIN w : i < j => w[i] < w[j]) => Rises(s, u)
  BY <1>0, Longer
<1> HIDE DEF u
<1>2. Grows(s, u, ToSet(w)) /\ Rises(s, u)
  BY <1>0, <1>1 DEF Rising, ToSet
<1>3. ToSet(u) = ToSet(s) \cup ToSet(w)
  <2>1. \A i \in DOMAIN u : u[i] \in ToSet(s) \cup ToSet(w)
    BY <1>2 DEF ToSet, Grows
  <2>2. \A i \in DOMAIN s : s[i] \in ToSet(u)
    BY <1>2 DEF ToSet, Grows
  <2>3. \A x \in ToSet(w) : x \in ToSet(u)
    <3>1. \A x \in ToSet(w) : \E i \in DOMAIN u : u[i] = x
      BY <1>2, Zenon DEF Grows
    <3>2. QED
      BY <3>1, Zenon DEF ToSet
  <2>4. \A x \in ToSet(u) : \E i \in DOMAIN u : x = u[i]
    BY DEF ToSet
  <2>5. \A x \in ToSet(s) : \E i \in DOMAIN s : x = s[i]
    BY DEF ToSet
  <2> QED
    BY <2>1, <2>2, <2>3, <2>4, <2>5
<1>4. ASSUME NEW i \in DOMAIN u, NEW j \in DOMAIN u, i < j PROVE u[i] < u[j]
  <2>1. CASE i \notin DOMAIN s
    BY <1>2, <1>4, <2>1 DEF Rises
  <2>2. CASE i \in DOMAIN s /\ j \in DOMAIN s
    BY <1>0, <1>2, <1>4, <2>2 DEF Grows, Rising
  <2>3. CASE i \in DOMAIN s /\ j \notin DOMAIN s
    <3>1. u[i] = s[i] /\ s[i] \in ToSet(s) /\ u[j] \in ToSet(w)
      BY <1>2, <2>3 DEF Grows, ToSet
    <3>2. QED
      BY <1>0, <3>1 DEF AllBefore
  <2>4. QED
    BY <2>1, <2>2, <2>3
<1>5. QED
  BY <1>0, <1>1, <1>3, <1>4 DEF u, Rising, RisesThrough

\* One more behind a rising sequence.
LEMMA OneJoined ==
    ASSUME NEW T, NEW s, NEW S, RisesThrough(T, s, S), NEW x \in T, AllBefore(S, {x})
    PROVE  RisesThrough(T, Append(s, x), S \cup {x})
<1> DEFINE w == <<x>>
<1>1. w \in Seq(T) /\ DOMAIN w = {1} /\ w[1] = x
  OBVIOUS
<1>2. Append(s, x) = s \o w
  BY DEF RisesThrough
<1> HIDE DEF w
<1>3. RisesThrough(T, w, {x})
  BY <1>1 DEF Rising, ToSet, RisesThrough
<1>4. RisesThrough(T, s \o w, S \cup {x})
  BY <1>3, Joined
<1>5. QED
  BY <1>2, <1>4

\* The last of a rising sequence, and the others.
LEMMA LastOf ==
    ASSUME NEW T, T \subseteq Nat, NEW s \in Seq(T), Rising(s), s # <<>>
    PROVE  LET last == s[Len(s)]
               front == SubSeq(s, 1, Len(s) - 1)
           IN /\ last \in ToSet(s) /\ last \in T /\ \A x \in ToSet(s) : x <= last
              /\ front \in Seq(T) /\ Rising(front) /\ ToSet(front) = ToSet(s) \ {last}
              /\ front = <<>> <=> Len(s) = 1
<1> DEFINE n == Len(s)
           front == SubSeq(s, 1, n - 1)
<1>1. n \in Nat /\ n # 0 /\ DOMAIN s = 1..n /\ \A i \in 1..n : s[i] \in T /\ s[i] \in Nat
  <2>1. n \in Nat /\ DOMAIN s = 1..n /\ \A i \in 1..n : s[i] \in T
    BY LenProperties, ElementOfSeq
  <2>2. n # 0
    BY EmptySeq
  <2>3. QED
    BY <2>1, <2>2
<1>2. /\ front \in Seq(T) /\ Len(front) = n - 1 /\ \A i \in 1..(n - 1) : front[i] = s[i]
  <2>1. 1 \in 1..(n + 1) /\ n - 1 \in 0..n
    BY <1>1
  <2> HIDE DEF n
  <2>2. \A i \in 1..(n - 1) : i \in 1..n
    BY <1>1
  <2>3. QED
    BY <1>1, <2>1, <2>2
<1>3. DOMAIN front = 1..(n - 1)
  <2> HIDE DEF front
  <2>1. DOMAIN front = 1..Len(front)
    BY <1>2, LenProperties
  <2>2. QED
    BY <1>2, <2>1
<1> HIDE DEF front, n
<1>4. \A i \in 1..(n - 1) : i \in 1..n /\ i < n
  BY <1>1
<1>5. n \in 1..n /\ \A i \in 1..n : i = n \/ (i \in 1..(n - 1) /\ s[i] < s[n])
  BY <1>1 DEF Rising
<1>6. s[n] \in ToSet(s) /\ \A x \in ToSet(s) : x <= s[n]
  BY <1>1, <1>5 DEF ToSet
<1>7. Rising(front)
  BY <1>1, <1>2, <1>3, <1>4 DEF Rising
<1>8. ToSet(front) = ToSet(s) \ {s[n]}
  <2>1. \A x \in ToSet(front) : \E i \in 1..(n - 1) : x = s[i]
    BY <1>2, <1>3 DEF ToSet
  <2>2. ToSet(front) \subseteq ToSet(s) \ {s[n]}
    <3>1. \A i \in 1..(n - 1) : s[i] \in ToSet(s) /\ s[i] # s[n]
      BY <1>1, <1>4, <1>5 DEF Rising, ToSet
    <3>2. QED
      BY <2>1, <3>1
  <2>3. \A i \in 1..n : s[i] # s[n] => s[i] \in ToSet(front)
    BY <1>2, <1>3, <1>5 DEF ToSet
  <2>4. QED
    BY <1>1, <2>2, <2>3 DEF ToSet
<1>9. front = <<>> <=> n = 1
  <2>1. front = <<>> <=> Len(front) = 0
    BY <1>2, EmptySeq
  <2>2. QED
    BY <1>1, <1>2, <2>1
<1>10. QED
  BY <1>1, <1>2, <1>5, <1>6, <1>7, <1>8, <1>9 DEF n, front

\* What is left of a rising sequence.
LEMMA LeftOf ==
    ASSUME NEW T, T \subseteq Nat, NEW s \in Seq(T), Rising(s), NEW p \in Nat
    PROVE  /\ From(s, 1) = ToSet(s) /\ From(s, p) \subseteq ToSet(s) /\ ToSet(s) \subseteq T
           /\ p > Len(s) => From(s, p) = {}
           /\ p \in DOMAIN s => /\ s[p] \in From(s, p) /\ From(s, p + 1) = From(s, p) \ {s[p]}
                                /\ \A x \in From(s, p) : s[p] <= x
                                /\ \A x \in From(s, p + 1) : s[p] < x
<1>1. DOMAIN s = 1..Len(s) /\ Len(s) \in Nat /\ \A i \in DOMAIN s : s[i] \in T /\ s[i] \in Nat /\ i \in Nat /\ i >= 1
  <2>1. DOMAIN s = 1..Len(s) /\ Len(s) \in Nat /\ \A i \in DOMAIN s : s[i] \in T
    BY LenProperties, ElementOfSeq
  <2>2. \A x \in T : x \in Nat
    OBVIOUS
  <2>3. \A i \in 1..Len(s) : s[i] \in T
    BY <2>1
  <2>4. \A i \in 1..Len(s) : s[i] \in Nat
    BY <2>2, <2>3
  <2>5. \A i \in 1..Len(s) : i \in Nat /\ i >= 1
    BY <2>1
  <2>6. QED
    BY <2>1, <2>4, <2>5
<1>2. From(s, 1) = ToSet(s) /\ From(s, p) \subseteq ToSet(s) /\ ToSet(s) \subseteq T
  BY <1>1 DEF From, ToSet
<1>3. p > Len(s) => From(s, p) = {}
  BY <1>1 DEF From
<1>4. ASSUME p \in DOMAIN s
      PROVE  /\ s[p] \in From(s, p) /\ From(s, p + 1) = From(s, p) \ {s[p]}
             /\ \A x \in From(s, p) : s[p] <= x
             /\ \A x \in From(s, p + 1) : s[p] < x
  <2>1. \A i \in DOMAIN s : i >= p => i = p \/ (i >= p + 1 /\ s[p] < s[i])
    BY <1>1, <1>4 DEF Rising
  <2>2. \A i \in DOMAIN s : i >= p + 1 => i >= p /\ s[i] # s[p] /\ s[p] < s[i]
    BY <1>1, <1>4 DEF Rising
  <2>3. s[p] \in From(s, p)
    BY <1>1, <1>4 DEF From
  <2>4. \A x \in From(s, p) : x = s[p] \/ (x \in From(s, p + 1) /\ s[p] < x)
    BY <2>1 DEF From
  <2>5. \A x \in From(s, p + 1) : x \in From(s, p) /\ x # s[p] /\ s[p] < x
    BY <2>2 DEF From
  <2>6. ASSUME NEW x \in From(s, p) PROVE s[p] <= x
    <3>1. x \in Nat /\ s[p] \in Nat
      BY <1>1, <1>2, <1>4
    <3>2. x = s[p] \/ s[p] < x
      BY <2>4
    <3>3. QED
      BY <3>1, <3>2
  <2>7. QED
    BY <2>3, <2>4, <2>5, <2>6
<1>5. QED
  BY <1>2, <1>3, <1>4

\* A rising sequence of names and the root is no longer than there are such.
LEMMA NoLonger ==
    ASSUME NEW s \in Seq(Name \cup {0}), Rising(s)
    PROVE  Len(s) \in 0..(Names + 1) /\ DOMAIN s = 1..Len(s)
<1> DEFINE T == Name \cup {0}
           n == Len(s)
<1>1. DOMAIN s = 1..n /\ n \in Nat /\ \A i \in 1..n : s[i] \in T /\ s[i] \in Nat
  <2>1. DOMAIN s = 1..Len(s) /\ Len(s) \in Nat /\ \A i \in DOMAIN s : s[i] \in T
    BY LenProperties, ElementOfSeq
  <2>2. QED
    BY <2>1, NameFacts
<1>2. IsFiniteSet(T) /\ Cardinality(T) \in 0..(Names + 1)
  BY NameSets
<1> HIDE DEF T, n
<1>3. s \in Injection(1..n, T)
  <2>1. s \in [1..n -> T]
    <3>1. s = [i \in DOMAIN s |-> s[i]]
      BY DEF T
    <3>2. QED
      BY <1>1, <3>1
  <2>2. \A i, j \in 1..n : i # j => s[i] # s[j]
    <3>1. \A i, j \in 1..n : i < j => s[i] # s[j]
      BY <1>1 DEF Rising
    <3>2. QED
      BY <1>1, <3>1
  <2>3. QED
    BY <2>1, <2>2 DEF Injection, IsInjective
<1>4. Cardinality(1..n) <= Cardinality(T)
  BY <1>2, <1>3, FS_Injection
<1>5. Cardinality(1..n) = n
  <2>1. Cardinality(1..n) = IF 1 > n THEN 0 ELSE n - 1 + 1
    BY <1>1, FS_Interval
  <2>2. QED
    BY <1>1, <2>1
<1>6. QED
  BY <1>1, <1>2, <1>4, <1>5, NameFacts DEF n

-----------------------------------------------------------------------------
(* The state of a walk.                                                    *)

\* Where a helper goes on.
LEMMA NextListed ==
    ASSUME NEW d, NEW list \in Seq(Name \cup {0}), NEW i \in Nat
    PROVE  LET j == NextToList(d, list, i) IN j = 0 \/ (j \in DOMAIN list /\ ToList(d, list[j]))
<1> DEFINE mine == {j \in DOMAIN list : j >= i /\ (j - i) % Concurrent = 0}
           ends == {j \in mine : Ended(list[j])}
           todo == {j \in mine : ToList(d, list[j]) /\ \A l \in ends : j < l}
<1>1. NextToList(d, list, i) = IF todo = {} THEN 0 ELSE Min(todo)
  BY DEF NextToList
<1>2. \A j \in todo : j \in DOMAIN list /\ ToList(d, list[j])
  OBVIOUS
<1>3. DOMAIN list = 1..Len(list) /\ Len(list) \in Nat
  BY LenProperties
<1>4. todo \subseteq Nat /\ IsFiniteSet(todo)
  <2>1. todo \subseteq 1..Len(list)
    BY <1>2, <1>3
  <2> HIDE DEF todo
  <2>2. IsFiniteSet(1..Len(list)) /\ 1..Len(list) \subseteq Nat
    BY <1>3, FS_Interval
  <2>3. QED
    BY <2>1, <2>2, FS_Subset
<1> HIDE DEF todo
<1>5. ASSUME todo # {} PROVE Min(todo) \in todo
  <2>1. \E m \in todo : \A k \in todo : m <= k
    BY <1>4, <1>5, Extremes
  <2>2. QED
    BY <2>1, Zenon DEF Min
<1>6. QED
  BY <1>1, <1>2, <1>5

\* A helper that goes on, or leaves, is right.
LEMMA GoesOnFacts ==
    ASSUME NEW d, NEW list \in Seq(Name \cup {0}), Rising(list), GoodEntries(d, list), NEW i \in Nat, NEW K
    PROVE  GoesOn(d, list, i) \in HelperState /\ GoodHelper(GoesOn(d, list, i), list, K)
<1> DEFINE j == NextToList(d, list, i)
<1>1. j = 0 \/ (j \in DOMAIN list /\ ToList(d, list[j]))
  BY NextListed
<1>2. \A k \in DOMAIN list : k \in 1..(Names + 1)
  BY NoLonger, NameFacts
<1>3. NoHelper \in HelperState /\ <<>> \in Seq(Name)
  BY NameFacts DEF NoHelper, HelperState
<1>4. GoesOn(d, list, i) = IF j = 0 THEN [NoHelper EXCEPT !.pc = "gone"]
                           ELSE [NoHelper EXCEPT !.pc = "list", !.at = j]
  BY DEF GoesOn
<1> HIDE DEF j
<1>5. CASE j = 0
  <2>1. GoesOn(d, list, i) = [at |-> 1, pc |-> "gone", batch |-> <<>>, more |-> FALSE, err |-> FALSE]
    BY <1>4, <1>5 DEF NoHelper
  <2>2. QED
    BY <1>3, <2>1, NameFacts DEF HelperState, GoodHelper
<1>6. CASE j # 0
  <2>1. GoesOn(d, list, i) = [at |-> j, pc |-> "list", batch |-> <<>>, more |-> FALSE, err |-> FALSE]
    BY <1>4, <1>6 DEF NoHelper
  <2>2. GoesOn(d, list, i) \in HelperState
    BY <1>1, <1>2, <1>3, <1>6, <2>1 DEF HelperState
  <2>3. list[j] \in Directory \ {0}
    BY <1>1, <1>6 DEF ToList, GoodEntries
  <2>4. GoodHelper(GoesOn(d, list, i), list, K)
    BY <1>1, <1>6, <2>1, <2>3 DEF GoodHelper
  <2>5. QED
    BY <2>2, <2>4
<1>7. QED
  BY <1>5, <1>6

\* The helpers of a directory that is entered.
LEMMA StartedFacts ==
    ASSUME NEW d, NEW list \in Seq(Name \cup {0}), Rising(list), GoodEntries(d, list), NEW K
    PROVE  /\ Started(d, list) \in [Helper -> HelperState]
           /\ \A c \in Helper : GoodHelper(Started(d, list)[c], list, K)
<1>1. ASSUME NEW c \in Helper
      PROVE  GoesOn(d, list, c + 1) \in HelperState /\ GoodHelper(GoesOn(d, list, c + 1), list, K)
  <2>1. c + 1 \in Nat
    BY WalkAssumption DEF Helper
  <2>2. QED
    BY <2>1, GoesOnFacts
<1>2. QED
  BY <1>1 DEF Started

\* A helper that lists goes on with less to be there.
LEMMA GoodStays ==
    ASSUME NEW h, NEW list, NEW K, NEW K2 \in SUBSET K, GoodHelper(h, list, K)
    PROVE  GoodHelper(h, list, K2)
BY DEF GoodHelper, GoodBatch

\* What the values of a walk are.
LEMMA WalkFacts ==
    ASSUME WalkInv
    PROVE  /\ \A d \in Directory :
                 /\ entries[d] \in Seq(Name \cup {0}) /\ Rising(entries[d]) /\ GoodEntries(d, entries[d])
                 /\ DOMAIN entries[d] = 1..Len(entries[d]) /\ Len(entries[d]) \in 0..(Names + 1)
                 /\ pos[d] \in Nat \ {0}
                 /\ \A x \in ToSet(entries[d]) : /\ x \in Name \cup {0} /\ x \in Nat
                                                 /\ x = 0 => d = 0
                                                 /\ x # 0 => x \in Name /\ ParentOf[x] = d
                 /\ Waiting(d) \subseteq ToSet(entries[d])
                 /\ \A c \in Helper : helper[d][c] \in HelperState /\ GoodHelper(helper[d][c], entries[d], kept)
           /\ wcall.list \in TreeLists /\ wcall.start \in Name \cup {0} /\ wcall.end \in Name \cup {0}
           /\ wcall.start \in Nat /\ wcall.end \in Nat
           /\ ToSet(stack) \subseteq Directory /\ Rising(stack) /\ stack \in Seq(Directory)
           /\ kept \subseteq Name /\ kept \subseteq tree /\ tree \subseteq Name
           /\ walked \in Seq(Name \cup {0, Failed}) /\ Rising(walked) /\ ToSet(walked) \subseteq Nat
           /\ DOMAIN helper = Directory
           /\ helper \in [Directory -> [Helper -> HelperState]] /\ entries \in [Directory -> Seq(Name \cup {0})]
           /\ pos \in [Directory -> 1..(Names + 2)]
<1>1. ASSUME NEW d \in Directory
      PROVE  /\ entries[d] \in Seq(Name \cup {0}) /\ Rising(entries[d]) /\ GoodEntries(d, entries[d])
             /\ DOMAIN entries[d] = 1..Len(entries[d]) /\ Len(entries[d]) \in 0..(Names + 1)
             /\ pos[d] \in Nat \ {0}
             /\ \A c \in Helper : helper[d][c] \in HelperState /\ GoodHelper(helper[d][c], entries[d], kept)
  <2>1. entries[d] \in Seq(Name \cup {0}) /\ pos[d] \in 1..(Names + 2) /\ \A c \in Helper : helper[d][c] \in HelperState
    BY DEF WalkInv, WalkTypeOK
  <2>2. Rising(entries[d]) /\ GoodEntries(d, entries[d])
    BY DEF WalkInv, EntriesInv, GoodEntries, Rising
  <2>3. pos[d] \in Nat \ {0}
    BY <2>1, NameFacts
  <2>4. \A c \in Helper : GoodHelper(helper[d][c], entries[d], kept)
    BY DEF WalkInv, HelperInv
  <2>5. QED
    BY <2>1, <2>2, <2>3, <2>4, NoLonger
<1>2. ASSUME NEW d \in Directory
      PROVE  /\ \A x \in ToSet(entries[d]) : /\ x \in Name \cup {0} /\ x \in Nat
                                             /\ x = 0 => d = 0
                                             /\ x # 0 => x \in Name /\ ParentOf[x] = d
             /\ Waiting(d) \subseteq ToSet(entries[d])
  <2> DEFINE list == entries[d]
  <2>1. list \in Seq(Name \cup {0}) /\ GoodEntries(d, list)
    BY <1>1
  <2>2. Waiting(d) \subseteq ToSet(list)
    BY DEF Waiting, From, ToSet
  <2> HIDE DEF list
  <2>3. \A x \in ToSet(list) : \E q \in DOMAIN list : x = list[q]
    BY DEF ToSet
  <2>4. \A q \in DOMAIN list : list[q] \in Name \cup {0} /\ list[q] \in Nat
    <3>1. \A q \in DOMAIN list : list[q] \in Name \cup {0}
      BY <2>1, LenProperties, ElementOfSeq
    <3>2. QED
      BY <3>1, NameFacts
  <2>5. QED
    BY <2>1, <2>2, <2>3, <2>4 DEF GoodEntries, list
<1>3. wcall \in [list : TreeLists, start : Name \cup {0}, end : Name \cup {0}]
  BY WalkAssumption DEF WalkInv
<1>4. wcall.list \in TreeLists /\ wcall.start \in Name \cup {0} /\ wcall.end \in Name \cup {0}
  BY <1>3
<1>5. wcall.start \in Nat /\ wcall.end \in Nat
  BY <1>4, NameFacts
<1>6. stack \in Seq(Directory) /\ ToSet(stack) \subseteq Directory /\ Rising(stack)
  <2>1. stack \in Seq(Directory)
    BY DEF WalkInv, WalkTypeOK
  <2>2. \A i \in DOMAIN stack : stack[i] \in Directory
    BY <2>1, LenProperties, ElementOfSeq
  <2>3. QED
    BY <2>1, <2>2 DEF WalkInv, StackInv, Rising, ToSet
<1>7. walked \in Seq(Name \cup {0, Failed}) /\ Rising(walked) /\ ToSet(walked) \subseteq Nat
  <2>1. walked \in Seq(Name \cup {0, Failed})
    BY DEF WalkInv, WalkTypeOK
  <2>2. \A i \in DOMAIN walked : walked[i] \in Name \cup {0, Failed}
    BY <2>1, LenProperties, ElementOfSeq
  <2>3. \A i \in DOMAIN walked : walked[i] \in Nat
    BY <2>2, NameFacts
  <2>4. QED
    BY <2>1, <2>3 DEF WalkInv, WalkedInv, Rising, ToSet
<1>8. kept \subseteq Name /\ kept \subseteq tree /\ tree \subseteq Name
  BY DEF WalkInv, WalkTypeOK
<1>9. /\ helper \in [Directory -> [Helper -> HelperState]] /\ entries \in [Directory -> Seq(Name \cup {0})]
      /\ pos \in [Directory -> 1..(Names + 2)] /\ DOMAIN helper = Directory
  BY DEF WalkInv, WalkTypeOK
<1>10. QED
  BY <1>1, <1>2, <1>4, <1>5, <1>6, <1>7, <1>8, <1>9

\* The directory that is walked, and those it is in.
LEMMA TopFacts ==
    ASSUME WalkInv, stack # <<>>
    PROVE  /\ Top \in ToSet(stack) /\ Top \in Directory /\ \A d \in ToSet(stack) : d \in Nat /\ d <= Top
           /\ LET front == SubSeq(stack, 1, Len(stack) - 1) IN
                 /\ front \in Seq(Directory) /\ Rising(front) /\ ToSet(front) = ToSet(stack) \ {Top}
                 /\ front = <<>> <=> Len(stack) = 1
<1>1. stack \in Seq(Directory) /\ Rising(stack) /\ ToSet(stack) \subseteq Directory /\ Directory \subseteq Nat
  BY WalkFacts, NameFacts
<1>2. QED
  BY <1>1, LastOf DEF Top

\* The entry the walk is at.
LEMMA HereFacts ==
    ASSUME WalkInv, AtEntry
    PROVE  /\ pos[Top] \in DOMAIN entries[Top] /\ Here \in Waiting(Top) /\ Mine \in Helper
           /\ Here \in Name \cup {0} /\ Here \in Nat
           /\ Here = 0 => Top = 0
           /\ Here # 0 => Here \in Name /\ ParentOf[Here] = Top /\ Top < Here
           /\ Top <= Here /\ Top \in Nat
           /\ From(entries[Top], pos[Top] + 1) = Waiting(Top) \ {Here}
           /\ \A x \in Waiting(Top) : x # Here => Here < x
           /\ \A d \in ToSet(stack) : d < Top => \A x \in Waiting(d) : Here < x
           /\ \A y \in ToSet(walked) : y < Here
           /\ \A e \in Directory : pos[e] # 1 => e < Here
<1> DEFINE list == entries[Top]
           p == pos[Top]
<1>1. wpc = "walk" /\ stack # <<>> /\ p <= Len(list)
  BY DEF AtEntry
<1>2. Top \in ToSet(stack) /\ Top \in Directory /\ Top \in Nat
  BY <1>1, TopFacts
<1>3. /\ list \in Seq(Name \cup {0}) /\ Rising(list) /\ DOMAIN list = 1..Len(list) /\ Len(list) \in Nat
      /\ p \in Nat \ {0} /\ Name \cup {0} \subseteq Nat
  BY <1>2, WalkFacts, NameFacts
<1>4. Waiting(Top) = From(list, p) /\ Here = list[p]
  BY DEF Waiting, Here
<1> HIDE DEF list, p
<1>5. p \in DOMAIN list
  BY <1>1, <1>3
<1>6. /\ Here \in Waiting(Top) /\ From(list, p + 1) = Waiting(Top) \ {Here}
      /\ \A x \in Waiting(Top) : x # Here => Here < x
  <2>1. /\ list[p] \in From(list, p) /\ From(list, p + 1) = From(list, p) \ {list[p]}
        /\ \A x \in From(list, p + 1) : list[p] < x
    BY <1>3, <1>5, LeftOf
  <2>2. QED
    BY <1>4, <2>1
<1>7. Here \in ToSet(list)
  BY <1>2, <1>6, WalkFacts DEF list
<1>8. /\ Here \in Name \cup {0} /\ Here \in Nat
      /\ Here = 0 => Top = 0
      /\ Here # 0 => Here \in Name /\ ParentOf[Here] = Top
  BY <1>2, <1>7, WalkFacts DEF list
<1>9. Here # 0 => Top < Here
  BY <1>8, NameFacts
<1>10. Top <= Here
  BY <1>2, <1>8, <1>9
<1>11. Mine \in Helper
  <2>1. p - 1 \in Nat /\ Concurrent \in Nat \ {0}
    BY <1>3, WalkAssumption
  <2>2. (p - 1) % Concurrent \in 0..(Concurrent - 1)
    BY <2>1, Division
  <2>3. QED
    BY <2>2 DEF Mine, Helper, p
<1>12. /\ \A d \in ToSet(stack) : d < Top => \A x \in Waiting(d) : Here < x
       /\ \A y \in ToSet(walked) : y < Here
       /\ \A e \in Directory : pos[e] # 1 => e < Here
  BY <1>2, <1>6, <1>7 DEF WalkInv, StackInv, list
<1>13. QED
  BY <1>2, <1>5, <1>6, <1>8, <1>9, <1>10, <1>11, <1>12 DEF list, p

\* What is sent with an entry.
LEMMA SentFacts ==
    ASSUME WalkInv, AtEntry, ~Ended(Here)
    PROVE  /\ Sends(Here) \in Seq(Name \cup {0, Failed}) /\ Rising(Sends(Here))
           /\ ToSet(walked) \subseteq ToSet(Sends(Here)) /\ ToSet(Sends(Here)) \subseteq ToSet(walked) \cup {Here}
           /\ Here > wcall.start => Here \in ToSet(Sends(Here))
           /\ \A x \in ToSet(Sends(Here)) : /\ x \in Nat /\ x # Failed /\ x < Failed
                                            /\ x >= wcall.start /\ ~Ended(x)
<1>1. /\ walked \in Seq(Name \cup {0, Failed}) /\ Rising(walked) /\ ToSet(walked) \subseteq Nat
      /\ wcall.start \in Nat
  BY WalkFacts
<1>2. Name \cup {0, Failed} \subseteq Nat /\ Here \in Name \cup {0, Failed} /\ Here \in Nat
      /\ Here # Failed /\ Here < Failed
  BY HereFacts, NameFacts
<1>3. \A y \in ToSet(walked) : y < Here
  BY HereFacts
<1>4. \A x \in ToSet(walked) : x \in Nat /\ x # Failed /\ x < Failed /\ x >= wcall.start /\ ~Ended(x)
  <2>1. \A x \in ToSet(walked) : x # Failed /\ x >= wcall.start /\ ~Ended(x)
    BY DEF WalkInv, WalkedInv, AtEntry
  <2>2. \A x \in ToSet(walked) : x \in Nat /\ x < Failed
    BY <1>1, <1>2, <1>3, NameFacts
  <2>3. QED
    BY <2>1, <2>2
<1>5. CASE Here >= wcall.start
  <2>1. Sends(Here) = Append(walked, Here)
    BY <1>5 DEF Sends
  <2>2. /\ Append(walked, Here) \in Seq(Name \cup {0, Failed}) /\ Rising(Append(walked, Here))
        /\ ToSet(Append(walked, Here)) = ToSet(walked) \cup {Here}
    <3> DEFINE T == Name \cup {0, Failed}
    <3>1. AllBefore(ToSet(walked), {Here}) /\ RisesThrough(T, walked, ToSet(walked)) /\ Here \in T
      BY <1>1, <1>2, <1>3 DEF AllBefore, RisesThrough
    <3> HIDE DEF T
    <3>2. RisesThrough(T, Append(walked, Here), ToSet(walked) \cup {Here})
      BY <3>1, OneJoined
    <3>3. QED
      BY <3>2 DEF RisesThrough, T
  <2>3. QED
    BY <1>2, <1>4, <1>5, <2>1, <2>2
<1>6. CASE ~(Here >= wcall.start)
  <2>1. Sends(Here) = walked /\ ~(Here > wcall.start)
    BY <1>1, <1>2, <1>6 DEF Sends
  <2>2. QED
    BY <1>1, <1>4, <2>1
<1>7. QED
  BY <1>5, <1>6

-----------------------------------------------------------------------------
(* Every step of a walk.                                                   *)

\* The walk goes on to the next entry.
LEMMA Advance ==
    ASSUME WalkInv, AtEntry, pos' = [pos EXCEPT ![Top] = @ + 1],
           \A d \in ToSet(stack) : entries'[d] = entries[d]
    PROVE  /\ \A d \in ToSet(stack) : /\ Waiting(d)' \subseteq Waiting(d)
                                      /\ d # Top => Waiting(d)' = Waiting(d)
                                      /\ \A x \in Waiting(d)' : Here < x
           /\ \A x \in Waiting(Top) : x = Here \/ \E d \in ToSet(stack) : x \in Waiting(d)'
           /\ pos' \in [Directory -> 1..(Names + 2)]
           /\ \A e \in Directory : e # Top => pos'[e] = pos[e]
           /\ \A e \in Directory : pos'[e] # 1 => e <= Here
<1>1. wpc = "walk" /\ stack # <<>>
  BY DEF AtEntry
<1>0. PICK top \in ToSet(stack) : top = Top
  BY <1>1, TopFacts
<1> DEFINE p == pos[top]
           W(d) == Waiting(d)
           V(d) == Waiting(d)'
<1>2. /\ top \in Directory /\ ToSet(stack) \subseteq Directory
      /\ \A d \in ToSet(stack) : d \in Nat /\ d <= top
  BY <1>0, <1>1, TopFacts, WalkFacts
<1>3. pos \in [Directory -> 1..(Names + 2)] /\ p \in Nat /\ p + 1 \in 1..(Names + 2)
  <2>1. p \in DOMAIN entries[top] /\ DOMAIN entries[top] = 1..Len(entries[top]) /\ Len(entries[top]) \in 0..(Names + 1)
    BY <1>0, <1>2, HereFacts, WalkFacts
  <2>2. p \in Nat /\ p <= Len(entries[top]) /\ Len(entries[top]) \in Nat /\ Len(entries[top]) <= Names + 1 /\ Names \in Nat
    BY <2>1, NameFacts
  <2>3. p \in Nat /\ p + 1 \in 1..(Names + 2)
    BY <2>2
  <2>4. QED
    BY <2>3, WalkFacts
<1>4. pos' = [pos EXCEPT ![top] = p + 1]
  BY <1>0
<1> HIDE DEF p
<1>5. pos'[top] = p + 1 /\ \A e \in Directory : e # top => pos'[e] = pos[e]
  BY <1>2, <1>3, <1>4
<1>6. pos' \in [Directory -> 1..(Names + 2)]
  BY <1>2, <1>3, <1>4
<1>7. \A d \in ToSet(stack) : d # top => V(d) = W(d)
  BY <1>2, <1>5 DEF Waiting
<1>8. V(top) = W(top) \ {Here}
  <2>1. V(top) = From(entries'[top], pos'[top])
    BY DEF Waiting, V
  <2>2. entries'[top] = entries[top]
    BY <1>2
  <2>3. From(entries[top], p + 1) = W(top) \ {Here}
    BY <1>0, HereFacts DEF p, W
  <2>4. QED
    BY <1>5, <2>1, <2>2, <2>3
<1> HIDE DEF V, W
<1>9. ASSUME NEW d \in ToSet(stack) PROVE V(d) \subseteq W(d) /\ \A x \in V(d) : Here < x
  <2>1. CASE d = top
    <3>1. \A x \in W(top) : x # Here => Here < x
      BY <1>0, HereFacts DEF W
    <3>2. QED
      BY <1>8, <2>1, <3>1
  <2>2. CASE d # top
    <3>1. d < top
      BY <1>2, <2>2, NameFacts
    <3>2. \A x \in W(d) : Here < x
      BY <1>0, <3>1, HereFacts DEF W
    <3>3. QED
      BY <1>7, <2>2, <3>2
  <2>3. QED
    BY <2>1, <2>2
<1>10. \A x \in W(top) : x = Here \/ \E d \in ToSet(stack) : x \in V(d)
  BY <1>2, <1>8
<1>11. ASSUME NEW e \in Directory, pos'[e] # 1 PROVE e <= Here
  <2>1. CASE e = top
    BY <1>0, <2>1, HereFacts
  <2>2. CASE e # top
    <3>1. e < Here
      BY <1>5, <1>11, <2>2, HereFacts
    <3>2. e \in Nat /\ Here \in Nat
      BY HereFacts, NameFacts
    <3>3. QED
      BY <3>1, <3>2
  <2>3. QED
    BY <2>1, <2>2
<1>12. QED
  BY <1>0, <1>5, <1>6, <1>7, <1>9, <1>10, <1>11 DEF V, W

\* An entry that is passed over has nothing in it that has to be sent.
LEMMA PassedOver ==
    ASSUME WalkInv, AtEntry, ~ToList(Top, Here), Here # 0, NEW n \in Name, ToSend(n), Here \in Above(n)
    PROVE  FALSE
<1>1. Here \in Directory /\ Here < n /\ Here \in Nat /\ n \in Nat /\ Here \in Name
  BY HereFacts, AboveFacts, NameFacts
<1>2. Here # Top
  BY HereFacts
<1>3. Passed(Here)
  BY <1>1, <1>2 DEF ToList
<1>4. wcall.start \in Name \cup {0} /\ wcall.start \in Nat /\ Here < wcall.start /\ Here \notin Above(wcall.start)
  BY <1>3, WalkFacts DEF Passed, Begins
<1>5. wcall.start \in Name /\ wcall.start < n
  <2>1. n > wcall.start /\ wcall.start # 0
    BY <1>1, <1>4 DEF ToSend
  <2>2. QED
    BY <1>1, <1>4, <2>1
<1>6. Here \in Above(wcall.start)
  BY <1>4, <1>5, AboveFacts
<1>7. QED
  BY <1>4, <1>6

\* A name is sent and passed.
LEMMA VisitInv == ASSUME WalkInv, Visit PROVE WalkInv'
<1>1. /\ AtEntry /\ ~Ended(Here) /\ ~ToList(Top, Here)
      /\ walked' = Sends(Here) /\ pos' = [pos EXCEPT ![Top] = @ + 1]
  BY DEF Visit
<1>2. /\ wcall' = wcall /\ wpc' = wpc /\ tree' = tree /\ kept' = kept /\ secret' = secret
      /\ wchanges' = wchanges /\ stack' = stack /\ entries' = entries /\ failed' = failed
      /\ helper' = helper /\ wfaults' = wfaults /\ wpc = "walk" /\ stack # <<>>
  BY DEF Visit, treeVars, AtEntry
<1>3. /\ \A d \in ToSet(stack) : /\ Waiting(d)' \subseteq Waiting(d)
                                 /\ d # Top => Waiting(d)' = Waiting(d)
                                 /\ \A x \in Waiting(d)' : Here < x
      /\ \A x \in Waiting(Top) : x = Here \/ \E d \in ToSet(stack) : x \in Waiting(d)'
      /\ pos' \in [Directory -> 1..(Names + 2)]
      /\ \A e \in Directory : pos'[e] # 1 => e <= Here
  BY <1>1, <1>2, Advance
<1>4. /\ walked' \in Seq(Name \cup {0, Failed}) /\ Rising(walked')
      /\ ToSet(walked) \subseteq ToSet(walked') /\ ToSet(walked') \subseteq ToSet(walked) \cup {Here}
      /\ Here > wcall.start => Here \in ToSet(walked')
      /\ \A x \in ToSet(walked') : x # Failed /\ x >= wcall.start /\ ~Ended(x)
  BY <1>1, SentFacts
<1>5. WalkTypeOK'
  BY <1>2, <1>3, <1>4 DEF WalkInv, WalkTypeOK
<1>6. KeptInv' /\ EntriesInv' /\ HelperInv'
  BY <1>2 DEF WalkInv, KeptInv, EntriesInv, HelperInv
<1>7. WalkedInv'
  BY <1>2, <1>4 DEF WalkedInv, Rising, Ended
<1>8. StackInv'
  <2>1. ASSUME NEW d \in ToSet(stack), NEW x \in Waiting(d)'
        PROVE  /\ \A e \in ToSet(stack) : d < e => e < x /\ \A y \in ToSet(entries[e]) : y < x
               /\ \A e \in Directory : pos'[e] # 1 => e < x
               /\ \A y \in ToSet(walked') : y < x
    <3>1. x \in Waiting(d) /\ Here < x
      BY <1>3
    <3>2. /\ \A e \in ToSet(stack) : d < e => e < x /\ \A y \in ToSet(entries[e]) : y < x
          /\ \A y \in ToSet(walked) : y < x
      BY <3>1 DEF WalkInv, StackInv
    <3>3. x \in Nat /\ Here \in Nat
      BY <1>1, <3>1, WalkFacts, HereFacts
    <3>4. \A e \in Directory : pos'[e] # 1 => e < x
      BY <1>3, <3>1, <3>3, NameFacts
    <3>5. QED
      BY <1>4, <3>1, <3>2, <3>4
  <2>2. \A i, j \in DOMAIN stack : i < j => stack[i] < stack[j]
    BY DEF WalkInv, StackInv
  <2>3. QED
    BY <1>2, <2>1, <2>2 DEF StackInv
<1>9. LeftInv'
  <2>1. ASSUME NEW n \in kept, ToSend(n)
        PROVE  \/ n \in ToSet(walked')
               \/ \E d \in ToSet(stack) : \E x \in Waiting(d)' : x # 0 /\ x \in {n} \cup Above(n)
    <3>1. CASE n \in ToSet(walked)
      BY <1>4, <3>1
    <3>2. CASE n \notin ToSet(walked)
      <4>0. PICK d \in ToSet(stack) : \E x \in Waiting(d) : x # 0 /\ x \in {n} \cup Above(n)
        BY <1>2, <2>1, <3>2 DEF WalkInv, LeftInv
      <4>1. PICK x \in Waiting(d) : x # 0 /\ x \in {n} \cup Above(n)
        BY <4>0
      <4>2. CASE d # Top
        BY <1>3, <4>1, <4>2
      <4>3. CASE d = Top /\ x # Here
        BY <1>3, <4>1, <4>3
      <4>4. CASE d = Top /\ x = Here
        <5>1. n \in Name
          BY WalkFacts
        <5>2. Here \notin Above(n)
          BY <1>1, <2>1, <4>1, <4>4, <5>1, PassedOver
        <5>3. Here = n /\ n > wcall.start
          BY <2>1, <4>1, <4>4, <5>2 DEF ToSend
        <5>4. QED
          BY <1>4, <5>3
      <4>5. QED
        BY <4>2, <4>3, <4>4
    <3>3. QED
      BY <3>1, <3>2
  <2>2. QED
    BY <1>2, <2>1 DEF LeftInv, ToSend, Ended
<1>10. QED
  BY <1>2, <1>5, <1>6, <1>7, <1>8, <1>9 DEF WalkInv

\* A directory is put on the stack.
LEMMA DeeperStack ==
    ASSUME NEW s \in Seq(Directory), Rising(s), NEW d \in Directory, \A y \in ToSet(s) : y < d
    PROVE  /\ Append(s, d) \in Seq(Directory) /\ Rising(Append(s, d))
           /\ ToSet(Append(s, d)) = ToSet(s) \cup {d}
<1>1. RisesThrough(Directory, s, ToSet(s)) /\ AllBefore(ToSet(s), {d})
  BY DEF AllBefore, RisesThrough
<1>2. RisesThrough(Directory, Append(s, d), ToSet(s) \cup {d})
  BY <1>1, OneJoined
<1>3. QED
  BY <1>2 DEF RisesThrough

\* The list of a directory: what a helper has of it, and the rest.
GoodRest(h, d, K, R) ==
    /\ \A x \in R : ParentOf[x] = d /\ h.more /\ x > h.batch[Len(h.batch)]
    /\ h.more => \A n \in K : ParentOf[n] = d /\ n > h.batch[Len(h.batch)] => n \in R
GoodList(d, K, list) ==
    /\ list \in Seq(Name \cup {0}) /\ Rising(list) /\ GoodEntries(d, list)
    /\ \A x \in ToSet(list) : x \in Name /\ ParentOf[x] = d /\ d < x
    /\ \A n \in K : ParentOf[n] = d => n \in ToSet(list)
LEMMA ListOf ==
    ASSUME NEW d \in Directory, NEW h \in HelperState, NEW K \in SUBSET Name, NEW R \in SUBSET Name,
           GoodBatch(h, d, K), GoodRest(h, d, K, R)
    PROVE  GoodList(d, K, h.batch \o InOrder(R))
<1> DEFINE b == h.batch
           w == InOrder(R)
           list == b \o w
<1> USE DEF GoodRest
<1>1. b \in Seq(Name) /\ Rising(b) /\ \A i \in DOMAIN b : ParentOf[b[i]] = d
  BY DEF HelperState, GoodBatch, Rising
<1>2. w \in Seq(Name) /\ Rising(w) /\ ToSet(w) = R
  BY NamesInOrder
<1>3. list = b \o w
  OBVIOUS
<1> HIDE DEF w, list
<1>4. \A x \in ToSet(b), y \in ToSet(w) : x < y
  <2>1. SUFFICES ASSUME NEW x \in ToSet(b), NEW y \in R PROVE x < y
    BY <1>2
  <2>2. b # <<>> /\ y > b[Len(b)] /\ y \in Nat
    BY <2>1, NameFacts DEF GoodBatch
  <2>3. x <= b[Len(b)] /\ b[Len(b)] \in Name /\ x \in Nat
    <3>1. Name \subseteq Nat
      BY NameFacts
    <3> HIDE DEF b
    <3>2. b[Len(b)] \in Name /\ x <= b[Len(b)]
      BY <1>1, <2>2, <3>1, LastOf
    <3>3. \A i \in DOMAIN b : b[i] \in Name
      BY <1>1, LenProperties, ElementOfSeq
    <3>4. QED
      BY <3>1, <3>2, <3>3 DEF ToSet
  <2>4. b[Len(b)] \in Nat
    BY <2>3, NameFacts
  <2> HIDE DEF b
  <2>5. QED
    BY <2>2, <2>3, <2>4
<1> HIDE DEF b
<1>5. list \in Seq(Name) /\ Rising(list) /\ ToSet(list) = ToSet(b) \cup R
  <2>1. Name \subseteq Nat
    BY NameFacts
  <2>2. b \o w \in Seq(Name) /\ Rising(b \o w) /\ ToSet(b \o w) = ToSet(b) \cup ToSet(w)
    <3>1. AllBefore(ToSet(b), ToSet(w)) /\ RisesThrough(Name, b, ToSet(b)) /\ RisesThrough(Name, w, ToSet(w))
      BY <1>1, <1>2, <1>4 DEF AllBefore, RisesThrough
    <3>2. RisesThrough(Name, b \o w, ToSet(b) \cup ToSet(w))
      BY <3>1, Joined
    <3>3. QED
      BY <3>2 DEF RisesThrough
  <2>3. QED
    BY <1>2, <1>3, <2>2
<1>6. \A x \in ToSet(list) : x \in Name /\ ParentOf[x] = d
  <2>1. \A i \in DOMAIN b : b[i] \in Name
    BY <1>1, LenProperties, ElementOfSeq
  <2>2. \A x \in ToSet(b) : x \in Name /\ ParentOf[x] = d
    BY <1>1, <2>1 DEF ToSet
  <2>3. QED
    BY <1>5, <2>2
<1>7. \A x \in ToSet(list) : d < x
  BY <1>6, NameFacts
<1>8. GoodEntries(d, list)
  <2>1. \A q \in DOMAIN list : list[q] \in ToSet(list)
    BY DEF ToSet
  <2>2. \A q \in DOMAIN list : list[q] # 0 /\ ParentOf[list[q]] = d
    BY <1>6, <2>1, NameFacts
  <2>3. QED
    BY <1>5, <2>2 DEF GoodEntries, Rising
<1>9. ASSUME NEW n \in K, ParentOf[n] = d PROVE n \in ToSet(list)
  <2>1. n \in ToSet(b) \/ (h.more /\ b[Len(b)] < n)
    BY <1>9 DEF GoodBatch, b
  <2>2. ASSUME h.more, b[Len(b)] < n PROVE n \in R
    <3>1. b[Len(b)] \in Nat /\ n \in Nat
      <4>1. b # <<>> /\ Name \subseteq Nat
        BY <2>2, NameFacts DEF GoodBatch, b
      <4>2. b[Len(b)] \in Name
        BY <1>1, <4>1, LastOf
      <4>3. QED
        BY <4>1, <4>2
    <3>2. n > b[Len(b)]
      BY <2>2, <3>1
    <3>3. QED
      BY <1>9, <2>2, <3>2 DEF b
  <2>3. QED
    BY <1>5, <2>1, <2>2
<1>10. list \in Seq(Name \cup {0})
  BY <1>5, SeqMonotonic
<1>11. QED
  BY <1>5, <1>6, <1>7, <1>8, <1>9, <1>10 DEF GoodList, list, w, b

\* The walk goes into a directory.
LEMMA DescendInv == ASSUME WalkInv, Descend PROVE WalkInv'
<1>1. /\ AtEntry /\ ~Ended(Here) /\ ToList(Top, Here) /\ Ready(Mine) /\ ~helper[Top][Mine].err
      /\ walked' = Sends(Here) /\ pos' = [pos EXCEPT ![Top] = @ + 1]
      /\ stack' = Append(stack, Here)
  BY DEF Descend
<1>2. /\ wcall' = wcall /\ wpc' = wpc /\ tree' = tree /\ kept' = kept /\ secret' = secret
      /\ wchanges' = wchanges /\ failed' = failed /\ wfaults' = wfaults /\ wpc = "walk" /\ stack # <<>>
  BY DEF Descend, treeVars, AtEntry
<1>3. PICK top \in ToSet(stack) : top = Top
  BY <1>2, TopFacts
<1>4. top \in Directory /\ top \in Nat /\ ToSet(stack) \subseteq Directory /\ \A d \in ToSet(stack) : d \in Nat /\ d <= top
  BY <1>2, <1>3, TopFacts, WalkFacts
<1>5. PICK here \in Name : here = Here
  BY <1>1, HereFacts DEF ToList
<1>6. /\ here \in Directory /\ ParentOf[here] = top /\ top < here /\ here \in Nat /\ here # top
      /\ here \in Waiting(top) /\ \A d \in ToSet(stack) : d < here /\ d # here
      /\ \A e \in Directory : pos[e] # 1 => e < here
      /\ \A y \in ToSet(walked) : y < here
      /\ pos[here] = 1
  <2>1. here \in Directory /\ here # top
    BY <1>1, <1>3, <1>5 DEF ToList
  <2>2. /\ ParentOf[here] = top /\ top < here /\ here \in Nat /\ here \in Waiting(top)
        /\ \A e \in Directory : pos[e] # 1 => e < here
        /\ \A y \in ToSet(walked) : y < here
    BY <1>1, <1>3, <1>5, HereFacts, NameFacts
  <2>3. \A d \in ToSet(stack) : d < here /\ d # here
    BY <1>4, <2>2
  <2>4. pos[here] = 1
    BY <2>1, <2>2
  <2>5. QED
    BY <2>1, <2>2, <2>3, <2>4
<1>7. PICK mine \in Helper : mine = Mine
  BY <1>1, HereFacts
<1>8. PICK h \in HelperState : h = helper[top][mine]
  BY <1>4, WalkFacts
<1>9. h.pc = "ready" /\ ~h.err /\ GoodBatch(h, here, kept)
  <2>1. h.pc = "ready" /\ ~h.err /\ h.at = pos[top]
    BY <1>1, <1>3, <1>7, <1>8 DEF Ready
  <2>2. GoodHelper(h, entries[top], kept)
    BY <1>4, <1>8, WalkFacts
  <2>3. here = entries[top][h.at]
    BY <1>3, <1>5, <2>1 DEF Here
  <2>4. QED
    BY <2>1, <2>2, <2>3 DEF GoodHelper
<1>10. PICK R : R = IF h.more THEN Entries(here, h.batch[Len(h.batch)]) ELSE {}
  OBVIOUS
<1>11. PICK list : list = h.batch \o InOrder(R)
  OBVIOUS
<1>12. PICK g : g = GoesOn(top, entries[top], pos[top] + Concurrent)
  OBVIOUS
<1>13. /\ entries' = [entries EXCEPT ![here] = list]
       /\ helper' = [helper EXCEPT ![top][mine] = g, ![here] = Started(here, list)]
  BY <1>3, <1>5, <1>7, <1>8, <1>10, <1>11, <1>12 DEF Descend
<1>14. /\ list \in Seq(Name \cup {0}) /\ Rising(list) /\ GoodEntries(here, list)
       /\ \A x \in ToSet(list) : x \in Name /\ ParentOf[x] = here /\ here < x
       /\ \A n \in kept : ParentOf[n] = here => n \in ToSet(list)
  <2>1. kept \in SUBSET Name /\ kept \subseteq tree /\ tree \subseteq Name
    BY WalkFacts
  <2>2. R \in SUBSET Name /\ \A x \in R : ParentOf[x] = here /\ h.more /\ x > h.batch[Len(h.batch)]
    BY <1>10, <2>1 DEF Entries
  <2>3. ASSUME h.more, NEW n \in kept, ParentOf[n] = here, n > h.batch[Len(h.batch)] PROVE n \in R
    <3>1. here \in Above(n)
      BY <2>1, <2>3, AboveFacts
    <3>2. here \notin secret
      BY <2>3, <3>1 DEF WalkInv, KeptInv
    <3>3. QED
      BY <1>10, <2>1, <2>3, <3>2 DEF Entries
  <2>4. h.more => \A n \in kept : ParentOf[n] = here /\ n > h.batch[Len(h.batch)] => n \in R
    BY <2>3
  <2> DEFINE K == kept
  <2>5. K \in SUBSET Name /\ GoodBatch(h, here, K)
    BY <1>9, <2>1
  <2>6. h.more => \A n \in K : ParentOf[n] = here /\ n > h.batch[Len(h.batch)] => n \in R
    BY <2>4
  <2> HIDE DEF K
  <2>7. /\ list \in Seq(Name \cup {0}) /\ Rising(list) /\ GoodEntries(here, list)
        /\ \A x \in ToSet(list) : x \in Name /\ ParentOf[x] = here /\ here < x
        /\ \A n \in K : ParentOf[n] = here => n \in ToSet(list)
    <3>1. GoodRest(h, here, K, R)
      BY <2>2, <2>6 DEF GoodRest
    <3>2. GoodList(here, K, h.batch \o InOrder(R))
      BY <1>6, <2>2, <2>5, <3>1, ListOf
    <3>3. QED
      BY <1>11, <3>2 DEF GoodList
  <2>8. QED
    BY <2>7 DEF K
<1>15. g \in HelperState /\ GoodHelper(g, entries[top], kept)
  <2>1. pos[top] + Concurrent \in Nat
    <3>1. pos[top] \in Nat /\ Concurrent \in Nat
      BY <1>4, WalkFacts, WalkAssumption
    <3>2. QED
      BY <3>1
  <2>2. entries[top] \in Seq(Name \cup {0}) /\ Rising(entries[top]) /\ GoodEntries(top, entries[top])
    BY <1>4, WalkFacts
  <2>3. QED
    BY <1>12, <2>1, <2>2, GoesOnFacts
<1>16. /\ Started(here, list) \in [Helper -> HelperState]
       /\ \A c \in Helper : GoodHelper(Started(here, list)[c], list, kept)
  BY <1>14, StartedFacts
<1>17. /\ entries' \in [Directory -> Seq(Name \cup {0})] /\ entries'[here] = list
       /\ \A d \in Directory : d # here => entries'[d] = entries[d]
  BY <1>6, <1>13, <1>14, WalkFacts
<1>18. /\ helper' \in [Directory -> [Helper -> HelperState]]
       /\ helper'[here] = Started(here, list) /\ helper'[top][mine] = g
       /\ \A k \in Helper : k # mine => helper'[top][k] = helper[top][k]
       /\ \A d \in Directory : d # top /\ d # here => helper'[d] = helper[d]
  <2> DEFINE s == Started(here, list)
             f == helper
             f2 == helper'
  <2>1. /\ f \in [Directory -> [Helper -> HelperState]] /\ s \in [Helper -> HelperState]
        /\ f2 = [f EXCEPT ![top][mine] = g, ![here] = s]
    BY <1>13, <1>16, WalkFacts
  <2> HIDE DEF s, f, f2
  <2>2. /\ f2 \in [Directory -> [Helper -> HelperState]]
        /\ f2[here] = s /\ f2[top][mine] = g
        /\ \A k \in Helper : k # mine => f2[top][k] = f[top][k]
        /\ \A d \in Directory : d # top /\ d # here => f2[d] = f[d]
    <3> DEFINE y == [f EXCEPT ![top][mine] = g]
    <3>1. /\ y \in [Directory -> [Helper -> HelperState]]
          /\ y[top][mine] = g
          /\ \A k \in Helper : k # mine => y[top][k] = f[top][k]
          /\ \A d \in Directory : d # top => y[d] = f[d]
      BY <1>4, <1>15, <2>1
    <3>2. f2 = [y EXCEPT ![here] = s]
      BY <2>1
    <3> HIDE DEF y
    <3>3. /\ f2 \in [Directory -> [Helper -> HelperState]] /\ f2[here] = s
          /\ \A d \in Directory : d # here => f2[d] = y[d]
      BY <1>6, <2>1, <3>1, <3>2
    <3>4. f2[top] = y[top]
      BY <1>4, <1>6, <3>3
    <3>5. QED
      BY <3>1, <3>3, <3>4
  <2>3. QED
    BY <2>2 DEF s, f, f2
<1>19. /\ \A d \in ToSet(stack) : /\ Waiting(d)' \subseteq Waiting(d)
                                  /\ d # top => Waiting(d)' = Waiting(d)
                                  /\ \A x \in Waiting(d)' : here < x
       /\ \A x \in Waiting(top) : x = here \/ \E d \in ToSet(stack) : x \in Waiting(d)'
       /\ pos' \in [Directory -> 1..(Names + 2)]
       /\ \A e \in Directory : e # top => pos'[e] = pos[e]
  <2>1. \A d \in ToSet(stack) : entries'[d] = entries[d]
    BY <1>4, <1>6, <1>17
  <2>2. QED
    BY <1>1, <1>3, <1>5, <2>1, Advance
<1>20. /\ walked' \in Seq(Name \cup {0, Failed}) /\ Rising(walked')
       /\ ToSet(walked) \subseteq ToSet(walked') /\ ToSet(walked') \subseteq ToSet(walked) \cup {here}
       /\ here > wcall.start => here \in ToSet(walked')
       /\ \A x \in ToSet(walked') : x # Failed /\ x >= wcall.start /\ ~Ended(x)
  BY <1>1, <1>5, SentFacts
<1>21. /\ stack' \in Seq(Directory) /\ Rising(stack') /\ ToSet(stack') = ToSet(stack) \cup {here}
  <2>1. Directory \subseteq Nat /\ stack \in Seq(Directory) /\ Rising(stack) /\ \A y \in ToSet(stack) : y < here
    BY <1>6, WalkFacts, NameFacts
  <2>2. stack' = Append(stack, here) /\ here \in Directory
    BY <1>1, <1>5, <1>6
  <2>3. /\ Append(stack, here) \in Seq(Directory) /\ Rising(Append(stack, here))
        /\ ToSet(Append(stack, here)) = ToSet(stack) \cup {here}
    BY <2>1, <2>2, DeeperStack
  <2>4. QED
    BY <2>2, <2>3
<1>22. Waiting(here)' = ToSet(list)
  <2>1. pos'[here] = 1
    BY <1>6, <1>19
  <2>2. From(list, 1) = ToSet(list)
    <3>1. list \in Seq(Name \cup {0}) /\ Rising(list) /\ Name \cup {0} \subseteq Nat /\ 1 \in Nat
      BY <1>14, NameFacts
    <3>2. QED
      BY <3>1, LeftOf
  <2>3. QED
    BY <1>17, <2>1, <2>2 DEF Waiting
<1>23. WalkTypeOK'
  BY <1>2, <1>17, <1>18, <1>19, <1>20, <1>21 DEF WalkInv, WalkTypeOK
<1>24. KeptInv'
  BY <1>2 DEF WalkInv, KeptInv
<1>25. EntriesInv'
  BY <1>14, <1>17 DEF WalkInv, EntriesInv
<1>26. HelperInv'
  <2>1. ASSUME NEW d \in Directory, NEW c \in Helper PROVE GoodHelper(helper'[d][c], entries'[d], kept)
    <3>1. CASE d = here
      BY <1>16, <1>17, <1>18, <3>1
    <3>2. CASE d = top /\ c = mine
      BY <1>6, <1>15, <1>17, <1>18, <3>2
    <3>3. CASE d # here /\ (d # top \/ c # mine)
      <4>1. helper'[d][c] = helper[d][c] /\ entries'[d] = entries[d]
        BY <1>17, <1>18, <3>3
      <4>2. QED
        BY <4>1, WalkFacts
    <3>4. QED
      BY <3>1, <3>2, <3>3
  <2>2. QED
    BY <1>2, <2>1 DEF HelperInv
<1>27. WalkedInv'
  BY <1>2, <1>20 DEF WalkedInv, Rising, Ended
<1>28. StackInv'
  <2>1. ASSUME NEW d \in ToSet(stack'), NEW x \in Waiting(d)'
        PROVE  /\ \A e \in ToSet(stack') : d < e => e < x /\ \A y \in ToSet(entries'[e]) : y < x
               /\ \A e \in Directory : pos'[e] # 1 => e < x
               /\ \A y \in ToSet(walked') : y < x
    <3>1. here < x /\ x \in Nat
      <4>1. CASE d = here
        BY <1>14, <1>22, <4>1, NameFacts
      <4>2. CASE d \in ToSet(stack)
        <5>1. here < x /\ x \in Waiting(d)
          BY <1>19, <4>2
        <5>2. QED
          BY <1>4, <4>2, <5>1, WalkFacts
      <4>3. QED
        BY <1>21, <4>1, <4>2
    <3>2. \A e \in Directory : pos'[e] # 1 => e < x
      <4>1. SUFFICES ASSUME NEW e \in Directory, pos'[e] # 1 PROVE e < x
        OBVIOUS
      <4>2. e < here
        <5>1. CASE e = top
          BY <1>6, <5>1
        <5>2. CASE e # top
          BY <1>6, <1>19, <4>1, <5>2
        <5>3. QED
          BY <5>1, <5>2
      <4>3. e \in Nat
        BY NameFacts
      <4>4. QED
        BY <1>6, <3>1, <4>2, <4>3
    <3>3. \A y \in ToSet(walked') : y < x
      <4>1. SUFFICES ASSUME NEW y \in ToSet(walked') PROVE y < x
        OBVIOUS
      <4>2. CASE y = here
        BY <3>1, <4>2
      <4>3. CASE y \in ToSet(walked)
        <5>1. y < here /\ y \in Nat
          BY <1>6, <4>3, WalkFacts
        <5>2. QED
          BY <1>6, <3>1, <5>1
      <4>4. QED
        BY <1>20, <4>1, <4>2, <4>3
    <3>4. ASSUME NEW e \in ToSet(stack'), d < e PROVE e < x /\ \A y \in ToSet(entries'[e]) : y < x
      <4>1. d \in ToSet(stack)
        <5>1. ~(here < e) /\ ~(here < here)
          <6>1. CASE e = here
            BY <1>6, <6>1
          <6>2. CASE e \in ToSet(stack)
            BY <1>4, <1>6, <6>2
          <6>3. QED
            BY <1>21, <6>1, <6>2, <1>6
        <5>2. d # here
          BY <3>4, <5>1
        <5>3. QED
          BY <1>21, <5>2
      <4>2. x \in Waiting(d) /\ d \in Directory /\ d \in Nat /\ d < here
        BY <1>4, <1>6, <1>19, <4>1
      <4>3. CASE e \in ToSet(stack)
        <5>1. entries'[e] = entries[e]
          BY <1>4, <1>6, <1>17, <4>3
        <5>2. e < x /\ \A y \in ToSet(entries[e]) : y < x
          BY <3>4, <4>1, <4>2, <4>3 DEF WalkInv, StackInv
        <5>3. QED
          BY <5>1, <5>2
      <4>4. CASE e = here
        <5>1. x \in Name /\ ParentOf[x] = d
          <6>1. x \in ToSet(entries[d]) /\ x # 0
            BY <1>6, <3>1, <4>2, WalkFacts
          <6>2. QED
            BY <4>2, <6>1, WalkFacts
        <5>2. ASSUME NEW y \in ToSet(list) PROVE y < x
          <6>1. y \in Name /\ ParentOf[y] = here
            BY <1>14
          <6>2. QED
            BY <3>1, <4>2, <5>1, <6>1, WithinFirst
        <5>3. QED
          BY <1>17, <3>1, <4>4, <5>2
      <4>5. QED
        BY <1>21, <3>4, <4>3, <4>4
    <3>5. QED
      BY <3>2, <3>3, <3>4
  <2>2. stack' # <<>>
    BY <1>21 DEF ToSet
  <2>3. QED
    BY <1>2, <1>21, <2>1, <2>2 DEF StackInv, Rising
<1>29. LeftInv'
  <2>1. ASSUME NEW n \in kept, ToSend(n)
        PROVE  \/ n \in ToSet(walked')
               \/ \E d \in ToSet(stack') : \E x \in Waiting(d)' : x # 0 /\ x \in {n} \cup Above(n)
    <3>1. CASE n \in ToSet(walked)
      BY <1>20, <3>1
    <3>2. CASE n \notin ToSet(walked)
      <4>1. PICK d \in ToSet(stack) : \E x \in Waiting(d) : x # 0 /\ x \in {n} \cup Above(n)
        BY <1>2, <2>1, <3>2 DEF WalkInv, LeftInv
      <4>2. PICK x \in Waiting(d) : x # 0 /\ x \in {n} \cup Above(n)
        BY <4>1
      <4>3. CASE d # top \/ x # here
        BY <1>19, <1>21, <4>2, <4>3
      <4>4. CASE x = here
        <5>1. n \in Name
          BY WalkFacts
        <5>2. CASE here = n
          BY <1>20, <2>1, <5>2 DEF ToSend
        <5>3. CASE here \in Above(n)
          <6>1. PICK k \in Name : k \in {n} \cup Above(n) /\ here < k /\ ParentOf[k] = here
            BY <5>1, <5>3, WayDown
          <6>2. k # 0 /\ k \in kept
            BY <6>1, NameFacts DEF WalkInv, KeptInv
          <6>3. k \in ToSet(list)
            BY <1>14, <6>1, <6>2
          <6>4. QED
            BY <1>21, <1>22, <6>1, <6>2, <6>3
        <5>4. QED
          BY <4>2, <4>4, <5>2, <5>3
      <4>5. QED
        BY <4>3, <4>4
    <3>3. QED
      BY <3>1, <3>2
  <2>2. QED
    BY <1>2, <2>1 DEF LeftInv, ToSend, Ended
<1>30. QED
  BY <1>2, <1>23, <1>24, <1>25, <1>26, <1>27, <1>28, <1>29 DEF WalkInv

\* What is left alone stays right, and so does less that has to be there.
LEMMA OthersStay ==
    ASSUME WalkInv, UNCHANGED <<wcall, wpc, stack, entries, pos, walked>>, kept' \subseteq kept
    PROVE  /\ EntriesInv' /\ StackInv' /\ WalkedInv' /\ LeftInv'
           /\ wcall' \in WalkCalls /\ wpc' \in {"root", "walk", "closed", "refused"}
<1>1. \A d : Waiting(d)' = Waiting(d)
  BY DEF Waiting
<1>2. EntriesInv'
  BY DEF WalkInv, EntriesInv
<1>3. StackInv'
  BY <1>1 DEF WalkInv, StackInv
<1>4. WalkedInv'
  BY DEF WalkInv, WalkedInv, Ended
<1>5. LeftInv'
  <2>1. WalkComplete' = WalkComplete /\ \A n : ToSend(n)' = ToSend(n)
    BY DEF WalkComplete, ToSend, Ended
  <2>2. QED
    BY <1>1, <2>1 DEF WalkInv, LeftInv
<1>6. QED
  BY <1>2, <1>3, <1>4, <1>5 DEF WalkInv

\* A helper moves.
LEMMA HelperMoves ==
    ASSUME WalkInv, NEW d \in Directory, NEW c \in Helper, NEW h \in HelperState,
           GoodHelper(h, entries[d], kept), helper' = [helper EXCEPT ![d][c] = h],
           UNCHANGED <<wcall, wpc, treeVars, frameVars, walked>>, wfaults' \in 0..WalkFaults
    PROVE  WalkInv'
<1>1. /\ UNCHANGED <<wcall, wpc, stack, entries, pos, walked>>
      /\ kept' = kept /\ tree' = tree /\ secret' = secret /\ wchanges' = wchanges /\ failed' = failed
  BY DEF treeVars, frameVars
<1>2. EntriesInv' /\ StackInv' /\ WalkedInv' /\ LeftInv' /\ wcall' \in WalkCalls
      /\ wpc' \in {"root", "walk", "closed", "refused"}
  BY <1>1, OthersStay
<1>3. KeptInv'
  BY <1>1 DEF WalkInv, KeptInv
<1>4. /\ helper' \in [Directory -> [Helper -> HelperState]] /\ helper'[d][c] = h
      /\ \A d2 \in Directory, c2 \in Helper : d2 # d \/ c2 # c => helper'[d2][c2] = helper[d2][c2]
  BY WalkFacts
<1>5. HelperInv'
  <2>1. ASSUME NEW d2 \in Directory, NEW c2 \in Helper PROVE GoodHelper(helper'[d2][c2], entries[d2], kept)
    <3>1. CASE d2 = d /\ c2 = c
      BY <1>4, <3>1
    <3>2. CASE d2 # d \/ c2 # c
      BY <1>4, <3>2, WalkFacts
    <3>3. QED
      BY <3>1, <3>2
  <2>2. QED
    BY <1>1, <2>1 DEF HelperInv
<1>6. WalkTypeOK'
  BY <1>1, <1>4 DEF WalkInv, WalkTypeOK
<1>7. QED
  BY <1>2, <1>3, <1>5, <1>6 DEF WalkInv

\* Faults are counted.
LEMMA FaultCounted ==
    ASSUME WalkInv, WalkFault \/ wfaults' = wfaults
    PROVE  wfaults' \in 0..WalkFaults
<1>1. wfaults \in 0..WalkFaults /\ WalkFaults \in Nat
  BY WalkAssumption DEF WalkInv, WalkTypeOK
<1>2. QED
  BY <1>1 DEF WalkFault

\* A helper gives up.
LEMMA HelperGivesUpInv ==
    ASSUME WalkInv, NEW d \in Directory, NEW c \in Helper, HelperGivesUp(d, c)
    PROVE  WalkInv'
<1> DEFINE h == [helper[d][c] EXCEPT !.pc = "gone"]
<1>1. helper[d][c] \in HelperState
  BY WalkFacts
<1>2. h \in HelperState /\ h.pc = "gone"
  BY <1>1 DEF HelperState
<1>3. helper' = [helper EXCEPT ![d][c] = h] /\ UNCHANGED <<wcall, wpc, treeVars, frameVars, walked>>
  BY DEF HelperGivesUp
<1>4. wfaults' \in 0..WalkFaults
  BY FaultCounted DEF HelperGivesUp
<1> HIDE DEF h
<1>5. GoodHelper(h, entries[d], kept)
  BY <1>2 DEF GoodHelper
<1>6. QED
  BY <1>2, <1>3, <1>4, <1>5, HelperMoves

\* The beginning of a directory that a helper asks for.
LEMMA BatchOf ==
    ASSUME NEW d, NEW S \in SUBSET Name, \A x \in S : ParentOf[x] = d,
           NEW K, \A n \in K : ParentOf[n] = d => n \in S,
           NEW i \in 1..(Names + 1)
    PROVE  LET all == InOrder(S)
               n == IF Len(all) < Ahead THEN Len(all) ELSE Ahead
               h == [at |-> i, pc |-> "ready", batch |-> SubSeq(all, 1, n), more |-> n = Ahead, err |-> FALSE]
           IN h \in HelperState /\ GoodBatch(h, d, K)
<1> DEFINE all == InOrder(S)
           n == IF Len(all) < Ahead THEN Len(all) ELSE Ahead
           batch == SubSeq(all, 1, n)
           h == [at |-> i, pc |-> "ready", batch |-> batch, more |-> n = Ahead, err |-> FALSE]
<1>1. all \in Seq(Name) /\ Rising(all) /\ ToSet(all) = S /\ Len(all) \in Nat
  BY NamesInOrder
<1> HIDE DEF all
<1>2. DOMAIN all = 1..Len(all) /\ \A j \in 1..Len(all) : all[j] \in S /\ all[j] \in Name
  <2>1. DOMAIN all = 1..Len(all)
    BY <1>1, LenProperties
  <2>2. \A j \in DOMAIN all : all[j] \in S
    BY <1>1 DEF ToSet
  <2>3. QED
    BY <2>1, <2>2
<1>3. Ahead \in Nat /\ Ahead # 0
  BY WalkAssumption
<1>4. n \in 0..Len(all) /\ n <= Ahead /\ (n # Ahead => n = Len(all))
  BY <1>1, <1>3
<1> HIDE DEF n
<1>5. batch \in Seq(Name) /\ Len(batch) = n /\ \A j \in 1..n : batch[j] = all[j]
  <2>1. \A j \in 1..n : all[j] \in Name
    BY <1>1, <1>2, <1>4
  <2>2. /\ SubSeq(all, 1, n) \in Seq(Name)
        /\ Len(SubSeq(all, 1, n)) = IF 1 <= n THEN n - 1 + 1 ELSE 0
        /\ \A j \in 1..(n - 1 + 1) : SubSeq(all, 1, n)[j] = all[1 + j - 1]
    BY <1>1, <1>4, <2>1, SubSeqProperties
  <2> HIDE DEF batch
  <2>3. n \in Nat /\ n - 1 + 1 = n /\ \A j \in 1..n : 1 + j - 1 = j
    BY <1>1, <1>4
  <2>4. QED
    BY <2>2, <2>3 DEF batch
<1>6. DOMAIN batch = 1..n
  <2> HIDE DEF batch
  <2>1. DOMAIN batch = 1..Len(batch)
    BY <1>5, LenProperties
  <2>2. QED
    BY <1>5, <2>1
<1> HIDE DEF batch
<1>7. /\ h.batch = batch /\ h.more = (n = Ahead) /\ h \in HelperState
  BY <1>5, NameFacts DEF HelperState
<1> HIDE DEF h
<1>8. \A j, k \in DOMAIN batch : j < k => batch[j] < batch[k]
  <2>1. \A j \in 1..n : j \in DOMAIN all
    BY <1>1, <1>2, <1>4
  <2>2. QED
    BY <1>1, <1>5, <1>6, <2>1 DEF Rising
<1>9. \A j \in DOMAIN batch : ParentOf[batch[j]] = d
  <2>1. \A j \in 1..n : j \in 1..Len(all)
    BY <1>1, <1>4
  <2>2. QED
    BY <1>2, <1>5, <1>6, <2>1
<1>10. n = Ahead => batch # <<>>
  <2>1. n = Ahead => Len(batch) # 0
    BY <1>3, <1>5
  <2>2. QED
    BY <2>1, EmptySeq
<1>11. ASSUME NEW k \in K, ParentOf[k] = d
       PROVE  k \in ToSet(batch) \/ (n = Ahead /\ batch[Len(batch)] < k)
  <2>1. PICK j \in 1..Len(all) : all[j] = k
    <3>1. k \in ToSet(all)
      BY <1>1, <1>11
    <3>2. QED
      BY <1>2, <3>1 DEF ToSet
  <2>2. CASE j <= n
    <3>1. j \in 1..n
      BY <1>1, <1>4, <2>2
    <3>2. batch[j] = k /\ j \in DOMAIN batch
      BY <1>5, <1>6, <2>1, <3>1
    <3>3. QED
      BY <3>2 DEF ToSet
  <2>3. CASE ~(j <= n)
    <3>1. n = Ahead /\ n \in 1..n /\ n \in 1..Len(all) /\ n < j
      BY <1>1, <1>3, <1>4, <2>3
    <3>2. batch[n] = all[n] /\ all[n] < all[j]
      BY <1>1, <1>2, <1>5, <3>1 DEF Rising
    <3>3. QED
      BY <1>5, <2>1, <3>1, <3>2
  <2>4. QED
    BY <2>2, <2>3
<1>12. GoodBatch(h, d, K)
  BY <1>7, <1>8, <1>9, <1>10, <1>11 DEF GoodBatch
<1>13. QED
  BY <1>7, <1>12 DEF h, batch, n, all

\* A helper lists a directory, or cannot.
LEMMA HelperListsInv ==
    ASSUME WalkInv, NEW d \in Directory, NEW c \in Helper, HelperLists(d, c)
    PROVE  WalkInv'
<1> DEFINE h == helper[d][c]
           i == h.at
<1>0. h.pc = "list"
  BY DEF HelperLists
<1> HIDE DEF h
<1>1. h \in HelperState /\ GoodHelper(h, entries[d], kept)
  BY WalkFacts DEF h
<1>2. i \in DOMAIN entries[d] /\ entries[d][i] \in Directory \ {0} /\ i \in 1..(Names + 1)
  <2>1. i \in 1..(Names + 1)
    BY <1>1 DEF HelperState
  <2>2. i \in DOMAIN entries[d] /\ entries[d][i] \in Directory \ {0}
    BY <1>0, <1>1 DEF GoodHelper
  <2>3. QED
    BY <2>1, <2>2
<1> HIDE DEF i
<1>3. PICK e \in Directory \ {0} : e = entries[d][i]
  BY <1>2
<1>4. UNCHANGED <<wcall, wpc, treeVars, frameVars, walked>> /\ wfaults' \in 0..WalkFaults
  <2>1. UNCHANGED <<wcall, wpc, treeVars, frameVars, walked>> /\ (WalkFault \/ wfaults' = wfaults)
    BY Zenon DEF HelperLists
  <2>2. QED
    BY <2>1, FaultCounted
<1> DEFINE all == InOrder(Entries(e, 0))
           n == IF Len(all) < Ahead THEN Len(all) ELSE Ahead
           good == [at |-> i, pc |-> "ready", batch |-> SubSeq(all, 1, n), more |-> n = Ahead, err |-> FALSE]
           bad == [at |-> i, pc |-> "ready", batch |-> <<>>, more |-> FALSE, err |-> TRUE]
<1>5. helper' = [helper EXCEPT ![d][c] = good] \/ helper' = [helper EXCEPT ![d][c] = bad]
  <2>1. entries[d][helper[d][c].at] = e
    BY <1>3 DEF i, h
  <2>2. /\ all = InOrder(Entries(entries[d][helper[d][c].at], 0))
        /\ i = helper[d][c].at
    BY <2>1 DEF i, h
  <2>3. QED
    BY <1>3, <2>2, Zenon DEF HelperLists
<1>6. bad \in HelperState /\ GoodHelper(bad, entries[d], kept)
  <2>1. bad \in HelperState
    BY <1>2, EmptySeq DEF HelperState
  <2>2. QED
    BY <1>2, <2>1 DEF GoodHelper
<1>7. good \in HelperState /\ GoodHelper(good, entries[d], kept)
  <2> DEFINE S == Entries(e, 0)
             K == kept
  <2>1. S \in SUBSET Name /\ \A x \in S : ParentOf[x] = e
    BY WalkFacts DEF Entries
  <2>2. ASSUME NEW k \in K, ParentOf[k] = e PROVE k \in S
    <3>1. k \in Name /\ k \in tree /\ k > 0
      <4>1. k \in Name /\ k \in tree
        BY WalkFacts
      <4>2. QED
        BY <4>1, NameFacts
    <3>2. e \notin secret
      <4>1. e \in Above(k)
        BY <2>2, <3>1, AboveFacts
      <4>2. QED
        BY <4>1 DEF WalkInv, KeptInv
    <3>3. QED
      BY <2>2, <3>1, <3>2 DEF Entries
  <2> HIDE DEF S, K
  <2>3. LET a == InOrder(S)
            m == IF Len(a) < Ahead THEN Len(a) ELSE Ahead
            g == [at |-> i, pc |-> "ready", batch |-> SubSeq(a, 1, m), more |-> m = Ahead, err |-> FALSE]
        IN g \in HelperState /\ GoodBatch(g, e, K)
    BY <1>2, <2>1, <2>2, BatchOf
  <2>4. good \in HelperState /\ GoodBatch(good, e, kept)
    BY <2>3 DEF S, K
  <2>5. good.at = i
    OBVIOUS
  <2> HIDE DEF good
  <2>6. QED
    BY <1>2, <1>3, <2>4, <2>5 DEF GoodHelper
<1> HIDE DEF good, bad
<1>8. QED
  BY <1>4, <1>5, <1>6, <1>7, HelperMoves

\* The directory at the top of one.
LEMMA TopOfFacts ==
    ASSUME NEW n \in Name
    PROVE  /\ TopOf(n) \in {n} \cup Above(n) /\ TopOf(n) \in Name /\ TopOf(n) <= n
           /\ \A d \in Above(TopOf(n)) : d = 0
<1>1. 0 \in Above(n)
  BY AboveFacts
<1>2. \E x \in {n} \cup Above(n) : x # 0 /\ ParentOf[x] = 0
  <2>1. PICK x \in Name : x \in {n} \cup Above(n) /\ ParentOf[x] = 0
    BY <1>1, WayDown
  <2>2. QED
    BY <2>1, NameFacts
<1>3. TopOf(n) \in {n} \cup Above(n) /\ TopOf(n) # 0 /\ ParentOf[TopOf(n)] = 0
  BY <1>2 DEF TopOf
<1>4. TopOf(n) \in Name /\ TopOf(n) <= n
  <2>1. CASE TopOf(n) = n
    BY <2>1, NameFacts
  <2>2. CASE TopOf(n) \in Above(n)
    <3>1. TopOf(n) \in Directory /\ TopOf(n) \in Nat /\ TopOf(n) < n /\ n \in Nat
      BY <2>2, AboveFacts, NameFacts
    <3>2. QED
      BY <1>3, <3>1, NameFacts
  <2>3. QED
    BY <1>3, <2>1, <2>2
<1>5. ASSUME NEW d \in Above(TopOf(n)) PROVE d = 0
  <2>1. d \in Nat /\ d < TopOf(n) /\ TopOf(n) \in Nat
    BY <1>4, AboveFacts, NameFacts
  <2>2. d <= ParentOf[TopOf(n)]
    BY <1>4, <2>1, AboveFacts
  <2>3. QED
    BY <1>3, <2>1, <2>2
<1>6. QED
  BY <1>3, <1>4, <1>5

\* The root is listed.
LEMMA WalkRootInv == ASSUME WalkInv, WalkRoot PROVE WalkInv'
<1> DEFINE after == IF wcall.start = 0 THEN 0
                    ELSE IF TopOf(wcall.start) = wcall.start /\ wcall.start \notin Directory THEN wcall.start
                    ELSE TopOf(wcall.start) - 1
           self == IF wcall.start = 0 /\ wcall.list.root THEN <<0>> ELSE <<>>
           R == IF wcall.start = 0 /\ wcall.list.root THEN {0} ELSE {}
           S == Entries(0, after)
           w == self \o InOrder(S)
<1>1. /\ wpc = "root" /\ stack' = <<0>> /\ entries' = [entries EXCEPT ![0] = w]
      /\ helper' = [helper EXCEPT ![0] = Started(0, w)] /\ wpc' = "walk"
      /\ UNCHANGED <<wcall, treeVars, pos, failed, walked, wfaults>>
  BY DEF WalkRoot
<1>2. /\ wcall' = wcall /\ tree' = tree /\ kept' = kept /\ secret' = secret /\ wchanges' = wchanges
      /\ pos' = pos /\ failed' = failed /\ walked' = walked /\ wfaults' = wfaults
      /\ walked = <<>> /\ \A d \in Directory : pos[d] = 1
  BY <1>1 DEF treeVars, WalkInv, StackInv
<1>3. 0 \in Directory /\ 0 \in Nat
  BY NameFacts
<1>4. wcall.start \in Name \cup {0} /\ wcall.start \in Nat /\ kept \subseteq tree /\ tree \subseteq Name
  BY WalkFacts
\* all it has to send is in what is asked for
<1>5. ASSUME NEW n \in Name, ToSend(n), NEW x \in Name, x \in {n} \cup Above(n), ParentOf[x] = 0
      PROVE  x > after
  <2>1. n > wcall.start /\ n \in Nat /\ x \in Nat /\ x # 0
    BY <1>5, NameFacts DEF ToSend
  <2>2. CASE wcall.start = 0
    BY <2>1, <2>2
  <2>3. CASE wcall.start # 0
    <3> DEFINE s == wcall.start
               T == TopOf(s)
    <3>1. s \in Name /\ s < n /\ s \in Nat
      BY <1>4, <2>1, <2>3
    <3>2. T \in {s} \cup Above(s) /\ T \in Name /\ T <= s /\ \A d \in Above(T) : d = 0
      BY <3>1, TopOfFacts
    <3> HIDE DEF s, T
    <3>3. T \in Nat /\ T < n
      BY <2>1, <3>1, <3>2, NameFacts
    <3>4. ~(x < T)
      <4>1. SUFFICES ASSUME x < T PROVE FALSE
        OBVIOUS
      <4>2. x \in Above(n)
        BY <1>5, <2>1, <3>3, <4>1
      <4>3. x \in Above(T)
        BY <3>2, <3>3, <4>1, <4>2, AboveFacts
      <4>4. QED
        BY <2>1, <3>2, <4>3
    <3>5. ASSUME s \notin Directory PROVE x # s
      <4>1. SUFFICES ASSUME x = s PROVE FALSE
        OBVIOUS
      <4>2. x \in Above(n)
        BY <1>5, <2>1, <3>1, <4>1
      <4>3. QED
        BY <3>5, <4>1, <4>2, AboveFacts
    <3>6. after = IF T = s /\ s \notin Directory THEN s ELSE T - 1
      BY <2>3 DEF s, T
    <3> HIDE DEF after
    <3>7. CASE T = s /\ s \notin Directory
      BY <2>1, <3>1, <3>4, <3>5, <3>6, <3>7
    <3>8. CASE ~(T = s /\ s \notin Directory)
      <4>1. after = T - 1
        BY <3>6, <3>8
      <4>2. QED
        BY <2>1, <3>3, <3>4, <4>1
    <3>9. QED
      BY <3>7, <3>8
  <2>4. QED
    BY <2>2, <2>3
<1>6. S \subseteq Name /\ \A x \in S : ParentOf[x] = 0
  BY <1>4 DEF Entries
<1>7. ASSUME NEW n \in kept, ToSend(n) PROVE \E x \in S : x # 0 /\ x \in {n} \cup Above(n)
  <2>1. n \in Name /\ 0 \in Above(n) /\ 0 \notin secret
    <3>1. n \in Name /\ 0 \in Above(n)
      BY <1>4, AboveFacts
    <3>2. QED
      BY <1>7, <3>1 DEF WalkInv, KeptInv
  <2>2. PICK x \in Name : x \in {n} \cup Above(n) /\ ParentOf[x] = 0
    BY <2>1, WayDown
  <2>3. x # 0 /\ x \in tree
    BY <1>4, <2>2, NameFacts DEF WalkInv, KeptInv
  <2>4. x > after
    BY <1>5, <1>7, <2>1, <2>2
  <2>5. x \in S
    BY <2>1, <2>2, <2>3, <2>4 DEF Entries
  <2>6. QED
    BY <2>2, <2>3, <2>5
<1> HIDE DEF after, S
<1>8. RisesThrough(Name \cup {0}, w, R \cup S)
  <2>1. RisesThrough(Name \cup {0}, self, R)
    <3>1. RisesThrough(Name \cup {0}, <<>>, {})
      BY DEF RisesThrough, Rising, ToSet
    <3>2. RisesThrough(Name \cup {0}, <<0>>, {0})
      <4>1. <<0>> \in Seq(Name \cup {0}) /\ DOMAIN <<0>> = {1} /\ <<0>>[1] = 0
        OBVIOUS
      <4> DEFINE z == <<0>>
      <4> HIDE DEF z
      <4>2. z \in Seq(Name \cup {0}) /\ DOMAIN z = {1} /\ z[1] = 0
        BY <4>1 DEF z
      <4>3. RisesThrough(Name \cup {0}, z, {0})
        BY <4>2 DEF RisesThrough, Rising, ToSet
      <4>4. QED
        BY <4>3 DEF z
    <3>3. QED
      BY <3>1, <3>2
  <2>2. RisesThrough(Name \cup {0}, InOrder(S), S)
    <3>1. InOrder(S) \in Seq(Name) /\ Rising(InOrder(S)) /\ ToSet(InOrder(S)) = S
      BY <1>6, NamesInOrder
    <3>2. InOrder(S) \in Seq(Name \cup {0})
      BY <3>1, SeqMonotonic
    <3>3. QED
      BY <3>1, <3>2 DEF RisesThrough
  <2>3. AllBefore(R, S)
    BY <1>6, NameFacts DEF AllBefore
  <2> HIDE DEF self, R
  <2>4. QED
    BY <2>1, <2>2, <2>3, Joined
<1> HIDE DEF w
<1>9. PICK list : list = w
  OBVIOUS
<1>10. /\ list \in Seq(Name \cup {0}) /\ Rising(list) /\ S \subseteq ToSet(list)
       /\ GoodEntries(0, list)
  <2>1. list \in Seq(Name \cup {0}) /\ Rising(list) /\ ToSet(list) = R \cup S
    BY <1>8, <1>9 DEF RisesThrough
  <2>2. \A q \in DOMAIN list : list[q] \in R \cup S
    BY <2>1 DEF ToSet
  <2>3. \A q \in DOMAIN list : list[q] = 0 \/ ParentOf[list[q]] = 0
    BY <1>6, <2>2
  <2>4. QED
    BY <2>1, <2>3 DEF GoodEntries, Rising
<1>11. /\ entries' \in [Directory -> Seq(Name \cup {0})] /\ entries'[0] = list
       /\ \A d \in Directory : d # 0 => entries'[d] = entries[d]
  BY <1>1, <1>3, <1>9, <1>10, WalkFacts
<1>12. /\ Started(0, list) \in [Helper -> HelperState]
       /\ \A c \in Helper : GoodHelper(Started(0, list)[c], list, kept)
  BY <1>10, StartedFacts
<1>13. /\ helper' \in [Directory -> [Helper -> HelperState]] /\ helper'[0] = Started(0, list)
       /\ \A d \in Directory : d # 0 => helper'[d] = helper[d]
  <2>1. helper' = [helper EXCEPT ![0] = Started(0, list)]
    BY <1>1, <1>9
  <2> DEFINE s == Started(0, list)
  <2>2. s \in [Helper -> HelperState] /\ helper' = [helper EXCEPT ![0] = s]
    BY <1>12, <2>1
  <2> HIDE DEF s
  <2>3. QED
    <3>1. /\ helper' \in [Directory -> [Helper -> HelperState]] /\ helper'[0] = s
          /\ \A d \in Directory : d # 0 => helper'[d] = helper[d]
      BY <1>3, <2>2, WalkFacts
    <3>2. QED
      BY <3>1 DEF s
<1>14. stack' \in Seq(Directory) /\ DOMAIN stack' = {1} /\ ToSet(stack') = {0} /\ stack' # <<>>
  BY <1>1, <1>3 DEF ToSet
<1>15. Waiting(0)' = ToSet(list)
  <2>1. From(list, 1) = ToSet(list)
    <3>1. list \in Seq(Name \cup {0}) /\ Rising(list) /\ Name \cup {0} \subseteq Nat /\ 1 \in Nat
      BY <1>10, NameFacts
    <3>2. QED
      BY <3>1, LeftOf
  <2>2. QED
    BY <1>2, <1>3, <1>11, <2>1 DEF Waiting
<1>16. WalkTypeOK'
  BY <1>1, <1>2, <1>11, <1>13, <1>14 DEF WalkInv, WalkTypeOK, WPC
<1>17. KeptInv' /\ EntriesInv'
  BY <1>2, <1>10, <1>11 DEF WalkInv, KeptInv, EntriesInv
<1>18. HelperInv'
  <2>1. ASSUME NEW d \in Directory, NEW c \in Helper PROVE GoodHelper(helper'[d][c], entries'[d], kept)
    BY <1>11, <1>12, <1>13, WalkFacts
  <2>2. QED
    BY <1>2, <2>1 DEF HelperInv
<1>19. DOMAIN walked = {} /\ ToSet(walked) = {}
  BY <1>2 DEF ToSet
<1>20. WalkedInv'
  BY <1>2, <1>19 DEF WalkedInv
<1>21. StackInv'
  <2>1. ASSUME NEW d \in ToSet(stack'), NEW x \in Waiting(d)'
        PROVE  /\ \A e \in ToSet(stack') : d < e => e < x /\ \A y \in ToSet(entries'[e]) : y < x
               /\ \A e \in Directory : pos'[e] # 1 => e < x
               /\ \A y \in ToSet(walked') : y < x
    <3>1. \A e \in ToSet(stack') : ~(d < e)
      BY <1>14
    <3>2. QED
      BY <1>2, <1>19, <3>1
  <2>2. \A i, j \in DOMAIN stack' : ~(i < j)
    BY <1>14
  <2>3. QED
    BY <1>1, <1>14, <2>1, <2>2 DEF StackInv
<1>22. LeftInv'
  <2>1. ASSUME NEW n \in kept, ToSend(n)
        PROVE  \E d \in ToSet(stack') : \E x \in Waiting(d)' : x # 0 /\ x \in {n} \cup Above(n)
    <3>1. \E x \in ToSet(list) : x # 0 /\ x \in {n} \cup Above(n)
      BY <1>7, <1>10, <2>1
    <3>2. QED
      BY <1>14, <1>15, <3>1
  <2>2. QED
    BY <1>2, <2>1 DEF LeftInv, ToSend, Ended
<1>23. QED
  BY <1>1, <1>2, <1>16, <1>17, <1>18, <1>20, <1>21, <1>22 DEF WalkInv

\* The root cannot be listed.
LEMMA RootFailsInv == ASSUME WalkInv, RootFails PROVE WalkInv'
<1>1. /\ wpc = "root" /\ wpc' = "refused" /\ UNCHANGED <<wcall, treeVars, frameVars, helper, walked>>
      /\ wfaults' \in 0..WalkFaults
  BY FaultCounted DEF RootFails
<1>2. /\ wcall' = wcall /\ tree' = tree /\ kept' = kept /\ secret' = secret /\ wchanges' = wchanges
      /\ stack' = stack /\ entries' = entries /\ pos' = pos /\ failed' = failed
      /\ helper' = helper /\ walked' = walked
  BY <1>1 DEF treeVars, frameVars
<1>3. stack = <<>> /\ walked = <<>>
  BY <1>1 DEF WalkInv, StackInv
<1>4. WalkTypeOK'
  BY <1>1, <1>2 DEF WalkInv, WalkTypeOK, WPC
<1>5. KeptInv' /\ EntriesInv' /\ HelperInv'
  BY <1>2 DEF WalkInv, KeptInv, EntriesInv, HelperInv
<1>6. DOMAIN walked = {} /\ ToSet(walked) = {} /\ DOMAIN stack = {} /\ ToSet(stack) = {}
  BY <1>3 DEF ToSet
<1>7. WalkedInv' /\ StackInv' /\ LeftInv'
  BY <1>1, <1>2, <1>3, <1>6 DEF WalkedInv, StackInv, LeftInv, WalkComplete
<1>8. QED
  BY <1>1, <1>2, <1>4, <1>5, <1>7 DEF WalkInv

\* The walk ends with nil.
LEMMA WalkFailsInv == ASSUME WalkInv, WalkFails PROVE WalkInv'
<1>1. /\ AtEntry /\ ~Ended(Here) /\ walked' = Append(Sends(Here), Failed) /\ failed' = failed \cup ToSet(stack)
      /\ stack' = <<>> /\ wpc' = "closed" /\ UNCHANGED <<wcall, treeVars, entries, pos, helper>>
      /\ wfaults' \in 0..WalkFaults
  BY FaultCounted DEF WalkFails
<1>2. /\ wcall' = wcall /\ tree' = tree /\ kept' = kept /\ secret' = secret /\ wchanges' = wchanges
      /\ entries' = entries /\ pos' = pos /\ helper' = helper
  BY <1>1 DEF treeVars
<1>3. /\ walked' \in Seq(Name \cup {0, Failed}) /\ Rising(walked')
      /\ ToSet(walked') = ToSet(Sends(Here)) \cup {Failed}
  <2> DEFINE T == Name \cup {0, Failed}
             s == Sends(Here)
  <2>1. RisesThrough(T, s, ToSet(s)) /\ AllBefore(ToSet(s), {Failed}) /\ Failed \in T
    BY <1>1, SentFacts DEF RisesThrough, AllBefore
  <2> HIDE DEF T, s
  <2>2. RisesThrough(T, Append(s, Failed), ToSet(s) \cup {Failed})
    BY <2>1, OneJoined
  <2>3. QED
    BY <1>1, <2>2 DEF RisesThrough, T, s
<1>4. \A x \in ToSet(walked') : x # Failed => x >= wcall.start /\ ~Ended(x)
  BY <1>1, <1>3, SentFacts
<1>5. WalkTypeOK'
  <2>1. ToSet(stack) \subseteq Directory /\ <<>> \in Seq(Directory)
    BY WalkFacts
  <2>2. QED
    BY <1>1, <1>2, <1>3, <2>1 DEF WalkInv, WalkTypeOK, WPC
<1>6. KeptInv' /\ EntriesInv' /\ HelperInv'
  BY <1>2 DEF WalkInv, KeptInv, EntriesInv, HelperInv
<1>7. WalkedInv'
  BY <1>1, <1>2, <1>3, <1>4 DEF WalkedInv, Rising, Ended, Failed
<1>8. StackInv'
  BY <1>1 DEF StackInv, ToSet
<1>9. ~WalkComplete'
  <2>1. Failed \in ToSet(walked')
    BY <1>3
  <2>2. DOMAIN walked' = 1..Len(walked')
    BY <1>3, LenProperties
  <2>3. \E i \in 1..Len(walked') : walked'[i] = Failed
    BY <2>1, <2>2 DEF ToSet
  <2>4. QED
    BY <2>3 DEF WalkComplete, Contains, Failed
<1>10. LeftInv'
  BY <1>1, <1>9 DEF LeftInv
<1>11. QED
  BY <1>1, <1>2, <1>5, <1>6, <1>7, <1>8, <1>10 DEF WalkInv

\* The walk leaves a directory.
LEMMA ReturnInv == ASSUME WalkInv, Return PROVE WalkInv'
<1>1. /\ wpc = "walk" /\ stack # <<>>
      /\ pos[Top] > Len(entries[Top]) \/ (AtEntry /\ Ended(Here))
      /\ stack' = SubSeq(stack, 1, Len(stack) - 1)
      /\ wpc' = IF Len(stack) = 1 THEN "closed" ELSE "walk"
  BY DEF Return
<1>2. /\ wcall' = wcall /\ tree' = tree /\ kept' = kept /\ secret' = secret /\ wchanges' = wchanges
      /\ entries' = entries /\ pos' = pos /\ failed' = failed /\ helper' = helper /\ walked' = walked
      /\ wfaults' = wfaults
  BY DEF Return, treeVars
<1>3. PICK top \in ToSet(stack) : top = Top
  BY <1>1, TopFacts
<1>4. /\ stack' \in Seq(Directory) /\ Rising(stack') /\ ToSet(stack') = ToSet(stack) \ {top}
      /\ stack' = <<>> <=> Len(stack) = 1
  BY <1>1, <1>3, TopFacts
<1>5. \A d : Waiting(d)' = Waiting(d)
  BY <1>2 DEF Waiting
<1>6. WalkTypeOK'
  BY <1>1, <1>2, <1>4 DEF WalkInv, WalkTypeOK, WPC
<1>7. KeptInv' /\ EntriesInv' /\ HelperInv'
  BY <1>2 DEF WalkInv, KeptInv, EntriesInv, HelperInv
<1>8. WalkedInv'
  <2>1. \A x \in ToSet(walked) : x # Failed
    BY <1>1 DEF WalkInv, WalkedInv
  <2>2. QED
    BY <1>2, <2>1 DEF WalkInv, WalkedInv, Ended, Failed
<1>9. StackInv'
  <2>1. \A d \in ToSet(stack') : \A x \in Waiting(d)' :
          /\ \A e \in ToSet(stack') : d < e => e < x /\ \A y \in ToSet(entries'[e]) : y < x
          /\ \A e \in Directory : pos'[e] # 1 => e < x
          /\ \A y \in ToSet(walked') : y < x
    BY <1>2, <1>4, <1>5 DEF WalkInv, StackInv
  <2>2. wpc' # "root" /\ (wpc' = "walk" <=> stack' # <<>>)
    BY <1>1, <1>4
  <2>3. QED
    BY <1>4, <2>1, <2>2 DEF StackInv, Rising
\* nothing that has to be sent waits in the directory that is left
<1>10. ASSUME NEW n \in kept, ToSend(n), NEW x \in Waiting(top), x \in {n} \cup Above(n) PROVE FALSE
  <2>1. top \in Directory
    BY <1>1, <1>3, TopFacts
  <2>2. CASE pos[top] > Len(entries[top])
    <3>1. entries[top] \in Seq(Name \cup {0}) /\ Rising(entries[top]) /\ pos[top] \in Nat /\ Name \cup {0} \subseteq Nat
      BY <2>1, WalkFacts, NameFacts
    <3>2. From(entries[top], pos[top]) = {}
      BY <2>2, <3>1, LeftOf
    <3>3. QED
      BY <1>10, <3>2 DEF Waiting
  <2>3. CASE AtEntry /\ Ended(Here)
    <3>1. Here \in Nat /\ wcall.end \in Nat /\ wcall.end # 0 /\ Here >= wcall.end
      BY <2>3, WalkFacts, HereFacts DEF Ended
    <3>2. x = Here \/ Here < x
      BY <1>3, <1>10, <2>3, HereFacts
    <3>3. n \in Name /\ n \in Nat /\ x \in Nat /\ x <= n
      <4>1. n \in Name /\ n \in Nat
        BY WalkFacts, NameFacts
      <4>2. QED
        BY <1>10, <4>1, AboveFacts
    <3>4. n >= wcall.end
      BY <3>1, <3>2, <3>3
    <3>5. QED
      BY <1>10, <3>1, <3>4 DEF ToSend, Ended
  <2>4. QED
    BY <1>1, <1>3, <2>2, <2>3
<1>11. LeftInv'
  <2>1. ASSUME NEW n \in kept, ToSend(n), n \notin ToSet(walked)
        PROVE  \E d \in ToSet(stack') : \E x \in Waiting(d)' : x # 0 /\ x \in {n} \cup Above(n)
    <3>1. PICK d \in ToSet(stack) : \E x \in Waiting(d) : x # 0 /\ x \in {n} \cup Above(n)
      BY <1>1, <2>1 DEF WalkInv, LeftInv
    <3>2. d # top
      BY <1>10, <2>1, <3>1
    <3>3. QED
      BY <1>4, <1>5, <3>1, <3>2
  <2>2. QED
    BY <1>2, <2>1 DEF LeftInv, ToSend, Ended
<1>12. wpc' \in {"walk", "closed"}
  BY <1>1
<1>13. QED
  BY <1>2, <1>6, <1>7, <1>8, <1>9, <1>11, <1>12 DEF WalkInv

\* The tree changes while it is walked.
LEMMA TreeChangesInv == ASSUME WalkInv, TreeChanges PROVE WalkInv'
<1>1. /\ wchanges < WalkChanges /\ wchanges' = wchanges + 1
      /\ wcall' = wcall /\ wpc' = wpc /\ stack' = stack /\ entries' = entries /\ pos' = pos
      /\ failed' = failed /\ helper' = helper /\ walked' = walked /\ wfaults' = wfaults
  BY DEF TreeChanges, frameVars
<1>2. kept \subseteq tree /\ tree \subseteq Name /\ kept \subseteq Name /\ secret \subseteq Directory
  BY WalkFacts DEF WalkInv, WalkTypeOK
<1>3. /\ kept' \subseteq kept /\ kept' \subseteq tree' /\ tree' \subseteq Name /\ secret' \subseteq Directory
      /\ KeptInv'
  <2>1. CASE \E n \in Name : tree' = tree \cup {n} /\ UNCHANGED <<kept, secret>>
    BY <1>2, <2>1 DEF WalkInv, KeptInv
  <2>2. CASE \E n \in tree : LET gone == {n} \cup {m \in tree : n \in Above(m)} IN
                tree' = tree \ gone /\ kept' = kept \ gone /\ UNCHANGED secret
    <3>1. PICK n \in tree : LET gone == {n} \cup {m \in tree : n \in Above(m)} IN
                tree' = tree \ gone /\ kept' = kept \ gone /\ UNCHANGED secret
      BY <2>2
    <3>2. ASSUME NEW m \in kept', NEW a \in Above(m) \ {0} PROVE a \in kept'
      <4>1. m \in kept /\ m \in Name /\ m \in tree /\ n \notin Above(m)
        BY <1>2, <3>1
      <4>2. a \in kept /\ a \in Name
        BY <1>2, <3>2, <4>1 DEF WalkInv, KeptInv
      <4>3. a # n /\ n \notin Above(a)
        BY <3>2, <4>1, <4>2, AboveFacts
      <4>4. QED
        BY <3>1, <4>2, <4>3
    <3>3. KeptInv'
      BY <3>1, <3>2 DEF WalkInv, KeptInv
    <3>4. QED
      BY <1>2, <3>1, <3>3
  <2>3. CASE \E d \in Directory : /\ secret' = secret \cup {d}
                                  /\ kept' = kept \ {m \in tree : d \in Above(m)}
                                  /\ UNCHANGED tree
    <3>1. PICK d \in Directory : /\ secret' = secret \cup {d}
                                 /\ kept' = kept \ {m \in tree : d \in Above(m)}
                                 /\ UNCHANGED tree
      BY <2>3
    <3>2. ASSUME NEW m \in kept' PROVE Above(m) \ {0} \subseteq kept' /\ Above(m) \cap secret' = {}
      <4>1. m \in kept /\ m \in Name /\ d \notin Above(m)
        BY <1>2, <3>1, <3>2
      <4>2. Above(m) \cap secret' = {}
        BY <3>1, <4>1 DEF WalkInv, KeptInv
      <4>3. ASSUME NEW a \in Above(m) \ {0} PROVE a \in kept'
        <5>1. a \in kept /\ a \in Name
          BY <1>2, <4>1, <4>3 DEF WalkInv, KeptInv
        <5>2. d \notin Above(a)
          BY <4>1, <4>3, <5>1, AboveFacts
        <5>3. QED
          BY <3>1, <5>1, <5>2
      <4>4. QED
        BY <4>2, <4>3
    <3>3. QED
      BY <1>2, <3>1, <3>2 DEF KeptInv
  <2>4. QED
    BY <2>1, <2>2, <2>3 DEF TreeChanges
<1>4. EntriesInv' /\ StackInv' /\ WalkedInv' /\ LeftInv' /\ wcall' \in WalkCalls
      /\ wpc' \in {"root", "walk", "closed", "refused"}
  BY <1>1, <1>3, OthersStay
<1>5. HelperInv'
  <2>1. kept' \in SUBSET kept
    BY <1>3
  <2>2. \A d \in Directory, c \in Helper : GoodHelper(helper[d][c], entries[d], kept)
    BY WalkFacts
  <2>3. \A d \in Directory, c \in Helper : GoodHelper(helper[d][c], entries[d], kept')
    BY <2>1, <2>2, GoodStays
  <2>4. QED
    BY <1>1, <2>3 DEF HelperInv
<1>6. wchanges' \in 0..WalkChanges
  BY <1>1, WalkAssumption DEF WalkInv, WalkTypeOK
<1>7. WalkTypeOK'
  BY <1>1, <1>3, <1>6 DEF WalkInv, WalkTypeOK
<1>8. QED
  BY <1>3, <1>4, <1>5, <1>7 DEF WalkInv

-----------------------------------------------------------------------------
\* A walk that begins, and a store that is not walked.
LEMMA WalkBegins == WalkInit => WalkInv
<1> SUFFICES ASSUME WalkInit PROVE WalkInv
  OBVIOUS
<1>1. /\ wcall \in WalkCalls /\ wpc = "root" /\ tree \in SUBSET Name /\ kept = tree
      /\ \A n \in tree : ParentOf[n] \in tree \cup {0}
  BY DEF WalkInit
<1>2. /\ secret = {} /\ stack = <<>> /\ entries = [d \in Directory |-> <<>>] /\ pos = [d \in Directory |-> 1]
      /\ failed = {} /\ helper = [d \in Directory |-> [c \in Helper |-> NoHelper]]
      /\ walked = <<>> /\ wfaults = 0 /\ wchanges = 0
  BY DEF WalkInit, NoWalk
<1>3. DOMAIN walked = {} /\ ToSet(walked) = {} /\ DOMAIN stack = {} /\ ToSet(stack) = {}
  BY <1>2 DEF ToSet
<1>4. WalkTypeOK
  <2>1. NoHelper \in HelperState
    BY NameFacts DEF NoHelper, HelperState
  <2>2. helper \in [Directory -> [Helper -> HelperState]]
    BY <1>2, <2>1
  <2>3. /\ stack \in Seq(Directory) /\ walked \in Seq(Name \cup {0, Failed})
        /\ entries \in [Directory -> Seq(Name \cup {0})] /\ pos \in [Directory -> 1..(Names + 2)]
        /\ wfaults \in 0..WalkFaults /\ wchanges \in 0..WalkChanges
    BY <1>2, WalkAssumption
  <2>4. QED
    BY <1>1, <1>2, <2>2, <2>3 DEF WalkTypeOK, WPC
<1>5. KeptInv
  <2>1. ASSUME NEW n \in kept PROVE Above(n) \ {0} \subseteq kept
    BY <1>1, ClosedUp
  <2>2. QED
    BY <1>2, <2>1 DEF KeptInv
<1>6. EntriesInv
  BY <1>2 DEF EntriesInv, GoodEntries
<1>7. HelperInv
  BY <1>2 DEF HelperInv, GoodHelper, NoHelper
<1>8. StackInv /\ WalkedInv /\ LeftInv
  BY <1>1, <1>2, <1>3 DEF StackInv, WalkedInv, LeftInv, WalkComplete
<1>9. QED
  BY <1>1, <1>4, <1>5, <1>6, <1>7, <1>8 DEF WalkInv

\* Each step of a walk, and each that leaves it alone.
LEMMA WalkSteps == ASSUME WalkInv, WalkNext \/ UNCHANGED walkVars PROVE WalkInv'
<1>1. CASE UNCHANGED walkVars
  <2>1. /\ UNCHANGED <<wcall, wpc, stack, entries, pos, walked>> /\ kept' = kept /\ secret' = secret
        /\ helper' = helper /\ tree' = tree /\ failed' = failed /\ wfaults' = wfaults /\ wchanges' = wchanges
    BY <1>1 DEF walkVars, treeVars, frameVars
  <2>2. EntriesInv' /\ StackInv' /\ WalkedInv' /\ LeftInv' /\ wcall' \in WalkCalls
        /\ wpc' \in {"root", "walk", "closed", "refused"}
    BY <2>1, OthersStay
  <2>3. WalkTypeOK' /\ KeptInv' /\ HelperInv'
    BY <2>1 DEF WalkInv, WalkTypeOK, KeptInv, HelperInv
  <2>4. QED
    BY <2>2, <2>3 DEF WalkInv
<1>2. CASE WalkRoot \/ RootFails \/ Visit \/ Descend \/ WalkFails \/ Return \/ TreeChanges
  BY <1>2, WalkRootInv, RootFailsInv, VisitInv, DescendInv, WalkFailsInv, ReturnInv, TreeChangesInv
<1>3. CASE \E d \in Directory, c \in Helper : HelperLists(d, c) \/ HelperGivesUp(d, c)
  BY <1>3, HelperListsInv, HelperGivesUpInv
<1>4. QED
  BY <1>1, <1>2, <1>3 DEF WalkNext, WalkSystem

\* A store that is not walked stays so.
LEMMA IdleWalkStep == ASSUME WalkIdle, WalkNext \/ UNCHANGED walkVars PROVE WalkIdle'
<1>1. CASE UNCHANGED walkVars
  BY <1>1 DEF walkVars, treeVars, frameVars, WalkIdle, NoWalk
<1>2. wpc = "idle" /\ \A d \in Directory, c \in Helper : helper[d][c].pc = "none"
  BY DEF WalkIdle, NoWalk, NoHelper
<1>3. ~WalkNext
  <2>1. ~WalkRoot /\ ~RootFails /\ ~Visit /\ ~Descend /\ ~WalkFails /\ ~Return /\ ~TreeChanges
    BY <1>2 DEF WalkRoot, RootFails, Visit, Descend, WalkFails, Return, TreeChanges, AtEntry
  <2>2. \A d \in Directory, c \in Helper : ~HelperLists(d, c) /\ ~HelperGivesUp(d, c)
    BY <1>2 DEF HelperLists, HelperGivesUp
  <2>3. QED
    BY <2>1, <2>2 DEF WalkNext, WalkSystem
<1>4. QED
  BY <1>1, <1>3

\* What is promised of a walk.
LEMMA WalkPromise == WalkIdle \/ WalkInv => WalkedRight
<1>1. CASE WalkIdle
  BY <1>1 DEF WalkIdle, WalkedRight
<1>2. ASSUME WalkInv PROVE WalkedRight
  <2>1. /\ \A i, j \in DOMAIN walked : i < j => walked[i] < walked[j]
        /\ \A n \in ToSet(walked) \ {Failed} : n >= wcall.start /\ ~Ended(n)
    BY <1>2 DEF WalkInv, WalkedInv
  <2>2. ASSUME WalkComplete PROVE {n \in kept : n > wcall.start /\ ~Ended(n)} \subseteq ToSet(walked)
    <3>1. stack = <<>>
      BY <1>2, <2>2 DEF WalkInv, StackInv, WalkComplete
    <3>2. ToSet(stack) = {}
      BY <3>1 DEF ToSet
    <3>3. \A n \in kept : ToSend(n) => n \in ToSet(walked)
      BY <1>2, <2>2, <3>2 DEF WalkInv, LeftInv
    <3>4. QED
      BY <3>3 DEF ToSend
  <2>3. QED
    BY <2>1, <2>2 DEF WalkedRight
<1>3. QED
  BY <1>1, <1>2

\* The types of a walk.
LEMMA WalkTyped == WalkIdle \/ WalkInv => WalkTypeOK
<1>1. CASE WalkIdle
  <2>1. /\ wcall = <<>> /\ wpc = "idle" /\ tree = {} /\ kept = {}
        /\ secret = {} /\ stack = <<>> /\ entries = [d \in Directory |-> <<>>]
        /\ pos = [d \in Directory |-> 1] /\ failed = {}
        /\ helper = [d \in Directory |-> [c \in Helper |-> NoHelper]]
        /\ walked = <<>> /\ wfaults = 0 /\ wchanges = 0
    BY <1>1 DEF WalkIdle, NoWalk
  <2>2. NoHelper \in HelperState
    BY NameFacts DEF NoHelper, HelperState
  <2>3. helper \in [Directory -> [Helper -> HelperState]]
    BY <2>1, <2>2
  <2>4. /\ stack \in Seq(Directory) /\ walked \in Seq(Name \cup {0, Failed})
        /\ entries \in [Directory -> Seq(Name \cup {0})] /\ pos \in [Directory -> 1..(Names + 2)]
        /\ wfaults \in 0..WalkFaults /\ wchanges \in 0..WalkChanges
    BY <2>1, WalkAssumption
  <2>5. QED
    BY <2>1, <2>3, <2>4 DEF WalkTypeOK, WPC
<1>2. CASE WalkInv
  BY <1>2 DEF WalkInv
<1>3. QED
  BY <1>1, <1>2

-----------------------------------------------------------------------------
(* The calls together.                                                     *)

LEMMA InitEach ==
  Init => /\ ListInit \/ ListIdle
          /\ WalkInit \/ WalkIdle
          /\ RequestsInit \/ RequestsIdle
          /\ ReadInit \/ ReadIdle
          /\ UploadInit \/ UploadIdle
BY DEF Init

\* A step of one call leaves the others alone.
LEMMA StepEach ==
  [Next]_vars => /\ ListNext \/ UNCHANGED listVars
                 /\ WalkNext \/ UNCHANGED walkVars
                 /\ [RequestsNext]_requestVars /\ [ReadNext]_readVars /\ [UploadNext]_uploadVars
BY DEF vars, Next, System, ListNext, WalkNext, RequestsNext, ReadNext, UploadNext

\* Whatever fails, however often it is tried again, and wherever the process dies: readers
\* of an object that is put see all that was there or all of the new, but with ceph and in
\* place; it does not vanish but with sftp and gluster; no attempt fails for what another
\* did; and Put and Delete say that they succeeded only of what they have done.
THEOREM PutsAndDeletesRight == Spec => []RequestsRight
<1>1. Init => RequestInv
  BY InitEach, RequestInvInit
<1>2. RequestInv /\ [Next]_vars => RequestInv'
  BY StepEach, RequestInvStep
<1>3. RequestInv => RequestsRight
  BY RequestInvSays
<1> QED
  BY <1>1, <1>2, <1>3, PTL DEF Spec

\* Whatever fails and wherever the process dies: what is put together is made of all the
\* ranges in their order, from parts the upload has, those of the run before among them;
\* without a fault nothing fails and nothing is left behind; and the parts are as many and
\* as large as the service takes, whatever the size of the object.
THEOREM PartsAssembled == Spec => []PartsRight
<1>1. Init => UploadInv
  BY InitEach, UploadInvInit
<1>2. UploadInv /\ [Next]_vars => UploadInv'
  BY StepEach, UploadInvStep
<1>3. UploadInv => PartsRight
  BY UploadInvSays
<1> QED
  BY <1>1, <1>2, <1>3, PTL DEF Spec

\* Whatever happens to the object while it is read, however it is stored, and whatever the
\* sizes of objects, ranges and chunks: a caller that got no error has the bytes of its
\* range, each from its place, from a single version unless the store is live, all of them
\* if it asked for a part, and all there are if it streams; an object is skipped only if it
\* was gone; and without a fault or a change no read fails.
THEOREM ReadsRight == Spec => []ReadRight
<1>1. Init => ReadIdle \/ ReadInv
  BY InitEach, ReadInvInit
<1>2. (ReadIdle \/ ReadInv) /\ [Next]_vars => (ReadIdle \/ ReadInv)'
  BY StepEach, IdleReadStep, ReadInvStep
<1>3. ReadIdle \/ ReadInv => ReadRight
  BY IdleRead, ReadInvSays
<1> QED
  BY <1>1, <1>2, <1>3, PTL DEF Spec

\* However pages, tokens, retries and changes of the store mix, whatever the adapter and
\* however many keys there are: the keys come in order and once, none from outside the
\* range or never there, nil only as the last; and a listing that does not end with nil
\* has every key that was there all along.
THEOREM ListingsRight == Spec => []ListedRight
<1>1. Init => ListInv
  BY InitEach, ListBegins
<1>2. ListInv /\ [Next]_vars => ListInv'
  BY StepEach, ListSteps
<1>3. ListInv => ListedRight
  BY ListPromise
<1> QED
  BY <1>1, <1>2, <1>3, PTL DEF Spec

\* However the helpers, the walk and changes of the tree take turns, whatever fails, and
\* whatever the tree and the number of helpers: the names come depth first, which is byte
\* order, and once, none outside the range, nil only as the last; and a walk that does not
\* end with nil has every name strictly inside the range that was there all along and could
\* be read.
THEOREM WalksRight == Spec => []WalkedRight
<1>1. Init => WalkIdle \/ WalkInv
  BY InitEach, WalkBegins
<1>2. (WalkIdle \/ WalkInv) /\ [Next]_vars => (WalkIdle \/ WalkInv)'
  BY StepEach, IdleWalkStep, WalkSteps
<1>3. WalkIdle \/ WalkInv => WalkedRight
  BY WalkPromise
<1> QED
  BY <1>1, <1>2, <1>3, PTL DEF Spec

\* No call leaves its types, whatever the sizes and bounds: no index, page, entry, attempt,
\* part or version is outside what it counts.
THEOREM ObjectsTyped == Spec => []ObjectsTypeOK
<1> DEFINE Inv == ListInv /\ (WalkIdle \/ WalkInv) /\ RequestInv /\ (ReadIdle \/ ReadInv) /\ UploadInv
<1>1. Init => Inv
  BY InitEach, ListBegins, WalkBegins, RequestInvInit, ReadInvInit, UploadInvInit
<1>2. Inv /\ [Next]_vars => Inv'
  <2> SUFFICES ASSUME Inv, [Next]_vars PROVE Inv'
    OBVIOUS
  <2>1. ListInv'
    BY StepEach, ListSteps
  <2>2. (WalkIdle \/ WalkInv)'
    BY StepEach, IdleWalkStep, WalkSteps
  <2>3. RequestInv'
    BY StepEach, RequestInvStep
  <2>4. (ReadIdle \/ ReadInv)'
    BY StepEach, IdleReadStep, ReadInvStep
  <2>5. UploadInv'
    BY StepEach, UploadInvStep
  <2>6. QED
    BY <2>1, <2>2, <2>3, <2>4, <2>5
<1>3. Inv => ObjectsTypeOK
  <2>1. ReadIdle => ReadTypeOK
    <3>1. ReadFaults \in Nat /\ ReadChanges \in Nat
      BY ReadingAssumption
    <3>2. <<>> \in Seq(Cell)
      OBVIOUS
    <3> SUFFICES ASSUME ReadIdle PROVE ReadTypeOK
      OBVIOUS
    <3>3. /\ gcall = <<>> /\ gpc = "idle" /\ version = 0 /\ vanished = FALSE /\ opened = 0 /\ at = 0
          /\ raw = <<>> /\ read = <<>> /\ gfaults = 0 /\ gchanges = 0
      BY DEF ReadIdle, NoRead, Gone
    <3>4. {version, opened} \subseteq 0..MaxVersions
      BY <3>3 DEF MaxVersions
    <3>5. gpc \in GPC
      BY <3>3 DEF GPC
    <3>6. gfaults \in 0..ReadFaults /\ gchanges \in 0..ReadChanges
      BY <3>1, <3>3
    <3>7. QED
      BY <3>2, <3>3, <3>4, <3>5, <3>6 DEF ReadTypeOK
  <2>2. QED
    BY <2>1, WalkTyped DEF ListInv, RequestInv, ReadInv, UploadInv, ObjectsTypeOK
<1> QED
  BY <1>1, <1>2, <1>3, PTL DEF Spec

=============================================================================
