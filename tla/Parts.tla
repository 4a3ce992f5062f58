------------------------------- MODULE Parts --------------------------------
(***************************************************************************)
(* A large object sent in parts (pkg/sync/sync.go choosePartSize,          *)
(* doCopyMultiple, doCopyRange over the adapters' CreateMultipartUpload,   *)
(* UploadPart, UploadPartCopy, CompleteUpload and AbortUpload): a part is  *)
(* uploaded, or put together as an object of its own and copied; the parts *)
(* that were sent are remembered for a run that resumes.  One part after   *)
(* the other: that they are sent by goroutines is in Transfer.  What a     *)
(* part holds is the number of its range.                                  *)
(***************************************************************************)
EXTENDS Backends

CONSTANTS
    MinPart,       \* of CreateMultipartUpload (4 or 5 MiB in the code)
    MaxPart,       \* of Limits (5 GiB)
    MaxCount,      \* of CreateMultipartUpload (10000), and of the service
    FewerCount,    \* of the service, if Limits says fewer (1000)
    Align,         \* of the size of a part (1 MiB)
    BigPart,       \* a larger one is copied, if it can be (32 MiB)
    PartAttempts,  \* of try (3)
    PartCalls,     \* [up, size, checkpoint] of the objects to send
    PartFaults,    \* bound: requests that fail or whose answer is lost
    PartCrashes    \* bound: times the process dies

ASSUME PartsAssumption ==
    /\ {MinPart, MaxPart, MaxCount, FewerCount, Align, BigPart, PartAttempts} \subseteq Nat \ {0}
    /\ MinPart <= MaxPart /\ MinPart % Align = 0 /\ MaxPart % Align = 0
    /\ MaxCount <= MinPart + 1  \* so rounding makes one part too many at most
    /\ {PartFaults, PartCrashes} \subseteq Nat
    /\ PartCalls \subseteq [up : Multiparts, size : Nat \ {0}, checkpoint : BOOLEAN]

VARIABLES
    ucall,    \* the call, <<>> if none is made
    upc,
    tries,    \* of the request that is made
    open,     \* the upload of ucall is open
    stored,   \* what it has under each number, 0 for nothing
    placed,   \* the Parts the client has, of each range
    saved,    \* the Parts the checkpoint has, by their numbers; whether it has the upload
    resumed,  \* the upload is one of an earlier run
    target,   \* the object, <<>> before the upload is completed
    tmp,      \* the object of one part: absent, open, there
    stray,   \* such an object was left
    ufaults, ucrashes

partState == <<open, stored, placed, saved, resumed>>
tmpVars == <<tmp, stray>>
uploadVars == <<ucall, upc, tries, partState, target, tmpVars, ufaults, ucrashes>>

-----------------------------------------------------------------------------
PartSize(size) ==
    IF size > MinPart * MaxCount
    THEN (((size \div MaxCount) - 1) \div Align + 1) * Align
    ELSE MinPart

Count(size) == (size - 1) \div PartSize(size) + 1
LastSize(size) == size - (Count(size) - 1) * PartSize(size)

TooLarge == ucall.size > MaxPart * MaxCount
Parts == 1..Count(ucall.size)
LengthOf(i) == IF i = Count(ucall.size) THEN LastSize(ucall.size) ELSE PartSize(ucall.size)
ServiceCount == IF ucall.up.fewer THEN FewerCount ELSE MaxCount

Number == 0..(MaxCount + 1)
NoPart == [num |-> 0, range |-> 0]
NotSaved == [known |-> FALSE, parts |-> [n \in Number |-> NoPart]]

UPC == {"idle", "create", "part", "tcreate", "tparts", "tcomplete", "tcopy", "tdelete", "tdrop",
        "tabort", "complete", "abort", "dead", "ok", "failed"}
Part == [num : Number, range : Number]

UploadTypeOK ==
    /\ (ucall = <<>> \/ ucall \in PartCalls) /\ upc \in UPC /\ tries \in 1..PartAttempts
    /\ open \in BOOLEAN /\ resumed \in BOOLEAN
    /\ stored \in [Number -> Number] /\ placed \in [Number -> Part]
    /\ saved \in [known : BOOLEAN, parts : [Number -> Part]]
    /\ target \in Seq(Number)
    /\ tmp \in {"absent", "open", "there"} /\ stray \in BOOLEAN
    /\ ufaults \in 0..PartFaults /\ ucrashes \in 0..PartCrashes

UploadFault == ufaults < PartFaults /\ ufaults' = ufaults + 1

Placed == {i \in Parts : placed[i] # NoPart}
Next1 == CHOOSE i \in Parts \ Placed : \A j \in Parts \ Placed : i <= j
Sent(i) == [num |-> i + ucall.up.number, range |-> i]

\* Part i is there: what UploadPart gave back, and what is remembered of it.
Place(i) ==
    /\ placed' = [placed EXCEPT ![i] = Sent(i)]
    /\ saved' = IF ucall.checkpoint THEN [saved EXCEPT !.parts[Sent(i).num] = Sent(i)] ELSE saved

-----------------------------------------------------------------------------
(* One part.                                                               *)

\* a part the checkpoint has, by its number
TakeSaved ==
    /\ upc = "part" /\ Placed # Parts /\ ucall.checkpoint
    /\ saved.parts[Next1] # NoPart
    /\ placed' = [placed EXCEPT ![Next1] = saved.parts[Next1]]
    /\ UNCHANGED <<ucall, upc, tries, open, stored, saved, resumed, target, tmpVars, ufaults, ucrashes>>

NotTaken == Placed # Parts /\ ~(ucall.checkpoint /\ saved.parts[Next1] # NoPart)
Copied(i) == ucall.up.copies /\ LengthOf(i) > BigPart

\* a service takes no part of an upload it does not have, or of a number it does not count to
Taken(i) == open /\ i <= ServiceCount

SendPart ==
    /\ upc = "part" /\ NotTaken /\ ~Copied(Next1) /\ Taken(Next1)
    /\ stored' = [stored EXCEPT ![Next1] = Next1]
    /\ Place(Next1)
    /\ tries' = 1
    /\ UNCHANGED <<ucall, upc, open, resumed, target, tmpVars, ufaults, ucrashes>>

PartRefused ==
    /\ upc = "part" /\ NotTaken /\ ~Copied(Next1) /\ ~Taken(Next1)
    /\ upc' = "abort" /\ tries' = 1
    /\ UNCHANGED <<ucall, partState, target, tmpVars, ufaults, ucrashes>>

\* or as an object of its own, in parts again
BeginCopy ==
    /\ upc = "part" /\ NotTaken /\ Copied(Next1)
    /\ upc' = "tcreate" /\ tries' = 1
    /\ UNCHANGED <<ucall, partState, target, tmpVars, ufaults, ucrashes>>

TempCreate ==
    /\ upc = "tcreate"
    /\ upc' = "tparts" /\ tries' = 1 /\ tmp' = "open"
    /\ UNCHANGED <<ucall, partState, target, stray, ufaults, ucrashes>>

TempParts ==
    /\ upc = "tparts"
    /\ upc' = "tcomplete" /\ tries' = 1
    /\ UNCHANGED <<ucall, partState, target, tmpVars, ufaults, ucrashes>>

\* an upload that was completed is not there to be completed again
TempComplete ==
    /\ upc = "tcomplete"
    /\ IF tmp = "open" THEN upc' = "tcopy" /\ tmp' = "there" ELSE upc' = "tabort" /\ UNCHANGED tmp
    /\ tries' = 1
    /\ UNCHANGED <<ucall, partState, target, stray, ufaults, ucrashes>>

TempCopy ==
    /\ upc = "tcopy"
    /\ IF Taken(Next1)
       THEN upc' = "tdelete" /\ stored' = [stored EXCEPT ![Next1] = Next1] /\ Place(Next1)
       ELSE upc' = "tdrop" /\ UNCHANGED <<stored, placed, saved>>
    /\ tries' = 1
    /\ UNCHANGED <<ucall, open, resumed, target, tmpVars, ufaults, ucrashes>>

\* whether it was copied or not; an error is not looked at
TempDelete ==
    /\ upc \in {"tdelete", "tdrop"}
    /\ \/ UNCHANGED <<stray, ufaults>>
       \/ UploadFault /\ stray' = TRUE
    /\ tmp' = "absent"
    /\ upc' = IF upc = "tdelete" THEN "part" ELSE "abort"
    /\ UNCHANGED <<ucall, tries, partState, target, ucrashes>>

\* an object that was completed after all is left
TempAbort ==
    /\ upc = "tabort"
    /\ stray' = (stray \/ tmp = "there") /\ tmp' = "absent"
    /\ upc' = "abort"
    /\ UNCHANGED <<ucall, tries, partState, target, ufaults, ucrashes>>

-----------------------------------------------------------------------------
(* The upload.                                                             *)

\* bug: what is remembered of another upload is kept
CreateUploadKeeping ==
    /\ upc = "create"
    /\ upc' = IF TooLarge THEN "failed" ELSE "part"
    /\ open' = TRUE /\ resumed' = FALSE /\ tries' = 1
    /\ stored' = [n \in Number |-> 0] /\ placed' = [n \in Number |-> NoPart]
    /\ saved' = [saved EXCEPT !.known = ucall.checkpoint /\ ~TooLarge]
    /\ UNCHANGED <<ucall, target, tmpVars, ufaults, ucrashes>>

\* The upload is made before the size is looked at.
CreateUpload ==
    /\ upc = "create"
    /\ upc' = IF TooLarge THEN "failed" ELSE "part"
    /\ open' = TRUE /\ resumed' = FALSE /\ tries' = 1
    /\ stored' = [n \in Number |-> 0] /\ placed' = [n \in Number |-> NoPart]
    /\ saved' = [NotSaved EXCEPT !.known = ucall.checkpoint /\ ~TooLarge]
    /\ UNCHANGED <<ucall, target, tmpVars, ufaults, ucrashes>>

AllPlaced ==
    /\ upc = "part" /\ Placed = Parts
    /\ upc' = "complete" /\ tries' = 1
    /\ UNCHANGED <<ucall, partState, target, tmpVars, ufaults, ucrashes>>

Assembled == [i \in Parts |-> placed[i].range]
\* The parts are named by number and content; ufile names them by content, in their order.
Matches ==
    /\ open
    /\ IF ucall.up.number = 0
       THEN \A i \in Parts : placed[i].num = i /\ stored[i] = placed[i].range
       ELSE \A i \in Parts : \E n \in Parts : stored[n] = placed[i].range

CompleteUpload ==
    /\ upc = "complete" /\ Matches
    /\ target' = Assembled /\ open' = FALSE
    /\ saved' = NotSaved
    /\ upc' = "ok"
    /\ UNCHANGED <<ucall, tries, stored, placed, resumed, tmpVars, ufaults, ucrashes>>

CompleteRefused ==
    /\ upc = "complete" /\ (~Matches \/ \E i \in Parts : placed[i].range # i)
    /\ upc' = "abort"
    /\ UNCHANGED <<ucall, tries, partState, target, tmpVars, ufaults, ucrashes>>

\* A request fails, or its answer is lost; it is made again, with the same result if it
\* took effect, unless that was to complete an upload.
GivenUp ==
    CASE upc = "create" -> "failed"
      [] upc \in {"part", "tcreate", "complete"} -> "abort"
      [] upc \in {"tparts", "tcomplete"} -> "tabort"
      [] upc = "tcopy" -> "tdrop"

UploadFails ==
    /\ upc \in {"create", "part", "tcreate", "tparts", "tcomplete", "tcopy", "complete"}
    /\ upc = "part" => NotTaken /\ ~Copied(Next1)
    /\ UploadFault
    /\ \/ UNCHANGED <<stored, target, open, tmp>>
       \/ /\ upc \in {"part", "tcopy"} /\ Taken(Next1)
          /\ stored' = [stored EXCEPT ![Next1] = Next1] /\ UNCHANGED <<target, open, tmp>>
       \/ upc = "tcomplete" /\ tmp = "open" /\ tmp' = "there" /\ UNCHANGED <<stored, target, open>>
       \/ /\ upc = "complete" /\ Matches
          /\ target' = Assembled /\ open' = FALSE /\ UNCHANGED <<stored, tmp>>
    /\ IF tries < PartAttempts
       THEN tries' = tries + 1 /\ UNCHANGED upc
       ELSE tries' = 1 /\ upc' = GivenUp
    /\ UNCHANGED <<ucall, placed, saved, resumed, stray, ucrashes>>

\* Without a checkpoint the upload is aborted; with one it is kept for the next run, unless
\* it is one of the last run already: then it is aborted and all is sent anew.
Abort ==
    /\ upc = "abort"
    /\ IF ucall.checkpoint /\ ~resumed
       THEN upc' = "failed" /\ UNCHANGED <<open, saved, ufaults>>
       ELSE /\ upc' = IF resumed THEN "create" ELSE "failed"
            /\ saved' = NotSaved
            /\ \/ open' = FALSE /\ UNCHANGED ufaults
               \/ UNCHANGED open /\ UploadFault
    /\ tries' = 1
    /\ UNCHANGED <<ucall, stored, placed, resumed, target, tmpVars, ucrashes>>

-----------------------------------------------------------------------------
\* The process dies, or ends with a failed object: the checkpoint has what it had when it was
\* written last.
UploadCrash ==
    /\ upc \notin {"idle", "dead", "ok"} /\ ucrashes < PartCrashes
    /\ upc = "failed" => ucall.checkpoint
    /\ ucrashes' = ucrashes + 1
    /\ upc' = "dead"
    /\ \/ saved' = NotSaved
       \/ \E S \in SUBSET Number :
              saved' = [saved EXCEPT !.parts = [n \in Number |-> IF n \in S THEN @[n] ELSE NoPart]]
    /\ stray' = (stray \/ tmp = "there") /\ tmp' = "absent"
    /\ placed' = [n \in Number |-> NoPart]
    /\ UNCHANGED <<ucall, tries, open, stored, resumed, target, ufaults>>

\* The upload is resumed if the object has the size and the time it had.
UploadRestart ==
    /\ upc = "dead"
    /\ \/ saved.known /\ upc' = "part" /\ resumed' = TRUE
       \/ upc' = "create" /\ resumed' = FALSE
    /\ tries' = 1
    /\ UNCHANGED <<ucall, open, stored, placed, saved, target, tmpVars, ufaults, ucrashes>>

NoUpload ==
    /\ tries = 1 /\ open = FALSE /\ stored = [n \in Number |-> 0]
    /\ placed = [n \in Number |-> NoPart] /\ saved = NotSaved /\ resumed = FALSE
    /\ target = <<>> /\ tmp = "absent" /\ stray = FALSE /\ ufaults = 0 /\ ucrashes = 0

UploadIdle == ucall = <<>> /\ upc = "idle" /\ NoUpload
UploadInit == ucall \in PartCalls /\ upc = "create" /\ NoUpload

UploadSystem ==
    \/ TakeSaved \/ SendPart \/ PartRefused \/ BeginCopy
    \/ TempCreate \/ TempParts \/ TempComplete \/ TempCopy \/ TempDelete \/ TempAbort
    \/ CreateUpload \/ AllPlaced \/ CompleteUpload \/ CompleteRefused \/ UploadFails \/ Abort
    \/ UploadRestart

UploadNext == UploadSystem \/ UploadCrash

UploadEnded == upc \in {"idle", "ok", "failed"}

-----------------------------------------------------------------------------
(* What is known, see the hazards.                                         *)

Misnumbered == ucall.up.number # 0
TooMany == Count(ucall.size) > ServiceCount
NotMoreParts == (ucall.size \div MaxCount) % Align = 0

\* Whatever fails and wherever the process dies: the object is put together from all of its
\* ranges, in their order; what is completed is what the upload has, also if an upload of
\* another run came before; no upload is left that nobody knows of, and no object of a part,
\* unless something failed; without a fault nothing fails; and the parts are as many and as
\* large as the service takes, and end where an encrypted chunk ends.
PartsRight ==
    ucall # <<>> =>
        /\ target # <<>> /\ ~Misnumbered => target = [i \in Parts |-> i]
        /\ upc = "ok" => target # <<>> /\ ~open
        /\ upc = "complete" /\ open /\ ~Misnumbered =>
               \A i \in Parts : placed[i].range = i /\ stored[i] = i
        /\ upc = "failed" => ufaults > 0 \/ TooLarge \/ TooMany \/ Misnumbered
        /\ upc = "failed" /\ open => saved.known \/ ufaults > 0 \/ TooLarge
        /\ stray => ufaults > 0 \/ ucrashes > 0
        /\ UploadEnded => tmp = "absent"
        /\ ~TooLarge =>
               /\ Count(ucall.size) <= MaxCount \/ NotMoreParts
               /\ PartSize(ucall.size) \in MinPart..MaxPart /\ PartSize(ucall.size) % Align = 0
               /\ LastSize(ucall.size) \in 1..PartSize(ucall.size)
=============================================================================
