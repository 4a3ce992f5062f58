--------------------------- MODULE TransferProofs ---------------------------
(***************************************************************************)
(* Proofs about Transfer for every number of tasks, workers, threads,      *)
(* blocks and attempts: the type invariant; that an object counted as      *)
(* copied is right; that the checkpoint and the uploads of the             *)
(* destination know of each other; and that every token of `concurrent`    *)
(* belongs to one piece of data.                                           *)
(***************************************************************************)
EXTENDS Transfer, FiniteSetTheorems, SequenceTheorems, TLAPS

-----------------------------------------------------------------------------
(* The inductive invariant, by the task and by the downloader.             *)

Parted(t) == KindOf(t) = "parts"

\* the blocks a downloader has not begun are untouched, and what it has saved is
\* for its reader
DownInv(d) ==
    /\ next[d] = 0 => ~closed[d]
    /\ \A b \in Block :
          /\ next[d] = 0 \/ b >= next[d] => blk[d][b] = "none"
          /\ blk[d][b] = "saved" => ~closed[d] /\ val[d][b] \in Version

\* the downloader of an attempt runs only once the attempt has begun
FreshInv(t) ==
    \A a \in 1..Attempts :
        a > attempt[t] \/ (a = attempt[t] /\ phase[t] \in {"queued", "copy", "resumed"}) => next[<<t, a>>] = 0

\* a task goes the way of its kind, and has read as much as its phase says
PhaseInv(t) ==
    /\ Parted(t) => phase[t] \notin {"token", "reading"} \cup Holding
    /\ phase[t] \in Upload => Parted(t)
    /\ phase[t] \in {"queued", "copy", "token"} \cup Upload => got[t] = <<>>
    /\ phase[t] = "reading" => Len(got[t]) <= Blocks
    /\ phase[t] \in {"put", "check", "verify", "copied"} => Len(got[t]) = Blocks
    /\ phase[t] \in {"check", "verify", "copied"} => Len(dst[t]) = Blocks

\* as long as the source has not changed all that was read of it is what was listed
SeenInv(t) ==
    src[t] = Listed =>
        /\ \A i \in DOMAIN got[t] : got[t][i] = Listed
        /\ \A i \in DOMAIN dst[t] : dst[t][i] \in {Listed, Corrupt}
        /\ \A a \in 1..Attempts, b \in Block : val[<<t, a>>][b] \in {Listed, Corrupt}
        /\ \A u \in Upload, b \in Block : upload[t][u].parts[b] \in {Listed, Gone}

\* a task past --check-change was copied from the version that was listed
CheckedInv(t) ==
    /\ cmd.checkChange /\ phase[t] \in {"verify", "copied"} =>
           \A i \in DOMAIN dst[t] : dst[t][i] \in {Listed, Corrupt}
    /\ cmd.checkNew /\ phase[t] = "copied" => dst[t] = got[t]

\* the upload an earlier run began is open only while the checkpoint names it, the one
\* of this run only until it has failed, unless the checkpoint names it
OpenInv(t) ==
    /\ upload[t]["resumed"].open => saved[t].id = "resumed"
    /\ upload[t]["fresh"].open =>
           IF cmd.checkpoint THEN saved[t].id = "fresh" ELSE phase[t] = "fresh"
    /\ saved[t].id # "none" => Parted(t)
    /\ saved[t].id = "resumed" => phase[t] \in {"queued", "copy", "resumed"}
    /\ saved[t].id = "none" => saved[t].parts = {}

\* the destination has each part that was sent to an upload that is open, and each part
\* the checkpoint knows of
SentInv(t) ==
    \A u \in Upload, b \in Block : upload[t][u].open =>
        /\ part[t][u][b] \in {"sent", "ok"} => upload[t][u].parts[b] # Gone
        /\ saved[t].id = u /\ b \in saved[t].parts => upload[t][u].parts[b] # Gone

\* no goroutine works for an upload before it is begun or taken up
IdleInv(t) ==
    /\ Parted(t) /\ phase[t] \in {"queued", "copy", "resumed"} =>
          /\ \A b \in Block : part[t]["fresh"][b] = "none"
          /\ ~upload[t]["fresh"].open /\ saved[t].id # "fresh"
          /\ upload[t]["fresh"].parts = NoPart
    /\ phase[t] \in {"queued", "copy"} /\ saved[t].id = "resumed" =>
          \A b \in Block : part[t]["resumed"][b] = "none"

TaskInv(t) ==
    /\ FreshInv(t) /\ PhaseInv(t) /\ SeenInv(t) /\ CheckedInv(t)
    /\ OpenInv(t) /\ SentInv(t) /\ IdleInv(t)

Inv ==
    /\ TypeOK
    /\ \A d \in Download : DownInv(d)
    /\ \A t \in Task : TaskInv(t)

-----------------------------------------------------------------------------
(* What the parts of the actions do.                                       *)

\* Close leaves the other downloaders alone, and turns saved blocks into lost ones
LEMMA CloseFacts ==
  ASSUME TypeOK, NEW d \in Download, CloseDownload(d)
  PROVE  /\ next' = next /\ parked' = parked
         /\ blk' \in [Download -> [Block -> BlockState]]
         /\ val' \in [Download -> [Block -> Version \cup {Corrupt}]]
         /\ err' \in [Download -> BOOLEAN] /\ closed' \in [Download -> BOOLEAN]
         /\ \A e \in Download \ {d} :
               closed'[e] = closed[e] /\ blk'[e] = blk[e] /\ val'[e] = val[e]
         /\ \/ next[d] = 0 /\ UNCHANGED downVars
            \/ /\ next[d] # 0 /\ closed'[d]
               /\ \A b \in Block :
                     /\ val'[d][b] = Corrupt
                     /\ blk'[d][b] = IF blk[d][b] = "saved" THEN "lost" ELSE blk[d][b]
<1>1. CASE next[d] = 0
  BY <1>1 DEF CloseDownload, downVars, TypeOK
<1>2. CASE next[d] # 0
  <2> DEFINE nb == [b \in Block |-> IF blk[d][b] = "saved" THEN "lost" ELSE blk[d][b]]
  <2>1. /\ blk' = [blk EXCEPT ![d] = nb]
        /\ val' = [val EXCEPT ![d] = [b \in Block |-> Corrupt]]
        /\ closed' = [closed EXCEPT ![d] = TRUE] /\ err' = [err EXCEPT ![d] = TRUE]
        /\ UNCHANGED <<next, parked>>
    BY <1>2 DEF CloseDownload
  <2>2. nb \in [Block -> BlockState]
    BY DEF TypeOK, BlockState
  <2>3. /\ blk \in [Download -> [Block -> BlockState]]
        /\ val \in [Download -> [Block -> Version \cup {Corrupt}]]
        /\ err \in [Download -> BOOLEAN] /\ closed \in [Download -> BOOLEAN]
    BY DEF TypeOK
  <2> HIDE DEF nb
  <2>4. /\ blk' \in [Download -> [Block -> BlockState]] /\ blk'[d] = nb
        /\ \A e \in Download \ {d} : blk'[e] = blk[e]
    BY <2>1, <2>2, <2>3
  <2>5. /\ val' \in [Download -> [Block -> Version \cup {Corrupt}]]
        /\ \A e \in Download \ {d} : val'[e] = val[e]
        /\ \A b \in Block : val'[d][b] = Corrupt
    BY <2>1, <2>3
  <2>6. /\ err' \in [Download -> BOOLEAN] /\ closed' \in [Download -> BOOLEAN]
        /\ closed'[d] /\ \A e \in Download \ {d} : closed'[e] = closed[e]
    BY <2>1, <2>3
  <2> QED
    BY <1>2, <2>1, <2>4, <2>5, <2>6 DEF nb
<1> QED
  BY <1>1, <1>2

LEMMA CurrentDown ==
  ASSUME TypeOK, NEW t \in Task
  PROVE  Current(t) \in Download
  BY DEF TypeOK, Current, Download

\* a failed attempt is followed by another, or by the end of the task
LEMMA RetryFacts ==
  ASSUME TypeOK, NEW t \in Task, Retry(t)
  PROVE  /\ CloseDownload(Current(t))
         /\ attempt' \in [Task -> 1..Attempts] /\ phase' \in [Task -> Phase]
         /\ got' = [got EXCEPT ![t] = <<>>]
         /\ \A r \in Task \ {t} : phase'[r] = phase[r] /\ attempt'[r] = attempt[r]
         /\ \/ attempt'[t] = attempt[t] + 1 /\ phase'[t] = "copy"
            \/ attempt'[t] = attempt[t] /\ phase'[t] \in {"failed", "skipped"}
<1> USE TransferAssumption
<1>0. /\ attempt \in [Task -> 1..Attempts] /\ phase \in [Task -> Phase]
      /\ {"copy", "failed", "skipped"} \subseteq Phase
      /\ CopyError(t) \in {"failed", "skipped"}
  BY DEF TypeOK, Phase, Final, CopyError
<1>1. CASE attempt[t] < Attempts
  BY <1>0, <1>1 DEF Retry, Goto
<1>2. CASE ~(attempt[t] < Attempts)
  BY <1>0, <1>2 DEF Retry, Goto
<1> QED
  BY <1>1, <1>2

LEMMA DamagedFacts ==
  ASSUME NEW data \in Seq(Version)
  PROVE  /\ Damaged(data) \in Seq(Version \cup {Corrupt})
         /\ Len(Damaged(data)) = Len(data)
         /\ \A i \in DOMAIN Damaged(data) :
               i \in DOMAIN data /\ Damaged(data)[i] \in {data[i], Corrupt}
<1>1. Damaged(data) \in [1..Len(data) -> Version \cup {Corrupt}]
  BY DEF Damaged
<1>2. Damaged(data) \in Seq(Version \cup {Corrupt})
  BY <1>1
<1> QED
  BY <1>1, <1>2 DEF Damaged

\* what is stored is the data, or the data with an end that is damaged
LEMMA StoredFacts ==
  ASSUME TypeOK, NEW t \in Task, NEW data \in Seq(Version),
         Stored(t, data) \/ Stored(t, Damaged(data))
  PROVE  /\ dst' \in [Task -> Seq(Version \cup {Corrupt})]
         /\ phase' \in [Task -> Phase]
         /\ \A r \in Task \ {t} : phase'[r] = phase[r] /\ dst'[r] = dst[r]
         /\ phase'[t] = AfterCopy
         /\ Len(dst'[t]) = Len(data)
         /\ \A i \in DOMAIN dst'[t] : i \in DOMAIN data /\ dst'[t][i] \in {data[i], Corrupt}
<1>1. AfterCopy \in Phase
  BY DEF AfterCopy, Phase, Final
<1>2. /\ dst \in [Task -> Seq(Version \cup {Corrupt})] /\ phase \in [Task -> Phase]
  BY DEF TypeOK
<1>3. PICK x \in Seq(Version \cup {Corrupt}) :
         /\ dst' = [dst EXCEPT ![t] = x] /\ phase' = [phase EXCEPT ![t] = AfterCopy]
         /\ Len(x) = Len(data)
         /\ \A i \in DOMAIN x : i \in DOMAIN data /\ x[i] \in {data[i], Corrupt}
  <2>1. CASE Stored(t, data)
    <3>1. data \in Seq(Version \cup {Corrupt})
      OBVIOUS
    <3> QED
      BY <2>1, <3>1 DEF Stored, Goto
  <2>2. CASE Stored(t, Damaged(data))
    BY <2>2, DamagedFacts DEF Stored, Goto
  <2> QED
    BY <2>1, <2>2
<1> QED
  BY <1>1, <1>2, <1>3

\* a block is read in order, and has been begun before it is saved
LEMMA CloseType ==
  ASSUME TypeOK, NEW t \in Task, CloseDownload(Current(t))
  PROVE  /\ next' \in [Download -> 0..(Blocks + 1)]
         /\ blk' \in [Download -> [Block -> BlockState]]
         /\ val' \in [Download -> [Block -> Version \cup {Corrupt}]]
         /\ err' \in [Download -> BOOLEAN] /\ closed' \in [Download -> BOOLEAN]
         /\ parked' \in [Download -> BOOLEAN]
<1>1. /\ next \in [Download -> 0..(Blocks + 1)] /\ parked \in [Download -> BOOLEAN]
  BY DEF TypeOK
<1> QED
  BY <1>1, CloseFacts, CurrentDown

-----------------------------------------------------------------------------
(* What a step does not touch.                                             *)

\* a step of task t, or of its downloader, leaves the others alone
Others(t) ==
    /\ cmd' = cmd
    /\ \A r \in Task \ {t} :
          /\ phase'[r] = phase[r] /\ attempt'[r] = attempt[r] /\ src'[r] = src[r]
          /\ got'[r] = got[r] /\ dst'[r] = dst[r]
          /\ part'[r] = part[r] /\ upload'[r] = upload[r] /\ saved'[r] = saved[r]
    /\ \A d \in Download : d[1] # t =>
          next'[d] = next[d] /\ blk'[d] = blk[d] /\ val'[d] = val[d] /\ closed'[d] = closed[d]

LEMMA DownloadOf ==
  /\ \A d \in Download : d[1] \in Task /\ d[2] \in 1..Attempts /\ d = <<d[1], d[2]>>
  /\ \A t \in Task, a \in 1..Attempts : <<t, a>> \in Download /\ <<t, a>>[1] = t /\ <<t, a>>[2] = a
  BY DEF Download

LEMMA OthersKept ==
  ASSUME Inv, NEW t \in Task, Others(t), TypeOK', TaskInv(t)',
         \A a \in 1..Attempts : DownInv(<<t, a>>)'
  PROVE  Inv'
<1>1. ASSUME NEW d \in Download PROVE DownInv(d)'
  <2>1. CASE d[1] = t
    BY <2>1, DownloadOf
  <2>2. CASE d[1] # t
    BY <2>2 DEF Inv, DownInv, Others
  <2> QED
    BY <2>1, <2>2
<1>2. ASSUME NEW r \in Task, r # t PROVE TaskInv(r)'
  <2>1. /\ cmd' = cmd
        /\ phase'[r] = phase[r] /\ attempt'[r] = attempt[r] /\ src'[r] = src[r]
        /\ got'[r] = got[r] /\ dst'[r] = dst[r]
        /\ part'[r] = part[r] /\ upload'[r] = upload[r] /\ saved'[r] = saved[r]
        /\ \A a \in 1..Attempts : next'[<<r, a>>] = next[<<r, a>>] /\ val'[<<r, a>>] = val[<<r, a>>]
    BY <1>2, DownloadOf DEF Others
  <2>2. TaskInv(r)
    BY DEF Inv
  <2>3. FreshInv(r)' /\ CheckedInv(r)' /\ PhaseInv(r)'
    BY <2>1, <2>2 DEF TaskInv, FreshInv, CheckedInv, PhaseInv, Parted, KindOf
  <2>4. SeenInv(r)'
    BY <2>1, <2>2 DEF TaskInv, SeenInv
  <2>5. OpenInv(r)' /\ SentInv(r)' /\ IdleInv(r)'
    BY <2>1, <2>2 DEF TaskInv, OpenInv, SentInv, IdleInv, Parted, KindOf
  <2> QED
    BY <2>3, <2>4, <2>5 DEF TaskInv
<1> QED
  BY <1>1, <1>2 DEF Inv

\* nothing of the invariant is about the workers, the tokens or the bounds
LEMMA DataKept ==
  ASSUME Inv, TypeOK', cmd' = cmd, UNCHANGED <<phase, attempt, dataVars, next, blk, val, closed, part, upload, saved>>
  PROVE  Inv'
<1>1. ASSUME NEW d \in Download PROVE DownInv(d)'
  BY DEF Inv, DownInv
<1>2. ASSUME NEW r \in Task PROVE TaskInv(r)'
  <2>1. TaskInv(r)
    BY DEF Inv
  <2>3. FreshInv(r)' /\ CheckedInv(r)' /\ PhaseInv(r)'
    BY <2>1 DEF TaskInv, FreshInv, CheckedInv, PhaseInv, Parted, KindOf, dataVars
  <2>4. SeenInv(r)'
    BY <2>1 DEF TaskInv, SeenInv, dataVars
  <2>5. OpenInv(r)' /\ SentInv(r)' /\ IdleInv(r)'
    BY <2>1 DEF TaskInv, OpenInv, SentInv, IdleInv, Parted, KindOf
  <2> QED
    BY <2>3, <2>4, <2>5 DEF TaskInv
<1> QED
  BY <1>1, <1>2 DEF Inv

\* what is known of the uploads of a task stays true as the task goes on, unless it is
\* begun anew
LEMMA PartsKept ==
  ASSUME NEW t \in Task, TypeOK, TaskInv(t), cmd' = cmd, phase' \in [Task -> Phase],
         upload'[t] = upload[t], saved'[t] = saved[t],
         \A u \in Upload : part'[t][u] = part[t][u],
         ~Parted(t) \/ /\ phase'[t] \in {"queued", "copy"} => phase[t] \in {"queued", "copy"}
                       /\ phase'[t] = "resumed" => phase[t] = "resumed"
                       /\ saved[t].id = "resumed" => phase'[t] \in {"queued", "copy", "resumed"}
                       /\ phase[t] = "fresh" => phase'[t] = "fresh"
  PROVE  OpenInv(t)' /\ SentInv(t)' /\ IdleInv(t)'
<1>1. OpenInv(t)'
  BY DEF TaskInv, OpenInv, PhaseInv, Parted, KindOf, Upload
<1>2. SentInv(t)'
  BY DEF TaskInv, SentInv, Upload
<1>3. IdleInv(t)'
  BY DEF TaskInv, IdleInv, OpenInv, Parted, KindOf, Upload
<1> QED
  BY <1>1, <1>2, <1>3

LEMMA InitInv == Init => Inv
<1> SUFFICES ASSUME Init PROVE Inv
  OBVIOUS
<1> USE TransferAssumption
<1>1. cmd \in Command /\ cmd.kind \in [Task -> Kind] /\ cmd.checkpoint \in BOOLEAN
  BY DEF Init
<1>2. PICK left \in {FALSE, cmd.checkpoint}, known \in {{}, {1}}, gone \in BOOLEAN :
         LET old(t) == KindOf(t) = "parts" /\ left IN
         /\ saved = [t \in Task |-> IF old(t) THEN [id |-> "resumed", parts |-> known] ELSE NoUpload]
         /\ upload = [t \in Task |-> [u \in Upload |->
               IF u = "resumed" /\ old(t) /\ ~gone
               THEN [open |-> TRUE, parts |-> [b \in Block |-> IF b \in known THEN Listed ELSE Gone]]
               ELSE [open |-> FALSE, parts |-> NoPart]]]
  BY DEF Init
<1> DEFINE kept == [b \in Block |-> IF b \in known THEN Listed ELSE Gone]
<1>3. /\ 1 \in Block /\ Listed \in Version /\ known \subseteq Block
      /\ NoPart \in [Block -> Version \cup {Gone}] /\ kept \in [Block -> Version \cup {Gone}]
      /\ \A b \in Block : NoPart[b] = Gone /\ kept[b] \in {Listed, Gone} /\ (b \in known => kept[b] = Listed)
  BY DEF Block, Listed, Version, NoPart
<1>4. ASSUME NEW t \in Task
      PROVE  /\ saved[t] = IF Parted(t) /\ left THEN [id |-> "resumed", parts |-> known] ELSE NoUpload
             /\ upload[t]["fresh"] = [open |-> FALSE, parts |-> NoPart]
             /\ upload[t]["resumed"] = IF Parted(t) /\ left /\ ~gone THEN [open |-> TRUE, parts |-> kept]
                                       ELSE [open |-> FALSE, parts |-> NoPart]
  BY <1>2 DEF Parted, Upload
<1>5. /\ saved \in [Task -> [id : Upload \cup {"none"}, parts : SUBSET Block]]
      /\ upload \in [Task -> [Upload -> [open : BOOLEAN, parts : [Block -> Version \cup {Gone}]]]]
  <2> DEFINE U == [open : BOOLEAN, parts : [Block -> Version \cup {Gone}]]
             S == [id : Upload \cup {"none"}, parts : SUBSET Block]
  <2>1. [open |-> TRUE, parts |-> kept] \in U /\ [open |-> FALSE, parts |-> NoPart] \in U
    BY <1>3
  <2>2. [id |-> "resumed", parts |-> known] \in S /\ NoUpload \in S
    BY <1>3 DEF Upload, NoUpload
  <2> HIDE DEF U, S
  <2>3. saved \in [Task -> S]
    BY <1>2, <2>2
  <2>4. upload \in [Task -> [Upload -> U]]
    BY <1>2, <2>1 DEF kept
  <2> QED
    BY <2>3, <2>4 DEF U, S
<1> HIDE DEF kept
<1>6. TypeOK
  <2>1. /\ tokens \in 0..Threads /\ holders \in Seq(Task)
        /\ pc \in [Worker -> Task \cup {"free", "receive", "gone"}]
        /\ waits \in [Worker -> Task \cup {"none"}]
    BY DEF Init
  <2>2. /\ phase \in [Task -> Phase] /\ attempt \in [Task -> 1..Attempts]
        /\ src \in [Task -> Version \cup {Gone}]
        /\ got \in [Task -> Seq(Version)] /\ dst \in [Task -> Seq(Version \cup {Corrupt})]
    BY <1>3 DEF Init, Phase
  <2>3. /\ next \in [Download -> 0..(Blocks + 1)]
        /\ blk \in [Download -> [Block -> BlockState]]
        /\ val \in [Download -> [Block -> Version \cup {Corrupt}]]
        /\ err \in [Download -> BOOLEAN] /\ closed \in [Download -> BOOLEAN]
        /\ parked \in [Download -> BOOLEAN]
    BY DEF Init, BlockState
  <2>4. /\ part \in [Task -> [Stage -> [Block -> {"none", "wait", "run", "sent", "ok", "bad"}]]]
        /\ aborted \in [Task -> SUBSET Stage]
        /\ faults \in 0..MaxFaults /\ changes \in 0..MaxChanges
    BY DEF Init
  <2> QED
    BY <1>1, <1>5, <2>1, <2>2, <2>3, <2>4 DEF TypeOK
<1>7. ASSUME NEW d \in Download PROVE DownInv(d)
  BY DEF Init, DownInv
<1>8. ASSUME NEW t \in Task PROVE TaskInv(t)
  <2>1. FreshInv(t) /\ PhaseInv(t) /\ CheckedInv(t)
    BY DownloadOf DEF Init, FreshInv, PhaseInv, CheckedInv, Upload, Holding
  <2>2. SeenInv(t)
    BY <1>3, <1>4, DownloadOf DEF Init, SeenInv, Upload
  <2>3. OpenInv(t)
    <3>1. phase[t] = "queued"
      BY DEF Init
    <3>2. ~upload[t]["fresh"].open /\ (upload[t]["resumed"].open => Parted(t) /\ left)
      BY <1>4
    <3>3. CASE Parted(t) /\ left
      BY <1>4, <3>1, <3>2, <3>3 DEF OpenInv
    <3>4. CASE ~(Parted(t) /\ left)
      BY <1>4, <3>1, <3>2, <3>4 DEF OpenInv, NoUpload
    <3> QED
      BY <3>3, <3>4
  <2>4. SentInv(t)
    BY <1>3, <1>4 DEF SentInv, Init, NoUpload, Upload, Stage, Listed, Gone
  <2>5. IdleInv(t)
    BY <1>4 DEF IdleInv, Init, NoUpload, Upload, Stage
  <2> QED
    BY <2>1, <2>2, <2>3, <2>4, <2>5 DEF TaskInv
<1> QED
  BY <1>6, <1>7, <1>8 DEF Inv

-----------------------------------------------------------------------------
(* Steps that no data is touched by.                                       *)

LEMMA TokenType ==
  ASSUME TypeOK, Take \/ Release
  PROVE  tokens' \in 0..Threads
  BY TransferAssumption DEF TypeOK, Take, Release

LEMMA FaultType ==
  ASSUME TypeOK, Fault \/ UNCHANGED boundVars
  PROVE  faults' \in 0..MaxFaults /\ changes' \in 0..MaxChanges
<1>1. faults \in 0..MaxFaults /\ changes \in 0..MaxChanges
  BY DEF TypeOK
<1> QED
  BY <1>1, TransferAssumption DEF Fault, boundVars

LEMMA WorkerStep ==
  ASSUME Inv, NEW w \in Worker, PopHolder(w) \/ HolderDone(w) \/ Leave(w) \/ TaskDone(w)
  PROVE  Inv'
<1>1. /\ UNCHANGED <<cmd, tokens, phase, attempt, dataVars, downVars, partVars, boundVars>>
  BY DEF PopHolder, HolderDone, Leave, TaskDone
<1>2. TypeOK
  BY DEF Inv
<1>3. /\ holders' \in Seq(Task)
      /\ pc' \in [Worker -> Task \cup {"free", "receive", "gone"}]
      /\ waits' \in [Worker -> Task \cup {"none"}]
  <2>1. /\ holders \in Seq(Task) /\ pc \in [Worker -> Task \cup {"free", "receive", "gone"}]
        /\ waits \in [Worker -> Task \cup {"none"}]
    BY <1>2 DEF TypeOK
  <2>2. CASE PopHolder(w)
    <3>1. CASE holders = <<>>
      BY <2>1, <2>2, <3>1 DEF PopHolder
    <3>2. CASE holders # <<>>
      <4>1. Len(holders) \in 1..Len(holders) /\ holders[Len(holders)] \in Task
        BY <2>1, <3>2
      <4>2. SubSeq(holders, 1, Len(holders) - 1) \in Seq(Task)
        BY <2>1, <4>1
      <4> QED
        BY <2>1, <2>2, <3>2, <4>1, <4>2 DEF PopHolder
    <3> QED
      BY <3>1, <3>2
  <2>3. CASE HolderDone(w)
    BY <2>1, <2>3 DEF HolderDone
  <2>4. CASE Leave(w) \/ TaskDone(w)
    BY <2>1, <2>4 DEF Leave, TaskDone
  <2> QED
    BY <2>2, <2>3, <2>4
<1>4. TypeOK'
  BY <1>1, <1>2, <1>3 DEF TypeOK, dataVars, downVars, partVars, boundVars
<1> QED
  BY <1>1, <1>4, DataKept DEF dataVars, downVars, partVars

\* the phase of a task moves on and nothing else of it does, or nothing its state says
LEMMA PhaseMoves ==
  ASSUME Inv, NEW t \in Task, NEW p \in Phase, Goto(t, p), cmd' = cmd,
         TypeOK', UNCHANGED <<attempt, dataVars, upload, saved>>,
         \A r \in Task, u \in Upload : part'[r][u] = part[r][u],
         \A r \in Task \ {t} : part'[r] = part[r],
         UNCHANGED downVars \/ CloseDownload(Current(t)),
         PhaseInv(t)', CheckedInv(t)',
         p # "resumed", p \in {"queued", "copy"} => phase[t] \in {"queued", "copy"},
         ~Parted(t) \/ /\ saved[t].id = "resumed" => p \in {"queued", "copy", "resumed"}
                       /\ phase[t] = "fresh" => p = "fresh"
  PROVE  Inv'
<1>1. TypeOK /\ TaskInv(t)
  BY DEF Inv
<1>2. phase' = [phase EXCEPT ![t] = p] /\ phase'[t] = p
  BY <1>1 DEF Goto, TypeOK
<1>3. /\ next' = next
      /\ \A d \in Download : d # Current(t) =>
            blk'[d] = blk[d] /\ val'[d] = val[d] /\ closed'[d] = closed[d]
      /\ Current(t) \in Download
  BY <1>1, CloseFacts, CurrentDown DEF downVars
<1>4. Others(t)
  BY <1>2, <1>3 DEF Others, dataVars, Current, Goto, TypeOK, Inv
<1>5. ASSUME NEW d \in Download PROVE DownInv(d)'
  <2>1. DownInv(d)
    BY DEF Inv
  <2>2. CASE UNCHANGED downVars
    BY <2>1, <2>2 DEF DownInv, downVars
  <2>3. CASE CloseDownload(Current(t))
    BY <1>1, <1>3, <2>1, <2>3, CloseFacts DEF DownInv, downVars
  <2> QED
    BY <2>2, <2>3
<1>6. FreshInv(t)'
  BY <1>1, <1>2, <1>3 DEF TaskInv, FreshInv, Current
<1>7. \A a \in 1..Attempts, b \in Block :
         val'[<<t, a>>][b] = val[<<t, a>>][b] \/ val'[<<t, a>>][b] = Corrupt
  BY <1>1, <1>3, CloseFacts, DownloadOf DEF downVars
<1>8. SeenInv(t)'
  BY <1>1, <1>7 DEF TaskInv, SeenInv, dataVars
<1>9. OpenInv(t)' /\ SentInv(t)' /\ IdleInv(t)'
  <2>1. phase' \in [Task -> Phase]
    BY DEF TypeOK
  <2> QED
    BY <1>1, <1>2, <2>1, PartsKept DEF partVars
<1>10. TaskInv(t)'
  BY <1>6, <1>8, <1>9 DEF TaskInv
<1>11. \A a \in 1..Attempts : DownInv(<<t, a>>)'
  BY <1>5, DownloadOf
<1> QED
  BY <1>4, <1>10, <1>11, OthersKept

LEMMA MoveStep ==
  ASSUME Inv, NEW t \in Task,
         \/ (\E w \in Worker : Receive(w, t)) \/ TokenDirect(t) \/ GetGone(t) \/ NoTempFile(t)
         \/ CheckChanged(t) \/ StartVerify(t) \/ VerifyFails(t) \/ Verified(t)
  PROVE  Inv'
<1>1. TypeOK /\ TaskInv(t)
  BY DEF Inv
<1>2. /\ UNCHANGED <<cmd, attempt, dataVars, upload, saved>>
      /\ UNCHANGED downVars \/ CloseDownload(Current(t))
  BY DEF Receive, TokenDirect, GetGone, NoTempFile, CheckChanged, StartVerify, VerifyFails,
         Verified, partVars
<1>3. /\ next' \in [Download -> 0..(Blocks + 1)]
      /\ blk' \in [Download -> [Block -> BlockState]]
      /\ val' \in [Download -> [Block -> Version \cup {Corrupt}]]
      /\ err' \in [Download -> BOOLEAN] /\ closed' \in [Download -> BOOLEAN]
      /\ parked' \in [Download -> BOOLEAN]
  <2>1. CASE UNCHANGED downVars
    BY <1>1, <2>1 DEF downVars, TypeOK
  <2>2. CASE CloseDownload(Current(t))
    BY <1>1, <2>2, CloseType
  <2> QED
    BY <1>2, <2>1, <2>2
<1>4. /\ tokens' \in 0..Threads /\ faults' \in 0..MaxFaults /\ changes' \in 0..MaxChanges
  <2>1. tokens' = tokens \/ Take \/ Release
    BY DEF Receive, TokenDirect, GetGone, NoTempFile, CheckChanged, StartVerify, VerifyFails, Verified
  <2>2. Fault \/ UNCHANGED boundVars
    BY DEF Receive, TokenDirect, GetGone, NoTempFile, CheckChanged, StartVerify, VerifyFails, Verified
  <2> QED
    BY <1>1, <2>1, <2>2, TokenType, FaultType DEF TypeOK
<1>5. /\ holders' \in Seq(Task)
      /\ pc' \in [Worker -> Task \cup {"free", "receive", "gone"}]
      /\ waits' \in [Worker -> Task \cup {"none"}]
  <2>1. /\ holders \in Seq(Task) /\ pc \in [Worker -> Task \cup {"free", "receive", "gone"}]
        /\ waits \in [Worker -> Task \cup {"none"}]
    BY <1>1 DEF TypeOK
  <2>2. CASE UNCHANGED workVars
    BY <2>1, <2>2 DEF workVars
  <2>3. ASSUME NEW w \in Worker, Receive(w, t) PROVE <1>5!:
    <3>1. cmd.holds[t] \in Nat
      BY <1>1, TransferAssumption DEF TypeOK
    <3>2. [i \in 1..cmd.holds[t] |-> t] \in Seq(Task)
      BY <3>1
    <3>3. holders' \in Seq(Task)
      BY <2>1, <2>3, <3>2, ConcatProperties DEF Receive
    <3> QED
      BY <2>1, <2>3, <3>3 DEF Receive
  <2> QED
    BY <2>2, <2>3 DEF TokenDirect, GetGone, NoTempFile, CheckChanged, StartVerify, VerifyFails, Verified
<1>6. /\ aborted' \in [Task -> SUBSET Stage]
      /\ part' \in [Task -> [Stage -> [Block -> {"none", "wait", "run", "sent", "ok", "bad"}]]]
      /\ \A r \in Task, u \in Upload : part'[r][u] = part[r][u]
      /\ \A r \in Task \ {t} : part'[r] = part[r]
  <2>1. /\ aborted \in [Task -> SUBSET Stage] /\ "verify" \in Stage /\ "verify" \notin Upload
        /\ part \in [Task -> [Stage -> [Block -> {"none", "wait", "run", "sent", "ok", "bad"}]]]
        /\ Upload \subseteq Stage
    BY <1>1 DEF TypeOK, Stage, Upload
  <2>2. CASE UNCHANGED part
    <3>1. UNCHANGED aborted \/ aborted' = [aborted EXCEPT ![t] = @ \cup {"verify"}]
      BY <2>2 DEF Receive, TokenDirect, GetGone, NoTempFile, CheckChanged, StartVerify, VerifyFails,
         Verified, partVars
    <3> QED
      BY <2>1, <2>2, <3>1
  <2>3. CASE StartVerify(t)
    <3> DEFINE np == [b \in Block |-> IF Large(t) \/ b = 1 THEN "wait" ELSE "none"]
    <3>1. part' = [part EXCEPT ![t] = [part[t] EXCEPT !["verify"] = np]] /\ UNCHANGED aborted
      BY <2>3 DEF StartVerify
    <3>2. np \in [Block -> {"none", "wait", "run", "sent", "ok", "bad"}]
      OBVIOUS
    <3> HIDE DEF np
    <3>3. part[t] \in [Stage -> [Block -> {"none", "wait", "run", "sent", "ok", "bad"}]]
      BY <2>1
    <3> QED
      BY <2>1, <3>1, <3>2, <3>3
  <2> QED
    BY <2>2, <2>3 DEF Receive, TokenDirect, GetGone, NoTempFile, CheckChanged, VerifyFails,
       Verified, partVars
<1>7. ASSUME NEW p \in Phase, Goto(t, p),
             p # "resumed", p \in {"queued", "copy"} => phase[t] \in {"queued", "copy"},
             ~Parted(t) \/ /\ saved[t].id = "resumed" => p \in {"queued", "copy", "resumed"}
                           /\ phase[t] = "fresh" => p = "fresh",
             PhaseInv(t)', CheckedInv(t)'
      PROVE  Inv'
  <2>1. phase' \in [Task -> Phase]
    BY <1>1, <1>7 DEF TypeOK, Goto
  <2>2. TypeOK'
    BY <1>1, <1>2, <1>3, <1>4, <1>5, <1>6, <2>1 DEF TypeOK, dataVars
  <2> QED
    BY <1>2, <1>6, <1>7, <2>2, PhaseMoves
<1> DEFINE Good(p) == /\ p \in {"queued", "copy"} => phase[t] \in {"queued", "copy"}
                      /\ ~Parted(t) \/ /\ saved[t].id = "resumed" => p \in {"queued", "copy", "resumed"}
                                       /\ phase[t] = "fresh" => p = "fresh"
<1>8. /\ cmd'.kind = cmd.kind /\ (Parted(t)' <=> Parted(t))
      /\ got'[t] = got[t] /\ dst'[t] = dst[t] /\ src'[t] = src[t]
  BY <1>2 DEF dataVars, Parted, KindOf
<1>9. \A p \in Phase : Goto(t, p) => phase'[t] = p
  BY <1>1 DEF Goto, TypeOK
<1>10. /\ PhaseInv(t) /\ CheckedInv(t) /\ SeenInv(t) /\ OpenInv(t)
  BY <1>1 DEF TaskInv
<1>11. ASSUME NEW w \in Worker, Receive(w, t) PROVE Inv'
  <2>1. phase[t] = "queued" /\ Goto(t, "copy") /\ "copy" \in Phase
    BY <1>11 DEF Receive, Phase
  <2>2. phase'[t] = "copy"
    BY <1>9, <2>1
  <2>3. PhaseInv(t)' /\ CheckedInv(t)'
    BY <1>8, <1>10, <2>1, <2>2 DEF PhaseInv, CheckedInv, Upload, Holding
  <2> QED
    BY <1>7, <2>1, <2>3
<1>12. CASE TokenDirect(t)
  <2>1. ~Parted(t) /\ Goto(t, "get") /\ "get" \in Phase
    BY <1>10, <1>12 DEF TokenDirect, Phase, Holding, PhaseInv, Parted
  <2>2. phase'[t] = "get"
    BY <1>9, <2>1
  <2>3. PhaseInv(t)' /\ CheckedInv(t)'
    BY <1>8, <1>10, <2>1, <2>2 DEF PhaseInv, CheckedInv, Upload, Holding
  <2> QED
    BY <1>7, <2>1, <2>3
<1>13. CASE GetGone(t)
  <2>1. ~Parted(t) /\ Goto(t, "skipped") /\ "skipped" \in Phase
    BY <1>10, <1>13 DEF GetGone, Phase, Holding, PhaseInv, Final
  <2>2. phase'[t] = "skipped"
    BY <1>9, <2>1
  <2>3. PhaseInv(t)' /\ CheckedInv(t)'
    BY <1>8, <1>10, <2>1, <2>2 DEF PhaseInv, CheckedInv, Upload, Holding
  <2> QED
    BY <1>7, <2>1, <2>3
<1>14. CASE NoTempFile(t)
  <2>1. ~Parted(t) /\ Goto(t, "token") /\ "token" \in Phase /\ got[t] = <<>>
    BY <1>10, <1>14 DEF NoTempFile, Phase, Holding, PhaseInv, Parted
  <2>2. phase'[t] = "token"
    BY <1>9, <2>1
  <2>3. PhaseInv(t)' /\ CheckedInv(t)'
    BY <1>8, <1>10, <2>1, <2>2 DEF PhaseInv, CheckedInv, Upload, Holding
  <2> QED
    BY <1>7, <2>1, <2>3
<1>15. phase[t] \in {"check", "verify"} => Good("verify") /\ Good("copied") /\ Good("failed")
  BY <1>10 DEF OpenInv
<1>16. {"verify", "copied", "failed"} \subseteq Phase
  BY DEF Phase, Final
<1>17. CASE CheckChanged(t)
  <2>1. phase[t] = "check"
    BY <1>17 DEF CheckChanged
  <2>2. PICK p \in {"verify", "copied", "failed"} :
            /\ Goto(t, p)
            /\ p # "failed" => src[t] = Listed /\ (p = "copied" => ~cmd.checkNew)
    BY <1>17 DEF CheckChanged
  <2>3. phase'[t] = p
    BY <1>9, <1>16, <2>2
  <2>4. PhaseInv(t)' /\ CheckedInv(t)'
    BY <1>2, <1>8, <1>10, <2>1, <2>2, <2>3 DEF PhaseInv, CheckedInv, SeenInv, Upload, Holding
  <2> QED
    BY <1>7, <1>15, <1>16, <2>1, <2>2, <2>4
<1>18. CASE StartVerify(t)
  <2>1. phase[t] = "verify" /\ phase' = phase
    BY <1>18 DEF StartVerify
  <2>2. Goto(t, "verify") /\ "verify" \in Phase
    BY <1>1, <2>1 DEF Goto, Phase, TypeOK
  <2>3. PhaseInv(t)' /\ CheckedInv(t)'
    BY <1>2, <1>8, <1>10, <2>1 DEF PhaseInv, CheckedInv, Upload, Holding
  <2> QED
    BY <1>7, <1>15, <2>1, <2>2, <2>3
<1>19. CASE VerifyFails(t) \/ Verified(t)
  <2>1. phase[t] = "verify"
    BY <1>19 DEF VerifyFails, Verified
  <2>2. PICK p \in {"copied", "failed"} : Goto(t, p) /\ (p = "copied" => dst[t] = got[t])
    BY <1>19 DEF VerifyFails, Verified
  <2>3. phase'[t] = p
    BY <1>9, <1>16, <2>2
  <2>4. PhaseInv(t)' /\ CheckedInv(t)'
    BY <1>2, <1>8, <1>10, <2>1, <2>2, <2>3 DEF PhaseInv, CheckedInv, Upload, Holding
  <2> QED
    BY <1>7, <1>15, <1>16, <2>1, <2>2, <2>4
<1> QED
  BY <1>11, <1>12, <1>13, <1>14, <1>17, <1>18, <1>19

-----------------------------------------------------------------------------
(* Steps that read and store data outside of a multipart upload.           *)

LEMMA CloseDown ==
  ASSUME Inv, NEW t \in Task, CloseDownload(Current(t))
  PROVE  /\ \A d \in Download : DownInv(d)'
         /\ \A d \in Download : d[1] # t =>
               next'[d] = next[d] /\ blk'[d] = blk[d] /\ val'[d] = val[d] /\ closed'[d] = closed[d]
         /\ next' = next
         /\ \A a \in 1..Attempts, b \in Block :
               val'[<<t, a>>][b] = val[<<t, a>>][b] \/ val'[<<t, a>>][b] = Corrupt
<1>1. TypeOK /\ Current(t) \in Download /\ Current(t)[1] = t
  BY CurrentDown DEF Inv, Current
<1>2. ASSUME NEW d \in Download PROVE DownInv(d)'
  <2>1. DownInv(d)
    BY DEF Inv
  <2> QED
    BY <1>1, <2>1, CloseFacts DEF DownInv, downVars
<1>3. /\ next' = next
      /\ \A d \in Download : d[1] # t =>
            next'[d] = next[d] /\ blk'[d] = blk[d] /\ val'[d] = val[d] /\ closed'[d] = closed[d]
  BY <1>1, CloseFacts
<1>4. ASSUME NEW d \in Download, NEW b \in Block
      PROVE  val'[d][b] = val[d][b] \/ val'[d][b] = Corrupt
  BY <1>1, CloseFacts DEF downVars
<1> QED
  BY <1>2, <1>3, <1>4, DownloadOf

\* doCopySingle0 reads the object
LEMMA GetStep ==
  ASSUME Inv, NEW t \in Task, GetDirect(t)
  PROVE  Inv'
<1> DEFINE data == [b \in Block |-> src[t]]
<1>1. TypeOK /\ TaskInv(t)
  BY DEF Inv
<1>2. src[t] \in Version /\ ~Parted(t) /\ phase[t] = "get"
  BY <1>1 DEF GetDirect, TypeOK, TaskInv, PhaseInv, Holding
<1>3. data \in Seq(Version) /\ Len(data) = Blocks /\ \A i \in DOMAIN data : data[i] = src[t]
  BY <1>2, TransferAssumption DEF Block
<1> HIDE DEF data
<1>4. /\ UNCHANGED <<cmd, tokens, workVars, attempt, src, dst, downVars, partVars, boundVars>>
      /\ got' = [got EXCEPT ![t] = data] /\ phase' = [phase EXCEPT ![t] = "put"]
  BY DEF GetDirect, Goto, data
<1>5. /\ got' \in [Task -> Seq(Version)] /\ got'[t] = data
      /\ phase' \in [Task -> Phase] /\ phase'[t] = "put"
      /\ \A r \in Task \ {t} : got'[r] = got[r] /\ phase'[r] = phase[r]
  <2>1. got \in [Task -> Seq(Version)] /\ phase \in [Task -> Phase] /\ "put" \in Phase
    BY <1>1 DEF TypeOK, Phase, Holding
  <2> QED
    BY <1>3, <1>4, <2>1
<1>6. TypeOK'
  BY <1>1, <1>4, <1>5 DEF TypeOK, workVars, downVars, partVars, boundVars
<1>7. Others(t) /\ \A a \in 1..Attempts : DownInv(<<t, a>>)'
  BY <1>4, <1>5, DownloadOf DEF Others, downVars, partVars, Inv, DownInv
<1>8. FreshInv(t)' /\ CheckedInv(t)' /\ PhaseInv(t)'
  BY <1>1, <1>2, <1>3, <1>4, <1>5
     DEF TaskInv, FreshInv, CheckedInv, PhaseInv, downVars, Parted, KindOf, Upload, Holding
<1>9. SeenInv(t)'
  BY <1>1, <1>3, <1>4, <1>5 DEF TaskInv, SeenInv, downVars, partVars
<1>10. OpenInv(t)' /\ SentInv(t)' /\ IdleInv(t)'
  BY <1>1, <1>2, <1>4, <1>5, PartsKept DEF partVars
<1> QED
  BY <1>6, <1>7, <1>8, <1>9, <1>10, OthersKept DEF TaskInv

\* what was read is stored
LEMMA PutStep ==
  ASSUME Inv, NEW t \in Task, PutDirect(t) \/ PutRead(t)
  PROVE  Inv'
<1>1. TypeOK /\ TaskInv(t) /\ got[t] \in Seq(Version)
  BY DEF Inv, TypeOK
<1>2. Len(got[t]) = Blocks /\ ~Parted(t)
  <2>1. CASE PutDirect(t)
    BY <1>1, <2>1 DEF PutDirect, TaskInv, PhaseInv, Holding
  <2>2. CASE PutRead(t)
    BY <1>1, <2>2, TransferAssumption DEF PutRead, At, Block, TaskInv, PhaseInv
  <2> QED
    BY <2>1, <2>2
<1>3. /\ UNCHANGED <<cmd, workVars, attempt, src, got, partVars>>
      /\ CloseDownload(Current(t))
      /\ Stored(t, got[t]) \/ Stored(t, Damaged(got[t]))
      /\ tokens' = tokens \/ Release
      /\ Fault \/ UNCHANGED boundVars
  BY DEF PutDirect, PutRead
<1>4. /\ dst' \in [Task -> Seq(Version \cup {Corrupt})] /\ phase' \in [Task -> Phase]
      /\ \A r \in Task \ {t} : phase'[r] = phase[r] /\ dst'[r] = dst[r]
      /\ phase'[t] = AfterCopy /\ Len(dst'[t]) = Blocks
      /\ \A i \in DOMAIN dst'[t] : i \in DOMAIN got[t] /\ dst'[t][i] \in {got[t][i], Corrupt}
  BY <1>1, <1>2, <1>3, StoredFacts
<1>5. AfterCopy \in {"check", "verify", "copied"}
      /\ (AfterCopy # "check" => ~cmd.checkChange) /\ (AfterCopy = "copied" => ~cmd.checkNew)
  BY DEF AfterCopy
<1>6. TypeOK'
  <2>1. tokens' \in 0..Threads /\ faults' \in 0..MaxFaults /\ changes' \in 0..MaxChanges
    BY <1>1, <1>3, TokenType, FaultType DEF TypeOK
  <2> QED
    BY <1>1, <1>3, <1>4, <2>1, CloseType DEF TypeOK, workVars, partVars
<1>7. Others(t) /\ \A a \in 1..Attempts : DownInv(<<t, a>>)'
  BY <1>3, <1>4, CloseDown, DownloadOf DEF Others, partVars
<1>8. FreshInv(t)' /\ CheckedInv(t)' /\ PhaseInv(t)'
  BY <1>1, <1>2, <1>3, <1>4, <1>5, CloseDown
     DEF TaskInv, FreshInv, CheckedInv, PhaseInv, Parted, KindOf, Upload, Holding
<1>9. SeenInv(t)'
  BY <1>1, <1>3, <1>4, CloseDown DEF TaskInv, SeenInv, partVars
<1>10. OpenInv(t)' /\ SentInv(t)' /\ IdleInv(t)'
  BY <1>1, <1>2, <1>3, <1>4, PartsKept DEF partVars
<1> QED
  BY <1>6, <1>7, <1>8, <1>9, <1>10, OthersKept DEF TaskInv

\* an attempt fails
LEMMA RetryStep ==
  ASSUME Inv, NEW t \in Task, DirectFails(t) \/ ReadError(t) \/ PutBreaks(t)
  PROVE  Inv'
<1>1. TypeOK /\ TaskInv(t)
  BY DEF Inv
<1>2. ~Parted(t) /\ phase[t] \notin {"queued", "copy"}
  BY <1>1 DEF DirectFails, ReadError, Reads, PutBreaks, TaskInv, PhaseInv, Holding
<1>3. /\ UNCHANGED <<cmd, workVars, src, dst, partVars>>
      /\ Retry(t)
      /\ tokens' = tokens \/ Release
      /\ Fault \/ UNCHANGED boundVars
  BY DEF DirectFails, ReadError, PutBreaks
<1>4. /\ CloseDownload(Current(t))
      /\ attempt' \in [Task -> 1..Attempts] /\ phase' \in [Task -> Phase]
      /\ got' = [got EXCEPT ![t] = <<>>]
      /\ \A r \in Task \ {t} : phase'[r] = phase[r] /\ attempt'[r] = attempt[r]
      /\ \/ attempt'[t] = attempt[t] + 1 /\ phase'[t] = "copy"
         \/ attempt'[t] = attempt[t] /\ phase'[t] \in {"failed", "skipped"}
  BY <1>1, <1>3, RetryFacts
<1>5. /\ got' \in [Task -> Seq(Version)] /\ got'[t] = <<>>
      /\ \A r \in Task \ {t} : got'[r] = got[r]
  <2>1. got \in [Task -> Seq(Version)] /\ <<>> \in Seq(Version)
    BY <1>1 DEF TypeOK
  <2> QED
    BY <1>4, <2>1
<1>6. TypeOK'
  <2>1. tokens' \in 0..Threads /\ faults' \in 0..MaxFaults /\ changes' \in 0..MaxChanges
    BY <1>1, <1>3, TokenType, FaultType DEF TypeOK
  <2> QED
    BY <1>1, <1>3, <1>4, <1>5, <2>1, CloseType DEF TypeOK, workVars, partVars
<1>7. Others(t) /\ \A a \in 1..Attempts : DownInv(<<t, a>>)'
  BY <1>3, <1>4, <1>5, CloseDown, DownloadOf DEF Others, partVars
<1>8. FreshInv(t)'
  <2>1. attempt[t] \in 1..Attempts /\ attempt'[t] \in 1..Attempts /\ Attempts \in Nat
    BY <1>1, <1>6, TransferAssumption DEF TypeOK
  <2>2. \A a \in 1..Attempts : a > attempt[t] => next[<<t, a>>] = 0
    BY <1>1 DEF TaskInv, FreshInv
  <2>3. next' = next
    BY <1>4, CloseDown
  <2> QED
    BY <1>4, <2>1, <2>2, <2>3 DEF FreshInv
<1>9. CheckedInv(t)' /\ PhaseInv(t)'
  <2>1. phase'[t] \in {"copy", "failed", "skipped"} /\ ~Parted(t)'
    BY <1>2, <1>3, <1>4 DEF Parted, KindOf
  <2> QED
    BY <1>5, <2>1 DEF CheckedInv, PhaseInv, Parted, KindOf, Upload, Holding
<1>10. SeenInv(t)'
  <2>1. \A i \in DOMAIN got'[t] : got'[t][i] = Listed
    BY <1>5
  <2>2. /\ src'[t] = src[t] /\ dst'[t] = dst[t] /\ upload' = upload
        /\ \A a \in 1..Attempts, b \in Block :
              val'[<<t, a>>][b] = val[<<t, a>>][b] \/ val'[<<t, a>>][b] = Corrupt
    BY <1>3, <1>4, CloseDown DEF partVars
  <2> QED
    BY <1>1, <2>1, <2>2 DEF TaskInv, SeenInv
<1>11. OpenInv(t)' /\ SentInv(t)' /\ IdleInv(t)'
  BY <1>1, <1>2, <1>3, <1>4, PartsKept DEF partVars
<1> QED
  BY <1>6, <1>7, <1>8, <1>9, <1>10, <1>11, OthersKept DEF TaskInv

-----------------------------------------------------------------------------
(* Steps of the downloaders.                                               *)

\* a downloader goes on, and what it saves is the source as it is
LEMMA DownKept ==
  ASSUME Inv, NEW d \in Download, TypeOK', DownInv(d)',
         UNCHANGED <<cmd, phase, attempt, dataVars, partVars>>,
         \A e \in Download \ {d} :
            next'[e] = next[e] /\ blk'[e] = blk[e] /\ val'[e] = val[e] /\ closed'[e] = closed[e],
         next[d] = 0 => next'[d] = 0,
         \A b \in Block : val'[d][b] \in {val[d][b], Corrupt, src[d[1]]}
  PROVE  Inv'
<1> DEFINE t == d[1]
<1>1. TypeOK /\ t \in Task /\ TaskInv(t) /\ \A e \in Download : DownInv(e)
  BY DownloadOf DEF Inv
<1>2. Others(t)
  BY <1>1, DownloadOf DEF Others, dataVars, partVars
<1>3. \A a \in 1..Attempts : DownInv(<<t, a>>)'
  <2>1. ASSUME NEW e \in Download, e # d PROVE DownInv(e)'
    BY <1>1, <2>1 DEF DownInv
  <2> QED
    BY <2>1, DownloadOf
<1>4. \A a \in 1..Attempts : next[<<t, a>>] = 0 => next'[<<t, a>>] = 0
  BY DownloadOf
<1>5. FreshInv(t)'
  BY <1>1, <1>4 DEF TaskInv, FreshInv
<1>6. PhaseInv(t)' /\ CheckedInv(t)'
  BY <1>1 DEF TaskInv, PhaseInv, CheckedInv, Parted, KindOf, dataVars
<1>7. SeenInv(t)'
  <2>1. \A a \in 1..Attempts, b \in Block : val'[<<t, a>>][b] \in {val[<<t, a>>][b], Corrupt, src[t]}
    BY DownloadOf
  <2> QED
    BY <1>1, <2>1 DEF TaskInv, SeenInv, dataVars, partVars
<1>8. OpenInv(t)' /\ SentInv(t)' /\ IdleInv(t)'
  BY <1>1 DEF TaskInv, OpenInv, SentInv, IdleInv, Parted, KindOf, partVars
<1> QED
  BY <1>1, <1>2, <1>3, <1>5, <1>6, <1>7, <1>8, OthersKept DEF TaskInv

\* the next block is begun, with a token
LEMMA BeginStep ==
  ASSUME Inv, NEW d \in Download, BeginBlock(d)
  PROVE  Inv'
<1>1. TypeOK /\ DownInv(d) /\ next[d] \in Block
  BY DEF Inv, BeginBlock
<1> DEFINE s == IF err[d] THEN "drop" ELSE "get"
           nb == [blk[d] EXCEPT ![next[d]] = s]
<1>2. /\ UNCHANGED <<cmd, workVars, phase, attempt, dataVars, val, err, closed, parked, partVars, boundVars>>
      /\ Take /\ blk' = [blk EXCEPT ![d] = nb] /\ next' = [next EXCEPT ![d] = next[d] + 1]
  BY DEF BeginBlock
<1>3. /\ blk \in [Download -> [Block -> BlockState]] /\ next \in [Download -> 0..(Blocks + 1)]
      /\ blk[d] \in [Block -> BlockState] /\ s \in {"drop", "get"} /\ s \in BlockState
  BY <1>1 DEF TypeOK, BlockState
<1>4. nb \in [Block -> BlockState] /\ \A b \in Block : nb[b] = IF b = next[d] THEN s ELSE blk[d][b]
  BY <1>1, <1>3
<1> HIDE DEF s, nb
<1>5. /\ blk' \in [Download -> [Block -> BlockState]] /\ blk'[d] = nb
      /\ \A e \in Download \ {d} : blk'[e] = blk[e]
  BY <1>2, <1>3, <1>4
<1>6. /\ next' \in [Download -> 0..(Blocks + 1)] /\ next'[d] = next[d] + 1
      /\ \A e \in Download \ {d} : next'[e] = next[e]
      /\ next[d] \in Nat /\ next[d] # 0
  BY <1>1, <1>2, <1>3, TransferAssumption DEF Block
<1>7. TypeOK'
  BY <1>1, <1>2, <1>5, <1>6, TokenType DEF TypeOK, workVars, dataVars, partVars, boundVars
<1>8. DownInv(d)'
  BY <1>1, <1>2, <1>3, <1>4, <1>5, <1>6 DEF DownInv, Block
<1> QED
  BY <1>2, <1>5, <1>6, <1>7, <1>8, DownKept

\* a goroutine of a block goes on
LEMMA BlockInv ==
  ASSUME Inv, NEW d \in Download, NEW b \in Block, BlockStep(d, b)
  PROVE  Inv'
<1>1. TypeOK /\ DownInv(d) /\ src[d[1]] \in Version \cup {Gone}
  BY DownloadOf DEF Inv, TypeOK
<1>2. blk[d][b] \in {"get", "drop"}
  BY DEF BlockStep, SkipBlock, SaveBlock, BlockFails, EndBlock
<1>3. /\ UNCHANGED <<cmd, workVars, phase, attempt, dataVars, next, closed, partVars>>
      /\ tokens' = tokens \/ Release
      /\ Fault \/ UNCHANGED boundVars
  BY DEF BlockStep, SkipBlock, SaveBlock, BlockFails, EndBlock, boundVars
<1>4. PICK s \in {"drop", "ended", "saved"} :
         /\ blk' = [blk EXCEPT ![d][b] = s]
         /\ \/ UNCHANGED val /\ s # "saved"
            \/ val' = [val EXCEPT ![d][b] = src[d[1]]] /\ src[d[1]] # Gone /\ ~closed[d]
         /\ UNCHANGED err \/ err' = [err EXCEPT ![d] = TRUE]
         /\ UNCHANGED parked \/ parked' = [parked EXCEPT ![d] = FALSE]
  <2>1. CASE SkipBlock(d, b) \/ BlockFails(d, b)
    BY <2>1 DEF SkipBlock, BlockFails
  <2>2. CASE EndBlock(d, b)
    BY <2>2 DEF EndBlock
  <2>3. CASE SaveBlock(d, b)
    <3>1. CASE closed[d]
      BY <2>3, <3>1 DEF SaveBlock
    <3>2. CASE ~closed[d]
      BY <2>3, <3>2 DEF SaveBlock
    <3> QED
      BY <3>1, <3>2
  <2> QED
    BY <2>1, <2>2, <2>3 DEF BlockStep
<1> DEFINE nb == [blk[d] EXCEPT ![b] = s]
<1>5. /\ blk \in [Download -> [Block -> BlockState]] /\ blk[d] \in [Block -> BlockState]
      /\ s \in BlockState
      /\ val \in [Download -> [Block -> Version \cup {Corrupt}]]
      /\ val[d] \in [Block -> Version \cup {Corrupt}]
      /\ err \in [Download -> BOOLEAN] /\ parked \in [Download -> BOOLEAN]
  BY <1>1 DEF TypeOK, BlockState
<1>6. nb \in [Block -> BlockState] /\ \A c \in Block : nb[c] = IF c = b THEN s ELSE blk[d][c]
  BY <1>5
<1>7. blk' = [blk EXCEPT ![d] = nb]
  BY <1>4
<1> HIDE DEF nb
<1>8. /\ blk' \in [Download -> [Block -> BlockState]] /\ blk'[d] = nb
      /\ \A e \in Download \ {d} : blk'[e] = blk[e]
  BY <1>5, <1>6, <1>7
<1>9. /\ val' \in [Download -> [Block -> Version \cup {Corrupt}]]
      /\ \A e \in Download \ {d} : val'[e] = val[e]
      /\ \A c \in Block \ {b} : val'[d][c] = val[d][c]
      /\ val'[d][b] \in {val[d][b], src[d[1]]}
      /\ s = "saved" => val'[d][b] \in Version /\ ~closed[d]
  <2>1. CASE UNCHANGED val /\ s # "saved"
    BY <1>5, <2>1
  <2>2. CASE val' = [val EXCEPT ![d][b] = src[d[1]]] /\ src[d[1]] # Gone /\ ~closed[d]
    <3> DEFINE nv == [val[d] EXCEPT ![b] = src[d[1]]]
    <3>1. val' = [val EXCEPT ![d] = nv] /\ src[d[1]] \in Version
      BY <1>1, <2>2
    <3>2. nv \in [Block -> Version \cup {Corrupt}] /\ nv[b] = src[d[1]]
          /\ \A c \in Block \ {b} : nv[c] = val[d][c]
      BY <1>5, <3>1
    <3> HIDE DEF nv
    <3>3. /\ val' \in [Download -> [Block -> Version \cup {Corrupt}]] /\ val'[d] = nv
          /\ \A e \in Download \ {d} : val'[e] = val[e]
      BY <1>5, <3>1, <3>2
    <3> QED
      BY <2>2, <3>1, <3>2, <3>3
  <2> QED
    BY <1>4, <2>1, <2>2
<1>10. err' \in [Download -> BOOLEAN] /\ parked' \in [Download -> BOOLEAN]
  BY <1>4, <1>5
<1>11. TypeOK'
  <2>1. tokens' \in 0..Threads /\ faults' \in 0..MaxFaults /\ changes' \in 0..MaxChanges
    BY <1>1, <1>3, TokenType, FaultType DEF TypeOK
  <2> QED
    BY <1>1, <1>3, <1>8, <1>9, <1>10, <2>1 DEF TypeOK, workVars, dataVars, partVars
<1>12. DownInv(d)'
  <2>1. next' = next /\ closed' = closed
    BY <1>3
  <2>2. ~(next[d] = 0 \/ b >= next[d])
    BY <1>1, <1>2 DEF DownInv
  <2>3. ASSUME NEW c \in Block
        PROVE  /\ next[d] = 0 \/ c >= next[d] => blk'[d][c] = "none"
               /\ blk'[d][c] = "saved" => ~closed[d] /\ val'[d][c] \in Version
    <3>1. CASE c = b
      BY <1>6, <1>8, <1>9, <2>2, <3>1
    <3>2. CASE c # b
      BY <1>1, <1>6, <1>8, <1>9, <3>2 DEF DownInv
    <3> QED
      BY <3>1, <3>2
  <2> QED
    BY <1>1, <2>1, <2>3 DEF DownInv
<1>13. \A c \in Block : val'[d][c] \in {val[d][c], Corrupt, src[d[1]]}
  BY <1>9
<1> QED
  BY <1>3, <1>8, <1>9, <1>11, <1>12, <1>13, DownKept

\* the reader waits
LEMMA WaitStep ==
  ASSUME Inv, NEW t \in Task, ReadWait(t)
  PROVE  Inv'
<1>1. TypeOK /\ Current(t) \in Download
  BY CurrentDown DEF Inv
<1>2. parked' \in [Download -> BOOLEAN]
  BY <1>1 DEF ReadWait, TypeOK
<1>3. UNCHANGED <<cmd, tokens, workVars, phase, attempt, dataVars, next, blk, val, err, closed,
                  partVars, boundVars>>
  BY DEF ReadWait
<1>4. TypeOK'
  BY <1>1, <1>2, <1>3 DEF TypeOK, workVars, dataVars, partVars, boundVars
<1> QED
  BY <1>3, <1>4, DataKept DEF partVars

\* a downloader is started, for an attempt that has none
LEMMA StartStep ==
  ASSUME Inv, NEW t \in Task, StartDownload(t)
  PROVE  Inv'
<1>0. PICK d \in Download : d = Current(t)
  BY CurrentDown DEF Inv
<1>1. TypeOK /\ TaskInv(t) /\ d = <<t, attempt[t]>> /\ attempt[t] \in 1..Attempts
      /\ \A e \in Download : DownInv(e)
  BY <1>0 DEF Inv, Current, TypeOK
<1>2. /\ phase[t] = "copy" /\ ~Parted(t) /\ got[t] = <<>> /\ next[d] = 0
  BY <1>1 DEF StartDownload, TaskInv, FreshInv, PhaseInv, Parted
<1>3. /\ UNCHANGED <<cmd, tokens, workVars, attempt, dataVars, blk, val, err, closed, parked,
                     partVars, boundVars>>
      /\ next' = [next EXCEPT ![d] = 1] /\ phase' = [phase EXCEPT ![t] = "reading"]
  BY <1>0 DEF StartDownload, Goto
<1>4. /\ next' \in [Download -> 0..(Blocks + 1)] /\ next'[d] = 1
      /\ \A e \in Download \ {d} : next'[e] = next[e]
      /\ phase' \in [Task -> Phase] /\ phase'[t] = "reading"
      /\ \A r \in Task \ {t} : phase'[r] = phase[r]
  <2>1. next \in [Download -> 0..(Blocks + 1)] /\ phase \in [Task -> Phase] /\ "reading" \in Phase
        /\ 1 \in 0..(Blocks + 1)
    BY <1>1, TransferAssumption DEF TypeOK, Phase
  <2> QED
    BY <1>1, <1>3, <2>1
<1>5. TypeOK'
  BY <1>1, <1>3, <1>4 DEF TypeOK, workVars, dataVars, partVars, boundVars
<1>6. \A a \in 1..Attempts : DownInv(<<t, a>>)'
  <2>3. \A e \in Download : DownInv(e)
    BY <1>1
  <2>4. d \in Download /\ UNCHANGED <<blk, val, closed>>
    BY <1>1, <1>3
  <2>1. DownInv(d)'
    BY <1>2, <1>4, <2>3, <2>4 DEF DownInv
  <2>2. ASSUME NEW e \in Download, e # d PROVE DownInv(e)'
    <3>1. next'[e] = next[e] /\ DownInv(e)
      BY <1>4, <2>2, <2>3
    <3> QED
      BY <2>4, <3>1 DEF DownInv
  <2> QED
    BY <2>1, <2>2, DownloadOf
<1>7. Others(t)
  BY <1>1, <1>3, <1>4, DownloadOf DEF Others, dataVars, partVars
<1>8. FreshInv(t)'
  <2>1. \A a \in 1..Attempts : a > attempt[t] => next'[<<t, a>>] = 0
    BY <1>1, <1>4, DownloadOf DEF TaskInv, FreshInv
  <2> QED
    BY <1>3, <1>4, <2>1 DEF FreshInv
<1>9. PhaseInv(t)' /\ CheckedInv(t)'
  BY <1>2, <1>3, <1>4, TransferAssumption
     DEF PhaseInv, CheckedInv, Parted, KindOf, dataVars, Upload, Holding
<1>10. SeenInv(t)'
  BY <1>1, <1>3 DEF TaskInv, SeenInv, dataVars, partVars
<1>11. OpenInv(t)' /\ SentInv(t)' /\ IdleInv(t)'
  BY <1>1, <1>2, <1>3, <1>4, PartsKept DEF partVars
<1> QED
  BY <1>5, <1>6, <1>7, <1>8, <1>9, <1>10, <1>11, OthersKept DEF TaskInv

\* the reader takes the next block
LEMMA ReadStep ==
  ASSUME Inv, NEW t \in Task, ReadBlock(t)
  PROVE  Inv'
<1>0. PICK d \in Download, b \in Block : d = Current(t) /\ b = At(t)
  BY CurrentDown DEF Inv, ReadBlock, Reads
<1>1. TypeOK /\ TaskInv(t) /\ d = <<t, attempt[t]>> /\ attempt[t] \in 1..Attempts
      /\ \A e \in Download : DownInv(e)
  BY <1>0 DEF Inv, Current, TypeOK
<1>2. /\ phase[t] = "reading" /\ ~Parted(t) /\ b \in Block /\ b = Len(got[t]) + 1
      /\ got[t] \in Seq(Version) /\ blk[d][b] = "saved" /\ val[d][b] \in Version
  BY <1>0, <1>1 DEF ReadBlock, Reads, At, TaskInv, PhaseInv, DownInv, TypeOK
<1> DEFINE nb == [blk[d] EXCEPT ![b] = "ended"]
           nv == [val[d] EXCEPT ![b] = Corrupt]
           ng == Append(got[t], val[d][b])
<1>3. /\ UNCHANGED <<cmd, workVars, phase, attempt, src, dst, next, err, closed, parked, partVars, boundVars>>
      /\ got' = [got EXCEPT ![t] = ng] /\ blk' = [blk EXCEPT ![d] = nb] /\ val' = [val EXCEPT ![d] = nv]
      /\ Release
  BY <1>0 DEF ReadBlock
<1>4. /\ blk \in [Download -> [Block -> BlockState]] /\ blk[d] \in [Block -> BlockState]
      /\ val \in [Download -> [Block -> Version \cup {Corrupt}]]
      /\ val[d] \in [Block -> Version \cup {Corrupt}] /\ "ended" \in BlockState
      /\ got \in [Task -> Seq(Version)]
  BY <1>1 DEF TypeOK, BlockState
<1>5. /\ nb \in [Block -> BlockState] /\ \A c \in Block : nb[c] = IF c = b THEN "ended" ELSE blk[d][c]
      /\ nv \in [Block -> Version \cup {Corrupt}]
      /\ \A c \in Block : nv[c] = IF c = b THEN Corrupt ELSE val[d][c]
  BY <1>2, <1>4
<1>6. /\ ng \in Seq(Version) /\ Len(ng) = b /\ \A i \in DOMAIN ng : i = b \/ i \in DOMAIN got[t]
      /\ \A i \in DOMAIN ng : ng[i] = IF i = b THEN val[d][b] ELSE got[t][i]
  BY <1>2
<1> HIDE DEF nb, nv, ng
<1>7. /\ blk' \in [Download -> [Block -> BlockState]] /\ blk'[d] = nb
      /\ val' \in [Download -> [Block -> Version \cup {Corrupt}]] /\ val'[d] = nv
      /\ \A e \in Download \ {d} : blk'[e] = blk[e] /\ val'[e] = val[e]
  BY <1>1, <1>3, <1>4, <1>5
<1>8. got' \in [Task -> Seq(Version)] /\ got'[t] = ng /\ \A r \in Task \ {t} : got'[r] = got[r]
  BY <1>3, <1>4, <1>6
<1>9. TypeOK'
  <2>1. tokens' \in 0..Threads
    BY <1>1, <1>3, TokenType
  <2> QED
    BY <1>1, <1>3, <1>7, <1>8, <2>1 DEF TypeOK, workVars, partVars, boundVars
<1>10. \A a \in 1..Attempts : DownInv(<<t, a>>)'
  <2>3. DownInv(d) /\ \A e \in Download : DownInv(e)
    BY <1>1
  <2>4. next' = next /\ closed' = closed
    BY <1>3
  <2>1. DownInv(d)'
    <3>1. ~(next[d] = 0 \/ b >= next[d])
      BY <1>2, <2>3 DEF DownInv
    <3>2. ASSUME NEW c \in Block
          PROVE  /\ next[d] = 0 \/ c >= next[d] => blk'[d][c] = "none"
                 /\ blk'[d][c] = "saved" => ~closed[d] /\ val'[d][c] \in Version
      <4>1. CASE c = b
        BY <1>5, <1>7, <3>1, <4>1
      <4>2. CASE c # b
        BY <1>5, <1>7, <2>3, <4>2 DEF DownInv
      <4> QED
        BY <4>1, <4>2
    <3> QED
      BY <2>3, <2>4, <3>2 DEF DownInv
  <2>2. ASSUME NEW e \in Download, e # d PROVE DownInv(e)'
    <3>1. blk'[e] = blk[e] /\ val'[e] = val[e] /\ DownInv(e)
      BY <1>7, <2>2, <2>3
    <3> QED
      BY <2>4, <3>1 DEF DownInv
  <2> QED
    BY <2>1, <2>2, DownloadOf
<1>11. Others(t)
  BY <1>1, <1>3, <1>7, <1>8, DownloadOf DEF Others, partVars
<1>12. FreshInv(t)' /\ CheckedInv(t)'
  BY <1>1, <1>2, <1>3 DEF TaskInv, FreshInv, CheckedInv
<1>13. PhaseInv(t)'
  <2>1. Len(ng) <= Blocks
    BY <1>2, <1>6 DEF Block
  <2> QED
    BY <1>2, <1>3, <1>8, <2>1 DEF PhaseInv, Parted, KindOf, Upload, Holding
<1>14. SeenInv(t)'
  <2>1. src[t] = Listed => val[d][b] = Listed
    BY <1>1, <1>2 DEF TaskInv, SeenInv, Corrupt, Version
  <2>2. src[t] = Listed => \A i \in DOMAIN got'[t] : got'[t][i] = Listed
    BY <1>1, <1>6, <1>8, <2>1 DEF TaskInv, SeenInv
  <2>3. \A a \in 1..Attempts, c \in Block :
           val'[<<t, a>>][c] = val[<<t, a>>][c] \/ val'[<<t, a>>][c] = Corrupt
    BY <1>5, <1>7, DownloadOf
  <2> QED
    BY <1>1, <1>3, <2>2, <2>3 DEF TaskInv, SeenInv, partVars
<1>15. OpenInv(t)' /\ SentInv(t)' /\ IdleInv(t)'
  <2>1. phase' \in [Task -> Phase]
    BY <1>9 DEF TypeOK
  <2> QED
    BY <1>1, <1>2, <1>3, <2>1, PartsKept DEF partVars
<1> QED
  BY <1>9, <1>10, <1>11, <1>12, <1>13, <1>14, <1>15, OthersKept DEF TaskInv

-----------------------------------------------------------------------------
(* Steps of a multipart copy.                                              *)

PartState == {"none", "wait", "run", "sent", "ok", "bad"}
UploadRec == [open : BOOLEAN, parts : [Block -> Version \cup {Gone}]]
SavedRec == [id : Upload \cup {"none"}, parts : SUBSET Block]

LEMMA PartTypes ==
  ASSUME TypeOK
  PROVE  /\ part \in [Task -> [Stage -> [Block -> PartState]]]
         /\ upload \in [Task -> [Upload -> UploadRec]]
         /\ saved \in [Task -> SavedRec]
         /\ aborted \in [Task -> SUBSET Stage]
         /\ phase \in [Task -> Phase]
  BY DEF TypeOK, PartState, UploadRec, SavedRec

\* one goroutine moves
PartGoes(t, s, b, x) == part' = [part EXCEPT ![t][s][b] = x]

LEMMA PartMoves ==
  ASSUME TypeOK, NEW t \in Task, NEW s \in Stage, NEW b \in Block, NEW x \in PartState,
         PartGoes(t, s, b, x)
  PROVE  /\ part' \in [Task -> [Stage -> [Block -> PartState]]]
         /\ \A r \in Task \ {t} : part'[r] = part[r]
         /\ \A u \in Stage, c \in Block :
               part'[t][u][c] = IF u = s /\ c = b THEN x ELSE part[t][u][c]
<1> DEFINE n1 == [part[t][s] EXCEPT ![b] = x]
           n2 == [part[t] EXCEPT ![s] = n1]
<1>1. part' = [part EXCEPT ![t] = n2]
  BY DEF PartGoes
<1>2. /\ part \in [Task -> [Stage -> [Block -> PartState]]]
      /\ part[t] \in [Stage -> [Block -> PartState]] /\ part[t][s] \in [Block -> PartState]
  BY PartTypes
<1>3. n1 \in [Block -> PartState] /\ \A c \in Block : n1[c] = IF c = b THEN x ELSE part[t][s][c]
  BY <1>2
<1> HIDE DEF n1
<1>4. n2 \in [Stage -> [Block -> PartState]] /\ \A u \in Stage : n2[u] = IF u = s THEN n1 ELSE part[t][u]
  BY <1>2, <1>3
<1> HIDE DEF n2
<1>5. /\ part' \in [Task -> [Stage -> [Block -> PartState]]] /\ part'[t] = n2
      /\ \A r \in Task \ {t} : part'[r] = part[r]
  BY <1>1, <1>2, <1>4
<1> QED
  BY <1>3, <1>4, <1>5

\* the goroutines of a stage are started anew
LEMMA PartsSet ==
  ASSUME TypeOK, NEW t \in Task, NEW s \in Stage, NEW f \in [Block -> PartState],
         part' = [part EXCEPT ![t][s] = f]
  PROVE  /\ part' \in [Task -> [Stage -> [Block -> PartState]]]
         /\ \A r \in Task \ {t} : part'[r] = part[r]
         /\ \A u \in Stage : part'[t][u] = IF u = s THEN f ELSE part[t][u]
<1> DEFINE n2 == [part[t] EXCEPT ![s] = f]
<1>1. part' = [part EXCEPT ![t] = n2]
  OBVIOUS
<1>2. /\ part \in [Task -> [Stage -> [Block -> PartState]]]
      /\ part[t] \in [Stage -> [Block -> PartState]]
  BY PartTypes
<1>4. n2 \in [Stage -> [Block -> PartState]] /\ \A u \in Stage : n2[u] = IF u = s THEN f ELSE part[t][u]
  BY <1>2
<1> HIDE DEF n2
<1> QED
  BY <1>1, <1>2, <1>4

\* an upload of a task becomes u
LEMMA UploadSet ==
  ASSUME TypeOK, NEW t \in Task, NEW s \in Upload, NEW u \in UploadRec,
         upload' = [upload EXCEPT ![t][s] = u]
  PROVE  /\ upload' \in [Task -> [Upload -> UploadRec]]
         /\ \A r \in Task \ {t} : upload'[r] = upload[r]
         /\ \A q \in Upload : upload'[t][q] = IF q = s THEN u ELSE upload[t][q]
<1> DEFINE n2 == [upload[t] EXCEPT ![s] = u]
<1>1. upload' = [upload EXCEPT ![t] = n2]
  OBVIOUS
<1>2. /\ upload \in [Task -> [Upload -> UploadRec]] /\ upload[t] \in [Upload -> UploadRec]
  BY PartTypes
<1>4. n2 \in [Upload -> UploadRec] /\ \A q \in Upload : n2[q] = IF q = s THEN u ELSE upload[t][q]
  BY <1>2
<1> HIDE DEF n2
<1> QED
  BY <1>1, <1>2, <1>4

LEMMA NoPartType ==
  /\ NoPart \in [Block -> Version \cup {Gone}] /\ \A b \in Block : NoPart[b] = Gone
  /\ [open |-> FALSE, parts |-> NoPart] \in UploadRec
  /\ NoUpload \in SavedRec
  BY DEF NoPart, UploadRec, NoUpload, SavedRec

\* the upload is dropped, and the checkpoint forgets the object
LEMMA AbortFacts ==
  ASSUME TypeOK, NEW t \in Task, NEW s \in Upload, AbortUpload(t, s)
  PROVE  /\ upload' \in [Task -> [Upload -> UploadRec]] /\ saved' \in [Task -> SavedRec]
         /\ \A r \in Task \ {t} : upload'[r] = upload[r] /\ saved'[r] = saved[r]
         /\ \A q \in Upload \ {s} : upload'[t][q] = upload[t][q]
         /\ ~upload'[t][s].open /\ upload'[t][s].parts = NoPart
         /\ saved'[t].id = "none" /\ saved'[t].parts = {}
<1> DEFINE u == [open |-> FALSE, parts |-> NoPart]
<1>1. u \in UploadRec /\ ~u.open /\ u.parts = NoPart
  BY NoPartType
<1>2. upload' = [upload EXCEPT ![t][s] = u] /\ saved' = [saved EXCEPT ![t] = NoUpload]
  BY DEF AbortUpload
<1> HIDE DEF u
<1>3. /\ upload' \in [Task -> [Upload -> UploadRec]]
      /\ \A r \in Task \ {t} : upload'[r] = upload[r]
      /\ \A q \in Upload : upload'[t][q] = IF q = s THEN u ELSE upload[t][q]
  BY <1>1, <1>2, UploadSet
<1>4. /\ saved' \in [Task -> SavedRec] /\ saved'[t] = NoUpload
      /\ \A r \in Task \ {t} : saved'[r] = saved[r]
  BY <1>2, PartTypes, NoPartType
<1>5. saved'[t].id = "none" /\ saved'[t].parts = {}
  BY <1>4 DEF NoUpload
<1> QED
  BY <1>1, <1>3, <1>4, <1>5

\* a multipart copy leaves the downloaders alone
LEMMA PartFrame ==
  ASSUME Inv, NEW t \in Task, TypeOK', UNCHANGED <<cmd, attempt, src, downVars>>,
         \A r \in Task \ {t} :
            /\ phase'[r] = phase[r] /\ got'[r] = got[r] /\ dst'[r] = dst[r]
            /\ part'[r] = part[r] /\ upload'[r] = upload[r] /\ saved'[r] = saved[r],
         phase'[t] \in {"queued", "copy", "resumed"} => phase[t] \in {"queued", "copy", "resumed"},
         PhaseInv(t)', SeenInv(t)', CheckedInv(t)', OpenInv(t)', SentInv(t)', IdleInv(t)'
  PROVE  Inv'
<1>1. TypeOK /\ TaskInv(t) /\ \A d \in Download : DownInv(d)
  BY DEF Inv
<1>2. Others(t)
  BY DEF Others, downVars
<1>3. \A a \in 1..Attempts : DownInv(<<t, a>>)'
  BY <1>1, DownloadOf DEF DownInv, downVars
<1>4. FreshInv(t)'
  BY <1>1 DEF TaskInv, FreshInv, downVars, Current
<1> QED
  BY <1>2, <1>3, <1>4, OthersKept DEF TaskInv

\* what the steps of a multipart copy have in common
LEMMA PartCommon ==
  ASSUME Inv, NEW t \in Task,
         UNCHANGED <<cmd, workVars, attempt, src, downVars>>,
         tokens' = tokens \/ Take \/ Release, Fault \/ UNCHANGED boundVars,
         phase' \in [Task -> Phase], aborted' \in [Task -> SUBSET Stage],
         got' \in [Task -> Seq(Version)], dst' \in [Task -> Seq(Version \cup {Corrupt})],
         part' \in [Task -> [Stage -> [Block -> PartState]]],
         upload' \in [Task -> [Upload -> UploadRec]], saved' \in [Task -> SavedRec]
  PROVE  TypeOK'
<1>1. TypeOK
  BY DEF Inv
<1>2. tokens' \in 0..Threads /\ faults' \in 0..MaxFaults /\ changes' \in 0..MaxChanges
  BY <1>1, TokenType, FaultType DEF TypeOK
<1> QED
  BY <1>1, <1>2 DEF TypeOK, workVars, downVars, PartState, UploadRec, SavedRec

\* a step of goroutines of a task, with all else of it as it was
LEMMA GoroutineStep ==
  ASSUME Inv, NEW t \in Task, TypeOK',
         UNCHANGED <<cmd, phase, attempt, dataVars, downVars>>,
         \A r \in Task \ {t} : part'[r] = part[r] /\ upload'[r] = upload[r] /\ saved'[r] = saved[r],
         \A u \in Upload, b \in Block : upload'[t][u].parts[b] \in {upload[t][u].parts[b], src[t]},
         Parted(t) => /\ \A u \in Upload : upload'[t][u].open = upload[t][u].open
                      /\ saved'[t].id = saved[t].id
                      /\ saved[t].id = "none" => saved'[t].parts = {},
         ~Parted(t) => UNCHANGED <<upload, saved>>,
         SentInv(t)', IdleInv(t)'
  PROVE  Inv'
<1>1. TypeOK /\ TaskInv(t)
  BY DEF Inv
<1>2. PhaseInv(t)' /\ CheckedInv(t)'
  BY <1>1 DEF TaskInv, PhaseInv, CheckedInv, Parted, KindOf, dataVars
<1>3. SeenInv(t)'
  BY <1>1 DEF TaskInv, SeenInv, dataVars, downVars
<1>4. OpenInv(t)'
  <2>1. CASE Parted(t)
    BY <1>1, <2>1 DEF TaskInv, OpenInv, Parted, KindOf, Upload
  <2>2. CASE ~Parted(t)
    BY <1>1, <2>2 DEF TaskInv, OpenInv, Parted, KindOf
  <2> QED
    BY <2>1, <2>2
<1> QED
  BY <1>1, <1>2, <1>3, <1>4, PartFrame DEF dataVars

\* a goroutine is told to stop, takes its token, reads a part back or fails
LEMMA QuietStep ==
  ASSUME Inv, NEW t \in Task, NEW s \in Stage, NEW b \in Block,
         TokenPart(t, s, b) \/ AbortPart(t, s, b) \/ PartFails(t, s, b) \/ (s = "verify" /\ ReadBack(t, b))
  PROVE  Inv'
<1>1. TypeOK /\ TaskInv(t)
  BY DEF Inv
<1>2. /\ UNCHANGED <<cmd, workVars, phase, attempt, dataVars, downVars, aborted, upload, saved>>
      /\ tokens' = tokens \/ Take \/ Release
      /\ Fault \/ UNCHANGED boundVars
      /\ part[t][s][b] \in {"wait", "run"}
  BY DEF TokenPart, AbortPart, PartFails, ReadBack
<1>3. PICK x \in {"run", "bad", "ok"} :
         PartGoes(t, s, b, x) /\ (x = "ok" => s \notin Upload)
  BY DEF PartGoes, TokenPart, AbortPart, PartFails, ReadBack, Upload
<1>4. /\ part' \in [Task -> [Stage -> [Block -> PartState]]]
      /\ \A r \in Task \ {t} : part'[r] = part[r]
      /\ \A u \in Stage, c \in Block :
            part'[t][u][c] = IF u = s /\ c = b THEN x ELSE part[t][u][c]
  <2>1. x \in PartState
    BY DEF PartState
  <2> QED
    BY <1>1, <1>3, <2>1, PartMoves
<1>5. TypeOK'
  <2>1. phase' \in [Task -> Phase] /\ aborted' \in [Task -> SUBSET Stage]
        /\ got' \in [Task -> Seq(Version)] /\ dst' \in [Task -> Seq(Version \cup {Corrupt})]
        /\ upload' \in [Task -> [Upload -> UploadRec]] /\ saved' \in [Task -> SavedRec]
    BY <1>1, <1>2, PartTypes DEF dataVars, TypeOK
  <2> QED
    BY <1>2, <1>4, <2>1, PartCommon DEF dataVars
<1>6. Upload \subseteq Stage
  BY DEF Stage
<1>7. SentInv(t)'
  BY <1>1, <1>2, <1>3, <1>4, <1>6 DEF TaskInv, SentInv
<1>8. IdleInv(t)'
  <2>1. ASSUME NEW c \in Block
        PROVE  /\ Parted(t) /\ phase[t] \in {"queued", "copy", "resumed"} =>
                      part'[t]["fresh"][c] = part[t]["fresh"][c]
               /\ phase[t] \in {"queued", "copy"} /\ saved[t].id = "resumed" =>
                      part'[t]["resumed"][c] = part[t]["resumed"][c]
    BY <1>1, <1>2, <1>4, <1>6, <2>1 DEF TaskInv, IdleInv, Upload
  <2> QED
    BY <1>1, <1>2, <2>1 DEF TaskInv, IdleInv, Parted, KindOf
<1> QED
  BY <1>1, <1>2, <1>4, <1>5, <1>7, <1>8, GoroutineStep, PartTypes DEF TaskInv, OpenInv

\* a part is uploaded
LEMMA UploadStep ==
  ASSUME Inv, NEW t \in Task, NEW s \in Upload, NEW b \in Block, UploadPart(t, s, b)
  PROVE  Inv'
<1>1. TypeOK /\ TaskInv(t) /\ Upload \subseteq Stage
  BY DEF Inv, Stage
<1>2. /\ UNCHANGED <<cmd, tokens, workVars, phase, attempt, dataVars, downVars, aborted, saved, boundVars>>
      /\ part[t][s][b] = "run" /\ src[t] \in Version /\ upload[t][s].open
      /\ PartGoes(t, s, b, "sent")
  BY <1>1 DEF PartGoes, UploadPart, TypeOK
<1> DEFINE np == [upload[t][s].parts EXCEPT ![b] = src[t]]
           nu == [upload[t][s] EXCEPT !.parts = np]
<1>3. upload' = [upload EXCEPT ![t][s] = nu]
  BY DEF UploadPart
<1>4. upload[t][s] \in UploadRec /\ upload[t][s].parts \in [Block -> Version \cup {Gone}]
  BY <1>1, PartTypes DEF UploadRec
<1>5. np \in [Block -> Version \cup {Gone}] /\ \A c \in Block : np[c] = IF c = b THEN src[t] ELSE upload[t][s].parts[c]
  BY <1>2, <1>4
<1> HIDE DEF np
<1>6. nu \in UploadRec /\ nu.parts = np /\ nu.open = upload[t][s].open
  BY <1>4, <1>5 DEF UploadRec
<1> HIDE DEF nu
<1>7. /\ upload' \in [Task -> [Upload -> UploadRec]]
      /\ \A r \in Task \ {t} : upload'[r] = upload[r]
      /\ \A q \in Upload : upload'[t][q] = IF q = s THEN nu ELSE upload[t][q]
  BY <1>1, <1>3, <1>6, UploadSet
<1>8. /\ part' \in [Task -> [Stage -> [Block -> PartState]]]
      /\ \A r \in Task \ {t} : part'[r] = part[r]
      /\ \A u \in Stage, c \in Block :
            part'[t][u][c] = IF u = s /\ c = b THEN "sent" ELSE part[t][u][c]
  <2>1. "sent" \in PartState
    BY DEF PartState
  <2> QED
    BY <1>1, <1>2, <2>1, PartMoves
<1>9. TypeOK'
  <2>1. phase' \in [Task -> Phase] /\ aborted' \in [Task -> SUBSET Stage]
        /\ got' \in [Task -> Seq(Version)] /\ dst' \in [Task -> Seq(Version \cup {Corrupt})]
        /\ saved' \in [Task -> SavedRec]
    BY <1>1, <1>2, PartTypes DEF dataVars, TypeOK
  <2> QED
    BY <1>2, <1>7, <1>8, <2>1, PartCommon DEF dataVars
<1>10. SentInv(t)'
  <2>1. src[t] # Gone
    BY <1>2 DEF Version, Gone
  <2>2. ASSUME NEW u \in Upload, NEW c \in Block, upload'[t][u].open
        PROVE  /\ part'[t][u][c] \in {"sent", "ok"} => upload'[t][u].parts[c] # Gone
               /\ saved'[t].id = u /\ c \in saved'[t].parts => upload'[t][u].parts[c] # Gone
    <3>4. /\ upload'[t][s].open = upload[t][s].open
          /\ \A a \in Block : upload'[t][s].parts[a] = IF a = b THEN src[t] ELSE upload[t][s].parts[a]
      BY <1>5, <1>6, <1>7
    <3>1. CASE u = s /\ c = b
      <4>1. upload'[t][u].parts[c] = src[t]
        BY <3>1, <3>4
      <4> QED
        BY <2>1, <4>1
    <3>2. CASE u = s /\ c # b
      <4>1. upload'[t][u].parts[c] = upload[t][u].parts[c] /\ upload[t][u].open
        BY <2>2, <3>2, <3>4
      <4>2. part'[t][u][c] = part[t][u][c] /\ saved' = saved
        BY <1>1, <1>2, <1>8, <3>2
      <4> QED
        BY <1>1, <4>1, <4>2 DEF TaskInv, SentInv
    <3>3. CASE u # s
      <4>1. upload'[t][u] = upload[t][u]
        BY <1>7, <3>3
      <4>2. part'[t][u][c] = part[t][u][c] /\ saved' = saved
        BY <1>1, <1>2, <1>8, <3>3
      <4> QED
        BY <1>1, <2>2, <4>1, <4>2 DEF TaskInv, SentInv
    <3> QED
      BY <3>1, <3>2, <3>3
  <2> QED
    BY <2>2 DEF SentInv
<1>11. Parted(t) /\ ~(s = "fresh" /\ phase[t] \in {"queued", "copy", "resumed"})
       /\ (s = "resumed" => saved[t].id = "resumed" /\ phase[t] \notin {"queued", "copy"})
  <2>1. s = "resumed" \/ s = "fresh"
    BY DEF Upload
  <2>2. Parted(t)
    BY <1>1, <1>2, <2>1 DEF TaskInv, OpenInv, PhaseInv, Upload
  <2>3. CASE s = "fresh"
    BY <1>1, <1>2, <2>2, <2>3 DEF TaskInv, IdleInv
  <2>4. CASE s = "resumed"
    BY <1>1, <1>2, <2>2, <2>4 DEF TaskInv, OpenInv, IdleInv
  <2> QED
    BY <2>1, <2>2, <2>3, <2>4
<1>12. IdleInv(t)'
  <2>1. CASE s = "fresh"
    BY <1>2, <1>11, <2>1 DEF IdleInv, Upload, TaskInv, OpenInv, Parted, KindOf
  <2>2. CASE s = "resumed"
    <3>1. /\ upload'[t]["fresh"] = upload[t]["fresh"] /\ "fresh" \in Upload
          /\ \A c \in Block : part'[t]["fresh"][c] = part[t]["fresh"][c]
      BY <1>1, <1>7, <1>8, <2>2 DEF Upload
    <3> QED
      BY <1>1, <1>2, <1>11, <2>2, <3>1 DEF TaskInv, IdleInv, Parted, KindOf
  <2> QED
    BY <2>1, <2>2 DEF Upload
<1>13. \A u \in Upload, c \in Block : upload'[t][u].parts[c] \in {upload[t][u].parts[c], src[t]}
  BY <1>5, <1>6, <1>7
<1>14. /\ \A u \in Upload : upload'[t][u].open = upload[t][u].open
       /\ saved' = saved /\ (saved[t].id = "none" => saved'[t].parts = {})
  BY <1>1, <1>2, <1>6, <1>7 DEF TaskInv, OpenInv
<1> QED
  BY <1>2, <1>7, <1>8, <1>9, <1>10, <1>11, <1>12, <1>13, <1>14, GoroutineStep

\* a part is recorded in the checkpoint
LEMMA MarkStep ==
  ASSUME Inv, NEW t \in Task, NEW s \in Upload, NEW b \in Block, MarkPart(t, s, b)
  PROVE  Inv'
<1>1. TypeOK /\ TaskInv(t) /\ Upload \subseteq Stage
  BY DEF Inv, Stage
<1>2. /\ UNCHANGED <<cmd, workVars, phase, attempt, dataVars, downVars, aborted, upload, boundVars>>
      /\ part[t][s][b] = "sent" /\ Release
      /\ PartGoes(t, s, b, "ok")
  BY <1>1 DEF PartGoes, MarkPart
<1> DEFINE ns == [saved[t] EXCEPT !.parts = IF saved[t].id = s THEN @ \cup {b} ELSE @]
<1>3. saved' = [saved EXCEPT ![t] = ns]
  BY DEF MarkPart
<1>4. saved \in [Task -> SavedRec] /\ saved[t] \in SavedRec
  BY <1>1, PartTypes
<1>5. /\ ns \in SavedRec /\ ns.id = saved[t].id
      /\ ns.parts = IF saved[t].id = s THEN saved[t].parts \cup {b} ELSE saved[t].parts
  BY <1>4 DEF SavedRec
<1> HIDE DEF ns
<1>7. /\ saved' \in [Task -> SavedRec] /\ saved'[t] = ns
      /\ \A r \in Task \ {t} : saved'[r] = saved[r]
  BY <1>3, <1>4, <1>5
<1>8. /\ part' \in [Task -> [Stage -> [Block -> PartState]]]
      /\ \A r \in Task \ {t} : part'[r] = part[r]
      /\ \A u \in Stage, c \in Block :
            part'[t][u][c] = IF u = s /\ c = b THEN "ok" ELSE part[t][u][c]
  <2>1. "ok" \in PartState
    BY DEF PartState
  <2> QED
    BY <1>1, <1>2, <2>1, PartMoves
<1>9. TypeOK'
  <2>1. phase' \in [Task -> Phase] /\ aborted' \in [Task -> SUBSET Stage]
        /\ got' \in [Task -> Seq(Version)] /\ dst' \in [Task -> Seq(Version \cup {Corrupt})]
        /\ upload' \in [Task -> [Upload -> UploadRec]]
    BY <1>1, <1>2, PartTypes DEF dataVars, TypeOK
  <2> QED
    BY <1>2, <1>7, <1>8, <2>1, PartCommon DEF dataVars
<1>10. SentInv(t)'
  <2>2. ASSUME NEW u \in Upload, NEW c \in Block, upload'[t][u].open
        PROVE  /\ part'[t][u][c] \in {"sent", "ok"} => upload'[t][u].parts[c] # Gone
               /\ saved'[t].id = u /\ c \in saved'[t].parts => upload'[t][u].parts[c] # Gone
    <3>0. /\ upload' = upload
          /\ part[t][u][c] \in {"sent", "ok"} => upload[t][u].parts[c] # Gone
          /\ saved[t].id = u /\ c \in saved[t].parts => upload[t][u].parts[c] # Gone
      BY <1>1, <1>2, <2>2 DEF TaskInv, SentInv
    <3>1. CASE u = s /\ c = b
      BY <1>2, <3>0, <3>1
    <3>2. CASE ~(u = s /\ c = b)
      BY <1>1, <1>5, <1>7, <1>8, <3>0, <3>2
    <3> QED
      BY <3>1, <3>2
  <2> QED
    BY <2>2 DEF SentInv
<1>11. IdleInv(t)'
  <2>1. ASSUME NEW c \in Block
        PROVE  /\ Parted(t) /\ phase[t] \in {"queued", "copy", "resumed"} =>
                      part'[t]["fresh"][c] = part[t]["fresh"][c]
               /\ phase[t] \in {"queued", "copy"} /\ saved[t].id = "resumed" =>
                      part'[t]["resumed"][c] = part[t]["resumed"][c]
    BY <1>1, <1>2, <1>8 DEF TaskInv, IdleInv, Upload
  <2>2. saved'[t].id = saved[t].id
    BY <1>5, <1>7
  <2> QED
    BY <1>1, <1>2, <2>1, <2>2 DEF TaskInv, IdleInv, Parted, KindOf
<1>12. Parted(t) \/ saved[t].id = "none"
  BY <1>1 DEF TaskInv, OpenInv
<1>13. /\ saved'[t].id = saved[t].id
       /\ saved[t].id = "none" => saved'[t].parts = {}
  BY <1>1, <1>5, <1>7 DEF TaskInv, OpenInv, Upload
<1>14. saved[t].id = "none" => saved' = saved
  <2>1. ASSUME saved[t].id = "none" PROVE saved'[t] = saved[t]
    BY <1>4, <1>5, <1>7, <2>1 DEF Upload, SavedRec
  <2> QED
    BY <1>4, <1>7, <2>1
<1>15. ~Parted(t) => UNCHANGED <<upload, saved>>
  BY <1>2, <1>12, <1>14
<1> QED
  BY <1>2, <1>7, <1>8, <1>9, <1>10, <1>11, <1>13, <1>15, GoroutineStep

\* phases are left and entered by the task that is meant
LEMMA GotoFacts ==
  ASSUME TypeOK, NEW t \in Task, NEW p \in Phase, Goto(t, p)
  PROVE  /\ phase' \in [Task -> Phase] /\ phase'[t] = p
         /\ \A r \in Task \ {t} : phase'[r] = phase[r]
  BY DEF Goto, TypeOK

LEMMA PhaseNames == {"copy", "resumed", "fresh", "check", "verify", "copied", "failed", "skipped"} \subseteq Phase
  BY DEF Phase, Upload, Final

\* an upload of an earlier run is taken up
LEMMA ResumeStep ==
  ASSUME Inv, NEW t \in Task, Resume(t)
  PROVE  Inv'
<1> DEFINE f == [b \in Block |-> IF b \in saved[t].parts THEN "ok" ELSE "wait"]
<1>1. TypeOK /\ TaskInv(t) /\ Upload \subseteq Stage /\ "resumed" \in Upload /\ "fresh" \in Upload
  BY DEF Inv, Stage, Upload
<1>2. /\ UNCHANGED <<cmd, tokens, workVars, attempt, dataVars, downVars, aborted, upload, saved, boundVars>>
      /\ phase[t] = "copy" /\ Parted(t) /\ Goto(t, "resumed")
      /\ part' = [part EXCEPT ![t]["resumed"] = f]
  BY DEF Resume, Parted
<1>3. f \in [Block -> PartState]
  BY DEF PartState
<1>4. \A b \in Block : f[b] \in {"ok", "wait"} /\ (f[b] = "ok" => b \in saved[t].parts)
  OBVIOUS
<1> HIDE DEF f
<1>5. /\ part' \in [Task -> [Stage -> [Block -> PartState]]]
      /\ \A r \in Task \ {t} : part'[r] = part[r]
      /\ \A u \in Stage : part'[t][u] = IF u = "resumed" THEN f ELSE part[t][u]
  BY <1>1, <1>2, <1>3, PartsSet
<1>6. /\ phase' \in [Task -> Phase] /\ phase'[t] = "resumed"
      /\ \A r \in Task \ {t} : phase'[r] = phase[r]
  BY <1>1, <1>2, GotoFacts, PhaseNames
<1>7. TypeOK'
  <2>1. aborted' \in [Task -> SUBSET Stage]
        /\ got' \in [Task -> Seq(Version)] /\ dst' \in [Task -> Seq(Version \cup {Corrupt})]
        /\ upload' \in [Task -> [Upload -> UploadRec]] /\ saved' \in [Task -> SavedRec]
    BY <1>1, <1>2, PartTypes DEF dataVars, TypeOK
  <2> QED
    BY <1>2, <1>5, <1>6, <2>1, PartCommon DEF dataVars
<1>8. PhaseInv(t)' /\ CheckedInv(t)'
  BY <1>1, <1>2, <1>6 DEF TaskInv, PhaseInv, CheckedInv, Parted, KindOf, dataVars, Upload, Holding
<1>9. SeenInv(t)'
  BY <1>1, <1>2 DEF TaskInv, SeenInv, dataVars, downVars
<1>10. OpenInv(t)'
  BY <1>1, <1>2, <1>6 DEF TaskInv, OpenInv, Parted, KindOf
<1>11. SentInv(t)'
  <2>1. ASSUME NEW u \in Upload, NEW b \in Block, upload[t][u].open
        PROVE  /\ part'[t][u][b] \in {"sent", "ok"} => upload[t][u].parts[b] # Gone
               /\ saved[t].id = u /\ b \in saved[t].parts => upload[t][u].parts[b] # Gone
    <3>1. saved[t].id = u /\ b \in saved[t].parts => upload[t][u].parts[b] # Gone
      BY <1>1, <2>1 DEF TaskInv, SentInv
    <3>2. CASE u = "resumed"
      <4>1. saved[t].id = "resumed"
        BY <1>1, <2>1, <3>2 DEF TaskInv, OpenInv
      <4>2. part'[t][u][b] \in {"sent", "ok"} => b \in saved[t].parts
        BY <1>1, <1>4, <1>5, <3>2
      <4> QED
        BY <3>1, <3>2, <4>1, <4>2
    <3>3. CASE u # "resumed"
      BY <1>1, <1>5, <2>1, <3>3 DEF TaskInv, SentInv
    <3> QED
      BY <3>2, <3>3
  <2> QED
    BY <1>2, <2>1 DEF SentInv
<1>12. IdleInv(t)'
  BY <1>1, <1>2, <1>5, <1>6 DEF TaskInv, IdleInv, Parted, KindOf
<1> QED
  BY <1>2, <1>5, <1>6, <1>7, <1>8, <1>9, <1>10, <1>11, <1>12, PartFrame DEF dataVars

\* a new upload is begun
LEMMA CreateStep ==
  ASSUME Inv, NEW t \in Task, StartParts(t), Create(t)
  PROVE  Inv'
<1> DEFINE f == [b \in Block |-> "wait"]
           nu == [upload[t]["fresh"] EXCEPT !.open = TRUE]
           ns == [id |-> "fresh", parts |-> {}]
<1>1. TypeOK /\ TaskInv(t) /\ Upload \subseteq Stage /\ "resumed" \in Upload /\ "fresh" \in Upload
  BY DEF Inv, Stage, Upload
<1>2. /\ UNCHANGED <<cmd, tokens, workVars, attempt, dataVars, downVars, aborted>>
      /\ Fault \/ UNCHANGED boundVars
      /\ phase[t] = "copy" /\ Parted(t) /\ saved[t].id = "none" /\ Goto(t, "fresh")
      /\ part' = [part EXCEPT ![t]["fresh"] = f]
      /\ upload' = [upload EXCEPT ![t]["fresh"] = nu]
      /\ saved' = IF cmd.checkpoint THEN [saved EXCEPT ![t] = ns] ELSE saved
  BY DEF StartParts, Create, Parted
<1>3. f \in [Block -> PartState] /\ ns \in SavedRec /\ \A b \in Block : f[b] = "wait"
  BY <1>1 DEF PartState, SavedRec
<1>4. nu \in UploadRec /\ nu.open /\ nu.parts = upload[t]["fresh"].parts
  <2>1. upload[t]["fresh"] \in UploadRec
    BY <1>1, PartTypes
  <2> QED
    BY <2>1 DEF UploadRec
<1>5. ns.id = "fresh" /\ ns.parts = {}
  OBVIOUS
<1> HIDE DEF f, nu, ns
<1>6. /\ part' \in [Task -> [Stage -> [Block -> PartState]]]
      /\ \A r \in Task \ {t} : part'[r] = part[r]
      /\ \A u \in Stage : part'[t][u] = IF u = "fresh" THEN f ELSE part[t][u]
  BY <1>1, <1>2, <1>3, PartsSet
<1>7. /\ phase' \in [Task -> Phase] /\ phase'[t] = "fresh"
      /\ \A r \in Task \ {t} : phase'[r] = phase[r]
  BY <1>1, <1>2, GotoFacts, PhaseNames
<1>8. /\ upload' \in [Task -> [Upload -> UploadRec]]
      /\ \A r \in Task \ {t} : upload'[r] = upload[r]
      /\ \A q \in Upload : upload'[t][q] = IF q = "fresh" THEN nu ELSE upload[t][q]
  BY <1>1, <1>2, <1>4, UploadSet
<1>9. /\ saved' \in [Task -> SavedRec] /\ \A r \in Task \ {t} : saved'[r] = saved[r]
      /\ cmd.checkpoint => saved'[t].id = "fresh"
      /\ ~cmd.checkpoint => saved'[t].id = "none"
      /\ saved'[t].parts = {}
  <2>1. saved \in [Task -> SavedRec] /\ saved[t].parts = {}
    BY <1>1, <1>2, PartTypes DEF TaskInv, OpenInv
  <2>2. CASE cmd.checkpoint
    BY <1>2, <1>3, <1>5, <2>1, <2>2
  <2>3. CASE ~cmd.checkpoint
    BY <1>2, <2>1, <2>3
  <2> QED
    BY <2>2, <2>3
<1>10. TypeOK'
  <2>1. aborted' \in [Task -> SUBSET Stage]
        /\ got' \in [Task -> Seq(Version)] /\ dst' \in [Task -> Seq(Version \cup {Corrupt})]
    BY <1>1, <1>2 DEF dataVars, TypeOK
  <2> QED
    BY <1>2, <1>6, <1>7, <1>8, <1>9, <2>1, PartCommon DEF dataVars
<1>11. PhaseInv(t)' /\ CheckedInv(t)'
  BY <1>1, <1>2, <1>7 DEF TaskInv, PhaseInv, CheckedInv, Parted, KindOf, dataVars, Upload, Holding
<1>12. SeenInv(t)'
  <2>1. \A u \in Upload : upload'[t][u].parts = upload[t][u].parts
    BY <1>4, <1>8
  <2> QED
    BY <1>1, <1>2, <2>1 DEF TaskInv, SeenInv, dataVars, downVars
<1>13. OpenInv(t)'
  <2>1. ~upload'[t]["resumed"].open
    BY <1>1, <1>2, <1>8 DEF TaskInv, OpenInv
  <2> QED
    BY <1>2, <1>7, <1>9, <2>1 DEF OpenInv, Parted, KindOf
<1>14. SentInv(t)'
  <2>1. ASSUME NEW u \in Upload, NEW b \in Block, upload'[t][u].open
        PROVE  part'[t][u][b] \notin {"sent", "ok"}
    <3>1. u = "fresh"
      BY <1>1, <1>2, <1>8, <2>1 DEF TaskInv, OpenInv, Upload
    <3> QED
      BY <1>1, <1>3, <1>6, <3>1
  <2> QED
    BY <1>9, <2>1 DEF SentInv
<1>15. IdleInv(t)'
  BY <1>7 DEF IdleInv
<1> QED
  BY <1>2, <1>6, <1>7, <1>8, <1>9, <1>10, <1>11, <1>12, <1>13, <1>14, <1>15, PartFrame DEF dataVars

\* no upload can be begun
LEMMA NoUploadStep ==
  ASSUME Inv, NEW t \in Task, StartParts(t), ~Create(t)
  PROVE  Inv'
<1>1. TypeOK /\ TaskInv(t)
  BY DEF Inv
<1>2. /\ UNCHANGED <<cmd, tokens, workVars, attempt, dataVars, downVars, aborted, part, upload, saved>>
      /\ Fault /\ phase[t] = "copy" /\ saved[t].id = "none" /\ Goto(t, CopyError(t))
      /\ CopyError(t) \in {"failed", "skipped"}
  BY DEF StartParts, CopyError
<1>3. PICK p \in {"failed", "skipped"} : p \in Phase /\ Goto(t, p)
  BY <1>2, PhaseNames
<1>4. phase' \in [Task -> Phase] /\ phase'[t] = p
  BY <1>1, <1>3, GotoFacts
<1>5. TypeOK'
  <2>1. aborted' \in [Task -> SUBSET Stage]
        /\ got' \in [Task -> Seq(Version)] /\ dst' \in [Task -> Seq(Version \cup {Corrupt})]
        /\ part' \in [Task -> [Stage -> [Block -> PartState]]]
        /\ upload' \in [Task -> [Upload -> UploadRec]] /\ saved' \in [Task -> SavedRec]
    BY <1>1, <1>2, PartTypes DEF dataVars, TypeOK
  <2> QED
    BY <1>2, <1>4, <2>1, PartCommon DEF dataVars
<1>6. PhaseInv(t)' /\ CheckedInv(t)'
  BY <1>1, <1>2, <1>4 DEF TaskInv, PhaseInv, CheckedInv, Parted, KindOf, dataVars, Upload, Holding
<1> QED
  BY <1>1, <1>2, <1>3, <1>5, <1>6, PhaseMoves

\* an upload of this run fails, and is kept for the next run or dropped
LEMMA FreshStep ==
  ASSUME Inv, NEW t \in Task, FreshFails(t)
  PROVE  Inv'
<1>1. TypeOK /\ TaskInv(t) /\ "resumed" \in Upload /\ "fresh" \in Upload
  BY DEF Inv, Upload
<1>2. /\ UNCHANGED <<cmd, tokens, workVars, attempt, dataVars, downVars, part>>
      /\ Fault \/ UNCHANGED boundVars
      /\ UNCHANGED aborted \/ aborted' = [aborted EXCEPT ![t] = @ \cup {"fresh"}]
      /\ phase[t] = "fresh" /\ Goto(t, CopyError(t))
      /\ AbortUpload(t, "fresh") \/ (UNCHANGED <<upload, saved>> /\ cmd.checkpoint)
  BY <1>1 DEF FreshFails, TypeOK
<1>3. PICK p \in {"failed", "skipped"} : p \in Phase /\ Goto(t, p)
  BY <1>2, PhaseNames DEF CopyError
<1>4. phase' \in [Task -> Phase] /\ phase'[t] = p /\ \A r \in Task \ {t} : phase'[r] = phase[r]
  BY <1>1, <1>3, GotoFacts
<1>5. /\ upload' \in [Task -> [Upload -> UploadRec]] /\ saved' \in [Task -> SavedRec]
      /\ \A r \in Task \ {t} : upload'[r] = upload[r] /\ saved'[r] = saved[r]
      /\ upload'[t]["resumed"] = upload[t]["resumed"]
      /\ \/ UNCHANGED <<upload, saved>> /\ cmd.checkpoint
         \/ /\ ~upload'[t]["fresh"].open /\ upload'[t]["fresh"].parts = NoPart
            /\ saved'[t].id = "none" /\ saved'[t].parts = {}
  <2>1. CASE AbortUpload(t, "fresh")
    BY <1>1, <2>1, AbortFacts
  <2>2. CASE UNCHANGED <<upload, saved>> /\ cmd.checkpoint
    BY <1>1, <2>2, PartTypes
  <2> QED
    BY <1>2, <2>1, <2>2
<1>6. TypeOK'
  <2>1. got' \in [Task -> Seq(Version)] /\ dst' \in [Task -> Seq(Version \cup {Corrupt})]
        /\ part' \in [Task -> [Stage -> [Block -> PartState]]]
    BY <1>1, <1>2, PartTypes DEF dataVars, TypeOK
  <2>2. aborted' \in [Task -> SUBSET Stage]
    BY <1>1, <1>2, PartTypes DEF Stage, Upload
  <2> QED
    BY <1>2, <1>4, <1>5, <2>1, <2>2, PartCommon DEF dataVars
<1>7. PhaseInv(t)' /\ CheckedInv(t)'
  BY <1>1, <1>2, <1>4 DEF TaskInv, PhaseInv, CheckedInv, Parted, KindOf, dataVars, Upload, Holding
<1>8. SeenInv(t)'
  <2>1. \A u \in Upload, b \in Block : upload'[t][u].parts[b] \in {upload[t][u].parts[b], Gone}
    BY <1>5, NoPartType DEF Upload
  <2> QED
    BY <1>1, <1>2, <2>1 DEF TaskInv, SeenInv, dataVars, downVars
<1>9. saved[t].id # "resumed" /\ ~upload[t]["resumed"].open
  BY <1>1, <1>2 DEF TaskInv, OpenInv
<1>10. OpenInv(t)' /\ SentInv(t)'
  <2>1. CASE UNCHANGED <<upload, saved>> /\ cmd.checkpoint
    BY <1>1, <1>2, <1>9, <2>1 DEF TaskInv, OpenInv, SentInv, Parted, KindOf
  <2>2. CASE ~(UNCHANGED <<upload, saved>> /\ cmd.checkpoint)
    BY <1>5, <1>9, <2>2 DEF OpenInv, SentInv, Upload
  <2> QED
    BY <2>1, <2>2
<1>11. IdleInv(t)'
  BY <1>4 DEF IdleInv
<1> QED
  BY <1>2, <1>4, <1>5, <1>6, <1>7, <1>8, <1>10, <1>11, PartFrame DEF dataVars

\* an upload that was taken up fails, and the copy is begun anew
LEMMA ResumedStep ==
  ASSUME Inv, NEW t \in Task, ResumedFails(t)
  PROVE  Inv'
<1>1. TypeOK /\ TaskInv(t) /\ "resumed" \in Upload /\ "fresh" \in Upload
  BY DEF Inv, Upload
<1>2. /\ UNCHANGED <<cmd, tokens, workVars, attempt, dataVars, downVars, part>>
      /\ Fault \/ UNCHANGED boundVars
      /\ UNCHANGED aborted \/ aborted' = [aborted EXCEPT ![t] = @ \cup {"resumed"}]
      /\ phase[t] = "resumed" /\ Goto(t, "copy") /\ AbortUpload(t, "resumed")
  BY <1>1 DEF ResumedFails, TypeOK
<1>4. phase' \in [Task -> Phase] /\ phase'[t] = "copy" /\ \A r \in Task \ {t} : phase'[r] = phase[r]
  BY <1>1, <1>2, GotoFacts, PhaseNames
<1>5. /\ upload' \in [Task -> [Upload -> UploadRec]] /\ saved' \in [Task -> SavedRec]
      /\ \A r \in Task \ {t} : upload'[r] = upload[r] /\ saved'[r] = saved[r]
      /\ upload'[t]["fresh"] = upload[t]["fresh"]
      /\ ~upload'[t]["resumed"].open /\ upload'[t]["resumed"].parts = NoPart
      /\ saved'[t].id = "none" /\ saved'[t].parts = {}
  BY <1>1, <1>2, AbortFacts
<1>6. TypeOK'
  <2>1. got' \in [Task -> Seq(Version)] /\ dst' \in [Task -> Seq(Version \cup {Corrupt})]
        /\ part' \in [Task -> [Stage -> [Block -> PartState]]]
    BY <1>1, <1>2, PartTypes DEF dataVars, TypeOK
  <2>2. aborted' \in [Task -> SUBSET Stage]
    BY <1>1, <1>2, PartTypes DEF Stage, Upload
  <2> QED
    BY <1>2, <1>4, <1>5, <2>1, <2>2, PartCommon DEF dataVars
<1>9. Parted(t) /\ ~upload[t]["fresh"].open
  BY <1>1, <1>2 DEF TaskInv, PhaseInv, IdleInv
<1>7. PhaseInv(t)' /\ CheckedInv(t)'
  BY <1>1, <1>2, <1>4, <1>9 DEF TaskInv, PhaseInv, CheckedInv, Parted, KindOf, dataVars, Upload, Holding
<1>8. SeenInv(t)'
  <2>1. \A u \in Upload, b \in Block : upload'[t][u].parts[b] \in {upload[t][u].parts[b], Gone}
    BY <1>5, NoPartType DEF Upload
  <2> QED
    BY <1>1, <1>2, <2>1 DEF TaskInv, SeenInv, dataVars, downVars
<1>10. OpenInv(t)' /\ SentInv(t)'
  BY <1>5, <1>9 DEF OpenInv, SentInv, Upload
<1>11. IdleInv(t)'
  BY <1>1, <1>2, <1>4, <1>5, <1>9 DEF TaskInv, IdleInv
<1> QED
  BY <1>2, <1>4, <1>5, <1>6, <1>7, <1>8, <1>10, <1>11, PartFrame DEF dataVars

\* all parts are there: the object is complete
LEMMA CompleteStep ==
  ASSUME Inv, NEW t \in Task, CompleteParts(t)
  PROVE  Inv'
<1>0. PICK s \in Upload : s = phase[t]
  BY DEF CompleteParts
<1> DEFINE data == upload[t][s].parts
<1>1. TypeOK /\ TaskInv(t) /\ Upload \subseteq Stage
  BY DEF Inv, Stage
<1>2. /\ UNCHANGED <<cmd, tokens, workVars, attempt, src, downVars, part, aborted>>
      /\ Fault \/ UNCHANGED boundVars
      /\ phase[t] = s /\ upload[t][s].open /\ \A b \in Block : part[t][s][b] = "ok"
      /\ got' = [got EXCEPT ![t] = data]
      /\ Stored(t, data) \/ Stored(t, Damaged(data))
      /\ AbortUpload(t, s)
  BY <1>0 DEF CompleteParts, Parts
<1>3. data \in Seq(Version) /\ Len(data) = Blocks /\ DOMAIN data = Block
  <2>1. data \in [Block -> Version \cup {Gone}]
    BY <1>1, PartTypes DEF UploadRec
  <2>2. \A b \in Block : data[b] # Gone
    BY <1>1, <1>2 DEF TaskInv, SentInv
  <2>3. data \in [1..Blocks -> Version]
    BY <2>1, <2>2 DEF Block
  <2> QED
    BY <2>3, TransferAssumption DEF Block
<1>4. \A b \in Block : src[t] = Listed => data[b] = Listed
  <2>1. \A b \in Block : data[b] # Gone
    BY <1>1, <1>2 DEF TaskInv, SentInv
  <2> QED
    BY <1>1, <2>1 DEF TaskInv, SeenInv
<1> HIDE DEF data
<1>5. /\ dst' \in [Task -> Seq(Version \cup {Corrupt})]
      /\ phase' \in [Task -> Phase]
      /\ \A r \in Task \ {t} : phase'[r] = phase[r] /\ dst'[r] = dst[r]
      /\ phase'[t] = AfterCopy
      /\ Len(dst'[t]) = Len(data)
      /\ \A i \in DOMAIN dst'[t] : i \in DOMAIN data /\ dst'[t][i] \in {data[i], Corrupt}
  BY <1>1, <1>2, <1>3, StoredFacts
<1>6. AfterCopy \in {"check", "verify", "copied"}
      /\ (AfterCopy # "check" => ~cmd.checkChange) /\ (AfterCopy = "copied" => ~cmd.checkNew)
  BY DEF AfterCopy
<1>7. /\ got' \in [Task -> Seq(Version)] /\ got'[t] = data /\ \A r \in Task \ {t} : got'[r] = got[r]
  <2>1. got \in [Task -> Seq(Version)]
    BY <1>1 DEF TypeOK
  <2> QED
    BY <1>2, <1>3, <2>1
<1>8. /\ upload' \in [Task -> [Upload -> UploadRec]] /\ saved' \in [Task -> SavedRec]
      /\ \A r \in Task \ {t} : upload'[r] = upload[r] /\ saved'[r] = saved[r]
      /\ \A q \in Upload \ {s} : upload'[t][q] = upload[t][q]
      /\ ~upload'[t][s].open /\ upload'[t][s].parts = NoPart
      /\ saved'[t].id = "none" /\ saved'[t].parts = {}
  BY <1>1, <1>2, AbortFacts
<1>9. TypeOK'
  <2>1. aborted' \in [Task -> SUBSET Stage] /\ part' \in [Task -> [Stage -> [Block -> PartState]]]
    BY <1>1, <1>2, PartTypes
  <2> QED
    BY <1>2, <1>5, <1>7, <1>8, <2>1, PartCommon
<1>10. \A u \in Upload : ~upload'[t][u].open
  <2>1. s = "fresh" => ~upload[t]["resumed"].open
    BY <1>1, <1>2 DEF TaskInv, OpenInv
  <2>2. s = "resumed" => ~upload[t]["fresh"].open
    BY <1>1, <1>2 DEF TaskInv, IdleInv, PhaseInv
  <2> QED
    BY <1>8, <2>1, <2>2 DEF Upload
<1>11. PhaseInv(t)'
  <2>1. Parted(t)
    BY <1>1, <1>2 DEF TaskInv, PhaseInv
  <2> QED
    BY <1>3, <1>5, <1>6, <1>7, <2>1 DEF PhaseInv, Upload, Holding
<1>12. CheckedInv(t)'
  BY <1>2, <1>5, <1>6 DEF CheckedInv
<1>13. SeenInv(t)'
  <2>1. \A u \in Upload, b \in Block : upload'[t][u].parts[b] \in {upload[t][u].parts[b], Gone}
    BY <1>8, NoPartType DEF Upload
  <2>2. src[t] = Listed => \A i \in DOMAIN got'[t] : got'[t][i] = Listed
    BY <1>3, <1>4, <1>7
  <2>3. src[t] = Listed => \A i \in DOMAIN dst'[t] : dst'[t][i] \in {Listed, Corrupt}
    BY <1>3, <1>4, <1>5
  <2> QED
    BY <1>1, <1>2, <2>1, <2>2, <2>3 DEF TaskInv, SeenInv, downVars
<1>14. OpenInv(t)' /\ SentInv(t)'
  BY <1>8, <1>10 DEF OpenInv, SentInv, Upload
<1>15. IdleInv(t)'
  BY <1>5, <1>6 DEF IdleInv
<1> QED
  BY <1>2, <1>5, <1>6, <1>7, <1>8, <1>9, <1>11, <1>12, <1>13, <1>14, <1>15, PartFrame

-----------------------------------------------------------------------------
(* The invariant holds.                                                    *)

\* a source that changes is never again the version that was listed
LEMMA ChangeStep ==
  ASSUME Inv, NEW t \in Task, SourceChanges(t)
  PROVE  Inv'
<1>1. TypeOK /\ TaskInv(t)
  BY DEF Inv
<1>2. /\ UNCHANGED <<cmd, tokens, workVars, phase, attempt, got, dst, downVars, partVars, faults>>
      /\ changes < MaxChanges /\ changes' = changes + 1
  BY DEF SourceChanges
<1>3. PICK v \in {Gone, changes + 2} : src' = [src EXCEPT ![t] = v]
  BY DEF SourceChanges
<1>4. changes \in 0..MaxChanges /\ MaxChanges \in Nat
  BY <1>1, TransferAssumption DEF TypeOK
<1>5. v \in Version \cup {Gone} /\ v # Listed /\ changes' \in 0..MaxChanges
  BY <1>2, <1>4 DEF Version, Gone, Listed
<1>6. /\ src' \in [Task -> Version \cup {Gone}] /\ src'[t] = v
      /\ \A r \in Task \ {t} : src'[r] = src[r]
  <2>1. src \in [Task -> Version \cup {Gone}]
    BY <1>1 DEF TypeOK
  <2> QED
    BY <1>3, <1>5, <2>1
<1>7. TypeOK'
  BY <1>1, <1>2, <1>5, <1>6 DEF TypeOK, workVars, downVars, partVars
<1>8. Others(t) /\ \A a \in 1..Attempts : DownInv(<<t, a>>)'
  BY <1>2, <1>6, DownloadOf DEF Others, downVars, partVars, Inv, DownInv
<1>9. FreshInv(t)' /\ PhaseInv(t)' /\ CheckedInv(t)'
  BY <1>1, <1>2 DEF TaskInv, FreshInv, PhaseInv, CheckedInv, Parted, KindOf, downVars
<1>10. SeenInv(t)'
  BY <1>5, <1>6 DEF SeenInv
<1>11. OpenInv(t)' /\ SentInv(t)' /\ IdleInv(t)'
  BY <1>1, <1>2 DEF TaskInv, OpenInv, SentInv, IdleInv, Parted, KindOf, partVars
<1> QED
  BY <1>7, <1>8, <1>9, <1>10, <1>11, OthersKept DEF TaskInv

LEMMA NextInv == Inv /\ [Next]_vars => Inv'
<1> SUFFICES ASSUME Inv, [Next]_vars
             PROVE  Inv'
  OBVIOUS
<1>1. CASE UNCHANGED vars
  <2>1. TypeOK'
    BY <1>1 DEF Inv, TypeOK, vars, workVars, dataVars, downVars, partVars, boundVars
  <2> QED
    BY <1>1, <2>1, DataKept DEF vars, dataVars, downVars, partVars
<1>2. ASSUME NEW w \in Worker, Fetch(w) PROVE Inv'
  BY <1>2, WorkerStep, MoveStep DEF Fetch
<1>3. ASSUME NEW t \in Task, Copy(t) PROVE Inv'
  <2>1. CASE GetGone(t) \/ NoTempFile(t) \/ CheckChanged(t) \/ StartVerify(t) \/ VerifyFails(t) \/ Verified(t)
    BY <2>1, MoveStep
  <2>2. CASE StartParts(t)
    BY <2>2, CreateStep, NoUploadStep
  <2> QED
    BY <1>3, <2>1, <2>2, GetStep, PutStep, RetryStep, StartStep, ReadStep, WaitStep, ResumeStep,
       ResumedStep, FreshStep, CompleteStep DEF Copy
<1>4. ASSUME NEW t \in Task, TokenDirect(t) PROVE Inv'
  BY <1>4, MoveStep
<1>5. ASSUME NEW t \in Task, NEW s \in Stage, NEW b \in Block,
             TokenPart(t, s, b) \/ AbortPart(t, s, b) \/ PartFails(t, s, b)
      PROVE  Inv'
  BY <1>5, QuietStep
<1>6. ASSUME NEW t \in Task, NEW b \in Block, ReadBack(t, b) PROVE Inv'
  BY <1>6, QuietStep DEF Stage
<1> QED
  BY <1>1, <1>2, <1>3, <1>4, <1>5, <1>6, BeginStep, BlockInv, UploadStep, MarkStep, ChangeStep
     DEF Next, System

LEMMA Invariant == Spec => []Inv
<1>1. Init => Inv
  BY InitInv
<1>2. Inv /\ [Next]_vars => Inv'
  BY NextInv
<1> QED
  BY <1>1, <1>2, PTL DEF Spec

\* Every variable keeps its type: no more tokens are taken than the channel holds, and
\* what is read and stored consists of versions of the source.
THEOREM TypeCorrect == Spec => []TypeOK
<1>1. Inv => TypeOK
  BY DEF Inv
<1> QED
  BY <1>1, Invariant, PTL

\* An object that is counted as copied has all its blocks, of the version that was listed
\* if --check-change says so, and is what was read if --check-new says so.
THEOREM CopiedRight == Spec => []CopiedIsRight
<1>1. Inv => CopiedIsRight
  <2> SUFFICES ASSUME Inv, NEW t \in Task, phase[t] = "copied"
               PROVE  /\ Len(dst[t]) = Blocks
                      /\ cmd.checkChange => \A b \in Block : dst[t][b] \in {Listed, Corrupt}
                      /\ cmd.checkNew => dst[t] = got[t] /\ Corrupt \notin {dst[t][b] : b \in Block}
    BY DEF CopiedIsRight
  <2>1. /\ Len(dst[t]) = Blocks /\ Len(got[t]) = Blocks
        /\ got[t] \in Seq(Version) /\ dst[t] \in Seq(Version \cup {Corrupt})
    BY DEF Inv, TypeOK, TaskInv, PhaseInv
  <2>2. DOMAIN dst[t] = Block /\ DOMAIN got[t] = Block
    BY <2>1 DEF Block
  <2>3. cmd.checkChange => \A b \in Block : dst[t][b] \in {Listed, Corrupt}
    BY <2>2 DEF Inv, TaskInv, CheckedInv
  <2>4. cmd.checkNew => dst[t] = got[t]
    BY DEF Inv, TaskInv, CheckedInv
  <2>5. \A b \in Block : got[t][b] # Corrupt
    <3>1. \A b \in Block : got[t][b] \in Version
      BY <2>1, <2>2
    <3> QED
      BY <3>1 DEF Version, Corrupt
  <2> QED
    BY <2>1, <2>3, <2>4, <2>5
<1> QED
  BY <1>1, Invariant, PTL

\* Each part the checkpoint counts is in the upload it names, and an upload that a settled
\* task leaves open is one the checkpoint names.
THEOREM UploadsAreKnown == Spec => []UploadsKnown
<1>1. Inv => UploadsKnown
  <2> SUFFICES ASSUME Inv, NEW t \in Task
               PROVE  /\ \A b \in saved[t].parts :
                            upload[t][saved[t].id].open => upload[t][saved[t].id].parts[b] # Gone
                      /\ phase[t] \in Final =>
                            \A u \in Upload : upload[t][u].open => saved[t].id = u
    BY DEF UploadsKnown
  <2>1. TypeOK /\ OpenInv(t) /\ SentInv(t) /\ saved[t] \in SavedRec
    BY PartTypes DEF Inv, TaskInv
  <2>2. ASSUME NEW b \in saved[t].parts, upload[t][saved[t].id].open
        PROVE  upload[t][saved[t].id].parts[b] # Gone
    <3>1. saved[t].id # "none" /\ saved[t].id \in Upload /\ b \in Block
      BY <2>1, <2>2 DEF OpenInv, SavedRec
    <3> QED
      BY <2>1, <2>2, <3>1 DEF SentInv
  <2>3. ASSUME phase[t] \in Final, NEW u \in Upload, upload[t][u].open
        PROVE  saved[t].id = u
    BY <2>1, <2>3 DEF OpenInv, Upload, Final
  <2> QED
    BY <2>2, <2>3
<1> QED
  BY <1>1, Invariant, PTL

-----------------------------------------------------------------------------
(* The tokens.                                                             *)

TasksHolding == {t \in Task : phase[t] \in Holding}
Grows(S, T) == \E x : x \notin S /\ T = S \cup {x}
Shrinks(S, T) == \E x \in S : T = S \ {x}

LEMMA CountGrows ==
  ASSUME NEW S, NEW T, IsFiniteSet(S), Grows(S, T)
  PROVE  Cardinality(T) = Cardinality(S) + 1
<1>1. PICK x : x \notin S /\ T = S \cup {x}
  BY DEF Grows
<1> QED
  BY <1>1, FS_AddElement

LEMMA CountShrinks ==
  ASSUME NEW S, NEW T, IsFiniteSet(S), Shrinks(S, T)
  PROVE  Cardinality(T) = Cardinality(S) - 1
<1>1. PICK x \in S : T = S \ {x}
  BY DEF Shrinks
<1> QED
  BY <1>1, FS_RemoveElement

LEMMA FiniteHolders ==
  /\ IsFiniteSet(TasksHolding) /\ IsFiniteSet(BlocksWithToken) /\ IsFiniteSet(PartsRunning)
  /\ Cardinality(TasksHolding) \in Nat /\ Cardinality(BlocksWithToken) \in Nat
  /\ Cardinality(PartsRunning) \in Nat
<1>1. IsFiniteSet(Task) /\ IsFiniteSet(1..Attempts) /\ IsFiniteSet(Block)
  BY TransferAssumption, FS_Interval DEF Block
<1>2. IsFiniteSet(Stage)
  <2>1. IsFiniteSet({"resumed"}) /\ IsFiniteSet({"fresh"}) /\ IsFiniteSet({"verify"})
    BY FS_Singleton
  <2>2. Stage = ({"resumed"} \cup {"fresh"}) \cup {"verify"}
    BY DEF Stage, Upload
  <2>3. IsFiniteSet({"resumed"} \cup {"fresh"})
    BY <2>1, FS_Union
  <2>4. IsFiniteSet(({"resumed"} \cup {"fresh"}) \cup {"verify"})
    BY <2>1, <2>3, FS_Union
  <2> QED
    BY <2>2, <2>4
<1>3. IsFiniteSet(Download \X Block)
  BY <1>1, FS_Product DEF Download
<1>4. IsFiniteSet(TasksHolding)
  BY <1>1, FS_Subset DEF TasksHolding
<1>5. IsFiniteSet(BlocksWithToken)
  BY <1>3, FS_Subset DEF BlocksWithToken
<1>6. IsFiniteSet(PartsRunning)
  <2>1. IsFiniteSet((Task \X Stage) \X Block)
    BY <1>1, <1>2, FS_Product
  <2> DEFINE g == [y \in (Task \X Stage) \X Block |-> <<y[1][1], y[1][2], y[2]>>]
  <2>2. g \in Surjection((Task \X Stage) \X Block, Task \X Stage \X Block)
    <3>1. g \in [(Task \X Stage) \X Block -> Task \X Stage \X Block]
      OBVIOUS
    <3>2. ASSUME NEW x \in Task \X Stage \X Block
          PROVE  \E y \in (Task \X Stage) \X Block : g[y] = x
      <4>1. <<<<x[1], x[2]>>, x[3]>> \in (Task \X Stage) \X Block /\ x = <<x[1], x[2], x[3]>>
        OBVIOUS
      <4>2. g[<<<<x[1], x[2]>>, x[3]>>] = x
        BY <4>1
      <4> QED
        BY <4>1, <4>2
    <3> QED
      BY <3>1, <3>2 DEF Surjection
  <2>3. IsFiniteSet(Task \X Stage \X Block)
    BY <2>1, <2>2, FS_Surjection
  <2> QED
    BY <2>3, FS_Subset DEF PartsRunning
<1> QED
  BY <1>4, <1>5, <1>6, FS_CardinalityType

LEMMA TokensMove ==
  ASSUME TypeOK, TokensAccounted,
         \/ tokens' = tokens /\ UNCHANGED <<TasksHolding, BlocksWithToken, PartsRunning>>
         \/ /\ Take
            /\ \/ Grows(TasksHolding, TasksHolding') /\ UNCHANGED <<BlocksWithToken, PartsRunning>>
               \/ Grows(BlocksWithToken, BlocksWithToken') /\ UNCHANGED <<TasksHolding, PartsRunning>>
               \/ Grows(PartsRunning, PartsRunning') /\ UNCHANGED <<TasksHolding, BlocksWithToken>>
         \/ /\ Release
            /\ \/ Shrinks(TasksHolding, TasksHolding') /\ UNCHANGED <<BlocksWithToken, PartsRunning>>
               \/ Shrinks(BlocksWithToken, BlocksWithToken') /\ UNCHANGED <<TasksHolding, PartsRunning>>
               \/ Shrinks(PartsRunning, PartsRunning') /\ UNCHANGED <<TasksHolding, BlocksWithToken>>
  PROVE  TokensAccounted'
<1> DEFINE H == Cardinality(TasksHolding)
           B == Cardinality(BlocksWithToken)
           P == Cardinality(PartsRunning)
<1>1. tokens = H + B + P /\ H \in Nat /\ B \in Nat /\ P \in Nat
  BY FiniteHolders DEF TokensAccounted, TasksHolding
<1>2. tokens' = H' + B' + P'
  <2>1. CASE tokens' = tokens /\ UNCHANGED <<TasksHolding, BlocksWithToken, PartsRunning>>
    BY <1>1, <2>1
  <2>2. CASE Take
    <3>1. CASE Grows(TasksHolding, TasksHolding') /\ UNCHANGED <<BlocksWithToken, PartsRunning>>
      <4>1. H' = H + 1 /\ B' = B /\ P' = P
        BY <3>1, FiniteHolders, CountGrows
      <4> QED
        BY <1>1, <2>2, <4>1 DEF Take
    <3>2. CASE Grows(BlocksWithToken, BlocksWithToken') /\ UNCHANGED <<TasksHolding, PartsRunning>>
      <4>1. H' = H /\ B' = B + 1 /\ P' = P
        BY <3>2, FiniteHolders, CountGrows
      <4> QED
        BY <1>1, <2>2, <4>1 DEF Take
    <3>3. CASE Grows(PartsRunning, PartsRunning') /\ UNCHANGED <<TasksHolding, BlocksWithToken>>
      <4>1. H' = H /\ B' = B /\ P' = P + 1
        BY <3>3, FiniteHolders, CountGrows
      <4> QED
        BY <1>1, <2>2, <4>1 DEF Take
    <3>4. ~Release
      BY <1>1, <2>2 DEF Take, Release
    <3>5. tokens' # tokens
      BY <1>1, <2>2 DEF Take
    <3> QED
      BY <3>1, <3>2, <3>3, <3>4, <3>5
  <2>3. CASE Release
    <3>1. CASE Shrinks(TasksHolding, TasksHolding') /\ UNCHANGED <<BlocksWithToken, PartsRunning>>
      <4>1. H' = H - 1 /\ B' = B /\ P' = P
        BY <3>1, FiniteHolders, CountShrinks
      <4> QED
        BY <1>1, <2>3, <4>1 DEF Release
    <3>2. CASE Shrinks(BlocksWithToken, BlocksWithToken') /\ UNCHANGED <<TasksHolding, PartsRunning>>
      <4>1. H' = H /\ B' = B - 1 /\ P' = P
        BY <3>2, FiniteHolders, CountShrinks
      <4> QED
        BY <1>1, <2>3, <4>1 DEF Release
    <3>3. CASE Shrinks(PartsRunning, PartsRunning') /\ UNCHANGED <<TasksHolding, BlocksWithToken>>
      <4>1. H' = H /\ B' = B /\ P' = P - 1
        BY <3>3, FiniteHolders, CountShrinks
      <4> QED
        BY <1>1, <2>3, <4>1 DEF Release
    <3>4. ~Take
      BY <1>1, <2>3 DEF Take, Release
    <3>5. tokens' # tokens
      BY <1>1, <2>3 DEF Release
    <3> QED
      BY <3>1, <3>2, <3>3, <3>4, <3>5
  <2> QED
    BY <2>1, <2>2, <2>3
<1> QED
  BY <1>2 DEF TokensAccounted, TasksHolding

\* the blocks that have a token
HasToken(d, b) == blk[d][b] \in {"get", "drop", "lost"} \/ (blk[d][b] = "saved" /\ ~closed[d])

LEMMA BlocksByToken == BlocksWithToken = {x \in Download \X Block : HasToken(x[1], x[2])}
  BY DEF BlocksWithToken, HasToken

LEMMA BlocksSame ==
  ASSUME \A d \in Download, b \in Block : HasToken(d, b)' <=> HasToken(d, b)
  PROVE  BlocksWithToken' = BlocksWithToken
<1>1. \A x \in Download \X Block : HasToken(x[1], x[2])' <=> HasToken(x[1], x[2])
  OBVIOUS
<1>2. BlocksWithToken' = {x \in Download \X Block : HasToken(x[1], x[2])'}
  BY DEF BlocksWithToken, HasToken
<1> QED
  BY <1>1, <1>2, BlocksByToken

\* Close leaves the tokens of saved blocks behind
LEMMA CloseTokens ==
  ASSUME Inv, NEW t \in Task, UNCHANGED downVars \/ CloseDownload(Current(t))
  PROVE  BlocksWithToken' = BlocksWithToken
<1>1. CASE UNCHANGED downVars
  BY <1>1, BlocksSame DEF HasToken, downVars
<1>2. CASE CloseDownload(Current(t))
  <2>1. ASSUME NEW d \in Download, NEW b \in Block
        PROVE  HasToken(d, b)' <=> HasToken(d, b)
    <3>1. PICK c \in Download : c = Current(t)
      BY CurrentDown DEF Inv
    <3>2. CASE d # c
      BY <1>2, <3>1, <3>2, CloseFacts DEF HasToken, Inv
    <3>3. CASE d = c /\ UNCHANGED downVars
      BY <3>3 DEF HasToken, downVars
    <3>4. CASE d = c /\ ~UNCHANGED downVars
      <4>1. /\ closed'[d] /\ blk'[d][b] = IF blk[d][b] = "saved" THEN "lost" ELSE blk[d][b]
        BY <1>2, <3>1, <3>4, CloseFacts DEF Inv
      <4>2. blk[d][b] = "saved" => ~closed[d]
        BY DEF Inv, DownInv
      <4> QED
        BY <4>1, <4>2 DEF HasToken
    <3> QED
      BY <3>2, <3>3, <3>4
  <2> QED
    BY <2>1, BlocksSame
<1> QED
  BY <1>1, <1>2

LEMMA HoldersSame ==
  ASSUME \A r \in Task : phase'[r] \in Holding <=> phase[r] \in Holding
  PROVE  TasksHolding' = TasksHolding
  BY DEF TasksHolding

LEMMA PartsSame ==
  ASSUME \A r \in Task, s \in Stage, b \in Block :
            part'[r][s][b] \in {"run", "sent"} <=> part[r][s][b] \in {"run", "sent"}
  PROVE  PartsRunning' = PartsRunning
  BY DEF PartsRunning

\* one block takes its token, gives it back or neither
LEMMA BlockTokens ==
  ASSUME TypeOK, NEW d \in Download, NEW b \in Block,
         \A e \in Download, c \in Block :
            e # d \/ c # b => blk'[e][c] = blk[e][c] /\ closed'[e] = closed[e]
  PROVE  /\ ~HasToken(d, b) /\ HasToken(d, b)' => Grows(BlocksWithToken, BlocksWithToken')
         /\ HasToken(d, b) /\ ~HasToken(d, b)' => Shrinks(BlocksWithToken, BlocksWithToken')
         /\ (HasToken(d, b)' <=> HasToken(d, b)) => BlocksWithToken' = BlocksWithToken
<1>1. \A e \in Download, c \in Block :
         e # d \/ c # b => (HasToken(e, c)' <=> HasToken(e, c))
  BY DEF HasToken
<1>2. \A x \in Download \X Block : x # <<d, b>> => (HasToken(x[1], x[2])' <=> HasToken(x[1], x[2]))
  BY <1>1
<1>3. /\ BlocksWithToken = {x \in Download \X Block : HasToken(x[1], x[2])}
      /\ BlocksWithToken' = {x \in Download \X Block : HasToken(x[1], x[2])'}
      /\ <<d, b>> \in Download \X Block
  BY DEF BlocksWithToken, HasToken
<1>4. ASSUME ~HasToken(d, b), HasToken(d, b)' PROVE Grows(BlocksWithToken, BlocksWithToken')
  <2>1. <<d, b>> \notin BlocksWithToken
    BY <1>3, <1>4
  <2>2. BlocksWithToken' = BlocksWithToken \cup {<<d, b>>}
    BY <1>2, <1>3, <1>4
  <2> QED
    BY <2>1, <2>2 DEF Grows
<1>5. ASSUME HasToken(d, b), ~HasToken(d, b)' PROVE Shrinks(BlocksWithToken, BlocksWithToken')
  <2>1. <<d, b>> \in BlocksWithToken
    BY <1>3, <1>5
  <2>2. BlocksWithToken' = BlocksWithToken \ {<<d, b>>}
    BY <1>2, <1>3, <1>5
  <2> QED
    BY <2>1, <2>2 DEF Shrinks
<1>6. ASSUME HasToken(d, b)' <=> HasToken(d, b) PROVE BlocksWithToken' = BlocksWithToken
  BY <1>1, <1>6, BlocksSame
<1> QED
  BY <1>4, <1>5, <1>6

\* one goroutine takes its token, gives it back or neither
Runs(t, s, b) == part[t][s][b] \in {"run", "sent"}

LEMMA PartTokens ==
  ASSUME TypeOK, NEW t \in Task, NEW s \in Stage, NEW b \in Block,
         NEW x \in PartState, PartGoes(t, s, b, x)
  PROVE  /\ ~Runs(t, s, b) /\ x \in {"run", "sent"} => Grows(PartsRunning, PartsRunning')
         /\ Runs(t, s, b) /\ x \notin {"run", "sent"} => Shrinks(PartsRunning, PartsRunning')
         /\ (x \in {"run", "sent"} <=> Runs(t, s, b)) => PartsRunning' = PartsRunning
<1>1. /\ \A r \in Task, u \in Stage, c \in Block :
            r # t \/ u # s \/ c # b => (Runs(r, u, c)' <=> Runs(r, u, c))
      /\ Runs(t, s, b)' <=> x \in {"run", "sent"}
  BY PartMoves DEF Runs
<1>2. /\ PartsRunning = {y \in Task \X Stage \X Block : Runs(y[1], y[2], y[3])}
      /\ PartsRunning' = {y \in Task \X Stage \X Block : Runs(y[1], y[2], y[3])'}
      /\ <<t, s, b>> \in Task \X Stage \X Block
  BY DEF PartsRunning, Runs
<1>3. \A y \in Task \X Stage \X Block :
         y # <<t, s, b>> => (Runs(y[1], y[2], y[3])' <=> Runs(y[1], y[2], y[3]))
  BY <1>1
<1>4. ASSUME ~Runs(t, s, b), Runs(t, s, b)' PROVE Grows(PartsRunning, PartsRunning')
  <2>1. <<t, s, b>> \notin PartsRunning
    BY <1>2, <1>4
  <2>2. PartsRunning' = PartsRunning \cup {<<t, s, b>>}
    BY <1>2, <1>3, <1>4
  <2> QED
    BY <2>1, <2>2 DEF Grows
<1>5. ASSUME Runs(t, s, b), ~Runs(t, s, b)' PROVE Shrinks(PartsRunning, PartsRunning')
  <2>1. <<t, s, b>> \in PartsRunning
    BY <1>2, <1>5
  <2>2. PartsRunning' = PartsRunning \ {<<t, s, b>>}
    BY <1>2, <1>3, <1>5
  <2> QED
    BY <2>1, <2>2 DEF Shrinks
<1>6. ASSUME Runs(t, s, b)' <=> Runs(t, s, b) PROVE PartsRunning' = PartsRunning
  BY <1>1, <1>6, PartsSame DEF Runs
<1> QED
  BY <1>1, <1>4, <1>5, <1>6

LEMMA TokensStep == Inv /\ TokensAccounted /\ [Next]_vars => TokensAccounted'
<1> SUFFICES ASSUME Inv, TokensAccounted, [Next]_vars
             PROVE  TokensAccounted'
  OBVIOUS
<1> USE DEF Parted
<1>0. TypeOK /\ \A t \in Task : TaskInv(t)
  BY DEF Inv
<1>1. CASE UNCHANGED <<tokens, phase, blk, closed, part>>
  BY <1>1 DEF TokensAccounted, BlocksWithToken, PartsRunning
<1>2. UNCHANGED <<blk, closed>> => BlocksWithToken' = BlocksWithToken
  BY BlocksSame DEF HasToken
<1>3. part' = part => PartsRunning' = PartsRunning
  BY DEF PartsRunning
<1>4. ASSUME NEW t \in Task, NEW p \in Phase, Goto(t, p), p \in Holding <=> phase[t] \in Holding
      PROVE  TasksHolding' = TasksHolding
  BY <1>0, <1>4, GotoFacts DEF TasksHolding
\* phase moves, and no token
<1>5. ASSUME NEW t \in Task, NEW p \in Phase, Goto(t, p), p \notin Holding, phase[t] \notin Holding,
             UNCHANGED downVars \/ CloseDownload(Current(t)), PartsRunning' = PartsRunning,
             tokens' = tokens
      PROVE  TokensAccounted'
  BY <1>0, <1>4, <1>5, CloseTokens, TokensMove
<1>6. ASSUME NEW t \in Task, NEW p \in Phase, Goto(t, p), p \notin Holding, phase[t] \in Holding,
             UNCHANGED downVars \/ CloseDownload(Current(t)), part' = part, Release
      PROVE  TokensAccounted'
  <2>1. Shrinks(TasksHolding, TasksHolding')
    <3>1. TasksHolding' = TasksHolding \ {t} /\ t \in TasksHolding
      BY <1>0, <1>6, GotoFacts DEF TasksHolding
    <3> QED
      BY <3>1 DEF Shrinks
  <2> QED
    BY <1>0, <1>3, <1>6, <2>1, CloseTokens, TokensMove
<1>7. {"copied", "failed", "skipped", "copy", "check", "verify", "token", "reading", "fresh", "resumed",
       "get", "put"} \subseteq Phase
  BY DEF Phase, Final, Holding, Upload
<1>8. AfterCopy \in {"check", "verify", "copied"} /\ \A t \in Task : CopyError(t) \in {"failed", "skipped"}
  BY DEF AfterCopy, CopyError
<1>9. ASSUME NEW w \in Worker, Fetch(w) PROVE TokensAccounted'
  <2>1. CASE PopHolder(w) \/ HolderDone(w) \/ Leave(w) \/ TaskDone(w)
    BY <1>1, <2>1 DEF PopHolder, HolderDone, Leave, TaskDone, downVars, partVars
  <2>2. ASSUME NEW t \in Task, Receive(w, t) PROVE TokensAccounted'
    BY <1>3, <1>5, <1>7, <2>2 DEF Receive, partVars, Holding
  <2> QED
    BY <1>9, <2>1, <2>2 DEF Fetch
<1>10. ASSUME NEW t \in Task, TokenDirect(t) PROVE TokensAccounted'
  <2>1. /\ phase[t] \notin Holding /\ Goto(t, "get") /\ UNCHANGED <<downVars, partVars>> /\ Take
    BY <1>10 DEF TokenDirect, Holding
  <2>2. Grows(TasksHolding, TasksHolding')
    <3>1. TasksHolding' = TasksHolding \cup {t} /\ t \notin TasksHolding
      BY <1>0, <1>7, <2>1, GotoFacts DEF TasksHolding, Holding
    <3> QED
      BY <3>1 DEF Grows
  <2> QED
    BY <1>0, <1>3, <2>1, <2>2, CloseTokens, TokensMove DEF partVars
<1>11. ASSUME NEW t \in Task, Copy(t) PROVE TokensAccounted'
  <2>1. CASE GetDirect(t)
    <3>1. Goto(t, "put") /\ phase[t] = "get" /\ UNCHANGED <<tokens, downVars, partVars>>
      BY <2>1 DEF GetDirect
    <3> QED
      BY <1>0, <1>3, <1>4, <1>7, <3>1, CloseTokens, TokensMove DEF Holding, partVars
  <2>2. CASE GetGone(t)
    BY <1>6, <1>7, <2>2 DEF GetGone, Holding, partVars
  <2>3. CASE PutDirect(t)
    BY <1>6, <1>7, <1>8, <2>3 DEF PutDirect, Stored, Holding, partVars
  <2>4. ASSUME Retry(t)
        PROVE  /\ CloseDownload(Current(t)) /\ \E p \in {"copy", "failed", "skipped"} : Goto(t, p)
    BY <1>8, <2>4 DEF Retry
  <2>5. CASE DirectFails(t)
    BY <1>6, <1>7, <2>4, <2>5 DEF DirectFails, Holding, partVars
  <2>6. CASE ReadError(t) \/ PutBreaks(t)
    <3>1. phase[t] = "reading" /\ Retry(t) /\ UNCHANGED <<tokens, partVars>>
      BY <2>6 DEF ReadError, Reads, PutBreaks
    <3> QED
      BY <1>3, <1>5, <1>7, <2>4, <3>1 DEF Holding, partVars
  <2>7. CASE StartDownload(t)
    <3>1. Goto(t, "reading") /\ phase[t] = "copy" /\ UNCHANGED <<tokens, blk, closed, partVars>>
      BY <2>7 DEF StartDownload
    <3> QED
      BY <1>0, <1>2, <1>3, <1>4, <1>7, <3>1, TokensMove DEF Holding, partVars
  <2>8. CASE NoTempFile(t) \/ CheckChanged(t) \/ VerifyFails(t) \/ Verified(t)
    <3>1. PICK p \in {"token", "verify", "copied", "failed"} :
              /\ Goto(t, p) /\ phase[t] \in {"reading", "check", "verify"}
              /\ UNCHANGED <<tokens, downVars, part>>
      BY <2>8 DEF NoTempFile, CheckChanged, VerifyFails, Verified, partVars
    <3> QED
      BY <1>3, <1>5, <1>7, <3>1 DEF Holding
  <2>9. CASE ReadWait(t)
    BY <1>1, <2>9 DEF ReadWait, partVars
  <2>10. CASE PutRead(t)
    <3>1. /\ phase[t] = "reading" /\ Goto(t, AfterCopy) /\ CloseDownload(Current(t))
          /\ UNCHANGED <<tokens, partVars>>
      BY <2>10 DEF PutRead, Stored
    <3> QED
      BY <1>3, <1>5, <1>7, <1>8, <3>1 DEF Holding, partVars
  <2>11. CASE ReadBlock(t)
    <3>1. PICK d \in Download, b \in Block : d = Current(t) /\ b = At(t)
      BY <1>0, <2>11, CurrentDown DEF ReadBlock, Reads
    <3> DEFINE nb == [blk[d] EXCEPT ![b] = "ended"]
    <3>2. /\ blk[d][b] = "saved" /\ blk' = [blk EXCEPT ![d] = nb] /\ Release
          /\ UNCHANGED <<phase, closed, part>>
      BY <2>11, <3>1 DEF ReadBlock, partVars
    <3>3. blk \in [Download -> [Block -> BlockState]] /\ blk[d] \in [Block -> BlockState]
      BY <1>0 DEF TypeOK
    <3>4. \A c \in Block : nb[c] = IF c = b THEN "ended" ELSE blk[d][c]
      BY <3>3
    <3> HIDE DEF nb
    <3>5. \A e \in Download, c \in Block :
             blk'[e][c] = IF e = d /\ c = b THEN "ended" ELSE blk[e][c]
      BY <3>2, <3>3, <3>4
    <3>6. HasToken(d, b) /\ ~HasToken(d, b)'
      BY <3>2, <3>5 DEF HasToken, Inv, DownInv
    <3>7. Shrinks(BlocksWithToken, BlocksWithToken')
      BY <1>0, <3>2, <3>5, <3>6, BlockTokens
    <3> QED
      BY <1>0, <1>3, <3>2, <3>7, TokensMove DEF TasksHolding
  <2>12. CASE Resume(t)
    <3>1. /\ phase[t] = "copy" /\ Goto(t, "resumed") /\ UNCHANGED <<tokens, downVars>>
          /\ part' = [part EXCEPT ![t]["resumed"] =
                [b \in Block |-> IF b \in saved[t].parts THEN "ok" ELSE "wait"]]
      BY <2>12 DEF Resume
    <3>2. \A b \in Block : part[t]["resumed"][b] = "none"
      BY <1>0, <2>12, PartTypes DEF Resume, TaskInv, IdleInv, SavedRec, Upload
    <3>3. PartsRunning' = PartsRunning
      BY <1>0, <3>1, <3>2, PartTypes, PartsSame
    <3> QED
      BY <1>5, <1>7, <3>1, <3>3 DEF Holding
  <2>13. CASE StartParts(t)
    <3>1. CASE Create(t)
      <4>1. /\ phase[t] = "copy" /\ Goto(t, "fresh") /\ UNCHANGED <<tokens, downVars>>
            /\ part' = [part EXCEPT ![t]["fresh"] = [b \in Block |-> "wait"]]
        BY <2>13, <3>1 DEF StartParts, Create
      <4>2. \A b \in Block : part[t]["fresh"][b] = "none"
        BY <1>0, <2>13 DEF StartParts, TaskInv, IdleInv
      <4>3. PartsRunning' = PartsRunning
        BY <1>0, <4>1, <4>2, PartTypes, PartsSame
      <4> QED
        BY <1>5, <1>7, <4>1, <4>3 DEF Holding
    <3>2. CASE ~Create(t)
      BY <1>3, <1>5, <1>7, <1>8, <2>13, <3>2 DEF StartParts, Holding
    <3> QED
      BY <3>1, <3>2
  <2>14. CASE ResumedFails(t) \/ FreshFails(t)
    <3>1. PICK p \in {"copy", "failed", "skipped"} :
              phase[t] \in {"resumed", "fresh"} /\ Goto(t, p) /\ UNCHANGED <<tokens, downVars, part>>
      BY <1>8, <2>14 DEF ResumedFails, FreshFails
    <3> QED
      BY <1>3, <1>5, <1>7, <3>1 DEF Holding
  <2>15. CASE CompleteParts(t)
    <3>1. phase[t] \in Upload /\ Goto(t, AfterCopy) /\ UNCHANGED <<tokens, downVars, part>>
      BY <2>15 DEF CompleteParts, Stored
    <3> QED
      BY <1>3, <1>5, <1>7, <1>8, <3>1 DEF Holding, Upload
  <2>16. CASE StartVerify(t)
    <3>1. /\ part' = [part EXCEPT ![t]["verify"] =
                [b \in Block |-> IF Large(t) \/ b = 1 THEN "wait" ELSE "none"]]
          /\ UNCHANGED <<tokens, phase, downVars>>
          /\ \A b \in Block : part[t]["verify"][b] = "none"
      BY <2>16 DEF StartVerify, Parts
    <3>2. PartsRunning' = PartsRunning
      BY <1>0, <3>1, PartTypes, PartsSame
    <3> QED
      BY <1>0, <3>1, <3>2, CloseTokens, TokensMove DEF TasksHolding
  <2> QED
    BY <1>11, <2>1, <2>2, <2>3, <2>5, <2>6, <2>7, <2>8, <2>9, <2>10, <2>11, <2>12, <2>13, <2>14,
       <2>15, <2>16 DEF Copy
<1>12. ASSUME NEW d \in Download, BeginBlock(d) PROVE TokensAccounted'
  <2>1. PICK b \in Block : b = next[d]
    BY <1>12 DEF BeginBlock
  <2> DEFINE nb == [blk[d] EXCEPT ![b] = IF err[d] THEN "drop" ELSE "get"]
  <2>2. /\ blk' = [blk EXCEPT ![d] = nb] /\ Take /\ UNCHANGED <<phase, closed, part>>
    BY <1>12, <2>1 DEF BeginBlock, partVars
  <2>3. blk \in [Download -> [Block -> BlockState]] /\ blk[d] \in [Block -> BlockState]
    BY <1>0 DEF TypeOK
  <2>4. /\ \A c \in Block \ {b} : nb[c] = blk[d][c]
        /\ nb[b] \in {"drop", "get"}
    BY <2>3
  <2> HIDE DEF nb
  <2>5. /\ \A e \in Download, c \in Block : e # d \/ c # b => blk'[e][c] = blk[e][c]
        /\ blk'[d][b] \in {"drop", "get"}
    BY <2>2, <2>3, <2>4
  <2>6. blk[d][b] = "none"
    <3>1. DownInv(d) /\ next[d] \in Nat
      BY <2>1 DEF Inv, Block
    <3> QED
      BY <2>1, <3>1 DEF DownInv
  <2>7. Grows(BlocksWithToken, BlocksWithToken')
    BY <1>0, <2>2, <2>5, <2>6, BlockTokens DEF HasToken
  <2> QED
    BY <1>0, <1>3, <2>2, <2>7, TokensMove DEF TasksHolding
<1>13. ASSUME NEW d \in Download, NEW b \in Block, BlockStep(d, b) PROVE TokensAccounted'
  <2>1. PICK s \in {"drop", "ended", "saved"} :
           /\ blk' = [blk EXCEPT ![d][b] = s] /\ (s = "saved" => ~closed[d])
           /\ UNCHANGED <<phase, closed, part>>
           /\ blk[d][b] \in {"get", "drop"}
           /\ IF s = "ended" THEN Release ELSE tokens' = tokens
    BY <1>13 DEF BlockStep, SkipBlock, SaveBlock, BlockFails, EndBlock, partVars
  <2> DEFINE nb == [blk[d] EXCEPT ![b] = s]
  <2>2. blk' = [blk EXCEPT ![d] = nb]
    BY <2>1
  <2>3. blk \in [Download -> [Block -> BlockState]] /\ blk[d] \in [Block -> BlockState]
    BY <1>0 DEF TypeOK
  <2>4. (\A c \in Block \ {b} : nb[c] = blk[d][c]) /\ nb[b] = s
    BY <2>3
  <2> HIDE DEF nb
  <2>5. /\ \A e \in Download, c \in Block : e # d \/ c # b => blk'[e][c] = blk[e][c]
        /\ blk'[d][b] = s
    BY <2>2, <2>3, <2>4
  <2>6. HasToken(d, b) /\ (HasToken(d, b)' <=> s # "ended")
    BY <2>1, <2>5 DEF HasToken
  <2>7. IF s = "ended" THEN Shrinks(BlocksWithToken, BlocksWithToken') ELSE BlocksWithToken' = BlocksWithToken
    BY <1>0, <2>1, <2>5, <2>6, BlockTokens
  <2> QED
    BY <1>0, <1>3, <2>1, <2>7, TokensMove DEF TasksHolding
<1>14. ASSUME NEW t \in Task, NEW s \in Stage, NEW b \in Block, NEW x \in PartState, PartGoes(t, s, b, x),
              UNCHANGED <<phase, downVars>>,
              \/ Take /\ ~Runs(t, s, b) /\ x \in {"run", "sent"}
              \/ Release /\ Runs(t, s, b) /\ x \notin {"run", "sent"}
              \/ tokens' = tokens /\ (x \in {"run", "sent"} <=> Runs(t, s, b))
       PROVE  TokensAccounted'
  <2>1. TasksHolding' = TasksHolding /\ BlocksWithToken' = BlocksWithToken
    BY <1>14, CloseTokens DEF TasksHolding
  <2> QED
    BY <1>0, <1>14, <2>1, PartTokens, TokensMove
<1>15. ASSUME NEW t \in Task, NEW s \in Stage, NEW b \in Block,
              TokenPart(t, s, b) \/ AbortPart(t, s, b) \/ PartFails(t, s, b)
       PROVE  TokensAccounted'
  <2>1. PICK x \in {"run", "bad"} :
           /\ PartGoes(t, s, b, x) /\ UNCHANGED <<phase, downVars>>
           /\ \/ Take /\ part[t][s][b] = "wait" /\ x = "run"
              \/ Release /\ part[t][s][b] = "run" /\ x = "bad"
              \/ tokens' = tokens /\ part[t][s][b] = "wait" /\ x = "bad"
    BY <1>15 DEF PartGoes, TokenPart, AbortPart, PartFails
  <2> QED
    BY <1>14, <2>1 DEF Runs, PartState
<1>16. ASSUME NEW t \in Task, NEW b \in Block, ReadBack(t, b) PROVE TokensAccounted'
  <2>1. /\ PartGoes(t, "verify", b, "ok") /\ UNCHANGED <<phase, downVars>>
        /\ Release /\ part[t]["verify"][b] = "run" /\ "verify" \in Stage
    BY <1>16 DEF PartGoes, ReadBack, Stage
  <2> QED
    BY <1>14, <2>1 DEF Runs, PartState
<1>17. ASSUME NEW t \in Task, NEW s \in Upload, NEW b \in Block, UploadPart(t, s, b) \/ MarkPart(t, s, b)
       PROVE  TokensAccounted'
  <2>1. PICK x \in {"sent", "ok"} :
           /\ PartGoes(t, s, b, x) /\ UNCHANGED <<phase, downVars>> /\ s \in Stage
           /\ \/ Release /\ part[t][s][b] = "sent" /\ x = "ok"
              \/ tokens' = tokens /\ part[t][s][b] = "run" /\ x = "sent"
    BY <1>17 DEF PartGoes, UploadPart, MarkPart, Stage
  <2> QED
    BY <1>14, <2>1 DEF Runs, PartState
<1>18. ASSUME NEW t \in Task, SourceChanges(t) PROVE TokensAccounted'
  BY <1>1, <1>18 DEF SourceChanges, downVars, partVars
<1>19. CASE UNCHANGED vars
  BY <1>1, <1>19 DEF vars, downVars, partVars
<1> QED
  BY <1>9, <1>10, <1>11, <1>12, <1>13, <1>15, <1>16, <1>17, <1>18, <1>19 DEF Next, System

\* Every token belongs to one request in flight, to one block whose reader will still take
\* it, or to a block its downloader was closed over: none is returned twice, and none is
\* left behind except by Close.
THEOREM EveryTokenAccounted == Spec => []TokensAccounted
<1>1. Init => TokensAccounted
  <2> SUFFICES ASSUME Init PROVE TokensAccounted
    OBVIOUS
  <2>1. TasksHolding = {} /\ BlocksWithToken = {} /\ PartsRunning = {}
    BY DEF Init, TasksHolding, BlocksWithToken, PartsRunning, Holding
  <2>2. tokens = 0 /\ Cardinality({}) = 0
    BY FS_EmptySet DEF Init
  <2> QED
    BY <2>1, <2>2 DEF TokensAccounted, TasksHolding
<1>2. Inv /\ TokensAccounted /\ [Next]_vars => TokensAccounted'
  BY TokensStep
<1> QED
  BY <1>1, <1>2, Invariant, PTL DEF Spec

=============================================================================
