----------------------------- MODULE MCObjects -----------------------------
(***************************************************************************)
(* The calls a job makes of its stores, one of them at a time: a listing   *)
(* of a flat store, a walk of a tree, a Put or a Delete, a read of a       *)
(* range, an upload in parts.                                              *)
(***************************************************************************)
EXTENDS Listing, Walk, Requests, Reading, Parts

MCListCalls ==
    [list : FlatLists \cup {Redis, Ceph}, start : {0}, head : {FALSE}, end : {0, 4}]
    \cup [list : FlatLists \cup {Redis, Ceph}, start : {2}, head : BOOLEAN, end : {0}]

\* 1 is a directory with the directory 2, which has 3, and with the file 4
MCParentOf == <<0, 1, 2, 1, 0, 0>>
MCDirectory == {0, 1, 2, 5}
MCWalkCalls ==
    [list : TreeLists, start : {0, 3, 4}, end : {0}] \cup [list : TreeLists, start : {0}, end : {4}]

MCRequestCalls == [what : Puts, inplace : BOOLEAN] \cup [what : Deletes, inplace : {FALSE}]

\* an object of n bytes becomes one of m, or goes
Sizes(n) == {<<n, m>> : m \in {1, 3}}
Reads(gets, heads, encs, kind, off, len, sizes) ==
    [get : gets, head : heads, encrypted : encs, kind : {kind}, off : {off}, len : {len}, sizes : sizes]
MCReadCalls ==
    UNION {Reads(Gets, {s3Head}, BOOLEAN, "full", off, len, Sizes(off + len + more)) :
               off \in 0..3, len \in 1..2, more \in 0..1}
    \cup Reads(Gets, {s3Head}, BOOLEAN, "full", 0, 0, Sizes(0))
    \cup Reads({fileGet}, Heads, BOOLEAN, "whole", 0, 0, Sizes(0))
    \cup UNION {Reads(Gets, Heads, BOOLEAN, "stream", 0, 0, Sizes(n))
                    \cup Reads(Gets, {s3Head}, {FALSE}, "whole", 0, 0, Sizes(n))
                    \cup Reads({get \in Gets : ~get.live}, {s3Head}, {TRUE}, "whole", 0, 0, Sizes(n)) :
                        n \in 1..4}
    \cup Reads({s3Get}, Heads, BOOLEAN, "single", 0, 0, Sizes(1))

\* 6 is MinPart * MaxCount, 12 is MaxPart * MaxCount
MCPartCalls == [up : Multiparts, size : {1, 6, 7, 8, 9, 13}, checkpoint : BOOLEAN]

vars == <<listVars, walkVars, requestVars, readVars, uploadVars>>

Init ==
    \/ ListInit /\ WalkIdle /\ RequestsIdle /\ ReadIdle /\ UploadIdle
    \/ ListIdle /\ WalkInit /\ RequestsIdle /\ ReadIdle /\ UploadIdle
    \/ ListIdle /\ WalkIdle /\ RequestsInit /\ ReadIdle /\ UploadIdle
    \/ ListIdle /\ WalkIdle /\ RequestsIdle /\ ReadInit /\ UploadIdle
    \/ ListIdle /\ WalkIdle /\ RequestsIdle /\ ReadIdle /\ UploadInit

System ==
    \/ ListSystem /\ UNCHANGED <<walkVars, requestVars, readVars, uploadVars>>
    \/ WalkSystem /\ UNCHANGED <<listVars, requestVars, readVars, uploadVars>>
    \/ RequestsSystem /\ UNCHANGED <<listVars, walkVars, readVars, uploadVars>>
    \/ ReadSystem /\ UNCHANGED <<listVars, walkVars, requestVars, uploadVars>>
    \/ UploadSystem /\ UNCHANGED <<listVars, walkVars, requestVars, readVars>>

Next ==
    \/ System
    \/ KeyChanges /\ UNCHANGED <<walkVars, requestVars, readVars, uploadVars>>
    \/ TreeChanges /\ UNCHANGED <<listVars, requestVars, readVars, uploadVars>>
    \/ Crash /\ UNCHANGED <<listVars, walkVars, readVars, uploadVars>>
    \/ ObjectChanges /\ UNCHANGED <<listVars, walkVars, requestVars, uploadVars>>
    \/ UploadCrash /\ UNCHANGED <<listVars, walkVars, requestVars, readVars>>

Spec == Init /\ [][Next]_vars /\ WF_vars(System)

ObjectsTypeOK == ListTypeOK /\ WalkTypeOK /\ RequestsTypeOK /\ ReadTypeOK /\ UploadTypeOK

\* Every call returns and every channel is closed, whatever fails: no consumer waits for
\* a goroutine that is gone, and no helper of a walk is left behind.
CallsEnd ==
    <>[](ListEnded /\ WalkEnded /\ rpc \in {"idle", "ok", "failed"} /\ ReadEnded /\ UploadEnded)
=============================================================================
