------------------------------ MODULE Reading ------------------------------
(***************************************************************************)
(* Reading a range of one object (pkg/sync/sync.go doCopySingle0,          *)
(* doUploadPart, compObjPartBinary, produceSingleObject over the adapters' *)
(* Get and Head, and pkg/object/encrypt_chunked.go): the object may be     *)
(* overwritten, replaced or removed while it is read, and requests fail.   *)
(* A byte is a pair of the version it belongs to and its place.            *)
(***************************************************************************)
EXTENDS Backends, FiniteSets, FiniteSetsExt

CONSTANTS
    PlainChunk,   \* plain bytes of a chunk (1 MiB in the code)
    Overhead,     \* what its header and the cipher add
    ReadCalls,    \* the calls to make
    ReadFaults,   \* bound: requests that fail
    ReadChanges   \* bound: times the object is changed

Gone == 0
MaxVersions == 2  \* bound: the object is as it was, another, or gone
All == -1         \* limit of Get for the whole of the object

\* stream: doCopySingle0; full: parts, blocks and comparisons; whole: Get(0, -1);
\* single: produceSingleObject
ReadKinds == {"stream", "full", "whole", "single"}

ASSUME ReadingAssumption ==
    /\ PlainChunk \in Nat \ {0} /\ Overhead \in Nat \ {0}
    /\ ReadFaults \in Nat /\ ReadChanges \in Nat
    /\ \A c \in ReadCalls :
           /\ c.get \in Gets /\ c.head \in Heads /\ c.encrypted \in BOOLEAN /\ c.kind \in ReadKinds
           /\ c.sizes \in [1..MaxVersions -> Nat] /\ {c.off, c.len} \subseteq Nat
           /\ c.kind = "full" => c.off + c.len <= c.sizes[1] /\ (c.len > 0 \/ c.off = 0)
           /\ c.kind # "full" => c.off = 0
           \* the checkpoint of an encrypted target is written by nobody while it is loaded
           /\ c.kind = "whole" /\ c.encrypted /\ c.sizes[1] > 0 => ~c.get.live

VARIABLES
    gcall,     \* the call, <<>> if none is made
    gpc,
    version,   \* of the object
    vanished,  \* it was gone at some time (history)
    opened,    \* the version that is read
    at,        \* the place that is read next, in what is stored
    raw,       \* of a chunk, before it is decrypted
    read,      \* what the caller got
    gfaults, gchanges

readVars == <<gcall, gpc, version, vanished, opened, at, raw, read, gfaults, gchanges>>

GPC == {"idle", "meta", "get", "read", "look", "target", "ok", "failed", "skipped", "panic"}
Cell == (0..MaxVersions) \X Nat

ReadTypeOK ==
    /\ (gcall = <<>> \/ gcall \in ReadCalls) /\ gpc \in GPC
    /\ {version, opened} \subseteq 0..MaxVersions /\ vanished \in BOOLEAN
    /\ at \in Nat /\ raw \in Seq(Cell) /\ read \in Seq(Cell)
    /\ gfaults \in 0..ReadFaults /\ gchanges \in 0..ReadChanges

ReadFault == gfaults < ReadFaults /\ gfaults' = gfaults + 1

-----------------------------------------------------------------------------
(* chunkedEncrypted: chunks of EncChunk bytes, the last one shorter.       *)

EncChunk == PlainChunk + Overhead

Encrypted(n) == n + Overhead * ((n + PlainChunk - 1) \div PlainChunk)
StoredSize(v) ==
    IF v = Gone THEN 0
    ELSE IF gcall.encrypted THEN Encrypted(gcall.sizes[v]) ELSE gcall.sizes[v]

PlainSize(n) ==
    IF n <= Overhead THEN n
    ELSE (n \div EncChunk) * PlainChunk
         + (IF n % EncChunk > Overhead THEN (n % EncChunk) - Overhead ELSE 0)

\* what the caller was told: the size it streams, or the range it wants
Listed == IF gcall.encrypted THEN PlainSize(StoredSize(1)) ELSE StoredSize(1)
Limit ==
    CASE gcall.kind = "stream" -> Listed
      [] gcall.kind = "whole" -> All
      [] OTHER -> gcall.len

\* the range of the adapter below
FirstChunk == gcall.off \div PlainChunk
BaseOff == IF gcall.encrypted THEN FirstChunk * EncChunk ELSE gcall.off
BaseLimit ==
    IF ~gcall.encrypted THEN Limit
    ELSE IF Limit > 0 THEN ((gcall.off + Limit - 1) \div PlainChunk - FirstChunk + 1) * EncChunk
    ELSE All

\* A chunk that is cut short or put together from two versions is an error.
Authentic(cells) ==
    LET v == cells[1][1]
        start == (cells[1][2] \div EncChunk) * EncChunk
        n == Min({EncChunk, StoredSize(v) - start})
    IN Len(cells) >= n /\ \A i \in 1..n : cells[i] = <<v, start + i - 1>>

Decrypted(cells) ==
    LET v == cells[1][1]
        c == cells[1][2] \div EncChunk
        n == Min({EncChunk, StoredSize(v) - c * EncChunk}) - Overhead
    IN [i \in 1..n |-> <<v, c * PlainChunk + i - 1>>]

-----------------------------------------------------------------------------
(* The caller.                                                             *)

\* getSrcMeta reads what Head gives it, if that is no error
Meta ==
    /\ gpc = "meta" /\ gcall.kind = "stream"
    /\ \/ gpc' = "get" /\ UNCHANGED gfaults
       \/ ReadFault /\ gpc' = IF gcall.head.failed = "nothing" THEN "panic" ELSE "get"
    /\ UNCHANGED <<gcall, version, vanished, opened, at, raw, read, gchanges>>

\* a range that begins behind the object, or that nobody serves
Refused(n) ==
    \/ BaseLimit = 0 /\ gcall.get.zero = "refused"
    \/ gcall.get.past = "error" /\ (BaseOff > 0 \/ BaseLimit > 0) /\ BaseOff >= n

Open ==
    /\ gpc = "get"
    /\ gpc' = IF version = Gone \/ Refused(StoredSize(version)) THEN "look" ELSE "read"
    /\ opened' = version /\ at' = BaseOff
    /\ UNCHANGED <<gcall, version, vanished, raw, read, gfaults, gchanges>>

OpenFails ==
    /\ gpc = "get" /\ ReadFault
    /\ gpc' = "look"
    /\ UNCHANGED <<gcall, version, vanished, opened, at, raw, read, gchanges>>

\* the caller has what it wants: the end of ReadFull, or of LimitReader
Satisfied == Limit >= 0 /\ Len(read) >= Limit
BodyEnds ==
    \/ at >= StoredSize(opened)
    \/ (BaseLimit > 0 \/ (BaseLimit = 0 /\ gcall.get.zero = "nothing")) /\ at >= BaseOff + BaseLimit
ChunkReady == raw # <<>> /\ (Len(raw) = EncChunk \/ BodyEnds)

ReadByte ==
    /\ gpc = "read" /\ ~Satisfied /\ ~BodyEnds /\ ~ChunkReady
    /\ at' = at + 1
    /\ IF gcall.encrypted
       THEN raw' = Append(raw, <<opened, at>>) /\ UNCHANGED read
       ELSE read' = Append(read, <<opened, at>>) /\ UNCHANGED raw
    /\ UNCHANGED <<gcall, gpc, version, vanished, opened, gfaults, gchanges>>

\* the reader is at its end: ReadFull wants all it asked for, a stream takes what there is
AtEnd == IF Satisfied \/ gcall.kind # "full" THEN "ok" ELSE "look"

\* the first chunk may begin before off, or end before it; what is over the limit is not read
Decrypt ==
    LET skip == IF read = <<>> THEN gcall.off - FirstChunk * PlainChunk ELSE 0
        rest == Len(Decrypted(raw)) - skip
        n == IF Limit < 0 THEN rest ELSE Min({rest, Limit - Len(read)})
    IN
    /\ gpc = "read" /\ ~Satisfied /\ ChunkReady
    /\ raw' = <<>>
    /\ IF ~Authentic(raw) THEN gpc' = "look" /\ UNCHANGED read
       ELSE IF rest <= 0 THEN gpc' = AtEnd /\ UNCHANGED read
       ELSE read' = read \o SubSeq(Decrypted(raw), skip + 1, skip + n) /\ UNCHANGED gpc
    /\ UNCHANGED <<gcall, version, vanished, opened, at, gfaults, gchanges>>

\* bug: a body that ends early is taken for all of it
FinishShort ==
    /\ gpc = "read" /\ (Satisfied \/ (BodyEnds /\ raw = <<>>))
    /\ gpc' = "ok"
    /\ UNCHANGED <<gcall, version, vanished, opened, at, raw, read, gfaults, gchanges>>

Finish ==
    /\ gpc = "read" /\ (Satisfied \/ (BodyEnds /\ raw = <<>>))
    /\ gpc' = AtEnd
    /\ UNCHANGED <<gcall, version, vanished, opened, at, raw, read, gfaults, gchanges>>

Breaks ==
    /\ gpc = "read" /\ ~Satisfied /\ ReadFault
    /\ gpc' = "look"
    /\ UNCHANGED <<gcall, version, vanished, opened, at, raw, read, gchanges>>

\* after an error: an object that is gone is skipped
LookAgain ==
    /\ gpc = "look"
    /\ \/ gpc' = (IF version = Gone THEN "skipped" ELSE "failed") /\ UNCHANGED gfaults
       \/ ReadFault /\ gpc' = "failed"
    /\ UNCHANGED <<gcall, version, vanished, opened, at, raw, read, gchanges>>

-----------------------------------------------------------------------------
(* produceSingleObject: the source, and the target if there is one.        *)

SourceHead ==
    /\ gpc = "meta" /\ gcall.kind = "single"
    /\ \/ gpc' = (IF version = Gone THEN "failed" ELSE "target") /\ UNCHANGED gfaults
       \/ ReadFault /\ gpc' = IF gcall.head.failed = "nothing" THEN "panic" ELSE "failed"
    /\ UNCHANGED <<gcall, version, vanished, opened, at, raw, read, gchanges>>

TargetHead ==
    /\ gpc = "target"
    /\ \/ gpc' \in {"ok", IF gcall.head.gone = "pointer" THEN "panic" ELSE "ok"} /\ UNCHANGED gfaults
       \/ ReadFault /\ gpc' = IF gcall.head.failed = "nothing" THEN "ok" ELSE "failed"
    /\ UNCHANGED <<gcall, version, vanished, opened, at, raw, read, gchanges>>

-----------------------------------------------------------------------------
\* The object is overwritten in place, replaced, or removed: whoever reads it goes on with
\* what was there, or, if the store is live, with what is there now.
ObjectChanges ==
    /\ gpc \in {"meta", "get", "read", "look"} /\ gchanges < ReadChanges /\ gchanges' = gchanges + 1
    /\ version' \in {Gone, 2}
    /\ vanished' = (vanished \/ version' = Gone)
    /\ opened' \in {opened} \cup (IF gcall.get.live /\ gpc = "read" THEN {version'} ELSE {})
    /\ UNCHANGED <<gcall, gpc, at, raw, read, gfaults>>

NoRead ==
    /\ vanished = FALSE /\ opened = Gone /\ at = 0 /\ raw = <<>> /\ read = <<>>
    /\ gfaults = 0 /\ gchanges = 0

ReadIdle == gcall = <<>> /\ gpc = "idle" /\ version = Gone /\ NoRead

ReadInit ==
    /\ gcall \in ReadCalls /\ version = 1
    /\ gpc = IF gcall.kind \in {"stream", "single"} THEN "meta" ELSE "get"
    /\ NoRead

ReadSystem ==
    \/ Meta \/ Open \/ OpenFails \/ ReadByte \/ Decrypt \/ Finish \/ Breaks \/ LookAgain
    \/ SourceHead \/ TargetHead

ReadNext == ReadSystem \/ ObjectChanges

ReadEnded == gpc \in {"idle", "ok", "failed", "skipped", "panic"}

-----------------------------------------------------------------------------
Versions == {read[i][1] : i \in DOMAIN read}

\* Whatever happens to the object while it is read, and however it is stored: a caller that
\* got no error has the bytes of its range, each from its place, from a single version
\* unless the store is live, all of them if it asked for a part, and all there are if it
\* streams; an object is skipped only if it was gone; and without a fault or a change no
\* read fails.
ReadRight ==
    gcall # <<>> =>
        /\ gpc = "ok" /\ gcall.kind # "single" =>
               /\ \A i \in DOMAIN read : read[i][2] = gcall.off + i - 1
               /\ gcall.get.live \/ Cardinality(Versions) <= 1
               /\ gcall.kind = "full" => Len(read) = gcall.len
               /\ gcall.kind # "full" /\ gchanges = 0 => Len(read) = gcall.sizes[1]
               /\ gcall.kind = "stream" /\ ~gcall.get.live =>
                      Len(read) = Min({Listed, gcall.sizes[opened]})
        /\ gpc = "skipped" => vanished
        /\ gpc = "failed" =>
               gfaults > 0 \/ gchanges > 0 \/ (gcall.get.zero = "refused" /\ Limit = 0)
        /\ gpc = "panic" => gcall.head.failed = "nothing" \/ gcall.head.gone = "pointer"
=============================================================================
