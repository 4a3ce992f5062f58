---------------------------- MODULE MCCheckpoint ----------------------------
(* Instances of Checkpoint for TLC. *)
EXTENDS Checkpoint, TLC

CONSTANTS r, a, b,               \* the root and two child prefixes
          k1, k2, k3, k4,        \* keys
          w1, w2

\* a single listing (--list-threads 1)
PairListing == r :> <<k1, k2>>
PairKind == k1 :> "send" @@ k2 :> "send"
NoFile == NoCheckpoint

\* the root and its top-level directories (--list-threads > 1), resumed from a
\* checkpoint taken when the first key of the root was recorded
DeepListing == r :> <<k1, a, k3>> @@ a :> <<k2>>
DeepKind == k1 :> "skip" @@ k2 :> "send" @@ k3 :> "send"
RootFile == [NoCheckpoint EXCEPT
    !.exists = TRUE,
    !.state[r] = [NoState EXCEPT !.present = TRUE, !.last = 1]]

\* a fresh run whose root begins with a directory
DirFirstListing == r :> <<a, k1>> @@ a :> <<k2>>

\* a directory only the destination has, and delayed deletes on both sides
DelayedListing == r :> <<k1, a>> @@ a :> <<k2, k3>>
DelayedKind == k1 :> "srcdir" @@ k2 :> "send" @@ k3 :> "dstdir"
=============================================================================
