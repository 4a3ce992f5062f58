----------------------------- MODULE MCTransfer -----------------------------
(* An instance of Transfer for TLC: a large object and a small one.          *)
EXTENDS Transfer

MCTask == {"x", "y"}
MCWorker == {"w1", "w2"}

Copies(kx, ky, n, checkChange, checkNew, checkpoint) ==
    [kind : {[t \in MCTask |-> IF t = "x" THEN kx ELSE ky]},
     holds : {[t \in MCTask |-> IF t = "x" THEN n ELSE 0]},
     checkChange : checkChange, checkNew : checkNew, checkpoint : checkpoint]

MCCommand ==
    Copies("ahead", "direct", 2, {TRUE}, {FALSE}, {FALSE})
    \cup Copies("parts", "direct", 1, {TRUE}, {TRUE}, {FALSE})
    \cup Copies("parts", "direct", 1, {FALSE}, {FALSE}, {TRUE})
=============================================================================
