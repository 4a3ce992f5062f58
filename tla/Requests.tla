------------------------------ MODULE Requests ------------------------------
(***************************************************************************)
(* Writing and deleting one object (pkg/object: Put and Delete of the      *)
(* adapters; pkg/sync/sync.go try, deleteObj): an adapter takes several    *)
(* steps, each of which may fail, or succeed without its answer arriving;  *)
(* the whole is tried again; the process may die at any point and do it    *)
(* all again when it is run next.                                          *)
(***************************************************************************)
EXTENDS Backends, Naturals, FiniteSets

CONSTANTS
    Attempts,       \* of try (3 in the code)
    RequestCalls,   \* Puts and Deletes, with inplace for --inplace
    RequestFaults,  \* bound: steps that fail or whose answer is lost
    RequestCrashes  \* bound: times the process dies

ASSUME RequestAssumption ==
    /\ Attempts \in Nat \ {0} /\ RequestFaults \in Nat /\ RequestCrashes \in Nat
    /\ RequestCalls \subseteq [what : Puts \cup Deletes, inplace : BOOLEAN]

\* nothing; the data that was there, which may be longer than the new; the new data;
\* a part of it; new data with the rest of the old behind it
Data == {"none", "old", "longer", "new", "part", "mixed"}
Whole == {"none", "old", "longer", "new"}

VARIABLES
    rcall,    \* the call, <<>> if none is made
    rpc,
    step,     \* the step of Put that is next
    attempt,
    object,   \* what readers get
    before,   \* what they got at first (history)
    beneath,  \* the version before, which some services keep
    temp,     \* the temporary file of this attempt
    litter,   \* a temporary file is left that nothing kept from being removed
    final,    \* an error that try does not try again after
    rfaults, crashes

dataVars == <<object, before, beneath, temp, litter>>
requestVars == <<rcall, rpc, step, attempt, dataVars, final, rfaults, crashes>>

RPC == {"idle", "run", "clean", "dead", "ok", "failed"}

RequestsTypeOK ==
    /\ (rcall = <<>> \/ rcall \in RequestCalls) /\ rpc \in RPC
    /\ step \in 1..5 /\ attempt \in 1..Attempts
    /\ {object, before, beneath, temp} \subseteq Data /\ litter \in BOOLEAN /\ final \in BOOLEAN
    /\ rfaults \in 0..RequestFaults /\ crashes \in 0..RequestCrashes

RequestFault == rfaults < RequestFaults /\ rfaults' = rfaults + 1

IsPut == rcall.what.op = "put"
Steps == rcall.what.steps
InPlace == rcall.what = glusterPut \/ (rcall.what.inplace /\ rcall.inplace)
\* with --inplace the file is written where it is and not renamed; without, a file of a
\* name of its own is never there yet
Skipped(s) ==
    \/ InPlace /\ s \in {"remove", "rename"}
    \/ ~InPlace /\ s = "unlink"

\* what is in the file that is written after the step
Written(s) == IF s = "create" THEN "part" ELSE "new"

Does(s) ==
    IF Skipped(s) THEN UNCHANGED <<object, temp>>
    ELSE CASE s = "put" -> object' = "new" /\ UNCHANGED temp
           [] s = "begin" -> object' = (IF object = "none" THEN "part" ELSE "mixed") /\ UNCHANGED temp
           [] s = "extend" -> object' = (IF before = "longer" THEN "mixed" ELSE "new") /\ UNCHANGED temp
           [] s \in {"remove", "unlink"} -> object' = "none" /\ UNCHANGED temp
           [] s = "rename" -> object' = temp /\ temp' = "none"
           [] OTHER -> IF InPlace THEN object' = Written(s) /\ UNCHANGED temp
                       ELSE temp' = Written(s) /\ UNCHANGED object

\* a step that stops half-way
HalfDone(s) ==
    IF s = "write"
    THEN IF InPlace THEN object' = "part" /\ UNCHANGED temp ELSE temp' = "part" /\ UNCHANGED object
    ELSE UNCHANGED <<object, temp>>

-----------------------------------------------------------------------------
PutStep ==
    /\ rpc = "run" /\ IsPut /\ step <= Len(Steps)
    /\ Does(Steps[step])
    /\ step' = step + 1
    /\ rpc' = IF step = Len(Steps) THEN "ok" ELSE "run"
    /\ UNCHANGED <<rcall, attempt, before, beneath, litter, final, rfaults, crashes>>

\* An error, or an answer that is lost; try does not go on after every error.  The error
\* of a Remove that makes way is not looked at: the Rename or the Create after it goes on
\* if there is nothing in the way any more, and a Create fails if there is.
PutFails ==
    /\ rpc = "run" /\ IsPut /\ RequestFault
    /\ LET s == Steps[step] IN
       /\ ~Skipped(s)
       /\ HalfDone(s) \/ Does(s)
       /\ \/ /\ s = "remove" \/ (s = "unlink" /\ Does(s))
             /\ step' = step + 1 /\ UNCHANGED <<rpc, final>>
          \/ /\ s # "remove"
             /\ rpc' = "clean" /\ final' \in BOOLEAN /\ UNCHANGED step
    /\ UNCHANGED <<rcall, attempt, before, beneath, litter, crashes>>

\* the whole again, or the end
Again(last) ==
    IF attempt < Attempts /\ ~last
    THEN rpc' = "run" /\ attempt' = attempt + 1 /\ step' = 1
    ELSE rpc' = "failed" /\ UNCHANGED <<attempt, step>>

\* bug: a temporary file is left behind after an error
CleanNothing ==
    /\ rpc = "clean"
    /\ temp' = "none" /\ litter' = (litter \/ temp # "none")
    /\ Again(final)
    /\ UNCHANGED <<rcall, object, before, beneath, final, rfaults, crashes>>

\* The deferred Remove of the temporary file, or, in place, of an object that gluster
\* could not write; each attempt has a file of its own.
Clean ==
    LET unlinks == rcall.what = glusterPut IN
    /\ rpc = "clean"
    /\ \/ /\ object' = IF unlinks THEN "none" ELSE object
          /\ litter' = (litter \/ (temp # "none" /\ ~rcall.what.cleans))
          /\ UNCHANGED rfaults
       \/ RequestFault /\ UNCHANGED <<object, litter>>
    /\ temp' = "none"
    /\ Again(final)
    /\ UNCHANGED <<rcall, before, beneath, final, crashes>>

-----------------------------------------------------------------------------
\* Delete is one request; it says what it says of an object that is not there.
DeleteDone ==
    /\ rpc = "run" /\ ~IsPut
    /\ object # "none" \/ rcall.what.missing = "ok"
    /\ object' = IF rcall.what.latest THEN beneath ELSE "none"
    /\ beneath' = "none"
    /\ rpc' = "ok"
    /\ UNCHANGED <<rcall, step, attempt, before, temp, litter, final, rfaults, crashes>>

DeleteRefused ==
    /\ rpc = "run" /\ ~IsPut /\ object = "none" /\ rcall.what.missing = "error"
    /\ Again(FALSE)
    /\ UNCHANGED <<rcall, dataVars, final, rfaults, crashes>>

\* it fails, or the answer is lost
DeleteFails ==
    /\ rpc = "run" /\ ~IsPut /\ RequestFault
    /\ \/ UNCHANGED <<object, beneath>>
       \/ object' = (IF rcall.what.latest THEN beneath ELSE "none") /\ beneath' = "none"
    /\ final' \in BOOLEAN /\ Again(final')
    /\ UNCHANGED <<rcall, before, temp, litter, crashes>>

-----------------------------------------------------------------------------
\* the process dies: nothing is cleaned up; the next run does the whole again
Crash ==
    /\ rpc \in {"run", "clean"} /\ crashes < RequestCrashes /\ crashes' = crashes + 1
    /\ rpc' = "dead"
    /\ UNCHANGED <<rcall, step, attempt, dataVars, final, rfaults>>

Restart ==
    /\ rpc = "dead"
    /\ rpc' = "run" /\ step' = 1 /\ attempt' = 1 /\ final' = FALSE
    /\ temp' = "none"
    /\ UNCHANGED <<rcall, object, before, beneath, litter, rfaults, crashes>>

NoRequest ==
    /\ step = 1 /\ attempt = 1 /\ temp = "none" /\ litter = FALSE /\ final = FALSE
    /\ before = object /\ rfaults = 0 /\ crashes = 0

RequestsIdle == rcall = <<>> /\ rpc = "idle" /\ object = "none" /\ beneath = "none" /\ NoRequest

RequestsInit ==
    /\ rcall \in RequestCalls /\ rpc = "run"
    /\ object \in {"none", "old", "longer"}
    /\ beneath \in IF object = "none" \/ rcall.what.op = "put" THEN {"none"} ELSE {"none", "old"}
    /\ NoRequest

RequestsSystem ==
    PutStep \/ PutFails \/ Clean \/ DeleteDone \/ DeleteRefused \/ DeleteFails \/ Restart

RequestsNext == RequestsSystem \/ Crash

-----------------------------------------------------------------------------
(* What is known of some adapters, see the hazards.                        *)

MayTear == rcall.what = cephPut \/ InPlace
\* the object is removed before the new one is there, or after an error
MayVanish ==
    \/ rcall.what \in {sftpPut, glusterPut}
    \/ rcall.what \in {nfsPut, hdfsPut} /\ InPlace

\* Whatever fails, however often it is tried, and wherever the process dies: readers see
\* the whole of the old object or of the new; what was there is not lost; a call that
\* succeeds has done its work; one that fails had an error of its own each time, and not
\* because an attempt before had done the work; and it leaves no temporary file unless
\* the process died or the file could not be removed.
RequestsRight ==
    rcall # <<>> =>
        /\ rpc = "failed" => final \/ rfaults >= Attempts \/ (~IsPut /\ rcall.what.missing = "error")
        /\ IsPut =>
            /\ object \in Whole \/ MayTear
            /\ object = "none" => before = "none" \/ MayVanish
            /\ rpc = "ok" => object = "new" \/ (rcall.what = cephPut /\ before = "longer")
            /\ rpc \in {"ok", "failed"} => temp = "none"
            /\ litter => rcall.what = cifsPut
        /\ ~IsPut /\ rpc = "ok" => object = "none" \/ rcall.what.latest
=============================================================================
