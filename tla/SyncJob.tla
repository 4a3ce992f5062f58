------------------------------- MODULE SyncJob -------------------------------
(***************************************************************************)
(* What a sync job promises: every key of the listing is handled, a        *)
(* handled key stays handled, and the job is reported as completed only    *)
(* when nothing is left.                                                   *)
(***************************************************************************)
CONSTANT Key

VARIABLES handled, over

Init == handled \subseteq Key /\ over = FALSE

Handle ==
    /\ ~over
    /\ \E k \in Key \ handled : handled' = handled \cup {k}
    /\ UNCHANGED over

Finish ==
    /\ ~over
    /\ handled = Key
    /\ over' = TRUE
    /\ UNCHANGED handled

Next == Handle \/ Finish

vars == <<handled, over>>

Spec == Init /\ [][Next]_vars

FairSpec == Spec /\ WF_vars(Next)
=============================================================================
