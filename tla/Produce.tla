------------------------------ MODULE Produce ------------------------------
(***************************************************************************)
(* startProducer and produce (pkg/sync/sync.go): for each prefix one       *)
(* goroutine lists the source and one the destination, in key order, and   *)
(* produce merges the two listings and decides what becomes of each key.   *)
(* With --list-threads > 1 the root lists with a delimiter and starts a    *)
(* producer for each child prefix it finds; all share --limit.             *)
(*                                                                         *)
(* Keys and child prefixes are numbers, in key order.  What either side    *)
(* holds, and how the two objects under one key compare (the same for all  *)
(* keys), is part of the configuration.  Objects that the filters hide     *)
(* count as absent.                                                        *)
(***************************************************************************)
EXTENDS Integers, FiniteSets

CONSTANTS
    Key,          \* the objects, as positive numbers
    DirKey,       \* those that are directory objects
    Child,        \* the child prefixes of the root, as positive numbers
    OwnerOf,      \* OwnerOf[k]: the child prefix k is under, 0 for the root
    Configuration, \* the command lines considered, with what they meet
    MaxFaults     \* bound: listings that fail

Flag == {"force", "update", "existing", "ignoreExisting", "deleteDst", "deleteSrc",
         "checkAll", "perms", "dirs", "deep", "gate"}

Side == {"src", "dst"}

ASSUME KeyAssumption ==
    /\ Key \subseteq Nat \ {0} /\ Child \subseteq Nat \ {0} /\ Key \cap Child = {}
    /\ DirKey \subseteq Key
    /\ OwnerOf \in [Key -> Child \cup {0}]
    /\ MaxFaults \in Nat

ASSUME ConfigurationAssumption ==
    \A c \in Configuration :
        /\ c.on \subseteq Flag
        /\ c.limit \in Nat \cup {-1}
        /\ c.mtime \in {"older", "same", "newer"} \* of the source object
        /\ c.sameSize \in BOOLEAN /\ c.samePerms \in BOOLEAN
        /\ c.recorded \subseteq Key  \* what the first gate knows as done
        /\ c.objects \in [Side -> SUBSET Key] \* the keys of either side

Producer == Child \cup {0}

VARIABLES
    config,    \* the command line and the two sides
    limit,     \* config.Limit
    pc,        \* what a producer does next
    listing,   \* its two listing goroutines: open, ended, failed
    at,        \* the last entry they sent
    read,      \* the last object produce received from either
    obj,       \* the source object produce handles, 0 if none
    cursor,    \* dstobj, 0 if nil
    cpClosed,  \* the channel of child prefixes is closed
    panicked,  \* a send on it after that
    claimed,   \* history: source objects that were counted
    outcome,   \* history: what produce decided for each source object
    extras,    \* history: extra objects queued for deletion
    faults

histVars == <<claimed, outcome, extras>>
vars == <<config, limit, pc, listing, at, read, obj, cursor, cpClosed, panicked,
          claimed, outcome, extras, faults>>

Outcome == {"none", "skip", "send", "checksum", "deleteSrc", "srcDelay", "perms"}
Loop == {"recv", "claim", "align", "extra", "taken", "settle", "decide", "rest"}

TypeOK ==
    /\ config \in Configuration
    /\ limit \in Int
    /\ pc \in [Producer -> Loop \cup {"idle", "returned", "children", "done", "error"}]
    /\ listing \in [Producer -> [Side -> {"open", "ended", "failed"}]]
    /\ at \in [Producer -> [Side -> Nat]] /\ read \in [Producer -> [Side -> Nat]]
    /\ obj \in [Producer -> Key \cup {0}] /\ cursor \in [Producer -> Key \cup {0}]
    /\ cpClosed \in BOOLEAN /\ panicked \in BOOLEAN
    /\ claimed \subseteq Key
    /\ outcome \in [Key -> Outcome]
    /\ extras \subseteq Key
    /\ faults \in Nat

On(f) == f \in config.on

-----------------------------------------------------------------------------
(* The listings.                                                           *)

\* the keys a producer lists on its own
Mine(p) == IF On("deep") THEN {k \in Key : OwnerOf[k] = p} ELSE IF p = 0 THEN Key ELSE {}

\* bug: the child prefixes are among the objects of the root
ListedChild(p, s) == (Mine(p) \cap config.objects[s]) \cup (IF p = 0 THEN Child ELSE {})

\* with --force-update the destination is not listed
Listed(p, s) == IF s = "dst" /\ On("force") THEN {} ELSE Mine(p) \cap config.objects[s]

\* the child prefixes the listing of one side shows
Below(p, s) ==
    IF p = 0 /\ On("deep") /\ ~(s = "dst" /\ On("force"))
    THEN {c \in Child : \E k \in config.objects[s] : OwnerOf[k] = c} ELSE {}

Entries(p, s) == Listed(p, s) \cup Below(p, s)

First(S) == {n \in S : \A m \in S : n <= m}
Ahead(S, n) == {m \in S : m > n}

\* a listing goroutine sends the next object, or finds a child prefix: that of
\* the destination matters for --delete-dst only, and a prefix starts once
Send(p, s) ==
    /\ pc[p] # "idle" /\ listing[p][s] = "open"
    /\ \E e \in First(Ahead(Entries(p, s), at[p][s])) :
           /\ at' = [at EXCEPT ![p][s] = e]
           /\ IF e \in Child /\ (s = "src" \/ On("deleteDst"))
              THEN /\ pc' = [pc EXCEPT ![e] = IF @ = "idle" /\ ~cpClosed THEN "recv" ELSE @]
                   /\ panicked' = (panicked \/ cpClosed)
              ELSE UNCHANGED <<pc, panicked>>
    /\ UNCHANGED <<config, limit, listing, read, obj, cursor, cpClosed, histVars, faults>>

ListingEnds(p, s) ==
    /\ pc[p] # "idle" /\ listing[p][s] = "open"
    /\ Ahead(Entries(p, s), at[p][s]) = {}
    /\ listing' = [listing EXCEPT ![p][s] = "ended"]
    /\ UNCHANGED <<config, limit, pc, at, read, obj, cursor, cpClosed, panicked, histVars, faults>>

ListingBreaks(p, s, l) ==
    /\ pc[p] # "idle" /\ listing[p][s] = "open"
    /\ faults < MaxFaults /\ faults' = faults + 1
    /\ listing' = [listing EXCEPT ![p][s] = l]
    /\ UNCHANGED <<config, limit, pc, at, read, obj, cursor, cpClosed, panicked, histVars>>

\* listAll sends nil when it fails
ListingFails(p, s) ==
    /\ ~On("deep") \/ p # 0
    /\ ListingBreaks(p, s, "failed")

\* listCommonPrefix logs the error and closes the channel (in CutSpec only)
ListingCut(p, s) ==
    /\ On("deep") /\ p = 0
    /\ ListingBreaks(p, s, "ended")

\* what produce can receive next
Waiting(p, s) == {k \in Ahead(Listed(p, s), read[p][s]) : k <= at[p][s]}
Drained(p, s, l) == Waiting(p, s) = {} /\ listing[p][s] = l

-----------------------------------------------------------------------------
(* produce.                                                                *)

Goto(p, l) == pc' = [pc EXCEPT ![p] = l]

\* the next source object; directories are ignored without --dirs
Receive(p) ==
    /\ pc[p] = "recv"
    /\ \E k \in First(Waiting(p, "src")) :
           /\ read' = [read EXCEPT ![p]["src"] = k]
           /\ IF k \in DirKey /\ ~On("dirs")
              THEN UNCHANGED <<obj, pc, claimed>>
              ELSE /\ obj' = [obj EXCEPT ![p] = k]
                   /\ IF limit >= 0
                      THEN Goto(p, "claim") /\ UNCHANGED claimed
                      ELSE Goto(p, "align") /\ claimed' = claimed \cup {k}
    /\ UNCHANGED <<config, limit, listing, at, cursor, cpClosed, panicked, outcome, extras, faults>>

\* bug: the nil of a failed listing is dropped
ReceiveEndOnly(p) ==
    /\ pc[p] = "recv"
    /\ Drained(p, "src", "ended")
    /\ obj' = [obj EXCEPT ![p] = 0]
    /\ Goto(p, IF On("deleteDst") THEN "rest" ELSE "returned")
    /\ UNCHANGED <<config, limit, listing, at, read, cursor, cpClosed, panicked, histVars, faults>>

ReceiveEnd(p) ==
    /\ pc[p] = "recv"
    /\ \/ Drained(p, "src", "ended")
          /\ obj' = [obj EXCEPT ![p] = 0]
          /\ Goto(p, IF On("deleteDst") THEN "rest" ELSE "returned")
       \/ Drained(p, "src", "failed") /\ Goto(p, "error") /\ UNCHANGED obj
    /\ UNCHANGED <<config, limit, listing, at, read, cursor, cpClosed, panicked, histVars, faults>>

\* bug: the limit is read and then lowered in two steps
ClaimBehind(p) ==
    /\ pc[p] = "claim"
    /\ limit' = limit - 1
    /\ Goto(p, "align") /\ claimed' = claimed \cup {obj[p]}
    /\ UNCHANGED <<config, listing, at, read, obj, cursor, cpClosed, panicked, outcome, extras, faults>>

\* bug: the object is counted before the limit is looked at
ClaimCounted(p) ==
    /\ pc[p] = "claim"
    /\ IF limit <= 0
       THEN Goto(p, "returned") /\ UNCHANGED limit
       ELSE limit' = limit - 1 /\ Goto(p, "align")
    /\ claimed' = claimed \cup {obj[p]}
    /\ UNCHANGED <<config, listing, at, read, obj, cursor, cpClosed, panicked, outcome, extras, faults>>

\* one of the limit is taken with compare-and-swap, or produce returns
Claim(p) ==
    /\ pc[p] = "claim"
    /\ IF limit <= 0
       THEN Goto(p, "returned") /\ UNCHANGED <<limit, claimed>>
       ELSE /\ limit' = limit - 1
            /\ Goto(p, "align") /\ claimed' = claimed \cup {obj[p]}
    /\ UNCHANGED <<config, listing, at, read, obj, cursor, cpClosed, panicked, outcome, extras, faults>>

\* dstobj moves to the next destination object
Advance(p) ==
    /\ cursor[p] = 0
    /\ \E k \in First(Waiting(p, "dst")) :
           /\ read' = [read EXCEPT ![p]["dst"] = k]
           /\ cursor' = [cursor EXCEPT ![p] = k]

\* bug: the destination object the cursor was left on is forgotten
AlignAnew(p) ==
    /\ pc[p] = "align"
    /\ \/ Advance(p) /\ UNCHANGED pc
       \/ /\ cursor[p] # 0
          /\ Goto(p, "decide")
          /\ UNCHANGED <<read, cursor>>
       \/ cursor[p] = 0 /\ Drained(p, "dst", "ended") /\ Goto(p, "decide") /\ UNCHANGED <<read, cursor>>
    /\ UNCHANGED <<config, limit, listing, at, obj, cpClosed, panicked, histVars, faults>>

\* destination objects before the source object are extra ones
Align(p) ==
    /\ pc[p] = "align"
    /\ \/ Advance(p) /\ UNCHANGED pc
       \/ /\ cursor[p] # 0
          /\ Goto(p, IF cursor[p] < obj[p] THEN "extra" ELSE "decide")
          /\ UNCHANGED <<read, cursor>>
       \/ /\ cursor[p] = 0 /\ UNCHANGED <<read, cursor>>
          /\ \/ Drained(p, "dst", "ended") /\ Goto(p, "decide")
             \/ Drained(p, "dst", "failed") /\ Goto(p, "error")
    /\ UNCHANGED <<config, limit, listing, at, obj, cpClosed, panicked, histVars, faults>>

\* where produce was when it met the extra object
Resume(p) == Goto(p, IF obj[p] # 0 THEN "align" ELSE "rest")

\* handleExtraObject leaves the object alone ...
ExtraKept(p) ==
    /\ pc[p] = "extra"
    /\ ~On("deleteDst") \/ (~On("dirs") /\ cursor[p] \in DirKey) \/ limit = 0
    /\ cursor' = [cursor EXCEPT ![p] = 0]
    /\ Resume(p)
    /\ UNCHANGED <<config, limit, listing, at, read, obj, cpClosed, panicked, histVars, faults>>

\* bug: directories are deleted even without --dirs
ExtraWantedDirs(p) == On("deleteDst") /\ limit # 0

ExtraWanted(p) ==
    On("deleteDst") /\ (On("dirs") \/ cursor[p] \notin DirKey) /\ limit # 0

\* ... or goes on to delete it, and lowers the limit in a step of its own
ExtraChecked(p) ==
    /\ pc[p] = "extra"
    /\ ExtraWanted(p)
    /\ Goto(p, "taken")
    /\ UNCHANGED <<config, limit, listing, at, read, obj, cursor, cpClosed, panicked, histVars, faults>>

\* it is queued, and then the limit is read again
ExtraTaken(p) ==
    /\ pc[p] = "taken"
    /\ limit' = limit - 1
    /\ extras' = extras \cup {cursor[p]}
    /\ Goto(p, "settle")
    /\ UNCHANGED <<config, listing, at, read, obj, cursor, cpClosed, panicked, claimed, outcome, faults>>

ExtraSettled(p) ==
    /\ pc[p] = "settle"
    /\ \/ limit = 0 /\ Goto(p, "returned") /\ UNCHANGED cursor
       \/ limit # 0 /\ Resume(p) /\ cursor' = [cursor EXCEPT ![p] = 0]
    /\ UNCHANGED <<config, limit, listing, at, read, obj, cpClosed, panicked, histVars, faults>>

-----------------------------------------------------------------------------
(* The decision.                                                           *)

FirstGateSkips(k) ==
    On("gate") /\ ~On("force") /\ ~On("ignoreExisting") /\ k \in config.recorded

\* secondGate: only a destination object that is older is replaced
SecondGateSends == On("force") \/ config.mtime = "newer"

\* the mark of a task, and what happens to the key otherwise
Marked(k, otherwise) ==
    CASE On("checkAll") -> "checksum"
      [] ~On("checkAll") /\ On("deleteSrc") -> IF k \in DirKey THEN "srcDelay" ELSE "deleteSrc"
      [] ~On("checkAll") /\ ~On("deleteSrc") /\ On("perms") /\ ~config.samePerms -> "perms"
      [] OTHER -> otherwise

\* size, or with --update the time
Differs ==
    \/ On("force")
    \/ On("update") /\ config.mtime = "newer"
    \/ ~On("update") /\ ~config.sameSize

Decision(k, inDst) ==
    CASE FirstGateSkips(k) -> "skip"
      [] ~FirstGateSkips(k) /\ ~inDst -> IF On("existing") THEN "skip" ELSE "send"
      [] ~FirstGateSkips(k) /\ inDst ->
            IF On("ignoreExisting") THEN "skip"
            ELSE IF On("gate") THEN IF SecondGateSends THEN Marked(k, "send") ELSE "skip"
            ELSE IF Differs THEN "send"
            ELSE IF On("update") /\ config.mtime = "older" THEN "skip"
            ELSE Marked(k, "skip")

\* bug: a key the gate skips leaves its destination object as the cursor
DecideGateFirst(p) ==
    LET k == obj[p]
        inDst == cursor[p] = k
    IN  /\ pc[p] = "decide"
        /\ outcome' = [outcome EXCEPT ![k] = Decision(k, inDst)]
        /\ cursor' = [cursor EXCEPT ![p] = IF inDst /\ ~FirstGateSkips(k) THEN 0 ELSE @]
        /\ Goto(p, "recv")
        /\ UNCHANGED <<config, limit, listing, at, read, obj, cpClosed, panicked, claimed, extras, faults>>

Decide(p) ==
    LET k == obj[p]
        inDst == cursor[p] = k
    IN  /\ pc[p] = "decide"
        /\ outcome' = [outcome EXCEPT ![k] = Decision(k, inDst)]
        /\ cursor' = [cursor EXCEPT ![p] = IF inDst THEN 0 ELSE @]
        /\ Goto(p, "recv")
        /\ UNCHANGED <<config, limit, listing, at, read, obj, cpClosed, panicked, claimed, extras, faults>>

\* the source listing is over: with --delete-dst the rest is extra
Rest(p) ==
    /\ pc[p] = "rest"
    /\ \/ Advance(p) /\ UNCHANGED pc
       \/ cursor[p] # 0 /\ Goto(p, "extra") /\ UNCHANGED <<read, cursor>>
       \/ /\ cursor[p] = 0 /\ UNCHANGED <<read, cursor>>
          /\ \/ Drained(p, "dst", "ended") /\ Goto(p, "returned")
             \/ Drained(p, "dst", "failed") /\ Goto(p, "error")
    /\ UNCHANGED <<config, limit, listing, at, obj, cpClosed, panicked, histVars, faults>>

\* bug: the channel is closed while the destination is still being listed
CloseEarly(p) ==
    /\ pc[p] = "returned"
    /\ IF p = 0 /\ On("deep")
       THEN cpClosed' = TRUE /\ Goto(p, "children")
       ELSE Goto(p, "done") /\ UNCHANGED cpClosed
    /\ UNCHANGED <<config, limit, listing, at, read, obj, cursor, panicked, histVars, faults>>

\* startProducer waits for the listing of the destination, closes the channel of
\* child prefixes and waits for the producers of the children
Close(p) ==
    /\ pc[p] = "returned"
    /\ IF p = 0 /\ On("deep")
       THEN listing[p]["dst"] # "open" /\ cpClosed' = TRUE /\ Goto(p, "children")
       ELSE Goto(p, "done") /\ UNCHANGED cpClosed
    /\ UNCHANGED <<config, limit, listing, at, read, obj, cursor, panicked, histVars, faults>>

Finish ==
    /\ pc[0] = "children"
    /\ \A c \in Child : pc[c] \in {"idle", "done", "error"}
    /\ Goto(0, "done")
    /\ UNCHANGED <<config, limit, listing, at, read, obj, cursor, cpClosed, panicked, histVars, faults>>

-----------------------------------------------------------------------------
Init ==
    /\ config \in Configuration
    /\ limit = config.limit
    /\ pc = [p \in Producer |-> IF p = 0 THEN "recv" ELSE "idle"]
    /\ listing = [p \in Producer |-> [s \in Side |-> "open"]]
    /\ at = [p \in Producer |-> [s \in Side |-> 0]]
    /\ read = [p \in Producer |-> [s \in Side |-> 0]]
    /\ obj = [p \in Producer |-> 0] /\ cursor = [p \in Producer |-> 0]
    /\ cpClosed = FALSE /\ panicked = FALSE
    /\ claimed = {} /\ extras = {} /\ outcome = [k \in Key |-> "none"]
    /\ faults = 0

List(p) == \E s \in Side : Send(p, s) \/ ListingEnds(p, s)

Step(p) ==
    \/ Receive(p) \/ ReceiveEnd(p) \/ Claim(p) \/ Align(p)
    \/ ExtraKept(p) \/ ExtraChecked(p) \/ ExtraTaken(p) \/ ExtraSettled(p)
    \/ Decide(p) \/ Rest(p) \/ Close(p)

Over == pc[0] \in {"done", "error"} /\ UNCHANGED vars

Next ==
    \/ Over \/ Finish
    \/ \E p \in Producer : \/ List(p) \/ Step(p)
                           \/ \E s \in Side : ListingFails(p, s)

Spec == Init /\ [][Next]_vars

\* the same, when listings with a delimiter may fail
CutSpec == Init /\ [][Next \/ \E p \in Producer, s \in Side : ListingCut(p, s)]_vars

\* listings and producers go on: the workers keep taking tasks
FairSpec == /\ Spec /\ WF_vars(Finish)
            /\ \A p \in Producer : WF_vars(List(p)) /\ WF_vars(Step(p))

-----------------------------------------------------------------------------
(* Correctness.                                                            *)

\* A destination object is deleted as an extra one only if the source has no
\* object under its key.
SourceKept == extras \cap config.objects["src"] = {}

\* Without a limit a producer that returns has given each of its source objects
\* the outcome its key deserves, whatever order the two listings came in, and has
\* deleted exactly the extra objects.
MergeRight ==
    \A p \in Producer :
        pc[p] \in {"returned", "children", "done"} /\ config.limit < 0 =>
            /\ \A k \in Listed(p, "src") :
                   outcome[k] = IF k \in DirKey /\ ~On("dirs") THEN "none"
                                ELSE Decision(k, k \in Listed(p, "dst"))
            /\ On("deleteDst") =>
                   extras \cap Mine(p) =
                       {k \in Listed(p, "dst") \ config.objects["src"] : On("dirs") \/ k \notin DirKey}

\* An extra object is checked against the limit in one step and counted in another, so
\* with --delete-dst it takes that only one producer has anything to count.
OneCounts ==
    On("deep") /\ On("deleteDst") =>
        \E p \in Producer : \A s \in Side : \A k \in config.objects[s] :
            (On("dirs") \/ k \notin DirKey) => OwnerOf[k] = p

WithinLimit == config.limit >= 0 => Cardinality(claimed) + Cardinality(extras) <= config.limit

\* No more objects are copied and deleted than --limit allows: by several producers that
\* share it without --delete-dst, by the only one that counts with it.
LimitKept == OneCounts => WithinLimit

\* --limit holds however many producers share it.
LimitShared == WithinLimit

\* A source object that was counted gets an outcome before its producer returns:
\* else the job ends with a lost object.  (Not so when a limit runs out on an
\* extra object that was met after the source object was counted.)
NoneLost ==
    \A p \in Producer :
        pc[p] \in {"returned", "children", "done"} /\ ~(On("deleteDst") /\ config.limit >= 0) =>
        \A k \in claimed \cap Mine(p) : outcome[k] # "none"

\* Nobody waits for the listing of the source, and with a limit produce may return before
\* it has shown its last child prefix.
NoneBelow ==
    config.limit >= 0 /\ On("deep") =>
        \A k \in config.objects["src"] : OwnerOf[k] \notin Child

\* The listing goroutines never find the channel of child prefixes closed, but for a limit
\* and a source with child prefixes.
NoSendOnClosed == NoneBelow => ~panicked

\* What the second gate decides to send is copied, and never deleted from the
\* source instead (the worker deletes an object with that mark at once).
SentIsCopied ==
    \A k \in Key : On("gate") /\ SecondGateSends => outcome[k] \notin {"deleteSrc", "srcDelay"}

\* The producers return.
ProducersReturn == <>(pc[0] \in {"done", "error"})
=============================================================================
