-------------------------------- MODULE Walk --------------------------------
(***************************************************************************)
(* Listing a tree (pkg/object/object_storage.go ListAllWithDelimiter over  *)
(* the List of file-like adapters): the directory that is walked has       *)
(* `concurrent` goroutines that each list every concurrent-th of its       *)
(* entries ahead of the walk.  A name is its rank in byte order, its       *)
(* directory known; 0 is the root.  Both follow the walk depth first.      *)
(***************************************************************************)
EXTENDS Backends, Naturals, FiniteSets, FiniteSetsExt, SequencesExt

CONSTANTS
    Names,         \* names are 1..Names
    ParentOf,      \* the directory of a name, or 0
    Directory,     \* the names that are directories, 0 among them
    Concurrent,    \* helpers of a directory (10 in the code)
    Ahead,         \* entries a helper asks for (1000 in the code)
    WalkCalls,     \* [list, start, end] of the calls to make; 0 is none
    WalkFaults,    \* bound: requests that fail
    WalkChanges    \* bound: names that come or go, directories that are closed

Name == 1..Names
Failed == Names + 1  \* the nil that says that the walk has failed
Helper == 0..(Concurrent - 1)

ASSUME WalkAssumption ==
    /\ Names \in Nat /\ Concurrent \in Nat \ {0} /\ Ahead \in Nat \ {0}
    /\ WalkFaults \in Nat /\ WalkChanges \in Nat
    /\ Directory \subseteq Name \cup {0} /\ 0 \in Directory
    /\ ParentOf \in [Name -> Directory] /\ \A n \in Name : ParentOf[n] < n
    \* what is between a directory and a name in it is in that directory, too
    /\ \A n, m \in Name : ParentOf[n] < m /\ m < n => ParentOf[n] <= ParentOf[m]
    /\ WalkCalls \subseteq [list : TreeLists, start : Name \cup {0}, end : Name \cup {0}]

VARIABLES
    wcall,      \* the call, <<>> if none is made
    wpc,
    tree,       \* the names that are there
    kept,       \* those that were there all the time and could be read (history)
    secret,     \* the directories that may not be read
    stack,      \* the directories that are walked, the innermost last
    entries,    \* of a directory that is or was walked
    pos,        \* the entry the walk of a directory is at
    failed,     \* errFlag of a directory
    helper,     \* where the helpers of a directory stand
    walked,     \* what the consumer was sent
    wfaults, wchanges

treeVars == <<tree, kept, secret, wchanges>>
frameVars == <<stack, entries, pos, failed>>
walkVars == <<wcall, wpc, treeVars, frameVars, helper, walked, wfaults>>

WPC == {"idle", "root", "walk", "more", "closed", "refused"}
HelperState == [at : 1..(Names + 1), pc : {"none", "list", "ready", "gone"},
                batch : Seq(Name), more : BOOLEAN, err : BOOLEAN]

WalkTypeOK ==
    /\ (wcall = <<>> \/ wcall \in WalkCalls) /\ wpc \in WPC
    /\ tree \subseteq Name /\ kept \subseteq tree /\ secret \subseteq Directory
    /\ stack \in Seq(Directory) /\ failed \subseteq Directory
    /\ entries \in [Directory -> Seq(Name \cup {0})]
    /\ pos \in [Directory -> 1..(Names + 2)]
    /\ helper \in [Directory -> [Helper -> HelperState]]
    /\ walked \in Seq(Name \cup {0, Failed})
    /\ wfaults \in 0..WalkFaults /\ wchanges \in 0..WalkChanges

WalkFault == wfaults < WalkFaults /\ wfaults' = wfaults + 1
NoHelper == [at |-> 1, pc |-> "none", batch |-> <<>>, more |-> FALSE, err |-> FALSE]

\* the directories a name is in
Above(n) == {d \in 0..(n - 1) : \A m \in (d + 1)..n : d <= ParentOf[m]}
Begins(start, n) == n = start \/ n \in Above(start)
TopOf(n) == CHOOSE top \in {n} \cup Above(n) : top # 0 /\ ParentOf[top] = 0
Ended(n) == wcall.end # 0 /\ n >= wcall.end

\* there is a listing for it to make: not before start, and a directory
Passed(n) == n < wcall.start /\ ~Begins(wcall.start, n)
ToList(d, n) == ~Passed(n) /\ n \in Directory /\ n # d

-----------------------------------------------------------------------------
(* List of a file-like adapter: the entries of a directory after a name.   *)
(* A directory that is gone or may not be read is empty for most.          *)
Entries(d, after) ==
    IF d \in secret THEN {} ELSE {n \in tree : ParentOf[n] = d /\ n > after}
Denied(d) == d \in secret /\ wcall.list.denied = "error"

\* the next entry of list, from the i-th on, that this helper of d has to list
NextToList(d, list, i) ==
    LET mine == {j \in DOMAIN list : j >= i /\ (j - i) % Concurrent = 0}
        last == {j \in mine : Ended(list[j])}
        todo == {j \in mine : ToList(d, list[j]) /\ \A l \in last : j < l}
    IN IF todo = {} THEN 0 ELSE Min(todo)

\* a helper goes on at the i-th entry, or leaves if there is nothing to list
GoesOn(d, list, i) ==
    LET j == NextToList(d, list, i) IN
    IF j = 0 THEN [NoHelper EXCEPT !.pc = "gone"] ELSE [NoHelper EXCEPT !.pc = "list", !.at = j]

\* walk(d, list) starts its helpers
Started(d, list) == [c \in Helper |-> GoesOn(d, list, c + 1)]

\* The root, from the first component of start on: what comes before is not asked for,
\* nor is a start that has no other component.
WalkRoot ==
    LET start == wcall.start
        after == IF start = 0 THEN 0
                 ELSE IF TopOf(start) = start /\ start \notin Directory THEN start ELSE TopOf(start) - 1
        self == IF start = 0 /\ wcall.list.root THEN <<0>> ELSE <<>>
        list == self \o InOrder(Entries(0, after))
    IN
    /\ wpc = "root" /\ ~Denied(0)
    /\ stack' = <<0>>
    /\ entries' = [entries EXCEPT ![0] = list]
    /\ helper' = [helper EXCEPT ![0] = Started(0, list)]
    /\ wpc' = "walk"
    /\ UNCHANGED <<wcall, treeVars, pos, failed, walked, wfaults>>

RootFails ==
    /\ wpc = "root" /\ (WalkFault \/ (Denied(0) /\ UNCHANGED wfaults))
    /\ wpc' = "refused"
    /\ UNCHANGED <<wcall, treeVars, frameVars, helper, walked>>

-----------------------------------------------------------------------------
(* A helper: lists its next directory, then waits until that is taken.     *)

HelperLists(d, c) ==
    LET i == helper[d][c].at
        all == InOrder(Entries(entries[d][i], 0))
        n == IF Len(all) < Ahead THEN Len(all) ELSE Ahead
    IN
    /\ helper[d][c].pc = "list"
    /\ \/ /\ ~Denied(entries[d][i]) /\ UNCHANGED wfaults
          /\ helper' = [helper EXCEPT ![d][c] =
                           [at |-> i, pc |-> "ready", batch |-> SubSeq(all, 1, n), more |-> n = Ahead,
                            err |-> FALSE]]
       \/ /\ WalkFault \/ (Denied(entries[d][i]) /\ UNCHANGED wfaults)
          /\ helper' = [helper EXCEPT ![d][c] =
                           [at |-> i, pc |-> "ready", batch |-> <<>>, more |-> FALSE, err |-> TRUE]]
    /\ UNCHANGED <<wcall, wpc, treeVars, frameVars, walked>>

\* it waits, and looks at errFlag now and then
HelperGivesUp(d, c) ==
    /\ helper[d][c].pc = "ready" /\ d \in failed
    /\ helper' = [helper EXCEPT ![d][c].pc = "gone"]
    /\ UNCHANGED <<wcall, wpc, treeVars, frameVars, walked, wfaults>>

-----------------------------------------------------------------------------
(* The walk.                                                               *)

Top == stack[Len(stack)]
Here == entries[Top][pos[Top]]
AtEntry == wpc = "walk" /\ stack # <<>> /\ pos[Top] <= Len(entries[Top])
Ready(c) == helper[Top][c].pc = "ready" /\ helper[Top][c].at = pos[Top]
Mine == (pos[Top] - 1) % Concurrent

Sends(n) == IF n >= wcall.start THEN Append(walked, n) ELSE walked

\* an entry that is not listed itself
Visit ==
    /\ AtEntry /\ ~Ended(Here) /\ ~ToList(Top, Here)
    /\ walked' = Sends(Here)
    /\ pos' = [pos EXCEPT ![Top] = @ + 1]
    /\ UNCHANGED <<wcall, wpc, treeVars, stack, entries, failed, helper, wfaults>>

\* bug: the walk takes the batch without waiting for the rest of the directory
DescendShort ==
    /\ AtEntry /\ ~Ended(Here) /\ ToList(Top, Here) /\ Ready(Mine) /\ ~helper[Top][Mine].err
    /\ walked' = Sends(Here)
    /\ pos' = [pos EXCEPT ![Top] = @ + 1]
    /\ stack' = Append(stack, Here)
    /\ entries' = [entries EXCEPT ![Here] = helper[Top][Mine].batch]
    /\ helper' = [helper EXCEPT
                     ![Top][Mine] = GoesOn(Top, entries[Top], pos[Top] + Concurrent),
                     ![Here] = Started(Here, helper[Top][Mine].batch)]
    /\ UNCHANGED <<wcall, wpc, treeVars, failed, wfaults>>

\* A directory: its helper has listed the first entries of it; the rest is listed here.
\* The helper goes on, the walk goes into the directory.
Descend ==
    LET h == helper[Top][Mine]
        rest == IF h.more THEN Entries(Here, h.batch[Len(h.batch)]) ELSE {}
        list == h.batch \o InOrder(rest)
    IN
    /\ AtEntry /\ ~Ended(Here) /\ ToList(Top, Here) /\ Ready(Mine) /\ ~h.err
    /\ ~(h.more /\ Denied(Here))
    /\ walked' = Sends(Here)
    /\ pos' = [pos EXCEPT ![Top] = @ + 1]
    /\ stack' = Append(stack, Here)
    /\ entries' = [entries EXCEPT ![Here] = list]
    /\ helper' = [helper EXCEPT
                     ![Top][Mine] = GoesOn(Top, entries[Top], pos[Top] + Concurrent),
                     ![Here] = Started(Here, list)]
    /\ UNCHANGED <<wcall, wpc, treeVars, failed, wfaults>>

\* bug: only the innermost walk sets its errFlag
WalkFailsInner ==
    LET h == helper[Top][Mine] IN
    /\ AtEntry /\ ~Ended(Here) /\ ToList(Top, Here) /\ Ready(Mine)
    /\ \/ h.err /\ UNCHANGED wfaults
       \/ h.more /\ (WalkFault \/ (Denied(Here) /\ UNCHANGED wfaults))
    /\ walked' = Append(Sends(Here), Failed)
    /\ failed' = failed \cup {Top}
    /\ stack' = <<>>
    /\ wpc' = "closed"
    /\ UNCHANGED <<wcall, treeVars, entries, pos, helper>>

\* The error of a helper, or of the rest of a directory, ends the walk with nil: all the
\* walks that are open return it, and each sets its errFlag.
WalkFails ==
    LET h == helper[Top][Mine] IN
    /\ AtEntry /\ ~Ended(Here) /\ ToList(Top, Here) /\ Ready(Mine)
    /\ \/ h.err /\ UNCHANGED wfaults
       \/ h.more /\ (WalkFault \/ (Denied(Here) /\ UNCHANGED wfaults))
    /\ walked' = Append(Sends(Here), Failed)
    /\ failed' = failed \cup ToSet(stack)
    /\ stack' = <<>>
    /\ wpc' = "closed"
    /\ UNCHANGED <<wcall, treeVars, entries, pos, helper>>

\* the end of a directory, or of the range
Return ==
    /\ wpc = "walk" /\ stack # <<>>
    /\ pos[Top] > Len(entries[Top]) \/ (AtEntry /\ Ended(Here))
    /\ stack' = SubSeq(stack, 1, Len(stack) - 1)
    /\ wpc' = IF Len(stack) = 1 THEN "closed" ELSE "walk"
    /\ UNCHANGED <<wcall, treeVars, entries, pos, failed, helper, walked, wfaults>>

-----------------------------------------------------------------------------
\* names come and go, one below a directory that is there; a directory is closed to us
TreeChanges ==
    /\ wpc \in {"root", "walk"} /\ wchanges < WalkChanges /\ wchanges' = wchanges + 1
    /\ \/ \E n \in Name : /\ n \notin tree /\ ParentOf[n] \in tree \cup {0}
                          /\ tree' = tree \cup {n} /\ UNCHANGED <<kept, secret>>
       \/ \E n \in tree : LET gone == {n} \cup {m \in tree : n \in Above(m)} IN
                          tree' = tree \ gone /\ kept' = kept \ gone /\ UNCHANGED secret
       \/ \E d \in Directory : /\ secret' = secret \cup {d}
                               /\ kept' = kept \ {m \in tree : d \in Above(m)}
                               /\ UNCHANGED tree
    /\ UNCHANGED <<wcall, wpc, frameVars, helper, walked, wfaults>>

NoWalk ==
    /\ secret = {} /\ stack = <<>>
    /\ entries = [d \in Directory |-> <<>>] /\ pos = [d \in Directory |-> 1] /\ failed = {}
    /\ helper = [d \in Directory |-> [c \in Helper |-> NoHelper]]
    /\ walked = <<>> /\ wfaults = 0 /\ wchanges = 0

WalkIdle == wcall = <<>> /\ wpc = "idle" /\ tree = {} /\ kept = {} /\ NoWalk

WalkInit ==
    /\ wcall \in WalkCalls /\ wpc = "root"
    /\ tree \in {S \in SUBSET Name : \A n \in S : ParentOf[n] \in S \cup {0}} /\ kept = tree
    /\ NoWalk

WalkSystem ==
    \/ WalkRoot \/ RootFails \/ Visit \/ Descend \/ WalkFails \/ Return
    \/ \E d \in Directory, c \in Helper : HelperLists(d, c) \/ HelperGivesUp(d, c)

WalkNext == WalkSystem \/ TreeChanges

-----------------------------------------------------------------------------
WalkComplete == wpc = "closed" /\ ~Contains(walked, Failed)

\* However helpers and walk take turns: the names come depth first, which is byte order,
\* and once, none outside the range, nil only as the last; and a walk that does not end
\* with nil has every name strictly inside the range that was there all along and could
\* be read.
WalkedRight ==
    wcall # <<>> =>
        /\ \A i, j \in DOMAIN walked : i < j => walked[i] < walked[j]
        /\ \A n \in ToSet(walked) \ {Failed} : n >= wcall.start /\ ~Ended(n)
        /\ WalkComplete => {n \in kept : n > wcall.start /\ ~Ended(n)} \subseteq ToSet(walked)

\* The walk has the whole range that was asked for, its first and its last name too.
WalkedRange ==
    wcall # <<>> /\ WalkComplete =>
        {n \in kept : n >= wcall.start /\ (wcall.end = 0 \/ n <= wcall.end)} \subseteq ToSet(walked)

\* No helper is left behind.
WalkEnded ==
    /\ wpc \in {"idle", "closed", "refused"}
    /\ \A d \in Directory, c \in Helper : helper[d][c].pc \in {"none", "gone"}
=============================================================================
