------------------------------- MODULE Listing ------------------------------
(***************************************************************************)
(* Listing a flat store (pkg/sync/sync.go listAll over the adapters' List, *)
(* and the ListAll of Redis and Ceph): pages of keys, each asked for with  *)
(* the last key sent or a token, until the service has no more.  Requests  *)
(* may fail, and keys may come and go meanwhile.  A key is its rank in     *)
(* byte order, 0 the empty string; the channel to the consumer is what was *)
(* sent on it.                                                             *)
(***************************************************************************)
EXTENDS Backends, Naturals, FiniteSets, FiniteSetsExt, SequencesExt

CONSTANTS
    Keys,         \* keys are 1..Keys
    Page,         \* keys in a page (1000 in the code)
    Retries,      \* of a page (3 in the code)
    Masters,      \* nodes of a Redis cluster
    Stats,        \* goroutines that ask Ceph for sizes (20 in the code)
    ListCalls,    \* [list, start, head, end] of the calls to make; end 0 is none
    ListFaults,   \* bound: requests that fail
    ListChanges   \* bound: keys that come or go, and rehashes of a Redis node

Key == 1..Keys
Nil == Keys + 1  \* sent to say that the listing has failed
Stat == 0..(Stats - 1)
\* these have a ListAll of their own
Redis == Flat(FALSE, "after", FALSE, "scan")
Ceph == Flat(FALSE, "after", FALSE, "stat")

ASSUME ListingAssumption ==
    /\ Keys \in Nat /\ Page \in Nat \ {0, 1} /\ Retries \in Nat /\ Masters \in Nat \ {0} /\ Stats \in Nat \ {0}
    /\ ListFaults \in Nat /\ ListChanges \in Nat
    /\ ListCalls \subseteq [list : FlatLists \cup {Redis, Ceph}, start : Key \cup {0}, head : BOOLEAN,
                            end : Key \cup {0}]

VARIABLES
    lcall,      \* the call, <<>> if none is made
    lpc,
    have,       \* the keys that are there
    always,     \* those that were there all the time (history)
    ever,       \* those that were there at some time (history)
    sent,       \* the last key sent, 0 before the first
    token,      \* the token of the next page, 0 for none
    retries,    \* of this page
    found,      \* Redis, Ceph: the keys that were found
    node,       \* Redis: the node that is scanned
    cursor,     \* Redis: of the scan
    stat,       \* Ceph: where the goroutines stand
    taken,      \* Ceph: how many of the keys found were settled
    listed,     \* what the consumer was sent
    lfaults, lchanges

storeVars == <<have, always, ever, lchanges>>
pageVars == <<sent, token, retries>>
scanVars == <<found, node, cursor>>
statVars == <<stat, taken>>
listVars == <<lcall, lpc, storeVars, pageVars, scanVars, statVars, listed, lfaults>>

LPC == {"idle", "head", "first", "page", "scan", "send", "iterate", "stat",
        "closed", "refused"}

ListTypeOK ==
    /\ (lcall = <<>> \/ lcall \in ListCalls) /\ lpc \in LPC
    /\ have \subseteq Key /\ always \subseteq have /\ have \subseteq ever /\ ever \subseteq Key
    /\ sent \in Key \cup {0} /\ token \in Key \cup {0} /\ retries \in 0..Retries
    /\ found \in Seq(Key) /\ node \in 1..Masters /\ cursor \in Key \cup {0}
    /\ stat \in [Stat -> [pc : {"none", "start", "stat", "ready", "gone", "lost"}, at : 0..Keys,
                         result : Key \cup {0, Nil}]]
    /\ taken \in 0..Keys
    /\ listed \in Seq(Key \cup {Nil})
    /\ lfaults \in 0..ListFaults /\ lchanges \in 0..ListChanges

ListFault == lfaults < ListFaults /\ lfaults' = lfaults + 1
FirstOf(S) == {k \in S : Cardinality({j \in S : j < k}) < Page}
InRange(k) == lcall.end = 0 \/ k <= lcall.end

-----------------------------------------------------------------------------
(* List of an adapter: the answer of the service and what is left of it.   *)

Asked(list, marker, tok) ==
    {k \in have : /\ list.token => k > tok
                  /\ list.from = "after" => k > marker
                  /\ list.from = "from" => k >= marker}

Shown(list, marker, tok) ==
    {k \in FirstOf(Asked(list, marker, tok)) : list.drops => k > marker}

Truncated(list, marker, tok) ==
    Asked(list, marker, tok) # FirstOf(Asked(list, marker, tok))

HasMore(list, marker, tok) ==
    CASE list.more = "truncated" -> Truncated(list, marker, tok)
      [] list.more = "full" -> Cardinality(Shown(list, marker, tok)) = Page
      [] list.more = "left" -> Truncated(list, marker, tok) /\ Shown(list, marker, tok) # {}

NextToken(list, marker, tok) ==
    IF list.token /\ HasMore(list, marker, tok)
    THEN Max(FirstOf(Asked(list, marker, tok))) ELSE 0

-----------------------------------------------------------------------------
(* listAll.                                                                *)

\* the start key is asked for by itself; if that fails it is left out
HeadStart ==
    /\ lpc = "head"
    /\ lpc' = CASE lcall.list = Redis -> "scan" [] lcall.list = Ceph -> "iterate" [] OTHER -> "first"
    /\ \/ /\ listed' = IF lcall.head /\ lcall.start \in have THEN <<lcall.start>> ELSE <<>>
          /\ UNCHANGED lfaults
       \/ lcall.head /\ lcall.start # 0 /\ ListFault /\ UNCHANGED listed
    /\ UNCHANGED <<lcall, storeVars, pageVars, scanVars, statVars>>

\* the objects of a page, in order; one that is not after the last one sent ends
\* the listing with nil, one after end ends it
SendPage(objs, more, tok) ==
    LET outOfOrder == sent # 0 /\ \E k \in objs : k <= sent
        wanted == {k \in objs : InRange(k)}
    IN
    /\ listed' = IF outOfOrder THEN Append(listed, Nil) ELSE listed \o InOrder(wanted)
    /\ lpc' = IF outOfOrder \/ wanted # objs \/ ~more THEN "closed" ELSE "page"
    /\ sent' = IF outOfOrder \/ wanted = {} THEN sent ELSE Max(wanted)
    /\ token' = tok
    /\ retries' = 0

FirstPage ==
    /\ lpc = "first"
    /\ SendPage(Shown(lcall.list, lcall.start, 0), HasMore(lcall.list, lcall.start, 0),
                NextToken(lcall.list, lcall.start, 0))
    /\ UNCHANGED <<lcall, storeVars, scanVars, statVars, lfaults>>

FirstFails ==
    /\ lpc = "first" /\ ListFault
    /\ lpc' = "refused"
    /\ UNCHANGED <<lcall, storeVars, pageVars, scanVars, statVars, listed>>

\* a later page; if it begins with the marker, that one is taken out
NextPage ==
    /\ lpc = "page"
    /\ SendPage(Shown(lcall.list, sent, token) \ {sent}, HasMore(lcall.list, sent, token),
                NextToken(lcall.list, sent, token))
    /\ UNCHANGED <<lcall, storeVars, scanVars, statVars, lfaults>>

\* bug: one retry too many
PageFailsMore ==
    /\ lpc = "page" /\ ListFault
    /\ IF retries <= Retries
       THEN retries' = retries + 1 /\ UNCHANGED <<lpc, listed>>
       ELSE lpc' = "closed" /\ listed' = Append(listed, Nil) /\ UNCHANGED retries
    /\ UNCHANGED <<lcall, storeVars, sent, token, scanVars, statVars>>

\* bug: the listing ends after the retries as if it were complete
PageFailsQuietly ==
    /\ lpc = "page" /\ ListFault
    /\ IF retries < Retries
       THEN retries' = retries + 1 /\ UNCHANGED <<lpc, listed>>
       ELSE lpc' = "closed" /\ UNCHANGED <<listed, retries>>
    /\ UNCHANGED <<lcall, storeVars, sent, token, scanVars, statVars>>

\* after the retries nil says that the listing has failed
PageFails ==
    /\ lpc = "page" /\ ListFault
    /\ IF retries < Retries
       THEN retries' = retries + 1 /\ UNCHANGED <<lpc, listed>>
       ELSE lpc' = "closed" /\ listed' = Append(listed, Nil) /\ UNCHANGED retries
    /\ UNCHANGED <<lcall, storeVars, sent, token, scanVars, statVars>>

-----------------------------------------------------------------------------
(* ListAll of Redis: SCAN all nodes, sort, ask for the sizes.              *)

NodeOf(k) == ((k + 1) % Masters) + 1

\* The keys of a node in the order of its table; a table that is being rehashed may
\* give a key again.  The cursor is not reset for the next node.
Scan ==
    LET left == {k \in have : NodeOf(k) = node /\ k > cursor}
        batch == FirstOf(left)
        new == InOrder({k \in batch : k > lcall.start})
        last == batch = left
    IN
    /\ lpc = "scan"
    /\ \/ found' = found \o new /\ UNCHANGED lchanges
       \/ /\ lchanges < ListChanges /\ lchanges' = lchanges + 1
          /\ \E i \in DOMAIN found : NodeOf(found[i]) = node /\ found' = Append(found \o new, found[i])
    /\ IF last
       THEN /\ lpc' = IF node = Masters THEN "send" ELSE "scan"
            /\ node' = IF node = Masters THEN node ELSE node + 1
            /\ UNCHANGED cursor
       ELSE cursor' = Max(batch) /\ UNCHANGED <<lpc, node>>
    /\ UNCHANGED <<lcall, have, always, ever, pageVars, statVars, listed, lfaults>>

ScanFails ==
    /\ lpc = "scan" /\ ListFault
    /\ lpc' = "refused"
    /\ UNCHANGED <<lcall, storeVars, pageVars, scanVars, statVars, listed>>

\* the keys found, in order; one that was given again is there again
Sorted(seq) ==
    LET before(i) == {j \in DOMAIN seq : seq[j] < seq[i] \/ (seq[j] = seq[i] /\ j < i)}
    IN [n \in DOMAIN seq |-> seq[CHOOSE i \in DOMAIN seq : Cardinality(before(i)) = n - 1]]

\* a batch of the sorted keys; those that have gone are left out
SendFound ==
    LET sorted == Sorted(found)
        n == IF Len(sorted) < Page THEN Len(sorted) ELSE Page
        there == {i \in 1..n : sorted[i] \in have}
        wanted == {i \in there : InRange(sorted[i])}
    IN
    /\ lpc = "send"
    /\ listed' = listed \o [i \in 1..Cardinality(wanted) |-> sorted[Nth(wanted, i)]]
    /\ found' = SubSeq(sorted, n + 1, Len(sorted))
    /\ lpc' = IF n = Len(sorted) \/ wanted # there THEN "closed" ELSE "send"
    /\ UNCHANGED <<lcall, storeVars, pageVars, node, cursor, statVars, lfaults>>

SizesFail ==
    /\ lpc = "send" /\ found # <<>> /\ ListFault
    /\ listed' = Append(listed, Nil)
    /\ lpc' = "closed"
    /\ UNCHANGED <<lcall, storeVars, pageVars, scanVars, statVars>>

-----------------------------------------------------------------------------
(* ListAll of Ceph: iterate over all names, sort, and have a number of     *)
(* goroutines ask for the sizes, each for every Stats-th name.             *)

NoStat == [pc |-> "none", at |-> 0, result |-> 0]

Iterate ==
    LET names == InOrder({k \in have : k > lcall.start}) IN
    /\ lpc = "iterate"
    /\ found' = names
    /\ stat' = [j \in Stat |-> IF j < Len(names) THEN [NoStat EXCEPT !.pc = "start", !.at = j + 1] ELSE NoStat]
    /\ lpc' = "stat"
    /\ UNCHANGED <<lcall, storeVars, pageVars, node, cursor, taken, listed, lfaults>>

IterateFails ==
    /\ lpc = "iterate" /\ ListFault
    /\ lpc' = "refused"
    /\ UNCHANGED <<lcall, storeVars, pageVars, scanVars, statVars, listed>>

\* without a context of its own the goroutine leaves, and tells nobody
StatStart(j) ==
    /\ stat[j].pc = "start"
    /\ \/ stat' = [stat EXCEPT ![j].pc = "stat"] /\ UNCHANGED lfaults
       \/ stat' = [stat EXCEPT ![j].pc = "lost"] /\ ListFault
    /\ UNCHANGED <<lcall, lpc, storeVars, pageVars, scanVars, taken, listed>>

\* a name that is gone by now is left out
StatKey(j) ==
    LET k == found[stat[j].at] IN
    /\ stat[j].pc = "stat"
    /\ \/ /\ stat' = [stat EXCEPT ![j].pc = "ready", ![j].result = IF k \in have THEN k ELSE 0]
          /\ UNCHANGED lfaults
       \/ stat' = [stat EXCEPT ![j].pc = "ready", ![j].result = Nil] /\ ListFault
    /\ UNCHANGED <<lcall, lpc, storeVars, pageVars, scanVars, taken, listed>>

\* The results are sent in the order of the names; an error ends the listing with nil.
\* The goroutine of this one goes on with its next name.
TakeStat ==
    LET j == taken % Stats
        result == stat[j].result
        after == stat[j].at + Stats
    IN
    /\ lpc = "stat" /\ taken < Len(found) /\ stat[j].pc = "ready"
    /\ taken' = taken + 1
    /\ listed' = IF result = Nil \/ (result # 0 /\ InRange(result)) THEN Append(listed, result) ELSE listed
    /\ lpc' = IF result = Nil \/ (result # 0 /\ ~InRange(result)) THEN "closed" ELSE "stat"
    /\ stat' = [stat EXCEPT ![j] = IF result # Nil /\ after <= Len(found)
                                   THEN [pc |-> "stat", at |-> after, result |-> 0]
                                   ELSE [@ EXCEPT !.pc = "gone"]]
    /\ UNCHANGED <<lcall, storeVars, pageVars, scanVars, lfaults>>

StatsEnd ==
    /\ lpc = "stat" /\ taken = Len(found)
    /\ lpc' = "closed"
    /\ UNCHANGED <<lcall, storeVars, pageVars, scanVars, statVars, listed, lfaults>>

-----------------------------------------------------------------------------
\* an application creates or removes an object
KeyChanges ==
    /\ lpc \in {"head", "first", "page", "scan", "send", "iterate", "stat"}
    /\ lchanges < ListChanges /\ lchanges' = lchanges + 1
    /\ \E k \in Key :
          /\ have' = IF k \in have THEN have \ {k} ELSE have \cup {k}
          /\ always' = always \ {k} /\ ever' = ever \cup {k}
    /\ UNCHANGED <<lcall, lpc, pageVars, scanVars, statVars, listed, lfaults>>

NoListing ==
    /\ sent = 0 /\ token = 0 /\ retries = 0 /\ found = <<>> /\ node = 1 /\ cursor = 0
    /\ stat = [j \in Stat |-> NoStat] /\ taken = 0
    /\ listed = <<>> /\ lfaults = 0 /\ lchanges = 0

ListIdle == lcall = <<>> /\ lpc = "idle" /\ have = {} /\ always = {} /\ ever = {} /\ NoListing

ListInit ==
    /\ lcall \in ListCalls /\ lpc = "head"
    /\ have \in SUBSET Key /\ always = have /\ ever = have
    /\ NoListing

ListSystem ==
    HeadStart \/ FirstPage \/ FirstFails \/ NextPage \/ PageFails
    \/ Scan \/ ScanFails \/ SendFound \/ SizesFail
    \/ Iterate \/ IterateFails \/ TakeStat \/ StatsEnd
    \/ \E j \in Stat : StatStart(j) \/ StatKey(j)

ListNext == ListSystem \/ KeyChanges

-----------------------------------------------------------------------------
(* What is known of some adapters, see the hazards.                        *)

\* gs, etcd, TiKV: the first page begins with the start key
StartsAtMarker == lcall.list.from = "from" /\ ~lcall.list.drops
\* azure: a first page wholly before start makes the listing begin anew without a marker
MayGoBack == lcall.list.from = "any" /\ lcall.list.more = "truncated" /\ lcall.start # 0
\* qiniu: such a page ends the listing
MayStopEarly == lcall.list.more = "left" /\ lcall.start # 0
\* Redis: a rehash repeats a key; the cursor of one node is used for the next
MayRepeat == lcall.list = Redis /\ lchanges > 0
MaySkip == lcall.list = Redis /\ Masters > 1
\* Ceph: a goroutine that could not start is waited for
MayHang == \E j \in Stat : stat[j].pc = "lost"

Complete == lpc = "closed" /\ ~Contains(listed, Nil)
Wanted == {k \in always : k > lcall.start /\ (lcall.end = 0 \/ k <= lcall.end)}
SentKeys == ToSet(listed) \ {Nil}

\* However pages, tokens, retries and changes of the store mix: the keys come in order
\* and once, none from outside the range or never there, nil only as the last; and a
\* listing that does not end with nil has every key that was there all along.
ListedRight ==
    lcall # <<>> =>
        /\ \A i, j \in DOMAIN listed :
              i < j => listed[i] < listed[j] \/ MayRepeat
                       \/ ((StartsAtMarker \/ MayGoBack) /\ i = 1 /\ listed[i] = lcall.start)
        /\ SentKeys \subseteq ever
        /\ \A k \in SentKeys : /\ lcall.end = 0 \/ k <= lcall.end \/ k = lcall.start
                               /\ k > lcall.start \/ MayGoBack
                                  \/ (k = lcall.start /\ (lcall.head \/ StartsAtMarker))
        /\ Complete => Wanted \subseteq SentKeys \/ MayStopEarly \/ MaySkip

\* What ListAll of Redis promises as any other: it gives all the objects that are there all
\* along, from every node of a cluster.
ScanFindsAll == lcall # <<>> /\ lcall.list = Redis /\ Complete => Wanted \subseteq SentKeys

ListEnded == lpc \in {"idle", "closed", "refused"} \/ MayHang
=============================================================================
