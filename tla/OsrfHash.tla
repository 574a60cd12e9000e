------------------------------ MODULE OsrfHash ------------------------------
(***************************************************************************)
(* osrf_hash.c: a table of buckets and a doubly linked list over the same  *)
(* nodes.  The table serves searches by key, the list (and, while there    *)
(* are few entries, a search along it) the traversals.                     *)
(*                                                                         *)
(* A removed node is only marked: it stays in its bucket, and it keeps its *)
(* own pointers, so that an iterator parked on it can go on.  Nodes are    *)
(* freed with the hash, so an address is a number that is never used again.*)
(* One iterator is modelled, which moves while entries come and go: this   *)
(* is how the router uses its list of nodes.                               *)
(***************************************************************************)
EXTENDS Integers, Sequences, FiniteSets

CONSTANTS
    Keys, Items,
    Slots,       \* OSRF_HASH_LIST_SIZE positions of the table
    SlotOf,      \* OSRF_HASH_MAKE_KEY
    Few,         \* with fewer entries than this a search follows the list
    NoKey, NoItem,
    MaxNodes     \* bound: nodes ever allocated

\* What the constants are.
HashAssumption ==
    /\ SlotOf \in [Keys -> Slots]
    /\ NoKey \notin Keys /\ NoItem \notin Items
    /\ Few \in Nat /\ MaxNodes \in Nat

VARIABLES
    used,                   \* nodes allocated so far
    key, item, prev, next,  \* the fields of the nodes
    bucket,                 \* hash->hash
    first, last,            \* hash->first_key, hash->last_key
    size,                   \* hash->size
    curr,                   \* itr->curr_node
    gone                    \* history: the nodes removed since the iterator came to
                            \* an entry, each with what "used" was then

fields == <<key, item, prev, next>>
table  == <<used, fields, bucket, first, last, size>>
vars   == <<table, curr, gone>>

NULL  == 0
Addrs == 1 .. MaxNodes

Init ==
    /\ used = 0 /\ size = 0
    /\ key  = [n \in Addrs |-> NoKey]
    /\ item = [n \in Addrs |-> NoItem]
    /\ prev = [n \in Addrs |-> NULL]
    /\ next = [n \in Addrs |-> NULL]
    /\ bucket = [s \in Slots |-> << >>]
    /\ first = NULL /\ last = NULL
    /\ curr = NULL /\ gone = {}

-----------------------------------------------------------------------------
(* Searching.                                                              *)

\* The node with key k on the list, from node n on.
AlongList(k) ==
    LET from[n \in 0 .. MaxNodes] ==
            IF n = NULL \/ key[n] = k THEN n ELSE from[next[n]]
    IN  from[first]

\* The node with key k in its bucket; removed nodes are still there, and their
\* key is NULL.
InBucket(k) ==
    LET b    == bucket[SlotOf[k]]
        hits == {i \in DOMAIN b : key[b[i]] = k}
    IN  IF hits = {} THEN NULL ELSE b[CHOOSE i \in hits : \A j \in hits : i <= j]

\* find_item() without and with a place to report the bucket in.
Find(k) == IF size < Few THEN AlongList(k) ELSE InBucket(k)
FindWithBucket(k) == InBucket(k)

-----------------------------------------------------------------------------
(* Operations.                                                             *)

\* osrfHashSet, when the key is there.
Update(k, x) ==
    LET n == FindWithBucket(k)
    IN  /\ n # NULL
        /\ item' = [item EXCEPT ![n] = x]
        /\ UNCHANGED <<used, key, prev, next, bucket, first, last, size, curr, gone>>

\* osrfHashSet, when it is not: osrfListPushFirst puts the node behind the
\* others, as a bucket never has holes.
Add(k, x) ==
    LET n == used + 1
    IN  /\ FindWithBucket(k) = NULL /\ n \in Addrs
        /\ used' = n /\ size' = size + 1
        /\ key' = [key EXCEPT ![n] = k] /\ item' = [item EXCEPT ![n] = x]
        /\ bucket' = [bucket EXCEPT ![SlotOf[k]] = Append(@, n)]
        /\ first' = IF first = NULL THEN n ELSE first
        /\ last' = n
        /\ IF first = NULL
           THEN UNCHANGED <<prev, next>>
           ELSE /\ prev' = [prev EXCEPT ![n] = last]
                /\ next' = [next EXCEPT ![last] = n]
        /\ UNCHANGED <<curr, gone>>

\* Mutant: a removed first node is left at the head of the list.
RemoveNotFirst(k) ==
    LET n == Find(k)
    IN  /\ n # NULL
        /\ size' = size - 1
        /\ key' = [key EXCEPT ![n] = NoKey] /\ item' = [item EXCEPT ![n] = NoItem]
        /\ next' = IF prev[n] # NULL THEN [next EXCEPT ![prev[n]] = next[n]] ELSE next
        /\ prev' = IF next[n] # NULL THEN [prev EXCEPT ![next[n]] = prev[n]] ELSE prev
        /\ last' = IF next[n] = NULL THEN prev[n] ELSE last
        /\ gone' = gone \cup {<<n, used>>}
        /\ UNCHANGED <<used, bucket, first, curr>>

\* osrfHashRemove and osrfHashExtract, which differ only in who frees the item.
Remove(k) ==
    LET n == Find(k)
    IN  /\ n # NULL
        /\ size' = size - 1
        /\ key' = [key EXCEPT ![n] = NoKey] /\ item' = [item EXCEPT ![n] = NoItem]
        /\ IF prev[n] # NULL
           THEN next' = [next EXCEPT ![prev[n]] = next[n]] /\ UNCHANGED first
           ELSE first' = next[n] /\ UNCHANGED next
        /\ IF next[n] # NULL
           THEN prev' = [prev EXCEPT ![next[n]] = prev[n]] /\ UNCHANGED last
           ELSE last' = prev[n] /\ UNCHANGED prev
        /\ gone' = gone \cup {<<n, used>>}
        /\ UNCHANGED <<used, bucket, curr>>

\* osrfHashIteratorNext; it returns the item of the node it comes to, and after
\* the last node the traversal starts again.
Advance ==
    /\ curr' = IF curr = NULL THEN first ELSE next[curr]
    /\ gone' = IF curr' = NULL \/ key[curr'] # NoKey THEN {} ELSE gone
    /\ UNCHANGED table

\* osrfHashIteratorReset
Reset ==
    /\ curr # NULL /\ curr' = NULL
    /\ gone' = {}
    /\ UNCHANGED table

Next ==
    \/ \E k \in Keys : Remove(k) \/ \E x \in Items : Add(k, x) \/ Update(k, x)
    \/ Advance \/ Reset

Spec == Init /\ [][Next]_vars

-----------------------------------------------------------------------------
(* Properties.                                                             *)

Live == {n \in 1 .. used : key[n] # NoKey}

\* The first live node behind node n.
After(n) ==
    LET later == {m \in Live : m > n}
    IN  IF later = {} THEN NULL ELSE CHOOSE m \in later : \A o \in later : m <= o

Before(n) ==
    LET earlier == {m \in Live : m < n}
    IN  IF earlier = {} THEN NULL ELSE CHOOSE m \in earlier : \A o \in earlier : m >= o

\* Every variable has its type.
TypeOK ==
    /\ used \in 0 .. MaxNodes /\ size \in 0 .. MaxNodes
    /\ key \in [Addrs -> Keys \cup {NoKey}] /\ item \in [Addrs -> Items \cup {NoItem}]
    /\ prev \in [Addrs -> 0 .. MaxNodes] /\ next \in [Addrs -> 0 .. MaxNodes]
    /\ bucket \in [Slots -> Seq(Addrs)]
    /\ first \in 0 .. MaxNodes /\ last \in 0 .. MaxNodes
    /\ curr \in 0 .. MaxNodes /\ gone \subseteq Addrs \X Addrs

\* The list holds exactly the live nodes in both directions, in the order in which they
\* were added, the count is that of the list, and it does not matter which way find_item()
\* searches: along the list, which it does while there are few entries, or in the bucket.
Linked ==
    /\ first = After(0) /\ last = Before(used + 1)
    /\ \A n \in Live : next[n] = After(n) /\ prev[n] = Before(n)
    /\ size = Cardinality(Live)
    /\ \A k \in Keys : AlongList(k) = InBucket(k)

\* The entries along the list, for OrderedMap.
Listed ==
    LET from[n \in 0 .. MaxNodes] ==
            IF n = NULL THEN << >>
            ELSE <<[key |-> key[n], item |-> item[n]]>> \o from[next[n]]
    IN  from[first]

Map == INSTANCE OrderedMap WITH entries <- Listed

\* The hash is an ordered map: osrfHashSet and osrfHashRemove do to the entries
\* along the list what Put and Delete do, and the iterator changes nothing.
MapSpec == Map!Spec

\* A traversal never goes back: until it has come to its end, or is reset, the
\* iterator only moves to nodes that were added later.
NeverBack == [][curr # NULL /\ curr' # NULL => curr' >= curr]_vars

\* "An osrfHashIterator pointing to it can advance to the next node" (note on
\* osrfHashRemove): when nothing else is removed under an iterator than the node
\* it is on, it finds the entry that followed.
ResumesAfterRemoval ==
    \A u \in Addrs :
        (gone = {<<curr, u>>} /\ After(curr) # NULL /\ After(curr) <= u)
        => next[curr] = After(curr)

\* "A Pointer to the next stored item, if there is one; otherwise NULL"
\* (osrfHashIteratorNext): while there is an entry that was added later than the
\* node of the iterator, the iterator moves to an entry.
NextIfThereIsOne == (curr # NULL /\ After(curr) # NULL) => next[curr] \in Live
=============================================================================
