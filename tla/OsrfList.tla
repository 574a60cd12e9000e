-------------------------------- MODULE OsrfList --------------------------------
(***************************************************************************)
(* osrf_list.c: an osrfList with an iterator.  A caller puts items in and  *)
(* gets them back; if the list has a callback for it, it frees the items   *)
(* that it removes or replaces.                                            *)
(***************************************************************************)
EXTENDS ListOps

CONSTANTS
    Items,
    MaxSlots    \* bound: positions that are used

ASSUME OsrfListAssumption == Nothing \notin Items /\ MaxSlots \in Nat

VARIABLES
    list,
    frees,      \* list->freeItem is set
    owner,      \* who has each item: the caller, the list, or nobody any more
    current,    \* itr->current
    stayed,     \* history: items that were in the list since the iterator started
    passed      \* history: items that the iterator returned since then

vars == <<list, frees, owner, current, stayed, passed>>

Positions == 0 .. MaxSlots - 1

Init ==
    /\ list = NewList /\ frees \in BOOLEAN
    /\ owner = [x \in Items |-> "caller"]
    /\ current = 0 /\ stayed = {} /\ passed = {}

\* What becomes of an item that the list lets go of.
LetGo == IF frees THEN "freed" ELSE "caller"

\* osrfListSet
SetAt(x, p) ==
    LET old == GetIndex(list, p)
    IN  /\ owner[x] = "caller" /\ p \in Positions
        /\ list' = Set(list, x, p)
        /\ owner' = [y \in Items |-> IF y = x THEN "list" ELSE IF y = old THEN LetGo ELSE owner[y]]
        /\ stayed' = stayed \ {old}
        /\ UNCHANGED <<frees, current, passed>>

PushLast(x)  == SetAt(x, list.size)
PushFirst(x) == SetAt(x, FirstHole(list))

\* osrfListRemove
RemoveAt(p) ==
    /\ p < list.size
    /\ list' = Remove(list, p)
    /\ owner' = [y \in Items |-> IF y = list.slots[p] THEN LetGo ELSE owner[y]]
    /\ stayed' = stayed \ {list.slots[p]}
    /\ UNCHANGED <<frees, current, passed>>

Pop == list.size > 0 /\ RemoveAt(list.size - 1)

\* osrfListExtract: never freed.
ExtractAt(p) ==
    /\ p < list.size
    /\ list' = Remove(list, p)
    /\ owner' = [y \in Items |-> IF y = list.slots[p] THEN "caller" ELSE owner[y]]
    /\ stayed' = stayed \ {list.slots[p]}
    /\ UNCHANGED <<frees, current, passed>>

\* osrfListClear frees what the callback is there for and forgets the rest.
ClearAll ==
    /\ list.size > 0
    /\ list' = Clear(list)
    /\ owner' = [y \in Items |-> IF \E i \in 0 .. list.size - 1 : list.slots[i] = y
                                 THEN LetGo ELSE owner[y]]
    /\ stayed' = {}
    /\ UNCHANGED <<frees, current, passed>>

\* osrfListIteratorNext; what it returns may be a hole.
IteratorNext ==
    /\ current < list.size
    /\ current' = current + 1
    /\ passed' = passed \cup ({list.slots[current]} \ {Nothing})
    /\ UNCHANGED <<list, frees, owner, stayed>>

\* osrfListIteratorReset
IteratorReset ==
    /\ current > 0
    /\ current' = 0 /\ passed' = {}
    /\ stayed' = {x \in Items : owner[x] = "list"}
    /\ UNCHANGED <<list, frees, owner>>

Next ==
    \/ \E x \in Items : PushLast(x) \/ PushFirst(x) \/ \E p \in Positions : SetAt(x, p)
    \/ \E p \in Positions : RemoveAt(p) \/ ExtractAt(p)
    \/ Pop \/ ClearAll \/ IteratorNext \/ IteratorReset

Spec == Init /\ [][Next]_vars

-----------------------------------------------------------------------------
(* Properties.                                                             *)

\* Every variable has its type.
TypeOK ==
    /\ list.size \in 0 .. MaxSlots /\ list.size <= list.arrsize
    /\ DOMAIN list = {"arrsize", "size", "slots"}
    /\ list.slots \in [0 .. list.arrsize - 1 -> Items \cup {Nothing}]
    /\ frees \in BOOLEAN
    /\ owner \in [Items -> {"caller", "list", "freed"}]
    /\ current \in 0 .. MaxSlots /\ stayed \subseteq Items /\ passed \subseteq Items

\* The list has each item that it was given and has not let go of in exactly one slot, below the
\* size, where osrfListFree and osrfListClear look for it, and no other: nothing is freed twice, used
\* after it was freed, or left behind.
Held ==
    /\ \A i \in DOMAIN list.slots :
           list.slots[i] # Nothing => i < list.size /\ owner[list.slots[i]] = "list"
    /\ \A x \in Items : owner[x] = "list" => \E i \in DOMAIN list.slots : list.slots[i] = x
    /\ \A i, j \in DOMAIN list.slots : list.slots[i] = list.slots[j] /\ i # j => list.slots[i] = Nothing

\* An iterator that came to the end has returned every item that was in the list all the time,
\* whatever was put in and taken out meanwhile.
Traversed == current >= list.size => stayed \subseteq passed

HeldAndTraversed == Held /\ Traversed
=============================================================================
