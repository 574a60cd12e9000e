-------------------------------- MODULE ListOps --------------------------------
(***************************************************************************)
(* The operations of osrf_list.c on the array of an osrfList: "slots" are  *)
(* the "arrsize" pointers, of which the first "size" might be in use.      *)
(* Whether a list frees its items or returns them is up to the modules     *)
(* that use it.                                                            *)
(***************************************************************************)
EXTENDS Integers

CONSTANTS
    Nothing,        \* a NULL in a slot
    DefaultSize,    \* slots of a new list
    IncSize         \* slots it is enlarged by

ASSUME ListAssumption == DefaultSize \in Nat \ {0} /\ IncSize \in Nat \ {0}

\* osrfNewListSize
NewList == [arrsize |-> DefaultSize, size |-> 0, slots |-> [i \in 0 .. DefaultSize - 1 |-> Nothing]]

\* Mutant: the array is not enlarged for the position just behind it.
EnlargedLate(l, p) ==
    LET n == IF p <= l.arrsize THEN l.arrsize
             ELSE l.arrsize + IncSize * ((p - l.arrsize) \div IncSize + 1)
    IN  [l EXCEPT !.arrsize = n,
                  !.slots = [i \in 0 .. n - 1 |-> IF i < l.arrsize THEN l.slots[i] ELSE Nothing]]

\* The array with room for a position.
Enlarged(l, p) ==
    LET n == IF p < l.arrsize THEN l.arrsize
             ELSE l.arrsize + IncSize * ((p - l.arrsize) \div IncSize + 1)
    IN  [l EXCEPT !.arrsize = n,
                  !.slots = [i \in 0 .. n - 1 |-> IF i < l.arrsize THEN l.slots[i] ELSE Nothing]]

\* osrfListRemove, osrfListExtract: a hole, or, at the end, one slot less.
Remove(l, p) ==
    IF p >= l.size THEN l
    ELSE [l EXCEPT !.slots[p] = Nothing, !.size = IF p = l.size - 1 THEN p ELSE @]

\* Mutant: only a hole is filled, the count of slots stays.
SetInPlace(l, x, p) == [Enlarged(l, p) EXCEPT !.slots[p] = x]

\* osrfListSet.  The previous item is removed first, and with it, at the end, a slot.
Set(l, x, p) ==
    LET r == Remove(Enlarged(l, p), p)
    IN  [r EXCEPT !.slots[p] = x, !.size = IF r.size <= p THEN p + 1 ELSE @]

\* osrfListPushFirst: the first hole.
FirstHole(l) == CHOOSE i \in 0 .. l.size :
                    /\ i < l.size => l.slots[i] = Nothing
                    /\ \A j \in 0 .. i - 1 : l.slots[j] # Nothing

\* osrfListGetIndex
GetIndex(l, p) == IF p >= l.size THEN Nothing ELSE l.slots[p]

\* osrfListClear: the array stays as long as it is.
Clear(l) == [l EXCEPT !.slots = [i \in 0 .. l.arrsize - 1 |-> IF i < l.size THEN Nothing ELSE l.slots[i]],
                      !.size = 0]
=============================================================================
