----------------------------- MODULE OrderedMap -----------------------------
(***************************************************************************)
(* What an osrfHash promises (the description of the osrfHash structure in *)
(* osrf_hash.c): a key/value store that also lists its entries in the      *)
(* sequence in which their keys were added.                                *)
(***************************************************************************)
EXTENDS Sequences, Naturals

CONSTANTS Keys, Items

VARIABLE entries      \* the entries, the oldest key first

KeyAt(i) == entries[i].key

Holds(k) == \E i \in DOMAIN entries : KeyAt(i) = k

Init == entries = << >>

\* An item for a new key goes to the end; a key that is there keeps its place.
Put(k, x) ==
    entries' = IF Holds(k)
               THEN [i \in DOMAIN entries |->
                        IF KeyAt(i) = k THEN [key |-> k, item |-> x] ELSE entries[i]]
               ELSE Append(entries, [key |-> k, item |-> x])

Delete(k) ==
    \E i \in DOMAIN entries :
        /\ KeyAt(i) = k
        /\ entries' = [j \in 1 .. Len(entries) - 1 |-> IF j < i THEN entries[j] ELSE entries[j + 1]]

Next == \E k \in Keys : Delete(k) \/ \E x \in Items : Put(k, x)

Spec == Init /\ [][Next]_entries

TypeOK ==
    /\ entries \in Seq([key : Keys, item : Items])
    /\ \A i, j \in DOMAIN entries : KeyAt(i) = KeyAt(j) => i = j
=============================================================================
