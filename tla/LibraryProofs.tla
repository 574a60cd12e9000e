---------------------------- MODULE LibraryProofs ----------------------------
(***************************************************************************)
(* Proofs about OsrfList, GrowingBuffer, OsrfHash and StringArray.         *)
(*                                                                         *)
(* Whatever the items, and however long the array becomes, the list has    *)
(* each item it was given in one slot below its size, and an iterator      *)
(* passes everything that stayed.  Whatever is added to a buffer, and of   *)
(* whatever size it was, its string ends inside of its memory, and is the  *)
(* text that was put together.  However many nodes a hash has had, both    *)
(* ways to search it find the same entry, an iterator goes on after what   *)
(* was removed under it, and it is the ordered map of its entries.  An     *)
(* array of strings is a sequence that begins as the words of its text,    *)
(* and has each copy in one slot.                                          *)
(***************************************************************************)
EXTENDS MCContainers, Sequences, FiniteSetTheorems, SequenceTheorems, WellFoundedInduction, TLAPS

\* An array of items with its two counts.
IsListOf(l, C) ==
    /\ l = [arrsize |-> l.arrsize, size |-> l.size, slots |-> l.slots]
    /\ l.arrsize \in Nat /\ l.size \in Nat /\ l.size <= l.arrsize
    /\ l.slots \in [0 .. l.arrsize - 1 -> C \cup {Nothing}]

-----------------------------------------------------------------------------
(* The operations of ListOps.                                              *)

LEMMA RoundedUp ==
    ASSUME NEW d \in Nat, NEW n \in Nat \ {0}
    PROVE  n * (d \div n + 1) \in Nat /\ d < n * (d \div n + 1)
<1> DEFINE q == d \div n
<1>1. q \in Int /\ q >= 0
  BY Z3
<1>2. d < n * q + n
  BY Z3
<1> HIDE DEF q
<1>3. n * (q + 1) = n * q + n /\ n * q \in Nat
  BY <1>1
<1>4. d < n * (q + 1) /\ n * (q + 1) \in Nat
  BY <1>1, <1>2, <1>3
<1> QED
  BY <1>4 DEF q

LEMMA EnlargedLemma ==
    ASSUME NEW C, NEW l, IsListOf(l, C), NEW p \in Nat
    PROVE  LET e == Enlarged(l, p)
           IN  /\ IsListOf(e, C) /\ p < e.arrsize /\ l.arrsize <= e.arrsize /\ e.size = l.size
               /\ \A i \in 0 .. e.arrsize - 1 :
                      e.slots[i] = IF i < l.arrsize THEN l.slots[i] ELSE Nothing
<1> DEFINE n == IF p < l.arrsize THEN l.arrsize
                ELSE l.arrsize + IncSize * ((p - l.arrsize) \div IncSize + 1)
           s == [i \in 0 .. n - 1 |-> IF i < l.arrsize THEN l.slots[i] ELSE Nothing]
<1>1. n \in Nat /\ p < n /\ l.arrsize <= n
  <2>1. CASE p < l.arrsize
    BY <2>1 DEF IsListOf
  <2>2. CASE ~(p < l.arrsize)
    <3>1. p - l.arrsize \in Nat
      BY <2>2 DEF IsListOf
    <3> DEFINE m == IncSize * ((p - l.arrsize) \div IncSize + 1)
    <3>2. m \in Nat /\ p - l.arrsize < m
      BY <3>1, RoundedUp, ListAssumption
    <3>3. n = l.arrsize + m
      BY <2>2
    <3> HIDE DEF m, n
    <3> QED
      BY <3>2, <3>3 DEF IsListOf
  <2> QED
    BY <2>1, <2>2
<1>2. Enlarged(l, p) = [l EXCEPT !.arrsize = n, !.slots = s]
  BY DEF Enlarged
<1> HIDE DEF n
<1>3. s \in [0 .. n - 1 -> C \cup {Nothing}]
  BY <1>1 DEF IsListOf
<1> HIDE DEF s
<1>4. Enlarged(l, p) = [arrsize |-> n, size |-> l.size, slots |-> s]
  BY <1>2 DEF IsListOf
<1>5. \A i \in 0 .. n - 1 : s[i] = IF i < l.arrsize THEN l.slots[i] ELSE Nothing
  BY DEF s
<1> QED
  BY <1>1, <1>3, <1>4, <1>5 DEF IsListOf

LEMMA RemoveLemma ==
    ASSUME NEW C, NEW l, IsListOf(l, C), NEW p \in Nat
    PROVE  LET r == Remove(l, p)
           IN  /\ IsListOf(r, C) /\ r.arrsize = l.arrsize
               /\ r.size = IF p = l.size - 1 THEN p ELSE l.size
               /\ \A i \in 0 .. l.arrsize - 1 :
                      r.slots[i] = IF i = p /\ p < l.size THEN Nothing ELSE l.slots[i]
<1>1. CASE p >= l.size
  BY <1>1 DEF Remove, IsListOf
<1>2. CASE ~(p >= l.size)
  <2> DEFINE s == [l.slots EXCEPT ![p] = Nothing]
             n == IF p = l.size - 1 THEN p ELSE l.size
  <2>1. Remove(l, p) = [arrsize |-> l.arrsize, size |-> n, slots |-> s]
    BY <1>2 DEF Remove, IsListOf
  <2>2. s \in [0 .. l.arrsize - 1 -> C \cup {Nothing}]
    BY DEF IsListOf
  <2>3. \A i \in 0 .. l.arrsize - 1 : s[i] = IF i = p THEN Nothing ELSE l.slots[i]
    BY DEF IsListOf
  <2>4. n \in Nat /\ n <= l.arrsize
    BY DEF IsListOf
  <2> HIDE DEF s
  <2> QED
    BY <1>2, <2>1, <2>2, <2>3, <2>4 DEF IsListOf
<1> QED
  BY <1>1, <1>2

\* osrfListSet puts the item where it was told, leaves every other slot alone, and counts it.
LEMMA SetLemma ==
    ASSUME NEW C, NEW l, IsListOf(l, C), NEW p \in Nat, NEW x \in C
    PROVE  LET r == Set(l, x, p)
           IN  /\ IsListOf(r, C) /\ p < r.arrsize /\ l.arrsize <= r.arrsize
               /\ r.size = IF l.size <= p THEN p + 1 ELSE l.size
               /\ \A i \in 0 .. r.arrsize - 1 :
                      r.slots[i] = IF i = p THEN x
                                   ELSE IF i < l.arrsize THEN l.slots[i] ELSE Nothing
<1> DEFINE e == Enlarged(l, p)
           r == Remove(e, p)
           s == [r.slots EXCEPT ![p] = x]
           n == IF r.size <= p THEN p + 1 ELSE r.size
<1>1. /\ IsListOf(e, C) /\ p < e.arrsize /\ l.arrsize <= e.arrsize /\ e.size = l.size
      /\ \A i \in 0 .. e.arrsize - 1 :
             e.slots[i] = IF i < l.arrsize THEN l.slots[i] ELSE Nothing
  BY EnlargedLemma
<1> HIDE DEF e
<1>2. /\ IsListOf(r, C) /\ r.arrsize = e.arrsize
      /\ r.size = IF p = e.size - 1 THEN p ELSE e.size
      /\ \A i \in 0 .. e.arrsize - 1 :
             r.slots[i] = IF i = p /\ p < e.size THEN Nothing ELSE e.slots[i]
  BY <1>1, RemoveLemma
<1>3. Set(l, x, p) = [r EXCEPT !.slots[p] = x, !.size = IF @ <= p THEN p + 1 ELSE @]
  BY DEF Set, e
<1> HIDE DEF r
<1>4. Set(l, x, p) = [arrsize |-> r.arrsize, size |-> n, slots |-> s]
  BY <1>2, <1>3 DEF IsListOf
<1>5. s \in [0 .. r.arrsize - 1 -> C \cup {Nothing}]
  BY <1>2 DEF IsListOf
<1>6. \A i \in 0 .. r.arrsize - 1 : s[i] = IF i = p THEN x ELSE r.slots[i]
  BY <1>2 DEF IsListOf
<1>7. l.size \in Nat /\ e.arrsize \in Nat
  BY <1>1 DEF IsListOf
<1>8. n = (IF l.size <= p THEN p + 1 ELSE l.size) /\ n \in Nat /\ n <= r.arrsize
  BY <1>1, <1>2, <1>7 DEF IsListOf
<1>9. \A i \in 0 .. r.arrsize - 1 :
          s[i] = IF i = p THEN x ELSE IF i < l.arrsize THEN l.slots[i] ELSE Nothing
  BY <1>1, <1>2, <1>6
<1> HIDE DEF s, n
<1> QED
  BY <1>1, <1>2, <1>4, <1>5, <1>8, <1>9 DEF IsListOf

\* Where there is room the array stays as it is.
LEMMA SetKeepsSize ==
    ASSUME NEW C, NEW l, IsListOf(l, C), NEW p \in Nat, p < l.arrsize, NEW x \in C
    PROVE  Set(l, x, p).arrsize = l.arrsize
<1> DEFINE e == Enlarged(l, p)
           r == Remove(e, p)
<1>1. IsListOf(e, C) /\ e.arrsize = l.arrsize
  <2>1. IsListOf(e, C)
    BY EnlargedLemma
  <2>2. e.arrsize = l.arrsize
    BY DEF Enlarged, IsListOf
  <2> QED
    BY <2>1, <2>2
<1>2. IsListOf(r, C) /\ r.arrsize = e.arrsize
  <2> HIDE DEF e
  <2> QED
    BY <1>1, RemoveLemma
<1>3. Set(l, x, p) = [r EXCEPT !.slots[p] = x, !.size = IF @ <= p THEN p + 1 ELSE @]
  BY DEF Set
<1> HIDE DEF r
<1> QED
  BY <1>1, <1>2, <1>3 DEF IsListOf

-----------------------------------------------------------------------------
(* The list with its iterator.                                             *)

Typed ==
    /\ IsListOf(list, Items) /\ frees \in BOOLEAN
    /\ owner \in [Items -> {"caller", "list", "freed"}]
    /\ current \in Nat /\ stayed \subseteq Items /\ passed \subseteq Items

\* What stayed in the list was passed, or is still before the iterator: Traversed alone says
\* nothing before the end.
Ahead ==
    \A x \in stayed : /\ owner[x] = "list"
                      /\ x \in passed \/ \E i \in DOMAIN list.slots : i >= current /\ list.slots[i] = x

Inv == Typed /\ Held /\ Ahead

\* Every slot is empty, or holds an item below the size; no item is in two.
LEMMA SlotsLemma ==
    ASSUME Inv
    PROVE  /\ Nothing \notin Items
           /\ DOMAIN list.slots = 0 .. list.arrsize - 1
           /\ list.arrsize \in Nat /\ list.size \in Nat /\ list.size <= list.arrsize
           /\ \A i \in 0 .. list.arrsize - 1 :
                  list.slots[i] # Nothing => /\ list.slots[i] \in Items /\ i < list.size
                                             /\ owner[list.slots[i]] = "list"
           /\ \A i, j \in 0 .. list.arrsize - 1 :
                  list.slots[i] = list.slots[j] /\ list.slots[i] # Nothing => i = j
           /\ \A x \in Items : owner[x] = "list" =>
                  \E i \in 0 .. list.arrsize - 1 : list.slots[i] = x
<1>1. /\ DOMAIN list.slots = 0 .. list.arrsize - 1
      /\ \A i \in 0 .. list.arrsize - 1 : list.slots[i] \in Items \cup {Nothing}
  BY DEF Inv, Typed, IsListOf
<1>2. Nothing \notin Items
  BY OsrfListAssumption
<1>3. \A i \in 0 .. list.arrsize - 1 : list.slots[i] # Nothing => list.slots[i] \in Items
  BY <1>1 DEF IsListOf
<1> QED
  BY <1>1, <1>2, <1>3 DEF Inv, Typed, IsListOf, Held

LEMMA LetGoLemma == LetGo \in {"caller", "freed"}
BY DEF LetGo

\* An item is put in a slot, and what was in it is let go of.
LEMMA SetAtLemma ==
    ASSUME Inv, NEW x \in Items, NEW p \in Nat, SetAt(x, p)
    PROVE  Inv'
<1> DEFINE old == GetIndex(list, p)
<1>1. /\ Nothing \notin Items
      /\ DOMAIN list.slots = 0 .. list.arrsize - 1
      /\ list.arrsize \in Nat /\ list.size \in Nat /\ list.size <= list.arrsize
      /\ \A i \in 0 .. list.arrsize - 1 :
             list.slots[i] # Nothing => /\ list.slots[i] \in Items /\ i < list.size
                                        /\ owner[list.slots[i]] = "list"
      /\ \A i, j \in 0 .. list.arrsize - 1 :
             list.slots[i] = list.slots[j] /\ list.slots[i] # Nothing => i = j
      /\ \A y \in Items : owner[y] = "list" => \E i \in 0 .. list.arrsize - 1 : list.slots[i] = y
  BY SlotsLemma
<1>2. /\ owner[x] = "caller" /\ list' = Set(list, x, p)
      /\ owner' = [y \in Items |-> IF y = x THEN "list" ELSE IF y = old THEN LetGo ELSE owner[y]]
      /\ stayed' = stayed \ {old}
      /\ frees' = frees /\ current' = current /\ passed' = passed
  BY DEF SetAt
<1>3. /\ IsListOf(list', Items) /\ p < list'.arrsize /\ list.arrsize <= list'.arrsize
      /\ list'.size = IF list.size <= p THEN p + 1 ELSE list.size
      /\ \A i \in 0 .. list'.arrsize - 1 :
             list'.slots[i] = IF i = p THEN x
                              ELSE IF i < list.arrsize THEN list.slots[i] ELSE Nothing
  BY <1>2, SetLemma DEF Inv, Typed
<1>4. DOMAIN list'.slots = 0 .. list'.arrsize - 1 /\ list'.arrsize \in Nat /\ p \in 0 .. list'.arrsize - 1
  BY <1>3 DEF IsListOf
<1>5. \A i \in 0 .. list.arrsize - 1 : list.slots[i] = old /\ old # Nothing => i = p
  <2> SUFFICES ASSUME NEW i \in 0 .. list.arrsize - 1, list.slots[i] = old, old # Nothing
               PROVE  i = p
    OBVIOUS
  <2>1. p < list.size /\ old = list.slots[p]
    <3>1. ~(p >= list.size)
      BY DEF GetIndex
    <3> QED
      BY <1>1, <3>1 DEF GetIndex
  <2>2. p \in 0 .. list.arrsize - 1
    BY <1>1, <2>1
  <2> QED
    BY <1>1, <2>1, <2>2
<1>6. \A i \in 0 .. list.arrsize - 1 : i = p /\ list.slots[i] # Nothing => list.slots[i] = old
  BY <1>1 DEF GetIndex
<1> HIDE DEF old
<1>7. /\ owner' \in [Items -> {"caller", "list", "freed"}] /\ owner'[x] = "list"
      /\ \A y \in Items : y # x /\ y # old => owner'[y] = owner[y]
      /\ \A y \in Items : y # x /\ y = old => owner'[y] # "list"
  BY <1>2, LetGoLemma DEF Inv, Typed
<1>8. Typed'
  BY <1>2, <1>3, <1>7 DEF Inv, Typed
<1>9. ASSUME NEW i \in 0 .. list'.arrsize - 1, list'.slots[i] # Nothing, i # p
      PROVE  /\ i \in 0 .. list.arrsize - 1 /\ list'.slots[i] = list.slots[i]
             /\ list.slots[i] \in Items /\ list.slots[i] # x /\ list.slots[i] # old
             /\ i < list.size
  <2>1. i < list.arrsize /\ list'.slots[i] = list.slots[i]
    BY <1>3, <1>9
  <2>2. i \in 0 .. list.arrsize - 1
    BY <1>1, <1>4, <2>1
  <2> QED
    BY <1>1, <1>2, <1>5, <1>9, <2>1, <2>2
<1>10. Held'
  <2>1. ASSUME NEW i \in 0 .. list'.arrsize - 1, list'.slots[i] # Nothing
        PROVE  i < list'.size /\ owner'[list'.slots[i]] = "list"
    <3>1. CASE i = p
      BY <1>1, <1>3, <1>7, <3>1
    <3>2. CASE i # p
      BY <1>1, <1>3, <1>7, <1>9, <2>1, <3>2
    <3> QED
      BY <3>1, <3>2
  <2>2. ASSUME NEW y \in Items, owner'[y] = "list"
        PROVE  \E i \in 0 .. list'.arrsize - 1 : list'.slots[i] = y
    <3>1. CASE y = x
      BY <1>3, <1>4, <3>1
    <3>2. CASE y # x
      <4>1. owner[y] = "list" /\ y # old
        BY <1>7, <2>2, <3>2
      <4>2. PICK i \in 0 .. list.arrsize - 1 : list.slots[i] = y
        BY <1>1, <4>1
      <4>3. i # p
        BY <1>1, <1>6, <4>1, <4>2
      <4>4. i \in 0 .. list'.arrsize - 1 /\ list'.slots[i] = y
        BY <1>1, <1>3, <1>4, <4>2, <4>3
      <4> QED
        BY <4>4
    <3> QED
      BY <3>1, <3>2
  <2>3. ASSUME NEW i \in 0 .. list'.arrsize - 1, NEW j \in 0 .. list'.arrsize - 1,
               list'.slots[i] = list'.slots[j], i # j
        PROVE  list'.slots[i] = Nothing
    <3> SUFFICES ASSUME list'.slots[i] # Nothing PROVE FALSE
      OBVIOUS
    <3>1. CASE i # p /\ j # p
      BY <1>1, <1>9, <2>3, <3>1
    <3>2. CASE i = p
      BY <1>3, <1>9, <2>3, <3>2
    <3>3. CASE j = p
      BY <1>3, <1>9, <2>3, <3>3
    <3> QED
      BY <3>1, <3>2, <3>3
  <2>4. \A i, j \in DOMAIN list'.slots :
            list'.slots[i] = list'.slots[j] /\ i # j => list'.slots[i] = Nothing
    BY <1>4, <2>3
  <2>5. \A i \in DOMAIN list'.slots :
            list'.slots[i] # Nothing => i < list'.size /\ owner'[list'.slots[i]] = "list"
    BY <1>4, <2>1
  <2>6. \A y \in Items : owner'[y] = "list" => \E i \in DOMAIN list'.slots : list'.slots[i] = y
    BY <1>4, <2>2
  <2> QED
    BY <2>4, <2>5, <2>6 DEF Held
<1>11. Ahead'
  <2> SUFFICES ASSUME NEW y \in stayed'
               PROVE  /\ owner'[y] = "list"
                      /\ y \in passed' \/ \E i \in DOMAIN list'.slots : i >= current' /\ list'.slots[i] = y
    BY DEF Ahead
  <2>1. y \in stayed /\ y # old /\ y \in Items /\ owner[y] = "list" /\ y # x
    BY <1>2 DEF Inv, Typed, Ahead
  <2>2. owner'[y] = "list"
    BY <1>7, <2>1
  <2>3. CASE y \in passed
    BY <1>2, <2>2, <2>3
  <2>4. ASSUME NEW i \in 0 .. list.arrsize - 1, i >= current, list.slots[i] = y
        PROVE  i \in DOMAIN list'.slots /\ i >= current' /\ list'.slots[i] = y
    <3>1. i # p
      BY <1>1, <1>6, <2>1, <2>4
    <3> QED
      BY <1>1, <1>2, <1>3, <1>4, <2>4, <3>1
  <2> QED
    BY <1>1, <2>1, <2>2, <2>3, <2>4 DEF Inv, Ahead
<1> QED
  BY <1>8, <1>10, <1>11 DEF Inv

\* What osrfListRemove and osrfListExtract do: a slot is emptied, and its item is z's.
LEMMA TakeLemma ==
    ASSUME Inv, NEW p \in Nat, NEW z \in {"caller", "freed"}, p < list.size,
           list' = Remove(list, p),
           owner' = [y \in Items |-> IF y = list.slots[p] THEN z ELSE owner[y]],
           stayed' = stayed \ {list.slots[p]},
           frees' = frees, current' = current, passed' = passed
    PROVE  Inv'
<1> DEFINE old == list.slots[p]
<1>1. /\ Nothing \notin Items
      /\ DOMAIN list.slots = 0 .. list.arrsize - 1
      /\ list.arrsize \in Nat /\ list.size \in Nat /\ list.size <= list.arrsize
      /\ \A i \in 0 .. list.arrsize - 1 :
             list.slots[i] # Nothing => /\ list.slots[i] \in Items /\ i < list.size
                                        /\ owner[list.slots[i]] = "list"
      /\ \A i, j \in 0 .. list.arrsize - 1 :
             list.slots[i] = list.slots[j] /\ list.slots[i] # Nothing => i = j
      /\ \A y \in Items : owner[y] = "list" => \E i \in 0 .. list.arrsize - 1 : list.slots[i] = y
  BY SlotsLemma
<1>2. /\ IsListOf(list', Items) /\ list'.arrsize = list.arrsize
      /\ list'.size = IF p = list.size - 1 THEN p ELSE list.size
      /\ \A i \in 0 .. list.arrsize - 1 :
             list'.slots[i] = IF i = p /\ p < list.size THEN Nothing ELSE list.slots[i]
  BY RemoveLemma DEF Inv, Typed
<1>3. DOMAIN list'.slots = 0 .. list.arrsize - 1 /\ p \in 0 .. list.arrsize - 1
  BY <1>1, <1>2 DEF IsListOf
<1>4. /\ owner' \in [Items -> {"caller", "list", "freed"}]
      /\ \A y \in Items : y # old => owner'[y] = owner[y]
      /\ \A y \in Items : y = old => owner'[y] # "list"
  BY DEF Inv, Typed
<1>5. stayed' = stayed \ {old}
  OBVIOUS
<1> HIDE DEF old
<1>6. Typed'
  BY <1>2, <1>4, <1>5 DEF Inv, Typed
<1>7. \A i \in 0 .. list.arrsize - 1 : i # p => list'.slots[i] = list.slots[i]
  BY <1>2
<1>8. list'.slots[p] = Nothing
  BY <1>2, <1>3
<1>9. ASSUME NEW i \in 0 .. list.arrsize - 1, list'.slots[i] # Nothing
      PROVE  /\ i # p /\ list'.slots[i] = list.slots[i]
             /\ list.slots[i] # old /\ list.slots[i] \in Items
             /\ i < list.size /\ owner[list.slots[i]] = "list"
  BY <1>1, <1>3, <1>7, <1>8, <1>9 DEF old
<1>10. Held'
  <2>1. ASSUME NEW i \in 0 .. list.arrsize - 1, list'.slots[i] # Nothing
        PROVE  i < list'.size /\ owner'[list'.slots[i]] = "list"
    BY <1>1, <1>2, <1>4, <1>9, <2>1
  <2>2. ASSUME NEW y \in Items, owner'[y] = "list"
        PROVE  \E i \in 0 .. list.arrsize - 1 : list'.slots[i] = y
    <3>1. owner[y] = "list" /\ y # old
      BY <1>4, <2>2
    <3>2. PICK i \in 0 .. list.arrsize - 1 : list.slots[i] = y
      BY <1>1, <3>1
    <3>3. list'.slots[i] = y
      BY <1>7, <3>1, <3>2 DEF old
    <3> QED
      BY <3>3
  <2>3. ASSUME NEW i \in 0 .. list.arrsize - 1, NEW j \in 0 .. list.arrsize - 1,
               list'.slots[i] = list'.slots[j], i # j
        PROVE  list'.slots[i] = Nothing
    BY <1>1, <1>9, <2>3
  <2>4. \A i \in DOMAIN list'.slots :
            list'.slots[i] # Nothing => i < list'.size /\ owner'[list'.slots[i]] = "list"
    BY <1>3, <2>1
  <2>5. \A y \in Items : owner'[y] = "list" => \E i \in DOMAIN list'.slots : list'.slots[i] = y
    BY <1>3, <2>2
  <2>6. \A i, j \in DOMAIN list'.slots :
            list'.slots[i] = list'.slots[j] /\ i # j => list'.slots[i] = Nothing
    BY <1>3, <2>3
  <2> QED
    BY <2>4, <2>5, <2>6 DEF Held
<1>11. Ahead'
  <2> SUFFICES ASSUME NEW y \in stayed'
               PROVE  /\ owner'[y] = "list"
                      /\ y \in passed' \/ \E i \in DOMAIN list'.slots : i >= current' /\ list'.slots[i] = y
    BY DEF Ahead
  <2>1. y \in stayed /\ y # old /\ y \in Items /\ owner[y] = "list"
    BY <1>5 DEF Inv, Typed, Ahead
  <2>2. owner'[y] = "list"
    BY <1>4, <2>1
  <2>3. CASE y \in passed
    BY <2>2, <2>3
  <2>4. ASSUME NEW i \in 0 .. list.arrsize - 1, i >= current, list.slots[i] = y
        PROVE  i \in DOMAIN list'.slots /\ i >= current' /\ list'.slots[i] = y
    BY <1>3, <1>7, <2>1, <2>4 DEF old
  <2> QED
    BY <1>1, <2>1, <2>2, <2>3, <2>4 DEF Inv, Ahead
<1> QED
  BY <1>6, <1>10, <1>11 DEF Inv

LEMMA RemoveAtLemma ==
    ASSUME Inv, NEW p \in Nat, RemoveAt(p)
    PROVE  Inv'
<1>1. LetGo \in {"caller", "freed"} /\ p < list.size
  BY LetGoLemma DEF RemoveAt
<1> QED
  BY <1>1, TakeLemma DEF RemoveAt

LEMMA ExtractAtLemma ==
    ASSUME Inv, NEW p \in Nat, ExtractAt(p)
    PROVE  Inv'
BY TakeLemma DEF ExtractAt

LEMMA ClearAllLemma ==
    ASSUME Inv, ClearAll
    PROVE  Inv'
<1>1. /\ Nothing \notin Items
      /\ DOMAIN list.slots = 0 .. list.arrsize - 1
      /\ list.arrsize \in Nat /\ list.size \in Nat /\ list.size <= list.arrsize
      /\ \A i \in 0 .. list.arrsize - 1 :
             list.slots[i] # Nothing => /\ list.slots[i] \in Items /\ i < list.size
                                        /\ owner[list.slots[i]] = "list"
      /\ \A y \in Items : owner[y] = "list" => \E i \in 0 .. list.arrsize - 1 : list.slots[i] = y
  BY SlotsLemma
<1> DEFINE s == [i \in 0 .. list.arrsize - 1 |-> IF i < list.size THEN Nothing ELSE list.slots[i]]
<1>2. list' = [arrsize |-> list.arrsize, size |-> 0, slots |-> s]
  BY DEF ClearAll, Clear, Inv, Typed, IsListOf
<1>3. \A i \in 0 .. list.arrsize - 1 : s[i] = Nothing
  BY <1>1
<1>4. s \in [0 .. list.arrsize - 1 -> Items \cup {Nothing}]
  BY <1>3 DEF IsListOf
<1> HIDE DEF s
<1>5. IsListOf(list', Items) /\ DOMAIN list'.slots = 0 .. list.arrsize - 1
      /\ \A i \in DOMAIN list'.slots : list'.slots[i] = Nothing
  BY <1>1, <1>2, <1>3, <1>4 DEF IsListOf
<1>6. owner' \in [Items -> {"caller", "list", "freed"}]
  BY LetGoLemma DEF ClearAll, Inv, Typed
<1>7. \A y \in Items : owner'[y] # "list"
  <2> SUFFICES ASSUME NEW y \in Items PROVE owner'[y] # "list"
    OBVIOUS
  <2>1. CASE owner[y] = "list"
    <3>1. PICK i \in 0 .. list.arrsize - 1 : list.slots[i] = y
      BY <1>1, <2>1
    <3>2. i \in 0 .. list.size - 1
      BY <1>1, <3>1
    <3>3. owner'[y] = LetGo
      BY <3>1, <3>2 DEF ClearAll
    <3> QED
      BY <3>3, LetGoLemma
  <2>2. CASE owner[y] # "list"
    BY <2>2, LetGoLemma DEF ClearAll
  <2> QED
    BY <2>1, <2>2
<1>8. Typed'
  BY <1>5, <1>6 DEF ClearAll, Inv, Typed
<1>9. Held'
  BY <1>5, <1>7 DEF Held
<1>10. Ahead'
  BY DEF ClearAll, Ahead
<1> QED
  BY <1>8, <1>9, <1>10 DEF Inv

LEMMA IteratorNextLemma ==
    ASSUME Inv, IteratorNext
    PROVE  Inv'
<1>1. /\ DOMAIN list.slots = 0 .. list.arrsize - 1
      /\ list.arrsize \in Nat /\ list.size \in Nat /\ list.size <= list.arrsize
      /\ \A i \in 0 .. list.arrsize - 1 : list.slots[i] # Nothing => list.slots[i] \in Items
  BY SlotsLemma
<1>2. /\ current < list.size /\ current' = current + 1
      /\ passed' = passed \cup ({list.slots[current]} \ {Nothing})
      /\ list' = list /\ frees' = frees /\ owner' = owner /\ stayed' = stayed
      /\ current \in Nat
  BY DEF IteratorNext, Inv, Typed
<1>3. current \in 0 .. list.arrsize - 1
  BY <1>1, <1>2
<1>4. Typed'
  BY <1>1, <1>2, <1>3 DEF Inv, Typed
<1>5. Held'
  BY <1>2 DEF Inv, Held
<1>6. Ahead'
  <2> SUFFICES ASSUME NEW y \in stayed
               PROVE  /\ owner[y] = "list"
                      /\ y \in passed' \/ \E i \in DOMAIN list.slots : i >= current' /\ list.slots[i] = y
    BY <1>2 DEF Ahead
  <2>1. y \in Items /\ owner[y] = "list"
    BY DEF Inv, Typed, Ahead
  <2>2. CASE y \in passed
    BY <1>2, <2>1, <2>2
  <2>3. ASSUME NEW i \in DOMAIN list.slots, i >= current, list.slots[i] = y
        PROVE  y \in passed' \/ i >= current'
    <3>1. CASE i = current
      BY <1>2, <2>1, <2>3, <3>1, OsrfListAssumption
    <3>2. CASE i # current
      BY <1>1, <1>2, <2>3, <3>2
    <3> QED
      BY <3>1, <3>2
  <2> QED
    BY <2>1, <2>2, <2>3 DEF Inv, Ahead
<1> QED
  BY <1>4, <1>5, <1>6 DEF Inv

LEMMA IteratorResetLemma ==
    ASSUME Inv, IteratorReset
    PROVE  Inv'
<1>1. /\ DOMAIN list.slots = 0 .. list.arrsize - 1
      /\ \A x \in Items : owner[x] = "list" => \E i \in 0 .. list.arrsize - 1 : list.slots[i] = x
      /\ list.arrsize \in Nat
  BY SlotsLemma
<1>2. /\ current' = 0 /\ passed' = {} /\ stayed' = {x \in Items : owner[x] = "list"}
      /\ list' = list /\ frees' = frees /\ owner' = owner
  BY DEF IteratorReset
<1>3. Typed'
  BY <1>2 DEF Inv, Typed
<1>4. Held'
  BY <1>2 DEF Inv, Held
<1>5. Ahead'
  BY <1>1, <1>2 DEF Ahead
<1> QED
  BY <1>3, <1>4, <1>5 DEF Inv

\* The list has every item that it was given and did not let go of in one slot, and an
\* iterator that came to the end has returned all that stayed, whatever the number of items
\* and of slots, and whatever was put in and taken out meanwhile.
THEOREM ListHeldAndTraversed == Spec => []HeldAndTraversed
<1>1. Init => Inv
  <2> SUFFICES ASSUME Init PROVE Inv
    OBVIOUS
  <2>1. list = [arrsize |-> DefaultSize, size |-> 0, slots |-> [i \in 0 .. DefaultSize - 1 |-> Nothing]]
        /\ DefaultSize \in Nat
    BY ListAssumption DEF Init, NewList
  <2>2. IsListOf(list, Items) /\ \A i \in DOMAIN list.slots : list.slots[i] = Nothing
    BY <2>1 DEF IsListOf
  <2>3. Typed
    BY <2>2 DEF Init, Typed
  <2>4. Held
    BY <2>2 DEF Init, Held
  <2> QED
    BY <2>3, <2>4 DEF Init, Inv, Ahead
<1>2. Inv /\ [Next]_vars => Inv'
  <2> SUFFICES ASSUME Inv, [Next]_vars PROVE Inv'
    OBVIOUS
  <2>1. Positions \subseteq Nat
    BY DEF Positions
  <2>2. ASSUME NEW x \in Items, NEW p, SetAt(x, p)
        PROVE  Inv'
    BY <2>1, <2>2, SetAtLemma DEF SetAt
  <2>3. ASSUME NEW p \in Positions, RemoveAt(p) \/ ExtractAt(p)
        PROVE  Inv'
    BY <2>1, <2>3, RemoveAtLemma, ExtractAtLemma
  <2>4. CASE Pop
    <3>1. list.size - 1 \in Nat
      BY <2>4 DEF Pop, Inv, Typed, IsListOf
    <3> QED
      BY <2>4, <3>1, RemoveAtLemma DEF Pop
  <2>5. CASE UNCHANGED vars
    BY <2>5 DEF vars, Inv, Typed, Held, Ahead
  <2> QED
    BY <2>2, <2>3, <2>4, <2>5, ClearAllLemma, IteratorNextLemma, IteratorResetLemma
    DEF Next, PushLast, PushFirst
<1>3. Inv => HeldAndTraversed
  <2> SUFFICES ASSUME Inv PROVE Traversed
    BY DEF Inv, HeldAndTraversed
  <2> SUFFICES ASSUME current >= list.size, NEW x \in stayed, x \notin passed PROVE FALSE
    BY DEF Traversed
  <2>1. PICK i \in DOMAIN list.slots : i >= current /\ list.slots[i] = x
    BY DEF Inv, Ahead
  <2>2. x # Nothing /\ i \in Nat /\ current \in Nat /\ list.size \in Nat
    BY OsrfListAssumption, SlotsLemma DEF Inv, Typed
  <2>3. i < list.size
    BY <2>1, <2>2 DEF Inv, Held
  <2> QED
    BY <2>1, <2>2, <2>3
<1> QED
  BY <1>1, <1>2, <1>3, PTL DEF Spec

-----------------------------------------------------------------------------
(* The buffer.                                                             *)

\* The memory is a function, and the string in it ends where n_used says.
BufferInv == Buffer!TypeOK /\ Buffer!Terminated

LEMMA WrittenLemma ==
    ASSUME NEW r \in Nat, NEW b \in [0 .. r - 1 -> Chars \cup {Nul}], NEW s \in Seq(Chars),
           n_used \in Nat, n_used + Len(s) < r,
           \A i \in 0 .. n_used - 1 : b[i] # Nul, Nul \notin Chars
    PROVE  LET w == Buffer!Written(b, r, s)
           IN  /\ w \in [0 .. r - 1 -> Chars \cup {Nul}]
               /\ w[n_used + Len(s)] = Nul
               /\ \A i \in 0 .. n_used + Len(s) - 1 : w[i] # Nul
               /\ \A i \in 0 .. n_used - 1 : w[i] = b[i]
               /\ \A i \in 1 .. Len(s) : w[n_used + i - 1] = s[i]
<1> DEFINE w == Buffer!Written(b, r, s)
<1>1. w = [i \in 0 .. r - 1 |-> IF i \in n_used .. n_used + Len(s) - 1 THEN s[i - n_used + 1]
                                ELSE IF i = n_used + Len(s) THEN Nul ELSE b[i]]
  BY DEF Buffer!Written
<1> HIDE DEF w
<1>2. Len(s) \in Nat /\ \A j \in 1 .. Len(s) : s[j] \in Chars
  OBVIOUS
<1>3. \A i \in 0 .. r - 1 :
          w[i] = IF i \in n_used .. n_used + Len(s) - 1 THEN s[i - n_used + 1]
                 ELSE IF i = n_used + Len(s) THEN Nul ELSE b[i]
  BY <1>1
<1>4. \A i \in n_used .. n_used + Len(s) - 1 : i - n_used + 1 \in 1 .. Len(s)
  BY <1>2
<1>5. \A i \in 0 .. r - 1 : w[i] \in Chars \cup {Nul}
  BY <1>2, <1>3, <1>4
<1>6. w \in [0 .. r - 1 -> Chars \cup {Nul}]
  BY <1>1, <1>5
<1>7. w[n_used + Len(s)] = Nul
  BY <1>2, <1>3
<1>8. ASSUME NEW i \in 0 .. n_used + Len(s) - 1
      PROVE  w[i] # Nul
  <2>1. i \in 0 .. r - 1
    BY <1>2
  <2>2. CASE i \in 0 .. n_used - 1
    BY <2>1, <2>2, <1>2, <1>3
  <2>3. CASE i \in n_used .. n_used + Len(s) - 1
    BY <2>1, <2>3, <1>2, <1>3, <1>4
  <2> QED
    BY <2>2, <2>3, <1>2
<1>9. \A i \in 0 .. n_used - 1 : w[i] = b[i]
  BY <1>2, <1>3
<1>10. ASSUME NEW i \in 1 .. Len(s) PROVE w[n_used + i - 1] = s[i]
  <2>1. /\ n_used + i - 1 \in 0 .. r - 1 /\ n_used + i - 1 \in n_used .. n_used + Len(s) - 1
        /\ (n_used + i - 1) - n_used + 1 = i
    BY <1>2
  <2> QED
    BY <1>3, <2>1
<1> QED
  BY <1>6, <1>7, <1>8, <1>9, <1>10 DEF w

LEMMA ExpandedLemma ==
    ASSUME BufferInv, NEW r \in Nat, n_used < r
    PROVE  /\ Buffer!Expanded(r) \in [0 .. r - 1 -> Chars \cup {Nul}]
           /\ \A i \in 0 .. n_used - 1 : Buffer!Expanded(r)[i] = buf[i] /\ buf[i] # Nul
<1>1. \A i \in 0 .. n_used - 1 : i \in 0 .. room - 1
  BY DEF BufferInv, Buffer!TypeOK, Buffer!Terminated
<1>2. \A i \in 0 .. n_used - 1 : buf[i] \in Chars \cup {Nul}
  BY <1>1 DEF BufferInv, Buffer!TypeOK
<1>3. \A i \in 0 .. r - 1 : i < n_used => i \in 0 .. n_used - 1
  BY DEF BufferInv, Buffer!TypeOK
<1>4. \A i \in 0 .. r - 1 : (IF i < n_used THEN buf[i] ELSE Nul) \in Chars \cup {Nul}
  BY <1>2, <1>3
<1>5. Buffer!Expanded(r) \in [0 .. r - 1 -> Chars \cup {Nul}]
  BY <1>4 DEF Buffer!Expanded
<1>6. \A i \in 0 .. n_used - 1 : i \in 0 .. r - 1 /\ i < n_used
  BY DEF BufferInv, Buffer!TypeOK
<1>7. \A i \in 0 .. n_used - 1 : Buffer!Expanded(r)[i] = buf[i]
  BY <1>6 DEF Buffer!Expanded
<1> QED
  BY <1>5, <1>7 DEF BufferInv, Buffer!Terminated

\* What buffer_add does to the memory, with or without buffer_expand.
LEMMA AddLemma ==
    ASSUME BufferInv, Buffer!BufferAssumption, NEW s \in Seq(Chars), Buffer!Add(s)
    PROVE  /\ BufferInv'
           /\ \/ freed' = TRUE /\ n_used + Len(s) >= MaxSize /\ UNCHANGED <<buf, room, n_used>>
              \/ /\ n_used' = n_used + Len(s) /\ n_used' < MaxSize /\ freed' = freed
                 /\ \A i \in 0 .. n_used - 1 : buf'[i] = buf[i]
                 /\ \A i \in 1 .. Len(s) : buf'[n_used + i - 1] = s[i]
<1> DEFINE total == n_used + Len(s)
<1>0. Len(s) \in Nat /\ n_used \in Nat /\ total \in Nat /\ MaxSize \in Nat /\ Nul \notin Chars
      /\ bufsize \in 1 .. MaxSize /\ bufsize \in Nat /\ room \in Nat /\ bufsize <= room
  BY DEF BufferInv, Buffer!TypeOK, Buffer!BufferAssumption
<1>1. CASE Buffer!Fits(total) /\ buf' = Buffer!Written(buf, room, s) /\ n_used' = total
           /\ UNCHANGED <<room, bufsize, freed>>
  <2>1. total < bufsize /\ total < room
    BY <1>0, <1>1 DEF Buffer!Fits
  <2>2. buf \in [0 .. room - 1 -> Chars \cup {Nul}] /\ \A i \in 0 .. n_used - 1 : buf[i] # Nul
    BY DEF BufferInv, Buffer!TypeOK, Buffer!Terminated
  <2> DEFINE w == Buffer!Written(buf, room, s)
  <2>3. /\ w \in [0 .. room - 1 -> Chars \cup {Nul}]
        /\ w[total] = Nul
        /\ \A i \in 0 .. total - 1 : w[i] # Nul
        /\ \A i \in 0 .. n_used - 1 : w[i] = buf[i]
        /\ \A i \in 1 .. Len(s) : w[n_used + i - 1] = s[i]
    BY <1>0, <2>1, <2>2, WrittenLemma
  <2>4. buf' = w /\ n_used' = total /\ room' = room /\ bufsize' = bufsize /\ freed' = freed
    BY <1>1
  <2>5. total < MaxSize
    BY <1>0, <2>1
  <2> HIDE DEF w
  <2>6. BufferInv'
    BY <1>0, <2>1, <2>3, <2>4 DEF BufferInv, Buffer!TypeOK, Buffer!Terminated
  <2>7. \A i \in 0 .. n_used - 1 : buf'[i] = buf[i]
    BY <2>3, <2>4
  <2>8. \A i \in 1 .. Len(s) : buf'[n_used + i - 1] = s[i]
    BY <2>3, <2>4
  <2> QED
    BY <2>4, <2>5, <2>6, <2>7, <2>8
<1>2. ASSUME ~Buffer!Fits(total), total < MaxSize, NEW g \in Buffer!Grown(total), bufsize' =
               Buffer!Smaller(g, MaxSize),
             room' = bufsize', buf' = Buffer!Written(Buffer!Expanded(bufsize'), bufsize', s), n_used' = total,
             freed' = freed
      PROVE  /\ BufferInv' /\ n_used' < MaxSize
             /\ \A i \in 0 .. n_used - 1 : buf'[i] = buf[i]
             /\ \A i \in 1 .. Len(s) : buf'[n_used + i - 1] = s[i]
  <2>1. bufsize' \in 1 .. MaxSize /\ bufsize' \in Nat /\ total < bufsize' /\ n_used < bufsize'
    BY <1>0, <1>2 DEF Buffer!Grown, Buffer!Smaller
  <2> DEFINE e == Buffer!Expanded(bufsize')
  <2>2. /\ e \in [0 .. bufsize' - 1 -> Chars \cup {Nul}]
        /\ \A i \in 0 .. n_used - 1 : e[i] = buf[i] /\ buf[i] # Nul
    BY <2>1, ExpandedLemma
  <2> HIDE DEF e
  <2> DEFINE r == bufsize'
             w == Buffer!Written(e, r, s)
  <2>3. r \in Nat /\ n_used + Len(s) < r /\ e \in [0 .. r - 1 -> Chars \cup {Nul}]
        /\ \A i \in 0 .. n_used - 1 : e[i] # Nul
    BY <2>1, <2>2
  <2>4. buf' = w /\ n_used' = total /\ room' = r /\ bufsize' = r
    BY <1>2 DEF e
  <2> HIDE DEF r
  <2>5. /\ w \in [0 .. r - 1 -> Chars \cup {Nul}]
        /\ w[total] = Nul
        /\ \A i \in 0 .. total - 1 : w[i] # Nul
        /\ \A i \in 0 .. n_used - 1 : w[i] = e[i]
        /\ \A i \in 1 .. Len(s) : w[n_used + i - 1] = s[i]
    BY <1>0, <2>3, WrittenLemma
  <2> HIDE DEF w
  <2>6. BufferInv'
    BY <1>0, <1>2, <2>1, <2>3, <2>4, <2>5 DEF BufferInv, Buffer!TypeOK, Buffer!Terminated
  <2>7. \A i \in 0 .. n_used - 1 : buf'[i] = buf[i]
    BY <2>2, <2>4, <2>5
  <2>8. \A i \in 1 .. Len(s) : buf'[n_used + i - 1] = s[i]
    BY <2>4, <2>5
  <2> QED
    BY <1>2, <2>7, <2>8, <2>6
<1>3. CASE ~Buffer!Fits(total) /\ total >= MaxSize /\ freed' = TRUE
             /\ UNCHANGED <<buf, room, bufsize, n_used>>
  BY <1>3 DEF BufferInv, Buffer!TypeOK, Buffer!Terminated
<1> QED
  BY <1>1, <1>2, <1>3 DEF Buffer!Add

LEMMA ResetLemma ==
    ASSUME BufferInv, Buffer!BufferAssumption, Buffer!Reset
    PROVE  BufferInv' /\ n_used' = 0
<1>1. bufsize \in 1 .. MaxSize /\ room \in Nat /\ bufsize <= room /\ Fill \in Chars \cup {Nul}
      /\ MaxSize \in Nat
  BY DEF BufferInv, Buffer!TypeOK, Buffer!BufferAssumption
<1>2. \A i \in 0 .. room - 1 :
          (IF i = 0 \/ i = bufsize - 1 THEN Nul ELSE IF i < bufsize THEN Fill ELSE buf[i]) \in Chars \cup {Nul}
  BY <1>1 DEF BufferInv, Buffer!TypeOK
<1>3. buf' \in [0 .. room - 1 -> Chars \cup {Nul}] /\ buf'[0] = Nul
  BY <1>1, <1>2 DEF Buffer!Reset
<1> QED
  BY <1>1, <1>3 DEF Buffer!Reset, BufferInv, Buffer!TypeOK, Buffer!Terminated

LEMMA ChompLemma ==
    ASSUME BufferInv, Buffer!BufferAssumption, Buffer!Chomp
    PROVE  /\ BufferInv' /\ n_used' = n_used - 1
           /\ \A i \in 0 .. n_used - 2 : buf'[i] = buf[i]
<1>1. n_used \in Nat /\ n_used > 0 /\ room \in Nat /\ n_used < room
  BY DEF BufferInv, Buffer!TypeOK, Buffer!Terminated, Buffer!Chomp, Buffer!BufferAssumption
<1>2. buf \in [0 .. room - 1 -> Chars \cup {Nul}] /\ n_used - 1 \in 0 .. room - 1
  BY <1>1 DEF BufferInv, Buffer!TypeOK
<1>3. buf' \in [0 .. room - 1 -> Chars \cup {Nul}] /\ buf'[n_used - 1] = Nul
      /\ \A i \in 0 .. room - 1 : i # n_used - 1 => buf'[i] = buf[i]
  BY <1>2 DEF Buffer!Chomp
<1>4. \A i \in 0 .. n_used - 2 : buf'[i] = buf[i]
  BY <1>1, <1>3
<1>5. \A i \in 0 .. n_used - 2 : buf'[i] # Nul
  BY <1>1, <1>4 DEF BufferInv, Buffer!Terminated
<1> QED
  BY <1>1, <1>3, <1>4, <1>5 DEF Buffer!Chomp, BufferInv, Buffer!TypeOK, Buffer!Terminated

LEMMA BufferInitLemma == Buffer!BufferAssumption /\ Buffer!Init => BufferInv
<1> SUFFICES ASSUME Buffer!BufferAssumption, Buffer!Init PROVE BufferInv
  OBVIOUS
<1>1. bufsize \in 1 .. MaxSize /\ bufsize \in Nat /\ room = bufsize + 1 /\ room - 1 = bufsize
  BY DEF Buffer!BufferAssumption, Buffer!Init
<1>2. buf = [i \in 0 .. room - 1 |-> Nul]
  BY <1>1 DEF Buffer!Init
<1>3. buf \in [0 .. room - 1 -> Chars \cup {Nul}] /\ buf[0] = Nul
  BY <1>1, <1>2
<1>4. n_used = 0 /\ freed = FALSE
  BY DEF Buffer!Init
<1>5. Buffer!TypeOK
  BY <1>1, <1>3, <1>4 DEF Buffer!TypeOK
<1>6. \A i \in 0 .. n_used - 1 : buf[i] # Nul
  BY <1>4
<1>7. Buffer!Terminated
  BY <1>1, <1>3, <1>4, <1>6 DEF Buffer!Terminated
<1> QED
  BY <1>5, <1>7 DEF BufferInv

\* A step of the buffer, with what is added as a string of characters.
LEMMA BufferNextLemma ==
    ASSUME Buffer!BufferAssumption, Buffer!Next
    PROVE  \/ \E s \in Strings \cup {<<c>> : c \in Chars} : s \in Seq(Chars) /\ Buffer!Add(s)
           \/ Buffer!Reset \/ Buffer!Chomp
<1>1. \A s \in Strings : s \in Seq(Chars)
  BY DEF Buffer!BufferAssumption
<1>2. \A c \in Chars : <<c>> \in Seq(Chars)
  OBVIOUS
<1> QED
  BY <1>1, <1>2 DEF Buffer!Next, Buffer!AddChar

\* Whatever is added, cleared and taken off, the string ends inside of the memory, where
\* n_used says: strcpy and memcpy never write behind what buffer_expand allocated.
THEOREM BufferTerminated ==
    ASSUME Buffer!BufferAssumption
    PROVE  Buffer!Spec => [](Buffer!TypeOK /\ Buffer!Terminated)
<1>1. Buffer!Init => BufferInv
  BY BufferInitLemma
<1>2. BufferInv /\ [Buffer!Next]_Buffer!vars => BufferInv'
  <2> SUFFICES ASSUME BufferInv, [Buffer!Next]_Buffer!vars PROVE BufferInv'
    OBVIOUS
  <2>1. CASE Buffer!Next
    BY <2>1, BufferNextLemma, AddLemma, ResetLemma, ChompLemma
  <2>2. CASE UNCHANGED Buffer!vars
    BY <2>2 DEF Buffer!vars, BufferInv, Buffer!TypeOK, Buffer!Terminated
  <2> QED
    BY <2>1, <2>2
<1> QED
  BY <1>1, <1>2, PTL DEF Buffer!Spec, BufferInv

-----------------------------------------------------------------------------
(* The buffer is a text.                                                   *)

\* What C reads in the memory is what n_used counts.
LEMMA CStringLemma ==
    ASSUME BufferInv
    PROVE  /\ Buffer!CString = [i \in 1 .. n_used |-> buf[i - 1]]
           /\ Buffer!CString \in Seq(Chars) /\ Len(Buffer!CString) = n_used
<1> DEFINE P(n) == buf[n] = Nul /\ \A i \in 0 .. n - 1 : buf[i] # Nul
           m == CHOOSE n \in 0 .. room - 1 : P(n)
<1>1. n_used \in 0 .. room - 1 /\ room \in Nat /\ n_used \in Nat
  BY DEF BufferInv, Buffer!TypeOK, Buffer!Terminated
<1>2. P(n_used)
  BY DEF BufferInv, Buffer!Terminated
<1>3. \A n \in 0 .. room - 1 : P(n) => n = n_used
  <2> SUFFICES ASSUME NEW n \in 0 .. room - 1, P(n) PROVE n = n_used
    OBVIOUS
  <2>1. ~(n < n_used)
    BY <1>1, <1>2
  <2>2. ~(n_used < n)
    BY <1>1, <1>2
  <2> QED
    BY <1>1, <2>1, <2>2
<1>4. m \in 0 .. room - 1 /\ P(m)
  <2> HIDE DEF P
  <2> QED
    BY <1>1, <1>2
<1>5. m = n_used
  <2> HIDE DEF P, m
  <2> QED
    BY <1>3, <1>4
<1>6. Buffer!CString = [i \in 1 .. n_used |-> buf[i - 1]]
  BY <1>5 DEF Buffer!CString
<1>7. \A i \in 1 .. n_used : buf[i - 1] \in Chars
  <2>1. \A i \in 1 .. n_used : i - 1 \in 0 .. n_used - 1 /\ i - 1 \in 0 .. room - 1
    BY <1>1
  <2>2. \A j \in 0 .. room - 1 : buf[j] \in Chars \cup {Nul}
    BY DEF BufferInv, Buffer!TypeOK
  <2> QED
    BY <1>2, <2>1, <2>2
<1> QED
  BY <1>1, <1>6, <1>7

\* The same, as a formula of one state and of the next.
LEMMA Read ==
    BufferInv => /\ Buffer!CString = [i \in 1 .. n_used |-> buf[i - 1]]
           /\ Buffer!CString \in Seq(Chars) /\ Len(Buffer!CString) = n_used
BY CStringLemma

LEMMA ReadNext ==
    (BufferInv => /\ Buffer!CString = [i \in 1 .. n_used |-> buf[i - 1]]
            /\ Buffer!CString \in Seq(Chars) /\ Len(Buffer!CString) = n_used)'
BY Read, PTL

LEMMA AddIsText ==
    ASSUME BufferInv, Buffer!BufferAssumption, NEW s \in Strings \cup {<<c>> : c \in Chars},
           s \in Seq(Chars), Buffer!Add(s)
    PROVE  Buffer!IsText!Next
<1>1. BufferInv' /\ ~freed
  BY AddLemma DEF Buffer!Add
<1>2. /\ Buffer!CString = [i \in 1 .. n_used |-> buf[i - 1]]
      /\ Buffer!CString \in Seq(Chars) /\ Len(Buffer!CString) = n_used
  BY Read
<1>3. /\ Buffer!CString' = [i \in 1 .. n_used' |-> buf'[i - 1]]
      /\ Buffer!CString' \in Seq(Chars) /\ Len(Buffer!CString)' = n_used'
  BY <1>1, ReadNext
<1>4. n_used \in Nat /\ Len(s) \in Nat
  BY DEF BufferInv, Buffer!TypeOK
<1>5. CASE freed' = TRUE /\ n_used + Len(s) >= MaxSize /\ UNCHANGED <<buf, room, n_used>>
  <2>1. Buffer!CString' = Buffer!CString
    BY <1>2, <1>3, <1>5
  <2>2. Buffer!IsText!Lose(s)
    BY <1>2, <1>5, <2>1 DEF Buffer!IsText!Lose
  <2> QED
    BY <1>1, <2>2 DEF Buffer!IsText!Next
<1>6. CASE /\ n_used' = n_used + Len(s) /\ n_used' < MaxSize /\ freed' = freed
           /\ \A i \in 0 .. n_used - 1 : buf'[i] = buf[i]
           /\ \A i \in 1 .. Len(s) : buf'[n_used + i - 1] = s[i]
  <2> DEFINE t == Buffer!CString \o s
  <2>1. t \in Seq(Chars) /\ Len(t) = n_used + Len(s)
        /\ \A i \in 1 .. n_used + Len(s) : t[i] = IF i <= n_used THEN Buffer!CString[i] ELSE s[i - n_used]
    BY <1>2, <1>4
  <2> HIDE DEF t
  <2>2. ASSUME NEW i \in 1 .. n_used + Len(s)
        PROVE  buf'[i - 1] = t[i]
    <3>1. CASE i <= n_used
      <4>1. i \in 1 .. n_used /\ i - 1 \in 0 .. n_used - 1
        BY <1>4, <3>1
      <4> QED
        BY <1>2, <1>6, <2>1, <3>1, <4>1
    <3>2. CASE i > n_used
      <4>1. i - n_used \in 1 .. Len(s) /\ n_used + (i - n_used) - 1 = i - 1 /\ ~(i <= n_used)
        BY <1>4, <3>2
      <4>2. buf'[i - 1] = s[i - n_used]
        BY <1>6, <4>1
      <4> QED
        BY <2>1, <4>1, <4>2
    <3> QED
      BY <1>4, <3>1, <3>2
  <2>3. Buffer!CString' = [i \in 1 .. n_used + Len(s) |-> t[i]]
    BY <1>3, <1>6, <2>2
  <2>4. t = [i \in 1 .. n_used + Len(s) |-> t[i]]
    BY <2>1
  <2>5. Buffer!CString' = t
    BY <2>3, <2>4
  <2>6. Buffer!IsText!Extend(s)
    BY <1>2, <1>6, <2>5 DEF Buffer!IsText!Extend, t
  <2> QED
    BY <1>1, <2>6 DEF Buffer!IsText!Next
<1> QED
  BY <1>5, <1>6, AddLemma

LEMMA ResetIsText ==
    ASSUME BufferInv, Buffer!BufferAssumption, Buffer!Reset
    PROVE  Buffer!IsText!Next
<1>1. BufferInv' /\ n_used' = 0 /\ ~freed /\ freed' = freed
  BY ResetLemma DEF Buffer!Reset
<1>2. Buffer!CString' \in Seq(Chars) /\ Len(Buffer!CString)' = 0
  BY <1>1, ReadNext
<1>3. Buffer!CString' = << >>
  BY <1>2
<1> QED
  BY <1>1, <1>3 DEF Buffer!IsText!Next, Buffer!IsText!Clear

LEMMA ChompIsText ==
    ASSUME BufferInv, Buffer!BufferAssumption, Buffer!Chomp
    PROVE  Buffer!IsText!Next
<1>1. BufferInv' /\ n_used' = n_used - 1 /\ ~freed /\ freed' = freed /\ n_used > 0 /\ n_used \in Nat
      /\ \A i \in 0 .. n_used - 2 : buf'[i] = buf[i]
  BY ChompLemma DEF Buffer!Chomp, BufferInv, Buffer!TypeOK
<1>2. /\ Buffer!CString = [i \in 1 .. n_used |-> buf[i - 1]]
      /\ Buffer!CString \in Seq(Chars) /\ Len(Buffer!CString) = n_used
  BY Read
<1>3. Buffer!CString' = [i \in 1 .. n_used - 1 |-> buf'[i - 1]]
  BY <1>1, ReadNext
<1>4. \A i \in 1 .. n_used - 1 : buf'[i - 1] = Buffer!CString[i]
  BY <1>1, <1>2
<1>5. Buffer!CString' = [i \in 1 .. n_used - 1 |-> Buffer!CString[i]]
  BY <1>3, <1>4
<1>6. SubSeq(Buffer!CString, 1, n_used - 1) = [i \in 1 .. n_used - 1 |-> Buffer!CString[i]]
  BY <1>1, <1>2
<1>7. Buffer!CString' = SubSeq(Buffer!CString, 1, Len(Buffer!CString) - 1) /\ Buffer!CString # << >>
  BY <1>1, <1>2, <1>5, <1>6
<1> QED
  BY <1>1, <1>7 DEF Buffer!IsText!Next, Buffer!IsText!Shorten

\* The buffer does what is promised of it: read as C reads it, it is the text that was put
\* together, until it would be longer than BUFFER_MAX_SIZE.
THEOREM BufferIsText ==
    ASSUME Buffer!BufferAssumption
    PROVE  Buffer!Spec => Buffer!TextSpec
<1>1. Buffer!Init => Buffer!IsText!Init
  <2> SUFFICES ASSUME Buffer!Init PROVE Buffer!IsText!Init
    OBVIOUS
  <2>1. n_used = 0 /\ freed = FALSE
    BY DEF Buffer!Init
  <2>2. Buffer!CString \in Seq(Chars) /\ Len(Buffer!CString) = 0
    BY <2>1, BufferInitLemma, Read
  <2>3. Buffer!CString = << >>
    BY <2>2
  <2> QED
    BY <2>1, <2>3 DEF Buffer!IsText!Init
<1>2. BufferInv /\ [Buffer!Next]_Buffer!vars => [Buffer!IsText!Next]_<<Buffer!CString, freed>>
  <2> SUFFICES ASSUME BufferInv, [Buffer!Next]_Buffer!vars
                 PROVE [Buffer!IsText!Next]_<<Buffer!CString, freed>>
    OBVIOUS
  <2>1. CASE Buffer!Next
    <3>1. CASE \E s \in Strings \cup {<<c>> : c \in Chars} : s \in Seq(Chars) /\ Buffer!Add(s)
      <4>1. PICK s \in Strings \cup {<<c>> : c \in Chars} : s \in Seq(Chars) /\ Buffer!Add(s)
        BY <3>1
      <4>2. Buffer!IsText!Next
        BY <4>1, AddIsText
      <4> QED
        BY <4>2
    <3>2. CASE Buffer!Reset
      BY <3>2, ResetIsText
    <3>3. CASE Buffer!Chomp
      BY <3>3, ChompIsText
    <3> QED
      BY <2>1, <3>1, <3>2, <3>3, BufferNextLemma
  <2>2. CASE UNCHANGED Buffer!vars
    <3>1. BufferInv'
      BY <2>2 DEF Buffer!vars, BufferInv, Buffer!TypeOK, Buffer!Terminated
    <3>2. Buffer!CString' = Buffer!CString
      BY <2>2, <3>1, Read, ReadNext DEF Buffer!vars
    <3> QED
      BY <2>2, <3>2 DEF Buffer!vars
  <2> QED
    BY <2>1, <2>2
<1>3. Buffer!Spec => []BufferInv
  BY BufferTerminated, PTL DEF BufferInv
<1> QED
  BY <1>1, <1>2, <1>3, PTL DEF Buffer!Spec, Buffer!TextSpec, Buffer!IsText!Spec

-----------------------------------------------------------------------------
(* The list of the live nodes.                                             *)

\* Some set of numbers is not empty: it has a least one.
LEMMA LeastOf ==
    ASSUME NEW T \in SUBSET Nat, T # {}
    PROVE  \E x \in T : \A y \in T : x <= y
<1> DEFINE R == OpToRel(<, Nat)
<1>1. IsWellFoundedOn(R, Nat)
  BY NatLessThanWellFounded
<1>2. PICK x \in T : \A y \in T : ~ (<<y, x>> \in R)
  <2> HIDE DEF R
  <2> QED
    BY <1>1, WFMin
<1>3. \A y \in T : x <= y
  <2> SUFFICES ASSUME NEW y \in T PROVE x <= y
    OBVIOUS
  <2>1. ~ (y < x)
    BY <1>2 DEF OpToRel
  <2> QED
    BY <2>1
<1> QED
  BY <1>3

LEMMA GreatestOf ==
    ASSUME NEW u \in Nat, NEW T \in SUBSET (0 .. u), T # {}
    PROVE  \E x \in T : \A y \in T : y <= x
<1> DEFINE S == {u - x : x \in T}
<1>1. S \in SUBSET Nat /\ S # {}
  <2>1. \A x \in T : u - x \in Nat
    OBVIOUS
  <2>2. PICK x \in T : TRUE
    OBVIOUS
  <2>3. u - x \in S
    OBVIOUS
  <2> QED
    BY <2>1, <2>3
<1>2. PICK s \in S : \A r \in S : s <= r
  <2> HIDE DEF S
  <2> QED
    BY <1>1, LeastOf
<1>3. PICK x \in T : s = u - x
  BY <1>2
<1>4. ASSUME NEW y \in T PROVE y <= x
  <2>1. u - y \in S
    OBVIOUS
  <2>2. u - x <= u - y
    BY <1>2, <1>3, <2>1
  <2> QED
    BY <2>2
<1> QED
  BY <1>3, <1>4

\* A set that has 0, and with each number below n the next, has all up to n.
LEMMA Climb ==
    ASSUME NEW n \in Nat, NEW G, 0 \in G, \A i \in 0 .. n - 1 : i \in G => i + 1 \in G
    PROVE  0 .. n \subseteq G
<1> SUFFICES ASSUME ~(0 .. n \subseteq G) PROVE FALSE
  OBVIOUS
<1> DEFINE B == (0 .. n) \ G
<1>1. PICK b \in B : \A y \in B : b <= y
  <2>1. B \in SUBSET Nat /\ B # {}
    OBVIOUS
  <2> HIDE DEF B
  <2> QED
    BY <2>1, LeastOf
<1>2. b # 0 /\ b \in Nat /\ b <= n
  OBVIOUS
<1>3. b - 1 \in 0 .. n - 1 /\ b - 1 \notin B
  BY <1>1, <1>2
<1> QED
  BY <1>2, <1>3

\* Node x follows node n in a set of nodes, or is none if no node does; x precedes n.
Follows(L, n, x) ==
    \/ x = Hash!NULL /\ \A m \in L : m <= n
    \/ x \in L /\ x > n /\ \A m \in L : m > n => x <= m
Precedes(L, n, x) ==
    \/ x = Hash!NULL /\ \A m \in L : m >= n
    \/ x \in L /\ x < n /\ \A m \in L : m < n => m <= x

LEMMA AfterFollows ==
    ASSUME used \in Nat, NEW n \in Nat, NEW x
    PROVE  (x = Hash!After(n)) <=> Follows(Hash!Live, n, x)
<1> DEFINE later == {m \in Hash!Live : m > n}
<1>1. later \in SUBSET Nat /\ Hash!Live \subseteq 1 .. used
  BY DEF Hash!Live
<1>2. CASE later = {}
  <2>1. Hash!After(n) = Hash!NULL /\ \A m \in Hash!Live : ~(m > n)
    BY <1>2 DEF Hash!After
  <2>2. \A m \in Hash!Live : m <= n
    BY <1>1, <2>1
  <2> QED
    BY <1>1, <2>1, <2>2 DEF Follows, Hash!NULL
<1>3. CASE later # {}
  <2>1. \E l \in later : \A o \in later : l <= o
    <3> HIDE DEF later
    <3> QED
      BY <1>1, <1>3, LeastOf
  <2> DEFINE a == CHOOSE l \in later : \A o \in later : l <= o
  <2>2. Hash!After(n) = a
    BY <1>3 DEF Hash!After
  <2>3. a \in later /\ \A o \in later : a <= o
    BY <2>1
  <2> HIDE DEF a
  <2>4. ~ \A m \in Hash!Live : m <= n
    BY <1>1, <2>3
  <2>5. Follows(Hash!Live, n, a)
    BY <1>1, <2>3 DEF Follows
  <2>6. ASSUME Follows(Hash!Live, n, x) PROVE x = a
    <3>1. x \in Hash!Live /\ x > n /\ \A m \in Hash!Live : m > n => x <= m
      BY <2>4, <2>6 DEF Follows
    <3>2. x <= a /\ a <= x
      BY <1>1, <2>3, <3>1
    <3> QED
      BY <1>1, <2>3, <3>1, <3>2
  <2> QED
    BY <2>2, <2>5, <2>6
<1> QED
  BY <1>2, <1>3

LEMMA BeforePrecedes ==
    ASSUME used \in Nat, NEW n \in Nat, NEW x
    PROVE  (x = Hash!Before(n)) <=> Precedes(Hash!Live, n, x)
<1> DEFINE earlier == {m \in Hash!Live : m < n}
<1>1. earlier \in SUBSET (0 .. used) /\ Hash!Live \subseteq 1 .. used
  BY DEF Hash!Live
<1>2. CASE earlier = {}
  <2>1. Hash!Before(n) = Hash!NULL /\ \A m \in Hash!Live : ~(m < n)
    BY <1>2 DEF Hash!Before
  <2>2. \A m \in Hash!Live : m >= n
    BY <1>1, <2>1
  <2> QED
    BY <1>1, <2>1, <2>2 DEF Precedes, Hash!NULL
<1>3. CASE earlier # {}
  <2>1. \E l \in earlier : \A o \in earlier : o <= l
    <3> HIDE DEF earlier
    <3> QED
      BY <1>1, <1>3, GreatestOf
  <2> DEFINE a == CHOOSE l \in earlier : \A o \in earlier : l >= o
  <2>2. Hash!Before(n) = a
    BY <1>3 DEF Hash!Before
  <2>3. a \in earlier /\ \A o \in earlier : a >= o
    <3>1. \E l \in earlier : \A o \in earlier : l >= o
      BY <1>1, <2>1
    <3> QED
      BY <3>1
  <2> HIDE DEF a
  <2>4. ~ \A m \in Hash!Live : m >= n
    BY <1>1, <2>3
  <2>5. Precedes(Hash!Live, n, a)
    BY <1>1, <2>3 DEF Precedes
  <2>6. ASSUME Precedes(Hash!Live, n, x) PROVE x = a
    <3>1. x \in Hash!Live /\ x < n /\ \A m \in Hash!Live : m < n => m <= x
      BY <2>4, <2>6 DEF Precedes
    <3>2. x <= a /\ a <= x
      BY <1>1, <2>3, <3>1
    <3> QED
      BY <1>1, <2>3, <3>1, <3>2
  <2> QED
    BY <2>2, <2>5, <2>6
<1> QED
  BY <1>2, <1>3

-----------------------------------------------------------------------------
(* The invariant.                                                          *)

\* The pointers of a node lead to nodes: next of every node that is or was listed leads
\* on, with no live node between.
NextInv ==
    \A n \in Hash!Addrs :
        /\ next[n] \in 0 .. used
        /\ n > used => next[n] = Hash!NULL /\ prev[n] = Hash!NULL
        /\ next[n] # Hash!NULL => next[n] > n /\ \A m \in Hash!Live : ~(n < m /\ m < next[n])
ListInv ==
    /\ Follows(Hash!Live, 0, first) /\ Precedes(Hash!Live, used + 1, last)
    /\ \A n \in Hash!Live : Follows(Hash!Live, n, next[n]) /\ Precedes(Hash!Live, n, prev[n])
    /\ size = Cardinality(Hash!Live)

\* Each live node is in the bucket of its key, which no other has.
BucketInv ==
    /\ \A s \in Slots : \A i \in DOMAIN bucket[s] : bucket[s][i] \in 1 .. used
    /\ \A n \in Hash!Live : \E i \in DOMAIN bucket[SlotOf[key[n]]] : bucket[SlotOf[key[n]]][i] = n
    /\ \A m, n \in Hash!Live : key[m] = key[n] => m = n

\* What was removed since the iterator came to an entry, each with the last node there was
\* then.
Removed == {g[1] : g \in gone}
GoneInv ==
    /\ curr \in 0 .. used
    /\ \A g \in gone : g[1] \in (1 .. used) \ Hash!Live /\ g[2] \in 1 .. used
    /\ \A n \in Removed : next[n] # Hash!NULL /\ next[n] \notin Hash!Live => next[n] \in Removed
    /\ curr # Hash!NULL /\ curr \notin Hash!Live => curr \in Removed
    /\ \A g \in gone : next[g[1]] = Hash!NULL => \A m \in Hash!Live : m > g[1] => m > g[2]

HashInv == Hash!TypeOK /\ NextInv /\ ListInv /\ BucketInv /\ GoneInv

\* The live node with a key, or none.
IsNodeOf(k, n) ==
    \/ n \in Hash!Live /\ key[n] = k
    \/ n = Hash!NULL /\ \A m \in Hash!Live : key[m] # k

LEMMA InBucketIs ==
    ASSUME Hash!HashAssumption, Hash!TypeOK, BucketInv, NEW k \in Keys
    PROVE  IsNodeOf(k, Hash!InBucket(k))
<1> DEFINE b == bucket[SlotOf[k]]
           hits == {i \in DOMAIN b : key[b[i]] = k}
<1>1. SlotOf[k] \in Slots /\ b \in Seq(Hash!Addrs) /\ DOMAIN b = 1 .. Len(b) /\ Len(b) \in Nat
  BY DEF Hash!HashAssumption, Hash!TypeOK
<1>2. \A i \in DOMAIN b : b[i] \in 1 .. used
  BY <1>1 DEF BucketInv
<1>3. k # NoKey
  BY DEF Hash!HashAssumption
<1>4. CASE hits = {}
  <2>1. Hash!InBucket(k) = Hash!NULL
    BY <1>4 DEF Hash!InBucket
  <2>2. ASSUME NEW m \in Hash!Live, key[m] = k PROVE FALSE
    <3>1. PICK i \in DOMAIN b : b[i] = m
      BY <2>2 DEF BucketInv
    <3> QED
      BY <1>4, <2>2, <3>1
  <2> QED
    BY <2>1, <2>2 DEF IsNodeOf
<1>5. CASE hits # {}
  <2>1. hits \in SUBSET Nat
    BY <1>1
  <2>2. \E i \in hits : \A j \in hits : i <= j
    <3> HIDE DEF hits
    <3> QED
      BY <1>5, <2>1, LeastOf
  <2> DEFINE i == CHOOSE i \in hits : \A j \in hits : i <= j
  <2>3. i \in hits
    BY <2>2
  <2>4. Hash!InBucket(k) = b[i]
    BY <1>5 DEF Hash!InBucket
  <2> HIDE DEF i
  <2>5. b[i] \in Hash!Live /\ key[b[i]] = k
    BY <1>2, <1>3, <2>3 DEF Hash!Live
  <2> QED
    BY <2>4, <2>5 DEF IsNodeOf
<1> QED
  BY <1>4, <1>5

\* What a walk along the list returns for each node it may begin at.
Walk(k, f) == f = [n \in 0 .. MaxNodes |-> IF n = Hash!NULL \/ key[n] = k THEN n ELSE f[next[n]]]

\* There is a function that is defined along the pointers, because next leads on.
LEMMA AlongExists ==
    ASSUME Hash!HashAssumption, Hash!TypeOK, NextInv, NEW S, NEW e \in S, NEW h \in [Hash!Addrs -> [S -> S]]
    PROVE  \E f \in [0 .. MaxNodes -> S] :
               f[0] = e /\ \A n \in 1 .. MaxNodes : f[n] = h[n][f[next[n]]]
<1> DEFINE Good(m, f) == /\ f \in [0 .. MaxNodes -> S] /\ f[0] = e
                         /\ \A n \in 1 .. MaxNodes : n > MaxNodes - m => f[n] = h[n][f[next[n]]]
           G == {m \in 0 .. MaxNodes : \E f : Good(m, f)}
<1>1. MaxNodes \in Nat
  BY DEF Hash!HashAssumption
<1>2. 0 \in G
  <2> DEFINE f == [n \in 0 .. MaxNodes |-> e]
  <2>1. Good(0, f)
    BY <1>1
  <2> QED
    BY <1>1, <2>1
<1>3. ASSUME NEW m \in 0 .. MaxNodes - 1, m \in G PROVE m + 1 \in G
  <2>1. PICK f : Good(m, f)
    BY <1>3
  <2> DEFINE p == MaxNodes - m
             g == [f EXCEPT ![p] = h[p][f[next[p]]]]
  <2>2. p \in 1 .. MaxNodes /\ p \in Hash!Addrs
    BY <1>1 DEF Hash!Addrs
  <2>3. \A n \in 1 .. MaxNodes : /\ next[n] \in 0 .. MaxNodes
                                 /\ next[n] # 0 => next[n] > n
    BY <1>1 DEF NextInv, Hash!TypeOK, Hash!Addrs, Hash!NULL
  <2>4. g \in [0 .. MaxNodes -> S]
    BY <1>1, <2>1, <2>2, <2>3
  <2>5. g[0] = e /\ g[p] = h[p][f[next[p]]]
    BY <1>1, <2>1, <2>2
  <2>6. \A n \in 0 .. MaxNodes : n # p => g[n] = f[n]
    BY <1>1, <2>1, <2>2
  <2>7. ASSUME NEW n \in 1 .. MaxNodes, n > MaxNodes - (m + 1)
        PROVE  g[n] = h[n][g[next[n]]]
    <3>1. next[n] \in 0 .. MaxNodes /\ next[n] # p
      BY <1>1, <2>2, <2>3, <2>7
    <3>2. g[next[n]] = f[next[n]]
      BY <2>6, <3>1
    <3>3. CASE n = p
      BY <2>5, <3>2, <3>3
    <3>4. CASE n # p
      <4>1. n > MaxNodes - m
        BY <1>1, <2>7, <3>4
      <4> QED
        BY <2>1, <2>6, <3>2, <3>4, <4>1
    <3> QED
      BY <3>3, <3>4
  <2>8. Good(m + 1, g)
    BY <2>4, <2>5, <2>7
  <2>9. m + 1 \in 0 .. MaxNodes
    BY <1>1
  <2> HIDE DEF Good
  <2>10. \E x : Good(m + 1, x)
    BY <2>8
  <2> QED
    BY <2>9, <2>10
<1>4. MaxNodes \in G
  <2> HIDE DEF G
  <2>1. 0 .. MaxNodes \subseteq G
    BY <1>1, <1>2, <1>3, Climb
  <2> QED
    BY <1>1, <2>1
<1>5. PICK f : Good(MaxNodes, f)
  BY <1>4
<1>6. \A n \in 1 .. MaxNodes : n > MaxNodes - MaxNodes
  BY <1>1
<1> QED
  BY <1>5, <1>6

LEMMA WalkExists ==
    ASSUME Hash!HashAssumption, Hash!TypeOK, NextInv, NEW k
    PROVE  \E f : Walk(k, f)
<1> DEFINE S == 0 .. MaxNodes
           h == [n \in Hash!Addrs |-> [v \in S |-> IF key[n] = k THEN n ELSE v]]
<1>1. MaxNodes \in Nat /\ Hash!Addrs = 1 .. MaxNodes /\ Hash!NULL = 0
  BY DEF Hash!HashAssumption, Hash!Addrs, Hash!NULL
<1>2. 0 \in S /\ h \in [Hash!Addrs -> [S -> S]]
  BY <1>1
<1>3. PICK f \in [0 .. MaxNodes -> S] : f[0] = 0 /\ \A n \in 1 .. MaxNodes : f[n] = h[n][f[next[n]]]
  <2> HIDE DEF h, S
  <2> QED
    BY <1>2, AlongExists
<1>4. \A n \in 1 .. MaxNodes : next[n] \in 0 .. MaxNodes
  BY <1>1 DEF Hash!TypeOK
<1>5. \A n \in 1 .. MaxNodes : f[n] = IF key[n] = k THEN n ELSE f[next[n]]
  BY <1>1, <1>3, <1>4
<1>6. \A n \in 0 .. MaxNodes : f[n] = IF n = Hash!NULL \/ key[n] = k THEN n ELSE f[next[n]]
  <2> SUFFICES ASSUME NEW n \in 0 .. MaxNodes
               PROVE  f[n] = IF n = Hash!NULL \/ key[n] = k THEN n ELSE f[next[n]]
    OBVIOUS
  <2>1. n = 0 \/ n \in 1 .. MaxNodes
    BY <1>1
  <2> QED
    BY <1>1, <1>3, <1>5, <2>1
<1>7. Walk(k, f)
  BY <1>6 DEF Walk
<1> QED
  BY <1>7

\* A walk finds the node, from every live node that is not behind it.
LEMMA WalkFinds ==
    ASSUME Hash!HashAssumption, Hash!TypeOK, NextInv, ListInv, BucketInv, NEW k \in Keys, NEW f, Walk(k, f),
           NEW h, IsNodeOf(k, h), NEW n \in Hash!Live \cup {Hash!NULL}, n = Hash!NULL => h = Hash!NULL,
           h # Hash!NULL => n <= h
    PROVE  f[n] = h
<1> DEFINE Right(m) == (h # Hash!NULL => m <= h) => f[m] = h
           G == {d \in 0 .. MaxNodes : \A m \in Hash!Live : m >= MaxNodes - d => Right(m)}
<1>1. /\ MaxNodes \in Nat /\ used \in 0 .. MaxNodes /\ Hash!Live \subseteq 1 .. MaxNodes
      /\ \A m \in Hash!Live : m \in Hash!Addrs /\ m # Hash!NULL
  BY DEF Hash!HashAssumption, Hash!TypeOK, Hash!Live, Hash!Addrs, Hash!NULL
<1>2. f[Hash!NULL] = Hash!NULL
  BY <1>1 DEF Walk, Hash!NULL
<1>3. ASSUME NEW m \in Hash!Live, h # Hash!NULL => m <= h,
             \A l \in Hash!Live : l > m => Right(l)
      PROVE  f[m] = h
  <2>1. f[m] = IF key[m] = k THEN m ELSE f[next[m]]
    BY <1>1 DEF Walk
  <2>2. CASE key[m] = k
    BY <2>1, <2>2 DEF IsNodeOf, BucketInv
  <2>3. CASE key[m] # k
    <3>1. Follows(Hash!Live, m, next[m])
      BY DEF ListInv
    <3>2. h = Hash!NULL \/ (h \in Hash!Live /\ m < h)
      <4>1. h = Hash!NULL \/ (h \in Hash!Live /\ key[h] = k)
        BY DEF IsNodeOf
      <4>2. h # Hash!NULL => m <= h /\ m # h /\ h \in Int /\ m \in Int
        <5>1. CASE h # Hash!NULL
          <6>1. h \in Hash!Live /\ key[h] = k /\ m <= h
            BY <1>3, <4>1, <5>1
          <6>2. h \in Int /\ m \in Int /\ m # h
            BY <1>1, <2>3, <6>1
          <6> QED
            BY <6>1, <6>2
        <5> QED
          BY <5>1
      <4> QED
        BY <4>1, <4>2
    <3>3. CASE next[m] = Hash!NULL
      <4>1. \A l \in Hash!Live : l <= m
        BY <1>1, <3>1, <3>3 DEF Follows
      <4>2. h = Hash!NULL
        <5>1. ASSUME h \in Hash!Live, m < h PROVE FALSE
          <6>1. h <= m /\ h \in Int /\ m \in Int
            BY <1>1, <4>1, <5>1
          <6> QED
            BY <5>1, <6>1
        <5> QED
          BY <3>2, <5>1
      <4> QED
        BY <1>2, <2>1, <2>3, <3>3, <4>2
    <3>4. CASE next[m] # Hash!NULL
      <4>1. next[m] \in Hash!Live /\ next[m] > m /\ (h # Hash!NULL => next[m] <= h)
        BY <3>1, <3>2, <3>4 DEF Follows
      <4> QED
        BY <1>3, <2>1, <2>3, <4>1
    <3> QED
      BY <3>3, <3>4
  <2> QED
    BY <2>2, <2>3
<1>4. 0 \in G
  <2>1. ASSUME NEW m \in Hash!Live, m >= MaxNodes PROVE Right(m)
    <3>1. \A l \in Hash!Live : ~(l > m)
      BY <1>1, <2>1
    <3> QED
      BY <1>3, <3>1
  <2> QED
    BY <1>1, <2>1
<1>5. ASSUME NEW d \in 0 .. MaxNodes - 1, d \in G PROVE d + 1 \in G
  <2>1. ASSUME NEW m \in Hash!Live, m >= MaxNodes - (d + 1) PROVE Right(m)
    <3>1. \A l \in Hash!Live : l > m => l >= MaxNodes - d
      BY <1>1, <2>1
    <3>2. \A l \in Hash!Live : l > m => Right(l)
      BY <1>5, <3>1
    <3> QED
      BY <1>3, <3>2
  <2> QED
    BY <1>1, <2>1
<1>6. MaxNodes \in G
  <2> HIDE DEF G
  <2>1. 0 .. MaxNodes \subseteq G
    BY <1>1, <1>4, <1>5, Climb
  <2> QED
    BY <1>1, <2>1
<1>7. CASE n = Hash!NULL
  BY <1>2, <1>7
<1>8. CASE n \in Hash!Live
  <2>1. n >= MaxNodes - MaxNodes
    BY <1>1, <1>8
  <2>2. Right(n)
    BY <1>6, <1>8, <2>1
  <2> QED
    BY <2>2
<1> QED
  BY <1>7, <1>8

LEMMA AlongListIs ==
    ASSUME Hash!HashAssumption, Hash!TypeOK, NextInv, ListInv, BucketInv, NEW k \in Keys
    PROVE  IsNodeOf(k, Hash!AlongList(k))
<1> DEFINE f == CHOOSE g : Walk(k, g)
<1>1. Walk(k, f)
  BY WalkExists
<1>2. Hash!AlongList(k) = f[first]
  BY DEF Hash!AlongList, Walk
<1> HIDE DEF f
<1>3. PICK h : IsNodeOf(k, h)
  BY DEF IsNodeOf
<1>4. Follows(Hash!Live, 0, first) /\ Hash!Live \subseteq 1 .. used /\ used \in Nat
  BY DEF ListInv, Hash!Live, Hash!TypeOK
<1>5. CASE first = Hash!NULL
  <2>1. \A m \in Hash!Live : m <= 0
    BY <1>4, <1>5 DEF Follows, Hash!NULL
  <2>2. Hash!Live = {}
    BY <1>4, <2>1
  <2>3. h = Hash!NULL
    BY <1>3, <2>2 DEF IsNodeOf
  <2>4. f[first] = h
    BY <1>1, <1>3, <1>5, <2>3, WalkFinds
  <2> QED
    BY <1>2, <1>3, <2>4
<1>6. CASE first # Hash!NULL
  <2>1. first \in Hash!Live /\ \A m \in Hash!Live : m > 0 => first <= m
    BY <1>4, <1>6 DEF Follows
  <2>2. h # Hash!NULL => first <= h
    <3>1. h # Hash!NULL => h \in Hash!Live
      BY <1>3 DEF IsNodeOf
    <3>2. \A m \in Hash!Live : m > 0
      BY <1>4
    <3> QED
      BY <2>1, <3>1, <3>2
  <2>3. f[first] = h
    BY <1>1, <1>3, <1>6, <2>1, <2>2, WalkFinds
  <2> QED
    BY <1>2, <1>3, <2>3
<1> QED
  BY <1>5, <1>6

\* Both ways of searching find the live node with the key.
LEMMA Searches ==
    ASSUME Hash!HashAssumption, Hash!TypeOK, NextInv, ListInv, BucketInv, NEW k \in Keys
    PROVE  /\ IsNodeOf(k, Hash!FindWithBucket(k)) /\ IsNodeOf(k, Hash!Find(k))
           /\ Hash!AlongList(k) = Hash!InBucket(k)
<1>1. IsNodeOf(k, Hash!InBucket(k)) /\ IsNodeOf(k, Hash!AlongList(k))
  BY InBucketIs, AlongListIs
<1>2. \A m, n : IsNodeOf(k, m) /\ IsNodeOf(k, n) => m = n
  BY DEF IsNodeOf, BucketInv
<1> QED
  BY <1>1, <1>2 DEF Hash!Find, Hash!FindWithBucket

-----------------------------------------------------------------------------
(* The operations.                                                         *)

LEMMA Basics ==
    ASSUME Hash!HashAssumption, HashInv
    PROVE  /\ MaxNodes \in Nat /\ used \in 0 .. MaxNodes /\ used \in Nat /\ Hash!NULL = 0
           /\ Hash!Live \subseteq 1 .. used /\ Hash!Live \subseteq Hash!Addrs
                /\ \A m \in Hash!Live : m \in Nat /\ m > 0
           /\ Hash!Addrs = 1 .. MaxNodes /\ IsFiniteSet(Hash!Live)
           /\ first \in 0 .. used /\ last \in 0 .. used
           /\ (first = Hash!NULL <=> Hash!Live = {}) /\ (last = Hash!NULL <=> Hash!Live = {})
           /\ (first # Hash!NULL => first \in Hash!Live) /\ (last # Hash!NULL => last \in Hash!Live)
           /\ \A m \in Hash!Live : key[m] \in Keys
<1>1. /\ MaxNodes \in Nat /\ used \in 0 .. MaxNodes /\ used \in Nat /\ Hash!NULL = 0
      /\ Hash!Addrs = 1 .. MaxNodes
  BY DEF Hash!HashAssumption, HashInv, Hash!TypeOK, Hash!NULL, Hash!Addrs
<1>2. Hash!Live \subseteq 1 .. used
  BY DEF Hash!Live
<1>3. Hash!Live \subseteq Hash!Addrs /\ \A m \in Hash!Live : m \in Nat /\ m > 0
  BY <1>1, <1>2
<1>4. IsFiniteSet(Hash!Live)
  <2>1. IsFiniteSet(1 .. used)
    BY <1>1, FS_Interval
  <2> QED
    BY <1>2, <2>1, FS_Subset
<1>5. Follows(Hash!Live, 0, first) /\ Precedes(Hash!Live, used + 1, last)
  BY DEF HashInv, ListInv
<1>6. first # Hash!NULL => first \in Hash!Live
  BY <1>5 DEF Follows
<1>7. last # Hash!NULL => last \in Hash!Live
  BY <1>5 DEF Precedes
<1>8. first = Hash!NULL <=> Hash!Live = {}
  <2>1. first = Hash!NULL => \A m \in Hash!Live : m <= 0
    BY <1>1, <1>3, <1>5 DEF Follows
  <2> QED
    BY <1>3, <1>6, <2>1
<1>9. last = Hash!NULL <=> Hash!Live = {}
  <2>1. last = Hash!NULL => \A m \in Hash!Live : m >= used + 1
    BY <1>1, <1>3, <1>5 DEF Precedes
  <2>2. \A m \in Hash!Live : ~(m >= used + 1)
    BY <1>1, <1>2
  <2> QED
    BY <1>7, <2>1, <2>2
<1>10. \A m \in Hash!Live : key[m] \in Keys
  BY <1>3 DEF Hash!Live, HashInv, Hash!TypeOK
<1>11. first \in 0 .. used /\ last \in 0 .. used
  <2>1. 0 \in 0 .. used /\ 1 .. used \subseteq 0 .. used
    BY <1>1
  <2>2. first = 0 \/ first \in 1 .. used
    BY <1>1, <1>2, <1>6
  <2>3. last = 0 \/ last \in 1 .. used
    BY <1>1, <1>2, <1>7
  <2> QED
    BY <2>1, <2>2, <2>3
<1> QED
  BY <1>1, <1>2, <1>3, <1>4, <1>6, <1>7, <1>8, <1>9, <1>10, <1>11

\* The count is one of the nodes there are.
LEMMA CountTyped ==
    ASSUME NEW u \in Nat, NEW L \in SUBSET (1 .. u)
    PROVE  Cardinality(L) \in 0 .. u /\ IsFiniteSet(L)
<1>1. IsFiniteSet(1 .. u) /\ Cardinality(1 .. u) = u
  BY FS_Interval
<1>2. IsFiniteSet(L) /\ Cardinality(L) <= u
  BY <1>1, FS_Subset
<1>3. Cardinality(L) \in Nat
  BY <1>2, FS_CardinalityType
<1> QED
  BY <1>2, <1>3

LEMMA UpdateStep ==
    ASSUME Hash!HashAssumption, HashInv, NEW k \in Keys, NEW x \in Values, Hash!Update(k, x)
    PROVE  HashInv'
<1>1. /\ UNCHANGED <<used, key, prev, next, bucket, first, last, size, curr, gone>>
      /\ item' = [item EXCEPT ![Hash!FindWithBucket(k)] = x]
  BY DEF Hash!Update
<1>2. Hash!TypeOK'
  BY <1>1 DEF HashInv, Hash!TypeOK
<1>3. Hash!Live' = Hash!Live
  BY <1>1 DEF Hash!Live
<1>4. NextInv' /\ ListInv'
  BY <1>1, <1>3 DEF HashInv, NextInv, ListInv
<1>5. BucketInv' /\ GoneInv'
  BY <1>1, <1>3 DEF HashInv, BucketInv, GoneInv, Removed
<1> QED
  BY <1>2, <1>4, <1>5 DEF HashInv

\* A node is added behind the last.
LEMMA AddStep ==
    ASSUME Hash!HashAssumption, HashInv, NEW k \in Keys, NEW x \in Values, Hash!Add(k, x)
    PROVE  HashInv'
<1> DEFINE n == used + 1
<1>1. /\ Hash!FindWithBucket(k) = Hash!NULL /\ n \in Hash!Addrs
      /\ used' = n /\ size' = size + 1
      /\ key' = [key EXCEPT ![n] = k] /\ item' = [item EXCEPT ![n] = x]
      /\ bucket' = [bucket EXCEPT ![SlotOf[k]] = Append(@, n)]
      /\ first' = IF first = Hash!NULL THEN n ELSE first
      /\ last' = n
      /\ IF first = Hash!NULL
         THEN UNCHANGED <<prev, next>>
         ELSE /\ prev' = [prev EXCEPT ![n] = last]
              /\ next' = [next EXCEPT ![last] = n]
      /\ curr' = curr /\ gone' = gone
  BY DEF Hash!Add
<1>2. /\ MaxNodes \in Nat /\ used \in 0 .. MaxNodes /\ used \in Nat /\ Hash!NULL = 0
      /\ Hash!Live \subseteq 1 .. used /\ Hash!Live \subseteq Hash!Addrs
           /\ \A m \in Hash!Live : m \in Nat /\ m > 0
      /\ Hash!Addrs = 1 .. MaxNodes /\ IsFiniteSet(Hash!Live)
      /\ first \in 0 .. used /\ last \in 0 .. used
      /\ (first = Hash!NULL <=> Hash!Live = {}) /\ (last = Hash!NULL <=> Hash!Live = {})
      /\ (first # Hash!NULL => first \in Hash!Live) /\ (last # Hash!NULL => last \in Hash!Live)
      /\ \A m \in Hash!Live : key[m] \in Keys
  BY Basics
<1>3. Hash!TypeOK /\ NextInv /\ ListInv /\ BucketInv /\ GoneInv
  BY DEF HashInv
<1>4. k # NoKey /\ SlotOf[k] \in Slots /\ \A m \in Hash!Live : key[m] # k
  <2>1. IsNodeOf(k, Hash!NULL)
    BY <1>1, <1>3, Searches
  <2> QED
    BY <1>2, <2>1 DEF IsNodeOf, Hash!HashAssumption
<1>5. Hash!Live' = Hash!Live \cup {n} /\ n \notin Hash!Live /\ \A m \in Hash!Live : m < n
  <2>1. key \in [Hash!Addrs -> Keys \cup {NoKey}]
    BY <1>3 DEF Hash!TypeOK
  <2>2. \A m \in Hash!Addrs : key'[m] = IF m = n THEN k ELSE key[m]
    BY <1>1, <2>1
  <2> QED
    BY <1>1, <1>2, <1>4, <2>2 DEF Hash!Live
<1>6. \A m \in Hash!Addrs : next'[m] = IF Hash!Live # {} /\ m = last THEN n ELSE next[m]
  BY <1>1, <1>2, <1>3 DEF Hash!TypeOK
<1>7. \A m \in Hash!Addrs : prev'[m] = IF Hash!Live # {} /\ m = n THEN last ELSE prev[m]
  BY <1>1, <1>2, <1>3 DEF Hash!TypeOK
<1>8. Hash!Live # {} => last \in Hash!Live /\ \A m \in Hash!Live : m <= last
  <2>1. Precedes(Hash!Live, used + 1, last)
    BY <1>3 DEF ListInv
  <2>2. \A m \in Hash!Live : m < used + 1
    BY <1>2
  <2> QED
    BY <1>2, <2>1, <2>2 DEF Precedes
<1>9. next[n] = Hash!NULL /\ prev[n] = Hash!NULL /\ n > used
  BY <1>1, <1>2, <1>3 DEF NextInv
<1>10. NextInv'
  <2> SUFFICES ASSUME NEW m \in Hash!Addrs
               PROVE  /\ next'[m] \in 0 .. n
                      /\ m > n => next'[m] = Hash!NULL /\ prev'[m] = Hash!NULL
                      /\ next'[m] # Hash!NULL => next'[m] > m
                           /\ \A l \in Hash!Live' : ~(m < l /\ l < next'[m])
    BY <1>1 DEF NextInv
  <2>1. /\ next[m] \in 0 .. used
        /\ m > used => next[m] = Hash!NULL /\ prev[m] = Hash!NULL
        /\ next[m] # Hash!NULL => next[m] > m /\ \A l \in Hash!Live : ~(m < l /\ l < next[m])
    BY <1>3 DEF NextInv
  <2>2. CASE Hash!Live # {} /\ m = last
    <3>1. next'[m] = n /\ m <= used /\ m \in Nat
      BY <1>2, <1>6, <2>2
    <3>2. \A l \in Hash!Live' : ~(m < l /\ l < n)
      BY <1>2, <1>5, <1>8, <2>2
    <3> QED
      BY <1>2, <3>1, <3>2
  <2>3. CASE ~(Hash!Live # {} /\ m = last)
    <3>1. next'[m] = next[m] /\ m \in Nat
      BY <1>2, <1>6, <2>3
    <3>2. m > n => prev'[m] = Hash!NULL /\ next'[m] = Hash!NULL
      BY <1>2, <1>7, <2>1, <3>1
    <3>3. next[m] # Hash!NULL => \A l \in Hash!Live' : ~(m < l /\ l < next[m])
      BY <1>2, <1>5, <2>1
    <3> QED
      BY <1>2, <2>1, <3>1, <3>2, <3>3
  <2> QED
    BY <2>2, <2>3
<1>11. ListInv'
  <2>1. Follows(Hash!Live', 0, first')
    <3>1. CASE Hash!Live = {}
      BY <1>1, <1>2, <1>5, <3>1 DEF Follows
    <3>2. CASE Hash!Live # {}
      <4>1. first' = first /\ first \in Hash!Live /\ \A m \in Hash!Live : first <= m
        BY <1>1, <1>2, <1>3, <3>2 DEF ListInv, Follows
      <4> QED
        BY <1>2, <1>5, <4>1 DEF Follows
    <3> QED
      BY <3>1, <3>2
  <2>2. Precedes(Hash!Live', used' + 1, last')
    BY <1>1, <1>2, <1>5 DEF Precedes
  <2>3. ASSUME NEW m \in Hash!Live' PROVE Follows(Hash!Live', m, next'[m])
    <3>1. CASE m = n
      <4>1. next'[m] = Hash!NULL
        BY <1>1, <1>2, <1>6, <1>9, <3>1
      <4> QED
        BY <1>2, <1>5, <3>1, <4>1 DEF Follows
    <3>2. CASE m \in Hash!Live /\ m = last
      <4>1. next'[m] = n
        BY <1>2, <1>6, <3>2
      <4> QED
        BY <1>2, <1>5, <1>8, <3>2, <4>1 DEF Follows
    <3>3. CASE m \in Hash!Live /\ m # last
      <4>1. next'[m] = next[m] /\ Follows(Hash!Live, m, next[m])
        BY <1>2, <1>3, <1>6, <3>3 DEF ListInv
      <4>2. next[m] # Hash!NULL
        <5>1. last \in Hash!Live /\ m <= last /\ last \in Nat /\ m \in Nat
          BY <1>2, <1>8, <3>3
        <5>2. ~ \A l \in Hash!Live : l <= m
          BY <3>3, <5>1
        <5> QED
          BY <1>2, <4>1, <5>2 DEF Follows
      <4>3. next[m] \in Hash!Live /\ next[m] > m /\ \A l \in Hash!Live : l > m => next[m] <= l
        BY <4>1, <4>2 DEF Follows
      <4>4. next[m] <= n
        <5> HIDE DEF n
        <5>1. next[m] < n
          BY <1>5, <4>3
        <5>2. next[m] \in Nat
          BY <1>2, <4>3
        <5>3. n \in Nat
          BY <1>2 DEF n
        <5> QED
          BY <5>1, <5>2, <5>3
      <4> QED
        BY <1>5, <4>1, <4>3, <4>4 DEF Follows
    <3> QED
      BY <1>5, <3>1, <3>2, <3>3
  <2>4. ASSUME NEW m \in Hash!Live' PROVE Precedes(Hash!Live', m, prev'[m])
    <3>1. CASE m = n /\ Hash!Live = {}
      <4>1. prev'[m] = Hash!NULL
        BY <1>1, <1>7, <1>9, <3>1
      <4> QED
        BY <1>2, <1>5, <3>1, <4>1 DEF Precedes
    <3>2. CASE m = n /\ Hash!Live # {}
      <4>1. prev'[m] = last
        BY <1>1, <1>7, <3>2
      <4> QED
        BY <1>2, <1>5, <1>8, <3>2, <4>1 DEF Precedes
    <3>3. CASE m \in Hash!Live
      <4>1. prev'[m] = prev[m] /\ Precedes(Hash!Live, m, prev[m]) /\ m < n
        BY <1>2, <1>3, <1>5, <1>7, <3>3 DEF ListInv
      <4> QED
        BY <1>2, <1>5, <3>3, <4>1 DEF Precedes
    <3> QED
      BY <1>5, <3>1, <3>2, <3>3
  <2>5. size' = Cardinality(Hash!Live')
    BY <1>1, <1>2, <1>3, <1>5, FS_AddElement DEF ListInv
  <2> QED
    BY <2>1, <2>2, <2>3, <2>4, <2>5 DEF ListInv
<1>12. BucketInv'
  <2>1. bucket \in [Slots -> Seq(Hash!Addrs)] /\ key \in [Hash!Addrs -> Keys \cup {NoKey}]
    BY <1>3 DEF Hash!TypeOK
  <2>2. \A m \in Hash!Live : key'[m] = key[m] /\ key[m] \in Keys
    BY <1>1, <1>2, <1>5, <2>1
  <2>3. key'[n] = k
    BY <1>1, <2>1
  <2>4. ASSUME NEW s \in Slots
        PROVE  /\ \A i \in DOMAIN bucket'[s] : bucket'[s][i] \in 1 .. used'
               /\ \A i \in DOMAIN bucket[s] : i \in DOMAIN bucket'[s] /\ bucket'[s][i] = bucket[s][i]
    <3>1. bucket[s] \in Seq(Hash!Addrs) /\ \A i \in DOMAIN bucket[s] : bucket[s][i] \in 1 .. used
      BY <1>3, <2>1 DEF BucketInv
    <3>2. CASE s = SlotOf[k]
      <4>1. bucket'[s] = Append(bucket[s], n)
        BY <1>1, <2>1, <3>2
      <4>2. /\ Len(bucket[s]) \in Nat /\ DOMAIN bucket[s] = 1 .. Len(bucket[s])
            /\ DOMAIN bucket'[s] = 1 .. Len(bucket[s]) + 1
            /\ bucket'[s][Len(bucket[s]) + 1] = n
            /\ \A i \in 1 .. Len(bucket[s]) : bucket'[s][i] = bucket[s][i]
        BY <1>1, <3>1, <4>1
      <4>3. \A i \in DOMAIN bucket[s] : i \in DOMAIN bucket'[s] /\ bucket'[s][i] = bucket[s][i]
        BY <4>2
      <4>4. 1 .. used \subseteq 1 .. used' /\ n \in 1 .. used'
        BY <1>1, <1>2
      <4>5. ASSUME NEW i \in DOMAIN bucket'[s] PROVE bucket'[s][i] \in 1 .. used'
        <5>1. i \in DOMAIN bucket[s] \/ i = Len(bucket[s]) + 1
          BY <4>2
        <5> QED
          BY <3>1, <4>2, <4>3, <4>4, <5>1
      <4> QED
        BY <4>3, <4>5
    <3>3. CASE s # SlotOf[k]
      <4>1. bucket'[s] = bucket[s]
        BY <1>1, <2>1, <3>3
      <4> QED
        BY <1>1, <1>2, <3>1, <4>1
    <3> QED
      BY <3>2, <3>3
  <2>5. \E i \in DOMAIN bucket'[SlotOf[k]] : bucket'[SlotOf[k]][i] = n
    <3>1. bucket'[SlotOf[k]] = Append(bucket[SlotOf[k]], n) /\ bucket[SlotOf[k]] \in Seq(Hash!Addrs)
      BY <1>1, <1>4, <2>1
    <3>2. Len(bucket[SlotOf[k]]) + 1 \in DOMAIN bucket'[SlotOf[k]]
      BY <1>1, <3>1
    <3> QED
      BY <1>1, <3>1, <3>2
  <2>6. ASSUME NEW m \in Hash!Live'
        PROVE  \E i \in DOMAIN bucket'[SlotOf[key'[m]]] : bucket'[SlotOf[key'[m]]][i] = m
    <3>1. CASE m = n
      BY <2>3, <2>5, <3>1
    <3>2. CASE m \in Hash!Live
      <4>1. SlotOf[key[m]] \in Slots
        BY <2>2, <3>2 DEF Hash!HashAssumption
      <4>2. PICK i \in DOMAIN bucket[SlotOf[key[m]]] : bucket[SlotOf[key[m]]][i] = m
        BY <1>3, <3>2 DEF BucketInv
      <4> QED
        BY <2>2, <2>4, <3>2, <4>1, <4>2
    <3> QED
      BY <1>5, <3>1, <3>2
  <2>7. \A l, m \in Hash!Live' : key'[l] = key'[m] => l = m
    BY <1>3, <1>4, <1>5, <2>2, <2>3 DEF BucketInv
  <2> QED
    BY <2>4, <2>6, <2>7 DEF BucketInv
<1>13. GoneInv'
  <2>1. Removed' = Removed /\ Removed \subseteq (1 .. used) \ Hash!Live
    BY <1>1, <1>3 DEF Removed, GoneInv
  <2>2. \A r \in Removed : next'[r] = next[r] /\ r \in Hash!Addrs
    BY <1>2, <1>6, <2>1
  <2>3. curr' \in 0 .. used'
    BY <1>1, <1>2, <1>3 DEF GoneInv
  <2>4. \A g \in gone' : g[1] \in (1 .. used') \ Hash!Live' /\ g[2] \in 1 .. used'
    BY <1>1, <1>2, <1>3, <1>5 DEF GoneInv
  <2>5. \A r \in Removed' : next'[r] # Hash!NULL /\ next'[r] \notin Hash!Live' => next'[r] \in Removed'
    BY <1>3, <1>5, <2>1, <2>2 DEF GoneInv
  <2>6. curr' # Hash!NULL /\ curr' \notin Hash!Live' => curr' \in Removed'
    BY <1>1, <1>3, <1>5, <2>1 DEF GoneInv
  <2>7. ASSUME NEW g \in gone', next'[g[1]] = Hash!NULL, NEW m \in Hash!Live', m > g[1] PROVE m > g[2]
    <3>1. g \in gone /\ g[1] \in Removed /\ next[g[1]] = Hash!NULL
      BY <1>1, <2>2, <2>7 DEF Removed
    <3>2. g[2] \in 1 .. used
      BY <1>3, <3>1 DEF GoneInv
    <3>3. CASE m \in Hash!Live
      BY <1>3, <2>7, <3>1, <3>3 DEF GoneInv
    <3>4. CASE m = n
      BY <1>2, <3>2, <3>4
    <3> QED
      BY <1>5, <3>3, <3>4
  <2> QED
    BY <2>3, <2>4, <2>5, <2>6, <2>7 DEF GoneInv
<1>14. Hash!TypeOK'
  <2>1. used' \in 0 .. MaxNodes /\ used' \in Nat /\ Hash!Live' \in SUBSET (1 .. used')
    BY <1>1, <1>2, <1>5
  <2>2. size' \in 0 .. MaxNodes
    <3>1. size' \in 0 .. used'
      BY <1>11, <2>1, CountTyped DEF ListInv
    <3>2. size' \in Nat /\ size' <= used' /\ used' <= MaxNodes
      BY <1>2, <2>1, <3>1
    <3> HIDE DEF n
    <3> QED
      BY <1>2, <2>1, <3>2
  <2>3. key' \in [Hash!Addrs -> Keys \cup {NoKey}] /\ item' \in [Hash!Addrs -> Values \cup {NoItem}]
    BY <1>1, <1>3 DEF Hash!TypeOK
  <2>4. prev' \in [Hash!Addrs -> 0 .. MaxNodes] /\ next' \in [Hash!Addrs -> 0 .. MaxNodes]
    <3>1. n \in 0 .. MaxNodes /\ last \in 0 .. MaxNodes
      BY <1>1, <1>2
    <3> QED
      BY <1>1, <1>3, <3>1 DEF Hash!TypeOK
  <2>5. bucket' \in [Slots -> Seq(Hash!Addrs)]
    <3>1. bucket \in [Slots -> Seq(Hash!Addrs)]
      BY <1>3 DEF Hash!TypeOK
    <3>2. Append(bucket[SlotOf[k]], n) \in Seq(Hash!Addrs)
      BY <1>1, <1>4, <3>1
    <3> QED
      BY <1>1, <3>1, <3>2
  <2>6. first' \in 0 .. MaxNodes /\ last' \in 0 .. MaxNodes
    BY <1>1, <1>2
  <2>7. curr' \in 0 .. MaxNodes /\ gone' \subseteq Hash!Addrs \X Hash!Addrs
    BY <1>1, <1>3 DEF Hash!TypeOK
  <2> QED
    BY <2>1, <2>2, <2>3, <2>4, <2>5, <2>6, <2>7 DEF Hash!TypeOK
<1> QED
  BY <1>10, <1>11, <1>12, <1>13, <1>14 DEF HashInv

\* A node is taken out of the list, and keeps its pointers.
LEMMA RemoveStep ==
    ASSUME Hash!HashAssumption, HashInv, NEW k \in Keys, Hash!Remove(k)
    PROVE  HashInv'
<1> DEFINE n == Hash!Find(k)
           p == prev[n]
           x == next[n]
<1>1. /\ n # Hash!NULL
      /\ size' = size - 1
      /\ key' = [key EXCEPT ![n] = NoKey] /\ item' = [item EXCEPT ![n] = NoItem]
      /\ IF p # Hash!NULL THEN next' = [next EXCEPT ![p] = x] /\ first' = first
         ELSE first' = x /\ next' = next
      /\ IF x # Hash!NULL THEN prev' = [prev EXCEPT ![x] = p] /\ last' = last
         ELSE last' = p /\ prev' = prev
      /\ gone' = gone \cup {<<n, used>>}
      /\ used' = used /\ bucket' = bucket /\ curr' = curr
  BY DEF Hash!Remove
<1>2. /\ MaxNodes \in Nat /\ used \in 0 .. MaxNodes /\ used \in Nat /\ Hash!NULL = 0
      /\ Hash!Live \subseteq 1 .. used /\ Hash!Live \subseteq Hash!Addrs
           /\ \A m \in Hash!Live : m \in Nat /\ m > 0
      /\ Hash!Addrs = 1 .. MaxNodes /\ IsFiniteSet(Hash!Live)
      /\ first \in 0 .. used /\ last \in 0 .. used
      /\ (first = Hash!NULL <=> Hash!Live = {}) /\ (last = Hash!NULL <=> Hash!Live = {})
      /\ (first # Hash!NULL => first \in Hash!Live) /\ (last # Hash!NULL => last \in Hash!Live)
      /\ \A m \in Hash!Live : key[m] \in Keys
  BY Basics
<1>3. Hash!TypeOK /\ NextInv /\ ListInv /\ BucketInv /\ GoneInv
  BY DEF HashInv
<1>4. n \in Hash!Live /\ key[n] = k
  <2>1. IsNodeOf(k, n)
    BY <1>3, Searches
  <2> QED
    BY <1>1, <2>1 DEF IsNodeOf
<1>5. Hash!Live' = Hash!Live \ {n}
  <2>1. key \in [Hash!Addrs -> Keys \cup {NoKey}]
    BY <1>3 DEF Hash!TypeOK
  <2>2. \A m \in Hash!Addrs : key'[m] = IF m = n THEN NoKey ELSE key[m]
    BY <1>1, <2>1
  <2>3. \A m \in 1 .. used : m \in Hash!Addrs
    BY <1>2
  <2> QED
    BY <1>1, <2>2, <2>3 DEF Hash!Live
<1>6. Precedes(Hash!Live, n, p) /\ Follows(Hash!Live, n, x)
  BY <1>3, <1>4 DEF ListInv
<1>7. /\ p = Hash!NULL => \A m \in Hash!Live : m >= n
      /\ p # Hash!NULL => p \in Hash!Live /\ p < n /\ \A m \in Hash!Live : m < n => m <= p
  BY <1>2, <1>6 DEF Precedes
<1>8. /\ x = Hash!NULL => \A m \in Hash!Live : m <= n
      /\ x # Hash!NULL => x \in Hash!Live /\ x > n /\ \A m \in Hash!Live : m > n => x <= m
  BY <1>2, <1>6 DEF Follows
<1> HIDE DEF n, p, x
<1>9. \A m \in Hash!Addrs : next'[m] = IF p # Hash!NULL /\ m = p THEN x ELSE next[m]
  BY <1>1, <1>3 DEF Hash!TypeOK
<1>10. \A m \in Hash!Addrs : prev'[m] = IF x # Hash!NULL /\ m = x THEN p ELSE prev[m]
  BY <1>1, <1>3 DEF Hash!TypeOK
<1>11. n \in Nat /\ n > 0 /\ n \in 1 .. used /\ n \in Hash!Addrs /\ p \in 0 .. used /\ x \in 0 .. used
  <2>1. 0 \in 0 .. used /\ 1 .. used \subseteq 0 .. used
    BY <1>2
  <2>2. p = 0 \/ p \in 1 .. used
    BY <1>2, <1>7
  <2>3. x = 0 \/ x \in 1 .. used
    BY <1>2, <1>8
  <2> QED
    BY <1>2, <1>4, <2>1, <2>2, <2>3
<1>12. NextInv'
  <2> SUFFICES ASSUME NEW m \in Hash!Addrs
               PROVE  /\ next'[m] \in 0 .. used
                      /\ m > used => next'[m] = Hash!NULL /\ prev'[m] = Hash!NULL
                      /\ next'[m] # Hash!NULL => next'[m] > m
                           /\ \A l \in Hash!Live' : ~(m < l /\ l < next'[m])
    BY <1>1 DEF NextInv
  <2>1. /\ next[m] \in 0 .. used
        /\ m > used => next[m] = Hash!NULL /\ prev[m] = Hash!NULL
        /\ next[m] # Hash!NULL => next[m] > m /\ \A l \in Hash!Live : ~(m < l /\ l < next[m])
    BY <1>3 DEF NextInv
  <2>2. m > used => next'[m] = Hash!NULL /\ prev'[m] = Hash!NULL
    <3>1. (p # Hash!NULL => p <= used) /\ (x # Hash!NULL => x <= used) /\ m \in Nat
      BY <1>2, <1>11
    <3>2. m > used => ~(p # Hash!NULL /\ m = p) /\ ~(x # Hash!NULL /\ m = x)
      BY <1>2, <3>1
    <3> QED
      BY <1>9, <1>10, <2>1, <3>2
  <2>3. CASE p # Hash!NULL /\ m = p
    <3>1. next'[m] = x
      BY <1>9, <2>3
    <3>2. ASSUME x # Hash!NULL PROVE x > m /\ \A l \in Hash!Live' : ~(m < l /\ l < x)
      <4>1. x > n /\ m < n /\ m \in Nat
        BY <1>2, <1>7, <1>8, <2>3, <3>2
      <4>2. ASSUME NEW l \in Hash!Live, l # n, m < l, l < x PROVE FALSE
        <5>1. l \in Nat /\ (l < n \/ l > n)
          BY <1>2, <1>11, <4>2
        <5>2. l < n => l <= m
          BY <1>7, <2>3
        <5>3. l > n => x <= l
          BY <1>8, <3>2
        <5> QED
          BY <1>11, <4>1, <4>2, <5>1, <5>2, <5>3
      <4> QED
        BY <1>5, <1>11, <4>1, <4>2
    <3> QED
      BY <1>11, <2>2, <3>1, <3>2
  <2>4. CASE ~(p # Hash!NULL /\ m = p)
    BY <1>5, <1>9, <2>1, <2>2, <2>4
  <2> QED
    BY <2>3, <2>4
<1>13. ListInv'
  <2>1. Follows(Hash!Live', 0, first')
    <3>1. CASE p = Hash!NULL
      <4>1. first' = x
        BY <1>1, <3>1
      <4>2. CASE x = Hash!NULL
        <5>1. \A m \in Hash!Live : m <= n /\ n <= m
          BY <1>7, <1>8, <3>1, <4>2
        <5>2. Hash!Live' = {}
          BY <1>2, <1>5, <1>11, <5>1
        <5> QED
          BY <4>1, <4>2, <5>2 DEF Follows
      <4>3. CASE x # Hash!NULL
        <5>1. \A m \in Hash!Live' : m > n
          BY <1>2, <1>5, <1>7, <1>11, <3>1
        <5>2. \A m \in Hash!Live' : x <= m
          BY <1>5, <1>8, <4>3, <5>1
        <5>3. x \in Hash!Live' /\ x > 0
          BY <1>2, <1>5, <1>8, <1>11, <4>3
        <5> QED
          BY <4>1, <5>2, <5>3 DEF Follows
      <4> QED
        BY <4>2, <4>3
    <3>2. CASE p # Hash!NULL
      <4>1. first' = first /\ p \in Hash!Live /\ p < n
        BY <1>1, <1>7, <3>2
      <4>2. first \in Hash!Live /\ \A m \in Hash!Live : first <= m
        BY <1>2, <1>3, <4>1 DEF ListInv, Follows
      <4>3. first # n
        BY <1>2, <1>11, <4>1, <4>2
      <4> QED
        BY <1>2, <1>5, <4>1, <4>2, <4>3 DEF Follows
    <3> QED
      BY <3>1, <3>2
  <2>2. Precedes(Hash!Live', used' + 1, last')
    <3>1. CASE x = Hash!NULL
      <4>1. last' = p
        BY <1>1, <3>1
      <4>2. CASE p = Hash!NULL
        <5>1. \A m \in Hash!Live : m <= n /\ n <= m
          BY <1>7, <1>8, <3>1, <4>2
        <5>2. Hash!Live' = {}
          BY <1>2, <1>5, <1>11, <5>1
        <5> QED
          BY <4>1, <4>2, <5>2 DEF Precedes
      <4>3. CASE p # Hash!NULL
        <5>1. \A m \in Hash!Live' : m < n
          BY <1>2, <1>5, <1>8, <1>11, <3>1
        <5>2. \A m \in Hash!Live' : m <= p
          BY <1>5, <1>7, <4>3, <5>1
        <5>3. p \in Hash!Live' /\ p < used + 1
          BY <1>2, <1>5, <1>7, <1>11, <4>3
        <5> QED
          BY <1>1, <4>1, <5>2, <5>3 DEF Precedes
      <4> QED
        BY <4>2, <4>3
    <3>2. CASE x # Hash!NULL
      <4>1. last' = last /\ x \in Hash!Live /\ x > n
        BY <1>1, <1>8, <3>2
      <4>2. last \in Hash!Live /\ \A m \in Hash!Live : m <= last
        <5>1. Precedes(Hash!Live, used + 1, last) /\ last # Hash!NULL /\ \A m \in Hash!Live : m < used + 1
          BY <1>2, <1>3, <4>1 DEF ListInv
        <5> QED
          BY <5>1 DEF Precedes
      <4>3. last # n /\ last < used + 1
        BY <1>2, <1>11, <4>1, <4>2
      <4> QED
        BY <1>1, <1>5, <4>1, <4>2, <4>3 DEF Precedes
    <3> QED
      BY <3>1, <3>2
  <2>3. ASSUME NEW m \in Hash!Live' PROVE Follows(Hash!Live', m, next'[m])
    <3>1. m \in Hash!Live /\ m # n /\ m \in Nat /\ m \in Hash!Addrs
      BY <1>2, <1>5
    <3>2. CASE p # Hash!NULL /\ m = p
      <4>1. next'[m] = x /\ m < n
        BY <1>7, <1>9, <3>1, <3>2
      <4>2. ASSUME NEW l \in Hash!Live', l > m PROVE l > n
        <5>1. l \in Hash!Live /\ l # n /\ l \in Nat
          BY <1>2, <1>5
        <5>2. l < n => l <= m
          BY <1>7, <3>2, <5>1
        <5> QED
          BY <1>11, <3>1, <4>2, <5>1, <5>2
      <4>3. CASE x = Hash!NULL
        <5>1. \A l \in Hash!Live' : l <= m
          <6>1. \A l \in Hash!Live' : l <= n /\ l \in Nat
            BY <1>2, <1>5, <1>8, <4>3
          <6> QED
            BY <1>11, <3>1, <4>2, <6>1
        <5> QED
          BY <4>1, <4>3, <5>1 DEF Follows
      <4>4. CASE x # Hash!NULL
        <5>1. x \in Hash!Live' /\ x > m /\ \A l \in Hash!Live' : l > m => x <= l
          BY <1>2, <1>5, <1>8, <1>11, <3>1, <4>1, <4>2, <4>4
        <5> QED
          BY <4>1, <5>1 DEF Follows
      <4> QED
        BY <4>3, <4>4
    <3>3. CASE ~(p # Hash!NULL /\ m = p)
      <4>1. next'[m] = next[m] /\ Follows(Hash!Live, m, next[m])
        BY <1>3, <1>9, <3>1, <3>3 DEF ListInv
      <4>2. next[m] # n
        <5>1. SUFFICES ASSUME next[m] = n PROVE FALSE
          OBVIOUS
        <5>2. n > m /\ \A l \in Hash!Live : l > m => n <= l
          BY <1>1, <4>1, <5>1 DEF Follows
        <5>3. p # Hash!NULL /\ p \in Hash!Live /\ p < n /\ m <= p /\ p \in Nat
          BY <1>2, <1>7, <1>11, <3>1, <5>2
        <5>4. p > m
          BY <3>1, <3>3, <5>3
        <5> QED
          BY <1>11, <5>2, <5>3, <5>4
      <4> QED
        BY <1>5, <4>1, <4>2 DEF Follows
    <3> QED
      BY <3>2, <3>3
  <2>4. ASSUME NEW m \in Hash!Live' PROVE Precedes(Hash!Live', m, prev'[m])
    <3>1. m \in Hash!Live /\ m # n /\ m \in Nat /\ m \in Hash!Addrs
      BY <1>2, <1>5
    <3>2. CASE x # Hash!NULL /\ m = x
      <4>1. prev'[m] = p /\ m > n
        BY <1>8, <1>10, <3>1, <3>2
      <4>2. ASSUME NEW l \in Hash!Live', l < m PROVE l < n
        <5>1. l \in Hash!Live /\ l # n /\ l \in Nat
          BY <1>2, <1>5
        <5>2. l > n => m <= l
          BY <1>8, <3>2, <5>1
        <5> QED
          BY <1>11, <3>1, <4>2, <5>1, <5>2
      <4>3. CASE p = Hash!NULL
        <5>1. \A l \in Hash!Live' : l >= m
          <6>1. \A l \in Hash!Live' : l >= n /\ l \in Nat
            BY <1>2, <1>5, <1>7, <4>3
          <6> QED
            BY <1>11, <3>1, <4>2, <6>1
        <5> QED
          BY <4>1, <4>3, <5>1 DEF Precedes
      <4>4. CASE p # Hash!NULL
        <5>1. p \in Hash!Live' /\ p < m /\ \A l \in Hash!Live' : l < m => l <= p
          BY <1>2, <1>5, <1>7, <1>11, <3>1, <4>1, <4>2, <4>4
        <5> QED
          BY <4>1, <5>1 DEF Precedes
      <4> QED
        BY <4>3, <4>4
    <3>3. CASE ~(x # Hash!NULL /\ m = x)
      <4>1. prev'[m] = prev[m] /\ Precedes(Hash!Live, m, prev[m])
        BY <1>3, <1>10, <3>1, <3>3 DEF ListInv
      <4>2. prev[m] # n
        <5>1. SUFFICES ASSUME prev[m] = n PROVE FALSE
          OBVIOUS
        <5>2. n < m /\ \A l \in Hash!Live : l < m => l <= n
          BY <1>1, <4>1, <5>1 DEF Precedes
        <5>3. x # Hash!NULL /\ x \in Hash!Live /\ x > n /\ x <= m /\ x \in Nat
          BY <1>2, <1>8, <1>11, <3>1, <5>2
        <5>4. x < m
          BY <3>1, <3>3, <5>3
        <5> QED
          BY <1>11, <5>2, <5>3, <5>4
      <4> QED
        BY <1>5, <4>1, <4>2 DEF Precedes
    <3> QED
      BY <3>2, <3>3
  <2>5. size' = Cardinality(Hash!Live')
    BY <1>1, <1>2, <1>3, <1>4, <1>5, FS_RemoveElement DEF ListInv
  <2> QED
    BY <2>1, <2>2, <2>3, <2>4, <2>5 DEF ListInv
<1>14. BucketInv'
  <2>1. \A m \in Hash!Live' : m \in Hash!Live /\ key'[m] = key[m]
    BY <1>1, <1>2, <1>3, <1>5 DEF Hash!TypeOK
  <2> QED
    BY <1>1, <1>3, <2>1 DEF BucketInv
<1>15. GoneInv'
  <2>1. Removed' = Removed \cup {n} /\ Removed \subseteq (1 .. used) \ Hash!Live
    <3>1. Removed \subseteq (1 .. used) \ Hash!Live
      BY <1>3 DEF Removed, GoneInv
    <3>2. \A g \in gone' : g \in gone \/ g[1] = n
      BY <1>1
    <3>3. Removed' \subseteq Removed \cup {n}
      BY <3>2 DEF Removed
    <3>4. <<n, used>> \in gone' /\ <<n, used>>[1] = n /\ gone \subseteq gone'
      BY <1>1
    <3>5. Removed \cup {n} \subseteq Removed'
      BY <3>4 DEF Removed
    <3> QED
      BY <3>1, <3>3, <3>5
  <2>2. \A r \in Removed' : next'[r] = next[r] /\ r \in Hash!Addrs
    <3>1. p # Hash!NULL => p \in Hash!Live /\ p # n
      BY <1>7, <1>11
    <3> QED
      BY <1>2, <1>9, <1>11, <2>1, <3>1
  <2>3. curr' \in 0 .. used'
    BY <1>1, <1>3 DEF GoneInv
  <2>4. \A g \in gone' : g[1] \in (1 .. used') \ Hash!Live' /\ g[2] \in 1 .. used'
    <3>1. used \in 1 .. used
      BY <1>2, <1>11
    <3> QED
      BY <1>1, <1>3, <1>5, <1>11, <3>1 DEF GoneInv
  <2>5. ASSUME NEW r \in Removed', next'[r] # Hash!NULL, next'[r] \notin Hash!Live'
        PROVE  next'[r] \in Removed'
    <3>1. CASE r \in Removed
      <4>1. next[r] \notin Hash!Live \/ next[r] = n
        BY <1>5, <2>2, <2>5
      <4> QED
        BY <1>3, <2>1, <2>2, <2>5, <3>1, <4>1 DEF GoneInv
    <3>2. CASE r = n
      <4>1. next'[r] = x
        BY <2>2, <3>2 DEF x
      <4>2. x \in Hash!Live /\ x # n
        BY <1>8, <1>11, <2>5, <4>1
      <4> QED
        BY <1>5, <2>5, <4>1, <4>2
    <3> QED
      BY <2>1, <3>1, <3>2
  <2>6. curr' # Hash!NULL /\ curr' \notin Hash!Live' => curr' \in Removed'
    BY <1>1, <1>3, <1>5, <2>1 DEF GoneInv
  <2>7. ASSUME NEW g \in gone', next'[g[1]] = Hash!NULL, NEW m \in Hash!Live', m > g[1] PROVE m > g[2]
    <3>1. CASE g \in gone
      <4>1. g[1] \in Removed' /\ next[g[1]] = Hash!NULL /\ m \in Hash!Live
        BY <1>1, <1>5, <2>2, <2>7, <3>1 DEF Removed
      <4> QED
        BY <1>3, <2>7, <3>1, <4>1 DEF GoneInv
    <3>2. CASE g = <<n, used>>
      <4>1. next'[n] = x
        BY <2>1, <2>2 DEF x
      <4>2. m <= n /\ m > n
        BY <1>5, <1>8, <2>7, <3>2, <4>1
      <4> QED
        BY <1>2, <1>5, <1>11, <4>2
    <3> QED
      BY <1>1, <3>1, <3>2
  <2> QED
    BY <2>3, <2>4, <2>5, <2>6, <2>7 DEF GoneInv
<1>16. Hash!TypeOK'
  <2>1. Hash!Live' \in SUBSET (1 .. used)
    BY <1>2, <1>5
  <2>2. size' \in 0 .. MaxNodes
    <3>1. size' \in 0 .. used
      BY <1>2, <1>13, <2>1, CountTyped DEF ListInv
    <3>2. size' \in Nat /\ size' <= used /\ used <= MaxNodes
      BY <1>2, <3>1
    <3> QED
      BY <1>2, <3>2
  <2>3. key' \in [Hash!Addrs -> Keys \cup {NoKey}] /\ item' \in [Hash!Addrs -> Values \cup {NoItem}]
    BY <1>1, <1>3 DEF Hash!TypeOK
  <2>4. p \in 0 .. MaxNodes /\ x \in 0 .. MaxNodes
    BY <1>2, <1>11
  <2>5. prev' \in [Hash!Addrs -> 0 .. MaxNodes] /\ next' \in [Hash!Addrs -> 0 .. MaxNodes]
    BY <1>1, <1>3, <2>4 DEF Hash!TypeOK
  <2>6. first' \in 0 .. MaxNodes /\ last' \in 0 .. MaxNodes
    BY <1>1, <1>3, <2>4 DEF Hash!TypeOK
  <2>7. gone' \subseteq Hash!Addrs \X Hash!Addrs
    <3>1. used \in Hash!Addrs
      BY <1>2, <1>11
    <3> QED
      BY <1>1, <1>3, <1>11, <3>1 DEF Hash!TypeOK
  <2> QED
    BY <1>1, <1>3, <2>2, <2>3, <2>5, <2>6, <2>7 DEF Hash!TypeOK
<1> QED
  BY <1>12, <1>13, <1>14, <1>15, <1>16 DEF HashInv

\* The iterator moves on along the list, from a node that was removed, too.
LEMMA AdvanceStep ==
    ASSUME Hash!HashAssumption, HashInv, Hash!Advance
    PROVE  HashInv' /\ (curr # Hash!NULL /\ curr' # Hash!NULL => curr' >= curr)
<1>1. /\ curr' = IF curr = Hash!NULL THEN first ELSE next[curr]
      /\ gone' = IF curr' = Hash!NULL \/ key[curr'] # NoKey THEN {} ELSE gone
      /\ UNCHANGED <<used, key, item, prev, next, bucket, first, last, size>>
  BY DEF Hash!Advance, Hash!table, Hash!fields
<1>2. /\ MaxNodes \in Nat /\ used \in 0 .. MaxNodes /\ Hash!NULL = 0 /\ Hash!Addrs = 1 .. MaxNodes
      /\ first \in 0 .. used /\ (first # Hash!NULL => first \in Hash!Live)
  BY Basics
<1>3. Hash!TypeOK /\ NextInv /\ ListInv /\ BucketInv /\ GoneInv
  BY DEF HashInv
<1>4. curr \in 0 .. used /\ (curr # Hash!NULL => curr \in Hash!Addrs)
  BY <1>2, <1>3 DEF GoneInv
<1>5. curr' \in 0 .. used
  BY <1>1, <1>2, <1>3, <1>4 DEF NextInv
<1>6. curr # Hash!NULL /\ curr' # Hash!NULL => curr' > curr
  BY <1>1, <1>3, <1>4 DEF NextInv
<1>7. Hash!Live' = Hash!Live
  BY <1>1 DEF Hash!Live
<1>8. NextInv' /\ ListInv' /\ BucketInv'
  BY <1>1, <1>3, <1>7 DEF NextInv, ListInv, BucketInv
<1>9. GoneInv'
  <2>1. CASE curr' = Hash!NULL \/ curr' \in Hash!Live
    <3>1. gone' = {}
      BY <1>1, <2>1 DEF Hash!Live
    <3>2. Removed' = {}
      BY <3>1 DEF Removed
    <3> QED
      BY <1>1, <1>5, <1>7, <2>1, <3>1, <3>2 DEF GoneInv
  <2>2. CASE curr' # Hash!NULL /\ curr' \notin Hash!Live
    <3>1. curr' \in 1 .. used
      BY <1>2, <1>5, <2>2
    <3>2. gone' = gone
      BY <1>1, <2>2, <3>1 DEF Hash!Live
    <3>3. Removed' = Removed
      BY <3>2 DEF Removed
    <3>4. curr # Hash!NULL /\ curr' = next[curr]
      BY <1>1, <1>2, <2>2
    <3>5. curr \notin Hash!Live
      BY <1>3, <2>2, <3>4 DEF ListInv, Follows
    <3>6. curr \in Removed
      BY <1>3, <3>4, <3>5 DEF GoneInv
    <3>7. curr' \in Removed
      BY <1>3, <2>2, <3>4, <3>6 DEF GoneInv
    <3> QED
      BY <1>1, <1>3, <1>5, <1>7, <3>2, <3>3, <3>7 DEF GoneInv
  <2> QED
    BY <2>1, <2>2
<1>10. Hash!TypeOK'
  <2>1. curr' \in 0 .. MaxNodes
    BY <1>2, <1>5
  <2>2. gone' \subseteq Hash!Addrs \X Hash!Addrs
    BY <1>1, <1>3 DEF Hash!TypeOK
  <2> QED
    BY <1>1, <1>3, <2>1, <2>2 DEF Hash!TypeOK
<1>11. curr # Hash!NULL /\ curr' # Hash!NULL => curr' >= curr
  BY <1>4, <1>5, <1>6
<1> QED
  BY <1>8, <1>9, <1>10, <1>11 DEF HashInv

LEMMA ResetStep ==
    ASSUME Hash!HashAssumption, HashInv, Hash!Reset
    PROVE  HashInv'
<1>1. /\ curr' = Hash!NULL /\ gone' = {}
      /\ UNCHANGED <<used, key, item, prev, next, bucket, first, last, size>>
  BY DEF Hash!Reset, Hash!table, Hash!fields
<1>2. Hash!Live' = Hash!Live /\ Removed' = {}
  BY <1>1 DEF Hash!Live, Removed
<1>3. Hash!TypeOK' /\ GoneInv'
  <2>1. Hash!NULL \in 0 .. MaxNodes /\ Hash!NULL \in 0 .. used
    BY DEF Hash!HashAssumption, HashInv, Hash!TypeOK, Hash!NULL
  <2> QED
    BY <1>1, <1>2, <2>1 DEF HashInv, Hash!TypeOK, GoneInv
<1> QED
  BY <1>1, <1>2, <1>3 DEF HashInv, NextInv, ListInv, BucketInv

LEMMA HashInitInv == ASSUME Hash!HashAssumption, Hash!Init PROVE HashInv
<1>1. MaxNodes \in Nat /\ Hash!NULL = 0 /\ used = 0 /\ gone = {}
  BY DEF Hash!HashAssumption, Hash!NULL, Hash!Init
<1>2. Hash!Live = {} /\ Removed = {}
  BY <1>1 DEF Hash!Live, Removed
<1>3. Cardinality(Hash!Live) = 0
  BY <1>2, FS_EmptySet
<1>4. Hash!TypeOK
  <2>1. \A s \in Slots : bucket[s] \in Seq(Hash!Addrs)
    BY DEF Hash!Init
  <2> QED
    BY <1>1, <2>1 DEF Hash!Init, Hash!TypeOK
<1>5. NextInv
  BY <1>1, <1>2 DEF Hash!Init, NextInv
<1>6. ListInv
  BY <1>1, <1>2, <1>3 DEF Hash!Init, ListInv, Follows, Precedes
<1>7. BucketInv
  BY <1>1, <1>2 DEF Hash!Init, BucketInv
<1>8. GoneInv
  BY <1>1, <1>2 DEF Hash!Init, GoneInv
<1> QED
  BY <1>4, <1>5, <1>6, <1>7, <1>8 DEF HashInv

LEMMA HashStepInv ==
    Hash!HashAssumption => (HashInv /\ [Hash!Next]_Hash!vars =>
                           HashInv' /\ (curr # Hash!NULL /\ curr' # Hash!NULL => curr' >= curr))
<1> SUFFICES ASSUME Hash!HashAssumption, HashInv, [Hash!Next]_Hash!vars
             PROVE  HashInv' /\ (curr # Hash!NULL /\ curr' # Hash!NULL => curr' >= curr)
  OBVIOUS
<1>1. curr \in Nat
  BY DEF HashInv, Hash!TypeOK
<1>2. ASSUME NEW k \in Keys, Hash!Remove(k) PROVE HashInv' /\ curr' = curr
  BY <1>2, RemoveStep DEF Hash!Remove
<1>3. ASSUME NEW k \in Keys, NEW x \in Values, Hash!Add(k, x) PROVE HashInv' /\ curr' = curr
  BY <1>3, AddStep DEF Hash!Add
<1>4. ASSUME NEW k \in Keys, NEW x \in Values, Hash!Update(k, x) PROVE HashInv' /\ curr' = curr
  BY <1>4, UpdateStep DEF Hash!Update
<1>5. CASE Hash!Advance
  BY <1>5, AdvanceStep
<1>6. CASE Hash!Reset
  BY <1>6, ResetStep DEF Hash!Reset
<1>7. CASE UNCHANGED Hash!vars
  <2>1. UNCHANGED <<used, key, item, prev, next, bucket, first, last, size, curr, gone>>
    BY <1>7 DEF Hash!vars, Hash!table, Hash!fields
  <2>2. Hash!Live' = Hash!Live /\ Removed' = Removed
    BY <2>1 DEF Hash!Live, Removed
  <2>3. Hash!TypeOK'
    BY <2>1 DEF HashInv, Hash!TypeOK
  <2>4. HashInv'
    BY <2>1, <2>2, <2>3 DEF HashInv, NextInv, ListInv, BucketInv, GoneInv
  <2> QED
    BY <1>1, <2>1, <2>4
<1> QED
  BY <1>1, <1>2, <1>3, <1>4, <1>5, <1>6, <1>7 DEF Hash!Next

LEMMA InvLinked == Hash!HashAssumption /\ HashInv => Hash!Linked
<1> SUFFICES ASSUME Hash!HashAssumption, HashInv PROVE Hash!Linked
  OBVIOUS
<1>1. Hash!TypeOK /\ NextInv /\ ListInv /\ BucketInv /\ used \in Nat /\ Hash!Live \subseteq 1 .. used
  BY Basics DEF HashInv
<1>2. first = Hash!After(0) /\ last = Hash!Before(used + 1)
  BY <1>1, AfterFollows, BeforePrecedes DEF ListInv
<1>3. \A n \in Hash!Live : next[n] = Hash!After(n) /\ prev[n] = Hash!Before(n)
  <2> SUFFICES ASSUME NEW n \in Hash!Live PROVE next[n] = Hash!After(n) /\ prev[n] = Hash!Before(n)
    OBVIOUS
  <2>1. n \in Nat /\ Follows(Hash!Live, n, next[n]) /\ Precedes(Hash!Live, n, prev[n])
    BY <1>1 DEF ListInv
  <2> QED
    BY <1>1, <2>1, AfterFollows, BeforePrecedes
<1>4. \A k \in Keys : Hash!AlongList(k) = Hash!InBucket(k)
  BY <1>1, Searches
<1>5. size = Hash!Cardinality(Hash!Live)
  BY <1>1 DEF ListInv, Hash!Cardinality, Cardinality
<1> QED
  BY <1>1, <1>2, <1>3, <1>4, <1>5 DEF Hash!Linked, ListInv

LEMMA InvResumes == Hash!HashAssumption /\ HashInv => Hash!ResumesAfterRemoval
<1> SUFFICES ASSUME Hash!HashAssumption, HashInv, NEW u \in Hash!Addrs, gone = {<<curr, u>>},
                    Hash!After(curr) # Hash!NULL, Hash!After(curr) <= u
             PROVE  next[curr] = Hash!After(curr)
  BY DEF Hash!ResumesAfterRemoval
<1>1. /\ used \in Nat /\ Hash!Live \subseteq 1 .. used /\ Hash!NULL = 0
      /\ NextInv /\ ListInv /\ GoneInv /\ Hash!Addrs = 1 .. MaxNodes /\ MaxNodes \in Nat
      /\ used \in 0 .. MaxNodes
  BY Basics DEF HashInv
<1>2. curr \in (1 .. used) \ Hash!Live /\ Removed = {curr} /\ curr \in Hash!Addrs /\ curr \in Nat
  <2>1. <<curr, u>>[1] \in (1 .. used) \ Hash!Live
    BY <1>1 DEF GoneInv
  <2>2. Removed = {curr}
    BY DEF Removed
  <2> QED
    BY <1>1, <2>1, <2>2
<1>3. /\ next[curr] # Hash!NULL => next[curr] > curr /\ \A m \in Hash!Live : ~(curr < m /\ m < next[curr])
      /\ next[curr] \in 0 .. used
  BY <1>1, <1>2 DEF NextInv
<1>4. Follows(Hash!Live, curr, Hash!After(curr))
  BY <1>1, <1>2, AfterFollows
<1>5. Hash!After(curr) \in Hash!Live /\ Hash!After(curr) > curr
  BY <1>4 DEF Follows
<1>6. next[curr] # Hash!NULL
  <2>1. SUFFICES ASSUME next[curr] = Hash!NULL PROVE FALSE
    OBVIOUS
  <2>2. \A m \in Hash!Live : m > curr => m > u
    <3>1. <<curr, u>> \in gone /\ <<curr, u>>[1] = curr /\ <<curr, u>>[2] = u
      OBVIOUS
    <3> QED
      BY <1>1, <2>1, <3>1 DEF GoneInv
  <2>3. Hash!After(curr) > u /\ Hash!After(curr) \in Nat /\ u \in Nat
    <3>1. u \in Nat
      BY <1>1
    <3>2. Hash!After(curr) \in 1 .. used
      BY <1>1, <1>5
    <3>3. \A a \in 1 .. used : a \in Nat
      BY <1>1
    <3>4. Hash!After(curr) \in Nat
      BY <3>2, <3>3
    <3> QED
      BY <1>5, <2>2, <3>1, <3>4
  <2> QED
    BY <2>3
<1>7. next[curr] \in Hash!Live
  <2>1. next[curr] # curr
    BY <1>2, <1>3, <1>6
  <2> QED
    BY <1>1, <1>2, <1>6, <2>1 DEF GoneInv
<1>8. Follows(Hash!Live, curr, next[curr])
  <2>1. ASSUME NEW m \in Hash!Live, m > curr PROVE next[curr] <= m
    <3>1. ~(m < next[curr]) /\ m \in Nat /\ next[curr] \in Nat
      BY <1>1, <1>3, <1>6, <1>7, <2>1
    <3> QED
      BY <3>1
  <2> QED
    BY <1>3, <1>6, <1>7, <2>1 DEF Follows
<1> QED
  BY <1>1, <1>2, <1>8, AfterFollows

\* The inductive invariant of the hash.
THEOREM HashInvariance == ASSUME Hash!HashAssumption PROVE Hash!Spec => []HashInv
<1>1. Hash!Init => HashInv
  BY HashInitInv
<1>2. HashInv /\ [Hash!Next]_Hash!vars => HashInv'
  BY HashStepInv
<1> QED
  BY <1>1, <1>2, PTL DEF Hash!Spec

\* Whatever is set, removed and traversed, in any order: the hash is one list and one table
\* of the same nodes, and an iterator goes on behind a removed node and never goes back.
THEOREM HashSound ==
    ASSUME Hash!HashAssumption
    PROVE  Hash!Spec => [](Hash!TypeOK /\ Hash!Linked /\ Hash!ResumesAfterRemoval) /\ Hash!NeverBack
<1>1. Hash!Spec => []HashInv
  BY HashInvariance
<1>2. HashInv => Hash!TypeOK /\ Hash!Linked /\ Hash!ResumesAfterRemoval
  BY InvLinked, InvResumes DEF HashInv
<1>3. HashInv /\ [Hash!Next]_Hash!vars => [curr # Hash!NULL /\ curr' # Hash!NULL => curr' >= curr]_Hash!vars
  BY HashStepInv
<1> QED
  BY <1>1, <1>2, <1>3, PTL DEF Hash!Spec, Hash!NeverBack

-----------------------------------------------------------------------------
(* The hash is an ordered map.                                             *)

\* A sequence has the numbers of a set, in their order.
Lists(p, L) ==
    /\ p \in Seq(L)
    /\ \A i, j \in 1 .. Len(p) : i < j => p[i] < p[j]
    /\ \A m \in L : \E i \in 1 .. Len(p) : p[i] = m

LEMMA ListsPrefix ==
    ASSUME NEW L \in SUBSET Nat, NEW p, NEW q, Lists(p, L), Lists(q, L)
    PROVE  Len(p) <= Len(q) /\ \A i \in 1 .. Len(p) : p[i] = q[i]
<1> DEFINE n == Len(p)
           m == Len(q)
           G == {i \in 0 .. n : i <= m /\ \A j \in 1 .. i : p[j] = q[j]}
<1>1. /\ n \in Nat /\ m \in Nat
      /\ \A i \in 1 .. n : p[i] \in L /\ p[i] \in Nat
      /\ \A i \in 1 .. m : q[i] \in L /\ q[i] \in Nat
  <2>1. p \in Seq(L) /\ q \in Seq(L)
    BY DEF Lists
  <2>2. n \in Nat /\ m \in Nat /\ (\A i \in 1 .. n : p[i] \in L) /\ (\A i \in 1 .. m : q[i] \in L)
    BY <2>1
  <2> QED
    BY <2>2
<1>2. /\ \A i, j \in 1 .. n : i < j => p[i] < p[j]
      /\ \A i, j \in 1 .. m : i < j => q[i] < q[j]
      /\ \A x \in L : \E i \in 1 .. n : p[i] = x
      /\ \A x \in L : \E i \in 1 .. m : q[i] = x
  BY DEF Lists
<1> HIDE DEF n, m
<1>3. 0 \in G
  BY <1>1
<1>4. ASSUME NEW i \in 0 .. n - 1, i \in G PROVE i + 1 \in G
  <2>0. i \in Nat /\ i + 1 \in 1 .. n /\ i <= m /\ \A j \in 1 .. i : p[j] = q[j]
    BY <1>1, <1>4
  <2>1. PICK j \in 1 .. m : q[j] = p[i + 1]
    BY <1>1, <1>2, <2>0
  <2>2. ~(j <= i)
    <3>1. ASSUME j <= i PROVE FALSE
      <4>1. j \in 1 .. i /\ j \in 1 .. n /\ j < i + 1
        BY <1>1, <2>0, <3>1
      <4>2. p[j] = q[j] /\ p[j] < p[i + 1]
        BY <1>2, <2>0, <4>1
      <4> QED
        BY <1>1, <2>0, <2>1, <4>2
    <3> QED
      BY <3>1
  <2>3. i + 1 \in 1 .. m
    BY <1>1, <2>0, <2>1, <2>2
  <2>4. q[i + 1] <= q[j]
    BY <1>1, <1>2, <2>0, <2>1, <2>2, <2>3
  <2>5. PICK k \in 1 .. n : p[k] = q[i + 1]
    BY <1>1, <1>2, <2>3
  <2>6. ~(k <= i)
    <3>1. ASSUME k <= i PROVE FALSE
      <4>1. k \in 1 .. i /\ k \in 1 .. m /\ k < i + 1
        BY <1>1, <2>0, <3>1
      <4>2. p[k] = q[k] /\ q[k] < q[i + 1]
        BY <1>2, <2>0, <2>3, <4>1
      <4> QED
        BY <1>1, <2>3, <2>5, <4>2
    <3> QED
      BY <3>1
  <2>7. p[i + 1] <= p[k]
    BY <1>1, <1>2, <2>0, <2>5, <2>6
  <2>8. p[i + 1] = q[i + 1]
    BY <1>1, <2>0, <2>1, <2>3, <2>4, <2>5, <2>7
  <2>9. i + 1 <= m
    BY <1>1, <2>3
  <2>10. \A l \in 1 .. i + 1 : p[l] = q[l]
    <3> SUFFICES ASSUME NEW l \in 1 .. i + 1 PROVE p[l] = q[l]
      OBVIOUS
    <3>1. l = i + 1 \/ l \in 1 .. i
      BY <2>0
    <3> QED
      BY <2>0, <2>8, <3>1
  <2>11. i + 1 \in 0 .. n
    BY <1>1, <2>0
  <2> QED
    BY <2>9, <2>10, <2>11
<1>5. n \in G
  <2> HIDE DEF G
  <2>1. 0 .. n \subseteq G
    BY <1>1, <1>3, <1>4, Climb
  <2> QED
    BY <1>1, <2>1
<1>6. n <= m /\ \A j \in 1 .. n : p[j] = q[j]
  BY <1>5
<1> QED
  BY <1>6 DEF n, m

\* A set of numbers is listed in one way.
LEMMA ListsOnce ==
    ASSUME NEW L \in SUBSET Nat, NEW p, NEW q, Lists(p, L), Lists(q, L)
    PROVE  p = q
<1>1. Len(p) <= Len(q) /\ Len(q) <= Len(p) /\ \A i \in 1 .. Len(p) : p[i] = q[i]
  BY ListsPrefix
<1>2. p \in Seq(L) /\ q \in Seq(L)
  BY DEF Lists
<1>3. Len(p) \in Nat /\ Len(q) \in Nat
  BY <1>2
<1>4. Len(p) = Len(q)
  BY <1>1, <1>3
<1> QED
  BY <1>1, <1>2, <1>4

LEMMA ListsEmpty == Lists(<< >>, {})
BY DEF Lists

\* A number in front of all others, and one behind all others.
LEMMA ListsInFront ==
    ASSUME NEW L \in SUBSET Nat, NEW p, Lists(p, L), NEW n \in Nat, \A m \in L : n < m
    PROVE  Lists(<<n>> \o p, L \cup {n})
<1> DEFINE q == <<n>> \o p
<1>1. p \in Seq(L) /\ Len(p) \in Nat /\ \A i \in 1 .. Len(p) : p[i] \in L
  BY DEF Lists
<1>2. /\ q \in Seq(L \cup {n}) /\ Len(q) = Len(p) + 1 /\ q[1] = n
      /\ \A i \in 2 .. Len(q) : q[i] = p[i - 1]
  <2>1. <<n>> \in Seq(L \cup {n}) /\ p \in Seq(L \cup {n}) /\ Len(<<n>>) = 1 /\ <<n>>[1] = n
    BY <1>1
  <2> QED
    BY <1>1, <2>1, ConcatProperties
<1> HIDE DEF q
<1>3. ASSUME NEW i \in 1 .. Len(q), NEW j \in 1 .. Len(q), i < j PROVE q[i] < q[j]
  <2>1. j - 1 \in 1 .. Len(p) /\ q[j] = p[j - 1]
    BY <1>1, <1>2, <1>3
  <2>2. CASE i = 1
    BY <1>1, <1>2, <2>1, <2>2
  <2>3. CASE i # 1
    <3>1. i - 1 \in 1 .. Len(p) /\ q[i] = p[i - 1] /\ i - 1 < j - 1
      BY <1>1, <1>2, <1>3, <2>3
    <3> QED
      BY <2>1, <3>1 DEF Lists
  <2> QED
    BY <2>2, <2>3
<1>4. ASSUME NEW m \in L \cup {n} PROVE \E i \in 1 .. Len(q) : q[i] = m
  <2>1. CASE m = n
    <3>1. 1 \in 1 .. Len(q)
      BY <1>1, <1>2
    <3> QED
      BY <1>2, <2>1, <3>1
  <2>2. CASE m \in L
    <3>1. PICK i \in 1 .. Len(p) : p[i] = m
      BY <2>2 DEF Lists
    <3>2. i + 1 \in 2 .. Len(q) /\ i + 1 \in 1 .. Len(q) /\ i + 1 - 1 = i
      BY <1>1, <1>2
    <3>3. q[i + 1] = m
      BY <1>2, <3>1, <3>2
    <3> QED
      BY <3>2, <3>3
  <2> QED
    BY <2>1, <2>2
<1>5. Lists(q, L \cup {n})
  BY <1>2, <1>3, <1>4 DEF Lists
<1> QED
  BY <1>5 DEF q

LEMMA ListsBehind ==
    ASSUME NEW L \in SUBSET Nat, NEW p, Lists(p, L), NEW n \in Nat, \A m \in L : m < n
    PROVE  Lists(Append(p, n), L \cup {n})
<1> DEFINE q == Append(p, n)
<1>1. p \in Seq(L) /\ Len(p) \in Nat /\ \A i \in 1 .. Len(p) : p[i] \in L
  BY DEF Lists
<1>2. /\ q \in Seq(L \cup {n}) /\ Len(q) = Len(p) + 1 /\ q[Len(p) + 1] = n
      /\ \A i \in 1 .. Len(p) : q[i] = p[i]
  <2>1. p \in Seq(L \cup {n}) /\ n \in L \cup {n}
    BY <1>1
  <2> QED
    BY <1>1, <2>1, AppendProperties
<1> HIDE DEF q
<1>3. ASSUME NEW i \in 1 .. Len(q), NEW j \in 1 .. Len(q), i < j PROVE q[i] < q[j]
  <2>1. i \in 1 .. Len(p) /\ q[i] = p[i]
    BY <1>1, <1>2, <1>3
  <2>2. CASE j = Len(p) + 1
    BY <1>1, <1>2, <2>1, <2>2
  <2>3. CASE j # Len(p) + 1
    <3>1. j \in 1 .. Len(p) /\ q[j] = p[j]
      BY <1>1, <1>2, <2>3
    <3> QED
      BY <1>3, <2>1, <3>1 DEF Lists
  <2> QED
    BY <2>2, <2>3
<1>4. ASSUME NEW m \in L \cup {n} PROVE \E i \in 1 .. Len(q) : q[i] = m
  <2>1. CASE m = n
    <3>1. Len(p) + 1 \in 1 .. Len(q)
      BY <1>1, <1>2
    <3> QED
      BY <1>2, <2>1, <3>1
  <2>2. CASE m \in L
    <3>1. PICK i \in 1 .. Len(p) : p[i] = m
      BY <2>2 DEF Lists
    <3>2. i \in 1 .. Len(q)
      BY <1>1, <1>2
    <3> QED
      BY <1>2, <3>1, <3>2
  <2> QED
    BY <2>1, <2>2
<1>5. Lists(q, L \cup {n})
  BY <1>2, <1>3, <1>4 DEF Lists
<1> QED
  BY <1>5 DEF q

\* A sequence without one of its elements.
Without(s, i) == [j \in 1 .. Len(s) - 1 |-> IF j < i THEN s[j] ELSE s[j + 1]]

LEMMA ListsWithout ==
    ASSUME NEW L \in SUBSET Nat, NEW p, Lists(p, L), NEW i \in 1 .. Len(p)
    PROVE  Lists(Without(p, i), L \ {p[i]}) /\ Len(Without(p, i)) = Len(p) - 1
<1> DEFINE q == Without(p, i)
           n == Len(p)
<1>1. /\ p \in Seq(L) /\ n \in Nat /\ n - 1 \in Nat /\ i \in 1 .. n
      /\ \A j \in 1 .. n : p[j] \in L /\ p[j] \in Nat
  <2>1. p \in Seq(L)
    BY DEF Lists
  <2>2. n \in Nat /\ \A j \in 1 .. n : p[j] \in L
    BY <2>1
  <2>3. n - 1 \in Nat
    BY <2>2
  <2> QED
    BY <2>1, <2>2, <2>3
<1>2. /\ \A j, k \in 1 .. n : j < k => p[j] < p[k]
      /\ \A m \in L : \E j \in 1 .. n : p[j] = m
  BY DEF Lists
<1>3. \A j \in 1 .. n - 1 : /\ j \in 1 .. n /\ j + 1 \in 1 .. n
                            /\ q[j] = IF j < i THEN p[j] ELSE p[j + 1]
  BY <1>1 DEF Without
<1>4. \A j, k \in 1 .. n : j # k => p[j] # p[k]
  <2> SUFFICES ASSUME NEW j \in 1 .. n, NEW k \in 1 .. n, j # k PROVE p[j] # p[k]
    OBVIOUS
  <2>1. j < k \/ k < j
    BY <1>1
  <2> QED
    BY <1>1, <1>2, <2>1
<1> DEFINE K == L \ {p[i]}
<1>5. \A j \in 1 .. n - 1 : q[j] \in K
  <2> SUFFICES ASSUME NEW j \in 1 .. n - 1 PROVE q[j] \in K
    OBVIOUS
  <2>1. CASE j < i
    BY <1>1, <1>3, <1>4, <2>1
  <2>2. CASE ~(j < i)
    <3>1. j + 1 # i
      BY <1>1, <2>2
    <3> QED
      BY <1>1, <1>3, <1>4, <2>2, <3>1
  <2> QED
    BY <2>1, <2>2
<1>6. q = [j \in 1 .. n - 1 |-> IF j < i THEN p[j] ELSE p[j + 1]]
  BY DEF Without
<1> HIDE DEF q, n, K
<1>7. q \in [1 .. n - 1 -> K]
  BY <1>5, <1>6
<1>8. q \in Seq(K) /\ Len(q) = n - 1
  BY <1>1, <1>7
<1>9. ASSUME NEW j \in 1 .. n - 1, NEW k \in 1 .. n - 1, j < k PROVE q[j] < q[k]
  <2> DEFINE a == IF j < i THEN j ELSE j + 1
             b == IF k < i THEN k ELSE k + 1
  <2>1. a \in 1 .. n /\ b \in 1 .. n /\ a < b
    BY <1>1, <1>9
  <2>2. q[j] = p[a] /\ q[k] = p[b]
    BY <1>3
  <2> QED
    BY <1>2, <2>1, <2>2
<1>10. ASSUME NEW m \in K PROVE \E j \in 1 .. n - 1 : q[j] = m
  <2>1. m \in L /\ m # p[i]
    BY DEF K
  <2>2. PICK j \in 1 .. n : p[j] = m
    BY <1>2, <2>1
  <2>3. j # i
    BY <2>1, <2>2
  <2>4. CASE j < i
    <3>1. j \in 1 .. n - 1
      BY <1>1, <2>4
    <3> QED
      BY <1>3, <2>2, <2>4, <3>1
  <2>5. CASE i < j
    <3>1. j - 1 \in 1 .. n - 1 /\ ~(j - 1 < i) /\ j - 1 + 1 = j
      BY <1>1, <2>5
    <3>2. q[j - 1] = m
      BY <1>3, <2>2, <3>1
    <3> QED
      BY <3>1, <3>2
  <2> QED
    BY <1>1, <2>3, <2>4, <2>5
<1>11. Lists(q, K) /\ Len(q) = n - 1
  BY <1>8, <1>9, <1>10 DEF Lists
<1> QED
  BY <1>11 DEF q, n, K

Entry(n) == [key |-> key[n], item |-> item[n]]

\* The entries of the nodes that follow one another from each node on.
Chain(f) ==
    f = [n \in 0 .. MaxNodes |->
            IF n = Hash!NULL THEN << >> ELSE <<[key |-> key[n], item |-> item[n]]>> \o f[next[n]]]

LEMMA ChainExists ==
    ASSUME Hash!HashAssumption, Hash!TypeOK, NextInv
    PROVE  \E f : Chain(f)
<1> DEFINE E == [key : Keys \cup {NoKey}, item : Values \cup {NoItem}]
           S == Seq(E)
           h == [n \in Hash!Addrs |-> [v \in S |-> <<Entry(n)>> \o v]]
<1>1. MaxNodes \in Nat /\ Hash!Addrs = 1 .. MaxNodes /\ Hash!NULL = 0
  BY DEF Hash!HashAssumption, Hash!Addrs, Hash!NULL
<1>2. \A n \in Hash!Addrs : Entry(n) \in E
  BY DEF Entry, Hash!TypeOK
<1> HIDE DEF E
<1>3. << >> \in S /\ h \in [Hash!Addrs -> [S -> S]]
  <2>1. ASSUME NEW n \in Hash!Addrs, NEW v \in S PROVE <<Entry(n)>> \o v \in S
    <3>1. <<Entry(n)>> \in Seq(E)
      BY <1>2
    <3> QED
      BY <3>1
  <2>2. << >> \in S
    OBVIOUS
  <2> HIDE DEF S
  <2> QED
    BY <2>1, <2>2
<1>4. PICK f \in [0 .. MaxNodes -> S] : f[0] = << >> /\ \A n \in 1 .. MaxNodes : f[n] = h[n][f[next[n]]]
  <2> HIDE DEF h, S
  <2> QED
    BY <1>3, AlongExists
<1>5. \A n \in 1 .. MaxNodes : next[n] \in 0 .. MaxNodes
  BY <1>1 DEF Hash!TypeOK
<1> HIDE DEF S
<1>6. \A n \in 1 .. MaxNodes : f[n] = <<[key |-> key[n], item |-> item[n]]>> \o f[next[n]]
  <2> SUFFICES ASSUME NEW n \in 1 .. MaxNodes
               PROVE  f[n] = <<[key |-> key[n], item |-> item[n]]>> \o f[next[n]]
    OBVIOUS
  <2>1. h[n] = [v \in S |-> <<Entry(n)>> \o v]
    BY <1>1
  <2>2. f[next[n]] \in S
    BY <1>4, <1>5
  <2>3. h[n][f[next[n]]] = <<Entry(n)>> \o f[next[n]]
    BY <2>1, <2>2
  <2> QED
    BY <1>4, <2>3 DEF Entry
<1>7. \A n \in 0 .. MaxNodes :
          f[n] = IF n = Hash!NULL THEN << >> ELSE <<[key |-> key[n], item |-> item[n]]>> \o f[next[n]]
  <2> SUFFICES ASSUME NEW n \in 0 .. MaxNodes
               PROVE  f[n] = IF n = Hash!NULL THEN << >>
                             ELSE <<[key |-> key[n], item |-> item[n]]>> \o f[next[n]]
    OBVIOUS
  <2>1. n = 0 \/ n \in 1 .. MaxNodes
    BY <1>1
  <2> QED
    BY <1>1, <1>4, <1>6, <2>1
<1>8. Chain(f)
  BY <1>7 DEF Chain
<1> QED
  BY <1>8

\* The entries of the nodes of a sequence.
EntriesOf(p) == [i \in 1 .. Len(p) |-> Entry(p[i])]

LEMMA EntriesInFront ==
    ASSUME NEW L, NEW p \in Seq(L), NEW n
    PROVE  EntriesOf(<<n>> \o p) = <<Entry(n)>> \o EntriesOf(p)
<1> DEFINE q == <<n>> \o p
           E == {Entry(p[i]) : i \in 1 .. Len(p)}
           l == <<Entry(n)>> \o EntriesOf(p)
<1>1. Len(p) \in Nat
  OBVIOUS
<1>2. EntriesOf(p) \in Seq(E \cup {Entry(n)}) /\ Len(EntriesOf(p)) = Len(p)
      /\ \A i \in 1 .. Len(p) : EntriesOf(p)[i] = Entry(p[i])
  BY <1>1 DEF EntriesOf
<1>3. /\ q \in Seq(L \cup {n}) /\ Len(q) = Len(p) + 1
      /\ \A i \in 1 .. Len(q) : q[i] = IF i = 1 THEN n ELSE p[i - 1]
  <2>1. <<n>> \in Seq(L \cup {n}) /\ p \in Seq(L \cup {n}) /\ Len(<<n>>) = 1 /\ <<n>>[1] = n
    OBVIOUS
  <2> QED
    BY <1>1, <2>1, ConcatProperties
<1>4. /\ Len(l) = Len(p) + 1 /\ l \in Seq(E \cup {Entry(n)})
      /\ \A i \in 1 .. Len(l) : l[i] = IF i = 1 THEN Entry(n) ELSE EntriesOf(p)[i - 1]
  <2>1. <<Entry(n)>> \in Seq(E \cup {Entry(n)}) /\ Len(<<Entry(n)>>) = 1 /\ <<Entry(n)>>[1] = Entry(n)
    OBVIOUS
  <2> HIDE DEF E
  <2> QED
    BY <1>1, <1>2, <2>1, ConcatProperties
<1> HIDE DEF q, l
<1>5. \A i \in 1 .. Len(p) + 1 : Entry(q[i]) = l[i]
  <2> SUFFICES ASSUME NEW i \in 1 .. Len(p) + 1 PROVE Entry(q[i]) = l[i]
    OBVIOUS
  <2>1. CASE i = 1
    BY <1>1, <1>3, <1>4, <2>1
  <2>2. CASE i # 1
    <3>1. i - 1 \in 1 .. Len(p)
      BY <1>1, <2>2
    <3> QED
      BY <1>1, <1>2, <1>3, <1>4, <2>2, <3>1
  <2> QED
    BY <2>1, <2>2
<1>6. l = [i \in 1 .. Len(p) + 1 |-> l[i]]
  BY <1>1, <1>4
<1>7. EntriesOf(q) = l
  BY <1>3, <1>5, <1>6 DEF EntriesOf
<1> QED
  BY <1>7 DEF q, l

\* From a live node on the chain has the entries of the live nodes that are not in front
\* of it.
LEMMA ChainLists ==
    ASSUME Hash!HashAssumption, Hash!TypeOK, NextInv, ListInv, NEW f, Chain(f), NEW n \in Hash!Live
    PROVE  \E p : Lists(p, {m \in Hash!Live : m >= n}) /\ f[n] = EntriesOf(p)
<1> DEFINE From(m) == {l \in Hash!Live : l >= m}
           Right(m) == \E p : Lists(p, From(m)) /\ f[m] = EntriesOf(p)
           G == {d \in 0 .. MaxNodes : \A m \in Hash!Live : m >= MaxNodes - d => Right(m)}
<1>1. /\ MaxNodes \in Nat /\ used \in 0 .. MaxNodes /\ Hash!Live \subseteq 1 .. MaxNodes
      /\ Hash!Live \in SUBSET Nat /\ \A m \in Hash!Live : m \in Hash!Addrs /\ m # Hash!NULL
  BY DEF Hash!HashAssumption, Hash!TypeOK, Hash!Live, Hash!Addrs, Hash!NULL
<1>2. ASSUME NEW m \in Hash!Live, \A l \in Hash!Live : l > m => Right(l)
      PROVE  Right(m)
  <2>1. f[m] = <<Entry(m)>> \o f[next[m]]
    <3>1. m \in 0 .. MaxNodes /\ m # Hash!NULL
      BY <1>1 DEF Hash!NULL
    <3>2. f[m] = <<[key |-> key[m], item |-> item[m]]>> \o f[next[m]]
      BY <3>1 DEF Chain
    <3> QED
      BY <3>2 DEF Entry
  <2>2. PICK L, p : Lists(p, L) /\ f[next[m]] = EntriesOf(p) /\ L \in SUBSET Nat
                    /\ (\A l \in L : m < l) /\ From(m) = L \cup {m}
    <3>1. Follows(Hash!Live, m, next[m])
      BY DEF ListInv
    <3>2. CASE next[m] = Hash!NULL
      <4>1. f[next[m]] = << >>
        BY <1>1, <3>2 DEF Chain, Hash!NULL
      <4>2. EntriesOf(<< >>) = << >>
        BY DEF EntriesOf
      <4>3. From(m) = {} \cup {m}
        <5>1. \A l \in Hash!Live : l <= m
          BY <1>1, <3>1, <3>2 DEF Follows
        <5>2. \A l \in Hash!Live : l \in Nat
          BY <1>1
        <5> QED
          BY <5>1, <5>2
      <4> QED
        BY <4>1, <4>2, <4>3, ListsEmpty
    <3>3. CASE next[m] # Hash!NULL
      <4>1. next[m] \in Hash!Live /\ next[m] > m /\ \A l \in Hash!Live : l > m => next[m] <= l
        BY <3>1, <3>3 DEF Follows
      <4>2. Right(next[m])
        BY <1>2, <4>1
      <4>3. From(m) = From(next[m]) \cup {m} /\ \A l \in From(next[m]) : m < l
        <5>1. \A l \in Hash!Live : l \in Nat
          BY <1>1
        <5> QED
          BY <4>1, <5>1
      <4>4. From(next[m]) \in SUBSET Nat
        BY <1>1
      <4> QED
        BY <4>2, <4>3, <4>4
    <3> QED
      BY <3>2, <3>3
  <2>3. m \in Nat
    BY <1>1
  <2>4. Lists(<<m>> \o p, L \cup {m})
    BY <2>2, <2>3, ListsInFront
  <2>5. f[m] = EntriesOf(<<m>> \o p)
    <3>1. p \in Seq(L)
      BY <2>2 DEF Lists
    <3> QED
      BY <2>1, <2>2, <3>1, EntriesInFront
  <2>6. Lists(<<m>> \o p, From(m))
    BY <2>2, <2>4
  <2> QED
    BY <2>5, <2>6
<1> HIDE DEF Right
<1>4. 0 \in G
  <2>1. ASSUME NEW m \in Hash!Live, m >= MaxNodes PROVE Right(m)
    <3>1. \A l \in Hash!Live : ~(l > m)
      BY <1>1, <2>1
    <3> QED
      BY <1>2, <3>1
  <2> QED
    BY <1>1, <2>1
<1>5. ASSUME NEW d \in 0 .. MaxNodes - 1, d \in G PROVE d + 1 \in G
  <2>1. ASSUME NEW m \in Hash!Live, m >= MaxNodes - (d + 1) PROVE Right(m)
    <3>1. \A l \in Hash!Live : l > m => l >= MaxNodes - d
      BY <1>1, <2>1
    <3>2. \A l \in Hash!Live : l > m => Right(l)
      BY <1>5, <3>1
    <3> QED
      BY <1>2, <3>2
  <2> QED
    BY <1>1, <2>1
<1>6. MaxNodes \in G
  <2> HIDE DEF G
  <2>1. 0 .. MaxNodes \subseteq G
    BY <1>1, <1>4, <1>5, Climb
  <2> QED
    BY <1>1, <2>1
<1>7. n >= MaxNodes - MaxNodes
  BY <1>1
<1>8. Right(n)
  BY <1>6, <1>7
<1> QED
  BY <1>8 DEF Right

\* The entries along the list are those of the live nodes, in their order.
LEMMA ListedIs ==
    Hash!HashAssumption /\ HashInv => \E p : Lists(p, Hash!Live) /\ Hash!Listed = EntriesOf(p)
<1> SUFFICES ASSUME Hash!HashAssumption, HashInv
             PROVE  \E p : Lists(p, Hash!Live) /\ Hash!Listed = EntriesOf(p)
  OBVIOUS
<1>1. Hash!TypeOK /\ NextInv /\ ListInv
  BY DEF HashInv
<1>2. /\ MaxNodes \in Nat /\ Hash!NULL = 0 /\ \A m \in Hash!Live : m \in Nat /\ m > 0
      /\ (first = Hash!NULL <=> Hash!Live = {}) /\ (first # Hash!NULL => first \in Hash!Live)
  BY Basics
<1> DEFINE f == CHOOSE g : Chain(g)
<1>3. Chain(f)
  BY <1>1, ChainExists
<1>4. Hash!Listed = f[first]
  BY DEF Hash!Listed, Chain
<1> HIDE DEF f
<1>5. CASE first = Hash!NULL
  <2>1. f[first] = << >>
    BY <1>2, <1>3, <1>5 DEF Chain
  <2>2. EntriesOf(<< >>) = << >>
    BY DEF EntriesOf
  <2> QED
    BY <1>2, <1>4, <1>5, <2>1, <2>2, ListsEmpty
<1>6. CASE first # Hash!NULL
  <2>1. \A m \in Hash!Live : first <= m
    BY <1>1, <1>2, <1>6 DEF ListInv, Follows
  <2>2. {m \in Hash!Live : m >= first} = Hash!Live
    BY <1>2, <1>6, <2>1
  <2>3. \E p : Lists(p, {m \in Hash!Live : m >= first}) /\ f[first] = EntriesOf(p)
    BY <1>1, <1>2, <1>3, <1>6, ChainLists
  <2> QED
    BY <1>4, <2>2, <2>3
<1> QED
  BY <1>5, <1>6

LEMMA ListedNext ==
    ASSUME Hash!HashAssumption, HashInv'
    PROVE  \E q : Lists(q, Hash!Live') /\
               Hash!Listed' = [i \in 1 .. Len(q) |-> [key |-> key'[q[i]], item |-> item'[q[i]]]]
<1>1. (Hash!HashAssumption /\ HashInv => \E p : Lists(p, Hash!Live) /\ Hash!Listed = EntriesOf(p))'
  BY ListedIs, PTL
<1>2. PICK q : Lists(q, Hash!Live') /\ Hash!Listed' = EntriesOf(q)'
  BY <1>1
<1> QED
  BY <1>2 DEF EntriesOf, Entry

\* What is true of a step that leaves the nodes and the list as they are.
LEMMA ListedKept ==
    ASSUME UNCHANGED <<key, item, next, first>>
    PROVE  Hash!Listed' = Hash!Listed
BY DEF Hash!Listed

\* The entries of a listing, and where the node with a key is in it.
LEMMA KeyIn ==
    ASSUME Hash!HashAssumption, HashInv, NEW p, Lists(p, Hash!Live), Hash!Listed = EntriesOf(p)
    PROVE  /\ p \in Seq(Hash!Live) /\ Len(p) \in Nat /\ Hash!Live \in SUBSET Nat
           /\ DOMAIN Hash!Listed = 1 .. Len(p) /\ Len(Hash!Listed) = Len(p)
           /\ \A i \in 1 .. Len(p) : p[i] \in Hash!Live /\ Hash!Listed[i] = Entry(p[i])
                                     /\ Hash!Map!KeyAt(i) = key[p[i]]
           /\ \A i, j \in 1 .. Len(p) : key[p[i]] = key[p[j]] => i = j
<1>1. p \in Seq(Hash!Live) /\ Len(p) \in Nat /\ \A i \in 1 .. Len(p) : p[i] \in Hash!Live
  BY DEF Lists
<1>2. Hash!Listed = [i \in 1 .. Len(p) |-> Entry(p[i])]
  BY DEF EntriesOf
<1>3. DOMAIN Hash!Listed = 1 .. Len(p) /\ \A i \in 1 .. Len(p) : Hash!Listed[i] = Entry(p[i])
  BY <1>2
<1>4. Len(Hash!Listed) = Len(p)
  <2> DEFINE E == {Entry(p[i]) : i \in 1 .. Len(p)}
  <2>1. Hash!Listed \in [1 .. Len(p) -> E]
    BY <1>2
  <2> HIDE DEF E
  <2> QED
    BY <1>1, <2>1
<1>5. \A i \in 1 .. Len(p) : Hash!Map!KeyAt(i) = key[p[i]]
  BY <1>3 DEF Hash!Map!KeyAt, Entry
<1>6. /\ \A m \in Hash!Live : m \in Nat
      /\ \A m, n \in Hash!Live : key[m] = key[n] => m = n
  BY Basics DEF HashInv, BucketInv
<1>7. ASSUME NEW i \in 1 .. Len(p), NEW j \in 1 .. Len(p), key[p[i]] = key[p[j]] PROVE i = j
  <2>1. p[i] = p[j] /\ p[i] \in Nat
    BY <1>1, <1>6, <1>7
  <2>2. i < j => p[i] < p[j]
    BY DEF Lists
  <2>3. j < i => p[j] < p[i]
    BY DEF Lists
  <2> QED
    BY <1>1, <2>1, <2>2, <2>3
<1> QED
  BY <1>1, <1>3, <1>4, <1>5, <1>6, <1>7

\* An item is put in place of the one that its key has.
LEMMA UpdateIsPut ==
    ASSUME Hash!HashAssumption, HashInv, HashInv', NEW k \in Keys, NEW x \in Values, Hash!Update(k, x)
    PROVE  Hash!Map!Put(k, x)
<1> DEFINE n == Hash!FindWithBucket(k)
<1>1. /\ n # Hash!NULL /\ item' = [item EXCEPT ![n] = x]
      /\ UNCHANGED <<used, key, prev, next, bucket, first, last, size, curr, gone>>
  BY DEF Hash!Update
<1>2. PICK p : Lists(p, Hash!Live) /\ Hash!Listed = EntriesOf(p)
  BY ListedIs
<1>3. Hash!Live' = Hash!Live
  BY <1>1 DEF Hash!Live
<1>4. Hash!Listed' = [i \in 1 .. Len(p) |-> [key |-> key[p[i]], item |-> item'[p[i]]]]
  <2>1. \E q : Lists(q, Hash!Live')
          /\ Hash!Listed' = [i \in 1 .. Len(q) |-> [key |-> key'[q[i]], item |-> item'[q[i]]]]
    BY ListedNext
  <2>2. PICK q : Lists(q, Hash!Live')
          /\ Hash!Listed' = [i \in 1 .. Len(q) |-> [key |-> key'[q[i]], item |-> item'[q[i]]]]
    BY <2>1
  <2>3. Hash!Live \in SUBSET Nat
    BY <1>2, KeyIn
  <2>4. q = p
    BY <1>2, <1>3, <2>2, <2>3, ListsOnce
  <2> QED
    BY <1>1, <2>2, <2>4
<1>5. /\ Len(p) \in Nat /\ DOMAIN Hash!Listed = 1 .. Len(p)
      /\ \A i \in 1 .. Len(p) : p[i] \in Hash!Live /\ Hash!Listed[i] = Entry(p[i])
                                /\ Hash!Map!KeyAt(i) = key[p[i]]
      /\ \A i, j \in 1 .. Len(p) : key[p[i]] = key[p[j]] => i = j
  BY <1>2, KeyIn
<1>6. n \in Hash!Live /\ key[n] = k /\ n \in Hash!Addrs
  <2>1. IsNodeOf(k, n)
    BY Searches DEF HashInv
  <2> QED
    BY <1>1, <2>1, Basics DEF IsNodeOf
<1>7. PICK i \in 1 .. Len(p) : p[i] = n
  BY <1>2, <1>6 DEF Lists
<1>8. Hash!Map!Holds(k)
  BY <1>5, <1>6, <1>7 DEF Hash!Map!Holds
<1>9. \A j \in 1 .. Len(p) : [key |-> key[p[j]], item |-> item'[p[j]]] =
          IF Hash!Map!KeyAt(j) = k THEN [key |-> k, item |-> x] ELSE Hash!Listed[j]
  <2> SUFFICES ASSUME NEW j \in 1 .. Len(p)
               PROVE  [key |-> key[p[j]], item |-> item'[p[j]]] =
                          IF Hash!Map!KeyAt(j) = k THEN [key |-> k, item |-> x] ELSE Hash!Listed[j]
    OBVIOUS
  <2>0. item \in [Hash!Addrs -> Values \cup {NoItem}]
    BY DEF HashInv, Hash!TypeOK
  <2>1. CASE j = i
    <3>1. item'[n] = x
      BY <1>1, <1>6, <2>0
    <3> QED
      BY <1>5, <1>6, <1>7, <2>1, <3>1
  <2>2. CASE j # i
    <3>1. key[p[j]] # k
      BY <1>5, <1>6, <1>7, <2>2
    <3>2. p[j] # n /\ p[j] \in Hash!Addrs
      BY <1>5, <1>6, <3>1, Basics
    <3>3. item'[p[j]] = item[p[j]]
      BY <1>1, <2>0, <3>2
    <3> QED
      BY <1>5, <3>1, <3>3 DEF Entry
  <2> QED
    BY <2>1, <2>2
<1>10. Hash!Listed' = [j \in DOMAIN Hash!Listed |->
            IF Hash!Map!KeyAt(j) = k THEN [key |-> k, item |-> x] ELSE Hash!Listed[j]]
  BY <1>4, <1>5, <1>9
<1> QED
  BY <1>8, <1>10 DEF Hash!Map!Put

\* A new key goes to the end.
LEMMA AddIsPut ==
    ASSUME Hash!HashAssumption, HashInv, HashInv', NEW k \in Keys, NEW x \in Values, Hash!Add(k, x)
    PROVE  Hash!Map!Put(k, x)
<1> DEFINE n == used + 1
<1>1. /\ Hash!FindWithBucket(k) = Hash!NULL /\ n \in Hash!Addrs /\ used' = n
      /\ key' = [key EXCEPT ![n] = k] /\ item' = [item EXCEPT ![n] = x]
  BY DEF Hash!Add
<1>2. PICK p : Lists(p, Hash!Live) /\ Hash!Listed = EntriesOf(p)
  BY ListedIs
<1>3. /\ Len(p) \in Nat /\ DOMAIN Hash!Listed = 1 .. Len(p) /\ Len(Hash!Listed) = Len(p)
      /\ p \in Seq(Hash!Live) /\ Hash!Live \in SUBSET Nat
      /\ \A i \in 1 .. Len(p) : p[i] \in Hash!Live /\ Hash!Listed[i] = Entry(p[i])
                                /\ Hash!Map!KeyAt(i) = key[p[i]]
  BY <1>2, KeyIn
<1>4. /\ used \in Nat /\ Hash!Live \subseteq 1 .. used /\ Hash!Addrs = 1 .. MaxNodes /\ Hash!NULL = 0
      /\ \A m \in Hash!Live : m \in Nat /\ m \in Hash!Addrs /\ m > 0
  BY Basics
<1>5. k # NoKey /\ \A m \in Hash!Live : key[m] # k
  <2>1. IsNodeOf(k, Hash!NULL)
    BY <1>1, Searches DEF HashInv
  <2> QED
    BY <1>4, <2>1 DEF IsNodeOf, Hash!HashAssumption
<1>6. key \in [Hash!Addrs -> Keys \cup {NoKey}] /\ item \in [Hash!Addrs -> Values \cup {NoItem}]
  BY DEF HashInv, Hash!TypeOK
<1>7. /\ key'[n] = k /\ item'[n] = x
      /\ \A m \in Hash!Addrs : m # n => key'[m] = key[m] /\ item'[m] = item[m]
  BY <1>1, <1>6
<1>8. Hash!Live' = Hash!Live \cup {n} /\ n \in Nat /\ \A m \in Hash!Live : m < n
  BY <1>1, <1>4, <1>5, <1>7 DEF Hash!Live
<1> DEFINE q == Append(p, n)
<1>9. Lists(q, Hash!Live')
  BY <1>2, <1>3, <1>8, ListsBehind
<1>10. /\ Len(q) = Len(p) + 1 /\ q[Len(p) + 1] = n
       /\ \A i \in 1 .. Len(p) : q[i] = p[i]
  <2>1. p \in Seq(Hash!Live \cup {n}) /\ n \in Hash!Live \cup {n}
    BY <1>3
  <2> QED
    BY <1>3, <2>1, AppendProperties
<1>11. Hash!Listed' = [i \in 1 .. Len(q) |-> [key |-> key'[q[i]], item |-> item'[q[i]]]]
  <2>1. PICK r : Lists(r, Hash!Live')
          /\ Hash!Listed' = [i \in 1 .. Len(r) |-> [key |-> key'[r[i]], item |-> item'[r[i]]]]
    BY ListedNext
  <2>2. Hash!Live' \in SUBSET Nat
    BY <1>3, <1>8
  <2>3. r = q
    <3> HIDE DEF q
    <3> QED
      BY <1>9, <2>1, <2>2, ListsOnce
  <2> QED
    BY <2>1, <2>3
<1> HIDE DEF q
<1> DEFINE e == [key |-> k, item |-> x]
           E == {Entry(p[i]) : i \in 1 .. Len(p)} \cup {e}
           a == Append(Hash!Listed, e)
<1>12. Hash!Listed \in Seq(E) /\ e \in E
  <2>1. Hash!Listed = [i \in 1 .. Len(p) |-> Entry(p[i])]
    BY <1>2 DEF EntriesOf
  <2>2. \A i \in 1 .. Len(p) : Entry(p[i]) \in E
    OBVIOUS
  <2> HIDE DEF E
  <2>3. Hash!Listed \in [1 .. Len(p) -> E]
    BY <2>1, <2>2
  <2>4. e \in E
    BY DEF E
  <2> QED
    BY <1>3, <2>3, <2>4
<1>13. /\ a \in Seq(E) /\ Len(a) = Len(p) + 1 /\ a[Len(p) + 1] = e
       /\ \A i \in 1 .. Len(p) : a[i] = Hash!Listed[i]
  <2> HIDE DEF E, e
  <2> QED
    BY <1>3, <1>12, AppendProperties
<1>14. a = [i \in 1 .. Len(p) + 1 |-> a[i]]
  <2> HIDE DEF a, E
  <2> QED
    BY <1>3, <1>13
<1> HIDE DEF a
<1>15. \A i \in 1 .. Len(p) + 1 : [key |-> key'[q[i]], item |-> item'[q[i]]] = a[i]
  <2> SUFFICES ASSUME NEW i \in 1 .. Len(p) + 1
               PROVE  [key |-> key'[q[i]], item |-> item'[q[i]]] = a[i]
    OBVIOUS
  <2>1. CASE i = Len(p) + 1
    BY <1>7, <1>10, <1>13, <2>1
  <2>2. CASE i # Len(p) + 1
    <3>1. i \in 1 .. Len(p)
      BY <1>3, <2>2
    <3>2. q[i] = p[i] /\ p[i] \in Hash!Live
      BY <1>3, <1>10, <3>1
    <3> HIDE DEF n, a, e
    <3>3. p[i] \in Hash!Addrs /\ p[i] < n /\ p[i] \in Nat
      BY <1>4, <1>8, <3>2
    <3>4. key'[p[i]] = key[p[i]] /\ item'[p[i]] = item[p[i]]
      BY <1>7, <1>8, <3>3
    <3>5. a[i] = Entry(p[i])
      BY <1>3, <1>13, <3>1
    <3> QED
      BY <3>2, <3>4, <3>5 DEF Entry
  <2> QED
    BY <2>1, <2>2
<1>16. Hash!Listed' = a
  BY <1>10, <1>11, <1>14, <1>15
<1>17. ~Hash!Map!Holds(k)
  BY <1>3, <1>5 DEF Hash!Map!Holds
<1> QED
  BY <1>16, <1>17 DEF Hash!Map!Put, a

\* An entry is taken out.
LEMMA RemoveIsDelete ==
    ASSUME Hash!HashAssumption, HashInv, HashInv', NEW k \in Keys, Hash!Remove(k)
    PROVE  Hash!Map!Delete(k)
<1> DEFINE n == Hash!Find(k)
<1>1. /\ n # Hash!NULL /\ used' = used
      /\ key' = [key EXCEPT ![n] = NoKey] /\ item' = [item EXCEPT ![n] = NoItem]
  BY DEF Hash!Remove
<1>2. PICK p : Lists(p, Hash!Live) /\ Hash!Listed = EntriesOf(p)
  BY ListedIs
<1>3. /\ Len(p) \in Nat /\ DOMAIN Hash!Listed = 1 .. Len(p) /\ Len(Hash!Listed) = Len(p)
      /\ p \in Seq(Hash!Live) /\ Hash!Live \in SUBSET Nat
      /\ \A i \in 1 .. Len(p) : p[i] \in Hash!Live /\ Hash!Listed[i] = Entry(p[i])
                                /\ Hash!Map!KeyAt(i) = key[p[i]]
      /\ \A i, j \in 1 .. Len(p) : key[p[i]] = key[p[j]] => i = j
  BY <1>2, KeyIn
<1>4. /\ used \in Nat /\ Hash!Live \subseteq 1 .. used /\ Hash!Addrs = 1 .. MaxNodes /\ Hash!NULL = 0
      /\ \A m \in Hash!Live : m \in Nat /\ m \in Hash!Addrs /\ m > 0
      /\ Hash!Live \subseteq Hash!Addrs
  BY Basics
<1>5. n \in Hash!Live /\ key[n] = k /\ n \in Hash!Addrs
  <2>1. IsNodeOf(k, n)
    BY Searches DEF HashInv
  <2> QED
    BY <1>1, <1>4, <2>1 DEF IsNodeOf
<1>6. key \in [Hash!Addrs -> Keys \cup {NoKey}] /\ item \in [Hash!Addrs -> Values \cup {NoItem}]
  BY DEF HashInv, Hash!TypeOK
<1> HIDE DEF n
<1>7. /\ key'[n] = NoKey
      /\ \A m \in Hash!Addrs : m # n => key'[m] = key[m] /\ item'[m] = item[m]
  BY <1>1, <1>5, <1>6
<1>8. Hash!Live' = Hash!Live \ {n}
  <2>1. \A m \in 1 .. used : m \in Hash!Addrs
    BY <1>4, Basics
  <2> QED
    BY <1>1, <1>7, <2>1 DEF Hash!Live
<1>9. PICK i \in 1 .. Len(p) : p[i] = n
  BY <1>2, <1>5 DEF Lists
<1> DEFINE q == Without(p, i)
<1>10. Lists(q, Hash!Live') /\ Len(q) = Len(p) - 1
  BY <1>2, <1>3, <1>8, <1>9, ListsWithout
<1>11. Hash!Listed' = [j \in 1 .. Len(q) |-> [key |-> key'[q[j]], item |-> item'[q[j]]]]
  <2>1. PICK r : Lists(r, Hash!Live')
          /\ Hash!Listed' = [j \in 1 .. Len(r) |-> [key |-> key'[r[j]], item |-> item'[r[j]]]]
    BY ListedNext
  <2>2. Hash!Live' \in SUBSET Nat
    BY <1>3, <1>8
  <2>3. r = q
    <3> HIDE DEF q
    <3> QED
      BY <1>10, <2>1, <2>2, ListsOnce
  <2> QED
    BY <2>1, <2>3
<1>12. \A j \in 1 .. Len(p) - 1 : [key |-> key'[q[j]], item |-> item'[q[j]]] =
                                      IF j < i THEN Hash!Listed[j] ELSE Hash!Listed[j + 1]
  <2> SUFFICES ASSUME NEW j \in 1 .. Len(p) - 1
               PROVE  [key |-> key'[q[j]], item |-> item'[q[j]]] =
                          IF j < i THEN Hash!Listed[j] ELSE Hash!Listed[j + 1]
    OBVIOUS
  <2> DEFINE l == IF j < i THEN j ELSE j + 1
  <2>1. l \in 1 .. Len(p) /\ l # i
    BY <1>3
  <2>2. q[j] = p[l]
    BY DEF Without
  <2> HIDE DEF q, l
  <2>3. p[l] \in Hash!Addrs /\ p[l] # n
    <3>1. key[p[l]] # key[p[i]]
      BY <1>3, <2>1
    <3> QED
      BY <1>3, <1>4, <1>9, <2>1, <3>1
  <2>4. [key |-> key'[q[j]], item |-> item'[q[j]]] = Hash!Listed[l]
    BY <1>3, <1>7, <2>1, <2>2, <2>3 DEF Entry
  <2> QED
    BY <2>4 DEF l
<1>13. Hash!Listed' = [j \in 1 .. Len(Hash!Listed) - 1 |->
                          IF j < i THEN Hash!Listed[j] ELSE Hash!Listed[j + 1]]
  <2> HIDE DEF q
  <2> QED
    BY <1>3, <1>10, <1>11, <1>12
<1>14. i \in DOMAIN Hash!Listed /\ Hash!Map!KeyAt(i) = k
  BY <1>3, <1>5, <1>9
<1> QED
  BY <1>13, <1>14 DEF Hash!Map!Delete

\* The hash does what is promised of it: its entries, read along the list, are an ordered
\* map, to which osrfHashSet and osrfHashRemove do what Put and Delete do.
THEOREM HashIsMap ==
    ASSUME Hash!HashAssumption
    PROVE  Hash!Spec => Hash!MapSpec
<1>1. Hash!Init => Hash!Map!Init
  <2> SUFFICES ASSUME Hash!Init PROVE Hash!Map!Init
    OBVIOUS
  <2>1. HashInv /\ used = 0
    BY HashInitInv DEF Hash!Init
  <2>2. PICK p : Lists(p, Hash!Live) /\ Hash!Listed = EntriesOf(p)
    BY <2>1, ListedIs
  <2>3. Hash!Live = {}
    BY <2>1 DEF Hash!Live
  <2>4. p = << >>
    BY <2>2, <2>3 DEF Lists
  <2>5. EntriesOf(<< >>) = << >>
    BY DEF EntriesOf
  <2> QED
    BY <2>2, <2>4, <2>5 DEF Hash!Map!Init
<1>2. HashInv /\ HashInv' /\ [Hash!Next]_Hash!vars => [Hash!Map!Next]_Hash!Listed
  <2> SUFFICES ASSUME HashInv, HashInv', [Hash!Next]_Hash!vars PROVE [Hash!Map!Next]_Hash!Listed
    OBVIOUS
  <2>1. ASSUME NEW k \in Keys, Hash!Remove(k) PROVE Hash!Map!Next
    BY <2>1, RemoveIsDelete DEF Hash!Map!Next
  <2>2. ASSUME NEW k \in Keys, NEW x \in Values, Hash!Add(k, x) PROVE Hash!Map!Next
    BY <2>2, AddIsPut DEF Hash!Map!Next
  <2>3. ASSUME NEW k \in Keys, NEW x \in Values, Hash!Update(k, x) PROVE Hash!Map!Next
    BY <2>3, UpdateIsPut DEF Hash!Map!Next
  <2>4. CASE Hash!Advance
    BY <2>4, ListedKept DEF Hash!Advance, Hash!table, Hash!fields
  <2>5. CASE Hash!Reset
    BY <2>5, ListedKept DEF Hash!Reset, Hash!table, Hash!fields
  <2>6. CASE UNCHANGED Hash!vars
    BY <2>6, ListedKept DEF Hash!vars, Hash!table, Hash!fields
  <2> QED
    BY <2>1, <2>2, <2>3, <2>4, <2>5, <2>6 DEF Hash!Next
<1>3. Hash!Spec => []HashInv
  BY HashInvariance
<1> QED
  BY <1>1, <1>2, <1>3, PTL DEF Hash!Spec, Hash!MapSpec, Hash!Map!Spec

-----------------------------------------------------------------------------
(* The array of strings.                                                   *)

\* f is what a loop makes of e in n turns.
Loops(f, n, S, e, h) == f \in [0 .. n -> S] /\ f[0] = e /\ \A k \in 1 .. n : f[k] = h[k][f[k - 1]]

LEMMA LoopExists ==
    ASSUME NEW n \in Nat, NEW S, NEW e \in S, NEW h \in [1 .. n -> [S -> S]]
    PROVE  \E f : Loops(f, n, S, e, h)
<1> DEFINE Good(m, f) == /\ f \in [0 .. n -> S] /\ f[0] = e
                         /\ \A k \in 1 .. m : f[k] = h[k][f[k - 1]]
           G == {m \in 0 .. n : \E f : Good(m, f)}
<1>1. 0 \in G
  <2> DEFINE f == [k \in 0 .. n |-> e]
  <2>1. Good(0, f) /\ 0 \in 0 .. n
    OBVIOUS
  <2> HIDE DEF Good
  <2>2. \E x : Good(0, x)
    BY <2>1
  <2> QED
    BY <2>1, <2>2
<1>2. ASSUME NEW m \in 0 .. n - 1, m \in G PROVE m + 1 \in G
  <2>1. PICK f : Good(m, f)
    BY <1>2
  <2> DEFINE g == [f EXCEPT ![m + 1] = h[m + 1][f[m]]]
  <2>2. m \in Nat /\ m + 1 \in 1 .. n /\ m \in 0 .. n /\ m + 1 \in 0 .. n
    OBVIOUS
  <2>3. g \in [0 .. n -> S] /\ g[0] = e /\ g[m + 1] = h[m + 1][f[m]]
        /\ \A k \in 0 .. m : g[k] = f[k]
    BY <2>1, <2>2
  <2>4. \A k \in 1 .. m + 1 : g[k] = h[k][g[k - 1]]
    <3> SUFFICES ASSUME NEW k \in 1 .. m + 1 PROVE g[k] = h[k][g[k - 1]]
      OBVIOUS
    <3>1. k - 1 \in 0 .. m /\ g[k - 1] = f[k - 1]
      BY <2>2, <2>3
    <3>2. CASE k = m + 1
      BY <2>2, <2>3, <3>1, <3>2
    <3>3. CASE k # m + 1
      <4>1. k \in 1 .. m /\ k \in 0 .. m
        BY <2>2, <3>3
      <4> QED
        BY <2>1, <2>3, <3>1, <4>1
    <3> QED
      BY <3>2, <3>3
  <2>5. Good(m + 1, g)
    BY <2>3, <2>4
  <2> HIDE DEF Good
  <2>6. \E x : Good(m + 1, x)
    BY <2>5
  <2> QED
    BY <2>2, <2>6
<1>3. n \in G
  <2> HIDE DEF G
  <2>1. 0 .. n \subseteq G
    BY <1>1, <1>2, Climb
  <2> QED
    BY <2>1
<1> QED
  BY <1>3 DEF Loops

\* The operations on its list are those of the list.
LEMMA SameOps ==
    /\ Strs!NewList = NewList
    /\ \A l, x, p : Strs!Set(l, x, p) = Set(l, x, p)
    /\ \A l, p : Strs!Remove(l, p) = Remove(l, p) /\ Strs!GetIndex(l, p) = GetIndex(l, p)
    /\ \A l : Strs!Clear(l) = Clear(l)
<1>1. Strs!NewList = NewList
  BY DEF Strs!NewList, NewList
<1>2. \A l, p : Strs!Remove(l, p) = Remove(l, p) /\ Strs!GetIndex(l, p) = GetIndex(l, p)
  BY DEF Strs!Remove, Remove, Strs!GetIndex, GetIndex
<1>3. \A l : Strs!Clear(l) = Clear(l)
  BY DEF Strs!Clear, Clear
<1>4. \A l, p : Strs!Enlarged(l, p) = Enlarged(l, p)
  BY DEF Strs!Enlarged, Enlarged
<1>5. \A l, x, p : Strs!Set(l, x, p) = Set(l, x, p)
  BY <1>2, <1>4 DEF Strs!Set, Set
<1> QED
  BY <1>1, <1>2, <1>3, <1>5

Address == Nat \cup {Nothing}

\* r is l after an address was put in a slot.
IsSet(r, l, x, p) ==
    /\ IsListOf(r, Address) /\ p < r.arrsize /\ l.arrsize <= r.arrsize
    /\ r.size = IF l.size <= p THEN p + 1 ELSE l.size
    /\ \A i \in 0 .. r.arrsize - 1 :
           r.slots[i] = IF i = p THEN x ELSE IF i < l.arrsize THEN l.slots[i] ELSE Nothing

LEMMA SetAddress ==
    \A l, x, p : IsListOf(l, Address) /\ p \in Nat /\ x \in Address => IsSet(Set(l, x, p), l, x, p)
<1> TAKE l, x, p
<1> HAVE IsListOf(l, Address) /\ p \in Nat /\ x \in Address
<1> QED
  BY SetLemma DEF IsSet

\* All lists of addresses.
ListSet ==
    {l \in [arrsize : Nat, size : Nat, slots : UNION {[0 .. n - 1 -> Address] : n \in Nat}] :
        IsListOf(l, Address)}

LEMMA InListSet == ASSUME NEW l, IsListOf(l, Address) PROVE l \in ListSet
<1>1. Address \cup {Nothing} = Address
  BY DEF Address
<1>2. l.arrsize \in Nat /\ l.slots \in [0 .. l.arrsize - 1 -> Address]
  BY <1>1 DEF IsListOf
<1>3. l.slots \in UNION {[0 .. n - 1 -> Address] : n \in Nat}
  BY <1>2
<1>4. l \in [arrsize : Nat, size : Nat, slots : UNION {[0 .. n - 1 -> Address] : n \in Nat}]
  BY <1>3 DEF IsListOf
<1> QED
  BY <1>4 DEF ListSet

\* An array in order: what is in its slots, one in each, are copies.
IsFull(a, D) ==
    /\ a = [list |-> a.list, size |-> a.size]
    /\ IsListOf(a.list, Address) /\ a.size = a.list.size
    /\ \A i \in 0 .. a.size - 1 : a.list.slots[i] \in D
    /\ \A i \in 0 .. a.list.arrsize - 1 : i >= a.size => a.list.slots[i] = Nothing
    /\ \A i, j \in 0 .. a.size - 1 : a.list.slots[i] = a.list.slots[j] => i = j

LEMMA NewLemma == ASSUME NEW D PROVE IsFull(Strs!NewArray, D) /\ Strs!NewArray.size = 0
<1> DEFINE s == [i \in 0 .. DefaultSize - 1 |-> Nothing]
<1>1. Strs!NewArray = [list |-> [arrsize |-> DefaultSize, size |-> 0, slots |-> s], size |-> 0]
  BY SameOps DEF Strs!NewArray, NewList
<1>2. DefaultSize \in Nat
  BY ListAssumption
<1>3. s \in [0 .. DefaultSize - 1 -> Address \cup {Nothing}] /\ \A i \in 0 .. DefaultSize - 1 : s[i] = Nothing
  BY DEF Address
<1> HIDE DEF s
<1> QED
  BY <1>1, <1>2, <1>3 DEF IsFull, IsListOf

\* r is a with one more copy, that at p.
IsPushed(r, a, p, D) ==
    /\ IsFull(r, D \cup {p}) /\ r.size = a.size + 1
    /\ r.list.slots[a.size] = p
    /\ \A i \in 0 .. a.size - 1 : r.list.slots[i] = a.list.slots[i]

LEMMA PushedLemma ==
    ASSUME NEW D, NEW a, IsFull(a, D), NEW p \in Nat, p \notin D
    PROVE  IsPushed(Strs!Pushed(a, p), a, p, D)
<1> DEFINE l == Set(a.list, p, a.list.size)
           r == Strs!Pushed(a, p)
<1>1. IsListOf(a.list, Address) /\ a.size = a.list.size /\ a.size \in Nat /\ p \in Address
      /\ a.size <= a.list.arrsize /\ a.list.arrsize \in Nat
  BY DEF IsFull, IsListOf, Address
<1>2. /\ IsListOf(l, Address) /\ a.size < l.arrsize /\ a.list.arrsize <= l.arrsize
      /\ l.size = a.size + 1
      /\ \A i \in 0 .. l.arrsize - 1 :
             l.slots[i] = IF i = a.size THEN p ELSE IF i < a.list.arrsize THEN a.list.slots[i] ELSE Nothing
  <2> DEFINE b == a.list
             z == a.list.size
  <2>1. IsListOf(b, Address) /\ z \in Nat /\ p \in Address /\ b.size = z /\ z = a.size
    BY <1>1
  <2> HIDE DEF b, z
  <2>2. LET q == Set(b, p, z)
        IN  /\ IsListOf(q, Address) /\ z < q.arrsize /\ b.arrsize <= q.arrsize
            /\ q.size = IF b.size <= z THEN z + 1 ELSE b.size
            /\ \A i \in 0 .. q.arrsize - 1 :
                   q.slots[i] = IF i = z THEN p ELSE IF i < b.arrsize THEN b.slots[i] ELSE Nothing
    <3>1. IsSet(Set(b, p, z), b, p, z)
      BY <2>1, SetAddress, Zenon
    <3> QED
      BY <3>1 DEF IsSet
  <2>3. l = Set(b, p, z)
    BY DEF b, z
  <2> HIDE DEF l
  <2>4. a.list = b
    BY DEF b
  <2> QED
    BY <2>1, <2>2, <2>3, <2>4
<1>3. r = [list |-> l, size |-> l.size]
  BY SameOps DEF Strs!Pushed
<1> HIDE DEF l, r
<1>4. l.arrsize \in Nat
  BY <1>2 DEF IsListOf
<1>5. /\ r.list.slots[a.size] = p
      /\ \A i \in 0 .. a.size - 1 : r.list.slots[i] = a.list.slots[i] /\ a.list.slots[i] \in D
      /\ \A i \in 0 .. l.arrsize - 1 : i >= a.size + 1 => l.slots[i] = Nothing
  <2>1. a.size \in 0 .. l.arrsize - 1
    BY <1>1, <1>2, <1>4
  <2>2. \A i \in 0 .. a.size - 1 : i \in 0 .. l.arrsize - 1 /\ i # a.size /\ i < a.list.arrsize
    BY <1>1, <1>2, <1>4
  <2>3. ASSUME NEW i \in 0 .. l.arrsize - 1, i >= a.size + 1 PROVE l.slots[i] = Nothing
    <3>1. CASE i < a.list.arrsize
      <4>1. i \in 0 .. a.list.arrsize - 1 /\ i >= a.size /\ i # a.size
        BY <1>1, <1>4, <2>3, <3>1
      <4> QED
        BY <1>2, <3>1, <4>1 DEF IsFull
    <3>2. CASE ~(i < a.list.arrsize)
      BY <1>1, <1>2, <1>4, <2>3, <3>2
    <3> QED
      BY <3>1, <3>2
  <2>4. \A i \in 0 .. a.size - 1 : a.list.slots[i] \in D
    BY DEF IsFull
  <2> QED
    BY <1>2, <1>3, <2>1, <2>2, <2>3, <2>4
<1>6. \A i \in 0 .. a.size : r.list.slots[i] \in D \cup {p}
  <2> SUFFICES ASSUME NEW i \in 0 .. a.size PROVE r.list.slots[i] \in D \cup {p}
    OBVIOUS
  <2>1. i = a.size \/ i \in 0 .. a.size - 1
    BY <1>1
  <2> QED
    BY <1>5, <2>1
<1>7. ASSUME NEW i \in 0 .. a.size, NEW j \in 0 .. a.size, r.list.slots[i] = r.list.slots[j] PROVE i = j
  <2>1. (i = a.size \/ i \in 0 .. a.size - 1) /\ (j = a.size \/ j \in 0 .. a.size - 1)
    BY <1>1
  <2> QED
    BY <1>5, <1>7, <2>1 DEF IsFull
<1>8. r.size = a.size + 1 /\ r.size - 1 = a.size /\ r.size = r.list.size /\ IsListOf(r.list, Address)
      /\ r = [list |-> r.list, size |-> r.size] /\ r.list = l
  BY <1>1, <1>2, <1>3
<1>9. IsFull(r, D \cup {p})
  BY <1>5, <1>6, <1>7, <1>8 DEF IsFull
<1> QED
  BY <1>5, <1>8, <1>9 DEF r, IsPushed

LEMMA ClearedLemma ==
    ASSUME NEW D, NEW E, NEW a, IsFull(a, D)
    PROVE  IsFull([list |-> Strs!Clear(a.list), size |-> 0], E)
<1> DEFINE l == a.list
           s == [i \in 0 .. l.arrsize - 1 |-> IF i < l.size THEN Nothing ELSE l.slots[i]]
<1>1. IsListOf(l, Address) /\ l.arrsize \in Nat /\ l.size \in Nat /\ a.size = l.size
  BY DEF IsFull, IsListOf
<1>2. Strs!Clear(l) = [arrsize |-> l.arrsize, size |-> 0, slots |-> s]
  BY <1>1, SameOps DEF Clear, IsListOf
<1>3. \A i \in 0 .. l.arrsize - 1 : s[i] = Nothing
  BY <1>1 DEF IsFull
<1>4. s \in [0 .. l.arrsize - 1 -> Address \cup {Nothing}]
  BY <1>3
<1> HIDE DEF s
<1> QED
  BY <1>1, <1>2, <1>3, <1>4 DEF IsFull, IsListOf

\* What the loop of osrfStringArrayRemove makes of a list with a hole.
LEMMA MovedLemma ==
    ASSUME NEW l, IsListOf(l, Address), NEW n \in Nat, l.arrsize >= n, NEW i \in 0 .. n - 1,
           l.size = IF i = n - 1 THEN i ELSE n
    PROVE  LET r == Strs!Shifted(l, i, n)
           IN  /\ IsListOf(r, Address) /\ r.arrsize = l.arrsize /\ r.size = n - 1
               /\ \A j \in 0 .. n - 2 : r.slots[j] = IF j < i THEN l.slots[j] ELSE l.slots[j + 1]
               /\ \A j \in 0 .. l.arrsize - 1 :
                      j >= n - 1 => r.slots[j] = IF j = n - 1 /\ i # n - 1 THEN Nothing ELSE l.slots[j]
<1> DEFINE t == n - 1 - i
           step(m, k) == Set(m, GetIndex(m, i + k), i + k - 1)
           Runs(f) == f = [k \in 0 .. t |-> IF k = 0 THEN l ELSE step(f[k - 1], k)]
<1>1. t \in Nat /\ l \in ListSet
  BY InListSet
<1>2. ASSUME NEW m \in ListSet, NEW k \in 1 .. t PROVE step(m, k) \in ListSet
  <2>1. IsListOf(m, Address) /\ Address \cup {Nothing} = Address
    BY DEF ListSet, Address
  <2>2. i + k - 1 \in Nat /\ i + k \in Nat
    BY <1>1
  <2>3. GetIndex(m, i + k) \in Address
    <3>1. CASE i + k >= m.size
      BY <3>1 DEF GetIndex, Address
    <3>2. CASE ~(i + k >= m.size)
      <4>1. i + k \in 0 .. m.arrsize - 1
        BY <2>1, <2>2, <3>2 DEF IsListOf
      <4> QED
        BY <2>1, <3>2, <4>1 DEF GetIndex, IsListOf
    <3> QED
      BY <3>1, <3>2
  <2>4. IsListOf(step(m, k), Address)
    BY <2>1, <2>2, <2>3, SetLemma
  <2> QED
    BY <2>4, InListSet
<1> DEFINE h == [k \in 1 .. t |-> [m \in ListSet |-> step(m, k)]]
<1>3. h \in [1 .. t -> [ListSet -> ListSet]]
  BY <1>2
<1>4. PICK g : Loops(g, t, ListSet, l, h)
  <2>1. t \in Nat /\ l \in ListSet /\ h \in [1 .. t -> [ListSet -> ListSet]]
    BY <1>1, <1>3
  <2> HIDE DEF h, t
  <2> QED
    BY <2>1, LoopExists, Zenon
<1>41. g[0] = l /\ \A k \in 1 .. t : g[k] = h[k][g[k - 1]]
  BY <1>4 DEF Loops
<1>42. DOMAIN g = 0 .. t /\ g \in [0 .. t -> ListSet]
  BY <1>4 DEF Loops
<1> HIDE DEF step
<1>5. \A k \in 0 .. t : g[k] = IF k = 0 THEN l ELSE step(g[k - 1], k)
  <2> SUFFICES ASSUME NEW k \in 0 .. t PROVE g[k] = IF k = 0 THEN l ELSE step(g[k - 1], k)
    OBVIOUS
  <2>1. CASE k = 0
    BY <1>41, <2>1
  <2>2. CASE k # 0
    <3>1. k \in 1 .. t /\ k - 1 \in 0 .. t
      BY <1>1, <2>2
    <3> QED
      BY <1>41, <1>42, <2>2, <3>1
  <2> QED
    BY <2>1, <2>2
<1>6. Runs(g)
  BY <1>42, <1>5
<1> DEFINE f == CHOOSE f : Runs(f)
<1>7. Runs(f)
  <2> HIDE DEF Runs
  <2> QED
    BY <1>6
<1>8. Strs!Shifted(l, i, n) = Remove(f[t], n - 1)
  BY SameOps DEF Strs!Shifted, step
<1> HIDE DEF f, h
<1>9. f[0] = l /\ \A k \in 1 .. t : f[k] = step(f[k - 1], k)
  <2>1. 0 \in 0 .. t /\ \A k \in 1 .. t : k \in 0 .. t /\ k # 0
    BY <1>1
  <2> QED
    BY <1>7, <2>1
<1> HIDE DEF Runs
\* After k turns the string that is next to be moved is where it was.
<1> DEFINE Right(k) ==
              /\ IsListOf(f[k], Address) /\ f[k].arrsize = l.arrsize /\ f[k].size = l.size
              /\ \A j \in 0 .. l.arrsize - 1 :
                     f[k].slots[j] = IF i <= j /\ j < i + k THEN l.slots[j + 1] ELSE l.slots[j]
           G == {k \in 0 .. t : Right(k)}
<1>10. 0 \in G
  BY <1>1, <1>9
<1>11. ASSUME NEW k \in 0 .. t - 1, k \in G PROVE k + 1 \in G
  <2> DEFINE m == f[k]
  <2>1. k + 1 \in 1 .. t /\ f[k + 1] = step(m, k + 1) /\ k \in Nat /\ i + k \in Nat
    BY <1>1, <1>9
  <2>2. i # n - 1 /\ l.size = n /\ i + k + 1 < n /\ i + k + 1 \in Nat /\ n <= l.arrsize
    BY <1>1
  <2>3. Right(k)
    BY <1>11
  <2>4. GetIndex(m, i + k + 1) = l.slots[i + k + 1] /\ l.slots[i + k + 1] \in Address
    <3>1. i + k + 1 \in 0 .. l.arrsize - 1
      BY <2>2 DEF IsListOf
    <3>2. m.slots[i + k + 1] = l.slots[i + k + 1]
      BY <2>1, <2>2, <2>3, <3>1
    <3>3. ~(i + k + 1 >= m.size)
      BY <2>2, <2>3
    <3>4. l.slots[i + k + 1] \in Address
      BY <3>1 DEF IsListOf, Address
    <3> QED
      BY <3>2, <3>3, <3>4 DEF GetIndex
  <2>5. f[k + 1] = Set(m, l.slots[i + k + 1], i + k)
    <3>1. i + (k + 1) = i + k + 1 /\ i + (k + 1) - 1 = i + k
      BY <2>1
    <3> QED
      BY <2>1, <2>4, <3>1 DEF step
  <2> HIDE DEF m
  <2>6. IsListOf(m, Address) /\ m.arrsize = l.arrsize /\ m.size = n
    BY <2>2, <2>3 DEF m
  <2> DEFINE r == f[k + 1]
  <2>7. /\ IsListOf(r, Address) /\ i + k < r.arrsize /\ m.arrsize <= r.arrsize /\ r.size = n
        /\ \A j \in 0 .. r.arrsize - 1 :
               r.slots[j] = IF j = i + k THEN l.slots[i + k + 1]
                            ELSE IF j < m.arrsize THEN m.slots[j] ELSE Nothing
    <3> DEFINE x == l.slots[i + k + 1]
               p == i + k
    <3>1. ~(m.size <= p) /\ p \in Nat /\ x \in Address /\ r = Set(m, x, p)
      BY <2>1, <2>2, <2>4, <2>5, <2>6
    <3> HIDE DEF x, p, r
    <3>2. /\ IsListOf(r, Address) /\ p < r.arrsize /\ m.arrsize <= r.arrsize /\ r.size = m.size
          /\ \A j \in 0 .. r.arrsize - 1 :
                 r.slots[j] = IF j = p THEN x ELSE IF j < m.arrsize THEN m.slots[j] ELSE Nothing
      <4>1. IsSet(r, m, x, p)
        BY <2>6, <3>1, SetAddress, Zenon
      <4> QED
        BY <3>1, <4>1 DEF IsSet
    <3> QED
      BY <2>6, <3>2 DEF x, p
  <2>8. r.arrsize = l.arrsize
    <3>1. i + k < m.arrsize
      <4>1. \A a, b \in Int : a + 1 < b => a < b
        OBVIOUS
      <4>2. l.arrsize \in Nat /\ l.arrsize = m.arrsize /\ n \in Nat
        BY <2>6 DEF IsListOf
      <4>3. i + k \in Nat /\ i + k + 1 < n /\ n <= m.arrsize
        BY <2>1, <2>2, <2>6
      <4> QED
        BY ONLY <4>2, <4>3
    <3> QED
      BY <2>1, <2>4, <2>5, <2>6, <3>1, SetKeepsSize
  <2> HIDE DEF r
  <2>9. \A j \in 0 .. l.arrsize - 1 :
            r.slots[j] = IF i <= j /\ j < i + (k + 1) THEN l.slots[j + 1] ELSE l.slots[j]
    <3> SUFFICES ASSUME NEW j \in 0 .. l.arrsize - 1
                 PROVE  r.slots[j] = IF i <= j /\ j < i + (k + 1) THEN l.slots[j + 1] ELSE l.slots[j]
      OBVIOUS
    <3>0. l.arrsize \in Nat
      BY DEF IsListOf
    <3>1. CASE j = i + k
      BY <2>1, <2>7, <2>8, <3>1
    <3>2. CASE j # i + k
      <4>1. r.slots[j] = m.slots[j]
        BY <2>6, <2>7, <2>8, <3>0, <3>2
      <4>2. m.slots[j] = IF i <= j /\ j < i + k THEN l.slots[j + 1] ELSE l.slots[j]
        BY <2>3 DEF m
      <4> QED
        BY <2>1, <3>0, <3>2, <4>1, <4>2
    <3> QED
      BY <3>1, <3>2
  <2>10. Right(k + 1)
    BY <2>2, <2>7, <2>8, <2>9 DEF r
  <2> HIDE DEF Right
  <2> QED
    BY <1>1, <2>1, <2>10
<1>12. Right(t)
  <2> HIDE DEF Right
  <2>1. t \in 0 .. t
    BY <1>1
  <2>2. 0 .. t \subseteq G
    <3> HIDE DEF G, t
    <3> QED
      BY <1>1, <1>10, <1>11, Climb
  <2> QED
    BY <2>1, <2>2
<1> DEFINE m == f[t]
           r == Remove(m, n - 1)
<1>13. /\ IsListOf(m, Address) /\ m.arrsize = l.arrsize /\ m.size = l.size
       /\ \A j \in 0 .. l.arrsize - 1 :
              m.slots[j] = IF i <= j /\ j < n - 1 THEN l.slots[j + 1] ELSE l.slots[j]
  <2>1. i + t = n - 1
    OBVIOUS
  <2> HIDE DEF t
  <2> QED
    BY <1>12, <2>1
<1> HIDE DEF m, t, G
<1>14. n - 1 \in Nat /\ l.arrsize \in Nat
  BY DEF IsListOf
<1>15. /\ IsListOf(r, Address) /\ r.arrsize = m.arrsize
       /\ r.size = IF n - 1 = m.size - 1 THEN n - 1 ELSE m.size
       /\ \A j \in 0 .. m.arrsize - 1 :
              r.slots[j] = IF j = n - 1 /\ n - 1 < m.size THEN Nothing ELSE m.slots[j]
  BY <1>13, <1>14, RemoveLemma
<1> HIDE DEF r
<1>16. r.size = n - 1
  BY <1>13, <1>15
<1>17. \A j \in 0 .. n - 2 : r.slots[j] = IF j < i THEN l.slots[j] ELSE l.slots[j + 1]
  <2> SUFFICES ASSUME NEW j \in 0 .. n - 2
               PROVE  r.slots[j] = IF j < i THEN l.slots[j] ELSE l.slots[j + 1]
    OBVIOUS
  <2>1. j \in 0 .. l.arrsize - 1 /\ j # n - 1 /\ j < n - 1
    BY <1>14
  <2> QED
    BY <1>13, <1>15, <2>1
<1>18. ASSUME NEW j \in 0 .. l.arrsize - 1, j >= n - 1
       PROVE  r.slots[j] = IF j = n - 1 /\ i # n - 1 THEN Nothing ELSE l.slots[j]
  <2>1. m.slots[j] = l.slots[j]
    BY <1>13, <1>14, <1>18
  <2>2. n - 1 < m.size <=> i # n - 1
    BY <1>13, <1>14
  <2> QED
    BY <1>13, <1>15, <2>1, <2>2
<1> QED
  BY <1>8, <1>13, <1>15, <1>16, <1>17, <1>18 DEF r, m

-----------------------------------------------------------------------------
(* Every copy is in one slot of one array.                                 *)

ArrayInv ==
    /\ copies = [q \in DOMAIN copies |-> copies[q]]
    /\ DOMAIN copies \subseteq Nat \ {0}
    /\ IsFull(arr, DOMAIN copies) /\ IsFull(other, DOMAIN copies)
    /\ Strs!Within(arr.list) \cap Strs!Within(other.list) = {}
    /\ Strs!Within(arr.list) \cup Strs!Within(other.list) = DOMAIN copies

\* What an array in order has is what is in the slots below its size.
LEMMA WithinLemma ==
    ASSUME Strs!ArrayAssumption, NEW D \in SUBSET (Nat \ {0}), NEW a, IsFull(a, D)
    PROVE  /\ Strs!Within(a.list) = {a.list.slots[i] : i \in 0 .. a.size - 1}
           /\ Strs!Within(a.list) \subseteq D
<1>1. a.size = a.list.size /\ \A i \in 0 .. a.size - 1 : a.list.slots[i] \in D
  BY DEF IsFull
<1>2. Nothing \notin D
  BY DEF Strs!ArrayAssumption
<1>3. \A i \in 0 .. a.size - 1 : a.list.slots[i] # Nothing
  BY <1>1, <1>2
<1> QED
  BY <1>1, <1>3 DEF Strs!Within

LEMMA FullIn ==
    ASSUME Strs!ArrayAssumption, NEW D \in SUBSET (Nat \ {0}), NEW a, IsFull(a, D), NEW E,
           Strs!Within(a.list) \subseteq E
    PROVE  IsFull(a, E)
<1>1. \A i \in 0 .. a.size - 1 : a.list.slots[i] \in E
  <2>1. Strs!Within(a.list) = {a.list.slots[i] : i \in 0 .. a.size - 1}
    BY WithinLemma
  <2> QED
    BY <2>1
<1> QED
  BY <1>1 DEF IsFull

LEMMA SizeLemma ==
    ASSUME Strs!ArrayAssumption, NEW D \in SUBSET (Nat \ {0}), NEW a, IsFull(a, D)
    PROVE  IsFiniteSet(Strs!Within(a.list)) /\ Cardinality(Strs!Within(a.list)) = a.size
<1> DEFINE W == Strs!Within(a.list)
           I == 0 .. a.size - 1
           f == [i \in I |-> a.list.slots[i]]
<1>1. a.size \in Nat /\ \A i, j \in I : a.list.slots[i] = a.list.slots[j] => i = j
  BY DEF IsFull, IsListOf
<1>2. W = {a.list.slots[i] : i \in I}
  BY WithinLemma
<1>3. IsFiniteSet(I) /\ Cardinality(I) = a.size
  <2>1. 0 \in Int /\ a.size - 1 \in Int /\ (IF 0 > a.size - 1 THEN 0 ELSE a.size - 1 - 0 + 1) = a.size
    BY <1>1
  <2>2. /\ IsFiniteSet(0 .. a.size - 1)
        /\ Cardinality(0 .. a.size - 1) = IF 0 > a.size - 1 THEN 0 ELSE a.size - 1 - 0 + 1
    BY <2>1, FS_Interval, Zenon
  <2> QED
    BY <2>1, <2>2
<1> HIDE DEF W, I
<1>4. f \in Bijection(I, W)
  BY <1>1, <1>2 DEF Bijection, Injection, Surjection, IsInjective
<1>5. ExistsBijection(I, W)
  BY <1>4 DEF ExistsBijection
<1>6. IsFiniteSet(W) /\ Cardinality(W) = Cardinality(I)
  BY <1>3, <1>5, FS_Bijection
<1> QED
  BY <1>3, <1>6 DEF W

LEMMA InvFilled == Strs!ArrayAssumption /\ ArrayInv => Strs!Filled
<1> SUFFICES ASSUME Strs!ArrayAssumption, ArrayInv PROVE Strs!Filled
  OBVIOUS
<1> DEFINE D == DOMAIN copies
           V == Strs!Within(arr.list)
           W == Strs!Within(other.list)
<1>1. D \in SUBSET (Nat \ {0}) /\ IsFull(arr, D) /\ IsFull(other, D)
  BY DEF ArrayInv
<1>2. V \cap W = {} /\ V \cup W = D
  BY DEF ArrayInv
<1>3. IsFiniteSet(V) /\ Cardinality(V) = arr.size /\ IsFiniteSet(W) /\ Cardinality(W) = other.size
  BY <1>1, SizeLemma
<1>4. Cardinality(D) = arr.size + other.size
  <2> HIDE DEF D, V, W
  <2>1. Cardinality({}) = 0
    BY FS_EmptySet
  <2>2. Cardinality(V \cup W) = Cardinality(V) + Cardinality(W) - Cardinality(V \cap W)
    BY <1>3, FS_Union
  <2>3. arr.size \in Nat /\ other.size \in Nat
    BY <1>1 DEF IsFull, IsListOf
  <2>4. Cardinality(D) = Cardinality(V) + Cardinality(W) - Cardinality({})
    BY <1>2, <2>2, Zenon
  <2> QED
    BY <1>3, <2>1, <2>3, <2>4
<1>5. arr.size + other.size = Strs!Cardinality(D)
  BY <1>4 DEF Strs!Cardinality, Cardinality
<1>6. ASSUME NEW a, IsFull(a, D)
      PROVE  /\ a.size = a.list.size /\ a.size <= a.list.arrsize
             /\ \A i \in 0 .. a.size - 1 : a.list.slots[i] \in D
             /\ \A i \in a.size .. a.list.arrsize - 1 : a.list.slots[i] = Nothing
  <2>1. a.size \in Nat /\ a.list.arrsize \in Nat
    BY <1>6 DEF IsFull, IsListOf
  <2>2. \A i \in a.size .. a.list.arrsize - 1 : i \in 0 .. a.list.arrsize - 1 /\ i >= a.size
    BY <2>1
  <2> QED
    BY <1>6, <2>2 DEF IsFull, IsListOf
<1> HIDE DEF V, W, D
<1> QED
  BY <1>1, <1>2, <1>5, <1>6 DEF Strs!Filled, V, W, D

-----------------------------------------------------------------------------
(* The steps: that they keep the arrays in order, and what they make of    *)
(* the strings.                                                            *)

\* A copy is added.
LEMMA ArrayAddStep ==
    ASSUME Strs!ArrayAssumption, ArrayInv, NEW s, Strs!Add(s)
    PROVE  ArrayInv' /\ Strs!IsSequence!Add(s) /\ UNCHANGED source
<1> DEFINE D == DOMAIN copies
           p == CHOOSE p \in Strs!Unused : TRUE
<1>1. /\ copies' = [q \in D \cup {p} |-> IF q = p THEN s ELSE copies[q]]
      /\ arr' = Strs!Pushed(arr, p) /\ source' = source /\ other' = other
  BY DEF Strs!Add
<1>2. p \in Nat \ {0} /\ p \notin D
  <2>1. p \in Strs!Unused
    BY DEF Strs!Add
  <2>2. MaxStrings \in Nat
    BY DEF Strs!ArrayAssumption
  <2> HIDE DEF p
  <2> QED
    BY <2>1, <2>2 DEF Strs!Unused, Strs!Addrs
<1> HIDE DEF p
<1>3. D \in SUBSET (Nat \ {0}) /\ IsFull(arr, D) /\ IsFull(other, D)
  BY DEF ArrayInv
<1>4. D' = D \cup {p} /\ D' \in SUBSET (Nat \ {0})
  BY <1>1, <1>2, <1>3
<1> HIDE DEF D
<1>5. /\ IsFull(arr', D') /\ arr'.size = arr.size + 1 /\ arr.size \in Nat
      /\ arr'.list.slots[arr.size] = p
      /\ \A i \in 0 .. arr.size - 1 : arr'.list.slots[i] = arr.list.slots[i]
  <2>1. IsPushed(Strs!Pushed(arr, p), arr, p, D)
    BY <1>2, <1>3, PushedLemma, Zenon
  <2>2. arr.size \in Nat
    BY <1>3 DEF IsFull, IsListOf
  <2> QED
    BY <1>1, <1>4, <2>1, <2>2 DEF IsPushed
<1>6. Strs!Within(arr'.list) = Strs!Within(arr.list) \cup {p}
  <2>1. Strs!Within(arr'.list) = {arr'.list.slots[i] : i \in 0 .. arr'.size - 1}
    BY <1>4, <1>5, WithinLemma
  <2>2. Strs!Within(arr.list) = {arr.list.slots[i] : i \in 0 .. arr.size - 1}
    BY <1>3, WithinLemma
  <2>3. 0 .. arr'.size - 1 = (0 .. arr.size - 1) \cup {arr.size}
    BY <1>5
  <2>4. {arr'.list.slots[i] : i \in 0 .. arr'.size - 1}
        = {arr.list.slots[i] : i \in 0 .. arr.size - 1} \cup {p}
    BY <1>5, <2>3
  <2> QED
    BY <2>1, <2>2, <2>4
<1>7. IsFull(other', D')
  <2>1. Strs!Within(other.list) \subseteq D'
    BY <1>3, <1>4, WithinLemma
  <2>2. IsFull(other, D')
    BY <1>3, <2>1, FullIn
  <2> QED
    BY <1>1, <2>2
<1>8. Strs!Within(arr.list) \subseteq D /\ Strs!Within(other.list) \subseteq D
  BY <1>3, WithinLemma
<1>9. ArrayInv'
  <2>1. copies' = [q \in D' |-> copies'[q]] /\ DOMAIN copies' = D'
    BY <1>1, <1>4 DEF D
  <2>2. (Strs!Within(arr.list) \cap Strs!Within(other.list))' = {}
    BY <1>1, <1>2, <1>6, <1>8 DEF ArrayInv, Strs!Within
  <2>3. (Strs!Within(arr.list) \cup Strs!Within(other.list))' = D'
    BY <1>1, <1>4, <1>6 DEF ArrayInv, D, Strs!Within
  <2> QED
    BY <1>4, <1>5, <1>7, <2>1, <2>2, <2>3 DEF ArrayInv, D
<1>10. Strs!IsSequence!Add(s)
  <2> DEFINE one == Strs!StringsOf(arr)
             two == Strs!StringsOf(other)
  <2>1. two' = two
    <3>1. two' = [n \in 1 .. other.size |-> copies'[other.list.slots[n - 1]]]
      BY <1>1 DEF Strs!StringsOf
    <3>2. ASSUME NEW n \in 1 .. other.size PROVE copies'[other.list.slots[n - 1]] = copies[other.list.slots[n - 1]]
      <4>1. n - 1 \in 0 .. other.size - 1
        BY <1>3 DEF IsFull, IsListOf
      <4>2. other.list.slots[n - 1] \in D
        BY <1>3, <4>1 DEF IsFull
      <4> QED
        BY <1>1, <1>2, <4>2
    <3> QED
      BY <3>1, <3>2 DEF Strs!StringsOf
  <2>2. one' = Append(one, s)
    <3>1. one' = [n \in 1 .. arr.size + 1 |-> copies'[arr'.list.slots[n - 1]]]
      BY <1>5 DEF Strs!StringsOf
    <3>2. one = [n \in 1 .. arr.size |-> copies[arr.list.slots[n - 1]]] /\ Len(one) = arr.size
      BY <1>5 DEF Strs!StringsOf
    <3>3. ASSUME NEW n \in 1 .. arr.size + 1
          PROVE  copies'[arr'.list.slots[n - 1]]
                 = IF n = arr.size + 1 THEN s ELSE copies[arr.list.slots[n - 1]]
      <4>1. CASE n = arr.size + 1
        <5>1. n - 1 = arr.size
          BY <1>5, <4>1
        <5> QED
          BY <1>1, <1>5, <4>1, <5>1
      <4>2. CASE n # arr.size + 1
        <5>1. n - 1 \in 0 .. arr.size - 1
          BY <1>5, <4>2
        <5>2. arr.list.slots[n - 1] \in D
          BY <1>3, <5>1 DEF IsFull
        <5> QED
          BY <1>1, <1>2, <1>5, <4>2, <5>1, <5>2
      <4> QED
        BY <4>1, <4>2
    <3>4. Append(one, s) = [n \in 1 .. arr.size + 1 |-> IF n = arr.size + 1 THEN s ELSE one[n]]
      BY <1>5, <3>2
    <3>5. one' = [n \in 1 .. arr.size + 1 |-> IF n = arr.size + 1 THEN s ELSE copies[arr.list.slots[n - 1]]]
      BY <3>1, <3>3
    <3>6. \A n \in 1 .. arr.size + 1 : n # arr.size + 1 => one[n] = copies[arr.list.slots[n - 1]]
      BY <1>5, <3>2
    <3> QED
      BY <3>4, <3>5, <3>6
  <2> QED
    BY <2>1, <2>2 DEF Strs!IsSequence!Add
<1> QED
  BY <1>1, <1>9, <1>10

\* The strings of an array that is left as it is.
LEMMA SameStrings ==
    ASSUME NEW a, NEW D, IsFull(a, D), \A q \in D : copies'[q] = copies[q]
    PROVE  [n \in 1 .. a.size |-> copies'[a.list.slots[n - 1]]] = Strs!StringsOf(a)
<1>1. ASSUME NEW n \in 1 .. a.size PROVE copies'[a.list.slots[n - 1]] = copies[a.list.slots[n - 1]]
  <2>1. n - 1 \in 0 .. a.size - 1
    BY DEF IsFull, IsListOf
  <2>2. a.list.slots[n - 1] \in D
    BY <2>1 DEF IsFull
  <2> QED
    BY <2>2
<1> QED
  BY <1>1 DEF Strs!StringsOf

LEMMA ArrayClearStep ==
    ASSUME Strs!ArrayAssumption, ArrayInv, Strs!ClearArray
    PROVE  ArrayInv' /\ Strs!IsSequence!Clear /\ UNCHANGED source
<1> DEFINE D == DOMAIN copies
           W == Strs!Within(other.list)
<1>1. /\ copies' = [q \in D \ Strs!Within(arr.list) |-> copies[q]]
      /\ arr' = [list |-> Strs!Clear(arr.list), size |-> 0]
      /\ source' = source /\ other' = other
  BY DEF Strs!ClearArray
<1>2. D \in SUBSET (Nat \ {0}) /\ IsFull(arr, D) /\ IsFull(other, D)
  BY DEF ArrayInv
<1>3. D \ Strs!Within(arr.list) = W /\ W \in SUBSET D
  BY DEF ArrayInv
<1>4. D' = W /\ W \in SUBSET (Nat \ {0})
  BY <1>1, <1>2, <1>3
<1>5. IsFull(arr', D') /\ arr'.size = 0
  BY <1>1, <1>2, ClearedLemma
<1>6. IsFull(other, W)
  BY <1>2, FullIn
<1>7. Strs!Within(arr'.list) = {}
  <2>1. Strs!Within(arr'.list) = {arr'.list.slots[i] : i \in 0 .. arr'.size - 1}
    BY <1>4, <1>5, WithinLemma
  <2> QED
    BY <1>5, <2>1
<1>8. copies' = [q \in D' |-> copies'[q]] /\ \A q \in W : copies'[q] = copies[q]
  BY <1>1, <1>3, <1>4
<1>9. Strs!Within(other.list)' = W
  BY <1>1 DEF Strs!Within
<1>10. ArrayInv'
  BY <1>1, <1>4, <1>5, <1>6, <1>7, <1>8, <1>9 DEF ArrayInv
<1>11. Strs!StringsOf(arr)' = << >>
  BY <1>5 DEF Strs!StringsOf
<1>12. Strs!StringsOf(other)' = Strs!StringsOf(other)
  <2>1. Strs!StringsOf(other)' = [n \in 1 .. other.size |-> copies'[other.list.slots[n - 1]]]
    BY <1>1 DEF Strs!StringsOf
  <2> QED
    BY <1>6, <1>8, <2>1, SameStrings
<1> QED
  BY <1>1, <1>10, <1>11, <1>12 DEF Strs!IsSequence!Clear

LEMMA ArraySwapStep ==
    ASSUME ArrayInv, Strs!Swap
    PROVE  ArrayInv' /\ Strs!IsSequence!Exchange /\ UNCHANGED source
<1>1. arr' = other /\ other' = arr /\ source' = source /\ copies' = copies
  BY DEF Strs!Swap
<1>2. Strs!Within(arr.list)' = Strs!Within(other.list) /\ Strs!Within(other.list)' = Strs!Within(arr.list)
  BY <1>1 DEF Strs!Within
<1>3. ArrayInv'
  BY <1>1, <1>2 DEF ArrayInv
<1>4. Strs!StringsOf(arr)' = Strs!StringsOf(other) /\ Strs!StringsOf(other)' = Strs!StringsOf(arr)
  BY <1>1 DEF Strs!StringsOf
<1> QED
  BY <1>1, <1>3, <1>4 DEF Strs!IsSequence!Exchange

\* An array without the string at a position.
LEMMA TakenOut ==
    ASSUME Strs!ArrayAssumption, NEW D \in SUBSET (Nat \ {0}), NEW a, IsFull(a, D), NEW i \in 0 .. a.size - 1
    PROVE  LET b == [list |-> Strs!Shifted(Strs!Remove(a.list, i), i, a.size), size |-> a.size - 1]
           IN  /\ IsFull(b, D \ {a.list.slots[i]})
               /\ \A j \in 0 .. b.size - 1 :
                      b.list.slots[j] = IF j < i THEN a.list.slots[j] ELSE a.list.slots[j + 1]
<1> DEFINE l == a.list
           n == a.size
           m == Remove(l, i)
           r == Strs!Shifted(m, i, n)
           b == [list |-> r, size |-> n - 1]
           E == D \ {l.slots[i]}
<1>1. /\ IsListOf(l, Address) /\ n = l.size /\ n \in Nat /\ l.arrsize \in Nat /\ n <= l.arrsize
      /\ \A j \in 0 .. n - 1 : l.slots[j] \in D
      /\ \A j \in 0 .. l.arrsize - 1 : j >= n => l.slots[j] = Nothing
      /\ \A j, k \in 0 .. n - 1 : l.slots[j] = l.slots[k] => j = k
  BY DEF IsFull, IsListOf
<1>2. Strs!Remove(a.list, i) = m
  BY SameOps
<1> HIDE DEF l, n
<1>3. i \in Nat /\ i \in 0 .. n - 1 /\ i < n
  BY <1>1 DEF n
<1>4. /\ IsListOf(m, Address) /\ m.arrsize = l.arrsize
      /\ m.size = IF i = l.size - 1 THEN i ELSE l.size
      /\ \A j \in 0 .. l.arrsize - 1 :
             m.slots[j] = IF j = i /\ i < l.size THEN Nothing ELSE l.slots[j]
  BY <1>1, <1>3, RemoveLemma
<1> HIDE DEF m
<1>5. /\ IsListOf(r, Address) /\ r.arrsize = m.arrsize /\ r.size = n - 1
      /\ \A j \in 0 .. n - 2 : r.slots[j] = IF j < i THEN m.slots[j] ELSE m.slots[j + 1]
      /\ \A j \in 0 .. m.arrsize - 1 :
             j >= n - 1 => r.slots[j] = IF j = n - 1 /\ i # n - 1 THEN Nothing ELSE m.slots[j]
  <2>1. m.arrsize >= n /\ m.size = IF i = n - 1 THEN i ELSE n
    BY <1>1, <1>3, <1>4
  <2> QED
    BY <1>1, <1>3, <1>4, <2>1, MovedLemma
<1> HIDE DEF r
<1>6. \A j \in 0 .. n - 2 : r.slots[j] = IF j < i THEN l.slots[j] ELSE l.slots[j + 1]
  <2> SUFFICES ASSUME NEW j \in 0 .. n - 2
               PROVE  r.slots[j] = IF j < i THEN l.slots[j] ELSE l.slots[j + 1]
    OBVIOUS
  <2>1. j \in 0 .. l.arrsize - 1 /\ j + 1 \in 0 .. l.arrsize - 1 /\ j \in Nat
    BY <1>1, <1>3
  <2>2. CASE j < i
    <3>1. j # i
      BY <1>3, <2>1, <2>2
    <3>2. m.slots[j] = l.slots[j]
      BY <1>4, <2>1, <3>1
    <3> QED
      BY <1>5, <2>2, <3>2
  <2>3. CASE ~(j < i)
    <3>1. j + 1 # i
      BY <1>3, <2>1, <2>3
    <3>2. m.slots[j + 1] = l.slots[j + 1]
      BY <1>4, <2>1, <3>1
    <3> QED
      BY <1>5, <2>3, <3>2
  <2> QED
    BY <2>2, <2>3
<1>7. \A j \in 0 .. l.arrsize - 1 : j >= n - 1 => r.slots[j] = Nothing
  <2> SUFFICES ASSUME NEW j \in 0 .. l.arrsize - 1, j >= n - 1 PROVE r.slots[j] = Nothing
    OBVIOUS
  <2>1. CASE j = n - 1 /\ i # n - 1
    BY <1>4, <1>5, <2>1
  <2>2. CASE i = n - 1 /\ j = n - 1
    <3>1. m.slots[j] = Nothing
      BY <1>1, <1>3, <1>4, <2>2
    <3> QED
      BY <1>4, <1>5, <2>2, <3>1
  <2>3. CASE j # n - 1
    <3>1. j >= n /\ j # i
      BY <1>1, <1>3, <2>3
    <3>2. m.slots[j] = Nothing
      BY <1>1, <1>4, <3>1
    <3> QED
      BY <1>4, <1>5, <2>3, <3>2
  <2> QED
    BY <2>1, <2>2, <2>3
<1>8. \A j \in 0 .. n - 2 : \E k \in 0 .. n - 1 : /\ k # i /\ r.slots[j] = l.slots[k]
                                                  /\ k = IF j < i THEN j ELSE j + 1
  <2> SUFFICES ASSUME NEW j \in 0 .. n - 2
               PROVE  \E k \in 0 .. n - 1 : /\ k # i /\ r.slots[j] = l.slots[k]
                                            /\ k = IF j < i THEN j ELSE j + 1
    OBVIOUS
  <2> DEFINE k == IF j < i THEN j ELSE j + 1
  <2>1. k \in 0 .. n - 1 /\ k # i
    BY <1>1, <1>3
  <2>2. r.slots[j] = l.slots[k]
    BY <1>6
  <2> QED
    BY <2>1, <2>2
<1>9. \A j \in 0 .. n - 2 : r.slots[j] \in E
  BY <1>1, <1>3, <1>8
<1>10. ASSUME NEW j \in 0 .. n - 2, NEW k \in 0 .. n - 2, r.slots[j] = r.slots[k] PROVE j = k
  <2>1. PICK jj \in 0 .. n - 1 : r.slots[j] = l.slots[jj] /\ jj = IF j < i THEN j ELSE j + 1
    BY <1>8
  <2>2. PICK kk \in 0 .. n - 1 : r.slots[k] = l.slots[kk] /\ kk = IF k < i THEN k ELSE k + 1
    BY <1>8
  <2>3. jj = kk
    BY <1>1, <1>10, <2>1, <2>2
  <2> QED
    BY <1>1, <1>3, <2>1, <2>2, <2>3
<1> HIDE DEF E
<1>11. b.size - 1 = n - 2 /\ b.list = r /\ b.size = r.size /\ b = [list |-> b.list, size |-> b.size]
       /\ b.size = n - 1
  BY <1>1, <1>5
<1> HIDE DEF b
<1>12. IsFull(b, E)
  BY <1>4, <1>5, <1>7, <1>9, <1>10, <1>11 DEF IsFull
<1>13. b = [list |-> Strs!Shifted(Strs!Remove(a.list, i), i, a.size), size |-> a.size - 1]
  BY <1>2 DEF b, r, n
<1>14. \A j \in 0 .. b.size - 1 :
           b.list.slots[j] = IF j < i THEN a.list.slots[j] ELSE a.list.slots[j + 1]
  BY <1>6, <1>11 DEF l
<1> QED
  BY <1>12, <1>13, <1>14 DEF E, l

LEMMA ArrayRemoveStep ==
    ASSUME Strs!ArrayAssumption, ArrayInv, NEW s, Strs!RemoveString(s)
    PROVE  ArrayInv' /\ Strs!IsSequence!Delete(s) /\ UNCHANGED source
<1> DEFINE D == DOMAIN copies
           l == arr.list
<1>1. PICK i \in 0 .. arr.size - 1 :
          /\ copies[Strs!GetIndex(l, i)] = s
          /\ \A j \in 0 .. i - 1 : copies[Strs!GetIndex(l, j)] # s
          /\ copies' = [q \in D \ {l.slots[i]} |-> copies[q]]
          /\ arr' = [list |-> Strs!Shifted(Strs!Remove(l, i), i, arr.size), size |-> arr.size - 1]
  BY DEF Strs!RemoveString, Strs!ShiftedOut
<1>2. source' = source /\ other' = other
  BY DEF Strs!RemoveString
<1>3. D \in SUBSET (Nat \ {0}) /\ IsFull(arr, D) /\ IsFull(other, D)
  BY DEF ArrayInv
<1>4. /\ arr.size \in Nat /\ arr.size = l.size /\ arr'.size = arr.size - 1
      /\ \A j \in 0 .. arr.size - 1 : l.slots[j] \in D
      /\ \A j, k \in 0 .. arr.size - 1 : l.slots[j] = l.slots[k] => j = k
  BY <1>1, <1>3 DEF IsFull, IsListOf
<1>5. \A j \in 0 .. arr.size - 1 : Strs!GetIndex(l, j) = l.slots[j]
  BY <1>4 DEF Strs!GetIndex
<1>6. D' = D \ {l.slots[i]} /\ D' \in SUBSET (Nat \ {0})
  BY <1>1, <1>3
<1> HIDE DEF D
<1>7. /\ IsFull(arr', D')
      /\ \A j \in 0 .. arr'.size - 1 : arr'.list.slots[j] = IF j < i THEN l.slots[j] ELSE l.slots[j + 1]
  BY <1>1, <1>3, <1>6, TakenOut
<1>8. Strs!Within(l) = {l.slots[j] : j \in 0 .. arr.size - 1} /\ Strs!Within(l) \subseteq D
      /\ Strs!Within(other.list) \subseteq D
  BY <1>3, WithinLemma
<1>9. Strs!Within(arr'.list) = Strs!Within(l) \ {l.slots[i]}
  <2>1. Strs!Within(arr'.list) = {arr'.list.slots[j] : j \in 0 .. arr'.size - 1}
    BY <1>6, <1>7, WithinLemma
  <2>2. ASSUME NEW j \in 0 .. arr'.size - 1 PROVE arr'.list.slots[j] \in Strs!Within(l) \ {l.slots[i]}
    <3> DEFINE k == IF j < i THEN j ELSE j + 1
    <3>1. k \in 0 .. arr.size - 1 /\ k # i
      BY <1>4
    <3>2. arr'.list.slots[j] = l.slots[k]
      BY <1>7
    <3> QED
      BY <1>4, <1>8, <3>1, <3>2
  <2>3. ASSUME NEW k \in 0 .. arr.size - 1, k # i
        PROVE  \E j \in 0 .. arr'.size - 1 : arr'.list.slots[j] = l.slots[k]
    <3>1. CASE k < i
      <4>1. k \in 0 .. arr'.size - 1
        BY <1>4, <3>1
      <4> QED
        BY <1>7, <3>1, <4>1
    <3>2. CASE ~(k < i)
      <4>1. k - 1 \in 0 .. arr'.size - 1 /\ ~(k - 1 < i) /\ k - 1 + 1 = k
        BY <1>4, <2>3, <3>2
      <4> QED
        BY <1>7, <4>1
    <3> QED
      BY <3>1, <3>2
  <2>4. Strs!Within(l) \ {l.slots[i]} \subseteq {arr'.list.slots[j] : j \in 0 .. arr'.size - 1}
    <3> SUFFICES ASSUME NEW q \in Strs!Within(l), q # l.slots[i]
                 PROVE  q \in {arr'.list.slots[j] : j \in 0 .. arr'.size - 1}
      OBVIOUS
    <3>1. PICK k \in 0 .. arr.size - 1 : q = l.slots[k]
      BY <1>8
    <3> QED
      BY <2>3, <3>1
  <2> QED
    BY <2>1, <2>2, <2>4
<1>10. \A q \in D' : copies'[q] = copies[q]
  BY <1>1, <1>6 DEF D
<1>11. l.slots[i] \notin Strs!Within(other.list)
  BY <1>8 DEF ArrayInv
<1>12. IsFull(other, D')
  <2>1. Strs!Within(other.list) \subseteq D'
    BY <1>6, <1>8, <1>11
  <2> QED
    BY <1>3, <2>1, FullIn
<1>13. ArrayInv'
  <2>1. copies' = [q \in D' |-> copies'[q]] /\ DOMAIN copies' = D'
    BY <1>1, <1>6 DEF D
  <2>2. Strs!Within(other.list)' = Strs!Within(other.list) /\ Strs!Within(arr.list)' = Strs!Within(arr'.list)
    BY <1>2 DEF Strs!Within
  <2>3. (Strs!Within(arr.list) \cap Strs!Within(other.list))' = {}
    BY <1>9, <2>2 DEF ArrayInv
  <2>4. (Strs!Within(arr.list) \cup Strs!Within(other.list))' = D'
    BY <1>6, <1>9, <1>11, <2>2 DEF ArrayInv, D
  <2> QED
    BY <1>2, <1>6, <1>7, <1>12, <2>1, <2>3, <2>4 DEF ArrayInv, D
<1>14. Strs!IsSequence!Delete(s)
  <2> DEFINE one == Strs!StringsOf(arr)
             two == Strs!StringsOf(other)
  <2>1. two' = two
    <3>1. two' = [n \in 1 .. other.size |-> copies'[other.list.slots[n - 1]]]
      BY <1>2 DEF Strs!StringsOf
    <3> QED
      BY <1>10, <1>12, <3>1, SameStrings
  <2>2. Len(one) = arr.size /\ DOMAIN one = 1 .. arr.size
        /\ \A n \in 1 .. arr.size : one[n] = copies[l.slots[n - 1]]
    BY <1>4 DEF Strs!StringsOf
  <2>3. one' = [n \in 1 .. arr.size - 1 |-> copies'[arr'.list.slots[n - 1]]]
    BY <1>4 DEF Strs!StringsOf
  <2> HIDE DEF one, two
  <2>4. i + 1 \in 1 .. arr.size /\ i + 1 - 1 = i
    BY <1>4
  <2>5. one[i + 1] = s /\ \A j \in 1 .. i + 1 - 1 : one[j] # s
    <3>1. ASSUME NEW j \in 1 .. i + 1 - 1 PROVE one[j] # s
      <4>1. j - 1 \in 0 .. i - 1 /\ j - 1 \in 0 .. arr.size - 1 /\ j \in 1 .. arr.size
        BY <1>4
      <4> QED
        BY <1>1, <1>5, <2>2, <4>1
    <3> QED
      BY <1>1, <1>5, <2>2, <2>4, <3>1
  <2>6. ASSUME NEW n \in 1 .. arr.size - 1
        PROVE  copies'[arr'.list.slots[n - 1]] = IF n < i + 1 THEN one[n] ELSE one[n + 1]
    <3>1. n - 1 \in 0 .. arr'.size - 1 /\ n \in 1 .. arr.size /\ n + 1 \in 1 .. arr.size
          /\ n - 1 + 1 = n /\ n + 1 - 1 = n
      BY <1>4
    <3>2. arr'.list.slots[n - 1] \in D'
      BY <1>7, <3>1 DEF IsFull
    <3>3. copies'[arr'.list.slots[n - 1]] = copies[arr'.list.slots[n - 1]]
      BY <1>10, <3>2
    <3>4. CASE n - 1 < i
      <4>1. n < i + 1
        BY <1>4, <3>4
      <4> QED
        BY <1>7, <2>2, <3>1, <3>3, <3>4, <4>1
    <3>5. CASE ~(n - 1 < i)
      <4>1. ~(n < i + 1)
        BY <1>4, <3>5
      <4> QED
        BY <1>7, <2>2, <3>1, <3>3, <3>5, <4>1
    <3> QED
      BY <3>4, <3>5
  <2>7. one' = [n \in 1 .. Len(one) - 1 |-> IF n < i + 1 THEN one[n] ELSE one[n + 1]]
    BY <2>2, <2>3, <2>6
  <2> QED
    BY <2>1, <2>2, <2>4, <2>5, <2>7 DEF Strs!IsSequence!Delete, one, two
<1> QED
  BY <1>2, <1>13, <1>14

-----------------------------------------------------------------------------
(* A new array.                                                            *)

\* The copies of the first n strings are in the first n slots.
LEMMA FillingLemma ==
    ASSUME NEW n \in Nat
    PROVE  IsFull(Strs!Filling(n), 1 .. n) /\ Strs!Filling(n).size = n
           /\ \A i \in 0 .. n - 1 : Strs!Filling(n).list.slots[i] = i + 1
<1> DEFINE Arrays == {a \in [list : ListSet, size : Nat] : a.size = a.list.size}
           Runs(f) == f = [p \in 0 .. n |-> IF p = 0 THEN Strs!NewArray ELSE Strs!Pushed(f[p - 1], p)]
<1>1. IsFull(Strs!NewArray, {}) /\ Strs!NewArray.size = 0
  BY NewLemma
<1>2. ASSUME NEW a, NEW D, IsFull(a, D) PROVE a \in Arrays
  <2>1. a.list \in ListSet /\ a.size \in Nat
    BY <1>2, InListSet DEF IsFull, IsListOf
  <2> QED
    BY <1>2, <2>1 DEF IsFull
<1>3. ASSUME NEW a \in Arrays, NEW p \in 1 .. n PROVE Strs!Pushed(a, p) \in Arrays
  <2> DEFINE l == a.list
             z == a.list.size
             r == Set(l, p, z)
  <2>1. IsListOf(l, Address) /\ z \in Nat /\ p \in Address
    BY DEF ListSet, Address
  <2>2. Strs!Pushed(a, p) = [list |-> r, size |-> r.size]
    BY SameOps DEF Strs!Pushed
  <2> HIDE DEF l, z, r
  <2>3. IsListOf(r, Address)
    <3>1. IsSet(Set(l, p, z), l, p, z)
      BY <2>1, SetAddress, Zenon
    <3> QED
      BY <3>1 DEF IsSet, r
  <2>4. r \in ListSet /\ r.size \in Nat
    BY <2>3, InListSet DEF IsListOf
  <2> QED
    BY <2>2, <2>4
<1> DEFINE h == [p \in 1 .. n |-> [a \in Arrays |-> Strs!Pushed(a, p)]]
<1>4. h \in [1 .. n -> [Arrays -> Arrays]] /\ Strs!NewArray \in Arrays
  <2> HIDE DEF Arrays
  <2> QED
    BY <1>1, <1>2, <1>3
<1>5. PICK g : Loops(g, n, Arrays, Strs!NewArray, h)
  <2> HIDE DEF h, Arrays
  <2> QED
    BY <1>4, LoopExists, Zenon
<1>6. g \in [0 .. n -> Arrays] /\ g[0] = Strs!NewArray /\ \A p \in 1 .. n : g[p] = h[p][g[p - 1]]
  BY <1>5 DEF Loops
<1> HIDE DEF Arrays
<1>7. \A p \in 0 .. n : g[p] = IF p = 0 THEN Strs!NewArray ELSE Strs!Pushed(g[p - 1], p)
  <2> SUFFICES ASSUME NEW p \in 0 .. n
               PROVE  g[p] = IF p = 0 THEN Strs!NewArray ELSE Strs!Pushed(g[p - 1], p)
    OBVIOUS
  <2>1. CASE p = 0
    BY <1>6, <2>1
  <2>2. CASE p # 0
    <3>1. p \in 1 .. n /\ p - 1 \in 0 .. n
      BY <2>2
    <3>2. g[p - 1] \in Arrays
      BY <1>6, <3>1
    <3> QED
      BY <1>6, <2>2, <3>1, <3>2
  <2> QED
    BY <2>1, <2>2
<1>8. Runs(g)
  BY <1>6, <1>7
<1> DEFINE f == CHOOSE f : Runs(f)
<1>9. Runs(f)
  <2> HIDE DEF Runs
  <2> QED
    BY <1>8
<1>10. Strs!Filling(n) = f[n]
  BY DEF Strs!Filling
<1> HIDE DEF f, h
<1>11. f[0] = Strs!NewArray /\ \A p \in 1 .. n : f[p] = Strs!Pushed(f[p - 1], p)
  <2>1. 0 \in 0 .. n /\ \A p \in 1 .. n : p \in 0 .. n /\ p # 0
    OBVIOUS
  <2> QED
    BY <1>9, <2>1
<1> HIDE DEF Runs
<1> DEFINE Right(k) == /\ IsFull(f[k], 1 .. k) /\ f[k].size = k
                       /\ \A i \in 0 .. k - 1 : f[k].list.slots[i] = i + 1
           G == {k \in 0 .. n : Right(k)}
<1>12. 0 \in G
  <2>1. 1 .. 0 = {}
    OBVIOUS
  <2> QED
    BY <1>1, <1>11, <2>1
<1>13. ASSUME NEW k \in 0 .. n - 1, k \in G PROVE k + 1 \in G
  <2>1. k \in Nat /\ k + 1 \in 1 .. n /\ k + 1 - 1 = k /\ k + 1 \notin 1 .. k /\ k + 1 \in Nat
        /\ k + 1 \in 0 .. n
    OBVIOUS
  <2>2. Right(k)
    BY <1>13
  <2> DEFINE a == f[k]
             b == f[k + 1]
  <2>3. b = Strs!Pushed(a, k + 1)
    BY <1>11, <2>1
  <2>4. /\ IsFull(b, (1 .. k) \cup {k + 1}) /\ b.size = a.size + 1
        /\ b.list.slots[a.size] = k + 1
        /\ \A i \in 0 .. a.size - 1 : b.list.slots[i] = a.list.slots[i]
    <3> HIDE DEF a, b
    <3>1. IsFull(a, 1 .. k)
      BY <2>2 DEF a
    <3> DEFINE p == k + 1
    <3>2. p \in Nat /\ p \notin 1 .. k /\ b = Strs!Pushed(a, p)
      BY <2>1, <2>3
    <3> HIDE DEF p
    <3>3. IsPushed(b, a, p, 1 .. k)
      BY <3>1, <3>2, PushedLemma, Zenon
    <3> QED
      BY <3>3 DEF p, IsPushed
  <2>5. (1 .. k) \cup {k + 1} = 1 .. k + 1
    BY <2>1
  <2> HIDE DEF b, a
  <2>6. a.size = k /\ \A i \in 0 .. k - 1 : a.list.slots[i] = i + 1
    BY <2>2 DEF a
  <2>7. \A i \in 0 .. k : b.list.slots[i] = i + 1
    <3> SUFFICES ASSUME NEW i \in 0 .. k PROVE b.list.slots[i] = i + 1
      OBVIOUS
    <3>1. i = k \/ i \in 0 .. k - 1
      BY <2>1
    <3> QED
      BY <2>4, <2>6, <3>1
  <2>8. Right(k + 1)
    <3>1. IsFull(b, 1 .. k + 1) /\ b.size = k + 1
      BY <2>4, <2>5, <2>6
    <3>2. \A i \in 0 .. k + 1 - 1 : b.list.slots[i] = i + 1
      BY <2>1, <2>7
    <3> QED
      BY <3>1, <3>2 DEF b
  <2> HIDE DEF Right
  <2> QED
    BY <2>1, <2>8
<1>14. n \in G
  <2> HIDE DEF G
  <2>1. 0 .. n \subseteq G
    BY <1>12, <1>13, Climb
  <2> QED
    BY <2>1
<1>15. Right(n)
  BY <1>14
<1> QED
  BY <1>10, <1>15

-----------------------------------------------------------------------------
(* The words of a text.                                                    *)

NoLetter == [words |-> << >>, in_token |-> FALSE, buf |-> << >>]

\* What has been read of a text after each of its letters.
Scan(text, read) ==
    /\ read[0] = NoLetter
    /\ \A k \in 1 .. Len(text) : read[k] = Strs!Letter(read[k - 1], text[k])

LEMMA ScanExists ==
    ASSUME NEW src \in Seq(TextChars)
    PROVE  \E read : Scan(Append(src, Delimiter), read) /\ Strs!Tokenize(src) = read[Len(src) + 1].words
<1> DEFINE text == Append(src, Delimiter)
           n == Len(text)
           Letters == TextChars \cup {Delimiter}
           Tokens == [words : Seq(Seq(Letters)), in_token : BOOLEAN, buf : Seq(Letters)]
           Runs(f) == f = [k \in 0 .. n |-> IF k = 0 THEN NoLetter ELSE Strs!Letter(f[k - 1], text[k])]
<1>1. text \in Seq(Letters) /\ n = Len(src) + 1 /\ n \in Nat /\ \A k \in 1 .. n : text[k] \in Letters
  <2>1. src \in Seq(Letters) /\ Delimiter \in Letters
    OBVIOUS
  <2> QED
    BY <2>1, AppendProperties
<1>2. NoLetter \in Tokens
  BY DEF NoLetter
<1> HIDE DEF text, n, Letters
<1>3. ASSUME NEW t \in Tokens, NEW c \in Letters PROVE Strs!Letter(t, c) \in Tokens
  <2>1. t.words \in Seq(Seq(Letters)) /\ t.buf \in Seq(Letters) /\ t.in_token \in BOOLEAN
    OBVIOUS
  <2>2. Append(t.words, t.buf) \in Seq(Seq(Letters)) /\ Append(t.buf, c) \in Seq(Letters)
        /\ <<c>> \in Seq(Letters)
    BY <2>1
  <2>3. CASE c = Delimiter
    BY <2>1, <2>2, <2>3 DEF Strs!Letter
  <2>4. CASE c # Delimiter
    BY <2>1, <2>2, <2>4 DEF Strs!Letter
  <2> QED
    BY <2>3, <2>4
<1> DEFINE h == [k \in 1 .. n |-> [t \in Tokens |-> Strs!Letter(t, text[k])]]
<1>4. h \in [1 .. n -> [Tokens -> Tokens]]
  <2> HIDE DEF Tokens
  <2> QED
    BY <1>1, <1>3
<1>5. PICK g : Loops(g, n, Tokens, NoLetter, h)
  <2> HIDE DEF h, Tokens
  <2> QED
    BY <1>1, <1>2, <1>4, LoopExists, Zenon
<1>6. g \in [0 .. n -> Tokens] /\ g[0] = NoLetter /\ \A k \in 1 .. n : g[k] = h[k][g[k - 1]]
  BY <1>5 DEF Loops
<1> HIDE DEF Tokens
<1>7. \A k \in 0 .. n : g[k] = IF k = 0 THEN NoLetter ELSE Strs!Letter(g[k - 1], text[k])
  <2> SUFFICES ASSUME NEW k \in 0 .. n
               PROVE  g[k] = IF k = 0 THEN NoLetter ELSE Strs!Letter(g[k - 1], text[k])
    OBVIOUS
  <2>1. CASE k = 0
    BY <1>6, <2>1
  <2>2. CASE k # 0
    <3>1. k \in 1 .. n /\ k - 1 \in 0 .. n
      BY <1>1, <2>2
    <3>2. g[k - 1] \in Tokens
      BY <1>6, <3>1
    <3> QED
      BY <1>6, <2>2, <3>1, <3>2
  <2> QED
    BY <2>1, <2>2
<1>8. Runs(g)
  BY <1>6, <1>7
<1> DEFINE f == CHOOSE f : Runs(f)
<1>9. Runs(f)
  <2> HIDE DEF Runs
  <2> QED
    BY <1>8
<1>10. Strs!Tokenize(src) = f[n].words
  BY DEF Strs!Tokenize, n, text, NoLetter
<1> HIDE DEF f, h
<1>11. f[0] = NoLetter /\ \A k \in 1 .. n : f[k] = Strs!Letter(f[k - 1], text[k])
  <2>1. 0 \in 0 .. n /\ \A k \in 1 .. n : k \in 0 .. n /\ k # 0
    BY <1>1
  <2> QED
    BY <1>9, <2>1
<1> HIDE DEF Runs
<1>12. Scan(text, f)
  BY <1>11 DEF Scan, n
<1> QED
  BY <1>1, <1>10, <1>12 DEF text

Starts(src) == Strs!IsSequence!Starts(src)
Word(src, i) == SubSeq(src, i, Strs!IsSequence!End(src, i))

\* The end of a word is where it was found.
LEMMA EndIs ==
    ASSUME NEW src \in Seq(TextChars), NEW i \in 1 .. Len(src), NEW j \in i .. Len(src),
           \A k \in i .. j : src[k] # Delimiter, j = Len(src) \/ src[j + 1] = Delimiter
    PROVE  Strs!IsSequence!End(src, i) = j
<1> DEFINE Ends(m) == /\ \A k \in i .. m : src[k] # Delimiter
                      /\ m = Len(src) \/ src[m + 1] = Delimiter
           e == CHOOSE m \in i .. Len(src) : Ends(m)
<1>1. e \in i .. Len(src) /\ Ends(e)
  <2>1. \E m \in i .. Len(src) : Ends(m)
    OBVIOUS
  <2> HIDE DEF Ends
  <2> QED
    BY <2>1
<1>2. Strs!IsSequence!End(src, i) = e
  BY DEF Strs!IsSequence!End
<1> HIDE DEF e
<1>3. Len(src) \in Nat
  OBVIOUS
<1>4. ~(e < j)
  <2>1. ASSUME e < j PROVE FALSE
    <3>1. e + 1 \in i .. j /\ e # Len(src)
      BY <1>1, <1>3, <2>1
    <3> QED
      BY <1>1, <3>1
  <2> QED
    BY <2>1
<1>5. ~(j < e)
  <2>1. ASSUME j < e PROVE FALSE
    <3>1. j + 1 \in i .. e /\ j # Len(src)
      BY <1>1, <1>3, <2>1
    <3> QED
      BY <1>1, <3>1
  <2> QED
    BY <2>1
<1> QED
  BY <1>1, <1>2, <1>3, <1>4, <1>5

\* The words that begin at the positions of a sequence.
WordsAt(src, p, n) == [j \in 1 .. n |-> Word(src, p[j])]

LEMMA OneMoreWord ==
    ASSUME NEW src, NEW p, NEW n \in Nat \ {0}
    PROVE  Append(WordsAt(src, p, n - 1), Word(src, p[n])) = WordsAt(src, p, n)
<1> DEFINE w == WordsAt(src, p, n - 1)
           x == Word(src, p[n])
<1>1. Len(w) = n - 1 /\ \A j \in 1 .. n - 1 : w[j] = Word(src, p[j])
  BY DEF WordsAt
<1>2. Append(w, x) = [j \in 1 .. n |-> IF j = n THEN x ELSE w[j]]
  BY <1>1
<1>3. \A j \in 1 .. n : (IF j = n THEN x ELSE w[j]) = Word(src, p[j])
  <2> SUFFICES ASSUME NEW j \in 1 .. n PROVE (IF j = n THEN x ELSE w[j]) = Word(src, p[j])
    OBVIOUS
  <2>1. j = n \/ j \in 1 .. n - 1
    OBVIOUS
  <2> QED
    BY <1>1, <2>1
<1> HIDE DEF w, x
<1>4. Append(w, x) = WordsAt(src, p, n)
  BY <1>2, <1>3 DEF WordsAt
<1> QED
  BY <1>4 DEF w, x

\* Where the words begin that were begun in the first k letters.
Begun(src, k) == {i \in Starts(src) : i <= k}

LEMMA BegunLemma ==
    ASSUME NEW src \in Seq(TextChars), NEW k \in 0 .. Len(src)
    PROVE  /\ Begun(src, k) \in SUBSET Nat /\ Begun(src, 0) = {} /\ Begun(src, Len(src)) = Starts(src)
           /\ \A i \in Begun(src, k) : i \in 1 .. k
           /\ k < Len(src) =>
                  Begun(src, k + 1) = IF src[k + 1] # Delimiter /\ (k = 0 \/ src[k] = Delimiter)
                                      THEN Begun(src, k) \cup {k + 1} ELSE Begun(src, k)
<1>1. Len(src) \in Nat /\ DOMAIN src = 1 .. Len(src) /\ k \in Nat
  OBVIOUS
<1>2. Starts(src) = {i \in 1 .. Len(src) : src[i] # Delimiter /\ (i = 1 \/ src[i - 1] = Delimiter)}
  BY <1>1 DEF Starts, Strs!IsSequence!Starts
<1>3. ASSUME k < Len(src)
      PROVE  k + 1 \in Starts(src) <=> src[k + 1] # Delimiter /\ (k = 0 \/ src[k] = Delimiter)
  <2>1. k + 1 \in 1 .. Len(src) /\ k + 1 - 1 = k /\ (k + 1 = 1 <=> k = 0)
    BY <1>1, <1>3
  <2> QED
    BY <1>2, <2>1
<1>4. Starts(src) \subseteq 1 .. Len(src)
  BY <1>2
<1>5. \A i \in Starts(src) : i \in Nat /\ (i <= k + 1 <=> i <= k \/ i = k + 1)
  BY <1>1, <1>4
<1>6. Begun(src, k) \in SUBSET Nat /\ Begun(src, 0) = {} /\ Begun(src, Len(src)) = Starts(src)
      /\ \A i \in Begun(src, k) : i \in 1 .. k
  BY <1>1, <1>4 DEF Begun
<1>7. ASSUME k < Len(src)
      PROVE  Begun(src, k + 1) = IF k + 1 \in Starts(src) THEN Begun(src, k) \cup {k + 1} ELSE Begun(src, k)
  BY <1>1, <1>5 DEF Begun
<1> QED
  BY <1>3, <1>6, <1>7

\* What is right after k letters: p are the positions at which words began, all of which
\* have ended but the last, when it is being built.
Spells(src, t, k, p) ==
    /\ Lists(p, Begun(src, k))
    /\ IF k # 0 /\ src[k] # Delimiter
       THEN /\ t.in_token /\ Len(p) # 0
            /\ t.words = WordsAt(src, p, Len(p) - 1) /\ t.buf = SubSeq(src, p[Len(p)], k)
            /\ \A m \in p[Len(p)] .. k : src[m] # Delimiter
       ELSE ~t.in_token /\ t.words = WordsAt(src, p, Len(p))

\* A delimiter ends the word that is being built.
LEMMA WordEnds ==
    ASSUME NEW src \in Seq(TextChars), NEW k \in 0 .. Len(src), NEW t, NEW p, Spells(src, t, k, p),
           k = Len(src) \/ src[k + 1] = Delimiter
    PROVE  LET u == Strs!Letter(t, Delimiter)
           IN  u.in_token = FALSE /\ u.words = WordsAt(src, p, Len(p))
<1> DEFINE n == Len(p)
<1>1. Len(src) \in Nat /\ p \in Seq(Begun(src, k)) /\ n \in Nat
  <2>1. p \in Seq(Begun(src, k))
    BY DEF Spells, Lists
  <2> QED
    BY <2>1
<1>2. CASE k # 0 /\ src[k] # Delimiter
  <2>1. /\ t.in_token /\ n # 0 /\ t.words = WordsAt(src, p, n - 1) /\ t.buf = SubSeq(src, p[n], k)
        /\ \A m \in p[n] .. k : src[m] # Delimiter
    BY <1>2 DEF Spells
  <2> HIDE DEF n
  <2>2. p[n] \in 1 .. k
    <3>1. p[n] \in Begun(src, k)
      BY <1>1, <2>1 DEF n
    <3> QED
      BY <3>1, BegunLemma
  <2>3. Strs!IsSequence!End(src, p[n]) = k
    <3>1. p[n] \in 1 .. Len(src) /\ k \in p[n] .. Len(src)
      BY <1>1, <2>2
    <3> QED
      BY <2>1, <3>1, EndIs
  <2>4. t.buf = Word(src, p[n])
    BY <2>1, <2>3 DEF Word
  <2>5. Append(t.words, t.buf) = WordsAt(src, p, n)
    BY <1>1, <2>1, <2>4, OneMoreWord
  <2> QED
    BY <2>1, <2>5 DEF Strs!Letter, n
<1>3. CASE ~(k # 0 /\ src[k] # Delimiter)
  BY <1>3 DEF Spells, Strs!Letter
<1> QED
  BY <1>2, <1>3

\* Another letter begins a word, or is put behind the others.
LEMMA LetterRead ==
    ASSUME NEW src \in Seq(TextChars), NEW k \in 0 .. Len(src) - 1, NEW t, NEW p, Spells(src, t, k, p)
    PROVE  \E q : Spells(src, Strs!Letter(t, src[k + 1]), k + 1, q)
<1> DEFINE c == src[k + 1]
           u == Strs!Letter(t, c)
           n == Len(p)
           B == Begun(src, k)
<1>1. /\ Len(src) \in Nat /\ k \in Nat /\ k \in 0 .. Len(src) /\ k < Len(src) /\ k + 1 \in 1 .. Len(src)
      /\ k + 1 # 0
  OBVIOUS
<1>2. /\ B \in SUBSET Nat /\ \A i \in B : i \in 1 .. k
      /\ Begun(src, k + 1) = IF c # Delimiter /\ (k = 0 \/ src[k] = Delimiter)
                             THEN B \cup {k + 1} ELSE B
  BY <1>1, BegunLemma
<1>3. Lists(p, B) /\ p \in Seq(B) /\ n \in Nat
  <2>1. Lists(p, B) /\ p \in Seq(B)
    BY DEF Spells, Lists
  <2> QED
    BY <2>1
<1> HIDE DEF B
<1>4. CASE c = Delimiter
  <2>1. u.in_token = FALSE /\ u.words = WordsAt(src, p, n)
    BY <1>1, <1>4, WordEnds
  <2>2. Lists(p, Begun(src, k + 1))
    BY <1>2, <1>3, <1>4
  <2>3. Spells(src, u, k + 1, p)
    BY <1>4, <2>1, <2>2 DEF Spells
  <2> QED
    BY <2>3
<1>5. CASE c # Delimiter /\ k # 0 /\ src[k] # Delimiter
  <2>1. /\ t.in_token /\ n # 0 /\ t.words = WordsAt(src, p, n - 1) /\ t.buf = SubSeq(src, p[n], k)
        /\ \A m \in p[n] .. k : src[m] # Delimiter
    BY <1>5 DEF Spells
  <2>2. p[n] \in 1 .. k
    <3>1. n \in 1 .. Len(p)
      BY <1>3, <2>1
    <3>2. p[n] \in B
      BY <1>3, <3>1
    <3> QED
      BY <1>2, <3>2
  <2>3. u.in_token = TRUE /\ u.words = t.words /\ u.buf = Append(t.buf, c)
    BY <1>5, <2>1 DEF Strs!Letter
  <2>4. Append(t.buf, c) = SubSeq(src, p[n], k + 1)
    <3> DEFINE a == p[n]
    <3>1. a \in 1 .. Len(src) /\ k + 1 \in a .. Len(src) /\ k + 1 - 1 = k
      BY <1>1, <2>2
    <3>2. SubSeq(src, a, k + 1) = SubSeq(src, a, k) \o <<c>>
      <4> DEFINE m == k + 1
      <4>1. m \in a .. Len(src) /\ m - 1 = k
        BY <3>1
      <4> HIDE DEF m, a
      <4>2. SubSeq(src, a, m) = SubSeq(src, a, m - 1) \o <<src[m]>>
        BY <3>1, <4>1, SubSeqRecursiveSecond
      <4> QED
        BY <4>1, <4>2 DEF m
    <3>3. SubSeq(src, a, k) \in Seq(TextChars) /\ c \in TextChars
      BY <1>1, <2>2
    <3>4. SubSeq(src, a, k) \o <<c>> = Append(SubSeq(src, a, k), c)
      <4> HIDE DEF a, c
      <4> QED
        BY <3>3, AppendIsConcat
    <3> QED
      BY <2>1, <3>2, <3>4
  <2>5. \A m \in p[n] .. k + 1 : src[m] # Delimiter
    <3> SUFFICES ASSUME NEW m \in p[n] .. k + 1 PROVE src[m] # Delimiter
      OBVIOUS
    <3>1. m = k + 1 \/ m \in p[n] .. k
      BY <1>1, <2>2
    <3> QED
      BY <1>5, <2>1, <3>1
  <2>6. Lists(p, Begun(src, k + 1))
    BY <1>2, <1>3, <1>5
  <2>7. Spells(src, u, k + 1, p)
    BY <1>1, <1>5, <2>1, <2>3, <2>4, <2>5, <2>6 DEF Spells
  <2> QED
    BY <2>7
<1>6. CASE c # Delimiter /\ (k = 0 \/ src[k] = Delimiter)
  <2> DEFINE q == Append(p, k + 1)
  <2>1. ~t.in_token /\ t.words = WordsAt(src, p, n)
    BY <1>6 DEF Spells
  <2>2. u.in_token = TRUE /\ u.words = t.words /\ u.buf = <<c>>
    BY <1>6, <2>1 DEF Strs!Letter
  <2>3. Lists(q, Begun(src, k + 1))
    <3>1. \A m \in B : m < k + 1
      BY <1>1, <1>2
    <3>2. k + 1 \in Nat
      BY <1>1
    <3> QED
      BY <1>2, <1>3, <1>6, <3>1, <3>2, ListsBehind
  <2>4. Len(q) = n + 1 /\ q[n + 1] = k + 1 /\ \A j \in 1 .. n : q[j] = p[j]
    <3>1. k + 1 \in Nat /\ \A j \in 1 .. n : p[j] \in Nat
      <4>1. \A j \in 1 .. n : p[j] \in B
        BY <1>3
      <4>2. k + 1 \in Nat
        BY <1>1
      <4>3. ASSUME NEW j \in 1 .. n PROVE p[j] \in Nat
        BY <1>2, <4>1
      <4> QED
        BY <4>2, <4>3
    <3>2. p \in Seq(Nat)
      BY <1>3, <3>1
    <3> QED
      BY <1>3, <3>1, <3>2, AppendProperties
  <2>5. WordsAt(src, q, n) = WordsAt(src, p, n)
    BY <2>4 DEF WordsAt
  <2>6. SubSeq(src, k + 1, k + 1) = <<c>>
    <3> DEFINE m == k + 1
               e == SubSeq(src, m, m - 1)
    <3>1. m \in 1 .. Len(src) /\ m \in m .. Len(src) /\ m \in Int /\ m - 1 \in Int /\ m - 1 < m
      BY <1>1
    <3> HIDE DEF m
    <3>2. SubSeq(src, m, m) = e \o <<src[m]>>
      BY <3>1, SubSeqRecursiveSecond
    <3>3. e = << >>
      BY <3>1, SubSeqEmpty
    <3> HIDE DEF e
    <3>4. << >> \o <<src[m]>> = <<src[m]>>
      OBVIOUS
    <3> QED
      BY <3>2, <3>3, <3>4 DEF m
  <2>7. \A m \in k + 1 .. k + 1 : src[m] # Delimiter
    <3> SUFFICES ASSUME NEW m \in k + 1 .. k + 1 PROVE src[m] # Delimiter
      OBVIOUS
    <3>1. m = k + 1
      BY <1>1
    <3> QED
      BY <1>6, <3>1
  <2> HIDE DEF q
  <2>8. Len(q) # 0 /\ Len(q) - 1 = n /\ q[Len(q)] = k + 1
    BY <1>3, <2>4
  <2>9. Spells(src, u, k + 1, q)
    BY <1>1, <1>6, <2>1, <2>2, <2>3, <2>5, <2>6, <2>7, <2>8 DEF Spells
  <2> QED
    BY <2>9
<1> QED
  BY <1>4, <1>5, <1>6

\* Tokenizing finds the words.
LEMMA TokenizeIs ==
    ASSUME NEW src \in Seq(TextChars)
    PROVE  \E p : Lists(p, Starts(src)) /\ Strs!Tokenize(src) = WordsAt(src, p, Len(p))
<1> DEFINE text == Append(src, Delimiter)
           n == Len(src)
<1>1. /\ n \in Nat /\ Len(text) = n + 1 /\ text[n + 1] = Delimiter
      /\ \A k \in 1 .. n : text[k] = src[k]
  OBVIOUS
<1>2. PICK read : Scan(text, read) /\ Strs!Tokenize(src) = read[n + 1].words
  BY ScanExists
<1>3. read[0] = NoLetter /\ \A k \in 1 .. n + 1 : read[k] = Strs!Letter(read[k - 1], text[k])
  BY <1>1, <1>2 DEF Scan
<1> HIDE DEF text
<1> DEFINE Right(k) == \E p : Spells(src, read[k], k, p)
           G == {k \in 0 .. n : Right(k)}
<1>4. 0 \in G
  <2>1. Begun(src, 0) = {}
    <3>1. 0 \in 0 .. Len(src)
      BY <1>1
    <3> QED
      BY <3>1, BegunLemma
  <2>2. WordsAt(src, << >>, Len(<< >>)) = << >>
    BY DEF WordsAt
  <2>3. Spells(src, read[0], 0, << >>)
    <3>1. read[0].in_token = FALSE /\ read[0].words = << >>
      BY <1>3 DEF NoLetter
    <3>2. Lists(<< >>, Begun(src, 0))
      BY <2>1, ListsEmpty
    <3> QED
      BY <2>2, <3>1, <3>2 DEF Spells
  <2> QED
    BY <1>1, <2>3
<1>5. ASSUME NEW k \in 0 .. n - 1, k \in G PROVE k + 1 \in G
  <2>1. k + 1 \in 0 .. n /\ k + 1 \in 1 .. n + 1 /\ k + 1 - 1 = k /\ text[k + 1] = src[k + 1]
    BY <1>1
  <2>2. PICK p : Spells(src, read[k], k, p)
    BY <1>5
  <2>3. read[k + 1] = Strs!Letter(read[k], src[k + 1])
    BY <1>3, <2>1
  <2>4. \E q : Spells(src, Strs!Letter(read[k], src[k + 1]), k + 1, q)
    BY <2>2, LetterRead
  <2>5. Right(k + 1)
    BY <2>3, <2>4
  <2> HIDE DEF Right
  <2> QED
    BY <2>1, <2>5
<1>6. n \in G
  <2> HIDE DEF G, n
  <2>1. 0 .. n \subseteq G
    BY <1>1, <1>4, <1>5, Climb
  <2> QED
    BY <1>1, <2>1
<1>7. PICK p : Spells(src, read[n], n, p)
  BY <1>6
<1>8. read[n + 1] = Strs!Letter(read[n], Delimiter)
  <2>1. n + 1 \in 1 .. n + 1 /\ n + 1 - 1 = n
    BY <1>1
  <2> QED
    BY <1>1, <1>3, <2>1
<1>9. read[n + 1].words = WordsAt(src, p, Len(p))
  <2>1. n \in 0 .. Len(src)
    BY <1>1
  <2> QED
    BY <1>7, <1>8, <2>1, WordEnds
<1>10. Lists(p, Starts(src))
  <2>1. Begun(src, n) = Starts(src)
    <3>1. n \in 0 .. Len(src)
      BY <1>1
    <3> QED
      BY <3>1, BegunLemma
  <2> QED
    BY <1>7, <2>1 DEF Spells
<1> QED
  BY <1>2, <1>9, <1>10

\* The words of a text are those that tokenizing finds.
LEMMA WordsAreFound ==
    ASSUME NEW src \in Seq(TextChars)
    PROVE  /\ Strs!IsSequence!Words(src) = Strs!Tokenize(src)
           /\ Len(Strs!Tokenize(src)) \in Nat
           /\ Strs!Tokenize(src) = [k \in 1 .. Len(Strs!Tokenize(src)) |-> Strs!Tokenize(src)[k]]
<1> DEFINE S == Starts(src)
           n == Strs!IsSequence!Cardinality(S)
           Increasing(q) == \A i, j \in 1 .. n : i < j => q[i] < q[j]
           q == CHOOSE q \in [1 .. n -> S] : Increasing(q)
<1>1. PICK p : Lists(p, S) /\ Strs!Tokenize(src) = WordsAt(src, p, Len(p))
  BY TokenizeIs
<1>2. S \in SUBSET Nat /\ S \subseteq 1 .. Len(src) /\ Len(src) \in Nat
  <2>1. DOMAIN src = 1 .. Len(src) /\ Len(src) \in Nat
    OBVIOUS
  <2> QED
    BY <2>1 DEF Starts, Strs!IsSequence!Starts
<1>3. Strs!IsSequence!Words(src) = [k \in 1 .. n |-> Word(src, q[k])]
  BY DEF Strs!IsSequence!Words, Word, Starts
<1>4. n = Cardinality(S)
  BY DEF Strs!IsSequence!Cardinality, Cardinality
<1> HIDE DEF S, n
<1>5. IsFiniteSet(S)
  <2>1. IsFiniteSet(1 .. Len(src))
    BY <1>2, FS_Interval
  <2> QED
    BY <1>2, <2>1, FS_Subset
<1> DEFINE m == Len(p)
<1>6. p \in Seq(S) /\ m \in Nat /\ p \in [1 .. m -> S]
      /\ (\A i, j \in 1 .. m : i < j => p[i] < p[j]) /\ \A x \in S : \E i \in 1 .. m : p[i] = x
  <2>1. p \in Seq(S)
    BY <1>1 DEF Lists
  <2> QED
    BY <1>1, <2>1 DEF Lists
<1>7. IsFiniteSet(1 .. m) /\ Cardinality(1 .. m) = m
  <2> HIDE DEF m
  <2>1. 1 \in Int /\ m \in Int /\ (IF 1 > m THEN 0 ELSE m - 1 + 1) = m
    BY <1>6
  <2>2. IsFiniteSet(1 .. m) /\ Cardinality(1 .. m) = IF 1 > m THEN 0 ELSE m - 1 + 1
    BY <2>1, FS_Interval, Zenon
  <2> QED
    BY <2>1, <2>2
<1>8. m = n
  <2>1. p \in Bijection(1 .. m, S)
    <3>1. ASSUME NEW i \in 1 .. m, NEW j \in 1 .. m, p[i] = p[j] PROVE i = j
      <4>1. p[i] \in Nat /\ p[j] \in Nat
        BY <1>2, <1>6
      <4> HIDE DEF m
      <4>2. ~(i < j) /\ ~(j < i)
        BY <1>6, <3>1, <4>1
      <4> QED
        BY <1>6, <4>2
    <3> HIDE DEF m
    <3> QED
      BY <1>6, <3>1 DEF Bijection, Injection, Surjection, IsInjective
  <2>2. ExistsBijection(1 .. m, S)
    BY <2>1 DEF ExistsBijection
  <2> HIDE DEF m
  <2> QED
    BY <1>4, <1>7, <2>2, FS_Bijection
<1>9. q \in [1 .. n -> S] /\ Increasing(q)
  <2>1. p \in [1 .. n -> S] /\ Increasing(p)
    BY <1>6, <1>8
  <2> HIDE DEF Increasing
  <2> QED
    BY <2>1
<1> HIDE DEF q
<1>10. Lists(q, S)
  <2>1. ASSUME NEW i \in 1 .. n, NEW j \in 1 .. n, q[i] = q[j] PROVE i = j
    <3>1. q[i] \in Nat /\ q[j] \in Nat /\ n \in Nat
      BY <1>2, <1>6, <1>8, <1>9
    <3>2. ~(i < j) /\ ~(j < i)
      BY <1>9, <2>1, <3>1
    <3> QED
      BY <3>1, <3>2
  <2>2. q \in Injection(1 .. n, S)
    BY <1>9, <2>1 DEF Injection, IsInjective
  <2>3. Cardinality(1 .. n) = Cardinality(S)
    BY <1>4, <1>7, <1>8
  <2>4. q \in Surjection(1 .. n, S)
    BY <1>5, <2>2, <2>3, FS_Injection
  <2>5. \A x \in S : \E i \in 1 .. n : q[i] = x
    BY <2>4 DEF Surjection
  <2>6. n \in Nat
    BY <1>6, <1>8
  <2>7. q \in Seq(S) /\ Len(q) = n
    BY <1>9, <2>6
  <2> QED
    BY <1>9, <2>5, <2>7 DEF Lists
<1>11. q = p
  BY <1>1, <1>2, <1>10, ListsOnce
<1>12. Strs!IsSequence!Words(src) = WordsAt(src, p, n)
  BY <1>3, <1>11 DEF WordsAt
<1>13. Strs!Tokenize(src) = WordsAt(src, p, m)
  BY <1>1
<1>14. WordsAt(src, p, m) = [k \in 1 .. m |-> Word(src, p[k])]
  BY DEF WordsAt
<1> HIDE DEF m
<1>15. Len(WordsAt(src, p, m)) = m
  BY <1>6, <1>14
<1>16. WordsAt(src, p, m) = [k \in 1 .. m |-> WordsAt(src, p, m)[k]]
  BY <1>14
<1> QED
  BY <1>6, <1>8, <1>12, <1>13, <1>15, <1>16

LEMMA ArrayInitLemma ==
    ASSUME Strs!ArrayAssumption, Strs!Init
    PROVE  ArrayInv /\ Strs!IsSequence!Init
<1> DEFINE n == Len(copies)
<1>1. source \in Seq(TextChars) /\ copies = Strs!Tokenize(source) /\ arr = Strs!Filling(n)
      /\ other = Strs!NewArray
  BY DEF Strs!ArrayAssumption, Strs!Init
<1>2. n \in Nat /\ copies = [k \in 1 .. n |-> copies[k]] /\ Strs!IsSequence!Words(source) = copies
  BY <1>1, WordsAreFound
<1> HIDE DEF n
<1>3. DOMAIN copies = 1 .. n /\ 1 .. n \in SUBSET (Nat \ {0})
  BY <1>2
<1>4. IsFull(arr, 1 .. n) /\ arr.size = n /\ \A i \in 0 .. n - 1 : arr.list.slots[i] = i + 1
  BY <1>1, <1>2, FillingLemma
<1>5. IsFull(other, 1 .. n) /\ other.size = 0
  BY <1>1, NewLemma
<1>6. Strs!Within(arr.list) = 1 .. n
  <2>1. Strs!Within(arr.list) = {arr.list.slots[i] : i \in 0 .. n - 1}
    BY <1>3, <1>4, WithinLemma
  <2>2. ASSUME NEW q \in 1 .. n PROVE \E i \in 0 .. n - 1 : arr.list.slots[i] = q
    <3>1. q - 1 \in 0 .. n - 1 /\ q - 1 + 1 = q
      BY <1>2
    <3> QED
      BY <1>4, <3>1
  <2>3. \A i \in 0 .. n - 1 : i + 1 \in 1 .. n
    BY <1>2
  <2> QED
    BY <1>4, <2>1, <2>2, <2>3
<1>7. Strs!Within(other.list) = {}
  <2>1. Strs!Within(other.list) = {other.list.slots[i] : i \in 0 .. other.size - 1}
    BY <1>3, <1>5, WithinLemma
  <2> QED
    BY <1>5, <2>1
<1>8. ArrayInv
  BY <1>2, <1>3, <1>4, <1>5, <1>6, <1>7 DEF ArrayInv
<1>9. Strs!StringsOf(other) = << >>
  BY <1>5 DEF Strs!StringsOf
<1>10. Strs!StringsOf(arr) = copies
  <2>1. Strs!StringsOf(arr) = [k \in 1 .. n |-> copies[arr.list.slots[k - 1]]]
    BY <1>4 DEF Strs!StringsOf
  <2>2. \A k \in 1 .. n : arr.list.slots[k - 1] = k
    <3> SUFFICES ASSUME NEW k \in 1 .. n PROVE arr.list.slots[k - 1] = k
      OBVIOUS
    <3>1. k - 1 \in 0 .. n - 1 /\ k - 1 + 1 = k
      BY <1>2
    <3> QED
      BY <1>4, <3>1
  <2> QED
    BY <1>2, <2>1, <2>2
<1> QED
  BY <1>2, <1>8, <1>9, <1>10 DEF Strs!IsSequence!Init

LEMMA ArrayNextLemma ==
    ASSUME Strs!ArrayAssumption, ArrayInv, [Strs!Next]_Strs!vars
    PROVE  ArrayInv' /\ (Strs!IsSequence!Next \/ UNCHANGED <<Strs!StringsOf(arr), Strs!StringsOf(other)>>)
<1>1. CASE \E s \in Added : Strs!Add(s)
  <2>1. PICK s \in Added : Strs!Add(s)
    BY <1>1
  <2>2. ArrayInv' /\ Strs!IsSequence!Add(s) /\ UNCHANGED source
    BY <2>1, ArrayAddStep
  <2> QED
    BY <2>2 DEF Strs!IsSequence!Next
<1>2. CASE \E s \in Added : Strs!RemoveString(s)
  <2>1. PICK s \in Added : Strs!RemoveString(s)
    BY <1>2
  <2>2. ArrayInv' /\ Strs!IsSequence!Delete(s) /\ UNCHANGED source
    BY <2>1, ArrayRemoveStep
  <2> QED
    BY <2>2 DEF Strs!IsSequence!Next
<1>3. CASE Strs!ClearArray
  BY <1>3, ArrayClearStep DEF Strs!IsSequence!Next
<1>4. CASE Strs!Swap
  BY <1>4, ArraySwapStep DEF Strs!IsSequence!Next
<1>5. CASE UNCHANGED Strs!vars
  <2>1. source' = source /\ copies' = copies /\ arr' = arr /\ other' = other
    BY <1>5 DEF Strs!vars
  <2>2. ArrayInv'
    BY <2>1 DEF ArrayInv, Strs!Within
  <2>3. UNCHANGED <<Strs!StringsOf(arr), Strs!StringsOf(other)>>
    BY <2>1 DEF Strs!StringsOf
  <2> QED
    BY <2>2, <2>3
<1> QED
  BY <1>1, <1>2, <1>3, <1>4, <1>5 DEF Strs!Next

\* Whatever is added and removed, no array has a hole and every copy is in one slot.
THEOREM ArraysFilled == ASSUME Strs!ArrayAssumption PROVE Strs!Spec => []Strs!Filled
<1>1. Strs!Init => ArrayInv
  BY ArrayInitLemma
<1>2. ArrayInv /\ [Strs!Next]_Strs!vars => ArrayInv'
  BY ArrayNextLemma
<1>3. ArrayInv => Strs!Filled
  BY InvFilled
<1> QED
  BY <1>1, <1>2, <1>3, PTL DEF Strs!Spec

\* An array of strings is a sequence of strings, which begins as the words of its text.
THEOREM ArraysAreSequences == ASSUME Strs!ArrayAssumption PROVE Strs!Spec => Strs!SequenceSpec
<1>1. Strs!Init => ArrayInv /\ Strs!IsSequence!Init
  BY ArrayInitLemma
<1>2. ArrayInv /\ [Strs!Next]_Strs!vars
      => ArrayInv' /\ [Strs!IsSequence!Next]_<<Strs!StringsOf(arr), Strs!StringsOf(other)>>
  BY ArrayNextLemma
<1> QED
  BY <1>1, <1>2, PTL DEF Strs!Spec, Strs!SequenceSpec, Strs!IsSequence!Spec

-----------------------------------------------------------------------------
(* One beside the other.                                                   *)

LEMMA ContainersNextLemma ==
    ASSUME [ContainersNext]_containerVars
    PROVE  [Hash!Next]_Hash!vars /\ [Buffer!Next]_Buffer!vars /\ [Strs!Next]_Strs!vars /\ unit' = unit
<1>1. ASSUME UNCHANGED hashVars PROVE UNCHANGED Hash!vars
  BY <1>1 DEF hashVars, Hash!vars, Hash!table, Hash!fields
<1>2. ASSUME UNCHANGED bufVars PROVE UNCHANGED Buffer!vars
  BY <1>2 DEF bufVars, Buffer!vars
<1>3. ASSUME UNCHANGED arrVars PROVE UNCHANGED Strs!vars
  BY <1>3 DEF arrVars, Strs!vars
<1>4. CASE ListStep
  BY <1>1, <1>2, <1>3, <1>4 DEF ListStep
<1>5. CASE HashStep
  BY <1>2, <1>3, <1>5 DEF HashStep
<1>6. CASE BufStep
  BY <1>1, <1>3, <1>6 DEF BufStep
<1>7. CASE ArrStep
  BY <1>1, <1>2, <1>7 DEF ArrStep
<1>8. CASE UNCHANGED containerVars
  BY <1>1, <1>2, <1>3, <1>8 DEF containerVars
<1> QED
  BY <1>4, <1>5, <1>6, <1>7, <1>8 DEF ContainersNext

\* Whatever is done to a hash, a buffer or an array of strings: its two chains agree and
\* traversals go on, its string ends inside of its memory, it has no hole and each copy once;
\* for all keys, items, tables, sizes and strings.
THEOREM ContainersInPlace == ContainersSpec => []InPlace
<1>1. ContainersInit => Hash!Init /\ Buffer!Init /\ Strs!Init
  BY DEF ContainersInit
<1>2. [ContainersNext]_containerVars
      => [Hash!Next]_Hash!vars /\ [Buffer!Next]_Buffer!vars /\ [Strs!Next]_Strs!vars
  BY ContainersNextLemma
<1>3. Hash!Spec => [](Hash!TypeOK /\ Hash!Linked /\ Hash!ResumesAfterRemoval)
  BY ContainersAssumption, HashSound
<1>4. Buffer!Spec => [](Buffer!TypeOK /\ Buffer!Terminated)
  BY ContainersAssumption, BufferTerminated
<1>5. Strs!Spec => []Strs!Filled
  BY ContainersAssumption, ArraysFilled
<1>6. /\ Hash!TypeOK /\ Hash!Linked /\ Hash!ResumesAfterRemoval
      /\ Buffer!TypeOK /\ Buffer!Terminated /\ Strs!Filled
      => InPlace
  BY DEF InPlace
<1> QED
  BY <1>1, <1>2, <1>3, <1>4, <1>5, <1>6, PTL DEF ContainersSpec, Hash!Spec, Buffer!Spec, Strs!Spec

\* The hash is an ordered map whose traversals never go back, the buffer is a text that
\* grows, and the array of strings is a sequence that begins as the words of a text.
THEOREM ContainersPromised == ContainersSpec => Promised
<1>1. ContainersInit => Hash!Init /\ Buffer!Init /\ Strs!Init
  BY DEF ContainersInit
<1>2. [ContainersNext]_containerVars
      => [Hash!Next]_Hash!vars /\ [Buffer!Next]_Buffer!vars /\ [Strs!Next]_Strs!vars
  BY ContainersNextLemma
<1>3. Hash!Spec => Hash!MapSpec /\ Hash!NeverBack
  <2>1. Hash!Spec => Hash!MapSpec
    BY ContainersAssumption, HashIsMap
  <2>2. Hash!Spec => [](Hash!TypeOK /\ Hash!Linked /\ Hash!ResumesAfterRemoval) /\ Hash!NeverBack
    BY ContainersAssumption, HashSound
  <2> QED
    BY <2>1, <2>2
<1>4. Buffer!Spec => Buffer!TextSpec
  BY ContainersAssumption, BufferIsText
<1>5. Strs!Spec => Strs!SequenceSpec
  BY ContainersAssumption, ArraysAreSequences
<1> QED
  BY <1>1, <1>2, <1>3, <1>4, <1>5, PTL DEF ContainersSpec, Hash!Spec, Buffer!Spec, Strs!Spec, Promised
=============================================================================
