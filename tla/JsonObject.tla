------------------------------- MODULE JsonObject -------------------------------
(***************************************************************************)
(* osrf_json_object.c: trees of jsonObjects.  An object is owned by the    *)
(* array or hash it was put into, its parent; objects that are freed go to *)
(* a list from which the next one is taken.                                *)
(*                                                                         *)
(* The caller keeps the rules of the interface: it puts only objects that  *)
(* it owns into others, and none into what is inside of it.  A call is one *)
(* step, with the callbacks that free the items of lists and hashes.  The  *)
(* hash is the ordered map that OsrfHash implements.                       *)
(***************************************************************************)
EXTENDS Integers, Sequences, FiniteSets, SequencesExt

CONSTANTS
    MaxObjs,    \* bound: objects that are allocated
    Keys,
    MaxSlots,   \* bound: positions of arrays
    MaxCalls,   \* bound: calls
    DefaultSize, IncSize

\* What the constants are.
ObjAssumption == MaxObjs \in Nat /\ MaxSlots \in Nat /\ MaxCalls \in Nat

VARIABLES
    heap,       \* obj: the objects; used: how many were allocated; unused: freeObjList
    cloned,     \* history: an object that was just cloned, and the copy
    calls       \* counted for the bound

vars == <<heap, cloned, calls>>

NULL  == 0
Objs  == 1 .. MaxObjs
L     == INSTANCE ListOps WITH Nothing <- NULL

\* The value is << >> while the pointer is NULL, or it has one element: a simple value, an
\* osrfList, or the entries of a hash.
Unused == [live |-> FALSE, type |-> "NULL", parent |-> NULL, size |-> 0, class |-> FALSE, value |-> << >>]

Init ==
    /\ heap = [obj |-> [o \in Objs |-> Unused], used |-> 0, unused |-> << >>]
    /\ cloned = << >> /\ calls = 0

Available(h) == Len(h.unused) + MaxObjs - h.used

\* jsonNewObject, jsonNewObjectType: from the free list, if there is one.
New(h, type, value) ==
    LET o == IF h.unused = << >> THEN h.used + 1 ELSE Head(h.unused)
    IN  [h |-> [h EXCEPT !.obj[o] = [Unused EXCEPT !.live = TRUE, !.type = type, !.value = value],
                         !.used   = IF h.unused = << >> THEN o ELSE @,
                         !.unused = IF @ = << >> THEN @ ELSE Tail(@)],
         o |-> o]

\* "If @a newo is NULL, ... creates a new jsonObject of type JSON_NULL"
NewIfNull(h, n) == IF n = NULL THEN New(h, "NULL", << >>) ELSE [h |-> h, o |-> n]

\* What is in an object, in order; NULL is a hole.
Children(h, o) ==
    LET x == h.obj[o]
    IN  CASE x.value = << >> -> << >>
          [] x.value # << >> /\ x.type = "ARRAY" ->
                 [i \in 1 .. x.value[1].size |-> x.value[1].slots[i - 1]]
          [] x.value # << >> /\ x.type = "HASH" -> [i \in DOMAIN x.value[1] |-> x.value[1][i].obj]
          [] OTHER -> << >>

\* jsonObjectFree and the callbacks that free the items of lists and hashes.
RECURSIVE FreeTree(_, _), FreeAll(_, _)
FreeTree(h, o) ==
    LET g == FreeAll(h, Children(h, o)) IN [g EXCEPT !.obj[o] = Unused, !.unused = <<o>> \o @]

\* The items of a list or a hash.
FreeAll(h, items) ==
    LET freed[i \in 0 .. Len(items)] ==
            IF i = 0 THEN h
            ELSE IF items[i] = NULL THEN freed[i - 1] ELSE FreeTree(freed[i - 1], items[i])
    IN  freed[Len(items)]

\* JSON_INIT_CLEAR: the old contents are freed unless the type stays; the size is not reset.
InitClear(h, o, type) ==
    LET x == h.obj[o]
        keep == x.type = type /\ type \notin {"STRING", "NUMBER"}
        g == IF keep THEN h ELSE FreeAll(h, Children(h, o))
        new == CASE type = "ARRAY" -> <<L!NewList>> [] type = "HASH" -> <<<< >>>> [] OTHER -> << >>
    IN  [g EXCEPT !.obj[o].type = type, !.obj[o].value = IF keep /\ @ # << >> THEN @ ELSE new]

\* jsonObjectPush, jsonObjectSetIndex: with position "last" the former.
SetIndex(h, o, position, n) ==
    LET a == NewIfNull(h, n)
        c == InitClear(a.h, o, "ARRAY")
        l == c.obj[o].value[1]
        p == IF position = -1 THEN l.size ELSE position
        g == IF L!GetIndex(l, p) = NULL THEN c ELSE FreeTree(c, L!GetIndex(l, p))
        s == L!Set(l, a.o, p)
    IN  [g EXCEPT !.obj[a.o].parent = o, !.obj[o].value = <<s>>, !.obj[o].size = s.size]

\* jsonObjectSetKey
SetKey(h, o, k, n) ==
    LET a   == NewIfNull(h, n)
        c   == InitClear(a.h, o, "HASH")
        e   == c.obj[o].value[1]
        old == {i \in DOMAIN e : e[i].key = k}
        g   == IF old = {} THEN c ELSE FreeTree(c, e[CHOOSE i \in old : TRUE].obj)
        s   == IF old = {} THEN Append(e, [key |-> k, obj |-> a.o])
               ELSE [e EXCEPT ![CHOOSE i \in old : TRUE].obj = a.o]
    IN  [g EXCEPT !.obj[a.o].parent = o, !.obj[o].value = <<s>>, !.obj[o].size = Len(s)]

\* A copy with the class of object x.
WithClass(copy, x) == [copy EXCEPT !.h.obj[copy.o].class = x.class]

\* jsonObjectClone.  The elements of an array are counted by its size, which the removal of the last
\* one does not change, and a hole becomes a JSON_NULL; a string without a value becomes one, too.
RECURSIVE Clone(_, _)
Clone(h, o) ==
    LET x == h.obj[o]
        at(i) == IF x.value = << >> THEN NULL ELSE L!GetIndex(x.value[1], i)
        array[i \in 0 .. x.size] ==
            IF i = 0 THEN New(h, "ARRAY", << >>)
            ELSE LET c == IF at(i - 1) = NULL THEN New(array[i - 1].h, "NULL", << >>)
                          ELSE Clone(array[i - 1].h, at(i - 1))
                 IN  [h |-> SetIndex(c.h, array[i - 1].o, -1, c.o), o |-> array[i - 1].o]
        entries == IF x.value = << >> THEN << >> ELSE x.value[1]
        hash[i \in 0 .. Len(entries)] ==
            IF i = 0 THEN New(h, "HASH", << >>)
            ELSE LET c == Clone(hash[i - 1].h, entries[i].obj)
                 IN  [h |-> SetKey(c.h, hash[i - 1].o, entries[i].key, c.o), o |-> hash[i - 1].o]
        copy == CASE x.type = "ARRAY"  -> array[x.size]
                  [] x.type = "HASH"   -> hash[Len(entries)]
                  [] x.type = "STRING" -> New(h, IF x.value = << >> THEN "NULL" ELSE "STRING", x.value)
                  [] OTHER             -> New(h, x.type, x.value)
    IN  WithClass(copy, x)

\* How many objects a clone takes.
RECURSIVE CloneSize(_, _)
CloneSize(h, o) ==
    LET kids == Children(h, o)
        sum[i \in 0 .. Len(kids)] ==
            IF i = 0 THEN 1 ELSE sum[i - 1] + IF kids[i] = NULL THEN 1 ELSE CloneSize(h, kids[i])
        x == h.obj[o]
    IN  sum[Len(kids)] + IF x.type = "ARRAY" THEN x.size - Len(kids) ELSE 0

-----------------------------------------------------------------------------
(* The calls.                                                              *)

Live  == {o \in Objs : heap.obj[o].live}
Roots == {o \in Live : heap.obj[o].parent = NULL}

RECURSIVE RootOf(_)
RootOf(o) == IF heap.obj[o].parent = NULL THEN o ELSE RootOf(heap.obj[o].parent)

Update(h) == heap' = h /\ cloned' = << >>

\* A new object of a type, with a value or without.
Create ==
    /\ Available(heap) > 0
    /\ \E t \in {<<"STRING", <<"text">>>>, <<"STRING", << >>>>, <<"ARRAY", << >>>>, <<"HASH", << >>>>} :
           Update(New(heap, t[1], t[2]).h)

\* What may be put into o: nothing, or an object the caller owns that o is not inside of.
Puttable(o) == {n \in Roots : n # RootOf(o)} \cup (IF Available(heap) > 0 THEN {NULL} ELSE {})

PutIndex(o) ==
    \E n \in Puttable(o), p \in -1 .. MaxSlots - 1 :
        /\ p = -1 => Len(Children(heap, o)) < MaxSlots \/ heap.obj[o].type # "ARRAY"
        /\ Update(SetIndex(heap, o, p, n))

PutKey(o) == \E n \in Puttable(o), k \in Keys : Update(SetKey(heap, o, k, n))

\* jsonObjectSetString and the like.
PutText(o) == Update([InitClear(heap, o, "STRING") EXCEPT !.obj[o].value = <<"text">>])

PutClass(o) == ~heap.obj[o].class /\ Update([heap EXCEPT !.obj[o].class = TRUE])

\* Mutant: the object that is taken out keeps its parent.
ExtractKeepParent(o) ==
    /\ heap.obj[o].type = "ARRAY"
    /\ \E i \in DOMAIN Children(heap, o) :
           LET c == Children(heap, o)[i]
               l == <<L!Remove(heap.obj[o].value[1], i - 1)>>
           IN  \/ Update([heap EXCEPT !.obj[o].value = l])
               \/ Update([IF c = NULL THEN heap ELSE FreeTree(heap, c) EXCEPT !.obj[o].value = l])

\* jsonObjectExtractIndex, jsonObjectRemoveIndex: the size stays what it was.
TakeIndex(o) ==
    /\ heap.obj[o].type = "ARRAY"
    /\ \E i \in DOMAIN Children(heap, o) :
           LET c == Children(heap, o)[i]
               l == <<L!Remove(heap.obj[o].value[1], i - 1)>>
           IN  \/ Update([(IF c = NULL THEN heap ELSE [heap EXCEPT !.obj[c].parent = NULL])
                              EXCEPT !.obj[o].value = l])
               \/ Update([IF c = NULL THEN heap ELSE FreeTree(heap, c) EXCEPT !.obj[o].value = l])

\* jsonObjectRemoveKey
RemoveKey(o) ==
    /\ heap.obj[o].type = "HASH"
    /\ \E i \in DOMAIN Children(heap, o) :
           Update([FreeTree(heap, Children(heap, o)[i]) EXCEPT !.obj[o].value[1] = RemoveAt(@, i)])

\* jsonObjectFree; an object with a parent is left alone.
FreeObject(o) == Update(IF heap.obj[o].parent = NULL THEN FreeTree(heap, o) ELSE heap)

CloneObject(o) ==
    /\ CloneSize(heap, o) <= Available(heap)
    /\ heap' = Clone(heap, o).h /\ cloned' = <<o, Clone(heap, o).o>>

Next ==
    /\ calls < MaxCalls /\ calls' = calls + 1
    /\ \/ Create
       \/ \E o \in Live : \/ PutIndex(o) \/ PutKey(o) \/ PutText(o) \/ PutClass(o)
                          \/ TakeIndex(o) \/ RemoveKey(o) \/ FreeObject(o) \/ CloneObject(o)

Spec == Init /\ [][Next]_vars

-----------------------------------------------------------------------------
(* Properties.                                                             *)

\* Every variable has its type; the value of an array and of a hash is one, the others have none.
TypeOK ==
    /\ heap.used \in 0 .. MaxObjs /\ heap.unused \in Seq(1 .. heap.used)
    /\ cloned \in {<< >>} \cup (Objs \X Objs) /\ calls \in 0 .. MaxCalls
    /\ \A o \in Objs :
           LET x == heap.obj[o]
           IN  /\ x.live \in BOOLEAN /\ x.class \in BOOLEAN
               /\ x.type \in {"NULL", "STRING", "ARRAY", "HASH"}
               /\ x.parent \in 0 .. MaxObjs /\ x.size \in 0 .. MaxSlots
               /\ \/ x.value = << >>
                  \/ x.type = "HASH" /\ Len(x.value[1]) <= Cardinality(Keys)
                  \/ x.type = "ARRAY" /\ x.value[1].size <= MaxSlots
                  \/ x.type = "STRING" /\ x.value = <<"text">>

\* An object is inside of exactly the one that is its parent, in one place; nothing that was freed is
\* inside of a live object, and each free object is once on the free list.
OneOwner ==
    /\ \A o \in Live : \A i \in DOMAIN Children(heap, o) :
           LET c == Children(heap, o)[i]
           IN  c # NULL => /\ c \in Live /\ heap.obj[c].parent = o
                           /\ \A j \in DOMAIN Children(heap, o) : Children(heap, o)[j] = c => j = i
    /\ \A c \in Live : LET p == heap.obj[c].parent
                       IN  p # NULL => p \in Live /\ \E i \in DOMAIN Children(heap, p) : Children(heap, p)[i] = c
    /\ \A o \in 1 .. heap.used : o \in Live <=> \A i \in DOMAIN heap.unused : heap.unused[i] # o
    /\ IsInjective(heap.unused)

\* The value of an object as its JSON text shows it; a hole is written as null.
RECURSIVE Value(_)
Value(o) ==
    IF o = NULL THEN <<"NULL", FALSE, << >>>>
    ELSE LET x == heap.obj[o]
             kids == Children(heap, o)
         IN  <<x.type, x.class,
               CASE x.type = "ARRAY" -> [i \in DOMAIN kids |-> Value(kids[i])]
                 [] x.type = "HASH"  -> [i \in DOMAIN kids |-> <<x.value[1][i].key, Value(kids[i])>>]
                 [] OTHER -> x.value>>

\* Arrays that lost their last element, and strings without a value, in an object.
RECURSIVE Odd(_)
Odd(o) ==
    LET x == heap.obj[o]
    IN  \/ x.type = "ARRAY" /\ x.size # Len(Children(heap, o))
        \/ x.type = "STRING" /\ x.value = << >>
        \/ \E i \in DOMAIN Children(heap, o) : Children(heap, o)[i] # NULL /\ Odd(Children(heap, o)[i])

\* A clone is equal to the object, unless that has an array whose last element was removed or a
\* string without a value; and it shares nothing with it.
CloneIsEqual ==
    cloned # << >> =>
        /\ Odd(cloned[1]) \/ Value(cloned[1]) = Value(cloned[2])
        /\ heap.obj[cloned[2]].parent = NULL

\* "Create a copy of an existing jsonObject, including all internal sub-objects" (jsonObjectClone),
\* for every object.
CloneIsCopy == cloned # << >> => Value(cloned[1]) = Value(cloned[2])
=============================================================================
