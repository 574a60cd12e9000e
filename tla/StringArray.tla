----------------------------- MODULE StringArray -----------------------------
(***************************************************************************)
(* string_array.c: an osrfList of copies of strings, without holes.  It is *)
(* made from a text, or empty, and two of them may be swapped.             *)
(***************************************************************************)
EXTENDS ListOps, Sequences, FiniteSets

CONSTANTS
    TextChars,      \* what texts are made of
    Delimiter,
    Sources,        \* texts that are tokenized
    Strings,        \* strings that are added and removed
    MaxStrings      \* bound: copies at a time

\* No copy of a string has the address NULL.
ArrayAssumption ==
    /\ Sources \subseteq Seq(TextChars)
    /\ MaxStrings \in Nat /\ Nothing \notin Nat \ {0}

VARIABLES
    source,         \* history: the text it was made from
    copies,         \* the strings in memory: a function on their addresses
    arr, other      \* an array: its list, and its own size

vars == <<source, copies, arr, other>>

Addrs == 1 .. MaxStrings

\* osrfStringArrayTokenize: the words so far, and the one that is being built.
Letter(t, c) ==
    IF c = Delimiter
    THEN [words |-> IF t.in_token THEN Append(t.words, t.buf) ELSE t.words, in_token |-> FALSE, buf |-> t.buf]
    ELSE [words |-> t.words, in_token |-> TRUE, buf |-> IF t.in_token THEN Append(t.buf, c) ELSE <<c>>]

\* The NUL at the end of the text is a delimiter too.
Tokenize(src) ==
    LET text == Append(src, Delimiter)
        read[n \in 0 .. Len(text)] ==
            IF n = 0 THEN [words |-> << >>, in_token |-> FALSE, buf |-> << >>]
            ELSE Letter(read[n - 1], text[n])
    IN  read[Len(text)].words

\* osrfNewStringArray
NewArray == [list |-> NewList, size |-> 0]

\* osrfStringArrayAdd of a copy at an address.
Pushed(a, p) ==
    LET l == Set(a.list, p, a.list.size)
    IN  [list |-> l, size |-> l.size]

\* An array of copies at the first addresses.
Filling(n) ==
    LET upto[p \in 0 .. n] == IF p = 0 THEN NewArray ELSE Pushed(upto[p - 1], p)
    IN  upto[n]

Init ==
    /\ source \in Sources
    /\ copies = Tokenize(source)
    /\ arr = Filling(Len(copies))
    /\ other = NewArray

Unused == Addrs \ DOMAIN copies

Add(s) ==
    /\ Unused # {}
    /\ LET p == CHOOSE p \in Unused : TRUE
       IN  /\ copies' = [q \in DOMAIN copies \cup {p} |-> IF q = p THEN s ELSE copies[q]]
           /\ arr' = Pushed(arr, p)
    /\ UNCHANGED <<source, other>>

\* The items of a list that osrfListClear frees.
Within(l) == {l.slots[i] : i \in 0 .. l.size - 1} \ {Nothing}

ClearArray ==
    /\ copies' = [q \in DOMAIN copies \ Within(arr.list) |-> copies[q]]
    /\ arr' = [list |-> Clear(arr.list), size |-> 0]
    /\ UNCHANGED <<source, other>>

Swap == arr' = other /\ other' = arr /\ UNCHANGED <<source, copies>>

\* Mutant: the items are freed while they are shifted.
ShiftedFreeing(l, i) == {l.slots[j] : j \in i .. l.size - 1}

\* What is freed when the string at a position is removed: the items that are shifted
\* behind it are not, because freeItem is reset.
ShiftedOut(l, i) == {l.slots[i]}

\* The strings behind a removed one are moved down by one, and the last slot is removed:
\* a second time, when it was the one to be removed.
Shifted(l, i, n) ==
    LET moved[k \in 0 .. n - 1 - i] ==
            IF k = 0 THEN l ELSE Set(moved[k - 1], GetIndex(moved[k - 1], i + k), i + k - 1)
    IN  Remove(moved[n - 1 - i], n - 1)

RemoveString(s) ==
    /\ \E i \in 0 .. arr.size - 1 :
           /\ copies[GetIndex(arr.list, i)] = s
           /\ \A j \in 0 .. i - 1 : copies[GetIndex(arr.list, j)] # s
           /\ copies' = [q \in DOMAIN copies \ ShiftedOut(arr.list, i) |-> copies[q]]
           /\ arr' = [list |-> Shifted(Remove(arr.list, i), i, arr.size), size |-> arr.size - 1]
    /\ UNCHANGED <<source, other>>

Next ==
    \/ \E s \in Strings : Add(s) \/ RemoveString(s)
    \/ ClearArray \/ Swap

Spec == Init /\ [][Next]_vars

-----------------------------------------------------------------------------
(* Properties.                                                             *)

\* The list of each array has as many strings as the array says, without a hole, and every
\* copy is in exactly one slot: none is freed twice or left behind by the shifting, for
\* which freeing is switched off and on again (osrfStringArrayRemove).
Filled ==
    /\ \A a \in {arr, other} : /\ a.size = a.list.size /\ a.size <= a.list.arrsize
                               /\ \A i \in 0 .. a.size - 1 : a.list.slots[i] \in DOMAIN copies
                               /\ \A i \in a.size .. a.list.arrsize - 1 : a.list.slots[i] = Nothing
    /\ Within(arr.list) \cup Within(other.list) = DOMAIN copies
    /\ arr.size + other.size = Cardinality(DOMAIN copies)

StringsOf(a) == [n \in 1 .. a.size |-> copies[a.list.slots[n - 1]]]

\* The arrays are sequences of strings, of which the first begins as the words of the text
\* (osrfStringArrayTokenize, osrfStringArrayAdd, osrfStringArrayRemove).
IsSequence == INSTANCE StringSequence WITH one <- StringsOf(arr), two <- StringsOf(other)

SequenceSpec == IsSequence!Spec
=============================================================================
