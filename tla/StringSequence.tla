---------------------------- MODULE StringSequence ----------------------------
(***************************************************************************)
(* What an osrfStringArray promises: the words of a text, and then strings *)
(* that are added at the end and removed wherever they are.                *)
(***************************************************************************)
EXTENDS Sequences, Integers, FiniteSets

CONSTANTS Delimiter, Strings

VARIABLES
    source,
    one, two        \* the strings of two arrays

\* The words of a text: what is between delimiters, from the left to the right.
Starts(src) == {i \in DOMAIN src : src[i] # Delimiter /\ (i = 1 \/ src[i - 1] = Delimiter)}
End(src, i) == CHOOSE j \in i .. Len(src) : /\ \A k \in i .. j : src[k] # Delimiter
                                            /\ j = Len(src) \/ src[j + 1] = Delimiter
Words(src) ==
    LET n == Cardinality(Starts(src))
        p == CHOOSE p \in [1 .. n -> Starts(src)] : \A i, j \in 1 .. n : i < j => p[i] < p[j]
    IN  [k \in 1 .. n |-> SubSeq(src, p[k], End(src, p[k]))]

Init == one = Words(source) /\ two = << >>

Add(s) == one' = Append(one, s) /\ UNCHANGED two

\* The first of them that is equal.
Delete(s) ==
    /\ \E i \in DOMAIN one :
           /\ one[i] = s /\ \A j \in 1 .. i - 1 : one[j] # s
           /\ one' = [j \in 1 .. Len(one) - 1 |-> IF j < i THEN one[j] ELSE one[j + 1]]
    /\ UNCHANGED two

Clear    == one' = << >> /\ UNCHANGED two
Exchange == one' = two /\ two' = one

Next == UNCHANGED source /\ (Clear \/ Exchange \/ \E s \in Strings : Add(s) \/ Delete(s))

Spec == Init /\ [][Next]_<<one, two>>
=============================================================================
