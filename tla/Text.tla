--------------------------------- MODULE Text ---------------------------------
(***************************************************************************)
(* What a growing_buffer promises (the description of the structure in     *)
(* utils.h): a string that grows as it is added to, until it would be too  *)
(* long, which ends it.                                                    *)
(***************************************************************************)
EXTENDS Sequences, Naturals

CONSTANTS
    Chars,
    Strings,    \* what is added at once
    Longest     \* strings are shorter than this

VARIABLES text, lost

Init == text = << >> /\ lost = FALSE

Extend(s) ==
    /\ Len(text) + Len(s) < Longest
    /\ text' = text \o s /\ lost' = lost

Lose(s) ==
    /\ Len(text) + Len(s) >= Longest
    /\ lost' = TRUE /\ text' = text

Clear   == text' = << >> /\ lost' = lost
Shorten == text # << >> /\ text' = SubSeq(text, 1, Len(text) - 1) /\ lost' = lost

Next == ~lost /\ (Clear \/ Shorten \/ \E s \in Strings : Extend(s) \/ Lose(s))

Spec == Init /\ [][Next]_<<text, lost>>
=============================================================================
