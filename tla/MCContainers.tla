----------------------------- MODULE MCContainers -----------------------------
(***************************************************************************)
(* The list, the hash, the growing buffer and the array of strings, one    *)
(* beside the other: a behaviour chooses one of them, which is all that    *)
(* moves in it.                                                            *)
(***************************************************************************)
EXTENDS OsrfList

CONSTANTS
    Keys, Values, Slots, SlotOf, Few, NoKey, NoItem, MaxNodes,  \* OsrfHash
    Chars, Nul, Strings, Fill, InitSizes, MaxSize,              \* GrowingBuffer
    TextChars, Delimiter, Sources, Added, MaxStrings            \* StringArray

VARIABLES
    unit,                                           \* which one it is
    used, key, item, prev, next, bucket,            \* OsrfHash
    first, last, size, curr, gone,
    buf, room, bufsize, n_used, freed,              \* GrowingBuffer
    source, copies, arr, other                      \* StringArray

hashVars == <<used, key, item, prev, next, bucket, first, last, size, curr, gone>>
bufVars  == <<buf, room, bufsize, n_used, freed>>
arrVars  == <<source, copies, arr, other>>

containerVars == <<unit, vars, hashVars, bufVars, arrVars>>

-----------------------------------------------------------------------------
(* Instances.                                                              *)

Hash   == INSTANCE OsrfHash WITH Items <- Values
Buffer == INSTANCE GrowingBuffer WITH size <- bufsize, NUL <- Nul
Strs   == INSTANCE StringArray WITH Strings <- Added

ASSUME ContainersAssumption ==
    Hash!HashAssumption /\ Buffer!BufferAssumption /\ Strs!ArrayAssumption

-----------------------------------------------------------------------------
ContainersInit == Init /\ Hash!Init /\ Buffer!Init /\ Strs!Init

ListStep == unit = "list" /\ Next /\ UNCHANGED <<unit, hashVars, bufVars, arrVars>>
HashStep == unit = "hash" /\ Hash!Next /\ UNCHANGED <<unit, vars, bufVars, arrVars>>
BufStep  == unit = "buffer" /\ Buffer!Next /\ UNCHANGED <<unit, vars, hashVars, arrVars>>
ArrStep  == unit = "strings" /\ Strs!Next /\ UNCHANGED <<unit, vars, hashVars, bufVars>>

ContainersNext == ListStep \/ HashStep \/ BufStep \/ ArrStep

ContainersSpec == ContainersInit /\ [][ContainersNext]_containerVars

-----------------------------------------------------------------------------
(* Properties of the modules, for the one that moves.                      *)

\* The two chains of a hash agree, and a traversal goes on after what was removed under
\* it; the string of a buffer ends inside of its memory; an array of strings has no hole and
\* every copy once (osrfHashRemove, osrfHashIteratorNext, buffer_expand,
\* osrfStringArrayRemove).
InPlace ==
    /\ unit = "hash" => Hash!TypeOK /\ Hash!Linked /\ Hash!ResumesAfterRemoval
    /\ unit = "buffer" => Buffer!TypeOK /\ Buffer!Terminated
    /\ unit = "strings" => Strs!Filled

\* The hash is an ordered map, and a traversal of it never goes back; the buffer is a
\* text that grows; the array of strings is a sequence that begins as the words of a text
\* (osrfHashSet, osrfHashRemove, osrfHashIteratorNext, buffer_add, string_array.c).
Promised == Hash!MapSpec /\ Hash!NeverBack /\ Buffer!TextSpec /\ Strs!SequenceSpec
=============================================================================
