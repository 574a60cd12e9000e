------------------------------ MODULE MCLibrary ------------------------------
(***************************************************************************)
(* Small instances of the containers and of JSON for TLC, one beside the   *)
(* other: a behaviour chooses one of them, which is all that moves in it.  *)
(***************************************************************************)
EXTENDS MCContainers, TLC

CONSTANTS k1, k2, k3, s1, s2

VARIABLES
    heap, cloned, calls,                            \* JsonObject
    parser, text, result, corpus, given,            \* JsonPush
    string, left, point, out, rc, done              \* Utf8

treeVars == <<heap, cloned, calls>>
pushVars == <<parser, text, result, corpus, given>>
utf8Vars == <<string, left, point, out, rc, done>>
allVars  == <<containerVars, treeVars, pushVars, utf8Vars>>

-----------------------------------------------------------------------------
(* Instances.                                                              *)

\* Two of the keys of the hash share a slot of its table.
SomeSlots == (k1 :> s1) @@ (k2 :> s1) @@ (k3 :> s2)

Tree == INSTANCE JsonObject WITH MaxObjs <- 4, Keys <- {k1}, MaxSlots <- 2, MaxCalls <- 6

\* Keywords of two letters, escapes of two digits, and what is worth trying in each state.
Words == [w \in {"true", "false", "null"} |->
             CASE w = "true" -> <<"t", "r">> [] w = "false" -> <<"f", "a">> [] OTHER -> <<"n", "l">>]

States == {"BEGIN", "STR", "SLASH", "UTF8", "NUM", "TRUE", "FALSE", "NULL", "ARRAY_BEGIN", "ERROR",
           "ARRAY_VALUE", "ARRAY_COMMA", "OBJ_BEGIN", "OBJ_KEY", "OBJ_COLON", "OBJ_VALUE",
           "OBJ_COMMA", "END"}

AnyDocument(s) ==
    CASE s = "BEGIN" -> {"[", "{", "quote", "f", "-", "space"}
      [] s = "STR"   -> {"quote", "slash", "a", "control"}
      [] s = "SLASH" -> {"slash", "n", "u", "a"}
      [] s = "UTF8"  -> {"0", "1", "a"}
      [] s = "NUM"   -> {"0", "1", "-", ",", "]", "}", "space"}
      [] s = "TRUE"  -> {"r", "1", "]"}
      [] s = "FALSE" -> {"a", "space"}
      [] s = "NULL"  -> {"l", ",", "}", "n"}
      [] s = "ARRAY_BEGIN" -> {"]", "[", "{", "1", "t", "n"}
      [] s = "ARRAY_COMMA" -> {"]", "[", "1", "0", "t", "quote"}
      [] s = "ARRAY_VALUE" -> {"]", ",", "space", "1"}
      [] s = "OBJ_BEGIN"   -> {"quote", "}", "a"}
      [] s = "OBJ_KEY"     -> {":", "space", "a"}
      [] s = "OBJ_COLON"   -> {"n", "1", "[", "quote", "}"}
      [] s = "OBJ_VALUE"   -> {",", "}", "]"}
      [] s = "OBJ_COMMA"   -> {"quote", "}"}
      [] s = "END" -> {"space", "1"}
      [] OTHER -> {}

Objects(s) ==
    CASE s = "BEGIN" -> {"{"}
      [] s \in {"OBJ_BEGIN", "OBJ_VALUE"} -> {"quote", ",", "}"}
      [] s \in {"OBJ_COMMA", "STR"} -> {"quote"}
      [] s = "OBJ_KEY"   -> {":"}
      [] s = "OBJ_COLON" -> {"1", "{"}
      [] s = "NUM"       -> {",", "}"}
      [] OTHER -> {}

Classes(s, new) ==
    CASE s = "BEGIN" -> {"{"}
      [] s = "OBJ_BEGIN" -> {"quote", "}"}
      [] s = "OBJ_COMMA" -> {"quote"}
      [] s = "STR"       -> IF new THEN {"c", "p"} ELSE {"quote"}
      [] s = "OBJ_KEY"   -> {":"}
      [] s = "OBJ_COLON" -> {"1", "{"}
      [] s \in {"OBJ_VALUE", "NUM"} -> {",", "}"}
      [] OTHER -> {}

Numbers(s) == IF s \in {"BEGIN", "NUM"} THEN {"0", "1", "-", "+", ".", "e"} ELSE {}

Documents == [any     |-> [s \in States, new \in BOOLEAN |-> AnyDocument(s)],
              objects |-> [s \in States, new \in BOOLEAN |-> Objects(s)],
              classes |-> [s \in States, new \in BOOLEAN |-> Classes(s, new)],
              numbers |-> [s \in States, new \in BOOLEAN |-> Numbers(s)]]

Json == INSTANCE JsonPush WITH
            Word <- Words, HexLen <- 2, CodeChar <- <<"control", "A", "B">>,
            ClassKey <- <<"c">>, DataKey <- <<"p">>, Refusing <- FALSE,
            Corpora <- Documents, MaxChars <- [any |-> 7, objects |-> 14, classes |-> 14, numbers |-> 5]

\* The bytes at the borders of the classes of bytes.
Utf == INSTANCE Utf8 WITH
           Bytes <- {10, 31, 34, 65, 127, 128, 159, 191, 194, 224, 237, 239, 240, 244, 245},
           MaxBytes <- 4

\* What is added to a buffer.
SomeStrings == {<< >>, <<"a", "!">>, <<"!", "!", "a">>}

\* Texts with delimiters in them and around them.
Texts == UNION {[1 .. n -> {"a", ","}] : n \in {0, 4}} \cup [1 .. 3 -> {"a", "b", ","}]

\* What is added to an array of strings and removed from it.
SomeWords == {<<"a">>, <<"b">>}

ASSUME Tree!ObjAssumption /\ Json!JsonAssumption /\ Utf!Utf8Assumption

-----------------------------------------------------------------------------
LibraryInit ==
    /\ unit \in {"list", "hash", "buffer", "tree", "json", "utf8", "strings"}
    /\ ContainersInit /\ Tree!Init /\ Json!Init /\ Utf!Init
    /\ unit # "list" => frees
    /\ unit # "json" => corpus = "any"
    /\ unit # "buffer" => bufsize = 1
    /\ unit # "strings" => source = << >>

ContainersStep == ContainersNext /\ UNCHANGED <<treeVars, pushVars, utf8Vars>>

TreeStep == unit = "tree" /\ Tree!Next
            /\ UNCHANGED <<containerVars, pushVars, utf8Vars>>
PushStep == unit = "json" /\ Json!Next
            /\ UNCHANGED <<containerVars, treeVars, utf8Vars>>
Utf8Step == unit = "utf8" /\ Utf!Next
            /\ UNCHANGED <<containerVars, treeVars, pushVars>>

LibraryNext == ContainersStep \/ TreeStep \/ PushStep \/ Utf8Step

LibrarySpec == LibraryInit /\ [][LibraryNext]_allVars

-----------------------------------------------------------------------------
(* Properties of the modules, for the one that moves.                      *)

\* Each object is inside of the one that is its parent and of no other, and a clone is
\* equal to its original and shares nothing with it (jsonObjectSetIndex, jsonObjectFree,
\* jsonObjectClone).
TreeSound == unit = "tree" => Tree!TypeOK /\ Tree!OneOwner /\ Tree!CloneIsEqual

\* Whenever another call is made, and one always may be, the two parsers accept the same
\* documents and make the same object of them (jsonParseRaw, jsonPush).
ParsersAgree == [][unit = "json" => Json!ParsersAgree]_allVars

\* In the same states, an object that was written is read back as it was (jsonObjectToJSON,
\* jsonParse).
ReadsBack == [][unit = "json" => Json!ReadsBack]_allVars

\* A string in UTF-8 is written in ASCII and read back as it was, and one that is not is
\* refused or cut at the right place (buffer_append_utf8, get_utf8).
Translated == unit = "utf8" => Utf!Translated /\ Utf!ReadBackByParser

-----------------------------------------------------------------------------
(* What the documentation says and the code does not do.                   *)

\* "A Pointer to the next stored item, if there is one; otherwise NULL".
NextIfThereIsOne == unit = "hash" => Hash!NextIfThereIsOne

\* "Create a copy of an existing jsonObject, including all internal sub-objects".
CloneIsCopy == unit = "tree" => Tree!CloneIsCopy

\* What was written is read back, whatever string it is.
AllReadBack == unit = "utf8" => Utf!AllReadBack
=============================================================================
