------------------------------- MODULE JsonPush -------------------------------
(***************************************************************************)
(* jsonpush.c: a parser that is given a document in pieces of any length   *)
(* and calls a handler for each thing it finds.  What a recursive parser   *)
(* keeps on the call stack it keeps in a stack of its own, with the keys   *)
(* of the object it is in; a number or keyword ends with the character     *)
(* behind it, which is then read again.                                    *)
(*                                                                         *)
(* A piece is one character here: jsonPush keeps nothing from one to the   *)
(* next but the parser.  The handlers record what they are called with.    *)
(***************************************************************************)
EXTENDS JsonParse, SequencesExt

CONSTANTS
    Corpora,    \* kinds of documents: for each, the characters that are tried in a state,
                \* while the buffer is empty or not
    MaxChars,   \* bound: how many of them, for all documents together
    Refusing    \* whether a handler may return 1

VARIABLES
    parser,     \* state, stack, keys, buf, word, again: the fields of the parser;
                \* events: what the handlers were called with; rc: their return code
    text,       \* the document so far
    result,     \* what the caller knows of it
    corpus,     \* the kind of the documents
    given       \* characters read, for the bound

vars == <<parser, text, result, corpus, given>>

\* The fields of a new parser.
NewParser == [state |-> "BEGIN", stack |-> << >>, keys |-> {}, buf |-> << >>, word |-> 0,
              again |-> FALSE, events |-> << >>, refuses |-> FALSE, rc |-> 0]

Init ==
    /\ parser = NewParser /\ text = << >> /\ result = "reading"
    /\ corpus \in DOMAIN Corpora /\ given = 0

\* A handler is called; one that refuses returns 1.
Call(p, name, arg) ==
    [p EXCEPT !.events = Append(@, <<name, arg>>), !.rc = IF p.refuses THEN 1 ELSE 0]

Error(p) == [p EXCEPT !.rc = 1]

PushState(p, s) == [p EXCEPT !.stack = <<[state |-> s, keys |-> p.keys]>> \o @, !.keys = {}]

\* Mutant: the keys of the enclosing object are forgotten.
PopStateOnly(p) ==
    IF p.stack = << >> THEN [p EXCEPT !.state = "END"]
    ELSE [p EXCEPT !.state = Head(p.stack).state, !.keys = {}, !.stack = Tail(@)]

PopState(p) ==
    IF p.stack = << >> THEN [p EXCEPT !.state = "END"]
    ELSE [p EXCEPT !.state = Head(p.stack).state, !.keys = Head(p.stack).keys, !.stack = Tail(@)]

\* check_pp_end; what handleEndJSON returns is not looked at.
CheckEnd(p) ==
    IF p.state = "END" THEN [p EXCEPT !.events = Append(@, <<"EndJSON", << >> >>)] ELSE p

-----------------------------------------------------------------------------
(* The state handlers.                                                     *)

\* The start of a value; "after" is the state to return to.
DoValue(p, c, after) ==
    LET q      == PushState(p, after)
        in(s)  == [q EXCEPT !.state = s]
        fresh  == [q EXCEPT !.buf = << >>]
    IN  CASE c \in Blank   -> p
          [] c = "quote"   -> [fresh EXCEPT !.state = "STR"]
          [] c = "["       -> Call(in("ARRAY_BEGIN"), "BeginArray", << >>)
          [] c = "{"       -> Call(in("OBJ_BEGIN"), "BeginObj", << >>)
          [] c = Word["true"][1]  -> [in("TRUE") EXCEPT !.word = 1]
          [] c = Word["false"][1] -> [in("FALSE") EXCEPT !.word = 1]
          [] c = Word["null"][1]  -> [in("NULL") EXCEPT !.word = 1]
          [] c \in NumChars -> [fresh EXCEPT !.state = "NUM", !.buf = <<c>>]
          [] OTHER -> Error(p)

\* do_begin
DoBegin(p, c) == DoValue(p, c, "END")

\* do_str: the end of a string or of a key, a backslash, or one more character.
DoStr(p, c) ==
    LET q == PopState(p)
    IN  CASE c = "quote" /\ q.state = "OBJ_KEY" ->
                 IF p.buf \in q.keys THEN Error(q)
                 ELSE Call([q EXCEPT !.keys = @ \cup {p.buf}], "ObjKey", p.buf)
          [] c = "quote" /\ q.state # "OBJ_KEY" -> CheckEnd(Call(q, "String", p.buf))
          [] c = "slash" -> [p EXCEPT !.state = "SLASH"]
          [] c \in {"newline", "control"} -> Error(p)
          [] OTHER -> [p EXCEPT !.buf = Append(@, c)]

\* do_slash: only the escapes that JSON knows.
DoSlash(p, c) ==
    CASE c = "u" -> [p EXCEPT !.state = "UTF8", !.word = 0]
      [] c \in DOMAIN Escape -> [p EXCEPT !.state = "STR", !.buf = Append(@, Escape[c])]
      [] OTHER -> Error(p)

\* do_utf8: the digits are collected behind the text of the buffer; the last one turns
\* them into a character.
DoUtf8(p, c) ==
    LET got  == Append(p.buf, c)
        base == SubSeq(got, 1, Len(got) - HexLen)
        code == Code(SubSeq(got, Len(got) - HexLen + 1, Len(got)))
    IN  CASE c \notin Digits -> Error(p)
          [] c \in Digits /\ p.word + 1 < HexLen -> [p EXCEPT !.buf = got, !.word = @ + 1]
          [] OTHER -> IF code = 0 THEN Error(p)
                      ELSE [p EXCEPT !.state = "STR", !.buf = Append(base, CodeChar[code])]

\* The end of a token: its handler, and back to the enclosing level.  The character
\* behind it is still to be read.
EndToken(p, name, arg) == CheckEnd(PopState(Call([p EXCEPT !.again = TRUE], name, arg)))

\* do_num
DoNum(p, c) ==
    CASE c \in NumChars -> [p EXCEPT !.buf = Append(@, c)]
      [] c \notin NumChars /\ Number(p.buf) # Fail -> EndToken(p, "Number", Number(p.buf).s)
      [] OTHER -> Error(p)

\* A keyword, with found_keyword; only white space or punctuation may follow.
DoWord(p, c, w, name, arg) ==
    CASE p.word < Len(Word[w]) /\ c = Word[w][p.word + 1] -> [p EXCEPT !.word = @ + 1]
      [] p.word = Len(Word[w]) /\ c \notin Letters \cup Digits \cup {"control"} -> EndToken(p, name, arg)
      [] OTHER -> Error(p)

\* do_true, do_false, do_null
DoTrue(p, c)  == DoWord(p, c, "true", "Bool", TRUE)
DoFalse(p, c) == DoWord(p, c, "false", "Bool", FALSE)
DoNull(p, c)  == DoWord(p, c, "null", "Null", << >>)

\* do_array_begin, do_array_value, do_array_comma
EndArray(p) == CheckEnd(PopState(Call(p, "EndArray", << >>)))
DoArrayBegin(p, c) == IF c = "]" THEN EndArray(p) ELSE DoValue(p, c, "ARRAY_VALUE")
DoArrayComma(p, c) == DoValue(p, c, "ARRAY_VALUE")
DoArrayValue(p, c) ==
    CASE c \in Blank -> p
      [] c = ","     -> [p EXCEPT !.state = "ARRAY_COMMA"]
      [] c = "]"     -> EndArray(p)
      [] OTHER       -> Error(p)

\* do_obj_begin, do_obj_comma: a key, or, at the beginning only, the end.
EndObj(p) == CheckEnd(PopState(Call(p, "EndObj", << >>)))
DoObjComma(p, c) ==
    CASE c \in Blank -> p
      [] c = "quote" -> [PushState(p, "OBJ_KEY") EXCEPT !.state = "STR", !.buf = << >>]
      [] OTHER       -> Error(p)
DoObjBegin(p, c) == IF c = "}" THEN EndObj(p) ELSE DoObjComma(p, c)

\* do_obj_key, do_obj_colon, do_obj_value
DoObjKey(p, c) ==
    CASE c \in Blank -> p
      [] c = ":"     -> [p EXCEPT !.state = "OBJ_COLON"]
      [] OTHER       -> Error(p)
DoObjColon(p, c) == DoValue(p, c, "OBJ_VALUE")
DoObjValue(p, c) ==
    CASE c \in Blank -> p
      [] c = ","     -> [p EXCEPT !.state = "OBJ_COMMA"]
      [] c = "}"     -> EndObj(p)
      [] OTHER       -> Error(p)

\* do_end
DoEnd(p, c) == IF c \in Blank THEN p ELSE Error(p)

\* The switch of jsonPush.
Do(p, c) ==
    CASE p.state = "BEGIN" -> DoBegin(p, c)
      [] p.state = "STR"   -> DoStr(p, c)
      [] p.state = "SLASH" -> DoSlash(p, c)
      [] p.state = "UTF8"  -> DoUtf8(p, c)
      [] p.state = "NUM"   -> DoNum(p, c)
      [] p.state = "TRUE"  -> DoTrue(p, c)
      [] p.state = "FALSE" -> DoFalse(p, c)
      [] p.state = "NULL"  -> DoNull(p, c)
      [] p.state = "ARRAY_BEGIN" -> DoArrayBegin(p, c)
      [] p.state = "ARRAY_VALUE" -> DoArrayValue(p, c)
      [] p.state = "ARRAY_COMMA" -> DoArrayComma(p, c)
      [] p.state = "OBJ_BEGIN"   -> DoObjBegin(p, c)
      [] p.state = "OBJ_KEY"     -> DoObjKey(p, c)
      [] p.state = "OBJ_COLON"   -> DoObjColon(p, c)
      [] p.state = "OBJ_VALUE"   -> DoObjValue(p, c)
      [] p.state = "OBJ_COMMA"   -> DoObjComma(p, c)
      [] p.state = "END"         -> DoEnd(p, c)

\* The loop of jsonPush, for one character.
RECURSIVE Read(_, _)
Read(p, c) ==
    LET q == Do(p, c)
    IN  IF q.rc = 1 THEN [q EXCEPT !.state = "ERROR"]
        ELSE IF q.again THEN Read([q EXCEPT !.again = FALSE], c) ELSE q

Push(c) ==
    /\ result = "reading" /\ given < MaxChars[corpus]
    /\ \E r \in IF Refusing THEN BOOLEAN ELSE {FALSE} :
           parser' = Read([parser EXCEPT !.refuses = r], c)
    /\ text' = Append(text, c)
    /\ result' = IF parser'.rc = 1 THEN "refused" ELSE "reading"
    /\ given' = given + 1 /\ UNCHANGED corpus

\* The first part of jsonPushParserFinish: a token that is complete is reported.  An incomplete
\* keyword is an error, but the level is left and the end reported all the same.
FinishToken(p) ==
    LET whole(w, name, arg) ==
            CheckEnd(PopState(IF p.word = Len(Word[w]) THEN Call(p, name, arg) ELSE Error(p)))
    IN  CASE p.state = "NUM"   -> IF Number(p.buf) = Fail THEN [Error(p) EXCEPT !.state = "ERROR"]
                                  ELSE CheckEnd(PopState(Call(p, "Number", Number(p.buf).s)))
          [] p.state = "TRUE"  -> whole("true", "Bool", TRUE)
          [] p.state = "FALSE" -> whole("false", "Bool", FALSE)
          [] p.state = "NULL"  -> whole("null", "Null", << >>)
          [] OTHER -> p

\* jsonPushParserFinish; the caller has failed already if a piece was refused.
Finish ==
    /\ result = "reading"
    /\ \E r \in IF Refusing THEN BOOLEAN ELSE {FALSE} :
           LET p == FinishToken([parser EXCEPT !.refuses = r])
           IN  parser' = CASE p.state \in {"BEGIN", "END"} -> [p EXCEPT !.state = "END"]
                           [] p.state = "ERROR" -> p
                           [] OTHER -> [Error(p) EXCEPT !.state = "ERROR"]
    /\ result' = IF parser'.rc = 1 THEN "unfinished" ELSE "accepted"
    /\ UNCHANGED <<text, corpus, given>>

\* jsonPushParserReset, between two documents: only the state is set.
Reset ==
    /\ result # "reading"
    /\ parser' = [parser EXCEPT !.state = "BEGIN", !.events = << >>, !.rc = 0]
    /\ text' = << >> /\ result' = "reading"
    /\ UNCHANGED <<corpus, given>>

Next == (\E c \in Corpora[corpus][parser.state, parser.buf = << >>] : Push(c)) \/ Finish \/ Reset

Spec == Init /\ [][Next]_vars

-----------------------------------------------------------------------------
(* Properties.                                                             *)

\* The calls of the handlers that a value stands for.
RECURSIVE Calls(_)
Calls(v) ==
    CASE v.type = "NULL"   -> <<<<"Null", << >> >>>>
      [] v.type = "BOOL"   -> <<<<"Bool", v.b>>>>
      [] v.type = "NUMBER" -> <<<<"Number", v.s>>>>
      [] v.type = "STRING" -> <<<<"String", v.s>>>>
      [] v.type = "ARRAY"  ->
             <<<<"BeginArray", << >> >>>>
               \o FlattenSeq([i \in DOMAIN v.items |-> Calls(v.items[i])]) \o <<<<"EndArray", << >> >>>>
      [] v.type = "HASH"   ->
             <<<<"BeginObj", << >> >>>>
               \o FlattenSeq([i \in DOMAIN v.pairs |->
                                 <<<<"ObjKey", v.pairs[i].key>>>> \o Calls(v.pairs[i].val)])
               \o <<<<"EndObj", << >> >>>>

\* The texts that get_string is more tolerant of: a character that is no escape behind a backslash,
\* or one that may not stand in a string.
Lenient(t) ==
    \E i \in DOMAIN t :
        \/ t[i] \in {"newline", "control"}
        \/ t[i] = "slash" /\ At(t, i + 1) \notin DOMAIN Escape \cup {"u"}

Closings == {<< >>, <<"]">>, <<"}">>, <<"quote">>, <<"1", "]">>}

\* The two parsers of the library agree on every document, also after others were given up
\* in the middle: what jsonPush accepts, jsonParseRaw reads as the value that was reported
\* to the handlers, and what jsonPush refuses is no document, however it goes on.
ParsersAgree ==
    /\ result = "accepted" =>
           \E v \in {ParseIt(text, FALSE)} :
               IF \A i \in DOMAIN text : text[i] \in Blank THEN v = Fail /\ parser.events = << >>
               ELSE v # Fail /\ parser.events = Calls(v) \o <<<<"EndJSON", << >> >>>>
    /\ result = "unfinished" /\ ~Lenient(text) => ParseIt(text, FALSE) = Fail
    /\ result = "refused" =>
           \A s \in Closings : ~Lenient(text \o s) => ParseIt(text \o s, FALSE) = Fail

\* What is written is read back, with the hints of classes and without: the text of an accepted
\* document's value is read as that value, unless the document has a number that had to be
\* repaired.  (The name of a class must have no character that is to be escaped.)
ReadsBack ==
    result = "accepted" =>
        \A classes \in BOOLEAN : \E v \in {ParseIt(text, classes)} :
            \/ v = Fail
            \/ \E i \in DOMAIN parser.events :
                   parser.events[i][1] = "Number" /\ ~IsNumeric(parser.events[i][2])
            \/ ParseIt(ToJSON(v, classes), classes) = v
=============================================================================
