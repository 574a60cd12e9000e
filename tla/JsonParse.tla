------------------------------- MODULE JsonParse -------------------------------
(***************************************************************************)
(* JSON texts as osrf_parse_json.c reads them and osrf_json_object.c       *)
(* writes them, and the check and the repair of numbers that both parsers  *)
(* share.                                                                  *)
(*                                                                         *)
(* A text is a sequence of characters, a character a string: the signs     *)
(* and letters themselves, and "quote", "slash" (the backslash), "space",  *)
(* "newline", "control" (any other character that may not stand in a       *)
(* string as it is).  Keywords and hexadecimal escapes are as long as the  *)
(* constants make them.                                                    *)
(***************************************************************************)
EXTENDS Integers, Sequences, FiniteSets

CONSTANTS
    Word,       \* the spelling of "true", "false" and "null"
    HexLen,     \* digits of an escape \u
    CodeChar,   \* the character of each code from 1 on
    ClassKey, DataKey   \* JSON_CLASS_KEY, JSON_DATA_KEY

\* What the constants are.
JsonAssumption ==
    /\ \A w \in {"true", "false", "null"} : Len(Word[w]) > 1
    /\ HexLen \in Nat \ {0} /\ Len(CodeChar) = 2 ^ HexLen - 1

NUL       == "nul"     \* what stands behind the text
Digits    == {"0", "1"}
Signs     == {"-", "+"}
NumChars  == Digits \cup Signs \cup {".", "e"}
Letters   == {"a", "u", "e"} \cup UNION {{Word[w][i] : i \in DOMAIN Word[w]} : w \in DOMAIN Word}
Fail      == [type |-> "FAIL"]
NoClass   == << >>

At(t, i) == IF i \in DOMAIN t THEN t[i] ELSE NUL

\* How many characters of t from i on are in S.
Run(t, i, S) ==
    CHOOSE n \in 0 .. Len(t) :
        /\ At(t, i + n) \notin S
        /\ \A k \in 0 .. n - 1 : At(t, i + k) \in S

\* n characters from i on.
Cut(t, i, n) == [k \in 1 .. n |-> At(t, i + k - 1)]

-----------------------------------------------------------------------------
(* Numbers.                                                                *)

\* jsonIsNumeric: the grammar of a JSON number.
IsNumeric(s) ==
    LET int  == IF At(s, 1) = "-" THEN 2 ELSE 1
        frac == int + Run(s, int, Digits)
        exp  == IF At(s, frac) # "." THEN frac ELSE frac + 1 + Run(s, frac + 1, Digits)
        pow  == IF At(s, exp + 1) \in Signs THEN exp + 2 ELSE exp + 1
    IN  /\ frac > int /\ (s[int] = "0" => frac = int + 1)
        /\ At(s, frac) = "." => exp > frac + 1
        /\ \/ exp = Len(s) + 1
           \/ /\ At(s, exp) = "e" /\ At(s, pow) \in Digits
              /\ pow + Run(s, pow, Digits) = Len(s) + 1

\* jsonScrubNumber: a text that is not numeric, made so.  (What it makes of "00", "1."
\* or "1e" is not.)
Scrub(s) ==
    LET sign == IF At(s, 1) = "-" THEN <<"-">> ELSE << >>
        from == IF At(s, 1) \in Signs THEN 2 ELSE 1
        int  == from + Run(s, from, {"0"})
        left == Cut(s, int, Run(s, int, Digits))
        dot  == int + Len(left)
        frac == Cut(s, dot + 1, Run(s, dot + 1, Digits))
        exp  == IF At(s, dot) = "." THEN dot + 1 + Len(frac) ELSE dot
        pow  == Cut(s, exp + 1, IF At(s, exp + 1) \in Signs THEN 1 ELSE 0)
        digs == Cut(s, exp + 1 + Len(pow), Run(s, exp + 1 + Len(pow), Digits))
        base == CASE At(s, dot) = "." -> (IF left = << >> THEN <<"0">> ELSE left) \o <<".">> \o frac
                  [] At(s, dot) = "e" -> IF left = << >> THEN <<"1">> ELSE left
                  [] OTHER -> left
        exps == IF At(s, exp) = "e" THEN <<"e">> \o pow \o digs ELSE << >>
    IN  IF \/ from > Len(s)
           \/ At(s, dot) \notin {".", "e", NUL}
           \/ At(s, dot) = "." /\ left = << >> /\ frac = << >>
           \/ exp + Len(exps) # Len(s) + 1
        THEN Fail
        ELSE [type |-> "NUMBER", class |-> NoClass, s |-> sign \o base \o exps]

\* What both parsers make of the characters of a number.
Number(s) == IF IsNumeric(s) THEN [type |-> "NUMBER", class |-> NoClass, s |-> s] ELSE Scrub(s)

-----------------------------------------------------------------------------
(* The recursive parser.  Each operator returns a value and the position   *)
(* behind it.                                                              *)

\* The characters that an escaped one may stand for; get_string lets any other stand
\* for itself.
Escape == [c \in {"quote", "slash", "n"} |-> IF c = "n" THEN "newline" ELSE c]

\* The code of HexLen digits, of which there are two.
Code(d) ==
    LET value[i \in 0 .. HexLen] == IF i = 0 THEN 0 ELSE 2 * value[i - 1] + IF d[i] = "1" THEN 1 ELSE 0
    IN  value[HexLen]

Blank == {"space", "newline"}
SkipWhiteSpace(t, i) == i + Run(t, i, Blank)

\* get_string, from behind the quote on.  (Behind a backslash at the very end the code reads
\* on beyond the text; here that fails.)
RECURSIVE GetString(_, _, _)
GetString(t, i, s) ==
    LET c   == At(t, i)
        e   == At(t, i + 1)
        hex == Cut(t, i + 2, HexLen)
    IN  CASE c = "quote" -> [val |-> [type |-> "STRING", class |-> NoClass, s |-> s], i |-> i + 1]
          [] c = NUL \/ (c = "slash" /\ e = NUL) -> [val |-> Fail, i |-> i]
          [] c = "slash" /\ e = "u" ->
                 IF Run(t, i + 2, Digits) < HexLen \/ Code(hex) = 0
                 THEN [val |-> Fail, i |-> i]
                 ELSE GetString(t, i + 2 + HexLen, Append(s, CodeChar[Code(hex)]))
          [] c = "slash" /\ e # "u" ->
                 GetString(t, i + 2, Append(s, IF e \in DOMAIN Escape THEN Escape[e] ELSE e))
          [] OTHER -> GetString(t, i + 1, Append(s, c))

\* get_number
GetNumber(t, i) ==
    LET n == Run(t, i, NumChars) IN [val |-> Number(Cut(t, i, n)), i |-> i + n]

\* get_null, get_true, get_false: the keyword, and no letter or digit behind it.
GetWord(t, i, w, v) ==
    LET n == Len(Word[w])
    IN  [val |-> IF Cut(t, i, n) = Word[w] /\ At(t, i + n) \notin Letters \cup Digits THEN v ELSE Fail,
         i   |-> i + n]

Null == [type |-> "NULL", class |-> NoClass]
Bool(b) == [type |-> "BOOL", class |-> NoClass, b |-> b]

\* The end of get_decoded_hash: an object with a class becomes its data.
Decoded(h) ==
    LET item(k)  == {p \in {h.pairs[i] : i \in DOMAIN h.pairs} : p.key = k}
        named(p) == p.val.type \in {"STRING", "NUMBER"}
    IN  IF \E p \in item(ClassKey) : named(p)
        THEN IF item(DataKey) = {} THEN Null
             ELSE LET c == CHOOSE p \in item(ClassKey) : TRUE
                      d == CHOOSE p \in item(DataKey) : TRUE
                  IN  [d.val EXCEPT !.class = c.val.s]
        ELSE h

RECURSIVE GetNode(_, _, _), GetArray(_, _, _, _), GetPairs(_, _, _, _)

\* get_array, from an element on.
GetArray(t, i, items, dec) ==
    LET e == GetNode(t, SkipWhiteSpace(t, i), dec)
        j == SkipWhiteSpace(t, e.i)
        s == Append(items, e.val)
    IN  CASE e.val = Fail -> e
          [] e.val # Fail /\ At(t, j) = "]" ->
                 [val |-> [type |-> "ARRAY", class |-> NoClass, items |-> s], i |-> j + 1]
          [] e.val # Fail /\ At(t, j) = "," -> GetArray(t, j + 1, s, dec)
          [] OTHER -> [val |-> Fail, i |-> j]

\* What get_hash and get_decoded_hash have in common, from a key on.
GetPairs(t, i, pairs, dec) ==
    LET q == SkipWhiteSpace(t, i)
        k == IF At(t, q) = "quote" THEN GetString(t, q + 1, << >>) ELSE [val |-> Fail, i |-> q]
        c == SkipWhiteSpace(t, k.i)
        e == GetNode(t, SkipWhiteSpace(t, c + 1), dec)
        j == SkipWhiteSpace(t, e.i)
        s == Append(pairs, [key |-> k.val.s, val |-> e.val])
        h == [type |-> "HASH", class |-> NoClass, pairs |-> s]
    IN  IF \/ k.val = Fail \/ At(t, c) # ":"
           \/ \E n \in DOMAIN pairs : pairs[n].key = k.val.s
           \/ e.val = Fail \/ At(t, j) \notin {"}", ","}
        THEN [val |-> Fail, i |-> i]
        ELSE IF At(t, j) = "}" THEN [val |-> h, i |-> j + 1]
             ELSE GetPairs(t, j + 1, s, dec)

\* get_hash
GetHash(t, i) == GetPairs(t, i, << >>, FALSE)

\* get_decoded_hash
GetDecodedHash(t, i) ==
    LET h == GetPairs(t, i, << >>, TRUE)
    IN  IF h.val = Fail THEN h ELSE [h EXCEPT !.val = Decoded(@)]

\* get_json_node: the first character tells what it is.
GetNode(t, i, dec) ==
    LET c     == At(t, i)
        first == SkipWhiteSpace(t, i + 1)
    IN  CASE c = "quote" -> GetString(t, i + 1, << >>)
          [] c = "[" -> IF At(t, first) # "]" THEN GetArray(t, i + 1, << >>, dec)
                        ELSE [val |-> [type |-> "ARRAY", class |-> NoClass, items |-> << >>], i |-> first + 1]
          [] c = "{" -> IF At(t, first) # "}" THEN IF dec THEN GetDecodedHash(t, i + 1) ELSE GetHash(t, i + 1)
                        ELSE [val |-> [type |-> "HASH", class |-> NoClass, pairs |-> << >>], i |-> first + 1]
          [] c = Word["null"][1]  -> GetWord(t, i, "null", Null)
          [] c = Word["true"][1]  -> GetWord(t, i, "true", Bool(TRUE))
          [] c = Word["false"][1] -> GetWord(t, i, "false", Bool(FALSE))
          [] c \in NumChars -> GetNumber(t, i)
          [] OTHER -> [val |-> Fail, i |-> i]

\* parse_it: one value, and nothing but white space behind it.
ParseIt(t, dec) ==
    LET r == GetNode(t, SkipWhiteSpace(t, 1), dec)
    IN  IF t = << >> \/ SkipWhiteSpace(t, r.i) # Len(t) + 1 THEN Fail ELSE r.val

-----------------------------------------------------------------------------
(* The printer.                                                            *)

Hex(n) == [i \in 1 .. HexLen |-> IF (n \div 2 ^ (HexLen - i)) % 2 = 1 THEN "1" ELSE "0"]

\* Mutant: only quotes are escaped.
QuoteEscaped(c) == IF c = "quote" THEN <<"slash", c>> ELSE <<c>>

\* buffer_append_utf8, for one character.
Escaped(c) ==
    CASE c \in {"quote", "slash"} -> <<"slash", c>>
      [] c = "newline" -> <<"slash", "n">>
      [] \E n \in DOMAIN CodeChar : CodeChar[n] = c ->
             <<"slash", "u">> \o Hex(CHOOSE n \in DOMAIN CodeChar : CodeChar[n] = c)
      [] OTHER -> <<c>>

Quoted(s) ==
    LET upto[n \in 0 .. Len(s)] == IF n = 0 THEN << >> ELSE upto[n - 1] \o Escaped(s[n])
    IN  <<"quote">> \o upto[Len(s)] \o <<"quote">>

Joined(parts) ==
    LET upto[n \in 0 .. Len(parts)] ==
            IF n = 0 THEN << >> ELSE upto[n - 1] \o (IF n > 1 THEN <<",">> ELSE << >>) \o parts[n]
    IN  upto[Len(parts)]

\* add_json_to_buffer; with classes, an object that has one is wrapped in another.  The
\* name of the class is not escaped.
RECURSIVE ToJSON(_, _)
ToJSON(v, classes) ==
    LET plain ==
            CASE v.type = "NULL"   -> Word["null"]
              [] v.type = "BOOL"   -> Word[IF v.b THEN "true" ELSE "false"]
              [] v.type = "NUMBER" -> v.s
              [] v.type = "STRING" -> Quoted(v.s)
              [] v.type = "ARRAY"  ->
                     <<"[">> \o Joined([n \in DOMAIN v.items |-> ToJSON(v.items[n], classes)]) \o <<"]">>
              [] v.type = "HASH"   ->
                     <<"{">> \o Joined([n \in DOMAIN v.pairs |->
                                          Quoted(v.pairs[n].key) \o <<":">> \o ToJSON(v.pairs[n].val, classes)])
                             \o <<"}">>
    IN  IF v.class # NoClass /\ classes
        THEN <<"{">> \o Quoted(ClassKey) \o <<":", "quote">> \o v.class \o <<"quote", ",">>
                     \o Quoted(DataKey) \o <<":">> \o plain \o <<"}">>
        ELSE plain
=============================================================================
