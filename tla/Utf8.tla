--------------------------------- MODULE Utf8 ---------------------------------
(***************************************************************************)
(* osrf_utf8.c: buffer_append_utf8 turns the bytes of a string into what   *)
(* stands between the quotes of a JSON string.  ASCII is copied or         *)
(* escaped, everything else becomes \uXXXX, in surrogate pairs above       *)
(* FFFF, and what is not UTF-8 is skipped up to a byte where a character   *)
(* may begin.                                                              *)
(***************************************************************************)
EXTENDS Integers, Sequences, SequencesExt

CONSTANTS
    Bytes,      \* the bytes that are tried
    MaxBytes    \* bound: the length of a string

\* What the constants are.
Utf8Assumption == Bytes \subseteq 1 .. 255 /\ MaxBytes \in Nat

VARIABLES
    string,     \* the bytes so far
    left,       \* the state: continuation bytes still expected, or -1 for S_ERROR
    point,      \* utf8_char
    out,        \* what was appended: a character as it is or behind a backslash, or \uXXXX
    rc, done

vars == <<string, left, point, out, rc, done>>

Init == string = << >> /\ left = 0 /\ point = 0 /\ out = << >> /\ rc = 0 /\ done = FALSE

\* osrf_utf8_mask_
Control(b)  == b < 32 \/ b = 127
Ascii(b)    == b < 128
Continue(b) == b \in 128 .. 191
Follow(b)   == CASE b \in 194 .. 223 -> 1 [] b \in 224 .. 239 -> 2 [] b \in 240 .. 244 -> 3 [] OTHER -> -1
Sync(b)     == Ascii(b) \/ Follow(b) > 0

Named == {8, 9, 10, 12, 13}     \* \b \t \n \f \r
Quote == 34
Backslash == 92

\* append_uxxxx: the lower 16 bits.
Uxxxx(n) == <<<<"u", n % 65536>>>>

\* Mutant: the high surrogate is taken from D800.
PairFromD800(n) == Uxxxx(55296 + n \div 1024) \o Uxxxx(56320 + (n % 1024))

\* append_surrogate_pair
SurrogatePair(n) == Uxxxx(55232 + n \div 1024) \o Uxxxx(56320 + (n % 1024))

AsciiOut(b) ==
    IF b \in Named \cup {Quote, Backslash} THEN <<<<"escape", b>>>>
    ELSE IF Control(b) THEN Uxxxx(b) ELSE <<<<"char", b>>>>

\* An error is remembered by its position, the first one only.
Noted(i) == IF rc = 0 THEN i ELSE rc

\* S_BEGIN
Begin(b, code) ==
    /\ rc' = code
    /\ left' = IF Ascii(b) THEN 0 ELSE Follow(b)
    /\ point' = CASE Follow(b) = 1 -> b - 192 [] Follow(b) = 2 -> b - 224
                  [] Follow(b) = 3 -> b - 240 [] OTHER -> point
    /\ out' = IF Ascii(b) THEN out \o AsciiOut(b) ELSE out

\* S_2_OF_2 ... S_4_OF_4, with a byte that does not continue the character: it is looked at again.
BreakOff(b) == left > 0 /\ ~Continue(b) /\ Begin(b, Noted(Len(string)))

\* S_2_OF_2 ... S_4_OF_4
Accumulate(b) ==
    LET n == point * 64 + b - 128
    IN  /\ left > 0 /\ Continue(b)
        /\ left' = left - 1 /\ point' = n
        /\ out' = IF left > 1 THEN out
                  ELSE out \o (IF n > 65535 THEN SurrogatePair(n) ELSE Uxxxx(n))
        /\ UNCHANGED rc

\* S_ERROR: look for a byte where a character may begin.
Resync(b) ==
    /\ left = -1
    /\ IF Sync(b) THEN Begin(b, rc) ELSE UNCHANGED <<left, point, out, rc>>

Byte(b) ==
    /\ ~done /\ Len(string) < MaxBytes
    /\ string' = Append(string, b) /\ UNCHANGED done
    /\ \/ left = 0 /\ Begin(b, IF Sync(b) THEN rc ELSE Noted(Len(string)))
       \/ BreakOff(b) \/ Accumulate(b) \/ Resync(b)

\* The terminal nul, perhaps within a character.
End ==
    /\ ~done /\ done' = TRUE
    /\ rc' = IF left > 0 THEN Noted(Len(string)) ELSE rc
    /\ UNCHANGED <<string, left, point, out>>

Next == (\E b \in Bytes : Byte(b)) \/ End

Spec == Init /\ [][Next]_vars

-----------------------------------------------------------------------------
(* Properties.                                                             *)

\* The bytes that begin string s are one well-formed character of n bytes (Unicode, table 3-7).
Character(s, n) ==
    /\ n <= Len(s) /\ \A i \in 2 .. n : Continue(s[i])
    /\ CASE n = 1 -> Ascii(s[1])
         [] n = 2 -> s[1] \in 194 .. 223
         [] n = 3 -> s[1] \in 224 .. 239 /\ (s[1] = 224 => s[2] >= 160) /\ (s[1] = 237 => s[2] < 160)
         [] n = 4 -> s[1] \in 240 .. 244 /\ (s[1] = 240 => s[2] >= 144) /\ (s[1] = 244 => s[2] < 144)

CodePoint(s, n) ==
    CASE n = 1 -> s[1]
      [] n = 2 -> (s[1] - 192) * 64 + s[2] - 128
      [] n = 3 -> (s[1] - 224) * 4096 + (s[2] - 128) * 64 + s[3] - 128
      [] n = 4 -> (s[1] - 240) * 262144 + (s[2] - 128) * 4096 + (s[3] - 128) * 64 + s[4] - 128

\* The code points of a well-formed string; a string that is not has <<-1>> at its end.
RECURSIVE CodePoints(_)
CodePoints(s) ==
    IF s = << >> THEN << >>
    ELSE LET ns == {n \in 1 .. 4 : Character(s, n)}
         IN  IF ns = {} THEN <<-1>>
             ELSE LET n == CHOOSE n \in ns : TRUE
                  IN  <<CodePoint(s, n)>> \o CodePoints(SubSeq(s, n + 1, Len(s)))

\* The code points that the output means, as JSON defines it.
RECURSIVE Meaning(_)
Meaning(o) ==
    IF o = << >> THEN << >>
    ELSE IF Len(o) > 1 /\ o[1][1] = "u" /\ o[1][2] \in 55296 .. 56319 /\ o[2][2] \in 56320 .. 57343
         THEN <<65536 + (o[1][2] - 55296) * 1024 + o[2][2] - 56320>> \o Meaning(SubSeq(o, 3, Len(o)))
         ELSE <<o[1][2]>> \o Meaning(Tail(o))

Plain(b) == Ascii(b) /\ (~Control(b) \/ b \in Named)

\* buffer_append_utf8 writes what the string says: a well-formed string is written, without an error, as
\* its code points, and in any other no character of ASCII gets lost in the bytes around it.
Translated ==
    LET points == CodePoints(string)
        isPlain(x) == x[1] # "u"
        kept == SelectSeq(out, isPlain)
    IN  done =>
        /\ (\A i \in DOMAIN points : points[i] # -1) => rc = 0 /\ Meaning(out) = points
        /\ [i \in DOMAIN kept |-> kept[i][2]] = SelectSeq(string, Plain)

\* get_utf8 and do_utf8 of the two parsers: one \uXXXX to bytes.
ReadUxxxx(n) ==
    CASE n < 128 -> <<n>>
      [] n \in 128 .. 2047 -> <<192 + n \div 64, 128 + (n % 64)>>
      [] OTHER -> <<224 + n \div 4096, 128 + ((n \div 64) % 64), 128 + (n % 64)>>

ReadBack(o) == FlattenSeq([i \in DOMAIN o |-> IF o[i][1] = "u" THEN ReadUxxxx(o[i][2]) ELSE <<o[i][2]>>])

\* The parsers of the library read back the string that was written, when it has no character
\* above FFFF: of those they read each surrogate as a character of its own.
ReadBackByParser ==
    LET points == CodePoints(string)
    IN  done /\ (\A i \in DOMAIN points : points[i] \in 0 .. 65535) => ReadBack(out) = string

\* The same for every well-formed string; it does not hold.
AllReadBack ==
    LET points == CodePoints(string)
    IN  done /\ (\A i \in DOMAIN points : points[i] # -1) => ReadBack(out) = string
=============================================================================
