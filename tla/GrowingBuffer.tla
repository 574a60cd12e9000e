---------------------------- MODULE GrowingBuffer ----------------------------
(***************************************************************************)
(* The growing_buffer of utils.c, which everything that is parsed,         *)
(* received or written is put together in.  A buffer that would become too *)
(* long is freed, and nothing more is done with it.                        *)
(***************************************************************************)
EXTENDS Sequences, Integers

CONSTANTS
    Chars, NUL,
    Strings,    \* what is added at once
    Fill,       \* what osrf_clearbuf leaves: a NUL, or without NDEBUG a '!'
    InitSizes,  \* what buffer_init is called with
    MaxSize     \* BUFFER_MAX_SIZE

\* Callers give the first size as a positive number: one of zero would be doubled for ever.
BufferAssumption ==
    /\ NUL \notin Chars /\ Fill \in Chars \cup {NUL}
    /\ Strings \subseteq Seq(Chars)
    /\ MaxSize \in Nat /\ InitSizes \subseteq 1 .. MaxSize

VARIABLES
    buf,        \* the memory: bytes 0 .. room - 1
    room,       \* history: how many bytes were allocated
    size,       \* gb->size
    n_used,
    freed

vars == <<buf, room, size, n_used, freed>>

\* buffer_init: one byte more than the size.
Init ==
    /\ size \in InitSizes /\ room = size + 1
    /\ buf = [i \in 0 .. size |-> NUL]
    /\ n_used = 0 /\ freed = FALSE

Smaller(m, n) == IF m < n THEN m ELSE n

\* The size, doubled until it is more than the total.
Grown(total) ==
    {s \in 1 .. 2 * MaxSize : /\ total < s /\ s \div 2 <= total
                              /\ \E k \in 1 .. MaxSize : s = size * 2^k}

\* The memory with a string written behind what is there, and ended.
Written(b, r, s) ==
    [i \in 0 .. r - 1 |-> IF i \in n_used .. n_used + Len(s) - 1 THEN s[i - n_used + 1]
                          ELSE IF i = n_used + Len(s) THEN NUL ELSE b[i]]

\* Mutant: the room is enough when the characters fit, without the NUL.
FitsTightly(total) == total <= size

\* The room is enough.
Fits(total) == total < size

\* buffer_expand allocates the size itself, and copies.
Expanded(r) == [i \in 0 .. r - 1 |-> IF i < n_used THEN buf[i] ELSE NUL]

\* buffer_add, buffer_add_n
Add(s) ==
    LET total == n_used + Len(s)
    IN  /\ ~freed /\ s # << >>
        /\ \/ /\ Fits(total)
              /\ buf' = Written(buf, room, s) /\ n_used' = total
              /\ UNCHANGED <<room, size, freed>>
           \/ /\ ~Fits(total) /\ total < MaxSize
              /\ \E g \in Grown(total) : size' = Smaller(g, MaxSize)
              /\ room' = size'
              /\ buf' = Written(Expanded(size'), size', s) /\ n_used' = total
              /\ UNCHANGED freed
           \/ /\ ~Fits(total) /\ total >= MaxSize
              /\ freed' = TRUE
              /\ UNCHANGED <<buf, room, size, n_used>>

\* buffer_add_char
AddChar(c) == Add(<<c>>)

\* buffer_reset.  It clears as many bytes as the size, of which there may be one more.
Reset ==
    /\ ~freed
    /\ buf' = [i \in 0 .. room - 1 |-> IF i = 0 \/ i = size - 1 THEN NUL
                                       ELSE IF i < size THEN Fill ELSE buf[i]]
    /\ n_used' = 0
    /\ UNCHANGED <<room, size, freed>>

\* buffer_chomp
Chomp ==
    /\ ~freed /\ n_used > 0
    /\ n_used' = n_used - 1
    /\ buf' = [buf EXCEPT ![n_used - 1] = NUL]
    /\ UNCHANGED <<room, size, freed>>

Next ==
    \/ \E s \in Strings : Add(s)
    \/ \E c \in Chars : AddChar(c)
    \/ Reset \/ Chomp

Spec == Init /\ [][Next]_vars

-----------------------------------------------------------------------------
(* Properties.                                                             *)

\* Every variable has its type.
TypeOK ==
    /\ size \in 1 .. MaxSize /\ room \in {size, size + 1}
    /\ buf \in [0 .. room - 1 -> Chars \cup {NUL}]
    /\ n_used \in Nat /\ freed \in BOOLEAN

\* The string ends, inside of the memory, where n_used says, whatever was added, cleared and
\* taken off, in whatever sizes: the code after a buffer_add never looks (buffer_expand, the
\* macros OSRF_BUFFER_ADD and OSRF_BUFFER_ADD_CHAR of utils.h).
Terminated ==
    /\ n_used < room /\ buf[n_used] = NUL
    /\ \A i \in 0 .. n_used - 1 : buf[i] # NUL

\* The string that a C function reads in the memory: up to the first NUL.
CString ==
    LET n == CHOOSE n \in 0 .. room - 1 : buf[n] = NUL /\ \A i \in 0 .. n - 1 : buf[i] # NUL
    IN  [i \in 1 .. n |-> buf[i - 1]]

\* Read as C reads it, the memory is the string that was put together (buffer_data,
\* OSRF_BUFFER_C_STR).
IsText == INSTANCE Text WITH
              Longest <- MaxSize, text <- CString, lost <- freed,
              Strings <- Strings \cup {<<c>> : c \in Chars}

TextSpec == IsText!Spec
=============================================================================
