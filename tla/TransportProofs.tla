-------------------------- MODULE TransportProofs --------------------------
(***************************************************************************)
(* Proofs about Transport, for clients that are freed when they are        *)
(* disconnected: whatever the server sends, in whatever pieces it arrives, *)
(* and whatever the rest of the process does with its descriptors, the     *)
(* messages come out whole, once and in order, a session that reports      *)
(* success is logged in, and only its own descriptor is used.              *)
(*                                                                         *)
(* What is read is a recursive function on the wire (Readings); what the   *)
(* proofs need of it they get by climbing from 0 to the length of the wire *)
(* (Climb).  The invariant looks ahead: when all of the wire will have     *)
(* been read, the session is between two stanzas, and its queue and what   *)
(* the program has are what the server sent (WholeInv).                    *)
(***************************************************************************)
EXTENDS Transport, FiniteSetTheorems, WellFoundedInduction, TLAPS

-----------------------------------------------------------------------------
(* Numbers and sequences.                                                  *)

\* A set of numbers that is not empty has a least one.
LEMMA Least ==
    ASSUME NEW S, S \subseteq Nat, S # {}
    PROVE  \E x \in S : \A y \in S : ~(y < x)
<1> DEFINE R == OpToRel(<, Nat)
<1>1. IsWellFoundedOn(R, Nat)
  BY NatLessThanWellFounded
<1>2. PICK x \in S : \A y \in S : <<y, x>> \notin R
  <2> HIDE DEF R
  <2> QED
    BY <1>1, WFMin
<1>3. \A y \in S : y < x => <<y, x>> \in R
  BY DEF OpToRel
<1> QED
  BY <1>2, <1>3

\* A set that has 0, and with each number below n the next, has all up to n.
LEMMA Climb ==
    ASSUME NEW n \in Nat, NEW G, 0 \in G, \A i \in 0 .. n - 1 : i \in G => i + 1 \in G
    PROVE  0 .. n \subseteq G
<1> SUFFICES ASSUME ~(0 .. n \subseteq G) PROVE FALSE
  OBVIOUS
<1> DEFINE B == (0 .. n) \ G
<1>1. PICK b \in B : \A y \in B : ~(y < b)
  <2>1. B \subseteq Nat /\ B # {}
    OBVIOUS
  <2> HIDE DEF B
  <2> QED
    BY <2>1, Least
<1>2. b # 0 /\ b \in Nat /\ b <= n
  OBVIOUS
<1>3. b - 1 \in 0 .. n - 1 /\ b - 1 < b /\ (b - 1) + 1 = b
  BY <1>2
<1>4. b - 1 \in G
  BY <1>1, <1>3, <1>2
<1> QED
  BY <1>3, <1>4

\* The elements of a sequence that is joined of two.
LEMMA JoinFacts ==
    ASSUME NEW S, NEW s \in Seq(S), NEW t \in Seq(S)
    PROVE  /\ s \o t \in Seq(S) /\ Len(s \o t) = Len(s) + Len(t)
           /\ \A i \in 1 .. Len(s) : (s \o t)[i] = s[i]
           /\ \A i \in 1 .. Len(t) : (s \o t)[Len(s) + i] = t[i]
  OBVIOUS

\* What is left of a sequence after its first n elements.
LEMMA RestFacts ==
    ASSUME NEW S, NEW s \in Seq(S), NEW n \in 0 .. Len(s)
    PROVE  /\ SubSeq(s, n + 1, Len(s)) \in Seq(S)
           /\ Len(SubSeq(s, n + 1, Len(s))) = Len(s) - n
           /\ \A i \in 1 .. Len(s) - n : SubSeq(s, n + 1, Len(s))[i] = s[n + i]
  OBVIOUS

\* Joining three sequences, in either order.
LEMMA JoinThree ==
    ASSUME NEW S, NEW s \in Seq(S), NEW t \in Seq(S), NEW u \in Seq(S)
    PROVE  (s \o t) \o u = s \o (t \o u)
  OBVIOUS

\* Two sequences with the same elements.
LEMMA SameSeq ==
    ASSUME NEW S, NEW s \in Seq(S), NEW t \in Seq(S), Len(s) = Len(t),
           \A i \in 1 .. Len(s) : s[i] = t[i]
    PROVE  s = t
  OBVIOUS

\* A sequence is a prefix of what it is continued to.
LEMMA PrefixOfJoin ==
    ASSUME NEW S, NEW s \in Seq(S), NEW t \in Seq(S)
    PROVE  IsPrefix(s, s \o t)
<1>1. Len(s) \in Nat /\ Len(s) <= Len(s \o t)
  OBVIOUS
<1>2. SubSeq(s, 1, Len(s)) = s
  OBVIOUS
<1>3. SubSeq(s \o t, 1, Len(s)) = s
  OBVIOUS
<1> QED
  BY <1>1, <1>2, <1>3 DEF IsPrefix

\* A prefix stays one when the sequence grows.
LEMMA PrefixGrows ==
    ASSUME NEW S, NEW s \in Seq(S), NEW t \in Seq(S), NEW u \in Seq(S), IsPrefix(s, t)
    PROVE  IsPrefix(s, t \o u)
<1>1. Len(s) \in Nat /\ Len(t) \in Nat /\ Len(s) <= Len(t) /\ Len(t \o u) = Len(t) + Len(u)
      /\ Len(u) \in Nat
  BY DEF IsPrefix
<1>2. SubSeq(t \o u, 1, Len(s)) = SubSeq(t, 1, Len(s))
  BY <1>1
<1> QED
  BY <1>1, <1>2 DEF IsPrefix

-----------------------------------------------------------------------------
(* The invariant.                                                          *)

Elements == {"message", "body", "thread", "presence", "stream:error", "error", "iq"}

TagNames == Elements \cup {"stream:stream", "handshake", "status", "text"}

\* The values that tags and texts carry.
Values == {"result", "error"} \cup Nat

Messages == [from : Seq(Values), body : Seq(Values), thread : Seq(Values), isError : BOOLEAN]

Tokens ==
    {t \in [ev : {"open", "close", "text"}, tag : TagNames, val : Values] : t.ev = "close"
      => t = Close(t.tag)}

Sessions == [sockId : Fds \cup {0}, connecting : 0 .. 2, connected : BOOLEAN, in : SUBSET Elements,
             from : Seq(Values), body : Seq(Values), thread : Seq(Values), error : Seq(Values),
             queue : Seq(Messages)]

TypeOK ==
    /\ session \in Sessions
    /\ fd \in [Fds -> {"free", "session", "other", "ignored"}]
    /\ call \in [op : {"none", "stage1", "stage2", "recv"}, waited : Nat, remaining : Nat \cup {-1}]
    /\ server \in {"none", "opened", "streamed", "asked", "refusing", "in", "left", "refused"}
    /\ wire \in Seq(Tokens) /\ sent \in Seq(Messages) /\ taken \in Seq(Messages)
    /\ stray \in BOOLEAN /\ closed \in BOOLEAN /\ connects \in Nat /\ others \in Nat

\* The session's descriptor is open from session_connect until the server closes the
\* connection, and no longer.
HeldInv ==
    /\ session.sockId # 0 => (fd[session.sockId] = "session" <=> ~closed)
    /\ call.op \in {"stage1", "stage2"} => session.sockId # 0
    /\ call.op = "stage1" => ~closed

\* The tags that log a session in.
Accepting(t) == t.ev = "open" /\ (t.tag = "handshake" \/ (t.tag = "iq" /\ t.val = "result"))

\* Whoever is logged in, or will be when all is read, was accepted by the server.
LoginInv ==
    /\ session.sockId # 0 /\ (session.connected \/ \E i \in DOMAIN wire : Accepting(wire[i]))
         => server \in {"in", "left"}
    /\ ends = "connected" => call.op = "none" /\ session.connected /\ session.sockId # 0

\* Where a session is when all that was sent is read.
All(s, w) == Readings(s, w)[Len(w)]

\* Between two stanzas.
Clean(s) ==
    s.in = {} /\ s.from = << >> /\ s.body = << >> /\ s.thread = << >> /\ s.error = << >>

\* Every end of a message will be read inside of a message.
Matched(s, w) ==
    \A i \in 1 .. Len(w) : w[i] = Close("message") => "message" \in Readings(s, w)[i - 1].in

\* What will be in the queue when all is read, after what the program took, is what the
\* server sent.
Sound(took, s, w, all) ==
    Clean(All(s, w)) /\ Matched(s, w) /\ took \o All(s, w).queue = all

WholeInv ==
    /\ session.sockId # 0 /\ ~closed => Sound(taken, session, wire, sent)
    /\ IsPrefix(taken \o session.queue, sent)

IInv == TypeOK /\ HeldInv /\ LoginInv /\ WholeInv

-----------------------------------------------------------------------------
(* What is read of the wire.                                               *)

\* r is the function that Readings defines.
IsReadings(r, s, w) ==
    r = [i \in 0 .. Len(w) |-> IF i = 0 THEN s ELSE Parse(r[i - 1], w[i])]

\* r is right for the first k tags and texts.
RightTo(r, s, w, k) ==
    r[0] = s /\ \A i \in 1 .. k : r[i] = Parse(r[i - 1], w[i])

\* There is such a function, for any wire.
LEMMA ReadingsExist ==
    ASSUME NEW s, NEW S, NEW w \in Seq(S)
    PROVE  \E r : IsReadings(r, s, w)
<1> DEFINE n == Len(w)
           G == {k \in 0 .. n : \E r : RightTo(r, s, w, k)}
<1>1. n \in Nat
  OBVIOUS
<1>2. 0 \in G
  <2>1. RightTo([i \in {0} |-> s], s, w, 0)
    BY DEF RightTo
  <2> QED
    BY <2>1, <1>1
<1>3. ASSUME NEW k \in 0 .. n - 1, k \in G PROVE k + 1 \in G
  <2>1. PICK r : RightTo(r, s, w, k)
    BY <1>3
  <2> DEFINE q == [i \in 0 .. n |-> IF i = k + 1 THEN Parse(r[k], w[k + 1]) ELSE r[i]]
  <2>2. k \in Int /\ k >= 0 /\ k + 1 \in 0 .. n
    BY <1>1
  <2>3. q[0] = s
    BY <2>1, <2>2, <1>1 DEF RightTo
  <2>4. ASSUME NEW i \in 1 .. k + 1 PROVE q[i] = Parse(q[i - 1], w[i])
    <3>1. i \in 0 .. n /\ i - 1 \in 0 .. n /\ i - 1 # k + 1 /\ (i = k + 1 => i - 1 = k)
      BY <2>2
    <3>2. q[i - 1] = r[i - 1]
      BY <3>1
    <3>3. CASE i = k + 1
      BY <3>1, <3>2, <3>3
    <3>4. CASE i # k + 1
      <4>1. i \in 1 .. k
        BY <3>4, <2>2
      <4>2. q[i] = r[i]
        BY <3>1, <3>4
      <4> QED
        BY <4>1, <4>2, <3>2, <2>1 DEF RightTo
    <3> QED
      BY <3>3, <3>4
  <2>5. RightTo(q, s, w, k + 1)
    <3> HIDE DEF q
    <3> QED
      BY <2>3, <2>4 DEF RightTo
  <2> QED
    BY <2>5, <2>2
<1>4. n \in G
  <2>1. 0 .. n \subseteq G
    <3> HIDE DEF G
    <3> QED
      BY <1>1, <1>2, <1>3, Climb
  <2> QED
    BY <2>1, <1>1
<1>5. PICK r : RightTo(r, s, w, n)
  BY <1>4
<1> DEFINE q == [i \in 0 .. n |-> r[i]]
<1>6. ASSUME NEW i \in 0 .. n
      PROVE  r[i] = IF i = 0 THEN s ELSE Parse(q[i - 1], w[i])
  <2>1. CASE i = 0
    BY <2>1, <1>5 DEF RightTo
  <2>2. CASE i # 0
    <3>1. i \in 1 .. n /\ i - 1 \in 0 .. n
      BY <2>2, <1>1
    <3>2. q[i - 1] = r[i - 1]
      BY <3>1
    <3> QED
      BY <3>1, <3>2, <2>2, <1>5 DEF RightTo
  <2> QED
    BY <2>1, <2>2
<1>7. q = [i \in 0 .. n |-> IF i = 0 THEN s ELSE Parse(q[i - 1], w[i])]
  BY <1>6
<1> QED
  BY <1>7 DEF IsReadings

\* _socket_handle_client_data parses one tag or text after the other, each in the
\* state that those before it left.
LEMMA Unfold ==
    ASSUME NEW s, NEW S, NEW w \in Seq(S)
    PROVE  /\ Readings(s, w)[0] = s
           /\ \A i \in 1 .. Len(w) : Readings(s, w)[i] = Parse(Readings(s, w)[i - 1], w[i])
<1>1. Readings(s, w) = CHOOSE r : IsReadings(r, s, w)
  BY DEF Readings, IsReadings
<1> DEFINE r == Readings(s, w)
<1>2. IsReadings(r, s, w)
  BY <1>1, ReadingsExist
<1> HIDE DEF r
<1>3. r = [i \in 0 .. Len(w) |-> IF i = 0 THEN s ELSE Parse(r[i - 1], w[i])]
  BY <1>2 DEF IsReadings
<1>4. Len(w) \in Nat
  OBVIOUS
<1>5. r[0] = s
  BY <1>3, <1>4
<1>6. ASSUME NEW i \in 1 .. Len(w) PROVE r[i] = Parse(r[i - 1], w[i])
  <2>1. i \in 0 .. Len(w) /\ i # 0
    BY <1>4
  <2> QED
    BY <2>1, <1>3
<1> QED
  BY <1>5, <1>6 DEF r

\* Reading a part and then the rest is reading all: it does not matter in which
\* pieces the tags come.
LEMMA ReadOn ==
    ASSUME NEW s, NEW S, NEW w \in Seq(S), NEW n \in 0 .. Len(w),
           NEW k \in 0 .. Len(w) - n
    PROVE  Readings(Readings(s, w)[n], SubSeq(w, n + 1, Len(w)))[k] = Readings(s, w)[n + k]
<1> DEFINE v == SubSeq(w, n + 1, Len(w))
           r == Readings(s, w)
           q == Readings(r[n], v)
           m == Len(w) - n
           G == {i \in 0 .. m : q[i] = r[n + i]}
<1>1. Len(w) \in Nat /\ n \in Nat /\ m \in Nat
  OBVIOUS
<1>2. v \in Seq(S) /\ Len(v) = m /\ \A i \in 1 .. m : v[i] = w[n + i]
  BY RestFacts
<1>3. r[0] = s /\ \A i \in 1 .. Len(w) : r[i] = Parse(r[i - 1], w[i])
  BY Unfold
<1> HIDE DEF r, v
<1>4. q[0] = r[n] /\ \A i \in 1 .. m : q[i] = Parse(q[i - 1], v[i])
  BY <1>2, Unfold
<1> HIDE DEF q
<1>5. 0 \in G
  BY <1>1, <1>4
<1>6. ASSUME NEW i \in 0 .. m - 1, i \in G PROVE i + 1 \in G
  <2>1. i + 1 \in 1 .. m /\ n + (i + 1) \in 1 .. Len(w) /\ (i + 1) - 1 = i /\ (n + (i + 1)) - 1 = n + i
        /\ i + 1 \in 0 .. m
    BY <1>1
  <2>2. q[i + 1] = Parse(q[i], w[n + (i + 1)])
    BY <2>1, <1>2, <1>4
  <2>3. r[n + (i + 1)] = Parse(r[n + i], w[n + (i + 1)])
    BY <2>1, <1>3
  <2> QED
    BY <2>1, <2>2, <2>3, <1>6
<1>7. 0 .. m \subseteq G
  <2> HIDE DEF G, m
  <2> QED
    BY <1>1, <1>5, <1>6, Climb
<1> QED
  BY <1>7 DEF q, r, v

\* What was on the wire already is read as before when more comes.
LEMMA ReadSame ==
    ASSUME NEW s, NEW S, NEW w \in Seq(S), NEW v \in Seq(S), NEW k \in 0 .. Len(w)
    PROVE  Readings(s, w \o v)[k] = Readings(s, w)[k]
<1> DEFINE x == w \o v
           r == Readings(s, w)
           q == Readings(s, x)
           n == Len(w)
           G == {i \in 0 .. n : q[i] = r[i]}
<1>1. n \in Nat /\ Len(v) \in Nat /\ x \in Seq(S) /\ Len(x) = n + Len(v)
      /\ \A i \in 1 .. n : x[i] = w[i]
  BY JoinFacts
<1>3. r[0] = s /\ \A i \in 1 .. n : r[i] = Parse(r[i - 1], w[i])
  BY Unfold
<1> HIDE DEF r, x
<1>4. q[0] = s /\ \A i \in 1 .. Len(x) : q[i] = Parse(q[i - 1], x[i])
  <2> HIDE DEF n
  <2> QED
    BY <1>1, Unfold
<1> HIDE DEF q
<1>5. 0 \in G
  BY <1>1, <1>3, <1>4
<1>6. ASSUME NEW i \in 0 .. n - 1, i \in G PROVE i + 1 \in G
  <2>1. i + 1 \in 1 .. n /\ i + 1 \in 1 .. Len(x) /\ (i + 1) - 1 = i /\ i + 1 \in 0 .. n
    BY <1>1
  <2>2. q[i + 1] = Parse(q[i], x[i + 1])
    BY <2>1, <1>4
  <2>3. r[i + 1] = Parse(r[i], w[i + 1])
    BY <2>1, <1>3
  <2> QED
    BY <2>1, <2>2, <2>3, <1>6, <1>1
<1>7. 0 .. n \subseteq G
  <2> HIDE DEF G, n
  <2> QED
    BY <1>1, <1>5, <1>6, Climb
<1> QED
  BY <1>7 DEF q, r, x

\* What comes after it is read where the wire ended.
LEMMA ReadMore ==
    ASSUME NEW s, NEW S, NEW w \in Seq(S), NEW v \in Seq(S), NEW k \in 0 .. Len(v)
    PROVE  Readings(s, w \o v)[Len(w) + k] = Readings(All(s, w), v)[k]
<1> DEFINE x == w \o v
           n == Len(w)
           u == SubSeq(x, n + 1, Len(x))
<1>1. n \in Nat /\ Len(v) \in Nat /\ x \in Seq(S) /\ Len(x) = n + Len(v)
      /\ \A i \in 1 .. Len(v) : x[n + i] = v[i]
  BY JoinFacts
<1>2. n \in 0 .. Len(x) /\ k \in 0 .. Len(x) - n /\ Len(x) - n = Len(v)
  <2> HIDE DEF n, x
  <2> QED
    BY <1>1
<1>3. u = v
  <2> HIDE DEF x
  <2>1. u \in Seq(S) /\ Len(u) = Len(x) - n /\ \A i \in 1 .. Len(x) - n : u[i] = x[n + i]
    BY <1>1, <1>2, RestFacts
  <2> HIDE DEF u
  <2> QED
    BY <2>1, <1>1, <1>2, SameSeq
<1>4. Readings(Readings(s, x)[n], u)[k] = Readings(s, x)[n + k]
  <2> HIDE DEF x, n
  <2> QED
    BY <1>1, <1>2, ReadOn
<1>5. Readings(s, x)[n] = All(s, w)
  <2>1. Len(w) \in 0 .. Len(w)
    OBVIOUS
  <2> QED
    BY <2>1, ReadSame DEF All
<1> QED
  BY <1>3, <1>4, <1>5

-----------------------------------------------------------------------------
(* What one tag or text does.                                              *)

\* The session with p in front of its queue.
Onto(p, s) == [s EXCEPT !.queue = p \o @]

\* Nothing else of it is different.
LEMMA OntoFacts ==
    ASSUME NEW s \in Sessions, NEW p \in Seq(Messages)
    PROVE  LET q == Onto(p, s)
           IN  /\ q \in Sessions /\ q.sockId = s.sockId
               /\ q.connecting = s.connecting /\ q.connected = s.connected
               /\ q.in = s.in /\ q.from = s.from /\ q.body = s.body
               /\ q.thread = s.thread /\ q.error = s.error /\ q.queue = p \o s.queue
<1>1. p \o s.queue \in Seq(Messages)
  BY DEF Sessions
<1>2. Onto(p, s) \in Sessions
  BY <1>1 DEF Sessions, Onto
<1>3. Onto(p, s).queue = p \o s.queue /\ Onto(p, s).in = s.in /\ Onto(p, s).sockId = s.sockId
  BY DEF Sessions, Onto
<1>4. Onto(p, s).connecting = s.connecting /\ Onto(p, s).connected = s.connected
  BY DEF Sessions, Onto
<1>5. Onto(p, s).from = s.from /\ Onto(p, s).body = s.body
  BY DEF Sessions, Onto
<1>6. Onto(p, s).thread = s.thread /\ Onto(p, s).error = s.error
  BY DEF Sessions, Onto
<1> QED
  BY <1>2, <1>3, <1>4, <1>5, <1>6

\* startElementHandler keeps the types and the queue, and does not look at the queue.
LEMMA StartFacts ==
    ASSUME NEW s \in Sessions, NEW t \in Tokens
    PROVE  LET r == StartElement(s, t)
           IN  /\ r \in Sessions /\ r.sockId = s.sockId /\ r.queue = s.queue
               /\ r.connected => s.connected \/ (t.ev = "open" => Accepting(t))
               /\ \A p \in Seq(Messages) : StartElement(Onto(p, s), t) = Onto(p, r)
<1>0. t.tag \in TagNames /\ t.val \in Values /\ t.ev \in {"open", "close", "text"}
  BY DEF Tokens
<1>a. /\ s.in \in SUBSET Elements /\ s.from \in Seq(Values) /\ s.body \in Seq(Values)
      /\ s.thread \in Seq(Values) /\ s.error \in Seq(Values)
  BY DEF Sessions
<1>b. s.connecting \in 0 .. 2 /\ s.connected \in BOOLEAN
  BY DEF Sessions
<1>c. 0 \in 0 .. 2 /\ 2 \in 0 .. 2 /\ TRUE \in BOOLEAN /\ FALSE \in BOOLEAN
  OBVIOUS
<1> DEFINE r == StartElement(s, t)
<1>1. CASE t.tag = "message"
  <2>1. r = [s EXCEPT !.in = @ \cup {"message"}, !.from = Append(@, t.val)]
    BY <1>1 DEF StartElement
  <2>t0. s.in \cup {"message"} \in SUBSET Elements
    BY <1>0, <1>a, <1>b, <1>1 DEF Elements
  <2>t1. Append(s.from, t.val) \in Seq(Values)
    BY <1>0, <1>a, <1>b, <1>1 DEF Elements
  <2> HIDE DEF r
  <2>2. r \in Sessions
    BY <1>c, <2>t0, <2>t1, <2>1 DEF Sessions
  <2>3. r.sockId = s.sockId /\ r.queue = s.queue
    BY <2>1 DEF Sessions
  <2>4. r.connected => s.connected \/ (t.ev = "open" => Accepting(t))
    BY <1>1, <2>1 DEF Sessions, Accepting, LoginAccepted
  <2>5. ASSUME NEW p \in Seq(Messages) PROVE StartElement(Onto(p, s), t) = Onto(p, r)
    <3>1. Onto(p, s).in = s.in /\ Onto(p, s).connecting = s.connecting
      BY OntoFacts
    <3>2. StartElement(Onto(p, s), t) =
            [Onto(p, s) EXCEPT !.in = @ \cup {"message"}, !.from = Append(@, t.val)]
      BY <1>1, <3>1 DEF StartElement
    <3>3. [Onto(p, s) EXCEPT !.in = @ \cup {"message"}, !.from = Append(@, t.val)] =
            Onto(p, [s EXCEPT !.in = @ \cup {"message"}, !.from = Append(@, t.val)])
      BY DEF Sessions, Onto
    <3> QED
      BY <2>1, <3>2, <3>3
  <2> QED
    BY <2>2, <2>3, <2>4, <2>5 DEF r
<1>2. CASE t.tag \in {"body", "thread"} /\ "message" \in s.in
  <2>1. r = [s EXCEPT !.in = @ \cup {t.tag}]
    BY <1>2 DEF StartElement
  <2>t0. s.in \cup {t.tag} \in SUBSET Elements
    BY <1>0, <1>a, <1>b, <1>2 DEF Elements
  <2> HIDE DEF r
  <2>2. r \in Sessions
    BY <1>c, <2>t0, <2>1 DEF Sessions
  <2>3. r.sockId = s.sockId /\ r.queue = s.queue
    BY <2>1 DEF Sessions
  <2>4. r.connected => s.connected \/ (t.ev = "open" => Accepting(t))
    BY <1>2, <2>1 DEF Sessions, Accepting, LoginAccepted
  <2>5. ASSUME NEW p \in Seq(Messages) PROVE StartElement(Onto(p, s), t) = Onto(p, r)
    <3>1. Onto(p, s).in = s.in /\ Onto(p, s).connecting = s.connecting
      BY OntoFacts
    <3>2. StartElement(Onto(p, s), t) = [Onto(p, s) EXCEPT !.in = @ \cup {t.tag}]
      BY <1>2, <3>1 DEF StartElement
    <3>3. [Onto(p, s) EXCEPT !.in = @ \cup {t.tag}] = Onto(p, [s EXCEPT !.in = @ \cup {t.tag}])
      BY DEF Sessions, Onto
    <3> QED
      BY <2>1, <3>2, <3>3
  <2> QED
    BY <2>2, <2>3, <2>4, <2>5 DEF r
<1>3. CASE t.tag \in {"body", "thread"} /\ "message" \notin s.in
  <2>1. r = s
    BY <1>3 DEF StartElement
  <2> HIDE DEF r
  <2>2. r \in Sessions
    BY <1>c, <2>1 DEF Sessions
  <2>3. r.sockId = s.sockId /\ r.queue = s.queue
    BY <2>1 DEF Sessions
  <2>4. r.connected => s.connected \/ (t.ev = "open" => Accepting(t))
    BY <1>3, <2>1 DEF Sessions, Accepting, LoginAccepted
  <2>5. ASSUME NEW p \in Seq(Messages) PROVE StartElement(Onto(p, s), t) = Onto(p, r)
    <3>1. Onto(p, s).in = s.in /\ Onto(p, s).connecting = s.connecting
      BY OntoFacts
    <3>2. StartElement(Onto(p, s), t) = Onto(p, s)
      BY <1>3, <3>1 DEF StartElement
    <3>3. Onto(p, s) = Onto(p, s)
      BY DEF Sessions, Onto
    <3> QED
      BY <2>1, <3>2, <3>3
  <2> QED
    BY <2>2, <2>3, <2>4, <2>5 DEF r
<1>4. CASE t.tag = "presence"
  <2>1. r = [s EXCEPT !.in = @ \cup {"presence"}, !.from = Append(@, t.val)]
    BY <1>4 DEF StartElement
  <2>t0. s.in \cup {"presence"} \in SUBSET Elements
    BY <1>0, <1>a, <1>b, <1>4 DEF Elements
  <2>t1. Append(s.from, t.val) \in Seq(Values)
    BY <1>0, <1>a, <1>b, <1>4 DEF Elements
  <2> HIDE DEF r
  <2>2. r \in Sessions
    BY <1>c, <2>t0, <2>t1, <2>1 DEF Sessions
  <2>3. r.sockId = s.sockId /\ r.queue = s.queue
    BY <2>1 DEF Sessions
  <2>4. r.connected => s.connected \/ (t.ev = "open" => Accepting(t))
    BY <1>4, <2>1 DEF Sessions, Accepting, LoginAccepted
  <2>5. ASSUME NEW p \in Seq(Messages) PROVE StartElement(Onto(p, s), t) = Onto(p, r)
    <3>1. Onto(p, s).in = s.in /\ Onto(p, s).connecting = s.connecting
      BY OntoFacts
    <3>2. StartElement(Onto(p, s), t) =
            [Onto(p, s) EXCEPT !.in = @ \cup {"presence"}, !.from = Append(@, t.val)]
      BY <1>4, <3>1 DEF StartElement
    <3>3. [Onto(p, s) EXCEPT !.in = @ \cup {"presence"}, !.from = Append(@, t.val)] =
            Onto(p, [s EXCEPT !.in = @ \cup {"presence"}, !.from = Append(@, t.val)])
      BY DEF Sessions, Onto
    <3> QED
      BY <2>1, <3>2, <3>3
  <2> QED
    BY <2>2, <2>3, <2>4, <2>5 DEF r
<1>5. CASE t.tag = "stream:error"
  <2>1. r = [s EXCEPT !.in = @ \cup {"stream:error"}, !.connected = FALSE]
    BY <1>5 DEF StartElement
  <2>t0. s.in \cup {"stream:error"} \in SUBSET Elements
    BY <1>0, <1>a, <1>b, <1>5 DEF Elements
  <2> HIDE DEF r
  <2>2. r \in Sessions
    BY <1>c, <2>t0, <2>1 DEF Sessions
  <2>3. r.sockId = s.sockId /\ r.queue = s.queue
    BY <2>1 DEF Sessions
  <2>4. r.connected => s.connected \/ (t.ev = "open" => Accepting(t))
    BY <1>5, <2>1 DEF Sessions, Accepting, LoginAccepted
  <2>5. ASSUME NEW p \in Seq(Messages) PROVE StartElement(Onto(p, s), t) = Onto(p, r)
    <3>1. Onto(p, s).in = s.in /\ Onto(p, s).connecting = s.connecting
      BY OntoFacts
    <3>2. StartElement(Onto(p, s), t) =
            [Onto(p, s) EXCEPT !.in = @ \cup {"stream:error"}, !.connected = FALSE]
      BY <1>5, <3>1 DEF StartElement
    <3>3. [Onto(p, s) EXCEPT !.in = @ \cup {"stream:error"}, !.connected = FALSE] =
            Onto(p, [s EXCEPT !.in = @ \cup {"stream:error"}, !.connected = FALSE])
      BY DEF Sessions, Onto
    <3> QED
      BY <2>1, <3>2, <3>3
  <2> QED
    BY <2>2, <2>3, <2>4, <2>5 DEF r
<1>6. CASE t.tag = "stream:stream" /\ s.connecting = 1
  <2>1. r = [s EXCEPT !.connecting = 2]
    BY <1>6 DEF StartElement
  <2> HIDE DEF r
  <2>2. r \in Sessions
    BY <1>c, <2>1 DEF Sessions
  <2>3. r.sockId = s.sockId /\ r.queue = s.queue
    BY <2>1 DEF Sessions
  <2>4. r.connected => s.connected \/ (t.ev = "open" => Accepting(t))
    BY <1>6, <2>1 DEF Sessions, Accepting, LoginAccepted
  <2>5. ASSUME NEW p \in Seq(Messages) PROVE StartElement(Onto(p, s), t) = Onto(p, r)
    <3>1. Onto(p, s).in = s.in /\ Onto(p, s).connecting = s.connecting
      BY OntoFacts
    <3>2. StartElement(Onto(p, s), t) = [Onto(p, s) EXCEPT !.connecting = 2]
      BY <1>6, <3>1 DEF StartElement
    <3>3. [Onto(p, s) EXCEPT !.connecting = 2] = Onto(p, [s EXCEPT !.connecting = 2])
      BY DEF Sessions, Onto
    <3> QED
      BY <2>1, <3>2, <3>3
  <2> QED
    BY <2>2, <2>3, <2>4, <2>5 DEF r
<1>7. CASE t.tag = "stream:stream" /\ s.connecting # 1
  <2>1. r = s
    BY <1>7 DEF StartElement
  <2> HIDE DEF r
  <2>2. r \in Sessions
    BY <1>c, <2>1 DEF Sessions
  <2>3. r.sockId = s.sockId /\ r.queue = s.queue
    BY <2>1 DEF Sessions
  <2>4. r.connected => s.connected \/ (t.ev = "open" => Accepting(t))
    BY <1>7, <2>1 DEF Sessions, Accepting, LoginAccepted
  <2>5. ASSUME NEW p \in Seq(Messages) PROVE StartElement(Onto(p, s), t) = Onto(p, r)
    <3>1. Onto(p, s).in = s.in /\ Onto(p, s).connecting = s.connecting
      BY OntoFacts
    <3>2. StartElement(Onto(p, s), t) = Onto(p, s)
      BY <1>7, <3>1 DEF StartElement
    <3>3. Onto(p, s) = Onto(p, s)
      BY DEF Sessions, Onto
    <3> QED
      BY <2>1, <3>2, <3>3
  <2> QED
    BY <2>2, <2>3, <2>4, <2>5 DEF r
<1>8. CASE t.tag = "handshake"
  <2>1. r = [s EXCEPT !.connected = TRUE, !.connecting = 0]
    BY <1>8 DEF StartElement
  <2> HIDE DEF r
  <2>2. r \in Sessions
    BY <1>c, <2>1 DEF Sessions
  <2>3. r.sockId = s.sockId /\ r.queue = s.queue
    BY <2>1 DEF Sessions
  <2>4. r.connected => s.connected \/ (t.ev = "open" => Accepting(t))
    BY <1>8, <2>1 DEF Sessions, Accepting, LoginAccepted
  <2>5. ASSUME NEW p \in Seq(Messages) PROVE StartElement(Onto(p, s), t) = Onto(p, r)
    <3>1. Onto(p, s).in = s.in /\ Onto(p, s).connecting = s.connecting
      BY OntoFacts
    <3>2. StartElement(Onto(p, s), t) = [Onto(p, s) EXCEPT !.connected = TRUE, !.connecting = 0]
      BY <1>8, <3>1 DEF StartElement
    <3>3. [Onto(p, s) EXCEPT !.connected = TRUE, !.connecting = 0] =
            Onto(p, [s EXCEPT !.connected = TRUE, !.connecting = 0])
      BY DEF Sessions, Onto
    <3> QED
      BY <2>1, <3>2, <3>3
  <2> QED
    BY <2>2, <2>3, <2>4, <2>5 DEF r
<1>9. CASE t.tag = "error"
  <2>1. r = [s EXCEPT !.in = @ \cup {"error"}, !.error = Append(@, t.val)]
    BY <1>9 DEF StartElement
  <2>t0. s.in \cup {"error"} \in SUBSET Elements
    BY <1>0, <1>a, <1>b, <1>9 DEF Elements
  <2>t1. Append(s.error, t.val) \in Seq(Values)
    BY <1>0, <1>a, <1>b, <1>9 DEF Elements
  <2> HIDE DEF r
  <2>2. r \in Sessions
    BY <1>c, <2>t0, <2>t1, <2>1 DEF Sessions
  <2>3. r.sockId = s.sockId /\ r.queue = s.queue
    BY <2>1 DEF Sessions
  <2>4. r.connected => s.connected \/ (t.ev = "open" => Accepting(t))
    BY <1>9, <2>1 DEF Sessions, Accepting, LoginAccepted
  <2>5. ASSUME NEW p \in Seq(Messages) PROVE StartElement(Onto(p, s), t) = Onto(p, r)
    <3>1. Onto(p, s).in = s.in /\ Onto(p, s).connecting = s.connecting
      BY OntoFacts
    <3>2. StartElement(Onto(p, s), t) =
            [Onto(p, s) EXCEPT !.in = @ \cup {"error"}, !.error = Append(@, t.val)]
      BY <1>9, <3>1 DEF StartElement
    <3>3. [Onto(p, s) EXCEPT !.in = @ \cup {"error"}, !.error = Append(@, t.val)] =
            Onto(p, [s EXCEPT !.in = @ \cup {"error"}, !.error = Append(@, t.val)])
      BY DEF Sessions, Onto
    <3> QED
      BY <2>1, <3>2, <3>3
  <2> QED
    BY <2>2, <2>3, <2>4, <2>5 DEF r
<1>10. CASE t.tag = "iq" /\ LoginAccepted(s, t)
  <2>1. r = [s EXCEPT !.in = @ \cup {"iq"}, !.connected = TRUE, !.connecting = 0]
    BY <1>10 DEF StartElement, LoginAccepted
  <2>t0. s.in \cup {"iq"} \in SUBSET Elements
    BY <1>0, <1>a, <1>b, <1>10 DEF Elements
  <2> HIDE DEF r
  <2>2. r \in Sessions
    BY <1>c, <2>t0, <2>1 DEF Sessions
  <2>3. r.sockId = s.sockId /\ r.queue = s.queue
    BY <2>1 DEF Sessions
  <2>4. r.connected => s.connected \/ (t.ev = "open" => Accepting(t))
    BY <1>10, <2>1 DEF Sessions, Accepting, LoginAccepted
  <2>5. ASSUME NEW p \in Seq(Messages) PROVE StartElement(Onto(p, s), t) = Onto(p, r)
    <3>1. Onto(p, s).in = s.in /\ Onto(p, s).connecting = s.connecting
      BY OntoFacts
    <3>2. StartElement(Onto(p, s), t) =
            [Onto(p, s) EXCEPT !.in = @ \cup {"iq"}, !.connected = TRUE, !.connecting = 0]
      BY <1>10, <3>1 DEF StartElement, LoginAccepted
    <3>3. [Onto(p, s) EXCEPT !.in = @ \cup {"iq"}, !.connected = TRUE, !.connecting = 0] =
            Onto(p, [s EXCEPT !.in = @ \cup {"iq"}, !.connected = TRUE, !.connecting = 0])
      BY DEF Sessions, Onto
    <3> QED
      BY <2>1, <3>2, <3>3
  <2> QED
    BY <2>2, <2>3, <2>4, <2>5 DEF r
<1>11. CASE t.tag = "iq" /\ ~LoginAccepted(s, t)
  <2>1. r = [s EXCEPT !.in = @ \cup {"iq"}]
    BY <1>11 DEF StartElement, LoginAccepted
  <2>t0. s.in \cup {"iq"} \in SUBSET Elements
    BY <1>0, <1>a, <1>b, <1>11 DEF Elements
  <2> HIDE DEF r
  <2>2. r \in Sessions
    BY <1>c, <2>t0, <2>1 DEF Sessions
  <2>3. r.sockId = s.sockId /\ r.queue = s.queue
    BY <2>1 DEF Sessions
  <2>4. r.connected => s.connected \/ (t.ev = "open" => Accepting(t))
    BY <1>11, <2>1 DEF Sessions, Accepting, LoginAccepted
  <2>5. ASSUME NEW p \in Seq(Messages) PROVE StartElement(Onto(p, s), t) = Onto(p, r)
    <3>1. Onto(p, s).in = s.in /\ Onto(p, s).connecting = s.connecting
      BY OntoFacts
    <3>2. StartElement(Onto(p, s), t) = [Onto(p, s) EXCEPT !.in = @ \cup {"iq"}]
      BY <1>11, <3>1 DEF StartElement, LoginAccepted
    <3>3. [Onto(p, s) EXCEPT !.in = @ \cup {"iq"}] = Onto(p, [s EXCEPT !.in = @ \cup {"iq"}])
      BY DEF Sessions, Onto
    <3> QED
      BY <2>1, <3>2, <3>3
  <2> QED
    BY <2>2, <2>3, <2>4, <2>5 DEF r
<1>12. CASE t.tag \notin {"message", "body", "thread", "presence", "stream:error", "stream:stream",
                          "handshake", "error", "iq"}
  <2>1. r = s
    BY <1>12 DEF StartElement
  <2> HIDE DEF r
  <2>2. r \in Sessions
    BY <1>c, <2>1 DEF Sessions
  <2>3. r.sockId = s.sockId /\ r.queue = s.queue
    BY <2>1 DEF Sessions
  <2>4. r.connected => s.connected \/ (t.ev = "open" => Accepting(t))
    BY <1>12, <2>1 DEF Sessions, Accepting, LoginAccepted
  <2>5. ASSUME NEW p \in Seq(Messages) PROVE StartElement(Onto(p, s), t) = Onto(p, r)
    <3>1. Onto(p, s).in = s.in /\ Onto(p, s).connecting = s.connecting
      BY OntoFacts
    <3>2. StartElement(Onto(p, s), t) = Onto(p, s)
      BY <1>12, <3>1 DEF StartElement
    <3>3. Onto(p, s) = Onto(p, s)
      BY DEF Sessions, Onto
    <3> QED
      BY <2>1, <3>2, <3>3
  <2> QED
    BY <2>2, <2>3, <2>4, <2>5 DEF r
<1> QED
  BY <1>1, <1>2, <1>3, <1>4, <1>5, <1>6, <1>7, <1>8, <1>9, <1>10, <1>11, <1>12

\* endElementHandler adds a message to the queue at the end of one, and nothing else.
LEMMA EndFacts ==
    ASSUME NEW s \in Sessions, NEW t \in Tokens
    PROVE  LET r == EndElement(s, t)
           IN  /\ r \in Sessions /\ r.sockId = s.sockId
               /\ r.connected => s.connected
               /\ r.queue = IF t.tag = "message" /\ "message" \in s.in
                            THEN Append(s.queue, Message(s)) ELSE s.queue
               /\ \A p \in Seq(Messages) : EndElement(Onto(p, s), t) = Onto(p, r)
<1> DEFINE r == EndElement(s, t)
<1>0. t.tag \in TagNames
  BY DEF Tokens
<1>a. s.in \ {t.tag} \in SUBSET Elements /\ << >> \in Seq(Values)
  BY DEF Sessions
<1>b. \A p \in Seq(Messages) : Onto(p, s) \in Sessions /\ Onto(p, s).in = s.in
  BY OntoFacts
<1>1. CASE t.tag \notin s.in
  <2>1. r = s
    BY <1>1 DEF EndElement
  <2>2. \A p \in Seq(Messages) : EndElement(Onto(p, s), t) = Onto(p, s)
    BY <1>1, <1>b DEF EndElement
  <2> HIDE DEF r
  <2> QED
    BY <1>1, <2>1, <2>2 DEF r
<1>2. CASE t.tag \in s.in /\ t.tag = "message"
  <2>1. r = ResetBuffers(Enqueue([s EXCEPT !.in = @ \ {t.tag}], Message(s)))
    <3>1. Message([s EXCEPT !.in = @ \ {t.tag}]) = Message(s)
      BY DEF Message, Sessions
    <3> QED
      BY <1>2, <3>1 DEF EndElement
  <2>2. ResetBuffers(Enqueue([s EXCEPT !.in = @ \ {t.tag}], Message(s)))
          = [s EXCEPT !.in = @ \ {t.tag}, !.queue = Append(@, Message(s)),
                      !.from = << >>, !.body = << >>, !.thread = << >>, !.error = << >>]
    BY DEF ResetBuffers, Enqueue, Sessions
  <2>3. Message(s) \in Messages
    BY DEF Message, Messages, Sessions
  <2>4. Append(s.queue, Message(s)) \in Seq(Messages)
    BY <2>3 DEF Sessions
  <2>5. ASSUME NEW p \in Seq(Messages) PROVE EndElement(Onto(p, s), t) = Onto(p, r)
    <3> DEFINE q == Onto(p, s)
    <3>1. p \o Append(s.queue, Message(s)) = Append(p \o s.queue, Message(s))
      BY <2>3 DEF Sessions
    <3>2. q \in Sessions /\ q.in = s.in /\ q.queue = p \o s.queue
      BY OntoFacts
    <3>3. Message(q) = Message(s)
      BY DEF Onto, Message, Sessions
    <3> HIDE DEF q
    <3>4. EndElement(q, t) = ResetBuffers(Enqueue([q EXCEPT !.in = @ \ {t.tag}], Message(q)))
      <4>1. Message([q EXCEPT !.in = @ \ {t.tag}]) = Message(q)
        BY <3>2 DEF Message, Sessions
      <4> QED
        BY <1>2, <3>2, <4>1 DEF EndElement
    <3>5. ResetBuffers(Enqueue([q EXCEPT !.in = @ \ {t.tag}], Message(q)))
            = [q EXCEPT !.in = @ \ {t.tag}, !.queue = Append(@, Message(s)),
                        !.from = << >>, !.body = << >>, !.thread = << >>, !.error = << >>]
      BY <3>2, <3>3 DEF ResetBuffers, Enqueue, Sessions
    <3>6. [q EXCEPT !.in = @ \ {t.tag}, !.queue = Append(@, Message(s)),
                    !.from = << >>, !.body = << >>, !.thread = << >>, !.error = << >>]
            = Onto(p, [s EXCEPT !.in = @ \ {t.tag}, !.queue = Append(@, Message(s)),
                                !.from = << >>, !.body = << >>, !.thread = << >>, !.error = << >>])
      BY <3>1 DEF q, Onto, Sessions
    <3> QED
      BY <2>1, <2>2, <3>4, <3>5, <3>6 DEF q
  <2>6. r = [s EXCEPT !.in = @ \ {t.tag}, !.queue = Append(@, Message(s)),
                      !.from = << >>, !.body = << >>, !.thread = << >>, !.error = << >>]
    BY <2>1, <2>2
  <2> HIDE DEF r
  <2>7. r \in Sessions
    BY <1>a, <2>4, <2>6 DEF Sessions
  <2>8. r.sockId = s.sockId /\ r.connected = s.connected /\ r.queue = Append(s.queue, Message(s))
    BY <2>6 DEF Sessions
  <2> QED
    BY <1>2, <2>5, <2>7, <2>8 DEF r
<1>3. CASE t.tag \in s.in /\ t.tag \in {"iq", "presence"}
  <2>1. r = [s EXCEPT !.in = @ \ {t.tag},
                      !.from = << >>, !.body = << >>, !.thread = << >>, !.error = << >>]
    <3>1. r = ResetBuffers([s EXCEPT !.in = @ \ {t.tag}])
      BY <1>3 DEF EndElement
    <3> HIDE DEF r
    <3> QED
      BY <3>1 DEF ResetBuffers, Sessions
  <2>2. ASSUME NEW p \in Seq(Messages) PROVE EndElement(Onto(p, s), t) = Onto(p, r)
    <3>1. EndElement(Onto(p, s), t) = ResetBuffers([Onto(p, s) EXCEPT !.in = @ \ {t.tag}])
      BY <1>3, <1>b DEF EndElement
    <3>2. ResetBuffers([Onto(p, s) EXCEPT !.in = @ \ {t.tag}])
            = Onto(p, [s EXCEPT !.in = @ \ {t.tag},
                                !.from = << >>, !.body = << >>, !.thread = << >>, !.error = << >>])
      BY DEF ResetBuffers, Onto, Sessions
    <3> QED
      BY <2>1, <3>1, <3>2
  <2> HIDE DEF r
  <2>3. r \in Sessions
    BY <1>a, <2>1 DEF Sessions
  <2>4. r.sockId = s.sockId /\ r.connected = s.connected /\ r.queue = s.queue
    BY <2>1 DEF Sessions
  <2> QED
    BY <1>3, <2>2, <2>3, <2>4 DEF r
<1>4. CASE t.tag \in s.in /\ t.tag \notin {"message", "iq", "presence"}
  <2>1. r = [s EXCEPT !.in = @ \ {t.tag}]
    BY <1>4 DEF EndElement
  <2>2. ASSUME NEW p \in Seq(Messages) PROVE EndElement(Onto(p, s), t) = Onto(p, r)
    <3>1. EndElement(Onto(p, s), t) = [Onto(p, s) EXCEPT !.in = @ \ {t.tag}]
      BY <1>4, <1>b DEF EndElement
    <3>2. [Onto(p, s) EXCEPT !.in = @ \ {t.tag}] = Onto(p, [s EXCEPT !.in = @ \ {t.tag}])
      BY DEF Onto, Sessions
    <3> QED
      BY <2>1, <3>1, <3>2
  <2> HIDE DEF r
  <2>3. r \in Sessions
    BY <1>a, <2>1 DEF Sessions
  <2>4. r.sockId = s.sockId /\ r.connected = s.connected /\ r.queue = s.queue
    BY <2>1 DEF Sessions
  <2> QED
    BY <1>4, <2>2, <2>3, <2>4 DEF r
<1> QED
  BY <1>1, <1>2, <1>3, <1>4

\* characterHandler writes to the buffers only.
LEMMA TextFacts ==
    ASSUME NEW s \in Sessions, NEW t \in Tokens
    PROVE  LET r == Characters(s, t)
           IN  /\ r \in Sessions /\ r.sockId = s.sockId /\ r.queue = s.queue
               /\ r.connected = s.connected
               /\ \A p \in Seq(Messages) : Characters(Onto(p, s), t) = Onto(p, r)
<1> DEFINE B(q) == IF {"message", "body"} \subseteq q.in THEN Append(q.body, t.val) ELSE q.body
           T(q) == IF {"message", "thread"} \subseteq q.in THEN Append(q.thread, t.val) ELSE q.thread
           r == Characters(s, t)
<1>1. ASSUME NEW q \in Sessions PROVE Characters(q, t) = [q EXCEPT !.body = B(q), !.thread = T(q)]
  BY DEF Characters, Sessions
<1>2. r = [s EXCEPT !.body = B(s), !.thread = T(s)]
  BY <1>1
<1>3. B(s) \in Seq(Values) /\ T(s) \in Seq(Values)
  <2>1. t.val \in Values /\ s.body \in Seq(Values) /\ s.thread \in Seq(Values)
    BY DEF Tokens, Sessions
  <2> QED
    BY <2>1
<1>4. ASSUME NEW p \in Seq(Messages) PROVE Characters(Onto(p, s), t) = Onto(p, r)
  <2>1. Onto(p, s) \in Sessions /\ B(Onto(p, s)) = B(s) /\ T(Onto(p, s)) = T(s)
    BY OntoFacts
  <2> HIDE DEF B, T, r
  <2>2. Characters(Onto(p, s), t) = [Onto(p, s) EXCEPT !.body = B(s), !.thread = T(s)]
    BY <1>1, <2>1
  <2>3. [Onto(p, s) EXCEPT !.body = B(s), !.thread = T(s)]
          = Onto(p, [s EXCEPT !.body = B(s), !.thread = T(s)])
    BY DEF Onto, Sessions
  <2> QED
    BY <1>2, <2>2, <2>3
<1> HIDE DEF B, T, r
<1>5. r \in Sessions
  BY <1>2, <1>3 DEF Sessions
<1>6. r.sockId = s.sockId /\ r.queue = s.queue /\ r.connected = s.connected
  BY <1>2 DEF Sessions
<1> QED
  BY <1>4, <1>5, <1>6 DEF r

\* grab_incoming: what any tag or text does.
LEMMA ParseFacts ==
    ASSUME NEW s \in Sessions, NEW t \in Tokens
    PROVE  LET r == Parse(s, t)
           IN  /\ r \in Sessions /\ r.sockId = s.sockId
               /\ r.connected => s.connected \/ Accepting(t)
               /\ r.queue = IF t = Close("message") /\ "message" \in s.in
                            THEN Append(s.queue, Message(s)) ELSE s.queue
               /\ \A p \in Seq(Messages) : Parse(Onto(p, s), t) = Onto(p, r)
<1>0. t.ev \in {"open", "close", "text"} /\ (t.ev = "close" => t = Close(t.tag))
  BY DEF Tokens
<1>1. CASE t.ev = "open"
  <2>1. \A q : Parse(q, t) = StartElement(q, t)
    BY <1>1 DEF Parse
  <2>2. t # Close("message")
    BY <1>1 DEF Close
  <2> QED
    BY <1>1, <2>1, <2>2, StartFacts
<1>2. CASE t.ev = "close"
  <2>1. \A q : Parse(q, t) = EndElement(q, t)
    BY <1>2 DEF Parse
  <2>2. t = Close("message") <=> t.tag = "message"
    BY <1>0, <1>2 DEF Close
  <2> QED
    BY <1>2, <2>1, <2>2, EndFacts
<1>3. CASE t.ev = "text"
  <2>1. \A q : Parse(q, t) = Characters(q, t)
    BY <1>3 DEF Parse
  <2>2. t # Close("message")
    BY <1>3 DEF Close
  <2> QED
    BY <1>3, <2>1, <2>2, TextFacts
<1> QED
  BY <1>0, <1>1, <1>2, <1>3

-----------------------------------------------------------------------------
(* What all of the wire does.                                              *)

\* Whatever is read, a session stays one, its descriptor is kept, only tags of the
\* server log it in, and the messages that were in the queue make no difference.
LEMMA ReadFacts ==
    ASSUME NEW s \in Sessions, NEW w \in Seq(Tokens), NEW k \in 0 .. Len(w)
    PROVE  LET r == Readings(s, w)[k]
           IN  /\ r \in Sessions /\ r.sockId = s.sockId
               /\ r.connected => s.connected \/ \E i \in 1 .. k : Accepting(w[i])
               /\ \A p \in Seq(Messages) : Readings(Onto(p, s), w)[k] = Onto(p, r)
<1> DEFINE n == Len(w)
           r == Readings(s, w)
           Right(i) == /\ r[i] \in Sessions /\ r[i].sockId = s.sockId
                       /\ r[i].connected => s.connected \/ \E j \in 1 .. i : Accepting(w[j])
                       /\ \A p \in Seq(Messages) : Readings(Onto(p, s), w)[i] = Onto(p, r[i])
           G == {i \in 0 .. n : Right(i)}
<1>1. n \in Nat /\ \A i \in 1 .. n : w[i] \in Tokens
  OBVIOUS
<1>2. r[0] = s /\ \A i \in 1 .. n : r[i] = Parse(r[i - 1], w[i])
  BY Unfold
<1>3. ASSUME NEW p \in Seq(Messages)
      PROVE  /\ Readings(Onto(p, s), w)[0] = Onto(p, s)
             /\ \A i \in 1 .. n : Readings(Onto(p, s), w)[i] = Parse(Readings(Onto(p, s), w)[i - 1], w[i])
  BY Unfold
<1> HIDE DEF r, n
<1>4. 0 \in G
  <2>1. Right(0)
    BY <1>2, <1>3
  <2> QED
    BY <2>1, <1>1
<1>5. ASSUME NEW i \in 0 .. n - 1, i \in G PROVE i + 1 \in G
  <2>1. i + 1 \in 1 .. n /\ i + 1 \in 0 .. n /\ (i + 1) - 1 = i /\ i + 1 \in 1 .. i + 1
        /\ 1 .. i \subseteq 1 .. i + 1
    BY <1>1
  <2>2. Right(i)
    BY <1>5
  <2>3. r[i + 1] = Parse(r[i], w[i + 1]) /\ w[i + 1] \in Tokens
    BY <2>1, <1>1, <1>2
  <2>4. r[i + 1] \in Sessions /\ r[i + 1].sockId = s.sockId
    BY <2>2, <2>3, ParseFacts
  <2>5. r[i + 1].connected => r[i].connected \/ Accepting(w[i + 1])
    BY <2>2, <2>3, ParseFacts
  <2>6. r[i + 1].connected => s.connected \/ \E j \in 1 .. i + 1 : Accepting(w[j])
    <3> HIDE DEF G
    <3> QED
      BY <2>1, <2>2, <2>5
  <2>7. ASSUME NEW p \in Seq(Messages)
        PROVE  Readings(Onto(p, s), w)[i + 1] = Onto(p, r[i + 1])
    <3>1. Readings(Onto(p, s), w)[i + 1] = Parse(Readings(Onto(p, s), w)[i], w[i + 1])
      BY <2>1, <1>3
    <3>2. Readings(Onto(p, s), w)[i] = Onto(p, r[i])
      BY <2>2
    <3>3. Parse(Onto(p, r[i]), w[i + 1]) = Onto(p, Parse(r[i], w[i + 1]))
      BY <2>2, <2>3, ParseFacts
    <3> QED
      BY <3>1, <3>2, <3>3, <2>3
  <2>8. Right(i + 1)
    BY <2>4, <2>6, <2>7
  <2> HIDE DEF Right
  <2> QED
    BY <2>1, <2>8
<1>6. 0 .. n \subseteq G
  <2> HIDE DEF G
  <2> QED
    BY <1>1, <1>4, <1>5, Climb
<1>7. Right(k)
  <2> HIDE DEF Right
  <2> QED
    BY <1>6 DEF n
<1> QED
  BY <1>7 DEF r

\* The same for the end of the wire.
LEMMA AllFacts ==
    ASSUME NEW s \in Sessions, NEW w \in Seq(Tokens)
    PROVE  /\ All(s, w) \in Sessions /\ All(s, w).sockId = s.sockId
           /\ \A p \in Seq(Messages) : All(Onto(p, s), w) = Onto(p, All(s, w))
<1>1. Len(w) \in 0 .. Len(w)
  OBVIOUS
<1> QED
  BY <1>1, ReadFacts DEF All

\* The messages that the wire will add to the queue, as if the queue was empty.
Coming(s, w) == All([s EXCEPT !.queue = << >>], w).queue

\* They come after those that are in the queue, which stay.
LEMMA QueueSplit ==
    ASSUME NEW s \in Sessions, NEW w \in Seq(Tokens)
    PROVE  /\ Coming(s, w) \in Seq(Messages) /\ s.queue \in Seq(Messages)
           /\ All(s, w).queue = s.queue \o Coming(s, w)
           /\ \A k \in 0 .. Len(w) :
                Readings(s, w)[k].in = Readings([s EXCEPT !.queue = << >>], w)[k].in
           /\ Clean(All(s, w)) <=> Clean(All([s EXCEPT !.queue = << >>], w))
<1> DEFINE e == [s EXCEPT !.queue = << >>]
<1>1. s.queue \in Seq(Messages)
  BY DEF Sessions
<1>2. e \in Sessions /\ e.queue = << >>
  <2>1. << >> \in Seq(Messages)
    OBVIOUS
  <2> QED
    BY <2>1 DEF Sessions
<1>3. Onto(s.queue, e) = s
  <2>1. s.queue \o << >> = s.queue
    BY <1>1
  <2> QED
    BY <2>1 DEF Onto, Sessions
<1> HIDE DEF e
<1>4. All(e, w) \in Sessions /\ All(s, w) = Onto(s.queue, All(e, w))
  BY <1>1, <1>2, <1>3, AllFacts
<1>5. All(e, w).queue \in Seq(Messages)
  BY <1>4 DEF Sessions
<1>6. All(s, w).queue = s.queue \o All(e, w).queue /\ (Clean(All(s, w)) <=> Clean(All(e, w)))
  <2> DEFINE a == All(e, w)
  <2>1. Onto(s.queue, a).queue = s.queue \o a.queue
    BY <1>1, <1>4, OntoFacts
  <2>2. /\ Onto(s.queue, a).in = a.in /\ Onto(s.queue, a).from = a.from
        /\ Onto(s.queue, a).body = a.body /\ Onto(s.queue, a).thread = a.thread
        /\ Onto(s.queue, a).error = a.error
    BY <1>1, <1>4, OntoFacts
  <2> QED
    BY <2>1, <2>2, <1>4 DEF Clean
<1>7. ASSUME NEW k \in 0 .. Len(w) PROVE Readings(s, w)[k].in = Readings(e, w)[k].in
  <2>1. Readings(e, w)[k] \in Sessions /\ Readings(s, w)[k] = Onto(s.queue, Readings(e, w)[k])
    BY <1>1, <1>2, <1>3, ReadFacts
  <2> QED
    BY <1>1, <2>1, OntoFacts
<1> QED
  BY <1>1, <1>5, <1>6, <1>7 DEF e, Coming

\* client_recv takes the oldest message: the others, and what comes, are as before.
LEMMA Dequeued ==
    ASSUME NEW s \in Sessions, NEW w \in Seq(Tokens), s.queue # << >>,
           NEW r, r = [s EXCEPT !.queue = Tail(@)]
    PROVE  /\ r \in Sessions /\ Head(s.queue) \in Messages
           /\ r.sockId = s.sockId /\ r.connected = s.connected
           /\ <<Head(s.queue)>> \o All(r, w).queue = All(s, w).queue
           /\ <<Head(s.queue)>> \o r.queue = s.queue
           /\ Clean(All(r, w)) <=> Clean(All(s, w))
           /\ Matched(s, w) => Matched(r, w)
<1>1. s.queue \in Seq(Messages)
  BY DEF Sessions
<1>2. Head(s.queue) \in Messages /\ Tail(s.queue) \in Seq(Messages)
      /\ <<Head(s.queue)>> \o Tail(s.queue) = s.queue
  BY <1>1
<1>3. r \in Sessions /\ r.queue = Tail(s.queue) /\ r.sockId = s.sockId /\ r.connected = s.connected
  BY <1>2 DEF Sessions
<1>4. [r EXCEPT !.queue = << >>] = [s EXCEPT !.queue = << >>]
  BY DEF Sessions
<1>5. Coming(r, w) = Coming(s, w)
  BY <1>4 DEF Coming
<1>6. <<Head(s.queue)>> \o All(r, w).queue = All(s, w).queue
  <2>1. All(r, w).queue = Tail(s.queue) \o Coming(s, w) /\ All(s, w).queue = s.queue \o Coming(s, w)
        /\ Coming(s, w) \in Seq(Messages)
    BY <1>3, <1>5, QueueSplit
  <2> DEFINE h == Head(s.queue)
             t == Tail(s.queue)
             c == Coming(s, w)
  <2>2. h \in Messages /\ t \in Seq(Messages) /\ c \in Seq(Messages) /\ <<h>> \in Seq(Messages)
    BY <1>2, <2>1
  <2> HIDE DEF h, t, c
  <2>3. <<h>> \o (t \o c) = (<<h>> \o t) \o c
    BY <2>2, JoinThree
  <2> QED
    BY <2>1, <2>3, <1>2 DEF h, t, c
<1>7. Clean(All(r, w)) <=> Clean(All(s, w))
  BY <1>3, <1>4, QueueSplit
<1>8. \A k \in 0 .. Len(w) : Readings(r, w)[k].in = Readings(s, w)[k].in
  BY <1>3, <1>4, QueueSplit
<1>9. Matched(s, w) => Matched(r, w)
  <2>1. \A i \in 1 .. Len(w) : i - 1 \in 0 .. Len(w)
    OBVIOUS
  <2> QED
    BY <2>1, <1>8 DEF Matched
<1> QED
  BY <1>2, <1>3, <1>6, <1>7, <1>9

\* The ends of messages among the first k tags and texts.
Ends(w, k) == {i \in 1 .. k : w[i] = Close("message")}

\* As many messages will be added to the queue as ends of messages are on the wire.
LEMMA QueueCount ==
    ASSUME NEW s \in Sessions, NEW w \in Seq(Tokens), Matched(s, w)
    PROVE  /\ Cardinality(Ends(w, Len(w))) \in Nat
           /\ Len(All(s, w).queue) = Len(s.queue) + Cardinality(Ends(w, Len(w)))
<1> DEFINE n == Len(w)
           r == Readings(s, w)
           Right(i) == /\ IsFiniteSet(Ends(w, i)) /\ Cardinality(Ends(w, i)) \in Nat
                       /\ Len(r[i].queue) = Len(s.queue) + Cardinality(Ends(w, i))
           G == {i \in 0 .. n : Right(i)}
<1>1. n \in Nat /\ \A i \in 1 .. n : w[i] \in Tokens
  OBVIOUS
<1>2. r[0] = s /\ \A i \in 1 .. n : r[i] = Parse(r[i - 1], w[i])
  BY Unfold
<1>3. \A i \in 0 .. n : r[i] \in Sessions
  BY ReadFacts
<1>4. \A i \in 1 .. n : w[i] = Close("message") => "message" \in r[i - 1].in
  BY DEF Matched
<1>5. \A q \in Sessions : Len(q.queue) \in Nat
  BY DEF Sessions
<1> HIDE DEF r, n
<1>6. 0 \in G
  <2>1. Ends(w, 0) = {}
    BY DEF Ends
  <2>2. Right(0)
    <3>1. IsFiniteSet(Ends(w, 0)) /\ Cardinality(Ends(w, 0)) = 0
      BY <2>1, FS_EmptySet
    <3>2. Len(s.queue) \in Nat /\ r[0].queue = s.queue
      BY <1>2, <1>5
    <3> QED
      BY <3>1, <3>2
  <2> HIDE DEF Right
  <2> QED
    BY <2>2, <1>1
<1>7. ASSUME NEW i \in 0 .. n - 1, i \in G PROVE i + 1 \in G
  <2>1. i + 1 \in 1 .. n /\ i + 1 \in 0 .. n /\ (i + 1) - 1 = i /\ i \in 0 .. n
    BY <1>1
  <2>2. Right(i)
    BY <1>7
  <2>3. r[i + 1] = Parse(r[i], w[i + 1]) /\ w[i + 1] \in Tokens /\ r[i] \in Sessions
    BY <2>1, <1>1, <1>2, <1>3
  <2>4. CASE w[i + 1] = Close("message")
    <3>1. "message" \in r[i].in
      BY <2>1, <2>4, <1>4
    <3>2. r[i + 1].queue = Append(r[i].queue, Message(r[i]))
      BY <2>3, <2>4, <3>1, ParseFacts
    <3>3. Len(r[i + 1].queue) = Len(r[i].queue) + 1
      BY <2>3, <3>2 DEF Sessions
    <3>4. Ends(w, i + 1) = Ends(w, i) \cup {i + 1} /\ i + 1 \notin Ends(w, i)
      BY <2>4, <1>1 DEF Ends
    <3>5. IsFiniteSet(Ends(w, i + 1)) /\ Cardinality(Ends(w, i + 1)) = Cardinality(Ends(w, i)) + 1
      BY <2>2, <3>4, FS_AddElement
    <3>6. Right(i + 1)
      <4> DEFINE a == Len(s.queue)
                 c == Cardinality(Ends(w, i))
                 d == Cardinality(Ends(w, i + 1))
                 x == Len(r[i].queue)
                 y == Len(r[i + 1].queue)
      <4>1. a \in Nat
        BY <1>5
      <4>2. c \in Nat /\ x = a + c
        BY <2>2
      <4>3. d = c + 1 /\ y = x + 1
        BY <3>3, <3>5
      <4>4. d \in Nat /\ y = a + d
        <5> HIDE DEF a, c, d, x, y
        <5> QED
          BY <4>1, <4>2, <4>3
      <4> QED
        BY <3>5, <4>4
    <3> HIDE DEF Right
    <3> QED
      BY <3>6, <2>1
  <2>5. CASE w[i + 1] # Close("message")
    <3>1. r[i + 1].queue = r[i].queue
      BY <2>3, <2>5, ParseFacts
    <3>2. Ends(w, i + 1) = Ends(w, i)
      BY <2>5, <1>1 DEF Ends
    <3>3. Right(i + 1)
      BY <2>2, <3>1, <3>2
    <3> HIDE DEF Right
    <3> QED
      BY <3>3, <2>1
  <2> QED
    BY <2>4, <2>5
<1>8. 0 .. n \subseteq G
  <2> HIDE DEF G
  <2> QED
    BY <1>1, <1>6, <1>7, Climb
<1>9. Right(n)
  <2> HIDE DEF Right
  <2> QED
    BY <1>8, <1>1
<1> QED
  BY <1>9 DEF r, n, All

\* Reading the first n tags and texts leaves a session that will be, when the rest
\* is read, where it would have been.
LEMMA ReadPart ==
    ASSUME NEW s \in Sessions, NEW w \in Seq(Tokens), NEW n \in 0 .. Len(w)
    PROVE  LET r == Readings(s, w)[n]
               v == SubSeq(w, n + 1, Len(w))
           IN  /\ r \in Sessions /\ r.sockId = s.sockId /\ v \in Seq(Tokens)
               /\ r.connected \/ (\E i \in DOMAIN v : Accepting(v[i]))
                    => s.connected \/ (\E i \in DOMAIN w : Accepting(w[i]))
               /\ All(r, v) = All(s, w)
               /\ Matched(s, w) => Matched(r, v)
<1> DEFINE r == Readings(s, w)[n]
           v == SubSeq(w, n + 1, Len(w))
<1>1. v \in Seq(Tokens) /\ Len(v) = Len(w) - n /\ \A i \in 1 .. Len(w) - n : v[i] = w[n + i]
  BY RestFacts
<1>3. r \in Sessions /\ r.sockId = s.sockId
      /\ (r.connected => s.connected \/ \E i \in 1 .. n : Accepting(w[i]))
  BY ReadFacts
<1>7. \A k \in 0 .. Len(w) - n : Readings(r, v)[k] = Readings(s, w)[n + k]
  BY ReadOn
<1> HIDE DEF r, v
<1>2. Len(w) \in Nat /\ n \in Nat /\ n <= Len(w) /\ DOMAIN w = 1 .. Len(w) /\ DOMAIN v = 1 .. Len(v)
  BY <1>1
<1>4. \A i \in DOMAIN v : n + i \in DOMAIN w /\ v[i] = w[n + i]
  BY <1>1, <1>2
<1>5. 1 .. n \subseteq DOMAIN w
  BY <1>2
<1>6. r.connected \/ (\E i \in DOMAIN v : Accepting(v[i]))
        => s.connected \/ (\E i \in DOMAIN w : Accepting(w[i]))
  BY <1>3, <1>4, <1>5
<1>8. All(r, v) = All(s, w)
  <2>1. Len(w) - n \in 0 .. Len(w) - n /\ n + (Len(w) - n) = Len(w)
    BY <1>2
  <2> QED
    BY <2>1, <1>1, <1>7 DEF All
<1>9. ASSUME Matched(s, w) PROVE Matched(r, v)
  <2>1. SUFFICES ASSUME NEW i \in 1 .. Len(v), v[i] = Close("message")
                 PROVE  "message" \in Readings(r, v)[i - 1].in
    BY DEF Matched
  <2>2. i - 1 \in 0 .. Len(w) - n /\ n + i \in 1 .. Len(w) /\ n + (i - 1) = (n + i) - 1
    BY <1>1, <1>2
  <2>3. w[n + i] = Close("message")
    BY <2>1, <1>4, <1>2
  <2>4. "message" \in Readings(s, w)[(n + i) - 1].in
    BY <2>2, <2>3, <1>9 DEF Matched
  <2> QED
    BY <2>2, <2>4, <1>7
<1> QED
  BY <1>1, <1>3, <1>6, <1>8, <1>9 DEF r, v

\* What the server adds to the wire is read where all that was there ended.
LEMMA WireGrows ==
    ASSUME NEW s \in Sessions, NEW w \in Seq(Tokens), NEW v \in Seq(Tokens),
           Matched(s, w), Matched(All(s, w), v)
    PROVE  All(s, w \o v) = All(All(s, w), v) /\ Matched(s, w \o v)
<1> DEFINE x == w \o v
           n == Len(w)
           m == Len(v)
<1>1. n \in Nat /\ m \in Nat /\ Len(x) = n + m /\ (\A i \in 1 .. n : x[i] = w[i])
      /\ (\A i \in 1 .. m : x[n + i] = v[i])
  BY JoinFacts
<1>2. \A k \in 0 .. n : Readings(s, x)[k] = Readings(s, w)[k]
  BY ReadSame
<1>3. \A k \in 0 .. m : Readings(s, x)[n + k] = Readings(All(s, w), v)[k]
  BY ReadMore
<1> HIDE DEF x
<1>4. All(s, x) = All(All(s, w), v)
  <2>1. m \in 0 .. m
    BY <1>1
  <2> QED
    BY <2>1, <1>1, <1>3 DEF All
<1>5. Matched(s, x)
  <2>1. SUFFICES ASSUME NEW i \in 1 .. Len(x), x[i] = Close("message")
                 PROVE  "message" \in Readings(s, x)[i - 1].in
    BY DEF Matched
  <2>2. CASE i \in 1 .. n
    <3>1. w[i] = Close("message") /\ i - 1 \in 0 .. n
      BY <2>1, <2>2, <1>1
    <3>2. "message" \in Readings(s, w)[i - 1].in
      BY <3>1, <2>2 DEF Matched
    <3> QED
      BY <3>1, <3>2, <1>2
  <2>3. CASE i \notin 1 .. n
    <3>1. i - n \in 1 .. m /\ (i - n) - 1 \in 0 .. m /\ n + (i - n) = i /\ n + ((i - n) - 1) = i - 1
      BY <2>3, <1>1
    <3>2. v[i - n] = Close("message")
      BY <3>1, <2>1, <1>1
    <3>3. "message" \in Readings(All(s, w), v)[(i - n) - 1].in
      BY <3>1, <3>2 DEF Matched
    <3> QED
      BY <3>1, <3>3, <1>3
  <2> QED
    BY <2>2, <2>3
<1> QED
  BY <1>4, <1>5 DEF x

-----------------------------------------------------------------------------
(* What the server sends, one stanza after the other.                      *)

\* The tags and texts are tokens.
LEMMA TokenFacts ==
    ASSUME NEW x \in TagNames, NEW n \in Values
    PROVE  /\ Open(x, n) \in Tokens /\ Close(x) \in Tokens /\ Text(n) \in Tokens
           /\ Open(x, n).ev = "open" /\ Open(x, n).tag = x /\ Open(x, n).val = n
           /\ Close(x).ev = "close" /\ Close(x).tag = x
           /\ Text(n).ev = "text" /\ Text(n).val = n
<1> DEFINE T == [ev : {"open", "close", "text"}, tag : TagNames, val : Values]
<1>1. Open(x, n) \in T /\ Open(x, n).ev = "open" /\ Open(x, n).tag = x /\ Open(x, n).val = n
  BY DEF Open
<1>2. Close(x) \in T /\ Close(x).ev = "close" /\ Close(x).tag = x
  <2>1. 0 \in Values
    BY DEF Values
  <2> QED
    BY <2>1 DEF Close
<1>3. Text(n) \in T /\ Text(n).ev = "text" /\ Text(n).val = n
  <2>1. "text" \in TagNames
    BY DEF TagNames
  <2> QED
    BY <2>1 DEF Text
<1>4. Tokens = {t \in T : t.ev = "close" => t = Close(t.tag)}
  BY DEF Tokens
<1>5. Open(x, n).ev # "close" /\ Text(n).ev # "close" /\ Close(x) = Close(Close(x).tag)
  BY <1>1, <1>2, <1>3
<1> HIDE DEF T
<1>6. Open(x, n) \in Tokens /\ Text(n) \in Tokens
  BY <1>1, <1>3, <1>4, <1>5
<1>7. Close(x) \in Tokens
  BY <1>2, <1>4, <1>5
<1> QED
  BY <1>1, <1>2, <1>3, <1>6, <1>7

\* A session in these elements, with these buffers and this queue.
At(s, in, from, body, thread, error, queue) ==
    /\ s \in Sessions /\ s.in = in /\ s.from = from /\ s.body = body
    /\ s.thread = thread /\ s.error = error /\ s.queue = queue
\* The start of a message.
LEMMA OpenMessage ==
    ASSUME NEW s, NEW in, NEW f, NEW b, NEW h, NEW e, NEW q, NEW n \in Values,
           At(s, in, f, b, h, e, q)
    PROVE  At(Parse(s, Open("message", n)), in \cup {"message"}, Append(f, n), b, h, e, q)
<1> DEFINE t == Open("message", n)
           r == Parse(s, t)
<1>1. /\ s \in Sessions /\ s.in = in /\ s.from = f /\ s.body = b
      /\ s.thread = h /\ s.error = e /\ s.queue = q
  BY DEF At
<1>2. t \in Tokens /\ t.tag = "message" /\ t.val = n /\ t.ev = "open"
  <2>1. "message" \in TagNames
    BY DEF TagNames, Elements
  <2> QED
    BY <2>1, TokenFacts
<1> HIDE DEF t
<1>3. r = StartElement(s, t)
  BY <1>2 DEF Parse
<1>4. r = [s EXCEPT !.in = @ \cup {"message"}, !.from = Append(@, n)]
  BY <1>1, <1>2, <1>3 DEF StartElement
<1>5. r \in Sessions /\ r.queue = q
  BY <1>1, <1>2, <1>3, StartFacts
<1> HIDE DEF r
<1>6. r.in = in \cup {"message"} /\ r.from = Append(f, n) /\ r.body = b /\ r.thread = h /\ r.error = e
  BY <1>1, <1>4 DEF Sessions
<1> QED
  BY <1>5, <1>6 DEF At, r, t

\* The start of a part of it.
LEMMA OpenPart ==
    ASSUME NEW s, NEW in, NEW f, NEW b, NEW h, NEW e, NEW q, NEW n \in Values,
           At(s, in, f, b, h, e, q),
           NEW x \in {"body", "thread"}, "message" \in in
    PROVE  At(Parse(s, Open(x, n)), in \cup {x}, f, b, h, e, q)
<1> DEFINE t == Open(x, n)
           r == Parse(s, t)
<1>1. /\ s \in Sessions /\ s.in = in /\ s.from = f /\ s.body = b
      /\ s.thread = h /\ s.error = e /\ s.queue = q
  BY DEF At
<1>2. t \in Tokens /\ t.tag = x /\ t.val = n /\ t.ev = "open"
  <2>1. x \in TagNames
    BY DEF TagNames, Elements
  <2> QED
    BY <2>1, TokenFacts
<1> HIDE DEF t
<1>3. r = StartElement(s, t)
  BY <1>2 DEF Parse
<1>4. r = [s EXCEPT !.in = @ \cup {x}]
  BY <1>1, <1>2, <1>3 DEF StartElement
<1>5. r \in Sessions /\ r.queue = q
  BY <1>1, <1>2, <1>3, StartFacts
<1> HIDE DEF r
<1>6. r.in = in \cup {x} /\ r.from = f /\ r.body = b /\ r.thread = h /\ r.error = e
  BY <1>1, <1>4 DEF Sessions
<1> QED
  BY <1>5, <1>6 DEF At, r, t

\* The start of a presence.
LEMMA OpenPresence ==
    ASSUME NEW s, NEW in, NEW f, NEW b, NEW h, NEW e, NEW q, NEW n \in Values,
           At(s, in, f, b, h, e, q)
    PROVE  At(Parse(s, Open("presence", n)), in \cup {"presence"}, Append(f, n), b, h, e, q)
<1> DEFINE t == Open("presence", n)
           r == Parse(s, t)
<1>1. /\ s \in Sessions /\ s.in = in /\ s.from = f /\ s.body = b
      /\ s.thread = h /\ s.error = e /\ s.queue = q
  BY DEF At
<1>2. t \in Tokens /\ t.tag = "presence" /\ t.val = n /\ t.ev = "open"
  <2>1. "presence" \in TagNames
    BY DEF TagNames, Elements
  <2> QED
    BY <2>1, TokenFacts
<1> HIDE DEF t
<1>3. r = StartElement(s, t)
  BY <1>2 DEF Parse
<1>4. r = [s EXCEPT !.in = @ \cup {"presence"}, !.from = Append(@, n)]
  BY <1>1, <1>2, <1>3 DEF StartElement
<1>5. r \in Sessions /\ r.queue = q
  BY <1>1, <1>2, <1>3, StartFacts
<1> HIDE DEF r
<1>6. r.in = in \cup {"presence"} /\ r.from = Append(f, n) /\ r.body = b /\ r.thread = h /\ r.error = e
  BY <1>1, <1>4 DEF Sessions
<1> QED
  BY <1>5, <1>6 DEF At, r, t

\* The start of an error of the stream.
LEMMA OpenStreamError ==
    ASSUME NEW s, NEW in, NEW f, NEW b, NEW h, NEW e, NEW q, NEW n \in Values,
           At(s, in, f, b, h, e, q)
    PROVE  At(Parse(s, Open("stream:error", n)), in \cup {"stream:error"}, f, b, h, e, q)
<1> DEFINE t == Open("stream:error", n)
           r == Parse(s, t)
<1>1. /\ s \in Sessions /\ s.in = in /\ s.from = f /\ s.body = b
      /\ s.thread = h /\ s.error = e /\ s.queue = q
  BY DEF At
<1>2. t \in Tokens /\ t.tag = "stream:error" /\ t.val = n /\ t.ev = "open"
  <2>1. "stream:error" \in TagNames
    BY DEF TagNames, Elements
  <2> QED
    BY <2>1, TokenFacts
<1> HIDE DEF t
<1>3. r = StartElement(s, t)
  BY <1>2 DEF Parse
<1>4. r = [s EXCEPT !.in = @ \cup {"stream:error"}, !.connected = FALSE]
  BY <1>1, <1>2, <1>3 DEF StartElement
<1>5. r \in Sessions /\ r.queue = q
  BY <1>1, <1>2, <1>3, StartFacts
<1> HIDE DEF r
<1>6. r.in = in \cup {"stream:error"} /\ r.from = f /\ r.body = b /\ r.thread = h /\ r.error = e
  BY <1>1, <1>4 DEF Sessions
<1> QED
  BY <1>5, <1>6 DEF At, r, t

\* The start of an error in a message or an iq.
LEMMA OpenError ==
    ASSUME NEW s, NEW in, NEW f, NEW b, NEW h, NEW e, NEW q, NEW n \in Values,
           At(s, in, f, b, h, e, q)
    PROVE  At(Parse(s, Open("error", n)), in \cup {"error"}, f, b, h, Append(e, n), q)
<1> DEFINE t == Open("error", n)
           r == Parse(s, t)
<1>1. /\ s \in Sessions /\ s.in = in /\ s.from = f /\ s.body = b
      /\ s.thread = h /\ s.error = e /\ s.queue = q
  BY DEF At
<1>2. t \in Tokens /\ t.tag = "error" /\ t.val = n /\ t.ev = "open"
  <2>1. "error" \in TagNames
    BY DEF TagNames, Elements
  <2> QED
    BY <2>1, TokenFacts
<1> HIDE DEF t
<1>3. r = StartElement(s, t)
  BY <1>2 DEF Parse
<1>4. r = [s EXCEPT !.in = @ \cup {"error"}, !.error = Append(@, n)]
  BY <1>1, <1>2, <1>3 DEF StartElement
<1>5. r \in Sessions /\ r.queue = q
  BY <1>1, <1>2, <1>3, StartFacts
<1> HIDE DEF r
<1>6. r.in = in \cup {"error"} /\ r.from = f /\ r.body = b /\ r.thread = h /\ r.error = Append(e, n)
  BY <1>1, <1>4 DEF Sessions
<1> QED
  BY <1>5, <1>6 DEF At, r, t

\* The start of an iq, whether it logs in or not.
LEMMA OpenIq ==
    ASSUME NEW s, NEW in, NEW f, NEW b, NEW h, NEW e, NEW q, NEW n \in Values,
           At(s, in, f, b, h, e, q)
    PROVE  At(Parse(s, Open("iq", n)), in \cup {"iq"}, f, b, h, e, q)
<1> DEFINE t == Open("iq", n)
           r == Parse(s, t)
<1>1. /\ s \in Sessions /\ s.in = in /\ s.from = f /\ s.body = b
      /\ s.thread = h /\ s.error = e /\ s.queue = q
  BY DEF At
<1>2. t \in Tokens /\ t.tag = "iq" /\ t.val = n /\ t.ev = "open"
  <2>1. "iq" \in TagNames
    BY DEF TagNames, Elements
  <2> QED
    BY <2>1, TokenFacts
<1> HIDE DEF t
<1>3. r = StartElement(s, t)
  BY <1>2 DEF Parse
<1>4. \/ r = [s EXCEPT !.in = @ \cup {"iq"}, !.connected = TRUE, !.connecting = 0]
      \/ r = [s EXCEPT !.in = @ \cup {"iq"}]
  BY <1>1, <1>2, <1>3 DEF StartElement
<1>5. r \in Sessions /\ r.queue = q
  BY <1>1, <1>2, <1>3, StartFacts
<1> HIDE DEF r
<1>6. r.in = in \cup {"iq"} /\ r.from = f /\ r.body = b /\ r.thread = h /\ r.error = e
  BY <1>1, <1>4 DEF Sessions
<1> QED
  BY <1>5, <1>6 DEF At, r, t

\* Tags that say nothing of a message.
LEMMA OpenOther ==
    ASSUME NEW s, NEW in, NEW f, NEW b, NEW h, NEW e, NEW q, NEW n \in Values,
           At(s, in, f, b, h, e, q),
           NEW x \in {"stream:stream", "handshake", "status"}
    PROVE  At(Parse(s, Open(x, n)), in, f, b, h, e, q)
<1> DEFINE t == Open(x, n)
           r == Parse(s, t)
<1>1. /\ s \in Sessions /\ s.in = in /\ s.from = f /\ s.body = b
      /\ s.thread = h /\ s.error = e /\ s.queue = q
  BY DEF At
<1>2. t \in Tokens /\ t.tag = x /\ t.val = n /\ t.ev = "open"
  <2>1. x \in TagNames
    BY DEF TagNames, Elements
  <2> QED
    BY <2>1, TokenFacts
<1> HIDE DEF t
<1>3. r = StartElement(s, t)
  BY <1>2 DEF Parse
<1>4. \/ r = [s EXCEPT !.connecting = 2] \/ r = s
      \/ r = [s EXCEPT !.connected = TRUE, !.connecting = 0]
  BY <1>1, <1>2, <1>3 DEF StartElement
<1>5. r \in Sessions /\ r.queue = q
  BY <1>1, <1>2, <1>3, StartFacts
<1> HIDE DEF r
<1>6. r.in = in /\ r.from = f /\ r.body = b /\ r.thread = h /\ r.error = e
  BY <1>1, <1>4 DEF Sessions
<1> QED
  BY <1>5, <1>6 DEF At, r, t

\* The end of a message: it is what the buffers hold.
LEMMA CloseMessage ==
    ASSUME NEW s, NEW in, NEW f, NEW b, NEW h, NEW e, NEW q, At(s, in, f, b, h, e, q),
           "message" \in in
    PROVE  At(Parse(s, Close("message")), in \ {"message"}, << >>, << >>, << >>, << >>,
              Append(q, [from |-> f, body |-> b, thread |-> h, isError |-> e # << >>]))
<1> DEFINE t == Close("message")
           r == Parse(s, t)
<1>1. /\ s \in Sessions /\ s.in = in /\ s.from = f /\ s.body = b
      /\ s.thread = h /\ s.error = e /\ s.queue = q
  BY DEF At
<1>2. t \in Tokens /\ t.tag = "message" /\ t.ev = "close"
  <2>1. "message" \in TagNames /\ 0 \in Values
    BY DEF TagNames, Elements, Values
  <2> QED
    BY <2>1, TokenFacts
<1> HIDE DEF t
<1>3. r = EndElement(s, t)
  BY <1>2 DEF Parse
<1>4. r \in Sessions /\ r.queue = Append(s.queue, Message(s))
  BY <1>1, <1>2, <1>3, EndFacts
<1>5. r = ResetBuffers(Enqueue([s EXCEPT !.in = @ \ {t.tag}], Message(s)))
  <2>1. t.tag \in s.in /\ t.tag = "message"
    BY <1>1, <1>2
  <2> HIDE DEF r
  <2>2. Message([s EXCEPT !.in = @ \ {t.tag}]) = Message(s)
    BY <1>1 DEF Message, Sessions
  <2>3. EndElement(s, t) = ResetBuffers(Enqueue([s EXCEPT !.in = @ \ {t.tag}], Message(s)))
    BY <2>1, <2>2 DEF EndElement
  <2> QED
    BY <1>3, <2>3
<1>7. Message(s) = [from |-> f, body |-> b, thread |-> h, isError |-> e # << >>]
  BY <1>1 DEF Message
<1> HIDE DEF r
<1>6. r.in = in \ {"message"} /\ r.from = << >> /\ r.body = << >> /\ r.thread = << >> /\ r.error = << >>
  BY <1>1, <1>2, <1>5 DEF ResetBuffers, Enqueue, Sessions
<1> QED
  BY <1>1, <1>4, <1>6, <1>7 DEF At, r, t

\* The end of another stanza.
LEMMA CloseStanza ==
    ASSUME NEW s, NEW in, NEW f, NEW b, NEW h, NEW e, NEW q, At(s, in, f, b, h, e, q),
           NEW x \in {"iq", "presence"}, x \in in
    PROVE  At(Parse(s, Close(x)), in \ {x}, << >>, << >>, << >>, << >>, q)
<1> DEFINE t == Close(x)
           r == Parse(s, t)
<1>1. /\ s \in Sessions /\ s.in = in /\ s.from = f /\ s.body = b
      /\ s.thread = h /\ s.error = e /\ s.queue = q
  BY DEF At
<1>2. t \in Tokens /\ t.tag = x /\ t.ev = "close"
  <2>1. x \in TagNames /\ 0 \in Values
    BY DEF TagNames, Elements, Values
  <2> QED
    BY <2>1, TokenFacts
<1> HIDE DEF t
<1>3. r = EndElement(s, t)
  BY <1>2 DEF Parse
<1>4. r \in Sessions /\ r.queue = q
  BY <1>1, <1>2, <1>3, EndFacts
<1>5. r = ResetBuffers([s EXCEPT !.in = @ \ {x}])
  BY <1>1, <1>2, <1>3 DEF EndElement
<1> HIDE DEF r
<1>6. r.in = in \ {x} /\ r.from = << >> /\ r.body = << >> /\ r.thread = << >> /\ r.error = << >>
  BY <1>1, <1>2, <1>5 DEF ResetBuffers, Enqueue, Sessions
<1> QED
  BY <1>1, <1>4, <1>6 DEF At, r, t

\* The end of anything else.
LEMMA CloseOther ==
    ASSUME NEW s, NEW in, NEW f, NEW b, NEW h, NEW e, NEW q, At(s, in, f, b, h, e, q),
           NEW x \in {"body", "thread", "error", "stream:error", "handshake", "status"}
    PROVE  At(Parse(s, Close(x)), in \ {x}, f, b, h, e, q)
<1> DEFINE t == Close(x)
           r == Parse(s, t)
<1>1. /\ s \in Sessions /\ s.in = in /\ s.from = f /\ s.body = b
      /\ s.thread = h /\ s.error = e /\ s.queue = q
  BY DEF At
<1>2. t \in Tokens /\ t.tag = x /\ t.ev = "close"
  <2>1. x \in TagNames /\ 0 \in Values
    BY DEF TagNames, Elements, Values
  <2> QED
    BY <2>1, TokenFacts
<1> HIDE DEF t
<1>3. r = EndElement(s, t)
  BY <1>2 DEF Parse
<1>4. r \in Sessions /\ r.queue = q
  BY <1>1, <1>2, <1>3, EndFacts
<1>5. r = IF x \in in THEN [s EXCEPT !.in = @ \ {x}] ELSE s
  BY <1>1, <1>2, <1>3 DEF EndElement
<1> HIDE DEF r
<1>6. r.in = in \ {x} /\ r.from = f /\ r.body = b /\ r.thread = h /\ r.error = e
  BY <1>1, <1>2, <1>5 DEF ResetBuffers, Enqueue, Sessions
<1> QED
  BY <1>1, <1>4, <1>6 DEF At, r, t

\* Text goes to the body or the thread of a message.
LEMMA ReadText ==
    ASSUME NEW s, NEW in, NEW f, NEW b, NEW h, NEW e, NEW q, NEW n \in Values,
           At(s, in, f, b, h, e, q)
    PROVE  At(Parse(s, Text(n)), in, f,
              IF {"message", "body"} \subseteq in THEN Append(b, n) ELSE b,
              IF {"message", "thread"} \subseteq in THEN Append(h, n) ELSE h, e, q)
<1> DEFINE t == Text(n)
           r == Parse(s, t)
           B == IF {"message", "body"} \subseteq in THEN Append(b, n) ELSE b
           T == IF {"message", "thread"} \subseteq in THEN Append(h, n) ELSE h
<1>1. /\ s \in Sessions /\ s.in = in /\ s.from = f /\ s.body = b
      /\ s.thread = h /\ s.error = e /\ s.queue = q
  BY DEF At
<1>2. t \in Tokens /\ t.val = n /\ t.ev = "text"
  <2>1. "text" \in TagNames
    BY DEF TagNames
  <2> QED
    BY <2>1, TokenFacts
<1> HIDE DEF t
<1>3. r = Characters(s, t)
  BY <1>2 DEF Parse
<1>4. r \in Sessions /\ r.queue = q
  BY <1>1, <1>2, <1>3, TextFacts
<1>5. r = [s EXCEPT !.body = B, !.thread = T]
  BY <1>1, <1>2, <1>3 DEF Characters, Sessions
<1> HIDE DEF r, B, T
<1>6. r.in = in /\ r.from = f /\ r.body = B /\ r.thread = T /\ r.error = e
  BY <1>1, <1>5 DEF Sessions
<1> QED
  BY <1>4, <1>6 DEF At, r, B, T, t

\* Read between two stanzas, v adds the messages m to the queue, and ends between
\* two stanzas.
Adds(v, m) ==
    \A s \in Sessions : Clean(s) =>
        Matched(s, v) /\ Clean(All(s, v)) /\ All(s, v) \in Sessions /\ All(s, v).queue = s.queue \o m

\* The first values of a buffer.
LEMMA FirstValues ==
    ASSUME NEW n \in Values
    PROVE  Append(<< >>, n) = <<n>> /\ Append(<<n>>, n) = <<n, n>>
<1>1. Append(<< >>, n) \in Seq(Values) /\ Len(Append(<< >>, n)) = 1 /\ Append(<< >>, n)[1] = n
  OBVIOUS
<1>2. <<n>> \in Seq(Values) /\ Len(<<n>>) = 1 /\ <<n>>[1] = n
  OBVIOUS
<1>3. Append(<<n>>, n) \in Seq(Values) /\ Len(Append(<<n>>, n)) = 2
      /\ Append(<<n>>, n)[1] = n /\ Append(<<n>>, n)[2] = n
  OBVIOUS
<1>4. <<n, n>> \in Seq(Values) /\ Len(<<n, n>>) = 2 /\ <<n, n>>[1] = n /\ <<n, n>>[2] = n
  OBVIOUS
<1>5. Append(<< >>, n) = <<n>>
  BY <1>1, <1>2, SameSeq
<1>6. Append(<<n>>, n) = <<n, n>>
  <2>1. \A i \in 1 .. 2 : Append(<<n>>, n)[i] = <<n, n>>[i]
    BY <1>3, <1>4
  <2> QED
    BY <1>3, <1>4, <2>1, SameSeq
<1> QED
  BY <1>5, <1>6

\* A wire without an end of a message, that leaves the session as it was.
LEMMA NoMessage ==
    ASSUME NEW v \in Seq(Tokens), \A i \in 1 .. Len(v) : v[i] # Close("message"),
           \A s \in Sessions : Clean(s) => At(All(s, v), {}, << >>, << >>, << >>, << >>, s.queue)
    PROVE  Adds(v, << >>)
<1>1. SUFFICES ASSUME NEW s \in Sessions, Clean(s)
               PROVE  Matched(s, v) /\ Clean(All(s, v)) /\ All(s, v) \in Sessions
                      /\ All(s, v).queue = s.queue \o << >>
  BY DEF Adds
<1>2. Matched(s, v)
  BY DEF Matched
<1>3. At(All(s, v), {}, << >>, << >>, << >>, << >>, s.queue)
  BY <1>1
<1>4. s.queue \o << >> = s.queue
  BY DEF Sessions
<1> QED
  BY <1>2, <1>3, <1>4 DEF At, Clean

\* The server opens its stream.
LEMMA StreamAdds ==
    /\ <<Open("stream:stream", 0)>> \in Seq(Tokens)
    /\ Adds(<<Open("stream:stream", 0)>>, << >>)
<1> DEFINE t1 == Open("stream:stream", 0)
           v == <<t1>>
<1>0. /\ 0 \in Values
      /\ "stream:stream" \in TagNames
  BY DEF Values, TagNames, Elements
<1>1. /\ t1 \in Tokens /\ t1 # Close("message")
  <2>1. t1 \in Tokens /\ t1 # Close("message")
    BY <1>0, TokenFacts DEF Open, Close
  <2> QED
    BY <2>1
<1>2. v \in Seq(Tokens) /\ Len(v) = 1
      /\ v[1] = t1
  <2> HIDE DEF t1
  <2> QED
    BY <1>1
<1>4. ASSUME NEW s \in Sessions, Clean(s)
      PROVE  At(All(s, v), {}, << >>, << >>, << >>, << >>, s.queue)
  <2> DEFINE r == Readings(s, v)
  <2> HIDE DEF v
  <2>1. r[0] = s /\ \A i \in 1 .. 1 : r[i] = Parse(r[i - 1], v[i])
    <3>1. v \in Seq(Tokens)
      BY <1>2
    <3>2. r[0] = s /\ \A i \in 1 .. Len(v) : r[i] = Parse(r[i - 1], v[i])
      BY <3>1, Unfold
    <3> QED
      BY <1>2, <3>2
  <2> HIDE DEF r
  <2>2. /\ r[1] = Parse(r[0], t1)
    <3> HIDE DEF t1
    <3>1. r[1] = Parse(r[0], t1)
      BY <1>2, <2>1
    <3> QED
      BY <3>1
  <2>3. At(r[0], {}, << >>, << >>, << >>, << >>, s.queue)
    BY <1>4, <2>1 DEF Clean, At
  <2>4. At(r[1], {}, << >>, << >>, << >>, << >>, s.queue)
    <3>1. 0 \in Values
      BY <1>0
    <3>2. At(Parse(r[0], t1), {}, << >>, << >>, << >>, << >>, s.queue)
      BY <3>1, <2>3, OpenOther DEF t1
    <3> HIDE DEF t1
    <3> QED
      BY <2>2, <3>2
  <2> QED
    BY <1>2, <2>4 DEF All, r
<1>5. \A i \in 1 .. Len(v) : v[i] # Close("message")
  <2> HIDE DEF v, t1
  <2> QED
    BY <1>1, <1>2
<1> HIDE DEF v
<1> QED
  BY <1>2, <1>4, <1>5, NoMessage DEF v

\* It accepts a component.
LEMMA HandshakeAdds ==
    /\ <<Open("handshake", 0), Close("handshake")>> \in Seq(Tokens)
    /\ Adds(<<Open("handshake", 0), Close("handshake")>>, << >>)
<1> DEFINE t1 == Open("handshake", 0)
           t2 == Close("handshake")
           v == <<t1, t2>>
<1>0. /\ 0 \in Values
      /\ "handshake" \in TagNames
  BY DEF Values, TagNames, Elements
<1>1. /\ t1 \in Tokens /\ t1 # Close("message")
      /\ t2 \in Tokens /\ t2 # Close("message")
  <2>1. t1 \in Tokens /\ t1 # Close("message")
    BY <1>0, TokenFacts DEF Open, Close
  <2>2. t2 \in Tokens /\ t2 # Close("message")
    BY <1>0, TokenFacts DEF Close
  <2> QED
    BY <2>1, <2>2
<1>2. v \in Seq(Tokens) /\ Len(v) = 2
      /\ v[1] = t1 /\ v[2] = t2
  <2> HIDE DEF t1, t2
  <2> QED
    BY <1>1
<1>4. ASSUME NEW s \in Sessions, Clean(s)
      PROVE  At(All(s, v), {}, << >>, << >>, << >>, << >>, s.queue)
  <2> DEFINE r == Readings(s, v)
  <2> HIDE DEF v
  <2>1. r[0] = s /\ \A i \in 1 .. 2 : r[i] = Parse(r[i - 1], v[i])
    <3>1. v \in Seq(Tokens)
      BY <1>2
    <3>2. r[0] = s /\ \A i \in 1 .. Len(v) : r[i] = Parse(r[i - 1], v[i])
      BY <3>1, Unfold
    <3> QED
      BY <1>2, <3>2
  <2> HIDE DEF r
  <2>2. /\ r[1] = Parse(r[0], t1)
        /\ r[2] = Parse(r[1], t2)
    <3> HIDE DEF t1, t2
    <3>1. r[1] = Parse(r[0], t1)
      BY <1>2, <2>1
    <3>2. r[2] = Parse(r[1], t2)
      BY <1>2, <2>1
    <3> QED
      BY <3>1, <3>2
  <2>3. At(r[0], {}, << >>, << >>, << >>, << >>, s.queue)
    BY <1>4, <2>1 DEF Clean, At
  <2>4. At(r[1], {}, << >>, << >>, << >>, << >>, s.queue)
    <3>1. 0 \in Values
      BY <1>0
    <3>2. At(Parse(r[0], t1), {}, << >>, << >>, << >>, << >>, s.queue)
      BY <3>1, <2>3, OpenOther DEF t1
    <3> HIDE DEF t1
    <3> QED
      BY <2>2, <3>2
  <2>5. At(r[2], {}, << >>, << >>, << >>, << >>, s.queue)
    <3>1. {} \ {"handshake"} = {}
      OBVIOUS
    <3>2. At(Parse(r[1], t2), {} \ {"handshake"}, << >>, << >>, << >>, << >>, s.queue)
      BY <2>4, CloseOther DEF t2
    <3> HIDE DEF t2
    <3> QED
      BY <2>2, <3>1, <3>2
  <2> QED
    BY <1>2, <2>5 DEF All, r
<1>5. \A i \in 1 .. Len(v) : v[i] # Close("message")
  <2> HIDE DEF v, t1, t2
  <2> QED
    BY <1>1, <1>2
<1> HIDE DEF v
<1> QED
  BY <1>2, <1>4, <1>5, NoMessage DEF v

\* It accepts another client.
LEMMA AcceptAdds ==
    /\ <<Open("iq", "result"), Close("iq")>> \in Seq(Tokens)
    /\ Adds(<<Open("iq", "result"), Close("iq")>>, << >>)
<1> DEFINE t1 == Open("iq", "result")
           t2 == Close("iq")
           v == <<t1, t2>>
<1>0. /\ "result" \in Values
      /\ 0 \in Values
      /\ "iq" \in TagNames
  BY DEF Values, TagNames, Elements
<1>1. /\ t1 \in Tokens /\ t1 # Close("message")
      /\ t2 \in Tokens /\ t2 # Close("message")
  <2>1. t1 \in Tokens /\ t1 # Close("message")
    BY <1>0, TokenFacts DEF Open, Close
  <2>2. t2 \in Tokens /\ t2 # Close("message")
    BY <1>0, TokenFacts DEF Close
  <2> QED
    BY <2>1, <2>2
<1>2. v \in Seq(Tokens) /\ Len(v) = 2
      /\ v[1] = t1 /\ v[2] = t2
  <2> HIDE DEF t1, t2
  <2> QED
    BY <1>1
<1>4. ASSUME NEW s \in Sessions, Clean(s)
      PROVE  At(All(s, v), {}, << >>, << >>, << >>, << >>, s.queue)
  <2> DEFINE r == Readings(s, v)
  <2> HIDE DEF v
  <2>1. r[0] = s /\ \A i \in 1 .. 2 : r[i] = Parse(r[i - 1], v[i])
    <3>1. v \in Seq(Tokens)
      BY <1>2
    <3>2. r[0] = s /\ \A i \in 1 .. Len(v) : r[i] = Parse(r[i - 1], v[i])
      BY <3>1, Unfold
    <3> QED
      BY <1>2, <3>2
  <2> HIDE DEF r
  <2>2. /\ r[1] = Parse(r[0], t1)
        /\ r[2] = Parse(r[1], t2)
    <3> HIDE DEF t1, t2
    <3>1. r[1] = Parse(r[0], t1)
      BY <1>2, <2>1
    <3>2. r[2] = Parse(r[1], t2)
      BY <1>2, <2>1
    <3> QED
      BY <3>1, <3>2
  <2>3. At(r[0], {}, << >>, << >>, << >>, << >>, s.queue)
    BY <1>4, <2>1 DEF Clean, At
  <2>4. At(r[1], {"iq"}, << >>, << >>, << >>, << >>, s.queue)
    <3>1. {} \cup {"iq"} = {"iq"}
      OBVIOUS
    <3>2. "result" \in Values
      BY <1>0
    <3>3. At(Parse(r[0], t1), {} \cup {"iq"}, << >>, << >>, << >>, << >>, s.queue)
      BY <3>2, <2>3, OpenIq DEF t1
    <3> HIDE DEF t1
    <3> QED
      BY <2>2, <3>1, <3>3
  <2>5. At(r[2], {}, << >>, << >>, << >>, << >>, s.queue)
    <3>1. {"iq"} \ {"iq"} = {}
      OBVIOUS
    <3>2. "iq" \in {"iq"}
      OBVIOUS
    <3>3. At(Parse(r[1], t2), {"iq"} \ {"iq"}, << >>, << >>, << >>, << >>, s.queue)
      BY <2>4, CloseStanza, <3>2 DEF t2
    <3> HIDE DEF t2
    <3> QED
      BY <2>2, <3>1, <3>2, <3>3
  <2> QED
    BY <1>2, <2>5 DEF All, r
<1>5. \A i \in 1 .. Len(v) : v[i] # Close("message")
  <2> HIDE DEF v, t1, t2
  <2> QED
    BY <1>1, <1>2
<1> HIDE DEF v
<1> QED
  BY <1>2, <1>4, <1>5, NoMessage DEF v

\* It refuses one.
LEMMA RefuseAdds ==
    ASSUME NEW n \in Values
    PROVE  <<Open("iq", "error"), Open("error", n), Close("error"), Close("iq")>> \in Seq(Tokens)
           /\ Adds(<<Open("iq", "error"), Open("error", n), Close("error"), Close("iq")>>, << >>)
<1> DEFINE t1 == Open("iq", "error")
           t2 == Open("error", n)
           t3 == Close("error")
           t4 == Close("iq")
           v == <<t1, t2, t3, t4>>
<1>0. /\ "error" \in Values
      /\ n \in Values
      /\ 0 \in Values
      /\ "iq" \in TagNames
      /\ "error" \in TagNames
  BY DEF Values, TagNames, Elements
<1>1. /\ t1 \in Tokens /\ t1 # Close("message")
      /\ t2 \in Tokens /\ t2 # Close("message")
      /\ t3 \in Tokens /\ t3 # Close("message")
      /\ t4 \in Tokens /\ t4 # Close("message")
  <2>1. t1 \in Tokens /\ t1 # Close("message")
    BY <1>0, TokenFacts DEF Open, Close
  <2>2. t2 \in Tokens /\ t2 # Close("message")
    BY <1>0, TokenFacts DEF Open, Close
  <2>3. t3 \in Tokens /\ t3 # Close("message")
    BY <1>0, TokenFacts DEF Close
  <2>4. t4 \in Tokens /\ t4 # Close("message")
    BY <1>0, TokenFacts DEF Close
  <2> QED
    BY <2>1, <2>2, <2>3, <2>4
<1>2. v \in Seq(Tokens) /\ Len(v) = 4
      /\ v[1] = t1 /\ v[2] = t2 /\ v[3] = t3 /\ v[4] = t4
  <2> HIDE DEF t1, t2, t3, t4
  <2> QED
    BY <1>1
<1>4. ASSUME NEW s \in Sessions, Clean(s)
      PROVE  At(All(s, v), {}, << >>, << >>, << >>, << >>, s.queue)
  <2> DEFINE r == Readings(s, v)
  <2> HIDE DEF v
  <2>1. r[0] = s /\ \A i \in 1 .. 4 : r[i] = Parse(r[i - 1], v[i])
    <3>1. v \in Seq(Tokens)
      BY <1>2
    <3>2. r[0] = s /\ \A i \in 1 .. Len(v) : r[i] = Parse(r[i - 1], v[i])
      BY <3>1, Unfold
    <3> QED
      BY <1>2, <3>2
  <2> HIDE DEF r
  <2>2. /\ r[1] = Parse(r[0], t1)
        /\ r[2] = Parse(r[1], t2)
        /\ r[3] = Parse(r[2], t3)
        /\ r[4] = Parse(r[3], t4)
    <3> HIDE DEF t1, t2, t3, t4
    <3>1. r[1] = Parse(r[0], t1)
      BY <1>2, <2>1
    <3>2. r[2] = Parse(r[1], t2)
      BY <1>2, <2>1
    <3>3. r[3] = Parse(r[2], t3)
      BY <1>2, <2>1
    <3>4. r[4] = Parse(r[3], t4)
      BY <1>2, <2>1
    <3> QED
      BY <3>1, <3>2, <3>3, <3>4
  <2>3. At(r[0], {}, << >>, << >>, << >>, << >>, s.queue)
    BY <1>4, <2>1 DEF Clean, At
  <2>4. At(r[1], {"iq"}, << >>, << >>, << >>, << >>, s.queue)
    <3>1. {} \cup {"iq"} = {"iq"}
      OBVIOUS
    <3>2. "error" \in Values
      BY <1>0
    <3>3. At(Parse(r[0], t1), {} \cup {"iq"}, << >>, << >>, << >>, << >>, s.queue)
      BY <3>2, <2>3, OpenIq DEF t1
    <3> HIDE DEF t1
    <3> QED
      BY <2>2, <3>1, <3>3
  <2>5. At(r[2], {"iq", "error"}, << >>, << >>, << >>, <<n>>, s.queue)
    <3>1. {"iq"} \cup {"error"} = {"iq", "error"}
      OBVIOUS
    <3>2. Append(<< >>, n) = <<n>>
      BY <1>0, FirstValues
    <3>3. n \in Values
      BY <1>0
    <3>4. At(Parse(r[1], t2), {"iq"} \cup {"error"}, << >>, << >>, << >>, Append(<< >>, n), s.queue)
      BY <3>3, <2>4, OpenError DEF t2
    <3> HIDE DEF t2
    <3> QED
      BY <2>2, <3>1, <3>2, <3>4
  <2>6. At(r[3], {"iq"}, << >>, << >>, << >>, <<n>>, s.queue)
    <3>1. {"iq", "error"} \ {"error"} = {"iq"}
      OBVIOUS
    <3>2. At(Parse(r[2], t3), {"iq", "error"} \ {"error"}, << >>, << >>, << >>, <<n>>, s.queue)
      BY <2>5, CloseOther DEF t3
    <3> HIDE DEF t3
    <3> QED
      BY <2>2, <3>1, <3>2
  <2>7. At(r[4], {}, << >>, << >>, << >>, << >>, s.queue)
    <3>1. {"iq"} \ {"iq"} = {}
      OBVIOUS
    <3>2. "iq" \in {"iq"}
      OBVIOUS
    <3>3. At(Parse(r[3], t4), {"iq"} \ {"iq"}, << >>, << >>, << >>, << >>, s.queue)
      BY <2>6, CloseStanza, <3>2 DEF t4
    <3> HIDE DEF t4
    <3> QED
      BY <2>2, <3>1, <3>2, <3>3
  <2> QED
    BY <1>2, <2>7 DEF All, r
<1>5. \A i \in 1 .. Len(v) : v[i] # Close("message")
  <2> HIDE DEF v, t1, t2, t3, t4
  <2> QED
    BY <1>1, <1>2
<1> HIDE DEF v
<1> QED
  BY <1>2, <1>4, <1>5, NoMessage DEF v

\* It ends the stream with an error.
LEMMA ErrorAdds ==
    /\ <<Open("stream:error", 0), Text(0), Close("stream:error")>> \in Seq(Tokens)
    /\ Adds(<<Open("stream:error", 0), Text(0), Close("stream:error")>>, << >>)
<1> DEFINE t1 == Open("stream:error", 0)
           t2 == Text(0)
           t3 == Close("stream:error")
           v == <<t1, t2, t3>>
<1>0. /\ 0 \in Values
      /\ "stream:error" \in TagNames
  BY DEF Values, TagNames, Elements
<1>1. /\ t1 \in Tokens /\ t1 # Close("message")
      /\ t2 \in Tokens /\ t2 # Close("message")
      /\ t3 \in Tokens /\ t3 # Close("message")
  <2>1. t1 \in Tokens /\ t1 # Close("message")
    BY <1>0, TokenFacts DEF Open, Close
  <2>2. t2 \in Tokens /\ t2 # Close("message")
    <3>1. "text" \in TagNames
      BY DEF TagNames
    <3> QED
      BY <1>0, <3>1, TokenFacts DEF Text, Close
  <2>3. t3 \in Tokens /\ t3 # Close("message")
    BY <1>0, TokenFacts DEF Close
  <2> QED
    BY <2>1, <2>2, <2>3
<1>2. v \in Seq(Tokens) /\ Len(v) = 3
      /\ v[1] = t1 /\ v[2] = t2 /\ v[3] = t3
  <2> HIDE DEF t1, t2, t3
  <2> QED
    BY <1>1
<1>4. ASSUME NEW s \in Sessions, Clean(s)
      PROVE  At(All(s, v), {}, << >>, << >>, << >>, << >>, s.queue)
  <2> DEFINE r == Readings(s, v)
  <2> HIDE DEF v
  <2>1. r[0] = s /\ \A i \in 1 .. 3 : r[i] = Parse(r[i - 1], v[i])
    <3>1. v \in Seq(Tokens)
      BY <1>2
    <3>2. r[0] = s /\ \A i \in 1 .. Len(v) : r[i] = Parse(r[i - 1], v[i])
      BY <3>1, Unfold
    <3> QED
      BY <1>2, <3>2
  <2> HIDE DEF r
  <2>2. /\ r[1] = Parse(r[0], t1)
        /\ r[2] = Parse(r[1], t2)
        /\ r[3] = Parse(r[2], t3)
    <3> HIDE DEF t1, t2, t3
    <3>1. r[1] = Parse(r[0], t1)
      BY <1>2, <2>1
    <3>2. r[2] = Parse(r[1], t2)
      BY <1>2, <2>1
    <3>3. r[3] = Parse(r[2], t3)
      BY <1>2, <2>1
    <3> QED
      BY <3>1, <3>2, <3>3
  <2>3. At(r[0], {}, << >>, << >>, << >>, << >>, s.queue)
    BY <1>4, <2>1 DEF Clean, At
  <2>4. At(r[1], {"stream:error"}, << >>, << >>, << >>, << >>, s.queue)
    <3>1. {} \cup {"stream:error"} = {"stream:error"}
      OBVIOUS
    <3>2. 0 \in Values
      BY <1>0
    <3>3. At(Parse(r[0], t1), {} \cup {"stream:error"}, << >>, << >>, << >>, << >>, s.queue)
      BY <3>2, <2>3, OpenStreamError DEF t1
    <3> HIDE DEF t1
    <3> QED
      BY <2>2, <3>1, <3>3
  <2>5. At(r[2], {"stream:error"}, << >>, << >>, << >>, << >>, s.queue)
    <3>1. ~({"message", "body"} \subseteq {"stream:error"})
      OBVIOUS
    <3>2. ~({"message", "thread"} \subseteq {"stream:error"})
      OBVIOUS
    <3>3. 0 \in Values
      BY <1>0
    <3>4. At(Parse(r[1], t2), {"stream:error"}, << >>,
            IF {"message", "body"} \subseteq {"stream:error"} THEN Append(<< >>, 0) ELSE << >>,
            IF {"message", "thread"} \subseteq {"stream:error"} THEN Append(<< >>, 0) ELSE << >>,
            << >>, s.queue)
      BY <3>3, <2>4, ReadText DEF t2
    <3> HIDE DEF t2
    <3> QED
      BY <2>2, <3>1, <3>2, <3>4
  <2>6. At(r[3], {}, << >>, << >>, << >>, << >>, s.queue)
    <3>1. {"stream:error"} \ {"stream:error"} = {}
      OBVIOUS
    <3>2. At(Parse(r[2], t3), {"stream:error"} \ {"stream:error"}, << >>, << >>, << >>, << >>, s.queue)
      BY <2>5, CloseOther DEF t3
    <3> HIDE DEF t3
    <3> QED
      BY <2>2, <3>1, <3>2
  <2> QED
    BY <1>2, <2>6 DEF All, r
<1>5. \A i \in 1 .. Len(v) : v[i] # Close("message")
  <2> HIDE DEF v, t1, t2, t3
  <2> QED
    BY <1>1, <1>2
<1> HIDE DEF v
<1> QED
  BY <1>2, <1>4, <1>5, NoMessage DEF v

\* A presence is passed over.
LEMMA PresenceAdds ==
    /\ <<Open("presence", 0), Open("status", 0), Text(0), Close("status"), Close("presence")>> \in Seq(Tokens)
    /\ Adds(<<Open("presence", 0), Open("status", 0), Text(0), Close("status"), Close("presence")>>, << >>)
<1> DEFINE t1 == Open("presence", 0)
           t2 == Open("status", 0)
           t3 == Text(0)
           t4 == Close("status")
           t5 == Close("presence")
           v == <<t1, t2, t3, t4, t5>>
<1>0. /\ 0 \in Values
      /\ "presence" \in TagNames
      /\ "status" \in TagNames
  BY DEF Values, TagNames, Elements
<1>1. /\ t1 \in Tokens /\ t1 # Close("message")
      /\ t2 \in Tokens /\ t2 # Close("message")
      /\ t3 \in Tokens /\ t3 # Close("message")
      /\ t4 \in Tokens /\ t4 # Close("message")
      /\ t5 \in Tokens /\ t5 # Close("message")
  <2>1. t1 \in Tokens /\ t1 # Close("message")
    BY <1>0, TokenFacts DEF Open, Close
  <2>2. t2 \in Tokens /\ t2 # Close("message")
    BY <1>0, TokenFacts DEF Open, Close
  <2>3. t3 \in Tokens /\ t3 # Close("message")
    <3>1. "text" \in TagNames
      BY DEF TagNames
    <3> QED
      BY <1>0, <3>1, TokenFacts DEF Text, Close
  <2>4. t4 \in Tokens /\ t4 # Close("message")
    BY <1>0, TokenFacts DEF Close
  <2>5. t5 \in Tokens /\ t5 # Close("message")
    BY <1>0, TokenFacts DEF Close
  <2> QED
    BY <2>1, <2>2, <2>3, <2>4, <2>5
<1>2. v \in Seq(Tokens) /\ Len(v) = 5
      /\ v[1] = t1 /\ v[2] = t2 /\ v[3] = t3 /\ v[4] = t4 /\ v[5] = t5
  <2> HIDE DEF t1, t2, t3, t4, t5
  <2> QED
    BY <1>1
<1>4. ASSUME NEW s \in Sessions, Clean(s)
      PROVE  At(All(s, v), {}, << >>, << >>, << >>, << >>, s.queue)
  <2> DEFINE r == Readings(s, v)
  <2> HIDE DEF v
  <2>1. r[0] = s /\ \A i \in 1 .. 5 : r[i] = Parse(r[i - 1], v[i])
    <3>1. v \in Seq(Tokens)
      BY <1>2
    <3>2. r[0] = s /\ \A i \in 1 .. Len(v) : r[i] = Parse(r[i - 1], v[i])
      BY <3>1, Unfold
    <3> QED
      BY <1>2, <3>2
  <2> HIDE DEF r
  <2>2. /\ r[1] = Parse(r[0], t1)
        /\ r[2] = Parse(r[1], t2)
        /\ r[3] = Parse(r[2], t3)
        /\ r[4] = Parse(r[3], t4)
        /\ r[5] = Parse(r[4], t5)
    <3> HIDE DEF t1, t2, t3, t4, t5
    <3>1. r[1] = Parse(r[0], t1)
      BY <1>2, <2>1
    <3>2. r[2] = Parse(r[1], t2)
      BY <1>2, <2>1
    <3>3. r[3] = Parse(r[2], t3)
      BY <1>2, <2>1
    <3>4. r[4] = Parse(r[3], t4)
      BY <1>2, <2>1
    <3>5. r[5] = Parse(r[4], t5)
      BY <1>2, <2>1
    <3> QED
      BY <3>1, <3>2, <3>3, <3>4, <3>5
  <2>3. At(r[0], {}, << >>, << >>, << >>, << >>, s.queue)
    BY <1>4, <2>1 DEF Clean, At
  <2>4. At(r[1], {"presence"}, <<0>>, << >>, << >>, << >>, s.queue)
    <3>1. {} \cup {"presence"} = {"presence"}
      OBVIOUS
    <3>2. Append(<< >>, 0) = <<0>>
      BY <1>0, FirstValues
    <3>3. 0 \in Values
      BY <1>0
    <3>4. At(Parse(r[0], t1), {} \cup {"presence"}, Append(<< >>, 0), << >>, << >>, << >>, s.queue)
      BY <3>3, <2>3, OpenPresence DEF t1
    <3> HIDE DEF t1
    <3> QED
      BY <2>2, <3>1, <3>2, <3>4
  <2>5. At(r[2], {"presence"}, <<0>>, << >>, << >>, << >>, s.queue)
    <3>1. 0 \in Values
      BY <1>0
    <3>2. At(Parse(r[1], t2), {"presence"}, <<0>>, << >>, << >>, << >>, s.queue)
      BY <3>1, <2>4, OpenOther DEF t2
    <3> HIDE DEF t2
    <3> QED
      BY <2>2, <3>2
  <2>6. At(r[3], {"presence"}, <<0>>, << >>, << >>, << >>, s.queue)
    <3>1. ~({"message", "body"} \subseteq {"presence"})
      OBVIOUS
    <3>2. ~({"message", "thread"} \subseteq {"presence"})
      OBVIOUS
    <3>3. 0 \in Values
      BY <1>0
    <3>4. At(Parse(r[2], t3), {"presence"}, <<0>>,
            IF {"message", "body"} \subseteq {"presence"} THEN Append(<< >>, 0) ELSE << >>,
            IF {"message", "thread"} \subseteq {"presence"} THEN Append(<< >>, 0) ELSE << >>, << >>,
            s.queue)
      BY <3>3, <2>5, ReadText DEF t3
    <3> HIDE DEF t3
    <3> QED
      BY <2>2, <3>1, <3>2, <3>4
  <2>7. At(r[4], {"presence"}, <<0>>, << >>, << >>, << >>, s.queue)
    <3>1. {"presence"} \ {"status"} = {"presence"}
      OBVIOUS
    <3>2. At(Parse(r[3], t4), {"presence"} \ {"status"}, <<0>>, << >>, << >>, << >>, s.queue)
      BY <2>6, CloseOther DEF t4
    <3> HIDE DEF t4
    <3> QED
      BY <2>2, <3>1, <3>2
  <2>8. At(r[5], {}, << >>, << >>, << >>, << >>, s.queue)
    <3>1. {"presence"} \ {"presence"} = {}
      OBVIOUS
    <3>2. "presence" \in {"presence"}
      OBVIOUS
    <3>3. At(Parse(r[4], t5), {"presence"} \ {"presence"}, << >>, << >>, << >>, << >>, s.queue)
      BY <2>7, CloseStanza, <3>2 DEF t5
    <3> HIDE DEF t5
    <3> QED
      BY <2>2, <3>1, <3>2, <3>3
  <2> QED
    BY <1>2, <2>8 DEF All, r
<1>5. \A i \in 1 .. Len(v) : v[i] # Close("message")
  <2> HIDE DEF v, t1, t2, t3, t4, t5
  <2> QED
    BY <1>1, <1>2
<1> HIDE DEF v
<1> QED
  BY <1>2, <1>4, <1>5, NoMessage DEF v

\* A message is added as it was sent.
LEMMA MessageAdds ==
    ASSUME NEW n \in Values
    PROVE  Tags(n, FALSE) \in Seq(Tokens)
           /\ Adds(Tags(n, FALSE), <<[from |-> <<n>>, body |-> <<n>>, thread |-> <<n, n>>,
                isError |-> FALSE]>>)
<1> DEFINE t1 == Open("message", n)
           t2 == Open("body", 0)
           t3 == Text(n)
           t4 == Close("body")
           t5 == Open("thread", 0)
           t6 == Text(n)
           t7 == Text(n)
           t8 == Close("thread")
           t9 == Close("message")
           v == <<t1, t2, t3, t4, t5, t6, t7, t8, t9>>
<1>b. [from |-> <<n>>, body |-> <<n>>, thread |-> <<n, n>>, isError |-> FALSE] \in Messages /\ <<n>> # << >>
  <2>1. <<n>> \in Seq(Values) /\ <<n, n>> \in Seq(Values) /\ Len(<<n>>) = 1
    OBVIOUS
  <2> QED
    BY <2>1 DEF Messages
<1>0. /\ n \in Values
      /\ 0 \in Values
      /\ "message" \in TagNames
      /\ "body" \in TagNames
      /\ "thread" \in TagNames
  BY DEF Values, TagNames, Elements
<1>1. /\ t1 \in Tokens /\ t1 # Close("message")
      /\ t2 \in Tokens /\ t2 # Close("message")
      /\ t3 \in Tokens /\ t3 # Close("message")
      /\ t4 \in Tokens /\ t4 # Close("message")
      /\ t5 \in Tokens /\ t5 # Close("message")
      /\ t6 \in Tokens /\ t6 # Close("message")
      /\ t7 \in Tokens /\ t7 # Close("message")
      /\ t8 \in Tokens /\ t8 # Close("message")
      /\ t9 \in Tokens
  <2>1. t1 \in Tokens /\ t1 # Close("message")
    BY <1>0, TokenFacts DEF Open, Close
  <2>2. t2 \in Tokens /\ t2 # Close("message")
    BY <1>0, TokenFacts DEF Open, Close
  <2>3. t3 \in Tokens /\ t3 # Close("message")
    <3>1. "text" \in TagNames
      BY DEF TagNames
    <3> QED
      BY <1>0, <3>1, TokenFacts DEF Text, Close
  <2>4. t4 \in Tokens /\ t4 # Close("message")
    BY <1>0, TokenFacts DEF Close
  <2>5. t5 \in Tokens /\ t5 # Close("message")
    BY <1>0, TokenFacts DEF Open, Close
  <2>6. t6 \in Tokens /\ t6 # Close("message")
    <3>1. "text" \in TagNames
      BY DEF TagNames
    <3> QED
      BY <1>0, <3>1, TokenFacts DEF Text, Close
  <2>7. t7 \in Tokens /\ t7 # Close("message")
    <3>1. "text" \in TagNames
      BY DEF TagNames
    <3> QED
      BY <1>0, <3>1, TokenFacts DEF Text, Close
  <2>8. t8 \in Tokens /\ t8 # Close("message")
    BY <1>0, TokenFacts DEF Close
  <2>9. t9 \in Tokens
    BY <1>0, TokenFacts
  <2> QED
    BY <2>1, <2>2, <2>3, <2>4, <2>5, <2>6, <2>7, <2>8, <2>9
<1>2. v \in Seq(Tokens) /\ Len(v) = 9
      /\ v[1] = t1 /\ v[2] = t2 /\ v[3] = t3 /\ v[4] = t4 /\ v[5] = t5 /\ v[6] = t6 /\ v[7] = t7
           /\ v[8] = t8 /\ v[9] = t9
  <2> HIDE DEF t1, t2, t3, t4, t5, t6, t7, t8, t9
  <2> QED
    BY <1>1
<1>3. Tags(n, FALSE) = v
  <2> DEFINE x == <<t1, t2, t3, t4, t5, t6>>
             y == <<t7, t8>>
  <2>1. Tags(n, FALSE) = (x \o y) \o <<t9>>
    BY DEF Tags
  <2> HIDE DEF t1, t2, t3, t4, t5, t6, t7, t8, t9
  <2>2. v = x \o (y \o <<t9>>) /\ x \in Seq(Tokens) /\ y \in Seq(Tokens) /\ <<t9>> \in Seq(Tokens)
    BY <1>1
  <2>3. (x \o y) \o <<t9>> = v
    <3> HIDE DEF x, y, v
    <3> QED
      BY <2>2, JoinThree
  <2> QED
    BY <2>1, <2>3
<1>4. ASSUME NEW s \in Sessions, Clean(s)
      PROVE  /\ At(All(s, v), {}, << >>, << >>, << >>, << >>,
                  Append(s.queue, [from |-> <<n>>, body |-> <<n>>, thread |-> <<n, n>>,
                  isError |-> FALSE]))
             /\ "message" \in Readings(s, v)[8].in
  <2> DEFINE r == Readings(s, v)
  <2> HIDE DEF v
  <2>1. r[0] = s /\ \A i \in 1 .. 9 : r[i] = Parse(r[i - 1], v[i])
    <3>1. v \in Seq(Tokens)
      BY <1>2
    <3>2. r[0] = s /\ \A i \in 1 .. Len(v) : r[i] = Parse(r[i - 1], v[i])
      BY <3>1, Unfold
    <3> QED
      BY <1>2, <3>2
  <2> HIDE DEF r
  <2>2. /\ r[1] = Parse(r[0], t1)
        /\ r[2] = Parse(r[1], t2)
        /\ r[3] = Parse(r[2], t3)
        /\ r[4] = Parse(r[3], t4)
        /\ r[5] = Parse(r[4], t5)
        /\ r[6] = Parse(r[5], t6)
        /\ r[7] = Parse(r[6], t7)
        /\ r[8] = Parse(r[7], t8)
        /\ r[9] = Parse(r[8], t9)
    <3> HIDE DEF t1, t2, t3, t4, t5, t6, t7, t8, t9
    <3>1. r[1] = Parse(r[0], t1)
      BY <1>2, <2>1
    <3>2. r[2] = Parse(r[1], t2)
      BY <1>2, <2>1
    <3>3. r[3] = Parse(r[2], t3)
      BY <1>2, <2>1
    <3>4. r[4] = Parse(r[3], t4)
      BY <1>2, <2>1
    <3>5. r[5] = Parse(r[4], t5)
      BY <1>2, <2>1
    <3>6. r[6] = Parse(r[5], t6)
      BY <1>2, <2>1
    <3>7. r[7] = Parse(r[6], t7)
      BY <1>2, <2>1
    <3>8. r[8] = Parse(r[7], t8)
      BY <1>2, <2>1
    <3>9. r[9] = Parse(r[8], t9)
      BY <1>2, <2>1
    <3> QED
      BY <3>1, <3>2, <3>3, <3>4, <3>5, <3>6, <3>7, <3>8, <3>9
  <2>3. At(r[0], {}, << >>, << >>, << >>, << >>, s.queue)
    BY <1>4, <2>1 DEF Clean, At
  <2>4. At(r[1], {"message"}, <<n>>, << >>, << >>, << >>, s.queue)
    <3>1. {} \cup {"message"} = {"message"}
      OBVIOUS
    <3>2. Append(<< >>, n) = <<n>>
      BY <1>0, FirstValues
    <3>3. n \in Values
      BY <1>0
    <3>4. At(Parse(r[0], t1), {} \cup {"message"}, Append(<< >>, n), << >>, << >>, << >>, s.queue)
      BY <3>3, <2>3, OpenMessage DEF t1
    <3> HIDE DEF t1
    <3> QED
      BY <2>2, <3>1, <3>2, <3>4
  <2>5. At(r[2], {"message", "body"}, <<n>>, << >>, << >>, << >>, s.queue)
    <3>1. {"message"} \cup {"body"} = {"message", "body"}
      OBVIOUS
    <3>2. "message" \in {"message"}
      OBVIOUS
    <3>3. 0 \in Values
      BY <1>0
    <3>4. At(Parse(r[1], t2), {"message"} \cup {"body"}, <<n>>, << >>, << >>, << >>, s.queue)
      BY <3>3, <2>4, OpenPart, <3>2 DEF t2
    <3> HIDE DEF t2
    <3> QED
      BY <2>2, <3>1, <3>2, <3>4
  <2>6. At(r[3], {"message", "body"}, <<n>>, <<n>>, << >>, << >>, s.queue)
    <3>1. ({"message", "body"} \subseteq {"message", "body"})
      OBVIOUS
    <3>2. ~({"message", "thread"} \subseteq {"message", "body"})
      OBVIOUS
    <3>3. Append(<< >>, n) = <<n>>
      BY <1>0, FirstValues
    <3>4. n \in Values
      BY <1>0
    <3>5. At(Parse(r[2], t3), {"message", "body"}, <<n>>,
            IF {"message", "body"} \subseteq {"message", "body"} THEN Append(<< >>, n) ELSE << >>,
            IF {"message", "thread"} \subseteq {"message", "body"} THEN Append(<< >>, n) ELSE << >>,
            << >>, s.queue)
      BY <3>4, <2>5, ReadText DEF t3
    <3> HIDE DEF t3
    <3> QED
      BY <2>2, <3>1, <3>2, <3>3, <3>5
  <2>7. At(r[4], {"message"}, <<n>>, <<n>>, << >>, << >>, s.queue)
    <3>1. {"message", "body"} \ {"body"} = {"message"}
      OBVIOUS
    <3>2. At(Parse(r[3], t4), {"message", "body"} \ {"body"}, <<n>>, <<n>>, << >>, << >>, s.queue)
      BY <2>6, CloseOther DEF t4
    <3> HIDE DEF t4
    <3> QED
      BY <2>2, <3>1, <3>2
  <2>8. At(r[5], {"message", "thread"}, <<n>>, <<n>>, << >>, << >>, s.queue)
    <3>1. {"message"} \cup {"thread"} = {"message", "thread"}
      OBVIOUS
    <3>2. "message" \in {"message"}
      OBVIOUS
    <3>3. 0 \in Values
      BY <1>0
    <3>4. At(Parse(r[4], t5), {"message"} \cup {"thread"}, <<n>>, <<n>>, << >>, << >>, s.queue)
      BY <3>3, <2>7, OpenPart, <3>2 DEF t5
    <3> HIDE DEF t5
    <3> QED
      BY <2>2, <3>1, <3>2, <3>4
  <2>9. At(r[6], {"message", "thread"}, <<n>>, <<n>>, <<n>>, << >>, s.queue)
    <3>1. ~({"message", "body"} \subseteq {"message", "thread"})
      OBVIOUS
    <3>2. ({"message", "thread"} \subseteq {"message", "thread"})
      OBVIOUS
    <3>3. Append(<< >>, n) = <<n>>
      BY <1>0, FirstValues
    <3>4. n \in Values
      BY <1>0
    <3>5. At(Parse(r[5], t6), {"message", "thread"}, <<n>>,
            IF {"message", "body"} \subseteq {"message", "thread"} THEN Append(<<n>>, n) ELSE <<n>>,
            IF {"message", "thread"} \subseteq {"message", "thread"} THEN Append(<< >>,
            n) ELSE << >>, << >>, s.queue)
      BY <3>4, <2>8, ReadText DEF t6
    <3> HIDE DEF t6
    <3> QED
      BY <2>2, <3>1, <3>2, <3>3, <3>5
  <2>10. At(r[7], {"message", "thread"}, <<n>>, <<n>>, <<n, n>>, << >>, s.queue)
    <3>1. ~({"message", "body"} \subseteq {"message", "thread"})
      OBVIOUS
    <3>2. ({"message", "thread"} \subseteq {"message", "thread"})
      OBVIOUS
    <3>3. Append(<<n>>, n) = <<n, n>>
      BY <1>0, FirstValues
    <3>4. n \in Values
      BY <1>0
    <3>5. At(Parse(r[6], t7), {"message", "thread"}, <<n>>,
            IF {"message", "body"} \subseteq {"message", "thread"} THEN Append(<<n>>, n) ELSE <<n>>,
            IF {"message", "thread"} \subseteq {"message", "thread"} THEN Append(<<n>>,
            n) ELSE <<n>>, << >>, s.queue)
      BY <3>4, <2>9, ReadText DEF t7
    <3> HIDE DEF t7
    <3> QED
      BY <2>2, <3>1, <3>2, <3>3, <3>5
  <2>11. At(r[8], {"message"}, <<n>>, <<n>>, <<n, n>>, << >>, s.queue)
    <3>1. {"message", "thread"} \ {"thread"} = {"message"}
      OBVIOUS
    <3>2. At(Parse(r[7], t8), {"message", "thread"} \ {"thread"}, <<n>>, <<n>>, <<n, n>>, << >>, s.queue)
      BY <2>10, CloseOther DEF t8
    <3> HIDE DEF t8
    <3> QED
      BY <2>2, <3>1, <3>2
  <2>12. At(r[9], {}, << >>, << >>, << >>, << >>,
           Append(s.queue, [from |-> <<n>>, body |-> <<n>>, thread |-> <<n, n>>, isError |-> FALSE]))
    <3>1. {"message"} \ {"message"} = {}
      OBVIOUS
    <3>2. "message" \in {"message"}
      OBVIOUS
    <3>3. [from |-> <<n>>, body |-> <<n>>, thread |-> <<n, n>>, isError |-> << >> # << >>] =
            [from |-> <<n>>, body |-> <<n>>, thread |-> <<n, n>>, isError |-> FALSE]
      BY <1>0, <1>b
    <3>4. At(Parse(r[8], t9), {"message"} \ {"message"}, << >>, << >>, << >>, << >>,
            Append(s.queue, [from |-> <<n>>, body |-> <<n>>, thread |-> <<n, n>>,
            isError |-> << >> # << >>]))
      BY <2>11, CloseMessage, <3>2 DEF t9
    <3> HIDE DEF t9
    <3> QED
      BY <2>2, <3>1, <3>2, <3>3, <3>4
  <2>13. "message" \in r[8].in
    BY <2>11 DEF At
  <2> QED
    BY <1>2, <2>12, <2>13 DEF All, r
<1> HIDE DEF v
<1>5. ASSUME NEW s \in Sessions, Clean(s)
      PROVE  Matched(s, v) /\ Clean(All(s, v)) /\ All(s, v) \in Sessions
             /\ All(s, v).queue = s.queue \o <<[from |-> <<n>>, body |-> <<n>>, thread |-> <<n, n>>,
                  isError |-> FALSE]>>
  <2>1. s.queue \o <<[from |-> <<n>>, body |-> <<n>>, thread |-> <<n, n>>, isError |-> FALSE]>> =
          Append(s.queue, [from |-> <<n>>, body |-> <<n>>, thread |-> <<n, n>>, isError |-> FALSE])
    <3>1. s.queue \in Seq(Messages)
            /\ [from |-> <<n>>, body |-> <<n>>, thread |-> <<n, n>>, isError |-> FALSE] \in Messages
      BY <1>0, <1>b DEF Sessions
    <3> DEFINE m == [from |-> <<n>>, body |-> <<n>>, thread |-> <<n, n>>, isError |-> FALSE]
    <3> HIDE DEF m
    <3> QED
      BY <3>1 DEF m
  <2>2. Matched(s, v)
    <3>1. SUFFICES ASSUME NEW i \in 1 .. 9, v[i] = Close("message")
                   PROVE  "message" \in Readings(s, v)[i - 1].in
      BY <1>2 DEF Matched
    <3>2. i = 9
      <4> HIDE DEF t1, t2, t3, t4, t5, t6, t7, t8, t9
      <4> QED
        BY <1>1, <1>2, <3>1
    <3> QED
      BY <1>4, <1>5, <3>2
  <2>3. Clean(All(s, v)) /\ All(s, v) \in Sessions
          /\ All(s, v).queue = Append(s.queue,
          [from |-> <<n>>, body |-> <<n>>, thread |-> <<n, n>>, isError |-> FALSE])
    BY <1>4, <1>5 DEF At, Clean
  <2> QED
    BY <2>1, <2>2, <2>3
<1>6. Adds(v, <<[from |-> <<n>>, body |-> <<n>>, thread |-> <<n, n>>, isError |-> FALSE]>>)
  BY <1>5 DEF Adds
<1> QED
  BY <1>2, <1>3, <1>6 DEF v

\* So is one that comes back as an error.
LEMMA ErrorMessageAdds ==
    ASSUME NEW n \in Values
    PROVE  Tags(n, TRUE) \in Seq(Tokens)
           /\ Adds(Tags(n, TRUE), <<[from |-> <<n>>, body |-> <<n>>, thread |-> <<n>>, isError |-> TRUE]>>)
<1> DEFINE t1 == Open("message", n)
           t2 == Open("body", 0)
           t3 == Text(n)
           t4 == Close("body")
           t5 == Open("thread", 0)
           t6 == Text(n)
           t7 == Close("thread")
           t8 == Open("error", n)
           t9 == Close("error")
           t10 == Close("message")
           v == <<t1, t2, t3, t4, t5, t6, t7, t8, t9, t10>>
<1>b. [from |-> <<n>>, body |-> <<n>>, thread |-> <<n>>, isError |-> TRUE] \in Messages /\ <<n>> # << >>
  <2>1. <<n>> \in Seq(Values) /\ <<n, n>> \in Seq(Values) /\ Len(<<n>>) = 1
    OBVIOUS
  <2> QED
    BY <2>1 DEF Messages
<1>0. /\ n \in Values
      /\ 0 \in Values
      /\ "message" \in TagNames
      /\ "body" \in TagNames
      /\ "thread" \in TagNames
      /\ "error" \in TagNames
  BY DEF Values, TagNames, Elements
<1>1. /\ t1 \in Tokens /\ t1 # Close("message")
      /\ t2 \in Tokens /\ t2 # Close("message")
      /\ t3 \in Tokens /\ t3 # Close("message")
      /\ t4 \in Tokens /\ t4 # Close("message")
      /\ t5 \in Tokens /\ t5 # Close("message")
      /\ t6 \in Tokens /\ t6 # Close("message")
      /\ t7 \in Tokens /\ t7 # Close("message")
      /\ t8 \in Tokens /\ t8 # Close("message")
      /\ t9 \in Tokens /\ t9 # Close("message")
      /\ t10 \in Tokens
  <2>1. t1 \in Tokens /\ t1 # Close("message")
    BY <1>0, TokenFacts DEF Open, Close
  <2>2. t2 \in Tokens /\ t2 # Close("message")
    BY <1>0, TokenFacts DEF Open, Close
  <2>3. t3 \in Tokens /\ t3 # Close("message")
    <3>1. "text" \in TagNames
      BY DEF TagNames
    <3> QED
      BY <1>0, <3>1, TokenFacts DEF Text, Close
  <2>4. t4 \in Tokens /\ t4 # Close("message")
    BY <1>0, TokenFacts DEF Close
  <2>5. t5 \in Tokens /\ t5 # Close("message")
    BY <1>0, TokenFacts DEF Open, Close
  <2>6. t6 \in Tokens /\ t6 # Close("message")
    <3>1. "text" \in TagNames
      BY DEF TagNames
    <3> QED
      BY <1>0, <3>1, TokenFacts DEF Text, Close
  <2>7. t7 \in Tokens /\ t7 # Close("message")
    BY <1>0, TokenFacts DEF Close
  <2>8. t8 \in Tokens /\ t8 # Close("message")
    BY <1>0, TokenFacts DEF Open, Close
  <2>9. t9 \in Tokens /\ t9 # Close("message")
    BY <1>0, TokenFacts DEF Close
  <2>10. t10 \in Tokens
    BY <1>0, TokenFacts
  <2> QED
    BY <2>1, <2>2, <2>3, <2>4, <2>5, <2>6, <2>7, <2>8, <2>9, <2>10
<1>2. v \in Seq(Tokens) /\ Len(v) = 10
      /\ v[1] = t1 /\ v[2] = t2 /\ v[3] = t3 /\ v[4] = t4 /\ v[5] = t5 /\ v[6] = t6 /\ v[7] = t7
           /\ v[8] = t8 /\ v[9] = t9 /\ v[10] = t10
  <2> HIDE DEF t1, t2, t3, t4, t5, t6, t7, t8, t9, t10
  <2> QED
    BY <1>1
<1>3. Tags(n, TRUE) = v
  <2> DEFINE x == <<t1, t2, t3, t4, t5, t6>>
             y == <<t7, t8, t9>>
  <2>1. Tags(n, TRUE) = (x \o y) \o <<t10>>
    BY DEF Tags
  <2> HIDE DEF t1, t2, t3, t4, t5, t6, t7, t8, t9, t10
  <2>2. v = x \o (y \o <<t10>>) /\ x \in Seq(Tokens) /\ y \in Seq(Tokens) /\ <<t10>> \in Seq(Tokens)
    BY <1>1
  <2>3. (x \o y) \o <<t10>> = v
    <3> HIDE DEF x, y, v
    <3> QED
      BY <2>2, JoinThree
  <2> QED
    BY <2>1, <2>3
<1>4. ASSUME NEW s \in Sessions, Clean(s)
      PROVE  /\ At(All(s, v), {}, << >>, << >>, << >>, << >>,
                  Append(s.queue, [from |-> <<n>>, body |-> <<n>>, thread |-> <<n>>, isError |-> TRUE]))
             /\ "message" \in Readings(s, v)[9].in
  <2> DEFINE r == Readings(s, v)
  <2> HIDE DEF v
  <2>1. r[0] = s /\ \A i \in 1 .. 10 : r[i] = Parse(r[i - 1], v[i])
    <3>1. v \in Seq(Tokens)
      BY <1>2
    <3>2. r[0] = s /\ \A i \in 1 .. Len(v) : r[i] = Parse(r[i - 1], v[i])
      BY <3>1, Unfold
    <3> QED
      BY <1>2, <3>2
  <2> HIDE DEF r
  <2>2. /\ r[1] = Parse(r[0], t1)
        /\ r[2] = Parse(r[1], t2)
        /\ r[3] = Parse(r[2], t3)
        /\ r[4] = Parse(r[3], t4)
        /\ r[5] = Parse(r[4], t5)
        /\ r[6] = Parse(r[5], t6)
        /\ r[7] = Parse(r[6], t7)
        /\ r[8] = Parse(r[7], t8)
        /\ r[9] = Parse(r[8], t9)
        /\ r[10] = Parse(r[9], t10)
    <3> HIDE DEF t1, t2, t3, t4, t5, t6, t7, t8, t9, t10
    <3>1. r[1] = Parse(r[0], t1)
      BY <1>2, <2>1
    <3>2. r[2] = Parse(r[1], t2)
      BY <1>2, <2>1
    <3>3. r[3] = Parse(r[2], t3)
      BY <1>2, <2>1
    <3>4. r[4] = Parse(r[3], t4)
      BY <1>2, <2>1
    <3>5. r[5] = Parse(r[4], t5)
      BY <1>2, <2>1
    <3>6. r[6] = Parse(r[5], t6)
      BY <1>2, <2>1
    <3>7. r[7] = Parse(r[6], t7)
      BY <1>2, <2>1
    <3>8. r[8] = Parse(r[7], t8)
      BY <1>2, <2>1
    <3>9. r[9] = Parse(r[8], t9)
      BY <1>2, <2>1
    <3>10. r[10] = Parse(r[9], t10)
      BY <1>2, <2>1
    <3> QED
      BY <3>1, <3>2, <3>3, <3>4, <3>5, <3>6, <3>7, <3>8, <3>9, <3>10
  <2>3. At(r[0], {}, << >>, << >>, << >>, << >>, s.queue)
    BY <1>4, <2>1 DEF Clean, At
  <2>4. At(r[1], {"message"}, <<n>>, << >>, << >>, << >>, s.queue)
    <3>1. {} \cup {"message"} = {"message"}
      OBVIOUS
    <3>2. Append(<< >>, n) = <<n>>
      BY <1>0, FirstValues
    <3>3. n \in Values
      BY <1>0
    <3>4. At(Parse(r[0], t1), {} \cup {"message"}, Append(<< >>, n), << >>, << >>, << >>, s.queue)
      BY <3>3, <2>3, OpenMessage DEF t1
    <3> HIDE DEF t1
    <3> QED
      BY <2>2, <3>1, <3>2, <3>4
  <2>5. At(r[2], {"message", "body"}, <<n>>, << >>, << >>, << >>, s.queue)
    <3>1. {"message"} \cup {"body"} = {"message", "body"}
      OBVIOUS
    <3>2. "message" \in {"message"}
      OBVIOUS
    <3>3. 0 \in Values
      BY <1>0
    <3>4. At(Parse(r[1], t2), {"message"} \cup {"body"}, <<n>>, << >>, << >>, << >>, s.queue)
      BY <3>3, <2>4, OpenPart, <3>2 DEF t2
    <3> HIDE DEF t2
    <3> QED
      BY <2>2, <3>1, <3>2, <3>4
  <2>6. At(r[3], {"message", "body"}, <<n>>, <<n>>, << >>, << >>, s.queue)
    <3>1. ({"message", "body"} \subseteq {"message", "body"})
      OBVIOUS
    <3>2. ~({"message", "thread"} \subseteq {"message", "body"})
      OBVIOUS
    <3>3. Append(<< >>, n) = <<n>>
      BY <1>0, FirstValues
    <3>4. n \in Values
      BY <1>0
    <3>5. At(Parse(r[2], t3), {"message", "body"}, <<n>>,
            IF {"message", "body"} \subseteq {"message", "body"} THEN Append(<< >>, n) ELSE << >>,
            IF {"message", "thread"} \subseteq {"message", "body"} THEN Append(<< >>, n) ELSE << >>,
            << >>, s.queue)
      BY <3>4, <2>5, ReadText DEF t3
    <3> HIDE DEF t3
    <3> QED
      BY <2>2, <3>1, <3>2, <3>3, <3>5
  <2>7. At(r[4], {"message"}, <<n>>, <<n>>, << >>, << >>, s.queue)
    <3>1. {"message", "body"} \ {"body"} = {"message"}
      OBVIOUS
    <3>2. At(Parse(r[3], t4), {"message", "body"} \ {"body"}, <<n>>, <<n>>, << >>, << >>, s.queue)
      BY <2>6, CloseOther DEF t4
    <3> HIDE DEF t4
    <3> QED
      BY <2>2, <3>1, <3>2
  <2>8. At(r[5], {"message", "thread"}, <<n>>, <<n>>, << >>, << >>, s.queue)
    <3>1. {"message"} \cup {"thread"} = {"message", "thread"}
      OBVIOUS
    <3>2. "message" \in {"message"}
      OBVIOUS
    <3>3. 0 \in Values
      BY <1>0
    <3>4. At(Parse(r[4], t5), {"message"} \cup {"thread"}, <<n>>, <<n>>, << >>, << >>, s.queue)
      BY <3>3, <2>7, OpenPart, <3>2 DEF t5
    <3> HIDE DEF t5
    <3> QED
      BY <2>2, <3>1, <3>2, <3>4
  <2>9. At(r[6], {"message", "thread"}, <<n>>, <<n>>, <<n>>, << >>, s.queue)
    <3>1. ~({"message", "body"} \subseteq {"message", "thread"})
      OBVIOUS
    <3>2. ({"message", "thread"} \subseteq {"message", "thread"})
      OBVIOUS
    <3>3. Append(<< >>, n) = <<n>>
      BY <1>0, FirstValues
    <3>4. n \in Values
      BY <1>0
    <3>5. At(Parse(r[5], t6), {"message", "thread"}, <<n>>,
            IF {"message", "body"} \subseteq {"message", "thread"} THEN Append(<<n>>, n) ELSE <<n>>,
            IF {"message", "thread"} \subseteq {"message", "thread"} THEN Append(<< >>,
            n) ELSE << >>, << >>, s.queue)
      BY <3>4, <2>8, ReadText DEF t6
    <3> HIDE DEF t6
    <3> QED
      BY <2>2, <3>1, <3>2, <3>3, <3>5
  <2>10. At(r[7], {"message"}, <<n>>, <<n>>, <<n>>, << >>, s.queue)
    <3>1. {"message", "thread"} \ {"thread"} = {"message"}
      OBVIOUS
    <3>2. At(Parse(r[6], t7), {"message", "thread"} \ {"thread"}, <<n>>, <<n>>, <<n>>, << >>, s.queue)
      BY <2>9, CloseOther DEF t7
    <3> HIDE DEF t7
    <3> QED
      BY <2>2, <3>1, <3>2
  <2>11. At(r[8], {"message", "error"}, <<n>>, <<n>>, <<n>>, <<n>>, s.queue)
    <3>1. {"message"} \cup {"error"} = {"message", "error"}
      OBVIOUS
    <3>2. Append(<< >>, n) = <<n>>
      BY <1>0, FirstValues
    <3>3. n \in Values
      BY <1>0
    <3>4. At(Parse(r[7], t8), {"message"} \cup {"error"}, <<n>>, <<n>>, <<n>>, Append(<< >>, n), s.queue)
      BY <3>3, <2>10, OpenError DEF t8
    <3> HIDE DEF t8
    <3> QED
      BY <2>2, <3>1, <3>2, <3>4
  <2>12. At(r[9], {"message"}, <<n>>, <<n>>, <<n>>, <<n>>, s.queue)
    <3>1. {"message", "error"} \ {"error"} = {"message"}
      OBVIOUS
    <3>2. At(Parse(r[8], t9), {"message", "error"} \ {"error"}, <<n>>, <<n>>, <<n>>, <<n>>, s.queue)
      BY <2>11, CloseOther DEF t9
    <3> HIDE DEF t9
    <3> QED
      BY <2>2, <3>1, <3>2
  <2>13. At(r[10], {}, << >>, << >>, << >>, << >>,
           Append(s.queue, [from |-> <<n>>, body |-> <<n>>, thread |-> <<n>>, isError |-> TRUE]))
    <3>1. {"message"} \ {"message"} = {}
      OBVIOUS
    <3>2. "message" \in {"message"}
      OBVIOUS
    <3>3. [from |-> <<n>>, body |-> <<n>>, thread |-> <<n>>, isError |-> <<n>> # << >>] =
            [from |-> <<n>>, body |-> <<n>>, thread |-> <<n>>, isError |-> TRUE]
      BY <1>0, <1>b
    <3>4. At(Parse(r[9], t10), {"message"} \ {"message"}, << >>, << >>, << >>, << >>,
            Append(s.queue, [from |-> <<n>>, body |-> <<n>>, thread |-> <<n>>,
            isError |-> <<n>> # << >>]))
      BY <2>12, CloseMessage, <3>2 DEF t10
    <3> HIDE DEF t10
    <3> QED
      BY <2>2, <3>1, <3>2, <3>3, <3>4
  <2>14. "message" \in r[9].in
    BY <2>12 DEF At
  <2> QED
    BY <1>2, <2>13, <2>14 DEF All, r
<1> HIDE DEF v
<1>5. ASSUME NEW s \in Sessions, Clean(s)
      PROVE  Matched(s, v) /\ Clean(All(s, v)) /\ All(s, v) \in Sessions
             /\ All(s, v).queue = s.queue \o <<[from |-> <<n>>, body |-> <<n>>, thread |-> <<n>>,
                  isError |-> TRUE]>>
  <2>1. s.queue \o <<[from |-> <<n>>, body |-> <<n>>, thread |-> <<n>>, isError |-> TRUE]>> =
          Append(s.queue, [from |-> <<n>>, body |-> <<n>>, thread |-> <<n>>, isError |-> TRUE])
    <3>1. s.queue \in Seq(Messages)
            /\ [from |-> <<n>>, body |-> <<n>>, thread |-> <<n>>, isError |-> TRUE] \in Messages
      BY <1>0, <1>b DEF Sessions
    <3> DEFINE m == [from |-> <<n>>, body |-> <<n>>, thread |-> <<n>>, isError |-> TRUE]
    <3> HIDE DEF m
    <3> QED
      BY <3>1 DEF m
  <2>2. Matched(s, v)
    <3>1. SUFFICES ASSUME NEW i \in 1 .. 10, v[i] = Close("message")
                   PROVE  "message" \in Readings(s, v)[i - 1].in
      BY <1>2 DEF Matched
    <3>2. i = 10
      <4> HIDE DEF t1, t2, t3, t4, t5, t6, t7, t8, t9, t10
      <4> QED
        BY <1>1, <1>2, <3>1
    <3> QED
      BY <1>4, <1>5, <3>2
  <2>3. Clean(All(s, v)) /\ All(s, v) \in Sessions
          /\ All(s, v).queue = Append(s.queue,
          [from |-> <<n>>, body |-> <<n>>, thread |-> <<n>>, isError |-> TRUE])
    BY <1>4, <1>5 DEF At, Clean
  <2> QED
    BY <2>1, <2>2, <2>3
<1>6. Adds(v, <<[from |-> <<n>>, body |-> <<n>>, thread |-> <<n>>, isError |-> TRUE]>>)
  BY <1>5 DEF Adds
<1> QED
  BY <1>2, <1>3, <1>6 DEF v

-----------------------------------------------------------------------------
(* Nothing lost.                                                           *)

\* Nothing is read of an empty wire.
LEMMA NothingComes ==
    ASSUME NEW s
    PROVE  All(s, << >>) = s /\ Matched(s, << >>) /\ << >> \in Seq(Tokens)
<1>1. << >> \in Seq(Tokens) /\ Len(<< >>) = 0
  OBVIOUS
<1>2. << >> \in Seq(Tokens)
  BY <1>1
<1>3. Readings(s, << >>)[0] = s
  BY <1>2, Unfold
<1> QED
  BY <1>1, <1>3 DEF All, Matched

\* What the program took and what is queued are the beginning of what was sent.
LEMMA SoundPrefix ==
    ASSUME NEW k \in Seq(Messages), NEW s \in Sessions, NEW w \in Seq(Tokens), NEW m \in Seq(Messages),
           Sound(k, s, w, m)
    PROVE  IsPrefix(k \o s.queue, m)
<1> DEFINE q == s.queue
           c == Coming(s, w)
<1>1. q \in Seq(Messages) /\ c \in Seq(Messages) /\ All(s, w).queue = q \o c
  BY QueueSplit
<1>2. k \o (q \o c) = m
  BY <1>1 DEF Sound
<1> HIDE DEF q, c
<1>3. (k \o q) \o c = k \o (q \o c) /\ k \o q \in Seq(Messages)
  BY <1>1, JoinThree
<1>4. IsPrefix(k \o q, (k \o q) \o c)
  BY <1>1, <1>3, PrefixOfJoin
<1> QED
  BY <1>2, <1>3, <1>4 DEF q

\* Reading a part loses nothing.
LEMMA SoundRead ==
    ASSUME NEW k \in Seq(Messages), NEW s \in Sessions, NEW w \in Seq(Tokens), NEW m \in Seq(Messages),
           Sound(k, s, w, m), NEW n \in 0 .. Len(w)
    PROVE  Sound(k, Readings(s, w)[n], SubSeq(w, n + 1, Len(w)), m)
  BY ReadPart DEF Sound

\* Nor does taking a message.
LEMMA SoundTake ==
    ASSUME NEW k \in Seq(Messages), NEW s \in Sessions, NEW w \in Seq(Tokens), NEW m \in Seq(Messages),
           Sound(k, s, w, m), s.queue # << >>, NEW r, r = [s EXCEPT !.queue = Tail(@)]
    PROVE  Sound(Append(k, Head(s.queue)), r, w, m)
<1> DEFINE h == Head(s.queue)
           a == All(r, w).queue
<1>1. r \in Sessions /\ h \in Messages /\ <<h>> \o a = All(s, w).queue
      /\ Clean(All(r, w)) /\ Matched(r, w)
  BY Dequeued DEF Sound
<1>2. a \in Seq(Messages)
  <2>1. All(r, w) \in Sessions
    BY <1>1, AllFacts
  <2> QED
    BY <2>1 DEF Sessions
<1>3. k \o (<<h>> \o a) = m
  BY <1>1 DEF Sound
<1> HIDE DEF h, a
<1>4. <<h>> \in Seq(Messages) /\ Append(k, h) = k \o <<h>>
  BY <1>1
<1>5. (k \o <<h>>) \o a = k \o (<<h>> \o a)
  BY <1>2, <1>4, JoinThree
<1> QED
  BY <1>1, <1>3, <1>4, <1>5 DEF Sound, h, a

\* What the server sends is added at the end.
LEMMA SoundSend ==
    ASSUME NEW k \in Seq(Messages), NEW s \in Sessions, NEW w \in Seq(Tokens), NEW m \in Seq(Messages),
           Sound(k, s, w, m), NEW v \in Seq(Tokens), NEW new \in Seq(Messages), Adds(v, new)
    PROVE  Sound(k, s, w \o v, m \o new)
<1> DEFINE a == All(s, w)
<1>1. a \in Sessions /\ Clean(a) /\ Matched(s, w) /\ k \o a.queue = m
  BY AllFacts DEF Sound
<1>2. Matched(a, v) /\ Clean(All(a, v)) /\ All(a, v).queue = a.queue \o new
  BY <1>1 DEF Adds
<1>3. All(s, w \o v) = All(a, v) /\ Matched(s, w \o v)
  BY <1>1, <1>2, WireGrows
<1> HIDE DEF a
<1> DEFINE q == a.queue
<1>4. q \in Seq(Messages)
  BY <1>1 DEF Sessions
<1> HIDE DEF q
<1>5. (k \o q) \o new = k \o (q \o new)
  BY <1>4, JoinThree
<1> QED
  BY <1>1, <1>2, <1>3, <1>5 DEF Sound, q

-----------------------------------------------------------------------------
(* The kinds of steps.                                                     *)

\* The first n tags and texts are read, and then nothing, or a message is taken, or the
\* connection given up.
ReadStep ==
    /\ \E n \in 0 .. Len(wire) :
         LET s == Readings(session, wire)[n]
         IN  /\ wire' = SubSeq(wire, n + 1, Len(wire))
             /\ n = 0 \/ (session.sockId # 0 /\ ~closed)
             /\ \/ session' = s /\ taken' = taken
                \/ /\ s.queue # << >> /\ session' = [s EXCEPT !.queue = Tail(@)]
                   /\ taken' = Append(taken, Head(s.queue))
                \/ session' = [s EXCEPT !.sockId = 0] /\ taken' = taken
    /\ (closed => closed') /\ closed' \in BOOLEAN /\ sent' = sent

\* The client is a new one, with or without a connection.
NewStep ==
    /\ \E f \in Fds \cup {0}, c \in 0 .. 2 : session' = [NewSession EXCEPT !.sockId = f, !.connecting = c]
    /\ wire' = << >> /\ sent' = << >> /\ taken' = << >> /\ closed' = FALSE

\* The server sends what adds the messages m.
ServerStep ==
    /\ \E v \in Seq(Tokens), m \in Seq(Messages) :
         Adds(v, m) /\ wire' = wire \o v /\ sent' = sent \o m
    /\ UNCHANGED <<session, taken, closed>>

\* The connection is closed: what is on the wire is lost.
DropStep ==
    /\ session' = [session EXCEPT !.sockId = 0] /\ wire' = << >>
    /\ UNCHANGED <<sent, taken, closed>>

\* The client does not move.
QuietStep == UNCHANGED <<session, wire, sent, taken, closed>>

\* Each of them keeps the types of what it changes.
LEMMA KindTypes ==
    ASSUME TypeOK, ReadStep \/ NewStep \/ ServerStep \/ DropStep \/ QuietStep
    PROVE  /\ session' \in Sessions /\ wire' \in Seq(Tokens) /\ sent' \in Seq(Messages)
           /\ taken' \in Seq(Messages) /\ closed' \in BOOLEAN
<1>1. /\ session \in Sessions /\ wire \in Seq(Tokens) /\ sent \in Seq(Messages)
      /\ taken \in Seq(Messages) /\ closed \in BOOLEAN
  BY DEF TypeOK
<1>2. CASE ReadStep
  <2>1. PICK n \in 0 .. Len(wire) :
          LET s == Readings(session, wire)[n]
          IN  /\ wire' = SubSeq(wire, n + 1, Len(wire))
              /\ n = 0 \/ (session.sockId # 0 /\ ~closed)
              /\ \/ session' = s /\ taken' = taken
                 \/ /\ s.queue # << >> /\ session' = [s EXCEPT !.queue = Tail(@)]
                    /\ taken' = Append(taken, Head(s.queue))
                 \/ session' = [s EXCEPT !.sockId = 0] /\ taken' = taken
    BY <1>2 DEF ReadStep
  <2> DEFINE s == Readings(session, wire)[n]
  <2>2. s \in Sessions /\ wire' \in Seq(Tokens)
    BY <1>1, <2>1, ReadPart
  <2>3. sent' = sent /\ closed' \in BOOLEAN
    BY <1>2 DEF ReadStep
  <2>4. \/ session' = s /\ taken' = taken
        \/ /\ s.queue # << >> /\ session' = [s EXCEPT !.queue = Tail(@)]
           /\ taken' = Append(taken, Head(s.queue))
        \/ session' = [s EXCEPT !.sockId = 0] /\ taken' = taken
    BY <2>1
  <2> HIDE DEF s
  <2>5. session' \in Sessions /\ taken' \in Seq(Messages)
    <3>1. CASE session' = s /\ taken' = taken
      BY <1>1, <2>2, <3>1
    <3>2. CASE s.queue # << >> /\ session' = [s EXCEPT !.queue = Tail(@)]
               /\ taken' = Append(taken, Head(s.queue))
      <4>1. session' \in Sessions /\ Head(s.queue) \in Messages
        BY <1>1, <2>2, <3>2, Dequeued
      <4> QED
        BY <1>1, <3>2, <4>1
    <3>3. CASE session' = [s EXCEPT !.sockId = 0] /\ taken' = taken
      <4>1. 0 \in Fds \cup {0}
        OBVIOUS
      <4> QED
        BY <1>1, <2>2, <3>3, <4>1 DEF Sessions
    <3> QED
      BY <2>4, <3>1, <3>2, <3>3
  <2> QED
    BY <1>1, <2>2, <2>3, <2>5
<1>3. CASE NewStep
  <2>1. PICK f \in Fds \cup {0}, c \in 0 .. 2 : session' = [NewSession EXCEPT !.sockId = f, !.connecting = c]
    BY <1>3 DEF NewStep
  <2>2. session' = [sockId |-> f, connecting |-> c, connected |-> FALSE, in |-> {},
                    from |-> << >>, body |-> << >>, thread |-> << >>, error |-> << >>, queue |-> << >>]
    BY <2>1 DEF NewSession
  <2>3. << >> \in Seq(Values) /\ << >> \in Seq(Messages) /\ << >> \in Seq(Tokens)
        /\ {} \in SUBSET Elements
    OBVIOUS
  <2>4. session' \in Sessions
    BY <2>2, <2>3 DEF Sessions
  <2> QED
    BY <1>3, <2>3, <2>4 DEF NewStep
<1>4. CASE ServerStep
  <2>1. PICK v \in Seq(Tokens), m \in Seq(Messages) :
          Adds(v, m) /\ wire' = wire \o v /\ sent' = sent \o m
    BY <1>4 DEF ServerStep
  <2>2. wire' \in Seq(Tokens) /\ sent' \in Seq(Messages)
    BY <1>1, <2>1, JoinFacts
  <2> QED
    BY <1>1, <1>4, <2>2 DEF ServerStep
<1>5. CASE DropStep
  <2>1. session' \in Sessions
    <3>1. 0 \in Fds \cup {0}
      OBVIOUS
    <3> QED
      BY <1>1, <1>5, <3>1 DEF Sessions, DropStep
  <2>2. << >> \in Seq(Tokens)
    OBVIOUS
  <2> QED
    BY <1>1, <1>5, <2>1, <2>2 DEF DropStep
<1>6. CASE QuietStep
  BY <1>1, <1>6 DEF QuietStep
<1> QED
  BY <1>2, <1>3, <1>4, <1>5, <1>6

\* Each of them keeps what is whole whole.
LEMMA WholeStep ==
    ASSUME TypeOK, WholeInv, ReadStep \/ NewStep \/ ServerStep \/ DropStep \/ QuietStep
    PROVE  WholeInv'
<1>1. /\ session \in Sessions /\ wire \in Seq(Tokens) /\ sent \in Seq(Messages)
      /\ taken \in Seq(Messages) /\ closed \in BOOLEAN
  BY DEF TypeOK
<1>2. /\ session' \in Sessions /\ wire' \in Seq(Tokens) /\ sent' \in Seq(Messages)
      /\ taken' \in Seq(Messages) /\ closed' \in BOOLEAN
  BY KindTypes
<1>3. IsPrefix(taken \o session.queue, sent) /\ taken \o session.queue \in Seq(Messages)
  <2>1. session.queue \in Seq(Messages)
    BY <1>1 DEF Sessions
  <2> QED
    BY <1>1, <2>1 DEF WholeInv
<1>4. ASSUME session'.sockId # 0 /\ ~closed' => Sound(taken, session, wire, sent)',
             ~(session'.sockId # 0 /\ ~closed') => IsPrefix(taken \o session.queue, sent)'
      PROVE  WholeInv'
  <2>1. CASE session'.sockId # 0 /\ ~closed'
    <3>1. Sound(taken', session', wire', sent')
      BY <1>4, <2>1
    <3>2. IsPrefix(taken' \o session'.queue, sent')
      BY <1>2, <3>1, SoundPrefix
    <3> QED
      BY <3>1, <3>2 DEF WholeInv
  <2>2. CASE ~(session'.sockId # 0 /\ ~closed')
    BY <1>4, <2>2 DEF WholeInv
  <2> QED
    BY <2>1, <2>2
<1>5. CASE ReadStep
  <2>1. PICK n \in 0 .. Len(wire) :
          LET s == Readings(session, wire)[n]
          IN  /\ wire' = SubSeq(wire, n + 1, Len(wire))
              /\ n = 0 \/ (session.sockId # 0 /\ ~closed)
              /\ \/ session' = s /\ taken' = taken
                 \/ /\ s.queue # << >> /\ session' = [s EXCEPT !.queue = Tail(@)]
                    /\ taken' = Append(taken, Head(s.queue))
                 \/ session' = [s EXCEPT !.sockId = 0] /\ taken' = taken
    BY <1>5 DEF ReadStep
  <2> DEFINE s == Readings(session, wire)[n]
             q == s.queue
  <2>2. s \in Sessions /\ s.sockId = session.sockId /\ wire' = SubSeq(wire, n + 1, Len(wire))
    BY <1>1, <2>1, ReadPart
  <2>3. sent' = sent /\ (closed => closed')
    BY <1>5 DEF ReadStep
  <2>4. \/ session' = s /\ taken' = taken
        \/ /\ s.queue # << >> /\ session' = [s EXCEPT !.queue = Tail(@)]
           /\ taken' = Append(taken, Head(s.queue))
        \/ session' = [s EXCEPT !.sockId = 0] /\ taken' = taken
    BY <2>1
  <2>5. session.sockId # 0 /\ ~closed => Sound(taken, s, wire', sent')
    BY <1>1, <2>2, <2>3, SoundRead DEF WholeInv
  <2>6. IsPrefix(taken \o s.queue, sent')
    <3>1. CASE session.sockId # 0 /\ ~closed
      BY <1>1, <1>2, <2>2, <2>5, <3>1, SoundPrefix
    <3>2. CASE ~(session.sockId # 0 /\ ~closed)
      <4>1. n = 0
        BY <2>1, <3>2
      <4>2. s = session
        BY <1>1, <4>1, Unfold
      <4> QED
        BY <4>2, <2>3, <1>3
    <3> QED
      BY <3>1, <3>2
  <2> HIDE DEF s
  <2>7. CASE session' = s /\ taken' = taken
    BY <1>4, <2>2, <2>3, <2>5, <2>6, <2>7
  <2>8. CASE s.queue # << >> /\ session' = [s EXCEPT !.queue = Tail(@)]
             /\ taken' = Append(taken, Head(s.queue))
    <3>1. /\ Head(s.queue) \in Messages /\ session'.sockId = s.sockId
          /\ <<Head(s.queue)>> \o session'.queue = s.queue
      <4> DEFINE r == session'
                 w == wire'
      <4>1. r = [s EXCEPT !.queue = Tail(@)] /\ s.queue # << >>
        BY <2>8
      <4>2. w \in Seq(Tokens)
        BY <1>2
      <4> HIDE DEF r, w
      <4>3. /\ Head(s.queue) \in Messages /\ r.sockId = s.sockId
            /\ <<Head(s.queue)>> \o r.queue = s.queue
        BY <2>2, <4>1, <4>2, Dequeued
      <4> QED
        BY <4>3 DEF r
    <3>2. session.sockId # 0 /\ ~closed => Sound(taken', session', wire', sent')
      BY <1>1, <1>2, <2>2, <2>5, <2>8, SoundTake
    <3>3. taken' \o session'.queue = taken \o s.queue
      <4> DEFINE h == Head(s.queue)
                 t == session'.queue
      <4>1. h \in Messages /\ <<h>> \o t = s.queue /\ taken' = Append(taken, h) /\ t \in Seq(Messages)
        BY <1>2, <2>8, <3>1 DEF Sessions
      <4> HIDE DEF h, t
      <4>2. <<h>> \in Seq(Messages) /\ Append(taken, h) = taken \o <<h>>
        BY <1>1, <4>1
      <4>3. (taken \o <<h>>) \o t = taken \o (<<h>> \o t)
        BY <1>1, <4>1, <4>2, JoinThree
      <4> QED
        BY <4>1, <4>2, <4>3 DEF t
    <3>4. IsPrefix(taken' \o session'.queue, sent')
      BY <2>6, <3>3
    <3> QED
      BY <1>4, <2>2, <2>3, <3>1, <3>2, <3>4
  <2>9. CASE session' = [s EXCEPT !.sockId = 0] /\ taken' = taken
    <3>1. session'.sockId = 0 /\ session'.queue = s.queue
      BY <2>2, <2>9 DEF Sessions
    <3> QED
      BY <1>4, <2>6, <2>9, <3>1
  <2> QED
    BY <2>4, <2>7, <2>8, <2>9
<1>6. CASE NewStep
  <2>1. PICK f \in Fds \cup {0}, c \in 0 .. 2 : session' = [NewSession EXCEPT !.sockId = f, !.connecting = c]
    BY <1>6 DEF NewStep
  <2>2. Clean(session') /\ session'.queue = << >>
    BY <2>1 DEF NewSession, Clean
  <2>3. wire' = << >> /\ sent' = << >> /\ taken' = << >>
    BY <1>6 DEF NewStep
  <2>4. All(session', wire') = session' /\ Matched(session', wire')
    BY <2>3, NothingComes
  <2>5. << >> \in Seq(Messages) /\ << >> \o << >> = << >>
    OBVIOUS
  <2>6. Sound(taken', session', wire', sent')
    BY <2>2, <2>3, <2>4, <2>5 DEF Sound
  <2>7. IsPrefix(taken' \o session'.queue, sent')
    BY <1>2, <2>6, SoundPrefix
  <2> QED
    BY <1>4, <2>6, <2>7
<1>7. CASE ServerStep
  <2>1. PICK v \in Seq(Tokens), m \in Seq(Messages) :
          Adds(v, m) /\ wire' = wire \o v /\ sent' = sent \o m
    BY <1>7 DEF ServerStep
  <2>2. session' = session /\ taken' = taken /\ closed' = closed
    BY <1>7 DEF ServerStep
  <2>3. session.sockId # 0 /\ ~closed => Sound(taken', session', wire', sent')
    BY <1>1, <2>1, <2>2, SoundSend DEF WholeInv
  <2>4. IsPrefix(taken' \o session'.queue, sent')
    BY <1>1, <1>3, <2>1, <2>2, PrefixGrows
  <2> QED
    BY <1>4, <2>2, <2>3, <2>4
<1>8. CASE DropStep
  <2>1. session'.sockId = 0 /\ session'.queue = session.queue /\ sent' = sent /\ taken' = taken
    BY <1>1, <1>8 DEF DropStep, Sessions
  <2> QED
    BY <1>3, <1>4, <2>1
<1>9. CASE QuietStep
  BY <1>9 DEF QuietStep, WholeInv
<1> QED
  BY <1>5, <1>6, <1>7, <1>8, <1>9

-----------------------------------------------------------------------------
(* The steps of Next.                                                      *)

\* 0 is no descriptor of the session's.
LEMMA Standard ==
    0 \notin Fds /\ Fds \subseteq Nat
  BY TransportAssumption DEF TransportAssumption

\* A new client.
LEMMA NewFacts ==
    NewSession \in Sessions /\ NewSession.sockId = 0 /\ NewSession.connecting = 0
    /\ NewSession.connected = FALSE /\ NewSession.queue = << >> /\ Clean(NewSession)
<1>1. << >> \in Seq(Values) /\ << >> \in Seq(Messages) /\ {} \in SUBSET Elements
  OBVIOUS
<1>2. NewSession \in Sessions
  BY <1>1 DEF Sessions, NewSession
<1> QED
  BY <1>2 DEF NewSession, Clean

\* The descriptor that open and socket return is one that was free.
LEMMA LowestIsFree ==
    ASSUME \E f \in Fds : fd[f] = "free"
    PROVE  Lowest \in Fds /\ fd[Lowest] = "free"
<1> DEFINE F == {f \in Fds : fd[f] = "free"}
<1>1. F \subseteq Nat /\ F # {}
  BY Standard
<1> HIDE DEF F
<1>2. PICK x \in F : \A y \in F : ~(y < x)
  BY <1>1, Least
<1>3. \A y \in F : x <= y
  <2>1. SUFFICES ASSUME NEW y \in F PROVE x <= y
    OBVIOUS
  <2>2. x \in Nat /\ y \in Nat /\ ~(y < x)
    BY <1>1, <1>2
  <2> QED
    BY <2>2
<1>4. Min(F) \in F
  BY <1>3 DEF Min
<1> QED
  BY <1>4 DEF F, Lowest

\* select and recv work exactly while the session has its descriptor.
LEMMA WaitLemma ==
    ASSUME TypeOK, HeldInv
    PROVE  /\ ~WaitFails <=> session.sockId # 0 /\ ~closed
           /\ session.sockId \in Fds \cup {0}
           /\ session.sockId # 0 => session.sockId \in Fds
<1>1. session.sockId \in Fds \cup {0}
  BY DEF TypeOK, Sessions
<1>2. CASE session.sockId = 0
  BY <1>2, Standard DEF WaitFails, Owner
<1>3. CASE session.sockId # 0
  BY <1>1, <1>3 DEF WaitFails, Owner, HeldInv
<1> QED
  BY <1>1, <1>2, <1>3

\* What is read first is the session itself.
LEMMA ReadNone ==
    ASSUME TypeOK
    PROVE  ReadData(0) = session /\ SubSeq(wire, 1, Len(wire)) = wire /\ Len(wire) \in Nat
<1>1. wire \in Seq(Tokens)
  BY DEF TypeOK
<1> QED
  BY <1>1, Unfold DEF ReadData

\* client_recv returns the oldest message, or none.
LEMMA DequeueLemma ==
    ASSUME NEW n \in 0 .. Len(wire), NEW s, s = ReadData(n),
           NEW why, Dequeue(s, why), wire' = SubSeq(wire, n + 1, Len(wire)),
           n = 0 \/ (session.sockId # 0 /\ ~closed), TypeOK, UNCHANGED <<sent, closed>>
    PROVE  ReadStep
<1>1. \/ session' = s /\ taken' = taken
      \/ /\ s.queue # << >> /\ session' = [s EXCEPT !.queue = Tail(@)]
         /\ taken' = Append(taken, Head(s.queue))
  BY DEF Dequeue
<1>2. closed' \in BOOLEAN
  BY DEF TypeOK
<1> QED
  BY <1>1, <1>2 DEF ReadStep, ReadData

\* Every step is of one of the kinds, of clients that are freed when they are
\* disconnected.
LEMMA Kinds ==
    ASSUME Reuse = FALSE, TypeOK, HeldInv, Next
    PROVE  ReadStep \/ NewStep \/ ServerStep \/ DropStep \/ QuietStep
<1>0. /\ session \in Sessions /\ wire \in Seq(Tokens) /\ sent \in Seq(Messages)
      /\ taken \in Seq(Messages) /\ closed \in BOOLEAN
  BY DEF TypeOK
<1>1. CASE ConnectAgain \/ ConnectRefused \/ RecvInterrupted \/ Send \/ OtherOpens
           \/ \E f \in Fds : OtherCloses(f)
  BY <1>1 DEF QuietStep, ConnectAgain, ConnectRefused, RecvInterrupted, Send, OtherOpens, OtherCloses
<1>2. CASE ConnectStart
  <2>1. session = NewSession /\ Lowest \in Fds
    BY <1>2, LowestIsFree DEF ConnectStart
  <2>2. session' = [NewSession EXCEPT !.sockId = Lowest, !.connecting = 1]
    BY <1>2, <2>1 DEF ConnectStart
  <2>3. wire' = << >> /\ sent' = << >> /\ taken' = << >> /\ closed' = FALSE
    BY <1>2 DEF ConnectStart
  <2>4. 1 \in 0 .. 2
    OBVIOUS
  <2> QED
    BY <2>1, <2>2, <2>3, <2>4 DEF NewStep
<1>3. CASE Stage1
  <2>1. session.sockId # 0 /\ ~closed
    BY <1>3 DEF Stage1, HeldInv
  <2>2. PICK n \in 0 .. Len(wire) :
          /\ wire' = SubSeq(wire, n + 1, Len(wire)) /\ closed' = (closed \/ AtEnd(n))
          /\ session' = ReadData(n) \/ session' = [ReadData(n) EXCEPT !.sockId = 0]
    BY <1>3 DEF Stage1, ConnectFails
  <2>3. sent' = sent /\ taken' = taken /\ (closed => closed') /\ closed' \in BOOLEAN
    BY <1>3, <2>2 DEF Stage1
  <2>4. ReadStep
    BY <2>1, <2>2, <2>3 DEF ReadStep, ReadData
  <2> QED
    BY <2>4
<1>4. CASE Stage2
  <2>1. PICK n \in 0 .. (IF WaitFails THEN 0 ELSE Len(wire)) :
          /\ wire' = SubSeq(wire, n + 1, Len(wire)) /\ closed' = (closed \/ AtEnd(n))
          /\ session' = ReadData(n) \/ session' = [ReadData(n) EXCEPT !.sockId = 0]
    BY <1>4 DEF Stage2, ConnectFails
  <2>2. n \in 0 .. Len(wire) /\ (n = 0 \/ ~WaitFails)
    BY <2>1, <1>0
  <2>3. n = 0 \/ (session.sockId # 0 /\ ~closed)
    BY <2>2, WaitLemma
  <2>4. sent' = sent /\ taken' = taken /\ (closed => closed') /\ closed' \in BOOLEAN
    BY <1>4, <2>1 DEF Stage2
  <2>5. ReadStep
    BY <2>1, <2>2, <2>3, <2>4 DEF ReadStep, ReadData
  <2> QED
    BY <2>5
<1>5. CASE RecvStart
  <2>1. wire' = wire /\ UNCHANGED <<sent, closed>>
    BY <1>5 DEF RecvStart
  <2>2. CASE session.queue # << >>
    <3>1. Dequeue(session, "message")
      BY <1>5, <2>2 DEF RecvStart
    <3>2. 0 \in 0 .. Len(wire) /\ session = ReadData(0) /\ wire' = SubSeq(wire, 0 + 1, Len(wire))
      BY <2>1, ReadNone
    <3>3. ReadStep
      BY <2>1, <3>1, <3>2, DequeueLemma
    <3> QED
      BY <3>3
  <2>3. CASE session.queue = << >>
    BY <1>5, <2>1, <2>3 DEF RecvStart, QuietStep
  <2> QED
    BY <2>2, <2>3
<1>6. CASE RecvFails
  <2>1. CASE UNCHANGED <<session, wire, closed>>
    BY <1>6, <2>1 DEF RecvFails, QuietStep
  <2>2. CASE AtEnd(Len(wire)) /\ session' = ReadData(Len(wire)) /\ wire' = << >> /\ closed' = TRUE
    <3>1. session.sockId # 0 /\ ~closed
      BY <2>2, WaitLemma DEF AtEnd
    <3>2. Len(wire) \in 0 .. Len(wire) /\ wire' = SubSeq(wire, Len(wire) + 1, Len(wire))
      BY <1>0, <2>2
    <3>3. sent' = sent /\ taken' = taken
      BY <1>6 DEF RecvFails
    <3>4. ReadStep
      BY <2>2, <3>1, <3>2, <3>3 DEF ReadStep, ReadData
    <3> QED
      BY <3>4
  <2> QED
    BY <1>6, <2>1, <2>2 DEF RecvFails
<1>7. CASE RecvWait
  <2>1. session.sockId # 0 /\ ~closed
    BY <1>7, WaitLemma DEF RecvWait
  <2>2. PICK n \in 0 .. Len(wire) :
          /\ wire' = SubSeq(wire, n + 1, Len(wire))
          /\ \/ session' = ReadData(n) /\ UNCHANGED taken
             \/ \E why : Dequeue(ReadData(n), why)
    BY <1>7 DEF RecvWait
  <2>3. UNCHANGED <<sent, closed>>
    BY <1>7 DEF RecvWait
  <2>4. CASE session' = ReadData(n) /\ UNCHANGED taken
    <3>1. ReadStep
      BY <1>0, <2>1, <2>2, <2>3, <2>4 DEF ReadStep, ReadData
    <3> QED
      BY <3>1
  <2>5. CASE \E why : Dequeue(ReadData(n), why)
    <3>1. ReadStep
      BY <2>1, <2>2, <2>3, <2>5, DequeueLemma
    <3> QED
      BY <3>1
  <2> QED
    BY <2>2, <2>4, <2>5
<1>8. CASE ClientDisconnect
  BY <1>8 DEF ClientDisconnect, DropStep
<1>9. CASE ClientFree \/ Ignore
  <2>1. /\ session' = NewSession /\ wire' = << >> /\ sent' = << >> /\ taken' = << >> /\ closed' = FALSE
    BY <1>9 DEF ClientFree, Ignore, NewClient
  <2>2. session' = [NewSession EXCEPT !.sockId = 0, !.connecting = 0]
    <3> DEFINE s == NewSession
    <3>1. s \in Sessions /\ s.sockId = 0 /\ s.connecting = 0
      BY NewFacts
    <3> HIDE DEF s
    <3>2. s = [s EXCEPT !.sockId = 0, !.connecting = 0]
      BY <3>1 DEF Sessions
    <3> QED
      BY <2>1, <3>2 DEF s
  <2>3. 0 \in Fds \cup {0} /\ 0 \in 0 .. 2
    OBVIOUS
  <2> QED
    BY <2>1, <2>2, <2>3 DEF NewStep
<1>10. ASSUME NEW v, v \in Seq(Tokens) /\ Adds(v, << >>), Says(v), sent' = sent
       PROVE  ServerStep
  <2>1. << >> \in Seq(Messages) /\ sent' = sent \o << >>
    BY <1>0, <1>10
  <2> QED
    BY <1>10, <2>1 DEF ServerStep, Says
<1>11. CASE ServerStream
  <2>1. Says(<<Open("stream:stream", 0)>>) /\ sent' = sent
    BY <1>11 DEF ServerStream
  <2> QED
    BY <2>1, <1>10, StreamAdds
<1>12. CASE ServerAccepts
  <2>1. sent' = sent /\ \/ Says(<<Open("handshake", 0), Close("handshake")>>)
                        \/ Says(<<Open("iq", "result"), Close("iq")>>)
    BY <1>12 DEF ServerAccepts
  <2> QED
    BY <2>1, <1>10, HandshakeAdds, AcceptAdds
<1>13. CASE ServerRefuses
  <2>1. Says(<<Open("iq", "error"), Open("error", 401), Close("error"), Close("iq")>>) /\ sent' = sent
    BY <1>13 DEF ServerRefuses
  <2>2. 401 \in Values
    BY DEF Values
  <2> QED
    BY <2>1, <2>2, <1>10, RefuseAdds
<1>14. CASE ServerError
  <2>1. Says(<<Open("stream:error", 0), Text(0), Close("stream:error")>>) /\ sent' = sent
    BY <1>14 DEF ServerError
  <2> QED
    BY <2>1, <1>10, ErrorAdds
<1>15. CASE ServerPresence
  <2>1. Says(<<Open("presence", 0), Open("status", 0), Text(0), Close("status"), Close("presence")>>)
        /\ sent' = sent
    BY <1>15 DEF ServerPresence
  <2> QED
    BY <2>1, <1>10, PresenceAdds
<1>16. CASE ServerCloses
  <2>1. wire' = wire \o << >> /\ sent' = sent /\ UNCHANGED <<session, taken, closed>>
    BY <1>16 DEF ServerCloses, Says
  <2>2. wire \o << >> = wire
    BY <1>0
  <2> QED
    BY <2>1, <2>2 DEF QuietStep
<1>17. CASE ServerMessage
  <2> DEFINE n == Len(sent) + 1
  <2>1. PICK error \in BOOLEAN :
          /\ Says(Tags(n, error))
          /\ sent' = Append(sent, [from |-> <<n>>, body |-> <<n>>, isError |-> error,
                                   thread |-> IF error THEN <<n>> ELSE <<n, n>>])
    BY <1>17 DEF ServerMessage
  <2>2. n \in Values
    BY <1>0 DEF Values
  <2> HIDE DEF n
  <2> DEFINE m == [from |-> <<n>>, body |-> <<n>>, thread |-> IF error THEN <<n>> ELSE <<n, n>>,
                   isError |-> error]
  <2>3. [from |-> <<n>>, body |-> <<n>>, isError |-> error,
         thread |-> IF error THEN <<n>> ELSE <<n, n>>] = m
    OBVIOUS
  <2>4. Tags(n, error) \in Seq(Tokens) /\ Adds(Tags(n, error), <<m>>)
    <3>1. CASE error = TRUE
      <4>1. m = [from |-> <<n>>, body |-> <<n>>, thread |-> <<n>>, isError |-> TRUE]
        BY <3>1
      <4> HIDE DEF m
      <4> QED
        BY <2>2, <3>1, <4>1, ErrorMessageAdds
    <3>2. CASE error = FALSE
      <4>1. m = [from |-> <<n>>, body |-> <<n>>, thread |-> <<n, n>>, isError |-> FALSE]
        BY <3>2
      <4> HIDE DEF m
      <4> QED
        BY <2>2, <3>2, <4>1, MessageAdds
    <3> QED
      BY <3>1, <3>2
  <2>5. m \in Messages
    <3>1. <<n>> \in Seq(Values) /\ <<n, n>> \in Seq(Values)
      BY <2>2
    <3> QED
      BY <3>1 DEF Messages
  <2> HIDE DEF m
  <2>6. sent' = sent \o <<m>> /\ <<m>> \in Seq(Messages)
    <3>1. sent' = Append(sent, m)
      BY <2>1, <2>3
    <3> QED
      BY <1>0, <2>5, <3>1
  <2>7. ServerStep
    BY <2>1, <2>4, <2>6 DEF ServerStep, Says
  <2> QED
    BY <2>7
<1> QED
  BY <1>1, <1>2, <1>3, <1>4, <1>5, <1>6, <1>7, <1>8, <1>9, <1>11, <1>12, <1>13, <1>14, <1>15, <1>16,
     <1>17 DEF Next

-----------------------------------------------------------------------------
(* Each part of the invariant is kept.                                     *)

\* What the actions read leaves the descriptor, and logs in only by tags of the server.
LEMMA ReadLemma ==
    ASSUME TypeOK, NEW n \in 0 .. Len(wire)
    PROVE  /\ ReadData(n) \in Sessions /\ ReadData(n).sockId = session.sockId
           /\ SubSeq(wire, n + 1, Len(wire)) \in Seq(Tokens)
           /\ ReadData(n).connected
                \/ (\E i \in DOMAIN SubSeq(wire, n + 1,
                     Len(wire)) : Accepting(SubSeq(wire, n + 1, Len(wire))[i]))
                => session.connected \/ \E i \in DOMAIN wire : Accepting(wire[i])
           /\ [ReadData(n) EXCEPT !.sockId = 0].sockId = 0
<1>1. session \in Sessions /\ wire \in Seq(Tokens)
  BY DEF TypeOK
<1>2. ReadData(n) \in Sessions
  BY <1>1, ReadPart DEF ReadData
<1>3. [ReadData(n) EXCEPT !.sockId = 0].sockId = 0
  BY <1>2 DEF Sessions
<1> QED
  BY <1>1, <1>3, ReadPart DEF ReadData

\* Taking a message leaves the descriptor and the login.
LEMMA TakeLemma ==
    ASSUME NEW s \in Sessions, NEW why, Dequeue(s, why)
    PROVE  session'.sockId = s.sockId /\ session'.connected = s.connected /\ call' = Idle
           /\ ends' \in {why, "message"}
  BY DEF Dequeue, Sessions

\* The descriptor is the session's until the server closes the connection.
LEMMA HeldStep ==
    ASSUME Reuse = FALSE, TypeOK, HeldInv, Next
    PROVE  HeldInv'
<1>0. /\ session \in Sessions /\ fd \in [Fds -> {"free", "session", "other", "ignored"}]
      /\ closed \in BOOLEAN /\ call.op \in {"none", "stage1", "stage2", "recv"}
  BY DEF TypeOK
<1>a. session.sockId \in Fds \cup {0} /\ 0 \notin Fds
  BY WaitLemma, Standard
<1>b. Idle.op = "none"
  BY DEF Idle
<1>1. CASE ConnectAgain \/ ConnectRefused \/ Send \/ ServerStream \/ ServerAccepts \/ ServerRefuses
           \/ ServerError \/ ServerMessage \/ ServerPresence \/ ServerCloses
  <2>1. CASE ConnectAgain \/ ConnectRefused \/ Send
    <3>1. UNCHANGED <<session, fd, closed>> /\ call'.op = call.op
      BY <2>1 DEF ConnectAgain, ConnectRefused, Send
    <3> QED
      BY <3>1 DEF HeldInv
  <2>2. CASE \E v : Says(v)
    BY <2>2 DEF HeldInv, Says
  <2> QED
    BY <1>1, <2>1, <2>2 DEF ServerStream, ServerAccepts, ServerRefuses, ServerError, ServerMessage,
                            ServerPresence, ServerCloses
<1>2. CASE RecvInterrupted
  BY <1>2, <1>b DEF HeldInv, RecvInterrupted
<1>3. CASE ConnectStart
  <2>1. Lowest \in Fds
    BY <1>3, LowestIsFree DEF ConnectStart
  <2>2. session' = [session EXCEPT !.sockId = Lowest, !.connecting = 1]
        /\ fd' = [fd EXCEPT ![Lowest] = "session"] /\ closed' = FALSE
    BY <1>3 DEF ConnectStart
  <2>3. session'.sockId = Lowest
    BY <1>0, <2>2 DEF Sessions
  <2> QED
    BY <1>0, <1>a, <2>1, <2>2, <2>3 DEF HeldInv
<1>4. CASE Stage1
  <2>1. call.op = "stage1" /\ session.sockId # 0 /\ ~closed
    BY <1>4 DEF Stage1, HeldInv
  <2>2. PICK n \in 0 .. Len(wire) :
          /\ closed' = (closed \/ AtEnd(n))
          /\ \/ /\ ~AtEnd(n) /\ session' = ReadData(n) /\ call' = [call EXCEPT !.op = "stage2"] /\ fd' = fd
             \/ ConnectFails(ReadData(n))
             \/ /\ session' = ReadData(n) /\ call' = [call EXCEPT !.op = "stage2"]
                /\ fd' = IF AtEnd(n) THEN Closed(ReadData(n).sockId) ELSE fd
    BY <1>4 DEF Stage1
  <2>3. ReadData(n).sockId = session.sockId /\ [ReadData(n) EXCEPT !.sockId = 0].sockId = 0
    BY ReadLemma
  <2>4. [call EXCEPT !.op = "stage2"].op = "stage2"
    BY DEF TypeOK
  <2>5. CASE ~AtEnd(n) /\ session' = ReadData(n) /\ call' = [call EXCEPT !.op = "stage2"] /\ fd' = fd
    BY <2>1, <2>2, <2>3, <2>4, <2>5 DEF HeldInv
  <2>6. CASE ConnectFails(ReadData(n))
    BY <1>b, <2>3, <2>6 DEF HeldInv, ConnectFails
  <2>7. CASE session' = ReadData(n) /\ call' = [call EXCEPT !.op = "stage2"]
             /\ fd' = IF AtEnd(n) THEN Closed(ReadData(n).sockId) ELSE fd
    BY <1>a, <2>1, <2>2, <2>3, <2>4, <2>7 DEF HeldInv, Closed
  <2> QED
    BY <2>2, <2>5, <2>6, <2>7
<1>5. CASE Stage2
  <2>1. PICK n \in 0 .. (IF WaitFails THEN 0 ELSE Len(wire)) :
          /\ closed' = (closed \/ AtEnd(n))
          /\ \/ /\ session' = ReadData(n) /\ call' = Idle
                /\ fd' = IF AtEnd(n) THEN Closed(ReadData(n).sockId) ELSE fd
             \/ ConnectFails(ReadData(n))
    BY <1>5 DEF Stage2
  <2>2. n \in 0 .. Len(wire)
    BY <2>1, ReadNone
  <2>3. ReadData(n).sockId = session.sockId /\ [ReadData(n) EXCEPT !.sockId = 0].sockId = 0
    BY <2>2, ReadLemma
  <2>4. CASE ConnectFails(ReadData(n))
    BY <1>b, <2>3, <2>4 DEF HeldInv, ConnectFails
  <2>5. CASE session' = ReadData(n) /\ call' = Idle
             /\ fd' = IF AtEnd(n) THEN Closed(ReadData(n).sockId) ELSE fd
    BY <1>a, <1>b, <2>1, <2>3, <2>5 DEF HeldInv, Closed
  <2> QED
    BY <2>1, <2>4, <2>5
<1>6. CASE RecvStart
  <2>1. UNCHANGED <<fd, closed>> /\ call.op = "none"
    BY <1>6 DEF RecvStart
  <2>2. CASE Dequeue(session, "message")
    BY <1>0, <1>b, <2>1, <2>2, TakeLemma DEF HeldInv
  <2>3. CASE session' = session /\ call'.op = "recv"
    BY <2>1, <2>3 DEF HeldInv
  <2> QED
    BY <1>6, <2>2, <2>3 DEF RecvStart
<1>7. CASE RecvFails
  <2>1. call' = Idle
    BY <1>7 DEF RecvFails
  <2>2. CASE UNCHANGED <<session, fd, wire, closed>>
    BY <1>b, <2>1, <2>2 DEF HeldInv
  <2>3. CASE session' = ReadData(Len(wire)) /\ fd' = Closed(session.sockId) /\ closed' = TRUE
    <3>1. Len(wire) \in 0 .. Len(wire)
      BY ReadNone
    <3>2. session'.sockId = session.sockId
      BY <2>3, <3>1, ReadLemma
    <3> QED
      BY <1>a, <1>b, <2>1, <2>3, <3>2 DEF HeldInv, Closed
  <2> QED
    BY <1>7, <2>2, <2>3 DEF RecvFails
<1>8. CASE RecvWait
  <2>1. UNCHANGED <<fd, closed>> /\ call.op = "recv"
    BY <1>8 DEF RecvWait
  <2>2. PICK n \in 0 .. Len(wire) :
          \/ session' = ReadData(n) /\ (UNCHANGED call
               \/ \E d : call' = [call EXCEPT !.waited = @ + d, !.remaining = Left(d)])
          \/ \E why : Dequeue(ReadData(n), why)
    BY <1>8 DEF RecvWait
  <2>3. ReadData(n) \in Sessions /\ ReadData(n).sockId = session.sockId
    BY ReadLemma
  <2>4. CASE session' = ReadData(n) /\ (UNCHANGED call
               \/ \E d : call' = [call EXCEPT !.waited = @ + d, !.remaining = Left(d)])
    <3>1. call'.op = call.op
      BY <2>4 DEF TypeOK
    <3> QED
      BY <2>1, <2>3, <2>4, <3>1 DEF HeldInv
  <2>5. CASE \E why : Dequeue(ReadData(n), why)
    BY <1>b, <2>1, <2>3, <2>5, TakeLemma DEF HeldInv
  <2> QED
    BY <2>2, <2>4, <2>5
<1>9. CASE ClientDisconnect
  <2>1. session'.sockId = 0
    BY <1>0, <1>9 DEF ClientDisconnect, Sessions
  <2> QED
    BY <1>9, <2>1 DEF HeldInv, ClientDisconnect
<1>10. CASE ClientFree \/ Ignore
  <2>1. session'.sockId = 0
    BY <1>10 DEF ClientFree, Ignore, NewClient, NewSession
  <2>2. call'.op = "none"
    BY <1>10, <1>b DEF ClientFree, Ignore
  <2> QED
    BY <2>1, <2>2 DEF HeldInv
<1>11. CASE OtherOpens
  <2>1. Lowest \in Fds /\ fd[Lowest] = "free" /\ fd' = [fd EXCEPT ![Lowest] = "other"]
    BY <1>11, LowestIsFree DEF OtherOpens
  <2>2. UNCHANGED <<session, closed, call>>
    BY <1>11 DEF OtherOpens
  <2> QED
    BY <1>0, <1>a, <2>1, <2>2 DEF HeldInv
<1>12. CASE \E f \in Fds : OtherCloses(f)
  <2>1. PICK f \in Fds : OtherCloses(f)
    BY <1>12
  <2>2. fd[f] = "other" /\ fd' = [fd EXCEPT ![f] = "free"] /\ UNCHANGED <<session, closed, call>>
    BY <2>1 DEF OtherCloses
  <2> QED
    BY <1>0, <1>a, <2>2 DEF HeldInv
<1> QED
  BY <1>1, <1>2, <1>3, <1>4, <1>5, <1>6, <1>7, <1>8, <1>9, <1>10, <1>11, <1>12 DEF Next

\* Tags that log a session in, or a session that is.
Logged(s, w) == s.connected \/ \E i \in DOMAIN w : Accepting(w[i])

\* Whoever is logged in was accepted, and a call that reports success logged in.
LEMMA LoginStep ==
    ASSUME Reuse = FALSE, TypeOK, HeldInv, LoginInv, Next
    PROVE  LoginInv'
<1>0. /\ session \in Sessions /\ wire \in Seq(Tokens)
      /\ call.op \in {"none", "stage1", "stage2", "recv"}
  BY DEF TypeOK
<1>b. Idle.op = "none"
  BY DEF Idle
<1>c. /\ session.sockId # 0 /\ Logged(session, wire) => server \in {"in", "left"}
      /\ ends = "connected" => call.op = "none" /\ session.connected /\ session.sockId # 0
  BY DEF LoginInv, Logged
<1>d. ASSUME session'.sockId # 0 /\ Logged(session', wire') => server' \in {"in", "left"},
             ends' = "connected" => call'.op = "none" /\ session'.connected /\ session'.sockId # 0
      PROVE  LoginInv'
  BY <1>d DEF LoginInv, Logged
<1>1. CASE ConnectAgain \/ ConnectRefused \/ RecvInterrupted
  <2>1. UNCHANGED <<session, wire, server>> /\ ends' # "connected"
    BY <1>1 DEF ConnectAgain, ConnectRefused, RecvInterrupted
  <2> QED
    BY <1>c, <1>d, <2>1
<1>2. CASE Send \/ OtherOpens \/ \E f \in Fds : OtherCloses(f)
  <2>1. UNCHANGED <<session, wire, server, ends, call>>
    BY <1>2 DEF Send, OtherOpens, OtherCloses
  <2> QED
    BY <1>c, <1>d, <2>1
<1>3. CASE ConnectStart
  <2>1. session = NewSession /\ session' = [session EXCEPT !.sockId = Lowest, !.connecting = 1]
        /\ wire' = << >> /\ ends' = "calling"
    BY <1>3 DEF ConnectStart
  <2>2. session'.connected = FALSE
    BY <1>0, <2>1, NewFacts DEF Sessions
  <2>3. ~Logged(session', wire')
    BY <2>1, <2>2 DEF Logged
  <2> QED
    BY <1>d, <2>1, <2>3
<1>4. CASE Stage1
  <2>1. PICK n \in 0 .. Len(wire) :
          /\ wire' = SubSeq(wire, n + 1, Len(wire))
          /\ \/ /\ session' = ReadData(n) /\ UNCHANGED ends
                /\ server' = IF server = "streamed" THEN "asked" ELSE server
             \/ ConnectFails(ReadData(n))
             \/ session' = ReadData(n) /\ UNCHANGED <<server, ends>>
    BY <1>4 DEF Stage1
  <2>2. /\ ReadData(n).sockId = session.sockId /\ [ReadData(n) EXCEPT !.sockId = 0].sockId = 0
        /\ Logged(ReadData(n), wire') => Logged(session, wire)
    BY <2>1, ReadLemma DEF Logged
  <2>3. ends # "connected"
    BY <1>4, <1>c DEF Stage1
  <2>4. CASE ConnectFails(ReadData(n))
    BY <1>d, <2>2, <2>4 DEF ConnectFails
  <2>5. CASE session' = ReadData(n) /\ UNCHANGED ends
             /\ server' \in {server, IF server = "streamed" THEN "asked" ELSE server}
    <3>1. session'.sockId # 0 /\ Logged(session', wire') => server' \in {"in", "left"}
      BY <1>c, <2>2, <2>5
    <3> QED
      BY <1>d, <2>3, <2>5, <3>1
  <2> QED
    BY <2>1, <2>4, <2>5
<1>5. CASE Stage2
  <2>1. PICK n \in 0 .. (IF WaitFails THEN 0 ELSE Len(wire)) :
          /\ wire' = SubSeq(wire, n + 1, Len(wire))
          /\ \/ /\ ReadData(n).connected /\ session' = ReadData(n) /\ call' = Idle /\ UNCHANGED server
             \/ ConnectFails(ReadData(n))
    BY <1>5 DEF Stage2
  <2>2. n \in 0 .. Len(wire)
    BY <2>1, ReadNone
  <2>3. /\ ReadData(n).sockId = session.sockId /\ [ReadData(n) EXCEPT !.sockId = 0].sockId = 0
        /\ Logged(ReadData(n), wire') => Logged(session, wire)
    BY <2>1, <2>2, ReadLemma DEF Logged
  <2>4. session.sockId # 0
    BY <1>5 DEF Stage2, HeldInv
  <2>5. CASE ConnectFails(ReadData(n))
    BY <1>d, <2>3, <2>5 DEF ConnectFails
  <2>6. CASE ReadData(n).connected /\ session' = ReadData(n) /\ call' = Idle /\ UNCHANGED server
    BY <1>b, <1>c, <1>d, <2>3, <2>4, <2>6
  <2> QED
    BY <2>1, <2>5, <2>6
<1>6. CASE RecvStart
  <2>1. UNCHANGED <<wire, server>>
    BY <1>6 DEF RecvStart
  <2>2. CASE Dequeue(session, "message")
    <3>1. session'.sockId = session.sockId /\ session'.connected = session.connected /\ ends' = "message"
      BY <1>0, <2>2, TakeLemma
    <3>2. Logged(session', wire') => Logged(session, wire)
      BY <2>1, <3>1 DEF Logged
    <3> QED
      BY <1>c, <1>d, <2>1, <3>1, <3>2
  <2>3. CASE session' = session /\ ends' = "calling"
    BY <1>c, <1>d, <2>1, <2>3
  <2> QED
    BY <1>6, <2>2, <2>3 DEF RecvStart
<1>7. CASE RecvFails
  <2>1. ends' = "error" /\ server' = server
    BY <1>7 DEF RecvFails
  <2>2. CASE UNCHANGED <<session, wire>>
    BY <1>c, <1>d, <2>1, <2>2
  <2>3. CASE session' = ReadData(Len(wire)) /\ wire' = << >>
    <3>1. Len(wire) \in 0 .. Len(wire)
      BY ReadNone
    <3>2. session'.sockId = session.sockId /\ (session'.connected => Logged(session, wire))
      BY <2>3, <3>1, ReadLemma DEF Logged
    <3>3. Logged(session', wire') => Logged(session, wire)
      BY <2>3, <3>2 DEF Logged
    <3> QED
      BY <1>c, <1>d, <2>1, <3>2, <3>3
  <2> QED
    BY <1>7, <2>2, <2>3 DEF RecvFails
<1>8. CASE RecvWait
  <2>1. call.op = "recv" /\ server' = server
    BY <1>8 DEF RecvWait
  <2>2. PICK n \in 0 .. Len(wire) :
          /\ wire' = SubSeq(wire, n + 1, Len(wire))
          /\ \/ session' = ReadData(n) /\ UNCHANGED ends
             \/ \E why \in {"message", "timeout", "early"} : Dequeue(ReadData(n), why)
    BY <1>8 DEF RecvWait
  <2>3. /\ ReadData(n) \in Sessions /\ ReadData(n).sockId = session.sockId
        /\ Logged(ReadData(n), wire') => Logged(session, wire)
    BY <2>2, ReadLemma DEF Logged
  <2>4. ends # "connected"
    BY <1>c, <2>1
  <2>5. CASE session' = ReadData(n) /\ UNCHANGED ends
    BY <1>c, <1>d, <2>1, <2>3, <2>4, <2>5
  <2>6. CASE \E why \in {"message", "timeout", "early"} : Dequeue(ReadData(n), why)
    <3>1. session'.sockId = session.sockId /\ session'.connected = ReadData(n).connected
          /\ ends' \in {"message", "timeout", "early"}
      BY <2>3, <2>6, TakeLemma
    <3>2. Logged(session', wire') => Logged(session, wire)
      BY <2>3, <3>1 DEF Logged
    <3> QED
      BY <1>c, <1>d, <2>1, <3>1, <3>2
  <2> QED
    BY <2>2, <2>5, <2>6
<1>9. CASE ClientDisconnect
  <2>1. session'.sockId = 0 /\ ends' = "none"
    BY <1>0, <1>9 DEF ClientDisconnect, Sessions
  <2> QED
    BY <1>d, <2>1
<1>10. CASE ClientFree \/ Ignore
  <2>1. session'.sockId = 0 /\ ends' = "none"
    BY <1>10, NewFacts DEF ClientFree, Ignore, NewClient
  <2> QED
    BY <1>d, <2>1
<1>11. ASSUME NEW v, Says(v), v \in Seq(Tokens), server \in {"in", "left"} => server' \in {"in", "left"},
              (\E i \in DOMAIN v : Accepting(v[i])) => server' \in {"in", "left"}
       PROVE  LoginInv'
  <2>1. UNCHANGED <<session, ends, call>> /\ wire' = wire \o v
    BY <1>11 DEF Says
  <2>2. \A i \in DOMAIN wire' : (i \in DOMAIN wire /\ wire'[i] = wire[i])
                             \/ (i - Len(wire) \in DOMAIN v /\ wire'[i] = v[i - Len(wire)])
    BY <1>0, <1>11, <2>1
  <2>3. Logged(session', wire') => Logged(session, wire) \/ \E i \in DOMAIN v : Accepting(v[i])
    BY <2>1, <2>2 DEF Logged
  <2> QED
    BY <1>c, <1>d, <1>11, <2>1, <2>3
<1>12. CASE ServerStream
  <2> DEFINE v == <<Open("stream:stream", 0)>>
  <2>1. Says(v) /\ server = "opened" /\ v \in Seq(Tokens)
    BY <1>12, StreamAdds DEF ServerStream
  <2>2. \A i \in DOMAIN v : ~Accepting(v[i])
    BY DEF Accepting, Open
  <2> HIDE DEF v
  <2> QED
    BY <1>11, <2>1, <2>2
<1>13. CASE ServerAccepts
  <2>1. server' = "in" /\ \E v \in Seq(Tokens) : Says(v)
    BY <1>13, HandshakeAdds, AcceptAdds DEF ServerAccepts
  <2> QED
    BY <1>11, <2>1
<1>14. CASE ServerRefuses
  <2> DEFINE v == <<Open("iq", "error"), Open("error", 401), Close("error"), Close("iq")>>
  <2>1. Says(v) /\ server = "asked"
    BY <1>14 DEF ServerRefuses
  <2>2. v \in Seq(Tokens)
    <3>1. 401 \in Values
      BY DEF Values
    <3> QED
      BY <3>1, RefuseAdds
  <2>3. \A i \in DOMAIN v : ~Accepting(v[i])
    BY DEF Accepting, Open, Close
  <2> HIDE DEF v
  <2> QED
    BY <1>11, <2>1, <2>2, <2>3
<1>15. CASE ServerError
  <2> DEFINE v == <<Open("stream:error", 0), Text(0), Close("stream:error")>>
  <2>1. Says(v) /\ (server = "in" => server' = "left") /\ server # "left" /\ v \in Seq(Tokens)
    BY <1>15, ErrorAdds DEF ServerError, Leaves
  <2>2. \A i \in DOMAIN v : ~Accepting(v[i])
    BY DEF Accepting, Open, Close, Text
  <2> HIDE DEF v
  <2> QED
    BY <1>11, <2>1, <2>2
<1>16. CASE ServerMessage \/ ServerPresence
  <2>1. server = "in" /\ server' = server
    BY <1>16 DEF ServerMessage, ServerPresence
  <2>2. UNCHANGED <<session, ends, call>>
    BY <1>16 DEF ServerMessage, ServerPresence, Says
  <2> QED
    BY <1>c, <1>d, <2>1, <2>2
<1>17. CASE ServerCloses
  <2>1. (server = "in" => server' = "left") /\ server # "left" /\ UNCHANGED <<session, ends, call>>
        /\ wire' = wire \o << >>
    BY <1>17 DEF ServerCloses, Leaves, Says
  <2>2. wire' = wire
    BY <1>0, <2>1
  <2> QED
    BY <1>c, <1>d, <2>1, <2>2
<1> QED
  BY <1>1, <1>2, <1>3, <1>4, <1>5, <1>6, <1>7, <1>8, <1>9, <1>10, <1>12, <1>13, <1>14, <1>15, <1>16,
     <1>17 DEF Next

\* The descriptors stay what they can be.
LEMMA FdStep ==
    ASSUME TypeOK, Next
    PROVE  fd' \in [Fds -> {"free", "session", "other", "ignored"}]
<1> DEFINE T == [Fds -> {"free", "session", "other", "ignored"}]
<1>0. fd \in T
  BY DEF TypeOK
<1>a. ASSUME NEW f PROVE Closed(f) \in T
  BY <1>0 DEF Closed
<1>b. ASSUME NEW f \in Fds, NEW v \in {"free", "session", "other"} PROVE [fd EXCEPT ![f] = v] \in T
  BY <1>0
<1>1. CASE ConnectStart
  <2>1. Lowest \in Fds /\ fd' = [fd EXCEPT ![Lowest] = "session"]
    BY <1>1, LowestIsFree DEF ConnectStart
  <2> QED
    BY <1>b, <2>1
<1>2. CASE Stage1
  <2>1. PICK n \in 0 .. Len(wire) : fd' = fd \/ fd' = Closed(ReadData(n).sockId)
    BY <1>2 DEF Stage1, ConnectFails
  <2> QED
    BY <1>0, <1>a, <2>1
<1>3. CASE Stage2
  <2>1. PICK n \in 0 .. (IF WaitFails THEN 0 ELSE Len(wire)) :
          fd' = fd \/ fd' = Closed(ReadData(n).sockId)
    BY <1>3 DEF Stage2, ConnectFails
  <2> QED
    BY <1>0, <1>a, <2>1
<1>4. CASE RecvFails
  <2>1. fd' = fd \/ fd' = Closed(session.sockId)
    BY <1>4 DEF RecvFails
  <2> QED
    BY <1>0, <1>a, <2>1
<1>5. CASE ClientDisconnect \/ ClientFree
  <2>1. fd' = Closed(session.sockId)
    BY <1>5 DEF ClientDisconnect, ClientFree, SessionDisconnect
  <2> QED
    BY <1>a, <2>1
<1>6. CASE Ignore
  BY <1>0, <1>6 DEF Ignore
<1>7. CASE OtherOpens
  <2>1. Lowest \in Fds /\ fd' = [fd EXCEPT ![Lowest] = "other"]
    BY <1>7, LowestIsFree DEF OtherOpens
  <2> QED
    BY <1>b, <2>1
<1>8. CASE \E f \in Fds : OtherCloses(f)
  BY <1>b, <1>8 DEF OtherCloses
<1>9. CASE ConnectAgain \/ ConnectRefused \/ RecvStart \/ RecvInterrupted \/ RecvWait \/ Send
  <2>1. fd' = fd
    BY <1>9 DEF ConnectAgain, ConnectRefused, RecvStart, RecvInterrupted, RecvWait, Send
  <2> QED
    BY <1>0, <2>1
<1>10. CASE ServerStream \/ ServerAccepts \/ ServerRefuses \/ ServerError \/ ServerMessage
            \/ ServerPresence \/ ServerCloses
  <2>1. fd' = fd
    BY <1>10 DEF ServerStream, ServerAccepts, ServerRefuses, ServerError, ServerMessage,
                 ServerPresence, ServerCloses, Says
  <2> QED
    BY <1>0, <2>1
<1> QED
  BY <1>1, <1>2, <1>3, <1>4, <1>5, <1>6, <1>7, <1>8, <1>9, <1>10 DEF Next

\* The calls stay what they can be: what is left to wait is more than 0, or the call ends.
LEMMA CallStep ==
    ASSUME TypeOK, Next
    PROVE  call' \in [op : {"none", "stage1", "stage2", "recv"}, waited : Nat, remaining : Nat \cup {-1}]
<1> DEFINE T == [op : {"none", "stage1", "stage2", "recv"}, waited : Nat, remaining : Nat \cup {-1}]
<1>0. call \in T
  BY DEF TypeOK
<1>a. Idle \in T
  BY DEF Idle
<1>1. CASE ConnectStart
  <2>1. call' = [Idle EXCEPT !.op = "stage1"]
    BY <1>1 DEF ConnectStart
  <2> QED
    BY <1>a, <2>1
<1>2. CASE Stage1
  <2>1. call' \in {Idle, [call EXCEPT !.op = "stage2"]}
    BY <1>2 DEF Stage1, ConnectFails
  <2> QED
    BY <1>0, <1>a, <2>1
<1>3. CASE Stage2 \/ RecvFails \/ RecvInterrupted \/ ClientFree
  <2>1. call' = Idle
    BY <1>3 DEF Stage2, ConnectFails, RecvFails, RecvInterrupted, ClientFree
  <2> QED
    BY <1>a, <2>1
<1>4. CASE RecvStart
  <2>1. PICK t \in Timeouts : call' = Idle \/ call' = [op |-> "recv", waited |-> 0, remaining |-> t]
    BY <1>4 DEF RecvStart, Dequeue
  <2>2. t \in Nat \cup {-1}
    BY TransportAssumption DEF TransportAssumption
  <2> QED
    BY <1>a, <2>1, <2>2
<1>5. CASE RecvWait
  <2>1. \/ call' = call \/ call' = Idle
        \/ \E d \in 0 .. call.remaining :
             Left(d) > 0 /\ call' = [call EXCEPT !.waited = @ + d, !.remaining = Left(d)]
    BY <1>5 DEF RecvWait, Dequeue
  <2>2. ASSUME NEW d \in 0 .. call.remaining, Left(d) > 0,
               call' = [call EXCEPT !.waited = @ + d, !.remaining = Left(d)]
        PROVE  call' \in T
    <3>1. call.waited + d \in Nat /\ Left(d) \in Nat
      BY <1>0, <2>2 DEF Left
    <3> QED
      BY <1>0, <2>2, <3>1
  <2> QED
    BY <1>0, <1>a, <2>1, <2>2
<1>6. CASE ConnectAgain \/ ConnectRefused \/ Send \/ ClientDisconnect \/ Ignore \/ OtherOpens
           \/ \E f \in Fds : OtherCloses(f)
  <2>1. call' = call
    BY <1>6 DEF ConnectAgain, ConnectRefused, Send, ClientDisconnect, Ignore, OtherOpens, OtherCloses
  <2> QED
    BY <1>0, <2>1
<1>7. CASE ServerStream \/ ServerAccepts \/ ServerRefuses \/ ServerError \/ ServerMessage
           \/ ServerPresence \/ ServerCloses
  <2>1. call' = call
    BY <1>7 DEF ServerStream, ServerAccepts, ServerRefuses, ServerError, ServerMessage,
                ServerPresence, ServerCloses, Says
  <2> QED
    BY <1>0, <2>1
<1> QED
  BY <1>1, <1>2, <1>3, <1>4, <1>5, <1>6, <1>7 DEF Next

\* So do what the server thinks and the counters.
LEMMA RestStep ==
    ASSUME TypeOK, Next
    PROVE  /\ server' \in {"none", "opened", "streamed", "asked", "refusing", "in", "left", "refused"}
           /\ stray' \in BOOLEAN /\ connects' \in Nat /\ others' \in Nat
<1>0. /\ server \in {"none", "opened", "streamed", "asked", "refusing", "in", "left", "refused"}
      /\ stray \in BOOLEAN /\ connects \in Nat /\ others \in Nat
  BY DEF TypeOK
<1>1. CASE ConnectAgain \/ ConnectRefused \/ RecvInterrupted \/ \E f \in Fds : OtherCloses(f)
  BY <1>0, <1>1 DEF ConnectAgain, ConnectRefused, RecvInterrupted, OtherCloses
<1>2. CASE ConnectStart \/ OtherOpens
  BY <1>0, <1>2 DEF ConnectStart, OtherOpens
<1>3. CASE Stage1
  <2>1. UNCHANGED <<connects, others>>
    BY <1>3 DEF Stage1
  <2>2. \/ server' \in {server, "asked", "none"} /\ (UNCHANGED stray \/ \E f : stray' = (stray \/ Foreign(f)))
    BY <1>3 DEF Stage1, ConnectFails
  <2> QED
    BY <1>0, <2>1, <2>2
<1>4. CASE Stage2
  <2>1. UNCHANGED <<connects, others>>
    BY <1>4 DEF Stage2
  <2>2. server' \in {server, "none"} /\ (UNCHANGED stray \/ \E f : stray' = (stray \/ Foreign(f)))
    BY <1>4 DEF Stage2, ConnectFails
  <2> QED
    BY <1>0, <2>1, <2>2
<1>5. CASE RecvStart \/ RecvFails \/ RecvWait
  <2>1. UNCHANGED <<server, stray, connects, others>>
    BY <1>5 DEF RecvStart, RecvFails, RecvWait
  <2> QED
    BY <1>0, <2>1
<1>6. CASE Send
  BY <1>0, <1>6 DEF Send
<1>7. CASE ClientDisconnect \/ ClientFree
  <2>1. UNCHANGED <<connects, others>> /\ server' = "none"
        /\ stray' = (stray \/ (session.sockId # 0 /\ Foreign(session.sockId)))
    BY <1>7 DEF ClientDisconnect, ClientFree, SessionDisconnect
  <2> QED
    BY <1>0, <2>1
<1>8. CASE Ignore
  BY <1>0, <1>8 DEF Ignore, ClientDiscard
<1>9. CASE ServerStream \/ ServerAccepts \/ ServerRefuses \/ ServerError \/ ServerMessage
           \/ ServerPresence \/ ServerCloses
  <2>1. UNCHANGED <<stray, connects, others>>
    BY <1>9 DEF ServerStream, ServerAccepts, ServerRefuses, ServerError, ServerMessage,
                ServerPresence, ServerCloses, Says
  <2>2. server' \in {server, "streamed", "in", "refusing", "left", "refused"}
    BY <1>9 DEF ServerStream, ServerAccepts, ServerRefuses, ServerError, ServerMessage,
                ServerPresence, ServerCloses, Leaves
  <2> QED
    BY <1>0, <2>1, <2>2
<1> QED
  BY <1>1, <1>2, <1>3, <1>4, <1>5, <1>6, <1>7, <1>8, <1>9 DEF Next

\* The types are kept.
LEMMA TypeStep ==
    ASSUME Reuse = FALSE, TypeOK, HeldInv, Next
    PROVE  TypeOK'
<1>1. /\ session' \in Sessions /\ wire' \in Seq(Tokens) /\ sent' \in Seq(Messages)
      /\ taken' \in Seq(Messages) /\ closed' \in BOOLEAN
  BY Kinds, KindTypes
<1> QED
  BY <1>1, FdStep, CallStep, RestStep DEF TypeOK

\* It holds before the first connection.
LEMMA InitInv ==
    Init => IInv
<1> SUFFICES ASSUME Init PROVE IInv
  OBVIOUS
<1>1. /\ session = NewSession /\ fd = [f \in Fds |-> "free"] /\ call = Idle /\ server = "none"
      /\ wire = << >> /\ sent = << >> /\ taken = << >> /\ ends = "none"
      /\ stray = FALSE /\ closed = FALSE /\ connects = 0 /\ others = 0
  BY DEF Init
<1>2. TypeOK
  <2>1. << >> \in Seq(Messages) /\ << >> \in Seq(Tokens)
    OBVIOUS
  <2>2. Idle \in [op : {"none", "stage1", "stage2", "recv"}, waited : Nat, remaining : Nat \cup {-1}]
    BY DEF Idle
  <2>3. [f \in Fds |-> "free"] \in [Fds -> {"free", "session", "other", "ignored"}]
    OBVIOUS
  <2> QED
    BY <1>1, <2>1, <2>2, <2>3, NewFacts DEF TypeOK
<1>3. HeldInv
  BY <1>1, NewFacts DEF HeldInv, Idle
<1>4. LoginInv
  BY <1>1, NewFacts DEF LoginInv
<1>5. WholeInv
  <2>1. << >> \o session.queue = << >> /\ << >> \in Seq(Messages) /\ << >> \o << >> = << >>
    BY <1>1, NewFacts
  <2>2. IsPrefix(<< >>, << >> \o << >>)
    BY <2>1, PrefixOfJoin
  <2> QED
    BY <1>1, <2>1, <2>2, NewFacts DEF WholeInv
<1> QED
  BY <1>2, <1>3, <1>4, <1>5 DEF IInv

\* Each step keeps it.
LEMMA NextInv ==
    ASSUME Reuse = FALSE, IInv, [Next]_vars
    PROVE  IInv'
<1>1. CASE Next
  <2>1. TypeOK /\ HeldInv /\ LoginInv /\ WholeInv
    BY DEF IInv
  <2>2. TypeOK'
    BY <1>1, <2>1, TypeStep
  <2>3. HeldInv'
    BY <1>1, <2>1, HeldStep
  <2>4. LoginInv'
    BY <1>1, <2>1, LoginStep
  <2>5. WholeInv'
    BY <1>1, <2>1, Kinds, WholeStep
  <2> QED
    BY <2>2, <2>3, <2>4, <2>5 DEF IInv
<1>2. CASE UNCHANGED vars
  BY <1>2 DEF vars, IInv, TypeOK, HeldInv, LoginInv, WholeInv
<1> QED
  BY <1>1, <1>2

-----------------------------------------------------------------------------
(* The theorems.                                                           *)

\* A descriptor that is used and is not the session's is one that the server closed.
LEMMA OwnStep ==
    ASSUME Reuse = FALSE, TypeOK, HeldInv, [Next]_vars, stray'
    PROVE  stray \/ closed
<1> SUFFICES ASSUME ~stray, ~closed PROVE FALSE
  OBVIOUS
<1>1. ~(session.sockId # 0 /\ Foreign(session.sockId))
  <2>1. session.sockId # 0 => session.sockId \in Fds /\ fd[session.sockId] = "session"
    BY WaitLemma DEF HeldInv
  <2> QED
    BY <2>1 DEF Foreign, Owner
<1>2. ASSUME NEW n \in 0 .. Len(wire) PROVE ReadData(n).sockId = session.sockId
  BY ReadLemma
<1>3. CASE Stage1
  <2>1. session.sockId # 0
    BY <1>3 DEF Stage1, HeldInv
  <2>2. PICK n \in 0 .. Len(wire) : UNCHANGED stray \/ ConnectFails(ReadData(n))
    BY <1>3 DEF Stage1
  <2> QED
    BY <1>1, <1>2, <2>1, <2>2 DEF ConnectFails
<1>4. CASE Stage2
  <2>1. session.sockId # 0
    BY <1>4 DEF Stage2, HeldInv
  <2>2. PICK n \in 0 .. (IF WaitFails THEN 0 ELSE Len(wire)) : UNCHANGED stray \/ ConnectFails(ReadData(n))
    BY <1>4 DEF Stage2
  <2>3. n \in 0 .. Len(wire)
    BY <2>2, ReadNone
  <2> QED
    BY <1>1, <1>2, <2>1, <2>2, <2>3 DEF ConnectFails
<1>5. CASE Send
  <2>1. session.sockId # 0
    BY <1>5, NewFacts DEF Send, InUse
  <2> QED
    BY <1>1, <1>5, <2>1 DEF Send
<1>6. CASE ClientDisconnect \/ ClientFree
  BY <1>1, <1>6 DEF ClientDisconnect, ClientFree, SessionDisconnect
<1>7. CASE Ignore
  BY <1>7 DEF Ignore, ClientDiscard
<1>8. CASE UNCHANGED vars
  BY <1>8 DEF vars
<1>9. CASE ConnectAgain \/ ConnectRefused \/ ConnectStart \/ RecvStart \/ RecvFails \/ RecvInterrupted
           \/ RecvWait \/ OtherOpens \/ \E f \in Fds : OtherCloses(f)
  BY <1>9 DEF ConnectAgain, ConnectRefused, ConnectStart, RecvStart, RecvFails, RecvInterrupted,
              RecvWait, OtherOpens, OtherCloses
<1>10. CASE ServerStream \/ ServerAccepts \/ ServerRefuses \/ ServerError \/ ServerMessage
            \/ ServerPresence \/ ServerCloses
  BY <1>10 DEF ServerStream, ServerAccepts, ServerRefuses, ServerError, ServerMessage,
               ServerPresence, ServerCloses, Says
<1> QED
  BY <1>3, <1>4, <1>5, <1>6, <1>7, <1>8, <1>9, <1>10 DEF Next

\* What the invariant says of the messages.
LEMMA WholeNow ==
    ASSUME IInv
    PROVE  MessagesWhole
<1> DEFINE got == taken \o session.queue
           unread == {i \in DOMAIN wire : wire[i] = Close("message")}
<1>0. /\ TypeOK /\ HeldInv /\ WholeInv /\ session \in Sessions /\ wire \in Seq(Tokens)
      /\ taken \in Seq(Messages) /\ sent \in Seq(Messages)
  BY DEF IInv, TypeOK
<1>1. IsPrefix(got, sent)
  BY <1>0 DEF WholeInv
<1>2. ASSUME Owner(session.sockId) = "session"
      PROVE  Len(got) + Cardinality(unread) = Len(sent)
  <2>1. session.sockId # 0 /\ ~closed
    BY <1>0, <1>2, WaitLemma DEF WaitFails
  <2>2. Sound(taken, session, wire, sent)
    BY <1>0, <2>1 DEF WholeInv
  <2>3. /\ Cardinality(Ends(wire, Len(wire))) \in Nat
        /\ Len(All(session, wire).queue) = Len(session.queue) + Cardinality(Ends(wire, Len(wire)))
    BY <1>0, <2>2, QueueCount DEF Sound
  <2>4. unread = Ends(wire, Len(wire))
    BY <1>0 DEF Ends
  <2>5. All(session, wire).queue \in Seq(Messages) /\ session.queue \in Seq(Messages)
    BY <1>0, AllFacts DEF Sessions
  <2> DEFINE a == All(session, wire).queue
             q == session.queue
             c == Cardinality(unread)
  <2>6. /\ a \in Seq(Messages) /\ q \in Seq(Messages) /\ c \in Nat
        /\ Len(a) = Len(q) + c /\ taken \o a = sent
    BY <2>2, <2>3, <2>4, <2>5 DEF Sound
  <2>7. Len(taken \o q) + c = Len(sent)
    <3> HIDE DEF a, q, c
    <3>0. taken \in Seq(Messages) /\ a \in Seq(Messages) /\ q \in Seq(Messages)
      BY <1>0, <2>6
    <3>1. Len(taken \o a) = Len(taken) + Len(a) /\ Len(taken \o q) = Len(taken) + Len(q)
      BY <3>0
    <3>2. Len(taken) \in Nat /\ Len(q) \in Nat
      BY <3>0
    <3> QED
      BY <2>6, <3>1, <3>2
  <2> QED
    BY <2>7
<1> QED
  BY <1>1, <1>2 DEF MessagesWhole

\* The invariant of a client that is freed when it is disconnected, as the programs do:
\* the descriptor is the session's until the server closes the connection, a login was
\* accepted, and what was sent is what was read and what will be.
THEOREM TransportInvariance ==
    ASSUME Reuse = FALSE
    PROVE  Spec => []IInv
<1>1. Init => IInv
  BY InitInv
<1>2. IInv /\ [Next]_vars => IInv'
  BY NextInv
<1> QED
  BY <1>1, <1>2, PTL DEF Spec

\* In whatever pieces the messages of the server arrive, client_recv returns them whole,
\* once, in order and marked as errors only if they are, and none that was read is lost.
THEOREM WholeSafe ==
    ASSUME Reuse = FALSE
    PROVE  Spec => []MessagesWhole
<1>1. IInv => MessagesWhole
  BY WholeNow
<1> QED
  BY <1>1, TransportInvariance, PTL

\* A call of session_connect that reports success had its login accepted by the server.
THEOREM LoginSafe ==
    ASSUME Reuse = FALSE
    PROVE  Spec => []ConnectedIsLoggedIn
<1>1. IInv => ConnectedIsLoggedIn
  BY DEF IInv, LoginInv, ConnectedIsLoggedIn
<1> QED
  BY <1>1, TransportInvariance, PTL

\* No process writes to or closes a descriptor that is not its session's, unless the
\* server has closed the connection.
THEOREM OwnDescriptorSafe ==
    ASSUME Reuse = FALSE
    PROVE  Spec => OwnDescriptor
<1>1. IInv /\ [Next]_vars => [stray' => stray \/ closed]_vars
  BY OwnStep DEF IInv
<1> QED
  BY <1>1, TransportInvariance, PTL DEF Spec, OwnDescriptor

=============================================================================
