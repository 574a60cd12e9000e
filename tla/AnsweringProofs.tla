---------------------------- MODULE AnsweringProofs ----------------------------
(***************************************************************************)
(* Proofs about the two ends of a request that MCSession puts beside       *)
(* AppSession: the worker that answers (MethodResponse) and the client     *)
(* that waits (RequestRecv).  However requests run inside one another on   *)
(* one buffer, responses leave whole and, but for what chunks and failures *)
(* do to their order, as they were made and before the STATUS that ends    *)
(* them; and a call for one lasts no longer than it was granted.           *)
(***************************************************************************)
EXTENDS MCSession, FiniteSetTheorems, SequenceTheorems, TLAPS

-----------------------------------------------------------------------------
(* What was sent and what is bundled, as one sequence.                     *)

\* The responses of a request that are in a sequence, and whether it has others.
Numbers(s, r)  == {s[i].k : i \in {i \in DOMAIN s : s[i].req = r /\ Worker!Completes(s[i])}}
Ended(s, r)    == \E i \in DOMAIN s : s[i].req = r /\ Worker!Ending(s[i])
Without(s, r)  == \A i \in DOMAIN s : s[i].req # r
NoResult(s, r) == \A i \in DOMAIN s : s[i].req = r => s[i].kind # "RESULT"

\* Messages follow those they may follow, and behind or before a response are those that were
\* made before it.
Ordered(s) ==
    /\ \A i, j \in DOMAIN s : i < j /\ s[i].req = s[j].req => Worker!Follows(s[j], s[i])
    /\ \A j \in DOMAIN s : Worker!Completes(s[j]) =>
         s[j].k >= 1 /\ 1 .. s[j].k - 1 \subseteq Numbers(s, s[j].req)

Issued == wire \o outbuf
Read   == asked - Len(inbound)

\* What a frame may be.
Shaped(f) ==
    /\ f.pc = "run" <=> f.then = "none"
    /\ f.pc = "run" => ~f.over /\ f.held = << >>
    /\ f.saved => f.atomic
    /\ f.completed /\ f.atomic => f.saved
    /\ f.then = "append" => /\ ~f.atomic /\ ~f.completed /\ ~f.over /\ f.made >= 1
                            /\ f.held = <<Worker!Msg(f.req, "RESULT", f.made)>>
    /\ f.then = "flush" => ~f.atomic /\ f.completed /\ f.held = << >>
    /\ f.then = "send" =>
         /\ f.over
         /\ f.held \in {<<Worker!Msg(f.req, "EXCEPTION", 0)>>, <<Worker!Msg(f.req, "COMPLETE", 0)>>,
                        <<Worker!Msg(f.req, "RESULT", 1), Worker!Msg(f.req, "COMPLETE", 0)>>}

WorkerTyped ==
    /\ conduct \in Conducts
    /\ frames \in Seq(Worker!Frame) /\ outbuf \in Seq(Worker!Message) /\ inbound \in Seq(Worker!Reqs)
    /\ asked \in 0 .. MaxCalls /\ wire \in Seq(Worker!Message)
    /\ \A n \in DOMAIN frames : Shaped(frames[n])

\* Requests are read in the order in which they were sent, and those in progress are
\* inside one another.
ReadInv ==
    /\ Len(inbound) <= asked /\ Len(frames) <= Read
    /\ \A i \in DOMAIN inbound : inbound[i] = Read + i
    /\ \A n \in DOMAIN frames : frames[n].req <= Read
    /\ \A m, n \in DOMAIN frames : m < n => frames[m].req < frames[n].req
    /\ \A i \in DOMAIN Issued : Issued[i].req <= Read

\* A part is followed by the next; nothing that is bundled is one.
Chunked(s) ==
    \A i \in DOMAIN s : s[i].kind = "PARTIAL" =>
        /\ i + 1 \in DOMAIN s /\ s[i + 1].req = s[i].req /\ s[i + 1].k = s[i].k
        /\ s[i + 1].kind \in {"PARTIAL", "NOCONTENT"}
ChunkInv ==
    /\ Chunked(wire)
    /\ \A i \in DOMAIN outbuf : outbuf[i].kind \in {"RESULT", "COMPLETE"}

\* What a request in progress has issued so far: an atomic one nothing, until its list goes
\* out in chunks.
Gone(f) ==
    IF f.atomic THEN IF f.held = <<Worker!Msg(f.req, "COMPLETE", 0)>> THEN 1 ELSE 0
    ELSE IF f.then = "append" THEN f.made - 1 ELSE f.made
Failing(f) == f.held = <<Worker!Msg(f.req, "EXCEPTION", 0)>>
Placed(f, s) ==
    /\ Numbers(s, f.req) = 1 .. Gone(f)
    /\ ~f.completed \/ f.atomic => ~Ended(s, f.req)
    /\ f.atomic => NoResult(s, f.req)
    /\ f.then = "send" => f.atomic \/ (Failing(f) /\ ~f.completed)
    /\ Failing(f) => "fail" \in conduct \/ Numbers(s, f.req) = {}
OrderInv == Ordered(Issued) /\ \A n \in DOMAIN frames : Placed(frames[n], Issued)

\* A request that was read is in progress or has its end.
EndInv ==
    /\ "silent" \notin conduct =>
         \A r \in 1 .. Read : Ended(Issued, r) \/ \E n \in DOMAIN frames : frames[n].req = r
    /\ \A n \in DOMAIN frames : ~frames[n].atomic /\ frames[n].completed => Ended(Issued, frames[n].req)
    /\ (\E i \in DOMAIN outbuf : Worker!Ending(outbuf[i]))
         => \E n \in DOMAIN frames : frames[n].then = "flush"

\* The bundle has its limit, and room for the STATUS of each request that is being completed.
Flushing(st) == {n \in DOMAIN st : st[n].then = "flush"}
SizeInv == Len(outbuf) <= MaxBundle + Cardinality(Flushing(frames))

WorkerInv == WorkerTyped /\ ReadInv /\ ChunkInv /\ OrderInv /\ EndInv /\ SizeInv

\* A message put into a sequence, behind all others of its request.
Inserted(a, b, m) == Append(a, m) \o b

InsertFacts(a, b, m, s, t) ==
    /\ s \in Seq(Worker!Message) /\ t \in Seq(Worker!Message)
    /\ Len(a) \in Nat /\ Len(b) \in Nat /\ Len(s) = Len(a) + Len(b) /\ Len(t) = Len(s) + 1
    /\ t[Len(a) + 1] = m
    /\ \A i \in 1 .. Len(a) : t[i] = s[i] /\ s[i] = a[i]
    /\ \A i \in Len(a) + 1 .. Len(s) : t[i + 1] = s[i] /\ s[i] = b[i - Len(a)]

\* Where everything is after a message is put in.
LEMMA InsertedIs ==
    ASSUME NEW a \in Seq(Worker!Message), NEW b \in Seq(Worker!Message), NEW m \in Worker!Message
    PROVE  InsertFacts(a, b, m, a \o b, Inserted(a, b, m))
<1> DEFINE c == Append(a, m)
<1>1. c \in Seq(Worker!Message) /\ Len(c) = Len(a) + 1 /\ c[Len(a) + 1] = m
        /\ \A i \in 1 .. Len(a) : c[i] = a[i]
  OBVIOUS
<1> HIDE DEF c
<1>2. Len(a) \in Nat /\ Len(b) \in Nat
  OBVIOUS
<1>3. a \o b \in Seq(Worker!Message) /\ Len(a \o b) = Len(a) + Len(b)
  OBVIOUS
<1>4. c \o b \in Seq(Worker!Message) /\ Len(c \o b) = Len(a) + 1 + Len(b)
  BY <1>1
<1>5. \A i \in 1 .. Len(a) : (a \o b)[i] = a[i]
  OBVIOUS
<1>6. \A i \in Len(a) + 1 .. Len(a) + Len(b) : (a \o b)[i] = b[i - Len(a)]
  OBVIOUS
<1>7. \A i \in 1 .. Len(a) + 1 : (c \o b)[i] = c[i]
  BY <1>1
<1>8. \A i \in Len(a) + 1 .. Len(a) + Len(b) : (c \o b)[i + 1] = b[i - Len(a)]
  <2> TAKE i \in Len(a) + 1 .. Len(a) + Len(b)
  <2>1. i + 1 \in Len(c) + 1 .. Len(c) + Len(b) /\ (i + 1) - Len(c) = i - Len(a)
    BY <1>1, <1>2
  <2> QED
    BY <1>1, <2>1
<1> QED
  BY <1>1, <1>2, <1>3, <1>4, <1>5, <1>6, <1>7, <1>8 DEF InsertFacts, Inserted, c

\* The places of the messages, and that they keep their order.
Moved(n, i) == IF i <= n THEN i ELSE i + 1

InsertPlaces(n, m, s, t) ==
    /\ n \in Nat /\ s \in Seq(Worker!Message) /\ t \in Seq(Worker!Message) /\ Len(t) = Len(s) + 1
    /\ n + 1 \in DOMAIN t /\ t[n + 1] = m /\ n <= Len(s)
    /\ \A i \in DOMAIN s : Moved(n, i) \in DOMAIN t /\ Moved(n, i) # n + 1 /\ t[Moved(n, i)] = s[i]
    /\ \A j \in DOMAIN t : j = n + 1 \/ \E i \in DOMAIN s : j = Moved(n, i) /\ t[j] = s[i]
    /\ \A i, j \in DOMAIN s : i < j <=> Moved(n, i) < Moved(n, j)

LEMMA InsertedAt ==
    ASSUME NEW a \in Seq(Worker!Message), NEW b \in Seq(Worker!Message), NEW m \in Worker!Message
    PROVE  InsertPlaces(Len(a), m, a \o b, Inserted(a, b, m))
<1> DEFINE s == a \o b
           t == Inserted(a, b, m)
           n == Len(a)
<1>0. InsertFacts(a, b, m, s, t)
  BY InsertedIs
<1> HIDE DEF s, t
<1>1. /\ s \in Seq(Worker!Message) /\ t \in Seq(Worker!Message)
      /\ n \in Nat /\ Len(b) \in Nat /\ Len(s) = n + Len(b) /\ Len(t) = Len(s) + 1
      /\ t[n + 1] = m
      /\ \A i \in 1 .. n : t[i] = s[i]
      /\ \A i \in n + 1 .. Len(s) : t[i + 1] = s[i]
  BY <1>0 DEF InsertFacts
<1> HIDE DEF n
<1>2. DOMAIN s = 1 .. Len(s) /\ DOMAIN t = 1 .. Len(s) + 1
  BY <1>1
<1>3. n + 1 \in DOMAIN t /\ n <= Len(s)
  BY <1>1, <1>2
<1>4. ASSUME NEW i \in DOMAIN s
      PROVE  Moved(n, i) \in DOMAIN t /\ Moved(n, i) # n + 1 /\ t[Moved(n, i)] = s[i]
  BY <1>1, <1>2 DEF Moved
<1>5. ASSUME NEW j \in DOMAIN t, j # n + 1
      PROVE  \E i \in DOMAIN s : j = Moved(n, i) /\ t[j] = s[i]
  <2>1. CASE j <= n
    <3>1. j \in DOMAIN s /\ Moved(n, j) = j
      BY <1>1, <1>2, <2>1 DEF Moved
    <3> QED
      BY <1>4, <3>1
  <2>2. CASE j > n
    <3>1. j - 1 \in DOMAIN s /\ Moved(n, j - 1) = j
      BY <1>1, <1>2, <1>5, <2>2 DEF Moved
    <3> QED
      BY <1>4, <3>1
  <2> QED
    BY <1>1, <1>2, <2>1, <2>2
<1>6. \A i, j \in DOMAIN s : i < j <=> Moved(n, i) < Moved(n, j)
  BY <1>1, <1>2 DEF Moved
<1>7. InsertPlaces(n, m, s, t)
  BY <1>1, <1>3, <1>4, <1>5, <1>6 DEF InsertPlaces
<1> QED
  BY <1>7 DEF n, s, t

\* What it means for each request.
Keeps(s, t, r) ==
    /\ Numbers(t, r) = Numbers(s, r) /\ (Ended(t, r) <=> Ended(s, r)) /\ (NoResult(s, r) => NoResult(t, r))

\* All that is new is m, and it is new for its request.
Gains(m, s, t) ==
    /\ \A r : r # m.req => Keeps(s, t, r)
    /\ Numbers(t, m.req) = IF Worker!Completes(m) THEN Numbers(s, m.req) \cup {m.k} ELSE Numbers(s, m.req)
    /\ Ended(t, m.req) <=> Ended(s, m.req) \/ Worker!Ending(m)

LEMMA InsertedGains ==
    ASSUME NEW n, NEW m, NEW s, NEW t, InsertPlaces(n, m, s, t)
    PROVE  Gains(m, s, t)
<1>1. /\ n + 1 \in DOMAIN t /\ t[n + 1] = m
      /\ \A i \in DOMAIN s : Moved(n, i) \in DOMAIN t /\ t[Moved(n, i)] = s[i]
      /\ \A j \in DOMAIN t : j = n + 1 \/ \E i \in DOMAIN s : j = Moved(n, i) /\ t[j] = s[i]
  BY DEF InsertPlaces
<1>2. ASSUME NEW r, NEW x PROVE x \in Numbers(t, r) <=> x \in Numbers(s, r)
               \/ (r = m.req /\ Worker!Completes(m) /\ x = m.k)
  <2>1. x \in Numbers(t, r) <=> \E j \in DOMAIN t : t[j].req = r /\ Worker!Completes(t[j]) /\ x = t[j].k
    BY DEF Numbers
  <2>2. x \in Numbers(s, r) <=> \E i \in DOMAIN s : s[i].req = r /\ Worker!Completes(s[i]) /\ x = s[i].k
    BY DEF Numbers
  <2>3. ASSUME NEW j \in DOMAIN t, t[j].req = r, Worker!Completes(t[j]), x = t[j].k
        PROVE  (\E i \in DOMAIN s : s[i].req = r /\ Worker!Completes(s[i]) /\ x = s[i].k)
               \/ (r = m.req /\ Worker!Completes(m) /\ x = m.k)
    <3>1. CASE j = n + 1
      BY <1>1, <2>3, <3>1
    <3>2. CASE j # n + 1
      <4>1. PICK i \in DOMAIN s : t[j] = s[i]
        BY <1>1, <3>2
      <4> QED
        BY <2>3, <4>1
    <3> QED
      BY <3>1, <3>2
  <2>4. ASSUME NEW i \in DOMAIN s, s[i].req = r, Worker!Completes(s[i]), x = s[i].k
        PROVE  \E j \in DOMAIN t : t[j].req = r /\ Worker!Completes(t[j]) /\ x = t[j].k
    BY <1>1, <2>4
  <2>5. ASSUME r = m.req, Worker!Completes(m), x = m.k
        PROVE  \E j \in DOMAIN t : t[j].req = r /\ Worker!Completes(t[j]) /\ x = t[j].k
    BY <1>1, <2>5
  <2> QED
    BY <2>1, <2>2, <2>3, <2>4, <2>5
<1>3. ASSUME NEW r PROVE Ended(t, r) <=> Ended(s, r) \/ (r = m.req /\ Worker!Ending(m))
  <2>1. ASSUME NEW j \in DOMAIN t, t[j].req = r, Worker!Ending(t[j])
                 PROVE Ended(s, r) \/ (r = m.req /\ Worker!Ending(m))
    <3>1. CASE j = n + 1
      BY <1>1, <2>1, <3>1
    <3>2. CASE j # n + 1
      <4>1. PICK i \in DOMAIN s : t[j] = s[i]
        BY <1>1, <3>2
      <4> QED
        BY <2>1, <4>1 DEF Ended
    <3> QED
      BY <3>1, <3>2
  <2>2. ASSUME NEW i \in DOMAIN s, s[i].req = r, Worker!Ending(s[i]) PROVE Ended(t, r)
    BY <1>1, <2>2 DEF Ended
  <2>3. ASSUME r = m.req, Worker!Ending(m) PROVE Ended(t, r)
    BY <1>1, <2>3 DEF Ended
  <2> QED
    BY <2>1, <2>2, <2>3 DEF Ended
<1>4. ASSUME NEW r, r # m.req, NoResult(s, r) PROVE NoResult(t, r)
  BY <1>1, <1>4 DEF NoResult
<1>5. \A r : r # m.req => Numbers(t, r) = Numbers(s, r)
  BY <1>2
<1>6. Numbers(t, m.req) = IF Worker!Completes(m) THEN Numbers(s, m.req) \cup {m.k} ELSE Numbers(s, m.req)
  <2>1. CASE Worker!Completes(m)
    <3>1. \A x : x \in Numbers(t, m.req) <=> x \in Numbers(s, m.req) \cup {m.k}
      BY <1>2, <2>1
    <3> QED
      BY <2>1, <3>1
  <2>2. CASE ~Worker!Completes(m)
    <3>1. \A x : x \in Numbers(t, m.req) <=> x \in Numbers(s, m.req)
      BY <1>2, <2>2
    <3> QED
      BY <2>2, <3>1
  <2> QED
    BY <2>1, <2>2
<1> QED
  BY <1>3, <1>4, <1>5, <1>6 DEF Keeps, Gains

\* A message whose turn it is, and which may go before those of its request that it is put
\* before.
Overtakes(m) ==
    \/ m.kind = "PARTIAL"
    \/ m.kind = "NOCONTENT" /\ "big" \in conduct
    \/ m.kind = "EXCEPTION" /\ "fail" \in conduct
Placeable(n, m, s) ==
    /\ \A i \in DOMAIN s : s[i].req = m.req /\ i > n => s[i].kind = "RESULT" /\ Overtakes(m)
    /\ ~Ended(s, m.req)
    /\ Worker!Completes(m) => m.k >= 1 /\ Numbers(s, m.req) = 1 .. m.k - 1

\* Of two messages, one was there and the other comes behind it, or before it.
LEMMA ComesBehind ==
    ASSUME NEW m, NEW s, ~Ended(s, m.req), Worker!Completes(m) => Numbers(s, m.req) = 1 .. m.k - 1,
           m.k \in Int, NEW i \in DOMAIN s, s[i].req = m.req
    PROVE  Worker!Follows(m, s[i])
<1>1. ~Worker!Ending(s[i])
  BY DEF Ended
<1>2. ASSUME Worker!Completes(s[i]), Worker!Completes(m) PROVE s[i].k < m.k
  <2>1. s[i].k \in Numbers(s, m.req)
    BY <1>2 DEF Numbers
  <2> QED
    BY <1>2, <2>1
<1> QED
  BY <1>1, <1>2 DEF Worker!Follows

LEMMA ComesBefore ==
    ASSUME NEW m, NEW s, Worker!Completes(m) => Numbers(s, m.req) = 1 .. m.k - 1,
           m.k \in Int, NEW i \in DOMAIN s, s[i].req = m.req, s[i].kind = "RESULT", Overtakes(m)
    PROVE  Worker!Follows(s[i], m)
<1>1. Worker!Ending(m) => "fail" \in conduct /\ m.kind = "EXCEPTION"
  BY DEF Worker!Ending, Overtakes
<1>2. ASSUME Worker!Completes(m)
      PROVE  "big" \in conduct /\ m.kind = "NOCONTENT" /\ m.k # s[i].k
  <2>1. Worker!Completes(s[i])
    BY DEF Worker!Completes
  <2>2. s[i].k \in 1 .. m.k - 1
    BY <1>2, <2>1 DEF Numbers
  <2>3. "big" \in conduct /\ m.kind = "NOCONTENT"
    BY <1>2 DEF Worker!Completes, Overtakes
  <2> QED
    BY <2>2, <2>3
<1> QED
  BY <1>1, <1>2 DEF Worker!Follows

\* Order is kept when a message is put in whose turn it is.
LEMMA InsertedOrdered ==
    ASSUME NEW n, NEW m, NEW s, NEW t, InsertPlaces(n, m, s, t), Placeable(n, m, s), Ordered(s),
           m.k \in Int
    PROVE  Ordered(t)
<1>1. /\ n \in Nat /\ n <= Len(s) /\ Len(s) \in Nat /\ DOMAIN s = 1 .. Len(s) /\ DOMAIN t = 1 .. Len(s) + 1
      /\ n + 1 \in DOMAIN t /\ t[n + 1] = m
      /\ \A i \in DOMAIN s : Moved(n, i) \in DOMAIN t /\ t[Moved(n, i)] = s[i]
      /\ \A j \in DOMAIN t : j = n + 1 \/ \E i \in DOMAIN s : j = Moved(n, i) /\ t[j] = s[i]
      /\ \A i, j \in DOMAIN s : i < j <=> Moved(n, i) < Moved(n, j)
  BY DEF InsertPlaces
<1>2. /\ ~Ended(s, m.req)
      /\ Worker!Completes(m) => m.k >= 1 /\ Numbers(s, m.req) = 1 .. m.k - 1
      /\ \A i \in DOMAIN s : s[i].req = m.req /\ i > n => s[i].kind = "RESULT" /\ Overtakes(m)
  BY DEF Placeable
<1>3. ASSUME NEW i \in DOMAIN t, NEW j \in DOMAIN t, i < j, t[i].req = t[j].req
      PROVE  Worker!Follows(t[j], t[i])
  <2>1. CASE j = n + 1
    <3>1. i # n + 1
      BY <1>1, <1>3, <2>1
    <3>2. PICK p \in DOMAIN s : i = Moved(n, p) /\ t[i] = s[p]
      BY <1>1, <3>1
    <3>3. s[p].req = m.req /\ t[j] = m
      BY <1>1, <1>3, <2>1, <3>2
    <3> QED
      BY <1>2, <3>2, <3>3, ComesBehind
  <2>2. CASE i = n + 1
    <3>1. PICK q \in DOMAIN s : j = Moved(n, q) /\ t[j] = s[q]
      BY <1>1, <1>3, <2>2
    <3>2. q > n /\ s[q].req = m.req /\ t[i] = m
      BY <1>1, <1>3, <2>2, <3>1 DEF Moved
    <3>3. s[q].kind = "RESULT" /\ Overtakes(m)
      BY <1>2, <3>2
    <3> QED
      BY <1>2, <3>1, <3>2, <3>3, ComesBefore
  <2>3. CASE i # n + 1 /\ j # n + 1
    <3>1. PICK p \in DOMAIN s : i = Moved(n, p) /\ t[i] = s[p]
      BY <1>1, <2>3
    <3>2. PICK q \in DOMAIN s : j = Moved(n, q) /\ t[j] = s[q]
      BY <1>1, <2>3
    <3>3. p < q
      BY <1>1, <1>3, <3>1, <3>2
    <3> QED
      BY <1>3, <3>1, <3>2, <3>3 DEF Ordered
  <2> QED
    BY <2>1, <2>2, <2>3
<1>4. \A r : Numbers(s, r) \subseteq Numbers(t, r)
  BY <1>1 DEF Numbers
<1>5. ASSUME NEW j \in DOMAIN t, Worker!Completes(t[j])
      PROVE  t[j].k >= 1 /\ 1 .. t[j].k - 1 \subseteq Numbers(t, t[j].req)
  <2>1. CASE j = n + 1
    BY <1>1, <1>2, <1>4, <1>5, <2>1
  <2>2. CASE j # n + 1
    <3>1. PICK q \in DOMAIN s : t[j] = s[q]
      BY <1>1, <2>2
    <3>2. s[q].k >= 1 /\ 1 .. s[q].k - 1 \subseteq Numbers(s, s[q].req)
      BY <1>5, <3>1 DEF Ordered
    <3> QED
      BY <1>4, <3>1, <3>2
  <2> QED
    BY <2>1, <2>2
<1> QED
  BY <1>3, <1>5 DEF Ordered

-----------------------------------------------------------------------------
(* What a step of the request in progress does to the others.              *)

\* The request in progress is the last of the stack.
LEMMA TopIs ==
    ASSUME WorkerTyped, frames # << >>
    PROVE  /\ Len(frames) \in Nat \ {0} /\ DOMAIN frames = 1 .. Len(frames) /\ Len(frames) \in DOMAIN frames
           /\ Worker!Top = frames[Len(frames)] /\ Worker!Top \in Worker!Frame /\ Shaped(Worker!Top)
<1>1. frames \in Seq(Worker!Frame)
  BY DEF WorkerTyped
<1>2. Len(frames) \in Nat \ {0} /\ DOMAIN frames = 1 .. Len(frames) /\ Len(frames) \in DOMAIN frames
  BY <1>1
<1>3. frames[Len(frames)] \in Worker!Frame
  BY <1>1, <1>2
<1> QED
  BY <1>2, <1>3 DEF WorkerTyped, Worker!Top

Replaced(f) == f \in Worker!Frame /\ Shaped(f) /\ f.req = Worker!Top.req /\ frames' = Worker!SetTop(f)

StackMoved ==
    /\ frames' \in Seq(Worker!Frame) /\ Len(frames') <= Len(frames)
    /\ \A n \in DOMAIN frames' :
         /\ n \in DOMAIN frames /\ Shaped(frames'[n]) /\ frames'[n].req = frames[n].req
         /\ n < Len(frames) => frames'[n] = frames[n]
    /\ \A n \in DOMAIN frames : n < Len(frames) => n \in DOMAIN frames'

\* The requests below are where they were, whether the one on top goes on or is done.
LEMMA StackReplaced ==
    ASSUME WorkerTyped, frames # << >>, NEW f, Replaced(f)
    PROVE  StackMoved /\ Len(frames) \in DOMAIN frames' /\ frames'[Len(frames)] = f
<1> DEFINE l == Len(frames)
<1>1. /\ l \in Nat \ {0} /\ DOMAIN frames = 1 .. l /\ l \in DOMAIN frames
      /\ Worker!Top = frames[l] /\ Worker!Top \in Worker!Frame
  BY TopIs
<1>2. frames \in Seq(Worker!Frame) /\ \A n \in DOMAIN frames : Shaped(frames[n])
  BY DEF WorkerTyped
<1>3. frames' = [frames EXCEPT ![l] = f] /\ f \in Worker!Frame /\ Shaped(f) /\ f.req = Worker!Top.req
  BY DEF Replaced, Worker!SetTop
<1>4. frames' \in Seq(Worker!Frame) /\ Len(frames') = l
  BY <1>1, <1>2, <1>3
<1> HIDE DEF l
<1>5. DOMAIN frames' = DOMAIN frames /\ frames'[l] = f /\ \A n \in DOMAIN frames : n # l
        => frames'[n] = frames[n]
  BY <1>1, <1>3
<1>6. \A n \in DOMAIN frames' : n \in DOMAIN frames /\ Shaped(frames'[n]) /\ frames'[n].req = frames[n].req
  BY <1>1, <1>2, <1>3, <1>5
<1>7. \A n \in DOMAIN frames' : n < l => frames'[n] = frames[n]
  BY <1>1, <1>5
<1>8. l <= l
  BY <1>1
<1>9. StackMoved
  BY <1>4, <1>5, <1>6, <1>7, <1>8 DEF StackMoved, l
<1> QED
  BY <1>1, <1>5, <1>9 DEF l

LEMMA StackPopped ==
    ASSUME WorkerTyped, frames # << >>, frames' = Worker!Pop
    PROVE  StackMoved /\ Len(frames) \notin DOMAIN frames'
<1> DEFINE l == Len(frames)
<1>1. l \in Nat \ {0} /\ DOMAIN frames = 1 .. l
  BY TopIs
<1>2. frames \in Seq(Worker!Frame) /\ \A n \in DOMAIN frames : Shaped(frames[n])
  BY DEF WorkerTyped
<1>3. frames' = SubSeq(frames, 1, l - 1)
  BY DEF Worker!Pop
<1>4. frames' \in Seq(Worker!Frame) /\ Len(frames') = l - 1
  BY <1>1, <1>2, <1>3
<1>5. \A n \in 1 .. l - 1 : frames'[n] = frames[n]
  BY <1>1, <1>2, <1>3
<1>6. DOMAIN frames' = 1 .. l - 1
  BY <1>4
<1> HIDE DEF l
<1>7. \A n \in 1 .. l - 1 : n \in DOMAIN frames
  BY <1>1
<1>8. \A n \in DOMAIN frames' : n \in DOMAIN frames /\ frames'[n] = frames[n] /\ Shaped(frames'[n])
  BY <1>2, <1>5, <1>6, <1>7
<1>9. l - 1 <= l /\ l \notin 1 .. l - 1 /\ \A n \in DOMAIN frames : n < l => n \in 1 .. l - 1
  BY <1>1
<1>10. StackMoved
  BY <1>4, <1>6, <1>8, <1>9 DEF StackMoved, l
<1> QED
  BY <1>6, <1>9, <1>10 DEF l

\* Nothing that was issued is lost, and what is new belongs to the request in progress.
Grown ==
    /\ \A i \in DOMAIN Issued : \E j \in DOMAIN Issued' : Issued'[j] = Issued[i]
    /\ \A j \in DOMAIN Issued' : Issued'[j].req = Worker!Top.req
         \/ \E i \in DOMAIN Issued : Issued'[j] = Issued[i]

\* Each part of the invariant is kept by a step of the request in progress.
LEMMA ReadKept ==
    ASSUME WorkerTyped, ReadInv, frames # << >>, StackMoved, Grown, UNCHANGED <<inbound, asked>>
    PROVE  ReadInv'
<1>1. Read' = Read
  BY DEF Read
<1>2. Len(frames) \in DOMAIN frames /\ Worker!Top = frames[Len(frames)]
  BY TopIs
<1>3. Len(frames') <= Len(frames) /\ Len(frames') \in Nat /\ Len(frames) \in Nat
  BY DEF StackMoved, WorkerTyped
<1>4. Len(inbound) \in Nat /\ asked \in Nat /\ Read \in Int
  BY DEF WorkerTyped, Read
<1>5. Len(frames') <= Read'
  BY <1>1, <1>3, <1>4 DEF ReadInv
<1>6. \A i \in DOMAIN Issued' : Issued'[i].req <= Read'
  BY <1>1, <1>2 DEF Grown, ReadInv
<1>7. \A n \in DOMAIN frames' : frames'[n].req <= Read'
  BY <1>1 DEF ReadInv, StackMoved
<1>8. \A m, n \in DOMAIN frames' : m < n => frames'[m].req < frames'[n].req
  BY DEF ReadInv, StackMoved
<1>9. (Len(inbound) <= asked /\ \A i \in DOMAIN inbound : inbound[i] = Read + i)'
  BY <1>1 DEF ReadInv
<1> QED
  BY <1>5, <1>6, <1>7, <1>8, <1>9 DEF ReadInv

LEMMA EndedKept ==
    ASSUME Grown, NEW r, Ended(Issued, r)
    PROVE  Ended(Issued', r)
<1>1. PICK i \in DOMAIN Issued : Issued[i].req = r /\ Worker!Ending(Issued[i])
  BY DEF Ended
<1>2. PICK j \in DOMAIN Issued' : Issued'[j] = Issued[i]
  BY DEF Grown
<1> QED
  BY <1>1, <1>2 DEF Ended

LEMMA EndKept ==
    ASSUME WorkerTyped, EndInv, frames # << >>, StackMoved, Grown, UNCHANGED <<inbound, asked, conduct>>,
           Len(frames) \in DOMAIN frames' /\ ~frames'[Len(frames)].atomic /\ frames'[Len(frames)].completed
             => Ended(Issued', frames'[Len(frames)].req),
           Len(frames) \notin DOMAIN frames' => "silent" \in conduct \/ Ended(Issued', Worker!Top.req),
           (\E i \in DOMAIN outbuf' : Worker!Ending(outbuf'[i]))
             => \E n \in DOMAIN frames' : frames'[n].then = "flush"
    PROVE  EndInv'
<1>1. Read' = Read
  BY DEF Read
<1>2. Len(frames) \in Nat /\ DOMAIN frames = 1 .. Len(frames) /\ Len(frames) \in DOMAIN frames
        /\ Worker!Top = frames[Len(frames)]
  BY TopIs
<1>3. ASSUME "silent" \notin conduct', NEW r \in 1 .. Read'
      PROVE  Ended(Issued', r) \/ \E n \in DOMAIN frames' : frames'[n].req = r
  <2>1. CASE Ended(Issued, r)
    BY <2>1, EndedKept
  <2>2. CASE ~Ended(Issued, r)
    <3>1. PICK n \in DOMAIN frames : frames[n].req = r
      BY <1>1, <1>3, <2>2 DEF EndInv
    <3>2. CASE n \in DOMAIN frames'
      BY <3>1, <3>2 DEF StackMoved
    <3>3. CASE n \notin DOMAIN frames'
      <4>1. n = Len(frames)
        BY <1>2, <3>3 DEF StackMoved
      <4> QED
        BY <1>2, <1>3, <3>1, <3>3, <4>1
    <3> QED
      BY <3>2, <3>3
  <2> QED
    BY <2>1, <2>2
<1>4. ASSUME NEW n \in DOMAIN frames', ~frames'[n].atomic, frames'[n].completed
      PROVE  Ended(Issued', frames'[n].req)
  <2>1. CASE n = Len(frames)
    BY <1>4, <2>1
  <2>2. CASE n # Len(frames)
    <3>1. n \in DOMAIN frames /\ frames'[n] = frames[n]
      BY <1>2, <2>2 DEF StackMoved
    <3>2. Ended(Issued, frames[n].req)
      BY <1>4, <3>1 DEF EndInv
    <3> QED
      BY <3>1, <3>2, EndedKept
  <2> QED
    BY <2>1, <2>2
<1> QED
  BY <1>3, <1>4 DEF EndInv

\* Who waits to flush waits on, if it is not the one in progress.
LEMMA FlushKept ==
    ASSUME WorkerTyped, frames # << >>, StackMoved, Worker!Top.then # "flush"
    PROVE  /\ Flushing(frames) \subseteq Flushing(frames') /\ Len(frames) \notin Flushing(frames)
           /\ IsFiniteSet(Flushing(frames')) /\ IsFiniteSet(Flushing(frames))
           /\ Cardinality(Flushing(frames)) \in Nat /\ Cardinality(Flushing(frames')) \in Nat
           /\ Cardinality(Flushing(frames)) <= Cardinality(Flushing(frames'))
           /\ Len(frames) \in Flushing(frames')
                => Cardinality(Flushing(frames)) + 1 <= Cardinality(Flushing(frames'))
<1>1. Len(frames) \in Nat /\ DOMAIN frames = 1 .. Len(frames) /\ Worker!Top = frames[Len(frames)]
  BY TopIs
<1>2. Flushing(frames) \subseteq Flushing(frames')
  <2>1. ASSUME NEW n \in DOMAIN frames, frames[n].then = "flush"
                 PROVE n \in DOMAIN frames' /\ frames'[n].then = "flush"
    <3>1. n < Len(frames)
      BY <1>1, <2>1
    <3> QED
      BY <2>1, <3>1 DEF StackMoved
  <2> QED
    BY <2>1 DEF Flushing
<1>3. Len(frames) \notin Flushing(frames)
  BY <1>1 DEF Flushing
<1>4. IsFiniteSet(Flushing(frames'))
  <2>1. DOMAIN frames' = 1 .. Len(frames') /\ Len(frames') \in Nat
    BY DEF StackMoved
  <2>2. IsFiniteSet(1 .. Len(frames')) /\ Flushing(frames') \subseteq 1 .. Len(frames')
    BY <2>1, FS_Interval DEF Flushing
  <2> QED
    BY <2>2, FS_Subset
<1>5. IsFiniteSet(Flushing(frames)) /\ Cardinality(Flushing(frames)) <= Cardinality(Flushing(frames'))
  BY <1>2, <1>4, FS_Subset
<1>6. Cardinality(Flushing(frames)) \in Nat /\ Cardinality(Flushing(frames')) \in Nat
  BY <1>4, <1>5, FS_CardinalityType
<1>7. ASSUME Len(frames) \in Flushing(frames')
      PROVE  Cardinality(Flushing(frames)) + 1 <= Cardinality(Flushing(frames'))
  <2>1. Cardinality(Flushing(frames) \cup {Len(frames)}) = Cardinality(Flushing(frames)) + 1
    BY <1>3, <1>5, FS_AddElement
  <2>2. Flushing(frames) \cup {Len(frames)} \subseteq Flushing(frames')
    BY <1>2, <1>7
  <2> QED
    BY <1>4, <2>1, <2>2, FS_Subset
<1> QED
  BY <1>2, <1>3, <1>4, <1>5, <1>6, <1>7

LEMMA EndingKept ==
    ASSUME WorkerTyped, EndInv, frames # << >>, StackMoved, Worker!Top.then # "flush",
           \E i \in DOMAIN outbuf : Worker!Ending(outbuf[i])
    PROVE  \E n \in DOMAIN frames' : frames'[n].then = "flush"
<1>1. PICK n \in DOMAIN frames : frames[n].then = "flush"
  BY DEF EndInv
<1> QED
  BY <1>1, FlushKept DEF Flushing

\* Of the requests below, what is issued and what is not stay as they are.
LEMMA OthersPlaced ==
    ASSUME WorkerTyped, ReadInv, frames # << >>, StackMoved,
             \A n \in DOMAIN frames : Placed(frames[n], Issued),
           \A r : r # Worker!Top.req => Keeps(Issued, Issued', r),
           NEW n \in DOMAIN frames', n # Len(frames)
    PROVE  Placed(frames'[n], Issued')
<1>1. Len(frames) \in Nat /\ Len(frames) \in DOMAIN frames /\ DOMAIN frames = 1 .. Len(frames)
        /\ Worker!Top = frames[Len(frames)]
  BY TopIs
<1>2. n \in DOMAIN frames /\ n < Len(frames) /\ frames'[n] = frames[n]
  BY <1>1 DEF StackMoved
<1>3. frames[n].req # Worker!Top.req
  <2>1. frames[n].req < Worker!Top.req
    BY <1>1, <1>2 DEF ReadInv
  <2>2. frames[n].req \in Nat /\ Worker!Top.req \in Nat
    <3>1. frames[n] \in Worker!Frame /\ Worker!Top \in Worker!Frame
      BY <1>1, <1>2 DEF WorkerTyped
    <3> QED
      BY <3>1 DEF Worker!Frame, Worker!Reqs
  <2> QED
    BY <2>1, <2>2
<1>4. Keeps(Issued, Issued', frames[n].req)
  BY <1>3
<1>5. Placed(frames[n], Issued)
  BY <1>2
<1>6. Placed(frames[n], Issued')
  BY <1>4, <1>5 DEF Placed, Keeps
<1> QED
  BY <1>2, <1>6

-----------------------------------------------------------------------------
(* What a step issues.                                                     *)

LEMMA Sequences1 ==
    ASSUME NEW a \in Seq(Worker!Message), NEW b \in Seq(Worker!Message), NEW m \in Worker!Message
    PROVE  /\ a \o << >> = a
           /\ a \o Append(b, m) = Inserted(a \o b, << >>, m)
           /\ (a \o <<m>>) \o b = Inserted(a, b, m)
           /\ (a \o b) \o <<m>> = Inserted(a \o b, << >>, m)
<1>1. a \o << >> = a /\ a \o b \in Seq(Worker!Message)
  OBVIOUS
<1>3. Append(b, m) = b \o <<m>> /\ <<m>> \in Seq(Worker!Message)
  OBVIOUS
<1>4. Append(a \o b, m) = (a \o b) \o <<m>> /\ Append(a, m) = a \o <<m>>
  BY <1>1
<1>5. a \o Append(b, m) = Append(a \o b, m)
  BY <1>3, <1>4, ConcatAssociative
<1>6. Append(a \o b, m) \in Seq(Worker!Message)
  BY <1>1
<1>7. Append(a \o b, m) \o << >> = Append(a \o b, m)
  BY <1>6
<1> QED
  BY <1>1, <1>4, <1>5, <1>7 DEF Inserted

LEMMA InsertedLast ==
    ASSUME NEW a \in Seq(Worker!Message), NEW m \in Worker!Message
    PROVE  (a \o <<m>>) \o << >> = Inserted(a, << >>, m)
<1>1. << >> \in Seq(Worker!Message)
  OBVIOUS
<1> QED
  BY <1>1, Sequences1

LEMMA GrownBy ==
    ASSUME NEW a \in Seq(Worker!Message), NEW b \in Seq(Worker!Message), NEW x \in Seq(Worker!Message),
           Issued = a \o b, Issued' = (a \o x) \o b, \A i \in DOMAIN x : x[i].req = Worker!Top.req
    PROVE  Grown
<1> DEFINE s == a \o b
           t == (a \o x) \o b
           l == Len(a)
           c == Len(x)
<1>1. l \in Nat /\ c \in Nat /\ Len(b) \in Nat /\ DOMAIN s = 1 .. l + Len(b) /\ DOMAIN t = 1 .. l + c + Len(b)
      /\ DOMAIN x = 1 .. c
  OBVIOUS
<1>2. /\ \A i \in 1 .. l : s[i] = a[i] /\ t[i] = a[i]
      /\ \A i \in l + 1 .. l + Len(b) : s[i] = b[i - l]
  OBVIOUS
<1>3. \A i \in 1 .. c : t[l + i] = x[i]
  <2> TAKE i \in 1 .. c
  <2>1. a \o x \in Seq(Worker!Message) /\ Len(a \o x) = l + c /\ l + i \in 1 .. l + c
    OBVIOUS
  <2>2. (a \o x)[l + i] = x[i]
    OBVIOUS
  <2> QED
    BY <2>1, <2>2
<1>4. \A i \in 1 .. Len(b) : t[l + c + i] = b[i]
  <2> TAKE i \in 1 .. Len(b)
  <2>1. a \o x \in Seq(Worker!Message) /\ Len(a \o x) = l + c
    OBVIOUS
  <2> QED
    BY <2>1
<1>5. Issued = s /\ Issued' = t
  OBVIOUS
<1> HIDE DEF s, t
<1>6. ASSUME NEW i \in DOMAIN s PROVE \E j \in DOMAIN t : t[j] = s[i]
  <2>1. CASE i <= l
    BY <1>1, <1>2, <2>1
  <2>2. CASE i > l
    <3> DEFINE j == l + c + (i - l)
    <3>1. j \in DOMAIN t /\ i - l \in 1 .. Len(b) /\ i \in l + 1 .. l + Len(b)
      BY <1>1, <2>2
    <3>2. t[j] = b[i - l] /\ s[i] = b[i - l]
      BY <1>2, <1>4, <3>1
    <3> QED
      BY <3>1, <3>2
  <2> QED
    BY <1>1, <2>1, <2>2
<1>7. ASSUME NEW j \in DOMAIN t PROVE t[j].req = Worker!Top.req \/ \E i \in DOMAIN s : t[j] = s[i]
  <2>1. CASE j <= l
    BY <1>1, <1>2, <2>1
  <2>2. CASE j > l /\ j <= l + c
    <3>1. j - l \in 1 .. c /\ l + (j - l) = j
      BY <1>1, <2>2
    <3>2. t[j] = x[j - l]
      BY <1>3, <3>1
    <3> QED
      BY <1>1, <3>1, <3>2
  <2>3. CASE j > l + c
    <3> DEFINE i == j - c
    <3>1. i \in DOMAIN s /\ i - l \in 1 .. Len(b) /\ i \in l + 1 .. l + Len(b) /\ l + c + (i - l) = j
      BY <1>1, <2>3
    <3>2. t[j] = b[i - l] /\ s[i] = b[i - l]
      BY <1>2, <1>4, <3>1
    <3> QED
      BY <3>1, <3>2
  <2> QED
    BY <1>1, <2>1, <2>2, <2>3
<1> QED
  BY <1>5, <1>6, <1>7 DEF Grown

LEMMA GrownNone ==
    ASSUME Issued' = Issued
    PROVE  Grown
  BY DEF Grown

LEMMA IssuedTyped ==
    ASSUME WorkerTyped
    PROVE  Issued \in Seq(Worker!Message) /\ wire \in Seq(Worker!Message)
             /\ outbuf \in Seq(Worker!Message) /\ Issued = wire \o outbuf
           /\ Issued = Issued \o << >> /\ << >> \in Seq(Worker!Message)
  BY DEF WorkerTyped, Issued

\* What is bundled for a request without an end are whole responses.
LEMMA BundledAre ==
    ASSUME WorkerTyped, ChunkInv, NEW r, ~Ended(Issued, r)
    PROVE  /\ \A i \in DOMAIN outbuf : outbuf[i].req = r => outbuf[i].kind = "RESULT"
           /\ NoResult(Issued, r) \/ Numbers(Issued, r) = {} => Without(outbuf, r)
<1>1. wire \in Seq(Worker!Message) /\ outbuf \in Seq(Worker!Message) /\ Issued = wire \o outbuf
  BY IssuedTyped
<1>2. ASSUME NEW i \in DOMAIN outbuf
      PROVE  Len(wire) + i \in DOMAIN Issued /\ Issued[Len(wire) + i] = outbuf[i]
  BY <1>1
<1>3. ASSUME NEW i \in DOMAIN outbuf, outbuf[i].req = r PROVE outbuf[i].kind = "RESULT"
  <2>1. outbuf[i].kind \in {"RESULT", "COMPLETE"}
    BY DEF ChunkInv
  <2>2. ~Worker!Ending(outbuf[i])
    BY <1>2, <1>3 DEF Ended
  <2> QED
    BY <2>1, <2>2 DEF Worker!Ending
<1>4. ASSUME NoResult(Issued, r) \/ Numbers(Issued, r) = {}, NEW i \in DOMAIN outbuf, outbuf[i].req = r
      PROVE  FALSE
  <2>1. Worker!Completes(outbuf[i]) /\ outbuf[i].kind = "RESULT"
    BY <1>3, <1>4 DEF Worker!Completes
  <2>2. ~NoResult(Issued, r)
    BY <1>2, <1>4, <2>1 DEF NoResult
  <2>3. outbuf[i].k \in Numbers(Issued, r)
    BY <1>2, <1>4, <2>1 DEF Numbers
  <2> QED
    BY <1>4, <2>2, <2>3
<1> QED
  BY <1>3, <1>4 DEF Without

\* Those that a message is put before.
Before(m, b) == \A i \in DOMAIN b : b[i].req = m.req => b[i].kind = "RESULT" /\ Overtakes(m)

LEMMA NoneBefore == ASSUME NEW m, NEW b, Without(b, m.req) PROVE Before(m, b)
  BY DEF Without, Before

\* The request in progress issues a message, when it is its turn.
LEMMA OneIssued ==
    ASSUME NEW a \in Seq(Worker!Message), NEW b \in Seq(Worker!Message), NEW m \in Worker!Message,
           Ordered(a \o b), Before(m, b), ~Ended(a \o b, m.req),
           Worker!Completes(m) => m.k >= 1 /\ Numbers(a \o b, m.req) = 1 .. m.k - 1
    PROVE  Ordered(Inserted(a, b, m)) /\ Gains(m, a \o b, Inserted(a, b, m))
<1> DEFINE s == a \o b
           t == Inserted(a, b, m)
           n == Len(a)
<1>1. InsertPlaces(n, m, s, t)
  BY InsertedAt
<1>2. InsertFacts(a, b, m, s, t)
  BY InsertedIs
<1>3. Placeable(n, m, s)
  <2>1. ASSUME NEW i \in DOMAIN s, s[i].req = m.req, i > n
        PROVE  s[i].kind = "RESULT" /\ Overtakes(m)
    <3>1. i \in 1 .. n + Len(b) /\ n \in Nat /\ Len(b) \in Nat
      OBVIOUS
    <3>2. i - n \in DOMAIN b /\ s[i] = b[i - n]
      BY <2>1, <3>1
    <3> QED
      BY <2>1, <3>2 DEF Before
  <2> QED
    BY <2>1 DEF Placeable
<1>4. Ordered(s)
  OBVIOUS
<1>5. m.k \in Int
  BY DEF Worker!Message
<1> HIDE DEF s, t, n
<1>6. Ordered(t) /\ Gains(m, s, t)
  BY <1>1, <1>3, <1>4, <1>5, InsertedOrdered, InsertedGains
<1> QED
  BY <1>6 DEF s, t

LEMMA GainsKeeps ==
    ASSUME NEW m, NEW s, NEW t, Gains(m, s, t), NEW r, r # m.req
    PROVE  Keeps(s, t, r)
  BY DEF Gains

LEMMA OrderKept ==
    ASSUME WorkerTyped, ReadInv, OrderInv, frames # << >>, StackMoved, UNCHANGED conduct,
           Ordered(Issued'), \A r : r # Worker!Top.req => Keeps(Issued, Issued', r),
           Len(frames) \in DOMAIN frames' => Placed(frames'[Len(frames)], Issued')
    PROVE  OrderInv'
<1>1. \A n \in DOMAIN frames : Placed(frames[n], Issued)
  BY DEF OrderInv
<1>2. ASSUME NEW n \in DOMAIN frames' PROVE Placed(frames'[n], Issued')
  <2>1. CASE n = Len(frames)
    BY <2>1
  <2>2. CASE n # Len(frames)
    BY <1>1, <2>2, OthersPlaced
  <2> QED
    BY <2>1, <2>2
<1>3. Ordered(Issued)'
  BY DEF Ordered, Worker!Follows
<1>4. ASSUME NEW n \in DOMAIN frames' PROVE Placed(frames[n], Issued)'
  BY <1>2, <1>4 DEF Placed
<1> QED
  BY <1>3, <1>4 DEF OrderInv

LEMMA KeepsSame == ASSUME NEW s, NEW r PROVE Keeps(s, s, r)
  BY DEF Keeps

-----------------------------------------------------------------------------
(* Requests come, and are read.                                            *)

LEMMA CountsAre ==
    ASSUME WorkerTyped, ReadInv
    PROVE  Len(inbound) \in Nat /\ asked \in Nat /\ MaxCalls \in Nat => Read \in Nat
<1>1. Len(inbound) \in Nat /\ Len(inbound) <= asked
  BY DEF WorkerTyped, ReadInv
<1>2. ASSUME MaxCalls \in Nat PROVE asked \in Nat
  BY <1>2 DEF WorkerTyped
<1> QED
  BY <1>1, <1>2 DEF Read

LEMMA OrderSame ==
    ASSUME OrderInv, Issued' = Issued, UNCHANGED <<frames, conduct>>
    PROVE  OrderInv'
BY DEF OrderInv, Ordered, Worker!Follows, Placed

\* One lemma for each action.
LEMMA AskStep ==
    ASSUME Worker!ConstantsOK, WorkerInv, Worker!Ask, UNCHANGED conduct
    PROVE  WorkerInv'
<1>1. /\ asked < MaxCalls /\ asked' = asked + 1 /\ inbound' = Append(inbound, asked + 1)
      /\ UNCHANGED <<frames, outbuf, wire, conduct>>
  BY DEF Worker!Ask
<1>2. /\ inbound \in Seq(Worker!Reqs) /\ asked \in 0 .. MaxCalls /\ MaxCalls \in Nat /\ Len(inbound) <= asked
      /\ Len(inbound) \in Nat
  BY DEF WorkerInv, WorkerTyped, ReadInv, Worker!ConstantsOK
<1>3. asked' \in 0 .. MaxCalls /\ asked + 1 \in Worker!Reqs
  BY <1>1, <1>2 DEF Worker!Reqs
<1>4. inbound' \in Seq(Worker!Reqs) /\ Len(inbound') = Len(inbound) + 1
        /\ DOMAIN inbound' = 1 .. Len(inbound) + 1
  BY <1>1, <1>2, <1>3
<1>5. \A i \in 1 .. Len(inbound) : inbound'[i] = inbound[i]
  BY <1>1, <1>2
<1>6. inbound'[Len(inbound) + 1] = asked + 1
  BY <1>1, <1>2
<1>7. Read' = Read /\ Issued' = Issued /\ Read = asked - Len(inbound)
  BY <1>1, <1>2, <1>4 DEF Read, Issued
<1>8. \A i \in DOMAIN inbound' : inbound'[i] = Read + i
  <2> TAKE i \in DOMAIN inbound'
  <2>1. CASE i = Len(inbound) + 1
    BY <1>2, <1>6, <1>7, <2>1
  <2>2. CASE i # Len(inbound) + 1
    <3>1. i \in DOMAIN inbound /\ i \in 1 .. Len(inbound)
      BY <1>2, <1>4, <2>2
    <3> QED
      BY <1>5, <3>1 DEF WorkerInv, ReadInv
  <2> QED
    BY <2>1, <2>2
<1>9. WorkerTyped'
  BY <1>1, <1>3, <1>4 DEF WorkerInv, WorkerTyped
<1>10. Len(inbound') <= asked'
  BY <1>1, <1>2, <1>4
<1>11. ReadInv'
  BY <1>1, <1>7, <1>8, <1>10 DEF WorkerInv, ReadInv
<1>12. ChunkInv' /\ EndInv' /\ SizeInv'
  BY <1>1, <1>7 DEF WorkerInv, ChunkInv, EndInv, SizeInv
<1>13. OrderInv'
  BY <1>1, <1>7, OrderSame DEF WorkerInv
<1> QED
  BY <1>9, <1>11, <1>12, <1>13 DEF WorkerInv

\* A request that is read is behind all others.
LEMMA Pushed ==
    ASSUME Worker!ConstantsOK, WorkerInv, inbound # << >>, NEW f \in Worker!Frame, Shaped(f),
             f.req = Head(inbound),
           frames' = Append(frames, f), inbound' = Tail(inbound), UNCHANGED <<outbuf, asked, wire, conduct>>,
           f.then \in {"none", "send"}, ~f.completed, f.made = 0,
           f.held # <<Worker!Msg(f.req, "COMPLETE", 0)>>, f.then = "send" => Failing(f)
    PROVE  WorkerInv'
<1>1. /\ inbound \in Seq(Worker!Reqs) /\ Len(inbound) \in Nat \ {0} /\ DOMAIN inbound = 1 .. Len(inbound)
      /\ asked \in Nat /\ Len(inbound) <= asked
  BY DEF WorkerInv, WorkerTyped, ReadInv, Worker!ConstantsOK
<1>2. /\ inbound' \in Seq(Worker!Reqs) /\ Len(inbound') = Len(inbound) - 1
      /\ DOMAIN inbound' = 1 .. Len(inbound) - 1
      /\ \A i \in 1 .. Len(inbound) - 1 : inbound'[i] = inbound[i + 1]
  BY <1>1
<1>3. Read' = Read + 1 /\ Read \in Nat /\ Issued' = Issued
  BY <1>1, <1>2 DEF Read, Issued
<1>4. \A i \in DOMAIN inbound : inbound[i] = Read + i
  BY DEF WorkerInv, ReadInv
<1>5. f.req = Read + 1
  BY <1>1, <1>4
<1>6. /\ frames \in Seq(Worker!Frame) /\ frames' \in Seq(Worker!Frame) /\ Len(frames) \in Nat
           /\ Len(frames') = Len(frames) + 1
      /\ DOMAIN frames = 1 .. Len(frames) /\ DOMAIN frames' = 1 .. Len(frames) + 1
      /\ frames'[Len(frames) + 1] = f /\ \A n \in 1 .. Len(frames) : frames'[n] = frames[n]
  BY DEF WorkerInv, WorkerTyped
<1>7. \A n \in DOMAIN frames' : n = Len(frames) + 1 \/ n \in DOMAIN frames
  BY <1>6
<1>8. WorkerTyped'
  <2>1. \A n \in DOMAIN frames' : Shaped(frames'[n])
    BY <1>6, <1>7 DEF WorkerInv, WorkerTyped
  <2> QED
    BY <1>2, <1>6, <2>1 DEF WorkerInv, WorkerTyped
<1>9. \A n \in DOMAIN frames : frames[n].req \in Nat /\ frames[n].req <= Read
  <2> TAKE n \in DOMAIN frames
  <2>1. frames[n] \in Worker!Frame
    BY <1>6
  <2> QED
    BY <2>1 DEF Worker!Frame, Worker!Reqs, WorkerInv, ReadInv
<1>10. ReadInv'
  <2>1. Len(inbound') <= asked' /\ Len(frames') <= Read'
    BY <1>1, <1>2, <1>3, <1>6 DEF WorkerInv, ReadInv
  <2>2. \A i \in DOMAIN inbound' : inbound'[i] = Read' + i
    <3> TAKE i \in DOMAIN inbound'
    <3>1. i \in 1 .. Len(inbound) - 1 /\ i + 1 \in DOMAIN inbound
      BY <1>1, <1>2
    <3>2. inbound[i + 1] = Read + (i + 1)
      BY <1>4, <3>1
    <3> QED
      BY <1>2, <1>3, <3>1, <3>2
  <2>3. \A n \in DOMAIN frames' : frames'[n].req <= Read'
    BY <1>3, <1>5, <1>6, <1>7, <1>9
  <2>4. \A m, n \in DOMAIN frames' : m < n => frames'[m].req < frames'[n].req
    <3> TAKE m, n \in DOMAIN frames'
    <3> SUFFICES ASSUME m < n PROVE frames'[m].req < frames'[n].req
      OBVIOUS
    <3>1. m \in DOMAIN frames /\ frames'[m] = frames[m]
      BY <1>6
    <3>2. CASE n = Len(frames) + 1
      BY <1>3, <1>5, <1>6, <1>9, <3>1, <3>2
    <3>3. CASE n \in DOMAIN frames
      BY <1>6, <3>1, <3>3 DEF WorkerInv, ReadInv
    <3> QED
      BY <1>7, <3>2, <3>3
  <2>5. \A i \in DOMAIN Issued : Issued[i].req \in Nat /\ Issued[i].req <= Read
    <3>1. Issued \in Seq(Worker!Message)
      BY IssuedTyped DEF WorkerInv
    <3>2. \A i \in DOMAIN Issued : Issued[i] \in Worker!Message
      BY <3>1
    <3> QED
      BY <3>2 DEF Worker!Message, Worker!Reqs, WorkerInv, ReadInv
  <2>6. \A i \in DOMAIN Issued' : Issued'[i].req <= Read'
    BY <1>3, <2>5
  <2> QED
    BY <2>1, <2>2, <2>3, <2>4, <2>6 DEF ReadInv
<1>11. Without(Issued, f.req)
  <2>1. \A i \in DOMAIN Issued : Issued[i].req <= Read
    BY DEF WorkerInv, ReadInv
  <2> QED
    BY <1>3, <1>5, <2>1 DEF Without
<1>12. OrderInv'
  <2>1. Ordered(Issued) /\ \A n \in DOMAIN frames : Placed(frames[n], Issued)
    BY DEF WorkerInv, OrderInv
  <2>2. Numbers(Issued, f.req) = {} /\ ~Ended(Issued, f.req) /\ NoResult(Issued, f.req)
    BY <1>11 DEF Without, Numbers, Ended, NoResult
  <2>3. Gone(f) = 0 /\ 1 .. 0 = {}
    BY DEF Gone
  <2>4. Placed(f, Issued)
    BY <2>2, <2>3 DEF Placed
  <2>5. \A n \in DOMAIN frames' : Placed(frames'[n], Issued)
    BY <1>6, <1>7, <2>1, <2>4
  <2>6. \A n \in DOMAIN frames' : Placed(frames[n], Issued)'
    BY <1>3, <2>5 DEF Placed
  <2>7. Ordered(Issued)'
    BY <1>3, <2>1 DEF Ordered, Worker!Follows
  <2> QED
    BY <2>6, <2>7 DEF OrderInv
<1>13. ChunkInv'
  BY DEF WorkerInv, ChunkInv
<1>14. EndInv'
  <2>1. ASSUME "silent" \notin conduct, NEW r \in 1 .. Read + 1
        PROVE  Ended(Issued, r) \/ \E n \in DOMAIN frames' : frames'[n].req = r
    <3>1. CASE r = Read + 1
      BY <1>5, <1>6, <3>1
    <3>2. CASE r # Read + 1
      <4>1. r \in 1 .. Read
        BY <1>3, <3>2
      <4>2. Ended(Issued, r) \/ \E n \in DOMAIN frames : frames[n].req = r
        BY <2>1, <4>1 DEF WorkerInv, EndInv
      <4>3. \A n \in DOMAIN frames : n \in DOMAIN frames' /\ frames'[n] = frames[n]
        BY <1>6
      <4> QED
        BY <4>2, <4>3
    <3> QED
      BY <3>1, <3>2
  <2>2. \A n \in DOMAIN frames' : ~frames'[n].atomic /\ frames'[n].completed => Ended(Issued, frames'[n].req)
    BY <1>6, <1>7 DEF WorkerInv, EndInv
  <2>3. (\E i \in DOMAIN outbuf' : Worker!Ending(outbuf'[i]))
          => \E n \in DOMAIN frames' : frames'[n].then = "flush"
    <3>1. \A n \in DOMAIN frames : n \in DOMAIN frames' /\ frames'[n] = frames[n]
      BY <1>6
    <3> QED
      BY <3>1 DEF WorkerInv, EndInv
  <2> QED
    BY <1>3, <2>1, <2>2, <2>3 DEF EndInv
<1>15. SizeInv'
  <2>1. Flushing(frames') = Flushing(frames)
    <3>1. \A n : n \in Flushing(frames') <=> n \in Flushing(frames)
      BY <1>6, <1>7 DEF Flushing
    <3> QED
      BY <3>1
  <2> QED
    BY <2>1 DEF WorkerInv, SizeInv
<1> QED
  BY <1>8, <1>10, <1>12, <1>13, <1>14, <1>15 DEF WorkerInv

LEMMA HeadIs ==
    ASSUME WorkerInv, inbound # << >>
    PROVE  Head(inbound) \in Worker!Reqs
<1>1. inbound \in Seq(Worker!Reqs)
  BY DEF WorkerInv, WorkerTyped
<1> QED
  BY <1>1

LEMMA RunStep ==
    ASSUME Worker!ConstantsOK, WorkerInv, NEW atomic \in BOOLEAN, Worker!Run(atomic), UNCHANGED conduct
    PROVE  WorkerInv'
<1> DEFINE f == Worker!NewFrame(Head(inbound), atomic)
<1>1. Head(inbound) \in Worker!Reqs /\ 0 \in 0 .. MaxMade /\ << >> \in Seq(Worker!Message)
  BY HeadIs DEF Worker!Run, Worker!ConstantsOK
<1>2. f \in Worker!Frame
  BY <1>1 DEF Worker!NewFrame, Worker!Frame
<1>3. Shaped(f)
  BY DEF Worker!NewFrame, Shaped
<1>4. /\ f.req = Head(inbound) /\ f.then = "none" /\ ~f.completed /\ f.made = 0
      /\ f.held = << >>
  BY DEF Worker!NewFrame
<1>5. /\ inbound # << >> /\ frames' = Append(frames, f) /\ inbound' = Tail(inbound)
      /\ UNCHANGED <<outbuf, asked, wire, conduct>>
  BY DEF Worker!Run
<1>6. << >> # <<Worker!Msg(f.req, "COMPLETE", 0)>>
  OBVIOUS
<1> HIDE DEF f
<1> QED
  BY <1>2, <1>3, <1>4, <1>5, <1>6, Pushed

LEMMA NotFoundStep ==
    ASSUME Worker!ConstantsOK, WorkerInv, Worker!NotFound, UNCHANGED conduct
    PROVE  WorkerInv'
<1> DEFINE r == Head(inbound)
           m == Worker!Msg(r, "EXCEPTION", 0)
           g == Worker!NewFrame(r, FALSE)
           f == [g EXCEPT !.pc = "wait", !.over = TRUE, !.then = "send", !.held = <<m>>]
<1>1. r \in Worker!Reqs /\ 0 \in 0 .. MaxMade /\ << >> \in Seq(Worker!Message)
  BY HeadIs DEF Worker!NotFound, Worker!ConstantsOK
<1>2. m \in Worker!Message
  BY <1>1 DEF Worker!Msg, Worker!Message, Worker!Kinds
<1>3. <<m>> \in Seq(Worker!Message)
  BY <1>2
<1>4. /\ inbound # << >> /\ frames' = Append(frames, f) /\ inbound' = Tail(inbound)
      /\ UNCHANGED <<outbuf, asked, wire, conduct>>
  BY DEF Worker!NotFound
<1>5. <<m>> # <<Worker!Msg(r, "COMPLETE", 0)>>
  BY DEF Worker!Msg
<1>6. <<m>> \in {<<Worker!Msg(r, "EXCEPTION", 0)>>, <<Worker!Msg(r, "COMPLETE", 0)>>,
                 <<Worker!Msg(r, "RESULT", 1), Worker!Msg(r, "COMPLETE", 0)>>}
  OBVIOUS
<1> DEFINE h == <<m>>
<1>7. h \in Seq(Worker!Message) /\ f = [g EXCEPT !.pc = "wait", !.over = TRUE, !.then = "send", !.held = h]
  BY <1>3
<1> HIDE DEF h, m, r
<1>8. g \in Worker!Frame
  BY <1>1 DEF Worker!NewFrame, Worker!Frame
<1>9. /\ f \in Worker!Frame /\ f.req = r /\ f.then = "send" /\ ~f.completed /\ f.made = 0 /\ f.held = h
      /\ f.pc = "wait" /\ f.over /\ ~f.saved /\ ~f.atomic
  BY <1>1, <1>7, <1>8 DEF Worker!NewFrame, Worker!Frame
<1> HIDE DEF f, g
<1>10. Shaped(f)
  BY <1>6, <1>9 DEF Shaped, h
<1>11. f.held # <<Worker!Msg(f.req, "COMPLETE", 0)>> /\ f.req = Head(inbound) /\ Failing(f)
  BY <1>5, <1>9 DEF h, m, r, Failing
<1> QED
  BY <1>4, <1>9, <1>10, <1>11, Pushed

-----------------------------------------------------------------------------
(* The request in progress goes on.                                        *)

LEMMA ChunkedBoth ==
    ASSUME NEW a \in Seq(Worker!Message), NEW b \in Seq(Worker!Message), Chunked(a), Chunked(b)
    PROVE  Chunked(a \o b)
<1> DEFINE s == a \o b
           l == Len(a)
<1>1. /\ l \in Nat /\ Len(b) \in Nat /\ DOMAIN a = 1 .. l /\ DOMAIN b = 1 .. Len(b)
      /\ DOMAIN s = 1 .. l + Len(b)
  OBVIOUS
<1>2. \A i \in 1 .. l : s[i] = a[i]
  OBVIOUS
<1>3. \A i \in l + 1 .. l + Len(b) : s[i] = b[i - l]
  OBVIOUS
<1> HIDE DEF s, l
<1>4. ASSUME NEW i \in DOMAIN s, s[i].kind = "PARTIAL"
      PROVE  /\ i + 1 \in DOMAIN s /\ s[i + 1].req = s[i].req /\ s[i + 1].k = s[i].k
             /\ s[i + 1].kind \in {"PARTIAL", "NOCONTENT"}
  <2>1. CASE i <= l
    <3>1. i \in DOMAIN a /\ s[i] = a[i]
      BY <1>1, <1>2, <2>1
    <3>2. /\ i + 1 \in DOMAIN a /\ a[i + 1].req = a[i].req /\ a[i + 1].k = a[i].k
          /\ a[i + 1].kind \in {"PARTIAL", "NOCONTENT"}
      BY <1>4, <3>1 DEF Chunked
    <3>3. i + 1 \in DOMAIN s /\ s[i + 1] = a[i + 1]
      BY <1>1, <1>2, <3>2
    <3> QED
      BY <3>1, <3>2, <3>3
  <2>2. CASE i > l
    <3> DEFINE p == i - l
    <3>1. p \in DOMAIN b /\ s[i] = b[p]
      BY <1>1, <1>3, <2>2
    <3>2. /\ p + 1 \in DOMAIN b /\ b[p + 1].req = b[p].req /\ b[p + 1].k = b[p].k
          /\ b[p + 1].kind \in {"PARTIAL", "NOCONTENT"}
      BY <1>4, <3>1 DEF Chunked
    <3>3. i + 1 \in DOMAIN s /\ i + 1 \in l + 1 .. l + Len(b) /\ (i + 1) - l = p + 1
      BY <1>1, <2>2, <3>1, <3>2
    <3>4. s[i + 1] = b[p + 1]
      BY <1>3, <3>3
    <3> QED
      BY <3>1, <3>2, <3>3, <3>4
  <2> QED
    BY <1>1, <2>1, <2>2
<1>5. Chunked(s)
  BY <1>4 DEF Chunked
<1> QED
  BY <1>5 DEF s

LEMMA ChunkedWhole ==
    ASSUME NEW b \in Seq(Worker!Message), \A i \in DOMAIN b : b[i].kind # "PARTIAL"
    PROVE  Chunked(b)
  BY DEF Chunked

LEMMA Moves ==
    ASSUME Worker!ConstantsOK, WorkerInv, frames # << >>, StackMoved, Grown,
             UNCHANGED <<inbound, asked, conduct>>,
           wire' \in Seq(Worker!Message), outbuf' \in Seq(Worker!Message), ChunkInv', SizeInv',
           Ordered(Issued'), \A r : r # Worker!Top.req => Keeps(Issued, Issued', r),
           Len(frames) \in DOMAIN frames' => Placed(frames'[Len(frames)], Issued'),
           Len(frames) \in DOMAIN frames' /\ ~frames'[Len(frames)].atomic /\ frames'[Len(frames)].completed
             => Ended(Issued', frames'[Len(frames)].req),
           Len(frames) \notin DOMAIN frames' => "silent" \in conduct \/ Ended(Issued', Worker!Top.req),
           (\E i \in DOMAIN outbuf' : Worker!Ending(outbuf'[i]))
             => \E n \in DOMAIN frames' : frames'[n].then = "flush"
    PROVE  WorkerInv'
<1>1. WorkerTyped /\ ReadInv /\ OrderInv /\ EndInv
  BY DEF WorkerInv
<1>2. WorkerTyped'
  BY <1>1 DEF WorkerTyped, StackMoved
<1>3. ReadInv'
  BY <1>1, ReadKept
<1>4. OrderInv'
  BY <1>1, OrderKept
<1>5. EndInv'
  BY <1>1, EndKept
<1> QED
  BY <1>2, <1>3, <1>4, <1>5 DEF WorkerInv

\* Nothing is issued, and who was in progress goes on.
LEMMA Stays ==
    ASSUME Worker!ConstantsOK, WorkerInv, frames # << >>, Worker!Top.then # "flush", NEW f,
             Replaced(f), f.then # "flush",
           UNCHANGED <<outbuf, wire, inbound, asked, conduct>>,
           Placed(f, Issued), ~f.atomic /\ f.completed => Ended(Issued, f.req)
    PROVE  WorkerInv'
<1>1. WorkerTyped /\ ReadInv /\ OrderInv /\ EndInv /\ ChunkInv /\ SizeInv
  BY DEF WorkerInv
<1>2. StackMoved /\ Len(frames) \in DOMAIN frames' /\ frames'[Len(frames)] = f
  BY <1>1, StackReplaced
<1>3. Issued' = Issued
  BY DEF Issued
<1>4. Grown
  BY <1>3, GrownNone
<1>5. wire' \in Seq(Worker!Message) /\ outbuf' \in Seq(Worker!Message)
  BY <1>1 DEF WorkerTyped
<1>6. ChunkInv'
  BY <1>1 DEF ChunkInv
<1>7. SizeInv'
  <2>1. Len(outbuf) \in Nat /\ MaxBundle \in Nat
    BY <1>1 DEF WorkerTyped, Worker!ConstantsOK
  <2>2. /\ Cardinality(Flushing(frames)) <= Cardinality(Flushing(frames'))
        /\ Cardinality(Flushing(frames)) \in Nat /\ Cardinality(Flushing(frames')) \in Nat
    BY <1>1, <1>2, FlushKept
  <2> QED
    BY <1>1, <2>1, <2>2 DEF SizeInv
<1>8.   /\ Ordered(Issued') /\ \A r : r # Worker!Top.req => Keeps(Issued, Issued', r)
        /\ Len(frames) \in DOMAIN frames' => Placed(frames'[Len(frames)], Issued')
  BY <1>1, <1>2, <1>3, KeepsSame DEF OrderInv
<1>9. (\E i \in DOMAIN outbuf' : Worker!Ending(outbuf'[i]))
        => \E n \in DOMAIN frames' : frames'[n].then = "flush"
  BY <1>1, <1>2, EndingKept
<1> QED
  BY <1>2, <1>3, <1>4, <1>5, <1>6, <1>7, <1>8, <1>9, Moves

\* Nothing is issued, and who was in progress is done.
LEMMA Leaves ==
    ASSUME Worker!ConstantsOK, WorkerInv, frames # << >>, Worker!Top.then # "flush", frames' = Worker!Pop,
           UNCHANGED <<outbuf, wire, inbound, asked, conduct>>,
           "silent" \in conduct \/ Ended(Issued, Worker!Top.req)
    PROVE  WorkerInv'
<1>1. WorkerTyped /\ ReadInv /\ OrderInv /\ EndInv /\ ChunkInv /\ SizeInv
  BY DEF WorkerInv
<1>2. StackMoved /\ Len(frames) \notin DOMAIN frames'
  BY <1>1, StackPopped
<1>3. Issued' = Issued
  BY DEF Issued
<1>4. Grown
  BY <1>3, GrownNone
<1>5. wire' \in Seq(Worker!Message) /\ outbuf' \in Seq(Worker!Message)
  BY <1>1 DEF WorkerTyped
<1>6. ChunkInv'
  BY <1>1 DEF ChunkInv
<1>7. SizeInv'
  <2>1. Len(outbuf) \in Nat /\ MaxBundle \in Nat
    BY <1>1 DEF WorkerTyped, Worker!ConstantsOK
  <2>2. /\ Cardinality(Flushing(frames)) <= Cardinality(Flushing(frames'))
        /\ Cardinality(Flushing(frames)) \in Nat /\ Cardinality(Flushing(frames')) \in Nat
    BY <1>1, <1>2, FlushKept
  <2> QED
    BY <1>1, <2>1, <2>2 DEF SizeInv
<1>8.   /\ Ordered(Issued') /\ \A r : r # Worker!Top.req => Keeps(Issued, Issued', r)
        /\ Len(frames) \in DOMAIN frames' => Placed(frames'[Len(frames)], Issued')
  BY <1>1, <1>2, <1>3, KeepsSame DEF OrderInv
<1>9. (\E i \in DOMAIN outbuf' : Worker!Ending(outbuf'[i]))
        => \E n \in DOMAIN frames' : frames'[n].then = "flush"
  BY <1>1, <1>2, EndingKept
<1> QED
  BY <1>2, <1>3, <1>4, <1>5, <1>6, <1>7, <1>8, <1>9, Moves

\* The request in progress, when its method runs.
LEMMA RunningTop ==
    ASSUME WorkerInv, Worker!Running
    PROVE  /\ frames # << >> /\ Worker!Top \in Worker!Frame /\ Shaped(Worker!Top)
                /\ Worker!Top.then = "none" /\ Worker!Top.pc = "run"
           /\ ~Worker!Top.over /\ Worker!Top.held = << >>
           /\ Placed(Worker!Top, Issued)
           /\ ~Worker!Top.atomic /\ Worker!Top.completed => Ended(Issued, Worker!Top.req)
<1>1. WorkerTyped /\ frames # << >> /\ Worker!Top.pc = "run"
  BY DEF WorkerInv, Worker!Running
<1>2. Len(frames) \in DOMAIN frames /\ Worker!Top = frames[Len(frames)]
        /\ Worker!Top \in Worker!Frame /\ Shaped(Worker!Top)
  BY <1>1, TopIs
<1>3. Placed(Worker!Top, Issued)
  BY <1>2 DEF WorkerInv, OrderInv
<1>4. ~Worker!Top.atomic /\ Worker!Top.completed => Ended(Issued, Worker!Top.req)
  BY <1>2 DEF WorkerInv, EndInv
<1> QED
  BY <1>1, <1>2, <1>3, <1>4 DEF Shaped

LEMMA MessageIs ==
    ASSUME Worker!ConstantsOK, NEW f \in Worker!Frame, NEW kind \in Worker!Kinds, NEW k \in 0 .. MaxMade
    PROVE  /\ Worker!Msg(f.req, kind, k) \in Worker!Message
                /\ <<Worker!Msg(f.req, kind, k)>> \in Seq(Worker!Message)
           /\ Worker!Msg(f.req, kind, k).req = f.req /\ Worker!Msg(f.req, kind, k).kind = kind
                /\ Worker!Msg(f.req, kind, k).k = k
           /\ f.req \in Nat /\ f.made \in Nat
<1>1. f.req \in Worker!Reqs /\ f.made \in Nat /\ f.req \in Nat
  BY DEF Worker!Frame, Worker!Reqs, Worker!ConstantsOK
<1>2. Worker!Msg(f.req, kind, k) \in Worker!Message
  BY <1>1 DEF Worker!Msg, Worker!Message
<1>3. <<Worker!Msg(f.req, kind, k)>> \in Seq(Worker!Message)
  BY <1>2
<1> QED
  BY <1>1, <1>2, <1>3 DEF Worker!Msg

LEMMA MayMore ==
    ASSUME Worker!ConstantsOK, WorkerInv, Worker!May
    PROVE  /\ Worker!Running /\ ~Worker!Top.completed /\ Worker!Next1 \in 0 .. MaxMade
                /\ Worker!Next1 = Worker!Top.made + 1 /\ Worker!Top.made \in Nat
           /\ frames # << >> /\ Worker!Top \in Worker!Frame /\ Shaped(Worker!Top)
                /\ Worker!Top.then = "none" /\ Worker!Top.pc = "run"
           /\ ~Worker!Top.over /\ Worker!Top.held = << >> /\ Placed(Worker!Top, Issued)
<1>1. Worker!Running /\ ~Worker!Top.completed /\ Worker!Top.made < MaxMade
  BY DEF Worker!May
<1>2. frames # << >> /\ Worker!Top \in Worker!Frame /\ Shaped(Worker!Top)
        /\ Worker!Top.then = "none" /\ Worker!Top.pc = "run"
      /\ ~Worker!Top.over /\ Worker!Top.held = << >> /\ Placed(Worker!Top, Issued)
  BY <1>1, RunningTop
<1>3. Worker!Top.made \in 0 .. MaxMade /\ MaxMade \in Nat
  BY <1>2 DEF Worker!Frame, Worker!ConstantsOK
<1>4. Worker!Next1 \in 0 .. MaxMade /\ Worker!Top.made \in Nat
  BY <1>1, <1>3 DEF Worker!Next1
<1> QED
  BY <1>1, <1>2, <1>4 DEF Worker!Next1

LEMMA SaveStep ==
    ASSUME Worker!ConstantsOK, WorkerInv, NEW size, size = "big"
             => "big" \in conduct, Worker!Save(size), UNCHANGED conduct
    PROVE  WorkerInv'
<1> DEFINE f == [Worker!Top EXCEPT !.saved = TRUE, !.big = (@ \/ size = "big"), !.made = Worker!Next1]
<1>1. /\ Worker!Running /\ ~Worker!Top.completed /\ Worker!Next1 \in 0 .. MaxMade
      /\ frames # << >> /\ Worker!Top \in Worker!Frame /\ Shaped(Worker!Top)
           /\ Worker!Top.then = "none" /\ Worker!Top.pc = "run"
      /\ ~Worker!Top.over /\ Worker!Top.held = << >> /\ Placed(Worker!Top, Issued)
  BY MayMore DEF Worker!Save
<1>2. Worker!Top.atomic /\ frames' = Worker!SetTop(f) /\ UNCHANGED <<outbuf, inbound, asked, wire>>
  BY DEF Worker!Save
<1>3. Worker!Top.big \in BOOLEAN
  BY <1>1 DEF Worker!Frame
<1> DEFINE big == Worker!Top.big \/ size = "big"
<1>4. big \in BOOLEAN /\ f = [Worker!Top EXCEPT !.saved = TRUE, !.big = big, !.made = Worker!Next1]
  BY <1>3
<1> HIDE DEF big
<1>6. /\ f \in Worker!Frame /\ f.req = Worker!Top.req /\ f.atomic /\ f.then = "none"
           /\ f.pc = "run" /\ ~f.over
      /\ f.held = << >> /\ f.saved /\ ~f.completed /\ f.big = big
  BY <1>1, <1>2, <1>4 DEF Worker!Frame
<1> HIDE DEF f
<1>7. Shaped(f)
  BY <1>6 DEF Shaped
<1>5. ~Failing(f) /\ Gone(f) = 0 /\ Gone(Worker!Top) = 0
  BY <1>1, <1>2, <1>6 DEF Failing, Gone
<1>8. Placed(f, Issued)
  BY <1>1, <1>2, <1>5, <1>6 DEF Placed
<1>9. Replaced(f) /\ Worker!Top.then # "flush" /\ f.then # "flush"
  BY <1>1, <1>2, <1>6, <1>7 DEF Replaced
<1> QED
  BY <1>1, <1>2, <1>6, <1>8, <1>9, Stays

LEMMA FailStep ==
    ASSUME Worker!ConstantsOK, WorkerInv, Worker!Fail, UNCHANGED conduct
    PROVE  WorkerInv'
<1> DEFINE h == <<Worker!Msg(Worker!Top.req, "EXCEPTION", 0)>>
           f == [Worker!Top EXCEPT !.over = TRUE, !.pc = "wait", !.then = "send", !.held = h]
<1>1. /\ frames # << >> /\ Worker!Top \in Worker!Frame /\ Shaped(Worker!Top) /\ Worker!Top.then = "none"
      /\ Worker!Top.held = << >> /\ Placed(Worker!Top, Issued)
  BY RunningTop DEF Worker!Fail
<1>2. /\ "fail" \in conduct /\ ~Worker!Top.completed /\ frames' = Worker!SetTop(f)
           /\ UNCHANGED <<outbuf, inbound, asked, wire>>
  BY DEF Worker!Fail
<1>3. 0 \in 0 .. MaxMade /\ "EXCEPTION" \in Worker!Kinds
  BY DEF Worker!ConstantsOK, Worker!Kinds
<1>4. h \in Seq(Worker!Message)
  BY <1>1, <1>3, MessageIs
<1>5. h \in {<<Worker!Msg(Worker!Top.req, "EXCEPTION", 0)>>, <<Worker!Msg(Worker!Top.req, "COMPLETE", 0)>>,
             <<Worker!Msg(Worker!Top.req, "RESULT", 1), Worker!Msg(Worker!Top.req, "COMPLETE", 0)>>}
  OBVIOUS
<1>9. h # <<Worker!Msg(Worker!Top.req, "COMPLETE", 0)>>
  BY DEF Worker!Msg
<1> HIDE DEF h
<1>6. /\ f \in Worker!Frame /\ f.req = Worker!Top.req /\ f.atomic = Worker!Top.atomic
           /\ f.then = "send" /\ f.pc = "wait" /\ f.over
      /\ f.held = h /\ f.saved = Worker!Top.saved /\ ~f.completed /\ f.made = Worker!Top.made
  BY <1>1, <1>2, <1>4 DEF Worker!Frame
<1> HIDE DEF f
<1>7. Shaped(f)
  BY <1>1, <1>5, <1>6 DEF Shaped
<1>8. Replaced(f) /\ Worker!Top.then # "flush" /\ f.then # "flush"
  BY <1>1, <1>2, <1>6, <1>7 DEF Replaced
<1>10. Failing(f) /\ Gone(f) = Gone(Worker!Top)
  BY <1>1, <1>6, <1>9 DEF h, Failing, Gone
<1>11. Placed(f, Issued)
  BY <1>1, <1>2, <1>6, <1>10 DEF Placed
<1> QED
  BY <1>1, <1>2, <1>6, <1>8, <1>11, Stays

LEMMA ReturnZeroStep ==
    ASSUME Worker!ConstantsOK, WorkerInv, Worker!ReturnZero, UNCHANGED conduct
    PROVE  WorkerInv'
<1>1. /\ frames # << >> /\ Shaped(Worker!Top) /\ Worker!Top.then = "none"
           /\ (~Worker!Top.atomic /\ Worker!Top.completed => Ended(Issued, Worker!Top.req))
  BY RunningTop DEF Worker!ReturnZero
<1>2. ~Worker!Top.saved /\ Worker!Top.completed /\ frames' = Worker!Pop
        /\ UNCHANGED <<outbuf, inbound, asked, wire>>
  BY DEF Worker!ReturnZero
<1>3. Ended(Issued, Worker!Top.req) /\ Worker!Top.then # "flush"
  BY <1>1, <1>2 DEF Shaped
<1> QED
  BY <1>1, <1>2, <1>3, Leaves

LEMMA ReturnOneAtomicStep ==
    ASSUME Worker!ConstantsOK, WorkerInv, Worker!ReturnOneAtomic, UNCHANGED conduct
    PROVE  WorkerInv'
<1>1. frames # << >> /\ Worker!Top.then = "none"
  BY RunningTop DEF Worker!ReturnOneAtomic
<1>2. "silent" \in conduct /\ frames' = Worker!Pop /\ UNCHANGED <<outbuf, inbound, asked, wire>>
  BY DEF Worker!ReturnOneAtomic
<1>3. Worker!Top.then # "flush"
  BY <1>1
<1> QED
  BY <1>1, <1>2, <1>3, Leaves

\* A RESULT is one more of the request.
LEMMA OneMore ==
    ASSUME NEW m, NEW s, NEW t, NEW k \in Nat, Gains(m, s, t), Worker!Completes(m), m.k = k + 1,
             Numbers(s, m.req) = 1 .. k
    PROVE  Numbers(t, m.req) = 1 .. k + 1
<1>1. Numbers(t, m.req) = (1 .. k) \cup {k + 1}
  BY DEF Gains
<1>2. (1 .. k) \cup {k + 1} = 1 .. k + 1
  OBVIOUS
<1> QED
  BY <1>1, <1>2

LEMMA BundleStep ==
    ASSUME Worker!ConstantsOK, WorkerInv, Worker!Bundle, UNCHANGED conduct
    PROVE  WorkerInv'
<1> DEFINE m == Worker!Msg(Worker!Top.req, "RESULT", Worker!Next1)
           h == <<m>>
<1>1. /\ Worker!Running /\ ~Worker!Top.completed /\ Worker!Next1 \in 0 .. MaxMade
           /\ Worker!Next1 = Worker!Top.made + 1 /\ Worker!Top.made \in Nat
      /\ frames # << >> /\ Worker!Top \in Worker!Frame /\ Shaped(Worker!Top)
           /\ Worker!Top.then = "none" /\ Worker!Top.pc = "run"
      /\ ~Worker!Top.over /\ Worker!Top.held = << >> /\ Placed(Worker!Top, Issued)
  BY MayMore DEF Worker!Bundle
<1>2. ~Worker!Top.atomic /\ UNCHANGED <<inbound, asked, wire>>
  BY DEF Worker!Bundle
<1>3. m \in Worker!Message /\ h \in Seq(Worker!Message) /\ m.req = Worker!Top.req
        /\ m.kind = "RESULT" /\ m.k = Worker!Top.made + 1
  BY <1>1, MessageIs DEF Worker!Kinds
<1>4. Worker!Completes(m) /\ ~Worker!Ending(m)
  BY <1>3 DEF Worker!Completes, Worker!Ending
<1>5. WorkerTyped /\ ReadInv /\ ChunkInv /\ OrderInv /\ EndInv /\ SizeInv
  BY DEF WorkerInv
<1>6. CASE outbuf # << >> /\ Len(outbuf) + 1 > MaxBundle
  <2> DEFINE f == [Worker!Top EXCEPT !.made = Worker!Next1, !.pc = "wait", !.then = "append", !.held = h]
  <2>1. frames' = Worker!SetTop(f) /\ UNCHANGED outbuf
    BY <1>6 DEF Worker!Bundle
  <2>2. h = <<Worker!Msg(Worker!Top.req, "RESULT", Worker!Next1)>>
    OBVIOUS
  <2> HIDE DEF h
  <2>3. /\ f \in Worker!Frame /\ f.req = Worker!Top.req /\ ~f.atomic /\ f.then = "append"
             /\ f.pc = "wait" /\ ~f.over
        /\ f.held = h /\ f.saved = Worker!Top.saved /\ ~f.completed /\ f.made = Worker!Next1
             /\ f.big = Worker!Top.big
    BY <1>1, <1>2, <1>3 DEF Worker!Frame
  <2> HIDE DEF f
  <2>4. Shaped(f)
    BY <1>1, <1>2, <2>2, <2>3 DEF Shaped
  <2>8. Gone(f) = Gone(Worker!Top)
    BY <1>1, <1>2, <2>3 DEF Gone
  <2>9. ~Failing(f)
    BY <2>2, <2>3 DEF Failing, Worker!Msg
  <2>5. Gone(f) = Gone(Worker!Top) /\ ~Failing(f)
    BY <2>8, <2>9
  <2>6. Placed(f, Issued)
    BY <1>1, <1>2, <2>3, <2>5 DEF Placed
  <2>7. Replaced(f) /\ Worker!Top.then # "flush" /\ f.then # "flush"
    BY <1>1, <2>1, <2>3, <2>4 DEF Replaced
  <2> QED
    BY <1>1, <1>2, <2>1, <2>3, <2>6, <2>7, Stays
<1>7. CASE ~(outbuf # << >> /\ Len(outbuf) + 1 > MaxBundle)
  <2> DEFINE f == [Worker!Top EXCEPT !.made = Worker!Next1]
  <2>1. frames' = Worker!SetTop(f) /\ outbuf' = Append(outbuf, m)
    BY <1>7 DEF Worker!Bundle
  <2> HIDE DEF m
  <2>2. /\ f \in Worker!Frame /\ f.req = Worker!Top.req /\ ~f.atomic /\ f.then = "none"
             /\ f.pc = "run" /\ ~f.over
        /\ f.held = << >> /\ f.saved = Worker!Top.saved /\ ~f.completed /\ f.made = Worker!Next1
             /\ f.big = Worker!Top.big
    BY <1>1, <1>2 DEF Worker!Frame
  <2> HIDE DEF f
  <2>3. Shaped(f)
    BY <1>1, <1>2, <2>2 DEF Shaped
  <2>4. Replaced(f) /\ Worker!Top.then # "flush" /\ f.then # "flush"
    BY <1>1, <2>1, <2>2, <2>3 DEF Replaced
  <2>5. StackMoved /\ Len(frames) \in DOMAIN frames' /\ frames'[Len(frames)] = f
    BY <1>1, <1>5, <2>4, StackReplaced
  <2>6. /\ Issued \in Seq(Worker!Message) /\ wire \in Seq(Worker!Message)
             /\ outbuf \in Seq(Worker!Message) /\ Issued = wire \o outbuf
        /\ Issued = Issued \o << >> /\ << >> \in Seq(Worker!Message)
    BY <1>5, IssuedTyped
  <2>7. Issued' = Inserted(Issued, << >>, m) /\ Issued' = (Issued \o h) \o << >>
    <3>1. Issued' = wire \o Append(outbuf, m)
      BY <1>2, <2>1 DEF Issued
    <3>2. wire \o Append(outbuf, m) = Inserted(wire \o outbuf, << >>, m)
      BY <1>3, <2>6, Sequences1
    <3>3. (Issued \o <<m>>) \o << >> = Inserted(Issued, << >>, m)
      BY <1>3, <2>6, Sequences1
    <3> QED
      BY <2>6, <3>1, <3>2, <3>3
  <2>8. Grown
    <3>1. \A i \in DOMAIN h : h[i].req = Worker!Top.req
      BY <1>3
    <3> HIDE DEF h
    <3> QED
      BY <1>3, <2>6, <2>7, <3>1, GrownBy
  <2>9. /\ outbuf' \in Seq(Worker!Message) /\ Len(outbuf') = Len(outbuf) + 1 /\ Len(outbuf) \in Nat
        /\ DOMAIN outbuf' = 1 .. Len(outbuf) + 1 /\ outbuf'[Len(outbuf) + 1] = m
        /\ \A i \in 1 .. Len(outbuf) : outbuf'[i] = outbuf[i] /\ i \in DOMAIN outbuf
    BY <1>3, <2>1, <2>6
  <2>10. \A i \in DOMAIN outbuf' : outbuf'[i] = m \/ \E j \in DOMAIN outbuf : outbuf'[i] = outbuf[j]
    <3> TAKE i \in DOMAIN outbuf'
    <3>1. i = Len(outbuf) + 1 \/ i \in 1 .. Len(outbuf)
      BY <2>9
    <3> QED
      BY <2>9, <3>1
  <2>11. ChunkInv'
    BY <1>2, <1>3, <1>5, <2>10 DEF ChunkInv
  <2>12. SizeInv'
    <3>1. Len(outbuf') <= MaxBundle
      <4>1. MaxBundle \in Nat \ {0}
        BY DEF Worker!ConstantsOK
      <4>2. CASE outbuf = << >>
        BY <2>9, <4>1, <4>2
      <4>3. CASE ~(Len(outbuf) + 1 > MaxBundle)
        BY <2>9, <4>1, <4>3
      <4> QED
        BY <1>7, <4>2, <4>3
    <3>2. Cardinality(Flushing(frames')) \in Nat /\ MaxBundle \in Nat /\ Len(outbuf') \in Nat
      BY <1>1, <1>5, <2>4, <2>5, <2>9, FlushKept DEF Worker!ConstantsOK
    <3> QED
      BY <3>1, <3>2 DEF SizeInv
  <2>13. Ordered(Issued') /\ (\A r : r # Worker!Top.req => Keeps(Issued, Issued', r))
           /\ Placed(f, Issued')
    <3>1. Placed(Worker!Top, Issued) /\ Ordered(Issued)
      BY <1>1, <1>5 DEF OrderInv
    <3>2. ~Ended(Issued, m.req) /\ Numbers(Issued, m.req) = 1 .. Worker!Top.made
      BY <1>1, <1>2, <1>3, <3>1 DEF Placed, Gone
    <3>3. m.k >= 1 /\ m.k - 1 = Worker!Top.made
      BY <1>1, <1>3
    <3>4. Before(m, << >>)
      BY DEF Before
    <3>5. Ordered(Inserted(Issued, << >>, m)) /\ Gains(m, Issued, Inserted(Issued, << >>, m))
      <4>1. Ordered(Issued \o << >>) /\ ~Ended(Issued \o << >>, m.req)
            /\ Numbers(Issued \o << >>, m.req) = 1 .. m.k - 1
        BY <2>6, <3>1, <3>2, <3>3
      <4>2. Ordered(Inserted(Issued, << >>, m)) /\ Gains(m, Issued \o << >>, Inserted(Issued, << >>, m))
        BY <1>3, <2>6, <3>3, <3>4, <4>1, OneIssued
      <4> QED
        BY <2>6, <4>2
    <3>6. Ordered(Issued') /\ Gains(m, Issued, Issued')
      BY <2>7, <3>5
    <3>7. Numbers(Issued', m.req) = 1 .. Worker!Top.made + 1
      BY <1>1, <1>3, <1>4, <3>2, <3>6, OneMore
    <3>8. ~Ended(Issued', m.req)
      BY <1>4, <3>2, <3>6 DEF Gains
    <3>10. Gone(f) = Worker!Top.made + 1 /\ ~Failing(f)
      BY <1>1, <2>2 DEF Gone, Failing
    <3>9. Placed(f, Issued')
      BY <1>3, <2>2, <3>7, <3>8, <3>10 DEF Placed
    <3> QED
      BY <1>3, <3>6, <3>9, GainsKeeps
  <2>14. (\E i \in DOMAIN outbuf' : Worker!Ending(outbuf'[i]))
           => \E n \in DOMAIN frames' : frames'[n].then = "flush"
    <3>1. (\E i \in DOMAIN outbuf' : Worker!Ending(outbuf'[i]))
            => \E i \in DOMAIN outbuf : Worker!Ending(outbuf[i])
      BY <1>4, <2>10
    <3> QED
      BY <1>1, <1>5, <2>4, <2>5, <3>1, EndingKept
  <2>15. wire' \in Seq(Worker!Message)
    BY <1>2, <2>6
  <2> QED
    BY <1>1, <1>2, <2>2, <2>5, <2>8, <2>9, <2>11, <2>12, <2>13, <2>14, <2>15, Moves
<1> QED
  BY <1>6, <1>7

\* What is sent ahead of the bundle.
LEMMA Ahead ==
    ASSUME Worker!ConstantsOK, WorkerInv, frames # << >>, StackMoved, Worker!Top.then # "flush",
           UNCHANGED <<outbuf, inbound, asked, conduct>>,
           NEW x \in Seq(Worker!Message), wire' = wire \o x,
             \A i \in DOMAIN x : x[i].req = Worker!Top.req, Chunked(x),
           Ordered(Issued'), \A r : r # Worker!Top.req => Keeps(Issued, Issued', r),
           Len(frames) \in DOMAIN frames' => Placed(frames'[Len(frames)], Issued'),
           Len(frames) \in DOMAIN frames' => ~frames'[Len(frames)].completed \/ frames'[Len(frames)].atomic,
           Len(frames) \notin DOMAIN frames' => Ended(Issued', Worker!Top.req)
    PROVE  WorkerInv'
<1>1. WorkerTyped /\ ReadInv /\ OrderInv /\ EndInv /\ ChunkInv /\ SizeInv
  BY DEF WorkerInv
<1>2. wire \in Seq(Worker!Message) /\ outbuf \in Seq(Worker!Message) /\ Issued = wire \o outbuf
  BY <1>1, IssuedTyped
<1>3. Issued' = (wire \o x) \o outbuf
  BY DEF Issued
<1>4. Grown
  BY <1>2, <1>3, GrownBy
<1>5. wire' \in Seq(Worker!Message) /\ outbuf' \in Seq(Worker!Message)
  BY <1>2
<1>6. ChunkInv'
  BY <1>1, <1>2, ChunkedBoth DEF ChunkInv
<1>7. SizeInv'
  <2>1. Len(outbuf) \in Nat /\ MaxBundle \in Nat
    BY <1>1 DEF WorkerTyped, Worker!ConstantsOK
  <2>2. /\ Cardinality(Flushing(frames)) <= Cardinality(Flushing(frames'))
        /\ Cardinality(Flushing(frames)) \in Nat /\ Cardinality(Flushing(frames')) \in Nat
    BY <1>1, FlushKept
  <2> QED
    BY <1>1, <2>1, <2>2 DEF SizeInv
<1>8. (\E i \in DOMAIN outbuf' : Worker!Ending(outbuf'[i]))
        => \E n \in DOMAIN frames' : frames'[n].then = "flush"
  BY <1>1, EndingKept
<1> QED
  BY <1>4, <1>5, <1>6, <1>7, <1>8, Moves

\* The chunks of a response: its last part says that it is there.
IsBlock(x, c, r, k) ==
    /\ c \in Nat /\ DOMAIN x = 1 .. c + 1
    /\ \A p \in 1 .. c + 1 : /\ x[p].req = r /\ x[p].k = k
                             /\ x[p].kind = IF p <= c THEN "PARTIAL" ELSE "NOCONTENT"

LEMMA BlockHas ==
    ASSUME NEW x, NEW c, NEW r, NEW k, IsBlock(x, c, r, k)
    PROVE  /\ c + 1 \in DOMAIN x /\ \A p \in DOMAIN x : x[p].req = r /\ x[p].k = k /\ ~Worker!Ending(x[p])
                                        /\ x[p].kind # "RESULT" /\ (Worker!Completes(x[p]) <=> p = c + 1)
           /\ \A p \in DOMAIN x : x[p].kind = "PARTIAL" \/ x[p].kind = "NOCONTENT"
           /\ Worker!Completes(x[c + 1])
<1>1. c \in Nat /\ DOMAIN x = 1 .. c + 1 /\ c + 1 \in 1 .. c + 1
  BY DEF IsBlock
<1>2. ASSUME NEW p \in 1 .. c + 1
      PROVE  /\ x[p].req = r /\ x[p].k = k /\ ~Worker!Ending(x[p]) /\ x[p].kind # "RESULT"
             /\ x[p].kind = "PARTIAL" \/ x[p].kind = "NOCONTENT"
             /\ Worker!Completes(x[p]) <=> p = c + 1
  <2>1. x[p].req = r /\ x[p].k = k /\ x[p].kind = IF p <= c THEN "PARTIAL" ELSE "NOCONTENT"
    BY DEF IsBlock
  <2>2. p <= c <=> p # c + 1
    BY <1>1
  <2> QED
    BY <2>1, <2>2 DEF Worker!Ending, Worker!Completes
<1> QED
  BY <1>1, <1>2

\* Where everything is after they were put in.
Shifted(n, l, i) == IF i <= n THEN i ELSE i + l

BlockPlaces(n, l, x, s, t) ==
    /\ n \in Nat /\ l \in Nat /\ DOMAIN x = 1 .. l /\ DOMAIN s \subseteq Nat
    /\ \A i \in DOMAIN s : Shifted(n, l, i) \in DOMAIN t /\ t[Shifted(n, l, i)] = s[i]
    /\ \A p \in DOMAIN x : n + p \in DOMAIN t /\ t[n + p] = x[p]
    /\ \A j \in DOMAIN t : \/ \E p \in DOMAIN x : j = n + p /\ t[j] = x[p]
                           \/ \E i \in DOMAIN s : j = Shifted(n, l, i) /\ t[j] = s[i]

LEMMA BlockAt ==
    ASSUME NEW a \in Seq(Worker!Message), NEW b \in Seq(Worker!Message), NEW x \in Seq(Worker!Message)
    PROVE  BlockPlaces(Len(a), Len(x), x, a \o b, (a \o x) \o b)
<1> DEFINE s == a \o b
           t == (a \o x) \o b
           n == Len(a)
           l == Len(x)
<1>1. n \in Nat /\ l \in Nat /\ Len(b) \in Nat /\ DOMAIN s = 1 .. n + Len(b) /\ DOMAIN t = 1 .. n + l + Len(b)
      /\ DOMAIN x = 1 .. l
  OBVIOUS
<1>2. /\ \A i \in 1 .. n : s[i] = a[i] /\ t[i] = a[i]
      /\ \A i \in n + 1 .. n + Len(b) : s[i] = b[i - n]
  OBVIOUS
<1>3. \A i \in 1 .. l : t[n + i] = x[i]
  <2> TAKE i \in 1 .. l
  <2>1. a \o x \in Seq(Worker!Message) /\ Len(a \o x) = n + l /\ n + i \in 1 .. n + l
    OBVIOUS
  <2>2. (a \o x)[n + i] = x[i]
    OBVIOUS
  <2> QED
    BY <2>1, <2>2
<1>4. \A i \in 1 .. Len(b) : t[n + l + i] = b[i]
  <2> TAKE i \in 1 .. Len(b)
  <2>1. a \o x \in Seq(Worker!Message) /\ Len(a \o x) = n + l
    OBVIOUS
  <2> QED
    BY <2>1
<1> HIDE DEF s, t, n, l
<1>5. ASSUME NEW i \in DOMAIN s PROVE Shifted(n, l, i) \in DOMAIN t /\ t[Shifted(n, l, i)] = s[i]
  <2>1. CASE i <= n
    BY <1>1, <1>2, <2>1 DEF Shifted
  <2>2. CASE i > n
    <3>1. i + l \in DOMAIN t /\ i - n \in 1 .. Len(b) /\ i \in n + 1 .. n + Len(b) /\ n + l + (i - n) = i + l
      BY <1>1, <2>2
    <3>2. t[i + l] = b[i - n] /\ s[i] = b[i - n]
      BY <1>2, <1>4, <3>1
    <3>3. Shifted(n, l, i) = i + l
      BY <1>1, <2>2 DEF Shifted
    <3> QED
      BY <3>1, <3>2, <3>3
  <2> QED
    BY <1>1, <2>1, <2>2
<1>6. ASSUME NEW p \in DOMAIN x PROVE n + p \in DOMAIN t /\ t[n + p] = x[p]
  BY <1>1, <1>3
<1>7. ASSUME NEW j \in DOMAIN t
      PROVE  \/ \E p \in DOMAIN x : j = n + p /\ t[j] = x[p]
             \/ \E i \in DOMAIN s : j = Shifted(n, l, i) /\ t[j] = s[i]
  <2>1. CASE j <= n
    <3>1. j \in DOMAIN s /\ Shifted(n, l, j) = j
      BY <1>1, <2>1 DEF Shifted
    <3> QED
      BY <1>5, <3>1
  <2>2. CASE j > n /\ j <= n + l
    <3>1. j - n \in DOMAIN x /\ j = n + (j - n)
      BY <1>1, <2>2
    <3> QED
      BY <1>6, <3>1
  <2>3. CASE j > n + l
    <3>1. j - l \in DOMAIN s /\ Shifted(n, l, j - l) = j
      BY <1>1, <2>3 DEF Shifted
    <3> QED
      BY <1>5, <3>1
  <2> QED
    BY <1>1, <2>1, <2>2, <2>3
<1>8. BlockPlaces(n, l, x, s, t)
  BY <1>1, <1>5, <1>6, <1>7 DEF BlockPlaces
<1> QED
  BY <1>8 DEF s, t, n, l

\* A response that is sent in chunks counts as one, whatever of its request is behind it.
Chunky(s, t, r, k) ==
    /\ Ordered(t) /\ Numbers(t, r) = 1 .. k /\ ~Ended(t, r) /\ (NoResult(s, r) => NoResult(t, r))
    /\ \A q : q # r => Keeps(s, t, q)

LEMMA BlockOrdered ==
    ASSUME NEW n, NEW l, NEW x, NEW s, NEW t, BlockPlaces(n, l, x, s, t), NEW c, NEW r, NEW k \in Nat,
           IsBlock(x, c, r, k), Ordered(s), ~Ended(s, r), k >= 1, Numbers(s, r) = 1 .. k - 1,
           \A i \in DOMAIN s : s[i].req = r /\ i > n => s[i].kind = "RESULT" /\ "big" \in conduct
    PROVE  Chunky(s, t, r, k)
<1>1. /\ n \in Nat /\ l \in Nat /\ DOMAIN x = 1 .. l /\ DOMAIN s \subseteq Nat
      /\ \A i \in DOMAIN s : Shifted(n, l, i) \in DOMAIN t /\ t[Shifted(n, l, i)] = s[i]
      /\ \A p \in DOMAIN x : n + p \in DOMAIN t /\ t[n + p] = x[p]
      /\ \A j \in DOMAIN t : \/ \E p \in DOMAIN x : j = n + p /\ t[j] = x[p]
                             \/ \E i \in DOMAIN s : j = Shifted(n, l, i) /\ t[j] = s[i]
  BY DEF BlockPlaces
<1>2. /\ \A p \in DOMAIN x : x[p].req = r /\ x[p].k = k /\ ~Worker!Ending(x[p])
           /\ x[p].kind # "RESULT" /\ (Worker!Completes(x[p]) <=> p = c + 1)
      /\ \A p \in DOMAIN x : x[p].kind = "PARTIAL" \/ x[p].kind = "NOCONTENT"
      /\ c + 1 \in DOMAIN x /\ Worker!Completes(x[c + 1])
  BY BlockHas
<1>3. c \in Nat /\ DOMAIN x = 1 .. c + 1
  BY DEF IsBlock
<1>4. ASSUME NEW i \in DOMAIN t, NEW j \in DOMAIN t, i < j, t[i].req = t[j].req
      PROVE  Worker!Follows(t[j], t[i])
  <2>1. ASSUME NEW p \in DOMAIN x, i = n + p, t[i] = x[p], NEW q \in DOMAIN x, j = n + q, t[j] = x[q]
        PROVE  Worker!Follows(t[j], t[i])
    <3>1. p # c + 1
      BY <1>1, <1>3, <1>4, <2>1
    <3>2. ~Worker!Completes(t[i]) /\ ~Worker!Ending(t[i])
      BY <1>2, <2>1, <3>1
    <3> QED
      BY <3>2 DEF Worker!Follows
  <2>2. ASSUME NEW p \in DOMAIN s, i = Shifted(n, l, p), t[i] = s[p], NEW q \in DOMAIN x, t[j] = x[q]
        PROVE  Worker!Follows(t[j], t[i])
    <3> DEFINE m == x[q]
    <3>1. m.req = r /\ m.k = k /\ s[p].req = r
      BY <1>2, <1>4, <2>2
    <3> HIDE DEF m
    <3>2. Worker!Follows(m, s[p])
      BY <3>1, ComesBehind
    <3> QED
      BY <2>2, <3>2 DEF m
  <2>3. ASSUME NEW p \in DOMAIN x, i = n + p, t[i] = x[p], NEW q \in DOMAIN s, j = Shifted(n, l, q),
                 t[j] = s[q]
        PROVE  Worker!Follows(t[j], t[i])
    <3> DEFINE m == x[p]
    <3>1. m.req = r /\ m.k = k /\ s[q].req = r /\ (m.kind = "PARTIAL" \/ m.kind = "NOCONTENT")
      BY <1>2, <1>4, <2>3
    <3>2. q > n
      BY <1>1, <1>4, <2>3 DEF Shifted
    <3>3. s[q].kind = "RESULT" /\ "big" \in conduct
      BY <3>1, <3>2
    <3>4. Overtakes(m)
      BY <3>1, <3>3 DEF Overtakes
    <3> HIDE DEF m
    <3>5. Worker!Follows(s[q], m)
      BY <3>1, <3>3, <3>4, ComesBefore
    <3> QED
      BY <2>3, <3>5 DEF m
  <2>4. ASSUME NEW p \in DOMAIN s, i = Shifted(n, l, p), t[i] = s[p],
               NEW q \in DOMAIN s, j = Shifted(n, l, q), t[j] = s[q]
        PROVE  Worker!Follows(t[j], t[i])
    <3>1. p < q
      BY <1>1, <1>4, <2>4 DEF Shifted
    <3> QED
      BY <1>4, <2>4, <3>1 DEF Ordered
  <2> QED
    BY <1>1, <2>1, <2>2, <2>3, <2>4
<1>5. ASSUME NEW q, NEW y
      PROVE  y \in Numbers(t, q) <=> y \in Numbers(s, q) \/ (q = r /\ y = k)
  <2>1. ASSUME NEW j \in DOMAIN t, t[j].req = q, Worker!Completes(t[j]), y = t[j].k
        PROVE  y \in Numbers(s, q) \/ (q = r /\ y = k)
    BY <1>1, <1>2, <2>1 DEF Numbers
  <2>2. ASSUME NEW i \in DOMAIN s, s[i].req = q, Worker!Completes(s[i]), y = s[i].k PROVE y \in Numbers(t, q)
    BY <1>1, <2>2 DEF Numbers
  <2>3. ASSUME q = r, y = k PROVE y \in Numbers(t, q)
    <3>1. n + (c + 1) \in DOMAIN t /\ t[n + (c + 1)] = x[c + 1]
      BY <1>1, <1>2
    <3> QED
      BY <1>2, <2>3, <3>1 DEF Numbers
  <2> QED
    BY <2>1, <2>2, <2>3 DEF Numbers
<1>6. ASSUME NEW q PROVE Ended(t, q) <=> Ended(s, q)
  <2>1. ASSUME NEW j \in DOMAIN t, t[j].req = q, Worker!Ending(t[j]) PROVE Ended(s, q)
    BY <1>1, <1>2, <2>1 DEF Ended
  <2>2. ASSUME NEW i \in DOMAIN s, s[i].req = q, Worker!Ending(s[i]) PROVE Ended(t, q)
    BY <1>1, <2>2 DEF Ended
  <2> QED
    BY <2>1, <2>2 DEF Ended
<1>7. ASSUME NEW q, NoResult(s, q) PROVE NoResult(t, q)
  BY <1>1, <1>2, <1>7 DEF NoResult
<1>8. \A q : Numbers(s, q) \subseteq Numbers(t, q)
  BY <1>5
<1>9. ASSUME NEW j \in DOMAIN t, Worker!Completes(t[j])
      PROVE  t[j].k >= 1 /\ 1 .. t[j].k - 1 \subseteq Numbers(t, t[j].req)
  <2>1. ASSUME NEW p \in DOMAIN x, t[j] = x[p]
                 PROVE t[j].k >= 1 /\ 1 .. t[j].k - 1 \subseteq Numbers(t, t[j].req)
    BY <1>2, <1>8, <2>1
  <2>2. ASSUME NEW q \in DOMAIN s, t[j] = s[q]
                 PROVE t[j].k >= 1 /\ 1 .. t[j].k - 1 \subseteq Numbers(t, t[j].req)
    <3>1. s[q].k >= 1 /\ 1 .. s[q].k - 1 \subseteq Numbers(s, s[q].req)
      BY <1>9, <2>2 DEF Ordered
    <3> QED
      BY <1>8, <2>2, <3>1
  <2> QED
    BY <1>1, <2>1, <2>2
<1>10. Ordered(t)
  BY <1>4, <1>9 DEF Ordered
<1>11. Numbers(t, r) = 1 .. k
  <2>1. \A y : y \in Numbers(t, r) <=> y \in (1 .. k - 1) \cup {k}
    BY <1>5
  <2>2. (1 .. k - 1) \cup {k} = 1 .. k
    OBVIOUS
  <2>3. Numbers(t, r) = (1 .. k - 1) \cup {k}
    BY <2>1 DEF Numbers
  <2> QED
    BY <2>2, <2>3
<1>12. ASSUME NEW q, q # r PROVE Numbers(t, q) = Numbers(s, q)
  BY <1>5, <1>12
<1>13. \A q : q # r => Keeps(s, t, q)
  BY <1>6, <1>7, <1>12 DEF Keeps
<1>14. ~Ended(t, r)
  BY <1>6
<1> QED
  BY <1>7, <1>10, <1>11, <1>13, <1>14 DEF Chunky

\* The request in progress issues a response in chunks, ahead of what is bundled.
LEMMA BlockIssued ==
    ASSUME WorkerTyped, ChunkInv, OrderInv, NEW x \in Seq(Worker!Message), NEW r, NEW k \in Nat,
           IsBlock(x, Chunks, r, k), Issued' = (wire \o x) \o outbuf, ~Ended(Issued, r), k >= 1,
           Numbers(Issued, r) = 1 .. k - 1, "big" \in conduct \/ NoResult(Issued, r)
    PROVE  Chunky(Issued, Issued', r, k)
<1>1. wire \in Seq(Worker!Message) /\ outbuf \in Seq(Worker!Message) /\ Issued = wire \o outbuf
  BY IssuedTyped
<1>3. BlockPlaces(Len(wire), Len(x), x, Issued, Issued')
  BY <1>1, BlockAt
<1>4. ASSUME NEW i \in DOMAIN Issued, Issued[i].req = r, i > Len(wire)
      PROVE  Issued[i].kind = "RESULT" /\ "big" \in conduct
  <2>1. i - Len(wire) \in DOMAIN outbuf /\ Issued[i] = outbuf[i - Len(wire)]
    BY <1>1, <1>4
  <2>2. Issued[i].kind = "RESULT"
    BY <1>4, <2>1, BundledAre
  <2>3. ~NoResult(Issued, r)
    BY <1>4, <2>2 DEF NoResult
  <2> QED
    BY <2>2, <2>3
<1>5. Ordered(Issued)
  BY DEF OrderInv
<1>6. \A i \in DOMAIN Issued : Issued[i].req = r /\ i > Len(wire) => Issued[i].kind = "RESULT"
        /\ "big" \in conduct
  BY <1>4
<1> QED
  BY <1>3, <1>5, <1>6, BlockOrdered

LEMMA ChunksAre ==
    ASSUME Worker!ConstantsOK, NEW f \in Worker!Frame, NEW k \in 0 .. MaxMade
    PROVE  /\ Worker!InChunks(f.req, k) \in Seq(Worker!Message) /\ Chunked(Worker!InChunks(f.req, k))
           /\ \A i \in DOMAIN Worker!InChunks(f.req, k) : Worker!InChunks(f.req, k)[i].req = f.req
           /\ IsBlock(Worker!InChunks(f.req, k), Chunks, f.req, k)
<1> DEFINE x == Worker!InChunks(f.req, k)
<1>1. Chunks \in Nat /\ 1 .. Chunks + 1 = DOMAIN x
  BY DEF Worker!ConstantsOK, Worker!InChunks
<1>2. ASSUME NEW i \in 1 .. Chunks + 1
      PROVE  /\ x[i] \in Worker!Message /\ x[i].req = f.req /\ x[i].k = k
             /\ x[i].kind = IF i <= Chunks THEN "PARTIAL" ELSE "NOCONTENT"
  <2>1. x[i] = Worker!Msg(f.req, IF i <= Chunks THEN "PARTIAL" ELSE "NOCONTENT", k)
    BY DEF Worker!InChunks
  <2>2. (IF i <= Chunks THEN "PARTIAL" ELSE "NOCONTENT") \in Worker!Kinds
    BY DEF Worker!Kinds
  <2> QED
    BY <2>1, <2>2, MessageIs
<1>3. x = [i \in 1 .. Chunks + 1 |-> x[i]]
  BY DEF Worker!InChunks
<1> HIDE DEF x
<1>4. x \in [1 .. Chunks + 1 -> Worker!Message]
  BY <1>2, <1>3
<1>5. x \in Seq(Worker!Message)
  BY <1>1, <1>4
<1>6. Chunked(x)
  <2> SUFFICES ASSUME NEW i \in DOMAIN x, x[i].kind = "PARTIAL"
               PROVE  /\ i + 1 \in DOMAIN x /\ x[i + 1].req = x[i].req /\ x[i + 1].k = x[i].k
                      /\ x[i + 1].kind \in {"PARTIAL", "NOCONTENT"}
    BY DEF Chunked
  <2>1. i \in 1 .. Chunks + 1 /\ i <= Chunks
    BY <1>1, <1>2
  <2>2. i + 1 \in 1 .. Chunks + 1
    BY <1>1, <2>1
  <2> QED
    BY <1>1, <1>2, <2>1, <2>2
<1>7. IsBlock(x, Chunks, f.req, k)
  BY <1>1, <1>2 DEF IsBlock
<1> QED
  BY <1>1, <1>2, <1>5, <1>6, <1>7 DEF x

LEMMA SendChunkedStep ==
    ASSUME Worker!ConstantsOK, WorkerInv, "big" \in conduct, Worker!SendChunked, UNCHANGED conduct
    PROVE  WorkerInv'
<1> DEFINE f == [Worker!Top EXCEPT !.made = Worker!Next1]
           x == Worker!InChunks(Worker!Top.req, Worker!Next1)
<1>1. /\ Worker!Running /\ ~Worker!Top.completed /\ Worker!Next1 \in 0 .. MaxMade
      /\ frames # << >> /\ Worker!Top \in Worker!Frame /\ Shaped(Worker!Top)
           /\ Worker!Top.then = "none" /\ Worker!Top.pc = "run"
      /\ ~Worker!Top.over /\ Worker!Top.held = << >> /\ Placed(Worker!Top, Issued)
      /\ Worker!Next1 = Worker!Top.made + 1 /\ Worker!Top.made \in Nat
  BY MayMore DEF Worker!SendChunked
<1>2. ~Worker!Top.atomic /\ frames' = Worker!SetTop(f) /\ wire' = wire \o x
        /\ UNCHANGED <<outbuf, inbound, asked>>
  BY DEF Worker!SendChunked
<1>3. x \in Seq(Worker!Message) /\ Chunked(x) /\ IsBlock(x, Chunks, Worker!Top.req, Worker!Next1)
        /\ \A i \in DOMAIN x : x[i].req = Worker!Top.req
  BY <1>1, ChunksAre
<1> HIDE DEF x
<1>4. /\ f \in Worker!Frame /\ f.req = Worker!Top.req /\ ~f.atomic /\ f.then = "none"
           /\ f.pc = "run" /\ ~f.over
      /\ f.held = << >> /\ f.saved = Worker!Top.saved /\ ~f.completed /\ f.made = Worker!Next1
  BY <1>1, <1>2 DEF Worker!Frame
<1> HIDE DEF f
<1>5. Shaped(f)
  BY <1>1, <1>2, <1>4 DEF Shaped
<1>6. Replaced(f) /\ Worker!Top.then # "flush"
  BY <1>1, <1>2, <1>4, <1>5 DEF Replaced
<1>7. StackMoved /\ Len(frames) \in DOMAIN frames' /\ frames'[Len(frames)] = f
  BY <1>1, <1>6, StackReplaced DEF WorkerInv
<1>8. Chunky(Issued, Issued', Worker!Top.req, Worker!Next1)
  <2>1. Gone(Worker!Top) = Worker!Top.made /\ Worker!Next1 - 1 = Worker!Top.made /\ Worker!Next1 \in Nat
        /\ Worker!Next1 >= 1
    BY <1>1, <1>2 DEF Gone
  <2>2. Numbers(Issued, Worker!Top.req) = 1 .. Worker!Next1 - 1 /\ ~Ended(Issued, Worker!Top.req)
    BY <1>1, <2>1 DEF Placed
  <2> QED
    <3>1. WorkerTyped /\ ChunkInv /\ OrderInv
      BY DEF WorkerInv
    <3>2. Issued' = (wire \o x) \o outbuf
      BY <1>2 DEF Issued
    <3>3. x \in Seq(Worker!Message) /\ IsBlock(x, Chunks, Worker!Top.req, Worker!Next1)
      BY <1>3
    <3> QED
      BY <2>1, <2>2, <3>1, <3>2, <3>3, BlockIssued
<1>9. Gone(f) = Worker!Next1 /\ ~Failing(f)
  BY <1>4 DEF Gone, Failing
<1>10. Placed(f, Issued')
  BY <1>4, <1>8, <1>9 DEF Placed, Chunky
<1>11. Ordered(Issued') /\ \A r : r # Worker!Top.req => Keeps(Issued, Issued', r)
  BY <1>8 DEF Chunky
<1> QED
  BY <1>1, <1>2, <1>3, <1>4, <1>6, <1>7, <1>10, <1>11, Ahead

\* The STATUS that ends a request is bundled, and the bundle will be flushed.
LEMMA EndBundleStep ==
    ASSUME Worker!ConstantsOK, WorkerInv, Worker!Running, ~Worker!Top.atomic, ~Worker!Top.completed,
             UNCHANGED <<inbound, asked, wire, conduct>>,
           NEW f \in Worker!Frame, f.req = Worker!Top.req, ~f.atomic, f.then = "flush",
             f.pc = "wait", f.held = << >>,
           f.saved = Worker!Top.saved, f.completed, f.made = Worker!Top.made,
             f.big = Worker!Top.big, frames' = Worker!SetTop(f),
           outbuf' = Append(outbuf, Worker!Msg(Worker!Top.req, "COMPLETE", 0))
    PROVE  WorkerInv'
<1> DEFINE m == Worker!Msg(Worker!Top.req, "COMPLETE", 0)
           h == <<m>>
<1>1. /\ frames # << >> /\ Worker!Top \in Worker!Frame /\ Shaped(Worker!Top)
           /\ Worker!Top.then = "none" /\ Worker!Top.pc = "run"
      /\ ~Worker!Top.over /\ Worker!Top.held = << >> /\ Placed(Worker!Top, Issued)
  BY RunningTop
<1>2. 0 \in 0 .. MaxMade /\ "COMPLETE" \in Worker!Kinds
  BY DEF Worker!ConstantsOK, Worker!Kinds
<1>3. m \in Worker!Message /\ h \in Seq(Worker!Message) /\ m.req = Worker!Top.req /\ m.kind = "COMPLETE"
  BY <1>1, <1>2, MessageIs
<1>4. ~Worker!Completes(m) /\ Worker!Ending(m)
  BY <1>3 DEF Worker!Completes, Worker!Ending
<1>5. WorkerTyped /\ ReadInv /\ ChunkInv /\ OrderInv /\ EndInv /\ SizeInv
  BY DEF WorkerInv
<1>6. outbuf' = Append(outbuf, m) /\ frames' = Worker!SetTop(f)
  OBVIOUS
<1> HIDE DEF m
<1>7. /\ f \in Worker!Frame /\ f.req = Worker!Top.req /\ ~f.atomic /\ f.then = "flush" /\ f.pc = "wait"
      /\ f.held = << >> /\ f.saved = Worker!Top.saved /\ f.completed /\ f.made = Worker!Top.made
           /\ f.big = Worker!Top.big
  OBVIOUS
<1>8. Shaped(f)
  BY <1>1, <1>7 DEF Shaped
<1>9. Replaced(f) /\ Worker!Top.then # "flush"
  BY <1>1, <1>6, <1>7, <1>8 DEF Replaced
<1>10. StackMoved /\ Len(frames) \in DOMAIN frames' /\ frames'[Len(frames)] = f
  BY <1>1, <1>5, <1>9, StackReplaced
<1>11. /\ Issued \in Seq(Worker!Message) /\ wire \in Seq(Worker!Message)
            /\ outbuf \in Seq(Worker!Message) /\ Issued = wire \o outbuf
       /\ Issued = Issued \o << >> /\ << >> \in Seq(Worker!Message)
  BY <1>5, IssuedTyped
<1>12. Issued' = Inserted(Issued, << >>, m) /\ Issued' = (Issued \o h) \o << >>
  <2>1. Issued' = wire \o Append(outbuf, m)
    BY <1>6 DEF Issued
  <2>2. wire \o Append(outbuf, m) = Inserted(wire \o outbuf, << >>, m)
    BY <1>3, <1>11, Sequences1
  <2>3. (Issued \o <<m>>) \o << >> = Inserted(Issued, << >>, m)
    BY <1>3, <1>11, InsertedLast
  <2> QED
    BY <1>11, <2>1, <2>2, <2>3
<1>13. Grown
  <2>1. \A i \in DOMAIN h : h[i].req = Worker!Top.req
    BY <1>3
  <2> HIDE DEF h
  <2> QED
    BY <1>3, <1>11, <1>12, <2>1, GrownBy
<1>14. /\ outbuf' \in Seq(Worker!Message) /\ Len(outbuf') = Len(outbuf) + 1 /\ Len(outbuf) \in Nat
       /\ DOMAIN outbuf' = 1 .. Len(outbuf) + 1 /\ outbuf'[Len(outbuf) + 1] = m
       /\ \A i \in 1 .. Len(outbuf) : outbuf'[i] = outbuf[i] /\ i \in DOMAIN outbuf
  BY <1>3, <1>6, <1>11
<1>15. \A i \in DOMAIN outbuf' : outbuf'[i] = m \/ \E j \in DOMAIN outbuf : outbuf'[i] = outbuf[j]
  <2> TAKE i \in DOMAIN outbuf'
  <2>1. i = Len(outbuf) + 1 \/ i \in 1 .. Len(outbuf)
    BY <1>14
  <2> QED
    BY <1>14, <2>1
<1>16. ChunkInv'
  BY <1>3, <1>5, <1>15 DEF ChunkInv
<1>17. SizeInv'
  <2>1. Len(frames) \in Flushing(frames')
    BY <1>7, <1>10 DEF Flushing
  <2>2. /\ Cardinality(Flushing(frames)) + 1 <= Cardinality(Flushing(frames'))
        /\ Cardinality(Flushing(frames)) \in Nat /\ Cardinality(Flushing(frames')) \in Nat
    BY <1>1, <1>5, <1>9, <1>10, <2>1, FlushKept
  <2>3. Len(outbuf) <= MaxBundle + Cardinality(Flushing(frames)) /\ MaxBundle \in Nat
    BY <1>5 DEF SizeInv, Worker!ConstantsOK
  <2>4. Len(outbuf') <= MaxBundle + Cardinality(Flushing(frames'))
    BY <1>14, <2>2, <2>3
  <2> QED
    BY <2>4 DEF SizeInv
<1>18. Ended(Issued', m.req)
  <2>1. InsertPlaces(Len(Issued), m, Issued \o << >>, Issued')
    BY <1>3, <1>11, <1>12, InsertedAt
  <2>2. Gains(m, Issued \o << >>, Issued')
    BY <2>1, InsertedGains
  <2> QED
    BY <1>4, <2>2 DEF Gains
<1>19. Ordered(Issued') /\ (\A r : r # Worker!Top.req => Keeps(Issued, Issued', r))
         /\ Placed(f, Issued')
  <2>1. Placed(Worker!Top, Issued) /\ Ordered(Issued)
    BY <1>1, <1>5 DEF OrderInv
  <2>2. ~Ended(Issued, m.req) /\ Numbers(Issued, m.req) = 1 .. Worker!Top.made
    BY <1>1, <1>3, <2>1 DEF Placed, Gone
  <2>3. Before(m, << >>)
    BY DEF Before
  <2>4. Ordered(Inserted(Issued, << >>, m)) /\ Gains(m, Issued, Inserted(Issued, << >>, m))
    <3>1. Ordered(Issued \o << >>) /\ ~Ended(Issued \o << >>, m.req)
      BY <1>11, <2>1, <2>2
    <3>2. Ordered(Inserted(Issued, << >>, m)) /\ Gains(m, Issued \o << >>, Inserted(Issued, << >>, m))
      BY <1>3, <1>4, <1>11, <2>3, <3>1, OneIssued
    <3> QED
      BY <1>11, <3>2
  <2>5. Ordered(Issued') /\ Gains(m, Issued, Issued')
    BY <1>12, <2>4
  <2>6. Numbers(Issued', m.req) = 1 .. Worker!Top.made
    BY <1>4, <2>2, <2>5 DEF Gains
  <2>8. Gone(f) = Worker!Top.made /\ ~Failing(f)
    BY <1>7 DEF Gone, Failing
  <2>7. Placed(f, Issued')
    BY <1>3, <1>7, <2>6, <2>8 DEF Placed
  <2> QED
    BY <1>3, <2>5, <2>7, GainsKeeps
<1>20. \E n \in DOMAIN frames' : frames'[n].then = "flush"
  BY <1>7, <1>10
<1>21. wire' \in Seq(Worker!Message)
  BY <1>11
<1> QED
  BY <1>1, <1>3, <1>7, <1>10, <1>13, <1>14, <1>16, <1>17, <1>18, <1>19, <1>20, <1>21, Moves

LEMMA RespondCompleteStep ==
    ASSUME Worker!ConstantsOK, WorkerInv, Worker!RespondComplete, UNCHANGED conduct
    PROVE  WorkerInv'
<1>1. /\ frames # << >> /\ Worker!Top \in Worker!Frame /\ Shaped(Worker!Top)
           /\ Worker!Top.then = "none" /\ Worker!Top.pc = "run"
      /\ ~Worker!Top.over /\ Worker!Top.held = << >> /\ Placed(Worker!Top, Issued)
  BY RunningTop DEF Worker!RespondComplete
<1>2. Worker!Running /\ ~Worker!Top.completed /\ UNCHANGED <<inbound, asked, wire>>
  BY DEF Worker!RespondComplete
<1>3. CASE Worker!Top.atomic
  <2> DEFINE f == [Worker!Top EXCEPT !.saved = TRUE, !.completed = TRUE]
  <2>1. frames' = Worker!SetTop(f) /\ UNCHANGED outbuf
    BY <1>3 DEF Worker!RespondComplete
  <2>2. /\ f \in Worker!Frame /\ f.req = Worker!Top.req /\ f.atomic /\ f.then = "none"
             /\ f.pc = "run" /\ ~f.over
        /\ f.held = << >> /\ f.saved /\ f.big = Worker!Top.big
    BY <1>1, <1>3 DEF Worker!Frame
  <2> HIDE DEF f
  <2>3. Shaped(f)
    BY <2>2 DEF Shaped
  <2>6. ~Failing(f) /\ Gone(f) = 0 /\ Gone(Worker!Top) = 0
    BY <1>1, <1>3, <2>2 DEF Failing, Gone
  <2>4. Placed(f, Issued)
    BY <1>1, <1>3, <2>2, <2>6 DEF Placed
  <2>5. Replaced(f) /\ Worker!Top.then # "flush" /\ f.then # "flush"
    BY <1>1, <2>1, <2>2, <2>3 DEF Replaced
  <2> QED
    BY <1>1, <1>2, <2>1, <2>2, <2>4, <2>5, Stays
<1>4. CASE ~Worker!Top.atomic
  <2> DEFINE f == [Worker!Top EXCEPT !.completed = TRUE, !.pc = "wait", !.then = "flush"]
  <2>1. frames' = Worker!SetTop(f) /\ outbuf' = Append(outbuf, Worker!Msg(Worker!Top.req, "COMPLETE", 0))
    BY <1>4 DEF Worker!RespondComplete, Worker!EndBundle
  <2>2. /\ f \in Worker!Frame /\ f.req = Worker!Top.req /\ ~f.atomic /\ f.then = "flush"
             /\ f.pc = "wait" /\ f.held = << >>
        /\ f.saved = Worker!Top.saved /\ f.completed /\ f.made = Worker!Top.made /\ f.big = Worker!Top.big
    BY <1>1, <1>4 DEF Worker!Frame
  <2> HIDE DEF f
  <2> QED
    BY <1>2, <1>4, <2>1, <2>2, EndBundleStep
<1> QED
  BY <1>3, <1>4

LEMMA ReturnOneStep ==
    ASSUME Worker!ConstantsOK, WorkerInv, Worker!ReturnOne, UNCHANGED conduct
    PROVE  WorkerInv'
<1> DEFINE g == [Worker!Top EXCEPT !.over = TRUE]
           f == [g EXCEPT !.completed = TRUE, !.pc = "wait", !.then = "flush"]
<1>1. Worker!Top \in Worker!Frame /\ Worker!Top.held = << >>
  BY RunningTop DEF Worker!ReturnOne
<1>2. Worker!Running /\ ~Worker!Top.completed /\ ~Worker!Top.atomic /\ UNCHANGED <<inbound, asked, wire>>
  BY DEF Worker!ReturnOne
<1>3. /\ g \in Worker!Frame /\ g.req = Worker!Top.req /\ ~g.atomic /\ g.held = << >>
           /\ g.saved = Worker!Top.saved
      /\ g.made = Worker!Top.made /\ g.big = Worker!Top.big
  BY <1>1, <1>2 DEF Worker!Frame
<1>4. frames' = Worker!SetTop(f) /\ outbuf' = Append(outbuf, Worker!Msg(g.req, "COMPLETE", 0))
  BY DEF Worker!ReturnOne, Worker!EndBundle
<1> HIDE DEF g
<1>5. /\ f \in Worker!Frame /\ f.req = Worker!Top.req /\ ~f.atomic /\ f.then = "flush"
           /\ f.pc = "wait" /\ f.held = << >>
      /\ f.saved = Worker!Top.saved /\ f.completed /\ f.made = Worker!Top.made /\ f.big = Worker!Top.big
  BY <1>3 DEF Worker!Frame
<1> HIDE DEF f
<1>6. outbuf' = Append(outbuf, Worker!Msg(Worker!Top.req, "COMPLETE", 0))
  BY <1>3, <1>4
<1> QED
  BY <1>2, <1>4, <1>5, <1>6, EndBundleStep

LEMMA ReturnSavedStep ==
    ASSUME Worker!ConstantsOK, WorkerInv, Worker!ReturnSaved, 1 \in 0 .. MaxMade, UNCHANGED conduct
    PROVE  WorkerInv'
<1> DEFINE closing == Worker!Msg(Worker!Top.req, "COMPLETE", 0)
           one == Worker!Msg(Worker!Top.req, "RESULT", 1)
           e == [Worker!Top EXCEPT !.over = TRUE, !.pc = "wait", !.then = "send"]
<1>1. /\ frames # << >> /\ Worker!Top \in Worker!Frame /\ Shaped(Worker!Top)
           /\ Worker!Top.then = "none" /\ Worker!Top.pc = "run"
      /\ ~Worker!Top.over /\ Worker!Top.held = << >> /\ Placed(Worker!Top, Issued)
  BY RunningTop DEF Worker!ReturnSaved
<1>2. Worker!Running /\ Worker!Top.saved /\ Worker!Top.atomic /\ UNCHANGED <<outbuf, inbound, asked>>
  BY <1>1 DEF Worker!ReturnSaved, Shaped
<1>3. 0 \in 0 .. MaxMade /\ "COMPLETE" \in Worker!Kinds /\ "RESULT" \in Worker!Kinds
  BY DEF Worker!ConstantsOK, Worker!Kinds
<1>4. closing \in Worker!Message /\ one \in Worker!Message /\ closing.kind = "COMPLETE" /\ one.kind = "RESULT"
  BY <1>1, <1>3, MessageIs
<1>5. e \in Worker!Frame /\ e.req = Worker!Top.req /\ e.atomic /\ e.saved /\ e.over
        /\ e.pc = "wait" /\ e.then = "send" /\ e.big = Worker!Top.big
  BY <1>1, <1>2 DEF Worker!Frame
<1>6. CASE Worker!Top.big
  <2> DEFINE h == <<closing>>
             f == [e EXCEPT !.held = h]
             x == Worker!InChunks(Worker!Top.req, 1)
  <2>1. wire' = wire \o x /\ frames' = Worker!SetTop(f)
    BY <1>6 DEF Worker!ReturnSaved
  <2>2. h \in Seq(Worker!Message)
    BY <1>4
  <2>3. h \in {<<Worker!Msg(Worker!Top.req, "EXCEPTION", 0)>>, <<Worker!Msg(Worker!Top.req, "COMPLETE", 0)>>,
               <<Worker!Msg(Worker!Top.req, "RESULT", 1), Worker!Msg(Worker!Top.req, "COMPLETE", 0)>>}
    OBVIOUS
  <2>4. x \in Seq(Worker!Message) /\ Chunked(x) /\ IsBlock(x, Chunks, Worker!Top.req, 1)
        /\ \A i \in DOMAIN x : x[i].req = Worker!Top.req
    BY <1>1, ChunksAre
  <2>10. h # <<Worker!Msg(Worker!Top.req, "EXCEPTION", 0)>>
           /\ h = <<Worker!Msg(Worker!Top.req, "COMPLETE", 0)>>
    BY DEF Worker!Msg
  <2> HIDE DEF h, e, x
  <2>5. /\ f \in Worker!Frame /\ f.req = Worker!Top.req /\ f.atomic /\ f.saved /\ f.over
             /\ f.pc = "wait" /\ f.then = "send"
        /\ f.held = h
    BY <1>5, <2>2 DEF Worker!Frame
  <2> HIDE DEF f
  <2>6. Shaped(f)
    BY <2>3, <2>5 DEF Shaped
  <2>7. Replaced(f) /\ Worker!Top.then # "flush"
    BY <1>1, <2>1, <2>5, <2>6 DEF Replaced
  <2>8. StackMoved /\ Len(frames) \in DOMAIN frames' /\ frames'[Len(frames)] = f
    BY <1>1, <2>7, StackReplaced DEF WorkerInv
  <2>9. Chunky(Issued, Issued', Worker!Top.req, 1)
    <3>1. Gone(Worker!Top) = 0 /\ 1 - 1 = 0
      BY <1>1, <1>2 DEF Gone
    <3>2. /\ Numbers(Issued, Worker!Top.req) = 1 .. 1 - 1 /\ ~Ended(Issued, Worker!Top.req)
          /\ NoResult(Issued, Worker!Top.req)
      BY <1>1, <1>2, <3>1 DEF Placed
    <3> QED
      <4>1. WorkerTyped /\ ChunkInv /\ OrderInv /\ 1 \in Nat /\ 1 >= 1
        BY DEF WorkerInv
      <4>2. Issued' = (wire \o x) \o outbuf
        BY <1>2, <2>1 DEF Issued
      <4>3. x \in Seq(Worker!Message) /\ IsBlock(x, Chunks, Worker!Top.req, 1)
        BY <2>4
      <4> QED
        BY <3>2, <4>1, <4>2, <4>3, BlockIssued
  <2>11. Gone(f) = 1 /\ ~Failing(f)
    BY <2>5, <2>10 DEF Gone, Failing
  <2>12. NoResult(Issued, Worker!Top.req)
    BY <1>1, <1>2 DEF Placed
  <2>13. Placed(f, Issued')
    BY <2>5, <2>9, <2>11, <2>12 DEF Placed, Chunky
  <2>14. Ordered(Issued') /\ \A r : r # Worker!Top.req => Keeps(Issued, Issued', r)
    BY <2>9 DEF Chunky
  <2> QED
    BY <1>1, <1>2, <2>1, <2>4, <2>5, <2>7, <2>8, <2>13, <2>14, Ahead
<1>7. CASE ~Worker!Top.big
  <2> DEFINE h == <<one, closing>>
             f == [e EXCEPT !.held = h]
  <2>1. UNCHANGED wire /\ frames' = Worker!SetTop(f)
    BY <1>7 DEF Worker!ReturnSaved
  <2>2. h \in Seq(Worker!Message)
    BY <1>4
  <2>3. h \in {<<Worker!Msg(Worker!Top.req, "EXCEPTION", 0)>>, <<Worker!Msg(Worker!Top.req, "COMPLETE", 0)>>,
               <<Worker!Msg(Worker!Top.req, "RESULT", 1), Worker!Msg(Worker!Top.req, "COMPLETE", 0)>>}
    OBVIOUS
  <2>4. h # <<Worker!Msg(Worker!Top.req, "COMPLETE", 0)>>
    <3>1. Len(h) = 2 /\ Len(<<Worker!Msg(Worker!Top.req, "COMPLETE", 0)>>) = 1
      OBVIOUS
    <3> QED
      BY <3>1
  <2>9. h # <<Worker!Msg(Worker!Top.req, "EXCEPTION", 0)>>
    <3>1. Len(h) = 2 /\ Len(<<Worker!Msg(Worker!Top.req, "EXCEPTION", 0)>>) = 1
      OBVIOUS
    <3> QED
      BY <3>1
  <2> HIDE DEF h, e
  <2>5. /\ f \in Worker!Frame /\ f.req = Worker!Top.req /\ f.atomic /\ f.saved /\ f.over
             /\ f.pc = "wait" /\ f.then = "send"
        /\ f.held = h /\ f.big = Worker!Top.big
    BY <1>5, <2>2 DEF Worker!Frame
  <2> HIDE DEF f
  <2>6. Shaped(f)
    BY <2>3, <2>5 DEF Shaped
  <2>10. Gone(f) = 0 /\ Gone(Worker!Top) = 0 /\ ~Failing(f)
    BY <1>1, <1>2, <2>4, <2>5, <2>9 DEF Gone, Failing
  <2>7. Placed(f, Issued)
    BY <1>1, <1>2, <2>5, <2>10 DEF Placed
  <2>8. Replaced(f) /\ Worker!Top.then # "flush" /\ f.then # "flush"
    BY <1>1, <2>1, <2>5, <2>6 DEF Replaced
  <2> QED
    BY <1>1, <1>2, <2>1, <2>5, <2>7, <2>8, Stays
<1> QED
  BY <1>6, <1>7

\* The request in progress, when it waits.
LEMMA WaitingTop ==
    ASSUME WorkerInv, frames # << >>, Worker!Top.pc = "wait"
    PROVE  /\ Worker!Top \in Worker!Frame /\ Shaped(Worker!Top)
                /\ Worker!Top.then \in {"append", "flush", "send"}
           /\ Placed(Worker!Top, Issued)
           /\ ~Worker!Top.atomic /\ Worker!Top.completed => Ended(Issued, Worker!Top.req)
<1>1. WorkerTyped
  BY DEF WorkerInv
<1>2. Len(frames) \in DOMAIN frames /\ Worker!Top = frames[Len(frames)]
        /\ Worker!Top \in Worker!Frame /\ Shaped(Worker!Top)
  BY <1>1, TopIs
<1>3. Placed(Worker!Top, Issued)
  BY <1>2 DEF WorkerInv, OrderInv
<1>4. ~Worker!Top.atomic /\ Worker!Top.completed => Ended(Issued, Worker!Top.req)
  BY <1>2 DEF WorkerInv, EndInv
<1>5. Worker!Top.then \in {"append", "flush", "send"}
  BY <1>2 DEF Worker!Frame, Shaped
<1> QED
  BY <1>2, <1>3, <1>4, <1>5

\* The method goes on after it has waited.
Resumed == [Worker!Top EXCEPT !.pc = "run", !.then = "none", !.held = << >>]

LEMMA ResumedIs ==
    ASSUME Worker!Top \in Worker!Frame, Shaped(Worker!Top), ~Worker!Top.over
    PROVE  /\ Resumed \in Worker!Frame /\ Resumed.req = Worker!Top.req
                /\ Resumed.atomic = Worker!Top.atomic /\ Resumed.then = "none"
           /\ Resumed.pc = "run" /\ ~Resumed.over /\ Resumed.held = << >> /\ Resumed.saved = Worker!Top.saved
           /\ Resumed.completed = Worker!Top.completed /\ Resumed.made = Worker!Top.made
                /\ Resumed.big = Worker!Top.big
           /\ Shaped(Resumed)
<1> DEFINE h == << >>
<1>1. h \in Seq(Worker!Message) /\ Resumed = [Worker!Top EXCEPT !.pc = "run", !.then = "none", !.held = h]
  BY DEF Resumed
<1>2. h = << >>
  OBVIOUS
<1> HIDE DEF h
<1>3. /\ Resumed \in Worker!Frame /\ Resumed.req = Worker!Top.req
           /\ Resumed.atomic = Worker!Top.atomic /\ Resumed.then = "none"
      /\ Resumed.pc = "run" /\ Resumed.over = Worker!Top.over /\ Resumed.held = h
           /\ Resumed.saved = Worker!Top.saved
      /\ Resumed.completed = Worker!Top.completed /\ Resumed.made = Worker!Top.made
           /\ Resumed.big = Worker!Top.big
  BY <1>1 DEF Worker!Frame
<1>4. Shaped(Resumed)
  BY <1>2, <1>3 DEF Shaped
<1> QED
  BY <1>2, <1>3, <1>4

LEMMA TwoMessages ==
    ASSUME NEW m \in Worker!Message, NEW d \in Worker!Message
    PROVE  <<m, d>> = <<m>> \o <<d>>
<1> DEFINE a == <<m, d>>
           b == <<m>> \o <<d>>
<1>1. a \in Seq(Worker!Message) /\ Len(a) = 2 /\ a[1] = m /\ a[2] = d
  OBVIOUS
<1>2. <<m>> \in Seq(Worker!Message) /\ <<d>> \in Seq(Worker!Message) /\ Len(<<m>>) = 1 /\ Len(<<d>>) = 1
  OBVIOUS
<1>3. b \in Seq(Worker!Message) /\ Len(b) = 2
  BY <1>2
<1>4. b[1] = m /\ b[2] = d
  BY <1>2
<1> HIDE DEF a, b
<1>5. \A i \in 1 .. 2 : a[i] = b[i]
  BY <1>1, <1>4
<1>6. a = b
  BY <1>1, <1>3, <1>5, SeqEqual
<1> QED
  BY <1>6 DEF a, b

LEMMA WaitedSend ==
    ASSUME Worker!ConstantsOK, WorkerInv, Worker!Waited, Worker!Top.then = "send", UNCHANGED conduct
    PROVE  WorkerInv'
<1> DEFINE x == Worker!Top.held
<1>1. frames # << >> /\ Worker!Top.pc = "wait" /\ UNCHANGED <<inbound, asked>>
  BY DEF Worker!Waited
<1>2. /\ Worker!Top \in Worker!Frame /\ Shaped(Worker!Top) /\ Placed(Worker!Top, Issued)
  BY <1>1, WaitingTop
<1>3. /\ Worker!Top.over
      /\ x \in {<<Worker!Msg(Worker!Top.req, "EXCEPTION", 0)>>, <<Worker!Msg(Worker!Top.req, "COMPLETE", 0)>>,
                <<Worker!Msg(Worker!Top.req, "RESULT", 1), Worker!Msg(Worker!Top.req, "COMPLETE", 0)>>}
  BY <1>2 DEF Shaped
<1>4. frames' = Worker!Pop /\ wire' = wire \o x /\ UNCHANGED outbuf
  BY <1>3 DEF Worker!Waited
<1>5. WorkerTyped /\ ReadInv /\ ChunkInv /\ OrderInv /\ EndInv /\ SizeInv
  BY DEF WorkerInv
<1>6. StackMoved /\ Len(frames) \notin DOMAIN frames'
  BY <1>1, <1>4, <1>5, StackPopped
<1>7. /\ Issued \in Seq(Worker!Message) /\ wire \in Seq(Worker!Message)
           /\ outbuf \in Seq(Worker!Message) /\ Issued = wire \o outbuf
  BY <1>5, IssuedTyped
<1>8. Issued' = (wire \o x) \o outbuf
  BY <1>4 DEF Issued
<1>9. 0 \in 0 .. MaxMade /\ 1 \in 0 .. MaxMade /\ "COMPLETE" \in Worker!Kinds
        /\ "RESULT" \in Worker!Kinds /\ "EXCEPTION" \in Worker!Kinds
  BY DEF Worker!ConstantsOK, Worker!Kinds
<1>14. ~Ended(Issued, Worker!Top.req)
  BY <1>2 DEF Shaped, Placed
<1>10. ASSUME NEW kind \in {"EXCEPTION", "COMPLETE"}, x = <<Worker!Msg(Worker!Top.req, kind, 0)>>
       PROVE  /\ x \in Seq(Worker!Message) /\ Chunked(x) /\ \A i \in DOMAIN x : x[i].req = Worker!Top.req
              /\ Ended(Issued', Worker!Top.req)
              /\ Ordered(Issued') /\ \A r : r # Worker!Top.req => Keeps(Issued, Issued', r)
  <2> DEFINE m == Worker!Msg(Worker!Top.req, kind, 0)
  <2>1. m \in Worker!Message /\ <<m>> \in Seq(Worker!Message) /\ m.req = Worker!Top.req /\ m.kind = kind
    BY <1>2, <1>9, MessageIs
  <2>2. ~Worker!Completes(m) /\ Worker!Ending(m) /\ m.kind # "PARTIAL"
    BY <2>1 DEF Worker!Completes, Worker!Ending
  <2>3. x = <<m>>
    BY <1>10
  <2> HIDE DEF m, x
  <2>4. x \in Seq(Worker!Message) /\ DOMAIN x = {1} /\ x[1] = m
    BY <2>1, <2>3
  <2>5. Chunked(x)
    BY <2>2, <2>4, ChunkedWhole
  <2>6. Issued' = Inserted(wire, outbuf, m)
    BY <1>7, <1>8, <2>1, <2>3, Sequences1
  <2>7. InsertPlaces(Len(wire), m, wire \o outbuf, Inserted(wire, outbuf, m))
    BY <1>7, <2>1, InsertedAt
  <2>8. Gains(m, Issued, Issued')
    BY <1>7, <2>6, <2>7, InsertedGains
  <2>9. Ended(Issued', Worker!Top.req)
    BY <2>1, <2>2, <2>8 DEF Gains
  <2>10. Ordered(Issued') /\ \A r : r # Worker!Top.req => Keeps(Issued, Issued', r)
    <3>1. Ordered(Issued) /\ Placed(Worker!Top, Issued) /\ ~Ended(Issued, m.req)
      BY <1>2, <1>5, <1>14, <2>1 DEF OrderInv
    <3>2. Without(outbuf, m.req) \/ ("fail" \in conduct /\ m.kind = "EXCEPTION")
      <4>1. CASE Failing(Worker!Top)
        <5>1. "fail" \in conduct \/ Numbers(Issued, m.req) = {}
          BY <2>1, <3>1, <4>1 DEF Placed
        <5>2. kind = "EXCEPTION"
          BY <2>3, <4>1 DEF Failing, m, x, Worker!Msg
        <5> QED
          BY <1>5, <2>1, <3>1, <5>1, <5>2, BundledAre
      <4>2. CASE ~Failing(Worker!Top)
        <5>1. NoResult(Issued, m.req)
          BY <2>1, <3>1, <4>2 DEF Placed
        <5> QED
          BY <1>5, <3>1, <5>1, BundledAre
      <4> QED
        BY <4>1, <4>2
    <3>3. Before(m, outbuf)
      <4>1. CASE Without(outbuf, m.req)
        BY <4>1, NoneBefore
      <4>2. CASE "fail" \in conduct /\ m.kind = "EXCEPTION"
        <5>1. \A i \in DOMAIN outbuf : outbuf[i].req = m.req => outbuf[i].kind = "RESULT"
          BY <1>5, <3>1, BundledAre
        <5> QED
          BY <4>2, <5>1 DEF Before, Overtakes
      <4> QED
        BY <3>2, <4>1, <4>2
    <3>4. Ordered(wire \o outbuf) /\ ~Ended(wire \o outbuf, m.req)
      BY <1>7, <3>1, <3>3
    <3>5. Ordered(Inserted(wire, outbuf, m))
      BY <1>7, <2>1, <2>2, <3>3, <3>4, OneIssued
    <3> QED
      BY <2>1, <2>6, <2>8, <3>5, GainsKeeps
  <2> QED
    BY <2>1, <2>4, <2>5, <2>9, <2>10
<1>11. ASSUME x = <<Worker!Msg(Worker!Top.req, "RESULT", 1), Worker!Msg(Worker!Top.req, "COMPLETE", 0)>>
       PROVE  /\ x \in Seq(Worker!Message) /\ Chunked(x) /\ \A i \in DOMAIN x : x[i].req = Worker!Top.req
              /\ Ended(Issued', Worker!Top.req)
              /\ Ordered(Issued') /\ \A r : r # Worker!Top.req => Keeps(Issued, Issued', r)
  <2> DEFINE m == Worker!Msg(Worker!Top.req, "RESULT", 1)
             d == Worker!Msg(Worker!Top.req, "COMPLETE", 0)
             a == Append(wire, m)
             t == Inserted(wire, outbuf, m)
  <2>1. m \in Worker!Message /\ m.req = Worker!Top.req /\ m.kind = "RESULT" /\ m.k = 1
    BY <1>2, <1>9, MessageIs
  <2>2. d \in Worker!Message /\ d.req = Worker!Top.req /\ d.kind = "COMPLETE"
    BY <1>2, <1>9, MessageIs
  <2>3. Worker!Completes(m) /\ ~Worker!Ending(m) /\ ~Worker!Completes(d) /\ Worker!Ending(d)
    BY <2>1, <2>2 DEF Worker!Completes, Worker!Ending
  <2>4. x = <<m, d>>
    BY <1>11
  <2> HIDE DEF m, d, x
  <2>5. x \in Seq(Worker!Message) /\ DOMAIN x = {1, 2} /\ x[1] = m /\ x[2] = d
    BY <2>1, <2>2, <2>4
  <2>6. Chunked(x)
    BY <2>1, <2>2, <2>5, ChunkedWhole
  <2>7. wire \o x = Append(a, d) /\ a \in Seq(Worker!Message)
    <3>0. <<m>> \in Seq(Worker!Message) /\ <<d>> \in Seq(Worker!Message)
      BY <2>1, <2>2
    <3>1. x = <<m>> \o <<d>>
      BY <2>1, <2>2, <2>4, TwoMessages
    <3>2. wire \o x = (wire \o <<m>>) \o <<d>>
      BY <1>7, <3>0, <3>1, ConcatAssociative
    <3>3. a = wire \o <<m>> /\ a \in Seq(Worker!Message)
      BY <1>7, <2>1
    <3>4. Append(a, d) = a \o <<d>>
      BY <2>2, <3>3
    <3> QED
      BY <3>2, <3>3, <3>4
  <2>8. t = a \o outbuf /\ Issued' = Inserted(a, outbuf, d)
    BY <1>8, <2>7 DEF Inserted
  <2>9. InsertPlaces(Len(wire), m, wire \o outbuf, t)
    BY <1>7, <2>1, InsertedAt
  <2>10. Gains(m, Issued, t)
    BY <1>7, <2>9, InsertedGains
  <2>11. InsertPlaces(Len(a), d, a \o outbuf, Inserted(a, outbuf, d))
    BY <1>7, <2>2, <2>7, InsertedAt
  <2>12. Gains(d, t, Issued')
    BY <2>8, <2>11, InsertedGains
  <2>13. Ended(Issued', Worker!Top.req)
    BY <2>2, <2>3, <2>12 DEF Gains
  <2>14. Ordered(Issued') /\ \A r : r # Worker!Top.req => Keeps(Issued, Issued', r)
    <3>1. Ordered(Issued) /\ Placed(Worker!Top, Issued) /\ ~Ended(Issued, m.req)
      BY <1>2, <1>5, <1>14, <2>1 DEF OrderInv
    <3>2. ~Failing(Worker!Top) /\ Worker!Top.held # <<Worker!Msg(Worker!Top.req, "COMPLETE", 0)>>
      <4>1. Len(x) = 2 /\ \A y : Len(<<y>>) = 1
        BY <2>4
      <4> QED
        BY <4>1 DEF x, Failing
    <3>11. Worker!Top.atomic
      BY <3>1, <3>2 DEF Placed
    <3>12. Gone(Worker!Top) = 0 /\ 1 .. 0 = {}
      BY <3>2, <3>11 DEF Gone
    <3>13. Numbers(Issued, m.req) = {}
      BY <2>1, <3>1, <3>12 DEF Placed
    <3>14. Without(outbuf, m.req)
      BY <1>5, <3>1, <3>13, BundledAre
    <3>3. Before(m, outbuf) /\ ~Ended(Issued, m.req) /\ Numbers(Issued, m.req) = {}
      BY <3>1, <3>13, <3>14, NoneBefore
    <3>4. 1 .. m.k - 1 = {} /\ m.k >= 1
      BY <2>1
    <3>5. Ordered(wire \o outbuf) /\ ~Ended(wire \o outbuf, m.req)
            /\ Numbers(wire \o outbuf, m.req) = 1 .. m.k - 1
      BY <1>7, <3>1, <3>3, <3>4
    <3>6. Ordered(t)
      BY <1>7, <2>1, <3>3, <3>4, <3>5, OneIssued
    <3>15. Without(outbuf, d.req)
      BY <2>1, <2>2, <3>14
    <3>7. ~Ended(t, d.req) /\ Before(d, outbuf)
      BY <2>1, <2>2, <2>3, <2>10, <3>3, <3>15, NoneBefore DEF Gains
    <3>8. Ordered(a \o outbuf) /\ ~Ended(a \o outbuf, d.req)
      BY <2>8, <3>6, <3>7
    <3>9. Ordered(Inserted(a, outbuf, d))
      BY <1>7, <2>2, <2>3, <2>7, <3>7, <3>8, OneIssued
    <3>10. ASSUME NEW r, r # Worker!Top.req PROVE Keeps(Issued, Issued', r)
      <4>1. Keeps(Issued, t, r) /\ Keeps(t, Issued', r)
        BY <2>1, <2>2, <2>10, <2>12, <3>10, GainsKeeps
      <4> QED
        BY <4>1 DEF Keeps
    <3> QED
      BY <2>8, <3>9, <3>10
  <2> QED
    BY <2>1, <2>2, <2>5, <2>6, <2>13, <2>14
<1>12. /\ x \in Seq(Worker!Message) /\ Chunked(x) /\ \A i \in DOMAIN x : x[i].req = Worker!Top.req
       /\ Ended(Issued', Worker!Top.req)
       /\ Ordered(Issued') /\ \A r : r # Worker!Top.req => Keeps(Issued, Issued', r)
  <2>1. CASE x = <<Worker!Msg(Worker!Top.req, "EXCEPTION", 0)>>
    BY <1>10, <2>1
  <2>2. CASE x = <<Worker!Msg(Worker!Top.req, "COMPLETE", 0)>>
    BY <1>10, <2>2
  <2>3. CASE x = <<Worker!Msg(Worker!Top.req, "RESULT", 1), Worker!Msg(Worker!Top.req, "COMPLETE", 0)>>
    BY <1>11, <2>3
  <2> QED
    BY <1>3, <2>1, <2>2, <2>3
<1>13. Worker!Top.then # "flush"
  OBVIOUS
<1> HIDE DEF x
<1> QED
  BY <1>1, <1>4, <1>6, <1>12, <1>13, Ahead

LEMMA BundleWhole ==
    ASSUME WorkerTyped, ChunkInv
    PROVE  Chunked(outbuf)
<1>1. outbuf \in Seq(Worker!Message) /\ \A i \in DOMAIN outbuf : outbuf[i].kind # "PARTIAL"
  BY DEF WorkerTyped, ChunkInv
<1> QED
  BY <1>1, ChunkedWhole

LEMMA WaitedAppend ==
    ASSUME Worker!ConstantsOK, WorkerInv, Worker!Waited, Worker!Top.then = "append", UNCHANGED conduct
    PROVE  WorkerInv'
<1> DEFINE m == Worker!Msg(Worker!Top.req, "RESULT", Worker!Top.made)
           h == <<m>>
           f == Resumed
<1>1. frames # << >> /\ Worker!Top.pc = "wait" /\ UNCHANGED <<inbound, asked>>
  BY DEF Worker!Waited
<1>2. /\ Worker!Top \in Worker!Frame /\ Shaped(Worker!Top) /\ Placed(Worker!Top, Issued)
  BY <1>1, WaitingTop
<1>3. ~Worker!Top.atomic /\ ~Worker!Top.completed /\ ~Worker!Top.over /\ Worker!Top.made >= 1
        /\ Worker!Top.held = h
  BY <1>2 DEF Shaped
<1>4. frames' = Worker!SetTop(f) /\ wire' = wire \o outbuf /\ outbuf' = h
  BY <1>3 DEF Worker!Waited, Resumed
<1>5. WorkerTyped /\ ReadInv /\ ChunkInv /\ OrderInv /\ EndInv /\ SizeInv
  BY DEF WorkerInv
<1>6. "RESULT" \in Worker!Kinds /\ Worker!Top.made \in 0 .. MaxMade
  BY <1>2 DEF Worker!Kinds, Worker!Frame
<1>7. m \in Worker!Message /\ h \in Seq(Worker!Message) /\ m.req = Worker!Top.req
        /\ m.kind = "RESULT" /\ m.k = Worker!Top.made /\ Worker!Top.made \in Nat
  BY <1>2, <1>6, MessageIs
<1>8. Worker!Completes(m) /\ ~Worker!Ending(m)
  BY <1>7 DEF Worker!Completes, Worker!Ending
<1>9. h = <<m>>
  OBVIOUS
<1> HIDE DEF m, h
<1>10. DOMAIN h = {1} /\ h[1] = m /\ Len(h) = 1
  BY <1>9
<1>11. /\ f \in Worker!Frame /\ f.req = Worker!Top.req /\ ~f.atomic /\ f.then = "none" /\ ~f.completed
       /\ f.made = Worker!Top.made /\ f.big = Worker!Top.big /\ Shaped(f) /\ f.held = << >>
  BY <1>2, <1>3, ResumedIs
<1> HIDE DEF f
<1>12. Replaced(f) /\ Worker!Top.then # "flush"
  BY <1>4, <1>11 DEF Replaced
<1>13. StackMoved /\ Len(frames) \in DOMAIN frames' /\ frames'[Len(frames)] = f
  BY <1>1, <1>5, <1>12, StackReplaced
<1>14. /\ Issued \in Seq(Worker!Message) /\ wire \in Seq(Worker!Message)
            /\ outbuf \in Seq(Worker!Message) /\ Issued = wire \o outbuf
       /\ Issued = Issued \o << >> /\ << >> \in Seq(Worker!Message)
  BY <1>5, IssuedTyped
<1>15. Issued' = (Issued \o h) \o << >> /\ Issued' = Inserted(Issued, << >>, m)
  <2>1. Issued' = Issued \o h /\ Issued \o h \in Seq(Worker!Message)
    BY <1>4, <1>7, <1>14 DEF Issued
  <2>2. Issued \o h = (Issued \o h) \o << >>
    BY <2>1
  <2>3. (Issued \o <<m>>) \o << >> = Inserted(Issued, << >>, m)
    BY <1>7, <1>14, InsertedLast
  <2> QED
    BY <1>9, <2>1, <2>2, <2>3
<1>16. Grown
  <2>1. \A i \in DOMAIN h : h[i].req = Worker!Top.req
    BY <1>7, <1>10
  <2> QED
    BY <1>7, <1>14, <1>15, <2>1, GrownBy
<1>17. wire' \in Seq(Worker!Message) /\ outbuf' \in Seq(Worker!Message)
  BY <1>4, <1>7, <1>14
<1>18. ChunkInv'
  <2>1. Chunked(wire')
    BY <1>4, <1>5, <1>14, ChunkedBoth, BundleWhole DEF ChunkInv
  <2>2. \A i \in DOMAIN outbuf' : outbuf'[i].kind \in {"RESULT", "COMPLETE"}
    BY <1>4, <1>7, <1>10
  <2> QED
    BY <2>1, <2>2 DEF ChunkInv
<1>19. SizeInv'
  <2>1. Cardinality(Flushing(frames')) \in Nat /\ MaxBundle \in Nat \ {0} /\ Len(outbuf') = 1
    BY <1>1, <1>4, <1>5, <1>10, <1>12, <1>13, FlushKept DEF Worker!ConstantsOK
  <2> QED
    BY <2>1 DEF SizeInv
<1>20. Ordered(Issued') /\ (\A r : r # Worker!Top.req => Keeps(Issued, Issued', r))
         /\ Placed(f, Issued')
  <2> DEFINE k == Worker!Top.made - 1
  <2>1. Placed(Worker!Top, Issued) /\ Ordered(Issued)
    BY <1>2, <1>5 DEF OrderInv
  <2>2. k \in Nat /\ m.k = k + 1 /\ m.k >= 1 /\ Gone(Worker!Top) = k /\ k + 1 = Worker!Top.made /\ m.k - 1 = k
    BY <1>3, <1>7 DEF Gone
  <2>3. ~Ended(Issued, m.req) /\ Numbers(Issued, m.req) = 1 .. k
    BY <1>3, <1>7, <2>1, <2>2 DEF Placed
  <2>4. Before(m, << >>)
    BY DEF Before
  <2> HIDE DEF k
  <2>5. Ordered(Inserted(Issued, << >>, m)) /\ Gains(m, Issued, Inserted(Issued, << >>, m))
    <3>1. /\ Ordered(Issued \o << >>) /\ ~Ended(Issued \o << >>, m.req)
          /\ Numbers(Issued \o << >>, m.req) = 1 .. m.k - 1
      BY <1>14, <2>1, <2>2, <2>3
    <3>2. Ordered(Inserted(Issued, << >>, m)) /\ Gains(m, Issued \o << >>, Inserted(Issued, << >>, m))
      BY <1>7, <1>14, <2>2, <2>4, <3>1, OneIssued
    <3> QED
      BY <1>14, <3>2
  <2>6. Ordered(Issued') /\ Gains(m, Issued, Issued')
    BY <1>15, <2>5
  <2>7. Numbers(Issued', m.req) = 1 .. k + 1
    BY <1>8, <2>2, <2>3, <2>6, OneMore
  <2>8. ~Ended(Issued', m.req)
    BY <1>8, <2>3, <2>6 DEF Gains
  <2>10. Gone(f) = k + 1 /\ ~Failing(f)
    BY <1>11, <2>2 DEF Gone, Failing
  <2>9. Placed(f, Issued')
    BY <1>7, <1>11, <2>7, <2>8, <2>10 DEF Placed
  <2> QED
    BY <1>7, <2>6, <2>9, GainsKeeps
<1>21. ~\E i \in DOMAIN outbuf' : Worker!Ending(outbuf'[i])
  BY <1>4, <1>8, <1>10
<1> QED
  BY <1>1, <1>11, <1>13, <1>16, <1>17, <1>18, <1>19, <1>20, <1>21, Moves

LEMMA WaitedFlush ==
    ASSUME Worker!ConstantsOK, WorkerInv, Worker!Waited, Worker!Top.then = "flush", UNCHANGED conduct
    PROVE  WorkerInv'
<1> DEFINE f == Resumed
<1>1. frames # << >> /\ Worker!Top.pc = "wait" /\ UNCHANGED <<inbound, asked>>
  BY DEF Worker!Waited
<1>2. /\ Worker!Top \in Worker!Frame /\ Shaped(Worker!Top) /\ Placed(Worker!Top, Issued)
      /\ ~Worker!Top.atomic /\ Worker!Top.completed => Ended(Issued, Worker!Top.req)
  BY <1>1, WaitingTop
<1>3. ~Worker!Top.atomic /\ Worker!Top.completed /\ Ended(Issued, Worker!Top.req)
  BY <1>2 DEF Shaped
<1>4. wire' = wire \o outbuf /\ outbuf' = << >>
  BY DEF Worker!Waited
<1>5. WorkerTyped /\ ReadInv /\ ChunkInv /\ OrderInv /\ EndInv /\ SizeInv
  BY DEF WorkerInv
<1>6. /\ Issued \in Seq(Worker!Message) /\ wire \in Seq(Worker!Message)
           /\ outbuf \in Seq(Worker!Message) /\ Issued = wire \o outbuf
      /\ Issued = Issued \o << >> /\ << >> \in Seq(Worker!Message)
  BY <1>5, IssuedTyped
<1>7. Issued' = Issued
  BY <1>4, <1>6 DEF Issued
<1>8. Grown
  BY <1>7, GrownNone
<1>9. wire' \in Seq(Worker!Message) /\ outbuf' \in Seq(Worker!Message)
  BY <1>4, <1>6
<1>10. ChunkInv'
  BY <1>4, <1>5, <1>6, ChunkedBoth, BundleWhole DEF ChunkInv
<1>11. StackMoved
       /\ (Len(frames) \in DOMAIN frames' => frames'[Len(frames)] = f /\ ~Worker!Top.over)
  <2>1. CASE Worker!Top.over
    <3>1. frames' = Worker!Pop
      BY <2>1 DEF Worker!Waited
    <3> QED
      BY <1>1, <1>5, <3>1, StackPopped
  <2>2. CASE ~Worker!Top.over
    <3>1. frames' = Worker!SetTop(f)
      BY <2>2 DEF Worker!Waited, Resumed
    <3>2. Replaced(f)
      BY <1>2, <2>2, <3>1, ResumedIs DEF Replaced
    <3> QED
      BY <1>1, <1>5, <2>2, <3>2, StackReplaced
  <2> QED
    BY <2>1, <2>2
<1>12. SizeInv'
  <2>1. DOMAIN frames' = 1 .. Len(frames') /\ Len(frames') \in Nat
    BY <1>11 DEF StackMoved
  <2>2. IsFiniteSet(1 .. Len(frames')) /\ Flushing(frames') \subseteq 1 .. Len(frames')
    BY <2>1, FS_Interval DEF Flushing
  <2>3. Cardinality(Flushing(frames')) \in Nat
    BY <2>2, FS_Subset, FS_CardinalityType
  <2>4. Len(outbuf') = 0 /\ MaxBundle \in Nat
    BY <1>4 DEF Worker!ConstantsOK
  <2> QED
    BY <2>3, <2>4 DEF SizeInv
<1>13. ASSUME Len(frames) \in DOMAIN frames'
       PROVE  /\ frames'[Len(frames)] = f /\ f.req = Worker!Top.req
              /\ Placed(f, Issued)
  <2>1. /\ f.req = Worker!Top.req /\ f.atomic = Worker!Top.atomic /\ f.then = "none"
             /\ f.completed = Worker!Top.completed
        /\ f.made = Worker!Top.made /\ f.big = Worker!Top.big /\ frames'[Len(frames)] = f
    BY <1>2, <1>11, <1>13, ResumedIs
  <2>4. f.held = << >>
    BY <1>2, <1>11, <1>13, ResumedIs
  <2> HIDE DEF f
  <2>2. Gone(f) = Gone(Worker!Top) /\ ~Failing(f)
    BY <1>3, <2>1, <2>4 DEF Gone, Failing
  <2>3. Placed(f, Issued)
    BY <1>2, <1>3, <2>1, <2>2 DEF Placed
  <2> QED
    BY <2>1, <2>3
<1> HIDE DEF f
<1>14.   /\ Ordered(Issued') /\ \A r : r # Worker!Top.req => Keeps(Issued, Issued', r)
         /\ Len(frames) \in DOMAIN frames' => Placed(frames'[Len(frames)], Issued')
  BY <1>5, <1>7, <1>13, KeepsSame DEF OrderInv
<1>15. ~\E i \in DOMAIN outbuf' : Worker!Ending(outbuf'[i])
  BY <1>4
<1> QED
  BY <1>1, <1>3, <1>7, <1>8, <1>9, <1>10, <1>11, <1>12, <1>13, <1>14, <1>15, Moves

-----------------------------------------------------------------------------
\* What the theorem is put together from.
LEMMA InitInv == ASSUME Worker!ConstantsOK, Worker!Init PROVE WorkerInv
<1>1. /\ conduct \in Conducts /\ frames = << >> /\ outbuf = << >> /\ inbound = << >> /\ asked = 0
           /\ wire = << >>
  BY DEF Worker!Init
<1>2. Issued = << >> /\ Read = 0
  <2>1. << >> \o << >> = << >>
    OBVIOUS
  <2>2. Len(<< >>) = 0
    OBVIOUS
  <2>3. Issued = << >>
    BY <1>1, <2>1 DEF Issued
  <2>4. asked = 0 /\ Len(inbound) = 0
    BY <1>1, <2>2
  <2>5. Read = 0
    BY <2>4 DEF Read
  <2> QED
    BY <2>3, <2>5
<1>3. WorkerTyped
  BY <1>1 DEF WorkerTyped, Worker!ConstantsOK
<1>4. ReadInv
  BY <1>1, <1>2 DEF ReadInv
<1>5. ChunkInv
  BY <1>1 DEF ChunkInv, Chunked
<1>6. OrderInv
  <2>1. DOMAIN frames = {} /\ DOMAIN Issued = {}
    BY <1>1, <1>2
  <2> QED
    BY <2>1 DEF OrderInv, Ordered
<1>7. EndInv
  BY <1>1, <1>2 DEF EndInv
<1>8. SizeInv
  <2>1. Flushing(frames) = {}
    BY <1>1 DEF Flushing
  <2>2. Cardinality(Flushing(frames)) = 0
    BY <2>1, FS_EmptySet
  <2> QED
    BY <1>1, <2>2 DEF SizeInv, Worker!ConstantsOK
<1> QED
  BY <1>3, <1>4, <1>5, <1>6, <1>7, <1>8 DEF WorkerInv

LEMMA WaitedStep ==
    ASSUME Worker!ConstantsOK, WorkerInv, Worker!Waited, UNCHANGED conduct
    PROVE  WorkerInv'
<1>1. Worker!Top.then \in {"append", "flush", "send"}
  BY WaitingTop DEF Worker!Waited
<1> QED
  BY <1>1, WaitedAppend, WaitedFlush, WaitedSend

LEMMA WorkerStepInv == Worker!ConstantsOK => (WorkerInv /\ [Worker!Next]_Worker!vars => WorkerInv')
<1> SUFFICES ASSUME Worker!ConstantsOK, WorkerInv, [Worker!Next]_Worker!vars PROVE WorkerInv'
  OBVIOUS
<1>1. CASE Worker!Next
  <2>1. UNCHANGED conduct /\ Worker!Step
    BY <1>1 DEF Worker!Next
  <2>2. 1 \in 0 .. MaxMade
    BY DEF Worker!ConstantsOK
  <2>3. CASE Worker!Ask \/ Worker!NotFound \/ Worker!Waited
    BY <2>1, <2>3, AskStep, NotFoundStep, WaitedStep
  <2>4. CASE \E atomic \in BOOLEAN : Worker!Run(atomic)
    BY <2>1, <2>4, RunStep
  <2>5. CASE Worker!Respond("small")
    <3>1. Worker!Save("small") \/ Worker!Bundle
      BY <2>5 DEF Worker!Respond
    <3>2. "small" # "big"
      OBVIOUS
    <3> QED
      BY <2>1, <3>1, <3>2, SaveStep, BundleStep
  <2>6. CASE "big" \in conduct /\ Worker!Respond("big")
    <3>1. Worker!Save("big") \/ Worker!SendChunked
      BY <2>6 DEF Worker!Respond
    <3> QED
      BY <2>1, <2>6, <3>1, SaveStep, SendChunkedStep
  <2>7. CASE Worker!RespondComplete \/ Worker!Fail \/ Worker!ReturnSaved \/ Worker!ReturnZero
               \/ Worker!ReturnOne \/ Worker!ReturnOneAtomic
    BY <2>1, <2>2, <2>7, RespondCompleteStep, FailStep, ReturnSavedStep, ReturnZeroStep, ReturnOneStep,
       ReturnOneAtomicStep
  <2> QED
    BY <2>1, <2>3, <2>4, <2>5, <2>6, <2>7 DEF Worker!Step
<1>2. CASE UNCHANGED Worker!vars
  <2>1. UNCHANGED <<conduct, frames, outbuf, inbound, asked, wire>>
    BY <1>2 DEF Worker!vars
  <2>2. Issued' = Issued /\ Read' = Read
    BY <2>1 DEF Issued, Read
  <2>3. WorkerTyped' /\ ReadInv'
    BY <2>1, <2>2 DEF WorkerInv, WorkerTyped, ReadInv
  <2>4. ChunkInv' /\ EndInv' /\ SizeInv'
    BY <2>1, <2>2 DEF WorkerInv, ChunkInv, EndInv, SizeInv
  <2>5. OrderInv'
    BY <2>1, <2>2, OrderSame DEF WorkerInv
  <2> QED
    BY <2>3, <2>4, <2>5 DEF WorkerInv
<1> QED
  BY <1>1, <1>2

\* The inductive invariant: what was sent and what is bundled are, as one sequence, in order
\* for each request, and a request in progress has issued what it made.
THEOREM AnsweringInvariance ==
    ASSUME Worker!ConstantsOK
    PROVE  Worker!Spec => []WorkerInv
<1>1. Worker!Init => WorkerInv
  BY InitInv
<1> QED
  BY <1>1, WorkerStepInv, PTL DEF Worker!Spec

\* What the invariant says of the properties.
LEMMA InvTypeOK == ASSUME Worker!ConstantsOK, WorkerInv PROVE Worker!TypeOK
<1>1. WorkerTyped /\ ReadInv /\ SizeInv
  BY DEF WorkerInv
<1>2. Len(frames) \in Nat /\ Len(inbound) \in Nat /\ asked \in Nat
  BY <1>1 DEF WorkerTyped, Worker!ConstantsOK
<1>3. Len(frames) <= asked
  BY <1>1, <1>2 DEF ReadInv, Read
<1>4. Len(outbuf) <= MaxBundle + Cardinality({i \in DOMAIN frames : frames[i].then = "flush"})
  BY <1>1 DEF SizeInv, Flushing
<1>5. \A S : Worker!Cardinality(S) = Cardinality(S)
  BY DEF Worker!Cardinality, Cardinality
<1> QED
  BY <1>1, <1>3, <1>4, <1>5 DEF Worker!TypeOK, WorkerTyped

LEMMA InvOrderly == ASSUME WorkerInv PROVE Worker!Orderly
<1>1. wire \in Seq(Worker!Message) /\ outbuf \in Seq(Worker!Message) /\ Issued = wire \o outbuf
        /\ Ordered(Issued)
  BY DEF WorkerInv, WorkerTyped, OrderInv, Issued
<1>2. \A i \in DOMAIN wire : i \in DOMAIN Issued /\ Issued[i] = wire[i]
  BY <1>1
<1>3. DOMAIN wire \subseteq Int /\ DOMAIN Issued \subseteq Int
  BY <1>1
<1>4. Worker!InOrder
  BY <1>1, <1>2 DEF Ordered, Worker!InOrder
<1>5. ASSUME NEW j \in DOMAIN wire, Worker!Completes(wire[j])
      PROVE  wire[j].k >= 1 /\ 1 .. wire[j].k - 1 \subseteq Numbers(Issued, wire[j].req)
  BY <1>1, <1>2, <1>5 DEF Ordered
<1>6. ASSUME NEW j \in DOMAIN wire, Worker!Completes(wire[j]), NEW k \in 1 .. wire[j].k - 1
      PROVE  \E i \in DOMAIN Issued :
               /\ Issued[i].req = wire[j].req /\ Worker!Completes(Issued[i]) /\ Issued[i].k = k
               /\ i < j \/ ("big" \in conduct /\ wire[j].kind = "NOCONTENT")
  <2>1. k \in Numbers(Issued, wire[j].req)
    BY <1>5, <1>6
  <2>2. PICK i \in DOMAIN Issued : Issued[i].req = wire[j].req /\ Worker!Completes(Issued[i])
          /\ Issued[i].k = k
    BY <2>1 DEF Numbers
  <2>3. wire[j].k \in Int /\ k \in Int /\ k < wire[j].k
    <3>1. wire[j] \in Worker!Message
      BY <1>1
    <3>2. wire[j].k \in Int
      BY <3>1 DEF Worker!Message
    <3> QED
      BY <3>2
  <2>4. CASE i < j
    BY <2>2, <2>4
  <2>5. CASE j < i
    <3>1. Worker!Follows(Issued[i], wire[j])
      BY <1>1, <1>2, <2>2, <2>5 DEF Ordered
    <3>2. ~(wire[j].k < Issued[i].k)
      BY <2>2, <2>3
    <3>3. "big" \in conduct /\ wire[j].kind = "NOCONTENT"
      BY <1>6, <2>2, <3>1, <3>2 DEF Worker!Follows
    <3> QED
      BY <2>2, <3>3
  <2>6. i # j
    BY <1>2, <2>2, <2>3
  <2> QED
    BY <1>3, <2>4, <2>5, <2>6
<1>7. Worker!NoneLeftOut
  BY <1>1, <1>5, <1>6 DEF Worker!NoneLeftOut
<1> QED
  BY <1>4, <1>7 DEF Worker!Orderly

LEMMA InvChunksTogether == ASSUME WorkerInv PROVE Worker!ChunksTogether
<1> SUFFICES ASSUME NEW i \in DOMAIN wire, NEW j \in DOMAIN wire, i < j, wire[i].kind = "PARTIAL",
                    wire[j].req = wire[i].req, \A l \in i + 1 .. j - 1 : wire[l].req # wire[i].req
             PROVE  wire[j].kind \in {"PARTIAL", "NOCONTENT"} /\ wire[j].k = wire[i].k
  BY DEF Worker!ChunksTogether
<1>1. /\ i + 1 \in DOMAIN wire /\ wire[i + 1].req = wire[i].req /\ wire[i + 1].k = wire[i].k
      /\ wire[i + 1].kind \in {"PARTIAL", "NOCONTENT"}
  BY DEF WorkerInv, ChunkInv, Chunked
<1>2. i \in Int /\ j \in Int
  <2>1. wire \in Seq(Worker!Message)
    BY DEF WorkerInv, WorkerTyped
  <2> QED
    BY <2>1
<1>3. j = i + 1
  BY <1>1, <1>2
<1> QED
  BY <1>1, <1>3

LEMMA InvEveryRequestEnds == ASSUME Worker!ConstantsOK, WorkerInv, "silent" \notin conduct
  PROVE Worker!EveryRequestEnds
<1> SUFFICES ASSUME frames = << >>, inbound = << >>, NEW r \in 1 .. asked
             PROVE  \E i \in DOMAIN wire : wire[i].req = r /\ Worker!Ending(wire[i])
  BY DEF Worker!EveryRequestEnds
<1>1. wire \in Seq(Worker!Message) /\ outbuf \in Seq(Worker!Message) /\ asked \in Nat
  BY DEF WorkerInv, WorkerTyped, Worker!ConstantsOK
<1>2. Read = asked
  BY <1>1 DEF Read
<1>3. Ended(Issued, r)
  BY <1>2 DEF WorkerInv, EndInv
<1>4. PICK i \in DOMAIN Issued : Issued[i].req = r /\ Worker!Ending(Issued[i])
  BY <1>3 DEF Ended
<1>5. \A j \in DOMAIN outbuf : ~Worker!Ending(outbuf[j])
  BY DEF WorkerInv, EndInv
<1>6. CASE i <= Len(wire)
  <2>1. i \in DOMAIN wire /\ Issued[i] = wire[i]
    BY <1>1, <1>6 DEF Issued
  <2> QED
    BY <1>4, <2>1
<1>7. CASE i > Len(wire)
  <2>1. i - Len(wire) \in DOMAIN outbuf /\ Issued[i] = outbuf[i - Len(wire)]
    BY <1>1, <1>7 DEF Issued
  <2> QED
    BY <1>4, <1>5, <2>1
<1> QED
  BY <1>1, <1>4, <1>6, <1>7 DEF Issued

-----------------------------------------------------------------------------
(* The client that waits for a result.                                     *)

\* What the variables are, as far as the proof needs it.
WaitTyped ==
    /\ turn \in {"none", "first", "second"}
    /\ wait \in Nat /\ elapsed \in Nat /\ remaining \in Int /\ granted \in Nat
    /\ reset_timeout \in BOOLEAN /\ done \in BOOLEAN
    /\ pending \in Nat /\ taken \in Nat /\ made \in Nat

\* What a call may last: its timeout and a late turn, and once more for every CONTINUE.
Granted == (granted + 1) * Wait!Reprieve

\* What went by, what is left, the time by which the rest of the turn may be late and what a
\* CONTINUE that came will add is not more than that: InTime alone does not say how long the
\* next turn of the loop may be.  A turn that was late leaves less, so that only the last turn
\* of a reprieve counts.
Budget ==
    turn # "none" =>
        /\ 0 <= remaining /\ remaining <= wait
        /\ elapsed + remaining + MaxLate + (IF turn = "first" THEN MaxLate ELSE 0)
              + (IF reset_timeout THEN Wait!Reprieve ELSE 0) <= Granted

\* A call waits only if there is no result.
Empty == turn # "none" => pending = 0 /\ said = "nothing"

WaitInv ==
    WaitTyped /\ Budget /\ Empty /\ Wait!InTime /\ Wait!NotAtOnce /\ Wait!NoneMissed

LEMMA Product ==
    ASSUME NEW g \in Nat, NEW w \in Nat
    PROVE  (g + 1) * w \in Nat /\ (g + 1 + 1) * w = (g + 1) * w + w /\ w <= (g + 1) * w
<1>1. g * w \in Nat
  OBVIOUS
<1>2. (g + 1) * w = g * w + w /\ (g + 1 + 1) * w = g * w + w + w
  OBVIOUS
<1> QED
  BY <1>1, <1>2

LEMMA ReprieveNat ==
    ASSUME Wait!WaitsAssumption, WaitTyped
    PROVE  Wait!Reprieve \in Nat /\ Wait!Reprieve = wait + MaxLate + MaxLate /\ MaxLate \in Nat
BY DEF Wait!WaitsAssumption, WaitTyped, Wait!Reprieve

\* What a wait brings: it is not later than it may be, and what is granted grows by a
\* reprieve with a CONTINUE.
LEMMA ComeLemma ==
    ASSUME Wait!WaitsAssumption, WaitTyped, NEW n \in 0 .. MaxMade, NEW continue \in BOOLEAN,
           NEW ends \in BOOLEAN, NEW other \in BOOLEAN, NEW longest \in Nat, NEW d,
           Wait!Come(n, continue, ends, other, d, longest), wait' = wait
    PROVE  /\ n \in Nat /\ made' = made + n /\ made' \in Nat /\ done' \in BOOLEAN
           /\ d \in Nat /\ elapsed' \in Nat /\ elapsed' = elapsed + d
           /\ elapsed' <= elapsed + longest + MaxLate
           /\ granted' \in Nat /\ Granted \in Nat /\ Granted' \in Nat
           /\ Wait!Reprieve <= Granted /\ Wait!Reprieve <= Granted'
           /\ Granted' = Granted + (IF continue THEN Wait!Reprieve ELSE 0)
<1>1. n \in Nat /\ made' = made + n /\ made' \in Nat
  BY DEF Wait!Come, WaitTyped
<1>2. done' \in BOOLEAN
  BY DEF Wait!Come, WaitTyped
<1>3. d \in Nat /\ elapsed' \in Nat /\ elapsed' = elapsed + d /\ elapsed' <= elapsed + longest + MaxLate
  BY ReprieveNat DEF Wait!Come, WaitTyped
<1>4. granted \in Nat /\ Wait!Reprieve \in Nat /\ Wait!Reprieve' = Wait!Reprieve
  BY ReprieveNat DEF WaitTyped, Wait!Reprieve
<1>5. CASE continue
  <2>1. granted' = granted + 1
    BY <1>5 DEF Wait!Come
  <2>2. Granted' = (granted + 1 + 1) * Wait!Reprieve
    BY <1>4, <2>1 DEF Granted
  <2> QED
    BY <1>1, <1>2, <1>3, <1>4, <1>5, <2>1, <2>2, Product DEF Granted
<1>6. CASE ~continue
  <2>1. granted' = granted
    BY <1>4, <1>6 DEF Wait!Come
  <2>2. Granted' = Granted
    BY <1>4, <2>1 DEF Granted
  <2> QED
    BY <1>1, <1>2, <1>3, <1>4, <1>6, <2>1, <2>2, Product DEF Granted
<1> QED
  BY <1>5, <1>6

\* One result is taken, if there is one.
LEMMA AnswerLemma ==
    ASSUME WaitTyped, NEW n \in Nat, pending = 0, made = taken + pending, made' = made + n, Wait!Answer(n)
    PROVE  /\ pending' \in Nat /\ taken' \in Nat /\ made' = taken' + pending'
           /\ taken' = taken => pending' = 0
BY DEF WaitTyped, Wait!Answer

\* One lemma for each action.
LEMMA CallLemma ==
    ASSUME Wait!WaitsAssumption, WaitInv, NEW t \in Nat, Wait!Call(t)
    PROVE  WaitInv'
<1>1. granted' \in Nat /\ wait' = t /\ elapsed' = 0 /\ remaining' = t
      /\ reset_timeout' = reset_timeout /\ reset_timeout \in BOOLEAN
      /\ granted' = IF reset_timeout THEN 1 ELSE 0
  BY DEF Wait!Call, WaitInv, WaitTyped
<1>2. /\ Wait!Reprieve' \in Nat /\ Wait!Reprieve' = t + MaxLate + MaxLate /\ MaxLate \in Nat
      /\ Granted' = IF reset_timeout THEN Wait!Reprieve' + Wait!Reprieve' ELSE Wait!Reprieve'
  <2>1. Wait!Reprieve' \in Nat /\ Wait!Reprieve' = t + MaxLate + MaxLate /\ MaxLate \in Nat
    BY <1>1 DEF Wait!WaitsAssumption, Wait!Reprieve
  <2>2. Granted' = (granted' + 1) * Wait!Reprieve'
    BY DEF Granted
  <2>3. CASE reset_timeout
    BY <1>1, <2>1, <2>2, <2>3
  <2>4. CASE ~reset_timeout
    BY <1>1, <2>1, <2>2, <2>4
  <2> QED
    BY <2>1, <2>3, <2>4
<1>3. WaitTyped'
  BY <1>1 DEF Wait!Call, Wait!Return, WaitInv, WaitTyped
<1>4. Budget'
  <2>1. turn' \in {"none", "first"}
    BY DEF Wait!Call, Wait!Return
  <2> QED
    BY <1>1, <1>2, <2>1 DEF Budget
<1>5. Empty'
  BY DEF Wait!Call, Wait!Return, WaitInv, WaitTyped, Empty
<1>6. Wait!InTime'
  BY <1>1, <1>2 DEF Wait!InTime, Granted
<1>7. Wait!NoneMissed' /\ Wait!NotAtOnce'
  BY DEF Wait!Call, Wait!Return, WaitInv, WaitTyped, Wait!NoneMissed, Wait!NotAtOnce
<1> QED
  BY <1>3, <1>4, <1>5, <1>6, <1>7 DEF WaitInv

LEMMA LaterSum ==
    ASSUME NEW e \in Nat, NEW e1 \in Nat, NEW r \in Nat, NEW l \in Nat, NEW a \in Nat, NEW a1 \in Nat,
           NEW m \in Nat, NEW g \in Nat, e1 <= e + l, e + r + l + l + a <= g, a1 <= a + m
    PROVE  e1 + r + l + 0 + a1 <= g + m
OBVIOUS

LEMMA FirstLemma ==
    ASSUME Wait!WaitsAssumption, WaitInv, Wait!First
    PROVE  WaitInv'
<1>1. PICK n \in 0 .. MaxMade, continue \in BOOLEAN, ends \in BOOLEAN, other \in BOOLEAN,
           error \in BOOLEAN, d \in 0 .. MaxLate :
           /\ Wait!Come(n, continue, ends, other, d, 0)
           /\ reset_timeout' = (reset_timeout \/ continue)
           /\ \/ error /\ Wait!Return("error") /\ pending' = pending + n /\ taken' = taken
              \/ /\ ~error /\ Wait!Answer(n)
                 /\ \/ taken' > taken /\ Wait!Return("result")
                    \/ taken' = taken /\ done' /\ Wait!Return("complete")
                    \/ taken' = taken /\ ~done' /\ turn' = "second" /\ said' = said
  BY DEF Wait!First
<1>2. wait' = wait /\ remaining' = remaining /\ turn = "first" /\ WaitTyped /\ pending = 0
      /\ made = taken + pending /\ said = "nothing"
  BY DEF Wait!First, WaitInv, Empty, Wait!NoneMissed
<1>3. /\ n \in Nat /\ made' = made + n /\ made' \in Nat /\ done' \in BOOLEAN
      /\ elapsed' \in Nat /\ elapsed' <= elapsed + MaxLate
      /\ granted' \in Nat /\ Granted \in Nat /\ Granted' \in Nat
      /\ Granted' = Granted + (IF continue THEN Wait!Reprieve ELSE 0)
  <2>1. elapsed' <= elapsed + 0 + MaxLate
    BY <1>1, <1>2, ComeLemma
  <2>2. elapsed \in Nat /\ MaxLate \in Nat
    BY <1>2, ReprieveNat DEF WaitTyped
  <2> QED
    BY <1>1, <1>2, <2>1, <2>2, ComeLemma
<1>4. /\ pending' \in Nat /\ taken' \in Nat /\ made' = taken' + pending'
      /\ (~error /\ taken' = taken => pending' = 0)
  BY <1>1, <1>2, <1>3, AnswerLemma DEF WaitTyped
<1>5. turn' \in {"none", "second"} /\ (turn' = "second" => ~error /\ taken' = taken /\ said' = said)
      /\ said' # "timeout"
  BY <1>1, <1>2 DEF Wait!Return
<1>6. WaitTyped'
  BY <1>1, <1>2, <1>3, <1>4, <1>5 DEF WaitTyped
<1>7. /\ elapsed + remaining + MaxLate + MaxLate
            + (IF reset_timeout THEN Wait!Reprieve ELSE 0) <= Granted
      /\ remaining >= 0 /\ remaining <= wait /\ MaxLate \in Nat /\ Wait!Reprieve \in Nat
      /\ Wait!Reprieve' = Wait!Reprieve
      /\ wait \in Nat /\ elapsed \in Nat /\ remaining \in Int /\ reset_timeout \in BOOLEAN
  <2>1. turn = "first" /\ turn # "none"
    BY <1>2
  <2>2. MaxLate \in Nat /\ Wait!Reprieve \in Nat /\ Wait!Reprieve' = Wait!Reprieve
    BY <1>2, ReprieveNat DEF Wait!Reprieve
  <2> QED
    BY <1>2, <2>1, <2>2 DEF WaitInv, Budget, WaitTyped
<1>8. Budget'
  <2>1. turn' # "first"
    BY <1>5
  <2>2. 0 <= remaining' /\ remaining' <= wait'
    BY <1>2, <1>7
  <2>3. PICK add \in Nat : /\ add = (IF reset_timeout THEN Wait!Reprieve ELSE 0)
                            /\ elapsed + remaining + MaxLate + MaxLate + add <= Granted
    BY <1>7
  <2>4. PICK more \in Nat : /\ more = (IF continue THEN Wait!Reprieve ELSE 0)
                             /\ Granted' = Granted + more
    BY <1>3, <1>7
  <2>5. PICK add1 \in Nat : /\ add1 = (IF reset_timeout' THEN Wait!Reprieve' ELSE 0)
                             /\ add1 <= add + more
    BY <1>1, <1>7, <2>3, <2>4
  <2>6. elapsed' + remaining' + MaxLate + 0 + add1 <= Granted'
    <3>1. elapsed' \in Nat /\ elapsed' <= elapsed + MaxLate
      BY <1>3
    <3>2. remaining' = remaining
      BY <1>2
    <3>3. elapsed \in Nat /\ remaining \in Nat /\ MaxLate \in Nat
      BY <1>7
    <3>4. Granted \in Nat
      BY <1>3
    <3>5. elapsed + remaining + MaxLate + MaxLate + add <= Granted
      BY <2>3
    <3>6. add1 <= add + more
      BY <2>5
    <3>7. elapsed' + remaining + MaxLate + 0 + add1 <= Granted + more
      BY <3>1, <3>3, <3>4, <3>5, <3>6, LaterSum
    <3>8. Granted' = Granted + more
      BY <2>4
    <3> QED
      BY <3>2, <3>7, <3>8
  <2> QED
    BY <2>1, <2>2, <2>5, <2>6 DEF Budget
<1>9. Empty'
  BY <1>2, <1>4, <1>5 DEF Empty
<1>10. Wait!InTime'
  <2>1. elapsed' <= Granted'
    BY <1>3, <1>7
  <2> QED
    BY <2>1 DEF Wait!InTime, Granted
<1>11. Wait!NoneMissed' /\ Wait!NotAtOnce'
  BY <1>1, <1>2, <1>4, <1>5 DEF Wait!NoneMissed, Wait!NotAtOnce, Wait!Return
<1> QED
  BY <1>6, <1>8, <1>9, <1>10, <1>11 DEF WaitInv

LEMMA SecondLemma ==
    ASSUME Wait!WaitsAssumption, WaitInv, Wait!Second
    PROVE  WaitInv'
<1>1. PICK n \in 0 .. MaxMade, continue \in BOOLEAN, ends \in BOOLEAN, other \in BOOLEAN,
           error \in BOOLEAN, d \in 0 .. remaining + MaxLate :
           /\ Wait!Come(n, continue, ends, other, d, remaining)
           /\ \/ /\ error /\ Wait!Return("error") /\ pending' = pending + n
                 /\ reset_timeout' = (reset_timeout \/ continue) /\ UNCHANGED <<taken, remaining>>
              \/ /\ ~error /\ Wait!Answer(n) /\ (taken' > taken \/ done')
                 /\ Wait!Return(IF taken' > taken THEN "result" ELSE "complete")
                 /\ reset_timeout' = (reset_timeout \/ continue) /\ UNCHANGED remaining
              \/ /\ ~error /\ Wait!Answer(n) /\ taken' = taken /\ ~done'
                 /\ remaining' = IF reset_timeout \/ continue THEN wait
                                 ELSE Wait!TimeLeft(remaining, elapsed')
                 /\ reset_timeout' = FALSE
                 /\ IF remaining' >= 0 THEN turn' = "first" /\ said' = said ELSE Wait!Return("timeout")
  BY DEF Wait!Second
<1>2. wait' = wait /\ turn = "second" /\ WaitTyped /\ pending = 0
      /\ made = taken + pending /\ said = "nothing"
  BY DEF Wait!Second, WaitInv, Empty, Wait!NoneMissed
<1>3. /\ elapsed + remaining + MaxLate + (IF reset_timeout THEN Wait!Reprieve ELSE 0) <= Granted
      /\ remaining \in Nat /\ remaining <= wait /\ MaxLate \in Nat /\ Wait!Reprieve \in Nat
      /\ Wait!Reprieve' = Wait!Reprieve /\ Wait!Reprieve = wait + MaxLate + MaxLate
      /\ wait \in Nat /\ elapsed \in Nat /\ reset_timeout \in BOOLEAN
  <2>1. turn = "second" /\ turn # "none" /\ turn # "first"
    BY <1>2
  <2>2. MaxLate \in Nat /\ Wait!Reprieve \in Nat /\ Wait!Reprieve' = Wait!Reprieve
        /\ Wait!Reprieve = wait + MaxLate + MaxLate
    BY <1>2, ReprieveNat DEF Wait!Reprieve
  <2>3. Granted \in Nat /\ Granted = (granted + 1) * Wait!Reprieve
    BY <1>2, <2>2, Product DEF Granted, WaitTyped
  <2> QED
    BY <1>2, <2>1, <2>2, <2>3 DEF WaitInv, Budget, WaitTyped
<1>4. /\ n \in Nat /\ made' = made + n /\ made' \in Nat /\ done' \in BOOLEAN
      /\ d \in Nat /\ elapsed' \in Nat /\ elapsed' = elapsed + d
      /\ elapsed' <= elapsed + remaining + MaxLate
      /\ granted' \in Nat /\ Granted \in Nat /\ Granted' \in Nat
      /\ Wait!Reprieve <= Granted /\ Wait!Reprieve <= Granted'
      /\ Granted' = Granted + (IF continue THEN Wait!Reprieve ELSE 0)
  BY <1>1, <1>2, <1>3, ComeLemma
<1> DEFINE left == IF reset_timeout \/ continue THEN wait ELSE Wait!TimeLeft(remaining, elapsed')
<1>5. /\ left \in Int /\ left <= wait /\ elapsed' <= Granted'
      /\ left >= 0 => elapsed' + left + MaxLate + MaxLate <= Granted'
      /\ left < 0 => elapsed' > 0
  <2>1. CASE reset_timeout \/ continue
    BY <1>3, <1>4, <2>1
  <2>2. CASE ~(reset_timeout \/ continue)
    <3>1. left = remaining - elapsed'
      BY <2>2 DEF Wait!TimeLeft
    <3> HIDE DEF left
    <3> QED
      BY <1>3, <1>4, <2>2, <3>1
  <2> QED
    BY <2>1, <2>2
<1>6. /\ pending' \in Nat /\ taken' \in Nat /\ made' = taken' + pending'
      /\ (~error /\ taken' = taken => pending' = 0)
  BY <1>1, <1>2, <1>4, AnswerLemma DEF WaitTyped
<1>10. Wait!InTime'
  BY <1>5 DEF Wait!InTime, Granted
<1>7. CASE turn' = "none" /\ reset_timeout' = (reset_timeout \/ continue) /\ remaining' = remaining
           /\ (said' \in {"complete", "timeout"} => pending' = 0) /\ said' # "timeout"
  <2>1. WaitTyped'
    BY <1>2, <1>3, <1>4, <1>6, <1>7 DEF WaitTyped
  <2> QED
    BY <1>6, <1>7, <1>10, <2>1 DEF WaitInv, Budget, Empty, Wait!NoneMissed, Wait!NotAtOnce
<1>8. CASE /\ ~error /\ taken' = taken /\ remaining' = left /\ reset_timeout' = FALSE
           /\ IF remaining' >= 0 THEN turn' = "first" /\ said' = said ELSE Wait!Return("timeout")
  <2>1. turn' \in {"none", "first"} /\ (turn' = "first" => remaining' >= 0 /\ said' = said)
        /\ (remaining' >= 0 => said' = said)
    BY <1>8 DEF Wait!Return
  <2> HIDE DEF left
  <2>2. WaitTyped'
    BY <1>2, <1>3, <1>4, <1>5, <1>6, <1>8, <2>1 DEF WaitTyped
  <2>4. Budget'
    BY <1>2, <1>3, <1>4, <1>5, <1>8, <2>1 DEF Budget
  <2>5. Empty' /\ Wait!NoneMissed'
    BY <1>2, <1>6, <1>8, <2>1 DEF Empty, Wait!NoneMissed
  <2>6. Wait!NotAtOnce'
    <3>1. CASE remaining' >= 0
      BY <1>2, <2>1, <3>1 DEF Wait!NotAtOnce
    <3>2. CASE ~(remaining' >= 0)
      BY <1>5, <1>8, <3>2 DEF Wait!NotAtOnce
    <3> QED
      BY <3>1, <3>2
  <2> QED
    BY <1>10, <2>2, <2>4, <2>5, <2>6 DEF WaitInv
<1>9. \/ /\ turn' = "none" /\ reset_timeout' = (reset_timeout \/ continue) /\ remaining' = remaining
         /\ (said' \in {"complete", "timeout"} => pending' = 0) /\ said' # "timeout"
      \/ /\ ~error /\ taken' = taken /\ remaining' = left /\ reset_timeout' = FALSE
         /\ IF remaining' >= 0 THEN turn' = "first" /\ said' = said ELSE Wait!Return("timeout")
  <2>1. taken' \in Nat /\ taken \in Nat
    BY <1>2, <1>6 DEF WaitTyped
  <2>2. ~error => taken' >= taken
    BY <1>1, <2>1 DEF Wait!Answer
  <2> QED
    BY <1>1, <1>4, <1>6, <2>1, <2>2 DEF Wait!Return
<1> QED
  BY <1>7, <1>8, <1>9

LEMMA WaitInit == Wait!WaitsAssumption => (Wait!Init => WaitInv)
<1> SUFFICES ASSUME Wait!WaitsAssumption, Wait!Init PROVE WaitInv
  OBVIOUS
<1>1. Wait!InTime
  <2>1. granted = 0 /\ elapsed = 0 /\ wait = 0
    BY DEF Wait!Init
  <2>2. Wait!Reprieve \in Nat
    BY <2>1 DEF Wait!Reprieve, Wait!WaitsAssumption
  <2> QED
    BY <2>1, <2>2 DEF Wait!InTime
<1>2. WaitTyped
  <2>1. reset_timeout \in BOOLEAN /\ done \in BOOLEAN /\ turn \in {"none", "first", "second"}
    BY DEF Wait!Init
  <2>2. wait \in Nat /\ elapsed \in Nat /\ remaining \in Int /\ granted \in Nat
        /\ pending \in Nat /\ taken \in Nat /\ made \in Nat
    BY DEF Wait!Init
  <2> QED
    BY <2>1, <2>2 DEF WaitTyped
<1>3. Budget /\ Empty /\ Wait!NoneMissed /\ Wait!NotAtOnce
  BY DEF Wait!Init, Budget, Empty, Wait!NoneMissed, Wait!NotAtOnce
<1> QED
  BY <1>1, <1>2, <1>3 DEF WaitInv

LEMMA WaitStepInv == Wait!WaitsAssumption => (WaitInv /\ [Wait!Next]_Wait!vars => WaitInv')
<1> SUFFICES ASSUME Wait!WaitsAssumption, WaitInv, [Wait!Next]_Wait!vars PROVE WaitInv'
  OBVIOUS
<1>1. CASE Wait!First
  BY <1>1, FirstLemma
<1>2. CASE Wait!Second
  BY <1>2, SecondLemma
<1>3. ASSUME NEW t \in Waits, Wait!Call(t)
      PROVE  WaitInv'
  BY <1>3, CallLemma DEF Wait!WaitsAssumption
<1>4. CASE UNCHANGED Wait!vars
  <2>1. Wait!Reprieve' = Wait!Reprieve
    BY <1>4 DEF Wait!vars, Wait!Reprieve
  <2> QED
    BY <1>4, <2>1 DEF Wait!vars, WaitInv, WaitTyped, Budget, Granted, Empty, Wait!InTime,
       Wait!NotAtOnce, Wait!NoneMissed
<1> QED
  BY <1>1, <1>2, <1>3, <1>4 DEF Wait!Next

\* What comes is bounded, and no more CONTINUEs are granted than came, one of them maybe
\* before the call.
Bounded ==
    /\ made \in 0 .. MaxMade /\ continues \in 0 .. MaxContinues /\ granted <= continues + 1
    /\ said \in {"nothing", "result", "complete", "timeout", "error"}

LEMMA BoundedStep ==
    Wait!WaitsAssumption => (WaitInv /\ Bounded /\ [Wait!Next]_Wait!vars => Bounded')
<1> SUFFICES ASSUME Wait!WaitsAssumption, WaitInv, Bounded, [Wait!Next]_Wait!vars PROVE Bounded'
  OBVIOUS
<1>1. /\ MaxMade \in Nat /\ MaxContinues \in Nat /\ granted \in Nat /\ made \in Nat
      /\ continues \in Nat /\ continues <= MaxContinues
  BY DEF Wait!WaitsAssumption, WaitInv, WaitTyped, Bounded
<1>2. ASSUME NEW n \in 0 .. MaxMade, NEW continue \in BOOLEAN, NEW ends \in BOOLEAN,
             NEW other \in BOOLEAN, NEW d, NEW longest,
             Wait!Come(n, continue, ends, other, d, longest)
      PROVE  /\ made' \in 0 .. MaxMade /\ continues' \in 0 .. MaxContinues
             /\ granted' <= continues' + 1
  <2>1. n \in Nat /\ n <= MaxMade - made /\ made' = made + n
    BY <1>1, <1>2 DEF Wait!Come, Bounded
  <2>2. /\ continues' = continues + (IF continue THEN 1 ELSE 0)
        /\ granted' = granted + (IF continue THEN 1 ELSE 0)
        /\ continue => continues < MaxContinues
    BY <1>2 DEF Wait!Come
  <2>3. made' \in 0 .. MaxMade
    BY <1>1, <2>1
  <2>4. CASE continue
    BY <1>1, <2>2, <2>3, <2>4 DEF Bounded
  <2>5. CASE ~continue
    BY <1>1, <2>2, <2>3, <2>5 DEF Bounded
  <2> QED
    BY <2>4, <2>5
<1>3. CASE Wait!First
  <2>1. said' \in {said, "error", "result", "complete"}
    BY <1>3 DEF Wait!First, Wait!Return
  <2>2. PICK n \in 0 .. MaxMade, continue \in BOOLEAN, ends \in BOOLEAN, other \in BOOLEAN,
             d \in 0 .. MaxLate : Wait!Come(n, continue, ends, other, d, 0)
    BY <1>3 DEF Wait!First
  <2> QED
    BY <1>2, <2>1, <2>2 DEF Bounded
<1>4. CASE Wait!Second
  <2>1. said' \in {said, "error", "result", "complete", "timeout"}
    BY <1>4 DEF Wait!Second, Wait!Return
  <2>2. PICK n \in 0 .. MaxMade, continue \in BOOLEAN, ends \in BOOLEAN, other \in BOOLEAN,
             d \in 0 .. remaining + MaxLate : Wait!Come(n, continue, ends, other, d, remaining)
    BY <1>4 DEF Wait!Second
  <2> QED
    BY <1>2, <2>1, <2>2 DEF Bounded
<1>5. ASSUME NEW t \in Waits, Wait!Call(t) PROVE Bounded'
  <2>1. /\ made' = made /\ continues' = continues /\ granted' \in {0, 1}
        /\ said' \in {"result", "nothing"}
    BY <1>5 DEF Wait!Call, Wait!Return
  <2> QED
    BY <1>1, <2>1 DEF Bounded
<1>6. CASE UNCHANGED Wait!vars
  BY <1>6 DEF Wait!vars, Bounded
<1> QED
  BY <1>3, <1>4, <1>5, <1>6 DEF Wait!Next

LEMMA WaitTypes == Wait!WaitsAssumption /\ WaitInv /\ Bounded => Wait!TypeOK
<1> SUFFICES ASSUME Wait!WaitsAssumption, WaitInv, Bounded PROVE Wait!TypeOK
  OBVIOUS
<1>1. WaitTyped /\ Budget /\ Wait!NoneMissed
  BY DEF WaitInv
<1>2. pending \in 0 .. MaxMade /\ taken \in 0 .. MaxMade /\ granted \in 0 .. MaxContinues + 1
  BY <1>1 DEF Wait!WaitsAssumption, WaitTyped, Wait!NoneMissed, Bounded
<1> QED
  BY <1>1, <1>2 DEF Wait!TypeOK, WaitTyped, Budget, Bounded

-----------------------------------------------------------------------------
(* MCSession moves each of them as it moves by itself.                     *)

LEMMA WorkerWithin == SessionSpec => Worker!Spec
<1>1. SessionInit => Worker!Init
  BY DEF SessionInit
<1>2. [SessionNext]_allVars => [Worker!Next]_Worker!vars
  BY DEF SessionNext, ClientStep, WorkerStep, WaitStep, allVars, workerVars, Worker!vars
<1> QED
  BY <1>1, <1>2, PTL DEF SessionSpec, Worker!Spec

LEMMA WaitWithin == SessionSpec => Wait!Spec
<1>1. SessionInit => Wait!Init
  BY DEF SessionInit
<1>2. [SessionNext]_allVars => [Wait!Next]_Wait!vars
  BY DEF SessionNext, ClientStep, WorkerStep, WaitStep, allVars, waitVars, Wait!vars
<1> QED
  BY <1>1, <1>2, PTL DEF SessionSpec, Wait!Spec

\* Of every method, also one that responds in chunks or fails: its responses leave once each,
\* in the order it made them, the parts of one together, none left out, and then one final
\* STATUS, although other requests of the caller run inside this one and use the same buffer
\* (_osrfAppRespond, osrfAppSessionSendBatch).  What may be otherwise is in the statement
\* (Follows, NoneLeftOut): a response in chunks passes smaller ones that are still in the
\* bundle, and what was bundled by a method that fails may leave after its exception.
THEOREM ResponsesOrderly ==
    ASSUME Worker!ConstantsOK
    PROVE  /\ Worker!Spec => [](Worker!TypeOK /\ Worker!Orderly /\ Worker!ChunksTogether)
           /\ SessionSpec => []Orderly
<1>1. WorkerInv => Worker!TypeOK /\ Worker!Orderly /\ Worker!ChunksTogether
  BY InvTypeOK, InvOrderly, InvChunksTogether
<1>2. Worker!TypeOK /\ Worker!Orderly /\ Worker!ChunksTogether => Orderly
  BY DEF Orderly
<1>3. Worker!Spec => []WorkerInv
  BY AnsweringInvariance
<1> QED
  BY <1>1, <1>2, <1>3, WorkerWithin, PTL

\* When nothing is in progress, every request that came to a worker has its final STATUS,
\* unless an atomic method may return 1 without a response (osrfAppRunMethod).
THEOREM EveryRequestHasItsEnd ==
    ASSUME Worker!ConstantsOK
    PROVE  /\ Worker!Spec => []("silent" \notin conduct => Worker!EveryRequestEnds)
           /\ SessionSpec => []EveryRequestEnds
<1>1. WorkerInv => ("silent" \notin conduct => Worker!EveryRequestEnds)
  BY InvEveryRequestEnds
<1>2. ("silent" \notin conduct => Worker!EveryRequestEnds) => EveryRequestEnds
  BY DEF EveryRequestEnds
<1>3. Worker!Spec => []WorkerInv
  BY AnsweringInvariance
<1> QED
  BY <1>1, <1>2, <1>3, WorkerWithin, PTL

\* A call lasts no longer than its timeout and one late turn of the loop, and once more for
\* every CONTINUE, however often the waits are late; it gives up only after the clock has
\* moved, and no result is missed (_osrf_app_request_recv).
THEOREM RequestAwaited ==
    ASSUME Wait!WaitsAssumption
    PROVE  (Wait!Spec => [](Wait!TypeOK /\ Wait!Awaited)) /\ (SessionSpec => []Awaited)
<1>1. Wait!Init => WaitInv /\ Bounded
  <2>1. Wait!Init => Bounded
    BY DEF Wait!Init, Wait!WaitsAssumption, Bounded
  <2> QED
    BY <2>1, WaitInit
<1>2. WaitInv /\ Bounded /\ [Wait!Next]_Wait!vars => (WaitInv /\ Bounded)'
  BY WaitStepInv, BoundedStep
<1>3. WaitInv /\ Bounded => Wait!TypeOK /\ Wait!Awaited
  BY WaitTypes DEF WaitInv, Wait!Awaited
<1>4. Wait!TypeOK /\ Wait!Awaited => Awaited
  BY DEF Awaited
<1>5. Wait!Spec => [](Wait!TypeOK /\ Wait!Awaited)
  BY <1>1, <1>2, <1>3, PTL DEF Wait!Spec
<1> QED
  BY <1>4, <1>5, WaitWithin, PTL
=============================================================================
