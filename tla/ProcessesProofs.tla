---------------------------- MODULE ProcessesProofs ----------------------------
(***************************************************************************)
(* Proofs about WebGateway and ServiceControl, as MCProcesses has them.     *)
(*                                                                         *)
(* A child of the web server: what comes while a request is served belongs *)
(* to it or to one that had answers on their way when it was sent, and the *)
(* first end of an answer is the last of it.                               *)
(*                                                                         *)
(* The commands for services: a service has one process at most, and the   *)
(* pid file names it from the moment that its id is written until it has   *)
(* been told to stop.                                                      *)
(***************************************************************************)
EXTENDS MCProcesses, FiniteSetTheorems, WellFoundedInduction, TLAPS

Words == {"ok", "failed", "complete", "continue", "result", "error", "timeout"}
Packets == [of : Nat, last : Words, from : Workers]
Outcomes == {"open", "ok", "bad request", "not found", "timeout", "failed", "exit"}
Cached1 == [ip : Browsers \cup {Web!Nobody}, jid : Workers \cup {Web!Nobody}]

Messages == {"CONNECT", "REQUEST", "DISCONNECT"}

\* A batch has one REQUEST at most.
OneRequest(b) == \A i, j \in DOMAIN b : b[i] = "REQUEST" /\ b[j] = "REQUEST" => i = j

\* Its answer ends with the first end of an answer.
Plain(r) == ~Web!Has(r, "CONNECT") /\ OneRequest(r.batch)

TypeInv ==
    /\ req \in Seq(Web!Requests) /\ at \in {"idle", "translator", "gateway"} /\ complete \in BOOLEAN
    /\ coming \in Seq(Seq(Packets)) /\ queue \in Seq(Packets) /\ cache \in [Threads -> Cached1]
    /\ got \in Seq(Seq(Packets)) /\ ended \in Seq(Outcomes) /\ late \in Seq(SUBSET Nat)
    /\ worker \in Seq(Workers \cup {Web!Nobody}) /\ up \in BOOLEAN
    /\ Len(coming) = Web!Now /\ Len(got) = Web!Now /\ Len(ended) = Web!Now /\ Len(late) = Web!Now
         /\ Len(worker) = Web!Now

\* While it waits, the process waits for the answer to the last request.
AtInv == at # "idle" => Web!Now > 0 /\ ended[Web!Now] = "open" /\ req[Web!Now].via = at

\* Packets name the request that they answer and the worker that has it.
PacketInv ==
    /\ \A n \in DOMAIN coming : \A i \in DOMAIN coming[n] :
           coming[n][i].of = n /\ coming[n][i].from = worker[n]
    /\ \A i \in DOMAIN queue : queue[i].of \in DOMAIN worker /\ queue[i].from = worker[queue[i].of]

\* While a request is served, only its own answers come, and those that were late.
OwnInv ==
    at # "idle" =>
      /\ \A n \in DOMAIN coming : coming[n] # << >> => n \in {Web!Now} \cup late[Web!Now]
      /\ \A i \in DOMAIN queue : queue[i].of \in {Web!Now} \cup late[Web!Now]

\* So do those that are kept for an answer that is not in parts, and only then are any.
KeptInv ==
    /\ kept \in Seq(Packets) /\ (at # "translator" => kept = << >>)
    /\ at = "translator" => \A i \in DOMAIN kept : kept[i].of \in {Web!Now} \cup late[Web!Now]

\* The end of an answer is the last of it, if it has no more than one.
Ended1(s) == \A i \in DOMAIN s : Web!IsLast(s[i]) => i = Len(s)
LastInv ==
    at = "translator" /\ Web!Alone(Web!Now) /\ Plain(req[Web!Now]) =>
      /\ Ended1(coming[Web!Now]) /\ Ended1(queue)
      /\ \A i \in DOMAIN queue : Web!IsLast(queue[i]) => coming[Web!Now] = << >>

\* WholeAnswer, of such requests.
WholePlain ==
    \A n \in DOMAIN got :
      ended[n] = "ok" /\ Web!Alone(n) /\ req[n].via = "translator" /\ Plain(req[n]) =>
        Web!Only(req[n], "DISCONNECT")
          \/ (coming[n] = << >> /\ got[n] # << >> /\ Web!IsLast(Web!Last(got[n])))

Inv == TypeInv /\ AtInv /\ PacketInv /\ OwnInv /\ KeptInv /\ LastInv /\ Web!OwnAnswers /\ WholePlain
  /\ Web!CachedIsConnected

-----------------------------------------------------------------------------
(* Numbers and sequences.                                                  *)

\* A set of numbers that is not empty has a least one.
LEMMA Least ==
    ASSUME NEW S, S \subseteq Nat, S # {}
    PROVE  \E x \in S : \A y \in S : ~(y < x)
<1> DEFINE R == OpToRel(<, Nat)
<1>1. IsWellFoundedOn(R, Nat)
  BY NatLessThanWellFounded
<1>2. PICK x \in S : \A y \in S : <<y, x>> \notin R
  <2> HIDE DEF R
  <2> QED
    BY <1>1, WFMin
<1>3. \A y \in S : y < x => <<y, x>> \in R
  BY DEF OpToRel
<1> QED
  BY <1>2, <1>3

\* A set that has 0, and with each number below n the next, has all up to n.
LEMMA Climb ==
    ASSUME NEW n \in Nat, NEW G, 0 \in G, \A i \in 0 .. n - 1 : i \in G => i + 1 \in G
    PROVE  0 .. n \subseteq G
<1> SUFFICES ASSUME ~(0 .. n \subseteq G) PROVE FALSE
  OBVIOUS
<1> DEFINE B == (0 .. n) \ G
<1>1. PICK b \in B : \A y \in B : ~(y < b)
  <2>1. B \subseteq Nat /\ B # {}
    OBVIOUS
  <2> HIDE DEF B
  <2> QED
    BY <2>1, Least
<1>2. b # 0 /\ b \in Nat /\ b <= n
  OBVIOUS
<1>3. b - 1 \in 0 .. n - 1 /\ b - 1 < b /\ (b - 1) + 1 = b
  BY <1>2
<1>4. b - 1 \in G
  BY <1>1, <1>3, <1>2
<1> QED
  BY <1>3, <1>4

\* What FlattenSeq computes.
IsFlat(f, a) == f = [i \in 1 .. Len(a) |-> IF i = 1 THEN a[i] ELSE f[i - 1] \o a[i]]
FlatTo(f, a, n) == n > 0 => f[1] = a[1] /\ \A i \in 2 .. n : f[i] = f[i - 1] \o a[i]

LEMMA FlatExists ==
    ASSUME NEW S, NEW a \in Seq(S), Len(a) > 0
    PROVE  \E f : IsFlat(f, a)
<1> DEFINE n == Len(a)
           G == {k \in 0 .. n : \E f : FlatTo(f, a, k)}
<1>1. n \in Nat
  OBVIOUS
<1>2. 0 \in G
  BY <1>1 DEF FlatTo
<1>3. ASSUME NEW k \in 0 .. n - 1, k \in G PROVE k + 1 \in G
  <2>1. PICK f : FlatTo(f, a, k)
    BY <1>3
  <2> DEFINE g == [i \in 1 .. n |-> IF i = k + 1 THEN IF k = 0 THEN a[1] ELSE f[k] \o a[k + 1] ELSE f[i]]
  <2>2. k \in Nat /\ k + 1 \in 1 .. n /\ k + 1 \in 0 .. n /\ 1 \in 1 .. n
    BY <1>1
  <2>3. g[1] = a[1]
    <3>1. CASE k = 0
      BY <3>1, <2>2
    <3>2. CASE k # 0
      <4>1. 1 # k + 1 /\ k > 0
        BY <3>2, <2>2
      <4>2. g[1] = f[1]
        BY <4>1, <2>2
      <4> QED
        BY <4>1, <4>2, <2>1 DEF FlatTo
    <3> QED
      BY <3>1, <3>2
  <2>4. ASSUME NEW i \in 2 .. k + 1 PROVE g[i] = g[i - 1] \o a[i]
    <3>1. i \in 1 .. n /\ i - 1 \in 1 .. n /\ i - 1 # k + 1 /\ k > 0
      BY <2>2, <1>1
    <3>2. g[i - 1] = f[i - 1]
      BY <3>1
    <3>3. CASE i = k + 1
      <4>1. i - 1 = k /\ k # 0
        BY <3>1, <3>3, <2>2
      <4>2. g[i] = f[k] \o a[k + 1]
        BY <3>1, <3>3, <4>1
      <4> QED
        BY <4>1, <4>2, <3>2, <3>3
    <3>4. CASE i # k + 1
      <4>1. i \in 2 .. k /\ k > 0
        BY <3>1, <3>4, <2>2
      <4>2. g[i] = f[i]
        BY <3>1, <3>4
      <4> QED
        BY <4>1, <4>2, <3>2, <2>1 DEF FlatTo
    <3> QED
      BY <3>3, <3>4
  <2>5. FlatTo(g, a, k + 1)
    <3> HIDE DEF g
    <3> QED
      BY <2>3, <2>4 DEF FlatTo
  <2> QED
    BY <2>5, <2>2
<1>4. n \in G
  <2>1. 0 .. n \subseteq G
    <3> HIDE DEF G, n
    <3> QED
      BY <1>1, <1>2, <1>3, Climb
  <2> QED
    BY <2>1, <1>1
<1>5. PICK f : FlatTo(f, a, n)
  BY <1>4
<1> DEFINE g == [i \in 1 .. n |-> f[i]]
<1>6. ASSUME NEW i \in 1 .. n PROVE f[i] = IF i = 1 THEN a[i] ELSE g[i - 1] \o a[i]
  <2>1. CASE i = 1
    BY <2>1, <1>5, <1>1 DEF FlatTo
  <2>2. CASE i # 1
    <3>1. i \in 2 .. n /\ i - 1 \in 1 .. n
      BY <2>2, <1>1
    <3>2. g[i - 1] = f[i - 1]
      BY <3>1
    <3> QED
      BY <3>1, <3>2, <2>2, <1>5 DEF FlatTo
  <2> QED
    BY <2>1, <2>2
<1>7. g = [i \in 1 .. n |-> IF i = 1 THEN a[i] ELSE g[i - 1] \o a[i]]
  BY <1>6
<1> QED
  BY <1>7 DEF IsFlat

\* FlattenSeq is what its steps come to.
LEMMA Flatten ==
    ASSUME NEW S, NEW a \in Seq(S), Len(a) > 0
    PROVE  \E f : Web!FlattenSeq(a) = f[Len(a)] /\ FlatTo(f, a, Len(a))
<1> DEFINE f == CHOOSE f : IsFlat(f, a)
<1>1. Web!FlattenSeq(a) = f[Len(a)]
  BY DEF Web!FlattenSeq, IsFlat
<1>2. IsFlat(f, a)
  BY FlatExists
<1> HIDE DEF f
<1>3. f = [i \in 1 .. Len(a) |-> IF i = 1 THEN a[i] ELSE f[i - 1] \o a[i]]
  BY <1>2 DEF IsFlat
<1>4. Len(a) \in Nat
  OBVIOUS
<1>5. f[1] = a[1]
  BY <1>3, <1>4
<1>6. ASSUME NEW i \in 2 .. Len(a) PROVE f[i] = f[i - 1] \o a[i]
  <2>1. i \in 1 .. Len(a) /\ i # 1
    BY <1>4
  <2> QED
    BY <2>1, <1>3
<1> QED
  BY <1>1, <1>5, <1>6 DEF FlatTo

LEMMA FlattenTyped ==
    ASSUME NEW S, NEW a \in Seq(Seq(S))
    PROVE  Web!FlattenSeq(a) \in Seq(S)
<1> DEFINE n == Len(a)
<1>1. CASE n = 0
  <2>1. Web!FlattenSeq(a) = a /\ a = << >>
    BY <1>1 DEF Web!FlattenSeq
  <2> QED
    BY <2>1
<1>2. CASE n # 0
  <2>1. n \in Nat /\ n > 0
    BY <1>2
  <2>2. PICK f : Web!FlattenSeq(a) = f[n] /\ FlatTo(f, a, n)
    BY <2>1, Flatten
  <2> DEFINE G == {i \in 0 .. n : i > 0 => f[i] \in Seq(S)}
  <2>3. 0 \in G
    BY <2>1
  <2>4. ASSUME NEW i \in 0 .. n - 1, i \in G PROVE i + 1 \in G
    <3>1. i + 1 \in 1 .. n /\ i + 1 \in 0 .. n
      BY <2>1
    <3>2. a[i + 1] \in Seq(S)
      BY <3>1
    <3>3. CASE i = 0
      BY <3>1, <3>2, <3>3, <2>1, <2>2 DEF FlatTo
    <3>4. CASE i # 0
      <4>1. i + 1 \in 2 .. n /\ (i + 1) - 1 = i /\ i > 0
        BY <3>4, <3>1
      <4>2. f[i + 1] = f[i] \o a[i + 1]
        BY <4>1, <2>1, <2>2 DEF FlatTo
      <4>3. f[i] \in Seq(S)
        BY <4>1, <2>4
      <4>4. f[i + 1] \in Seq(S)
        <5> HIDE DEF n
        <5> QED
          BY <4>2, <4>3, <3>2
      <4> QED
        BY <4>4, <3>1
    <3> QED
      BY <3>3, <3>4
  <2>5. 0 .. n \subseteq G
    <3> HIDE DEF G, n
    <3> QED
      BY <2>1, <2>3, <2>4, Climb
  <2>6. n \in G
    BY <2>5, <2>1
  <2> QED
    BY <2>1, <2>2, <2>6
<1> QED
  BY <1>1, <1>2

\* If one of the sequences at most has something, all of them together have that.
LEMMA FlattenOne ==
    ASSUME NEW S, NEW a \in Seq(Seq(S)), NEW q \in DOMAIN a,
           \A i \in DOMAIN a : i # q => a[i] = << >>
    PROVE  Web!FlattenSeq(a) = a[q]
<1> DEFINE n == Len(a)
<1>1. n \in Nat /\ n > 0 /\ q \in 1 .. n
  OBVIOUS
<1>2. PICK f : Web!FlattenSeq(a) = f[n] /\ FlatTo(f, a, n)
  BY <1>1, Flatten
<1> DEFINE G == {i \in 0 .. n : i > 0 => f[i] = IF i < q THEN << >> ELSE a[q]}
<1>3. 0 \in G
  BY <1>1
<1>4. ASSUME NEW i \in 0 .. n - 1, i \in G PROVE i + 1 \in G
  <2>1. i + 1 \in 1 .. n /\ i + 1 \in 0 .. n
    BY <1>1
  <2>2. a[i + 1] \in Seq(S) /\ (i + 1 # q => a[i + 1] = << >>) /\ a[q] \in Seq(S)
    BY <2>1
  <2>3. CASE i = 0
    BY <2>1, <2>2, <2>3, <1>1, <1>2 DEF FlatTo
  <2>4. CASE i # 0
    <3>1. i + 1 \in 2 .. n /\ (i + 1) - 1 = i /\ i > 0
      BY <2>4, <2>1
    <3>2. f[i + 1] = f[i] \o a[i + 1]
      BY <3>1, <1>1, <1>2 DEF FlatTo
    <3>3. f[i] = IF i < q THEN << >> ELSE a[q]
      BY <3>1, <1>4
    <3>4. f[i + 1] = IF i + 1 < q THEN << >> ELSE a[q]
      <4>1. \A s \in Seq(S) : s \o << >> = s /\ << >> \o s = s
        OBVIOUS
      <4>2. << >> \in Seq(S)
        OBVIOUS
      <4>3. i < q \/ i = q \/ i > q
        BY <1>1, <2>1
      <4> HIDE DEF n
      <4>4. CASE i + 1 < q
        <5>1. i < q /\ i + 1 # q
          BY <4>4, <1>1, <2>1
        <5> QED
          BY <5>1, <4>4, <4>1, <4>2, <3>2, <3>3, <2>2
      <4>5. CASE i + 1 = q
        <5>1. i < q /\ ~(i + 1 < q)
          BY <4>5, <1>1, <2>1
        <5> QED
          BY <5>1, <4>5, <4>1, <3>2, <3>3, <2>2
      <4>6. CASE i + 1 > q
        <5>1. ~(i < q) /\ i + 1 # q /\ ~(i + 1 < q)
          BY <4>6, <1>1, <2>1
        <5> QED
          BY <5>1, <4>1, <3>2, <3>3, <2>2
      <4> QED
        BY <4>4, <4>5, <4>6, <1>1, <2>1
    <3> QED
      BY <3>4, <2>1
  <2> QED
    BY <2>3, <2>4
<1>5. 0 .. n \subseteq G
  <2> HIDE DEF G, n
  <2> QED
    BY <1>1, <1>3, <1>4, Climb
<1>6. n \in G
  BY <1>5, <1>1
<1> QED
  BY <1>1, <1>2, <1>6

-----------------------------------------------------------------------------
(* Answers.                                                                *)

EndWords == {"ok", "complete", "failed"}

LEMMA OneWord ==
    \A w \in Words : <<w>> \in Seq(Words) /\ \A i \in DOMAIN <<w>> : <<w>>[i] \in EndWords => i = Len(<<w>>)
  OBVIOUS

LEMMA WordsAre ==
    {"ok", "failed", "complete", "continue", "result", "error", "timeout"} = Words
  BY DEF Words

LEMMA RepliesAre ==
    ASSUME NEW type, NEW s \in Web!Replies(type)
    PROVE  /\ s \in Seq(Words)
           /\ type \notin {"CONNECT", "REQUEST"} => s = << >>
           /\ \A i \in DOMAIN s : s[i] \in EndWords => i = Len(s)
<1>1. CASE type = "CONNECT"
  <2>1. s = <<"ok">> \/ s = <<"failed">>
    BY <1>1 DEF Web!Replies
  <2> QED
    BY <1>1, <2>1, OneWord, WordsAre
<1>2. CASE type = "REQUEST"
  <2>1. s = <<"complete">> \/ s = <<"continue", "result", "complete">> \/ s = <<"result">>
        \/ s = <<"failed">> \/ s = << >>
    BY <1>2 DEF Web!Replies
  <2>2. CASE s = <<"continue", "result", "complete">>
    <3>1. s \in Seq(Words)
      BY <2>2 DEF Words
    <3>2. Len(s) = 3 /\ DOMAIN s = {1, 2, 3} /\ s[1] = "continue" /\ s[2] = "result"
      BY <2>2
    <3> QED
      BY <1>2, <3>1, <3>2 DEF EndWords
  <2>3. CASE s = << >>
    BY <1>2, <2>3
  <2> QED
    BY <1>2, <2>1, <2>2, <2>3, OneWord, WordsAre
<1>3. CASE type \notin {"CONNECT", "REQUEST"}
  <2>1. s = << >>
    BY <1>3 DEF Web!Replies
  <2> QED
    BY <1>3, <2>1
<1> QED
  BY <1>1, <1>2, <1>3

LEMMA AnswersAre ==
    ASSUME NEW b \in Seq(Messages), NEW to, NEW x \in Web!Answers(b, to)
    PROVE  /\ x \in Seq(Words)
           /\ (\A i \in DOMAIN b : b[i] # "CONNECT") /\ OneRequest(b)
                => \A i \in DOMAIN x : x[i] \in EndWords => i = Len(x)
<1>1. CASE x = <<"error">> \/ x = <<"timeout">>
  BY <1>1, OneWord, WordsAre
<1>2. CASE ~(x = <<"error">> \/ x = <<"timeout">>)
  <2>1. PICK a \in [DOMAIN b -> UNION {Web!Replies(b[i]) : i \in DOMAIN b}] :
          x = Web!FlattenSeq(a) /\ \A i \in DOMAIN b : a[i] \in Web!Replies(b[i])
    BY <1>2 DEF Web!Answers
  <2>3. DOMAIN b = 1 .. Len(b) /\ Len(b) \in Nat /\ DOMAIN a = 1 .. Len(b)
    BY <2>1
  <2>4. \A i \in 1 .. Len(b) : a[i] \in Seq(Words)
    BY <2>1, <2>3, RepliesAre
  <2>5. a \in Seq(Seq(Words)) /\ Len(a) = Len(b)
    <3>1. a = [i \in 1 .. Len(b) |-> a[i]]
      BY <2>3, <2>1
    <3>2. a \in [1 .. Len(b) -> Seq(Words)]
      BY <3>1, <2>4
    <3> QED
      BY <3>2, <2>3
  <2>6. x \in Seq(Words)
    BY <2>1, <2>5, FlattenTyped
  <2>7. ASSUME \A i \in DOMAIN b : b[i] # "CONNECT", OneRequest(b), NEW j \in DOMAIN x, x[j] \in EndWords
        PROVE  j = Len(x)
    <3>1. CASE \E q \in DOMAIN b : b[q] = "REQUEST"
      <4>1. PICK q \in DOMAIN b : b[q] = "REQUEST"
        BY <3>1
      <4>2. \A i \in DOMAIN a : i # q => a[i] = << >>
        <5>1. \A i \in DOMAIN b : i # q => b[i] # "REQUEST"
          BY <4>1, <2>7 DEF OneRequest
        <5> QED
          BY <5>1, <2>1, <2>3, <2>7, RepliesAre
      <4>3. x = a[q]
        BY <4>1, <4>2, <2>1, <2>3, <2>5, FlattenOne
      <4> QED
        BY <4>1, <4>3, <2>1, <2>7, RepliesAre
    <3>2. CASE \A q \in DOMAIN b : b[q] # "REQUEST"
      <4>1. \A i \in DOMAIN b : a[i] = << >>
        BY <3>2, <2>1, <2>7, RepliesAre
      <4>2. x = << >>
        <5>1. CASE Len(b) = 0
          BY <5>1, <2>1, <2>5 DEF Web!FlattenSeq
        <5>2. CASE Len(b) # 0
          <6>1. 1 \in DOMAIN a
            BY <5>2, <2>3
          <6>2. x = a[1]
            BY <6>1, <4>1, <2>1, <2>3, <2>5, FlattenOne
          <6> QED
            BY <6>1, <6>2, <4>1, <2>3
        <5> QED
          BY <5>1, <5>2
      <4> QED
        BY <4>2, <2>7
    <3> QED
      BY <3>1, <3>2
  <2> QED
    BY <2>6, <2>7
<1> QED
  BY <1>1, <1>2

-----------------------------------------------------------------------------
(* What the actions do.                                                    *)

\* A request is sent: its answer is on its way, and it is with a worker.
LEMMA SentLemma ==
    ASSUME TypeInv, NEW r \in Web!Requests, Web!Sent(r), r.batch \in Seq(Messages)
    PROVE  \E w \in Workers, c \in Seq(Packets) :
             /\ worker' = Append(worker, w) /\ coming' = Append(coming, c)
             /\ \A i \in DOMAIN c : c[i].of = Web!Now + 1 /\ c[i].from = w
             /\ Plain(r) => Ended1(c)
<1>1. PICK w \in (IF r.to \in Workers THEN {r.to} ELSE Workers) :
        /\ worker' = Append(worker, w)
        /\ IF up
           THEN \E a \in Web!Answers(r.batch, r.to) :
                  coming' = Append(coming, [i
                    \in DOMAIN a |-> [of |-> Web!Now + 1, last |-> a[i], from |-> w]])
           ELSE coming' = Append(coming, << >>)
  BY DEF Web!Sent
<1>2. w \in Workers
  BY <1>1
<1>3. CASE up
  <2>1. PICK a \in Web!Answers(r.batch, r.to) :
          coming' = Append(coming, [i \in DOMAIN a |-> [of |-> Web!Now + 1, last |-> a[i], from |-> w]])
    BY <1>1, <1>3
  <2> DEFINE c == [i \in DOMAIN a |-> [of |-> Web!Now + 1, last |-> a[i], from |-> w]]
  <2>2. a \in Seq(Words)
    BY AnswersAre
  <2>3. DOMAIN a = 1 .. Len(a) /\ Len(a) \in Nat
    BY <2>2
  <2>4. Web!Now + 1 \in Nat
    BY DEF TypeInv, Web!Now
  <2>5. c \in Seq(Packets) /\ DOMAIN c = DOMAIN a /\ Len(c) = Len(a)
    <3>1. \A i \in 1 .. Len(a) : a[i] \in Words
      BY <2>2
    <3>2. c \in [1 .. Len(a) -> Packets]
      BY <2>3, <2>4, <3>1, <1>2 DEF Packets
    <3> QED
      BY <3>2, <2>3
  <2>6. \A i \in DOMAIN a : c[i].of = Web!Now + 1 /\ c[i].from = w /\ c[i].last = a[i]
    OBVIOUS
  <2>7. Plain(r) => Ended1(c)
    <3>1. SUFFICES ASSUME Plain(r), NEW i \in DOMAIN c, Web!IsLast(c[i]) PROVE i = Len(c)
      BY DEF Ended1
    <3>2. a[i] \in EndWords
      BY <3>1, <2>5, <2>6 DEF Web!IsLast, EndWords
    <3>3. \A j \in DOMAIN r.batch : r.batch[j] # "CONNECT"
      BY <3>1 DEF Web!Has, Plain
    <3>5. OneRequest(r.batch) /\ i \in DOMAIN a
      BY <3>1, <2>5 DEF Plain
    <3>4. i = Len(a)
      BY <3>2, <3>3, <3>5, AnswersAre
    <3> QED
      BY <3>4, <2>5
  <2> HIDE DEF c
  <2>8. coming' = Append(coming, c)
    BY <2>1 DEF c
  <2> QED
    BY <1>1, <1>2, <2>5, <2>6, <2>7, <2>8
<1>4. CASE ~up
  <2>1. << >> \in Seq(Packets) /\ DOMAIN << >> = {}
    OBVIOUS
  <2>2. Ended1(<< >>)
    BY <2>1 DEF Ended1
  <2>3. coming' = Append(coming, << >>)
    BY <1>1, <1>4
  <2> QED
    BY <1>1, <1>2, <2>1, <2>2, <2>3
<1> QED
  BY <1>3, <1>4

LEMMA Appended ==
    ASSUME NEW S, NEW s \in Seq(S), NEW e \in S
    PROVE  /\ Append(s, e) \in Seq(S) /\ Len(Append(s, e)) = Len(s) + 1 /\ Len(s) \in Nat
           /\ DOMAIN s = 1 .. Len(s) /\ DOMAIN Append(s, e) = 1 .. Len(s) + 1
           /\ \A i \in 1 .. Len(s) : Append(s, e)[i] = s[i]
           /\ Append(s, e)[Len(s) + 1] = e
  OBVIOUS

LEMMA Taken ==
    ASSUME NEW S, NEW s \in Seq(S), s # << >>
    PROVE  /\ Head(s) \in S /\ Head(s) = s[1] /\ Tail(s) \in Seq(S) /\ Len(s) \in Nat \ {0}
           /\ Len(Tail(s)) = Len(s) - 1 /\ 1 \in DOMAIN s /\ DOMAIN s = 1 .. Len(s)
           /\ \A i \in 1 .. Len(s) - 1 : Tail(s)[i] = s[i + 1] /\ i + 1 \in DOMAIN s
           /\ DOMAIN Tail(s) = 1 .. Len(s) - 1
  OBVIOUS

LEMMA Put ==
    ASSUME NEW S, NEW s \in Seq(S), NEW n \in DOMAIN s, NEW e \in S
    PROVE  /\ [s EXCEPT ![n] = e] \in Seq(S) /\ Len([s EXCEPT ![n] = e]) = Len(s)
           /\ DOMAIN [s EXCEPT ![n] = e] = DOMAIN s
           /\ [s EXCEPT ![n] = e][n] = e
           /\ \A i \in DOMAIN s : i # n => [s EXCEPT ![n] = e][i] = s[i]
<1>1. DOMAIN s = 1 .. Len(s) /\ Len(s) \in Nat
  OBVIOUS
<1>2. [s EXCEPT ![n] = e] \in [1 .. Len(s) -> S]
  BY <1>1
<1> QED
  BY <1>1, <1>2

LEMMA Domains ==
    ASSUME TypeInv
    PROVE  /\ Web!Now \in Nat /\ DOMAIN req = 1 .. Web!Now /\ DOMAIN coming = 1 .. Web!Now
                /\ DOMAIN got = 1 .. Web!Now
           /\ DOMAIN ended = 1 .. Web!Now /\ DOMAIN late = 1 .. Web!Now /\ DOMAIN worker = 1 .. Web!Now
  BY DEF TypeInv, Web!Now

LEMMA RequestIs ==
    ASSUME Web!GatewayAssumption, NEW r \in Web!Requests
    PROVE  /\ r.batch \in Seq(Messages) /\ r.via \in {"translator", "gateway"} /\ r.browser \in Browsers
           /\ r.via = "translator" => r.thread \in Threads
<1>1. CASE r \in [via : {"translator"}, browser : Browsers, thread : Threads,
             to : Workers \cup {Service}, batch : Batches, multipart : BOOLEAN]
  BY <1>1 DEF Web!GatewayAssumption, Messages
<1>2. CASE r \in [via : {"gateway"}, browser : Browsers, thread : {Web!Nobody}, to : {Service},
             batch : {<<"REQUEST">>}, multipart : {FALSE}]
  <2>1. r.batch = <<"REQUEST">>
    BY <1>2
  <2>3. r.batch \in Seq(Messages)
    BY <2>1 DEF Messages
  <2> QED
    BY <1>2, <2>3
<1> QED
  BY <1>1, <1>2 DEF Web!Requests

\* One request more.
Grows(r, c, x, l, w) ==
    /\ req' = Append(req, r) /\ coming' = Append(coming, c) /\ got' = Append(got, << >>)
    /\ ended' = Append(ended, x) /\ late' = Append(late, l) /\ worker' = Append(worker, w)

LEMMA GrowsFacts ==
    ASSUME TypeInv, NEW r \in Web!Requests, NEW c \in Seq(Packets), NEW x \in Outcomes, NEW l \in SUBSET Nat,
           NEW w \in Workers \cup {Web!Nobody}, Grows(r, c, x, l, w)
    PROVE  /\ req' \in Seq(Web!Requests) /\ coming' \in Seq(Seq(Packets)) /\ got' \in Seq(Seq(Packets))
           /\ ended' \in Seq(Outcomes) /\ late' \in Seq(SUBSET Nat)
                /\ worker' \in Seq(Workers \cup {Web!Nobody})
           /\ Web!Now' = Web!Now + 1
           /\ Len(coming') = Web!Now + 1 /\ Len(got') = Web!Now + 1 /\ Len(ended') = Web!Now + 1
           /\ Len(late') = Web!Now + 1 /\ Len(worker') = Web!Now + 1
           /\ \A n \in 1 .. Web!Now : /\ req'[n] = req[n] /\ coming'[n] = coming[n] /\ got'[n] = got[n]
                                  /\ ended'[n] = ended[n] /\ late'[n] = late[n] /\ worker'[n] = worker[n]
           /\ req'[Web!Now + 1] = r /\ coming'[Web!Now + 1] = c /\ got'[Web!Now + 1] = << >>
           /\ ended'[Web!Now + 1] = x /\ late'[Web!Now + 1] = l /\ worker'[Web!Now + 1] = w
<1>1. << >> \in Seq(Packets)
  OBVIOUS
<1>2. /\ req' \in Seq(Web!Requests) /\ Len(req') = Web!Now + 1
      /\ (\A n \in 1 .. Web!Now : req'[n] = req[n]) /\ req'[Web!Now + 1] = r
  BY Appended DEF TypeInv, Grows, Web!Now
<1>3. /\ coming' \in Seq(Seq(Packets)) /\ Len(coming') = Web!Now + 1
      /\ (\A n \in 1 .. Web!Now : coming'[n] = coming[n]) /\ coming'[Web!Now + 1] = c
  BY Appended DEF TypeInv, Grows
<1>4. /\ got' \in Seq(Seq(Packets)) /\ Len(got') = Web!Now + 1
      /\ (\A n \in 1 .. Web!Now : got'[n] = got[n]) /\ got'[Web!Now + 1] = << >>
  BY <1>1, Appended DEF TypeInv, Grows
<1>5. /\ ended' \in Seq(Outcomes) /\ Len(ended') = Web!Now + 1
      /\ (\A n \in 1 .. Web!Now : ended'[n] = ended[n]) /\ ended'[Web!Now + 1] = x
  BY Appended DEF TypeInv, Grows
<1>6. /\ late' \in Seq(SUBSET Nat) /\ Len(late') = Web!Now + 1
      /\ (\A n \in 1 .. Web!Now : late'[n] = late[n]) /\ late'[Web!Now + 1] = l
  BY Appended DEF TypeInv, Grows
<1>7. /\ worker' \in Seq(Workers \cup {Web!Nobody}) /\ Len(worker') = Web!Now + 1
      /\ (\A n \in 1 .. Web!Now : worker'[n] = worker[n]) /\ worker'[Web!Now + 1] = w
  BY Appended DEF TypeInv, Grows
<1> QED
  BY <1>2, <1>3, <1>4, <1>5, <1>6, <1>7 DEF Web!Now

\* Whatever the new request is, it disturbs nothing that the properties say of the others.
LEMMA GrowsKeeps ==
    ASSUME Inv, NEW r \in Web!Requests, NEW c \in Seq(Packets), NEW x \in Outcomes, NEW l \in SUBSET Nat,
           NEW w \in Workers \cup {Web!Nobody}, Grows(r, c, x, l, w),
           \A i \in DOMAIN c : c[i].of = Web!Now + 1 /\ c[i].from = w,
           x = "ok" => Web!Only(r, "DISCONNECT"),
           cache' = cache \/ \E t \in Threads : cache' = Web!Forget(t),
           queue' = queue \/ queue' = << >>
    PROVE  PacketInv' /\ Web!OwnAnswers' /\ WholePlain' /\ Web!CachedIsConnected'
<1>1. /\ Web!Now' = Web!Now + 1 /\ Web!Now \in Nat
      /\ DOMAIN req = 1 .. Web!Now /\ DOMAIN coming = 1 .. Web!Now /\ DOMAIN got = 1 .. Web!Now
           /\ DOMAIN worker = 1 .. Web!Now
      /\ DOMAIN req' = 1 .. Web!Now + 1 /\ DOMAIN coming' = 1 .. Web!Now + 1 /\ DOMAIN got' = 1 .. Web!Now + 1
      /\ DOMAIN worker' = 1 .. Web!Now + 1
  <2>1. /\ Web!Now' = Web!Now + 1 /\ Web!Now \in Nat
        /\ DOMAIN req = 1 .. Web!Now /\ DOMAIN coming = 1 .. Web!Now /\ DOMAIN got = 1 .. Web!Now
             /\ DOMAIN worker = 1 .. Web!Now
    BY GrowsFacts, Domains DEF Inv
  <2>2. /\ req' \in Seq(Web!Requests) /\ coming' \in Seq(Seq(Packets)) /\ got' \in Seq(Seq(Packets))
        /\ worker' \in Seq(Workers \cup {Web!Nobody})
        /\ Len(coming') = Web!Now + 1 /\ Len(got') = Web!Now + 1 /\ Len(worker') = Web!Now + 1
    BY GrowsFacts DEF Inv
  <2>3. Len(req') = Web!Now + 1
    BY <2>1 DEF Web!Now
  <2> QED
    BY <2>1, <2>2, <2>3
<1>2. \A n \in 1 .. Web!Now : /\ req'[n] = req[n] /\ coming'[n] = coming[n] /\ got'[n] = got[n]
                          /\ ended'[n] = ended[n] /\ late'[n] = late[n] /\ worker'[n] = worker[n]
  BY GrowsFacts DEF Inv
<1>3. /\ req'[Web!Now + 1] = r /\ coming'[Web!Now + 1] = c /\ got'[Web!Now + 1] = << >>
      /\ ended'[Web!Now + 1] = x /\ late'[Web!Now + 1] = l /\ worker'[Web!Now + 1] = w
  BY GrowsFacts DEF Inv
<1>4. PacketInv'
  <2>1. ASSUME NEW n \in DOMAIN coming', NEW i \in DOMAIN coming'[n]
        PROVE  coming'[n][i].of = n /\ coming'[n][i].from = worker'[n]
    <3>1. CASE n = Web!Now + 1
      BY <3>1, <2>1, <1>3
    <3>2. CASE n \in 1 .. Web!Now
      BY <3>2, <2>1, <1>1, <1>2 DEF Inv, PacketInv
    <3> QED
      BY <3>1, <3>2, <1>1
  <2>2. ASSUME NEW i \in DOMAIN queue'
        PROVE  queue'[i].of \in DOMAIN worker' /\ queue'[i].from = worker'[queue'[i].of]
    <3>1. queue' = queue
      BY <2>2
    <3>2. queue[i].of \in 1 .. Web!Now /\ queue[i].from = worker[queue[i].of]
      BY <2>2, <3>1, <1>1 DEF Inv, PacketInv
    <3> QED
      BY <3>1, <3>2, <1>1, <1>2
  <2> QED
    BY <2>1, <2>2 DEF PacketInv
<1>5. Web!OwnAnswers'
  <2>1. ASSUME NEW n \in DOMAIN got', NEW i \in DOMAIN got'[n]
        PROVE  got'[n][i].of \in {n} \cup late'[n]
    <3>1. n \in 1 .. Web!Now
      BY <2>1, <1>1, <1>3
    <3> QED
      BY <3>1, <2>1, <1>1, <1>2 DEF Inv, Web!OwnAnswers
  <2> QED
    BY <2>1 DEF Web!OwnAnswers
<1>6. WholePlain'
  <2>1. ASSUME NEW n \in DOMAIN got', ended'[n] = "ok", late'[n] = {}, req'[n].via = "translator",
               Plain(req'[n])
        PROVE  Web!Only(req'[n], "DISCONNECT")
                 \/ (coming'[n] = << >> /\ got'[n] # << >> /\ Web!IsLast(Web!Last(got'[n])))
    <3>1. CASE n = Web!Now + 1
      BY <3>1, <2>1, <1>3
    <3>2. CASE n \in 1 .. Web!Now
      BY <3>2, <2>1, <1>1, <1>2 DEF Inv, WholePlain, Web!Alone
    <3> QED
      BY <3>1, <3>2, <1>1, <2>1
  <2> QED
    BY <2>1 DEF WholePlain, Web!Alone
<1>7. Web!CachedIsConnected'
  <2>1. ASSUME NEW t \in Threads, cache'[t] # Web!NoSession
        PROVE  \E n \in DOMAIN req' : /\ Web!Has(req'[n], "CONNECT") /\ req'[n].thread = t
                                      /\ req'[n].browser = cache'[t].ip
                                      /\ worker'[n] = cache'[t].jid \/ ~(late'[n] = {})
    <3>1. cache'[t] = cache[t]
      BY <2>1 DEF Web!Forget, Inv, TypeInv
    <3>2. PICK n \in DOMAIN req : /\ Web!Has(req[n], "CONNECT") /\ req[n].thread = t
                                  /\ req[n].browser = cache[t].ip
                                  /\ worker[n] = cache[t].jid \/ ~Web!Alone(n)
      BY <2>1, <3>1 DEF Inv, Web!CachedIsConnected
    <3>3. n \in 1 .. Web!Now /\ n \in DOMAIN req'
      BY <3>2, <1>1
    <3> QED
      BY <3>1, <3>2, <3>3, <1>2 DEF Web!Alone
  <2> QED
    BY <2>1 DEF Web!CachedIsConnected, Web!Alone
<1> QED
  BY <1>4, <1>5, <1>6, <1>7

-----------------------------------------------------------------------------
(* The actions.                                                            *)

LEMMA NothingComes == << >> \in Seq(Packets) /\ DOMAIN << >> = {} /\ Ended1(<< >>)
  BY DEF Ended1

LEMMA OutstandingIs == ASSUME TypeInv PROVE Web!Outstanding \in SUBSET Nat
  /\ Web!Outstanding \subseteq 1 .. Web!Now
  BY Domains DEF Web!Outstanding

LEMMA ForgetTyped == ASSUME TypeInv, NEW t PROVE Web!Forget(t) \in [Threads -> Cached1]
  BY DEF TypeInv, Web!Forget, Cached1, Web!NoSession

LEMMA NothingKept == ASSUME kept' = << >> PROVE KeptInv'
  BY NothingComes DEF KeptInv

LEMMA RefuseStep ==
    ASSUME Inv, NEW r \in Web!Requests, Web!Refuse(r)
    PROVE  Inv'
<1>1. Grows(r, << >>, "bad request", {}, Web!Nobody) /\ at = "idle"
      /\ UNCHANGED <<at, complete, queue, cache, kept, up>>
  BY DEF Web!Refuse, Grows
<1>2. TypeInv'
  BY <1>1, GrowsFacts, NothingComes DEF Inv, TypeInv, Outcomes
<1>3. PacketInv' /\ Web!OwnAnswers' /\ WholePlain' /\ Web!CachedIsConnected'
  BY <1>1, GrowsKeeps, NothingComes DEF Outcomes
<1>4. AtInv' /\ OwnInv' /\ LastInv'
  BY <1>1 DEF AtInv, OwnInv, LastInv
<1>5. KeptInv'
  BY <1>1, NothingKept DEF Inv, KeptInv
<1> QED
  BY <1>2, <1>3, <1>4, <1>5 DEF Inv

LEMMA TranslateStep ==
    ASSUME Web!GatewayAssumption, Inv, NEW r \in Web!Requests, Web!Translate(r)
    PROVE  Inv'
<1>1. PICK w \in Workers, c \in Seq(Packets) :
        /\ worker' = Append(worker, w) /\ coming' = Append(coming, c)
        /\ \A i \in DOMAIN c : c[i].of = Web!Now + 1 /\ c[i].from = w
        /\ Plain(r) => Ended1(c)
  BY SentLemma, RequestIs DEF Web!Translate, Inv
<1> DEFINE x == IF Web!Only(r, "DISCONNECT") THEN "ok" ELSE "open"
<1>2. Grows(r, c, x, Web!Outstanding, w)
  BY <1>1 DEF Web!Translate, Grows
<1>3. x \in Outcomes /\ (x = "ok" => Web!Only(r, "DISCONNECT")) /\ (~Web!Only(r, "DISCONNECT") => x = "open")
  BY DEF Outcomes
<1> HIDE DEF x
<1>4. /\ queue' = << >> /\ complete' = FALSE /\ up' = up /\ kept' = kept
      /\ at = "idle" /\ r.via = "translator"
      /\ IF Web!Only(r, "DISCONNECT") THEN cache' = Web!Forget(r.thread) /\ at' = at
         ELSE cache' = cache /\ at' = "translator"
  BY DEF Web!Translate, Web!Drained
<1>5. Web!Outstanding \in SUBSET Nat
  BY OutstandingIs DEF Inv
<1>6. TypeInv'
  <2>1. /\ req' \in Seq(Web!Requests) /\ coming' \in Seq(Seq(Packets)) /\ got' \in Seq(Seq(Packets))
        /\ ended' \in Seq(Outcomes) /\ late' \in Seq(SUBSET Nat) /\ worker' \in Seq(Workers \cup {Web!Nobody})
        /\ Web!Now' = Web!Now + 1
        /\ Len(coming') = Web!Now + 1 /\ Len(got') = Web!Now + 1 /\ Len(ended') = Web!Now + 1
        /\ Len(late') = Web!Now + 1 /\ Len(worker') = Web!Now + 1
    BY <1>2, <1>3, <1>5, GrowsFacts DEF Inv
  <2>2. cache' \in [Threads -> Cached1]
    BY <1>4, ForgetTyped DEF Inv, TypeInv
  <2>3. queue' \in Seq(Packets) /\ at' \in {"idle", "translator", "gateway"} /\ complete' \in BOOLEAN
        /\ up' \in BOOLEAN
    BY <1>4, NothingComes DEF Inv, TypeInv
  <2> QED
    BY <2>1, <2>2, <2>3 DEF TypeInv
<1>7. PacketInv' /\ Web!OwnAnswers' /\ WholePlain' /\ Web!CachedIsConnected'
  <2>1. cache' = cache \/ \E t \in Threads : cache' = Web!Forget(t)
    BY <1>4, RequestIs
  <2> QED
    BY <1>1, <1>2, <1>3, <1>4, <1>5, <2>1, GrowsKeeps
<1>8. /\ Web!Now' = Web!Now + 1 /\ Web!Now \in Nat /\ req'[Web!Now + 1] = r
           /\ coming'[Web!Now + 1] = c /\ ended'[Web!Now + 1] = x
      /\ late'[Web!Now + 1] = Web!Outstanding /\ (\A n \in 1 .. Web!Now : coming'[n] = coming[n])
      /\ DOMAIN coming = 1 .. Web!Now /\ DOMAIN coming' = 1 .. Web!Now + 1
  <2>1. DOMAIN coming' = 1 .. Web!Now + 1
    BY <1>2, <1>3, <1>5, GrowsFacts, <1>6, Domains DEF Inv
  <2> QED
    BY <1>2, <1>3, <1>5, <2>1, GrowsFacts, Domains DEF Inv
<1>9. AtInv'
  BY <1>3, <1>4, <1>8 DEF AtInv
<1>10. OwnInv'
  <2>1. ASSUME NEW n \in DOMAIN coming', coming'[n] # << >> PROVE n \in {Web!Now + 1} \cup Web!Outstanding
    BY <2>1, <1>8 DEF Web!Outstanding
  <2>2. DOMAIN queue' = {}
    BY <1>4
  <2> QED
    BY <2>1, <2>2, <1>8 DEF OwnInv
<1>11. LastInv'
  BY <1>1, <1>4, <1>8, NothingComes DEF LastInv
<1>12. KeptInv'
  BY <1>4, NothingKept DEF Inv, KeptInv
<1> QED
  BY <1>6, <1>7, <1>9, <1>10, <1>11, <1>12 DEF Inv

LEMMA CallStep ==
    ASSUME Web!GatewayAssumption, Inv, NEW r \in Web!Requests, Web!Call(r)
    PROVE  Inv'
<1>1. PICK w \in Workers, c \in Seq(Packets) :
        /\ worker' = Append(worker, w) /\ coming' = Append(coming, c)
        /\ \A i \in DOMAIN c : c[i].of = Web!Now + 1 /\ c[i].from = w
        /\ Plain(r) => Ended1(c)
  BY SentLemma, RequestIs DEF Web!Call, Inv
<1> DEFINE x == IF up THEN "open" ELSE "exit"
<1>2. Grows(r, c, x, Web!Outstanding, w)
  BY <1>1 DEF Web!Call, Grows
<1>3. x \in Outcomes /\ x # "ok" /\ (up => x = "open")
  BY DEF Outcomes
<1> HIDE DEF x
<1>4. /\ queue' = << >> /\ complete' = FALSE /\ up' = TRUE /\ at = "idle" /\ r.via = "gateway" /\ kept' = kept
      /\ cache' = cache /\ at' = IF up THEN "gateway" ELSE at
  BY DEF Web!Call
<1>5. Web!Outstanding \in SUBSET Nat
  BY OutstandingIs DEF Inv
<1>6. TypeInv'
  <2>1. /\ req' \in Seq(Web!Requests) /\ coming' \in Seq(Seq(Packets)) /\ got' \in Seq(Seq(Packets))
        /\ ended' \in Seq(Outcomes) /\ late' \in Seq(SUBSET Nat) /\ worker' \in Seq(Workers \cup {Web!Nobody})
        /\ Web!Now' = Web!Now + 1
        /\ Len(coming') = Web!Now + 1 /\ Len(got') = Web!Now + 1 /\ Len(ended') = Web!Now + 1
        /\ Len(late') = Web!Now + 1 /\ Len(worker') = Web!Now + 1
    BY <1>2, <1>3, <1>5, GrowsFacts DEF Inv
  <2>2. cache' \in [Threads -> Cached1]
    BY <1>4 DEF Inv, TypeInv
  <2>3. queue' \in Seq(Packets) /\ at' \in {"idle", "translator", "gateway"} /\ complete' \in BOOLEAN
        /\ up' \in BOOLEAN
    BY <1>4, NothingComes DEF Inv, TypeInv
  <2> QED
    BY <2>1, <2>2, <2>3 DEF TypeInv
<1>7. PacketInv' /\ Web!OwnAnswers' /\ WholePlain' /\ Web!CachedIsConnected'
  BY <1>1, <1>2, <1>3, <1>4, <1>5, GrowsKeeps
<1>8. /\ Web!Now' = Web!Now + 1 /\ Web!Now \in Nat /\ req'[Web!Now + 1] = r
           /\ coming'[Web!Now + 1] = c /\ ended'[Web!Now + 1] = x
      /\ late'[Web!Now + 1] = Web!Outstanding /\ (\A n \in 1 .. Web!Now : coming'[n] = coming[n])
      /\ DOMAIN coming = 1 .. Web!Now /\ DOMAIN coming' = 1 .. Web!Now + 1
  <2>1. DOMAIN coming' = 1 .. Web!Now + 1
    BY <1>2, <1>3, <1>5, GrowsFacts, <1>6, Domains DEF Inv
  <2> QED
    BY <1>2, <1>3, <1>5, <2>1, GrowsFacts, Domains DEF Inv
<1>9. AtInv'
  BY <1>3, <1>4, <1>8 DEF AtInv
<1>10. OwnInv'
  <2>1. ASSUME NEW n \in DOMAIN coming', coming'[n] # << >> PROVE n \in {Web!Now + 1} \cup Web!Outstanding
    BY <2>1, <1>8 DEF Web!Outstanding
  <2>2. DOMAIN queue' = {}
    BY <1>4
  <2> QED
    BY <2>1, <2>2, <1>8 DEF OwnInv
<1>11. LastInv'
  BY <1>4 DEF LastInv
<1>12. KeptInv'
  BY <1>4, NothingKept DEF Inv, KeptInv
<1> QED
  BY <1>6, <1>7, <1>9, <1>10, <1>11, <1>12 DEF Inv

LEMMA ArriveStep ==
    ASSUME Inv, NEW n \in DOMAIN coming, Web!Arrive(n)
    PROVE  Inv'
<1> DEFINE p == Head(coming[n])
           c == Tail(coming[n])
<1>1. /\ coming[n] # << >> /\ queue' = Append(queue, p) /\ coming' = [coming EXCEPT ![n] = c]
      /\ UNCHANGED <<req, at, complete, cache, kept, got, ended, late, worker, up>>
  BY DEF Web!Arrive
<1>2. Web!Now' = Web!Now /\ Web!Now \in Nat /\ DOMAIN coming = 1 .. Web!Now
        /\ DOMAIN worker = 1 .. Web!Now /\ n \in 1 .. Web!Now
      /\ DOMAIN got = 1 .. Web!Now
  BY <1>1, Domains DEF Inv, Web!Now
<1>3. /\ p \in Packets /\ p = coming[n][1] /\ 1 \in DOMAIN coming[n]
      /\ c \in Seq(Packets) /\ Len(c) = Len(coming[n]) - 1 /\ Len(coming[n]) \in Nat \ {0}
      /\ DOMAIN c = 1 .. Len(c) /\ \A i \in DOMAIN c : c[i] = coming[n][i + 1] /\ i + 1 \in DOMAIN coming[n]
  <2>1. coming[n] \in Seq(Packets)
    BY DEF Inv, TypeInv
  <2> QED
    BY <2>1, <1>1, Taken
<1>4. /\ coming' \in Seq(Seq(Packets)) /\ Len(coming') = Len(coming) /\ DOMAIN coming' = DOMAIN coming
      /\ coming'[n] = c /\ \A m \in DOMAIN coming : m # n => coming'[m] = coming[m]
  BY <1>1, <1>3, Put DEF Inv, TypeInv
<1>5. /\ queue' \in Seq(Packets) /\ Len(queue') = Len(queue) + 1 /\ Len(queue) \in Nat
      /\ DOMAIN queue = 1 .. Len(queue) /\ DOMAIN queue' = 1 .. Len(queue) + 1
      /\ \A i \in 1 .. Len(queue) : queue'[i] = queue[i]
      /\ queue'[Len(queue) + 1] = p
  BY <1>1, <1>3, Appended DEF Inv, TypeInv
<1>6. p.of = n /\ p.from = worker[n]
  BY <1>3 DEF Inv, PacketInv
<1> HIDE DEF p, c
<1>7. TypeInv'
  BY <1>1, <1>2, <1>4, <1>5 DEF Inv, TypeInv
<1>8. PacketInv'
  <2>1. ASSUME NEW m \in DOMAIN coming', NEW i \in DOMAIN coming'[m]
        PROVE  coming'[m][i].of = m /\ coming'[m][i].from = worker[m]
    <3>1. CASE m = n
      BY <3>1, <2>1, <1>3, <1>4 DEF Inv, PacketInv
    <3>2. CASE m # n
      BY <3>2, <2>1, <1>4 DEF Inv, PacketInv
    <3> QED
      BY <3>1, <3>2
  <2>2. ASSUME NEW i \in DOMAIN queue' PROVE queue'[i].of \in DOMAIN worker
                 /\ queue'[i].from = worker[queue'[i].of]
    <3>1. CASE i = Len(queue) + 1
      BY <3>1, <1>2, <1>5, <1>6
    <3>2. CASE i \in 1 .. Len(queue)
      BY <3>2, <1>5 DEF Inv, PacketInv
    <3> QED
      BY <3>1, <3>2, <2>2, <1>5
  <2> QED
    BY <2>1, <2>2, <1>1 DEF PacketInv
<1>9. OwnInv'
  <2>1. SUFFICES ASSUME at # "idle" PROVE OwnInv'
    BY <1>1 DEF OwnInv
  <2>2. n \in {Web!Now} \cup late[Web!Now]
    BY <2>1, <1>1 DEF Inv, OwnInv
  <2>3. ASSUME NEW m \in DOMAIN coming', coming'[m] # << >> PROVE m \in {Web!Now} \cup late[Web!Now]
    BY <2>1, <2>2, <2>3, <1>4 DEF Inv, OwnInv
  <2>4. ASSUME NEW i \in DOMAIN queue' PROVE queue'[i].of \in {Web!Now} \cup late[Web!Now]
    <3>1. CASE i = Len(queue) + 1
      BY <3>1, <2>2, <1>5, <1>6
    <3>2. CASE i \in 1 .. Len(queue)
      BY <3>2, <2>1, <1>5 DEF Inv, OwnInv
    <3> QED
      BY <3>1, <3>2, <2>4, <1>5
  <2> QED
    BY <2>3, <2>4, <1>1, <1>2 DEF OwnInv
<1>10. LastInv'
  <2>1. SUFFICES ASSUME at = "translator", late[Web!Now] = {}, Plain(req[Web!Now]) PROVE LastInv'
    BY <1>1, <1>2 DEF LastInv, Web!Alone, Web!Has, Plain
  <2>2. /\ Ended1(coming[Web!Now]) /\ Ended1(queue)
        /\ \A i \in DOMAIN queue : Web!IsLast(queue[i]) => coming[Web!Now] = << >>
    BY <2>1 DEF Inv, LastInv, Web!Alone
  <2>3. n = Web!Now
    BY <2>1, <1>1 DEF Inv, OwnInv
  <2>4. \A i \in DOMAIN queue : ~Web!IsLast(queue[i])
    BY <2>2, <2>3, <1>1
  <2>5. Ended1(c)
    <3>1. SUFFICES ASSUME NEW i \in DOMAIN c, Web!IsLast(c[i]) PROVE i = Len(c)
      BY DEF Ended1
    <3>2. i + 1 = Len(coming[n]) /\ i \in Nat
      BY <3>1, <2>2, <2>3, <1>3 DEF Ended1
    <3> QED
      BY <3>2, <1>3
  <2>6. Web!IsLast(p) => c = << >>
    <3>1. SUFFICES ASSUME Web!IsLast(p) PROVE c = << >>
      OBVIOUS
    <3>2. Len(coming[n]) = 1
      BY <3>1, <2>2, <2>3, <1>3 DEF Ended1
    <3> QED
      BY <3>2, <1>3
  <2>7. \A i \in DOMAIN queue' : Web!IsLast(queue'[i]) => i = Len(queue) + 1 /\ c = << >>
    BY <2>4, <2>6, <1>5
  <2>8. Ended1(queue') /\ Ended1(coming'[Web!Now])
    BY <2>3, <2>5, <2>7, <1>4, <1>5 DEF Ended1
  <2> QED
    BY <2>3, <2>7, <2>8, <1>1, <1>2, <1>4 DEF LastInv
<1>11. AtInv'
  BY <1>1, <1>2 DEF AtInv, Inv
<1>12. Web!OwnAnswers' /\ Web!CachedIsConnected'
  BY <1>1 DEF Inv, Web!OwnAnswers, Web!CachedIsConnected, Web!Alone, Web!Has, Plain
<1>13. WholePlain'
  <2>1. ASSUME NEW m \in DOMAIN got, ended[m] = "ok", late[m] = {}, req[m].via = "translator",
               Plain(req[m]), ~Web!Only(req[m], "DISCONNECT")
        PROVE  coming'[m] = << >> /\ got[m] # << >> /\ Web!IsLast(Web!Last(got[m]))
    <3>1. coming[m] = << >> /\ got[m] # << >> /\ Web!IsLast(Web!Last(got[m]))
      BY <2>1 DEF Inv, WholePlain, Web!Alone
    <3>2. m # n
      BY <3>1, <1>1
    <3> QED
      BY <3>1, <3>2, <1>2, <1>4
  <2> QED
    BY <2>1, <1>1 DEF WholePlain, Web!Alone, Web!Has, Plain, Web!Only
<1>14. KeptInv'
  BY <1>1, <1>2 DEF Inv, KeptInv
<1> QED
  BY <1>7, <1>8, <1>9, <1>10, <1>11, <1>12, <1>13, <1>14 DEF Inv

LEMMA DisconnectedStep ==
    ASSUME Inv, Web!Disconnected
    PROVE  Inv'
<1>1. /\ coming' = [n \in DOMAIN coming |-> << >>] /\ up' = FALSE
      /\ UNCHANGED <<req, at, complete, queue, cache, kept, got, ended, late, worker>>
  BY DEF Web!Disconnected
<1>2. Web!Now' = Web!Now /\ Web!Now \in Nat /\ DOMAIN coming = 1 .. Web!Now
        /\ DOMAIN got = 1 .. Web!Now /\ Len(coming) = Web!Now
  BY <1>1, Domains DEF Inv, Web!Now, TypeInv
<1>3. /\ DOMAIN coming' = 1 .. Web!Now /\ (\A n \in 1 .. Web!Now : coming'[n] = << >>)
      /\ coming' \in Seq(Seq(Packets)) /\ Len(coming') = Web!Now
  <2>1. coming' \in [1 .. Web!Now -> Seq(Packets)]
    BY <1>1, <1>2, NothingComes
  <2> QED
    BY <2>1, <1>1, <1>2
<1>4. TypeInv'
  BY <1>1, <1>2, <1>3 DEF Inv, TypeInv
<1>5. PacketInv' /\ OwnInv'
  BY <1>1, <1>2, <1>3 DEF Inv, PacketInv, OwnInv
<1>6. AtInv' /\ Web!OwnAnswers' /\ Web!CachedIsConnected'
  <2>1. AtInv'
    BY <1>1, <1>2 DEF Inv, AtInv
  <2> QED
    BY <2>1, <1>1 DEF Inv, Web!OwnAnswers, Web!CachedIsConnected, Web!Alone, Web!Has, Plain
<1>7. LastInv'
  <2>1. SUFFICES ASSUME at = "translator", late[Web!Now] = {}, Plain(req[Web!Now]) PROVE LastInv'
    BY <1>1, <1>2 DEF LastInv, Web!Alone, Web!Has, Plain
  <2>2. Web!Now \in 1 .. Web!Now
    BY <2>1, <1>2 DEF Inv, AtInv
  <2>3. Ended1(queue)
    BY <2>1 DEF Inv, LastInv, Web!Alone
  <2> QED
    BY <2>2, <2>3, <1>1, <1>2, <1>3, NothingComes DEF LastInv
<1>8. WholePlain'
  BY <1>1, <1>2, <1>3 DEF Inv, WholePlain, Web!Alone, Web!Has, Plain, Web!Only
<1>9. KeptInv'
  BY <1>1, <1>2 DEF Inv, KeptInv
<1> QED
  BY <1>4, <1>5, <1>6, <1>7, <1>8, <1>9 DEF Inv

\* What is given to the browser, and how its request stands.
Gives(g, e) ==
    /\ got' = [got EXCEPT ![Web!Now] = g] /\ ended' = [ended EXCEPT ![Web!Now] = e]
    /\ UNCHANGED <<req, coming, late, worker, up>>

LEMMA Same == ASSUME NEW S, NEW s \in Seq(S), NEW n \in DOMAIN s PROVE [s EXCEPT ![n] = s[n]] = s
  OBVIOUS

\* A request that waits: the last one.
LEMMA Waiting ==
    ASSUME Inv, at # "idle"
    PROVE  /\ Web!Now \in DOMAIN got /\ Web!Now \in DOMAIN ended /\ Web!Now \in DOMAIN req
                /\ Web!Now \in DOMAIN coming
           /\ Web!Now \in DOMAIN late /\ Web!Now \in Nat
           /\ got[Web!Now] \in Seq(Packets) /\ ended[Web!Now] = "open"
                /\ req[Web!Now] \in Web!Requests /\ req[Web!Now].via = at
<1>1. Web!Now \in 1 .. Web!Now
  BY Domains DEF Inv, AtInv
<1>2. /\ Web!Now \in DOMAIN got /\ Web!Now \in DOMAIN ended /\ Web!Now \in DOMAIN req
           /\ Web!Now \in DOMAIN coming
      /\ Web!Now \in DOMAIN late /\ Web!Now \in Nat
  BY <1>1, Domains DEF Inv
<1>3. got[Web!Now] \in Seq(Packets) /\ req[Web!Now] \in Web!Requests
  BY <1>2 DEF Inv, TypeInv
<1> QED
  BY <1>2, <1>3 DEF Inv, AtInv

LEMMA GivesKeeps ==
    ASSUME Inv, at # "idle", NEW g \in Seq(Packets), NEW e \in Outcomes, Gives(g, e),
           \A i \in DOMAIN g : g[i].of \in {Web!Now} \cup late[Web!Now],
           e = "ok" /\ late[Web!Now] = {} /\ req[Web!Now].via = "translator" /\ Plain(req[Web!Now])
             => coming[Web!Now] = << >> /\ g # << >> /\ Web!IsLast(Web!Last(g))
    PROVE  /\ got' \in Seq(Seq(Packets)) /\ ended' \in Seq(Outcomes)
           /\ Len(got') = Web!Now /\ Len(ended') = Web!Now /\ Web!Now' = Web!Now
                /\ got'[Web!Now] = g /\ ended'[Web!Now] = e
           /\ Web!OwnAnswers' /\ WholePlain'
<1>1. Web!Now \in DOMAIN got /\ Web!Now \in DOMAIN ended
  BY Waiting
<1>2. /\ got' \in Seq(Seq(Packets)) /\ Len(got') = Web!Now /\ DOMAIN got' = DOMAIN got /\ got'[Web!Now] = g
      /\ \A n \in DOMAIN got : n # Web!Now => got'[n] = got[n]
  BY <1>1, Put DEF Gives, Inv, TypeInv
<1>3. /\ ended' \in Seq(Outcomes) /\ Len(ended') = Web!Now /\ DOMAIN ended' = DOMAIN ended
           /\ ended'[Web!Now] = e
      /\ \A n \in DOMAIN ended : n # Web!Now => ended'[n] = ended[n]
  BY <1>1, Put DEF Gives, Inv, TypeInv
<1>4. UNCHANGED <<req, coming, late, worker>> /\ Web!Now' = Web!Now
  BY DEF Gives, Web!Now
<1>5. Web!OwnAnswers'
  BY <1>2, <1>4 DEF Inv, Web!OwnAnswers
<1>6. WholePlain'
  <2>1. ASSUME NEW n \in DOMAIN got', ended'[n] = "ok", late[n] = {}, req[n].via = "translator",
               Plain(req[n]), ~Web!Only(req[n], "DISCONNECT")
        PROVE  coming[n] = << >> /\ got'[n] # << >> /\ Web!IsLast(Web!Last(got'[n]))
    <3>1. CASE n = Web!Now
      BY <3>1, <2>1, <1>2, <1>3
    <3>2. CASE n # Web!Now
      <4>1. n \in DOMAIN got /\ n \in DOMAIN ended
        BY <1>2, Domains DEF Inv
      <4> QED
        BY <3>2, <4>1, <2>1, <1>2, <1>3 DEF Inv, WholePlain, Web!Alone
    <3> QED
      BY <3>1, <3>2
  <2> QED
    BY <2>1, <1>4 DEF WholePlain, Web!Alone, Web!Has, Plain, Web!Only
<1> QED
  BY <1>2, <1>3, <1>4, <1>5, <1>6

\* What is left in the queue is as it was.
LEMMA QueueKeeps ==
    ASSUME Inv, queue # << >>, queue' = Tail(queue), UNCHANGED <<req, coming, late, worker>>
    PROVE  /\ queue' \in Seq(Packets) /\ PacketInv'
           /\ at # "idle" /\ at' # "idle" => OwnInv'
           /\ at = "translator" /\ at' = "translator" => LastInv'
           /\ Head(queue) \in Packets /\ Head(queue) = queue[1] /\ 1 \in DOMAIN queue
           /\ Len(queue) \in Nat
<1>1. /\ Head(queue) \in Packets /\ Head(queue) = queue[1] /\ Tail(queue) \in Seq(Packets)
      /\ Len(queue) \in Nat \ {0} /\ Len(Tail(queue)) = Len(queue) - 1 /\ 1 \in DOMAIN queue
      /\ \A i \in 1 .. Len(queue) - 1 : Tail(queue)[i] = queue[i + 1] /\ i + 1 \in DOMAIN queue
      /\ DOMAIN Tail(queue) = 1 .. Len(queue) - 1
  BY Taken DEF Inv, TypeInv
<1>2. Web!Now' = Web!Now
  BY DEF Web!Now
<1>3. PacketInv'
  BY <1>1 DEF Inv, PacketInv
<1>4. ASSUME at # "idle", at' # "idle" PROVE OwnInv'
  BY <1>1, <1>2, <1>4 DEF Inv, OwnInv
<1>5. ASSUME at = "translator", at' = "translator" PROVE LastInv'
  <2>1. SUFFICES ASSUME late[Web!Now] = {}, Plain(req[Web!Now]) PROVE LastInv'
    BY <1>2 DEF LastInv, Web!Alone, Web!Has, Plain
  <2>2. /\ Ended1(coming[Web!Now]) /\ Ended1(queue)
        /\ \A i \in DOMAIN queue : Web!IsLast(queue[i]) => coming[Web!Now] = << >>
    BY <2>1, <1>5 DEF Inv, LastInv, Web!Alone
  <2>3. Ended1(queue')
    <3>1. SUFFICES ASSUME NEW i \in DOMAIN queue', Web!IsLast(queue'[i]) PROVE i = Len(queue')
      BY DEF Ended1
    <3>2. i + 1 = Len(queue) /\ i \in Nat
      BY <3>1, <2>2, <1>1 DEF Ended1
    <3> QED
      BY <3>2, <1>1
  <2> QED
    BY <2>2, <2>3, <1>1, <1>2 DEF LastInv
<1> QED
  BY <1>1, <1>3, <1>4, <1>5

LEMMA TimeoutStep ==
    ASSUME Inv, Web!TranslatorTimeout \/ Web!GatewayTimeout
    PROVE  Inv'
<1>1. at # "idle" /\ at' = "idle" /\ UNCHANGED <<complete, queue, cache, up, req, coming, late, worker>>
  BY DEF Web!TranslatorTimeout, Web!GatewayTimeout, Web!Ends
<1>2. PICK e \in Outcomes : Gives(got[Web!Now], e) /\ (e = "ok" => at = "gateway")
  <2>1. got = [got EXCEPT ![Web!Now] = got[Web!Now]]
    BY <1>1, Waiting, Same DEF Inv, TypeInv
  <2>2. CASE Web!TranslatorTimeout
    <3>1. got' = got /\ ended' = [ended EXCEPT ![Web!Now] = "timeout"]
      BY <2>2 DEF Web!TranslatorTimeout, Web!Ends
    <3> QED
      BY <3>1, <2>1, <1>1 DEF Gives, Outcomes
  <2>3. CASE Web!GatewayTimeout
    <3>1. at = "gateway" /\ got' = got /\ ended' = [ended EXCEPT ![Web!Now] = "ok"]
      BY <2>3 DEF Web!GatewayTimeout, Web!Ends
    <3> QED
      BY <3>1, <2>1, <1>1 DEF Gives, Outcomes
  <2> QED
    BY <2>2, <2>3
<1>3. \A i \in DOMAIN got[Web!Now] : got[Web!Now][i].of \in {Web!Now} \cup late[Web!Now]
  BY <1>1, <1>2, Waiting DEF Inv, Web!OwnAnswers
<1>4. /\ got' \in Seq(Seq(Packets)) /\ ended' \in Seq(Outcomes)
      /\ Len(got') = Web!Now /\ Len(ended') = Web!Now /\ Web!Now' = Web!Now
      /\ Web!OwnAnswers' /\ WholePlain'
  BY <1>1, <1>2, <1>3, Waiting, GivesKeeps
<1>5. TypeInv'
  BY <1>1, <1>4 DEF Inv, TypeInv
<1>6. PacketInv' /\ AtInv' /\ OwnInv' /\ LastInv'
  BY <1>1 DEF Inv, PacketInv, AtInv, OwnInv, LastInv
<1>7. Web!CachedIsConnected'
  BY <1>1 DEF Inv, Web!CachedIsConnected, Web!Alone, Web!Has, Plain
<1>8. KeptInv'
  <2>1. kept' = << >>
    BY DEF Web!TranslatorTimeout, Web!GatewayTimeout, Inv, KeptInv
  <2> QED
    BY <2>1, NothingKept
<1> QED
  BY <1>4, <1>5, <1>6, <1>7, <1>8 DEF Inv

LEMMA GatewayReceiveStep ==
    ASSUME Inv, Web!GatewayReceive
    PROVE  Inv'
<1> DEFINE p == Head(queue)
<1>1. /\ at = "gateway" /\ queue # << >> /\ queue' = Tail(queue)
      /\ UNCHANGED <<req, complete, coming, cache, late, worker, up>>
  BY DEF Web!GatewayReceive
<1>2. /\ queue' \in Seq(Packets) /\ PacketInv' /\ (at' # "idle" => OwnInv') /\ p \in Packets
  BY <1>1, QueueKeeps
<1>3. PICK g \in Seq(Packets), e \in Outcomes :
        /\ Gives(g, e) /\ (g = got[Web!Now] \/ (g = Append(got[Web!Now], p) /\ p.of = Web!Now))
        /\ (at' = at /\ e = "open") \/ at' = "idle"
  <2>1. CASE p.of # Web!Now \/ p.last = "continue"
    <3>1. UNCHANGED <<got, ended, at>>
      BY <2>1 DEF Web!GatewayReceive
    <3>2. Gives(got[Web!Now], ended[Web!Now])
      BY <3>1, <1>1, Waiting, Same DEF Inv, TypeInv, Gives
    <3>3. got[Web!Now] \in Seq(Packets) /\ ended[Web!Now] = "open" /\ "open" \in Outcomes
      BY <1>1, Waiting DEF Outcomes
    <3>4. Gives(got[Web!Now], "open")
      BY <3>2, <3>3
    <3> QED
      BY <3>1, <3>3, <3>4
  <2>2. CASE ~(p.of # Web!Now \/ p.last = "continue")
    <3> DEFINE g == Append(got[Web!Now], p)
    <3>1. g \in Seq(Packets)
      BY <1>1, <1>2, Waiting
    <3>2. got' = [got EXCEPT ![Web!Now] = g]
      BY <2>2 DEF Web!GatewayReceive
    <3>3. CASE p.last \in {"complete", "error"}
      <4>1. ended' = [ended EXCEPT ![Web!Now] = "ok"] /\ at' = "idle"
        BY <2>2, <3>3 DEF Web!GatewayReceive, Web!Ends
      <4> QED
        BY <4>1, <3>1, <3>2, <2>2, <1>1 DEF Gives, Outcomes
    <3>4. CASE p.last = "failed"
      <4>1. ended' = [ended EXCEPT ![Web!Now] = "failed"] /\ at' = "idle"
        BY <2>2, <3>4 DEF Web!GatewayReceive, Web!Ends
      <4> QED
        BY <4>1, <3>1, <3>2, <2>2, <1>1 DEF Gives, Outcomes
    <3>5. CASE p.last \notin {"complete", "error", "failed"}
      <4>1. UNCHANGED <<ended, at>>
        BY <2>2, <3>5 DEF Web!GatewayReceive
      <4>2. ended' = [ended EXCEPT ![Web!Now] = "open"]
        BY <4>1, <1>1, Waiting, Same DEF Inv, TypeInv
      <4> QED
        BY <4>1, <4>2, <3>1, <3>2, <2>2, <1>1 DEF Gives, Outcomes
    <3> QED
      BY <3>3, <3>4, <3>5
  <2> QED
    BY <2>1, <2>2
<1>4. \A i \in DOMAIN g : g[i].of \in {Web!Now} \cup late[Web!Now]
  <2>1. \A i \in DOMAIN got[Web!Now] : got[Web!Now][i].of \in {Web!Now} \cup late[Web!Now]
    BY <1>1, Waiting DEF Inv, Web!OwnAnswers
  <2>2. CASE g = Append(got[Web!Now], p) /\ p.of = Web!Now
    BY <2>1, <2>2, <1>1, <1>2, Waiting, Appended
  <2> QED
    BY <2>1, <2>2, <1>3
<1> HIDE DEF p
<1>5. req[Web!Now].via = "gateway"
  BY <1>1, Waiting
<1>6. /\ got' \in Seq(Seq(Packets)) /\ ended' \in Seq(Outcomes)
      /\ Len(got') = Web!Now /\ Len(ended') = Web!Now /\ Web!Now' = Web!Now /\ ended'[Web!Now] = e
      /\ Web!OwnAnswers' /\ WholePlain'
  BY <1>1, <1>3, <1>4, <1>5, GivesKeeps
<1>7. TypeInv'
  BY <1>1, <1>2, <1>3, <1>6 DEF Inv, TypeInv
<1>8. AtInv'
  BY <1>1, <1>3, <1>6 DEF Inv, AtInv
<1>9. OwnInv' /\ LastInv'
  BY <1>1, <1>2, <1>3 DEF OwnInv, LastInv
<1>10. Web!CachedIsConnected'
  BY <1>1 DEF Inv, Web!CachedIsConnected, Web!Alone, Web!Has, Plain
<1>11. KeptInv'
  BY <1>1, NothingKept DEF Web!GatewayReceive, Inv, KeptInv
<1> QED
  BY <1>2, <1>6, <1>7, <1>8, <1>9, <1>10, <1>11 DEF Inv

\* The browser of a translated request gets a packet.
LEMMA PassStep ==
    ASSUME Inv, Web!TranslatorReceive, Web!Pass(Head(queue))
    PROVE  Inv'
<1> DEFINE p == Head(queue)
           r == req[Web!Now]
           over == Web!IsLast(p) \/ (r.multipart /\ Web!Only(r, "CONNECT"))
           new == IF r.multipart THEN <<p>>
                  ELSE IF Web!IsLast(p) \/ Web!Only(r, "CONNECT") THEN Append(kept, p) ELSE << >>
           g == got[Web!Now] \o new
           e == IF over THEN "ok" ELSE "open"
<1>1. /\ at = "translator" /\ queue # << >> /\ queue' = Tail(queue)
      /\ UNCHANGED <<req, coming, late, worker, up>>
  BY DEF Web!TranslatorReceive
<1>2. /\ queue' \in Seq(Packets) /\ PacketInv' /\ (at' = "translator" => OwnInv' /\ LastInv') /\ p \in Packets
      /\ p = queue[1] /\ 1 \in DOMAIN queue /\ Len(queue) \in Nat
  BY <1>1, QueueKeeps
<1>3. /\ Web!Now \in DOMAIN got /\ Web!Now \in DOMAIN req /\ got[Web!Now] \in Seq(Packets)
           /\ ended[Web!Now] = "open"
      /\ r \in Web!Requests /\ r.via = "translator" /\ Web!Now \in DOMAIN ended /\ Web!Now \in Nat
  BY <1>1, Waiting
<1>4. /\ got' = [got EXCEPT ![Web!Now] = g] /\ complete' = Web!IsLast(p)
      /\ kept' = IF over \/ r.multipart THEN << >> ELSE Append(kept, p)
  BY DEF Web!Pass
<1>5. /\ cache' = IF over /\ Web!Has(r, "DISCONNECT") THEN [Web!Cached(r, p) EXCEPT ![r.thread] =
           Web!NoSession]
                  ELSE Web!Cached(r, p)
      /\ IF over THEN Web!Ends("ok") ELSE UNCHANGED <<ended, at>>
  BY DEF Web!Pass
<1>6. /\ ended' = [ended EXCEPT ![Web!Now] = e] /\ at' = IF over THEN "idle" ELSE at
      /\ e \in Outcomes
  <2>1. CASE over
    BY <2>1, <1>5 DEF Web!Ends, Outcomes
  <2>2. CASE ~over
    BY <2>2, <1>5, <1>3, Same DEF Inv, TypeInv, Outcomes
  <2> QED
    BY <2>1, <2>2
<1>7. p.of \in {Web!Now} \cup late[Web!Now] /\ p.of \in DOMAIN worker /\ p.from = worker[p.of]
  BY <1>1, <1>2 DEF Inv, OwnInv, PacketInv
<1>8. /\ Append(kept, p) \in Seq(Packets) /\ Len(Append(kept, p)) \in Nat \ {0}
      /\ Append(kept, p)[Len(Append(kept, p))] = p
      /\ \A i \in DOMAIN Append(kept, p) : Append(kept, p)[i].of \in {Web!Now} \cup late[Web!Now]
  <2>1. kept \in Seq(Packets) /\ \A i \in DOMAIN kept : kept[i].of \in {Web!Now} \cup late[Web!Now]
    BY <1>1 DEF Inv, KeptInv
  <2> HIDE DEF p
  <2>2. /\ Append(kept, p) \in Seq(Packets) /\ Len(Append(kept, p)) = Len(kept) + 1 /\ Len(kept) \in Nat
        /\ DOMAIN kept = 1 .. Len(kept) /\ DOMAIN Append(kept, p) = 1 .. Len(kept) + 1
        /\ (\A i \in 1 .. Len(kept) : Append(kept, p)[i] = kept[i]) /\ Append(kept, p)[Len(kept) + 1] = p
    BY <2>1, <1>2, Appended
  <2> QED
    BY <2>1, <2>2, <1>7
\* What is written now: the packet, or what was kept and the packet, or nothing.
<1>9. /\ new \in Seq(Packets) /\ (\A i \in DOMAIN new : new[i].of \in {Web!Now} \cup late[Web!Now])
      /\ (over => Len(new) \in Nat \ {0} /\ new[Len(new)] = p)
  <2> HIDE DEF p
  <2>1. CASE r.multipart
    <3>1. new = <<p>>
      BY <2>1
    <3>2. <<p>> \in Seq(Packets) /\ Len(<<p>>) = 1 /\ DOMAIN <<p>> = {1} /\ <<p>>[1] = p
      BY <1>2
    <3> HIDE DEF new
    <3>3. \A i \in DOMAIN new : new[i] = p
      BY <3>1, <3>2
    <3>4. Len(new) = 1 /\ new[Len(new)] = p
      BY <3>1, <3>2
    <3>5. \A i \in DOMAIN new : new[i].of \in {Web!Now} \cup late[Web!Now]
      BY <3>3, <1>7
    <3> QED
      BY <3>1, <3>2, <3>4, <3>5
  <2>2. CASE ~r.multipart /\ (Web!IsLast(p) \/ Web!Only(r, "CONNECT"))
    <3>1. new = Append(kept, p)
      BY <2>2
    <3> HIDE DEF new
    <3> QED
      BY <3>1, <1>8
  <2>3. CASE ~r.multipart /\ ~(Web!IsLast(p) \/ Web!Only(r, "CONNECT"))
    <3>1. new = << >> /\ ~over
      BY <2>3
    <3> QED
      BY <3>1, NothingComes
  <2> QED
    BY <2>1, <2>2, <2>3
<1> HIDE DEF new
<1>10. /\ g \in Seq(Packets) /\ (\A i \in DOMAIN g : g[i].of \in {Web!Now} \cup late[Web!Now])
      /\ (over => g # << >> /\ Web!Last(g) = p)
  <2>1. \A i \in DOMAIN got[Web!Now] : got[Web!Now][i].of \in {Web!Now} \cup late[Web!Now]
    BY <1>3 DEF Inv, Web!OwnAnswers
  <2>2. /\ g \in Seq(Packets) /\ Len(g) = Len(got[Web!Now]) + Len(new)
        /\ Len(got[Web!Now]) \in Nat /\ Len(new) \in Nat /\ DOMAIN g = 1 .. Len(got[Web!Now]) + Len(new)
        /\ DOMAIN got[Web!Now] = 1 .. Len(got[Web!Now]) /\ DOMAIN new = 1 .. Len(new)
    BY <1>3, <1>9
  <2>3. \A i \in 1 .. Len(g) : g[i] = IF i <= Len(got[Web!Now]) THEN got[Web!Now][i]
                                      ELSE new[i - Len(got[Web!Now])]
    BY <2>2, <1>3, <1>9
  <2>4. Web!Last(g) = g[Len(g)]
    BY DEF Web!Last
  <2> HIDE DEF g, over, p
  <2>5. \A i \in DOMAIN g : g[i].of \in {Web!Now} \cup late[Web!Now]
    <3>1. SUFFICES ASSUME NEW i \in DOMAIN g PROVE g[i].of \in {Web!Now} \cup late[Web!Now]
      OBVIOUS
    <3>2. CASE i <= Len(got[Web!Now])
      BY <3>1, <3>2, <2>1, <2>2, <2>3
    <3>3. CASE ~(i <= Len(got[Web!Now]))
      <4>1. i - Len(got[Web!Now]) \in DOMAIN new /\ g[i] = new[i - Len(got[Web!Now])]
        BY <3>1, <3>3, <2>2, <2>3
      <4> QED
        BY <4>1, <1>9
    <3> QED
      BY <3>2, <3>3
  <2>6. over => g # << >> /\ g[Len(g)] = p
    <3>1. SUFFICES ASSUME over PROVE g # << >> /\ g[Len(g)] = p
      OBVIOUS
    <3>2. Len(g) \in 1 .. Len(g) /\ ~(Len(g) <= Len(got[Web!Now])) /\ Len(g) - Len(got[Web!Now]) = Len(new)
      BY <3>1, <2>2, <1>9
    <3> QED
      BY <3>1, <3>2, <2>3, <1>9
  <2> QED
    BY <2>2, <2>4, <2>5, <2>6
<1>11. e = "ok" /\ late[Web!Now] = {} /\ Plain(r) => coming[Web!Now] = << >> /\ g # << >>
        /\ Web!IsLast(Web!Last(g))
  <2>1. SUFFICES ASSUME over, late[Web!Now] = {}, Plain(r) PROVE coming[Web!Now] = << >> /\ Web!IsLast(p)
    BY <1>10
  <2>2. ~Web!Only(r, "CONNECT")
    <3>1. SUFFICES ASSUME r.batch = <<"CONNECT">> PROVE FALSE
      BY DEF Web!Only
    <3>2. 1 \in DOMAIN r.batch /\ r.batch[1] = "CONNECT"
      BY <3>1
    <3> QED
      BY <3>2, <2>1 DEF Web!Has, Plain
  <2> QED
    BY <2>1, <2>2, <1>1, <1>2 DEF Inv, LastInv, Web!Alone
<1>12. Gives(g, e)
  BY <1>1, <1>4, <1>6 DEF Gives
<1>13. KeptInv'
  <2>1. CASE over \/ r.multipart
    BY <2>1, <1>4, NothingKept
  <2>2. CASE ~(over \/ r.multipart)
    <3>1. kept' = Append(kept, p) /\ at' = "translator" /\ Web!Now' = Web!Now /\ late' = late
      BY <2>2, <1>1, <1>4, <1>6 DEF Web!Now
    <3> QED
      BY <3>1, <1>8 DEF KeptInv
  <2> QED
    BY <2>1, <2>2
<1> HIDE DEF g, e, p, over
<1>14. /\ got' \in Seq(Seq(Packets)) /\ ended' \in Seq(Outcomes)
       /\ Len(got') = Web!Now /\ Len(ended') = Web!Now /\ Web!Now' = Web!Now /\ ended'[Web!Now] = e
       /\ Web!OwnAnswers' /\ WholePlain'
  BY <1>1, <1>6, <1>10, <1>11, <1>12, GivesKeeps
<1>15. \A t \in Threads : \/ cache'[t] = cache[t]
                          \/ cache'[t] = Web!NoSession
                          \/ /\ cache'[t] = [ip |-> r.browser, jid |-> p.from]
                             /\ t = r.thread /\ Web!Has(r, "CONNECT")
  BY <1>5 DEF Web!Cached, Inv, TypeInv
<1>16. cache' \in [Threads -> Cached1]
  <2>1. r.browser \in Browsers /\ p.from \in Workers
    <3>1. r.browser \in Browsers
      BY <1>3 DEF Web!Requests
    <3> QED
      BY <3>1, <1>2 DEF Packets
  <2>2. [ip |-> r.browser, jid |-> p.from] \in Cached1 /\ Web!NoSession \in Cached1
    BY <2>1 DEF Cached1, Web!NoSession
  <2>3. Web!Cached(r, p) \in [Threads -> Cached1]
    BY <2>2 DEF Web!Cached, Inv, TypeInv
  <2> QED
    BY <2>2, <2>3, <1>5
<1>17. TypeInv'
  <2>1. complete' \in BOOLEAN /\ at' \in {"idle", "translator"}
    BY <1>1, <1>4, <1>6 DEF Web!IsLast
  <2> QED
    BY <2>1, <1>1, <1>2, <1>14, <1>16 DEF Inv, TypeInv
<1>18. AtInv'
  <2>1. at' # "idle" => e = "open"
    BY <1>6 DEF e
  <2> QED
    BY <2>1, <1>1, <1>3, <1>6, <1>14 DEF Inv, AtInv
<1>19. OwnInv' /\ LastInv'
  BY <1>1, <1>2, <1>6 DEF OwnInv, LastInv
<1>20. Web!CachedIsConnected'
  <2>1. ASSUME NEW t \in Threads, cache'[t] # Web!NoSession
        PROVE  \E n \in DOMAIN req : /\ Web!Has(req[n], "CONNECT") /\ req[n].thread = t
                                     /\ req[n].browser = cache'[t].ip
                                     /\ worker[n] = cache'[t].jid \/ ~(late[n] = {})
    <3>1. CASE cache'[t] = cache[t]
      BY <3>1, <2>1 DEF Inv, Web!CachedIsConnected, Web!Alone
    <3>2. CASE /\ cache'[t] = [ip |-> r.browser, jid |-> p.from]
               /\ t = r.thread /\ Web!Has(r, "CONNECT")
      <4>1. worker[Web!Now] = p.from \/ ~(late[Web!Now] = {})
        BY <1>7
      <4> QED
        BY <3>2, <4>1, <1>3
    <3> QED
      BY <3>1, <3>2, <2>1, <1>15
  <2> QED
    BY <2>1, <1>1 DEF Web!CachedIsConnected, Web!Alone, Web!Has, Plain
<1> QED
  BY <1>2, <1>14, <1>17, <1>18, <1>19, <1>20, <1>13 DEF Inv

LEMMA TranslatorReceiveStep ==
    ASSUME Inv, Web!TranslatorReceive
    PROVE  Inv'
<1> DEFINE p == Head(queue)
           t == req[Web!Now].thread
<1>1. /\ at = "translator" /\ queue # << >> /\ queue' = Tail(queue)
      /\ UNCHANGED <<req, coming, late, worker, up>>
  BY DEF Web!TranslatorReceive
<1>2. CASE p.last \in {"error", "timeout"}
  <2> DEFINE e == IF p.last = "error" THEN "not found" ELSE "open"
  <2>1. cache' = Web!Forget(t) /\ UNCHANGED <<got, complete>>
    BY <1>2 DEF Web!TranslatorReceive
  <2>2. e \in Outcomes /\ e # "ok"
    BY DEF Outcomes
  <2>3. Gives(got[Web!Now], e) /\ (at' = "idle" \/ (at' = at /\ e = "open"))
    <3>1. got' = [got EXCEPT ![Web!Now] = got[Web!Now]] /\ ended[Web!Now] = "open"
            /\ ended = [ended EXCEPT ![Web!Now] = ended[Web!Now]]
      BY <2>1, <1>1, Waiting, Same DEF Inv, TypeInv
    <3>2. CASE p.last = "error"
      BY <3>1, <3>2, <1>1 DEF Web!TranslatorReceive, Web!Ends, Gives
    <3>3. CASE p.last = "timeout"
      <4>1. UNCHANGED <<ended, at>>
        BY <3>3 DEF Web!TranslatorReceive
      <4>2. e = "open" /\ ended' = [ended EXCEPT ![Web!Now] = e]
        BY <4>1, <3>1, <3>3
      <4> QED
        BY <4>1, <4>2, <3>1, <1>1 DEF Gives
    <3> QED
      BY <3>2, <3>3, <1>2
  <2> HIDE DEF e, p
  <2>4. /\ queue' \in Seq(Packets) /\ PacketInv' /\ (at' # "idle" => OwnInv')
        /\ (at' = "translator" => LastInv')
    BY <1>1, QueueKeeps
  <2>5. \A i \in DOMAIN got[Web!Now] : got[Web!Now][i].of \in {Web!Now} \cup late[Web!Now]
    BY <1>1, Waiting DEF Inv, Web!OwnAnswers
  <2>6. /\ got' \in Seq(Seq(Packets)) /\ ended' \in Seq(Outcomes)
        /\ Len(got') = Web!Now /\ Len(ended') = Web!Now /\ Web!Now' = Web!Now /\ ended'[Web!Now] = e
        /\ Web!OwnAnswers' /\ WholePlain'
    BY <2>2, <2>3, <2>5, <1>1, Waiting, GivesKeeps
  <2>7. TypeInv'
    <3>1. cache' \in [Threads -> Cached1]
      BY <2>1, ForgetTyped DEF Inv
    <3> QED
      BY <3>1, <2>1, <2>3, <2>4, <2>6, <1>1 DEF Inv, TypeInv
  <2>8. AtInv'
    BY <2>3, <2>6, <1>1 DEF Inv, AtInv
  <2>9. OwnInv' /\ LastInv'
    BY <2>3, <2>4, <1>1 DEF OwnInv, LastInv
  <2>10. Web!CachedIsConnected'
    <3>1. ASSUME NEW u \in Threads, cache'[u] # Web!NoSession PROVE cache'[u] = cache[u]
      BY <3>1, <2>1 DEF Web!Forget, Inv, TypeInv
    <3> QED
      BY <3>1, <1>1 DEF Inv, Web!CachedIsConnected, Web!Alone, Web!Has, Plain
  <2>11. KeptInv'
    <3>1. kept' = << >> \/ (kept' = kept /\ at' = at)
      BY <1>2 DEF Web!TranslatorReceive, p
    <3>2. CASE kept' = << >>
      BY <3>2, NothingKept
    <3>3. CASE kept' = kept /\ at' = at
      BY <3>3, <2>6, <1>1 DEF Inv, KeptInv
    <3> QED
      BY <3>1, <3>2, <3>3
  <2> QED
    BY <2>4, <2>6, <2>7, <2>8, <2>9, <2>10, <2>11 DEF Inv
<1>3. CASE p.last \notin {"error", "timeout"}
  <2>1. Web!Pass(p)
    BY <1>3 DEF Web!TranslatorReceive
  <2> QED
    BY <2>1, PassStep
<1> QED
  BY <1>2, <1>3

-----------------------------------------------------------------------------
LEMMA InitInv == Web!Init => Inv
<1>1. SUFFICES ASSUME Web!Init PROVE Inv
  OBVIOUS
<1>2. TypeInv
  <2>1. \A S : << >> \in Seq(S)
    OBVIOUS
  <2>2. cache \in [Threads -> Cached1]
    BY <1>1 DEF Web!Init, Cached1, Web!NoSession
  <2>3. Len(<< >>) = 0
    OBVIOUS
  <2> QED
    BY <1>1, <2>1, <2>2, <2>3 DEF Web!Init, TypeInv, Web!Now
<1>3. AtInv /\ PacketInv /\ OwnInv /\ LastInv /\ Web!OwnAnswers /\ WholePlain
  BY <1>1 DEF Web!Init, AtInv, PacketInv, OwnInv, LastInv, Web!OwnAnswers, WholePlain
<1>4. Web!CachedIsConnected /\ KeptInv
  BY <1>1, NothingComes DEF Web!Init, Web!CachedIsConnected, KeptInv
<1> QED
  BY <1>2, <1>3, <1>4 DEF Inv

LEMMA StepInv == Web!GatewayAssumption => (Inv /\ [Web!Next]_Web!vars => Inv')
<1>1. SUFFICES ASSUME Web!GatewayAssumption, Inv, [Web!Next]_Web!vars PROVE Inv'
  OBVIOUS
<1>2. CASE Web!Next
  BY <1>1, <1>2, RefuseStep, TranslateStep, CallStep, TranslatorReceiveStep, TimeoutStep, GatewayReceiveStep,
     ArriveStep, DisconnectedStep DEF Web!Next, Web!Handle
<1>3. CASE UNCHANGED Web!vars
  <2>1. Web!Now' = Web!Now
    BY <1>3 DEF Web!vars, Web!Now
  <2>2. TypeInv'
    BY <2>1, <1>1, <1>3 DEF Inv, TypeInv, Web!vars
  <2>3. AtInv' /\ PacketInv' /\ OwnInv' /\ LastInv'
    BY <2>1, <1>1, <1>3 DEF Inv, AtInv, PacketInv, OwnInv, LastInv, Web!Alone, Web!vars
  <2>4. Web!OwnAnswers' /\ WholePlain' /\ Web!CachedIsConnected'
    BY <1>1, <1>3 DEF Inv, Web!OwnAnswers, WholePlain, Web!CachedIsConnected, Web!Alone, Web!vars
  <2>5. KeptInv'
    BY <2>1, <1>1, <1>3 DEF Inv, KeptInv, Web!vars
  <2> QED
    BY <2>2, <2>3, <2>4, <2>5 DEF Inv
<1> QED
  BY <1>1, <1>2, <1>3

-----------------------------------------------------------------------------
(* Each unit of MCProcesses behaves as its module says, whichever moves.   *)

LEMMA GatewayWithin == ProcessesSpec => Web!Spec
<1>1. ProcessesInit => Web!Init
  BY DEF ProcessesInit
<1>2. [ProcessesNext]_allVars => [Web!Next]_Web!vars
  BY DEF ProcessesNext, TransportStep, ControlStep, WebStep, allVars, webVars, Web!vars
<1> QED
  BY <1>1, <1>2, PTL DEF ProcessesSpec, Web!Spec

LEMMA ControlWithin == ProcessesSpec => Control!Spec
<1>1. ProcessesInit => Control!Init
  BY DEF ProcessesInit
<1>2. [ProcessesNext]_allVars => [Control!Next]_Control!vars
  BY DEF ProcessesNext, TransportStep, ControlStep, WebStep, allVars, serviceVars, Control!vars
<1> QED
  BY <1>1, <1>2, PTL DEF ProcessesSpec, Control!Spec

\* The inductive invariant: packets name their request and worker, and while a request is
\* served only what is its own comes, or what was late.
THEOREM GatewayInvariance ==
    ASSUME Web!GatewayAssumption
    PROVE  Web!Spec => []Inv
  BY InitInv, StepInv, PTL DEF Web!Spec

\* For any number of browsers, requests and workers: a browser is given what belongs to
\* its own request, or to one whose answer was still on its way when it was sent.
THEOREM OwnAnswersSafe ==
    ASSUME Web!GatewayAssumption
    PROVE  (Web!Spec => []Web!OwnAnswers) /\ (ProcessesSpec => []OwnAnswers)
<1>1. Inv => Web!OwnAnswers
  BY DEF Inv
<1>2. Web!OwnAnswers => OwnAnswers
  BY DEF OwnAnswers
<1> QED
  BY <1>1, <1>2, GatewayInvariance, GatewayWithin, PTL

\* A request that ends well has all of its answer, if browsers send one REQUEST at a time;
\* the property leaves out those behind a CONNECT and those beside late answers.
THEOREM WholeAnswerSafe ==
    ASSUME Web!GatewayAssumption, \A b \in Batches : OneRequest(b)
    PROVE  (Web!Spec => []Web!WholeAnswer) /\ (ProcessesSpec => []WholeAnswer)
<1>1. ASSUME Inv PROVE Web!WholeAnswer
  <2>1. ASSUME NEW n \in DOMAIN got PROVE OneRequest(req[n].batch)
    <3>1. req[n] \in Web!Requests
      BY <1>1, Domains DEF Inv, TypeInv
    <3>2. CASE req[n].batch \in Batches
      BY <3>2
    <3>3. CASE req[n].batch = <<"REQUEST">>
      BY <3>3 DEF OneRequest
    <3> QED
      BY <3>1, <3>2, <3>3 DEF Web!Requests
  <2> QED
    BY <1>1, <2>1 DEF Inv, WholePlain, Web!WholeAnswer, Plain
<1>2. Web!WholeAnswer => WholeAnswer
  BY DEF WholeAnswer
<1> QED
  BY <1>1, <1>2, GatewayInvariance, GatewayWithin, PTL

\* A cached session is one that its browser asked for, with the worker that has it, unless
\* an answer came late: with any batches, and whatever is refused, lost or forgotten.
THEOREM CachedIsConnectedSafe ==
    ASSUME Web!GatewayAssumption
    PROVE  (Web!Spec => []Web!CachedIsConnected) /\ (ProcessesSpec => []CachedIsConnected)
<1>1. Inv => Web!CachedIsConnected
  BY DEF Inv
<1>2. Web!CachedIsConnected => CachedIsConnected
  BY DEF CachedIsConnected
<1> QED
  BY <1>1, <1>2, GatewayInvariance, GatewayWithin, PTL

-----------------------------------------------------------------------------
(* The commands that start and stop the services.                          *)

\* Commands are given one after the other, and forgotten.
OneCommand == \A c, d \in Commands : c = d

CmdRecs ==
    [pc : {"none", "bootstrap", "settings", "loop", "kill", "unlink", "done"},
     action : {"none", "start", "stop"}, only : SUBSET Services, tries : Nat, client : BOOLEAN,
     next : Nat \ {0}, pid : Pids \cup {0}]
Listening == Control!Starting \cup {"running", "stopping"}
ProcRecs ==
    [is : Listening \cup {"free", "other"}, service : Services \cup {"none"}, ino : Pids \cup {0}]
FileRecs == [ino : Pids \cup {0}, pid : Pids \cup {0}]

ControlTyped ==
    /\ cmd \in [Commands -> CmdRecs] /\ proc \in [Pids -> ProcRecs] /\ pidfile \in [Services -> FileRecs]
    /\ \A p \in Pids : proc[p].is \in Listening => proc[p].service \in Services

Active(m) == m.pc \notin {"none", "done"}
OneAtATime == \A c, d \in Commands : Active(cmd[c]) /\ Active(cmd[d]) => c = d

\* A service has one process.
Sole ==
    \A p, q \in Pids :
        proc[p].is \in Listening /\ proc[q].is \in Listening /\ proc[p].service = proc[q].service => p = q

\* What is in the pid file of a process.
NamedByFile(p) ==
    /\ proc[p].is = "opened" => /\ pidfile[proc[p].service] # Control!NoFile
                                /\ pidfile[proc[p].service].ino = proc[p].ino
    /\ proc[p].is \in {"written", "running"} => pidfile[proc[p].service].pid = p
FileInv ==
    /\ \A p \in Pids : NamedByFile(p)
    /\ \A s \in Services : pidfile[s] = Control!NoFile \/ pidfile[s].ino # 0

\* A start goes to services that have no process yet, ...
StartOK(m) ==
    Active(m) /\ m.action = "start" =>
      \A j \in DOMAIN Apps : m.next <= j /\ Apps[j] \in m.only => Control!Of(Apps[j], Listening) = {}
\* ... while services are stopped none is starting, and those before this one have stopped;
StopOK(m) ==
    m.action = "stop" /\ (Active(m) \/ OneCommand) =>
      /\ \A s \in Services : Control!Of(s, Control!Starting) = {}
      /\ \A j \in DOMAIN Apps : j < m.next /\ Apps[j] \in CServices \cap m.only
           => Control!Of(Apps[j], {"running"}) = {}
\* ... and the one that is killed is the service's.
KillOK(m) ==
    m.pc \in {"kill", "unlink"} =>
      /\ m.action = "stop" /\ m.next \in DOMAIN Apps
      /\ \A p \in Control!Of(Apps[m.next], {"running"}) : m.pc = "kill" /\ p = m.pid
CmdOK(m) == StartOK(m) /\ StopOK(m) /\ KillOK(m)
CmdInv == \A c \in Commands : CmdOK(cmd[c])

ControlInv == ControlTyped /\ OneAtATime /\ Sole /\ FileInv /\ CmdInv

LEMMA ControlTypes ==
    ASSUME Control!ControlAssumption
    PROVE  /\ DOMAIN Apps = 1 .. Len(Apps) /\ Len(Apps) \in Nat
           /\ 0 \notin Pids /\ \A j \in DOMAIN Apps : Apps[j] \in Services
  BY DEF Control!ControlAssumption

LEMMA OfIs == \A s, states : \A p \in Pids : p \in Control!Of(s, states) <=> proc[p].service = s
  /\ proc[p].is \in states
  BY DEF Control!Of

\* The commands go on while processes start, stop and end, and no service gets one.
LEMMA CmdKept ==
    ASSUME ControlInv, UNCHANGED cmd,
           \A p \in Pids : proc'[p].is \in Control!Starting =>
             \E q \in Pids : proc[q].is \in Control!Starting /\ proc[q].service = proc'[p].service,
           \A p \in Pids : proc'[p].is \in Listening =>
             \E q \in Pids : proc[q].is \in Listening /\ proc[q].service = proc'[p].service,
           \A p \in Pids : proc'[p].is = "running" =>
             \/ proc[p].is = "running" /\ proc[p].service = proc'[p].service
             \/ \E q \in Pids : proc[q].is \in Control!Starting
    PROVE  OneAtATime' /\ CmdInv'
<1>1. OneAtATime'
  BY DEF ControlInv, OneAtATime, Active
<1>2. ASSUME NEW c \in Commands PROVE CmdOK(cmd[c])'
  <2> DEFINE m == cmd[c]
  <2>1. StartOK(m) /\ StopOK(m) /\ KillOK(m)
    BY DEF ControlInv, CmdInv, CmdOK
  <2> HIDE DEF m
  <2>2. StartOK(m)'
    <3>1. SUFFICES ASSUME Active(m), m.action = "start", NEW j
                     \in DOMAIN Apps, m.next <= j, Apps[j] \in m.only,
                          NEW p \in Pids, proc'[p].service = Apps[j], proc'[p].is \in Listening
                   PROVE  FALSE
      BY DEF StartOK, Active, Control!Of, m
    <3>2. Control!Of(Apps[j], Listening) = {}
      BY <2>1, <3>1 DEF StartOK
    <3> QED
      BY <3>1, <3>2 DEF Control!Of
  <2>3. StopOK(m)'
    <3>1. SUFFICES ASSUME m.action = "stop", Active(m) \/ OneCommand PROVE StopOK(m)'
      BY DEF StopOK, Active, OneCommand, m
    <3>2. \A s \in Services : Control!Of(s, Control!Starting) = {}
      BY <2>1, <3>1 DEF StopOK
    <3>3. \A p \in Pids : proc[p].is \notin Control!Starting
      BY <3>2 DEF Control!Of, ControlInv, ControlTyped, Listening
    <3>4. \A s \in Services : Control!Of(s, Control!Starting)' = {}
      BY <3>3 DEF Control!Of
    <3>5. \A j \in DOMAIN Apps : j < m.next /\ Apps[j] \in CServices \cap m.only
            => Control!Of(Apps[j], {"running"})' = {}
      BY <2>1, <3>1, <3>3 DEF Control!Of, StopOK
    <3> QED
      BY <3>1, <3>4, <3>5 DEF StopOK, m
  <2>4. KillOK(m)'
    <3>1. SUFFICES ASSUME m.pc \in {"kill", "unlink"} PROVE KillOK(m)'
      BY DEF KillOK, m
    <3>2. m.action = "stop" /\ m.next \in DOMAIN Apps /\ Active(m)
      BY <2>1, <3>1 DEF KillOK, Active
    <3>3. \A s \in Services : Control!Of(s, Control!Starting) = {}
      BY <2>1, <3>2 DEF StopOK
    <3>4. \A p \in Pids : proc[p].is \notin Control!Starting
      BY <3>3 DEF Control!Of, ControlInv, ControlTyped, Listening
    <3>5. \A p \in Pids : proc'[p].is = "running" =>
            proc[p].is = "running" /\ proc[p].service = proc'[p].service
      BY <3>4
    <3>6. \A p \in Pids : p \in Control!Of(Apps[m.next], {"running"}) => m.pc = "kill" /\ p = m.pid
      BY <2>1, <3>1 DEF KillOK
    <3>7. \A p \in Pids : proc'[p].is = "running" /\ proc'[p].service = Apps[m.next]
            => m.pc = "kill" /\ p = m.pid
      BY <3>5, <3>6 DEF Control!Of
    <3>8. m' = m
      BY DEF m
    <3>9. Control!Of(Apps[m.next], {"running"})' =
            {p \in Pids : proc'[p].service = Apps[m.next] /\ proc'[p].is \in {"running"}}
      BY <3>8 DEF Control!Of
    <3> QED
      BY <2>1, <3>1, <3>2, <3>7, <3>8, <3>9 DEF KillOK
  <2> QED
    BY <2>2, <2>3, <2>4 DEF CmdOK, m
<1> QED
  BY <1>1, <1>2 DEF CmdInv

\* A command goes on by itself.
LEMMA CmdStep ==
    ASSUME ControlInv, NEW c \in Commands,
           \A d \in Commands : d # c => cmd'[d] = cmd[d] /\ ~Active(cmd[d]),
           CmdOK(cmd[c])'
    PROVE  OneAtATime' /\ CmdInv'
<1>1. OneAtATime'
  BY DEF OneAtATime, Active
<1>2. ASSUME NEW d \in Commands, d # c PROVE CmdOK(cmd[d])'
  <2>1. cmd'[d] = cmd[d] /\ ~Active(cmd[d]) /\ ~OneCommand
    BY <1>2 DEF OneCommand
  <2>2. StartOK(cmd[d])'
    BY <2>1 DEF StartOK, Active
  <2>3. StopOK(cmd[d])'
    BY <2>1 DEF StopOK, Active, OneCommand
  <2>4. KillOK(cmd[d])'
    BY <2>1 DEF KillOK, Active
  <2> QED
    BY <2>2, <2>3, <2>4 DEF CmdOK
<1> QED
  BY <1>1, <1>2 DEF CmdInv

\* The other commands have ended.
LEMMA OthersEnded ==
    ASSUME ControlInv, NEW c \in Commands, Active(cmd[c])
    PROVE  \A d \in Commands : d # c => ~Active(cmd[d])
  BY DEF ControlInv, OneAtATime

\* It waits, or is through with a service that it is not for or that has no listener.
LEMMA GoesOn ==
    ASSUME Control!ControlAssumption, ControlInv, NEW c
             \in Commands, UNCHANGED proc, Active(cmd[c]), cmd'[c] \in CmdRecs,
           cmd'[c].action = cmd[c].action, cmd'[c].only = cmd[c].only,
           cmd'[c].pc \notin {"kill", "unlink"},
           \/ cmd'[c].next = cmd[c].next
           \/ /\ cmd'[c].next = cmd[c].next + 1 /\ cmd[c].next \in DOMAIN Apps
              /\ cmd[c].action = "stop" /\ Control!App(c) \in CServices \cap cmd[c].only
                   => Control!Of(Control!App(c), {"running"}) = {}
    PROVE  CmdOK(cmd[c])'
<1>0. \A s, states : Control!Of(s, states)' = Control!Of(s, states)
  BY DEF Control!Of
<1> PICK m \in CmdRecs : m = cmd[c]
  BY DEF ControlInv, ControlTyped
<1> PICK n \in CmdRecs : n = cmd'[c]
  OBVIOUS
<1>1. m.next \in Nat /\ n.next \in Nat /\ m.next <= n.next
  BY DEF CmdRecs
<1>2. StartOK(m) /\ StopOK(m)
  BY DEF ControlInv, CmdInv, CmdOK
<1>3. n.action = m.action /\ n.only = m.only
  OBVIOUS
<1>4. ASSUME Active(n), n.action = "start", NEW j \in DOMAIN Apps, n.next <= j, Apps[j] \in n.only
      PROVE  Control!Of(Apps[j], Listening) = {}
  <2>1. j \in Int /\ m.next <= j
    BY <1>1, <1>4, ControlTypes
  <2> QED
    BY <1>2, <1>3, <1>4, <2>1 DEF StartOK
<1>5. ASSUME n.action = "stop"
      PROVE  /\ \A s \in Services : Control!Of(s, Control!Starting) = {}
             /\ \A j \in DOMAIN Apps : j < n.next /\ Apps[j] \in CServices \cap n.only
                  => Control!Of(Apps[j], {"running"}) = {}
  <2>1. /\ \A s \in Services : Control!Of(s, Control!Starting) = {}
        /\ \A j \in DOMAIN Apps : j < m.next /\ Apps[j] \in CServices \cap m.only
             => Control!Of(Apps[j], {"running"}) = {}
    BY <1>2, <1>3, <1>5 DEF StopOK
  <2>2. ASSUME NEW j \in DOMAIN Apps, j < n.next, Apps[j] \in CServices \cap n.only
        PROVE  Control!Of(Apps[j], {"running"}) = {}
    <3>1. j \in Int
      BY ControlTypes
    <3>2. j < m.next \/ (j = m.next /\ n.next = m.next + 1)
      BY <1>1, <2>2, <3>1
    <3>3. CASE j < m.next
      BY <1>3, <2>1, <2>2, <3>3
    <3>4. CASE j = m.next /\ n.next = m.next + 1
      <4>1. Control!App(c) = Apps[j] /\ n.next # m.next
        BY <1>1, <3>4 DEF Control!App
      <4> QED
        BY <1>3, <1>5, <2>2, <4>1
    <3> QED
      BY <3>2, <3>3, <3>4
  <2> QED
    BY <2>1, <2>2
<1>6. StartOK(n) /\ StopOK(n) /\ KillOK(n)
  BY <1>4, <1>5 DEF StartOK, StopOK, KillOK
<1>7. StartOK(cmd[c])'
  BY <1>0, <1>4 DEF StartOK, Active
<1>8. StopOK(cmd[c])'
  BY <1>0, <1>5 DEF StopOK
<1>9. KillOK(cmd[c])'
  BY DEF KillOK
<1> QED
  BY <1>7, <1>8, <1>9 DEF CmdOK

-----------------------------------------------------------------------------
(* The steps of a command.                                                 *)

\* What a step of a command leaves: it changes only itself and, in this lemma, no process.
LEMMA CommandAlone ==
    ASSUME Control!ControlAssumption, ControlInv, NEW c \in Commands, NEW m \in CmdRecs, cmd' =
             [cmd EXCEPT ![c] = m], UNCHANGED proc,
           Active(cmd[c]), m.action = cmd[c].action, m.only = cmd[c].only, m.pc \notin {"kill", "unlink"},
           \/ m.next = cmd[c].next
           \/ /\ m.next = cmd[c].next + 1 /\ cmd[c].next \in DOMAIN Apps
              /\ cmd[c].action = "stop" /\ Control!App(c) \in CServices \cap cmd[c].only
                   => Control!Of(Control!App(c), {"running"}) = {}
    PROVE  cmd' \in [Commands -> CmdRecs] /\ OneAtATime' /\ CmdInv'
<1>0. cmd \in [Commands -> CmdRecs]
  BY DEF ControlInv, ControlTyped
<1>1. cmd'[c] = m /\ \A d \in Commands : d # c => cmd'[d] = cmd[d]
  BY <1>0
<1>2. cmd' \in [Commands -> CmdRecs]
  BY <1>0
<1>3. CmdOK(cmd[c])'
  BY <1>1, GoesOn
<1>4. \A d \in Commands : d # c => ~Active(cmd[d])
  BY OthersEnded
<1> QED
  BY <1>1, <1>2, <1>3, <1>4, CmdStep

LEMMA FilesKept ==
    ASSUME ControlInv, UNCHANGED <<proc, pidfile>>, cmd' \in [Commands -> CmdRecs], OneAtATime', CmdInv'
    PROVE  ControlInv'
<1>1. ControlTyped'
  BY DEF ControlInv, ControlTyped
<1>2. Sole'
  BY DEF ControlInv, Sole
<1>3. FileInv'
  BY DEF ControlInv, FileInv, NamedByFile
<1> QED
  BY <1>1, <1>2, <1>3 DEF ControlInv

LEMMA BootstrapStep ==
    ASSUME Control!ControlAssumption, ControlInv, NEW c \in Commands, Control!Bootstrap(c)
    PROVE  ControlInv'
<1>1. PICK rc \in {1, 0, -1} :
        cmd' = [cmd EXCEPT ![c].pc = IF rc = 0 THEN "done" ELSE "settings", ![c].client = (rc = 1)]
  BY DEF Control!Bootstrap
<1> DEFINE m == [cmd[c] EXCEPT !.pc = IF rc = 0 THEN "done" ELSE "settings", !.client = (rc = 1)]
<1>2. cmd[c] \in CmdRecs /\ cmd[c].pc = "bootstrap" /\ UNCHANGED <<proc, pidfile>>
  BY DEF Control!Bootstrap, ControlInv, ControlTyped
<1>3. cmd' = [cmd EXCEPT ![c] = m]
  BY <1>1
<1>4. m \in CmdRecs /\ m.action = cmd[c].action /\ m.only = cmd[c].only /\ m.next = cmd[c].next
  BY <1>2 DEF CmdRecs
<1>5. m.pc \notin {"kill", "unlink"} /\ Active(cmd[c])
  BY <1>2 DEF CmdRecs, Active
<1> HIDE DEF m
<1> QED
  BY <1>2, <1>3, <1>4, <1>5, CommandAlone, FilesKept

LEMMA SettingsFailStep ==
    ASSUME Control!ControlAssumption, ControlInv, NEW c \in Commands, Control!SettingsFail(c)
    PROVE  ControlInv'
<1> DEFINE m == [cmd[c] EXCEPT !.tries = @ + 1, !.pc = IF cmd[c].tries < 2 THEN "settings" ELSE "done"]
<1>2. cmd[c] \in CmdRecs /\ cmd[c].pc = "settings" /\ UNCHANGED <<proc, pidfile>>
  BY DEF Control!SettingsFail, ControlInv, ControlTyped
<1>3. cmd' = [cmd EXCEPT ![c] = m]
  BY DEF Control!SettingsFail, ControlInv, ControlTyped
<1>4. m \in CmdRecs /\ m.action = cmd[c].action /\ m.only = cmd[c].only /\ m.next = cmd[c].next
  <2>1. cmd[c].tries + 1 \in Nat /\ (IF cmd[c].tries < 2 THEN "settings" ELSE "done") \in {"settings", "done"}
    BY <1>2 DEF CmdRecs
  <2> DEFINE t == cmd[c].tries + 1
             pc == IF cmd[c].tries < 2 THEN "settings" ELSE "done"
  <2>2. m = [cmd[c] EXCEPT !.tries = t, !.pc = pc]
    OBVIOUS
  <2>3. t \in Nat /\ pc \in {"settings", "done"}
    BY <2>1
  <2> HIDE DEF m, t, pc
  <2> QED
    BY <1>2, <2>2, <2>3 DEF CmdRecs
<1>5. m.pc \notin {"kill", "unlink"} /\ Active(cmd[c])
  BY <1>2 DEF CmdRecs, Active
<1> HIDE DEF m
<1> QED
  BY <1>2, <1>3, <1>4, <1>5, CommandAlone, FilesKept

\* Settings, Done: it goes to another point.
LEMMA GoStep ==
    ASSUME Control!ControlAssumption, ControlInv, NEW c \in Commands, NEW pc
             \in {"loop", "done"}, Control!Go(c, pc), Active(cmd[c]),
           UNCHANGED <<proc, pidfile>>
    PROVE  ControlInv'
<1> DEFINE m == [cmd[c] EXCEPT !.pc = pc]
<1>2. cmd[c] \in CmdRecs
  BY DEF ControlInv, ControlTyped
<1>3. cmd' = [cmd EXCEPT ![c] = m]
  BY DEF Control!Go
<1>4. m \in CmdRecs /\ m.action = cmd[c].action /\ m.only = cmd[c].only /\ m.next = cmd[c].next
  BY <1>2 DEF CmdRecs
<1>5. m.pc \notin {"kill", "unlink"}
  BY <1>2 DEF CmdRecs
<1> HIDE DEF m
<1> QED
  BY <1>3, <1>4, <1>5, CommandAlone, FilesKept

LEMMA SettingsStep ==
    ASSUME Control!ControlAssumption, ControlInv, NEW c \in Commands, Control!Settings(c)
    PROVE  ControlInv'
<1>1. Active(cmd[c]) /\ UNCHANGED <<proc, pidfile>> /\ (Control!Go(c, "loop") \/ Control!Go(c, "done"))
  BY DEF Control!Settings, Active
<1> QED
  BY <1>1, GoStep

LEMMA DoneStep ==
    ASSUME Control!ControlAssumption, ControlInv, NEW c \in Commands, Control!Done(c)
    PROVE  ControlInv'
<1>1. Active(cmd[c]) /\ UNCHANGED <<proc, pidfile>> /\ Control!Go(c, "done")
  BY DEF Control!Done, Active
<1> QED
  BY <1>1, GoStep

\* The next service.
LEMMA NextService ==
    ASSUME Control!ControlAssumption, ControlInv, NEW c
             \in Commands, UNCHANGED proc, Active(cmd[c]), cmd[c].next \in DOMAIN Apps,
           NEW pc \in {"loop"}, cmd' = [cmd EXCEPT ![c].pc = pc, ![c].next = @ + 1],
           cmd[c].action = "stop" /\ Control!App(c) \in CServices \cap cmd[c].only
             => Control!Of(Control!App(c), {"running"}) = {}
    PROVE  cmd' \in [Commands -> CmdRecs] /\ OneAtATime' /\ CmdInv'
<1> DEFINE m == [cmd[c] EXCEPT !.pc = pc, !.next = @ + 1]
<1>2. cmd[c] \in CmdRecs
  BY DEF ControlInv, ControlTyped
<1>3. cmd' = [cmd EXCEPT ![c] = m]
  BY DEF ControlInv, ControlTyped
<1>4. m \in CmdRecs /\ m.action = cmd[c].action /\ m.only = cmd[c].only /\ m.next = cmd[c].next + 1
  <2>1. cmd[c].next + 1 \in Nat \ {0}
    BY <1>2 DEF CmdRecs
  <2> DEFINE t == cmd[c].next + 1
  <2>2. m = [cmd[c] EXCEPT !.pc = pc, !.next = t]
    OBVIOUS
  <2> HIDE DEF m
  <2>3. t \in Nat \ {0}
    BY <2>1
  <2> HIDE DEF t
  <2>4. m \in CmdRecs /\ m.action = cmd[c].action /\ m.only = cmd[c].only /\ m.next = t
    BY <1>2, <2>2, <2>3 DEF CmdRecs
  <2> QED
    BY <2>4 DEF t
<1>5. m.pc \notin {"kill", "unlink"}
  BY <1>2 DEF CmdRecs
<1> HIDE DEF m
<1> QED
  BY <1>3, <1>4, <1>5, CommandAlone

LEMMA InTheList ==
    ASSUME Control!ControlAssumption, ControlInv, NEW c \in Commands, Control!InList(c)
    PROVE  /\ Active(cmd[c]) /\ cmd[c].next \in DOMAIN Apps /\ cmd[c].next \in Nat \ {0}
                /\ Control!App(c) \in Services
           /\ \A d \in CmdRecs : d = [cmd[c] EXCEPT !.next = @ + 1] => d.pc = "loop"
<1>1. cmd[c].pc = "loop" /\ cmd[c].next <= Len(Apps) /\ cmd[c].next \in Nat \ {0}
  BY DEF Control!InList, ControlInv, ControlTyped, CmdRecs
<1>2. cmd[c].next \in DOMAIN Apps
  BY <1>1, ControlTypes
<1> QED
  BY <1>1, <1>2, ControlTypes DEF Active, Control!App, ControlInv, ControlTyped, CmdRecs

LEMMA SamePoint ==
    ASSUME ControlInv, NEW c \in Commands, Control!InList(c), cmd' = [cmd EXCEPT ![c].next = @ + 1]
    PROVE  cmd' = [cmd EXCEPT ![c].pc = "loop", ![c].next = @ + 1]
<1>1. cmd[c] \in CmdRecs /\ cmd[c].pc = "loop" /\ cmd \in [Commands -> CmdRecs]
  BY DEF ControlInv, ControlTyped, Control!InList
<1>2. [cmd[c] EXCEPT !.next = @ + 1] = [cmd[c] EXCEPT !.pc = "loop", !.next = @ + 1]
  BY <1>1 DEF CmdRecs
<1> QED
  BY <1>1, <1>2

LEMMA SkipStep ==
    ASSUME Control!ControlAssumption, ControlInv, NEW c \in Commands, Control!Skip(c)
    PROVE  ControlInv'
<1>1. Control!InList(c) /\ ~Control!Chosen(c) /\ UNCHANGED <<proc, pidfile>>
  BY DEF Control!Skip
<1>2. cmd' = [cmd EXCEPT ![c].pc = "loop", ![c].next = @ + 1]
  BY <1>1, SamePoint DEF Control!Skip
<1>3. Control!App(c) \notin CServices \cap cmd[c].only
  BY <1>1 DEF Control!Chosen
<1> QED
  BY <1>1, <1>2, <1>3, InTheList, NextService, FilesKept

\* A new command: no other is active and, for a start, no service that it is for has a process.
LEMMA CommandStep ==
    ASSUME Control!ControlAssumption, ControlInv, Careful, NEW c \in Commands, NEW action
             \in {"start", "stop"}, NEW only \in SUBSET Services,
           Control!Command(c, action, only)
    PROVE  ControlInv'
<1> DEFINE m == [Control!NoCmd EXCEPT !.pc = "bootstrap", !.action = action, !.only = only]
<1>1. /\ \A d \in Commands : ~Active(cmd[d])
      /\ \A s \in Services : Control!Of(s, Control!Starting \cup {"stopping"}) = {}
      /\ action = "start" => \A s \in only : Control!Of(s, {"running"}) = {}
      /\ cmd' = [cmd EXCEPT ![c] = m] /\ UNCHANGED <<proc, pidfile>>
  BY DEF Control!Command, Active
<1>2. /\ m \in CmdRecs /\ m.pc = "bootstrap" /\ m.action = action /\ m.only = only /\ m.next = 1
  <2>1. Control!NoCmd \in CmdRecs /\ Control!NoCmd.next = 1
    BY DEF Control!NoCmd, CmdRecs
  <2> HIDE DEF Control!NoCmd
  <2> QED
    BY <2>1 DEF CmdRecs
<1> HIDE DEF m
<1>3. cmd \in [Commands -> CmdRecs]
  BY DEF ControlInv, ControlTyped
<1>4. cmd'[c] = m /\ (\A d \in Commands : d # c => cmd'[d] = cmd[d]) /\ cmd' \in [Commands -> CmdRecs]
  BY <1>1, <1>2, <1>3
<1>5. \A s \in Services : Control!Of(s, Control!Starting) = {}
  BY <1>1 DEF Control!Of
<1>6. ASSUME action = "start", NEW s \in only PROVE Control!Of(s, Listening) = {}
  <2>1. Control!Of(s, Control!Starting \cup {"stopping"}) = {} /\ Control!Of(s, {"running"}) = {}
    BY <1>1, <1>6
  <2> QED
    BY <2>1 DEF Control!Of, Listening
<1>0. \A s, states : Control!Of(s, states)' = Control!Of(s, states)
  BY <1>1 DEF Control!Of
<1>7. StartOK(cmd[c])'
  BY <1>0, <1>2, <1>4, <1>6 DEF StartOK
<1>8. StopOK(cmd[c])'
  <2>1. \A j \in DOMAIN Apps : ~ j < 1
    BY ControlTypes
  <2> QED
    BY <1>0, <1>2, <1>4, <1>5, <2>1 DEF StopOK
<1>9. KillOK(cmd[c])'
  BY <1>2, <1>4 DEF KillOK
<1>10. OneAtATime' /\ CmdInv'
  BY <1>1, <1>4, <1>7, <1>8, <1>9, CmdStep DEF CmdOK
<1> QED
  BY <1>1, <1>4, <1>10, FilesKept

\* The service to be stopped has a listener only if it is the one named by the file.
LEMMA ReadPidStep ==
    ASSUME Control!ControlAssumption, ControlInv, NEW c \in Commands, Control!ReadPid(c)
    PROVE  ControlInv'
<1>1. Control!InList(c) /\ cmd[c].action = "stop" /\ UNCHANGED <<proc, pidfile>> /\ cmd[c].pc = "loop"
  BY DEF Control!ReadPid, Control!InList
<1>2. Active(cmd[c]) /\ cmd[c].next \in DOMAIN Apps /\ Control!App(c) \in Services
  BY <1>1, InTheList
<1>3. \A p \in Control!Of(Control!App(c), {"running"}) : p = pidfile[Control!App(c)].pid /\ p # 0
  BY <1>2, ControlTypes DEF Control!Of, ControlInv, FileInv, NamedByFile
<1>4. CASE pidfile[Control!App(c)] = Control!NoFile
  <2>1. Control!Of(Control!App(c), {"running"}) = {}
    BY <1>3, <1>4 DEF Control!NoFile
  <2>2. cmd' = [cmd EXCEPT ![c].pc = "loop", ![c].next = @ + 1]
    BY <1>1, <1>4, SamePoint DEF Control!ReadPid
  <2> QED
    BY <1>1, <1>2, <2>1, <2>2, NextService, FilesKept
<1>5. CASE pidfile[Control!App(c)] # Control!NoFile
  <2> DEFINE m == [cmd[c] EXCEPT !.pc = "kill", !.pid = pidfile[Control!App(c)].pid]
  <2>1. cmd \in [Commands -> CmdRecs] /\ cmd[c] \in CmdRecs /\ pidfile[Control!App(c)].pid \in Pids \cup {0}
    BY <1>2 DEF ControlInv, ControlTyped, FileRecs
  <2>2. cmd' = [cmd EXCEPT ![c] = m]
    BY <1>5 DEF Control!ReadPid
  <2>3. /\ m \in CmdRecs /\ m.pc = "kill" /\ m.action = cmd[c].action /\ m.only = cmd[c].only
        /\ m.next = cmd[c].next /\ m.pid = pidfile[Control!App(c)].pid
    BY <2>1 DEF CmdRecs
  <2> HIDE DEF m
  <2>4. cmd'[c] = m /\ (\A d \in Commands : d # c => cmd'[d] = cmd[d]) /\ cmd' \in [Commands -> CmdRecs]
    BY <2>1, <2>2, <2>3
  <2>5. \A s, states : Control!Of(s, states)' = Control!Of(s, states)
    BY <1>1 DEF Control!Of
  <2>6. StartOK(cmd[c]) /\ StopOK(cmd[c])
    BY DEF ControlInv, CmdInv, CmdOK
  <2>7. StartOK(cmd[c])'
    BY <1>1, <2>3, <2>4 DEF StartOK
  <2>8. StopOK(cmd[c])'
    BY <1>1, <1>2, <2>3, <2>4, <2>5, <2>6 DEF StopOK
  <2>9. KillOK(cmd[c])'
    <3>1. \A p \in Control!Of(Apps[m.next], {"running"}) : p = m.pid
      BY <1>3, <2>3 DEF Control!App
    <3> QED
      BY <1>1, <1>2, <2>3, <2>4, <2>5, <3>1 DEF KillOK
  <2>10. OneAtATime' /\ CmdInv'
    BY <1>2, <2>4, <2>7, <2>8, <2>9, CmdStep, OthersEnded DEF CmdOK
  <2> QED
    BY <1>1, <2>4, <2>10, FilesKept
<1> QED
  BY <1>4, <1>5

\* A service is forked for: it had no process, and no other command is active.
LEMMA ForkStep ==
    ASSUME Control!ControlAssumption, ControlInv, NEW c \in Commands, Control!Fork(c)
    PROVE  ControlInv'
<1> DEFINE m == [cmd[c] EXCEPT !.next = @ + 1]
           s == Control!App(c)
<1>1. /\ Control!InList(c) /\ Control!Chosen(c) /\ cmd[c].action = "start" /\ UNCHANGED pidfile
           /\ cmd[c].pc = "loop"
      /\ cmd' = [cmd EXCEPT ![c] = m]
  BY DEF Control!Fork, Control!InList
<1>2. Active(cmd[c]) /\ cmd[c].next \in DOMAIN Apps /\ cmd[c].next \in Nat \ {0} /\ s \in Services
  BY <1>1, InTheList
<1>3. cmd \in [Commands -> CmdRecs] /\ cmd[c] \in CmdRecs /\ proc \in [Pids -> ProcRecs]
  BY DEF ControlInv, ControlTyped
<1>4. /\ m \in CmdRecs /\ m.pc = "loop" /\ m.action = "start" /\ m.only = cmd[c].only
           /\ m.next = cmd[c].next + 1
  <2> DEFINE t == cmd[c].next + 1
  <2>1. t \in Nat \ {0}
    BY <1>2
  <2>2. m = [cmd[c] EXCEPT !.next = t]
    OBVIOUS
  <2> HIDE DEF m, t
  <2>3. /\ m \in CmdRecs /\ m.pc = "loop" /\ m.action = "start" /\ m.only = cmd[c].only /\ m.next = t
    BY <1>1, <1>3, <2>1, <2>2 DEF CmdRecs
  <2> QED
    BY <2>3 DEF t
<1> HIDE DEF m
<1>5. cmd'[c] = m /\ (\A d \in Commands : d # c => cmd'[d] = cmd[d]) /\ cmd' \in [Commands -> CmdRecs]
  BY <1>1, <1>3, <1>4
<1>6. StartOK(cmd[c])
  BY DEF ControlInv, CmdInv, CmdOK
<1>7. \A j \in DOMAIN Apps : cmd[c].next <= j /\ Apps[j] \in cmd[c].only
        => Control!Of(Apps[j], Listening) = {}
  BY <1>1, <1>2, <1>6 DEF StartOK
<1>8. Control!Of(s, Listening) = {}
  BY <1>1, <1>2, <1>7 DEF Control!Chosen, Control!App
<1>9. \/ proc' = proc
      \/ \E p \in Control!FreePids : proc' =
           [proc EXCEPT ![p] = [is |-> "launched", service |-> s, ino |-> 0]]
  BY <1>1 DEF Control!Fork
<1>10. /\ proc' \in [Pids -> ProcRecs]
       /\ \A p \in Pids : proc'[p] # proc[p] =>
            /\ proc[p].is = "free"
            /\ proc'[p] = [is |-> "launched", service |-> s, ino |-> 0]
       /\ \A p, q \in Pids : proc'[p] # proc[p] /\ proc'[q] # proc[q] => p = q
  <2>1. [is |-> "launched", service |-> s, ino |-> 0] \in ProcRecs
    BY <1>2 DEF ProcRecs, Listening, Control!Starting
  <2> QED
    BY <1>3, <1>9, <2>1 DEF Control!FreePids
<1> HIDE DEF s
<1>11. \A p \in Pids : proc'[p].is \in Listening =>
         \/ proc'[p] = proc[p] /\ proc[p].service # s
         \/ proc'[p] # proc[p] /\ proc'[p].service = s /\ proc'[p].is = "launched"
  BY <1>8, <1>10 DEF Control!Of
<1>12. ControlTyped'
  BY <1>1, <1>2, <1>5, <1>10, <1>11 DEF ControlInv, ControlTyped
<1>13. Sole'
  BY <1>10, <1>11 DEF ControlInv, Sole
<1>14. FileInv'
  <2>1. ASSUME NEW p \in Pids PROVE NamedByFile(p)'
    <3>1. CASE proc'[p] = proc[p]
      BY <1>1, <3>1 DEF ControlInv, FileInv, NamedByFile
    <3>2. CASE proc'[p] # proc[p]
      <4>1. proc'[p].is = "launched"
        BY <1>10, <3>2
      <4> QED
        BY <4>1 DEF NamedByFile
    <3> QED
      BY <3>1, <3>2
  <2> QED
    BY <1>1, <2>1 DEF ControlInv, FileInv
<1>15. StartOK(cmd[c])'
  <2>1. ASSUME NEW j \in DOMAIN Apps, m.next <= j, Apps[j] \in m.only, NEW p \in Pids,
               proc'[p].service = Apps[j], proc'[p].is \in Listening
        PROVE  FALSE
    <3>1. j \in Int /\ cmd[c].next <= j /\ j # cmd[c].next
      BY <1>2, <1>4, <2>1, ControlTypes
    <3>2. Apps[j] # s
      BY <1>2, <3>1 DEF Control!ControlAssumption, Control!App, s
    <3>3. Control!Of(Apps[j], Listening) = {}
      BY <1>4, <1>7, <2>1, <3>1
    <3>4. proc'[p] = proc[p]
      BY <1>11, <2>1, <3>2
    <3> QED
      BY <2>1, <3>3, <3>4 DEF Control!Of
  <2>2. \A j \in DOMAIN Apps : m.next <= j /\ Apps[j] \in m.only => Control!Of(Apps[j], Listening)' = {}
    BY <2>1 DEF Control!Of
  <2> QED
    BY <1>5, <2>2 DEF StartOK
<1>16. StopOK(cmd[c])'
  BY <1>4, <1>5 DEF StopOK
<1>17. KillOK(cmd[c])'
  BY <1>4, <1>5 DEF KillOK
<1>18. OneAtATime' /\ CmdInv'
  BY <1>2, <1>5, <1>15, <1>16, <1>17, CmdStep, OthersEnded DEF CmdOK
<1> QED
  BY <1>12, <1>13, <1>14, <1>18 DEF ControlInv

\* What a stop knows while it stops a service.
LEMMA AtStop ==
    ASSUME Control!ControlAssumption, ControlInv, NEW c \in Commands, cmd[c].pc \in {"kill", "unlink"}
    PROVE  /\ Active(cmd[c]) /\ cmd[c].action = "stop" /\ cmd[c].next \in DOMAIN Apps
                /\ Control!App(c) \in Services
           /\ \A p \in Pids : proc[p].is \notin Control!Starting
           /\ \A p \in Control!Of(Control!App(c), {"running"}) : cmd[c].pc = "kill" /\ p = cmd[c].pid
           /\ \A j \in DOMAIN Apps : j < cmd[c].next /\ Apps[j] \in CServices \cap cmd[c].only
                => Control!Of(Apps[j], {"running"}) = {}
<1>1. KillOK(cmd[c]) /\ StopOK(cmd[c]) /\ Active(cmd[c])
  BY DEF ControlInv, CmdInv, CmdOK, Active
<1>2. cmd[c].action = "stop" /\ cmd[c].next \in DOMAIN Apps
  BY <1>1 DEF KillOK
<1>3. \A p \in Control!Of(Control!App(c), {"running"}) : cmd[c].pc = "kill" /\ p = cmd[c].pid
  BY <1>1 DEF KillOK, Control!App
<1>4. /\ \A s \in Services : Control!Of(s, Control!Starting) = {}
      /\ \A j \in DOMAIN Apps : j < cmd[c].next /\ Apps[j] \in CServices \cap cmd[c].only
           => Control!Of(Apps[j], {"running"}) = {}
  BY <1>1, <1>2 DEF StopOK
<1>5. \A p \in Pids : proc[p].is \notin Control!Starting
  BY <1>4 DEF Control!Of, ControlInv, ControlTyped, Listening
<1> QED
  BY <1>1, <1>2, <1>3, <1>4, <1>5, ControlTypes DEF Control!App

\* The process whose id was read is told to end: if there is a listener, it is that one.
LEMMA KillStep ==
    ASSUME Control!ControlAssumption, ControlInv, NEW c \in Commands, Control!Kill(c)
    PROVE  ControlInv'
<1> DEFINE m == [cmd[c] EXCEPT !.pc = "unlink"]
<1>1. /\ cmd[c].pc = "kill" /\ UNCHANGED pidfile /\ proc' = Control!Killed(c) /\ cmd' = [cmd EXCEPT ![c] = m]
  BY DEF Control!Kill, Control!Go
<1>2. /\ Active(cmd[c]) /\ cmd[c].action = "stop" /\ cmd[c].next \in DOMAIN Apps
           /\ Control!App(c) \in Services
      /\ \A p \in Pids : proc[p].is \notin Control!Starting
      /\ \A p \in Control!Of(Control!App(c), {"running"}) : p = cmd[c].pid
      /\ \A j \in DOMAIN Apps : j < cmd[c].next /\ Apps[j] \in CServices \cap cmd[c].only
           => Control!Of(Apps[j], {"running"}) = {}
  BY <1>1, AtStop
<1>3. cmd \in [Commands -> CmdRecs] /\ cmd[c] \in CmdRecs /\ proc \in [Pids -> ProcRecs]
  BY DEF ControlInv, ControlTyped
<1>4. m \in CmdRecs /\ m.pc = "unlink" /\ m.action = "stop" /\ m.only = cmd[c].only /\ m.next = cmd[c].next
  BY <1>2, <1>3 DEF CmdRecs
<1> HIDE DEF m
<1>5. cmd'[c] = m /\ (\A d \in Commands : d # c => cmd'[d] = cmd[d]) /\ cmd' \in [Commands -> CmdRecs]
  BY <1>1, <1>3, <1>4
<1>6. /\ proc' \in [Pids -> ProcRecs]
      /\ \A p \in Pids : proc'[p].is \in Listening =>
           /\ proc[p].is \in Listening /\ proc'[p].service = proc[p].service
           /\ proc'[p].is \in {proc[p].is, "stopping"}
           /\ proc'[p].is = "running" => p # cmd[c].pid
  <2>1. proc' = [p \in Pids |-> IF p = cmd[c].pid
          /\ proc[p].is # "free" THEN Control!Signalled(p) ELSE proc[p]]
    BY <1>1 DEF Control!Killed
  <2>2. ASSUME NEW p \in Pids
        PROVE  /\ Control!Signalled(p) \in ProcRecs
               /\ Control!Signalled(p).is \in Listening =>
                    /\ proc[p].is \in Listening /\ Control!Signalled(p).service = proc[p].service
                    /\ Control!Signalled(p).is = "stopping"
    <3>1. proc[p] \in ProcRecs
      BY <1>3
    <3>2. CASE proc[p].is = "running"
      BY <3>1, <3>2 DEF Control!Signalled, ProcRecs, Listening, Control!Starting
    <3>3. CASE proc[p].is # "running"
      <4>1. Control!Signalled(p) = Control!Free
        BY <3>3 DEF Control!Signalled
      <4>2. Control!Free \in ProcRecs /\ Control!Free.is = "free"
        BY DEF Control!Free, ProcRecs
      <4>3. "free" \notin Listening
        BY DEF Listening, Control!Starting
      <4> QED
        BY <4>1, <4>2, <4>3
    <3> QED
      BY <3>2, <3>3
  <2>3. "free" \notin Listening /\ "running" # "free"
    BY DEF Listening, Control!Starting
  <2> HIDE DEF Control!Signalled
  <2> QED
    BY <1>3, <2>1, <2>2, <2>3
<1>7. ControlTyped'
  BY <1>1, <1>5, <1>6 DEF ControlInv, ControlTyped
<1>8. Sole'
  BY <1>6 DEF ControlInv, Sole
<1>9. FileInv'
  <2>1. ASSUME NEW p \in Pids PROVE NamedByFile(p)'
    <3>1. proc'[p].is \notin {"opened", "written"}
      BY <1>2, <1>6 DEF Listening, Control!Starting
    <3>2. proc'[p].is = "running" => proc[p].is = "running" /\ proc'[p].service = proc[p].service
      BY <1>6 DEF Listening
    <3> QED
      BY <1>1, <3>1, <3>2 DEF ControlInv, FileInv, NamedByFile
  <2> QED
    BY <1>1, <2>1 DEF ControlInv, FileInv
<1>10. \A p \in Pids : proc'[p].is \notin Control!Starting
  BY <1>2, <1>6 DEF Listening, Control!Starting
<1>11. \A p \in Pids : proc'[p].is = "running" =>
         proc[p].is = "running" /\ proc'[p].service = proc[p].service /\ p # cmd[c].pid
  BY <1>6 DEF Listening
<1>12. \A j \in DOMAIN Apps : j < m.next /\ Apps[j] \in CServices \cap m.only
         => Control!Of(Apps[j], {"running"})' = {}
  BY <1>2, <1>4, <1>11 DEF Control!Of
<1>13. {p \in Pids : proc'[p].service = Apps[m.next] /\ proc'[p].is \in {"running"}} = {}
  BY <1>2, <1>4, <1>11 DEF Control!Of, Control!App
<1>14. StartOK(cmd[c])'
  BY <1>4, <1>5 DEF StartOK
<1>15. StopOK(cmd[c])'
  <2>1. \A s \in Services : Control!Of(s, Control!Starting)' = {}
    BY <1>10 DEF Control!Of
  <2> QED
    BY <1>5, <1>12, <2>1 DEF StopOK
<1>16. KillOK(cmd[c])'
  <2>1. Control!Of(Apps[cmd[c].next], {"running"})' = {}
    BY <1>5, <1>13 DEF Control!Of
  <2> QED
    BY <1>2, <1>4, <1>5, <2>1 DEF KillOK
<1>17. OneAtATime' /\ CmdInv'
  BY <1>2, <1>5, <1>14, <1>15, <1>16, CmdStep, OthersEnded DEF CmdOK
<1> QED
  BY <1>7, <1>8, <1>9, <1>17 DEF ControlInv

\* The file is removed: nothing that it should name is left.
LEMMA UnlinkStep ==
    ASSUME Control!ControlAssumption, ControlInv, NEW c \in Commands, Control!Unlink(c)
    PROVE  ControlInv'
<1>1. /\ cmd[c].pc = "unlink" /\ UNCHANGED proc
      /\ pidfile' = [pidfile EXCEPT ![Control!App(c)] = Control!NoFile]
      /\ cmd' = [cmd EXCEPT ![c].pc = "loop", ![c].next = @ + 1]
  BY DEF Control!Unlink
<1>2. /\ Active(cmd[c]) /\ cmd[c].action = "stop" /\ cmd[c].next \in DOMAIN Apps
           /\ Control!App(c) \in Services
      /\ \A p \in Pids : proc[p].is \notin Control!Starting
      /\ Control!Of(Control!App(c), {"running"}) = {}
  BY <1>1, AtStop
<1>3. cmd' \in [Commands -> CmdRecs] /\ OneAtATime' /\ CmdInv'
  BY <1>1, <1>2, NextService
<1>4. Control!NoFile \in FileRecs
  BY DEF Control!NoFile, FileRecs
<1>5. ControlTyped'
  BY <1>1, <1>3, <1>4 DEF ControlInv, ControlTyped
<1>6. Sole'
  BY <1>1 DEF ControlInv, Sole
<1>7. FileInv'
  <2>1. ASSUME NEW p \in Pids PROVE NamedByFile(p)'
    <3>1. proc'[p].is \notin {"opened", "written"} /\ proc' = proc
      BY <1>1, <1>2 DEF Control!Starting
    <3>2. proc[p].is = "running" => proc[p].service # Control!App(c) /\ proc[p].service \in Services
      BY <1>2 DEF Control!Of, ControlInv, ControlTyped, Listening
    <3>3. proc[p].is = "running" => pidfile'[proc[p].service] = pidfile[proc[p].service]
      BY <1>1, <3>2 DEF ControlInv, ControlTyped
    <3> QED
      BY <3>1, <3>3 DEF ControlInv, FileInv, NamedByFile
  <2>2. \A s \in Services : pidfile'[s] = Control!NoFile \/ pidfile'[s].ino # 0
    BY <1>1 DEF ControlInv, FileInv, ControlTyped
  <2> QED
    BY <2>1, <2>2 DEF FileInv
<1> QED
  BY <1>3, <1>5, <1>6, <1>7 DEF ControlInv

-----------------------------------------------------------------------------
(* The steps of a process.                                                 *)

\* A process goes on as the listener of its service, or ends.
LEMMA Advance ==
    ASSUME ControlInv, NEW p \in Pids, proc[p].is \in Listening, NEW r \in ProcRecs, UNCHANGED cmd,
           proc' = [proc EXCEPT ![p] = r], r.service = proc[p].service \/ r.is \notin Listening,
           r.is \in Control!Starting => proc[p].is \in Control!Starting,
           r.is = "running" => proc[p].is \in Control!Starting
    PROVE  /\ proc' \in [Pids -> ProcRecs] /\ OneAtATime' /\ CmdInv' /\ Sole'
           /\ proc'[p] = r /\ \A q \in Pids : q # p => proc'[q] = proc[q]
           /\ \A q \in Pids : proc'[q].is \in Listening => proc'[q].service \in Services
<1>1. proc \in [Pids -> ProcRecs] /\ \A q \in Pids : proc[q].is \in Listening => proc[q].service \in Services
  BY DEF ControlInv, ControlTyped
<1>2. /\ proc' \in [Pids -> ProcRecs]
      /\ proc'[p] = r /\ \A q \in Pids : q # p => proc'[q] = proc[q]
  BY <1>1
<1>3. \A q \in Pids : proc'[q].is \in Listening => proc[q].is \in Listening
        /\ proc'[q].service = proc[q].service
  BY <1>2
<1>4. Sole'
  BY <1>3 DEF ControlInv, Sole
<1>5. \A q \in Pids : proc'[q].is \in Control!Starting =>
        proc[q].is \in Control!Starting /\ proc[q].service = proc'[q].service
  BY <1>2, <1>3 DEF Listening
<1>6. \A q \in Pids : proc'[q].is = "running" =>
        \/ proc[q].is = "running" /\ proc[q].service = proc'[q].service
        \/ proc[q].is \in Control!Starting
  BY <1>2
<1>7. OneAtATime' /\ CmdInv'
  <2>1. \A q \in Pids : proc'[q].is \in Control!Starting =>
          \E o \in Pids : proc[o].is \in Control!Starting /\ proc[o].service = proc'[q].service
    BY <1>5
  <2>2. \A q \in Pids : proc'[q].is \in Listening =>
          \E o \in Pids : proc[o].is \in Listening /\ proc[o].service = proc'[q].service
    BY <1>3
  <2>3. \A q \in Pids : proc'[q].is = "running" =>
          \/ proc[q].is = "running" /\ proc[q].service = proc'[q].service
          \/ \E o \in Pids : proc[o].is \in Control!Starting
    BY <1>6
  <2> QED
    BY <2>1, <2>2, <2>3, CmdKept
<1> QED
  BY <1>1, <1>2, <1>3, <1>4, <1>7

\* The record of a process that becomes something else.
LEMMA BecomesRec ==
    ASSUME ControlInv, NEW p \in Pids, NEW state \in Listening
    PROVE  /\ [proc[p] EXCEPT !.is = state] \in ProcRecs
           /\ [proc[p] EXCEPT !.is = state].is = state
           /\ [proc[p] EXCEPT !.is = state].service = proc[p].service
           /\ [proc[p] EXCEPT !.is = state].ino = proc[p].ino
<1>1. proc[p] \in ProcRecs
  BY DEF ControlInv, ControlTyped
<1> QED
  BY <1>1 DEF ProcRecs

LEMMA FreeRec == Control!Free \in ProcRecs /\ Control!Free.is = "free" /\ Control!Free.is \notin Listening
  BY DEF Control!Free, ProcRecs, Listening, Control!Starting

\* A process of any kind ends.
LEMMA ExitsStep ==
    ASSUME ControlInv, NEW p \in Pids, Control!Exits(p)
    PROVE  ControlInv'
<1>1. proc' = [proc EXCEPT ![p] = Control!Free] /\ UNCHANGED <<cmd, pidfile>>
  BY DEF Control!Exits
<1>2. /\ proc' \in [Pids -> ProcRecs]
      /\ \A q \in Pids : proc'[q].is \in Listening => proc'[q] = proc[q]
  BY <1>1, FreeRec DEF ControlInv, ControlTyped
<1>3. ControlTyped'
  BY <1>1, <1>2 DEF ControlInv, ControlTyped
<1>4. Sole'
  BY <1>2 DEF ControlInv, Sole
<1>5. FileInv'
  <2>1. ASSUME NEW q \in Pids PROVE NamedByFile(q)'
    <3>1. proc'[q].is \in {"opened", "written", "running"} => proc'[q] = proc[q]
      BY <1>2 DEF Listening, Control!Starting
    <3> QED
      BY <1>1, <3>1 DEF ControlInv, FileInv, NamedByFile
  <2> QED
    BY <1>1, <2>1 DEF ControlInv, FileInv
<1>6. OneAtATime' /\ CmdInv'
  <2>1. \A q \in Pids : proc'[q].is \in Control!Starting \/ proc'[q].is = "running" => proc'[q] = proc[q]
    BY <1>2 DEF Listening
  <2> QED
    BY <1>1, <1>2, <2>1, CmdKept
<1> QED
  BY <1>3, <1>4, <1>5, <1>6 DEF ControlInv

\* A process goes on and the pid file is not touched: only one that is named by it may run.
LEMMA BecomesStep ==
    ASSUME ControlInv, NEW p \in Pids, NEW state
             \in {"detached", "checked", "running"}, Control!Becomes(p, state), UNCHANGED pidfile,
           proc[p].is \in Control!Starting, state = "running" => proc[p].is = "written"
    PROVE  ControlInv'
<1> DEFINE r == [proc[p] EXCEPT !.is = state]
<1>1. r \in ProcRecs /\ r.is = state /\ r.service = proc[p].service
  BY BecomesRec DEF Listening, Control!Starting
<1>2. proc' = [proc EXCEPT ![p] = r] /\ UNCHANGED <<cmd, pidfile>>
  BY DEF Control!Becomes, ControlInv, ControlTyped
<1> HIDE DEF r
<1>3. proc[p].is \in Listening
  BY DEF Listening
<1>4. /\ proc' \in [Pids -> ProcRecs] /\ OneAtATime' /\ CmdInv' /\ Sole'
      /\ proc'[p] = r /\ \A q \in Pids : q # p => proc'[q] = proc[q]
      /\ \A q \in Pids : proc'[q].is \in Listening => proc'[q].service \in Services
  BY <1>1, <1>2, <1>3, Advance
<1>5. ControlTyped'
  BY <1>2, <1>4 DEF ControlInv, ControlTyped
<1>6. FileInv'
  <2>1. ASSUME NEW q \in Pids, q # p PROVE NamedByFile(q)'
    BY <1>2, <1>4, <2>1 DEF ControlInv, FileInv, NamedByFile
  <2>2. NamedByFile(p)'
    BY <1>1, <1>2, <1>4 DEF ControlInv, FileInv, NamedByFile
  <2> QED
    BY <1>2, <2>1, <2>2 DEF ControlInv, FileInv
<1> QED
  BY <1>4, <1>5, <1>6 DEF ControlInv

LEMMA CheckStep ==
    ASSUME ControlInv, NEW p \in Pids, Control!Check(p)
    PROVE  ControlInv'
<1>1. CASE proc[p].service \in Implemented
  <2>1. Control!Becomes(p, "checked") /\ UNCHANGED pidfile /\ proc[p].is \in Control!Starting
    BY <1>1 DEF Control!Check, Control!Starting
  <2> QED
    BY <2>1, BecomesStep
<1>2. CASE proc[p].service \notin Implemented
  BY <1>2, ExitsStep DEF Control!Check
<1> QED
  BY <1>1, <1>2

LEMMA RunStep ==
    ASSUME ControlInv, NEW p \in Pids, Control!Run(p)
    PROVE  ControlInv'
<1>1. Control!Becomes(p, "running") /\ UNCHANGED pidfile /\ proc[p].is = "written"
        /\ proc[p].is \in Control!Starting
  BY DEF Control!Run, Control!Starting
<1> QED
  BY <1>1, BecomesStep

\* The process goes on itself, or in the child of a second fork, with another id.
LEMMA DaemonizeStep ==
    ASSUME ControlInv, NEW p \in Pids, Control!Daemonize(p)
    PROVE  ControlInv'
<1>1. proc[p].is = "launched" /\ UNCHANGED <<cmd, pidfile>> /\ proc[p].is \in Control!Starting
  BY DEF Control!Daemonize, Control!Starting
<1>2. CASE Control!FreePids = {}
  <2>1. Control!Becomes(p, "detached")
    BY <1>2 DEF Control!Daemonize, Control!Becomes
  <2> QED
    BY <1>1, <2>1, BecomesStep
<1>3. CASE Control!FreePids # {}
  <2>1. PICK q \in Control!FreePids : proc' =
          [proc EXCEPT ![p] = Control!Free, ![q] = [proc[p] EXCEPT !.is = "detached"]]
    BY <1>3 DEF Control!Daemonize
  <2> DEFINE r == [proc[p] EXCEPT !.is = "detached"]
  <2>2. r \in ProcRecs /\ r.is = "detached" /\ r.service = proc[p].service
    BY BecomesRec DEF Listening, Control!Starting
  <2>3. proc' = [proc EXCEPT ![p] = Control!Free, ![q] = r]
    BY <2>1
  <2> HIDE DEF r
  <2>4. q \in Pids /\ q # p /\ proc[q].is = "free"
    BY <1>1, <2>1 DEF Control!FreePids
  <2>5. /\ proc' \in [Pids -> ProcRecs] /\ proc'[p] = Control!Free /\ proc'[q] = r
        /\ \A o \in Pids : o # p /\ o # q => proc'[o] = proc[o]
    BY <2>2, <2>3, <2>4, FreeRec DEF ControlInv, ControlTyped
  <2>6. \A o \in Pids : proc'[o].is \in Listening =>
          \/ o # p /\ o # q /\ proc'[o] = proc[o]
          \/ o = q /\ proc'[o].is = "detached" /\ proc'[o].service = proc[p].service
    BY <2>2, <2>5, FreeRec
  <2>7. proc[p].is \in Listening /\ proc[p].service \in Services
    BY <1>1 DEF Listening, ControlInv, ControlTyped
  <2>8. ControlTyped'
    BY <1>1, <2>5, <2>6, <2>7 DEF ControlInv, ControlTyped
  <2>9. Sole'
    <3>1. ASSUME NEW o \in Pids, NEW u \in Pids, proc'[o].is \in Listening, proc'[u].is \in Listening,
                 proc'[o].service = proc'[u].service
          PROVE  o = u
      <4>1. \A x, y \in Pids : proc[x].is \in Listening /\ proc[y].is \in Listening
              /\ proc[x].service = proc[y].service
              => x = y
        BY DEF ControlInv, Sole
      <4>2. CASE o = q /\ u = q
        BY <4>2
      <4>3. CASE o = q /\ u # q
        <5>1. u # p /\ proc'[u] = proc[u] /\ proc'[o].service = proc[p].service
          BY <2>6, <3>1, <4>3
        <5> QED
          BY <2>7, <3>1, <4>1, <5>1
      <4>4. CASE o # q /\ u = q
        <5>1. o # p /\ proc'[o] = proc[o] /\ proc'[u].service = proc[p].service
          BY <2>6, <3>1, <4>4
        <5> QED
          BY <2>7, <3>1, <4>1, <5>1
      <4>5. CASE o # q /\ u # q
        <5>1. proc'[o] = proc[o] /\ proc'[u] = proc[u]
          BY <2>6, <3>1, <4>5
        <5> QED
          BY <3>1, <4>1, <5>1
      <4> QED
        BY <4>2, <4>3, <4>4, <4>5
    <3> QED
      BY <3>1 DEF Sole
  <2>10. FileInv'
    <3>1. ASSUME NEW o \in Pids PROVE NamedByFile(o)'
      <4>1. proc'[o].is \in {"opened", "written", "running"} => proc'[o] = proc[o]
        BY <2>6 DEF Listening, Control!Starting
      <4> QED
        BY <1>1, <4>1 DEF ControlInv, FileInv, NamedByFile
    <3> QED
      BY <1>1, <3>1 DEF ControlInv, FileInv
  <2>11. OneAtATime' /\ CmdInv'
    <3>1. \A o \in Pids : proc'[o].is \in Listening =>
            \/ proc[o].is = proc'[o].is /\ proc[o].service = proc'[o].service
            \/ proc[p].service = proc'[o].service /\ proc'[o].is = "detached"
      BY <2>6
    <3>2. \A o \in Pids : proc'[o].is \in Control!Starting =>
            \E u \in Pids : proc[u].is \in Control!Starting /\ proc[u].service = proc'[o].service
      BY <1>1, <3>1 DEF Listening
    <3>3. \A o \in Pids : proc'[o].is \in Listening =>
            \E u \in Pids : proc[u].is \in Listening /\ proc[u].service = proc'[o].service
      BY <2>7, <3>1
    <3>4. \A o \in Pids : proc'[o].is = "running" =>
            proc[o].is = "running" /\ proc[o].service = proc'[o].service
      BY <3>1 DEF Listening
    <3> QED
      BY <1>1, <3>2, <3>3, <3>4, CmdKept
  <2> QED
    BY <2>8, <2>9, <2>10, <2>11 DEF ControlInv
<1> QED
  BY <1>2, <1>3

\* The file is emptied, or made: no other process of the service is named by it.
LEMMA OpenPidFileStep ==
    ASSUME Control!ControlAssumption, ControlInv, NEW p \in Pids, Control!OpenPidFile(p)
    PROVE  ControlInv'
<1> DEFINE s == proc[p].service
           ino == IF pidfile[s] = Control!NoFile THEN p ELSE pidfile[s].ino
           f == [ino |-> ino, pid |-> 0]
           r == [proc[p] EXCEPT !.is = "opened", !.ino = ino]
<1>1. /\ proc[p].is = "checked" /\ UNCHANGED cmd
      /\ pidfile' = [pidfile EXCEPT ![s] = f]
  BY DEF Control!OpenPidFile
<1>2. proc[p].is \in Control!Starting /\ proc[p].is \in Listening /\ s \in Services
  BY <1>1 DEF Control!Starting, Listening, ControlInv, ControlTyped
<1>3. /\ proc \in [Pids -> ProcRecs] /\ pidfile \in [Services -> FileRecs]
      /\ \A u \in Services : pidfile[u] = Control!NoFile \/ pidfile[u].ino # 0
  BY DEF ControlInv, ControlTyped, FileInv
<1>4. ino \in Pids /\ ino # 0
  BY <1>2, <1>3, ControlTypes DEF FileRecs
<1>5. proc' = [proc EXCEPT ![p] = r]
  BY <1>3 DEF Control!OpenPidFile
<1> HIDE DEF ino
<1>6. r \in ProcRecs /\ r.is = "opened" /\ r.service = s /\ r.ino = ino
  BY <1>2, <1>3, <1>4 DEF ProcRecs, Listening, Control!Starting
<1>7. f \in FileRecs /\ f.ino = ino /\ f # Control!NoFile
  BY <1>4 DEF FileRecs, Control!NoFile
<1> HIDE DEF f, r
<1>8. "opened" \in Control!Starting /\ "opened" # "running"
  BY DEF Control!Starting
<1>9. /\ proc' \in [Pids -> ProcRecs] /\ OneAtATime' /\ CmdInv' /\ Sole'
      /\ proc'[p] = r /\ \A q \in Pids : q # p => proc'[q] = proc[q]
      /\ \A q \in Pids : proc'[q].is \in Listening => proc'[q].service \in Services
  BY <1>1, <1>2, <1>5, <1>6, <1>8, Advance
<1>10. /\ pidfile' \in [Services -> FileRecs] /\ pidfile'[s] = f
       /\ \A u \in Services : u # s => pidfile'[u] = pidfile[u]
  BY <1>1, <1>2, <1>3, <1>7
<1>11. ControlTyped'
  BY <1>1, <1>9, <1>10 DEF ControlInv, ControlTyped
<1>12. FileInv'
  <2>1. ASSUME NEW q \in Pids, q # p PROVE NamedByFile(q)'
    <3>1. proc'[q] = proc[q]
      BY <1>9, <2>1
    <3>2. proc[q].is \in Listening => proc[q].service # s /\ proc[q].service \in Services
      BY <1>2, <2>1 DEF ControlInv, Sole, ControlTyped
    <3>3. proc[q].is \in Listening => pidfile'[proc[q].service] = pidfile[proc[q].service]
      BY <1>10, <3>2
    <3> QED
      BY <3>1, <3>3 DEF ControlInv, FileInv, NamedByFile, Listening, Control!Starting
  <2>2. NamedByFile(p)'
    BY <1>6, <1>7, <1>9, <1>10 DEF NamedByFile
  <2>3. \A u \in Services : pidfile'[u] = Control!NoFile \/ pidfile'[u].ino # 0
    BY <1>3, <1>4, <1>7, <1>10
  <2> QED
    BY <2>1, <2>2, <2>3 DEF FileInv
<1> QED
  BY <1>9, <1>11, <1>12 DEF ControlInv

\* The id is written, to the file that was opened: it is still there.
LEMMA WritePidStep ==
    ASSUME Control!ControlAssumption, ControlInv, NEW p \in Pids, Control!WritePid(p)
    PROVE  ControlInv'
<1> DEFINE s == proc[p].service
           r == [proc[p] EXCEPT !.is = "written"]
           f == [pidfile[s] EXCEPT !.pid = p]
<1>1. proc[p].is = "opened" /\ UNCHANGED cmd
  BY DEF Control!WritePid, Control!Becomes
<1>2. proc[p].is \in Control!Starting /\ proc[p].is \in Listening /\ s \in Services
  BY <1>1 DEF Control!Starting, Listening, ControlInv, ControlTyped
<1>3. /\ proc \in [Pids -> ProcRecs] /\ pidfile \in [Services -> FileRecs]
      /\ \A u \in Services : pidfile[u] = Control!NoFile \/ pidfile[u].ino # 0
  BY DEF ControlInv, ControlTyped, FileInv
<1>4. pidfile[s] # Control!NoFile /\ pidfile[s].ino = proc[p].ino
  BY <1>1 DEF ControlInv, FileInv, NamedByFile
<1>5. pidfile' = [pidfile EXCEPT ![s] = f]
  BY <1>4 DEF Control!WritePid
<1>6. proc' = [proc EXCEPT ![p] = r]
  BY <1>3 DEF Control!WritePid, Control!Becomes
<1>7. r \in ProcRecs /\ r.is = "written" /\ r.service = s
  BY BecomesRec DEF Listening, Control!Starting
<1>8. pidfile[s] \in FileRecs /\ pidfile[s].ino # 0
  BY <1>2, <1>3, <1>4
<1>9. f \in FileRecs /\ f.pid = p /\ f.ino # 0
  BY <1>8 DEF FileRecs
<1> HIDE DEF f, r
<1>10. "written" \in Control!Starting /\ "written" # "running"
  BY DEF Control!Starting
<1>11. /\ proc' \in [Pids -> ProcRecs] /\ OneAtATime' /\ CmdInv' /\ Sole'
       /\ proc'[p] = r /\ \A q \in Pids : q # p => proc'[q] = proc[q]
       /\ \A q \in Pids : proc'[q].is \in Listening => proc'[q].service \in Services
  BY <1>1, <1>2, <1>6, <1>7, <1>10, Advance
<1>12. /\ pidfile' \in [Services -> FileRecs] /\ pidfile'[s] = f
       /\ \A u \in Services : u # s => pidfile'[u] = pidfile[u]
  BY <1>2, <1>3, <1>5, <1>9
<1>13. ControlTyped'
  BY <1>1, <1>11, <1>12 DEF ControlInv, ControlTyped
<1>14. FileInv'
  <2>1. ASSUME NEW q \in Pids, q # p PROVE NamedByFile(q)'
    <3>1. proc'[q] = proc[q]
      BY <1>11, <2>1
    <3>2. proc[q].is \in Listening => proc[q].service # s /\ proc[q].service \in Services
      BY <1>2, <2>1 DEF ControlInv, Sole, ControlTyped
    <3>3. proc[q].is \in Listening => pidfile'[proc[q].service] = pidfile[proc[q].service]
      BY <1>12, <3>2
    <3> QED
      BY <3>1, <3>3 DEF ControlInv, FileInv, NamedByFile, Listening, Control!Starting
  <2>2. NamedByFile(p)'
    BY <1>7, <1>9, <1>11, <1>12 DEF NamedByFile
  <2>3. \A u \in Services : pidfile'[u] = Control!NoFile \/ pidfile'[u].ino # 0
    BY <1>3, <1>9, <1>12
  <2> QED
    BY <2>1, <2>2, <2>3 DEF FileInv
<1> QED
  BY <1>11, <1>13, <1>14 DEF ControlInv

\* Another process takes an id.
LEMMA OtherStartsStep ==
    ASSUME ControlInv, NEW p \in Pids, Control!OtherStarts(p)
    PROVE  ControlInv'
<1> DEFINE r == [proc[p] EXCEPT !.is = "other"]
<1>1. proc[p] \in ProcRecs /\ UNCHANGED <<cmd, pidfile>> /\ proc' = [proc EXCEPT ![p] = r]
  BY DEF Control!OtherStarts, ControlInv, ControlTyped
<1>2. r \in ProcRecs /\ r.is = "other" /\ r.is \notin Listening
  BY <1>1 DEF ProcRecs, Listening, Control!Starting
<1> HIDE DEF r
<1>3. /\ proc' \in [Pids -> ProcRecs]
      /\ \A q \in Pids : proc'[q].is \in Listening => proc'[q] = proc[q]
  BY <1>1, <1>2 DEF ControlInv, ControlTyped
<1>4. ControlTyped'
  BY <1>1, <1>3 DEF ControlInv, ControlTyped
<1>5. Sole'
  BY <1>3 DEF ControlInv, Sole
<1>6. FileInv'
  <2>1. ASSUME NEW q \in Pids PROVE NamedByFile(q)'
    <3>1. proc'[q].is \in {"opened", "written", "running"} => proc'[q] = proc[q]
      BY <1>3 DEF Listening, Control!Starting
    <3> QED
      BY <1>1, <3>1 DEF ControlInv, FileInv, NamedByFile
  <2> QED
    BY <1>1, <2>1 DEF ControlInv, FileInv
<1>7. OneAtATime' /\ CmdInv'
  <2>1. \A q \in Pids : proc'[q].is \in Control!Starting \/ proc'[q].is = "running" => proc'[q] = proc[q]
    BY <1>3 DEF Listening
  <2> QED
    BY <1>1, <1>3, <2>1, CmdKept
<1> QED
  BY <1>4, <1>5, <1>6, <1>7 DEF ControlInv

-----------------------------------------------------------------------------
LEMMA ControlInit == Control!Init => ControlInv
<1> SUFFICES ASSUME Control!Init PROVE ControlInv
  OBVIOUS
<1>1. Control!NoCmd \in CmdRecs /\ Control!NoCmd.pc = "none" /\ Control!NoCmd.action = "none"
  BY DEF Control!NoCmd, CmdRecs
<1>2. Control!NoFile \in FileRecs
  BY DEF Control!NoFile, FileRecs
<1>3. (\A c \in Commands : cmd[c] = Control!NoCmd) /\ \A p \in Pids : proc[p].is \notin Listening
  BY FreeRec DEF Control!Init
<1>4. ControlTyped
  BY <1>1, <1>2, <1>3, FreeRec DEF Control!Init, ControlTyped
<1>5. OneAtATime /\ Sole
  BY <1>1, <1>3 DEF OneAtATime, Sole, Active
<1>6. FileInv
  <2>1. \A p \in Pids : proc[p].is \notin {"opened", "written", "running"}
    BY <1>3 DEF Listening, Control!Starting
  <2> QED
    BY <2>1 DEF FileInv, NamedByFile, Control!Init
<1>7. CmdInv
  <2>1. \A c \in Commands : CmdOK(cmd[c])
    BY <1>1, <1>3 DEF CmdOK, StartOK, StopOK, KillOK
  <2> QED
    BY <2>1 DEF CmdInv
<1> QED
  BY <1>4, <1>5, <1>6, <1>7 DEF ControlInv

LEMMA ControlNext ==
    ASSUME Control!ControlAssumption, Careful, ControlInv, Control!Next
    PROVE  ControlInv'
<1>1. CASE \E c \in Commands, action \in {"start", "stop"} :
             \/ Control!Command(c, action, Services)
             \/ \E s \in Services : Control!Command(c, action, {s})
  <2>1. PICK c \in Commands, action \in {"start", "stop"}, only
          \in SUBSET Services : Control!Command(c, action, only)
    BY <1>1
  <2> QED
    BY <2>1, CommandStep
<1>2. CASE \E c \in Commands :
             \/ Control!Bootstrap(c) \/ Control!SettingsFail(c) \/ Control!Settings(c)
             \/ Control!Skip(c) \/ Control!Done(c) \/ Control!Fork(c) \/ Control!ReadPid(c)
                  \/ Control!Kill(c) \/ Control!Unlink(c)
  <2>1. PICK c \in Commands :
          \/ Control!Bootstrap(c) \/ Control!SettingsFail(c) \/ Control!Settings(c)
          \/ Control!Skip(c) \/ Control!Done(c) \/ Control!Fork(c) \/ Control!ReadPid(c)
               \/ Control!Kill(c) \/ Control!Unlink(c)
    BY <1>2
  <2> QED
    BY <2>1, BootstrapStep, SettingsFailStep, SettingsStep, SkipStep, DoneStep, ForkStep, ReadPidStep,
       KillStep, UnlinkStep
<1>3. CASE \E p \in Pids :
             \/ Control!Daemonize(p) \/ Control!Check(p) \/ Control!OpenPidFile(p)
                  \/ Control!OpenPidFileFails(p) \/ Control!WritePid(p)
             \/ Control!Run(p) \/ Control!Exit(p) \/ Control!OtherStarts(p) \/ Control!OtherEnds(p)
  <2>1. PICK p \in Pids :
          \/ Control!Daemonize(p) \/ Control!Check(p) \/ Control!OpenPidFile(p)
               \/ Control!OpenPidFileFails(p) \/ Control!WritePid(p)
          \/ Control!Run(p) \/ Control!Exit(p) \/ Control!OtherStarts(p) \/ Control!OtherEnds(p)
    BY <1>3
  <2>2. (Control!OpenPidFileFails(p) \/ Control!Exit(p) \/ Control!OtherEnds(p)) => Control!Exits(p)
    BY DEF Control!OpenPidFileFails, Control!Exit, Control!OtherEnds
  <2> QED
    BY <2>1, <2>2, DaemonizeStep, CheckStep, OpenPidFileStep, ExitsStep, WritePidStep, RunStep,
      OtherStartsStep
<1> QED
  BY <1>1, <1>2, <1>3 DEF Control!Next

\* The inductive invariant of commands that are given with care: a service has one process
\* at most, its pid file is the one that the process opened, and names it once it is written.
THEOREM ControlInvariance ==
    ASSUME Control!ControlAssumption, Careful
    PROVE  Control!Spec => []ControlInv
<1>1. Control!Init => ControlInv
  BY ControlInit
<1>2. ControlInv /\ [Control!Next]_Control!vars => ControlInv'
  <2> SUFFICES ASSUME ControlInv, [Control!Next]_Control!vars PROVE ControlInv'
    OBVIOUS
  <2>1. CASE Control!Next
    BY <2>1, ControlNext
  <2>2. CASE UNCHANGED Control!vars
    <3>1. \A s, states : Control!Of(s, states)' = Control!Of(s, states)
      BY <2>2 DEF Control!vars, Control!Of
    <3>2. \A c \in Commands : CmdOK(cmd[c])'
      <4>1. \A c \in Commands : CmdOK(cmd[c]) /\ cmd'[c] = cmd[c]
        BY <2>2 DEF Control!vars, ControlInv, CmdInv
      <4> QED
        BY <3>1, <4>1 DEF CmdOK, StartOK, StopOK, KillOK, Active
    <3>3. ControlTyped' /\ OneAtATime' /\ Sole' /\ FileInv'
      BY <2>2 DEF Control!vars, ControlInv, ControlTyped, OneAtATime, Active, Sole, FileInv, NamedByFile
    <3> QED
      BY <3>2, <3>3 DEF ControlInv, CmdInv
  <2> QED
    BY <2>1, <2>2
<1> QED
  BY <1>1, <1>2, PTL DEF Control!Spec

\* Every listener that runs is the one that its pid file names, for any services and any
\* number of processes that take ids which were used before.
THEOREM ListenersNamed ==
    ASSUME Control!ControlAssumption
    PROVE  (Control!Spec => []Control!ListenerNamed) /\ (ProcessesSpec => []ListenerNamed)
<1>1. ASSUME Careful PROVE Control!Spec => []Control!ListenerNamed
  <2>1. ControlInv => Control!ListenerNamed
    BY DEF ControlInv, FileInv, NamedByFile, Control!ListenerNamed
  <2>2. Control!Spec => []ControlInv
    BY <1>1, ControlInvariance
  <2> QED
    BY <2>1, <2>2, PTL
<1>2. ASSUME ~Careful PROVE Control!Spec => []Control!ListenerNamed
  <2>1. Control!ListenerNamed
    BY <1>2 DEF Control!ListenerNamed
  <2> QED
    BY <2>1, PTL
<1>3. Control!Spec => []Control!ListenerNamed
  BY <1>1, <1>2
<1>4. Control!ListenerNamed => ListenerNamed
  BY DEF ListenerNamed
<1> QED
  BY <1>3, <1>4, ControlWithin, PTL

\* A stop that went through the list leaves no listener of its services, nor one that starts.
THEOREM StopsStop ==
    ASSUME Control!ControlAssumption, OneCommand
    PROVE  (Control!Spec => []Control!StopStops) /\ (ProcessesSpec => []StopStops)
<1>1. ASSUME Careful PROVE Control!Spec => []Control!StopStops
  <2>1. ASSUME ControlInv PROVE Control!StopStops
    <3> SUFFICES ASSUME NEW c \in Commands, cmd[c].action = "stop", cmd[c].next > Len(Apps),
                        NEW s \in CServices \cap cmd[c].only
                 PROVE  Control!Of(s, {"running"} \cup Control!Starting) = {}
      BY DEF Control!StopStops
    <3>1. StopOK(cmd[c]) /\ cmd[c] \in CmdRecs
      BY <2>1 DEF ControlInv, ControlTyped, CmdInv, CmdOK
    <3>2. /\ \A u \in Services : Control!Of(u, Control!Starting) = {}
          /\ \A j \in DOMAIN Apps : j < cmd[c].next /\ Apps[j] \in CServices \cap cmd[c].only
               => Control!Of(Apps[j], {"running"}) = {}
      BY <3>1 DEF StopOK
    <3>3. s \in Services
      BY <3>1 DEF CmdRecs
    <3>4. PICK j \in DOMAIN Apps : Apps[j] = s
      BY <3>3 DEF Control!ControlAssumption
    <3>5. j < cmd[c].next
      <4>1. cmd[c].next \in Int /\ Len(Apps) \in Int /\ j \in 1 .. Len(Apps)
        BY <3>1, <3>4, ControlTypes DEF CmdRecs
      <4> QED
        BY <4>1
    <3>6. Control!Of(s, Control!Starting) = {} /\ Control!Of(s, {"running"}) = {}
      BY <3>2, <3>3, <3>4, <3>5
    <3> QED
      BY <3>6 DEF Control!Of
  <2>2. Control!Spec => []ControlInv
    BY <1>1, ControlInvariance
  <2> QED
    BY <2>1, <2>2, PTL
<1>2. ASSUME ~Careful PROVE Control!Spec => []Control!StopStops
  <2>1. Control!StopStops
    BY <1>2 DEF Control!StopStops
  <2> QED
    BY <2>1, PTL
<1>3. Control!Spec => []Control!StopStops
  BY <1>1, <1>2
<1>4. Control!StopStops => StopStops
  BY DEF StopStops
<1> QED
  BY <1>3, <1>4, ControlWithin, PTL
=============================================================================
