--------------------------- MODULE PreforkProofs ---------------------------
(***************************************************************************)
(* Proofs about Prefork: whatever the number of children and requests, and *)
(* whichever signals and crashes come, the lists of the parent agree with  *)
(* its processes, each request is in one place, none is lost without a     *)
(* crash or SIGHUP, and a graceful shutdown kills no child at work.        *)
(*                                                                         *)
(* The invariant IInv has one part per concern: the lists (ListsInv), what *)
(* the loops over children have in work (LoopInv), what each child has     *)
(* (LoadInv), where each request is (RequestInv), and why one can be lost  *)
(* (CauseInv).  Each part is shown to be kept by itself, from the whole    *)
(* invariant, over the same kinds of steps (StepLemma).                    *)
(***************************************************************************)
EXTENDS Prefork, FiniteSetTheorems, TLAPS

NoDup(s) == \A i, j \in DOMAIN s : s[i] = s[j] => i = j

-----------------------------------------------------------------------------
(* Lists.                                                                  *)

\* A list that is a function on an initial segment.
LEMMA ListFacts ==
    ASSUME NEW S, NEW s \in Seq(S)
    PROVE  /\ Len(s) \in Nat /\ DOMAIN s = 1 .. Len(s)
           /\ \A i \in DOMAIN s : s[i] \in S
           /\ Here(s) \subseteq S
           /\ s = << >> <=> Len(s) = 0
           /\ s = << >> <=> Here(s) = {}
<1>1. Len(s) \in Nat /\ DOMAIN s = 1 .. Len(s) /\ \A i \in DOMAIN s : s[i] \in S
  OBVIOUS
<1>2. s = << >> <=> Len(s) = 0
  OBVIOUS
<1>3. Here(s) \subseteq S
  BY <1>1 DEF Here
<1>4. Len(s) = 0 => Here(s) = {}
  BY <1>1 DEF Here
<1>5. ASSUME Len(s) # 0 PROVE Here(s) # {}
  <2>1. 1 \in DOMAIN s
    BY <1>1, <1>5
  <2> QED
    BY <2>1 DEF Here
<1> QED
  BY <1>1, <1>2, <1>3, <1>4, <1>5

\* How many numbers of a set are not above x.
Rank(S, x) == Cardinality({y \in S : y <= x})

\* No two numbers of a finite set have one rank, and the ranks are 1 .. Cardinality(S).
LEMMA RankLemma ==
    ASSUME NEW S, S \subseteq Nat, IsFiniteSet(S)
    PROVE  /\ \A x \in S : Rank(S, x) \in 1 .. Cardinality(S)
           /\ \A x, y \in S : x < y => Rank(S, x) < Rank(S, y)
           /\ \A n \in 1 .. Cardinality(S) : \E x \in S : Rank(S, x) = n
<1> DEFINE Up(x) == {y \in S : y <= x}
<1>1. \A x \in S : IsFiniteSet(Up(x)) /\ Cardinality(Up(x)) \in Nat /\ Cardinality(Up(x)) <= Cardinality(S)
  <2>1. SUFFICES ASSUME NEW x \in S
                 PROVE  IsFiniteSet(Up(x)) /\ Cardinality(Up(x)) \in Nat /\ Cardinality(Up(x)) <= Cardinality(S)
    OBVIOUS
  <2>2. Up(x) \in SUBSET S
    OBVIOUS
  <2> HIDE DEF Up
  <2> QED
    BY <2>2, FS_Subset, FS_CardinalityType
<1>2. \A x \in S : x \in Up(x)
  OBVIOUS
<1>3. ASSUME NEW x \in S, NEW y \in S, x < y
      PROVE  Up(x) \subseteq Up(y) /\ y \notin Up(x)
  <2>1. x \in Nat /\ y \in Nat
    OBVIOUS
  <2>2. \A z \in S : z <= x => z <= y
    <3>1. SUFFICES ASSUME NEW z \in S, z <= x PROVE z <= y
      OBVIOUS
    <3>2. z \in Nat
      OBVIOUS
    <3> QED
      BY <2>1, <3>1, <3>2, <1>3
  <2>3. ~(y <= x)
    BY <2>1, <1>3
  <2> QED
    BY <2>2, <2>3
<1>4. \A x \in S : Rank(S, x) = Cardinality(Up(x))
  BY DEF Rank
<1> HIDE DEF Up
<1>5. \A x \in S : Rank(S, x) \in 1 .. Cardinality(S)
  <2>1. \A x \in S : Cardinality(Up(x)) # 0
    BY <1>1, <1>2, FS_EmptySet
  <2>2. Cardinality(S) \in Nat
    BY FS_CardinalityType
  <2> QED
    BY <1>1, <1>4, <2>1, <2>2
<1>6. ASSUME NEW x \in S, NEW y \in S, x < y
      PROVE  Rank(S, x) < Rank(S, y)
  <2>1. Up(x) \in SUBSET Up(y) /\ Up(x) # Up(y)
    BY <1>2, <1>3, <1>6
  <2>2. Cardinality(Up(x)) <= Cardinality(Up(y)) /\ Cardinality(Up(x)) # Cardinality(Up(y))
    BY <2>1, <1>1, FS_Subset
  <2> QED
    BY <2>2, <1>1, <1>4
<1>7. \A n \in 1 .. Cardinality(S) : \E x \in S : Rank(S, x) = n
  <2> DEFINE T == 1 .. Cardinality(S)
             f == [x \in S |-> Rank(S, x)]
  <2>1. Cardinality(S) \in Nat
    BY FS_CardinalityType
  <2>2. IsFiniteSet(T) /\ Cardinality(T) = Cardinality(S)
    BY <2>1, FS_Interval
  <2>3. f \in [S -> T]
    BY <1>5
  <2>4. \A x, y \in S : f[x] = f[y] => x = y
    <3>1. SUFFICES ASSUME NEW x \in S, NEW y \in S, Rank(S, x) = Rank(S, y) PROVE x = y
      OBVIOUS
    <3>2. x \in Nat /\ y \in Nat /\ Rank(S, x) \in Int
      BY <1>5, <2>1
    <3>3. ~(x < y) /\ ~(y < x)
      BY <1>6, <3>1, <3>2
    <3> QED
      BY <3>2, <3>3
  <2> HIDE DEF T
  <2>5. f \in Injection(S, T)
    BY <2>3, <2>4 DEF Injection, IsInjective
  <2>6. f \in Surjection(S, T)
    BY <2>2, <2>5, FS_Injection
  <2>7. \A n \in T : \E x \in S : f[x] = n
    BY <2>6 DEF Surjection
  <2> QED
    BY <2>7 DEF T
<1> QED
  BY <1>5, <1>6, <1>7

\* Ascending lists the numbers of a set, each once.
LEMMA AscendingLemma ==
    ASSUME NEW S, S \subseteq Nat, IsFiniteSet(S)
    PROVE  /\ Ascending(S) \in Seq(S)
           /\ Len(Ascending(S)) = Cardinality(S)
           /\ NoDup(Ascending(S))
           /\ Here(Ascending(S)) = S
<1> DEFINE a == Ascending(S)
<1>1. Cardinality(S) \in Nat
  BY FS_CardinalityType
<1>2. a = [n \in 1 .. Cardinality(S) |-> CHOOSE x \in S : Rank(S, x) = n]
  BY DEF Ascending, Rank
<1> HIDE DEF a
<1>3. \A n \in 1 .. Cardinality(S) : a[n] \in S /\ Rank(S, a[n]) = n
  BY <1>2, RankLemma
<1>4. a \in Seq(S) /\ Len(a) = Cardinality(S) /\ DOMAIN a = 1 .. Cardinality(S)
  BY <1>1, <1>2, <1>3
<1>5. NoDup(a)
  BY <1>3, <1>4 DEF NoDup
<1>6. S \subseteq Here(a)
  <2>1. SUFFICES ASSUME NEW x \in S PROVE x \in Here(a)
    OBVIOUS
  <2>2. PICK n \in 1 .. Cardinality(S) : n = Rank(S, x)
    BY RankLemma
  <2>3. a[n] \in S /\ Rank(S, a[n]) = n
    BY <1>3, <2>2
  <2>4. a[n] = x
    <3>1. a[n] \in Nat /\ x \in Nat
      BY <2>3
    <3>3. n \in Int
      BY <1>1
    <3>2. ~(a[n] < x) /\ ~(x < a[n])
      <4>1. ~(n < n)
        BY <3>3
      <4>2. (a[n] < x => n < n) /\ (x < a[n] => n < n)
        BY RankLemma, <2>2, <2>3
      <4> QED
        BY <4>1, <4>2
    <3> QED
      BY <3>1, <3>2
  <2> QED
    BY <2>2, <2>4, <1>4 DEF Here
<1>7. Here(a) \subseteq S
  BY <1>3, <1>4 DEF Here
<1> QED
  BY <1>4, <1>5, <1>6, <1>7 DEF a

\* A list without repetitions is as long as its set of elements is large.
LEMMA LengthLemma ==
    ASSUME NEW S, NEW s \in Seq(S), NoDup(s)
    PROVE  IsFiniteSet(Here(s)) /\ Cardinality(Here(s)) = Len(s)
<1>1. Len(s) \in Nat /\ DOMAIN s = 1 .. Len(s)
  BY ListFacts
<1>2. IsFiniteSet(1 .. Len(s)) /\ Cardinality(1 .. Len(s)) = Len(s)
  BY <1>1, FS_Interval
<1>3. s \in [1 .. Len(s) -> Here(s)]
  BY <1>1 DEF Here
<1>4. s \in Surjection(1 .. Len(s), Here(s))
  BY <1>1, <1>3 DEF Surjection, Here
<1>5. s \in Injection(1 .. Len(s), Here(s))
  BY <1>1, <1>3 DEF Injection, IsInjective, NoDup
<1>6. IsFiniteSet(Here(s)) /\ (Cardinality(Here(s)) = Cardinality(1 .. Len(s)) <=> s \in Injection(1 .. Len(s), Here(s)))
  BY <1>2, <1>4, FS_Surjection
<1> QED
  BY <1>2, <1>5, <1>6

\* Those keeps of a list what is in the set, and nothing twice.
LEMMA ThoseLemma ==
    ASSUME NEW P, NEW l \in Seq(P), NEW S
    PROVE  /\ Those(l, S) \in Seq(P)
           /\ NoDup(l) => NoDup(Those(l, S))
           /\ Here(Those(l, S)) = Here(l) \cap S
<1> DEFINE I  == {i \in DOMAIN l : l[i] \in S}
           at == Ascending(I)
           r  == Those(l, S)
<1>1. Len(l) \in Nat /\ DOMAIN l = 1 .. Len(l) /\ \A i \in DOMAIN l : l[i] \in P
  BY ListFacts
<1>2. I \in SUBSET (1 .. Len(l))
  BY <1>1
<1>3. I \subseteq DOMAIN l /\ (\A i \in I : l[i] \in S) /\ \A i \in DOMAIN l : l[i] \in S => i \in I
  OBVIOUS
<1>4. r = [n \in DOMAIN at |-> l[at[n]]]
  BY DEF Those
<1> HIDE DEF I, r
<1>5. I \subseteq Nat /\ IsFiniteSet(I)
  <2>1. IsFiniteSet(1 .. Len(l))
    BY <1>1, FS_Interval
  <2>2. 1 .. Len(l) \subseteq Nat
    BY <1>1
  <2> QED
    BY <2>1, <2>2, <1>2, FS_Subset
<1>6. at \in Seq(I) /\ NoDup(at) /\ Here(at) = I
  BY <1>5, AscendingLemma
<1> HIDE DEF at
<1>7. Len(at) \in Nat /\ DOMAIN at = 1 .. Len(at) /\ \A n \in DOMAIN at : at[n] \in I
  BY <1>6, ListFacts
<1>8. DOMAIN r = DOMAIN at /\ \A n \in DOMAIN at : r[n] = l[at[n]] /\ r[n] \in P /\ r[n] \in S
  BY <1>1, <1>3, <1>4, <1>7
<1>9. r \in Seq(P)
  BY <1>4, <1>7, <1>8
<1>10. NoDup(l) => NoDup(r)
  BY <1>3, <1>6, <1>7, <1>8 DEF NoDup
<1>11. Here(r) \subseteq Here(l) \cap S
  BY <1>3, <1>7, <1>8 DEF Here
<1>12. ASSUME NEW x \in Here(l) \cap S PROVE x \in Here(r)
  <2>1. PICK i \in DOMAIN l : l[i] = x
    BY DEF Here
  <2>2. i \in I
    BY <2>1, <1>3, <1>12
  <2>3. PICK n \in DOMAIN at : at[n] = i
    BY <2>2, <1>6 DEF Here
  <2> QED
    BY <2>1, <2>3, <1>8 DEF Here
<1> QED
  BY <1>9, <1>10, <1>11, <1>12 DEF r

\* Without keeps of a list what is not in the set.
LEMMA WithoutLemma ==
    ASSUME NEW P, NEW l \in Seq(P), NEW S
    PROVE  /\ Without(l, S) \in Seq(P)
           /\ NoDup(l) => NoDup(Without(l, S))
           /\ Here(Without(l, S)) = Here(l) \ S
<1>1. Without(l, S) = Those(l, Here(l) \ S)
  BY DEF Without
<1> QED
  BY <1>1, ThoseLemma

\* Two lists without a common element, one after the other.
LEMMA ConcatLemma ==
    ASSUME NEW P, NEW l \in Seq(P), NEW k \in Seq(P)
    PROVE  /\ l \o k \in Seq(P)
           /\ NoDup(l) /\ NoDup(k) /\ Here(l) \cap Here(k) = {} => NoDup(l \o k)
           /\ Here(l \o k) = Here(l) \cup Here(k)
<1> DEFINE r == l \o k
<1>1. /\ Len(l) \in Nat /\ DOMAIN l = 1 .. Len(l) /\ \A i \in DOMAIN l : l[i] \in P
      /\ Len(k) \in Nat /\ DOMAIN k = 1 .. Len(k) /\ \A i \in DOMAIN k : k[i] \in P
  BY ListFacts
<1>2. /\ r \in Seq(P) /\ Len(r) = Len(l) + Len(k) /\ DOMAIN r = 1 .. Len(l) + Len(k)
      /\ \A i \in 1 .. Len(l) + Len(k) : r[i] = IF i <= Len(l) THEN l[i] ELSE k[i - Len(l)]
  BY <1>1
<1> HIDE DEF r
<1>3. /\ \A i \in 1 .. Len(l) : i \in DOMAIN r /\ r[i] = l[i]
      /\ \A i \in 1 .. Len(k) : i + Len(l) \in DOMAIN r /\ r[i + Len(l)] = k[i]
  <2>1. ASSUME NEW i \in 1 .. Len(k) PROVE i + Len(l) \in DOMAIN r /\ r[i + Len(l)] = k[i]
    <3>1. i + Len(l) \in 1 .. Len(l) + Len(k) /\ ~(i + Len(l) <= Len(l)) /\ (i + Len(l)) - Len(l) = i
      BY <1>1
    <3> QED
      BY <3>1, <1>2
  <2> QED
    BY <2>1, <1>1, <1>2
<1>4. \A i \in DOMAIN r : \/ i \in DOMAIN l /\ r[i] = l[i]
                          \/ i - Len(l) \in DOMAIN k /\ r[i] = k[i - Len(l)]
  BY <1>1, <1>2
<1>5. Here(r) = Here(l) \cup Here(k)
  <2>1. Here(r) \subseteq Here(l) \cup Here(k)
    BY <1>4 DEF Here
  <2>2. Here(l) \subseteq Here(r)
    BY <1>1, <1>3 DEF Here
  <2>3. Here(k) \subseteq Here(r)
    BY <1>1, <1>3 DEF Here
  <2> QED
    BY <2>1, <2>2, <2>3
<1>6. ASSUME NoDup(l), NoDup(k), Here(l) \cap Here(k) = {}, NEW i \in DOMAIN r, NEW j \in DOMAIN r, r[i] = r[j]
      PROVE  i = j
  <2>1. i \in Int /\ j \in Int
    BY <1>1, <1>2
  <2>2. CASE i \in DOMAIN l /\ r[i] = l[i]
    <3>1. r[i] \notin Here(k)
      BY <2>2, <1>6 DEF Here
    <3>2. j \in DOMAIN l /\ r[j] = l[j]
      BY <3>1, <1>4, <1>6 DEF Here
    <3> QED
      BY <2>2, <3>2, <1>6 DEF NoDup
  <2>3. CASE i - Len(l) \in DOMAIN k /\ r[i] = k[i - Len(l)]
    <3>1. r[i] \notin Here(l)
      BY <2>3, <1>6 DEF Here
    <3>2. j - Len(l) \in DOMAIN k /\ r[j] = k[j - Len(l)]
      BY <3>1, <1>4, <1>6 DEF Here
    <3>3. i - Len(l) = j - Len(l)
      BY <2>3, <3>2, <1>6 DEF NoDup
    <3> QED
      BY <3>3, <2>1, <1>1
  <2> QED
    BY <2>2, <2>3, <1>4
<1> QED
  BY <1>2, <1>5, <1>6 DEF r, NoDup

\* One more element at the end.
LEMMA AppendLemma ==
    ASSUME NEW P, NEW l \in Seq(P), NEW x \in P
    PROVE  /\ Append(l, x) \in Seq(P) /\ Append(l, x) # << >>
           /\ Len(Append(l, x)) = Len(l) + 1
           /\ NoDup(l) /\ x \notin Here(l) => NoDup(Append(l, x))
           /\ Here(Append(l, x)) = Here(l) \cup {x}
<1> DEFINE t == Append(l, x)
<1>1. /\ t \in Seq(P) /\ Len(t) = Len(l) + 1 /\ DOMAIN t = 1 .. Len(l) + 1
      /\ DOMAIN l = 1 .. Len(l) /\ Len(l) \in Nat
      /\ t[Len(l) + 1] = x /\ \A j \in 1 .. Len(l) : t[j] = l[j]
  OBVIOUS
<1> HIDE DEF t
<1>2. Here(t) \subseteq Here(l) \cup {x}
  BY <1>1 DEF Here
<1>3. /\ \A j \in DOMAIN l : j \in DOMAIN t /\ t[j] = l[j]
      /\ Len(l) + 1 \in DOMAIN t
  BY <1>1
<1>4. Here(l) \cup {x} \subseteq Here(t)
  BY <1>1, <1>3 DEF Here
<1>5. NoDup(l) /\ x \notin Here(l) => NoDup(t)
  BY <1>1 DEF NoDup, Here
<1>6. t # << >>
  BY <1>1
<1> QED
  BY <1>1, <1>2, <1>4, <1>5, <1>6 DEF t

\* The first element, and the others.
LEMMA HeadTailLemma ==
    ASSUME NEW P, NEW l \in Seq(P), l # << >>
    PROVE  /\ Head(l) \in Here(l) /\ Head(l) \in P /\ Tail(l) \in Seq(P)
           /\ Len(Tail(l)) = Len(l) - 1
           /\ Here(l) = Here(Tail(l)) \cup {Head(l)}
           /\ NoDup(l) => NoDup(Tail(l)) /\ Head(l) \notin Here(Tail(l))
<1> DEFINE t == Tail(l)
<1>1. /\ t \in Seq(P) /\ Len(t) = Len(l) - 1 /\ DOMAIN t = 1 .. Len(l) - 1
      /\ DOMAIN l = 1 .. Len(l) /\ Len(l) \in Nat /\ 1 \in DOMAIN l
      /\ Head(l) = l[1] /\ \A j \in 1 .. Len(l) - 1 : t[j] = l[j + 1]
  OBVIOUS
<1> HIDE DEF t
<1>2. Head(l) \in Here(l) /\ Here(t) \subseteq Here(l)
  <2>1. \A j \in DOMAIN t : j + 1 \in DOMAIN l /\ t[j] = l[j + 1]
    BY <1>1
  <2> QED
    BY <2>1, <1>1 DEF Here
<1>3. ASSUME NEW i \in DOMAIN l, i # 1 PROVE l[i] \in Here(t)
  <2>1. i - 1 \in DOMAIN t /\ t[i - 1] = l[i]
    BY <1>1, <1>3
  <2> QED
    BY <2>1 DEF Here
<1>4. Here(l) = Here(t) \cup {Head(l)}
  BY <1>1, <1>2, <1>3 DEF Here
<1>5. ASSUME NoDup(l) PROVE NoDup(t) /\ Head(l) \notin Here(t)
  <2>1. \A j \in DOMAIN t : j + 1 \in DOMAIN l /\ j + 1 # 1 /\ t[j] = l[j + 1]
    BY <1>1
  <2>2. NoDup(t)
    BY <2>1, <1>1, <1>5 DEF NoDup
  <2>3. \A j \in DOMAIN t : t[j] # l[1]
    BY <2>1, <1>1, <1>5 DEF NoDup
  <2> QED
    BY <2>2, <2>3, <1>1 DEF Here
<1>6. Head(l) \in P
  BY <1>1
<1> QED
  BY <1>1, <1>2, <1>4, <1>5, <1>6 DEF t
-----------------------------------------------------------------------------
(* The inductive invariant.                                                *)

Own == Pids \ Free

Listed == Here(idle) \cup Here(active)

\* While the server runs, the lists name no child twice, and each child but the one in
\* hand once; the count is that of the children, and at most max_children.
ListsInv ==
    ~Gone =>
      /\ NoDup(idle) /\ NoDup(active) /\ Here(idle) \cap Here(active) = {}
      /\ Listed \subseteq Own /\ Own \ Listed \subseteq hand
      /\ ~Stopping => hand \subseteq Own \ Listed
      /\ ~Stopping /\ pc \notin {"give", "add", "push"} => hand = {}
      /\ pc \in {"give", "add"} => \E p \in Pids : hand = {p}
      /\ ~Stopping /\ pc = "push" => hand = {Head(todo)}
      /\ num = Cardinality(Own) /\ num <= MaxChildren

Empty(p) == data[p] = << >> /\ work[p] = << >> /\ status[p] = 0

\* The places within reap_children and within the loop of check_children.
Loops == {"bury", "delete", "refill", "read", "settle", "unlink", "push"}

\* What the loops have in work: a child that was waited for; one whose answer is out of
\* its pipe, and others, still in the active list, whose answer is not.
LoopInv ==
    /\ then # "none" <=> pc \in Loops
    /\ pc = "delete" => \E p \in Pids : todo = <<p>> /\ proc[p] = "reaped"
    /\ pc \in {"read", "settle", "unlink", "push"} =>
         /\ todo # << >> /\ NoDup(todo)
         /\ \A q \in Here(Tail(todo)) : q \in Here(active) /\ status[q] > 0
    /\ pc \in {"read", "settle", "unlink"} => Head(todo) \in Here(active)
    /\ pc = "read" => status[Head(todo)] > 0
    /\ pc \in {"settle", "unlink", "push"} => Empty(Head(todo))
    /\ pc = "push" => Head(todo) \in Own \ Listed

\* A child has one request or one answer at most, an idle one neither, and what it has
\* read fits with what it does.
Fits(p) ==
    /\ Len(data[p]) + Len(work[p]) + status[p] <= 1
    /\ p \in Here(idle) => Empty(p)
    /\ proc[p] = "none" => Empty(p) /\ served[p] = 0
    /\ proc[p] \in {"start", "ready"} => work[p] = << >>
    /\ proc[p] = "busy" => Len(work[p]) = 1
    /\ p \in Living => served[p] < MaxRequests

LoadInv ==
    /\ Gone => idle = << >>
    /\ pc = "give" => \A p \in hand : Empty(p)
    /\ \A p \in Pids : Fits(p)

\* Where the parent has a request that no child has yet.
Holding == {"check", "scan", "pick", "give", "wait", "ring", "select", "waited"}

\* The messages of s are in one place each: with Jabber, in the parent's hand, done, lost,
\* dropped, or with one child.
Parted(s, queued, held, finished, gone, skipped, given) ==
    /\ s = queued \cup held \cup finished \cup gone \cup skipped \cup UNION {given[p] : p \in Pids}
    /\ queued \cap (held \cup finished \cup gone \cup skipped) = {}
    /\ held \cap (finished \cup gone \cup skipped) = {}
    /\ finished \cap (gone \cup skipped) = {} /\ gone \cap skipped = {}
    /\ \A p \in Pids : given[p] \cap (queued \cup held \cup finished \cup gone \cup skipped) = {}
    /\ \A p, q \in Pids : p # q => given[p] \cap given[q] = {}

Loads == [p \in Pids |-> Load(p)]

\* The parent has a request where it looks for a child, Jabber queues none twice, and the
\* messages that ever came are in one place each.
RequestInv ==
    /\ msg # NoMsg <=> At \in Holding
    /\ NoDup(inbox)
    /\ Parted(sent, Here(inbox), InHand, done, lost, dropped, Loads)

Trouble == crashes > 0 \/ hups > 0

Dead == {p \in Pids : proc[p] \in {"zombie", "reaped"}}

\* Of a pool that has seen neither a crash nor SIGHUP: no child is killed, one that has
\* ended has nothing left, and the one that is on its way between the lists has not ended.
Calm ==
    /\ killed = {}
    /\ \A p \in Pids : pending[p] = 0
    /\ \A p \in Dead : Empty(p) /\ p \notin Here(idle)
    /\ pc \in {"settle", "unlink", "push"} => Head(todo) \notin Dead
    /\ pc = "give" => hand \cap Dead = {}

\* Without a crash and without SIGHUP the pool is calm until the end.
CauseInv ==
    /\ lost # {} => Trouble
    /\ \A m \in dropped : m \in Errors \cup Empties \/ Stopping \/ pc \in {"exited", "aborted"}
    /\ ~Gone /\ ~Trouble => Calm

IInv == TypeOK /\ ListsInv /\ LoopInv /\ LoadInv /\ RequestInv /\ CauseInv

-----------------------------------------------------------------------------
(* What the steps have in common.                                          *)

\* A set of processes is finite.
LEMMA PidsFinite ==
    ASSUME NEW S, S \subseteq Pids
    PROVE  IsFiniteSet(S) /\ Cardinality(S) \in Nat /\ S \subseteq Nat
BY PreforkAssumption, FS_Subset, FS_CardinalityType DEF PreforkAssumption

\* Sets without a common element.
LEMMA DisjointUnion ==
    ASSUME NEW S, NEW T, IsFiniteSet(S), IsFiniteSet(T), S \cap T = {}
    PROVE  Cardinality(S \cup T) = Cardinality(S) + Cardinality(T)
<1>1. /\ Cardinality(S \cup T) = Cardinality(S) + Cardinality(T) - Cardinality(S \cap T)
      /\ Cardinality(S) \in Nat /\ Cardinality(T) \in Nat
  BY FS_Union, FS_CardinalityType
<1>2. Cardinality(S \cap T) = 0
  BY FS_EmptySet
<1> QED
  BY <1>1, <1>2

\* A list of one, and of none.
LEMMA ShortLists ==
    /\ Here(<< >>) = {} /\ NoDup(<< >>) /\ Len(<< >>) = 0
    /\ \A P : \A x \in P : /\ <<x>> \in Seq(P) /\ <<x>> # << >> /\ NoDup(<<x>>) /\ Here(<<x>>) = {x}
                           /\ Head(<<x>>) = x /\ Tail(<<x>>) = << >>
<1>1. Here(<< >>) = {} /\ NoDup(<< >>) /\ Len(<< >>) = 0
  BY DEF Here, NoDup
<1>2. ASSUME NEW P, NEW x \in P
      PROVE  /\ <<x>> \in Seq(P) /\ <<x>> # << >> /\ NoDup(<<x>>) /\ Here(<<x>>) = {x}
             /\ Head(<<x>>) = x /\ Tail(<<x>>) = << >>
  <2>1. <<x>> \in Seq(P) /\ Len(<<x>>) = 1 /\ DOMAIN <<x>> = {1} /\ <<x>>[1] = x
    OBVIOUS
  <2>2. NoDup(<<x>>) /\ Here(<<x>>) = {x}
    BY <2>1 DEF NoDup, Here
  <2> QED
    BY <2>1, <2>2
<1> QED
  BY <1>1, <1>2

Places == {"top", "recv", "reap", "check", "scan", "pick", "give", "add", "wait", "ring",
           "select", "waited", "term", "term_ring", "term_select", "exited", "aborted", "returned",
           "bury", "delete", "refill", "read", "settle", "unlink", "push"}

Returns == {"top", "scan", "ring", "pick", "waited", "term", "term_ring"}

States == {"none", "start", "ready", "busy", "zombie", "reaped"}

\* Where it matters exactly where the parent is.
Special == Loops \cup {"give", "add"}

\* The parent stays in the same part of its program.
SameKind ==
    /\ Gone' <=> Gone
    /\ Stopping' <=> Stopping
    /\ At' \in Holding <=> At \in Holding
    /\ pc' \in {"exited", "aborted"} <=> pc \in {"exited", "aborted"}
    /\ pc' = pc \/ (pc \notin Special /\ pc' \notin Special)
    /\ then' = then /\ pc' \in Places

\* An interrupted call leaves the parent in a place of the same kind.
LEMMA InterruptedLemma ==
    ASSUME TypeOK, LoopInv, pc' = Interrupted \/ pc' = pc, then' = then
    PROVE  SameKind
<1>1. \/ pc' = pc
      \/ pc = "recv" /\ pc' = "reap"
      \/ pc = "select" /\ pc' = "check"
      \/ pc = "term_select" /\ pc' = "term"
  BY DEF Interrupted
<1>2. pc \in Places
  BY DEF TypeOK, Places
<1>3. CASE pc' = pc
  BY <1>2, <1>3 DEF SameKind, Gone, Stopping, At
<1>4. CASE pc # pc'
  <2>1. then = "none"
    BY <1>1, <1>4 DEF LoopInv, Loops
  <2>2. At = pc /\ At' = pc'
    BY <2>1 DEF At
  <2> QED
    BY <1>1, <1>4, <2>2 DEF SameKind, Gone, Stopping, Holding, Special, Loops, Places
<1> QED
  BY <1>3, <1>4

\* The parent's tests of child_dead.
TestStep == ReapAndGoOn \/ Check \/ Wait \/ Waited \/ TermWait

\* The ends of its calls of select().
LookStep == Scan \/ Select \/ TermSelect

\* The steps that leave the children, the lists and the child in hand alone.
QuietStep ==
    \/ TestStep \/ LookStep \/ Reaped \/ Top \/ Recv \/ PickNone \/ EnterSelect \/ SigTerm
    \/ \E m \in Msgs : Arrive(m)

\* Where they lead.
LEMMA QuietPlaces ==
    ASSUME TypeOK, LoopInv, QuietStep
    PROVE  \/ pc = "top" /\ pc' = "returned" /\ then' = then /\ idle = << >> /\ todo' = todo
           \/ pc = "top" /\ pc' = "recv" /\ then' = then /\ todo' = todo
           \/ pc = "recv" /\ pc' \in {"reap", "top", "check"} /\ then' = then /\ todo' = todo
           \/ pc = "pick" /\ pc' = "wait" /\ then' = then /\ todo' = todo
           \/ pc = "ring" /\ pc' \in {"waited", "select"} /\ then' = then /\ todo' = todo
           \/ pc = "term_ring" /\ pc' \in {"term", "term_select"} /\ then' = then /\ todo' = todo
           \/ /\ <<pc, At'>> \in {<<"reap", "top">>, <<"check", "scan">>, <<"wait", "ring">>,
                                  <<"waited", "pick">>, <<"term", "term_ring">>}
              /\ \/ pc' = "bury" /\ then' = At'
                 \/ pc' = At' /\ then' = then
              /\ todo' = todo
           \/ /\ <<pc, then'>> \in {<<"scan", "pick">>, <<"select", "waited">>, <<"term_select", "term">>}
              /\ pc' = "read" /\ todo' = Those(active, Answered) /\ Answered # {}
           \/ pc = "scan" /\ pc' = "pick" /\ then' = then /\ todo' = todo
           \/ pc \in {"bury", "refill"} /\ pc' = then /\ then' = "none" /\ todo' = todo
           \/ ~Gone /\ ~Stopping /\ pc' = "term" /\ then' = "none" /\ todo' = << >>
           \/ UNCHANGED <<pc, then, todo>>
<1>1. CASE Top \/ Recv \/ PickNone \/ EnterSelect
  BY <1>1 DEF Top, Recv, PickNone, EnterSelect, loop
<1>2. CASE TestStep
  <2>1. PICK next \in {"top", "scan", "ring", "pick", "term_ring"} :
          /\ <<pc, next>> \in {<<"reap", "top">>, <<"check", "scan">>, <<"wait", "ring">>,
                               <<"waited", "pick">>, <<"term", "term_ring">>}
          /\ ReapIfDead(next)
    BY <1>2 DEF TestStep, ReapAndGoOn, Check, Wait, Waited, TermWait
  <2>2. then = "none"
    BY <2>1 DEF LoopInv, Loops
  <2>3. todo' = todo
    BY <2>1 DEF ReapIfDead
  <2>4. (pc' = "bury" /\ then' = next) \/ (pc' = next /\ then' = then)
    BY <2>1 DEF ReapIfDead
  <2>5. At' = next
    BY <2>2, <2>4 DEF At
  <2> QED
    BY <2>1, <2>3, <2>4, <2>5
<1>3. CASE LookStep
  BY <1>3 DEF LookStep, Scan, Select, TermSelect, LookAtAnswers, loop
<1>4. CASE Reaped
  BY <1>4 DEF Reaped, Buried
<1>5. CASE SigTerm
  BY <1>5 DEF SigTerm
<1>6. CASE \E m \in Msgs : Arrive(m)
  BY <1>6 DEF Arrive, loop
<1> QED
  BY <1>1, <1>2, <1>3, <1>4, <1>5, <1>6 DEF QuietStep

\* They never leave a shutdown, and give up only without idle children.
LEMMA QuietStepLemma ==
    ASSUME TypeOK, LoopInv, QuietStep
    PROVE  /\ ~Gone' => ~Gone
           /\ ~Gone' /\ ~Stopping' => ~Stopping /\ (pc' = pc \/ (pc \notin {"give", "add", "push"}
                                                                 /\ pc' \notin {"give", "add", "push"}))
           /\ pc' \in {"give", "add", "delete", "settle", "unlink", "push"} => pc' = pc /\ todo' = todo
           /\ Gone' => Gone \/ idle = << >>
           /\ ~Gone /\ Stopping => Stopping'
           /\ pc \in {"exited", "aborted"} => pc' \in {"exited", "aborted"}
           /\ pc' \in Places /\ then' \in Returns \cup {"none"} /\ (then' # "none" <=> pc' \in Loops)
           /\ UNCHANGED <<hand, idle, active, pending, num, proc, data, status, work,
                          served, killed, lost, done, crashes, hups>>
<1>1. UNCHANGED <<hand, idle, active, pending, num, proc, data, status, work,
                  served, killed, lost, done, crashes, hups>>
  BY DEF QuietStep, TestStep, LookStep, ReapAndGoOn, Check, Wait, Waited, TermWait, Scan, Select,
         TermSelect, ReapIfDead, LookAtAnswers, Reaped, Top, Recv, PickNone, EnterSelect, SigTerm, Arrive,
         Keep, jabber, bounds, pool, lists, children
<1>2. /\ pc \in Places /\ then \in Returns \cup {"none"} /\ (then # "none" <=> pc \in Loops)
  BY DEF TypeOK, Places, Returns, LoopInv
<1>3. \/ pc = "top" /\ pc' = "returned" /\ then' = "none" /\ then = "none" /\ idle = << >>
      \/ /\ pc \in {"top", "recv", "pick", "ring", "reap", "check", "wait", "waited", "scan", "select"}
         /\ pc' \in {"recv", "reap", "top", "check", "wait", "waited", "select", "scan", "ring", "pick"}
         /\ then' = "none" /\ then = "none"
      \/ /\ pc \in {"term_ring", "term"} /\ pc' \in {"term", "term_ring", "term_select"}
         /\ then' = "none" /\ then = "none"
      \/ /\ pc \in {"reap", "check", "wait", "waited", "scan", "select"} /\ then = "none"
         /\ pc' \in {"bury", "read"} /\ then' \in {"top", "scan", "ring", "pick", "waited"}
      \/ /\ pc \in {"term", "term_select"} /\ then = "none"
         /\ pc' \in {"bury", "read"} /\ then' \in {"term_ring", "term"}
      \/ pc \in {"bury", "refill"} /\ pc' = then /\ then \in Returns /\ then' = "none"
      \/ ~Gone /\ ~Stopping /\ pc' = "term" /\ then' = "none"
      \/ UNCHANGED <<pc, then, todo>>
  <2> USE DEF Loops
  <2>1. CASE /\ <<pc, At'>> \in {<<"reap", "top">>, <<"check", "scan">>, <<"wait", "ring">>,
                                 <<"waited", "pick">>, <<"term", "term_ring">>}
             /\ \/ pc' = "bury" /\ then' = At'
                \/ pc' = At' /\ then' = then
    BY <2>1, <1>2
  <2>2. CASE ~(/\ <<pc, At'>> \in {<<"reap", "top">>, <<"check", "scan">>, <<"wait", "ring">>,
                                 <<"waited", "pick">>, <<"term", "term_ring">>}
             /\ \/ pc' = "bury" /\ then' = At'
                \/ pc' = At' /\ then' = then)
    BY <2>2, <1>2, QuietPlaces
  <2> QED
    BY <2>1, <2>2
<1> HIDE DEF QuietStep
<1> QED
  BY <1>1, <1>2, <1>3 DEF Gone, Stopping, At, Places, Returns, Loops

\* The steps of a child: it stays one of the parent's own, and if it ends the parent is
\* interrupted.
AnyChildStep(p) == ChildStep(p) \/ ChildPanic(p) \/ ChildCrash(p)

\* The lists, the counts and the requests of the parent stay as they are.
LEMMA ChildStepLemma ==
    ASSUME TypeOK, LoopInv, NEW p \in Pids, AnyChildStep(p)
    PROVE  /\ SameKind
           /\ p \in Living
           /\ \E x \in {"ready", "busy", "zombie"} : proc' = [proc EXCEPT ![p] = x]
           /\ childDead' \in BOOLEAN
           /\ UNCHANGED <<msg, hand, idle, active, pending, num, killed, lost, inbox, sent, dropped,
                          hups, fails, todo, then, caught>>
<1>1. pc' = pc \/ pc' = Interrupted
  BY DEF AnyChildStep, ChildStep, ChildStart, ChildRead, ChildDone, ChildKilled, ChildPanic, ChildCrash, Exit
<1>2. p \in Living
  BY DEF AnyChildStep, ChildStep, ChildStart, ChildRead, ChildDone, ChildKilled, ChildPanic, ChildCrash, Living
<1>3. \E x \in {"ready", "busy", "zombie"} : proc' = [proc EXCEPT ![p] = x]
  BY DEF AnyChildStep, ChildStep, ChildStart, ChildRead, ChildDone, ChildKilled, ChildPanic, ChildCrash, Exit
<1>4. UNCHANGED <<msg, hand, idle, active, pending, num, killed, lost, inbox, sent, dropped, hups, fails,
                  todo, then, caught>>
  BY DEF AnyChildStep, ChildStep, ChildStart, ChildRead, ChildDone, ChildKilled, ChildPanic, ChildCrash,
         Keep, jabber, bounds, lists, loop
<1>5. childDead' \in BOOLEAN
  BY DEF AnyChildStep, ChildStep, ChildStart, ChildRead, ChildDone, ChildKilled, ChildPanic, ChildCrash, Exit,
         lists, TypeOK
<1>6. SameKind
  BY <1>1, <1>4, InterruptedLemma
<1> QED
  BY <1>2, <1>3, <1>4, <1>5, <1>6

\* SIGHUP too.
LEMMA HupLemma ==
    ASSUME TypeOK, LoopInv, SigHup
    PROVE  /\ SameKind
           /\ UNCHANGED <<msg, hand, idle, active, num, childDead, proc, data, status, work, served,
                          lost, inbox, sent, done, dropped, crashes, fails, todo, then, caught>>
<1>1. pc' = Interrupted
  BY DEF SigHup
<1>2. UNCHANGED <<msg, hand, idle, active, num, childDead, proc, data, status, work, served,
                  lost, inbox, sent, done, dropped, crashes, fails, todo, then, caught>>
  BY DEF SigHup, jabber, loop
<1> QED
  BY <1>1, <1>2, InterruptedLemma

\* What the steps within the loops leave as it is.
LoopStep == WaitPid \/ Delete \/ Refill \/ ReadStatus \/ Settle \/ Unlink \/ Push

\* They stay within the same part of the program, and come back where they should.
LEMMA LoopStepLemma ==
    ASSUME TypeOK, LoopInv, LoopStep
    PROVE  /\ ~Gone /\ ~Gone' /\ (Stopping' <=> Stopping) /\ At' = At
           /\ pc \in Loops /\ pc' \notin {"give", "add", "exited", "aborted"}
           /\ pc' \in Places /\ then' \in Returns \cup {"none"} /\ (then' # "none" <=> pc' \in Loops)
           /\ UNCHANGED <<msg, inbox, sent, done, dropped, crashes, hups, fails, childDead, caught>>
<1>1. UNCHANGED <<msg, inbox, sent, done, dropped, crashes, hups, fails, childDead, caught>>
  BY DEF LoopStep, WaitPid, Delete, Bury, Refill, ReadStatus, Settle, Unlink, Push, GoOnWith, Keep,
         jabber, bounds, lists, loop
<1>2. then \in Returns /\ pc \in Loops
  <2>1. pc \in Loops
    BY DEF LoopStep, WaitPid, Delete, Refill, Buried, ReadStatus, Settle, Unlink, Push, Loops
  <2> QED
    BY <2>1 DEF LoopInv, TypeOK, Returns
<1>3. \/ pc' \in Loops /\ then' = then
      \/ pc' = then /\ then' = "none"
  BY DEF LoopStep, WaitPid, Delete, Bury, Refill, ReadStatus, Settle, Unlink, Push, GoOnWith, loop, Loops
<1>4. At' = At
  BY <1>2, <1>3 DEF At, Returns
<1> QED
  BY <1>1, <1>2, <1>3, <1>4 DEF Gone, Stopping, Places, Returns, Loops

\* What can happen.
LEMMA StepLemma ==
    ASSUME [Next]_vars
    PROVE  \/ QuietStep \/ LoopStep
           \/ PickIdle \/ PickNew \/ Give \/ AddActive \/ TermExit
           \/ SigHup \/ SigInt
           \/ \E p \in Pids : AnyChildStep(p)
           \/ UNCHANGED vars
BY Zenon DEF Next, ParentStep, QuietStep, TestStep, LookStep, LoopStep, AnyChildStep

-----------------------------------------------------------------------------
(* One child.                                                              *)

\* What the types say of one child.
LEMMA ChildTypes ==
    ASSUME TypeOK, NEW p \in Pids
    PROVE  /\ data[p] \in Seq(Msgs) /\ work[p] \in Seq(Msgs)
           /\ Len(data[p]) \in Nat /\ Len(work[p]) \in Nat /\ status[p] \in Nat /\ served[p] \in Nat
           /\ data[p] = << >> <=> Len(data[p]) = 0
           /\ work[p] = << >> <=> Len(work[p]) = 0
           /\ proc[p] \in States
<1>1. /\ data[p] \in Seq(Msgs) /\ work[p] \in Seq(Msgs) /\ status[p] \in Nat /\ served[p] \in Nat
      /\ proc[p] \in States
  <2>1. served[p] \in 0 .. MaxRequests /\ MaxRequests \in Nat
    BY PreforkAssumption DEF TypeOK, PreforkAssumption, States
  <2> QED
    BY <2>1 DEF TypeOK, States
<1> QED
  BY <1>1, ListFacts

\* A child at work has nothing else, and is not idle.
LEMMA BusyLemma ==
    ASSUME TypeOK, LoadInv, NEW p \in Pids, proc[p] = "busy"
    PROVE  data[p] = << >> /\ status[p] = 0 /\ work[p] # << >> /\ p \notin Here(idle)
<1>1. /\ Len(data[p]) \in Nat /\ Len(work[p]) \in Nat /\ status[p] \in Nat
      /\ data[p] = << >> <=> Len(data[p]) = 0
      /\ work[p] = << >> <=> Len(work[p]) = 0
  BY ChildTypes
<1>2. Len(data[p]) + Len(work[p]) + status[p] <= 1 /\ Len(work[p]) = 1
  BY DEF LoadInv, Fits
<1>3. \A a, b, c \in Nat : a + b + c <= 1 /\ b = 1 => a = 0 /\ c = 0
  OBVIOUS
<1>4. Len(data[p]) = 0 /\ status[p] = 0
  BY <1>1, <1>2, <1>3
<1>5. work[p] # << >>
  BY <1>1, <1>2
<1> QED
  BY <1>1, <1>4, <1>5 DEF LoadInv, Fits, Empty

\* What is empty stays so, whatever a child does.
LEMMA EmptyKept ==
    ASSUME TypeOK, LoadInv, NEW p \in Pids, AnyChildStep(p)
    PROVE  \A q \in Pids : Empty(q) => Empty(q)'
<1>1. ASSUME NEW q \in Pids, Empty(q) PROVE Empty(q)'
  <2>1. CASE q # p
    <3>1. data'[q] = data[q] /\ work'[q] = work[q] /\ status'[q] = status[q]
      BY <2>1 DEF AnyChildStep, ChildStep, ChildStart, ChildRead, ChildDone, ChildKilled, ChildPanic,
         ChildCrash, TypeOK
    <3> QED
      BY <1>1, <3>1 DEF Empty
  <2>2. CASE q = p
    <3>1. proc[p] # "busy" /\ data[p] = << >>
      BY <1>1, <2>2, BusyLemma DEF Empty
    <3>2. ChildStart(p) \/ ChildKilled(p) \/ ChildCrash(p)
      BY <3>1 DEF AnyChildStep, ChildStep, ChildRead, ChildDone, ChildPanic
    <3>3. UNCHANGED <<data, work, status>>
      BY <3>2 DEF ChildStart, ChildKilled, ChildCrash
    <3> QED
      BY <1>1, <3>3 DEF Empty
  <2> QED
    BY <2>1, <2>2
<1> QED
  BY <1>1

-----------------------------------------------------------------------------
(* The lists.                                                              *)

\* One more in front.
LEMMA PrependLemma ==
    ASSUME NEW P, NEW l \in Seq(P), NEW x \in P
    PROVE  /\ <<x>> \o l \in Seq(P)
           /\ NoDup(l) /\ x \notin Here(l) => NoDup(<<x>> \o l)
           /\ Here(<<x>> \o l) = Here(l) \cup {x}
<1> DEFINE k == <<x>>
<1>1. k \in Seq(P) /\ NoDup(k) /\ Here(k) = {x}
  BY ShortLists
<1> HIDE DEF k
<1>2. /\ k \o l \in Seq(P)
      /\ NoDup(k) /\ NoDup(l) /\ Here(k) \cap Here(l) = {} => NoDup(k \o l)
      /\ Here(k \o l) = Here(k) \cup Here(l)
  BY <1>1, ConcatLemma
<1>3. /\ k \o l \in Seq(P)
      /\ NoDup(l) /\ x \notin Here(l) => NoDup(k \o l)
      /\ Here(k \o l) = Here(l) \cup {x}
  BY <1>1, <1>2
<1> QED
  BY <1>3 DEF k

\* The parent stays, as far as the child in hand goes, where it is.
SameHand ==
    /\ ~Gone' => ~Gone
    /\ ~Gone' /\ ~Stopping' => ~Stopping /\ (pc' = pc \/ (pc \notin {"give", "add", "push"}
                                                          /\ pc' \notin {"give", "add", "push"}))
    /\ pc' \in {"give", "add", "push"} => pc' = pc /\ todo' = todo

\* A step that leaves the lists, the child in hand and the set of children alone.
LEMMA ListsKept ==
    ASSUME ListsInv, UNCHANGED <<idle, active, hand, num>>, Own' = Own, SameHand
    PROVE  ListsInv'
<1>1. Listed' = Listed
  BY DEF Listed
<1>2. SUFFICES ASSUME ~Gone' PROVE ListsInv'
  BY DEF ListsInv
<1> QED
  BY <1>1, <1>2 DEF ListsInv, SameHand

\* The set of children is the same when one of them changes its state.
LEMMA OwnKept ==
    ASSUME TypeOK, NEW p \in Pids, proc[p] # "none",
           NEW x, x # "none", proc' = [proc EXCEPT ![p] = x]
    PROVE  Own' = Own
BY DEF TypeOK, Own, Free

\* Every step of the loops keeps the lists and the processes in agreement.
LEMMA LoopListsStep ==
    ASSUME IInv, LoopStep
    PROVE  ListsInv'
<1> USE DEF IInv
<1>1. /\ proc \in [Pids -> States] /\ idle \in Seq(Pids) /\ active \in Seq(Pids) /\ todo \in Seq(Pids)
      /\ TypeOK /\ Own \subseteq Pids /\ num \in Nat
  BY DEF TypeOK, Own, States
<1>2. /\ ~Gone /\ ~Gone' /\ (Stopping' <=> Stopping)
      /\ pc \notin {"give", "add"} /\ pc' \notin {"give", "add"}
  BY <1>1, LoopStepLemma DEF Loops
<1>3. /\ NoDup(idle) /\ NoDup(active) /\ Here(idle) \cap Here(active) = {}
      /\ Listed \subseteq Own /\ Own \ Listed \subseteq hand
      /\ ~Stopping => hand \subseteq Own \ Listed
      /\ ~Stopping /\ pc # "push" => hand = {}
      /\ ~Stopping /\ pc = "push" => hand = {Head(todo)}
      /\ num = Cardinality(Own) /\ num <= MaxChildren
  BY <1>2 DEF ListsInv
<1>4. then \in Returns
  BY <1>1, LoopStepLemma DEF LoopInv, TypeOK, Returns
<1>5. CASE WaitPid
  <2>1. /\ pc = "bury" /\ pc' = "delete" /\ UNCHANGED <<idle, active, hand, num>>
        /\ \E p \in Zombies : proc' = [proc EXCEPT ![p] = "reaped"]
    BY <1>5 DEF WaitPid, lists
  <2>2. Own' = Own
    BY <1>1, <2>1, OwnKept DEF Zombies
  <2>3. SameHand
    BY <1>2, <2>1 DEF SameHand
  <2> QED
    BY <2>1, <2>2, <2>3, ListsKept
<1>6. CASE ReadStatus
  <2>1. /\ pc = "read" /\ pc' = "settle" /\ UNCHANGED <<idle, active, hand, num, proc>>
    BY <1>6 DEF ReadStatus, lists
  <2>2. Own' = Own
    BY <2>1 DEF Own, Free
  <2>3. SameHand
    BY <1>2, <2>1 DEF SameHand
  <2> QED
    BY <2>1, <2>2, <2>3, ListsKept
<1>7. CASE Settle
  <2>1. /\ pc = "settle" /\ pc' \in {"unlink", "read", then} /\ UNCHANGED <<idle, active, hand, num, proc>>
    BY <1>7 DEF Settle, GoOnWith
  <2>2. Own' = Own
    BY <2>1 DEF Own, Free
  <2>3. SameHand
    BY <1>2, <1>4, <2>1 DEF SameHand, Returns
  <2> QED
    BY <2>1, <2>2, <2>3, ListsKept
<1>8. CASE Delete
  <2>1. PICK p \in Pids : todo = <<p>> /\ proc[p] = "reaped"
    BY <1>8 DEF Delete, LoopInv
  <2>2. Here(todo) = {p}
    BY <2>1, ShortLists
  <2>3. /\ pc = "delete" /\ pc' = "bury" /\ proc' = [proc EXCEPT ![p] = "none"] /\ num' = num - 1
        /\ hand' = hand \ {p} /\ idle' = Without(idle, {p}) /\ active' = Without(active, {p})
    BY <1>8, <2>2 DEF Delete, Bury
  <2>4. /\ NoDup(idle') /\ Here(idle') = Here(idle) \ {p}
        /\ NoDup(active') /\ Here(active') = Here(active) \ {p}
    BY <1>1, <1>3, <2>3, WithoutLemma
  <2>5. p \in Own /\ Own' = Own \ {p}
    BY <1>1, <2>1, <2>3 DEF Own, Free
  <2>6. Listed' = Listed \ {p}
    BY <2>4 DEF Listed
  <2>7. num' = Cardinality(Own') /\ num' <= MaxChildren
    <3>1. IsFiniteSet(Own)
      BY <1>1, PidsFinite
    <3>2. Cardinality(Own') = Cardinality(Own) - 1
      BY <3>1, <2>5, FS_RemoveElement
    <3> QED
      BY <1>1, <1>3, <2>3, <3>2, PreforkAssumption DEF PreforkAssumption
  <2>8. Here(idle') \cap Here(active') = {}
    BY <1>3, <2>4
  <2>9. Listed' \subseteq Own' /\ Own' \ Listed' \subseteq hand' /\ (~Stopping => hand' = {})
    BY <1>3, <2>3, <2>5, <2>6
  <2> QED
    BY <1>2, <2>3, <2>4, <2>7, <2>8, <2>9 DEF ListsInv
<1>9. CASE Refill
  <2>1. /\ pc \in {"bury", "refill"} /\ pc' = "refill" /\ num < MinChildren /\ num' = num + 1
        /\ UNCHANGED <<hand, active>>
    BY <1>9 DEF Refill, Buried
  <2>2. PICK p \in Free : proc' = [proc EXCEPT ![p] = "start"] /\ idle' = <<p>> \o idle
    BY <1>9 DEF Refill
  <2>3. Own' = Own \cup {p} /\ p \notin Own /\ p \in Pids
    BY <1>1, <2>2 DEF Own, Free
  <2>4. p \notin Here(idle) /\ p \notin Here(active)
    BY <1>3, <2>3 DEF Listed
  <2>5. NoDup(idle') /\ Here(idle') = Here(idle) \cup {p}
    BY <1>1, <1>3, <2>2, <2>3, <2>4, PrependLemma
  <2>6. Listed' = Listed \cup {p}
    BY <2>1, <2>5 DEF Listed
  <2>7. num' = Cardinality(Own') /\ num' <= MaxChildren
    <3>1. IsFiniteSet(Own)
      BY <1>1, PidsFinite
    <3>2. Cardinality(Own') = Cardinality(Own) + 1
      BY <3>1, <2>3, FS_AddElement
    <3> QED
      BY <1>1, <1>3, <2>1, <3>2, PreforkAssumption DEF PreforkAssumption
  <2>8. Here(idle') \cap Here(active') = {}
    BY <1>3, <2>1, <2>4, <2>5
  <2>9. Listed' \subseteq Own' /\ Own' \ Listed' \subseteq hand' /\ (~Stopping => hand' = {})
    BY <1>3, <2>1, <2>3, <2>6
  <2> QED
    BY <1>2, <1>3, <2>1, <2>5, <2>7, <2>8, <2>9 DEF ListsInv
<1>10. CASE Unlink
  <2> DEFINE p == Head(todo)
  <2>1. /\ pc = "unlink" /\ pc' = "push" /\ active' = Without(active, {p}) /\ hand' = hand \cup {p}
        /\ todo' = <<p>> \/ todo' = todo
        /\ UNCHANGED <<idle, num, proc>>
    BY <1>10 DEF Unlink, children
  <2>2. p \in Here(active) /\ p \in Pids
    BY <1>1, <2>1, ListFacts DEF LoopInv
  <2>3. Head(todo') = p
    BY <2>1, <2>2
  <2> HIDE DEF p
  <2>4. NoDup(active') /\ Here(active') = Here(active) \ {p}
    BY <1>1, <1>3, <2>1, WithoutLemma
  <2>5. Own' = Own
    BY <2>1 DEF Own, Free
  <2>6. Listed' = Listed \ {p} /\ p \in Listed
    BY <1>3, <2>1, <2>2, <2>4 DEF Listed
  <2>7. Here(idle') \cap Here(active') = {}
    BY <1>3, <2>1, <2>4
  <2>8. Listed' \subseteq Own' /\ Own' \ Listed' \subseteq hand' /\ (~Stopping => hand' = {p} /\ p \in Own' \ Listed')
    BY <1>3, <2>1, <2>5, <2>6
  <2> QED
    BY <1>2, <1>3, <2>1, <2>3, <2>4, <2>5, <2>7, <2>8 DEF ListsInv
<1>11. CASE Push
  <2> DEFINE p == Head(todo)
  <2>1. /\ pc = "push" /\ pc' \in {"read", then} /\ idle' = <<p>> \o idle /\ hand' = hand \ {p}
        /\ UNCHANGED <<active, num, proc>>
    BY <1>11 DEF Push, GoOnWith, children
  <2>2. p \in Own \ Listed /\ p \in Pids
    BY <1>1, <2>1 DEF LoopInv
  <2>3. pc' \notin {"give", "add", "push"}
    BY <1>4, <2>1 DEF Returns
  <2> HIDE DEF p
  <2>4. NoDup(idle') /\ Here(idle') = Here(idle) \cup {p}
    BY <1>1, <1>3, <2>1, <2>2, PrependLemma DEF Listed
  <2>5. Own' = Own
    BY <2>1 DEF Own, Free
  <2>6. Listed' = Listed \cup {p}
    BY <2>1, <2>4 DEF Listed
  <2>7. Here(idle') \cap Here(active') = {}
    BY <1>3, <2>1, <2>2, <2>4 DEF Listed
  <2>8. ~Stopping => hand = {p}
    BY <1>3, <2>1 DEF p
  <2>9. Listed' \subseteq Own' /\ Own' \ Listed' \subseteq hand' /\ (~Stopping => hand' = {})
    BY <1>3, <2>1, <2>2, <2>5, <2>6, <2>8
  <2> QED
    BY <1>2, <1>3, <2>1, <2>3, <2>4, <2>5, <2>7, <2>9 DEF ListsInv
<1> QED
  BY <1>5, <1>6, <1>7, <1>8, <1>9, <1>10, <1>11 DEF LoopStep

\* Every step keeps the lists and the processes in agreement.
LEMMA ListsStep ==
    ASSUME IInv, [Next]_vars
    PROVE  ListsInv'
<1> USE DEF IInv
<1>1. /\ proc \in [Pids -> States] /\ idle \in Seq(Pids) /\ active \in Seq(Pids) /\ TypeOK
      /\ Own \subseteq Pids /\ num \in Nat /\ then \in Returns \cup {"none"}
      /\ then # "none" => pc \in Loops
  BY DEF TypeOK, Own, States, Returns, LoopInv
<1>2. CASE LoopStep
  BY <1>2, LoopListsStep
<1>3. CASE QuietStep
  <2>1. SameHand /\ UNCHANGED <<hand, idle, active, num, proc>>
    BY <1>1, <1>3, QuietStepLemma DEF SameHand
  <2>2. Own' = Own
    BY <2>1 DEF Own, Free
  <2> QED
    BY <2>1, <2>2, ListsKept
<1>4. CASE PickIdle
  <2>1. /\ pc = "pick" /\ idle # << >> /\ hand' = {Head(idle)} /\ pc' = "give" /\ idle' = Tail(idle)
        /\ UNCHANGED <<active, num, proc, then>>
    BY <1>4 DEF PickIdle, children, loop
  <2>2. ~Gone /\ ~Stopping /\ ~Gone' /\ ~Stopping'
    BY <1>1, <2>1 DEF Gone, Stopping, At, Loops
  <2>3. /\ NoDup(idle) /\ NoDup(active) /\ Here(idle) \cap Here(active) = {}
        /\ Listed \subseteq Own /\ Own \ Listed \subseteq hand /\ hand = {}
        /\ num = Cardinality(Own) /\ num <= MaxChildren
    BY <2>1, <2>2 DEF ListsInv
  <2>4. /\ Head(idle) \in Pids /\ NoDup(Tail(idle)) /\ Head(idle) \notin Here(Tail(idle))
        /\ Here(idle) = Here(Tail(idle)) \cup {Head(idle)}
    BY <1>1, <2>1, <2>3, HeadTailLemma
  <2>5. Own' = Own
    BY <2>1 DEF Own, Free
  <2>6. Listed' = Listed \ {Head(idle)} /\ Head(idle) \in Listed
    BY <2>1, <2>3, <2>4 DEF Listed
  <2>7. /\ NoDup(idle') /\ NoDup(active') /\ Here(idle') \cap Here(active') = {}
        /\ \E p \in Pids : hand' = {p}
    BY <2>1, <2>3, <2>4
  <2>8. Listed' \subseteq Own' /\ Own' \ Listed' \subseteq hand' /\ hand' \subseteq Own' \ Listed'
    BY <2>1, <2>3, <2>5, <2>6
  <2> QED
    BY <2>1, <2>3, <2>5, <2>7, <2>8 DEF ListsInv
<1>5. CASE PickNew
  <2>1. /\ pc = "pick" /\ num < MaxChildren /\ pc' = "give" /\ num' = num + 1
        /\ UNCHANGED <<active, idle, then>>
    BY <1>5 DEF PickNew, loop
  <2>2. PICK p \in Free : hand' = {p} /\ proc' = [proc EXCEPT ![p] = "start"]
    BY <1>5 DEF PickNew
  <2>3. ~Gone /\ ~Stopping
    BY <1>1, <2>1 DEF Gone, Stopping, At, Loops
  <2>4. /\ NoDup(idle) /\ NoDup(active) /\ Here(idle) \cap Here(active) = {}
        /\ Listed \subseteq Own /\ Own \ Listed \subseteq hand /\ hand = {}
        /\ num = Cardinality(Own) /\ num <= MaxChildren
    BY <2>1, <2>3 DEF ListsInv
  <2>5. Own' = Own \cup {p} /\ p \notin Own /\ p \in Pids
    BY <1>1, <2>2 DEF Own, Free
  <2>6. num' = Cardinality(Own')
    <3>1. IsFiniteSet(Own)
      BY <1>1, PidsFinite
    <3>2. Cardinality(Own') = Cardinality(Own) + 1
      BY <3>1, <2>5, FS_AddElement
    <3> QED
      BY <2>1, <2>4, <3>2
  <2>7. num' <= MaxChildren
    BY <1>1, <2>1, PreforkAssumption DEF PreforkAssumption
  <2>8. Listed' = Listed
    BY <2>1 DEF Listed
  <2>9. Listed' \subseteq Own' /\ Own' \ Listed' \subseteq hand' /\ hand' \subseteq Own' \ Listed'
    BY <2>2, <2>4, <2>5, <2>8
  <2> QED
    BY <2>1, <2>2, <2>4, <2>5, <2>6, <2>7, <2>9 DEF ListsInv
<1>6. CASE Give
  <2>1. pc = "give" /\ pc' = "add" /\ UNCHANGED <<hand, idle, active, num, proc, then>>
    BY <1>6 DEF Give, lists, loop
  <2>2. Own' = Own /\ Listed' = Listed
    BY <2>1 DEF Own, Free, Listed
  <2>3. ~Gone /\ ~Stopping
    BY <1>1, <2>1 DEF Gone, Stopping, At, Loops
  <2> QED
    BY <2>1, <2>2, <2>3 DEF ListsInv
<1>7. CASE AddActive
  <2>1. /\ pc = "add" /\ pc' = "reap" /\ hand' = {} /\ UNCHANGED <<idle, num, proc, then>>
    BY <1>7 DEF AddActive, children, loop
  <2>2. PICK p \in hand : active' = Append(active, p)
    BY <1>7 DEF AddActive
  <2>3. ~Gone /\ ~Stopping
    BY <1>1, <2>1 DEF Gone, Stopping, At, Loops
  <2>4. /\ NoDup(idle) /\ NoDup(active) /\ Here(idle) \cap Here(active) = {}
        /\ Listed \subseteq Own /\ Own \ Listed \subseteq hand /\ hand \subseteq Own \ Listed
        /\ num = Cardinality(Own) /\ num <= MaxChildren
        /\ \E q \in Pids : hand = {q}
    BY <2>1, <2>3 DEF ListsInv
  <2>5. hand = {p} /\ p \in Pids
    BY <2>2, <2>4
  <2>6. p \notin Here(active) /\ p \notin Here(idle) /\ p \in Own
    BY <2>4, <2>5 DEF Listed
  <2>7. NoDup(active') /\ Here(active') = Here(active) \cup {p}
    BY <1>1, <2>2, <2>4, <2>5, <2>6, AppendLemma
  <2>8. Own' = Own
    BY <2>1 DEF Own, Free
  <2>9. Listed' = Listed \cup {p}
    BY <2>1, <2>7 DEF Listed
  <2>10. NoDup(idle') /\ Here(idle') \cap Here(active') = {}
    BY <2>1, <2>4, <2>6, <2>7
  <2>11. Listed' \subseteq Own' /\ Own' \ Listed' \subseteq hand' /\ hand' \subseteq Own' \ Listed'
    BY <2>1, <2>4, <2>5, <2>6, <2>8, <2>9
  <2> QED
    BY <2>1, <2>4, <2>7, <2>8, <2>10, <2>11 DEF ListsInv
<1>8. CASE TermExit \/ SigInt
  BY <1>8 DEF TermExit, SigInt, ListsInv, Gone
<1>9. CASE SigHup
  <2>1. SameKind /\ UNCHANGED <<hand, idle, active, num, proc, todo>>
    BY <1>1, <1>9, HupLemma
  <2>2. Own' = Own
    BY <2>1 DEF Own, Free
  <2>3. SameHand
    BY <2>1 DEF SameKind, SameHand, Special, Loops
  <2> QED
    BY <2>1, <2>2, <2>3, ListsKept
<1>10. CASE \E p \in Pids : AnyChildStep(p)
  <2>1. PICK p \in Pids : AnyChildStep(p)
    BY <1>10
  <2>2. /\ SameKind /\ p \in Living
        /\ \E x \in {"ready", "busy", "zombie"} : proc' = [proc EXCEPT ![p] = x]
        /\ UNCHANGED <<hand, idle, active, num, todo>>
    BY <1>1, <2>1, ChildStepLemma
  <2>3. Own' = Own
    BY <1>1, <2>2, OwnKept DEF Living
  <2>4. SameHand
    BY <2>2 DEF SameKind, SameHand, Special, Loops
  <2> QED
    BY <2>2, <2>3, <2>4, ListsKept
<1>11. CASE UNCHANGED vars
  BY <1>11 DEF vars, pool, lists, children, loop, ListsInv, Gone, Stopping, At, Listed, Own, Free
<1> QED
  BY <1>2, <1>3, <1>4, <1>5, <1>6, <1>7, <1>8, <1>9, <1>10, <1>11, StepLemma
-----------------------------------------------------------------------------
(* The loops.                                                              *)

\* The parent is not in a loop that has a child in work.
LEMMA LoopOther ==
    ASSUME then' # "none" <=> pc' \in Loops,
           pc' \notin {"delete", "read", "settle", "unlink", "push"}
    PROVE  LoopInv'
BY DEF LoopInv

\* It stays where it is, and the children in work stay as they are.
LEMMA LoopKept ==
    ASSUME TypeOK, LoopInv, UNCHANGED <<then, todo, active, idle>>, SameKind, Own' = Own,
           \A p \in Pids : proc[p] = "reaped" => proc'[p] = "reaped",
           \A p \in Pids : status[p] > 0 => status'[p] > 0,
           \A p \in Pids : Empty(p) => Empty(p)'
    PROVE  LoopInv'
<1>1. pc' = pc \/ (pc \notin Loops /\ pc' \notin Loops)
  BY DEF SameKind, Special
<1>2. CASE pc' \notin Loops
  <2>1. pc \notin Loops
    BY <1>1, <1>2
  <2> QED
    BY <1>2, <2>1, LoopOther DEF LoopInv, Loops
<1>3. CASE pc' = pc /\ pc' \in Loops
  <2>1. todo \in Seq(Pids) /\ active \in Seq(Pids) /\ status \in [Pids -> Nat] /\ Here(active) \subseteq Pids
    BY ListFacts DEF TypeOK
  <2>2. Listed' = Listed
    BY DEF Listed
  <2>3. ASSUME todo # << >> PROVE Head(todo) \in Pids /\ Here(Tail(todo)) \subseteq Pids
    <3>1. Head(todo) \in Pids /\ Here(todo) \subseteq Pids /\ Here(Tail(todo)) \subseteq Here(todo)
      BY <2>1, <2>3, HeadTailLemma, ListFacts
    <3> QED
      BY <3>1
  <2>4. pc = "delete" => \E p \in Pids : todo = <<p>> /\ proc'[p] = "reaped"
    BY DEF LoopInv
  <2>5. pc \in {"read", "settle", "unlink", "push"} =>
         /\ todo # << >> /\ NoDup(todo)
         /\ \A q \in Here(Tail(todo)) : q \in Here(active) /\ status'[q] > 0
    BY <2>3 DEF LoopInv
  <2>6. /\ pc \in {"read", "settle", "unlink"} => Head(todo) \in Here(active)
        /\ pc = "read" => status'[Head(todo)] > 0
        /\ pc \in {"settle", "unlink", "push"} => Empty(Head(todo))'
        /\ pc = "push" => Head(todo) \in Own' \ Listed'
    BY <2>2, <2>3, <2>5 DEF LoopInv
  <2> QED
    BY <1>3, <2>4, <2>5, <2>6 DEF LoopInv
<1> QED
  BY <1>1, <1>2, <1>3

\* The loop of check_children goes on with those it has not seen.
LEMMA LoopRest ==
    ASSUME TypeOK, then' # "none" <=> pc' \in Loops, todo # << >>, NoDup(todo), todo' = Tail(todo),
           \A q \in Here(Tail(todo)) : q \in Here(active') /\ status'[q] > 0,
           pc' = "read" => Tail(todo) # << >>, pc' \notin {"delete", "settle", "unlink", "push"}
    PROVE  LoopInv'
<1>1. CASE pc' = "read"
  <2>1. todo \in Seq(Pids)
    BY DEF TypeOK
  <2> DEFINE t == Tail(todo)
  <2>2. t \in Seq(Pids) /\ NoDup(t) /\ t # << >> /\ todo' = t
    BY <1>1, <2>1, HeadTailLemma
  <2>3. \A q \in Here(t) : q \in Here(active') /\ status'[q] > 0
    OBVIOUS
  <2> HIDE DEF t
  <2>4. Head(t) \in Here(t) /\ Here(Tail(t)) \subseteq Here(t)
    BY <2>2, HeadTailLemma
  <2>5. /\ todo' # << >> /\ NoDup(todo')
        /\ \A q \in Here(Tail(todo')) : q \in Here(active') /\ status'[q] > 0
        /\ Head(todo') \in Here(active') /\ status'[Head(todo')] > 0
    BY <2>2, <2>3, <2>4
  <2> QED
    BY <1>1, <2>5 DEF LoopInv
<1>2. CASE pc' # "read"
  BY <1>2, LoopOther
<1> QED
  BY <1>1, <1>2

\* Every step of the loops keeps what they have in work.
LEMMA LoopWorkStep ==
    ASSUME IInv, LoopStep
    PROVE  LoopInv'
<1> USE DEF IInv
<1>1. /\ proc \in [Pids -> States] /\ idle \in Seq(Pids) /\ active \in Seq(Pids) /\ todo \in Seq(Pids)
      /\ status \in [Pids -> Nat] /\ TypeOK /\ LoopInv
      /\ Here(active) \subseteq Pids
  BY ListFacts DEF TypeOK, States
<1>2. /\ then' # "none" <=> pc' \in Loops
      /\ then \in Returns /\ ~Gone
  BY <1>1, LoopStepLemma DEF LoopInv, TypeOK, Returns
<1>3. CASE WaitPid
  <2>1. PICK p \in Zombies : proc' = [proc EXCEPT ![p] = "reaped"] /\ todo' = <<p>>
    BY <1>3 DEF WaitPid
  <2>2. p \in Pids /\ proc'[p] = "reaped"
    BY <1>1, <2>1 DEF Zombies
  <2>3. pc' = "delete"
    BY <1>3 DEF WaitPid
  <2> QED
    BY <1>2, <2>1, <2>2, <2>3 DEF LoopInv
<1>4. CASE Delete \/ Refill
  <2>1. pc' \in {"bury", "refill"}
    BY <1>4 DEF Delete, Bury, Refill
  <2> QED
    BY <1>2, <2>1, LoopOther
<1>5. ASSUME pc \in {"read", "settle", "unlink", "push"}
      PROVE  /\ todo # << >> /\ NoDup(todo) /\ Head(todo) \in Pids
             /\ Here(Tail(todo)) \subseteq Pids /\ Head(todo) \notin Here(Tail(todo))
             /\ \A q \in Here(Tail(todo)) : q \in Here(active) /\ status[q] > 0
  <2>1. /\ todo # << >> /\ NoDup(todo)
        /\ \A q \in Here(Tail(todo)) : q \in Here(active) /\ status[q] > 0
    BY <1>1, <1>5 DEF LoopInv
  <2>2. /\ Head(todo) \in Pids /\ Tail(todo) \in Seq(Pids) /\ Head(todo) \notin Here(Tail(todo))
    BY <1>1, <2>1, HeadTailLemma
  <2>3. Here(Tail(todo)) \subseteq Pids
    BY <2>2, ListFacts
  <2> QED
    BY <2>1, <2>2, <2>3
<1>6. CASE ReadStatus
  <2> DEFINE p == Head(todo)
  <2>1. /\ pc = "read" /\ pc' = "settle" /\ status' = [status EXCEPT ![p] = 0]
        /\ UNCHANGED <<idle, active, data, work, todo>>
    BY <1>6 DEF ReadStatus, lists, loop
  <2>2. p \in Here(active) /\ status[p] > 0
    BY <1>1, <2>1 DEF LoopInv
  <2>3. Empty(p)'
    <3>1. Fits(p) /\ p \in Pids
      BY <1>5, <2>1 DEF LoadInv
    <3>2. /\ Len(data[p]) \in Nat /\ Len(work[p]) \in Nat /\ status[p] \in Nat
          /\ data[p] = << >> <=> Len(data[p]) = 0
          /\ work[p] = << >> <=> Len(work[p]) = 0
      BY <1>1, <3>1, ChildTypes
    <3>3. Len(data[p]) + Len(work[p]) + status[p] <= 1
      BY <3>1 DEF Fits
    <3>4. \A a, b, c \in Nat : a + b + c <= 1 /\ c > 0 => a = 0 /\ b = 0
      OBVIOUS
    <3>5. data[p] = << >> /\ work[p] = << >>
      BY <2>2, <3>2, <3>3, <3>4
    <3>6. status'[p] = 0
      BY <1>1, <2>1, <3>1
    <3> QED
      BY <2>1, <3>5, <3>6 DEF Empty
  <2>4. \A q \in Here(Tail(todo)) : q \in Here(active) /\ status'[q] > 0
    BY <1>1, <1>5, <2>1
  <2> HIDE DEF p
  <2>5. /\ todo' # << >> /\ NoDup(todo') /\ Head(todo') = p
        /\ \A q \in Here(Tail(todo')) : q \in Here(active') /\ status'[q] > 0
        /\ p \in Here(active')
    BY <1>5, <2>1, <2>2, <2>4 DEF p
  <2>6. Empty(Head(todo))'
    BY <2>1, <2>3 DEF p, Empty
  <2> QED
    BY <1>2, <2>1, <2>5, <2>6 DEF LoopInv
<1>7. CASE Settle
  <2>1. /\ pc = "settle" /\ UNCHANGED <<idle, active, status, data, work, proc>>
        /\ \/ GoOnWith(Tail(todo))
           \/ pc' = "unlink" /\ UNCHANGED <<todo, then>>
    BY <1>7 DEF Settle
  <2>2. CASE GoOnWith(Tail(todo))
    <3>1. todo' = Tail(todo) /\ (pc' = "read" => Tail(todo) # << >>) /\ pc' \in {"read", then}
      BY <1>2, <2>2 DEF GoOnWith, Returns
    <3> QED
      BY <1>1, <1>2, <1>5, <2>1, <3>1, LoopRest DEF Returns
  <2>3. CASE pc' = "unlink" /\ UNCHANGED <<todo, then>>
    <3>1. Empty(Head(todo))' /\ Head(todo) \in Here(active)
      BY <1>1, <2>1, <2>3 DEF LoopInv, Empty
    <3> QED
      BY <1>2, <1>5, <2>1, <2>3, <3>1 DEF LoopInv
  <2> QED
    BY <2>1, <2>2, <2>3
<1>8. CASE Unlink
  <2> DEFINE p == Head(todo)
  <2>1. /\ pc = "unlink" /\ pc' = "push" /\ active' = Without(active, {p})
        /\ todo' = <<p>> \/ todo' = todo
        /\ UNCHANGED <<idle, proc, status, data, work>>
    BY <1>8 DEF Unlink, children
  <2>2. p \in Here(active) /\ p \in Pids /\ Empty(p)
    BY <1>1, <1>5, <2>1 DEF LoopInv
  <2>3. Here(active') = Here(active) \ {p}
    BY <1>1, <2>1, WithoutLemma
  <2>4. p \in Own' \ Listed'
    <3>1. p \in Own /\ p \notin Here(idle)
      BY <1>2, <2>2 DEF ListsInv, Listed
    <3> QED
      BY <2>1, <2>3, <3>1 DEF Own, Free, Listed
  <2>5. Empty(p)'
    BY <2>1, <2>2 DEF Empty
  <2>6. CASE todo' = <<p>>
    <3>1. todo' # << >> /\ NoDup(todo') /\ Tail(todo') = << >> /\ Head(todo') = p /\ Here(Tail(todo')) = {}
      BY <2>2, <2>6, ShortLists
    <3>2. Empty(Head(todo))'
      BY <2>5, <3>1 DEF Empty
    <3> HIDE DEF p
    <3> QED
      BY <1>2, <2>1, <2>4, <3>1, <3>2 DEF LoopInv
  <2>7. CASE todo' = todo
    <3>1. \A q \in Here(Tail(todo)) : q \in Here(active') /\ status'[q] > 0
      BY <1>5, <2>1, <2>3
    <3> QED
      BY <1>2, <1>5, <2>1, <2>4, <2>5, <2>7, <3>1 DEF LoopInv
  <2> QED
    BY <2>1, <2>6, <2>7
<1>9. CASE Push
  <2>1. pc = "push" /\ GoOnWith(Tail(todo)) /\ UNCHANGED <<active, status>>
    BY <1>9 DEF Push, children
  <2>2. todo' = Tail(todo) /\ (pc' = "read" => Tail(todo) # << >>) /\ pc' \in {"read", then}
    BY <1>2, <2>1 DEF GoOnWith, Returns
  <2> QED
    BY <1>1, <1>2, <1>5, <2>1, <2>2, LoopRest DEF Returns
<1> QED
  BY <1>3, <1>4, <1>6, <1>7, <1>8, <1>9 DEF LoopStep

\* Every step keeps what the loops have in work.
LEMMA LoopWork ==
    ASSUME IInv, [Next]_vars
    PROVE  LoopInv'
<1> USE DEF IInv
<1>1. /\ proc \in [Pids -> States] /\ idle \in Seq(Pids) /\ active \in Seq(Pids)
      /\ status \in [Pids -> Nat] /\ TypeOK /\ LoopInv
      /\ then # "none" <=> pc \in Loops
  BY DEF TypeOK, States, LoopInv
<1>2. CASE LoopStep
  BY <1>2, LoopWorkStep
<1>3. CASE QuietStep
  <2>1. /\ pc' \in {"delete", "settle", "unlink", "push"} => pc' = pc /\ todo' = todo
        /\ then' # "none" <=> pc' \in Loops
        /\ UNCHANGED <<idle, active, proc, data, work, status>>
    BY <1>1, <1>3, QuietStepLemma
  <2>2. CASE pc' \in {"delete", "settle", "unlink", "push"}
    <3>1. Own' = Own /\ Listed' = Listed /\ \A p : Empty(p)' <=> Empty(p)
      BY <2>1 DEF Own, Free, Listed, Empty
    <3>2. pc' = pc /\ todo' = todo
      BY <2>1, <2>2
    <3> QED
      BY <1>1, <2>1, <2>2, <3>1, <3>2 DEF LoopInv
  <2>3. CASE pc' = "read" /\ pc = "read" /\ todo' = todo
    BY <1>1, <2>1, <2>3 DEF LoopInv
  <2>4. CASE pc' = "read" /\ todo' = Those(active, Answered) /\ Answered # {}
    <3> DEFINE t == Those(active, Answered)
    <3>1. NoDup(active)
      <4>1. ~Gone
        BY <1>1, <1>3, <2>4, QuietStepLemma DEF Gone
      <4> QED
        BY <4>1 DEF ListsInv
    <3>2. t \in Seq(Pids) /\ NoDup(t) /\ Here(t) = Here(active) \cap Answered
      BY <1>1, <3>1, ThoseLemma
    <3>3. Here(t) = Answered
      BY <3>2 DEF Answered
    <3>4. t # << >>
      BY <2>4, <3>2, <3>3, ListFacts
    <3>5. Head(t) \in Here(t) /\ Here(Tail(t)) \subseteq Here(t)
      BY <3>2, <3>4, HeadTailLemma
    <3>6. \A q \in Here(t) : q \in Here(active') /\ status'[q] > 0
      BY <2>1, <3>3 DEF Answered
    <3>7. todo' = t
      BY <2>4
    <3> HIDE DEF t
    <3> QED
      BY <2>1, <2>4, <3>2, <3>4, <3>5, <3>6, <3>7 DEF LoopInv
  <2>5. \/ pc' # "read"
        \/ pc = "read" /\ todo' = todo
        \/ todo' = Those(active, Answered) /\ Answered # {}
    <3>1. then # "read"
      BY DEF TypeOK
    <3>2. CASE LookStep
      BY <3>2 DEF LookStep, Scan, Select, TermSelect, LookAtAnswers
    <3>3. CASE TestStep
      BY <3>3 DEF TestStep, ReapAndGoOn, Check, Wait, Waited, TermWait, ReapIfDead
    <3>4. CASE Reaped
      BY <3>1, <3>4 DEF Reaped
    <3>5. CASE Top \/ Recv \/ PickNone \/ EnterSelect \/ SigTerm
      BY <3>5 DEF Top, Recv, PickNone, EnterSelect, SigTerm
    <3>6. CASE \E m \in Msgs : Arrive(m)
      BY <3>6 DEF Arrive, loop
    <3> QED
      BY <1>3, <3>2, <3>3, <3>4, <3>5, <3>6 DEF QuietStep
  <2> QED
    BY <2>1, <2>2, <2>3, <2>4, <2>5, LoopOther
<1>4. CASE PickIdle \/ PickNew \/ Give \/ AddActive \/ TermExit \/ SigInt
  <2>1. /\ pc' \in {"give", "add", "reap", "exited", "aborted"}
        /\ then' = then \/ then' = "none"
        /\ pc' = "aborted" => then' = "none"
        /\ pc' # "aborted" => pc \in {"pick", "give", "add", "term"}
    BY <1>4 DEF PickIdle, PickNew, Give, AddActive, TermExit, SigInt, loop
  <2>2. then' = "none" /\ pc' \notin Loops
    BY <1>1, <2>1 DEF Loops
  <2> QED
    BY <2>2, LoopOther DEF Loops
<1>5. CASE SigHup
  <2>1. SameKind /\ UNCHANGED <<then, todo, active, idle, proc, data, work, status>>
    BY <1>1, <1>5, HupLemma
  <2>2. Own' = Own /\ \A p \in Pids : Empty(p) => Empty(p)'
    BY <2>1 DEF Own, Free, Empty
  <2> QED
    BY <1>1, <2>1, <2>2, LoopKept
<1>6. CASE \E p \in Pids : AnyChildStep(p)
  <2>1. PICK p \in Pids : AnyChildStep(p)
    BY <1>6
  <2>2. /\ SameKind /\ p \in Living
        /\ \E x \in {"ready", "busy", "zombie"} : proc' = [proc EXCEPT ![p] = x]
        /\ UNCHANGED <<active, idle, todo, then>>
    BY <1>1, <2>1, ChildStepLemma
  <2>3. Own' = Own /\ \A q \in Pids : proc[q] = "reaped" => proc'[q] = "reaped"
    BY <1>1, <2>2, OwnKept DEF Living
  <2>4. \A q \in Pids : status[q] > 0 => status'[q] > 0
    <3>1. status' = status \/ status' = [status EXCEPT ![p] = @ + 1]
      BY <2>1 DEF AnyChildStep, ChildStep, ChildStart, ChildRead, ChildDone, ChildKilled, ChildPanic, ChildCrash
    <3> QED
      BY <1>1, <3>1
  <2>5. \A q \in Pids : Empty(q) => Empty(q)'
    BY <1>1, <2>1, EmptyKept
  <2> QED
    BY <1>1, <2>2, <2>3, <2>4, <2>5, LoopKept
<1>7. CASE UNCHANGED vars
  <2>1. UNCHANGED <<pc, then, todo, idle, active, proc, data, work, status>>
    BY <1>7 DEF vars, pool, lists, children, loop
  <2> QED
    BY <1>1, <2>1 DEF LoopInv, Own, Free, Listed, Empty
<1> QED
  BY <1>2, <1>3, <1>4, <1>5, <1>6, <1>7, StepLemma
-----------------------------------------------------------------------------
(* The load of the children.                                               *)

\* Every step of the loops leaves each child with one request or answer at most.
LEMMA LoopLoadStep ==
    ASSUME IInv, LoopStep
    PROVE  LoadInv'
<1> USE DEF IInv
<1>1. /\ TypeOK /\ idle \in Seq(Pids) /\ todo \in Seq(Pids) /\ active \in Seq(Pids)
      /\ proc \in [Pids -> States]
      /\ data \in [Pids -> Seq(Msgs)] /\ work \in [Pids -> Seq(Msgs)]
      /\ status \in [Pids -> Nat] /\ served \in [Pids -> 0 .. MaxRequests]
      /\ MaxRequests \in Nat \ {0} /\ LoopInv
      /\ \A p \in Pids : Fits(p)
  BY PreforkAssumption DEF TypeOK, PreforkAssumption, LoadInv, States
<1>2. ~Gone /\ ~Gone' /\ pc' # "give"
  BY <1>1, LoopStepLemma
<1>3. SUFFICES ASSUME NEW q \in Pids PROVE Fits(q)'
  BY <1>2 DEF LoadInv
<1>4. Fits(q)
  BY <1>1
<1>5. CASE WaitPid
  <2>1. /\ UNCHANGED <<idle, data, work, status, served>>
        /\ \E p \in Zombies : proc' = [proc EXCEPT ![p] = "reaped"]
    BY <1>5 DEF WaitPid, lists
  <2>2. proc'[q] = proc[q] \/ (proc[q] = "zombie" /\ proc'[q] = "reaped")
    BY <1>1, <2>1 DEF Zombies
  <2> QED
    BY <1>4, <2>1, <2>2 DEF Fits, Empty, Living
<1>6. CASE Settle \/ Unlink
  <2>1. UNCHANGED <<idle, proc, data, work, status, served>>
    BY <1>6 DEF Settle, Unlink, children
  <2> QED
    BY <1>4, <2>1 DEF Fits, Empty, Living
<1>7. CASE ReadStatus
  <2>1. /\ pc = "read" /\ status' = [status EXCEPT ![Head(todo)] = 0]
        /\ UNCHANGED <<idle, proc, data, work, served>>
    BY <1>7 DEF ReadStatus, lists
  <2>2. status'[q] = status[q] \/ status'[q] = 0
    BY <1>1, <2>1
  <2>3. Len(data[q]) \in Nat /\ Len(work[q]) \in Nat /\ status[q] \in Nat
    BY <1>1, ChildTypes
  <2>4. Len(data[q]) + Len(work[q]) + status'[q] <= 1
    <3>1. \A a, b, c \in Nat : a + b + c <= 1 => a + b + 0 <= 1
      OBVIOUS
    <3>2. Len(data[q]) + Len(work[q]) + status[q] <= 1
      BY <1>4 DEF Fits
    <3> QED
      BY <2>2, <2>3, <3>1, <3>2
  <2> QED
    BY <1>4, <2>1, <2>2, <2>4 DEF Fits, Empty, Living
<1>8. CASE Push
  <2> DEFINE p == Head(todo)
  <2>1. /\ pc = "push" /\ idle' = <<p>> \o idle
        /\ UNCHANGED <<proc, data, work, status, served>>
    BY <1>8 DEF Push, children
  <2>2. Empty(p) /\ p \in Pids
    BY <1>1, <2>1 DEF LoopInv
  <2> HIDE DEF p
  <2>3. Here(idle') = Here(idle) \cup {p}
    BY <1>1, <2>1, <2>2, PrependLemma
  <2>4. q \in Here(idle') => Empty(q)
    BY <1>4, <2>2, <2>3 DEF Fits
  <2>5. /\ Empty(q)' <=> Empty(q)
        /\ q \in Living' => q \in Living
    BY <2>1 DEF Empty, Living
  <2> QED
    BY <1>4, <2>1, <2>4, <2>5 DEF Fits
<1>9. CASE Delete
  <2>1. PICK p \in Pids : todo = <<p>> /\ proc[p] = "reaped"
    BY <1>1, <1>9 DEF Delete, LoopInv
  <2>2. Here(todo) = {p}
    BY <2>1, ShortLists
  <2>3. /\ proc' = [proc EXCEPT ![p] = "none"]
        /\ data' = [data EXCEPT ![p] = << >>] /\ work' = [work EXCEPT ![p] = << >>]
        /\ status' = [status EXCEPT ![p] = 0] /\ served' = [served EXCEPT ![p] = 0]
        /\ idle' = Without(idle, {p})
    BY <1>9, <2>2 DEF Delete, Bury
  <2>4. Here(idle') = Here(idle) \ {p}
    BY <1>1, <2>3, WithoutLemma
  <2>5. CASE q = p
    <3>1. /\ data'[q] = << >> /\ work'[q] = << >> /\ status'[q] = 0 /\ served'[q] = 0
          /\ proc'[q] = "none" /\ Len(<< >>) = 0
      BY <1>1, <2>3, <2>5
    <3> QED
      BY <1>1, <3>1 DEF Fits, Empty, Living
  <2>6. CASE q # p
    <3>1. /\ data'[q] = data[q] /\ work'[q] = work[q] /\ status'[q] = status[q] /\ served'[q] = served[q]
          /\ proc'[q] = proc[q] /\ (q \in Here(idle') => q \in Here(idle))
      BY <1>1, <2>3, <2>4, <2>6
    <3> QED
      BY <1>4, <3>1 DEF Fits, Empty, Living
  <2> QED
    BY <2>5, <2>6
<1>10. CASE Refill
  <2>1. PICK p \in Free : proc' = [proc EXCEPT ![p] = "start"] /\ idle' = <<p>> \o idle
    BY <1>10 DEF Refill
  <2>2. p \in Pids /\ proc[p] = "none" /\ UNCHANGED <<data, work, status, served>>
    BY <1>10, <2>1 DEF Refill, Free
  <2>3. Here(idle') = Here(idle) \cup {p}
    BY <1>1, <2>1, <2>2, PrependLemma
  <2>4. CASE q = p
    <3>1. Empty(q) /\ served[q] = 0 /\ 0 < MaxRequests /\ proc'[q] = "start"
      BY <1>1, <1>4, <2>1, <2>2, <2>4 DEF Fits
    <3> QED
      BY <1>4, <2>2, <3>1 DEF Fits, Empty
  <2>5. CASE q # p
    <3>1. proc'[q] = proc[q] /\ (q \in Here(idle') => q \in Here(idle))
      BY <1>1, <2>1, <2>2, <2>3, <2>5
    <3> QED
      BY <1>4, <2>2, <3>1 DEF Fits, Empty, Living
  <2> QED
    BY <2>4, <2>5
<1> QED
  BY <1>5, <1>6, <1>7, <1>8, <1>9, <1>10 DEF LoopStep

\* Every step leaves each child with one request or answer at most.
LEMMA LoadStep ==
    ASSUME IInv, [Next]_vars
    PROVE  LoadInv'
<1> USE DEF IInv
<1>1. /\ TypeOK /\ LoopInv /\ idle \in Seq(Pids) /\ hand \subseteq Pids
      /\ proc \in [Pids -> States]
      /\ data \in [Pids -> Seq(Msgs)] /\ work \in [Pids -> Seq(Msgs)]
      /\ status \in [Pids -> Nat] /\ served \in [Pids -> 0 .. MaxRequests]
      /\ MaxRequests \in Nat \ {0}
      /\ \A p \in Pids : Fits(p)
      /\ then # "none" => pc \in Loops
  BY PreforkAssumption DEF TypeOK, PreforkAssumption, LoadInv, LoopInv, States
<1>2. ASSUME NEW p \in Pids, UNCHANGED <<data, work, status, proc, served>>, p \in Here(idle') => p \in Here(idle)
      PROVE  Fits(p)'
  BY <1>1, <1>2 DEF Fits, Empty, Living
<1>3. ASSUME UNCHANGED <<data, work, status, proc, served, idle, hand>>, Gone' => Gone \/ idle = << >>,
             pc' = "give" => pc = "give"
      PROVE  LoadInv'
  <2>1. \A p \in Pids : Fits(p)'
    BY <1>2, <1>3
  <2>2. pc' = "give" => \A p \in hand' : Empty(p)'
    BY <1>3 DEF LoadInv, Empty
  <2> QED
    BY <2>1, <2>2, <1>3 DEF LoadInv
<1>4. CASE LoopStep
  BY <1>4, LoopLoadStep
<1>5. CASE QuietStep
  BY <1>1, <1>3, <1>5, QuietStepLemma
<1>6. CASE PickIdle
  <2>1. /\ idle # << >> /\ idle' = Tail(idle) /\ hand' = {Head(idle)} /\ pc' = "give"
        /\ UNCHANGED <<data, work, status, proc, served>>
    BY <1>6 DEF PickIdle, children
  <2>2. Head(idle) \in Here(idle) /\ Head(idle) \in Pids /\ Here(idle') \subseteq Here(idle)
    BY <1>1, <2>1, HeadTailLemma
  <2>3. \A p \in hand' : Empty(p)
    BY <1>1, <2>1, <2>2 DEF Fits
  <2>4. \A p \in hand' : Empty(p)'
    BY <2>1, <2>3 DEF Empty
  <2>5. \A p \in Pids : Fits(p)'
    BY <1>2, <2>1, <2>2
  <2> QED
    BY <2>1, <2>4, <2>5 DEF LoadInv, Gone
<1>7. CASE PickNew
  <2>1. PICK p \in Free : hand' = {p} /\ proc' = [proc EXCEPT ![p] = "start"]
    BY <1>7 DEF PickNew
  <2>2. /\ pc' = "give" /\ idle = << >> /\ UNCHANGED <<idle, data, work, status, served>>
        /\ p \in Pids /\ proc[p] = "none"
    BY <1>7, <2>1 DEF PickNew, Free
  <2>3. Empty(p)' /\ served[p] = 0 /\ 0 < MaxRequests
    BY <1>1, <2>2 DEF Fits, Empty
  <2>4. ASSUME NEW q \in Pids PROVE Fits(q)'
    <3>1. Fits(q) /\ (q # p => proc'[q] = proc[q]) /\ proc'[p] = "start"
      BY <1>1, <2>1, <2>2
    <3> QED
      BY <2>2, <2>3, <3>1 DEF Fits, Empty, Living
  <2> QED
    BY <2>1, <2>2, <2>3, <2>4 DEF LoadInv, Gone
<1>8. CASE Give
  <2>1. PICK p \in hand : data' = [data EXCEPT ![p] = Append(@, msg)]
    BY <1>8 DEF Give
  <2>2. pc = "give" /\ pc' = "add" /\ UNCHANGED <<idle, work, status, proc, served, then>>
    BY <1>8 DEF Give, lists, loop
  <2>3. Empty(p) /\ p \in Pids /\ Fits(p)
    BY <1>1, <2>1, <2>2 DEF LoadInv
  <2>4. ~Gone /\ ~Stopping /\ At = pc
    BY <1>1, <2>2 DEF Gone, Stopping, At, Loops
  <2>5. p \notin Here(idle) /\ p \in Own
    BY <2>1, <2>2, <2>4 DEF ListsInv, Listed
  <2>6. msg \in Msgs
    BY <1>1, <2>2, <2>4 DEF RequestInv, TypeOK, Holding
  <2>7. Len(data'[p]) = 1
    <3>1. data[p] \in Seq(Msgs) /\ Len(data[p]) = 0
      BY <1>1, <2>3, ChildTypes DEF Empty
    <3>2. data'[p] = Append(data[p], msg)
      BY <1>1, <2>1, <2>3
    <3>3. Len(Append(data[p], msg)) = 0 + 1
      BY <2>6, <3>1, AppendLemma
    <3> QED
      BY <3>2, <3>3
  <2>8. Fits(p)'
    <3>1. work'[p] = << >> /\ Len(work'[p]) = 0 /\ status'[p] = 0
      BY <1>1, <2>2, <2>3, ChildTypes DEF Empty
    <3>2. Len(data'[p]) + Len(work'[p]) + status'[p] <= 1
      BY <2>7, <3>1
    <3>3. proc'[p] # "busy" /\ proc'[p] # "none"
      BY <2>2, <2>3, <2>5, <3>1 DEF Fits, Own, Free
    <3> QED
      BY <2>2, <2>3, <2>5, <3>1, <3>2, <3>3 DEF Fits, Living
  <2>9. ASSUME NEW q \in Pids, q # p PROVE Fits(q)'
    <3>1. Fits(q) /\ data'[q] = data[q]
      BY <1>1, <2>1, <2>3, <2>9
    <3> QED
      BY <2>2, <3>1 DEF Fits, Empty, Living
  <2> QED
    BY <2>2, <2>8, <2>9 DEF LoadInv, Gone
<1>9. CASE AddActive
  <2>1. /\ pc' = "reap" /\ UNCHANGED <<data, work, status, proc, served, idle>>
    BY <1>9 DEF AddActive, children
  <2>2. \A p \in Pids : Fits(p)'
    BY <1>2, <2>1
  <2> QED
    BY <2>1, <2>2 DEF LoadInv, Gone
<1>10. CASE TermExit \/ SigInt
  <2>1. idle' = << >> /\ pc' # "give" /\ UNCHANGED <<data, work, status, proc, served>>
    BY <1>10 DEF TermExit, SigInt
  <2>2. Here(idle') = {}
    BY <2>1 DEF Here
  <2>3. \A p \in Pids : Fits(p)'
    BY <1>2, <2>1, <2>2
  <2> QED
    BY <2>1, <2>3 DEF LoadInv
<1>11. CASE SigHup
  <2>1. SameKind /\ UNCHANGED <<data, work, status, proc, served, idle, hand>>
    BY <1>1, <1>11, HupLemma
  <2> QED
    BY <2>1, <1>3 DEF SameKind, Special
<1>12. CASE \E p \in Pids : AnyChildStep(p)
  <2>1. PICK p \in Pids : AnyChildStep(p)
    BY <1>12
  <2>2. SameKind /\ idle' = idle /\ hand' = hand
    BY <1>1, <2>1, ChildStepLemma
  <2>3. \A q \in Pids : q # p =>
          /\ data'[q] = data[q] /\ work'[q] = work[q] /\ status'[q] = status[q]
          /\ proc'[q] = proc[q] /\ served'[q] = served[q]
    BY <1>1, <2>1 DEF AnyChildStep, ChildStep, ChildStart, ChildRead, ChildDone, ChildKilled, ChildPanic,
       ChildCrash, Exit
  <2>4. \A q \in Pids : q # p => Fits(q)'
    BY <1>1, <2>2, <2>3 DEF Fits, Empty, Living
  <2>5. Fits(p) /\ Len(<< >>) = 0
    BY <1>1
  <2>6. /\ Len(data[p]) \in Nat /\ Len(work[p]) \in Nat /\ status[p] \in Nat /\ served[p] \in Nat
        /\ data[p] = << >> <=> Len(data[p]) = 0
        /\ work[p] = << >> <=> Len(work[p]) = 0
    BY <1>1, ChildTypes
  <2>7. /\ Len(data[p]) + Len(work[p]) + status[p] <= 1
        /\ p \in Here(idle) => Len(data[p]) = 0 /\ Len(work[p]) = 0 /\ status[p] = 0
    BY <2>5, <2>6 DEF Fits, Empty
  <2>8. Fits(p)'
    <3>1. CASE ChildStart(p)
      <4>1. proc[p] = "start" /\ proc'[p] = "ready" /\ UNCHANGED <<data, work, status, served>>
        BY <1>1, <3>1 DEF ChildStart
      <4> QED
        BY <4>1, <2>2, <2>5 DEF Fits, Empty, Living
    <3>2. CASE ChildRead(p)
      <4>1. /\ proc[p] = "ready" /\ data[p] # << >> /\ proc'[p] = "busy" /\ work'[p] = data[p]
            /\ data'[p] = << >> /\ status' = status /\ served' = served
        BY <1>1, <3>2 DEF ChildRead
      <4>2. p \notin Here(idle) /\ Len(data[p]) = 1 /\ status[p] = 0 /\ served[p] < MaxRequests
        <5>1. Len(data[p]) >= 1
          BY <4>1, <2>6
        <5>2. p \notin Here(idle)
          BY <5>1, <2>7
        <5>3. Len(data[p]) = 1 /\ status[p] = 0
          <6>1. \A a, b, c \in Nat : a + b + c <= 1 /\ a >= 1 => a = 1 /\ c = 0
            OBVIOUS
          <6> QED
            BY <6>1, <5>1, <2>6, <2>7
        <5>4. served[p] < MaxRequests
          BY <4>1, <2>5 DEF Fits, Living
        <5> QED
          BY <5>2, <5>3, <5>4
      <4> QED
        BY <4>1, <4>2, <2>2, <2>5 DEF Fits, Empty, Living
    <3>3. CASE ChildDone(p)
      <4>1. /\ proc[p] = "busy" /\ work'[p] = << >> /\ served'[p] = served[p] + 1 /\ data' = data
            /\ \/ served[p] + 1 < MaxRequests /\ proc'[p] = "ready" /\ status'[p] = status[p] + 1
               \/ proc'[p] = "zombie" /\ status' = status
        BY <1>1, <3>3 DEF ChildDone, Exit
      <4>2. Len(work[p]) = 1
        BY <4>1, <2>5 DEF Fits
      <4>3. p \notin Here(idle) /\ data[p] = << >> /\ status[p] = 0
        BY <4>2, <2>6, <2>7
      <4> QED
        BY <4>1, <4>3, <2>2, <2>5, <2>6 DEF Fits, Empty, Living
    <3>4. CASE ChildPanic(p)
      <4>1. /\ proc[p] = "busy" /\ work'[p] = << >> /\ proc'[p] = "zombie"
            /\ UNCHANGED <<data, status, served>>
        BY <1>1, <3>4 DEF ChildPanic, Exit
      <4>2. Len(work[p]) = 1
        BY <4>1, <2>5 DEF Fits
      <4>3. p \notin Here(idle) /\ data[p] = << >> /\ status[p] = 0
        BY <4>2, <2>6, <2>7
      <4> QED
        BY <4>1, <4>3, <2>2, <2>5 DEF Fits, Empty, Living
    <3>5. CASE ChildKilled(p) \/ ChildCrash(p)
      <4>1. proc'[p] = "zombie" /\ UNCHANGED <<data, work, status, served>>
        BY <1>1, <3>5 DEF ChildKilled, ChildCrash, Exit
      <4> QED
        BY <4>1, <2>2, <2>5 DEF Fits, Empty, Living
    <3> QED
      BY <2>1, <3>1, <3>2, <3>3, <3>4, <3>5 DEF AnyChildStep, ChildStep
  <2>9. \A q \in Pids : Fits(q)'
    BY <2>4, <2>8
  <2>10. pc' = "give" => \A q \in hand' : Empty(q)'
    <3>1. pc' = "give" => pc = "give"
      BY <2>2 DEF SameKind, Special
    <3> QED
      BY <1>1, <2>1, <2>2, <3>1, EmptyKept DEF LoadInv
  <2>11. Gone' => idle' = << >>
    BY <2>2 DEF SameKind, LoadInv
  <2> QED
    BY <2>9, <2>10, <2>11 DEF LoadInv
<1>13. CASE UNCHANGED vars
  BY <1>3, <1>13 DEF vars, pool, lists, children, Gone
<1> QED
  BY <1>4, <1>5, <1>6, <1>7, <1>8, <1>9, <1>10, <1>11, <1>12, <1>13, StepLemma
-----------------------------------------------------------------------------
(* Why requests are lost.                                                  *)

\* A pool stays calm in a step that changes nothing of what is said of it.
LEMMA CalmKept ==
    ASSUME Calm, UNCHANGED <<killed, pending, proc, data, work, status>>, Here(idle') \subseteq Here(idle),
           pc' \in {"settle", "unlink", "push"} =>
             pc \in {"settle", "unlink", "push"} /\ Head(todo') = Head(todo),
           pc' = "give" => pc = "give" /\ hand' = hand
    PROVE  Calm'
<1>1. Dead' = Dead /\ \A p \in Pids : Empty(p)' <=> Empty(p)
  BY DEF Dead, Empty
<1>2. Dead \subseteq Pids
  BY DEF Dead
<1> QED
  BY <1>1, <1>2 DEF Calm

\* Until something goes wrong, the loops find no request with a child that has ended.
LEMMA LoopCalmStep ==
    ASSUME IInv, LoopStep, Calm
    PROVE  Calm' /\ lost' = lost
<1> USE DEF IInv
<1>1. /\ TypeOK /\ idle \in Seq(Pids) /\ todo \in Seq(Pids) /\ active \in Seq(Pids)
      /\ proc \in [Pids -> States] /\ data \in [Pids -> Seq(Msgs)] /\ work \in [Pids -> Seq(Msgs)]
      /\ status \in [Pids -> Nat] /\ LoopInv /\ Dead \subseteq Pids
  BY DEF TypeOK, States, Dead
<1>2. /\ ~Gone /\ then \in Returns /\ pc' # "give"
  BY <1>1, LoopStepLemma DEF LoopInv, TypeOK, Returns
<1>3. CASE WaitPid
  <2>1. /\ pc' = "delete" /\ UNCHANGED <<killed, pending, data, work, status, idle, lost>>
        /\ \E p \in Zombies : proc' = [proc EXCEPT ![p] = "reaped"]
    BY <1>3 DEF WaitPid, lists
  <2>2. Dead' = Dead
    BY <1>1, <2>1 DEF Dead, Zombies
  <2>3. \A p \in Pids : Empty(p)' <=> Empty(p)
    BY <2>1 DEF Empty
  <2> QED
    BY <1>1, <2>1, <2>2, <2>3 DEF Calm
<1>4. CASE Delete
  <2>1. PICK p \in Pids : todo = <<p>> /\ proc[p] = "reaped"
    BY <1>1, <1>4 DEF Delete, LoopInv
  <2>2. Here(todo) = {p}
    BY <2>1, ShortLists
  <2>3. /\ proc' = [proc EXCEPT ![p] = "none"]
        /\ data' = [data EXCEPT ![p] = << >>] /\ work' = [work EXCEPT ![p] = << >>]
        /\ status' = [status EXCEPT ![p] = 0]
        /\ idle' = Without(idle, {p}) /\ killed' = killed \ {p} /\ pending' = pending
        /\ lost' = lost \cup Load(p) /\ pc' = "bury"
    BY <1>4, <2>2 DEF Delete, Bury
  <2>4. Here(idle') = Here(idle) \ {p}
    BY <1>1, <2>3, WithoutLemma
  <2>5. Load(p) = {}
    <3>1. Empty(p)
      BY <2>1 DEF Calm, Dead
    <3> QED
      BY <3>1 DEF Empty, Load, Here
  <2>6. Dead' = Dead \ {p}
    BY <1>1, <2>3 DEF Dead
  <2>7. \A q \in Dead' : Empty(q)' /\ q \notin Here(idle')
    <3>1. SUFFICES ASSUME NEW q \in Dead' PROVE Empty(q)' /\ q \notin Here(idle')
      OBVIOUS
    <3>2. q \in Dead /\ q # p /\ q \in Pids
      BY <1>1, <2>6, <3>1
    <3>3. Empty(q) /\ q \notin Here(idle)
      BY <3>2 DEF Calm
    <3>4. data'[q] = data[q] /\ work'[q] = work[q] /\ status'[q] = status[q]
      BY <1>1, <2>3, <3>2
    <3> QED
      BY <2>4, <3>3, <3>4 DEF Empty
  <2> QED
    BY <2>3, <2>5, <2>7 DEF Calm
<1>5. CASE Refill
  <2>1. PICK p \in Free : proc' = [proc EXCEPT ![p] = "start"] /\ idle' = <<p>> \o idle
    BY <1>5 DEF Refill
  <2>2. /\ p \in Pids /\ proc[p] = "none" /\ pc' = "refill"
        /\ UNCHANGED <<data, work, status, killed, pending, lost>>
    BY <1>5, <2>1 DEF Refill, Free
  <2>3. Here(idle') = Here(idle) \cup {p}
    BY <1>1, <2>1, <2>2, PrependLemma
  <2>4. Dead' = Dead /\ p \notin Dead
    BY <1>1, <2>1, <2>2 DEF Dead
  <2>5. \A q \in Pids : Empty(q)' <=> Empty(q)
    BY <2>2 DEF Empty
  <2> QED
    BY <1>1, <2>2, <2>3, <2>4, <2>5 DEF Calm
<1>6. CASE ReadStatus
  <2> DEFINE p == Head(todo)
  <2>1. /\ pc = "read" /\ pc' = "settle" /\ status' = [status EXCEPT ![p] = 0] /\ todo' = todo
        /\ UNCHANGED <<killed, pending, proc, data, work, idle, lost>>
    BY <1>6 DEF ReadStatus, lists, loop
  <2>2. status[p] > 0 /\ p \in Pids
    <3>1. p \in Here(active) /\ status[p] > 0
      BY <1>1, <2>1 DEF LoopInv
    <3> QED
      BY <1>1, <3>1, ListFacts
  <2>3. p \notin Dead
    BY <2>2 DEF Calm, Empty
  <2>4. Dead' = Dead
    BY <2>1 DEF Dead
  <2>5. \A q \in Dead : Empty(q)'
    <3>1. \A q \in Dead : status'[q] = status[q] /\ Empty(q)
      BY <1>1, <2>1, <2>2, <2>3 DEF Calm
    <3> QED
      BY <2>1, <3>1 DEF Empty
  <2> QED
    BY <2>1, <2>3, <2>4, <2>5 DEF Calm
<1>7. CASE Settle
  <2>1. /\ pc = "settle" /\ UNCHANGED <<idle, proc, data, work, status, lost>>
        /\ LET p == Head(todo)
           IN  \/ /\ pending[p] > 0 /\ pending' = [pending EXCEPT ![p] = @ - 1] /\ killed' = killed \cup {p}
                  /\ GoOnWith(Tail(todo))
               \/ pc' = "unlink" /\ UNCHANGED <<pending, killed, todo>>
    BY <1>7 DEF Settle
  <2>2. pending[Head(todo)] = 0
    <3>1. Head(todo) \in Here(active)
      BY <1>1, <2>1 DEF LoopInv
    <3>2. Head(todo) \in Pids
      BY <1>1, <3>1, ListFacts
    <3> QED
      BY <3>2 DEF Calm
  <2>3. pc' = "unlink" /\ UNCHANGED <<pending, killed, todo>>
    BY <2>1, <2>2
  <2> QED
    BY <2>1, <2>3, CalmKept
<1>8. CASE Unlink
  <2>1. /\ pc = "unlink" /\ pc' = "push" /\ UNCHANGED <<killed, pending, proc, data, work, status, idle, lost>>
        /\ todo' = <<Head(todo)>> \/ todo' = todo
    BY <1>8 DEF Unlink, children
  <2>2. Head(todo') = Head(todo)
    BY <2>1
  <2> QED
    BY <2>1, <2>2, CalmKept
<1>9. CASE Push
  <2> DEFINE p == Head(todo)
  <2>1. /\ pc = "push" /\ pc' \in {"read", then} /\ idle' = <<p>> \o idle
        /\ UNCHANGED <<killed, pending, proc, data, work, status, lost>>
    BY <1>9 DEF Push, GoOnWith, children
  <2>2. p \in Pids /\ p \notin Dead
    BY <1>1, <2>1 DEF LoopInv, Own, Calm
  <2>3. Here(idle') = Here(idle) \cup {p}
    BY <1>1, <2>1, <2>2, PrependLemma
  <2>4. Dead' = Dead /\ \A q \in Pids : Empty(q)' <=> Empty(q)
    BY <2>1 DEF Dead, Empty
  <2>5. pc' \notin {"settle", "unlink", "push", "give"}
    BY <1>2, <2>1 DEF Returns
  <2> HIDE DEF p
  <2> QED
    BY <1>1, <2>1, <2>2, <2>3, <2>4, <2>5 DEF Calm
<1> QED
  BY <1>3, <1>4, <1>5, <1>6, <1>7, <1>8, <1>9 DEF LoopStep

\* Until something goes wrong, no request is lost.
LEMMA CalmStep ==
    ASSUME IInv, [Next]_vars, ~Gone', ~Trouble'
    PROVE  Calm' /\ lost' = lost
<1> USE DEF IInv
<1>1. /\ TypeOK /\ LoopInv /\ idle \in Seq(Pids) /\ crashes \in Nat /\ hups \in Nat
      /\ proc \in [Pids -> States]
      /\ data \in [Pids -> Seq(Msgs)] /\ work \in [Pids -> Seq(Msgs)]
      /\ status \in [Pids -> Nat] /\ served \in [Pids -> 0 .. MaxRequests]
      /\ \A p \in Pids : Fits(p)
      /\ Dead \subseteq Pids
  BY DEF TypeOK, LoadInv, States, Dead
<1>2. ASSUME ~Gone, ~Trouble PROVE Calm
  BY <1>2 DEF CauseInv
<1>3. CASE LoopStep
  <2>1. ~Gone /\ ~Trouble
    BY <1>1, <1>3, LoopStepLemma DEF Trouble
  <2> QED
    BY <1>2, <1>3, <2>1, LoopCalmStep
<1>4. CASE QuietStep
  <2>1. /\ ~Gone /\ ~Trouble /\ UNCHANGED <<killed, pending, lost, proc, data, work, status, idle, hand>>
        /\ pc' \in {"settle", "unlink", "push", "give"} => pc' = pc /\ todo' = todo
    BY <1>1, <1>4, QuietStepLemma DEF Trouble
  <2> QED
    BY <1>2, <2>1, CalmKept
<1>5. CASE PickIdle
  <2>1. /\ ~Gone /\ ~Trouble /\ idle # << >> /\ idle' = Tail(idle) /\ hand' = {Head(idle)} /\ pc' = "give"
        /\ UNCHANGED <<killed, pending, lost, proc, data, work, status>>
    BY <1>5 DEF PickIdle, Gone, Trouble, Keep, bounds, children
  <2>2. Head(idle) \in Here(idle) /\ Here(idle') \subseteq Here(idle)
    BY <1>1, <2>1, HeadTailLemma
  <2>3. Calm
    BY <1>2, <2>1
  <2>4. Dead' = Dead /\ \A p \in Pids : Empty(p)' <=> Empty(p)
    BY <2>1 DEF Dead, Empty
  <2>5. hand' \cap Dead = {}
    BY <2>1, <2>2, <2>3 DEF Calm
  <2> QED
    BY <1>1, <2>1, <2>2, <2>3, <2>4, <2>5 DEF Calm
<1>6. CASE PickNew
  <2>1. PICK p \in Free : hand' = {p} /\ proc' = [proc EXCEPT ![p] = "start"]
    BY <1>6 DEF PickNew
  <2>2. ~Gone /\ ~Trouble /\ pc' = "give" /\ UNCHANGED <<killed, pending, lost, data, work, status, idle>>
    BY <1>6 DEF PickNew, Gone, Trouble, Keep, bounds
  <2>3. Calm
    BY <1>2, <2>2
  <2>4. Dead' = Dead /\ p \notin Dead
    BY <1>1, <2>1 DEF Dead, Free
  <2>5. \A q \in Pids : Empty(q)' <=> Empty(q)
    BY <2>2 DEF Empty
  <2> QED
    BY <1>1, <2>1, <2>2, <2>3, <2>4, <2>5 DEF Calm
<1>7. CASE Give
  <2>1. PICK p \in hand : data' = [data EXCEPT ![p] = Append(@, msg)]
    BY <1>7 DEF Give
  <2>2. /\ ~Gone /\ ~Trouble /\ pc = "give" /\ pc' = "add"
        /\ UNCHANGED <<killed, pending, lost, proc, work, status, idle>>
    BY <1>7 DEF Give, Gone, Trouble, Keep, bounds, lists
  <2>3. Calm
    BY <1>2, <2>2
  <2>4. p \notin Dead /\ Dead' = Dead
    BY <2>1, <2>2, <2>3 DEF Calm, Dead
  <2>5. \A q \in Dead : data'[q] = data[q]
    BY <1>1, <2>1, <2>4
  <2> QED
    BY <2>2, <2>3, <2>4, <2>5 DEF Calm, Empty
<1>8. CASE AddActive
  <2>1. /\ ~Gone /\ ~Trouble /\ pc' = "reap"
        /\ UNCHANGED <<killed, pending, lost, proc, data, work, status, idle>>
    BY <1>8 DEF AddActive, children, Keep, bounds, Trouble, Gone
  <2> QED
    BY <1>2, <2>1, CalmKept
<1>9. CASE TermExit \/ SigInt
  BY <1>9 DEF TermExit, SigInt, Gone
<1>10. CASE SigHup
  BY <1>1, <1>10 DEF SigHup, Trouble
<1>11. CASE \E p \in Pids : AnyChildStep(p)
  <2>1. PICK p \in Pids : AnyChildStep(p)
    BY <1>11
  <2>2. ~Gone /\ SameKind /\ UNCHANGED <<idle, pending, killed, lost, hups, hand, todo>>
    BY <1>1, <2>1, ChildStepLemma DEF SameKind
  <2>3. ~ChildPanic(p) /\ ~ChildCrash(p)
    BY <1>1 DEF ChildPanic, ChildCrash, Trouble
  <2>4. ~Trouble
    BY <2>1, <2>2, <2>3 DEF AnyChildStep, ChildStep, ChildStart, ChildRead, ChildDone, ChildKilled,
       Keep, bounds, Trouble
  <2>5. Calm
    BY <1>2, <2>2, <2>4
  <2>6. \A q \in Pids : Empty(q) => Empty(q)'
    BY <1>1, <2>1, EmptyKept
  <2>7. ~ChildKilled(p)
    BY <2>5 DEF ChildKilled, Calm
  <2>8. /\ pc' \in {"settle", "unlink", "push"} => pc \in {"settle", "unlink", "push"}
        /\ pc' = "give" => pc = "give"
    BY <2>2 DEF SameKind, Special, Loops
  <2>9. CASE proc'[p] # "zombie"
    <3>1. Dead' \subseteq Dead
      BY <1>1, <2>1, <2>9, ChildStepLemma DEF Dead, Living
    <3> QED
      BY <1>1, <2>2, <2>5, <2>6, <2>8, <3>1 DEF Calm
  <2>10. CASE ChildDone(p) /\ proc'[p] = "zombie"
    <3>1. /\ proc[p] = "busy" /\ work' = [work EXCEPT ![p] = << >>] /\ data' = data
          /\ \/ proc' = [proc EXCEPT ![p] = "ready"]
             \/ proc' = [proc EXCEPT ![p] = "zombie"] /\ status' = status
      BY <2>10 DEF ChildDone, Exit
    <3>2. data[p] = << >> /\ status[p] = 0 /\ p \notin Here(idle) /\ ~Empty(p)
      BY <1>1, <3>1, BusyLemma DEF Empty
    <3>3. proc' = [proc EXCEPT ![p] = "zombie"] /\ status' = status
      BY <1>1, <2>10, <3>1
    <3>4. Dead' = Dead \cup {p}
      BY <1>1, <3>3 DEF Dead
    <3>5. Empty(p)'
      BY <1>1, <3>1, <3>2, <3>3 DEF Empty
    <3>6. pc \in {"settle", "unlink", "push"} => Head(todo) # p
      BY <1>1, <3>2 DEF LoopInv
    <3>7. pc = "give" => p \notin hand
      BY <3>2 DEF LoadInv
    <3> QED
      BY <1>1, <2>2, <2>5, <2>6, <2>8, <3>2, <3>4, <3>5, <3>6, <3>7 DEF Calm
  <2>11. ChildStart(p) \/ ChildRead(p) => proc'[p] # "zombie"
    BY <1>1 DEF ChildStart, ChildRead
  <2> QED
    BY <2>1, <2>3, <2>7, <2>9, <2>10, <2>11 DEF AnyChildStep, ChildStep
<1>12. CASE UNCHANGED vars
  <2>1. /\ ~Gone /\ ~Trouble
        /\ UNCHANGED <<pc, hand, todo, killed, pending, lost, proc, data, work, status, idle>>
    BY <1>12 DEF vars, pool, lists, children, bounds, loop, Trouble, Gone
  <2> QED
    BY <1>2, <2>1, CalmKept
<1> QED
  BY <1>3, <1>4, <1>5, <1>6, <1>7, <1>8, <1>9, <1>10, <1>11, <1>12, StepLemma

\* Requests are only lost in a loop, and trouble does not pass.
LEMMA LostStep ==
    ASSUME IInv, [Next]_vars
    PROVE  /\ lost' = lost \/ LoopStep
           /\ Trouble => Trouble'
<1>1. crashes \in Nat /\ hups \in Nat /\ TypeOK /\ LoopInv
  BY DEF IInv, TypeOK
<1>2. CASE LoopStep
  BY <1>1, <1>2, LoopStepLemma DEF Trouble
<1>3. CASE QuietStep
  BY <1>1, <1>3, QuietStepLemma DEF Trouble
<1>4. CASE PickIdle \/ PickNew \/ Give \/ AddActive \/ TermExit \/ SigInt
  BY <1>4 DEF PickIdle, PickNew, Give, AddActive, TermExit, SigInt, Keep, bounds, Trouble
<1>5. CASE SigHup
  BY <1>1, <1>5 DEF SigHup, Trouble
<1>6. CASE \E p \in Pids : AnyChildStep(p)
  <2>1. PICK p \in Pids : AnyChildStep(p)
    BY <1>6
  <2>2. lost' = lost /\ hups' = hups
    BY <1>1, <2>1, ChildStepLemma
  <2>3. crashes' = crashes \/ crashes' = crashes + 1
    BY <2>1 DEF AnyChildStep, ChildStep, ChildStart, ChildRead, ChildDone, ChildKilled, ChildPanic, ChildCrash,
       Keep, bounds
  <2> QED
    BY <1>1, <2>2, <2>3 DEF Trouble
<1>7. CASE UNCHANGED vars
  BY <1>7 DEF vars, pool, bounds, Trouble
<1> QED
  BY <1>2, <1>3, <1>4, <1>5, <1>6, <1>7, StepLemma

\* Messages are skipped because of what they are, or when the server stops.
LEMMA DroppedStep ==
    ASSUME IInv, [Next]_vars
    PROVE  \A m \in dropped' : m \in Errors \cup Empties \/ Stopping' \/ pc' \in {"exited", "aborted"}
<1>1. /\ TypeOK /\ LoopInv
      /\ then # "none" => pc \in Loops
      /\ \A m \in dropped : m \in Errors \cup Empties \/ Stopping \/ pc \in {"exited", "aborted"}
  BY DEF IInv, CauseInv, LoopInv
<1>2. ASSUME dropped' = dropped, Stopping => Stopping' \/ pc' \in {"exited", "aborted"},
             pc \in {"exited", "aborted"} => pc' \in {"exited", "aborted"}
      PROVE  \A m \in dropped' : m \in Errors \cup Empties \/ Stopping' \/ pc' \in {"exited", "aborted"}
  BY <1>1, <1>2
<1>3. CASE LoopStep
  BY <1>1, <1>2, <1>3, LoopStepLemma DEF Gone
<1>4. CASE QuietStep
  <2>1. /\ Stopping /\ ~Gone => Stopping'
        /\ pc \in {"exited", "aborted"} => pc' \in {"exited", "aborted"}
    BY <1>1, <1>4, QuietStepLemma
  <2>2. ~(Stopping /\ Gone)
    BY <1>1 DEF Stopping, Gone, At, Loops
  <2>3. \/ dropped' = dropped
        \/ \E m \in Errors \cup Empties : dropped' = dropped \cup {m}
        \/ pc' = "term" /\ then' = "none"
    BY <1>4 DEF QuietStep, TestStep, LookStep, ReapAndGoOn, Check, Wait, Waited, TermWait, Scan, Select,
       TermSelect, ReapIfDead, LookAtAnswers, Reaped, Top, Recv, PickNone, EnterSelect, SigTerm, Arrive, Keep
  <2> QED
    BY <1>1, <1>2, <2>1, <2>2, <2>3 DEF Stopping, At
<1>5. CASE PickIdle \/ PickNew \/ Give \/ AddActive \/ TermExit
  <2>1. dropped' = dropped
    BY <1>5 DEF PickIdle, PickNew, Give, AddActive, TermExit, Keep
  <2>2. pc \in {"pick", "give", "add"} \/ (pc = "term" /\ pc' = "exited")
    BY <1>5 DEF PickIdle, PickNew, Give, AddActive, TermExit
  <2> QED
    BY <1>1, <1>2, <2>1, <2>2 DEF Stopping, At, Loops
<1>6. CASE SigInt
  BY <1>6 DEF SigInt
<1>7. CASE SigHup
  BY <1>1, <1>2, <1>7, HupLemma DEF SameKind
<1>8. CASE \E p \in Pids : AnyChildStep(p)
  BY <1>1, <1>2, <1>8, ChildStepLemma DEF SameKind
<1>9. CASE UNCHANGED vars
  BY <1>2, <1>9 DEF vars, loop, Stopping, At
<1> QED
  BY <1>3, <1>4, <1>5, <1>6, <1>7, <1>8, <1>9, StepLemma

\* Every step keeps the reasons for a loss.
LEMMA CauseStep ==
    ASSUME IInv, [Next]_vars
    PROVE  CauseInv'
<1>1. lost' # {} => Trouble'
  <2>1. lost # {} => Trouble
    BY DEF IInv, CauseInv
  <2>2. CASE LoopStep
    <3>1. ~Gone'
      BY <2>2, LoopStepLemma DEF IInv
    <3> QED
      BY <3>1, <2>1, CalmStep, LostStep
  <2> QED
    BY <2>1, <2>2, LostStep
<1>2. \A m \in dropped' : m \in Errors \cup Empties \/ Stopping' \/ pc' \in {"exited", "aborted"}
  BY DroppedStep
<1>3. ~Gone' /\ ~Trouble' => Calm'
  BY CalmStep
<1> QED
  BY <1>1, <1>2, <1>3 DEF CauseInv
-----------------------------------------------------------------------------
(* The requests.                                                           *)

\* The oldest message is skipped, or taken in hand; a new one comes; what is in hand is
\* dropped.
LEMMA PartedQueue ==
    ASSUME NEW s, NEW i, NEW h, NEW d, NEW l, NEW r, NEW g, Parted(s, i, h, d, l, r, g)
    PROVE  /\ \A x, j : i = j \cup {x} /\ x \notin j => Parted(s, j, h, d, l, r \cup {x}, g)
           /\ \A x, j : i = j \cup {x} /\ x \notin j /\ h = {} => Parted(s, j, {x}, d, l, r, g)
           /\ \A x : x \notin s => Parted(s \cup {x}, i \cup {x}, h, d, l, r, g)
           /\ Parted(s, i, {}, d, l, r \cup h, g)
<1>1. ASSUME NEW x, NEW j, i = j \cup {x}, x \notin j
      PROVE  Parted(s, j, h, d, l, r \cup {x}, g)
  BY <1>1 DEF Parted
<1>2. ASSUME NEW x, NEW j, i = j \cup {x}, x \notin j, h = {}
      PROVE  Parted(s, j, {x}, d, l, r, g)
  BY <1>2 DEF Parted
<1>3. ASSUME NEW x, x \notin s
      PROVE  Parted(s \cup {x}, i \cup {x}, h, d, l, r, g)
  BY <1>3 DEF Parted
<1>4. Parted(s, i, {}, d, l, r \cup h, g)
  BY DEF Parted
<1> QED
  BY <1>1, <1>2, <1>3, <1>4

\* The request in hand goes to a child that has none.
LEMMA PartedGive ==
    ASSUME NEW s, NEW i, NEW h, NEW d, NEW l, NEW r, NEW g, Parted(s, i, h, d, l, r, g),
           NEW p \in Pids, NEW f, g[p] = {}, f[p] = h, \A q \in Pids : q # p => f[q] = g[q]
    PROVE  Parted(s, i, {}, d, l, r, f)
<1>1. \A x : x \in UNION {f[q] : q \in Pids} <=> x \in h \/ x \in UNION {g[q] : q \in Pids}
  <2>1. ASSUME NEW x \in UNION {f[q] : q \in Pids}
        PROVE  x \in h \/ x \in UNION {g[q] : q \in Pids}
    BY <2>1
  <2>2. ASSUME NEW x \in UNION {g[q] : q \in Pids}
        PROVE  x \in UNION {f[q] : q \in Pids}
    <3>1. PICK q \in Pids : x \in g[q]
      BY <2>2
    <3>2. q # p
      BY <3>1
    <3> QED
      BY <3>1, <3>2
  <2>3. ASSUME NEW x \in h
        PROVE  x \in UNION {f[q] : q \in Pids}
    BY <2>3
  <2> QED
    BY <2>1, <2>2, <2>3
<1>2. s = i \cup {} \cup d \cup l \cup r \cup UNION {f[q] : q \in Pids}
  BY <1>1 DEF Parted
<1>3. \A q \in Pids : f[q] \cap (i \cup {} \cup d \cup l \cup r) = {}
  BY DEF Parted
<1>4. \A q, k \in Pids : q # k => f[q] \cap f[k] = {}
  BY DEF Parted
<1>5. i \cap ({} \cup d \cup l \cup r) = {} /\ d \cap (l \cup r) = {} /\ l \cap r = {}
  BY DEF Parted
<1> QED
  BY <1>2, <1>3, <1>4, <1>5 DEF Parted

\* The requests of some children are done, or lost.
LEMMA PartedTake ==
    ASSUME NEW s, NEW i, NEW h, NEW d, NEW l, NEW r, NEW g, Parted(s, i, h, d, l, r, g),
           NEW Z, Z \subseteq Pids, NEW f, NEW t, t = UNION {g[p] : p \in Z},
           \A p \in Pids : f[p] = IF p \in Z THEN {} ELSE g[p]
    PROVE  Parted(s, i, h, d \cup t, l, r, f) /\ Parted(s, i, h, d, l \cup t, r, f)
<1>1. \A x : x \in UNION {g[q] : q \in Pids} <=> x \in t \/ x \in UNION {f[q] : q \in Pids}
  <2>1. ASSUME NEW x \in UNION {g[q] : q \in Pids}
        PROVE  x \in t \/ x \in UNION {f[q] : q \in Pids}
    <3>1. PICK q \in Pids : x \in g[q]
      BY <2>1
    <3>2. CASE q \in Z
      BY <3>1, <3>2
    <3>3. CASE q \notin Z
      BY <3>1, <3>3
    <3> QED
      BY <3>2, <3>3
  <2>2. ASSUME NEW x \in UNION {f[q] : q \in Pids}
        PROVE  x \in UNION {g[q] : q \in Pids}
    BY <2>2
  <2>3. ASSUME NEW x \in t
        PROVE  x \in UNION {g[q] : q \in Pids}
    BY <2>3
  <2> QED
    BY <2>1, <2>2, <2>3
<1>2. /\ s = i \cup h \cup (d \cup t) \cup l \cup r \cup UNION {f[q] : q \in Pids}
      /\ s = i \cup h \cup d \cup (l \cup t) \cup r \cup UNION {f[q] : q \in Pids}
  BY <1>1 DEF Parted
<1>3. t \cap (i \cup h \cup d \cup l \cup r) = {}
  <2>1. SUFFICES ASSUME NEW x \in t PROVE x \notin i \cup h \cup d \cup l \cup r
    OBVIOUS
  <2>2. PICK q \in Z : x \in g[q]
    BY <2>1
  <2> QED
    BY <2>2 DEF Parted
<1>4. \A p \in Pids : f[p] \cap t = {}
  <2>1. SUFFICES ASSUME NEW p \in Pids, NEW x \in f[p] PROVE x \notin t
    OBVIOUS
  <2>2. p \notin Z /\ x \in g[p]
    BY <2>1
  <2>3. \A q \in Z : x \notin g[q]
    BY <2>2 DEF Parted
  <2> QED
    BY <2>3
<1>5. \A p \in Pids : f[p] \cap (i \cup h \cup d \cup l \cup r) = {}
  BY DEF Parted
<1>6. \A p, q \in Pids : p # q => f[p] \cap f[q] = {}
  BY DEF Parted
<1>7. /\ i \cap (h \cup d \cup l \cup r) = {} /\ h \cap (d \cup l \cup r) = {}
      /\ d \cap (l \cup r) = {} /\ l \cap r = {}
  BY DEF Parted
<1> HIDE DEF Parted
<1>8. Parted(s, i, h, d \cup t, l, r, f)
  BY <1>2, <1>3, <1>4, <1>5, <1>6, <1>7 DEF Parted
<1>9. Parted(s, i, h, d, l \cup t, r, f)
  BY <1>2, <1>3, <1>4, <1>5, <1>6, <1>7 DEF Parted
<1> QED
  BY <1>8, <1>9

\* Looking for a child, the parent has the request until it has one.
LEMMA HoldingKept ==
    ASSUME TypeOK, LoopInv, TestStep \/ LookStep \/ Reaped \/ Top \/ PickNone \/ EnterSelect
    PROVE  At' \in Holding <=> At \in Holding
<1>1. /\ then \in Returns \cup {"none"} /\ (then # "none" <=> pc \in Loops)
  BY DEF TypeOK, Returns, LoopInv
<1>2. CASE TestStep
  <2>1. PICK next \in {"top", "scan", "ring", "pick", "term_ring"} :
          /\ <<pc, next>> \in {<<"reap", "top">>, <<"check", "scan">>, <<"wait", "ring">>,
                               <<"waited", "pick">>, <<"term", "term_ring">>}
          /\ ReapIfDead(next)
    BY <1>2 DEF TestStep, ReapAndGoOn, Check, Wait, Waited, TermWait
  <2>2. At = pc
    BY <1>1, <2>1 DEF At, Loops
  <2>3. (pc' = "bury" /\ then' = next) \/ (pc' = next /\ then' = then)
    BY <2>1 DEF ReapIfDead
  <2>4. At' = next
    BY <1>1, <2>1, <2>3 DEF At, Loops
  <2> QED
    BY <2>1, <2>2, <2>4 DEF Holding
<1>3. CASE LookStep \/ Top \/ PickNone \/ EnterSelect
  BY <1>1, <1>3 DEF LookStep, Scan, Select, TermSelect, LookAtAnswers, Top, PickNone, EnterSelect, loop,
     At, Holding, Loops
<1>4. CASE Reaped
  <2>1. pc' = then /\ then' = "none" /\ then # "none"
    BY <1>1, <1>4 DEF Reaped, Buried, Loops
  <2> QED
    BY <2>1 DEF At
<1> QED
  BY <1>2, <1>3, <1>4

\* Every step leaves each message in one place.
LEMMA RequestStep ==
    ASSUME IInv, [Next]_vars
    PROVE  RequestInv'
<1> USE DEF IInv
<1>1. /\ TypeOK /\ LoopInv /\ inbox \in Seq(Msgs) /\ NoMsg \notin Msgs /\ msg \in Msgs \cup {NoMsg}
      /\ proc \in [Pids -> States]
      /\ data \in [Pids -> Seq(Msgs)] /\ work \in [Pids -> Seq(Msgs)]
      /\ idle \in Seq(Pids) /\ hand \subseteq Pids /\ \A p \in Pids : Fits(p)
      /\ then # "none" <=> pc \in Loops
      /\ msg # NoMsg <=> At \in Holding
      /\ NoDup(inbox)
      /\ Parted(sent, Here(inbox), InHand, done, lost, dropped, Loads)
  BY PreforkAssumption DEF TypeOK, LoopInv, LoadInv, RequestInv, PreforkAssumption, States
<1>2. ASSUME UNCHANGED <<msg, inbox, sent, done, lost, dropped, data, work>>, At' \in Holding <=> At \in Holding
      PROVE  RequestInv'
  <2>1. Loads' = Loads /\ InHand' = InHand
    BY <1>2 DEF Loads, Load, InHand
  <2> QED
    BY <1>1, <1>2, <2>1 DEF RequestInv
<1>3. CASE LoopStep
  <2>1. At' = At /\ UNCHANGED <<msg, inbox, sent, done, dropped>>
    BY <1>1, <1>3, LoopStepLemma
  <2>2. CASE WaitPid \/ Refill \/ ReadStatus \/ Settle \/ Unlink \/ Push
    <3>1. UNCHANGED <<lost, data, work>>
      BY <2>2 DEF WaitPid, Refill, ReadStatus, Settle, Unlink, Push, children
    <3> QED
      BY <1>2, <2>1, <3>1
  <2>3. CASE Delete
    <3>1. PICK p \in Pids : todo = <<p>>
      BY <1>1, <2>3 DEF Delete, LoopInv
    <3>2. Here(todo) = {p}
      BY <3>1, ShortLists
    <3>3. /\ data' = [data EXCEPT ![p] = << >>] /\ work' = [work EXCEPT ![p] = << >>]
          /\ lost' = lost \cup Load(p)
      BY <2>3, <3>2 DEF Delete, Bury
    <3>4. \A q \in Pids : Loads'[q] = IF q \in {p} THEN {} ELSE Loads[q]
      <4>1. ASSUME NEW q \in Pids, q = p PROVE Loads'[q] = {}
        <5>1. data'[q] = << >> /\ work'[q] = << >>
          BY <1>1, <3>3, <4>1
        <5> QED
          BY <5>1 DEF Loads, Load, Here
      <4>2. ASSUME NEW q \in Pids, q # p PROVE Loads'[q] = Loads[q]
        <5>1. data'[q] = data[q] /\ work'[q] = work[q]
          BY <1>1, <3>3, <4>2
        <5> QED
          BY <5>1 DEF Loads, Load
      <4> QED
        BY <4>1, <4>2
    <3>5. Parted(sent, Here(inbox), InHand, done, lost', dropped, Loads')
      <4> DEFINE t == Loads[p]
      <4>1. t = UNION {Loads[q] : q \in {p}} /\ {p} \subseteq Pids /\ lost' = lost \cup t
        BY <3>3 DEF Loads
      <4> HIDE DEF t
      <4>2. Parted(sent, Here(inbox), InHand, done, lost \cup t, dropped, Loads')
        BY <1>1, <3>4, <4>1, PartedTake
      <4> QED
        BY <4>1, <4>2
    <3>6. InHand' = InHand
      BY <2>1 DEF InHand
    <3> QED
      BY <1>1, <2>1, <3>5, <3>6 DEF RequestInv
  <2> QED
    BY <1>3, <2>2, <2>3 DEF LoopStep
<1>4. CASE TestStep \/ LookStep \/ Reaped \/ Top \/ PickNone \/ EnterSelect
  <2>1. UNCHANGED <<msg, inbox, sent, done, lost, dropped, data, work>>
    BY <1>4 DEF TestStep, LookStep, ReapAndGoOn, Check, Wait, Waited, TermWait, Scan, Select, TermSelect,
       ReapIfDead, LookAtAnswers, Reaped, Top, PickNone, EnterSelect, Keep, pool, lists, children, jabber
  <2> QED
    BY <1>1, <1>2, <1>4, <2>1, HoldingKept
<1>5. CASE Recv
  <2> DEFINE m == Head(inbox)
  <2>1. /\ pc = "recv" /\ inbox # << >> /\ inbox' = Tail(inbox) /\ then' = then
        /\ UNCHANGED <<sent, done, lost, data, work>>
    BY <1>5 DEF Recv, pool, lists, children, loop
  <2>2. /\ m \in Msgs /\ Here(inbox) = Here(inbox') \cup {m} /\ NoDup(inbox') /\ m \notin Here(inbox')
    BY <1>1, <2>1, HeadTailLemma
  <2>3. msg = NoMsg /\ InHand = {} /\ At' = pc'
    BY <1>1, <2>1 DEF Holding, InHand, At, Loops
  <2>4. Loads' = Loads
    BY <2>1 DEF Loads, Load
  <2>5. CASE m \in Errors \cup Empties
    <3>1. pc' \in {"reap", "top"} /\ dropped' = dropped \cup {m} /\ msg' = msg
      BY <1>5, <2>5 DEF Recv
    <3>2. InHand' = InHand
      BY <3>1 DEF InHand
    <3>3. Parted(sent, Here(inbox'), InHand, done, lost, dropped \cup {m}, Loads)
      BY <1>1, <2>2, PartedQueue
    <3>4. At' \notin Holding
      BY <2>3, <3>1 DEF Holding
    <3> QED
      BY <2>1, <2>2, <2>3, <2>4, <3>1, <3>2, <3>3, <3>4 DEF RequestInv
  <2>6. CASE m \notin Errors \cup Empties
    <3>1. pc' = "check" /\ dropped' = dropped /\ msg' = m
      BY <1>5, <2>6 DEF Recv
    <3>2. InHand' = {m} /\ msg' # NoMsg
      BY <1>1, <2>2, <3>1 DEF InHand
    <3>3. Parted(sent, Here(inbox'), {m}, done, lost, dropped, Loads)
      BY <1>1, <2>2, <2>3, PartedQueue
    <3>4. At' \in Holding
      BY <2>3, <3>1 DEF Holding
    <3> QED
      BY <2>1, <2>2, <2>4, <3>1, <3>2, <3>3, <3>4 DEF RequestInv
  <2> QED
    BY <2>5, <2>6
<1>6. CASE SigTerm \/ SigInt
  <2>1. /\ At' \notin Holding /\ dropped' = dropped \cup InHand /\ msg' = NoMsg
        /\ UNCHANGED <<inbox, sent, done, lost, data, work>>
    BY <1>6 DEF SigTerm, SigInt, jabber, pool, lists, children, Holding, At
  <2>2. InHand' = {} /\ Loads' = Loads
    BY <2>1 DEF InHand, Loads, Load
  <2>3. Parted(sent, Here(inbox), {}, done, lost, dropped \cup InHand, Loads)
    BY <1>1, PartedQueue
  <2> QED
    BY <1>1, <2>1, <2>2, <2>3 DEF RequestInv
<1>7. CASE \E m \in Msgs : Arrive(m)
  <2>1. PICK m \in Msgs : /\ m \notin sent /\ sent' = sent \cup {m} /\ inbox' = Append(inbox, m)
                          /\ UNCHANGED <<pc, then, msg, done, lost, dropped, data, work>>
    BY <1>7 DEF Arrive, pool, lists, children, loop
  <2>2. m \notin Here(inbox)
    BY <1>1, <2>1 DEF Parted
  <2>3. NoDup(inbox') /\ Here(inbox') = Here(inbox) \cup {m}
    BY <1>1, <2>1, <2>2, AppendLemma
  <2>4. Parted(sent \cup {m}, Here(inbox) \cup {m}, InHand, done, lost, dropped, Loads)
    BY <1>1, <2>1, PartedQueue
  <2>5. InHand' = InHand /\ Loads' = Loads
    BY <2>1 DEF InHand, Loads, Load
  <2>6. At' = At
    BY <2>1 DEF At
  <2> QED
    BY <1>1, <2>1, <2>3, <2>4, <2>5, <2>6 DEF RequestInv
<1>8. CASE PickIdle \/ PickNew \/ AddActive \/ TermExit
  <2>1. UNCHANGED <<msg, inbox, sent, done, lost, dropped, data, work, then>>
    BY <1>8 DEF PickIdle, PickNew, AddActive, TermExit, Keep, children, jabber, loop
  <2>2. /\ pc = "pick" => pc' = "give"
        /\ pc # "pick" => pc \in {"add", "term"} /\ pc' \in {"reap", "exited"}
        /\ pc \in {"pick", "add", "term"}
    BY <1>8 DEF PickIdle, PickNew, AddActive, TermExit
  <2>3. At' \in Holding <=> At \in Holding
    BY <1>1, <2>1, <2>2 DEF At, Holding, Loops
  <2> QED
    BY <1>2, <2>1, <2>3
<1>9. CASE Give
  <2>1. /\ pc = "give" /\ pc' = "add" /\ msg' = NoMsg /\ then' = then
        /\ UNCHANGED <<inbox, sent, done, lost, dropped, work>>
    BY <1>9 DEF Give, Keep, jabber, loop
  <2>2. PICK p \in hand : data' = [data EXCEPT ![p] = Append(@, msg)]
    BY <1>9 DEF Give
  <2>3. p \in Pids /\ Empty(p)
    BY <1>1, <2>1, <2>2 DEF LoadInv
  <2>4. At = "give" /\ At' = "add"
    BY <1>1, <2>1 DEF At, Loops
  <2>5. msg # NoMsg /\ msg \in Msgs /\ InHand = {msg} /\ InHand' = {}
    BY <1>1, <2>1, <2>4 DEF Holding, InHand
  <2>6. Loads[p] = {}
    <3>1. data[p] = << >> /\ work[p] = << >>
      BY <2>3 DEF Empty
    <3> QED
      BY <2>3, <3>1 DEF Loads, Load, Here
  <2>7. Loads'[p] = InHand
    <3>1. data'[p] = Append(data[p], msg) /\ work'[p] = << >>
      BY <1>1, <2>1, <2>2, <2>3 DEF Empty
    <3>2. Here(Append(data[p], msg)) = Here(data[p]) \cup {msg}
      BY <1>1, <2>3, <2>5, AppendLemma
    <3>3. Here(<< >>) = {} /\ data[p] = << >>
      BY <2>3 DEF Here, Empty
    <3> QED
      BY <2>3, <2>5, <3>1, <3>2, <3>3 DEF Loads, Load
  <2>8. ASSUME NEW q \in Pids, q # p PROVE Loads'[q] = Loads[q]
    <3>1. data'[q] = data[q] /\ work'[q] = work[q]
      BY <1>1, <2>1, <2>2, <2>3, <2>8
    <3> QED
      BY <3>1 DEF Loads, Load
  <2>9. Parted(sent, Here(inbox), {}, done, lost, dropped, Loads')
    <3> DEFINE f == Loads'
               g == Loads
    <3>1. g[p] = {} /\ f[p] = InHand /\ \A q \in Pids : q # p => f[q] = g[q]
      BY <2>6, <2>7, <2>8
    <3>2. Parted(sent, Here(inbox), InHand, done, lost, dropped, g)
      BY <1>1
    <3> HIDE DEF f, g
    <3>3. Parted(sent, Here(inbox), {}, done, lost, dropped, f)
      BY <2>3, <3>1, <3>2, PartedGive
    <3> QED
      BY <3>3 DEF f
  <2>10. At' \notin Holding
    BY <2>4 DEF Holding
  <2> QED
    BY <1>1, <2>1, <2>5, <2>9, <2>10 DEF RequestInv
<1>10. CASE SigHup
  <2>1. /\ At' \in Holding <=> At \in Holding
        /\ UNCHANGED <<msg, inbox, sent, done, lost, dropped, data, work>>
    BY <1>1, <1>10, HupLemma DEF SameKind
  <2> QED
    BY <1>2, <2>1
<1>11. CASE \E p \in Pids : AnyChildStep(p)
  <2>1. PICK p \in Pids : AnyChildStep(p)
    BY <1>11
  <2>2. /\ At' \in Holding <=> At \in Holding
        /\ UNCHANGED <<msg, inbox, sent, lost, dropped>>
    BY <1>1, <2>1, ChildStepLemma DEF SameKind
  <2>3. CASE ChildStart(p) \/ ChildCrash(p) \/ ChildKilled(p)
    <3>1. UNCHANGED <<done, data, work>>
      BY <2>3 DEF ChildStart, ChildCrash, ChildKilled, Keep
    <3> QED
      BY <1>2, <2>2, <3>1
  <2>4. CASE ChildRead(p)
    <3>1. /\ proc[p] = "ready" /\ done' = done
          /\ work' = [work EXCEPT ![p] = data[p]] /\ data' = [data EXCEPT ![p] = << >>]
      BY <2>4 DEF ChildRead, Keep
    <3>2. work[p] = << >> /\ work'[p] = data[p] /\ data'[p] = << >>
      BY <1>1, <3>1 DEF Fits
    <3>3. Load(p)' = Load(p)
      BY <3>2 DEF Load, Here
    <3>4. \A q \in Pids : q # p => Load(q)' = Load(q)
      BY <1>1, <3>1 DEF Load
    <3>5. Loads' = Loads /\ InHand' = InHand
      BY <2>2, <3>3, <3>4 DEF Loads, InHand
    <3> QED
      BY <1>1, <2>2, <3>1, <3>5 DEF RequestInv
  <2>5. CASE ChildDone(p) \/ ChildPanic(p)
    <3>1. /\ proc[p] = "busy" /\ done' = done \cup Here(work[p]) /\ work' = [work EXCEPT ![p] = << >>]
          /\ data' = data
      BY <2>5 DEF ChildDone, ChildPanic
    <3>2. data[p] = << >> /\ Here(<< >>) = {}
      BY <1>1, <3>1, BusyLemma DEF Here
    <3>3. Loads[p] = Here(work[p])
      BY <3>2 DEF Loads, Load
    <3>4. \A q \in Pids : Loads'[q] = IF q \in {p} THEN {} ELSE Loads[q]
      <4>1. work'[p] = << >> /\ data'[p] = << >>
        BY <1>1, <3>1, <3>2
      <4>2. Loads'[p] = {}
        BY <3>2, <4>1 DEF Loads, Load
      <4>3. ASSUME NEW q \in Pids, q # p PROVE Loads'[q] = Loads[q]
        <5>1. data'[q] = data[q] /\ work'[q] = work[q]
          BY <1>1, <3>1, <4>3
        <5> QED
          BY <5>1 DEF Loads, Load
      <4> QED
        BY <4>2, <4>3
    <3>5. Loads[p] = UNION {Loads[q] : q \in {p}}
      OBVIOUS
    <3>6. Parted(sent, Here(inbox), InHand, done \cup Loads[p], lost, dropped, Loads')
      <4> DEFINE t == Loads[p]
      <4>1. t = UNION {Loads[q] : q \in {p}} /\ {p} \subseteq Pids
        BY <3>5
      <4> HIDE DEF t
      <4>2. Parted(sent, Here(inbox), InHand, done \cup t, lost, dropped, Loads')
        BY <1>1, <3>4, <4>1, PartedTake
      <4> QED
        BY <4>2 DEF t
    <3>7. InHand' = InHand
      BY <2>2 DEF InHand
    <3> QED
      BY <1>1, <2>2, <3>1, <3>3, <3>6, <3>7 DEF RequestInv
  <2> QED
    BY <2>1, <2>3, <2>4, <2>5 DEF AnyChildStep, ChildStep
<1>12. CASE UNCHANGED vars
  BY <1>2, <1>12 DEF vars, pool, lists, children, jabber, loop, At
<1> QED
  BY <1>3, <1>4, <1>5, <1>6, <1>7, <1>8, <1>9, <1>10, <1>11, <1>12, StepLemma DEF QuietStep
-----------------------------------------------------------------------------
(* Types, and the invariant as a whole.                                    *)

\* Every step keeps the types.
LEMMA TypeStep ==
    ASSUME IInv, [Next]_vars
    PROVE  TypeOK'
<1> USE DEF IInv
<1>1. /\ TypeOK /\ LoopInv /\ MaxRequests \in Nat \ {0} /\ Errors \subseteq Msgs /\ Empties \subseteq Msgs
      /\ \A p \in Pids : Fits(p) /\ Here(data[p]) \subseteq Msgs /\ Here(work[p]) \subseteq Msgs
  <2>1. \A p \in Pids : Here(data[p]) \subseteq Msgs /\ Here(work[p]) \subseteq Msgs
    BY ListFacts DEF TypeOK
  <2> QED
    BY <2>1, PreforkAssumption DEF LoadInv, PreforkAssumption
<1>2. CASE LoopStep
  <2>1. /\ pc' \in Places /\ then' \in Returns \cup {"none"}
        /\ UNCHANGED <<msg, inbox, sent, done, dropped, crashes, hups, fails, childDead, caught>>
    BY <1>1, <1>2, LoopStepLemma
  <2>2. /\ idle \in Seq(Pids) /\ active \in Seq(Pids) /\ todo \in Seq(Pids) /\ hand \subseteq Pids
        /\ pending \in [Pids -> Nat] /\ num \in Nat /\ proc \in [Pids -> States]
        /\ data \in [Pids -> Seq(Msgs)] /\ work \in [Pids -> Seq(Msgs)]
        /\ status \in [Pids -> Nat] /\ served \in [Pids -> 0 .. MaxRequests]
        /\ killed \subseteq Pids /\ lost \subseteq Msgs
    BY <1>1 DEF TypeOK, States
  <2>3. pc \in {"read", "settle", "unlink", "push"} => Head(todo) \in Pids /\ Tail(todo) \in Seq(Pids)
    <3>1. pc \in {"read", "settle", "unlink", "push"} => todo # << >>
      BY <1>1 DEF LoopInv
    <3> QED
      BY <2>2, <3>1, HeadTailLemma
  <2>4. /\ idle' \in Seq(Pids) /\ active' \in Seq(Pids) /\ todo' \in Seq(Pids) /\ hand' \subseteq Pids
        /\ pending' \in [Pids -> Nat] /\ num' \in Nat /\ proc' \in [Pids -> States]
        /\ data' \in [Pids -> Seq(Msgs)] /\ work' \in [Pids -> Seq(Msgs)]
        /\ status' \in [Pids -> Nat] /\ served' \in [Pids -> 0 .. MaxRequests]
        /\ killed' \subseteq Pids /\ lost' \subseteq Msgs
    <3>1. CASE WaitPid
      <4>1. PICK p \in Zombies : proc' = [proc EXCEPT ![p] = "reaped"] /\ todo' = <<p>>
        BY <3>1 DEF WaitPid
      <4>2. p \in Pids
        BY <4>1 DEF Zombies
      <4> QED
        BY <2>2, <3>1, <4>1, <4>2 DEF WaitPid, lists, States
    <3>2. CASE Delete
      <4>1. PICK p \in Pids : todo = <<p>> /\ proc[p] = "reaped"
        BY <1>1, <3>2 DEF Delete, LoopInv
      <4>2. Here(todo) = {p}
        BY <4>1, ShortLists
      <4>3. /\ proc' = [proc EXCEPT ![p] = "none"]
            /\ data' = [data EXCEPT ![p] = << >>] /\ work' = [work EXCEPT ![p] = << >>]
            /\ status' = [status EXCEPT ![p] = 0] /\ served' = [served EXCEPT ![p] = 0]
            /\ killed' = killed \ {p} /\ lost' = lost \cup Load(p) /\ num' = num - 1
            /\ hand' = hand \ {p} /\ todo' = << >> /\ pending' = pending
            /\ idle' = Without(idle, {p}) /\ active' = Without(active, {p})
        BY <3>2, <4>2 DEF Delete, Bury
      <4>4. idle' \in Seq(Pids) /\ active' \in Seq(Pids)
        BY <2>2, <4>3, WithoutLemma
      <4>5. num' \in Nat
        <5>1. ~Gone /\ p \in Own
          BY <1>1, <1>2, <2>2, <4>1, LoopStepLemma DEF Own, Free
        <5>2. num = Cardinality(Own)
          BY <5>1 DEF ListsInv
        <5>3. Own \subseteq Pids
          BY DEF Own
        <5>4. IsFiniteSet(Own)
          BY <5>3, PidsFinite
        <5>5. num # 0
          BY <5>1, <5>2, <5>4, FS_EmptySet
        <5> QED
          BY <2>2, <4>3, <5>5
      <4>6. Load(p) \subseteq Msgs
        BY <1>1 DEF Load
      <4>7. data' \in [Pids -> Seq(Msgs)] /\ work' \in [Pids -> Seq(Msgs)]
        BY <2>2, <4>3
      <4>8. served' \in [Pids -> 0 .. MaxRequests]
        BY <1>1, <2>2, <4>3
      <4> QED
        BY <2>2, <4>3, <4>4, <4>5, <4>6, <4>7, <4>8 DEF States
    <3>3. CASE Refill
      <4>1. PICK p \in Free : proc' = [proc EXCEPT ![p] = "start"] /\ idle' = <<p>> \o idle
        BY <3>3 DEF Refill
      <4>2. p \in Pids
        BY <4>1 DEF Free
      <4>3. idle' \in Seq(Pids)
        BY <2>2, <4>1, <4>2, PrependLemma
      <4> QED
        BY <2>2, <3>3, <4>1, <4>2, <4>3 DEF Refill, States, loop
    <3>4. CASE ReadStatus
      BY <2>2, <3>4 DEF ReadStatus, lists, loop
    <3>5. CASE Settle
      <4>1. pc = "settle"
        BY <3>5 DEF Settle
      <4>2. pending' \in [Pids -> Nat]
        <5>1. \/ pending' = pending
              \/ pending[Head(todo)] > 0 /\ pending' = [pending EXCEPT ![Head(todo)] = @ - 1]
          BY <3>5 DEF Settle
        <5>2. Head(todo) \in Pids /\ pending \in [Pids -> Nat]
          BY <2>2, <2>3, <4>1
        <5> DEFINE p == Head(todo)
        <5>3. pending[p] > 0 => pending[p] - 1 \in Nat
          BY <5>2
        <5> HIDE DEF p
        <5>4. /\ p \in Pids
              /\ \/ pending' = pending
                 \/ pending[p] > 0 /\ pending' = [pending EXCEPT ![p] = pending[p] - 1]
          BY <5>1, <5>2 DEF p
        <5> QED
          BY <5>2, <5>3, <5>4
      <4>3. killed' \subseteq Pids /\ todo' \in Seq(Pids)
        BY <2>2, <2>3, <3>5, <4>1 DEF Settle, GoOnWith
      <4> QED
        BY <2>2, <3>5, <4>2, <4>3 DEF Settle
    <3>6. CASE Unlink
      <4>1. pc = "unlink" /\ active' = Without(active, {Head(todo)})
        BY <3>6 DEF Unlink
      <4>2. active' \in Seq(Pids)
        BY <2>2, <4>1, WithoutLemma
      <4>3. todo' \in Seq(Pids) /\ hand' \subseteq Pids
        <5> DEFINE p == Head(todo)
        <5>1. (todo' = <<p>> \/ todo' = todo) /\ hand' = hand \cup {p}
          BY <3>6 DEF Unlink
        <5>2. p \in Pids
          BY <2>3, <4>1
        <5> HIDE DEF p
        <5>3. <<p>> \in Seq(Pids)
          BY <5>2
        <5> QED
          BY <2>2, <5>1, <5>2, <5>3
      <4> QED
        BY <2>2, <3>6, <4>2, <4>3 DEF Unlink, children
    <3>7. CASE Push
      <4>1. pc = "push" /\ idle' = <<Head(todo)>> \o idle
        BY <3>7 DEF Push
      <4>2. idle' \in Seq(Pids)
        BY <2>2, <2>3, <4>1, PrependLemma
      <4> QED
        BY <2>2, <2>3, <3>7, <4>1, <4>2 DEF Push, GoOnWith, children
    <3> QED
      BY <1>2, <3>1, <3>2, <3>3, <3>4, <3>5, <3>6, <3>7 DEF LoopStep
  <2> QED
    BY <1>1, <2>1, <2>4 DEF TypeOK, Places, Returns, States
<1>3. CASE QuietStep
  <2>1. /\ pc' \in Places /\ then' \in Returns \cup {"none"}
        /\ UNCHANGED <<hand, idle, active, pending, num, proc, data, status, work,
                       served, killed, lost, done, crashes, hups>>
    BY <1>1, <1>3, QuietStepLemma
  <2>2. /\ msg' \in Msgs \cup {NoMsg} /\ inbox' \in Seq(Msgs) /\ sent' \subseteq Msgs /\ dropped' \subseteq Msgs
        /\ fails' \in Nat /\ childDead' \in BOOLEAN /\ todo' \in Seq(Pids) /\ caught' \subseteq Pids
    <3>1. CASE TestStep
      <4>1. UNCHANGED <<msg, inbox, sent, dropped, fails, todo, caught>> /\ childDead' = FALSE
        BY <3>1 DEF TestStep, ReapAndGoOn, Check, Wait, Waited, TermWait, ReapIfDead, Keep, jabber, bounds
      <4> QED
        BY <1>1, <4>1 DEF TypeOK
    <3>2. CASE LookStep
      <4>1. UNCHANGED <<msg, inbox, sent, dropped, fails, childDead, caught>>
        BY <3>2 DEF LookStep, Scan, Select, TermSelect, LookAtAnswers, Keep, pool, lists, jabber, bounds, loop
      <4>2. todo' = todo \/ todo' = Those(active, Answered)
        BY <3>2 DEF LookStep, Scan, Select, TermSelect, LookAtAnswers, loop
      <4>3. Those(active, Answered) \in Seq(Pids)
        BY <1>1, ThoseLemma DEF TypeOK
      <4> QED
        BY <1>1, <4>1, <4>2, <4>3 DEF TypeOK
    <3>3. CASE Reaped \/ Top \/ EnterSelect
      <4>1. UNCHANGED <<msg, inbox, sent, dropped, fails, childDead, todo, caught>>
        BY <3>3 DEF Reaped, Top, EnterSelect, Keep, pool, lists, jabber, bounds, loop
      <4> QED
        BY <1>1, <4>1 DEF TypeOK
    <3>4. CASE Recv
      <4>1. Head(inbox) \in Msgs /\ Tail(inbox) \in Seq(Msgs)
        BY <1>1, <3>4, HeadTailLemma DEF Recv, TypeOK
      <4> QED
        BY <1>1, <3>4, <4>1 DEF Recv, bounds, pool, lists, loop, TypeOK
    <3>5. CASE PickNone
      BY <1>1, <3>5 DEF PickNone, jabber, pool, lists, loop, TypeOK
    <3>6. CASE SigTerm
      <4>1. caught' \subseteq Pids
        <5>1. caught' = {} \/ (pc \in {"delete", "settle", "unlink"} /\ caught' = {Head(todo)})
          BY <3>6 DEF SigTerm
        <5>2. pc \in {"delete", "settle", "unlink"} => todo # << >> /\ todo \in Seq(Pids)
          <6>1. pc = "delete" => \E p \in Pids : todo = <<p>>
            BY <1>1 DEF LoopInv
          <6>2. pc = "delete" => todo # << >>
            BY <6>1
          <6> QED
            BY <1>1, <6>2 DEF LoopInv, TypeOK
        <5> QED
          BY <5>1, <5>2, HeadTailLemma
      <4>2. << >> \in Seq(Pids)
        OBVIOUS
      <4> QED
        BY <1>1, <3>6, <4>1, <4>2 DEF SigTerm, jabber, bounds, pool, lists, InHand, TypeOK
    <3>7. CASE \E m \in Msgs : Arrive(m)
      BY <1>1, <3>7, AppendLemma DEF Arrive, bounds, pool, lists, loop, TypeOK
    <3> QED
      BY <1>3, <3>1, <3>2, <3>3, <3>4, <3>5, <3>6, <3>7 DEF QuietStep
  <2> QED
    BY <1>1, <2>1, <2>2 DEF TypeOK, Places, Returns
<1>4. CASE PickIdle
  <2>1. Head(idle) \in Pids /\ Tail(idle) \in Seq(Pids)
    BY <1>1, <1>4, HeadTailLemma DEF PickIdle, TypeOK
  <2> QED
    BY <1>1, <1>4, <2>1 DEF PickIdle, Keep, jabber, bounds, children, loop, TypeOK
<1>5. CASE PickNew
  <2>1. PICK p \in Free : hand' = {p} /\ proc' = [proc EXCEPT ![p] = "start"]
    BY <1>5 DEF PickNew
  <2>2. p \in Pids
    BY <2>1 DEF Free
  <2>3. proc' \in [Pids -> States]
    BY <1>1, <2>1, <2>2 DEF TypeOK, States
  <2>4. num' \in Nat /\ hand' \subseteq Pids /\ pc' \in Places
    <3>1. num' = num + 1 /\ pc' = "give" /\ num \in Nat
      BY <1>1, <1>5 DEF PickNew, TypeOK
    <3> QED
      BY <2>1, <2>2, <3>1 DEF Places
  <2>5. UNCHANGED <<msg, idle, active, pending, childDead, data, status, work, served, killed, lost,
                    jabber, done, dropped, bounds, loop>>
    BY <1>5 DEF PickNew, Keep
  <2> QED
    BY <1>1, <2>3, <2>4, <2>5 DEF States, Places, jabber, bounds, loop, TypeOK, jabber, bounds, loop, TypeOK
<1>6. CASE Give
  <2>1. PICK p \in hand : data' = [data EXCEPT ![p] = Append(@, msg)]
    BY <1>6 DEF Give
  <2>2. p \in Pids
    BY <1>1, <2>1 DEF TypeOK
  <2>3. msg \in Msgs
    <3>1. pc = "give" /\ At = pc
      BY <1>1, <1>6 DEF Give, At, LoopInv, Loops
    <3> QED
      BY <1>1, <3>1 DEF RequestInv, Holding, TypeOK
  <2>4. data' \in [Pids -> Seq(Msgs)]
    BY <1>1, <2>1, <2>2, <2>3, AppendLemma DEF TypeOK
  <2> QED
    BY <1>1, <1>6, <2>4 DEF Give, lists, Keep, jabber, bounds, loop, TypeOK
<1>7. CASE AddActive
  <2>1. active' \in Seq(Pids)
    BY <1>1, <1>7, AppendLemma DEF AddActive, TypeOK
  <2> QED
    BY <1>1, <1>7, <2>1 DEF AddActive, TypeOK, children, Keep, jabber, bounds, loop
<1>8. CASE TermExit \/ SigInt
  <2>1. /\ Here(idle) \subseteq Pids /\ Here(active) \subseteq Pids /\ << >> \in Seq(Pids)
    BY <1>1, ListFacts DEF TypeOK
  <2> QED
    BY <1>1, <1>8, <2>1 DEF TermExit, SigInt, TypeOK, Keep, jabber, bounds, InHand, loop
<1>9. CASE SigHup
  <2>1. pc' \in Places /\ Here(idle) \subseteq Pids
    BY <1>1, <1>9, HupLemma, ListFacts DEF SameKind, TypeOK
  <2>2. pending' \in [Pids -> Nat]
    <3>1. /\ pending' = [p \in Pids |-> IF p \in Here(active) THEN pending[p] + 1 ELSE pending[p]]
          /\ pending \in [Pids -> Nat]
      BY <1>1, <1>9 DEF SigHup, TypeOK
    <3> QED
      BY <3>1
  <2>3. killed' \subseteq Pids /\ hups' \in Nat
    BY <1>1, <1>9, <2>1 DEF SigHup, TypeOK
  <2> QED
    BY <1>1, <1>9, <2>1, <2>2, <2>3 DEF SigHup, TypeOK, jabber, Places, loop
<1>10. CASE \E p \in Pids : AnyChildStep(p)
  <2>1. PICK p \in Pids : AnyChildStep(p)
    BY <1>10
  <2>2. /\ SameKind /\ childDead' \in BOOLEAN
        /\ \E x \in {"ready", "busy", "zombie"} : proc' = [proc EXCEPT ![p] = x]
        /\ UNCHANGED <<msg, hand, idle, active, pending, num, killed, lost, inbox, sent, dropped,
                       hups, fails, todo, then, caught>>
    BY <1>1, <2>1, ChildStepLemma
  <2>3. proc' \in [Pids -> States]
    BY <1>1, <2>2 DEF TypeOK, States
  <2>4. data' \in [Pids -> Seq(Msgs)] /\ work' \in [Pids -> Seq(Msgs)]
    <3>1. \/ UNCHANGED <<data, work>>
          \/ data' = data /\ work' = [work EXCEPT ![p] = << >>]
          \/ work' = [work EXCEPT ![p] = data[p]] /\ data' = [data EXCEPT ![p] = << >>]
      BY <2>1 DEF AnyChildStep, ChildStep, ChildStart, ChildRead, ChildDone, ChildKilled, ChildPanic, ChildCrash
    <3>2. << >> \in Seq(Msgs) /\ data[p] \in Seq(Msgs)
      BY <1>1 DEF TypeOK
    <3> QED
      BY <1>1, <3>1, <3>2 DEF TypeOK
  <2>5. status' \in [Pids -> Nat] /\ crashes' \in Nat /\ done' \subseteq Msgs
    <3>1. /\ status' = status \/ status' = [status EXCEPT ![p] = @ + 1]
          /\ crashes' = crashes \/ crashes' = crashes + 1
          /\ done' = done \/ done' = done \cup Here(work[p])
      BY <2>1 DEF AnyChildStep, ChildStep, ChildStart, ChildRead, ChildDone, ChildKilled, ChildPanic, ChildCrash,
         Keep, bounds
    <3>2. status \in [Pids -> Nat] /\ crashes \in Nat /\ done \subseteq Msgs
      BY <1>1 DEF TypeOK
    <3>3. status' \in [Pids -> Nat]
      BY <3>1, <3>2
    <3>4. crashes' \in Nat /\ done' \subseteq Msgs
      BY <1>1, <3>1, <3>2
    <3> QED
      BY <3>3, <3>4
  <2>6. served' \in [Pids -> 0 .. MaxRequests]
    <3>1. CASE ChildDone(p)
      <4>1. served' = [served EXCEPT ![p] = @ + 1] /\ served[p] < MaxRequests
        BY <1>1, <3>1 DEF ChildDone, Fits, Living
      <4> QED
        <5>1. served[p] + 1 \in 0 .. MaxRequests /\ served \in [Pids -> 0 .. MaxRequests]
          BY <1>1, <4>1 DEF TypeOK
        <5> QED
          BY <4>1, <5>1
    <3>2. CASE ~ChildDone(p)
      BY <1>1, <2>1, <3>2 DEF AnyChildStep, ChildStep, ChildStart, ChildRead, ChildKilled, ChildPanic,
         ChildCrash, TypeOK
    <3> QED
      BY <3>1, <3>2
  <2> QED
    BY <1>1, <2>2, <2>3, <2>4, <2>5, <2>6 DEF TypeOK, Places, SameKind, States
<1>11. CASE UNCHANGED vars
  BY <1>1, <1>11 DEF vars, pool, lists, children, jabber, bounds, loop, TypeOK
<1> QED
  BY <1>2, <1>3, <1>4, <1>5, <1>6, <1>7, <1>8, <1>9, <1>10, <1>11, StepLemma

\* After prefork_launch_children the pool is in order.
LEMMA InitInv == Init => IInv
<1> SUFFICES ASSUME Init PROVE IInv
  OBVIOUS
<1>1. PICK new \in SUBSET Pids :
        /\ Cardinality(new) = MinChildren
        /\ idle = Ascending(new)
        /\ proc = [p \in Pids |-> IF p \in new THEN "start" ELSE "none"]
  BY DEF Init
<1>2. /\ pc = "top" /\ msg = NoMsg /\ hand = {} /\ active = << >> /\ pending = [p \in Pids |-> 0]
      /\ num = MinChildren /\ childDead = FALSE
      /\ data = [p \in Pids |-> << >>] /\ status = [p \in Pids |-> 0]
      /\ work = [p \in Pids |-> << >>] /\ served = [p \in Pids |-> 0]
      /\ killed = {} /\ inbox = << >> /\ sent = {} /\ done = {} /\ lost = {} /\ dropped = {}
      /\ crashes = 0 /\ hups = 0 /\ fails = 0
      /\ todo = << >> /\ then = "none" /\ caught = {}
  BY DEF Init
<1>3. MaxRequests \in Nat \ {0} /\ MinChildren \in Nat /\ MinChildren <= MaxChildren
  BY PreforkAssumption DEF PreforkAssumption
<1>4. idle \in Seq(Pids) /\ NoDup(idle) /\ Here(idle) = new
  <2>1. IsFiniteSet(new) /\ new \subseteq Nat
    BY PidsFinite
  <2>2. idle \in Seq(new) /\ NoDup(idle) /\ Here(idle) = new
    BY <1>1, <2>1, AscendingLemma
  <2> QED
    BY <2>2
<1>5. Here(<< >>) = {} /\ NoDup(<< >>) /\ Len(<< >>) = 0
  BY DEF Here, NoDup
<1>6. TypeOK
  <2>1. /\ << >> \in Seq(Pids) /\ << >> \in Seq(Msgs) /\ 0 \in Nat /\ 0 \in 0 .. MaxRequests
    BY <1>3
  <2>2. /\ proc \in [Pids -> States]
        /\ data \in [Pids -> Seq(Msgs)] /\ work \in [Pids -> Seq(Msgs)]
    BY <1>1, <1>2, <2>1 DEF States
  <2>3. pending \in [Pids -> Nat] /\ status \in [Pids -> Nat] /\ served \in [Pids -> 0 .. MaxRequests]
    BY <1>2, <2>1
  <2> QED
    BY <1>2, <1>3, <1>4, <2>1, <2>2, <2>3 DEF TypeOK, States
<1>7. ListsInv
  <2>1. Own = new /\ Listed = new
    BY <1>1, <1>2, <1>4, <1>5 DEF Own, Free, Listed
  <2> QED
    BY <1>1, <1>2, <1>3, <1>4, <1>5, <2>1 DEF ListsInv, Gone, Stopping, At
<1>8. LoadInv
  BY <1>1, <1>2, <1>3, <1>5 DEF LoadInv, Fits, Empty, Living, Gone
<1>9. RequestInv
  <2>1. \A p \in Pids : Loads[p] = {}
    BY <1>2, <1>5 DEF Loads, Load
  <2>2. InHand = {}
    BY <1>2 DEF InHand
  <2>3. UNION {Loads[p] : p \in Pids} = {}
    BY <2>1
  <2> QED
    BY <1>2, <1>5, <2>1, <2>2, <2>3 DEF RequestInv, Parted, Holding, At
<1>10. CauseInv
  BY <1>1, <1>2 DEF CauseInv, Calm, Dead
<1>11. LoopInv
  BY <1>2 DEF LoopInv, Loops
<1> QED
  BY <1>6, <1>7, <1>8, <1>9, <1>10, <1>11 DEF IInv

\* Every step keeps the invariant.
LEMMA StepInv ==
    ASSUME IInv, [Next]_vars
    PROVE  IInv'
BY TypeStep, ListsStep, LoopWork, LoadStep, RequestStep, CauseStep DEF IInv

\* The invariant holds in every execution of the server (osrf_prefork_run and its children).
THEOREM Invariance == Spec => []IInv
<1>1. Init => IInv
  BY InitInv
<1>2. IInv /\ [Next]_vars => IInv'
  BY StepInv
<1> QED
  BY <1>1, <1>2, PTL DEF Spec

-----------------------------------------------------------------------------
(* What follows.                                                           *)

\* PoolSound is what the invariant says of types, lists and loads.
LEMMA InvPool == IInv => PoolSound
<1> SUFFICES ASSUME IInv PROVE PoolSound
  OBVIOUS
<1>1. TypeOK /\ idle \in Seq(Pids) /\ active \in Seq(Pids)
  BY DEF IInv, TypeOK
<1>2. PoolConsistent
  <2>1. SUFFICES ASSUME ~Gone
                 PROVE  /\ Len(idle) + Len(active) = Cardinality(Listed)
                        /\ Listed \subseteq Own /\ Own \ Listed \subseteq hand
                        /\ ~Stopping => hand \subseteq Own \ Listed
                        /\ num = Cardinality(Own) /\ num <= MaxChildren
    BY DEF PoolConsistent, Own, Listed
  <2>2. ListsInv
    BY DEF IInv
  <2>3. NoDup(idle) /\ NoDup(active) /\ Here(idle) \cap Here(active) = {}
    BY <2>1, <2>2 DEF ListsInv
  <2>4. /\ IsFiniteSet(Here(idle)) /\ Cardinality(Here(idle)) = Len(idle)
        /\ IsFiniteSet(Here(active)) /\ Cardinality(Here(active)) = Len(active)
    BY <1>1, <2>3, LengthLemma
  <2>5. Cardinality(Listed) = Len(idle) + Len(active)
    BY <2>3, <2>4, DisjointUnion DEF Listed
  <2> QED
    BY <2>1, <2>2, <2>5 DEF ListsInv
<1>3. OneAtATime
  <2>1. SUFFICES ASSUME NEW p \in Pids
                 PROVE  /\ Len(data[p]) + Len(work[p]) + status[p] <= 1
                        /\ p \in Here(idle) => Load(p) = {} /\ status[p] = 0
                        /\ p \in Here(idle) \cap Living => served[p] < MaxRequests
    BY DEF OneAtATime
  <2>2. Fits(p)
    BY DEF IInv, LoadInv
  <2>3. p \in Here(idle) => Load(p) = {} /\ status[p] = 0
    BY <2>2 DEF Fits, Empty, Load, Here
  <2> QED
    BY <2>2, <2>3 DEF Fits
<1> QED
  BY <1>1, <1>2, <1>3 DEF PoolSound

\* The pool of children keeps its types, its lists agree with the processes, the count
\* with the children and max_children, and each child has one request at most
\* (prefork_run, reap_children, check_children): in every execution, however large the
\* pool and whichever signals come.
THEOREM PoolSafe == Spec => []PoolSound
<1>1. IInv => PoolSound
  BY InvPool
<1> QED
  BY <1>1, Invariance, PTL

\* Where a message is, as Conserved numbers the places.
Where(m) ==
    {<<"inbox", i>> : i \in {i \in DOMAIN inbox : inbox[i] = m}}
      \cup {<<"msg", 0>> : x \in InHand \cap {m}}
      \cup {<<"child", p>> : p \in {p \in Pids : m \in Load(p)}}
      \cup {<<h, 0>> : h \in {h \in {"done", "lost", "dropped"} :
               \/ h = "done" /\ m \in done
               \/ h = "lost" /\ m \in lost
               \/ h = "dropped" /\ m \in dropped}}

\* The places of a message are one.
LEMMA OnePlace ==
    ASSUME IInv, NEW m \in sent
    PROVE  \E w : Where(m) = {w}
<1>1. /\ NoDup(inbox) /\ Parted(sent, Here(inbox), InHand, done, lost, dropped, Loads)
      /\ \A p \in Pids : Loads[p] = Load(p)
  BY DEF IInv, RequestInv, Loads
<1>2. \/ m \in Here(inbox) \/ m \in InHand \/ m \in done \/ m \in lost \/ m \in dropped
      \/ \E p \in Pids : m \in Load(p)
  <2>1. m \in UNION {Loads[p] : p \in Pids} => \E p \in Pids : m \in Load(p)
    BY <1>1
  <2> QED
    BY <1>1, <2>1 DEF Parted
<1>3. /\ m \in Here(inbox) => m \notin InHand /\ m \notin done /\ m \notin lost /\ m \notin dropped
      /\ m \in InHand => m \notin done /\ m \notin lost /\ m \notin dropped
      /\ m \in done => m \notin lost /\ m \notin dropped
      /\ m \in lost => m \notin dropped
  BY <1>1 DEF Parted
<1>4. /\ \A p \in Pids : m \in Load(p) => /\ m \notin Here(inbox) /\ m \notin InHand
                                          /\ m \notin done /\ m \notin lost /\ m \notin dropped
      /\ \A p, q \in Pids : m \in Load(p) /\ m \in Load(q) => p = q
  BY <1>1 DEF Parted
<1>5. \A w : w \in Where(m) <=>
        \/ \E i \in DOMAIN inbox : inbox[i] = m /\ w = <<"inbox", i>>
        \/ m \in InHand /\ w = <<"msg", 0>>
        \/ \E p \in Pids : m \in Load(p) /\ w = <<"child", p>>
        \/ m \in done /\ w = <<"done", 0>>
        \/ m \in lost /\ w = <<"lost", 0>>
        \/ m \in dropped /\ w = <<"dropped", 0>>
  BY DEF Where
<1>6. CASE m \in Here(inbox)
  <2>1. PICK i \in DOMAIN inbox : inbox[i] = m
    BY <1>6 DEF Here
  <2>2. \A j \in DOMAIN inbox : inbox[j] = m => j = i
    BY <1>1, <2>1 DEF NoDup
  <2>3. \A w : w \in Where(m) <=> w = <<"inbox", i>>
    BY <1>3, <1>4, <1>5, <1>6, <2>1, <2>2
  <2>4. Where(m) = {<<"inbox", i>>}
    BY <2>3
  <2> QED
    BY <2>4
<1>7. CASE \E p \in Pids : m \in Load(p)
  <2>1. PICK p \in Pids : m \in Load(p)
    BY <1>7
  <2>2. \A i \in DOMAIN inbox : inbox[i] # m
    BY <1>4, <2>1 DEF Here
  <2>3. \A w : w \in Where(m) <=> w = <<"child", p>>
    BY <1>4, <1>5, <2>1, <2>2
  <2>4. Where(m) = {<<"child", p>>}
    BY <2>3
  <2> QED
    BY <2>4
<1>8. CASE m \notin Here(inbox) /\ ~\E p \in Pids : m \in Load(p)
  <2>1. \A i \in DOMAIN inbox : inbox[i] # m
    BY <1>8 DEF Here
  <2>2. PICK h \in {"msg", "done", "lost", "dropped"} :
          \/ h = "msg" /\ m \in InHand
          \/ h = "done" /\ m \in done
          \/ h = "lost" /\ m \in lost
          \/ h = "dropped" /\ m \in dropped
    BY <1>2, <1>8
  <2>3. \A w : w \in Where(m) <=> w = <<h, 0>>
    BY <1>3, <1>5, <1>8, <2>1, <2>2
  <2>4. Where(m) = {<<h, 0>>}
    BY <2>3
  <2> QED
    BY <2>4
<1> QED
  BY <1>6, <1>7, <1>8

\* No request is forgotten or handed out twice, and one is lost only with a child that
\* crashed or was killed by SIGHUP (prefork_run, prefork_child_wait, del_prefork_child):
\* in every execution.
THEOREM NoneLostSafe == Spec => []NoneLost
<1>1. IInv => NoneLost
  <2> SUFFICES ASSUME IInv PROVE NoneLost
    OBVIOUS
  <2>1. Conserved
    <3>1. SUFFICES ASSUME NEW m \in sent PROVE Cardinality(Where(m)) = 1
      BY DEF Conserved, Where
    <3>2. PICK w : Where(m) = {w}
      BY OnePlace
    <3> QED
      BY <3>2, FS_Singleton
  <2>2. LostOnlyWithCrash
    BY DEF IInv, CauseInv, LostOnlyWithCrash, Trouble
  <2> QED
    BY <2>1, <2>2 DEF NoneLost
<1> QED
  BY <1>1, Invariance, PTL

\* A graceful shutdown (prefork_clear) kills no child that has a request: in every
\* execution, whatever the children have to do.
THEOREM GracefulSafe == Spec => GracefulKillsIdle
<1>1. IInv /\ [Next]_vars => [pc = "term" /\ pc' = "exited" => \A p \in killed' \ killed : Load(p) = {}]_vars
  <2> SUFFICES ASSUME IInv, [Next]_vars, pc = "term", pc' = "exited", NEW p \in killed' \ killed
               PROVE  Load(p) = {}
    OBVIOUS
  <2>1. TypeOK /\ LoopInv /\ idle \in Seq(Pids)
    BY DEF IInv, TypeOK
  <2>2. ~Gone /\ Gone' /\ pc = "term" /\ pc' = "exited"
    BY DEF Gone
  <2>3. ~LoopStep
    BY <2>1, <2>2, LoopStepLemma
  <2>4. ~QuietStep
    <3>1. QuietStep => killed' = killed
      BY <2>1, QuietStepLemma
    <3> QED
      BY <3>1
  <2>5. ~PickIdle /\ ~PickNew /\ ~Give /\ ~AddActive /\ ~SigInt
    BY <2>2 DEF PickIdle, PickNew, Give, AddActive, SigInt
  <2>6. ~SigHup /\ ~\E q \in Pids : AnyChildStep(q)
    BY <2>1, <2>2, HupLemma, ChildStepLemma DEF SameKind
  <2>7. TermExit
    BY <2>2, <2>3, <2>4, <2>5, <2>6, StepLemma DEF vars
  <2>8. p \in Here(idle)
    BY <2>7 DEF TermExit
  <2>9. p \in Pids
    BY <2>1, <2>8, ListFacts
  <2>10. data[p] = << >> /\ work[p] = << >>
    BY <2>8, <2>9 DEF IInv, LoadInv, Fits, Empty
  <2> QED
    BY <2>10 DEF Load, Here
<1> QED
  BY <1>1, Invariance, PTL DEF Spec, GracefulKillsIdle
=============================================================================
