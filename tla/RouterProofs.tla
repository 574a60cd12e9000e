---------------------------- MODULE RouterProofs ----------------------------
(***************************************************************************)
(* Proofs about Router: whatever the classes, listeners and requests, the  *)
(* variables keep their types, the registry lists nothing twice, its       *)
(* iterators rest on nodes that exist, and no class is without a node; the *)
(* round robin is fair, a listener that asked for it stays registered, an  *)
(* error removes only the dead, and a request has one outcome.             *)
(***************************************************************************)
EXTENDS Router, TLAPS

NoDup(s) == \A i, j \in DOMAIN s : s[i] = s[j] => i = j

\* What holds of the data stored for class c.
GoodClass(c, k) ==
    /\ k \in ClassRec
    /\ NoDup(k.nodes)
    /\ \A n \in Members(k) : ServiceOf[n] = c
    /\ k.pos \in {"at", "before"} => k.at \in Members(k)

-----------------------------------------------------------------------------
(* Sequences.                                                              *)

\* Taking one element out of a sequence without repetitions leaves a sequence
\* without repetitions that holds all the others.
LEMMA WithoutAtLemma ==
    ASSUME NEW S, NEW s \in Seq(S), NEW i \in DOMAIN s, NoDup(s)
    PROVE  /\ WithoutAt(s, i) \in Seq(S)
           /\ Len(WithoutAt(s, i)) = Len(s) - 1
           /\ DOMAIN WithoutAt(s, i) = 1 .. Len(s) - 1
           /\ NoDup(WithoutAt(s, i))
           /\ Elems(WithoutAt(s, i)) = Elems(s) \ {s[i]}
<1> DEFINE w == WithoutAt(s, i)
<1>1. i \in 1 .. Len(s) /\ Len(s) \in Nat /\ DOMAIN s = 1 .. Len(s)
  OBVIOUS
<1>2. w = [j \in 1 .. Len(s) - 1 |-> IF j < i THEN s[j] ELSE s[j + 1]]
  BY DEF WithoutAt
<1> HIDE DEF w
<1>3. \A j \in 1 .. Len(s) - 1 : w[j] = IF j < i THEN s[j] ELSE s[j + 1]
  BY <1>2
<1>4. \A j \in 1 .. Len(s) - 1 : w[j] \in S
  BY <1>1, <1>3
<1>5. w \in Seq(S) /\ Len(w) = Len(s) - 1 /\ DOMAIN w = 1 .. Len(s) - 1
  BY <1>1, <1>2, <1>4
<1>6. NoDup(w)
  <2>1. SUFFICES ASSUME NEW j \in 1 .. Len(s) - 1, NEW l \in 1 .. Len(s) - 1, w[j] = w[l]
                 PROVE  j = l
    BY <1>5 DEF NoDup
  <2>2. \A x, y \in 1 .. Len(s) : s[x] = s[y] => x = y
    BY <1>1 DEF NoDup
  <2>3. CASE j < i /\ l < i
    BY <2>1, <2>2, <2>3, <1>1, <1>3
  <2>4. CASE j < i /\ ~(l < i)
    BY <2>1, <2>2, <2>4, <1>1, <1>3
  <2>5. CASE ~(j < i) /\ l < i
    BY <2>1, <2>2, <2>5, <1>1, <1>3
  <2>6. CASE ~(j < i) /\ ~(l < i)
    BY <2>1, <2>2, <2>6, <1>1, <1>3
  <2> QED
    BY <2>3, <2>4, <2>5, <2>6
<1>7. Elems(w) \subseteq Elems(s) \ {s[i]}
  BY <1>1, <1>3, <1>5 DEF NoDup, Elems
<1>8. ASSUME NEW j \in DOMAIN s, s[j] # s[i]
      PROVE  s[j] \in Elems(w)
  <2>1. CASE j < i
    BY <2>1, <1>1, <1>3, <1>5 DEF Elems
  <2>2. CASE j > i
    <3>1. j - 1 \in DOMAIN w /\ w[j - 1] = s[j]
      BY <2>2, <1>1, <1>3, <1>5
    <3> QED
      BY <3>1 DEF Elems
  <2>3. j # i
    BY <1>8
  <2> QED
    BY <2>1, <2>2, <2>3, <1>1
<1> QED
  BY <1>5, <1>6, <1>7, <1>8 DEF w, Elems

LEMMA LenLemma ==
    ASSUME NEW S, NEW s \in Seq(S)
    PROVE  s = << >> <=> Len(s) = 0
OBVIOUS

\* The place of a node in the list of a class.
LEMMA IndexLemma ==
    ASSUME NEW k, NEW n \in Members(k)
    PROVE  IndexOf(k, n) \in DOMAIN k.nodes /\ k.nodes[IndexOf(k, n)] = n
BY DEF IndexOf, Members, Elems

\* A sequence that grows at its end.
LEMMA AppendLemma ==
    ASSUME NEW S, NEW s \in Seq(S), NEW x \in S
    PROVE  /\ Append(s, x) \in Seq(S)
           /\ Append(s, x) # << >>
           /\ Len(Append(s, x)) = Len(s) + 1
           /\ Elems(Append(s, x)) = Elems(s) \cup {x}
           /\ NoDup(s) /\ x \notin Elems(s) => NoDup(Append(s, x))
<1> DEFINE t == Append(s, x)
<1>1. /\ t \in Seq(S) /\ Len(t) = Len(s) + 1 /\ DOMAIN t = 1 .. Len(s) + 1
      /\ DOMAIN s = 1 .. Len(s) /\ Len(s) \in Nat
      /\ t[Len(s) + 1] = x /\ \A j \in 1 .. Len(s) : t[j] = s[j]
  OBVIOUS
<1> HIDE DEF t
<1>2. Elems(t) = Elems(s) \cup {x}
  <2>1. Elems(t) \subseteq Elems(s) \cup {x}
    BY <1>1 DEF Elems
  <2>2. \A j \in DOMAIN s : j \in DOMAIN t /\ t[j] = s[j]
    BY <1>1
  <2>3. Len(s) + 1 \in DOMAIN t
    BY <1>1
  <2> QED
    BY <2>1, <2>2, <2>3, <1>1 DEF Elems
<1>3. NoDup(s) /\ x \notin Elems(s) => NoDup(t)
  BY <1>1 DEF NoDup, Elems
<1>4. t # << >>
  BY <1>1
<1> QED
  BY <1>1, <1>2, <1>3, <1>4 DEF t

-----------------------------------------------------------------------------
(* The operations on the data of a class.                                  *)

LEMMA EmptyClassGood ==
    ASSUME NEW c \in Classes
    PROVE  GoodClass(c, EmptyClass)
BY DEF GoodClass, EmptyClass, ClassRec, NoDup, Members, Elems

LEMMA AddNodeGood ==
    ASSUME NEW c \in Classes, NEW k, GoodClass(c, k),
           NEW n \in Nodes, n \notin Members(k), ServiceOf[n] = c
    PROVE  GoodClass(c, AddNode(k, n)) /\ AddNode(k, n).nodes # << >>
<1> DEFINE new == AddNode(k, n)
<1>1. k \in ClassRec
  BY DEF GoodClass
<1>2. /\ new.nodes = Append(k.nodes, n) /\ new.pos = k.pos /\ new.at = k.at
      /\ new \in [nodes : {Append(k.nodes, n)}, pos : {k.pos}, at : {k.at},
                  last : [Nodes -> Requests \cup {NoMsg}], turns : [Nodes -> Nat]]
  BY <1>1 DEF AddNode, ClassRec
<1> HIDE DEF new
<1>3. /\ Append(k.nodes, n) \in Seq(Nodes) /\ Append(k.nodes, n) # << >>
      /\ NoDup(Append(k.nodes, n))
      /\ Members(new) = Members(k) \cup {n}
  BY <1>1, <1>2, AppendLemma DEF GoodClass, ClassRec, Members
<1>4. new \in ClassRec
  BY <1>1, <1>2, <1>3 DEF ClassRec
<1> QED
  BY <1>2, <1>3, <1>4 DEF GoodClass, new

LEMMA DropNodeGood ==
    ASSUME NEW c \in Classes, NEW k, GoodClass(c, k), NEW n \in Members(k)
    PROVE  /\ GoodClass(c, DropNode(k, n))
           /\ Members(DropNode(k, n)) = Members(k) \ {n}
           /\ Len(DropNode(k, n).nodes) = Len(k.nodes) - 1
<1> DEFINE i == IndexOf(k, n)
           here == k.at = n /\ k.pos \in {"at", "before"}
           next == here /\ k.pos = "at" /\ i < Len(k.nodes)
           new == DropNode(k, n)
<1>1. k \in ClassRec /\ NoDup(k.nodes) /\ k.nodes \in Seq(Nodes)
  BY DEF GoodClass, ClassRec
<1>2. i \in DOMAIN k.nodes /\ k.nodes[i] = n
  BY IndexLemma
<1>3. /\ WithoutAt(k.nodes, i) \in Seq(Nodes) /\ NoDup(WithoutAt(k.nodes, i))
      /\ Len(WithoutAt(k.nodes, i)) = Len(k.nodes) - 1
      /\ Elems(WithoutAt(k.nodes, i)) = Elems(k.nodes) \ {n}
  BY <1>1, <1>2, WithoutAtLemma
<1>4. /\ new.nodes = WithoutAt(k.nodes, i)
      /\ new.pos = IF next THEN "before" ELSE IF here THEN "end" ELSE k.pos
      /\ new.at = IF next THEN k.nodes[i + 1] ELSE IF here THEN NoNode ELSE k.at
      /\ new = [nodes |-> new.nodes, pos |-> new.pos, at |-> new.at,
                last |-> new.last, turns |-> new.turns]
      /\ new.last = [k.last EXCEPT ![n] = NoMsg]
      /\ new.turns = [m \in Nodes |-> 0]
  BY DEF DropNode
<1> HIDE DEF new, i
<1>5. new.last \in [Nodes -> Requests \cup {NoMsg}] /\ new.turns \in [Nodes -> Nat]
  <2>1. k.last \in [Nodes -> Requests \cup {NoMsg}]
    BY <1>1 DEF ClassRec
  <2>2. new.last \in [Nodes -> Requests \cup {NoMsg}]
    BY <2>1, <1>4
  <2>3. new.turns \in [Nodes -> Nat]
    BY <1>4
  <2> QED
    BY <2>2, <2>3
<1>6. Members(new) = Members(k) \ {n}
  BY <1>3, <1>4 DEF Members
<1>7. CASE next
  <2>1. i + 1 \in DOMAIN k.nodes /\ k.nodes[i + 1] # n
    BY <1>1, <1>2, <1>7 DEF NoDup
  <2>2. k.nodes[i + 1] \in Nodes /\ k.nodes[i + 1] \in Members(k) \ {n}
    BY <2>1, <1>1 DEF Members, Elems
  <2>3. new.pos = "before" /\ new.at = k.nodes[i + 1]
    BY <1>4, <1>7
  <2>4. new \in ClassRec
    BY <2>2, <2>3, <1>3, <1>4, <1>5 DEF ClassRec
  <2> QED
    BY <2>2, <2>3, <2>4, <1>3, <1>4, <1>6 DEF GoodClass, new
<1>8. CASE ~next
  <2>1. /\ new.pos \in {"start", "at", "before", "end"}
        /\ new.at \in Nodes \cup {NoNode}
    BY <1>1, <1>4, <1>8 DEF ClassRec
  <2>2. new \in ClassRec
    BY <2>1, <1>3, <1>4, <1>5 DEF ClassRec
  <2>3. new.pos \in {"at", "before"} => new.at \in Members(new)
    BY <1>4, <1>6, <1>8 DEF GoodClass
  <2> QED
    BY <2>2, <2>3, <1>3, <1>4, <1>6 DEF GoodClass, new
<1> QED
  BY <1>7, <1>8

\* The round robin picks a node of the class.
LEMMA PickLemma ==
    ASSUME NEW c \in Classes, NEW k, GoodClass(c, k), k.nodes # << >>
    PROVE  Pick(k) \in Members(k) /\ Pick(k) \in Nodes
<1> DEFINE i == CASE k.pos = "at"     -> IndexOf(k, k.at) + 1
                  [] k.pos = "before" -> IndexOf(k, k.at)
                  [] OTHER            -> 1
           j == IF i > Len(k.nodes) THEN 1 ELSE i
<1>1. k.nodes \in Seq(Nodes) /\ k.pos \in {"start", "at", "before", "end"}
  BY DEF GoodClass, ClassRec
<1>2. DOMAIN k.nodes = 1 .. Len(k.nodes) /\ Len(k.nodes) \in Nat /\ Len(k.nodes) # 0
  BY <1>1
<1>3. k.pos \in {"at", "before"} => IndexOf(k, k.at) \in 1 .. Len(k.nodes)
  BY <1>2, IndexLemma DEF GoodClass
<1>4. i \in Nat /\ i >= 1
  <2>1. CASE k.pos = "at"
    BY <2>1, <1>3
  <2>2. CASE k.pos = "before"
    BY <2>2, <1>3
  <2>3. CASE k.pos \notin {"at", "before"}
    BY <2>3
  <2> QED
    BY <2>1, <2>2, <2>3
<1>5. Pick(k) = k.nodes[j]
  BY DEF Pick
<1> HIDE DEF i
<1>6. j \in 1 .. Len(k.nodes)
  BY <1>2, <1>4
<1> HIDE DEF j
<1> QED
  BY <1>1, <1>2, <1>5, <1>6 DEF Members, Elems

LEMMA RoutedGood ==
    ASSUME NEW c \in Classes, NEW k, GoodClass(c, k), k.nodes # << >>, NEW r \in Requests
    PROVE  GoodClass(c, Routed(k, r)) /\ Routed(k, r).nodes = k.nodes
<1> DEFINE n == Pick(k)
           new == Routed(k, r)
<1>1. n \in Members(k) /\ n \in Nodes
  BY PickLemma
<1>2. k \in ClassRec
  BY DEF GoodClass
<1>3. new = [k EXCEPT !.pos = "at", !.at = n, !.last[n] = r, !.turns[n] = @ + 1]
  BY DEF Routed
<1> HIDE DEF n, new
<1>4. new.nodes = k.nodes /\ new.pos = "at" /\ new.at = n /\ new \in ClassRec
  <2>1. k = [nodes |-> k.nodes, pos |-> k.pos, at |-> k.at, last |-> k.last, turns |-> k.turns]
    BY <1>2 DEF ClassRec
  <2>2. /\ k.last \in [Nodes -> Requests \cup {NoMsg}] /\ k.turns \in [Nodes -> Nat]
        /\ k.nodes \in Seq(Nodes)
    BY <1>2 DEF ClassRec
  <2>3. new = [nodes |-> k.nodes, pos |-> "at", at |-> n, last |-> [k.last EXCEPT ![n] = r],
               turns |-> [k.turns EXCEPT ![n] = @ + 1]]
    BY <2>1, <1>3
  <2>4. /\ [k.last EXCEPT ![n] = r] \in [Nodes -> Requests \cup {NoMsg}]
        /\ [k.turns EXCEPT ![n] = @ + 1] \in [Nodes -> Nat]
    BY <2>2, <1>1
  <2> QED
    BY <2>2, <2>3, <2>4, <1>1 DEF ClassRec
<1>5. Members(new) = Members(k)
  BY <1>4 DEF Members
<1> QED
  BY <1>1, <1>4, <1>5 DEF GoodClass, new

-----------------------------------------------------------------------------
(* The inductive invariant, in three parts.                                *)

\* The registry and the messages.
TableInv ==
    /\ classes \in Seq(Classes) /\ NoDup(classes)
    /\ class \in [Classes -> ClassRec]
    /\ conn \in [Classes \cup {Top} -> {"none", "open", "eof", "closed"}]
    /\ inbox \in [Classes -> Seq(InMsg)]
    /\ wire \in [Nodes -> Seq(Requests)]
    /\ \A c \in Classes : GoodClass(c, class[c])
    /\ \A c \in Classes : Registered(c) <=> class[c].nodes # << >>
    /\ \A c \in Classes : Registered(c) <=> conn[c] # "none"

\* The messages that client_recv has in memory are those of the connection that
\* is being drained, and no more than there are; without this a step could take
\* a message from an empty box.
GotOK ==
    /\ pc \notin {"top", "classes", "crashed"} => got = 0
    /\ pc = "top" => got <= Len(topbox) /\ (Top \notin ready => got = 0)
    /\ pc = "classes" =>
         \/ got = 0
         \/ todo # << >> /\ (Registered(Head(todo)) => got <= Len(inbox[Head(todo)]))

LoopInv ==
    /\ pc \in {"check", "fill", "select", "top", "classes", "done", "crashed"}
    /\ stop \in BOOLEAN
    /\ ready \subseteq Classes \cup {Top}
    /\ todo \in Seq(Classes) /\ got \in Nat
    /\ topbox \in Seq(TopMsg)
    /\ GotOK

WorldInv ==
    /\ node \in [Nodes -> {"off", "up", "leaving", "down"}]
    /\ sent \subseteq Requests /\ cancelled \subseteq Requests
    /\ delivered \in [Requests -> Nat]
    /\ toggles \in Nat /\ queries \in Nat /\ losses \in Nat

IInv == TableInv /\ LoopInv /\ WorldInv

\* The invariant says what the runs check.
LEMMA IInvImplies == IInv => TypeOK /\ RegistryConsistent /\ NoClassWithoutNode
BY DEF IInv, TableInv, LoopInv, WorldInv, TypeOK, RegistryConsistent,
       NoClassWithoutNode, GoodClass, NoDup

LEMMA InitIInv == Init => IInv
<1> SUFFICES ASSUME Init PROVE IInv
  OBVIOUS
<1> USE DEF Init
<1>1. /\ classes \in Seq(Classes) /\ NoDup(classes)
      /\ \A c \in Classes : ~Registered(c)
  BY DEF NoDup, Registered, Elems
<1>2. EmptyClass \in ClassRec /\ EmptyClass.nodes = << >>
  BY DEF EmptyClass, ClassRec
<1>3. \A c \in Classes : class[c] = EmptyClass /\ GoodClass(c, class[c]) /\ conn[c] = "none"
  BY EmptyClassGood, RouterAssumption
<1>4. TableInv
  <2>1. class \in [Classes -> ClassRec]
    BY <1>2
  <2>2. conn \in [Classes \cup {Top} -> {"none", "open", "eof", "closed"}]
    OBVIOUS
  <2>3. inbox \in [Classes -> Seq(InMsg)] /\ wire \in [Nodes -> Seq(Requests)]
    OBVIOUS
  <2> QED
    BY <1>1, <1>2, <1>3, <2>1, <2>2, <2>3 DEF TableInv
<1>5. LoopInv
  <2>1. stop \in BOOLEAN
    OBVIOUS
  <2>2. todo \in Seq(Classes) /\ topbox \in Seq(TopMsg) /\ ready \subseteq Classes \cup {Top}
    OBVIOUS
  <2>3. GotOK
    BY DEF GotOK
  <2> QED
    BY <2>1, <2>2, <2>3 DEF LoopInv
<1>6. WorldInv
  BY DEF WorldInv
<1> QED
  BY <1>4, <1>5, <1>6 DEF IInv

-----------------------------------------------------------------------------
(* The operations of the registry keep TableInv.                           *)

LEMMA ClassIndexLemma ==
    ASSUME NEW c, Registered(c)
    PROVE  ClassIndex(c) \in DOMAIN classes /\ classes[ClassIndex(c)] = c
BY DEF ClassIndex, Registered, Elems

LEMMA RemoveClassInv ==
    ASSUME TableInv, NEW c \in Classes, Registered(c), RemoveClass(c), UNCHANGED wire
    PROVE  TableInv' /\ ~Registered(c)'
<1>1. /\ classes' \in Seq(Classes) /\ NoDup(classes')
      /\ Elems(classes') = Elems(classes) \ {c}
  BY ClassIndexLemma, WithoutAtLemma DEF TableInv, RemoveClass
<1>2. \A d \in Classes : Registered(d)' <=> (Registered(d) /\ d # c)
  BY <1>1 DEF Registered
<1>3. /\ class' \in [Classes -> ClassRec]
      /\ \A d \in Classes : class'[d] = IF d = c THEN EmptyClass ELSE class[d]
  BY EmptyClassGood DEF TableInv, RemoveClass, GoodClass
<1>4. /\ conn' \in [Classes \cup {Top} -> {"none", "open", "eof", "closed"}]
      /\ \A d \in Classes : conn'[d] = IF d = c THEN "none" ELSE conn[d]
  BY DEF TableInv, RemoveClass
<1>5. inbox' \in [Classes -> Seq(InMsg)]
  BY DEF TableInv, RemoveClass
<1>6. \A d \in Classes : GoodClass(d, class[d])'
  BY <1>3, EmptyClassGood DEF TableInv, GoodClass, Members
<1>7. \A d \in Classes : Registered(d)' <=> class'[d].nodes # << >>
  BY <1>2, <1>3 DEF TableInv, EmptyClass
<1>8. \A d \in Classes : Registered(d)' <=> conn'[d] # "none"
  BY <1>2, <1>4 DEF TableInv
<1> QED
  BY <1>1, <1>2, <1>3, <1>4, <1>5, <1>6, <1>7, <1>8 DEF TableInv

\* Replacing the data of one class by good data that has a node.
LEMMA UpdateClassInv ==
    ASSUME TableInv, NEW c \in Classes, NEW k, GoodClass(c, k),
           k.nodes # << >> <=> Registered(c),
           class' = [class EXCEPT ![c] = k],
           UNCHANGED <<classes, conn>>,
           inbox' \in [Classes -> Seq(InMsg)], wire' \in [Nodes -> Seq(Requests)]
    PROVE  TableInv' /\ \A d \in Classes : Registered(d)' <=> Registered(d)
<1>1. \A d : Registered(d)' <=> Registered(d)
  BY DEF Registered
<1>2. class' \in [Classes -> ClassRec]
  BY DEF TableInv, GoodClass
<1>3. \A d \in Classes : class'[d] = IF d = c THEN k ELSE class[d]
  BY DEF TableInv
<1>4. \A d \in Classes : GoodClass(d, class[d])'
  BY <1>3 DEF TableInv, GoodClass, Members
<1>5. \A d \in Classes : Registered(d)' <=> class'[d].nodes # << >>
  BY <1>1, <1>3 DEF TableInv
<1> QED
  BY <1>1, <1>2, <1>4, <1>5 DEF TableInv

LEMMA RemoveNodeInv ==
    ASSUME TableInv, NEW c \in Classes, NEW n, NEW box \in [Classes -> Seq(InMsg)],
           RemoveNode(c, n, box), UNCHANGED wire
    PROVE  /\ TableInv'
           /\ Registered(c)' => Registered(c) /\ inbox' = box
<1>1. CASE Registered(c) /\ n \in Members(class[c]) /\ Len(class[c].nodes) = 1
  <2>1. RemoveClass(c)
    BY <1>1 DEF RemoveNode
  <2> QED
    BY <2>1, <1>1, RemoveClassInv
<1>2. CASE Registered(c) /\ n \in Members(class[c]) /\ Len(class[c].nodes) # 1
  <2> DEFINE k == DropNode(class[c], n)
  <2>1. class' = [class EXCEPT ![c] = k] /\ inbox' = box /\ UNCHANGED <<classes, conn>>
    BY <1>2 DEF RemoveNode, TableInv
  <2>2. GoodClass(c, class[c])
    BY DEF TableInv
  <2>3. GoodClass(c, k) /\ Len(k.nodes) = Len(class[c].nodes) - 1
    BY <1>2, <2>2, DropNodeGood
  <2>4. k.nodes # << >>
    <3>1. class[c].nodes \in Seq(Nodes) /\ class[c].nodes # << >>
      BY <1>2, <2>2 DEF GoodClass, ClassRec, TableInv
    <3> HIDE DEF k
    <3>2. Len(class[c].nodes) \in Nat /\ k.nodes \in Seq(Nodes)
      BY <3>1, <2>3 DEF GoodClass, ClassRec
    <3>3. k.nodes = << >> <=> Len(k.nodes) = 0
      BY <3>2, LenLemma
    <3>4. Len(k.nodes) # 0
      BY <3>2, <2>3, <1>2
    <3> QED
      BY <3>3, <3>4
  <2> HIDE DEF k
  <2>5. wire' \in [Nodes -> Seq(Requests)]
    BY DEF TableInv
  <2>6. TableInv'
    BY <1>2, <2>1, <2>3, <2>4, <2>5, UpdateClassInv
  <2> QED
    BY <1>2, <2>1, <2>6
<1>3. CASE ~(Registered(c) /\ n \in Members(class[c]))
  <2>1. inbox' = box /\ UNCHANGED <<classes, class, conn>>
    BY <1>3 DEF RemoveNode, table
  <2> QED
    BY <2>1 DEF TableInv, Registered, GoodClass, Members
<1> QED
  BY <1>1, <1>2, <1>3

LEMMA SendToType ==
    ASSUME TableInv, NEW c \in Classes, NEW n \in Nodes, NEW r \in Requests, SendTo(c, n, r)
    PROVE  wire' \in [Nodes -> Seq(Requests)]
BY DEF TableInv, SendTo

\* Sending to a class some of whose nodes the caller may have dropped.
LEMMA HandleMessageInv ==
    ASSUME TableInv, NEW c \in Classes, NEW k, GoodClass(c, k),
           k.nodes # << >> <=> Registered(c), NEW r \in Requests,
           HandleMessage(c, k, r), UNCHANGED <<classes, conn>>,
           inbox' \in [Classes -> Seq(InMsg)]
    PROVE  TableInv' /\ \A d \in Classes : Registered(d)' <=> Registered(d)
<1>1. CASE k.nodes = << >>
  <2>1. class' = [class EXCEPT ![c] = k] /\ wire' = wire
    BY <1>1 DEF HandleMessage
  <2>2. wire' \in [Nodes -> Seq(Requests)]
    BY <2>1 DEF TableInv
  <2> QED
    BY <2>1, <2>2, UpdateClassInv
<1>2. CASE k.nodes # << >>
  <2>1. class' = [class EXCEPT ![c] = Routed(k, r)] /\ SendTo(c, Pick(k), r)
    BY <1>2 DEF HandleMessage
  <2>2. GoodClass(c, Routed(k, r)) /\ Routed(k, r).nodes = k.nodes
    BY <1>2, RoutedGood
  <2>3. wire' \in [Nodes -> Seq(Requests)]
    BY <1>2, <2>1, PickLemma, SendToType
  <2> QED
    BY <1>2, <2>1, <2>2, <2>3, UpdateClassInv
<1> QED
  BY <1>1, <1>2

LEMMA HandleBounceInv ==
    ASSUME TableInv, NEW c \in Classes, Registered(c), NEW n,
           NEW box \in [Classes -> Seq(InMsg)], cancelled \subseteq Requests,
           HandleBounce(c, n, box)
    PROVE  /\ TableInv' /\ cancelled' \subseteq Requests
           /\ Registered(c)' => inbox' = box
<1> DEFINE k == class[c]
<1>1. GoodClass(c, k) /\ k.nodes # << >> /\ k.nodes \in Seq(Nodes)
      /\ k.last \in [Nodes -> Requests \cup {NoMsg}]
  BY DEF TableInv, GoodClass, ClassRec
<1>2. CASE n \notin Members(k)
  <2>1. inbox' = box /\ UNCHANGED <<classes, class, conn, wire, cancelled>>
    BY <1>2 DEF HandleBounce, table
  <2> QED
    BY <2>1 DEF TableInv, Registered, GoodClass, Members
<1>3. ASSUME n \in Members(k)
      PROVE  n \in Nodes
  BY <1>1, <1>3 DEF Members, Elems
<1>4. CASE n \in Members(k) /\ Len(k.nodes) = 1
  <2>1. /\ RemoveNode(c, n, box) /\ UNCHANGED wire
        /\ cancelled' = IF k.last[n] # NoMsg /\ conn[c] = "open"
                        THEN cancelled \cup {k.last[n]} ELSE cancelled
    BY <1>4 DEF HandleBounce
  <2>2. cancelled' \subseteq Requests
    BY <2>1, <1>1, <1>3, <1>4
  <2> QED
    BY <2>1, <2>2, RemoveNodeInv
<1>5. CASE n \in Members(k) /\ Len(k.nodes) # 1 /\ k.last[n] = NoMsg
  <2>1. RemoveNode(c, n, box) /\ UNCHANGED wire /\ UNCHANGED cancelled
    BY <1>5 DEF HandleBounce
  <2> QED
    BY <2>1, RemoveNodeInv
<1>6. CASE n \in Members(k) /\ Len(k.nodes) # 1 /\ k.last[n] # NoMsg
  <2> DEFINE d == DropNode(k, n)
             r == k.last[n]
  <2>1. /\ HandleMessage(c, d, r) /\ inbox' = box
        /\ UNCHANGED <<classes, conn>> /\ UNCHANGED cancelled
    BY <1>6 DEF HandleBounce
  <2>2. r \in Requests
    BY <1>1, <1>3, <1>6
  <2>3. GoodClass(c, d) /\ Len(d.nodes) = Len(k.nodes) - 1
    BY <1>1, <1>6, DropNodeGood
  <2>4. d.nodes # << >>
    <3> HIDE DEF d
    <3>1. Len(k.nodes) \in Nat /\ d.nodes \in Seq(Nodes)
      BY <1>1, <2>3 DEF GoodClass, ClassRec
    <3>2. d.nodes = << >> <=> Len(d.nodes) = 0
      BY <3>1, LenLemma
    <3>3. Len(d.nodes) # 0
      BY <3>1, <2>3, <1>6
    <3> QED
      BY <3>2, <3>3
  <2> HIDE DEF d, r
  <2>5. TableInv' /\ \A e \in Classes : Registered(e)' <=> Registered(e)
    BY <2>1, <2>2, <2>3, <2>4, HandleMessageInv
  <2> QED
    BY <2>1, <2>5
<1> QED
  BY <1>2, <1>4, <1>5, <1>6

-----------------------------------------------------------------------------
(* The steps.                                                              *)

\* A step that leaves the registry alone and moves messages only.
LEMMA SameTableInv ==
    ASSUME TableInv, UNCHANGED <<classes, class>>,
           conn' \in [Classes \cup {Top} -> {"none", "open", "eof", "closed"}],
           \A c \in Classes : conn'[c] = "none" <=> conn[c] = "none",
           inbox' \in [Classes -> Seq(InMsg)], wire' \in [Nodes -> Seq(Requests)]
    PROVE  TableInv' /\ \A c : Registered(c)' <=> Registered(c)
<1>1. \A c : Registered(c)' <=> Registered(c)
  BY DEF Registered
<1>2. \A c \in Classes : GoodClass(c, class[c])'
  BY DEF TableInv, GoodClass, Members
<1> QED
  BY <1>1, <1>2 DEF TableInv

\* A step of the main loop that changes its place only.
LEMMA LoopStepsInv ==
    ASSUME IInv, CheckStop \/ FillFDSet \/ Select \/ SelectInterrupted \/ LoopEnd \/ Signal
    PROVE  IInv'
<1>1. UNCHANGED <<classes, class, conn, inbox, topbox, wire, node, sent, delivered,
                  cancelled, toggles, queries, losses>>
  BY DEF CheckStop, FillFDSet, Select, SelectInterrupted, LoopEnd, Signal, table,
         network, world, bounds
<1>2. TableInv'
  BY <1>1, SameTableInv DEF IInv, TableInv
<1>3. WorldInv'
  BY <1>1 DEF IInv, WorldInv
<1>4. UNCHANGED <<todo, got>>
  BY DEF CheckStop, FillFDSet, Select, SelectInterrupted, LoopEnd, Signal
<1>5. stop' \in BOOLEAN
  BY DEF IInv, LoopInv, CheckStop, FillFDSet, Select, SelectInterrupted, LoopEnd, Signal
<1>6. ready' \subseteq Classes \cup {Top}
  BY DEF IInv, LoopInv, CheckStop, FillFDSet, Select, SelectInterrupted, LoopEnd, Signal
<1>7. CASE CheckStop
  BY <1>1, <1>4, <1>5, <1>6, <1>2, <1>3, <1>7 DEF IInv, LoopInv, GotOK, CheckStop
<1>8. CASE FillFDSet
  BY <1>1, <1>4, <1>5, <1>6, <1>2, <1>3, <1>8 DEF IInv, LoopInv, GotOK, FillFDSet
<1>9. CASE Select
  <2>1. got = 0 /\ pc' \in {"top", "done"}
    BY <1>9 DEF IInv, LoopInv, GotOK, Select
  <2> QED
    BY <2>1, <1>1, <1>4, <1>5, <1>6, <1>2, <1>3 DEF IInv, LoopInv, GotOK
<1>10. CASE SelectInterrupted
  BY <1>1, <1>4, <1>5, <1>6, <1>2, <1>3, <1>10 DEF IInv, LoopInv, GotOK, SelectInterrupted
<1>11. CASE LoopEnd
  BY <1>1, <1>4, <1>5, <1>6, <1>2, <1>3, <1>11 DEF IInv, LoopInv, GotOK, LoopEnd
<1>12. CASE Signal
  <2>1. pc' = pc \/ (pc = "select" /\ pc' = "done")
    BY <1>12 DEF Signal
  <2>2. \A c : Registered(c)' <=> Registered(c)
    BY <1>1 DEF Registered
  <2>3. UNCHANGED ready
    BY <1>12 DEF Signal
  <2>4. GotOK'
    BY <2>1, <2>2, <2>3, <1>1, <1>4 DEF IInv, LoopInv, GotOK
  <2>5. pc' \in {"check", "fill", "select", "top", "classes", "done", "crashed"}
    BY <2>1 DEF IInv, LoopInv
  <2> QED
    BY <2>4, <2>5, <1>1, <1>4, <1>5, <1>6, <1>2, <1>3 DEF IInv, LoopInv
<1> QED
  BY <1>7, <1>8, <1>9, <1>10, <1>11, <1>12

LEMMA RemoveBrokenClassInv ==
    ASSUME IInv, NEW c \in Classes, RemoveBrokenClass(c)
    PROVE  IInv'
<1>1. /\ pc = "fill" /\ Registered(c) /\ RemoveClass(c)
      /\ UNCHANGED <<pc, stop, ready, todo, got, topbox, wire, node, sent, delivered,
                     cancelled, toggles, queries, losses>>
  BY DEF RemoveBrokenClass, Broken, loop, world, bounds
<1>2. TableInv'
  BY <1>1, RemoveClassInv DEF IInv
<1>3. WorldInv' /\ LoopInv'
  BY <1>1 DEF IInv, WorldInv, LoopInv, GotOK
<1> QED
  BY <1>2, <1>3 DEF IInv

\* What TopReceive takes out of the box.
LEMMA TopReceiveLemma ==
    ASSUME IInv, TopReceive
    PROVE  /\ pc = "top" /\ Top \in ready /\ Head(topbox) \in TopMsg
           /\ topbox' \in Seq(TopMsg) /\ got' \in Nat /\ got' <= Len(topbox')
<1>1. /\ pc = "top" /\ Top \in ready /\ got' = (IF got > 0 THEN got ELSE Len(topbox)) - 1
      /\ topbox' = Tail(topbox) /\ (got > 0 \/ topbox # << >>)
  BY DEF TopReceive, HasMessage, Taken
<1>2. topbox \in Seq(TopMsg) /\ got \in Nat /\ got <= Len(topbox) /\ Len(topbox) \in Nat
  BY <1>1 DEF IInv, LoopInv, GotOK
<1>3. topbox # << >>
  BY <1>1, <1>2
<1>4. /\ Head(topbox) \in TopMsg /\ Tail(topbox) \in Seq(TopMsg)
      /\ Len(Tail(topbox)) = Len(topbox) - 1 /\ Len(topbox) > 0
  BY <1>2, <1>3
<1> QED
  BY <1>1, <1>2, <1>4

\* The top phase goes on: only the box and the registry matter.
LEMMA TopPhaseInv ==
    ASSUME IInv, TopReceive, TableInv', UNCHANGED <<stop, ready, todo>>,
           pc' \in {"top", "crashed"}, WorldInv'
    PROVE  IInv'
<1>1. GotOK'
  BY TopReceiveLemma DEF GotOK
<1> QED
  BY <1>1, TopReceiveLemma DEF IInv, LoopInv

LEMMA RegisterInv ==
    ASSUME IInv, Register
    PROVE  IInv'
<1> DEFINE n == Head(topbox).from
           c == ServiceOf[n]
<1>1. /\ TopReceive /\ Head(topbox).cmd = "register"
      /\ UNCHANGED <<pc, stop, ready, todo, inbox, wire, node, sent, delivered, cancelled,
                     toggles, queries>>
  BY DEF Register, world
<1>2. n \in Nodes /\ c \in Classes
  BY <1>1, TopReceiveLemma, RouterAssumption DEF TopMsg
<1>3. \/ /\ n \notin Members(class[c])
         /\ class' = [class EXCEPT ![c] = AddNode(@, n)]
         /\ IF Registered(c)
            THEN UNCHANGED <<classes, conn>>
            ELSE classes' = Append(classes, c) /\ conn' = [conn EXCEPT ![c] = "open"]
         /\ UNCHANGED losses
      \/ losses' = losses + 1 /\ UNCHANGED <<classes, class, conn>>
      \/ UNCHANGED <<classes, class, conn, losses>>
  BY DEF Register, table
<1> HIDE DEF n, c
<1>4. TableInv
  BY DEF IInv
<1>5. inbox' \in [Classes -> Seq(InMsg)] /\ wire' \in [Nodes -> Seq(Requests)]
  BY <1>1, <1>4 DEF TableInv
<1>6. losses' \in Nat
  BY <1>3 DEF IInv, WorldInv
<1>7. WorldInv'
  BY <1>1, <1>6 DEF IInv, WorldInv
<1>8. CASE UNCHANGED <<classes, class, conn>>
  <2>1. TableInv'
    BY <1>4, <1>5, <1>8, SameTableInv DEF TableInv
  <2> QED
    BY <2>1, <1>1, <1>7, TopReceiveLemma, TopPhaseInv
<1>9. CASE /\ n \notin Members(class[c])
           /\ class' = [class EXCEPT ![c] = AddNode(@, n)]
           /\ Registered(c) /\ UNCHANGED <<classes, conn>>
  <2>1. GoodClass(c, AddNode(class[c], n)) /\ AddNode(class[c], n).nodes # << >>
    BY <1>2, <1>4, <1>9, AddNodeGood DEF TableInv, c
  <2>2. class' = [class EXCEPT ![c] = AddNode(class[c], n)]
    BY <1>9
  <2>3. TableInv'
    BY <2>1, <2>2, <1>2, <1>4, <1>5, <1>9, UpdateClassInv
  <2> QED
    BY <2>3, <1>1, <1>7, TopReceiveLemma, TopPhaseInv
<1>10. CASE /\ n \notin Members(class[c])
            /\ class' = [class EXCEPT ![c] = AddNode(@, n)]
            /\ ~Registered(c) /\ classes' = Append(classes, c)
            /\ conn' = [conn EXCEPT ![c] = "open"]
  <2>1. GoodClass(c, AddNode(class[c], n)) /\ AddNode(class[c], n).nodes # << >>
    BY <1>2, <1>4, <1>10, AddNodeGood DEF TableInv, c
  <2>2. /\ classes' \in Seq(Classes) /\ NoDup(classes')
        /\ Elems(classes') = Elems(classes) \cup {c}
    BY <1>2, <1>4, <1>10, AppendLemma DEF TableInv, Registered
  <2>3. \A d : Registered(d)' <=> (Registered(d) \/ d = c)
    BY <2>2 DEF Registered
  <2>4. /\ class' \in [Classes -> ClassRec]
        /\ \A d \in Classes : class'[d] = IF d = c THEN AddNode(class[c], n) ELSE class[d]
    BY <2>1, <1>4, <1>10 DEF TableInv, GoodClass
  <2>5. /\ conn' \in [Classes \cup {Top} -> {"none", "open", "eof", "closed"}]
        /\ \A d \in Classes : conn'[d] = IF d = c THEN "open" ELSE conn[d]
    BY <1>4, <1>10 DEF TableInv
  <2>6. \A d \in Classes : GoodClass(d, class[d])'
    BY <2>1, <2>4, <1>4 DEF TableInv, GoodClass, Members
  <2>7. \A d \in Classes : Registered(d)' <=> class'[d].nodes # << >>
    BY <2>1, <2>3, <2>4, <1>4 DEF TableInv
  <2>8. \A d \in Classes : Registered(d)' <=> conn'[d] # "none"
    BY <2>3, <2>5, <1>4 DEF TableInv
  <2>9. TableInv'
    BY <2>2, <2>4, <2>5, <2>6, <2>7, <2>8, <1>5 DEF TableInv
  <2> QED
    BY <2>9, <1>1, <1>7, TopReceiveLemma, TopPhaseInv
<1> QED
  BY <1>3, <1>8, <1>9, <1>10

LEMMA UnregisterInv ==
    ASSUME IInv, Unregister
    PROVE  IInv'
<1> DEFINE n == Head(topbox).from
<1>1. /\ TopReceive /\ Head(topbox).cmd = "unregister"
      /\ UNCHANGED <<pc, stop, ready, todo, wire, node, sent, delivered, cancelled,
                     toggles, queries, losses>>
      /\ RemoveNode(ServiceOf[n], n, inbox) \/ UNCHANGED <<classes, class, conn, inbox>>
  BY DEF Unregister, world, bounds, table
<1>2. n \in Nodes /\ ServiceOf[n] \in Classes
  BY <1>1, TopReceiveLemma, RouterAssumption DEF TopMsg
<1> HIDE DEF n
<1>3. TableInv'
  <2>1. CASE RemoveNode(ServiceOf[n], n, inbox)
    BY <2>1, <1>1, <1>2, RemoveNodeInv DEF IInv, TableInv
  <2>2. CASE UNCHANGED <<classes, class, conn, inbox>>
    BY <2>2, <1>1, SameTableInv DEF IInv, TableInv
  <2> QED
    BY <2>1, <2>2, <1>1
<1>4. WorldInv'
  BY <1>1 DEF IInv, WorldInv
<1> QED
  BY <1>1, <1>3, <1>4, TopReceiveLemma, TopPhaseInv

LEMMA AppRequestInv ==
    ASSUME IInv, AppRequest
    PROVE  IInv'
<1>1. /\ TopReceive /\ (UNCHANGED pc \/ pc' = "crashed")
      /\ UNCHANGED <<stop, ready, todo, classes, class, conn, inbox, wire, node, sent,
                     delivered, cancelled, toggles, queries, losses>>
  BY DEF AppRequest, Answered, OfClass, table, world, bounds
<1>2. TableInv'
  BY <1>1, SameTableInv DEF IInv, TableInv
<1>3. WorldInv'
  BY <1>1 DEF IInv, WorldInv
<1> QED
  BY <1>1, <1>2, <1>3, TopReceiveLemma, TopPhaseInv

LEMMA TopDrainedInv ==
    ASSUME IInv, TopDrained
    PROVE  IInv'
<1>1. /\ pc = "top" /\ (Top \notin ready \/ ~HasMessage(Top, topbox))
      /\ conn' = conn \/ conn' = [conn EXCEPT ![Top] = "closed"]
      /\ todo' = classes /\ pc' = "classes"
      /\ UNCHANGED <<stop, ready, got, classes, class, inbox, topbox, wire, node, sent,
                     delivered, cancelled, toggles, queries, losses>>
  BY DEF TopDrained, table, world, bounds
<1>2. got = 0
  BY <1>1 DEF IInv, LoopInv, GotOK, HasMessage
<1>3. /\ conn' \in [Classes \cup {Top} -> {"none", "open", "eof", "closed"}]
      /\ \A c \in Classes : conn'[c] = conn[c]
  BY <1>1, RouterAssumption DEF IInv, TableInv
<1>4. TableInv'
  BY <1>1, <1>3, SameTableInv DEF IInv, TableInv
<1>5. LoopInv' /\ WorldInv'
  BY <1>1, <1>2 DEF IInv, LoopInv, GotOK, WorldInv, TableInv
<1> QED
  BY <1>4, <1>5 DEF IInv

LEMMA NextClassInv ==
    ASSUME IInv, NextClass
    PROVE  IInv'
<1> DEFINE c == Head(todo)
<1>1. /\ pc = "classes" /\ todo # << >> /\ got' = 0 /\ todo' = Tail(todo)
      /\ conn' = IF c \in ready /\ Registered(c) /\ conn[c] = "eof"
                 THEN [conn EXCEPT ![c] = "closed"] ELSE conn
      /\ UNCHANGED <<pc, stop, ready, classes, class, inbox, topbox, wire, node, sent,
                     delivered, cancelled, toggles, queries, losses>>
  BY DEF NextClass, table, world, bounds
<1>2. c \in Classes /\ Tail(todo) \in Seq(Classes)
  BY <1>1 DEF IInv, LoopInv
<1> HIDE DEF c
<1>3. /\ conn' \in [Classes \cup {Top} -> {"none", "open", "eof", "closed"}]
      /\ \A d \in Classes : conn'[d] = "none" <=> conn[d] = "none"
  BY <1>1, <1>2 DEF IInv, TableInv
<1>4. TableInv'
  BY <1>1, <1>3, SameTableInv DEF IInv, TableInv
<1>5. LoopInv' /\ WorldInv'
  BY <1>1, <1>2 DEF IInv, LoopInv, GotOK, WorldInv
<1> QED
  BY <1>4, <1>5 DEF IInv

\* What ClassReceive takes out of the inbox of a class.
LEMMA ClassReceiveLemma ==
    ASSUME IInv, NEW c \in Classes, ClassReceive(c)
    PROVE  /\ pc = "classes" /\ todo # << >> /\ c = Head(todo) /\ Registered(c)
           /\ Head(inbox[c]) \in InMsg /\ Tail(inbox[c]) \in Seq(InMsg)
           /\ got' \in Nat /\ got' <= Len(Tail(inbox[c]))
<1>1. /\ pc = "classes" /\ todo # << >> /\ c = Head(todo) /\ Registered(c)
      /\ got' = (IF got > 0 THEN got ELSE Len(inbox[c])) - 1
      /\ got > 0 \/ inbox[c] # << >>
  BY DEF ClassReceive, HasMessage, Taken
<1>2. inbox[c] \in Seq(InMsg) /\ Len(inbox[c]) \in Nat
  BY DEF IInv, TableInv
<1>3. got \in Nat /\ got <= Len(inbox[c])
  BY <1>1, <1>2 DEF IInv, LoopInv, GotOK
<1>4. inbox[c] # << >>
  BY <1>1, <1>2, <1>3
<1>5. /\ Head(inbox[c]) \in InMsg /\ Tail(inbox[c]) \in Seq(InMsg)
      /\ Len(Tail(inbox[c])) = Len(inbox[c]) - 1 /\ Len(inbox[c]) > 0
  BY <1>2, <1>4
<1> QED
  BY <1>1, <1>3, <1>5

\* The inner loop goes on with the class at hand.
LEMMA ClassPhaseInv ==
    ASSUME IInv, NEW c \in Classes, ClassReceive(c), TableInv', WorldInv',
           UNCHANGED <<pc, stop, ready, todo, topbox>>,
           Registered(c)' => inbox'[c] = Tail(inbox[c])
    PROVE  IInv'
<1>1. GotOK'
  BY ClassReceiveLemma DEF GotOK
<1> QED
  BY <1>1, ClassReceiveLemma DEF IInv, LoopInv

LEMMA RouteRequestInv ==
    ASSUME IInv, NEW c \in Classes, RouteRequest(c)
    PROVE  IInv'
<1> DEFINE r == Head(inbox[c]).req
<1>1. /\ ClassReceive(c) /\ Head(inbox[c]).kind = "request"
      /\ HandleMessage(c, class[c], r) \/ UNCHANGED <<class, wire>>
      /\ inbox' = [inbox EXCEPT ![c] = Tail(@)]
      /\ UNCHANGED <<pc, stop, ready, todo, classes, conn, topbox, node, sent, delivered,
                     cancelled, toggles, queries, losses>>
  BY DEF RouteRequest, world, bounds
<1>2. r \in Requests
  BY <1>1, ClassReceiveLemma DEF InMsg
<1> HIDE DEF r
<1>3. TableInv /\ inbox' \in [Classes -> Seq(InMsg)] /\ inbox'[c] = Tail(inbox[c])
  BY <1>1, ClassReceiveLemma DEF IInv, TableInv
<1>4. TableInv'
  <2>1. CASE HandleMessage(c, class[c], r)
    <3>1. GoodClass(c, class[c]) /\ (class[c].nodes # << >> <=> Registered(c))
      BY <1>3 DEF TableInv
    <3> QED
      BY <2>1, <3>1, <1>1, <1>2, <1>3, HandleMessageInv
  <2>2. CASE UNCHANGED <<class, wire>>
    BY <2>2, <1>1, <1>3, SameTableInv DEF TableInv
  <2> QED
    BY <2>1, <2>2, <1>1
<1>5. WorldInv'
  BY <1>1 DEF IInv, WorldInv
<1> QED
  BY <1>1, <1>3, <1>4, <1>5, ClassPhaseInv

LEMMA RouteBounceInv ==
    ASSUME IInv, NEW c \in Classes, RouteBounce(c)
    PROVE  IInv'
<1> DEFINE n   == Head(inbox[c]).from
           box == [inbox EXCEPT ![c] = Tail(@)]
<1>1. /\ ClassReceive(c)
      /\ \/ HandleBounce(c, n, box)
         \/ inbox' = box /\ UNCHANGED <<classes, class, conn, wire, cancelled>>
      /\ UNCHANGED <<pc, stop, ready, todo, topbox, node, sent, delivered,
                     toggles, queries, losses>>
  BY DEF RouteBounce, bounds, table
<1>2. TableInv /\ box \in [Classes -> Seq(InMsg)] /\ box[c] = Tail(inbox[c]) /\ Registered(c)
  BY <1>1, ClassReceiveLemma DEF IInv, TableInv
<1>3. cancelled \subseteq Requests
  BY DEF IInv, WorldInv
<1> HIDE DEF n, box
<1>4. TableInv' /\ cancelled' \subseteq Requests /\ (Registered(c)' => inbox' = box)
  <2>1. CASE HandleBounce(c, n, box)
    BY <2>1, <1>2, <1>3, HandleBounceInv
  <2>2. CASE inbox' = box /\ UNCHANGED <<classes, class, conn, wire, cancelled>>
    <3>1. TableInv'
      BY <2>2, <1>2, SameTableInv DEF TableInv
    <3> QED
      BY <3>1, <2>2, <1>3
  <2> QED
    BY <2>1, <2>2, <1>1
<1>5. WorldInv'
  BY <1>1, <1>4 DEF IInv, WorldInv
<1> QED
  BY <1>1, <1>2, <1>4, <1>5, ClassPhaseInv

\* A step outside the router: boxes may grow, connections may be lost.
LEMMA EnvironmentInv ==
    ASSUME IInv, UNCHANGED <<pc, stop, ready, todo, got, classes, class>>,
           conn' \in [Classes \cup {Top} -> {"none", "open", "eof", "closed"}],
           \A c \in Classes : conn'[c] = "none" <=> conn[c] = "none",
           inbox' \in [Classes -> Seq(InMsg)], wire' \in [Nodes -> Seq(Requests)],
           \A c \in Classes : Len(inbox'[c]) >= Len(inbox[c]),
           topbox' \in Seq(TopMsg), Len(topbox') >= Len(topbox), WorldInv'
    PROVE  IInv'
<1>1. TableInv' /\ \A c : Registered(c)' <=> Registered(c)
  BY SameTableInv DEF IInv
<1>2. todo # << >> => Head(todo) \in Classes
  BY DEF IInv, LoopInv
<1>3. /\ got \in Nat /\ Len(topbox) \in Nat /\ Len(topbox') \in Nat
      /\ \A c \in Classes : Len(inbox[c]) \in Nat /\ Len(inbox'[c]) \in Nat
  BY DEF IInv, LoopInv, TableInv
<1>4. GotOK'
  BY <1>1, <1>2, <1>3 DEF IInv, LoopInv, GotOK
<1> QED
  BY <1>1, <1>4 DEF IInv, LoopInv

LEMMA ToTopLemma ==
    ASSUME IInv, NEW m \in TopMsg, ToTop(m)
    PROVE  topbox' \in Seq(TopMsg) /\ Len(topbox') >= Len(topbox)
<1>1. topbox \in Seq(TopMsg) /\ Len(topbox) \in Nat
  BY DEF IInv, LoopInv
<1>2. topbox' = topbox \/ topbox' = Append(topbox, m)
  BY DEF ToTop
<1> QED
  BY <1>1, <1>2, AppendLemma

\* The listeners and those who ask send to the router's own connection.
LEMMA SendersInv ==
    ASSUME IInv, \/ Query
                 \/ \E n \in Nodes : NodeStart(n) \/ NodeLeave(n) \/ NodeReturn(n) \/ NodeDown(n)
    PROVE  IInv'
<1>1. /\ UNCHANGED <<pc, stop, ready, todo, got, classes, class, conn, inbox, wire, sent,
                     delivered, cancelled, losses>>
  BY DEF Query, NodeStart, NodeLeave, NodeReturn, NodeDown, loop, table, network, world, bounds
<1>2. (UNCHANGED topbox) \/ (\E m \in TopMsg : ToTop(m))
  <2>1. CASE Query
    BY <2>1 DEF Query, TopMsg
  <2>2. ASSUME NEW n \in Nodes, NodeStart(n) \/ NodeLeave(n) \/ NodeReturn(n)
        PROVE  \E m \in TopMsg : ToTop(m)
    <3>1. /\ [cmd |-> "register", from |-> n] \in TopMsg
          /\ [cmd |-> "unregister", from |-> n] \in TopMsg
      BY DEF TopMsg
    <3> QED
      BY <3>1, <2>2 DEF NodeStart, NodeLeave, NodeReturn
  <2>3. ASSUME NEW n \in Nodes, NodeDown(n)
        PROVE  UNCHANGED topbox
    BY <2>3 DEF NodeDown, network
  <2> QED
    BY <2>1, <2>2, <2>3
<1>3. topbox' \in Seq(TopMsg) /\ Len(topbox') >= Len(topbox)
  BY <1>2, ToTopLemma DEF IInv, LoopInv
<1>4. /\ node' \in [Nodes -> {"off", "up", "leaving", "down"}]
      /\ toggles' \in Nat /\ queries' \in Nat
  <2>1. CASE Query
    BY <2>1 DEF Query, IInv, WorldInv, world
  <2>2. ASSUME NEW n \in Nodes, NodeReturn(n)
        PROVE  /\ node' \in [Nodes -> {"off", "up", "leaving", "down"}]
               /\ toggles' \in Nat /\ queries' \in Nat
    BY <2>2 DEF NodeReturn, IInv, WorldInv
  <2>3. ASSUME NEW n \in Nodes, NodeStart(n) \/ NodeLeave(n) \/ NodeDown(n)
        PROVE  /\ node' \in [Nodes -> {"off", "up", "leaving", "down"}]
               /\ toggles' \in Nat /\ queries' \in Nat
    BY <2>3 DEF NodeStart, NodeLeave, NodeDown, IInv, WorldInv, bounds
  <2> QED
    BY <2>1, <2>2, <2>3
<1>5. WorldInv'
  BY <1>1, <1>4 DEF IInv, WorldInv
<1>6. \A c \in Classes : Len(inbox[c]) >= Len(inbox[c])
  BY DEF IInv, TableInv
<1> QED
  BY <1>1, <1>3, <1>5, <1>6, EnvironmentInv DEF IInv, TableInv

\* A message more in one box.
LEMMA BoxGrowsLemma ==
    ASSUME IInv, NEW c \in Classes, NEW m \in InMsg,
           inbox' = [inbox EXCEPT ![c] = Append(@, m)] \/ UNCHANGED inbox
    PROVE  /\ inbox' \in [Classes -> Seq(InMsg)]
           /\ \A d \in Classes : Len(inbox'[d]) >= Len(inbox[d])
<1>1. inbox \in [Classes -> Seq(InMsg)] /\ \A d \in Classes : Len(inbox[d]) \in Nat
  BY DEF IInv, TableInv
<1>2. CASE UNCHANGED inbox
  BY <1>1, <1>2
<1>3. CASE inbox' = [inbox EXCEPT ![c] = Append(@, m)]
  <2> DEFINE s == Append(inbox[c], m)
  <2>1. s \in Seq(InMsg) /\ Len(s) = Len(inbox[c]) + 1
    BY <1>1, AppendLemma
  <2>2. inbox' = [inbox EXCEPT ![c] = s]
    BY <1>3
  <2> HIDE DEF s
  <2>3. inbox' \in [Classes -> Seq(InMsg)]
    BY <2>1, <2>2, <1>1
  <2>4. \A d \in Classes : inbox'[d] = IF d = c THEN s ELSE inbox[d]
    BY <2>2, <1>1
  <2>5. ASSUME NEW d \in Classes PROVE Len(inbox'[d]) >= Len(inbox[d])
    <3>1. CASE d = c
      <4>1. inbox'[d] = s /\ Len(inbox[d]) \in Nat
        BY <3>1, <2>4, <1>1
      <4> QED
        BY <4>1, <3>1, <2>1
    <3>2. CASE d # c
      <4>1. inbox'[d] = inbox[d] /\ Len(inbox[d]) \in Nat
        BY <3>2, <2>4, <1>1
      <4> QED
        BY <4>1
    <3> QED
      BY <3>1, <3>2
  <2> QED
    BY <2>3, <2>5
<1> QED
  BY <1>2, <1>3

LEMMA JabberDeliverInv ==
    ASSUME IInv, NEW n \in Nodes, JabberDeliver(n)
    PROVE  IInv'
<1> DEFINE r == Head(wire[n])
           m == [kind |-> "error", from |-> n, req |-> r]
<1>1. /\ wire[n] # << >> /\ wire' = [wire EXCEPT ![n] = Tail(@)]
      /\ \/ delivered' = [delivered EXCEPT ![r] = @ + 1] /\ UNCHANGED inbox
         \/ inbox' = [inbox EXCEPT ![ServiceOf[n]] = Append(@, m)] /\ UNCHANGED delivered
         \/ UNCHANGED <<inbox, delivered>>
      /\ UNCHANGED <<pc, stop, ready, todo, got, classes, class, conn, topbox, node, sent,
                     cancelled, toggles, queries, losses>>
  BY DEF JabberDeliver, loop, table, bounds
<1>2. wire[n] \in Seq(Requests) /\ wire \in [Nodes -> Seq(Requests)]
  BY DEF IInv, TableInv
<1>3. r \in Requests /\ Tail(wire[n]) \in Seq(Requests)
  BY <1>1, <1>2
<1>4. m \in InMsg /\ ServiceOf[n] \in Classes
  BY <1>3, RouterAssumption DEF InMsg
<1> HIDE DEF r, m
<1>5. wire' \in [Nodes -> Seq(Requests)]
  BY <1>1, <1>2, <1>3
<1>6. inbox \in [Classes -> Seq(InMsg)] /\ \A c \in Classes : Len(inbox[c]) \in Nat
  BY DEF IInv, TableInv
<1>7. inbox' \in [Classes -> Seq(InMsg)] /\ \A c \in Classes : Len(inbox'[c]) >= Len(inbox[c])
  BY <1>1, <1>4, <1>6, BoxGrowsLemma
<1>8. delivered' \in [Requests -> Nat]
  BY <1>1, <1>3 DEF IInv, WorldInv
<1>9. WorldInv'
  BY <1>1, <1>8 DEF IInv, WorldInv
<1> QED
  BY <1>1, <1>5, <1>7, <1>9, EnvironmentInv DEF IInv, TableInv, LoopInv

LEMMA ClientSendInv ==
    ASSUME IInv, NEW r \in Requests, NEW c \in Classes, ClientSend(r, c)
    PROVE  IInv'
<1> DEFINE m == [kind |-> "request", req |-> r]
<1>1. /\ sent' = sent \cup {r} /\ (cancelled' = cancelled \cup {r} \/ UNCHANGED cancelled)
      /\ inbox' = [inbox EXCEPT ![c] = Append(@, m)] \/ UNCHANGED inbox
      /\ UNCHANGED <<pc, stop, ready, todo, got, classes, class, conn, topbox, wire, node,
                     delivered, toggles, queries, losses>>
  BY DEF ClientSend, loop, table, bounds
<1>2. m \in InMsg
  BY DEF InMsg
<1> HIDE DEF m
<1>3. inbox \in [Classes -> Seq(InMsg)] /\ \A d \in Classes : Len(inbox[d]) \in Nat
  BY DEF IInv, TableInv
<1>4. inbox' \in [Classes -> Seq(InMsg)] /\ \A d \in Classes : Len(inbox'[d]) >= Len(inbox[d])
  BY <1>1, <1>2, <1>3, BoxGrowsLemma
<1>5. WorldInv'
  BY <1>1 DEF IInv, WorldInv
<1> QED
  BY <1>1, <1>4, <1>5, EnvironmentInv DEF IInv, TableInv, LoopInv

LEMMA ConnectionLostInv ==
    ASSUME IInv, NEW c \in Classes \cup {Top}, ConnectionLost(c)
    PROVE  IInv'
<1>1. /\ conn[c] = "open" /\ conn' = [conn EXCEPT ![c] = "eof"] /\ losses' = losses + 1
      /\ UNCHANGED <<pc, stop, ready, todo, got, classes, class, inbox, topbox, wire, node,
                     sent, delivered, cancelled, toggles, queries>>
  BY DEF ConnectionLost, loop, table, world
<1>2. /\ conn' \in [Classes \cup {Top} -> {"none", "open", "eof", "closed"}]
      /\ \A d \in Classes : conn'[d] = "none" <=> conn[d] = "none"
  BY <1>1 DEF IInv, TableInv
<1>3. (\A d \in Classes : Len(inbox[d]) \in Nat) /\ Len(topbox) \in Nat
  BY DEF IInv, TableInv, LoopInv
<1>4. WorldInv'
  BY <1>1 DEF IInv, WorldInv
<1> QED
  BY <1>1, <1>2, <1>3, <1>4, EnvironmentInv DEF IInv, TableInv, LoopInv

LEMMA StutterInv ==
    ASSUME IInv, UNCHANGED vars
    PROVE  IInv'
<1>1. UNCHANGED <<pc, stop, ready, todo, got, classes, class, conn, inbox, topbox, wire, node,
                  sent, delivered, cancelled, toggles, queries, losses>>
  BY DEF vars, loop, table, network, world, bounds
<1>2. TableInv'
  BY <1>1, SameTableInv DEF IInv, TableInv
<1>3. (LoopInv /\ WorldInv)'
  BY <1>1 DEF IInv, LoopInv, WorldInv, GotOK, Registered
<1> QED
  BY <1>2, <1>3 DEF IInv

\* The invariant is inductive: one step per action of Next.
LEMMA NextIInv ==
    ASSUME IInv, [Next]_vars
    PROVE  IInv'
<1>1. CASE CheckStop \/ FillFDSet \/ Select \/ SelectInterrupted \/ LoopEnd \/ Signal
  BY <1>1, LoopStepsInv
<1>2. CASE TopDrained
  BY <1>2, TopDrainedInv
<1>3. CASE Register
  BY <1>3, RegisterInv
<1>4. CASE Unregister
  BY <1>4, UnregisterInv
<1>5. CASE AppRequest
  BY <1>5, AppRequestInv
<1>6. CASE NextClass
  BY <1>6, NextClassInv
<1>7. CASE \E c \in Classes : RemoveBrokenClass(c)
  BY <1>7, RemoveBrokenClassInv
<1>8. CASE \E c \in Classes : RouteRequest(c)
  BY <1>8, RouteRequestInv
<1>9. CASE \E c \in Classes : RouteBounce(c)
  BY <1>9, RouteBounceInv
<1>10. CASE \/ Query
            \/ \E n \in Nodes : NodeStart(n) \/ NodeLeave(n) \/ NodeReturn(n) \/ NodeDown(n)
  BY <1>10, SendersInv
<1>11. CASE \E n \in Nodes : JabberDeliver(n)
  BY <1>11, JabberDeliverInv
<1>12. CASE \E r \in Requests, c \in Classes : ClientSend(r, c)
  BY <1>12, ClientSendInv
<1>13. CASE \E c \in Classes \cup {Top} : ConnectionLost(c)
  BY <1>13, ConnectionLostInv
<1>14. CASE UNCHANGED vars
  BY <1>14, StutterInv
<1> QED
  BY <1>1, <1>2, <1>3, <1>4, <1>5, <1>6, <1>7, <1>8, <1>9, <1>10, <1>11, <1>12, <1>13, <1>14
     DEF Next, RouterStep, Environment

\* The inductive invariant holds in every state the router reaches.
THEOREM Invariance == Spec => []IInv
<1>1. Init => IInv
  BY InitIInv
<1>2. IInv /\ [Next]_vars => IInv'
  BY NextIInv
<1> QED
  BY <1>1, <1>2, PTL DEF Spec

\* Every variable of the router (osrfRouterRun and the structures it keeps)
\* has its type, whatever the number of classes, listeners and requests.
THEOREM TypeCorrect == Spec => []TypeOK
  BY Invariance, IInvImplies, PTL

\* The registry that osrfRouterHandleCommand and the class handlers maintain
\* lists nothing twice, lists listeners under the class they serve, and never
\* leaves the iterator of osrfRouterClassHandleMessage on a freed node.
THEOREM RegistryCorrect == Spec => []RegistryConsistent
  BY Invariance, IInvImplies, PTL

\* osrfRouterClassHandleMessage may presume that a class has a node: a class is
\* registered, and connected, exactly while it has one.
THEOREM EveryClassHasANode == Spec => []NoClassWithoutNode
  BY Invariance, IInvImplies, PTL

-----------------------------------------------------------------------------
(* The round robin.                                                        *)

\* The position that the iterator comes to next.
NextIndex(k) ==
    LET i == CASE k.pos = "at"     -> IndexOf(k, k.at) + 1
               [] k.pos = "before" -> IndexOf(k, k.at)
               [] OTHER            -> 1
    IN  IF i > Len(k.nodes) THEN 1 ELSE i

\* Counting from position x on, and from the last one to the first, i is not after j.
Sooner(x, i, j) == \/ x <= i /\ i <= j
                   \/ i <= j /\ j < x
                   \/ j < x /\ x <= i

\* The sooner the turn of a node comes, the fewer turns it had, by one at most.
Fair(k) ==
    \A i, j \in DOMAIN k.nodes :
        Sooner(NextIndex(k), i, j) => /\ k.turns[k.nodes[i]] <= k.turns[k.nodes[j]]
                                      /\ k.turns[k.nodes[j]] <= k.turns[k.nodes[i]] + 1

TurnsInv == \A c \in Classes : Fair(class[c])

\* The node that is picked is the one at that position.
LEMMA NextIndexLemma ==
    ASSUME NEW c \in Classes, NEW k, GoodClass(c, k), k.nodes # << >>
    PROVE  NextIndex(k) \in 1 .. Len(k.nodes) /\ Pick(k) = k.nodes[NextIndex(k)]
<1> DEFINE i == CASE k.pos = "at"     -> IndexOf(k, k.at) + 1
                  [] k.pos = "before" -> IndexOf(k, k.at)
                  [] OTHER            -> 1
<1>1. /\ k.nodes \in Seq(Nodes) /\ k.pos \in {"start", "at", "before", "end"}
      /\ DOMAIN k.nodes = 1 .. Len(k.nodes) /\ Len(k.nodes) \in Nat /\ Len(k.nodes) # 0
  BY DEF GoodClass, ClassRec
<1>2. k.pos \in {"at", "before"} => IndexOf(k, k.at) \in 1 .. Len(k.nodes)
  BY <1>1, IndexLemma DEF GoodClass
<1>3. i \in Nat /\ i >= 1
  <2>1. CASE k.pos = "at"
    BY <2>1, <1>2
  <2>2. CASE k.pos = "before"
    BY <2>2, <1>2
  <2>3. CASE k.pos \notin {"at", "before"}
    BY <2>3
  <2> QED
    BY <2>1, <2>2, <2>3
<1>4. /\ Pick(k) = k.nodes[IF i > Len(k.nodes) THEN 1 ELSE i]
      /\ NextIndex(k) = IF i > Len(k.nodes) THEN 1 ELSE i
  BY DEF Pick, NextIndex
<1> HIDE DEF i
<1> QED
  BY <1>1, <1>3, <1>4

\* When nobody had a turn, the next one may be anyone's.
LEMMA NewRoundFair ==
    ASSUME NEW k, \A n \in Nodes : k.turns[n] = 0, k.nodes \in Seq(Nodes)
    PROVE  Fair(k)
<1>1. \A i \in DOMAIN k.nodes : k.turns[k.nodes[i]] = 0
  OBVIOUS
<1> QED
  BY <1>1 DEF Fair

LEMMA RoutedFair ==
    ASSUME NEW c \in Classes, NEW k, GoodClass(c, k), k.nodes # << >>, Fair(k), NEW r \in Requests
    PROVE  Fair(Routed(k, r))
<1> DEFINE new == Routed(k, r)
           x == NextIndex(k)
           y == NextIndex(new)
           L == Len(k.nodes)
<1>1. /\ k \in ClassRec /\ NoDup(k.nodes) /\ k.nodes \in Seq(Nodes) /\ k.turns \in [Nodes -> Nat]
      /\ DOMAIN k.nodes = 1 .. L /\ L \in Nat
      /\ \A i \in 1 .. L : k.nodes[i] \in Nodes /\ k.turns[k.nodes[i]] \in Nat
  BY DEF GoodClass, ClassRec
<1>2. x \in 1 .. L /\ Pick(k) = k.nodes[x]
  BY NextIndexLemma
<1>3. /\ new.nodes = k.nodes /\ new.pos = "at" /\ new.at = k.nodes[x]
      /\ new.turns = [k.turns EXCEPT ![k.nodes[x]] = @ + 1]
  BY <1>1, <1>2 DEF Routed, ClassRec
<1> HIDE DEF new, x
<1>4. IndexOf(new, new.at) = x
  BY <1>1, <1>2, <1>3 DEF IndexOf, NoDup
<1>5. y = IF x = L THEN 1 ELSE x + 1
  BY <1>1, <1>2, <1>3, <1>4 DEF NextIndex
<1> HIDE DEF y
<1>6. \A i \in 1 .. L : new.turns[k.nodes[i]] = IF i = x THEN k.turns[k.nodes[x]] + 1
                                                 ELSE k.turns[k.nodes[i]]
  BY <1>1, <1>2, <1>3 DEF NoDup
<1>7. \A i, j \in 1 .. L : Sooner(x, i, j) => /\ k.turns[k.nodes[i]] <= k.turns[k.nodes[j]]
                                              /\ k.turns[k.nodes[j]] <= k.turns[k.nodes[i]] + 1
  BY <1>1 DEF Fair, x
<1>8. ASSUME NEW i \in 1 .. L, NEW j \in 1 .. L, Sooner(y, i, j)
      PROVE  /\ new.turns[k.nodes[i]] <= new.turns[k.nodes[j]]
             /\ new.turns[k.nodes[j]] <= new.turns[k.nodes[i]] + 1
  <2>1. CASE i = j
    BY <2>1, <1>1, <1>6
  <2>2. CASE i # j /\ j = x
    <3>1. Sooner(x, x, i)
      BY <2>2, <1>1, <1>2 DEF Sooner
    <3> QED
      BY <3>1, <2>2, <1>1, <1>2, <1>6, <1>7
  <2>3. CASE i # j /\ i # x /\ j # x
    <3>1. Sooner(x, i, j)
      BY <2>3, <1>8, <1>1, <1>2, <1>5 DEF Sooner
    <3> QED
      BY <3>1, <2>3, <1>6, <1>7
  <2>4. ~(i # j /\ i = x)
    BY <1>8, <1>1, <1>2, <1>5 DEF Sooner
  <2> QED
    BY <2>1, <2>2, <2>3, <2>4
<1> QED
  BY <1>1, <1>3, <1>8 DEF Fair, new, y

\* What a step does to the data of a class.
Changed(k, new) ==
    \/ new = k \/ new = EmptyClass
    \/ \E n \in Nodes : new = AddNode(k, n)
    \/ \E n \in Members(k) :
         \/ new = DropNode(k, n)
         \/ \E r \in Requests : DropNode(k, n).nodes # << >> /\ new = Routed(DropNode(k, n), r)
    \/ \E r \in Requests : k.nodes # << >> /\ new = Routed(k, r)

LEMMA ChangedFair ==
    ASSUME NEW c \in Classes, NEW k, GoodClass(c, k), Fair(k), NEW new, Changed(k, new)
    PROVE  Fair(new)
<1>1. k.nodes \in Seq(Nodes) /\ k \in ClassRec
  BY DEF GoodClass, ClassRec
<1>2. CASE new = k
  BY <1>2
<1>3. CASE new = EmptyClass
  BY <1>3 DEF Fair, EmptyClass
<1>4. ASSUME NEW n \in Nodes, new = AddNode(k, n)
      PROVE  Fair(new)
  <2>1. new.turns = [m \in Nodes |-> 0] /\ new.nodes = Append(k.nodes, n)
    BY <1>1, <1>4 DEF AddNode, ClassRec
  <2>2. Append(k.nodes, n) \in Seq(Nodes)
    BY <1>1
  <2>3. \A m \in Nodes : new.turns[m] = 0
    BY <2>1
  <2> QED
    BY <2>1, <2>2, <2>3, NewRoundFair
<1>5. ASSUME NEW n \in Members(k)
      PROVE  /\ \A m \in Nodes : DropNode(k, n).turns[m] = 0
             /\ GoodClass(c, DropNode(k, n)) /\ DropNode(k, n).nodes \in Seq(Nodes)
  <2>1. GoodClass(c, DropNode(k, n))
    BY DropNodeGood
  <2>2. DropNode(k, n).turns = [m \in Nodes |-> 0]
    BY DEF DropNode
  <2> QED
    BY <2>1, <2>2 DEF GoodClass, ClassRec
<1>6. ASSUME NEW n \in Members(k), new = DropNode(k, n)
      PROVE  Fair(new)
  BY <1>5, <1>6, NewRoundFair
<1>7. ASSUME NEW n \in Members(k), NEW r \in Requests, DropNode(k, n).nodes # << >>,
             new = Routed(DropNode(k, n), r)
      PROVE  Fair(new)
  <2>1. Fair(DropNode(k, n))
    BY <1>5, NewRoundFair
  <2> QED
    BY <2>1, <1>5, <1>7, RoutedFair
<1>8. ASSUME NEW r \in Requests, k.nodes # << >>, new = Routed(k, r)
      PROVE  Fair(new)
  BY <1>8, RoutedFair
<1> QED
  BY <1>2, <1>3, <1>4, <1>6, <1>7, <1>8 DEF Changed

\* A node that goes, alone or with its class.
LEMMA RemoveNodeChanges ==
    ASSUME TableInv, NEW c \in Classes, NEW n, NEW box, RemoveNode(c, n, box), NEW d \in Classes
    PROVE  Changed(class[d], class'[d])
<1>1. \/ class' = class \/ class' = [class EXCEPT ![c] = EmptyClass]
      \/ n \in Members(class[c]) /\ class' = [class EXCEPT ![c] = DropNode(class[c], n)]
  BY DEF RemoveNode, RemoveClass, TableInv, table
<1> QED
  BY <1>1 DEF Changed, TableInv

LEMMA ClassChanges ==
    ASSUME IInv, [Next]_vars, NEW d \in Classes
    PROVE  Changed(class[d], class'[d])
<1>1. TableInv
  BY DEF IInv
<1>2. CASE UNCHANGED class
  BY <1>2 DEF Changed
<1>3. CASE Register
  <2>1. UNCHANGED class \/ class' = [class EXCEPT ![ServiceOf[Head(topbox).from]] =
                                               AddNode(@, Head(topbox).from)]
    BY <1>3 DEF Register, table
  <2>2. Head(topbox).from \in Nodes
    BY <1>3, TopReceiveLemma DEF Register, TopMsg
  <2> QED
    BY <2>1, <2>2, <1>1 DEF Changed, TableInv
<1>4. CASE Unregister
  <2>1. Head(topbox).from \in Nodes
    BY <1>4, TopReceiveLemma DEF Unregister, TopMsg
  <2>2. UNCHANGED class \/ RemoveNode(ServiceOf[Head(topbox).from], Head(topbox).from, inbox)
    BY <1>4 DEF Unregister, table
  <2> QED
    BY <2>1, <2>2, <1>1, <1>2, RemoveNodeChanges, RouterAssumption
<1>5. ASSUME NEW c \in Classes, RemoveBrokenClass(c)
      PROVE  Changed(class[d], class'[d])
  BY <1>5, <1>1 DEF RemoveBrokenClass, RemoveClass, Changed, TableInv
<1>6. ASSUME NEW c \in Classes, RouteRequest(c)
      PROVE  Changed(class[d], class'[d])
  <2> DEFINE r == Head(inbox[c]).req
  <2>1. Head(inbox[c]).kind = "request" /\ ClassReceive(c) /\ (HandleMessage(c, class[c], r) \/ UNCHANGED class)
    BY <1>6 DEF RouteRequest
  <2>2. r \in Requests
    BY <2>1, ClassReceiveLemma DEF InMsg
  <2> HIDE DEF r
  <2>3. CASE HandleMessage(c, class[c], r)
    BY <2>2, <2>3, <1>1 DEF HandleMessage, Changed, TableInv
  <2> QED
    BY <2>1, <2>3, <1>2
<1>7. ASSUME NEW c \in Classes, RouteBounce(c)
      PROVE  Changed(class[d], class'[d])
  <2> DEFINE n == Head(inbox[c]).from
             k == class[c]
  <2>1. PICK box : HandleBounce(c, n, box) \/ UNCHANGED class
    BY <1>7 DEF RouteBounce, table
  <2> HIDE DEF n
  <2>2. CASE \E b : RemoveNode(c, n, b)
    BY <2>2, <1>1, RemoveNodeChanges
  <2>3. CASE n \in Members(k) /\ k.last[n] # NoMsg /\ HandleMessage(c, DropNode(k, n), k.last[n])
    <3>1. n \in Nodes /\ k.last[n] \in Requests
      BY <2>3, <1>1 DEF TableInv, ClassRec, Members, Elems
    <3>2. class' = [class EXCEPT ![c] = IF DropNode(k, n).nodes = << >> THEN DropNode(k, n)
                                         ELSE Routed(DropNode(k, n), k.last[n])]
      BY <2>3 DEF HandleMessage
    <3> HIDE DEF k
    <3>3. class'[d] = IF d = c THEN IF DropNode(k, n).nodes = << >> THEN DropNode(k, n)
                                    ELSE Routed(DropNode(k, n), k.last[n])
                      ELSE class[d]
      BY <3>2, <1>1 DEF TableInv
    <3> QED
      BY <3>1, <3>3, <2>3 DEF Changed, k
  <2>4. \/ UNCHANGED class \/ \E b : RemoveNode(c, n, b)
        \/ n \in Members(k) /\ k.last[n] # NoMsg /\ HandleMessage(c, DropNode(k, n), k.last[n])
    BY <2>1 DEF HandleBounce, table
  <2> QED
    BY <2>2, <2>3, <2>4, <1>2
<1>8. \/ UNCHANGED class \/ Register \/ Unregister
      \/ \E c \in Classes : RemoveBrokenClass(c) \/ RouteRequest(c) \/ RouteBounce(c)
  BY DEF Next, RouterStep, Environment, CheckStop, FillFDSet, Select, SelectInterrupted, LoopEnd,
         Signal, TopDrained, AppRequest, NextClass, Query, NodeStart, NodeLeave, NodeReturn, NodeDown,
         JabberDeliver, ClientSend, ConnectionLost, vars, table
<1> QED
  BY <1>2, <1>3, <1>4, <1>5, <1>6, <1>7, <1>8

\* Between two changes to the nodes of a class, no node is chosen two times more often than
\* another (the iterator of osrfRouterClassHandleMessage), however many there are.
THEOREM RoundRobinFair == Spec => []RoundRobin
<1>1. Init => TurnsInv
  BY RouterAssumption DEF Init, TurnsInv, EmptyClass, Fair
<1>2. IInv /\ TurnsInv /\ [Next]_vars => TurnsInv'
  <2> SUFFICES ASSUME IInv, TurnsInv, [Next]_vars, NEW c \in Classes
               PROVE  Fair(class'[c])
    BY DEF TurnsInv, Fair, NextIndex, IndexOf
  <2>1. GoodClass(c, class[c]) /\ Fair(class[c])
    BY DEF IInv, TableInv, TurnsInv
  <2> QED
    BY <2>1, ClassChanges, ChangedFair
<1>3. IInv /\ TurnsInv => RoundRobin
  <2> SUFFICES ASSUME IInv, TurnsInv, NEW c \in Classes,
                      NEW i \in DOMAIN class[c].nodes, NEW j \in DOMAIN class[c].nodes
               PROVE  class[c].turns[class[c].nodes[i]] <= class[c].turns[class[c].nodes[j]] + 1
    BY DEF RoundRobin, Members, Elems
  <2> DEFINE k == class[c]
             x == NextIndex(k)
  <2>1. /\ GoodClass(c, k) /\ Fair(k) /\ k.nodes \in Seq(Nodes) /\ k.turns \in [Nodes -> Nat]
        /\ DOMAIN k.nodes = 1 .. Len(k.nodes) /\ k.nodes # << >>
    BY DEF IInv, TableInv, TurnsInv, GoodClass, ClassRec
  <2>2. x \in 1 .. Len(k.nodes) /\ i \in Nat /\ j \in Nat /\ Len(k.nodes) \in Nat
    BY <2>1, NextIndexLemma
  <2>3. k.turns[k.nodes[i]] \in Nat /\ k.turns[k.nodes[j]] \in Nat
    BY <2>1
  <2>4. i \in DOMAIN k.nodes /\ j \in DOMAIN k.nodes
    OBVIOUS
  <2>5. \/ k.turns[k.nodes[i]] <= k.turns[k.nodes[j]]
        \/ k.turns[k.nodes[i]] <= k.turns[k.nodes[j]] + 1
    <3> HIDE DEF k
    <3>1. Sooner(x, i, j) \/ Sooner(x, j, i)
      <4> HIDE DEF x
      <4> QED
        BY <2>2 DEF Sooner
    <3> QED
      BY <2>1, <2>4, <3>1 DEF Fair
  <2> HIDE DEF k
  <2>6. k.turns[k.nodes[i]] <= k.turns[k.nodes[j]] + 1
    BY <2>3, <2>5
  <2> QED
    BY <2>6 DEF k
<1> QED
  BY <1>1, <1>2, <1>3, Invariance, PTL DEF Spec

-----------------------------------------------------------------------------
(* The listeners.                                                          *)

IsCommand(m, n) == m.cmd \in {"register", "unregister"} /\ m.from = n

\* No command of n waits in the box; or the last one asks to be registered.
Silent(box, n) == \A i \in DOMAIN box : ~IsCommand(box[i], n)
Asked(box, n) ==
    \E i \in DOMAIN box : /\ box[i] = [cmd |-> "register", from |-> n]
                          /\ \A j \in DOMAIN box : j > i => ~IsCommand(box[j], n)

Listed(n) == n \in Members(class[ServiceOf[n]])

ConnectionsKept == losses = 0 => /\ conn[Top] = "open"
                                 /\ \A c \in Classes : conn[c] \in {"none", "open"}

CommandsKept ==
    \A n \in TrustedServers :
        losses = 0 /\ node[n] = "up" => Asked(topbox, n) \/ (Silent(topbox, n) /\ Listed(n))

OffUnknown == \A n \in Nodes : node[n] = "off" => /\ Silent(topbox, n) /\ ~Listed(n)
                                                  /\ wire[n] = << >>

ErrorsFromDead ==
    \A c \in Classes : \A i \in DOMAIN inbox[c] :
        inbox[c][i].kind = "error" => node[inbox[c][i].from] = "down"

ListenersInv == ConnectionsKept /\ CommandsKept /\ OffUnknown /\ ErrorsFromDead

\* What a message more, or the first one less, makes of the box.
LEMMA BoxAppend ==
    ASSUME NEW box \in Seq(TopMsg), NEW m \in TopMsg, NEW n
    PROVE  /\ ~IsCommand(m, n) /\ Silent(box, n) => Silent(Append(box, m), n)
           /\ ~IsCommand(m, n) /\ Asked(box, n) => Asked(Append(box, m), n)
           /\ m = [cmd |-> "register", from |-> n] => Asked(Append(box, m), n)
<1> DEFINE new == Append(box, m)
<1>1. /\ DOMAIN new = 1 .. Len(box) + 1 /\ DOMAIN box = 1 .. Len(box) /\ Len(box) \in Nat
      /\ new[Len(box) + 1] = m /\ \A i \in 1 .. Len(box) : new[i] = box[i]
  OBVIOUS
<1> HIDE DEF new
<1>2. ASSUME ~IsCommand(m, n), Silent(box, n)
      PROVE  Silent(new, n)
  BY <1>1, <1>2 DEF Silent
<1>3. ASSUME ~IsCommand(m, n), Asked(box, n)
      PROVE  Asked(new, n)
  <2>1. PICK i \in 1 .. Len(box) : /\ box[i] = [cmd |-> "register", from |-> n]
                                   /\ \A j \in 1 .. Len(box) : j > i => ~IsCommand(box[j], n)
    BY <1>1, <1>3 DEF Asked
  <2>2. i \in DOMAIN new /\ new[i] = [cmd |-> "register", from |-> n]
    BY <2>1, <1>1
  <2>3. ASSUME NEW j \in DOMAIN new, j > i
        PROVE  ~IsCommand(new[j], n)
    <3>1. CASE j = Len(box) + 1
      BY <3>1, <1>1, <1>3
    <3>2. CASE j \in 1 .. Len(box)
      BY <3>2, <2>1, <2>3, <1>1
    <3> QED
      BY <3>1, <3>2, <1>1
  <2> QED
    BY <2>2, <2>3 DEF Asked
<1>4. ASSUME m = [cmd |-> "register", from |-> n]
      PROVE  Asked(new, n)
  <2>1. Len(box) + 1 \in DOMAIN new /\ \A j \in DOMAIN new : ~(j > Len(box) + 1)
    BY <1>1
  <2> QED
    BY <2>1, <1>1, <1>4 DEF Asked
<1> QED
  BY <1>2, <1>3, <1>4 DEF new

LEMMA BoxTail ==
    ASSUME NEW box \in Seq(TopMsg), box # << >>, NEW n
    PROVE  /\ Silent(box, n) => Silent(Tail(box), n) /\ ~IsCommand(Head(box), n)
           /\ Asked(box, n) => \/ Asked(Tail(box), n)
                               \/ /\ Head(box) = [cmd |-> "register", from |-> n]
                                  /\ Silent(Tail(box), n)
<1> DEFINE new == Tail(box)
<1>1. /\ DOMAIN new = 1 .. Len(box) - 1 /\ DOMAIN box = 1 .. Len(box) /\ Len(box) \in Nat
      /\ Len(box) # 0 /\ Head(box) = box[1] /\ \A i \in 1 .. Len(box) - 1 : new[i] = box[i + 1]
  OBVIOUS
<1> HIDE DEF new
<1>2. ASSUME Silent(box, n)
      PROVE  Silent(new, n) /\ ~IsCommand(Head(box), n)
  <2>1. \A i \in 1 .. Len(box) : ~IsCommand(box[i], n)
    BY <1>1, <1>2 DEF Silent
  <2>2. \A i \in 1 .. Len(box) - 1 : i + 1 \in 1 .. Len(box)
    BY <1>1
  <2>3. 1 \in 1 .. Len(box)
    BY <1>1
  <2> QED
    BY <2>1, <2>2, <2>3, <1>1 DEF Silent
<1>3. ASSUME NEW i \in 1 .. Len(box), box[i] = [cmd |-> "register", from |-> n],
             \A j \in 1 .. Len(box) : j > i => ~IsCommand(box[j], n)
      PROVE  \/ Asked(new, n)
             \/ Head(box) = [cmd |-> "register", from |-> n] /\ Silent(new, n)
  <2>1. \A j \in 1 .. Len(box) - 1 : j + 1 \in 1 .. Len(box)
    BY <1>1
  <2>2. ASSUME NEW j \in 1 .. Len(box) - 1, j + 1 > i
        PROVE  ~IsCommand(new[j], n)
    BY <2>1, <2>2, <1>1, <1>3
  <2>3. CASE i = 1
    <3>1. \A j \in 1 .. Len(box) - 1 : j + 1 > i
      BY <2>3, <1>1
    <3> QED
      BY <2>2, <2>3, <3>1, <1>1, <1>3 DEF Silent
  <2>4. CASE i # 1
    <3>1. i - 1 \in 1 .. Len(box) - 1 /\ new[i - 1] = [cmd |-> "register", from |-> n]
      BY <2>4, <1>1, <1>3
    <3>2. \A j \in 1 .. Len(box) - 1 : j > i - 1 => j + 1 > i
      BY <1>1
    <3> QED
      BY <2>2, <3>1, <3>2, <1>1 DEF Asked
  <2> QED
    BY <2>3, <2>4
<1> QED
  BY <1>1, <1>2, <1>3 DEF new, Asked

LEMMA AddNodeMembers ==
    ASSUME NEW k \in ClassRec, NEW n \in Nodes
    PROVE  Members(AddNode(k, n)) = Members(k) \cup {n}
<1>1. AddNode(k, n).nodes = Append(k.nodes, n) /\ k.nodes \in Seq(Nodes)
  BY DEF AddNode, ClassRec
<1>2. Elems(Append(k.nodes, n)) = Elems(k.nodes) \cup {n}
  BY <1>1, AppendLemma
<1> QED
  BY <1>1, <1>2 DEF Members

\* Which nodes a class loses with RemoveNode, and with HandleMessage.
LEMMA RemoveNodeMembers ==
    ASSUME TableInv, NEW c \in Classes, NEW n, NEW box, RemoveNode(c, n, box), NEW d \in Classes
    PROVE  /\ Members(class'[d]) \subseteq Members(class[d])
           /\ \A m \in Members(class[d]) : m \in Members(class'[d]) \/ (d = c /\ m = n)
<1> DEFINE k == class[c]
<1>1. GoodClass(c, k) /\ k.nodes \in Seq(Nodes) /\ class \in [Classes -> ClassRec]
  BY DEF TableInv, GoodClass, ClassRec
<1>2. CASE n \in Members(k) /\ Len(k.nodes) = 1 /\ class' = [class EXCEPT ![c] = EmptyClass]
  <2>1. \A m \in Members(k) : m = n
    BY <1>1, <1>2 DEF Members, Elems
  <2>2. class'[d] = IF d = c THEN EmptyClass ELSE class[d]
    BY <1>1, <1>2
  <2>3. Members(EmptyClass) = {}
    BY DEF Members, Elems, EmptyClass
  <2> QED
    BY <2>1, <2>2, <2>3
<1>3. CASE n \in Members(k) /\ class' = [class EXCEPT ![c] = DropNode(k, n)]
  <2>1. Members(DropNode(k, n)) = Members(k) \ {n}
    BY <1>1, <1>3, DropNodeGood
  <2>2. class'[d] = IF d = c THEN DropNode(k, n) ELSE class[d]
    BY <1>1, <1>3
  <2> QED
    BY <2>1, <2>2
<1>4. CASE UNCHANGED class
  BY <1>4
<1> QED
  BY <1>2, <1>3, <1>4 DEF RemoveNode, RemoveClass, table, TableInv

LEMMA HandleMessageMembers ==
    ASSUME TableInv, NEW c \in Classes, NEW k, GoodClass(c, k), NEW r \in Requests,
           HandleMessage(c, k, r), NEW d \in Classes
    PROVE  Members(class'[d]) = IF d = c THEN Members(k) ELSE Members(class[d])
<1>1. class'[d] = IF d # c THEN class[d] ELSE IF k.nodes = << >> THEN k ELSE Routed(k, r)
  BY DEF HandleMessage, TableInv
<1>2. k.nodes # << >> => Routed(k, r).nodes = k.nodes
  BY RoutedGood
<1> QED
  BY <1>1, <1>2 DEF Members

LEMMA HandleBounceMembers ==
    ASSUME TableInv, NEW c \in Classes, NEW n, NEW box, HandleBounce(c, n, box), NEW d \in Classes
    PROVE  /\ Members(class'[d]) \subseteq Members(class[d])
           /\ \A m \in Members(class[d]) : m \in Members(class'[d]) \/ (d = c /\ m = n)
<1> DEFINE k == class[c]
<1>1. GoodClass(c, k) /\ k.last \in [Nodes -> Requests \cup {NoMsg}] /\ Members(k) \subseteq Nodes
  BY DEF TableInv, GoodClass, ClassRec, Members, Elems
<1>2. CASE RemoveNode(c, n, box)
  BY <1>2, RemoveNodeMembers
<1>3. CASE n \in Members(k) /\ k.last[n] # NoMsg /\ HandleMessage(c, DropNode(k, n), k.last[n])
  <2>1. k.last[n] \in Requests
    BY <1>1, <1>3
  <2>2. GoodClass(c, DropNode(k, n)) /\ Members(DropNode(k, n)) = Members(k) \ {n}
    BY <1>1, <1>3, DropNodeGood
  <2> HIDE DEF k
  <2>3. Members(class'[d]) = IF d = c THEN Members(k) \ {n} ELSE Members(class[d])
    BY <2>1, <2>2, <1>3, HandleMessageMembers
  <2> QED
    BY <2>3 DEF k
<1>4. CASE UNCHANGED class
  BY <1>4
<1> QED
  BY <1>2, <1>3, <1>4 DEF HandleBounce, table

\* A class gains a node with Register only, and loses the one that unregisters, the one that
\* an error is from, or all of them with its connection.
LEMMA MembersChange ==
    ASSUME IInv, [Next]_vars, NEW d \in Classes
    PROVE  /\ \A m \in Members(class'[d]) : m \in Members(class[d]) \/ (Register /\ m = Head(topbox).from)
           /\ \A m \in Members(class[d]) : \/ m \in Members(class'[d])
                                           \/ Unregister /\ m = Head(topbox).from
                                           \/ RemoveBrokenClass(d)
                                           \/ RouteBounce(d) /\ m = Head(inbox[d]).from
<1>1. TableInv /\ class \in [Classes -> ClassRec] /\ GoodClass(d, class[d])
  BY DEF IInv, TableInv
<1>2. CASE UNCHANGED class
  BY <1>2
<1>3. CASE Register
  <2> DEFINE n == Head(topbox).from
             c == ServiceOf[n]
  <2>1. \/ UNCHANGED class
        \/ n \notin Members(class[c]) /\ class' = [class EXCEPT ![c] = AddNode(class[c], n)]
    BY <1>3 DEF Register, table
  <2>2. n \in Nodes /\ c \in Classes
    BY <1>3, TopReceiveLemma, RouterAssumption DEF Register, TopMsg
  <2>4. Members(AddNode(class[c], n)) = Members(class[c]) \cup {n}
    BY <2>2, <1>1, AddNodeMembers
  <2> HIDE DEF n, c
  <2>5. ASSUME class' = [class EXCEPT ![c] = AddNode(class[c], n)]
        PROVE  Members(class'[d]) = IF d = c THEN Members(class[d]) \cup {n} ELSE Members(class[d])
    BY <2>2, <2>4, <2>5, <1>1
  <2> QED
    BY <2>1, <2>5, <1>2, <1>3 DEF n
<1>4. CASE Unregister
  <2> DEFINE n == Head(topbox).from
  <2>1. n \in Nodes /\ ServiceOf[n] \in Classes
    BY <1>4, TopReceiveLemma, RouterAssumption DEF Unregister, TopMsg
  <2>2. UNCHANGED class \/ RemoveNode(ServiceOf[n], n, inbox)
    BY <1>4 DEF Unregister, table
  <2> HIDE DEF n
  <2> QED
    BY <2>1, <2>2, <1>1, <1>2, <1>4, RemoveNodeMembers DEF n
<1>5. ASSUME NEW c \in Classes, RemoveBrokenClass(c)
      PROVE  /\ Members(class'[d]) \subseteq Members(class[d])
             /\ d # c => class'[d] = class[d]
  <2>1. class'[d] = IF d = c THEN EmptyClass ELSE class[d]
    BY <1>1, <1>5 DEF RemoveBrokenClass, RemoveClass
  <2> QED
    BY <2>1 DEF Members, Elems, EmptyClass
<1>6. ASSUME NEW c \in Classes, RouteRequest(c)
      PROVE  Members(class'[d]) = Members(class[d])
  <2> DEFINE r == Head(inbox[c]).req
  <2>1. Head(inbox[c]).kind = "request" /\ ClassReceive(c) /\ (HandleMessage(c, class[c], r) \/ UNCHANGED class)
    BY <1>6 DEF RouteRequest
  <2>2. r \in Requests /\ GoodClass(c, class[c])
    BY <2>1, <1>1, ClassReceiveLemma DEF InMsg, TableInv
  <2> HIDE DEF r
  <2> QED
    BY <2>1, <2>2, <1>1, HandleMessageMembers
<1>7. ASSUME NEW c \in Classes, RouteBounce(c)
      PROVE  /\ Members(class'[d]) \subseteq Members(class[d])
             /\ \A m \in Members(class[d]) : m \in Members(class'[d]) \/ (d = c /\ m = Head(inbox[d]).from)
  <2> DEFINE n == Head(inbox[c]).from
  <2>1. PICK box : HandleBounce(c, n, box) \/ UNCHANGED class
    BY <1>7 DEF RouteBounce, table
  <2> HIDE DEF n
  <2> QED
    BY <2>1, <1>1, HandleBounceMembers DEF n
<1>8. \/ UNCHANGED class \/ Register \/ Unregister
      \/ \E c \in Classes : RemoveBrokenClass(c) \/ RouteRequest(c) \/ RouteBounce(c)
  BY DEF Next, RouterStep, Environment, CheckStop, FillFDSet, Select, SelectInterrupted, LoopEnd,
         Signal, TopDrained, AppRequest, NextClass, Query, NodeStart, NodeLeave, NodeReturn, NodeDown,
         JabberDeliver, ClientSend, ConnectionLost, vars, table
<1> QED
  BY <1>2, <1>3, <1>4, <1>5, <1>6, <1>7, <1>8
LEMMA TopReceiveNonempty ==
    ASSUME IInv, TopReceive
    PROVE  topbox # << >> /\ topbox' = Tail(topbox)
BY DEF TopReceive, HasMessage, IInv, LoopInv, GotOK

LEMMA ClassReceiveNonempty ==
    ASSUME IInv, NEW c \in Classes, ClassReceive(c)
    PROVE  inbox[c] # << >>
<1>1. /\ got > 0 \/ inbox[c] # << >>
      /\ inbox[c] \in Seq(InMsg) /\ got \in Nat /\ got <= Len(inbox[c])
  <2>1. pc = "classes" /\ todo # << >> /\ c = Head(todo) /\ Registered(c) /\ (got > 0 \/ inbox[c] # << >>)
    BY DEF ClassReceive, HasMessage
  <2>2. inbox[c] \in Seq(InMsg) /\ Len(inbox[c]) \in Nat
    BY DEF IInv, TableInv
  <2> QED
    BY <2>1, <2>2 DEF IInv, LoopInv, GotOK
<1> QED
  BY <1>1

\* What a step does to the messages on their way to a node: one is delivered, or one is
\* added for a node that is listed.
LEMMA WireChange ==
    ASSUME IInv, [Next]_vars, NEW n \in Nodes
    PROVE  \/ wire'[n] = wire[n]
           \/ JabberDeliver(n) /\ wire'[n] = Tail(wire[n])
           \/ n \in Members(class[ServiceOf[n]]) /\ \E r \in Requests : wire'[n] = Append(wire[n], r)
<1>1. TableInv /\ wire \in [Nodes -> Seq(Requests)]
  BY DEF IInv, TableInv
<1>2. ASSUME NEW c \in Classes, NEW k, GoodClass(c, k), Members(k) \subseteq Members(class[c]),
             NEW r \in Requests, HandleMessage(c, k, r)
      PROVE  \/ wire'[n] = wire[n]
             \/ n \in Members(class[ServiceOf[n]]) /\ wire'[n] = Append(wire[n], r)
  <2>1. CASE k.nodes = << >>
    BY <1>2, <2>1 DEF HandleMessage
  <2>2. CASE k.nodes # << >>
    <3>1. Pick(k) \in Members(k) /\ Pick(k) \in Nodes
      BY <1>2, <2>2, PickLemma
    <3>2. UNCHANGED wire \/ wire' = [wire EXCEPT ![Pick(k)] = Append(@, r)]
      BY <1>2, <2>2 DEF HandleMessage, SendTo
    <3>3. ServiceOf[Pick(k)] = c
      BY <1>2, <3>1 DEF GoodClass
    <3> QED
      BY <3>1, <3>2, <3>3, <1>1, <1>2
  <2> QED
    BY <2>1, <2>2
<1>3. ASSUME NEW c \in Classes, RouteRequest(c)
      PROVE  \/ wire'[n] = wire[n]
             \/ n \in Members(class[ServiceOf[n]]) /\ \E r \in Requests : wire'[n] = Append(wire[n], r)
  <2> DEFINE r == Head(inbox[c]).req
  <2>1. Head(inbox[c]).kind = "request" /\ ClassReceive(c) /\ (HandleMessage(c, class[c], r) \/ UNCHANGED wire)
    BY <1>3 DEF RouteRequest
  <2>2. r \in Requests /\ GoodClass(c, class[c])
    BY <2>1, <1>1, ClassReceiveLemma DEF InMsg, TableInv
  <2> HIDE DEF r
  <2> QED
    BY <2>1, <2>2, <1>2
<1>4. ASSUME NEW c \in Classes, RouteBounce(c)
      PROVE  \/ wire'[n] = wire[n]
             \/ n \in Members(class[ServiceOf[n]]) /\ \E r \in Requests : wire'[n] = Append(wire[n], r)
  <2> DEFINE m == Head(inbox[c]).from
             k == class[c]
  <2>1. UNCHANGED wire \/ \E box : HandleBounce(c, m, box)
    BY <1>4 DEF RouteBounce
  <2> HIDE DEF m
  <2>2. \/ UNCHANGED wire
        \/ m \in Members(k) /\ k.last[m] # NoMsg /\ HandleMessage(c, DropNode(k, m), k.last[m])
    BY <2>1 DEF HandleBounce
  <2>3. CASE m \in Members(k) /\ k.last[m] # NoMsg /\ HandleMessage(c, DropNode(k, m), k.last[m])
    <3>1. GoodClass(c, k)
      BY <1>1 DEF TableInv
    <3>2. k.last[m] \in Requests
      BY <2>3, <3>1 DEF GoodClass, ClassRec, Members, Elems
    <3>3. GoodClass(c, DropNode(k, m)) /\ Members(DropNode(k, m)) \subseteq Members(class[c])
      BY <2>3, <3>1, DropNodeGood
    <3> HIDE DEF k
    <3> QED
      BY <2>3, <3>2, <3>3, <1>2
  <2> QED
    BY <2>2, <2>3
<1>5. ASSUME NEW m \in Nodes, JabberDeliver(m)
      PROVE  wire'[n] = wire[n] \/ (m = n /\ wire'[n] = Tail(wire[n]))
  BY <1>1, <1>5 DEF JabberDeliver
<1>6. \/ UNCHANGED wire
      \/ \E c \in Classes : RouteRequest(c) \/ RouteBounce(c)
      \/ \E m \in Nodes : JabberDeliver(m)
  BY DEF Next, RouterStep, Environment, CheckStop, FillFDSet, Select, SelectInterrupted, LoopEnd,
         Signal, TopDrained, AppRequest, NextClass, Query, NodeStart, NodeLeave, NodeReturn, NodeDown,
         Register, Unregister, RemoveBrokenClass, ClientSend, ConnectionLost, vars, network
<1> QED
  BY <1>3, <1>4, <1>5, <1>6

\* What a step does to the router's own box and to the listeners.
LEMMA CommandsChange ==
    ASSUME IInv, [Next]_vars
    PROVE  \/ UNCHANGED topbox /\ node' = node
           \/ UNCHANGED topbox /\ \E n \in Nodes : NodeDown(n)
           \/ TopReceive /\ node' = node
           \/ ToTop([cmd |-> "info"]) /\ node' = node
           \/ (\E c \in Classes : ToTop([cmd |-> "stats", class |-> c])) /\ node' = node
           \/ \E n \in Nodes : NodeStart(n) \/ NodeLeave(n) \/ NodeReturn(n)
BY DEF Next, RouterStep, Environment, CheckStop, FillFDSet, Select, SelectInterrupted, LoopEnd,
       Signal, TopDrained, AppRequest, NextClass, Query, NodeDown, Register, Unregister,
       RemoveBrokenClass, RouteRequest, RouteBounce, JabberDeliver, ClientSend, ConnectionLost,
       vars, table, network, world, loop, bounds

LEMMA ConnectionsKeptNext ==
    ASSUME IInv, ConnectionsKept, [Next]_vars
    PROVE  (losses' = 0 => losses = 0) /\ ConnectionsKept'
<1>1. losses \in Nat /\ conn \in [Classes \cup {Top} -> {"none", "open", "eof", "closed"}]
  BY DEF IInv, WorldInv, TableInv
<1>2. UNCHANGED losses \/ losses' = losses + 1
  BY DEF Next, RouterStep, Environment, CheckStop, FillFDSet, Select, SelectInterrupted, LoopEnd,
         Signal, TopDrained, AppRequest, NextClass, Query, NodeStart, NodeLeave, NodeReturn, NodeDown,
         Register, Unregister, RemoveBrokenClass, RouteRequest, RouteBounce, JabberDeliver,
         ClientSend, ConnectionLost, vars, bounds
<1>3. losses' = 0 => losses = 0
  BY <1>1, <1>2
<1>4. \/ UNCHANGED conn
      \/ \E c \in Classes : conn' = [conn EXCEPT ![c] = "open"] \/ conn' = [conn EXCEPT ![c] = "none"]
      \/ \E c \in Classes \cup {Top} : conn[c] = "eof" /\ conn' = [conn EXCEPT ![c] = "closed"]
      \/ losses' = losses + 1
  <2>1. CASE Register
    <3>1. ServiceOf[Head(topbox).from] \in Classes
      BY <2>1, TopReceiveLemma, RouterAssumption DEF Register, TopMsg
    <3> QED
      BY <2>1, <3>1 DEF Register, table
  <2>2. CASE Unregister
    <3>1. ServiceOf[Head(topbox).from] \in Classes
      BY <2>2, TopReceiveLemma, RouterAssumption DEF Unregister, TopMsg
    <3> QED
      BY <2>2, <3>1 DEF Unregister, table, RemoveNode, RemoveClass
  <2>3. CASE NextClass
    <3>1. NextClass => Head(todo) \in Classes
      BY DEF IInv, LoopInv, NextClass
    <3> QED
      BY <2>3, <3>1 DEF NextClass
  <2>4. ASSUME NEW c \in Classes, RouteBounce(c)
        PROVE  \/ UNCHANGED conn
               \/ conn' = [conn EXCEPT ![c] = "none"]
    BY <2>4 DEF RouteBounce, HandleBounce, RemoveNode, RemoveClass, table
  <2>5. ASSUME NEW c \in Classes, RemoveBrokenClass(c)
        PROVE  conn' = [conn EXCEPT ![c] = "none"]
    BY <2>5 DEF RemoveBrokenClass, RemoveClass
  <2>6. CASE TopDrained
    BY <2>6 DEF TopDrained
  <2>7. \/ Register \/ Unregister \/ NextClass \/ TopDrained \/ UNCHANGED conn
        \/ \E c \in Classes : RouteBounce(c) \/ RemoveBrokenClass(c)
        \/ losses' = losses + 1
    BY DEF Next, RouterStep, Environment, CheckStop, FillFDSet, Select, SelectInterrupted, LoopEnd,
           Signal, AppRequest, Query, NodeStart, NodeLeave, NodeReturn, NodeDown, RouteRequest,
           JabberDeliver, ClientSend, ConnectionLost, vars, table, network
  <2> QED
    BY <2>1, <2>2, <2>3, <2>4, <2>5, <2>6, <2>7
<1>5. ConnectionsKept'
  BY <1>1, <1>2, <1>3, <1>4, RouterAssumption DEF ConnectionsKept
<1> QED
  BY <1>3, <1>5

LEMMA OffUnknownNext ==
    ASSUME IInv, OffUnknown, [Next]_vars
    PROVE  OffUnknown'
<1> SUFFICES ASSUME NEW n \in Nodes, node'[n] = "off"
             PROVE  Silent(topbox', n) /\ n \notin Members(class'[ServiceOf[n]]) /\ wire'[n] = << >>
  BY DEF OffUnknown, Listed
<1>1. /\ topbox \in Seq(TopMsg) /\ node \in [Nodes -> {"off", "up", "leaving", "down"}]
      /\ ServiceOf[n] \in Classes
  BY RouterAssumption DEF IInv, LoopInv, WorldInv
<1>2. node[n] = "off" /\ ~ \E m \in Nodes : m = n /\ (NodeStart(m) \/ NodeLeave(m) \/ NodeReturn(m))
  BY CommandsChange, <1>1 DEF NodeStart, NodeLeave, NodeReturn, NodeDown, Up
<1>3. Silent(topbox, n) /\ n \notin Members(class[ServiceOf[n]]) /\ wire[n] = << >>
  BY <1>2 DEF OffUnknown, Listed
<1>4. Silent(topbox', n)
  <2>1. ASSUME NEW m \in TopMsg, ~IsCommand(m, n), ToTop(m)
        PROVE  Silent(topbox', n)
    BY <2>1, <1>1, <1>3, BoxAppend DEF ToTop
  <2>2. CASE TopReceive
    <3>1. topbox' = Tail(topbox) /\ topbox # << >>
      BY <2>2, <1>1, TopReceiveNonempty
    <3> QED
      BY <3>1, <1>1, <1>3, BoxTail
  <2>3. CASE ToTop([cmd |-> "info"]) \/ \E c \in Classes : ToTop([cmd |-> "stats", class |-> c])
    <3>1. /\ [cmd |-> "info"] \in TopMsg /\ ~IsCommand([cmd |-> "info"], n)
          /\ \A c \in Classes : /\ [cmd |-> "stats", class |-> c] \in TopMsg
                                /\ ~IsCommand([cmd |-> "stats", class |-> c], n)
      BY DEF TopMsg, IsCommand
    <3> QED
      BY <3>1, <2>1, <2>3
  <2>4. ASSUME NEW m \in Nodes, NodeStart(m) \/ NodeLeave(m) \/ NodeReturn(m)
        PROVE  Silent(topbox', n)
    <3>1. m # n
      BY <2>4, <1>2
    <3>2. /\ [cmd |-> "register", from |-> m] \in TopMsg /\ ~IsCommand([cmd |-> "register", from |-> m], n)
          /\ [cmd |-> "unregister", from |-> m] \in TopMsg /\ ~IsCommand([cmd |-> "unregister", from |-> m], n)
      BY <3>1 DEF TopMsg, IsCommand
    <3> QED
      BY <3>2, <2>1, <2>4 DEF NodeStart, NodeLeave, NodeReturn
  <2>5. CASE UNCHANGED topbox
    BY <2>5, <1>3
  <2> QED
    BY <2>2, <2>3, <2>4, <2>5, CommandsChange
<1>5. n \notin Members(class'[ServiceOf[n]])
  <2>1. ~(Register /\ n = Head(topbox).from)
    <3> SUFFICES ASSUME Register, n = Head(topbox).from PROVE FALSE
      OBVIOUS
    <3>1. topbox # << >>
      BY <1>1, TopReceiveNonempty DEF Register
    <3> QED
      BY <3>1, <1>1, <1>3, BoxTail DEF Register, IsCommand
  <2> QED
    BY <2>1, <1>1, <1>3, MembersChange
<1>6. wire'[n] = << >>
  <2>1. ~JabberDeliver(n)
    BY <1>3 DEF JabberDeliver
  <2> QED
    BY <2>1, <1>1, <1>3, WireChange
<1> QED
  BY <1>4, <1>5, <1>6
\* A listed node stays listed while no connection is lost, unless it dies or unregisters.
LEMMA StaysListed ==
    ASSUME IInv, ErrorsFromDead, [Next]_vars, NEW n \in Nodes, NEW c \in Classes,
           n \in Members(class[c]), node[n] = "up", conn[c] # "closed",
           ~(Unregister /\ Head(topbox).from = n)
    PROVE  n \in Members(class'[c])
<1>1. ~RemoveBrokenClass(c)
  BY DEF RemoveBrokenClass, Broken
<1>2. ~(RouteBounce(c) /\ n = Head(inbox[c]).from)
  <2> SUFFICES ASSUME RouteBounce(c), n = Head(inbox[c]).from PROVE FALSE
    OBVIOUS
  <2>1. inbox[c] # << >> /\ inbox[c] \in Seq(InMsg) /\ Head(inbox[c]).kind = "error"
    BY ClassReceiveNonempty DEF IInv, TableInv, RouteBounce
  <2>2. 1 \in DOMAIN inbox[c] /\ Head(inbox[c]) = inbox[c][1]
    BY <2>1
  <2> QED
    BY <2>1, <2>2 DEF ErrorsFromDead
<1> QED
  BY <1>1, <1>2, MembersChange

LEMMA TopReceiveIs ==
    ASSUME IInv, [Next]_vars, TopReceive, Head(topbox).cmd = "register"
    PROVE  Register
<1>1. topbox # << >> /\ topbox' = Tail(topbox) /\ topbox \in Seq(TopMsg)
  BY TopReceiveNonempty DEF IInv, LoopInv
<1>2. topbox' # topbox
  <2>1. Len(topbox') # Len(topbox)
    BY <1>1
  <2> QED
    BY <2>1
<1>3. \A m \in TopMsg : ~ToTop(m)
  <2> SUFFICES ASSUME NEW m \in TopMsg, topbox' = Append(topbox, m) PROVE FALSE
    BY <1>2 DEF ToTop
  <2>1. Len(Append(topbox, m)) = Len(topbox) + 1
    BY <1>1, AppendLemma
  <2>2. Len(Tail(topbox)) = Len(topbox) - 1 /\ Len(topbox) \in Nat
    BY <1>1
  <2>3. Append(topbox, m) = Tail(topbox)
    BY <1>1
  <2> QED
    BY <2>1, <2>2, <2>3
<1>4. TopReceive => pc = "top"
  BY DEF TopReceive
<1>5. /\ [cmd |-> "info"] \in TopMsg /\ \A c \in Classes : [cmd |-> "stats", class |-> c] \in TopMsg
      /\ \A n \in Nodes : /\ [cmd |-> "register", from |-> n] \in TopMsg
                          /\ [cmd |-> "unregister", from |-> n] \in TopMsg
  BY DEF TopMsg
<1> QED
  BY <1>2, <1>3, <1>4, <1>5 DEF Next, RouterStep, Environment, CheckStop, FillFDSet, Select, SelectInterrupted,
     LoopEnd, Signal, TopDrained, AppRequest, Answered, OfClass, NextClass, Query, NodeStart, NodeLeave,
     NodeReturn, NodeDown, Unregister, RemoveBrokenClass, RouteRequest, RouteBounce, JabberDeliver,
     ClientSend, ConnectionLost, vars, network

LEMMA TailElems ==
    ASSUME NEW S, NEW s \in Seq(S), s # << >>
    PROVE  /\ Elems(s) = Elems(Tail(s)) \cup {Head(s)}
           /\ Tail(s) \in Seq(S) /\ Head(s) \in S
           /\ NoDup(s) => NoDup(Tail(s)) /\ Head(s) \notin Elems(Tail(s))
<1> DEFINE t == Tail(s)
<1>1. /\ DOMAIN t = 1 .. Len(s) - 1 /\ DOMAIN s = 1 .. Len(s) /\ Len(s) \in Nat /\ Len(s) # 0
      /\ Head(s) = s[1] /\ t \in Seq(S) /\ Head(s) \in S
      /\ \A i \in 1 .. Len(s) - 1 : t[i] = s[i + 1]
  OBVIOUS
<1> HIDE DEF t
<1>2. \A i \in 1 .. Len(s) - 1 : i + 1 \in 1 .. Len(s)
  BY <1>1
<1>3. Elems(t) \cup {Head(s)} \subseteq Elems(s)
  <2>1. \A i \in DOMAIN t : t[i] \in Elems(s)
    BY <1>1, <1>2 DEF Elems
  <2>2. 1 \in DOMAIN s
    BY <1>1
  <2>3. Head(s) \in Elems(s)
    BY <2>2, <1>1 DEF Elems
  <2> QED
    BY <2>1, <2>3 DEF Elems
<1>4. ASSUME NEW i \in 1 .. Len(s), i # 1
      PROVE  s[i] \in Elems(t)
  <2>1. i - 1 \in 1 .. Len(s) - 1 /\ t[i - 1] = s[i]
    BY <1>1, <1>4
  <2> QED
    BY <2>1, <1>1 DEF Elems
<1>5. Elems(s) \subseteq Elems(t) \cup {Head(s)}
  BY <1>1, <1>4 DEF Elems
<1>6. ASSUME NoDup(s)
      PROVE  NoDup(t) /\ Head(s) \notin Elems(t)
  <2>1. \A i, j \in 1 .. Len(s) : s[i] = s[j] => i = j
    BY <1>1, <1>6 DEF NoDup
  <2>2. NoDup(t)
    <3> SUFFICES ASSUME NEW i \in 1 .. Len(s) - 1, NEW j \in 1 .. Len(s) - 1, t[i] = t[j]
                 PROVE  i = j
      BY <1>1 DEF NoDup
    <3>1. i + 1 = j + 1
      BY <1>1, <1>2, <2>1
    <3> QED
      BY <3>1
  <2>3. Head(s) \notin Elems(t)
    <3> SUFFICES ASSUME NEW i \in 1 .. Len(s) - 1, t[i] = s[1] PROVE FALSE
      BY <1>1 DEF Elems
    <3>1. i + 1 = 1 /\ 1 \in 1 .. Len(s)
      BY <1>1, <1>2, <2>1
    <3> QED
      BY <3>1
  <2> QED
    BY <2>2, <2>3
<1> QED
  BY <1>1, <1>3, <1>5, <1>6 DEF t

\* What a step does to the messages on the connection of a class: the first is taken, all go
\* with the class, or one more comes.
LEMMA InboxChange ==
    ASSUME IInv, [Next]_vars, NEW c \in Classes
    PROVE  \/ inbox'[c] = inbox[c]
           \/ inbox'[c] = << >>
           \/ ClassReceive(c) /\ inbox'[c] = Tail(inbox[c])
           \/ \E n \in Nodes : /\ JabberDeliver(n) /\ ~Up(n) /\ ServiceOf[n] = c
                               /\ inbox'[c] = Append(inbox[c],
                                      [kind |-> "error", from |-> n, req |-> Head(wire[n])])
           \/ \E r \in Requests : /\ ClientSend(r, c)
                                  /\ inbox'[c] = Append(inbox[c], [kind |-> "request", req |-> r])
<1>1. inbox \in [Classes -> Seq(InMsg)]
  BY DEF IInv, TableInv
<1>2. ASSUME NEW d \in Classes, NEW n, NEW box, RemoveNode(d, n, box), box \in [Classes -> Seq(InMsg)]
      PROVE  inbox'[c] = box[c] \/ inbox'[c] = << >> \/ inbox'[c] = inbox[c]
  BY <1>1, <1>2 DEF RemoveNode, RemoveClass
<1>3. CASE Unregister
  <2>1. ServiceOf[Head(topbox).from] \in Classes
    BY <1>3, TopReceiveLemma, RouterAssumption DEF Unregister, TopMsg
  <2> QED
    BY <2>1, <1>1, <1>2, <1>3 DEF Unregister
<1>4. ASSUME NEW d \in Classes, RouteRequest(d)
      PROVE  inbox'[c] = inbox[c] \/ (ClassReceive(c) /\ inbox'[c] = Tail(inbox[c]))
  BY <1>1, <1>4 DEF RouteRequest
<1>5. ASSUME NEW d \in Classes, RouteBounce(d)
      PROVE  \/ inbox'[c] = inbox[c] \/ inbox'[c] = << >>
             \/ ClassReceive(c) /\ inbox'[c] = Tail(inbox[c])
  <2> DEFINE box == [inbox EXCEPT ![d] = Tail(@)]
             n == Head(inbox[d]).from
  <2>1. ClassReceive(d) /\ (HandleBounce(d, n, box) \/ inbox' = box)
    BY <1>5 DEF RouteBounce
  <2>2. /\ box \in [Classes -> Seq(InMsg)] /\ (d # c => box[c] = inbox[c])
        /\ box[d] = Tail(inbox[d])
    BY <2>1, <1>1, ClassReceiveLemma
  <2> HIDE DEF box, n
  <2>3. inbox' = box \/ RemoveNode(d, n, box)
    BY <2>1 DEF HandleBounce
  <2> QED
    BY <2>1, <2>2, <2>3, <1>2
<1>6. ASSUME NEW d \in Classes, RemoveBrokenClass(d)
      PROVE  inbox'[c] = inbox[c] \/ inbox'[c] = << >>
  BY <1>1, <1>6 DEF RemoveBrokenClass, RemoveClass
<1>7. ASSUME NEW n \in Nodes, JabberDeliver(n)
      PROVE  \/ inbox'[c] = inbox[c]
             \/ /\ ~Up(n) /\ ServiceOf[n] = c
                /\ inbox'[c] = Append(inbox[c], [kind |-> "error", from |-> n, req |-> Head(wire[n])])
  BY <1>1, <1>7 DEF JabberDeliver
<1>8. ASSUME NEW r \in Requests, NEW d \in Classes, ClientSend(r, d)
      PROVE  \/ inbox'[c] = inbox[c]
             \/ d = c /\ inbox'[c] = Append(inbox[c], [kind |-> "request", req |-> r])
  BY <1>1, <1>8 DEF ClientSend
<1>9. \/ UNCHANGED inbox \/ Unregister
      \/ \E d \in Classes : RouteRequest(d) \/ RouteBounce(d) \/ RemoveBrokenClass(d)
      \/ \E n \in Nodes : JabberDeliver(n)
      \/ \E r \in Requests, d \in Classes : ClientSend(r, d)
  BY DEF Next, RouterStep, Environment, CheckStop, FillFDSet, Select, SelectInterrupted, LoopEnd,
         Signal, TopDrained, AppRequest, NextClass, Query, NodeStart, NodeLeave, NodeReturn, NodeDown,
         Register, ConnectionLost, vars, network
<1> QED
  BY <1>3, <1>4, <1>5, <1>6, <1>7, <1>8, <1>9

LEMMA CommandsKeptNext ==
    ASSUME IInv, ConnectionsKept, CommandsKept, ErrorsFromDead, [Next]_vars
    PROVE  CommandsKept'
<1> SUFFICES ASSUME NEW n \in TrustedServers, losses' = 0, node'[n] = "up"
             PROVE  \/ Asked(topbox', n)
                    \/ Silent(topbox', n) /\ n \in Members(class'[ServiceOf[n]])
  BY DEF CommandsKept, Listed
<1> DEFINE c == ServiceOf[n]
<1>1. /\ n \in Nodes /\ c \in Classes
      /\ topbox \in Seq(TopMsg) /\ node \in [Nodes -> {"off", "up", "leaving", "down"}]
  BY RouterAssumption DEF IInv, LoopInv, WorldInv
<1>2. losses = 0 /\ conn[Top] = "open" /\ conn[c] # "closed"
  BY <1>1, ConnectionsKeptNext DEF ConnectionsKept
<1>3. CASE NodeStart(n) \/ NodeReturn(n)
  <2>1. topbox' = Append(topbox, [cmd |-> "register", from |-> n])
    BY <1>2, <1>3 DEF NodeStart, NodeReturn, ToTop
  <2>2. [cmd |-> "register", from |-> n] \in TopMsg
    BY <1>1 DEF TopMsg
  <2> QED
    BY <2>1, <2>2, <1>1, BoxAppend
<1>4. CASE ~(NodeStart(n) \/ NodeReturn(n))
  <2>1. node[n] = "up" /\ ~NodeLeave(n)
    BY CommandsChange, <1>1, <1>4 DEF NodeStart, NodeLeave, NodeReturn, NodeDown
  <2>2. Asked(topbox, n) \/ (Silent(topbox, n) /\ n \in Members(class[c]))
    BY <2>1, <1>2 DEF CommandsKept, Listed
  <2>3. ASSUME NEW m \in TopMsg, ~IsCommand(m, n), ToTop(m)
        PROVE  /\ Asked(topbox, n) => Asked(topbox', n)
               /\ Silent(topbox, n) => Silent(topbox', n)
    BY <2>3, <1>1, BoxAppend DEF ToTop
  <2>4. CASE ~TopReceive
    <3>1. ASSUME UNCHANGED topbox
          PROVE  /\ Asked(topbox, n) => Asked(topbox', n)
                 /\ Silent(topbox, n) => Silent(topbox', n)
      BY <3>1
    <3>2. ASSUME ToTop([cmd |-> "info"]) \/ \E d \in Classes : ToTop([cmd |-> "stats", class |-> d])
          PROVE  /\ Asked(topbox, n) => Asked(topbox', n)
                 /\ Silent(topbox, n) => Silent(topbox', n)
      <4>1. /\ [cmd |-> "info"] \in TopMsg /\ ~IsCommand([cmd |-> "info"], n)
            /\ \A d \in Classes : /\ [cmd |-> "stats", class |-> d] \in TopMsg
                                  /\ ~IsCommand([cmd |-> "stats", class |-> d], n)
        BY DEF TopMsg, IsCommand
      <4> QED
        BY <4>1, <2>3, <3>2
    <3>3. ASSUME NEW m \in Nodes, NodeStart(m) \/ NodeLeave(m) \/ NodeReturn(m)
          PROVE  /\ Asked(topbox, n) => Asked(topbox', n)
                 /\ Silent(topbox, n) => Silent(topbox', n)
      <4>1. m # n
        BY <3>3, <2>1, <1>4
      <4>2. /\ [cmd |-> "register", from |-> m] \in TopMsg /\ ~IsCommand([cmd |-> "register", from |-> m], n)
            /\ [cmd |-> "unregister", from |-> m] \in TopMsg /\ ~IsCommand([cmd |-> "unregister", from |-> m], n)
        BY <4>1 DEF TopMsg, IsCommand
      <4> QED
        BY <4>2, <2>3, <3>3 DEF NodeStart, NodeLeave, NodeReturn
    <3>4. /\ Asked(topbox, n) => Asked(topbox', n)
          /\ Silent(topbox, n) => Silent(topbox', n)
      <4>1. \/ UNCHANGED topbox
            \/ ToTop([cmd |-> "info"]) \/ \E d \in Classes : ToTop([cmd |-> "stats", class |-> d])
            \/ \E m \in Nodes : NodeStart(m) \/ NodeLeave(m) \/ NodeReturn(m)
        BY <2>4, CommandsChange
      <4> QED
        BY <4>1, <3>1, <3>2, <3>3
    <3>5. ASSUME n \in Members(class[c])
          PROVE  n \in Members(class'[c])
      <4>1. ~Unregister
        BY <2>4 DEF Unregister
      <4> QED
        BY <4>1, <3>5, <1>1, <1>2, <2>1, StaysListed
    <3> QED
      BY <3>4, <3>5, <2>2
  <2>5. CASE TopReceive
    <3>1. /\ topbox' = Tail(topbox) /\ topbox # << >>
          /\ Silent(topbox, n) => Silent(topbox', n) /\ ~IsCommand(Head(topbox), n)
          /\ Asked(topbox, n) => \/ Asked(topbox', n)
                                 \/ /\ Head(topbox) = [cmd |-> "register", from |-> n]
                                    /\ Silent(topbox', n)
      BY <2>5, <1>1, TopReceiveNonempty, BoxTail
    <3>2. CASE Asked(topbox', n)
      BY <3>2
    <3>3. CASE Silent(topbox, n) /\ n \in Members(class[c])
      <4>1. Silent(topbox', n) /\ ~(Unregister /\ Head(topbox).from = n)
        BY <3>1, <3>3 DEF Unregister, IsCommand
      <4> QED
        BY <4>1, <3>3, <1>1, <1>2, <2>1, StaysListed
    <3>4. CASE Head(topbox) = [cmd |-> "register", from |-> n] /\ Silent(topbox', n)
      <4>1. Register
        BY <3>4, <2>5, TopReceiveIs
      <4>2. \/ class' = [class EXCEPT ![c] = AddNode(class[c], n)]
            \/ losses' = losses + 1
            \/ n \in Members(class[c]) /\ UNCHANGED class
        BY <4>1, <3>4 DEF Register, table
      <4>3. class \in [Classes -> ClassRec]
        BY DEF IInv, TableInv
      <4> QED
        BY <4>2, <4>3, <3>4, <1>1, <1>2, AddNodeMembers
    <3> QED
      BY <3>1, <3>2, <3>3, <3>4, <2>2
  <2> QED
    BY <2>4, <2>5
<1> QED
  BY <1>3, <1>4

LEMMA ErrorsFromDeadNext ==
    ASSUME IInv, OffUnknown, ErrorsFromDead, [Next]_vars
    PROVE  ErrorsFromDead'
<1>1. /\ inbox \in [Classes -> Seq(InMsg)] /\ node \in [Nodes -> {"off", "up", "leaving", "down"}]
      /\ ServiceOf \in [Nodes -> Classes]
  BY RouterAssumption DEF IInv, TableInv, WorldInv
<1>2. \A n \in Nodes : node[n] = "down" => node'[n] = "down"
  BY CommandsChange, <1>1 DEF NodeStart, NodeLeave, NodeReturn, NodeDown, Up
<1> SUFFICES ASSUME NEW c \in Classes, NEW m \in Elems(inbox'[c]), m.kind = "error"
             PROVE  node'[m.from] = "down"
  BY DEF ErrorsFromDead, Elems
<1>3. ASSUME m \in Elems(inbox[c])
      PROVE  node'[m.from] = "down"
  <2>1. node[m.from] = "down" /\ m \in InMsg
    BY <1>1, <1>3 DEF ErrorsFromDead, Elems
  <2>2. m.from \in Nodes
    BY <2>1 DEF InMsg
  <2> QED
    BY <2>1, <2>2, <1>2
<1>4. ASSUME NEW n \in Nodes, JabberDeliver(n), ~Up(n)
      PROVE  node'[n] = "down"
  BY <1>1, <1>2, <1>4 DEF OffUnknown, JabberDeliver, Up
<1>5. m \notin Elems(inbox[c]) => \E n \in Nodes : JabberDeliver(n) /\ ~Up(n) /\ m.from = n
  <2>1. CASE inbox'[c] = inbox[c] \/ inbox'[c] = << >>
    BY <2>1 DEF Elems
  <2>2. CASE ClassReceive(c) /\ inbox'[c] = Tail(inbox[c])
    BY <2>2, <1>1, ClassReceiveNonempty, TailElems
  <2>3. ASSUME NEW n \in Nodes, JabberDeliver(n), ~Up(n), ServiceOf[n] = c,
               inbox'[c] = Append(inbox[c], [kind |-> "error", from |-> n, req |-> Head(wire[n])])
        PROVE  m \notin Elems(inbox[c]) => m.from = n
    <3>1. [kind |-> "error", from |-> n, req |-> Head(wire[n])] \in InMsg
      BY <2>3 DEF JabberDeliver, IInv, TableInv, InMsg
    <3> QED
      BY <3>1, <2>3, <1>1, AppendLemma
  <2>4. ASSUME NEW r \in Requests, inbox'[c] = Append(inbox[c], [kind |-> "request", req |-> r])
        PROVE  m \in Elems(inbox[c])
    <3>1. [kind |-> "request", req |-> r] \in InMsg
      BY DEF InMsg
    <3>2. Elems(inbox'[c]) = Elems(inbox[c]) \cup {[kind |-> "request", req |-> r]}
      BY <3>1, <2>4, <1>1, AppendLemma
    <3> QED
      BY <3>2
  <2> QED
    BY <2>1, <2>2, <2>3, <2>4, InboxChange
<1> QED
  BY <1>3, <1>4, <1>5

\* A listener that asked for it stays registered, and only the dead are removed.
LEMMA ListenersInvNext ==
    ASSUME IInv, ListenersInv, [Next]_vars
    PROVE  ListenersInv'
BY ConnectionsKeptNext, CommandsKeptNext, OffUnknownNext, ErrorsFromDeadNext DEF ListenersInv

LEMMA ListenersInvInit == Init => ListenersInv
BY RouterAssumption DEF Init, ListenersInv, ConnectionsKept, CommandsKept, OffUnknown,
   ErrorsFromDead, Silent, Listed, Members, Elems, EmptyClass

\* While no connection is lost, a listener that asked to be registered
\* (osrf_prefork_register_routers, osrfRouterHandleCommand) is in the registry once its command
\* has been read, whatever the other listeners, the errors and the requests do.
THEOREM ListenersRegistered == Spec => []RegistrationKept
<1>1. ListenersInv => RegistrationKept
  <2> SUFFICES ASSUME ListenersInv, NEW n \in TrustedServers, losses = 0, node[n] = "up",
                      Silent(topbox, n)
               PROVE  n \in Members(class[ServiceOf[n]])
    BY DEF RegistrationKept, Silent, IsCommand
  <2>1. ~Asked(topbox, n)
    BY DEF Asked, Silent, IsCommand
  <2> QED
    BY <2>1 DEF ListenersInv, CommandsKept, Listed
<1> QED
  BY <1>1, ListenersInvInit, ListenersInvNext, Invariance, PTL DEF Spec

\* "The presumption is that the relevant node is dead" (osrfRouterClassHandleBounce) is right:
\* no step that handles an error removes a listener that is alive.
THEOREM OnlyDeadRemoved == Spec => BounceRemovesOnlyDead
<1> DEFINE Removes == \A c \in Classes : RouteBounce(c) =>
                          \A n \in Members(class[c]) : n \in Members(class[c])' \/ node[n] = "down"
<1>1. IInv /\ ListenersInv /\ [Next]_vars => [Removes]_vars
  <2> SUFFICES ASSUME IInv, ListenersInv, [Next]_vars, NEW c \in Classes, RouteBounce(c),
                      NEW n \in Members(class[c]), n \notin Members(class'[c])
               PROVE  node[n] = "down"
    OBVIOUS
  <2>1. ClassReceive(c) /\ Head(inbox[c]).kind = "error" /\ pc = "classes"
    BY DEF RouteBounce, ClassReceive
  <2>2. ~Unregister /\ ~RemoveBrokenClass(c)
    BY <2>1 DEF Unregister, TopReceive, RemoveBrokenClass
  <2>3. n = Head(inbox[c]).from
    BY <2>2, MembersChange
  <2>4. inbox[c] # << >> /\ inbox[c] \in Seq(InMsg)
    BY <2>1, ClassReceiveNonempty DEF IInv, TableInv
  <2>5. 1 \in DOMAIN inbox[c] /\ Head(inbox[c]) = inbox[c][1]
    BY <2>4
  <2> QED
    BY <2>1, <2>3, <2>5 DEF ListenersInv, ErrorsFromDead
<1> QED
  BY <1>1, ListenersInvInit, ListenersInvNext, Invariance, PTL DEF Spec, BounceRemovesOnlyDead
-----------------------------------------------------------------------------
(* The requests.                                                           *)

\* The last message the router sent to a node.
Last(n) == class[ServiceOf[n]].last[n]

Bounced(n) == \E m \in Elems(inbox[ServiceOf[n]]) : m.kind = "error" /\ m.from = n

\* Where a request can be, so that it may still reach a listener: it waits on the connection
\* of a class; it is on its way to a node that is not down, or it is the last message of a
\* node that the router is to learn of that it is down.
Queued(r, c, i) == i \in DOMAIN inbox[c] /\ inbox[c][i] = [kind |-> "request", req |-> r]
With(r, n) == \/ node[n] # "down" /\ r \in Elems(wire[n])
              \/ Last(n) = r /\ (wire[n] # << >> \/ Bounced(n))

\* It is in one place.
Once(r) ==
    /\ \A c, d \in Classes, i, j \in Nat : Queued(r, c, i) /\ Queued(r, d, j) => c = d /\ i = j
    /\ \A m, n \in Nodes : With(r, m) /\ With(r, n) => m = n
    /\ \A c \in Classes, i \in Nat, n \in Nodes : ~(Queued(r, c, i) /\ With(r, n))

Placed(r) == \/ \E c \in Classes, i \in Nat : Queued(r, c, i)
             \/ \E n \in Nodes : With(r, n)

\* It is in none before it was sent, and after it was delivered or cancelled.
Settled(r) ==
    /\ delivered[r] <= 1
    /\ r \in cancelled => delivered[r] = 0
    /\ r \notin sent => delivered[r] = 0 /\ r \notin cancelled
    /\ delivered[r] # 0 \/ r \in cancelled \/ r \notin sent => ~Placed(r)

\* The last message sent to a node that is not down comes last.
LastIsLast(n) ==
    node[n] # "down" => /\ NoDup(wire[n])
                        /\ \A i \in DOMAIN wire[n] : wire[n][i] = Last(n) => i = Len(wire[n])

RequestsInv == /\ \A r \in Requests : Once(r) /\ Settled(r)
               /\ \A n \in Nodes : LastIsLast(n)

\* A step that sends r to node p of class c: for a client, or because an error came from m.
Requested(c, r, p) ==
    /\ RouteRequest(c)
    /\ r = Head(inbox[c]).req /\ r \in TrustedClients /\ p = Pick(class[c])

Resent(c, m, r, p) ==
    /\ RouteBounce(c)
    /\ m = Head(inbox[c]).from /\ m \in TrustedClients
    /\ m \in Members(class[c]) /\ Len(class[c].nodes) # 1
    /\ r = class[c].last[m] /\ r # NoMsg
    /\ p = Pick(DropNode(class[c], m))

Routes == \E c \in Classes, r \in Requests, p \in Nodes :
              Requested(c, r, p) \/ \E m \in Nodes : Resent(c, m, r, p)

LEMMA RoutedLast ==
    ASSUME NEW c \in Classes, NEW k, GoodClass(c, k), k.nodes # << >>, NEW r \in Requests
    PROVE  Routed(k, r).last = [k.last EXCEPT ![Pick(k)] = r]
<1>1. k = [nodes |-> k.nodes, pos |-> k.pos, at |-> k.at, last |-> k.last, turns |-> k.turns]
  BY DEF GoodClass, ClassRec
<1> QED
  BY <1>1 DEF Routed

LEMMA AddNodeLast ==
    ASSUME NEW k \in ClassRec, NEW n \in Nodes
    PROVE  AddNode(k, n).last = [k.last EXCEPT ![n] = NoMsg]
<1>1. k = [nodes |-> k.nodes, pos |-> k.pos, at |-> k.at, last |-> k.last, turns |-> k.turns]
  BY DEF ClassRec
<1> QED
  BY <1>1 DEF AddNode

\* What sending to a class does.
LEMMA HandleMessageLast ==
    ASSUME TableInv, NEW c \in Classes, NEW k, GoodClass(c, k), k.nodes # << >>,
           NEW r \in Requests, HandleMessage(c, k, r)
    PROVE  /\ Pick(k) \in Nodes /\ Pick(k) \in Members(k) /\ ServiceOf[Pick(k)] = c
           /\ Last(Pick(k))' = r
           /\ \A n \in Nodes : n # Pick(k) =>
                  Last(n)' = IF ServiceOf[n] = c THEN k.last[n] ELSE Last(n)
           /\ \A n \in Nodes : n # Pick(k) => wire'[n] = wire[n]
           /\ wire'[Pick(k)] = wire[Pick(k)] \/ wire'[Pick(k)] = Append(wire[Pick(k)], r)
<1> DEFINE p == Pick(k)
<1>1. p \in Nodes /\ p \in Members(k) /\ ServiceOf[p] = c
  BY PickLemma DEF GoodClass
<1>2. class' = [class EXCEPT ![c] = Routed(k, r)] /\ SendTo(c, p, r)
  BY DEF HandleMessage
<1>3. Routed(k, r).last = [k.last EXCEPT ![p] = r] /\ k.last \in [Nodes -> Requests \cup {NoMsg}]
  BY RoutedLast DEF GoodClass, ClassRec
<1> HIDE DEF p
<1>4. \A d \in Classes : class'[d] = IF d = c THEN Routed(k, r) ELSE class[d]
  BY <1>2 DEF TableInv
<1>5. Last(p)' = r
  BY <1>1, <1>3, <1>4 DEF Last
<1>6. ASSUME NEW n \in Nodes, n # p
      PROVE  Last(n)' = IF ServiceOf[n] = c THEN k.last[n] ELSE Last(n)
  <2>1. Routed(k, r).last[n] = k.last[n] /\ ServiceOf[n] \in Classes
    BY <1>3, <1>6, RouterAssumption
  <2> QED
    BY <2>1, <1>4 DEF Last
<1>7. /\ \A n \in Nodes : n # p => wire'[n] = wire[n]
      /\ wire'[p] = wire[p] \/ wire'[p] = Append(wire[p], r)
  BY <1>1, <1>2 DEF SendTo, TableInv
<1> QED
  BY <1>1, <1>5, <1>6, <1>7 DEF p

LEMMA RemoveNodeLast ==
    ASSUME TableInv, NEW c \in Classes, NEW m, NEW box, RemoveNode(c, m, box), NEW n \in Nodes
    PROVE  /\ Last(n)' = Last(n) \/ Last(n)' = NoMsg
           /\ m = n /\ ServiceOf[n] = c /\ m \in Members(class[c]) => Last(n)' = NoMsg
<1>1. class \in [Classes -> ClassRec] /\ ServiceOf[n] \in Classes
      /\ class[c].last \in [Nodes -> Requests \cup {NoMsg}]
  BY RouterAssumption DEF TableInv, ClassRec
<1>2. CASE class' = [class EXCEPT ![c] = EmptyClass]
  BY <1>1, <1>2 DEF Last, EmptyClass
<1>3. CASE class' = [class EXCEPT ![c] = DropNode(class[c], m)]
  <2>1. DropNode(class[c], m).last = [class[c].last EXCEPT ![m] = NoMsg]
    BY DEF DropNode
  <2> QED
    BY <2>1, <1>1, <1>3 DEF Last
<1>4. CASE UNCHANGED class /\ m \notin Members(class[c])
  BY <1>4 DEF Last
<1>5. ~Registered(c) => m \notin Members(class[c])
  BY DEF TableInv, Members, Elems
<1> QED
  BY <1>2, <1>3, <1>4, <1>5 DEF RemoveNode, RemoveClass, table

\* A node that an error comes from was bounced, and is down.
LEMMA BounceLemma ==
    ASSUME IInv, ErrorsFromDead, NEW c \in Classes, RouteBounce(c)
    PROVE  /\ ClassReceive(c) /\ c = Head(todo) /\ pc = "classes" /\ Registered(c)
           /\ Head(inbox[c]).kind = "error" /\ Head(inbox[c]).from \in Nodes
           /\ node[Head(inbox[c]).from] = "down"
           /\ Head(inbox[c]) \in Elems(inbox[c])
           /\ UNCHANGED <<node, sent, delivered>>
<1>1. ClassReceive(c) /\ Head(inbox[c]).kind = "error" /\ UNCHANGED <<node, sent, delivered>>
  BY DEF RouteBounce
<1>2. inbox[c] # << >> /\ inbox[c] \in Seq(InMsg)
  BY <1>1, ClassReceiveNonempty DEF IInv, TableInv
<1>3. 1 \in DOMAIN inbox[c] /\ Head(inbox[c]) = inbox[c][1] /\ Head(inbox[c]) \in InMsg
  BY <1>2
<1>4. Head(inbox[c]).from \in Nodes
  BY <1>1, <1>3 DEF InMsg
<1> QED
  BY <1>1, <1>3, <1>4, ClassReceiveLemma DEF ErrorsFromDead, Elems

\* A class of several nodes has one left when one goes.
LEMMA DropNodeKeeps ==
    ASSUME NEW c \in Classes, NEW k, GoodClass(c, k), NEW m \in Members(k), Len(k.nodes) # 1
    PROVE  /\ GoodClass(c, DropNode(k, m)) /\ DropNode(k, m).nodes # << >>
           /\ Members(DropNode(k, m)) = Members(k) \ {m}
           /\ DropNode(k, m).last = [k.last EXCEPT ![m] = NoMsg]
<1>1. /\ GoodClass(c, DropNode(k, m)) /\ Len(DropNode(k, m).nodes) = Len(k.nodes) - 1
      /\ Members(DropNode(k, m)) = Members(k) \ {m}
  BY DropNodeGood
<1>2. DropNode(k, m).last = [k.last EXCEPT ![m] = NoMsg]
  BY DEF DropNode
<1>3. Len(k.nodes) \in Nat
  BY DEF GoodClass, ClassRec
<1>4. Len(DropNode(k, m).nodes) # 0
  BY <1>1, <1>3
<1>5. DropNode(k, m).nodes # << >>
  BY <1>4
<1> QED
  BY <1>1, <1>2, <1>5

\* A step that sends nothing to a node: its last message is the same or forgotten.
LEMMA UnroutedStep ==
    ASSUME IInv, ErrorsFromDead, [Next]_vars, ~Routes, NEW n \in Nodes
    PROVE  /\ Last(n)' = Last(n) \/ Last(n)' = NoMsg
           /\ wire'[n] = wire[n] \/ (JabberDeliver(n) /\ wire'[n] = Tail(wire[n]))
<1>1. TableInv /\ class \in [Classes -> ClassRec] /\ wire \in [Nodes -> Seq(Requests)]
      /\ ServiceOf[n] \in Classes /\ (\A c \in Classes : GoodClass(c, class[c]))
  BY RouterAssumption DEF IInv, TableInv
<1>2. ASSUME NEW c \in Classes, RouteRequest(c)
      PROVE  UNCHANGED <<class, wire>>
  <2> DEFINE r == Head(inbox[c]).req
  <2>1. ClassReceive(c) /\ Head(inbox[c]).kind = "request" /\ (r \in TrustedClients \/ UNCHANGED <<class, wire>>)
    BY <1>2 DEF RouteRequest
  <2>2. r \in Requests /\ class[c].nodes # << >>
    BY <2>1, <1>1, ClassReceiveLemma DEF InMsg, TableInv
  <2>3. Pick(class[c]) \in Nodes
    BY <2>2, <1>1, PickLemma
  <2> QED
    BY <2>1, <2>2, <2>3, <1>2 DEF Routes, Requested
<1>3. ASSUME NEW c \in Classes, RouteBounce(c)
      PROVE  UNCHANGED wire /\ (Last(n)' = Last(n) \/ Last(n)' = NoMsg)
  <2> DEFINE m == Head(inbox[c]).from
             k == class[c]
             box == [inbox EXCEPT ![c] = Tail(@)]
  <2>1. m \in Nodes
    BY <1>3, BounceLemma
  <2>2. CASE UNCHANGED <<class, wire>>
    BY <2>2 DEF Last
  <2>3. CASE RemoveNode(c, m, box) /\ UNCHANGED wire
    <3> HIDE DEF box, m, k
    <3> QED
      BY <2>3, <1>1, <1>3, RemoveNodeLast
  <2>4. ~(m \in TrustedClients /\ m \in Members(k) /\ Len(k.nodes) # 1 /\ k.last[m] # NoMsg)
    <3> SUFFICES ASSUME m \in TrustedClients, m \in Members(k), Len(k.nodes) # 1, k.last[m] # NoMsg
                 PROVE  FALSE
      OBVIOUS
    <3>1. k.last[m] \in Requests /\ GoodClass(c, DropNode(k, m)) /\ DropNode(k, m).nodes # << >>
      <4>1. GoodClass(c, k) /\ k.last \in [Nodes -> Requests \cup {NoMsg}]
        BY <1>1, <1>3 DEF ClassRec
      <4> HIDE DEF k, m
      <4> QED
        BY <4>1, <2>1, <1>3, DropNodeKeeps
    <3>2. Pick(DropNode(k, m)) \in Nodes
      BY <3>1, PickLemma
    <3> QED
      BY <2>1, <3>1, <3>2, <1>3 DEF Routes, Resent
  <2>5. \/ UNCHANGED <<class, wire>>
        \/ RemoveNode(c, m, box) /\ UNCHANGED wire
        \/ m \in TrustedClients /\ m \in Members(k) /\ Len(k.nodes) # 1 /\ k.last[m] # NoMsg
    BY <1>3 DEF RouteBounce, HandleBounce, table
  <2> QED
    BY <2>2, <2>3, <2>4, <2>5
<1>4. CASE Register
  <2> DEFINE m == Head(topbox).from
             c == ServiceOf[m]
  <2>1. /\ UNCHANGED class \/ class' = [class EXCEPT ![c] = AddNode(class[c], m)]
        /\ UNCHANGED wire
    BY <1>4 DEF Register, table
  <2>2. m \in Nodes /\ c \in Classes
    BY <1>4, TopReceiveLemma, RouterAssumption DEF Register, TopMsg
  <2>3. AddNode(class[c], m).last = [class[c].last EXCEPT ![m] = NoMsg]
        /\ class[c].last \in [Nodes -> Requests \cup {NoMsg}]
    BY <2>2, <1>1, AddNodeLast DEF ClassRec
  <2> HIDE DEF m, c
  <2> QED
    BY <2>1, <2>2, <2>3, <1>1 DEF Last
<1>5. CASE Unregister
  <2> DEFINE m == Head(topbox).from
  <2>1. ServiceOf[m] \in Classes
    BY <1>5, TopReceiveLemma, RouterAssumption DEF Unregister, TopMsg
  <2>2. UNCHANGED wire /\ (UNCHANGED class \/ RemoveNode(ServiceOf[m], m, inbox))
    BY <1>5 DEF Unregister, table
  <2> HIDE DEF m
  <2>3. CASE UNCHANGED class
    BY <2>2, <2>3 DEF Last
  <2> QED
    BY <2>1, <2>2, <2>3, <1>1, RemoveNodeLast
<1>6. ASSUME NEW c \in Classes, RemoveBrokenClass(c)
      PROVE  UNCHANGED wire /\ (Last(n)' = Last(n) \/ Last(n)' = NoMsg)
  BY <1>1, <1>6 DEF RemoveBrokenClass, RemoveClass, Last, EmptyClass
<1>7. ASSUME NEW m \in Nodes, JabberDeliver(m)
      PROVE  UNCHANGED class /\ (wire'[n] = wire[n] \/ (m = n /\ wire'[n] = Tail(wire[n])))
  BY <1>1, <1>7 DEF JabberDeliver, table
<1>8. \/ UNCHANGED <<class, wire>> \/ Register \/ Unregister
      \/ \E c \in Classes : RouteRequest(c) \/ RouteBounce(c) \/ RemoveBrokenClass(c)
      \/ \E m \in Nodes : JabberDeliver(m)
  BY DEF Next, RouterStep, Environment, CheckStop, FillFDSet, Select, SelectInterrupted, LoopEnd,
         Signal, TopDrained, AppRequest, NextClass, Query, NodeStart, NodeLeave, NodeReturn, NodeDown,
         ClientSend, ConnectionLost, vars, network, table
<1>9. CASE UNCHANGED <<class, wire>>
  BY <1>9 DEF Last
<1>10. CASE \E c \in Classes : RouteRequest(c) \/ RouteBounce(c) \/ RemoveBrokenClass(c)
  BY <1>2, <1>3, <1>6, <1>9, <1>10
<1>11. CASE \E m \in Nodes : JabberDeliver(m)
  BY <1>7, <1>11 DEF Last
<1> QED
  BY <1>4, <1>5, <1>8, <1>9, <1>10, <1>11
\* The dead stay dead.
LEMMA DeadStaysDead ==
    ASSUME IInv, [Next]_vars, NEW n \in Nodes, node[n] = "down"
    PROVE  node'[n] = "down"
BY CommandsChange DEF IInv, WorldInv, NodeStart, NodeLeave, NodeReturn, NodeDown, Up

\* An error is the answer to a message that was on its way.
LEMMA BouncedNext ==
    ASSUME IInv, [Next]_vars, NEW n \in Nodes, Bounced(n)'
    PROVE  Bounced(n) \/ wire[n] # << >>
<1> DEFINE c == ServiceOf[n]
<1>1. c \in Classes /\ inbox[c] \in Seq(InMsg)
  BY RouterAssumption DEF IInv, TableInv
<1>2. PICK m \in Elems(inbox'[c]) : m.kind = "error" /\ m.from = n
  BY DEF Bounced
<1> HIDE DEF c
<1>3. CASE m \in Elems(inbox[c])
  BY <1>2, <1>3 DEF Bounced, c
<1>4. CASE m \notin Elems(inbox[c])
  <2>1. inbox'[c] # inbox[c] /\ inbox'[c] # << >>
    BY <1>2, <1>4 DEF Elems
  <2>2. ~(ClassReceive(c) /\ inbox'[c] = Tail(inbox[c]))
    BY <1>1, <1>2, <1>4, ClassReceiveNonempty, TailElems
  <2>3. ASSUME NEW l \in InMsg, inbox'[c] = Append(inbox[c], l)
        PROVE  m = l
    BY <2>3, <1>1, <1>2, <1>4, AppendLemma
  <2>4. \A r \in Requests : inbox'[c] # Append(inbox[c], [kind |-> "request", req |-> r])
    <3> SUFFICES ASSUME NEW r \in Requests, inbox'[c] = Append(inbox[c], [kind |-> "request", req |-> r])
                 PROVE  FALSE
      OBVIOUS
    <3>1. [kind |-> "request", req |-> r] \in InMsg
      BY DEF InMsg
    <3>2. m = [kind |-> "request", req |-> r]
      BY <2>3, <3>1
    <3> QED
      BY <3>2, <1>2
  <2>5. PICK l \in Nodes : /\ JabberDeliver(l)
                           /\ inbox'[c] = Append(inbox[c], [kind |-> "error", from |-> l, req |-> Head(wire[l])])
    BY <2>1, <2>2, <2>4, <1>1, InboxChange
  <2>6. wire[l] # << >> /\ wire[l] \in Seq(Requests)
    BY <2>5 DEF JabberDeliver, IInv, TableInv
  <2>7. [kind |-> "error", from |-> l, req |-> Head(wire[l])] \in InMsg
    BY <2>6 DEF InMsg
  <2>8. m = [kind |-> "error", from |-> l, req |-> Head(wire[l])]
    BY <2>3, <2>5, <2>7
  <2>9. l = n
    BY <2>8, <1>2
  <2> QED
    BY <2>6, <2>9
<1> QED
  BY <1>3, <1>4

\* What a step does to the places where a request waits.
LEMMA QueuedNext ==
    ASSUME IInv, [Next]_vars, NEW r \in Requests, NEW c \in Classes
    PROVE  \/ \A i \in Nat : Queued(r, c, i)' => Queued(r, c, i)
           \/ \A i \in Nat : Queued(r, c, i)' => Queued(r, c, i + 1)
           \/ /\ ClientSend(r, c)
              /\ \A i \in Nat : Queued(r, c, i)' => Queued(r, c, i) \/ i = Len(inbox[c]) + 1
<1> DEFINE q == [kind |-> "request", req |-> r]
<1>1. inbox[c] \in Seq(InMsg) /\ Len(inbox[c]) \in Nat /\ DOMAIN inbox[c] = 1 .. Len(inbox[c])
  BY DEF IInv, TableInv
<1>2. CASE inbox'[c] = inbox[c] \/ inbox'[c] = << >>
  BY <1>2 DEF Queued
<1>3. CASE ClassReceive(c) /\ inbox'[c] = Tail(inbox[c])
  <2>1. inbox[c] # << >>
    BY <1>3, ClassReceiveNonempty
  <2>2. /\ DOMAIN inbox'[c] = 1 .. Len(inbox[c]) - 1
        /\ \A i \in 1 .. Len(inbox[c]) - 1 : inbox'[c][i] = inbox[c][i + 1] /\ i + 1 \in DOMAIN inbox[c]
    BY <2>1, <1>1, <1>3
  <2> QED
    BY <2>2 DEF Queued
<1>4. ASSUME NEW m \in InMsg, inbox'[c] = Append(inbox[c], m)
      PROVE  /\ \A i \in Nat : Queued(r, c, i)' => Queued(r, c, i) \/ i = Len(inbox[c]) + 1
             /\ m # q => \A i \in Nat : Queued(r, c, i)' => Queued(r, c, i)
  <2>1. /\ DOMAIN inbox'[c] = 1 .. Len(inbox[c]) + 1 /\ inbox'[c][Len(inbox[c]) + 1] = m
        /\ \A i \in 1 .. Len(inbox[c]) : inbox'[c][i] = inbox[c][i]
    BY <1>1, <1>4
  <2> QED
    BY <2>1, <1>1 DEF Queued
<1>5. CASE \E n \in Nodes : /\ JabberDeliver(n)
                            /\ inbox'[c] = Append(inbox[c],
                                   [kind |-> "error", from |-> n, req |-> Head(wire[n])])
  <2>1. PICK n \in Nodes : /\ JabberDeliver(n)
                           /\ inbox'[c] = Append(inbox[c],
                                  [kind |-> "error", from |-> n, req |-> Head(wire[n])])
    BY <1>5
  <2>2. [kind |-> "error", from |-> n, req |-> Head(wire[n])] \in InMsg
    BY <2>1 DEF JabberDeliver, IInv, TableInv, InMsg
  <2>3. [kind |-> "error", from |-> n, req |-> Head(wire[n])] # q
    <3>1. [kind |-> "error", from |-> n, req |-> Head(wire[n])].kind # q.kind
      OBVIOUS
    <3> QED
      BY <3>1
  <2> QED
    BY <2>1, <2>2, <2>3, <1>4
<1>6. ASSUME NEW s \in Requests, ClientSend(s, c),
             inbox'[c] = Append(inbox[c], [kind |-> "request", req |-> s])
      PROVE  \/ \A i \in Nat : Queued(r, c, i)' => Queued(r, c, i)
             \/ /\ ClientSend(r, c)
                /\ \A i \in Nat : Queued(r, c, i)' => Queued(r, c, i) \/ i = Len(inbox[c]) + 1
  <2>1. [kind |-> "request", req |-> s] \in InMsg
    BY DEF InMsg
  <2>2. CASE s = r
    BY <2>1, <2>2, <1>4, <1>6
  <2>3. CASE s # r
    <3>1. [kind |-> "request", req |-> s].req # q.req
      BY <2>3
    <3>2. [kind |-> "request", req |-> s] # q
      BY <3>1
    <3> QED
      BY <3>2, <2>1, <1>4, <1>6
  <2> QED
    BY <2>2, <2>3
<1> QED
  BY <1>2, <1>3, <1>5, <1>6, InboxChange

\* A step that sends nothing to a node leaves no more with it.
LEMMA WithNext ==
    ASSUME IInv, [Next]_vars, NEW n \in Nodes, NEW r \in Requests,
           Last(n)' = Last(n) \/ Last(n)' = NoMsg,
           wire'[n] = wire[n] \/ (JabberDeliver(n) /\ wire'[n] = Tail(wire[n])),
           With(r, n)'
    PROVE  With(r, n)
<1>1. wire[n] \in Seq(Requests) /\ r # NoMsg /\ node[n] \in {"off", "up", "leaving", "down"}
  BY RouterAssumption DEF IInv, TableInv, WorldInv
<1>2. JabberDeliver(n) => wire[n] # << >>
  BY DEF JabberDeliver
<1>3. /\ wire'[n] # << >> => wire[n] # << >>
      /\ Elems(wire'[n]) \subseteq Elems(wire[n])
  BY <1>1, <1>2, TailElems
<1>4. CASE node'[n] # "down" /\ r \in Elems(wire'[n])
  BY <1>3, <1>4, DeadStaysDead DEF With
<1>5. CASE Last(n)' = r /\ wire'[n] # << >>
  BY <1>1, <1>3, <1>5 DEF With
<1>6. CASE Last(n)' = r /\ Bounced(n)'
  BY <1>1, <1>6, BouncedNext DEF With
<1> QED
  BY <1>4, <1>5, <1>6 DEF With

\* Fewer places, or all of a queue one place further.
LEMMA FewerPlaces ==
    ASSUME NEW r \in Requests, Once(r), \A n \in Nodes : With(r, n)' => With(r, n),
           \A c \in Classes : \/ \A i \in Nat : Queued(r, c, i)' => Queued(r, c, i)
                              \/ \A i \in Nat : Queued(r, c, i)' => Queued(r, c, i + 1)
    PROVE  Once(r)' /\ (Placed(r)' => Placed(r))
<1>1. \A c \in Classes, i \in Nat : Queued(r, c, i)' => \E j \in Nat : Queued(r, c, j)
  <2>1. \A i \in Nat : i + 1 \in Nat
    OBVIOUS
  <2> QED
    BY <2>1
<1>2. ASSUME NEW c \in Classes, NEW d \in Classes, NEW i \in Nat, NEW j \in Nat,
             Queued(r, c, i)', Queued(r, d, j)'
      PROVE  c = d /\ i = j
  <2>1. c = d
    BY <1>1, <1>2 DEF Once
  <2>2. i + 1 \in Nat /\ j + 1 \in Nat
    OBVIOUS
  <2>3. CASE \A l \in Nat : Queued(r, c, l)' => Queued(r, c, l)
    BY <2>1, <2>3, <1>2 DEF Once
  <2>4. CASE \A l \in Nat : Queued(r, c, l)' => Queued(r, c, l + 1)
    <3>1. Queued(r, c, i + 1) /\ Queued(r, c, j + 1)
      BY <2>1, <2>4, <1>2
    <3>2. i + 1 = j + 1
      BY <3>1, <2>2 DEF Once
    <3> QED
      BY <3>2, <2>1
  <2> QED
    BY <2>3, <2>4
<1>3. \A m, n \in Nodes : With(r, m)' /\ With(r, n)' => m = n
  BY DEF Once
<1>4. \A c \in Classes, i \in Nat, n \in Nodes : ~(Queued(r, c, i)' /\ With(r, n)')
  BY <1>1 DEF Once
<1>5. Placed(r)' => Placed(r)
  BY <1>1 DEF Placed
<1> QED
  BY <1>2, <1>3, <1>4, <1>5 DEF Once
\* What a step that routes request r to node p does, for a client ...
LEMMA RequestedStep ==
    ASSUME IInv, NEW c \in Classes, NEW r \in Requests, NEW p, Requested(c, r, p)
    PROVE  /\ Queued(r, c, 1) /\ inbox[c] \in Seq(InMsg) /\ inbox[c] # << >>
           /\ inbox' = [inbox EXCEPT ![c] = Tail(@)]
           /\ GoodClass(c, class[c]) /\ class[c].nodes # << >> /\ p = Pick(class[c])
           /\ HandleMessage(c, class[c], r)
           /\ UNCHANGED <<node, sent, delivered, cancelled>>
<1>1. /\ ClassReceive(c) /\ Head(inbox[c]).kind = "request" /\ r = Head(inbox[c]).req
      /\ HandleMessage(c, class[c], r) /\ inbox' = [inbox EXCEPT ![c] = Tail(@)]
      /\ UNCHANGED <<node, sent, delivered, cancelled>> /\ p = Pick(class[c])
  BY DEF Requested, RouteRequest, world
<1>2. inbox[c] # << >> /\ inbox[c] \in Seq(InMsg)
  BY <1>1, ClassReceiveNonempty DEF IInv, TableInv
<1>3. 1 \in DOMAIN inbox[c] /\ inbox[c][1] = Head(inbox[c]) /\ Head(inbox[c]) \in InMsg
  BY <1>2
<1>4. Head(inbox[c]) = [kind |-> "request", req |-> r]
  BY <1>1, <1>3 DEF InMsg
<1>5. Registered(c) /\ GoodClass(c, class[c]) /\ (Registered(c) <=> class[c].nodes # << >>)
  BY <1>1, ClassReceiveLemma DEF IInv, TableInv
<1> QED
  BY <1>1, <1>2, <1>3, <1>4, <1>5 DEF Queued

\* ... and because an error came from node m.
LEMMA ResentStep ==
    ASSUME IInv, ErrorsFromDead, NEW c \in Classes, NEW m \in Nodes, NEW r \in Requests, NEW p,
           Resent(c, m, r, p)
    PROVE  /\ With(r, m) /\ node[m] = "down" /\ ServiceOf[m] = c /\ Bounced(m)
           /\ DropNode(class[c], m).last = [class[c].last EXCEPT ![m] = NoMsg]
           /\ class[c].last \in [Nodes -> Requests \cup {NoMsg}]
           /\ GoodClass(c, DropNode(class[c], m)) /\ DropNode(class[c], m).nodes # << >>
           /\ m \notin Members(DropNode(class[c], m)) /\ p = Pick(DropNode(class[c], m))
           /\ HandleMessage(c, DropNode(class[c], m), r)
           /\ UNCHANGED <<node, sent, delivered, cancelled>>
<1>1. /\ RouteBounce(c) /\ m = Head(inbox[c]).from /\ m \in Members(class[c])
      /\ Len(class[c].nodes) # 1 /\ r = class[c].last[m] /\ p = Pick(DropNode(class[c], m))
      /\ HandleBounce(c, m, [inbox EXCEPT ![c] = Tail(@)]) /\ r # NoMsg
  BY DEF Resent, RouteBounce
<1>2. HandleMessage(c, DropNode(class[c], m), r) /\ UNCHANGED cancelled
  BY <1>1 DEF HandleBounce
<1>3. GoodClass(c, class[c]) /\ class[c].last \in [Nodes -> Requests \cup {NoMsg}]
  BY DEF IInv, TableInv, ClassRec
<1>4. ServiceOf[m] = c
  BY <1>1, <1>3 DEF GoodClass
<1>5. node[m] = "down" /\ Bounced(m) /\ UNCHANGED <<node, sent, delivered>>
  BY <1>1, <1>4, BounceLemma DEF Bounced
<1>6. /\ GoodClass(c, DropNode(class[c], m)) /\ DropNode(class[c], m).nodes # << >>
      /\ Members(DropNode(class[c], m)) = Members(class[c]) \ {m}
      /\ DropNode(class[c], m).last = [class[c].last EXCEPT ![m] = NoMsg]
  BY <1>1, <1>3, DropNodeKeeps
<1>7. With(r, m)
  BY <1>1, <1>4, <1>5 DEF With, Last
<1> QED
  BY <1>1, <1>2, <1>3, <1>4, <1>5, <1>6, <1>7

\* Both leave the request with node p and nowhere else.
LEMMA RoutedStep ==
    ASSUME IInv, ErrorsFromDead, [Next]_vars, NEW c \in Classes, NEW r \in Requests, NEW p \in Nodes,
           Requested(c, r, p) \/ \E m \in Nodes : Resent(c, m, r, p), Once(r)
    PROVE  /\ Last(p)' = r /\ (wire'[p] = wire[p] \/ wire'[p] = Append(wire[p], r))
           /\ \A n \in Nodes : n # p => /\ Last(n)' = Last(n) \/ Last(n)' = NoMsg
                                        /\ wire'[n] = wire[n]
           /\ UNCHANGED <<node, sent, delivered, cancelled>>
           /\ Placed(r) /\ ~With(r, p)
           /\ \A d \in Classes, i \in Nat : ~Queued(r, d, i)'
           /\ \A n \in Nodes : With(r, n)' => n = p
<1>1. TableInv
  BY DEF IInv
<1>2. CASE Requested(c, r, p)
  <2>1. /\ Queued(r, c, 1) /\ inbox[c] \in Seq(InMsg) /\ inbox[c] # << >>
        /\ inbox' = [inbox EXCEPT ![c] = Tail(@)]
        /\ GoodClass(c, class[c]) /\ class[c].nodes # << >> /\ p = Pick(class[c])
        /\ HandleMessage(c, class[c], r)
        /\ UNCHANGED <<node, sent, delivered, cancelled>>
    BY <1>2, RequestedStep
  <2>2. /\ Last(p)' = r /\ (wire'[p] = wire[p] \/ wire'[p] = Append(wire[p], r))
        /\ \A n \in Nodes : n # p => Last(n)' = Last(n) /\ wire'[n] = wire[n]
    BY <2>1, <1>1, HandleMessageLast DEF Last
  <2>3. \A n \in Nodes : ~With(r, n)
    BY <2>1 DEF Once
  <2>4. Placed(r)
    BY <2>1 DEF Placed
  <2>5. \A n \in Nodes : With(r, n)' => n = p
    BY <2>2, <2>3, WithNext
  <2>6. ASSUME NEW d \in Classes, NEW i \in Nat, Queued(r, d, i)'
        PROVE  FALSE
    <3>1. CASE d # c
      <4>1. inbox'[d] = inbox[d]
        BY <3>1, <2>1, <1>1 DEF TableInv
      <4>2. Queued(r, d, i)
        BY <4>1, <2>6 DEF Queued
      <4> QED
        BY <4>2, <3>1, <2>1 DEF Once
    <3>2. CASE d = c
      <4>1. inbox'[d] = Tail(inbox[c])
        BY <3>2, <2>1, <1>1 DEF TableInv
      <4>2. i >= 1 /\ Queued(r, c, i + 1)
        BY <4>1, <2>6, <2>1 DEF Queued
      <4>3. i + 1 = 1
        BY <4>2, <2>1 DEF Once
      <4> QED
        BY <4>2, <4>3
    <3> QED
      BY <3>1, <3>2
  <2> QED
    BY <2>1, <2>2, <2>3, <2>4, <2>5, <2>6
<1>3. ASSUME NEW m \in Nodes, Resent(c, m, r, p)
      PROVE  /\ Last(p)' = r /\ (wire'[p] = wire[p] \/ wire'[p] = Append(wire[p], r))
             /\ \A n \in Nodes : n # p => /\ Last(n)' = Last(n) \/ Last(n)' = NoMsg
                                          /\ wire'[n] = wire[n]
             /\ UNCHANGED <<node, sent, delivered, cancelled>>
             /\ Placed(r) /\ ~With(r, p)
             /\ \A d \in Classes, i \in Nat : ~Queued(r, d, i)'
             /\ \A n \in Nodes : With(r, n)' => n = p
  <2> DEFINE k == DropNode(class[c], m)
  <2>1. /\ With(r, m) /\ node[m] = "down" /\ ServiceOf[m] = c
        /\ k.last = [class[c].last EXCEPT ![m] = NoMsg]
        /\ class[c].last \in [Nodes -> Requests \cup {NoMsg}]
        /\ GoodClass(c, k) /\ k.nodes # << >> /\ m \notin Members(k) /\ p = Pick(k)
        /\ HandleMessage(c, k, r) /\ UNCHANGED <<node, sent, delivered, cancelled>>
    BY <1>3, ResentStep
  <2> HIDE DEF k
  <2>2. /\ p \in Members(k) /\ Last(p)' = r
        /\ wire'[p] = wire[p] \/ wire'[p] = Append(wire[p], r)
        /\ \A n \in Nodes : n # p => /\ Last(n)' = IF ServiceOf[n] = c THEN k.last[n] ELSE Last(n)
                                     /\ wire'[n] = wire[n]
    BY <2>1, <1>1, HandleMessageLast
  <2>3. m # p /\ Last(m)' = NoMsg
    BY <2>1, <2>2
  <2>4. \A n \in Nodes : n # p => Last(n)' = Last(n) \/ Last(n)' = NoMsg
    BY <2>1, <2>2 DEF Last
  <2>5. Placed(r) /\ ~With(r, p)
    BY <2>1, <2>3 DEF Placed, Once
  <2>6. \A n \in Nodes : With(r, n)' => n = p
    <3>1. \A n \in Nodes : n # p /\ With(r, n)' => With(r, n)
      BY <2>2, <2>4, WithNext
    <3>2. \A n \in Nodes : n # p /\ With(r, n)' => n = m
      BY <3>1, <2>1 DEF Once
    <3>3. ~With(r, m)'
      BY <2>1, <2>3, RouterAssumption DEF With
    <3> QED
      BY <3>2, <3>3
  <2>7. \A d \in Classes, i \in Nat : ~Queued(r, d, i)'
    <3>1. \A d \in Classes, i \in Nat : ~Queued(r, d, i)
      BY <2>1 DEF Once
    <3>2. ASSUME NEW d \in Classes, NEW i \in Nat, Queued(r, d, i)'
          PROVE  FALSE
      <4>1. ~ClientSend(r, d)
        BY <2>1 DEF ClientSend
      <4>2. i + 1 \in Nat
        OBVIOUS
      <4> QED
        BY <3>1, <3>2, <4>1, <4>2, QueuedNext
    <3> QED
      BY <3>2
  <2> QED
    BY <2>1, <2>2, <2>4, <2>5, <2>6, <2>7
<1> QED
  BY <1>2, <1>3
\* The requests after a step that sends one of them to a node.
LEMMA RoutedOutcomes ==
    ASSUME IInv, ErrorsFromDead, RequestsInv, [Next]_vars, Routes
    PROVE  RequestsInv'
<1>1. PICK c \in Classes, s \in Requests, p \in Nodes :
          Requested(c, s, p) \/ \E m \in Nodes : Resent(c, m, s, p)
  BY DEF Routes
<1>2. \A r \in Requests : Once(r) /\ Settled(r)
  BY DEF RequestsInv
<1>3. /\ Last(p)' = s /\ (wire'[p] = wire[p] \/ wire'[p] = Append(wire[p], s))
      /\ \A n \in Nodes : n # p => /\ Last(n)' = Last(n) \/ Last(n)' = NoMsg
                                   /\ wire'[n] = wire[n]
      /\ UNCHANGED <<node, sent, delivered, cancelled>>
      /\ Placed(s) /\ ~With(s, p)
      /\ \A d \in Classes, i \in Nat : ~Queued(s, d, i)'
      /\ \A n \in Nodes : With(s, n)' => n = p
  BY <1>1, <1>2, RoutedStep
<1>4. wire \in [Nodes -> Seq(Requests)]
  BY DEF IInv, TableInv
<1>5. Once(s)' /\ Settled(s)'
  <2>1. Once(s)'
    BY <1>3 DEF Once
  <2>2. Settled(s)'
    BY <1>2, <1>3 DEF Settled
  <2> QED
    BY <2>1, <2>2
<1>6. ASSUME NEW r \in Requests, r # s
      PROVE  Once(r)' /\ Settled(r)'
  <2>1. With(r, p)' => With(r, p)
    <3>1. Elems(wire'[p]) \subseteq Elems(wire[p]) \cup {s}
      <4>1. Elems(Append(wire[p], s)) = Elems(wire[p]) \cup {s}
        BY <1>4, AppendLemma
      <4> QED
        BY <4>1, <1>3
    <3> QED
      BY <3>1, <1>3, <1>6 DEF With
  <2>2. \A n \in Nodes : With(r, n)' => With(r, n)
    BY <2>1, <1>3, WithNext
  <2>3. \A d \in Classes : ~ClientSend(r, d)
    BY <1>3 DEF ClientSend
  <2>4. Once(r)' /\ (Placed(r)' => Placed(r))
    BY <2>2, <2>3, <1>2, QueuedNext, FewerPlaces
  <2>5. Settled(r)'
    BY <2>4, <1>2, <1>3 DEF Settled
  <2> QED
    BY <2>4, <2>5
<1>7. ASSUME NEW n \in Nodes
      PROVE  LastIsLast(n)'
  <2>1. LastIsLast(n) /\ wire[n] \in Seq(Requests) /\ DOMAIN wire[n] = 1 .. Len(wire[n])
    BY <1>4 DEF RequestsInv
  <2>2. CASE n # p
    <3>1. \A i \in DOMAIN wire[n] : wire[n][i] # NoMsg
      BY <2>1, RouterAssumption
    <3> QED
      BY <2>1, <2>2, <3>1, <1>3 DEF LastIsLast
  <2>3. CASE n = p /\ node[n] # "down"
    <3>1. s \notin Elems(wire[n]) /\ NoDup(wire[n])
      BY <2>1, <2>3, <1>3 DEF With, LastIsLast
    <3>2. CASE wire'[n] = wire[n]
      BY <3>1, <3>2, <2>3, <1>3 DEF LastIsLast, Elems
    <3>3. CASE wire'[n] = Append(wire[n], s)
      <4>1. NoDup(wire'[n])
        BY <3>1, <3>3, <2>1, AppendLemma
      <4>2. /\ DOMAIN wire'[n] = 1 .. Len(wire[n]) + 1 /\ Len(wire'[n]) = Len(wire[n]) + 1
            /\ \A i \in 1 .. Len(wire[n]) : wire'[n][i] = wire[n][i] /\ Len(wire[n]) \in Nat
        BY <3>3, <2>1
      <4>3. \A i \in DOMAIN wire'[n] : wire'[n][i] = s => i = Len(wire'[n])
        BY <4>2, <3>1, <2>1 DEF Elems
      <4> QED
        BY <4>1, <4>3, <2>3, <1>3 DEF LastIsLast
    <3> QED
      BY <3>2, <3>3, <2>3, <1>3
  <2>4. CASE node[n] = "down"
    BY <2>4, <1>3 DEF LastIsLast
  <2> QED
    BY <2>2, <2>3, <2>4
<1> QED
  BY <1>5, <1>6, <1>7 DEF RequestsInv

\* A request that reaches its listener is in no place any more.
LEMMA DeliveredGone ==
    ASSUME IInv, ErrorsFromDead, RequestsInv, [Next]_vars, ~Routes,
           NEW n \in Nodes, JabberDeliver(n), Up(n), NEW r \in Requests, r = Head(wire[n])
    PROVE  With(r, n) /\ ~With(r, n)'
<1>1. /\ wire[n] \in Seq(Requests) /\ wire[n] # << >> /\ wire'[n] = Tail(wire[n])
      /\ node'[n] = node[n] /\ node[n] # "down" /\ UNCHANGED class /\ UNCHANGED inbox
  BY DEF IInv, TableInv, JabberDeliver, Up, table
<1>2. LastIsLast(n)
  BY DEF RequestsInv
<1>3. r \in Elems(wire[n]) /\ r \notin Elems(Tail(wire[n]))
  BY <1>1, <1>2, TailElems DEF LastIsLast
<1>4. ~Bounced(n)'
  <2>1. ASSUME NEW m \in Elems(inbox[ServiceOf[n]]), m.kind = "error" PROVE m.from # n
    BY <2>1, <1>1, RouterAssumption DEF ErrorsFromDead, Elems
  <2> QED
    BY <2>1, <1>1 DEF Bounced
<1>5. Last(n)' = r => wire'[n] = << >>
  <2> SUFFICES ASSUME Last(n) = r PROVE Tail(wire[n]) = << >>
    BY <1>1 DEF Last
  <2>1. 1 \in DOMAIN wire[n] /\ wire[n][1] = r
    BY <1>1
  <2>2. Len(wire[n]) = 1
    BY <2>1, <1>1, <1>2 DEF LastIsLast
  <2>3. Tail(wire[n]) \in Seq(Requests) /\ Len(Tail(wire[n])) = 0
    BY <2>2, <1>1
  <2> QED
    BY <2>3, LenLemma
<1> QED
  BY <1>1, <1>3, <1>4, <1>5 DEF With

\* A request that is given up is the last message of a dead node.
LEMMA CancelledGone ==
    ASSUME IInv, ErrorsFromDead, [Next]_vars, NEW c \in Classes, RouteBounce(c),
           NEW r \in Requests, r \in cancelled', r \notin cancelled
    PROVE  \E m \in Nodes : With(r, m) /\ ~With(r, m)'
<1> DEFINE box == [inbox EXCEPT ![c] = Tail(@)]
<1>0. PICK m \in Nodes : m = Head(inbox[c]).from
  BY BounceLemma
<1>1. m \in Members(class[c]) /\ class[c].last[m] = r /\ RemoveNode(c, m, box)
  BY <1>0 DEF RouteBounce, HandleBounce
<1>2. TableInv /\ GoodClass(c, class[c])
  BY DEF IInv, TableInv
<1>3. ServiceOf[m] = c
  BY <1>1, <1>2 DEF GoodClass
<1>4. node[m] = "down" /\ node'[m] = "down" /\ Bounced(m)
  BY <1>0, <1>3, BounceLemma DEF Bounced
<1> HIDE DEF box
<1>5. Last(m)' = NoMsg
  BY <1>1, <1>2, <1>3, RemoveNodeLast
<1>6. With(r, m)
  BY <1>1, <1>3, <1>4 DEF With, Last
<1>7. ~With(r, m)'
  BY <1>4, <1>5, RouterAssumption DEF With
<1> QED
  BY <1>1, <1>6, <1>7
\* What is left of a place that goes, when no other comes.
LEMMA NoPlaceLeft ==
    ASSUME NEW r \in Requests, Once(r), NEW m \in Nodes, With(r, m), ~With(r, m)',
           \A n \in Nodes : With(r, n)' => With(r, n),
           \A c \in Classes : \/ \A i \in Nat : Queued(r, c, i)' => Queued(r, c, i)
                              \/ \A i \in Nat : Queued(r, c, i)' => Queued(r, c, i + 1)
    PROVE  ~Placed(r)'
<1>1. \A n \in Nodes : ~With(r, n)'
  BY DEF Once
<1>2. \A i \in Nat : i + 1 \in Nat
  OBVIOUS
<1>3. \A c \in Classes, i \in Nat : ~Queued(r, c, i)
  BY DEF Once
<1>4. \A c \in Classes, i \in Nat : ~Queued(r, c, i)'
  BY <1>2, <1>3
<1> QED
  BY <1>1, <1>4 DEF Placed

\* What a step tells of a request: it is sent, it reaches its listener, or it is given up.
LEMMA OutcomeChange ==
    ASSUME IInv, [Next]_vars, NEW r \in Requests, \A c \in Classes : ~ClientSend(r, c)
    PROVE  /\ r \in sent' <=> r \in sent
           /\ r \in cancelled => r \in cancelled'
           /\ r \in cancelled' => r \in cancelled \/ \E c \in Classes : RouteBounce(c)
           /\ \/ delivered'[r] = delivered[r]
              \/ \E n \in Nodes : /\ JabberDeliver(n) /\ Up(n) /\ r = Head(wire[n])
                                  /\ delivered'[r] = delivered[r] + 1
           /\ (\E n \in Nodes : JabberDeliver(n)) => UNCHANGED cancelled
           /\ (\E c \in Classes : RouteBounce(c)) => UNCHANGED delivered
<1>1. delivered \in [Requests -> Nat]
  BY DEF IInv, WorldInv
<1>2. ASSUME NEW s \in Requests, NEW c \in Classes, ClientSend(s, c)
      PROVE  /\ s # r /\ sent' = sent \cup {s} /\ UNCHANGED delivered
             /\ cancelled' = cancelled \/ cancelled' = cancelled \cup {s}
  BY <1>2 DEF ClientSend
<1>3. ASSUME NEW n \in Nodes, JabberDeliver(n)
      PROVE  /\ UNCHANGED <<sent, cancelled>>
             /\ \/ delivered'[r] = delivered[r]
                \/ Up(n) /\ r = Head(wire[n]) /\ delivered'[r] = delivered[r] + 1
  BY <1>1, <1>3 DEF JabberDeliver
<1>4. ASSUME NEW c \in Classes, RouteBounce(c)
      PROVE  UNCHANGED <<sent, delivered>> /\ (r \in cancelled => r \in cancelled')
  BY <1>4 DEF RouteBounce, HandleBounce
<1>5. \/ UNCHANGED <<sent, cancelled, delivered>>
      \/ \E s \in Requests, c \in Classes : ClientSend(s, c)
      \/ \E n \in Nodes : JabberDeliver(n)
      \/ \E c \in Classes : RouteBounce(c)
  BY DEF Next, RouterStep, Environment, CheckStop, FillFDSet, Select, SelectInterrupted, LoopEnd,
         Signal, TopDrained, AppRequest, NextClass, Query, NodeStart, NodeLeave, NodeReturn, NodeDown,
         Register, Unregister, RemoveBrokenClass, RouteRequest, ConnectionLost, vars, world
<1>6. CASE UNCHANGED <<sent, cancelled, delivered>>
  BY <1>3, <1>6
<1>7. CASE \E s \in Requests, c \in Classes : ClientSend(s, c)
  BY <1>2, <1>3, <1>4, <1>7
<1>8. CASE \E n \in Nodes : JabberDeliver(n)
  BY <1>3, <1>4, <1>8
<1>9. CASE \E c \in Classes : RouteBounce(c)
  BY <1>3, <1>4, <1>9
<1> QED
  BY <1>5, <1>6, <1>7, <1>8, <1>9

\* A request that its client sends.
LEMMA SentOutcome ==
    ASSUME IInv, RequestsInv, [Next]_vars, NEW r \in Requests, NEW c \in Classes, ClientSend(r, c),
           \A n \in Nodes : With(r, n)' => With(r, n)
    PROVE  Once(r)' /\ Settled(r)'
<1>1. Once(r) /\ Settled(r) /\ inbox \in [Classes -> Seq(InMsg)]
  BY DEF RequestsInv, IInv, TableInv
<1>2. r \notin sent /\ sent' = sent \cup {r} /\ UNCHANGED delivered
  BY DEF ClientSend
<1>3. delivered[r] = 0 /\ r \notin cancelled /\ ~Placed(r)
  BY <1>1, <1>2 DEF Settled
<1>4. \A n \in Nodes : ~With(r, n)'
  BY <1>3 DEF Placed
<1>5. \A d \in Classes, i \in Nat : ~Queued(r, d, i)
  BY <1>3 DEF Placed
<1>6. CASE UNCHANGED inbox
  <2>1. \A d \in Classes, i \in Nat : ~Queued(r, d, i)'
    BY <1>5, <1>6 DEF Queued
  <2>2. Once(r)' /\ ~Placed(r)'
    BY <2>1, <1>4 DEF Once, Placed
  <2> QED
    BY <2>2, <1>2, <1>3 DEF Settled
<1>7. CASE /\ inbox' = [inbox EXCEPT ![c] = Append(@, [kind |-> "request", req |-> r])]
           /\ UNCHANGED cancelled
  <2>1. \A d \in Classes, i \in Nat : d # c => ~Queued(r, d, i)'
    BY <1>1, <1>5, <1>7 DEF Queued
  <2>2. \A i \in Nat : Queued(r, c, i)' => i = Len(inbox[c]) + 1
    <3>1. \A i \in Nat : ~Queued(r, c, i) /\ ~Queued(r, c, i + 1)
      <4>1. \A i \in Nat : i + 1 \in Nat
        OBVIOUS
      <4> QED
        BY <4>1, <1>5
    <3> QED
      BY <3>1, QueuedNext
  <2>3. Once(r)'
    BY <2>1, <2>2, <1>4 DEF Once
  <2> QED
    BY <2>3, <1>2, <1>3, <1>7 DEF Settled
<1> QED
  BY <1>6, <1>7 DEF ClientSend

\* The requests after a step that sends none of them to a node.
LEMMA UnroutedOutcomes ==
    ASSUME IInv, ErrorsFromDead, RequestsInv, [Next]_vars, ~Routes
    PROVE  RequestsInv'
<1>1. \A r \in Requests, n \in Nodes : With(r, n)' => With(r, n)
  BY UnroutedStep, WithNext
<1>2. ASSUME NEW r \in Requests, NEW c \in Classes, ClientSend(r, c)
      PROVE  Once(r)' /\ Settled(r)'
  BY <1>1, <1>2, SentOutcome
<1>3. ASSUME NEW r \in Requests, \A c \in Classes : ~ClientSend(r, c)
      PROVE  Once(r)' /\ Settled(r)'
  <2>1. Once(r) /\ Settled(r) /\ delivered[r] \in Nat
    BY DEF RequestsInv, IInv, WorldInv
  <2>2. \A c \in Classes : \/ \A i \in Nat : Queued(r, c, i)' => Queued(r, c, i)
                           \/ \A i \in Nat : Queued(r, c, i)' => Queued(r, c, i + 1)
    BY <1>3, QueuedNext
  <2>3. Once(r)' /\ (Placed(r)' => Placed(r))
    BY <2>1, <2>2, <1>1, FewerPlaces
  <2>4. ASSUME NEW m \in Nodes, With(r, m), ~With(r, m)'
        PROVE  ~Placed(r)' /\ delivered[r] = 0 /\ r \notin cancelled /\ r \in sent
    <3>1. Placed(r)
      BY <2>4 DEF Placed
    <3>2. ~Placed(r)'
      BY <2>1, <2>2, <2>4, <1>1, NoPlaceLeft
    <3> QED
      BY <3>1, <3>2, <2>1 DEF Settled
  <2>5. CASE \E n \in Nodes : /\ JabberDeliver(n) /\ Up(n) /\ r = Head(wire[n])
                              /\ delivered'[r] = delivered[r] + 1
    <3>1. PICK n \in Nodes : /\ JabberDeliver(n) /\ Up(n) /\ r = Head(wire[n])
                             /\ delivered'[r] = delivered[r] + 1
      BY <2>5
    <3>2. With(r, n) /\ ~With(r, n)'
      BY <3>1, DeliveredGone
    <3>3. ~Placed(r)' /\ delivered'[r] = 1 /\ r \notin cancelled' /\ r \in sent'
      BY <3>1, <3>2, <2>4, <1>3, OutcomeChange
    <3> QED
      BY <3>3, <2>3 DEF Settled
  <2>6. CASE r \in cancelled' /\ r \notin cancelled
    <3>1. PICK c \in Classes : RouteBounce(c)
      BY <2>6, <1>3, OutcomeChange
    <3>2. PICK m \in Nodes : With(r, m) /\ ~With(r, m)'
      BY <3>1, <2>6, CancelledGone
    <3>3. ~Placed(r)' /\ delivered'[r] = 0 /\ r \in sent'
      BY <3>1, <3>2, <2>4, <1>3, OutcomeChange
    <3> QED
      BY <3>3, <2>3 DEF Settled
  <2>7. CASE /\ delivered'[r] = delivered[r]
             /\ (r \in cancelled' <=> r \in cancelled)
             /\ (r \in sent' <=> r \in sent)
    BY <2>1, <2>3, <2>7 DEF Settled
  <2> QED
    BY <2>5, <2>6, <2>7, <1>3, OutcomeChange
<1>4. ASSUME NEW n \in Nodes
      PROVE  LastIsLast(n)'
  <2>1. /\ LastIsLast(n) /\ wire[n] \in Seq(Requests) /\ DOMAIN wire[n] = 1 .. Len(wire[n])
        /\ Len(wire[n]) \in Nat
    BY DEF RequestsInv, IInv, TableInv
  <2>2. Last(n)' = Last(n) \/ Last(n)' = NoMsg
    BY UnroutedStep
  <2>3. node'[n] # "down" => node[n] # "down"
    BY DeadStaysDead
  <2>4. \A i \in DOMAIN wire[n] : wire[n][i] # NoMsg
    BY <2>1, RouterAssumption
  <2>5. CASE wire'[n] = wire[n]
    BY <2>1, <2>2, <2>3, <2>4, <2>5 DEF LastIsLast
  <2>6. CASE JabberDeliver(n) /\ wire'[n] = Tail(wire[n])
    <3>1. wire[n] # << >>
      BY <2>6 DEF JabberDeliver
    <3>2. /\ DOMAIN wire'[n] = 1 .. Len(wire[n]) - 1 /\ Len(wire'[n]) = Len(wire[n]) - 1
          /\ \A i \in 1 .. Len(wire[n]) - 1 : wire'[n][i] = wire[n][i + 1] /\ i + 1 \in DOMAIN wire[n]
      BY <3>1, <2>1, <2>6
    <3>3. NoDup(wire[n]) => NoDup(wire'[n])
      BY <3>1, <2>1, <2>6, TailElems
    <3>4. ASSUME node[n] # "down", NEW i \in DOMAIN wire'[n], wire'[n][i] = Last(n)'
          PROVE  i = Len(wire'[n])
      <4>1. i + 1 \in DOMAIN wire[n] /\ wire[n][i + 1] = Last(n)' /\ i \in Nat
        BY <3>2, <3>4
      <4>2. Last(n)' = Last(n)
        BY <4>1, <2>2, <2>4
      <4>3. i + 1 = Len(wire[n])
        BY <4>1, <4>2, <3>4, <2>1 DEF LastIsLast
      <4> QED
        BY <4>1, <4>3, <3>2, <2>1
    <3> QED
      BY <3>3, <3>4, <2>1, <2>3 DEF LastIsLast
  <2> QED
    BY <2>5, <2>6, UnroutedStep
<1> QED
  BY <1>2, <1>3, <1>4 DEF RequestsInv

LEMMA RequestsInvInit == Init => RequestsInv
<1> SUFFICES ASSUME Init PROVE RequestsInv
  OBVIOUS
<1>1. /\ \A c \in Classes : inbox[c] = << >> /\ class[c] = EmptyClass
      /\ \A n \in Nodes : wire[n] = << >> /\ ServiceOf[n] \in Classes
      /\ \A r \in Requests : delivered[r] = 0 /\ r \notin sent /\ r \notin cancelled
  BY RouterAssumption DEF Init
<1>2. \A r \in Requests, c \in Classes, i \in Nat : ~Queued(r, c, i)
  BY <1>1 DEF Queued
<1>3. ASSUME NEW n \in Nodes
      PROVE  Last(n) = NoMsg /\ Elems(wire[n]) = {}
  <2>1. class[ServiceOf[n]].last[n] = NoMsg
    BY <1>1 DEF EmptyClass
  <2>2. wire[n] = << >> /\ DOMAIN << >> = {}
    BY <1>1
  <2> QED
    BY <2>1, <2>2 DEF Last, Elems
<1>4. \A r \in Requests, n \in Nodes : ~With(r, n)
  BY <1>3, RouterAssumption DEF With
<1>5. \A r \in Requests : Once(r) /\ Settled(r)
  BY <1>1, <1>2, <1>4 DEF Once, Settled, Placed
<1>6. ASSUME NEW n \in Nodes
      PROVE  LastIsLast(n)
  <2>1. wire[n] = << >> /\ DOMAIN << >> = {}
    BY <1>1
  <2>2. DOMAIN wire[n] = {}
    BY <2>1
  <2>3. NoDup(wire[n])
    BY <2>2 DEF NoDup
  <2> QED
    BY <2>2, <2>3 DEF LastIsLast
<1> QED
  BY <1>5, <1>6 DEF RequestsInv

\* A request reaches one listener at most, once, and its sender is told of a failure only
\* when none has got it (osrfRouterClassHandleMessage, osrfRouterClassHandleBounce), however
\* the listeners die, register and unregister meanwhile.
THEOREM RequestsHaveOneOutcome == Spec => []OneOutcome
<1>1. IInv /\ ListenersInv /\ RequestsInv /\ [Next]_vars => RequestsInv'
  BY RoutedOutcomes, UnroutedOutcomes DEF ListenersInv
<1>2. IInv /\ RequestsInv => OneOutcome
  BY DEF RequestsInv, Settled, OneOutcome, AtMostOnce, CancelledIsUndelivered, IInv, WorldInv
<1> QED
  BY <1>1, <1>2, RequestsInvInit, ListenersInvInit, ListenersInvNext, Invariance, PTL DEF Spec
=============================================================================
