-------------------------- MODULE AppSessionProofs --------------------------
(***************************************************************************)
(* Proofs about AppSession: whatever the number of requests and workers,   *)
(* and while methods keep to their interface, the variables keep their     *)
(* types; and with a client that awaits its answers before it connects or  *)
(* disconnects, a request runs once unless its worker died, its results    *)
(* come as they were made, the session is connected to a worker that has   *)
(* it, and no request is forgotten.                                        *)
(***************************************************************************)
EXTENDS AppSession, SequenceTheorems, TLAPS

-----------------------------------------------------------------------------
(* Types.                                                                  *)

\* What the client sends, and what comes to it.
Out == [type : {"REQUEST"}, req : Reqs] \cup [type : {"CONNECT", "DISCONNECT"}, req : 0 .. MaxReqs]
Back ==
    [from : Drones, kind : AnswerKinds, req : Reqs, k : Ks]
    \cup [from : Drones \cup {Router}, kind : {"BOUNCE"}, req : 0 .. MaxReqs, k : Ks]
    \cup [from : Drones, kind : {"OK"}, req : 0 .. MaxReqs, k : Ks]
    \cup [from : Drones, kind : {"TIMEOUT"}, req : {0}, k : Ks]
Work == [drone : Drones, req : Reqs, todo : Seq(Part)]

SessionType ==
    /\ state \in {"DISCONNECTED", "CONNECTING", "CONNECTED"}
    /\ remote \in Drones \cup {Router} /\ peer \in Drones \cup {Router}
    /\ terr \in BOOLEAN /\ trace \in 0 .. MaxReqs /\ connects \in 0 .. MaxConnects
    /\ faults \in Faults
RequestType ==
    /\ queue \in [Reqs -> Seq(Ks)] /\ got \in [Reqs -> Seq(Ks)] /\ parts \in [Reqs -> Seq(Ks)]
    /\ complete \in [Reqs -> BOOLEAN]
HashType == hash \in [0 .. HashSize - 1 -> Seq(Reqs)]
OpNames == {"none", "request", "connect", "connecting", "disconnect", "recv"}
OpType ==
    /\ op \in [name : OpNames, req : 0 .. MaxReqs]
    /\ op.name \in {"request", "recv"} => op.req \in Reqs
StackType == stack \in Seq(Out)
NetType == toRouter \in Seq(Out) /\ toDrone \in [Drones -> Seq(Out)]
InboxType == inbox \in Seq(Back)
ServerType ==
    /\ bound \subseteq Drones /\ dead \subseteq Drones /\ bound \cap dead = {}
    /\ work \subseteq Work
HistoryType == starts \in [Reqs -> Nat] /\ lost \subseteq Reqs
TypeInv ==
    /\ SessionType /\ RequestType /\ HashType /\ OpType /\ StackType /\ NetType
    /\ InboxType /\ ServerType /\ HistoryType

-----------------------------------------------------------------------------
(* The invariants.                                                         *)

\* A call's own send is at the bottom of the stack; the others send a request again.
OwnSend ==
    /\ op.name = "none" => stack = << >>
    /\ op.name = "request" => stack # << >> /\ op.req = trace
         /\ stack[1] = [type |-> "REQUEST", req |-> trace]
    /\ op.name = "connect" => stack # << >> /\ stack[1] = [type |-> "CONNECT", req |-> trace]
    /\ op.name = "disconnect" => stack # << >> /\ stack[1] = [type |-> "DISCONNECT", req |-> trace]
    /\ \A i \in DOMAIN stack : stack[i].type # "REQUEST" => i = 1 /\ op.name \in {"connect", "disconnect"}

\* Sequence s has a message about request r, one at most, one that ends it.
Names(s, r) == \E i \in DOMAIN s : s[i].req = r
Once(s, r) == \A i, j \in DOMAIN s : s[i].req = r /\ s[j].req = r => i = j
Ended(s, r) == \E i \in DOMAIN s : s[i].req = r /\ s[i].kind \in Ends
Worked(r) == \E w \in work : w.req = r
Droned(r) == \E d \in Drones : Names(toDrone[d], r)

\* Something is to come of a request that is not complete in one place at most.
OnePlace(r) ==
    /\ Once(stack, r) /\ Once(toRouter, r)
    /\ \A d \in Drones : Once(toDrone[d], r)
    /\ \A d, e \in Drones : Names(toDrone[d], r) /\ Names(toDrone[e], r) => d = e
    /\ \A v, w \in work : v.req = r /\ w.req = r => v = w
    /\ Names(stack, r) => ~Names(toRouter, r) /\ ~Droned(r) /\ ~Worked(r) /\ ~Ended(inbox, r)
    /\ Names(toRouter, r) => ~Droned(r) /\ ~Worked(r) /\ ~Ended(inbox, r)
    /\ Droned(r) => ~Worked(r) /\ ~Ended(inbox, r)
    /\ Worked(r) => ~Ended(inbox, r)

\* ... and what ends it is the last of it.
EndsLast(r) ==
    \A i, j \in DOMAIN inbox : inbox[i].req = r /\ inbox[j].req = r /\ inbox[i].kind \in Ends => j <= i

\* Nothing is to come of a complete one.
Settled(r) ==
    /\ ~In(stack, r) /\ ~In(toRouter, r) /\ (\A d \in Drones : ~In(toDrone[d], r)) /\ ~Worked(r)
    /\ \A i \in DOMAIN inbox : inbox[i].req = r => inbox[i].kind \notin AnswerKinds

Placed == \A r \in Reqs : IF complete[r] THEN Settled(r) ELSE OnePlace(r) /\ EndsLast(r)

\* Connects and disconnects name the last request, which is complete or was lost.
Bystanders(s) == \A i \in DOMAIN s : s[i].type # "REQUEST" /\ s[i].req # 0 => complete[s[i].req]
  \/ s[i].req \in lost
NamedDone == Bystanders(stack) /\ Bystanders(toRouter) /\ \A d \in Drones : Bystanders(toDrone[d])

\* There is nothing of a request before its call.
Fresh ==
    \A r \in Reqs : r > trace =>
      /\ ~Names(stack, r) /\ ~Names(toRouter, r) /\ ~Droned(r) /\ ~Worked(r) /\ ~Names(inbox, r)
      /\ ~complete[r] /\ r \notin lost /\ starts[r] = 0
      /\ got[r] = << >> /\ queue[r] = << >> /\ parts[r] = << >>

\* A request that was not lost is begun once, and not at all as long as it is on its way.
OnWay(r) ==
    \/ In(stack, r) \/ In(toRouter, r) \/ \E d \in Drones : In(toDrone[d], r)
    \/ ~complete[r] /\ \E i \in DOMAIN inbox : inbox[i].req = r /\ inbox[i].kind = "BOUNCE"
Begun == \A r \in Reqs \ lost : starts[r] <= 1 /\ (OnWay(r) => starts[r] = 0)

\* Connected, nothing is to come of a request that was lost.
LostQuiet ==
    state = "CONNECTED" /\ op.name # "disconnect" =>
      \A r \in lost : ~complete[r] =>
        ~Names(stack, r) /\ ~Names(toRouter, r) /\ ~Droned(r) /\ ~Worked(r) /\ ~Ended(inbox, r)

\* What the next invariants are about.
AllComplete == \A r \in 1 .. trace : complete[r]
Ok(i) == i \in DOMAIN inbox /\ inbox[i].kind = "OK"
RouterBounce(i) == i \in DOMAIN inbox /\ inbox[i].kind = "BOUNCE" /\ inbox[i].from = Router
Asks(i) == i \in DOMAIN toRouter /\ toRouter[i].type = "CONNECT"
AllDead == Drones \subseteq dead

\* While the client connects, ...
ConnectWaits ==
    /\ op.name \in {"connect", "connecting"} => AllComplete
    /\ op.name = "connect" => /\ state # "CONNECTED" /\ Len(stack) = 1 /\ \A i \in DOMAIN inbox : ~Ok(i)
                              /\ AllDead \/ \A i \in DOMAIN toRouter : ~Asks(i)
    /\ op.name = "connecting" => stack = << >>
OkAwaited ==
    \A i \in DOMAIN inbox : Ok(i) =>
      /\ op.name = "connecting" /\ state # "CONNECTED" /\ toRouter = << >> /\ ~terr
      /\ \A j \in DOMAIN inbox : ~RouterBounce(j) /\ (Ok(j) => i = j)
AskedOnce ==
    \A i \in DOMAIN toRouter : Asks(i) =>
      \/ AllDead
      \/ op.name = "connecting" /\ state # "CONNECTED" /\ i = Len(toRouter) /\ \A j \in DOMAIN inbox : ~Ok(j)
RouterLeft == terr \/ (\E i \in DOMAIN inbox : RouterBounce(i)) => AllDead
AskedByRouter == \A d \in Drones : \A i \in DOMAIN toDrone[d] : toDrone[d][i].type # "CONNECT"
\* ... and when it is connected.
ConnectedQuiet ==
    state = "CONNECTED" =>
      /\ toRouter = << >> /\ ~terr
      /\ \A i \in DOMAIN inbox : ~Ok(i) /\ ~RouterBounce(i)
Connecting == ConnectWaits /\ OkAwaited /\ AskedOnce /\ RouterLeft /\ AskedByRouter /\ ConnectedQuiet

\* Connected, the session sends its requests to its peer, and its answers come from there.
AtPeer ==
    state = "CONNECTED" =>
      /\ remote = peer /\ peer \in Drones
      /\ \A d \in Drones \ {peer} : \A i \in DOMAIN toDrone[d] : toDrone[d][i].type # "REQUEST"
      /\ \A w \in work : w.drone = peer
      /\ \A i \in DOMAIN inbox : inbox[i].kind \in AnswerKinds => inbox[i].from = peer

\* As long as no worker gives the session up.
Keeps(d) == d \in bound /\ \A i \in DOMAIN toDrone[d] : toDrone[d][i].type # "DISCONNECT"
HeldInv ==
    /\ \A d \in Drones \ dead : toDrone[d] # << >> => d \in bound
    /\ \A d \in Drones \ dead : \A i \in DOMAIN toDrone[d] : toDrone[d][i].type = "DISCONNECT"
         => i = Len(toDrone[d])
    /\ state = "CONNECTED" /\ peer \notin dead => Keeps(peer)
    /\ \A i \in DOMAIN inbox : Ok(i) /\ inbox[i].from \notin dead => Keeps(inbox[i].from)

\* What is left of an answer is an answer.
WorkInv == \A w \in work : EndsWell(w.todo) /\ Chained(w.todo)

\* The results of a request so far, and the last response of it that came.
Results(r) == got[r] \o queue[r]
Open(r) == parts[r] # << >>
Count(r) == Len(Results(r)) + IF Open(r) THEN 1 ELSE 0
Numbered(r) ==
    /\ \A i \in DOMAIN Results(r) : Results(r)[i] = i
    /\ \A i \in DOMAIN parts[r] : parts[r][i] = Len(Results(r)) + 1

\* The answers to r among the messages s are such as come when n is the last response, open
\* or not, and m may come after them.
IsAnswer(s, i, r) == s[i].req = r /\ s[i].kind \in AnswerKinds
Among(s, i, j, r) == \E l \in DOMAIN s : i < l /\ l < j /\ IsAnswer(s, l, r)
InOrder(s, r, open, n) ==
    /\ \A i \in DOMAIN s : IsAnswer(s, i, r) /\ ~Among(s, 0, i, r) => Fits(open, n, s[i])
    /\ \A i, j \in DOMAIN s :
         i < j /\ IsAnswer(s, i, r) /\ IsAnswer(s, j, r) /\ ~Among(s, i, j, r) => FitsAfter(s[i], s[j])
MayFollow(s, r, open, n, m) ==
    /\ (\A i \in DOMAIN s : ~IsAnswer(s, i, r)) => Fits(open, n, m)
    /\ \A i \in DOMAIN s : IsAnswer(s, i, r) /\ ~Among(s, i, Len(s) + 1, r) => FitsAfter(s[i], m)

\* What comes of r follows what has come; nothing has come of one that no worker has read.
Sequel(r) ==
    /\ InOrder(inbox, r, Open(r), Count(r))
    /\ \A w \in work : w.req = r => MayFollow(inbox, r, Open(r), Count(r), w.todo[1])
Untouched(r) ==
    /\ Results(r) = << >> /\ parts[r] = << >>
    /\ \A i \in DOMAIN inbox : ~IsAnswer(inbox, i, r)
ResultsInv ==
    \A r \in Reqs \ lost : Numbered(r) /\ (OnWay(r) => Untouched(r)) /\ (Findable(r) => Sequel(r))

CalmInv == Placed /\ NamedDone /\ Fresh /\ Begun /\ LostQuiet /\ Connecting /\ AtPeer /\ ResultsInv

\* The client awaits its answers before it connects or disconnects; no worker gives the
\* session up while the client keeps it.
Calm == "overlap" \notin faults
Patient == "expire" \notin faults

-----------------------------------------------------------------------------
(* Sequences.                                                              *)

\* Sequence u is s and then e.
Longer(S, s, e, u) ==
    /\ u \in Seq(S) /\ Len(u) = Len(s) + 1 /\ Len(s) \in Nat
    /\ DOMAIN u = 1 .. Len(u) /\ DOMAIN s = 1 .. Len(s)
    /\ u[Len(u)] = e /\ Len(u) \in DOMAIN u
    /\ \A i \in DOMAIN s : i \in DOMAIN u /\ u[i] = s[i] /\ i < Len(u)
    /\ \A i \in DOMAIN u : i = Len(u) \/ i \in DOMAIN s

\* Sequence t is s without its first element,
Shorter(S, s, t) ==
    /\ t \in Seq(S) /\ Len(t) = Len(s) - 1 /\ Len(s) \in Nat
    /\ DOMAIN t = 1 .. Len(t) /\ DOMAIN s = 1 .. Len(s)
    /\ Head(s) = s[1] /\ 1 \in DOMAIN s /\ s[1] \in S
    /\ \A i \in DOMAIN t : i + 1 \in DOMAIN s /\ t[i] = s[i + 1]
    /\ \A i \in DOMAIN s : i = 1 \/ (i - 1 \in DOMAIN t /\ t[i - 1] = s[i])

\* ... without its last one,
Front(S, s, t) ==
    /\ t \in Seq(S) /\ Len(t) = Len(s) - 1 /\ Len(s) \in Nat
    /\ DOMAIN t = 1 .. Len(t) /\ DOMAIN s = 1 .. Len(s)
    /\ Len(s) \in DOMAIN s /\ s[Len(s)] \in S
    /\ \A i \in DOMAIN t : i \in DOMAIN s /\ t[i] = s[i] /\ i # Len(s)
    /\ \A i \in DOMAIN s : i = Len(s) \/ i \in DOMAIN t

\* ... without its first n.
Dropped(S, s, n, t) ==
    /\ t \in Seq(S) /\ Len(t) = Len(s) - n /\ Len(s) \in Nat /\ n \in Nat /\ n <= Len(s)
    /\ DOMAIN t = 1 .. Len(t) /\ DOMAIN s = 1 .. Len(s)
    /\ \A i \in DOMAIN t : i \in Nat /\ i + n \in DOMAIN s /\ t[i] = s[i + n]
    /\ \A i \in DOMAIN s : i \in 1 .. n \/ (i - n \in DOMAIN t /\ t[i - n] = s[i])

LEMMA AppendFacts ==
    ASSUME NEW S, NEW s \in Seq(S), NEW e \in S, NEW u, u = Append(s, e)
    PROVE  Longer(S, s, e, u)
  BY DEF Longer

LEMMA TailFacts ==
    ASSUME NEW S, NEW s \in Seq(S), s # << >>, NEW t, t = Tail(s)
    PROVE  Shorter(S, s, t)
  BY DEF Shorter

LEMMA FrontFacts ==
    ASSUME NEW S, NEW s \in Seq(S), s # << >>, NEW t, t = SubSeq(s, 1, Len(s) - 1)
    PROVE  Front(S, s, t)
<1>1. Len(s) \in Nat /\ Len(s) >= 1 /\ DOMAIN s = 1 .. Len(s) /\ \A i \in 1 .. Len(s) : s[i] \in S
  OBVIOUS
<1>2. \A i \in 1 .. Len(s) - 1 : s[i] \in S
  BY <1>1
<1>3. t \in Seq(S) /\ Len(t) = Len(s) - 1 /\ \A i \in 1 .. Len(s) - 1 : t[i] = s[i]
  BY <1>1, <1>2
<1>4. DOMAIN t = 1 .. Len(t)
  BY <1>3
<1> QED
  BY <1>1, <1>3, <1>4 DEF Front

LEMMA RestFacts ==
    ASSUME NEW S, NEW s \in Seq(S), NEW n \in 0 .. Len(s)
    PROVE  /\ SubSeq(s, n + 1, Len(s)) \in Seq(S)
           /\ Len(SubSeq(s, n + 1, Len(s))) = Len(s) - n
           /\ \A i \in 1 .. Len(s) - n : SubSeq(s, n + 1, Len(s))[i] = s[n + i]
  OBVIOUS

LEMMA DropFacts ==
    ASSUME NEW S, NEW s \in Seq(S), NEW n \in 0 .. Len(s), NEW t, t = SubSeq(s, n + 1, Len(s))
    PROVE  Dropped(S, s, n, t)
<1>1. Len(s) \in Nat /\ DOMAIN s = 1 .. Len(s) /\ n \in Nat /\ n <= Len(s)
  OBVIOUS
<1>2. /\ t \in Seq(S) /\ Len(t) = Len(s) - n
      /\ \A i \in 1 .. Len(s) - n : t[i] = s[n + i]
  BY RestFacts
<1>3. DOMAIN t = 1 .. Len(t)
  BY <1>2
<1>4. ASSUME NEW i \in DOMAIN s, ~(i \in 1 .. n)
      PROVE  i - n \in DOMAIN t /\ t[i - n] = s[i]
  <2>1. i \in 1 .. Len(s)
    BY <1>1, <1>4
  <2>2. i - n \in 1 .. Len(s) - n /\ n + (i - n) = i
    BY <1>1, <1>4, <2>1
  <2> QED
    BY <1>2, <1>3, <2>2
<1>5. ASSUME NEW i \in DOMAIN t PROVE i \in Nat /\ i + n \in DOMAIN s /\ t[i] = s[i + n]
  <2>1. i \in 1 .. Len(s) - n
    BY <1>2, <1>3, <1>5
  <2>2. i + n \in 1 .. Len(s) /\ i + n = n + i /\ i \in Nat
    BY <1>1, <2>1
  <2> QED
    BY <1>1, <1>2, <2>1, <2>2
<1> QED
  BY <1>1, <1>2, <1>3, <1>4, <1>5 DEF Dropped

\* What sequence u has, which is s and message e at one of its ends.
Adds(s, e, u, r) ==
    /\ Names(u, r) <=> Names(s, r) \/ e.req = r
    /\ In(u, r) <=> In(s, r) \/ (e.req = r /\ e.type = "REQUEST")
    /\ Ended(u, r) <=> Ended(s, r) \/ (e.req = r /\ e.kind \in Ends)
    /\ Once(s, r) /\ (e.req = r => ~Names(s, r)) <=> Once(u, r)

\* f places the elements of s in u, everywhere but at p.
Spread(s, u, p, f) ==
    /\ p \in DOMAIN u
    /\ \A i \in DOMAIN s : f[i] \in DOMAIN u /\ u[f[i]] = s[i] /\ f[i] # p
    /\ \A i, j \in DOMAIN s : f[i] = f[j] => i = j
    /\ \A j \in DOMAIN u : j = p \/ \E i \in DOMAIN s : f[i] = j

LEMMA AddsLemma ==
    ASSUME NEW s, NEW e, NEW u, NEW r, NEW p, NEW f, Spread(s, u, p, f), u[p] = e
    PROVE  Adds(s, e, u, r)
<1>1. Names(u, r) <=> Names(s, r) \/ e.req = r
  BY DEF Names, Spread
<1>2. In(u, r) <=> In(s, r) \/ (e.req = r /\ e.type = "REQUEST")
  BY DEF In, Spread
<1>3. Ended(u, r) <=> Ended(s, r) \/ (e.req = r /\ e.kind \in Ends)
  BY DEF Ended, Spread
<1>4. ASSUME Once(s, r), e.req = r => ~Names(s, r) PROVE Once(u, r)
  BY <1>4 DEF Once, Names, Spread
<1>5. ASSUME Once(u, r) PROVE Once(s, r)
  BY <1>5 DEF Once, Spread
<1>6. ASSUME Once(u, r), e.req = r PROVE ~Names(s, r)
  BY <1>6 DEF Once, Names, Spread
<1> QED
  BY <1>1, <1>2, <1>3, <1>4, <1>5, <1>6 DEF Adds

LEMMA AppendAdds ==
    ASSUME NEW S, NEW s \in Seq(S), NEW e \in S, NEW u, u = Append(s, e), NEW r
    PROVE  Adds(s, e, u, r)
<1>1. Longer(S, s, e, u)
  BY AppendFacts
<1> DEFINE f == [i \in DOMAIN s |-> i]
<1>2. \A i \in DOMAIN s : f[i] = i /\ i # Len(u)
  BY <1>1 DEF Longer
<1> HIDE DEF f
<1>3. Spread(s, u, Len(u), f) /\ u[Len(u)] = e
  BY <1>1, <1>2 DEF Longer, Spread
<1> QED
  BY <1>3, AddsLemma

LEMMA FrontAdds ==
    ASSUME NEW S, NEW s \in Seq(S), s # << >>, NEW t, t = SubSeq(s, 1, Len(s) - 1), NEW r
    PROVE  Adds(t, s[Len(s)], s, r)
<1>1. Front(S, s, t)
  BY FrontFacts
<1> DEFINE f == [i \in DOMAIN t |-> i]
<1>2. \A i \in DOMAIN t : f[i] = i /\ i # Len(s)
  BY <1>1 DEF Front
<1> HIDE DEF f
<1>3. Spread(t, s, Len(s), f)
  BY <1>1, <1>2 DEF Front, Spread
<1> QED
  BY <1>3, AddsLemma

LEMMA TailAdds ==
    ASSUME NEW S, NEW s \in Seq(S), s # << >>, NEW t, t = Tail(s), NEW r
    PROVE  Adds(t, Head(s), s, r)
<1>1. Shorter(S, s, t)
  BY TailFacts
<1> DEFINE f == [i \in DOMAIN t |-> i + 1]
<1>2. \A i \in DOMAIN t : f[i] = i + 1 /\ f[i] # 1 /\ i \in Nat
  BY <1>1 DEF Shorter
<1>3. \A j \in DOMAIN s : j = 1 \/ (j - 1 \in DOMAIN t /\ f[j - 1] = j)
  BY <1>1 DEF Shorter
<1> HIDE DEF f
<1>4. \A i, j \in DOMAIN t : f[i] = f[j] => i = j
  BY <1>2
<1>5. \A j \in DOMAIN s : j = 1 \/ \E i \in DOMAIN t : f[i] = j
  BY <1>3
<1>6. \A i \in DOMAIN t : f[i] \in DOMAIN s /\ s[f[i]] = t[i] /\ f[i] # 1
  BY <1>1, <1>2 DEF Shorter
<1>7. Spread(t, s, 1, f) /\ s[1] = Head(s)
  BY <1>1, <1>4, <1>5, <1>6 DEF Shorter, Spread
<1> QED
  BY <1>7, AddsLemma

\* The same for a sequence without its first n messages.
Leaves(s, n, t, r) ==
    /\ Names(t, r) => Names(s, r)
    /\ In(t, r) => In(s, r)
    /\ In(s, r) => In(t, r) \/ \E i \in 1 .. n : s[i].req = r /\ s[i].type = "REQUEST"
    /\ Once(s, r) => Once(t, r)
    /\ Once(s, r) => \A i \in 1 .. n : s[i].req = r => ~Names(t, r)

LEMMA DropLeaves ==
    ASSUME NEW S, NEW s \in Seq(S), NEW n \in 0 .. Len(s), NEW t, t = SubSeq(s, n + 1, Len(s)), NEW r
    PROVE  Leaves(s, n, t, r)
<1>1. \A i \in DOMAIN t : i \in Nat /\ i + n \in DOMAIN s /\ t[i] = s[i + n]
  BY DropFacts DEF Dropped
<1>2. \A i \in DOMAIN s : i \in 1 .. n \/ (i - n \in DOMAIN t /\ t[i - n] = s[i])
  BY DropFacts DEF Dropped
<1>3. n \in Nat /\ \A i \in 1 .. n : i \in DOMAIN s
  BY DropFacts DEF Dropped
<1>4. \A i \in DOMAIN t : \E j \in DOMAIN s : s[j] = t[i]
  BY <1>1
<1>5. \A i \in DOMAIN s : i \in 1 .. n \/ \E j \in DOMAIN t : t[j] = s[i]
  BY <1>2
<1>6. Names(t, r) => Names(s, r)
  BY <1>4 DEF Names
<1>7. In(t, r) => In(s, r)
  BY <1>4 DEF In
<1>8. In(s, r) => In(t, r) \/ \E i \in 1 .. n : s[i].req = r /\ s[i].type = "REQUEST"
  BY <1>5 DEF In
<1>9. ASSUME Once(s, r), NEW i \in DOMAIN t, NEW j \in DOMAIN t, t[i].req = r, t[j].req = r
      PROVE  i = j
  <2>1. i \in Nat /\ i + n \in DOMAIN s /\ s[i + n].req = r
    BY <1>1, <1>9
  <2>2. j \in Nat /\ j + n \in DOMAIN s /\ s[j + n].req = r
    BY <1>1, <1>9
  <2>3. i + n = j + n
    BY <1>9, <2>1, <2>2 DEF Once
  <2> QED
    BY <1>3, <2>1, <2>2, <2>3
<1>10. ASSUME Once(s, r), NEW i \in 1 .. n, s[i].req = r, NEW j \in DOMAIN t, t[j].req = r
       PROVE  FALSE
  <2>1. j \in Nat /\ j + n \in DOMAIN s /\ s[j + n].req = r
    BY <1>1, <1>10
  <2>2. i \in DOMAIN s /\ i \in Nat /\ i <= n
    BY <1>3, <1>10
  <2>3. j + n = i
    BY <1>10, <2>1, <2>2 DEF Once
  <2>4. j = 0
    BY <1>3, <2>1, <2>2, <2>3
  <2>5. DOMAIN t = 1 .. Len(t) /\ Len(t) \in Nat
    BY DropFacts DEF Dropped
  <2> QED
    BY <1>10, <2>4, <2>5
<1> QED
  BY <1>6, <1>7, <1>8, <1>9, <1>10 DEF Leaves, Names, Once

-----------------------------------------------------------------------------
(* Types.                                                                  *)

LEMMA SlotType == \A r \in Reqs : Slot(r) \in 0 .. HashSize - 1
  BY ConstantsOK DEF Slot, Reqs

LEMMA AnswerType ==
    ASSUME NEW a \in Answers
    PROVE  a \in Seq(Part) /\ EndsWell(a) /\ Chained(a) /\ Fits(FALSE, 0, a[1])
  BY AnswersAssumption

LEMMA BackFields ==
    ASSUME NEW m \in Back
    PROVE  /\ m.kind \in Kinds /\ m.from \in Drones \cup {Router} /\ m.req \in 0 .. MaxReqs /\ m.k \in Ks
           /\ m.kind \in AnswerKinds => m.req \in Reqs
           /\ m.kind # "BOUNCE" => m.from \in Drones
           /\ m.kind = "TIMEOUT" => m.req = 0
           /\ m.kind \notin {"OK", "TIMEOUT", "BOUNCE"} => m.kind \in AnswerKinds
  BY ConstantsOK DEF Back, Kinds, AnswerKinds, Reqs

LEMMA OutFields ==
    ASSUME NEW m \in Out
    PROVE  /\ m.type \in {"REQUEST", "CONNECT", "DISCONNECT"} /\ m.req \in 0 .. MaxReqs
           /\ m.type = "REQUEST" => m.req \in Reqs
           /\ m = [type |-> m.type, req |-> m.req]
  BY ConstantsOK DEF Out, Reqs

LEMMA OutIs ==
    /\ \A r \in Reqs : [type |-> "REQUEST", req |-> r] \in Out
    /\ \A r \in 0 .. MaxReqs : /\ [type |-> "CONNECT", req |-> r] \in Out
                               /\ [type |-> "DISCONNECT", req |-> r] \in Out
  BY DEF Out

LEMMA ReplyIs ==
    /\ \A d \in Drones, kind \in AnswerKinds, r \in Reqs, k \in Ks :
         [from |-> d, kind |-> kind, req |-> r, k |-> k] \in Back
    /\ \A d \in Drones \cup {Router}, r \in 0 .. MaxReqs :
         [from |-> d, kind |-> "BOUNCE", req |-> r, k |-> 0] \in Back
    /\ \A d \in Drones, r \in 0 .. MaxReqs : [from |-> d, kind |-> "OK", req |-> r, k |-> 0] \in Back
    /\ \A d \in Drones : [from |-> d, kind |-> "TIMEOUT", req |-> 0, k |-> 0] \in Back
  BY ConstantsOK DEF Back, Ks

\* The first message of each queue.
LEMMA InboxHead ==
    ASSUME TypeInv, inbox # << >>
    PROVE  Head(inbox) \in Back /\ Tail(inbox) \in Seq(Back) /\ Head(inbox) = inbox[1] /\ 1 \in DOMAIN inbox
<1>1. inbox \in Seq(Back)
  BY DEF TypeInv, InboxType
<1> QED
  BY <1>1

LEMMA RouterHead ==
    ASSUME TypeInv, toRouter # << >>
    PROVE  Head(toRouter) \in Out /\ Tail(toRouter) \in Seq(Out)
<1>1. toRouter \in Seq(Out)
  BY DEF TypeInv, NetType
<1> QED
  BY <1>1

LEMMA DroneHead ==
    ASSUME TypeInv, NEW d \in Drones, toDrone[d] # << >>
    PROVE  Head(toDrone[d]) \in Out /\ Tail(toDrone[d]) \in Seq(Out)
<1>1. toDrone[d] \in Seq(Out)
  BY DEF TypeInv, NetType
<1> QED
  BY <1>1

LEMMA StackTop ==
    ASSUME TypeInv, stack # << >>
    PROVE  /\ Frame \in Out /\ SubSeq(stack, 1, Len(stack) - 1) \in Seq(Out)
           /\ Len(stack) \in Nat /\ Len(stack) >= 1 /\ Len(stack) \in DOMAIN stack
<1>1. stack \in Seq(Out)
  BY DEF TypeInv, StackType
<1>2. Len(stack) \in Nat /\ Len(stack) >= 1
  BY <1>1
<1>3. Len(stack) \in DOMAIN stack
  BY <1>1, <1>2
<1>4. SubSeq(stack, 1, Len(stack) - 1) \in Seq(Out)
  BY <1>1, FrontFacts DEF Front
<1> QED
  BY <1>1, <1>2, <1>3, <1>4 DEF Frame

\* A worker's next message, and what is left of its answer.
LEMMA TodoHead ==
    ASSUME TypeInv, WorkInv, NEW w \in work
    PROVE  /\ w \in Work /\ w.drone \in Drones /\ w.req \in Reqs /\ w.todo \in Seq(Part)
           /\ w.todo # << >> /\ Head(w.todo) \in Part /\ Head(w.todo) = w.todo[1]
           /\ Head(w.todo).kind \in AnswerKinds /\ Head(w.todo).k \in Ks
           /\ Tail(w.todo) \in Seq(Part) /\ [w EXCEPT !.todo = Tail(@)] \in Work
           /\ [w EXCEPT !.todo = Tail(@)] = [drone |-> w.drone, req |-> w.req, todo |-> Tail(w.todo)]
<1>1. w \in Work /\ w.todo # << >>
  BY DEF TypeInv, ServerType, WorkInv, EndsWell
<1>2. w.drone \in Drones /\ w.req \in Reqs /\ w.todo \in Seq(Part)
        /\ w = [drone |-> w.drone, req |-> w.req, todo |-> w.todo]
  BY <1>1 DEF Work
<1>3. Head(w.todo) \in Part /\ Head(w.todo) = w.todo[1] /\ Tail(w.todo) \in Seq(Part)
  BY <1>1, <1>2
<1>4. Head(w.todo).kind \in AnswerKinds /\ Head(w.todo).k \in Ks
  BY <1>3 DEF Part
<1>5. [w EXCEPT !.todo = Tail(@)] = [drone |-> w.drone, req |-> w.req, todo |-> Tail(w.todo)]
  <2>1. PICK x, y, z : w = [drone |-> x, req |-> y, todo |-> z]
    BY <1>2
  <2>2. w.drone = x /\ w.req = y /\ w.todo = z
    BY <2>1
  <2> DEFINE u == Tail(w.todo)
  <2> HIDE DEF u
  <2>3. [w EXCEPT !.todo = u] = [drone |-> x, req |-> y, todo |-> u]
    BY <2>1
  <2>4. [w EXCEPT !.todo = u] = [drone |-> w.drone, req |-> w.req, todo |-> u]
    BY <2>2, <2>3
  <2> QED
    BY <2>4 DEF u
<1>6. [w EXCEPT !.todo = Tail(@)] \in Work
  BY <1>2, <1>3, <1>5 DEF Work
<1> QED
  BY <1>1, <1>2, <1>3, <1>4, <1>5, <1>6

LEMMA TypeInit == Init => TypeInv
<1> SUFFICES ASSUME Init PROVE TypeInv
  OBVIOUS
<1>1. SessionType
  BY ConstantsOK DEF Init, SessionType
<1>2. RequestType
  BY DEF Init, RequestType
<1>3. HashType
  BY DEF Init, HashType
<1>4. OpType /\ StackType /\ NetType
  BY ConstantsOK DEF Init, OpType, OpNames, StackType, NetType
<1>5. InboxType /\ ServerType /\ HistoryType
  BY DEF Init, InboxType, ServerType, HistoryType
<1> QED
  BY <1>1, <1>2, <1>3, <1>4, <1>5 DEF TypeInv

LEMMA TypeIsOK == TypeInv => TypeOK
<1> SUFFICES ASSUME TypeInv PROVE TypeOK
  OBVIOUS
<1>1. op.name \in OpNames /\ op.req \in 0 .. MaxReqs
  BY DEF TypeInv, OpType
<1>2. \A i \in DOMAIN inbox : inbox[i] \in Back
  BY DEF TypeInv, InboxType
<1>3. \A i \in DOMAIN inbox : inbox[i].kind \in Kinds /\ inbox[i].from \in Drones \cup {Router}
  BY <1>2 DEF Back, Kinds, AnswerKinds
<1> QED
  BY <1>1, <1>3 DEF TypeOK, TypeInv, SessionType, RequestType, HashType, OpNames, ServerType, HistoryType

\* What a result does to the sequences of a request.
LEMMA QueueTyped ==
    ASSUME NEW f \in [Reqs -> Seq(Ks)], NEW r \in Reqs
    PROVE  /\ \A k \in Ks : [f EXCEPT ![r] = Append(@, k)] \in [Reqs -> Seq(Ks)]
           /\ f[r] # << >> => [f EXCEPT ![r] = Tail(@)] \in [Reqs -> Seq(Ks)] /\ Head(f[r]) \in Ks
           /\ [f EXCEPT ![r] = << >>] \in [Reqs -> Seq(Ks)]
<1>1. f[r] \in Seq(Ks)
  OBVIOUS
<1>2. \A k \in Ks : Append(f[r], k) \in Seq(Ks)
  BY <1>1
<1>3. f[r] # << >> => Tail(f[r]) \in Seq(Ks) /\ Head(f[r]) \in Ks
  BY <1>1
<1>4. << >> \in Seq(Ks)
  OBVIOUS
<1> QED
  BY <1>2, <1>3, <1>4

LEMMA TakeTyped ==
    ASSUME RequestType, NEW r \in Reqs, Take(r)
    PROVE  RequestType'
<1>1. got' \in [Reqs -> Seq(Ks)] /\ queue' \in [Reqs -> Seq(Ks)]
  BY QueueTyped DEF RequestType, Take
<1> QED
  BY <1>1 DEF RequestType, Take

LEMMA StitchedType ==
    ASSUME NEW ps \in Seq(Ks), ps # << >>
    PROVE  Stitched(ps) \in Ks
  BY DEF Stitched, Ks

LEMMA FindableSlot == ASSUME TypeInv, NEW r \in Reqs PROVE hash[Slot(r)] \in Seq(Reqs)
  BY SlotType DEF TypeInv, HashType

\* The session.
LEMMA SessionTyped ==
    ASSUME TypeInv, Step, UNCHANGED faults
    PROVE  SessionType'
<1>1. CASE CallRequest
  BY <1>1, ConstantsOK DEF SessionType, TypeInv, CallRequest, requests, net, server, history, Idle,
    Call, Sending
<1>2. CASE CallConnect
  BY <1>2, ConstantsOK DEF SessionType, TypeInv, CallConnect, requests, net, server, history, Idle,
    Call, Sending
<1>3. CASE CallDisconnect
  BY <1>3, ConstantsOK DEF SessionType, TypeInv, CallDisconnect, session, requests, net, server,
    history, Idle, Call, Sending
<1>4. ASSUME NEW r \in Reqs, CallRecv(r) PROVE SessionType'
  BY <1>4, ConstantsOK DEF SessionType, TypeInv, CallRecv, Take, session, requests, net, server,
    history, Idle, Call, Findable
<1>5. ASSUME NEW r \in Reqs, Finish(r) PROVE SessionType'
  BY <1>5, ConstantsOK DEF SessionType, TypeInv, Finish, session, calls, net, server, history, Idle, Findable
<1>6. CASE SendTop
  BY <1>6, ConstantsOK DEF SessionType, TypeInv, SendTop, server, history, Frame, Own, Send
<1>7. CASE Process
  <2>1. Head(inbox) \in Back
    BY <1>7, InboxHead DEF Process
  <2> DEFINE m == Head(inbox)
  <2>2. m.from \in Drones \cup {Router} /\ (m.kind = "OK" => m.from \in Drones)
    BY <2>1, BackFields
  <2>3. /\ remote' \in {m.from, Router} /\ peer' \in {peer, m.from}
        /\ state' \in {state, "CONNECTED", "DISCONNECTED"} /\ terr' \in {terr, TRUE}
        /\ UNCHANGED <<trace, connects, faults>>
    BY <1>7 DEF Process, ForRequest, Connected, Over, Unreachable, calls
  <2> HIDE DEF m
  <2> QED
    BY <2>2, <2>3 DEF TypeInv, SessionType
<1>8. CASE RecvResult
  BY <1>8, ConstantsOK DEF SessionType, TypeInv, RecvResult, Take, session, net, server, history, Call
<1>9. CASE RecvNull
  BY <1>9, ConstantsOK DEF SessionType, TypeInv, RecvNull, session, requests, net, server, history, Call
<1>10. CASE ConnectReturns
  BY <1>10, ConstantsOK DEF SessionType, TypeInv, ConnectReturns, session, requests, net, server,
    history, Call
<1>11. ASSUME NEW d \in Drones, NEW a \in Answers, RouterServe(d, a) PROVE SessionType'
  BY <1>11, ConstantsOK DEF SessionType, TypeInv, RouterServe, session, requests, calls, Reply, Begin, Free
<1>12. ASSUME NEW d \in Drones, NEW a \in Answers, DroneServe(d, a) PROVE SessionType'
  BY <1>12, ConstantsOK DEF SessionType, TypeInv, DroneServe, session, requests, calls, Reply, Begin
<1>13. ASSUME NEW d \in Drones, Bounce(d) PROVE SessionType'
  BY <1>13, ConstantsOK DEF SessionType, TypeInv, Bounce, session, requests, calls, server, history, Reply
<1>14. ASSUME NEW d \in Drones, Expire(d) PROVE SessionType'
  BY <1>14, ConstantsOK DEF SessionType, TypeInv, Expire, session, requests, calls, history, Reply
<1>15. ASSUME NEW d \in Drones, Die(d) PROVE SessionType'
  BY <1>15, ConstantsOK DEF SessionType, TypeInv, Die, session, requests, calls
<1>16. CASE RouterRefuse
  BY <1>16, ConstantsOK DEF SessionType, TypeInv, RouterRefuse, session, requests, calls, server,
    history, Reply
<1>17. ASSUME NEW w \in work, Answer(w) PROVE SessionType'
  BY <1>17, ConstantsOK DEF SessionType, TypeInv, Answer, session, requests, calls, history, Reply
<1> QED
  BY <1>1, <1>2, <1>3, <1>4, <1>5, <1>6, <1>7, <1>8, <1>9, <1>10, <1>11, <1>12, <1>13, <1>14, <1>15,
    <1>16, <1>17 DEF Step

\* The requests.
LEMMA RequestTyped ==
    ASSUME TypeInv, Step, UNCHANGED faults
    PROVE  RequestType'
<1>1. CASE CallRequest
  BY <1>1 DEF RequestType, TypeInv, CallRequest, requests, net, server, history, Idle, Call, Sending
<1>2. CASE CallConnect
  BY <1>2 DEF RequestType, TypeInv, CallConnect, requests, net, server, history, Idle, Call, Sending
<1>3. CASE CallDisconnect
  BY <1>3 DEF RequestType, TypeInv, CallDisconnect, session, requests, net, server, history, Idle,
    Call, Sending
<1>4. ASSUME NEW r \in Reqs, CallRecv(r) PROVE RequestType'
  <2>1. CASE Take(r)
    BY <2>1, TakeTyped DEF TypeInv
  <2>2. CASE UNCHANGED <<queue, got, parts, complete>>
    BY <2>2 DEF TypeInv, RequestType
  <2> QED
    BY <1>4, <2>1, <2>2 DEF CallRecv, requests
<1>5. ASSUME NEW r \in Reqs, Finish(r) PROVE RequestType'
  BY <1>5 DEF RequestType, TypeInv, Finish, session, calls, net, server, history, Idle, Findable
<1>6. CASE SendTop
  BY <1>6 DEF RequestType, TypeInv, SendTop, server, history, Frame, Own, Send
<1>7. CASE Process
  <2>1. Head(inbox) \in Back
    BY <1>7, InboxHead DEF Process
  <2> DEFINE m == Head(inbox)
  <2>2. m.k \in Ks /\ (m.kind \in AnswerKinds => m.req \in Reqs)
    BY <2>1, BackFields
  <2>3. got' = got
    BY <1>7 DEF Process, calls
  <2>4. CASE UNCHANGED <<queue, complete, parts>>
    BY <2>3, <2>4 DEF TypeInv, RequestType
  <2>5. CASE m.req \in Reqs /\ (Push(m.req, m.k) \/ UNCHANGED queue) /\ UNCHANGED parts
               /\ complete' \in {complete, [complete EXCEPT ![m.req] = TRUE]}
    <3>1. queue' \in [Reqs -> Seq(Ks)]
      <4>2. m.k \in Ks /\ m.req \in Reqs
        BY <2>2, <2>5
      <4> HIDE DEF m
      <4>3. queue \in [Reqs -> Seq(Ks)]
        BY DEF TypeInv, RequestType
      <4>4. [queue EXCEPT ![m.req] = Append(@, m.k)] \in [Reqs -> Seq(Ks)]
        BY <4>2, <4>3, QueueTyped
      <4> QED
        BY <2>5, <4>3, <4>4 DEF Push
    <3> QED
      BY <2>3, <2>5, <3>1 DEF TypeInv, RequestType
  <2>6. CASE m.req \in Reqs /\ parts' = [parts EXCEPT ![m.req] = Append(@, m.k)]
               /\ UNCHANGED <<queue, complete>>
    <3>1. parts' \in [Reqs -> Seq(Ks)]
      <4>2. m.k \in Ks /\ m.req \in Reqs
        BY <2>2, <2>6
      <4> HIDE DEF m
      <4>3. parts \in [Reqs -> Seq(Ks)]
        BY DEF TypeInv, RequestType
      <4>4. [parts EXCEPT ![m.req] = Append(@, m.k)] \in [Reqs -> Seq(Ks)]
        BY <4>2, <4>3, QueueTyped
      <4> QED
        BY <2>6, <4>4
    <3> QED
      BY <2>3, <2>6, <3>1 DEF TypeInv, RequestType
  <2>7. CASE /\ m.req \in Reqs /\ parts' = [parts EXCEPT ![m.req] = << >>] /\ UNCHANGED complete
             /\ IF parts[m.req] = << >> THEN UNCHANGED queue ELSE Push(m.req, Stitched(parts[m.req]))
    <3>1. parts' \in [Reqs -> Seq(Ks)]
      BY <2>2, <2>7, QueueTyped DEF TypeInv, RequestType
    <3>2. parts[m.req] \in Seq(Ks)
      BY <2>7 DEF TypeInv, RequestType
    <3>3. queue' \in [Reqs -> Seq(Ks)]
      <4>1. queue \in [Reqs -> Seq(Ks)]
        BY DEF TypeInv, RequestType
      <4> DEFINE k == Stitched(parts[m.req])
      <4>2. parts[m.req] # << >> => k \in Ks
        BY <3>2, StitchedType
      <4>3. parts[m.req] = << >> \/ queue' = [queue EXCEPT ![m.req] = Append(@, k)]
        BY <2>7 DEF Push
      <4>4. m.req \in Reqs /\ (parts[m.req] = << >> => queue' = queue)
        BY <2>7
      <4> HIDE DEF m, k
      <4>5. k \in Ks => [queue EXCEPT ![m.req] = Append(@, k)] \in [Reqs -> Seq(Ks)]
        BY <4>1, <4>4, QueueTyped
      <4> QED
        BY <4>1, <4>2, <4>3, <4>4, <4>5
    <3> QED
      BY <2>3, <2>7, <3>1, <3>3 DEF TypeInv, RequestType
  <2>8. ForRequest(m) \/ Connected(m) \/ Over(m) \/ Unreachable(m)
    BY <1>7 DEF Process
  <2>9. ForRequest(m) => m.req \in Reqs
    BY <2>2 DEF ForRequest, AnswerKinds
  <2> HIDE DEF m
  <2>10. CASE ForRequest(m)
    <3>1. CASE ~Findable(m.req)
      BY <2>4, <2>10, <3>1 DEF ForRequest
    <3>2. CASE Findable(m.req) /\ m.kind \in {"RESULT", "COMPLETE", "EXCEPTION"}
      BY <2>5, <2>9, <2>10, <3>2 DEF ForRequest
    <3>3. CASE Findable(m.req) /\ m.kind = "PARTIAL"
      BY <2>6, <2>9, <2>10, <3>3 DEF ForRequest
    <3>4. CASE Findable(m.req) /\ m.kind = "NOCONTENT"
      BY <2>7, <2>9, <2>10, <3>4 DEF ForRequest
    <3> QED
      BY <2>10, <3>1, <3>2, <3>3, <3>4 DEF ForRequest
  <2>11. CASE Connected(m) \/ Over(m) \/ Unreachable(m)
    BY <2>4, <2>11 DEF Connected, Over, Unreachable
  <2> QED
    BY <2>8, <2>10, <2>11
<1>8. CASE RecvResult
  <2>1. Take(op.req) /\ op.req \in Reqs
    BY <1>8 DEF RecvResult, TypeInv, OpType
  <2> QED
    BY <2>1, TakeTyped DEF TypeInv
<1>9. CASE RecvNull
  BY <1>9 DEF RequestType, TypeInv, RecvNull, session, requests, net, server, history, Call
<1>10. CASE ConnectReturns
  BY <1>10 DEF RequestType, TypeInv, ConnectReturns, session, requests, net, server, history, Call
<1>11. ASSUME NEW d \in Drones, NEW a \in Answers, RouterServe(d, a) PROVE RequestType'
  BY <1>11 DEF RequestType, TypeInv, RouterServe, session, requests, calls, Reply, Begin, Free
<1>12. ASSUME NEW d \in Drones, NEW a \in Answers, DroneServe(d, a) PROVE RequestType'
  BY <1>12 DEF RequestType, TypeInv, DroneServe, session, requests, calls, Reply, Begin
<1>13. ASSUME NEW d \in Drones, Bounce(d) PROVE RequestType'
  BY <1>13 DEF RequestType, TypeInv, Bounce, session, requests, calls, server, history, Reply
<1>14. ASSUME NEW d \in Drones, Expire(d) PROVE RequestType'
  BY <1>14 DEF RequestType, TypeInv, Expire, session, requests, calls, history, Reply
<1>15. ASSUME NEW d \in Drones, Die(d) PROVE RequestType'
  BY <1>15 DEF RequestType, TypeInv, Die, session, requests, calls
<1>16. CASE RouterRefuse
  BY <1>16 DEF RequestType, TypeInv, RouterRefuse, session, requests, calls, server, history, Reply
<1>17. ASSUME NEW w \in work, Answer(w) PROVE RequestType'
  BY <1>17 DEF RequestType, TypeInv, Answer, session, requests, calls, history, Reply
<1> QED
  BY <1>1, <1>2, <1>3, <1>4, <1>5, <1>6, <1>7, <1>8, <1>9, <1>10, <1>11, <1>12, <1>13, <1>14, <1>15,
    <1>16, <1>17 DEF Step

\* The hash.
LEMMA HashTyped ==
    ASSUME TypeInv, Step, UNCHANGED faults
    PROVE  HashType'
<1>1. CASE CallRequest
  BY <1>1, SlotType DEF HashType, TypeInv, CallRequest, requests, net, server, history, Idle, Call, Sending
<1>2. CASE CallConnect
  BY <1>2, SlotType DEF HashType, TypeInv, CallConnect, requests, net, server, history, Idle, Call, Sending
<1>3. CASE CallDisconnect
  BY <1>3, SlotType DEF HashType, TypeInv, CallDisconnect, session, requests, net, server, history,
    Idle, Call, Sending
<1>4. ASSUME NEW r \in Reqs, CallRecv(r) PROVE HashType'
  BY <1>4, SlotType DEF HashType, TypeInv, CallRecv, Take, session, requests, net, server, history,
    Idle, Call, Findable
<1>5. ASSUME NEW r \in Reqs, Finish(r) PROVE HashType'
  BY <1>5, SlotType DEF HashType, TypeInv, Finish, session, calls, net, server, history, Idle, Findable
<1>6. CASE SendTop
  <2>1. CASE hash' = hash
    BY <2>1 DEF TypeInv, HashType
  <2>2. CASE op.name = "request" /\ hash' = [hash EXCEPT ![Slot(op.req)] = <<op.req>> \o @]
    <3>1. op.req \in Reqs
      BY <2>2 DEF TypeInv, OpType
    <3>2. hash[Slot(op.req)] \in Seq(Reqs) /\ <<op.req>> \in Seq(Reqs)
      BY <3>1, FindableSlot
    <3>3. <<op.req>> \o hash[Slot(op.req)] \in Seq(Reqs)
      BY <3>2
    <3>4. hash \in [0 .. HashSize - 1 -> Seq(Reqs)]
      BY DEF TypeInv, HashType
    <3> DEFINE s == <<op.req>> \o hash[Slot(op.req)]
    <3>5. hash' = [hash EXCEPT ![Slot(op.req)] = s] /\ s \in Seq(Reqs)
      BY <2>2, <3>3
    <3> HIDE DEF s
    <3> QED
      BY <3>4, <3>5 DEF HashType
  <2>3. hash' = hash \/ (op.name = "request" /\ hash' = [hash EXCEPT ![Slot(op.req)] = <<op.req>> \o @])
    BY <1>6 DEF SendTop
  <2> QED
    BY <2>1, <2>2, <2>3
<1>7. CASE Process
  BY <1>7, SlotType DEF HashType, TypeInv, Process, calls, server, Reading
<1>8. CASE RecvResult
  BY <1>8, SlotType DEF HashType, TypeInv, RecvResult, Take, session, net, server, history, Call
<1>9. CASE RecvNull
  BY <1>9, SlotType DEF HashType, TypeInv, RecvNull, session, requests, net, server, history, Call
<1>10. CASE ConnectReturns
  BY <1>10, SlotType DEF HashType, TypeInv, ConnectReturns, session, requests, net, server, history, Call
<1>11. ASSUME NEW d \in Drones, NEW a \in Answers, RouterServe(d, a) PROVE HashType'
  BY <1>11, SlotType DEF HashType, TypeInv, RouterServe, session, requests, calls, Reply, Begin, Free
<1>12. ASSUME NEW d \in Drones, NEW a \in Answers, DroneServe(d, a) PROVE HashType'
  BY <1>12, SlotType DEF HashType, TypeInv, DroneServe, session, requests, calls, Reply, Begin
<1>13. ASSUME NEW d \in Drones, Bounce(d) PROVE HashType'
  BY <1>13, SlotType DEF HashType, TypeInv, Bounce, session, requests, calls, server, history, Reply
<1>14. ASSUME NEW d \in Drones, Expire(d) PROVE HashType'
  BY <1>14, SlotType DEF HashType, TypeInv, Expire, session, requests, calls, history, Reply
<1>15. ASSUME NEW d \in Drones, Die(d) PROVE HashType'
  BY <1>15, SlotType DEF HashType, TypeInv, Die, session, requests, calls
<1>16. CASE RouterRefuse
  BY <1>16, SlotType DEF HashType, TypeInv, RouterRefuse, session, requests, calls, server, history, Reply
<1>17. ASSUME NEW w \in work, Answer(w) PROVE HashType'
  BY <1>17, SlotType DEF HashType, TypeInv, Answer, session, requests, calls, history, Reply
<1> QED
  BY <1>1, <1>2, <1>3, <1>4, <1>5, <1>6, <1>7, <1>8, <1>9, <1>10, <1>11, <1>12, <1>13, <1>14, <1>15,
    <1>16, <1>17 DEF Step

\* The call in progress.
LEMMA OpTyped ==
    ASSUME TypeInv, Step, UNCHANGED faults
    PROVE  OpType'
<1>1. CASE CallRequest
  <2>1. trace + 1 \in Reqs /\ trace + 1 \in 0 .. MaxReqs
    BY <1>1, ConstantsOK DEF CallRequest, TypeInv, SessionType, Reqs
  <2> QED
    BY <1>1, <2>1 DEF CallRequest, Call, OpType, OpNames
<1>2. CASE CallConnect
  BY <1>2, ConstantsOK DEF OpType, OpNames, TypeInv, Reqs, CallConnect, requests, net, server,
    history, Idle, Call, Sending
<1>3. CASE CallDisconnect
  BY <1>3, ConstantsOK DEF OpType, OpNames, TypeInv, Reqs, CallDisconnect, session, requests, net,
    server, history, Idle, Call, Sending
<1>4. ASSUME NEW r \in Reqs, CallRecv(r) PROVE OpType'
  BY <1>4, ConstantsOK DEF OpType, OpNames, TypeInv, Reqs, CallRecv, Take, session, requests, net,
    server, history, Idle, Call, Findable
<1>5. ASSUME NEW r \in Reqs, Finish(r) PROVE OpType'
  BY <1>5, ConstantsOK DEF OpType, OpNames, TypeInv, Reqs, Finish, session, calls, net, server,
    history, Idle, Findable
<1>6. CASE SendTop
  BY <1>6, ConstantsOK DEF OpType, OpNames, TypeInv, Reqs, SendTop, server, history, Frame, Own, Send
<1>7. CASE Process
  BY <1>7, ConstantsOK DEF OpType, OpNames, TypeInv, Reqs, Process, calls, server, Reading
<1>8. CASE RecvResult
  BY <1>8, ConstantsOK DEF OpType, OpNames, TypeInv, Reqs, RecvResult, Take, session, net, server,
    history, Call
<1>9. CASE RecvNull
  BY <1>9, ConstantsOK DEF OpType, OpNames, TypeInv, Reqs, RecvNull, session, requests, net, server,
    history, Call
<1>10. CASE ConnectReturns
  BY <1>10, ConstantsOK DEF OpType, OpNames, TypeInv, Reqs, ConnectReturns, session, requests, net,
    server, history, Call
<1>11. ASSUME NEW d \in Drones, NEW a \in Answers, RouterServe(d, a) PROVE OpType'
  BY <1>11, ConstantsOK DEF OpType, OpNames, TypeInv, Reqs, RouterServe, session, requests, calls,
    Reply, Begin, Free
<1>12. ASSUME NEW d \in Drones, NEW a \in Answers, DroneServe(d, a) PROVE OpType'
  BY <1>12, ConstantsOK DEF OpType, OpNames, TypeInv, Reqs, DroneServe, session, requests, calls, Reply, Begin
<1>13. ASSUME NEW d \in Drones, Bounce(d) PROVE OpType'
  BY <1>13, ConstantsOK DEF OpType, OpNames, TypeInv, Reqs, Bounce, session, requests, calls,
    server, history, Reply
<1>14. ASSUME NEW d \in Drones, Expire(d) PROVE OpType'
  BY <1>14, ConstantsOK DEF OpType, OpNames, TypeInv, Reqs, Expire, session, requests, calls, history, Reply
<1>15. ASSUME NEW d \in Drones, Die(d) PROVE OpType'
  BY <1>15, ConstantsOK DEF OpType, OpNames, TypeInv, Reqs, Die, session, requests, calls
<1>16. CASE RouterRefuse
  BY <1>16, ConstantsOK DEF OpType, OpNames, TypeInv, Reqs, RouterRefuse, session, requests, calls,
    server, history, Reply
<1>17. ASSUME NEW w \in work, Answer(w) PROVE OpType'
  BY <1>17, ConstantsOK DEF OpType, OpNames, TypeInv, Reqs, Answer, session, requests, calls, history, Reply
<1> QED
  BY <1>1, <1>2, <1>3, <1>4, <1>5, <1>6, <1>7, <1>8, <1>9, <1>10, <1>11, <1>12, <1>13, <1>14, <1>15,
    <1>16, <1>17 DEF Step

\* The sends in progress.
LEMMA StackTyped ==
    ASSUME TypeInv, Step, UNCHANGED faults
    PROVE  StackType'
<1>1. CASE CallRequest
  <2>1. [type |-> "REQUEST", req |-> trace + 1] \in Out
    BY <1>1, OutIs, ConstantsOK DEF TypeInv, SessionType, Reqs, CallRequest
  <2> QED
    BY <1>1, <2>1 DEF TypeInv, StackType, CallRequest, Sending
<1>2. CASE CallConnect
  <2>1. [type |-> "CONNECT", req |-> trace] \in Out
    BY <1>2, OutIs, ConstantsOK DEF TypeInv, SessionType, Reqs, CallRequest
  <2> QED
    BY <1>2, <2>1 DEF TypeInv, StackType, CallConnect, Sending
<1>3. CASE CallDisconnect
  <2>1. [type |-> "DISCONNECT", req |-> trace] \in Out
    BY <1>3, OutIs, ConstantsOK DEF TypeInv, SessionType, Reqs, CallRequest
  <2> QED
    BY <1>3, <2>1 DEF TypeInv, StackType, CallDisconnect, Sending
<1>4. ASSUME NEW r \in Reqs, CallRecv(r) PROVE StackType'
  BY <1>4 DEF StackType, TypeInv, CallRecv, Take, session, requests, net, server, history, Idle,
    Call, Findable
<1>5. ASSUME NEW r \in Reqs, Finish(r) PROVE StackType'
  BY <1>5 DEF StackType, TypeInv, Finish, session, calls, net, server, history, Idle, Findable
<1>6. CASE SendTop
  BY <1>6, StackTop DEF SendTop, StackType
<1>7. CASE Process
  <2>1. stack' = stack \/ \E r \in Reqs : stack' = Append(stack, [type |-> "REQUEST", req |-> r])
    BY <1>7 DEF Process, ForRequest, Connected, Over, Unreachable, Resend, Sending
  <2>2. CASE stack' = stack
    BY <2>2 DEF TypeInv, StackType
  <2>3. ASSUME NEW r \in Reqs, stack' = Append(stack, [type |-> "REQUEST", req |-> r]) PROVE StackType'
    <3>1. [type |-> "REQUEST", req |-> r] \in Out
      BY OutIs
    <3> QED
      BY <2>3, <3>1 DEF TypeInv, StackType
  <2> QED
    BY <2>1, <2>2, <2>3
<1>8. CASE RecvResult
  BY <1>8 DEF StackType, TypeInv, RecvResult, Take, session, net, server, history, Call
<1>9. CASE RecvNull
  BY <1>9 DEF StackType, TypeInv, RecvNull, session, requests, net, server, history, Call
<1>10. CASE ConnectReturns
  BY <1>10 DEF StackType, TypeInv, ConnectReturns, session, requests, net, server, history, Call
<1>11. ASSUME NEW d \in Drones, NEW a \in Answers, RouterServe(d, a) PROVE StackType'
  BY <1>11 DEF StackType, TypeInv, RouterServe, session, requests, calls, Reply, Begin, Free
<1>12. ASSUME NEW d \in Drones, NEW a \in Answers, DroneServe(d, a) PROVE StackType'
  BY <1>12 DEF StackType, TypeInv, DroneServe, session, requests, calls, Reply, Begin
<1>13. ASSUME NEW d \in Drones, Bounce(d) PROVE StackType'
  BY <1>13 DEF StackType, TypeInv, Bounce, session, requests, calls, server, history, Reply
<1>14. ASSUME NEW d \in Drones, Expire(d) PROVE StackType'
  BY <1>14 DEF StackType, TypeInv, Expire, session, requests, calls, history, Reply
<1>15. ASSUME NEW d \in Drones, Die(d) PROVE StackType'
  BY <1>15 DEF StackType, TypeInv, Die, session, requests, calls
<1>16. CASE RouterRefuse
  BY <1>16 DEF StackType, TypeInv, RouterRefuse, session, requests, calls, server, history, Reply
<1>17. ASSUME NEW w \in work, Answer(w) PROVE StackType'
  BY <1>17 DEF StackType, TypeInv, Answer, session, requests, calls, history, Reply
<1> QED
  BY <1>1, <1>2, <1>3, <1>4, <1>5, <1>6, <1>7, <1>8, <1>9, <1>10, <1>11, <1>12, <1>13, <1>14, <1>15,
    <1>16, <1>17 DEF Step

\* What the client sent.
LEMMA NetTyped ==
    ASSUME TypeInv, Step, UNCHANGED faults
    PROVE  NetType'
<1>1. CASE CallRequest
  BY <1>1 DEF NetType, TypeInv, CallRequest, requests, net, server, history, Idle, Call, Sending
<1>2. CASE CallConnect
  BY <1>2 DEF NetType, TypeInv, CallConnect, requests, net, server, history, Idle, Call, Sending
<1>3. CASE CallDisconnect
  BY <1>3 DEF NetType, TypeInv, CallDisconnect, session, requests, net, server, history, Idle, Call, Sending
<1>4. ASSUME NEW r \in Reqs, CallRecv(r) PROVE NetType'
  BY <1>4 DEF NetType, TypeInv, CallRecv, Take, session, requests, net, server, history, Idle, Call, Findable
<1>5. ASSUME NEW r \in Reqs, Finish(r) PROVE NetType'
  BY <1>5 DEF NetType, TypeInv, Finish, session, calls, net, server, history, Idle, Findable
<1>6. CASE SendTop
  <2>1. Frame \in Out
    BY <1>6, StackTop DEF SendTop
  <2>2. PICK to \in Drones \cup {Router} : Send(to, Frame)
    BY <1>6 DEF SendTop, TypeInv, SessionType
  <2>3. CASE to = Router
    BY <2>1, <2>2, <2>3 DEF Send, TypeInv, NetType
  <2>4. CASE to # Router
    <3>1. toDrone[to] \in Seq(Out)
      BY <2>4 DEF TypeInv, NetType
    <3>2. Append(toDrone[to], Frame) \in Seq(Out)
      BY <2>1, <3>1
    <3> QED
      BY <2>2, <2>4, <3>2 DEF Send, TypeInv, NetType
  <2> QED
    BY <2>3, <2>4
<1>7. CASE Process
  BY <1>7 DEF NetType, TypeInv, Process, calls, server, Reading
<1>8. CASE RecvResult
  BY <1>8 DEF NetType, TypeInv, RecvResult, Take, session, net, server, history, Call
<1>9. CASE RecvNull
  BY <1>9 DEF NetType, TypeInv, RecvNull, session, requests, net, server, history, Call
<1>10. CASE ConnectReturns
  BY <1>10 DEF NetType, TypeInv, ConnectReturns, session, requests, net, server, history, Call
<1>11. ASSUME NEW d \in Drones, NEW a \in Answers, RouterServe(d, a) PROVE NetType'
  BY <1>11, RouterHead DEF RouterServe, NetType, TypeInv
<1>12. ASSUME NEW d \in Drones, NEW a \in Answers, DroneServe(d, a) PROVE NetType'
  <2>1. Tail(toDrone[d]) \in Seq(Out)
    BY <1>12, DroneHead DEF DroneServe
  <2> QED
    BY <1>12, <2>1 DEF DroneServe, NetType, TypeInv
<1>13. ASSUME NEW d \in Drones, Bounce(d) PROVE NetType'
  <2>1. Tail(toDrone[d]) \in Seq(Out)
    BY <1>13, DroneHead DEF Bounce
  <2> QED
    BY <1>13, <2>1 DEF Bounce, NetType, TypeInv
<1>14. ASSUME NEW d \in Drones, Expire(d) PROVE NetType'
  BY <1>14 DEF NetType, TypeInv, Expire, session, requests, calls, history, Reply
<1>15. ASSUME NEW d \in Drones, Die(d) PROVE NetType'
  <2>1. PICK n \in 0 .. Len(toDrone[d]) : toDrone' = [toDrone EXCEPT ![d] = SubSeq(@, n + 1, Len(@))]
    BY <1>15 DEF Die
  <2>2. toDrone[d] \in Seq(Out)
    BY DEF TypeInv, NetType
  <2>3. SubSeq(toDrone[d], n + 1, Len(toDrone[d])) \in Seq(Out)
    BY <2>2, RestFacts
  <2> QED
    BY <1>15, <2>1, <2>3 DEF Die, NetType, TypeInv
<1>16. CASE RouterRefuse
  BY <1>16, RouterHead DEF RouterRefuse, NetType, TypeInv
<1>17. ASSUME NEW w \in work, Answer(w) PROVE NetType'
  BY <1>17 DEF NetType, TypeInv, Answer, session, requests, calls, history, Reply
<1> QED
  BY <1>1, <1>2, <1>3, <1>4, <1>5, <1>6, <1>7, <1>8, <1>9, <1>10, <1>11, <1>12, <1>13, <1>14, <1>15,
    <1>16, <1>17 DEF Step

\* What comes to it.
LEMMA InboxTyped ==
    ASSUME TypeInv, WorkInv, Step, UNCHANGED faults
    PROVE  InboxType'
<1>1. CASE CallRequest
  BY <1>1 DEF InboxType, TypeInv, CallRequest, requests, net, server, history, Idle, Call, Sending
<1>2. CASE CallConnect
  BY <1>2 DEF InboxType, TypeInv, CallConnect, requests, net, server, history, Idle, Call, Sending
<1>3. CASE CallDisconnect
  BY <1>3 DEF InboxType, TypeInv, CallDisconnect, session, requests, net, server, history, Idle, Call, Sending
<1>4. ASSUME NEW r \in Reqs, CallRecv(r) PROVE InboxType'
  BY <1>4 DEF InboxType, TypeInv, CallRecv, Take, session, requests, net, server, history, Idle,
    Call, Findable
<1>5. ASSUME NEW r \in Reqs, Finish(r) PROVE InboxType'
  BY <1>5 DEF InboxType, TypeInv, Finish, session, calls, net, server, history, Idle, Findable
<1>6. CASE SendTop
  BY <1>6 DEF InboxType, TypeInv, SendTop, server, history, Frame, Own, Send
<1>7. CASE Process
  BY <1>7, InboxHead DEF Process, InboxType, TypeInv
<1>8. CASE RecvResult
  BY <1>8 DEF InboxType, TypeInv, RecvResult, Take, session, net, server, history, Call
<1>9. CASE RecvNull
  BY <1>9 DEF InboxType, TypeInv, RecvNull, session, requests, net, server, history, Call
<1>10. CASE ConnectReturns
  BY <1>10 DEF InboxType, TypeInv, ConnectReturns, session, requests, net, server, history, Call
<1>11. ASSUME NEW d \in Drones, NEW a \in Answers, RouterServe(d, a) PROVE InboxType'
  <2>1. CASE inbox' = inbox
    BY <2>1 DEF TypeInv, InboxType
  <2>2. CASE Reply(d, "OK", Head(toRouter).req, 0)
    <3>1. Head(toRouter).req \in 0 .. MaxReqs
      BY <1>11, RouterHead, OutFields DEF RouterServe
    <3>2. [from |-> d, kind |-> "OK", req |-> Head(toRouter).req, k |-> 0] \in Back
      BY <3>1, ReplyIs
    <3> QED
      BY <2>2, <3>2 DEF Reply, TypeInv, InboxType
  <2>3. Head(toRouter).type \in {"REQUEST", "CONNECT", "DISCONNECT"}
    BY <1>11, RouterHead, OutFields DEF RouterServe
  <2> QED
    BY <1>11, <2>1, <2>2, <2>3 DEF RouterServe
<1>12. ASSUME NEW d \in Drones, NEW a \in Answers, DroneServe(d, a) PROVE InboxType'
  <2>1. CASE inbox' = inbox
    BY <2>1 DEF TypeInv, InboxType
  <2>2. CASE Reply(d, "OK", Head(toDrone[d]).req, 0)
    <3>1. Head(toDrone[d]).req \in 0 .. MaxReqs
      BY <1>12, DroneHead, OutFields DEF DroneServe
    <3>2. [from |-> d, kind |-> "OK", req |-> Head(toDrone[d]).req, k |-> 0] \in Back
      BY <3>1, ReplyIs
    <3> QED
      BY <2>2, <3>2 DEF Reply, TypeInv, InboxType
  <2>3. Head(toDrone[d]).type \in {"REQUEST", "CONNECT", "DISCONNECT"}
    BY <1>12, DroneHead, OutFields DEF DroneServe
  <2> QED
    BY <1>12, <2>1, <2>2, <2>3 DEF DroneServe
<1>13. ASSUME NEW d \in Drones, Bounce(d) PROVE InboxType'
  <2>1. [from |-> d, kind |-> "BOUNCE", req |-> Head(toDrone[d]).req, k |-> 0] \in Back
    BY <1>13, ReplyIs, DroneHead, OutFields DEF Bounce
  <2> QED
    BY <1>13, <2>1 DEF Bounce, Reply, InboxType, TypeInv
<1>14. ASSUME NEW d \in Drones, Expire(d) PROVE InboxType'
  <2>1. [from |-> d, kind |-> "TIMEOUT", req |-> 0, k |-> 0] \in Back
    BY <1>14, ReplyIs, ConstantsOK DEF Expire
  <2> QED
    BY <1>14, <2>1 DEF Expire, Reply, InboxType, TypeInv
<1>15. ASSUME NEW d \in Drones, Die(d) PROVE InboxType'
  BY <1>15 DEF InboxType, TypeInv, Die, session, requests, calls
<1>16. CASE RouterRefuse
  <2>1. [from |-> Router, kind |-> "BOUNCE", req |-> Head(toRouter).req, k |-> 0] \in Back
    BY <1>16, ReplyIs, RouterHead, OutFields DEF RouterRefuse
  <2> QED
    BY <1>16, <2>1 DEF RouterRefuse, Reply, InboxType, TypeInv
<1>17. ASSUME NEW w \in work, Answer(w) PROVE InboxType'
  <2>1. [from |-> w.drone, kind |-> Head(w.todo).kind, req |-> w.req, k |-> Head(w.todo).k] \in Back
    BY <1>17, ReplyIs, TodoHead DEF Answer
  <2> QED
    BY <1>17, <2>1 DEF Answer, Reply, InboxType, TypeInv
<1> QED
  BY <1>1, <1>2, <1>3, <1>4, <1>5, <1>6, <1>7, <1>8, <1>9, <1>10, <1>11, <1>12, <1>13, <1>14, <1>15,
    <1>16, <1>17 DEF Step

\* The workers.
LEMMA ServerTyped ==
    ASSUME TypeInv, WorkInv, Step, UNCHANGED faults
    PROVE  ServerType'
<1>1. CASE CallRequest
  BY <1>1 DEF ServerType, TypeInv, CallRequest, requests, net, server, history, Idle, Call, Sending
<1>2. CASE CallConnect
  BY <1>2 DEF ServerType, TypeInv, CallConnect, requests, net, server, history, Idle, Call, Sending
<1>3. CASE CallDisconnect
  BY <1>3 DEF ServerType, TypeInv, CallDisconnect, session, requests, net, server, history, Idle,
    Call, Sending
<1>4. ASSUME NEW r \in Reqs, CallRecv(r) PROVE ServerType'
  BY <1>4 DEF ServerType, TypeInv, CallRecv, Take, session, requests, net, server, history, Idle,
    Call, Findable
<1>5. ASSUME NEW r \in Reqs, Finish(r) PROVE ServerType'
  BY <1>5 DEF ServerType, TypeInv, Finish, session, calls, net, server, history, Idle, Findable
<1>6. CASE SendTop
  BY <1>6 DEF ServerType, TypeInv, SendTop, server, history, Frame, Own, Send
<1>7. CASE Process
  BY <1>7 DEF ServerType, TypeInv, Process, calls, server, Reading
<1>8. CASE RecvResult
  BY <1>8 DEF ServerType, TypeInv, RecvResult, Take, session, net, server, history, Call
<1>9. CASE RecvNull
  BY <1>9 DEF ServerType, TypeInv, RecvNull, session, requests, net, server, history, Call
<1>10. CASE ConnectReturns
  BY <1>10 DEF ServerType, TypeInv, ConnectReturns, session, requests, net, server, history, Call
<1>11. ASSUME NEW d \in Drones, NEW a \in Answers, RouterServe(d, a) PROVE ServerType'
  <2>1. CASE bound' \subseteq bound \cup {d} /\ work' = work
    BY <1>11, <2>1 DEF RouterServe, TypeInv, ServerType, Free
  <2>2. CASE Head(toRouter).type = "REQUEST" /\ Begin(d, Head(toRouter).req, a) /\ UNCHANGED bound
    <3>1. Head(toRouter).req \in Reqs
      BY <1>11, <2>2, RouterHead, OutFields DEF RouterServe
    <3>2. [drone |-> d, req |-> Head(toRouter).req, todo |-> a] \in Work
      BY <3>1, AnswerType DEF Work
    <3> QED
      BY <1>11, <2>2, <3>2 DEF RouterServe, TypeInv, ServerType, Begin
  <2>3. Head(toRouter).type \in {"REQUEST", "CONNECT", "DISCONNECT"}
    BY <1>11, RouterHead, OutFields DEF RouterServe
  <2> QED
    BY <1>11, <2>1, <2>2, <2>3 DEF RouterServe
<1>12. ASSUME NEW d \in Drones, NEW a \in Answers, DroneServe(d, a) PROVE ServerType'
  <2>1. CASE bound' \subseteq bound \cup {d} /\ work' = work
    BY <1>12, <2>1 DEF DroneServe, TypeInv, ServerType, Free
  <2>2. CASE Head(toDrone[d]).type = "REQUEST" /\ Begin(d, Head(toDrone[d]).req, a) /\ UNCHANGED bound
    <3>1. Head(toDrone[d]).req \in Reqs
      BY <1>12, <2>2, DroneHead, OutFields DEF DroneServe
    <3>2. [drone |-> d, req |-> Head(toDrone[d]).req, todo |-> a] \in Work
      BY <3>1, AnswerType DEF Work
    <3> QED
      BY <1>12, <2>2, <3>2 DEF DroneServe, TypeInv, ServerType, Begin
  <2>3. Head(toDrone[d]).type \in {"REQUEST", "CONNECT", "DISCONNECT"}
    BY <1>12, DroneHead, OutFields DEF DroneServe
  <2> QED
    BY <1>12, <2>1, <2>2, <2>3 DEF DroneServe
<1>13. ASSUME NEW d \in Drones, Bounce(d) PROVE ServerType'
  BY <1>13 DEF ServerType, TypeInv, Bounce, session, requests, calls, server, history, Reply
<1>14. ASSUME NEW d \in Drones, Expire(d) PROVE ServerType'
  BY <1>14 DEF ServerType, TypeInv, Expire, session, requests, calls, history, Reply
<1>15. ASSUME NEW d \in Drones, Die(d) PROVE ServerType'
  BY <1>15 DEF ServerType, TypeInv, Die, session, requests, calls
<1>16. CASE RouterRefuse
  BY <1>16 DEF ServerType, TypeInv, RouterRefuse, session, requests, calls, server, history, Reply
<1>17. ASSUME NEW w \in work, Answer(w) PROVE ServerType'
  <2>1. work' \subseteq work \cup {[w EXCEPT !.todo = Tail(@)]} /\ UNCHANGED <<bound, dead>>
    BY <1>17 DEF Answer
  <2> QED
    BY <2>1, <1>17, TodoHead DEF TypeInv, ServerType
<1> QED
  BY <1>1, <1>2, <1>3, <1>4, <1>5, <1>6, <1>7, <1>8, <1>9, <1>10, <1>11, <1>12, <1>13, <1>14, <1>15,
    <1>16, <1>17 DEF Step

\* The history.
LEMMA HistoryTyped ==
    ASSUME TypeInv, Step, UNCHANGED faults
    PROVE  HistoryType'
<1>1. CASE CallRequest
  BY <1>1 DEF HistoryType, TypeInv, CallRequest, requests, net, server, history, Idle, Call, Sending
<1>2. CASE CallConnect
  BY <1>2 DEF HistoryType, TypeInv, CallConnect, requests, net, server, history, Idle, Call, Sending
<1>3. CASE CallDisconnect
  BY <1>3 DEF HistoryType, TypeInv, CallDisconnect, session, requests, net, server, history, Idle,
    Call, Sending
<1>4. ASSUME NEW r \in Reqs, CallRecv(r) PROVE HistoryType'
  BY <1>4 DEF HistoryType, TypeInv, CallRecv, Take, session, requests, net, server, history, Idle,
    Call, Findable
<1>5. ASSUME NEW r \in Reqs, Finish(r) PROVE HistoryType'
  BY <1>5 DEF HistoryType, TypeInv, Finish, session, calls, net, server, history, Idle, Findable
<1>6. CASE SendTop
  BY <1>6 DEF HistoryType, TypeInv, SendTop, server, history, Frame, Own, Send
<1>7. CASE Process
  BY <1>7 DEF HistoryType, TypeInv, Process, calls, server, Reading
<1>8. CASE RecvResult
  BY <1>8 DEF HistoryType, TypeInv, RecvResult, Take, session, net, server, history, Call
<1>9. CASE RecvNull
  BY <1>9 DEF HistoryType, TypeInv, RecvNull, session, requests, net, server, history, Call
<1>10. CASE ConnectReturns
  BY <1>10 DEF HistoryType, TypeInv, ConnectReturns, session, requests, net, server, history, Call
<1>11. ASSUME NEW d \in Drones, NEW a \in Answers, RouterServe(d, a) PROVE HistoryType'
  <2>1. CASE starts' = starts
    BY <1>11, <2>1 DEF RouterServe, TypeInv, HistoryType
  <2>2. CASE Head(toRouter).type = "REQUEST" /\ Begin(d, Head(toRouter).req, a)
    <3>1. Head(toRouter).req \in Reqs
      BY <1>11, <2>2, RouterHead, OutFields DEF RouterServe
    <3> QED
      BY <1>11, <2>2, <3>1 DEF RouterServe, TypeInv, HistoryType, Begin
  <2>3. Head(toRouter).type \in {"REQUEST", "CONNECT", "DISCONNECT"}
    BY <1>11, RouterHead, OutFields DEF RouterServe
  <2> QED
    BY <1>11, <2>1, <2>2, <2>3 DEF RouterServe
<1>12. ASSUME NEW d \in Drones, NEW a \in Answers, DroneServe(d, a) PROVE HistoryType'
  <2>1. CASE starts' = starts
    BY <1>12, <2>1 DEF DroneServe, TypeInv, HistoryType
  <2>2. CASE Head(toDrone[d]).type = "REQUEST" /\ Begin(d, Head(toDrone[d]).req, a)
    <3>1. Head(toDrone[d]).req \in Reqs
      BY <1>12, <2>2, DroneHead, OutFields DEF DroneServe
    <3> QED
      BY <1>12, <2>2, <3>1 DEF DroneServe, TypeInv, HistoryType, Begin
  <2>3. Head(toDrone[d]).type \in {"REQUEST", "CONNECT", "DISCONNECT"}
    BY <1>12, DroneHead, OutFields DEF DroneServe
  <2> QED
    BY <1>12, <2>1, <2>2, <2>3 DEF DroneServe
<1>13. ASSUME NEW d \in Drones, Bounce(d) PROVE HistoryType'
  BY <1>13 DEF HistoryType, TypeInv, Bounce, session, requests, calls, server, history, Reply
<1>14. ASSUME NEW d \in Drones, Expire(d) PROVE HistoryType'
  BY <1>14 DEF HistoryType, TypeInv, Expire, session, requests, calls, history, Reply
<1>15. ASSUME NEW d \in Drones, Die(d) PROVE HistoryType'
  <2>1. toDrone[d] \in Seq(Out) /\ work \subseteq Work
    BY DEF TypeInv, NetType, ServerType
  <2>2. PICK n \in 0 .. Len(toDrone[d]) :
          LET gone == SubSeq(toDrone[d], 1, n) IN
          lost' = lost \cup {w.req : w \in {x \in work : x.drone = d}}
                       \cup {gone[i].req : i \in {j \in 1 .. n : gone[j].type = "REQUEST"}}
    BY <1>15 DEF Die
  <2>3. \A i \in 1 .. n : SubSeq(toDrone[d], 1, n)[i] = toDrone[d][i] /\ i \in DOMAIN toDrone[d]
          /\ toDrone[d][i] \in Out
    BY <2>1
  <2>4. \A i \in 1 .. n : toDrone[d][i].type = "REQUEST" => toDrone[d][i].req \in Reqs
    BY <2>3, OutFields
  <2>5. \A w \in work : w.req \in Reqs
    BY <2>1 DEF Work
  <2>6. lost' \subseteq Reqs
    BY <2>2, <2>3, <2>4, <2>5 DEF TypeInv, HistoryType
  <2> QED
    BY <1>15, <2>6 DEF Die, TypeInv, HistoryType
<1>16. CASE RouterRefuse
  BY <1>16 DEF HistoryType, TypeInv, RouterRefuse, session, requests, calls, server, history, Reply
<1>17. ASSUME NEW w \in work, Answer(w) PROVE HistoryType'
  BY <1>17 DEF HistoryType, TypeInv, Answer, session, requests, calls, history, Reply
<1> QED
  BY <1>1, <1>2, <1>3, <1>4, <1>5, <1>6, <1>7, <1>8, <1>9, <1>10, <1>11, <1>12, <1>13, <1>14, <1>15,
    <1>16, <1>17 DEF Step

LEMMA TypeStep ==
    ASSUME TypeInv, WorkInv, Step, UNCHANGED faults
    PROVE  TypeInv'
  BY SessionTyped, RequestTyped, HashTyped, OpTyped, StackTyped, NetTyped, InboxTyped, ServerTyped,
     HistoryTyped DEF TypeInv

-----------------------------------------------------------------------------
(* What is left of an answer; whose the sends in progress are.             *)

LEMMA ChainTail ==
    ASSUME NEW a \in Seq(Part), EndsWell(a), Chained(a)
    PROVE  /\ Len(a) = 1 => a[1].kind \in Final
           /\ Len(a) # 1 => /\ EndsWell(Tail(a)) /\ Chained(Tail(a)) /\ FitsAfter(a[1], Tail(a)[1])
                            /\ a[1].kind \notin Final
<1>1. a # << >> /\ a[Len(a)].kind \in Final
  BY DEF EndsWell
<1> SUFFICES ASSUME Len(a) # 1
             PROVE  /\ EndsWell(Tail(a)) /\ Chained(Tail(a)) /\ FitsAfter(a[1], Tail(a)[1])
                    /\ a[1].kind \notin Final
  BY <1>1
<1> DEFINE t == Tail(a)
<1>2. /\ t \in Seq(Part) /\ Len(t) = Len(a) - 1 /\ Len(a) \in Nat /\ Len(a) > 1
      /\ \A i \in 1 .. Len(t) : t[i] = a[i + 1]
  <2>1. a # << >>
    BY <1>1
  <2>2. Len(a) \in Nat /\ Len(a) > 1
    <3>1. Len(a) \in Nat /\ Len(a) # 0
      BY <2>1
    <3> QED
      BY <3>1
  <2>3. /\ t \in Seq(Part) /\ Len(t) = Len(a) - 1 /\ DOMAIN t = 1 .. Len(t)
        /\ \A i \in DOMAIN t : t[i] = a[i + 1]
    BY <2>1, TailFacts DEF Shorter
  <2> QED
    BY <2>2, <2>3
<1> HIDE DEF t
<1>3. \A i \in 1 .. Len(a) - 1 : FitsAfter(a[i], a[i + 1])
  BY DEF Chained
<1>4. FitsAfter(a[1], t[1])
  BY <1>2, <1>3
<1>5. a[1].kind \notin Final
  BY <1>4 DEF FitsAfter
<1>6. EndsWell(t)
  BY <1>1, <1>2 DEF EndsWell
<1>7. Chained(t)
  <2>1. SUFFICES ASSUME NEW i \in 1 .. Len(t) - 1 PROVE FitsAfter(t[i], t[i + 1])
    BY DEF Chained
  <2>2. t[i] = a[i + 1] /\ t[i + 1] = a[(i + 1) + 1] /\ i + 1 \in 1 .. Len(a) - 1
    BY <1>2, <2>1
  <2> QED
    BY <1>3, <2>2
<1> QED
  BY <1>4, <1>5, <1>6, <1>7 DEF t

\* What is left of an answer ends well.
LEMMA WorkStep ==
    ASSUME TypeInv, WorkInv, Step, UNCHANGED faults
    PROVE  WorkInv'
<1>1. CASE CallRequest
  BY <1>1 DEF WorkInv, CallRequest, requests, net, server, history, Idle, Call, Sending
<1>2. CASE CallConnect
  BY <1>2 DEF WorkInv, CallConnect, requests, net, server, history, Idle, Call, Sending
<1>3. CASE CallDisconnect
  BY <1>3 DEF WorkInv, CallDisconnect, session, requests, net, server, history, Idle, Call, Sending
<1>4. ASSUME NEW r \in Reqs, CallRecv(r) PROVE WorkInv'
  BY <1>4 DEF WorkInv, CallRecv, Take, session, requests, net, server, history, Idle, Call, Findable
<1>5. ASSUME NEW r \in Reqs, Finish(r) PROVE WorkInv'
  BY <1>5 DEF WorkInv, Finish, session, calls, net, server, history, Idle, Findable
<1>6. CASE SendTop
  BY <1>6 DEF WorkInv, SendTop, server, history, Frame, Own, Send
<1>7. CASE Process
  BY <1>7 DEF WorkInv, Process, calls, server, Reading
<1>8. CASE RecvResult
  BY <1>8 DEF WorkInv, RecvResult, Take, session, net, server, history, Call
<1>9. CASE RecvNull
  BY <1>9 DEF WorkInv, RecvNull, session, requests, net, server, history, Call
<1>10. CASE ConnectReturns
  BY <1>10 DEF WorkInv, ConnectReturns, session, requests, net, server, history, Call
<1>11. ASSUME NEW d \in Drones, NEW a \in Answers, RouterServe(d, a) PROVE WorkInv'
  <2>1. work' \subseteq work \cup {[drone |-> d, req |-> Head(toRouter).req, todo |-> a]}
    <3>1. Head(toRouter).type \in {"REQUEST", "CONNECT", "DISCONNECT"}
      BY <1>11, RouterHead, OutFields DEF RouterServe
    <3> QED
      BY <1>11, <3>1 DEF RouterServe, Begin
  <2>2. ASSUME NEW w \in work' PROVE EndsWell(w.todo) /\ Chained(w.todo)
    <3>1. CASE w \in work
      BY <3>1 DEF WorkInv
    <3>2. CASE w \notin work
      <4>1. w.todo = a
        BY <2>1, <2>2, <3>2
      <4> QED
        BY <4>1, AnswerType
    <3> QED
      BY <3>1, <3>2
  <2> QED
    BY <2>2 DEF WorkInv
<1>12. ASSUME NEW d \in Drones, NEW a \in Answers, DroneServe(d, a) PROVE WorkInv'
  <2>1. work' \subseteq work \cup {[drone |-> d, req |-> Head(toDrone[d]).req, todo |-> a]}
    <3>1. Head(toDrone[d]).type \in {"REQUEST", "CONNECT", "DISCONNECT"}
      BY <1>12, DroneHead, OutFields DEF DroneServe
    <3> QED
      BY <1>12, <3>1 DEF DroneServe, Begin
  <2>2. ASSUME NEW w \in work' PROVE EndsWell(w.todo) /\ Chained(w.todo)
    <3>1. CASE w \in work
      BY <3>1 DEF WorkInv
    <3>2. CASE w \notin work
      <4>1. w.todo = a
        BY <2>1, <2>2, <3>2
      <4> QED
        BY <4>1, AnswerType
    <3> QED
      BY <3>1, <3>2
  <2> QED
    BY <2>2 DEF WorkInv
<1>13. ASSUME NEW d \in Drones, Bounce(d) PROVE WorkInv'
  BY <1>13 DEF WorkInv, Bounce, session, requests, calls, server, history, Reply
<1>14. ASSUME NEW d \in Drones, Expire(d) PROVE WorkInv'
  BY <1>14 DEF WorkInv, Expire, session, requests, calls, history, Reply
<1>15. ASSUME NEW d \in Drones, Die(d) PROVE WorkInv'
  BY <1>15 DEF WorkInv, Die, session, requests, calls
<1>16. CASE RouterRefuse
  BY <1>16 DEF WorkInv, RouterRefuse, session, requests, calls, server, history, Reply
<1>17. ASSUME NEW w \in work, Answer(w) PROVE WorkInv'
  <2> DEFINE v == [w EXCEPT !.todo = Tail(@)]
  <2>1. w.todo \in Seq(Part) /\ v = [drone |-> w.drone, req |-> w.req, todo |-> Tail(w.todo)]
    BY <1>17, TodoHead
  <2>2. work' \subseteq work \cup (IF Len(w.todo) = 1 THEN {} ELSE {v})
    BY <1>17 DEF Answer
  <2>3. EndsWell(w.todo) /\ Chained(w.todo)
    BY <1>17 DEF WorkInv
  <2>4. Len(w.todo) # 1 => EndsWell(v.todo) /\ Chained(v.todo)
    BY <2>1, <2>3, ChainTail
  <2> HIDE DEF v
  <2> QED
    BY <2>2, <2>4 DEF WorkInv
<1> QED
  BY <1>1, <1>2, <1>3, <1>4, <1>5, <1>6, <1>7, <1>8, <1>9, <1>10, <1>11, <1>12, <1>13, <1>14, <1>15,
    <1>16, <1>17 DEF Step

\* A call's own send stays at the bottom.
LEMMA OwnStep ==
    ASSUME TypeInv, TypeInv', OwnSend, Step, UNCHANGED faults
    PROVE  OwnSend'
<1>1. CASE CallRequest
  <2>1. stack = << >> /\ stack' = <<[type |-> "REQUEST", req |-> trace + 1]>> /\ trace' = trace + 1
        /\ op' = [name |-> "request", req |-> trace + 1]
    BY <1>1 DEF CallRequest, Idle, OwnSend, Call, Sending
  <2> QED
    BY <2>1 DEF OwnSend
<1>2. CASE CallConnect
  <2>1. stack = << >> /\ stack' = <<[type |-> "CONNECT", req |-> trace]>> /\ trace' = trace
        /\ op' = [name |-> "connect", req |-> 0]
    BY <1>2 DEF CallConnect, Idle, OwnSend, Call, Sending
  <2> QED
    BY <2>1 DEF OwnSend
<1>3. CASE CallDisconnect
  <2>1. stack = << >> /\ stack' = <<[type |-> "DISCONNECT", req |-> trace]>> /\ trace' = trace
        /\ op' = [name |-> "disconnect", req |-> 0]
    BY <1>3 DEF CallDisconnect, Idle, OwnSend, Call, Sending, session
  <2> QED
    BY <2>1 DEF OwnSend
<1>4. ASSUME NEW r \in Reqs, CallRecv(r) PROVE OwnSend'
  BY <1>4 DEF OwnSend, CallRecv, Take, session, requests, net, server, history, Idle, Call, Findable
<1>5. ASSUME NEW r \in Reqs, Finish(r) PROVE OwnSend'
  BY <1>5 DEF OwnSend, Finish, session, calls, net, server, history, Idle, Findable
<1>6. CASE SendTop
  <2>1. stack \in Seq(Out) /\ stack # << >> /\ stack' = SubSeq(stack, 1, Len(stack) - 1) /\ trace' = trace
    BY <1>6 DEF SendTop, TypeInv, StackType
  <2>6. stack \in Seq(Out)
    BY <2>1
  <2>7. stack # << >>
    BY <2>1
  <2>8. stack' = SubSeq(stack, 1, Len(stack) - 1)
    BY <2>1
  <2>2. /\ stack' \in Seq(Out) /\ Len(stack') = Len(stack) - 1 /\ Len(stack) \in Nat
        /\ \A i \in DOMAIN stack' : i \in DOMAIN stack /\ stack'[i] = stack[i] /\ i # Len(stack)
    <3>1. Front(Out, stack, stack')
      BY <2>6, <2>7, <2>8, FrontFacts
    <3> QED
      BY <3>1 DEF Front
  <2>3. DOMAIN stack' = 1 .. Len(stack') /\ DOMAIN stack = 1 .. Len(stack)
    BY <2>1, <2>2
  <2>4. CASE Own
    <3>1. stack' = << >> /\ op'.name \in {"connecting", "none"}
      BY <1>6, <2>2, <2>4 DEF SendTop, Own, TypeInv, OpType
    <3> QED
      BY <3>1 DEF OwnSend
  <2>5. CASE ~Own
    <3>1. op' = op /\ op.name # "none"
      BY <1>6, <2>5 DEF SendTop, OwnSend
    <3>2. op.name \in {"request", "connect", "disconnect"} => Len(stack) # 1 /\ stack' # << >>
            /\ stack'[1] = stack[1]
      BY <2>1, <2>2, <2>3, <2>5 DEF Own
    <3> QED
      BY <2>1, <2>2, <3>1, <3>2 DEF OwnSend
  <2> QED
    BY <2>4, <2>5
<1>7. CASE Process
  <2>1. op' = op /\ trace' = trace /\ op.name # "none"
    BY <1>7 DEF Process, Reading, OwnSend, calls
  <2>2. stack' = stack \/ \E r \in Reqs : stack' = Append(stack, [type |-> "REQUEST", req |-> r])
    BY <1>7 DEF Process, ForRequest, Connected, Over, Unreachable, Resend, Sending
  <2>3. CASE stack' = stack
    BY <2>1, <2>3 DEF OwnSend
  <2>4. ASSUME NEW r \in Reqs, stack' = Append(stack, [type |-> "REQUEST", req |-> r]) PROVE OwnSend'
    <3>1. stack \in Seq(Out) /\ [type |-> "REQUEST", req |-> r] \in Out
      BY OutIs DEF TypeInv, StackType
    <3>2. /\ stack' # << >> /\ \A i \in DOMAIN stack : i \in DOMAIN stack' /\ stack'[i] = stack[i]
          /\ \A i \in DOMAIN stack' : stack'[i].type = "REQUEST" \/ i \in DOMAIN stack
      <4>1. Longer(Out, stack, [type |-> "REQUEST", req |-> r], stack')
        BY <2>4, <3>1, AppendFacts
      <4>2. \A i \in DOMAIN stack' : stack'[i].type = "REQUEST" \/ i \in DOMAIN stack
        BY <4>1 DEF Longer
      <4>3. stack' # << >>
        BY <4>1 DEF Longer
      <4> QED
        BY <4>1, <4>2, <4>3 DEF Longer
    <3>3. stack # << >> => 1 \in DOMAIN stack
      BY <3>1
    <3> QED
      BY <2>1, <3>2, <3>3 DEF OwnSend
  <2> QED
    BY <2>2, <2>3, <2>4
<1>8. CASE RecvResult
  BY <1>8 DEF OwnSend, RecvResult, Take, session, net, server, history, Call
<1>9. CASE RecvNull
  BY <1>9 DEF OwnSend, RecvNull, session, requests, net, server, history, Call
<1>10. CASE ConnectReturns
  BY <1>10 DEF OwnSend, ConnectReturns, session, requests, net, server, history, Call
<1>11. ASSUME NEW d \in Drones, NEW a \in Answers, RouterServe(d, a) PROVE OwnSend'
  BY <1>11 DEF OwnSend, RouterServe, session, requests, calls, Reply, Begin, Free
<1>12. ASSUME NEW d \in Drones, NEW a \in Answers, DroneServe(d, a) PROVE OwnSend'
  BY <1>12 DEF OwnSend, DroneServe, session, requests, calls, Reply, Begin
<1>13. ASSUME NEW d \in Drones, Bounce(d) PROVE OwnSend'
  BY <1>13 DEF OwnSend, Bounce, session, requests, calls, server, history, Reply
<1>14. ASSUME NEW d \in Drones, Expire(d) PROVE OwnSend'
  BY <1>14 DEF OwnSend, Expire, session, requests, calls, history, Reply
<1>15. ASSUME NEW d \in Drones, Die(d) PROVE OwnSend'
  BY <1>15 DEF OwnSend, Die, session, requests, calls
<1>16. CASE RouterRefuse
  BY <1>16 DEF OwnSend, RouterRefuse, session, requests, calls, server, history, Reply
<1>17. ASSUME NEW w \in work, Answer(w) PROVE OwnSend'
  BY <1>17 DEF OwnSend, Answer, session, requests, calls, history, Reply
<1> QED
  BY <1>1, <1>2, <1>3, <1>4, <1>5, <1>6, <1>7, <1>8, <1>9, <1>10, <1>11, <1>12, <1>13, <1>14, <1>15,
    <1>16, <1>17 DEF Step

-----------------------------------------------------------------------------
(* What the actions do to the messages that name a request.                *)

LEMMA SendTopEffect ==
    ASSUME TypeInv, SendTop
    PROVE  /\ Frame \in Out /\ Frame = stack[Len(stack)] /\ stack # << >>
           /\ \A r : Adds(stack', Frame, stack, r)
           /\ \/ /\ state # "CONNECTED" \/ remote = Router
                 /\ toRouter' = Append(toRouter, Frame) /\ toDrone' = toDrone
                 /\ Longer(Out, toRouter, Frame, toRouter')
                 /\ \A r : Adds(toRouter, Frame, toRouter', r)
              \/ /\ state = "CONNECTED" /\ remote \in Drones /\ remote # Router
                 /\ toRouter' = toRouter
                 /\ \A d \in Drones : d # remote => toDrone'[d] = toDrone[d]
                 /\ Longer(Out, toDrone[remote], Frame, toDrone'[remote])
                 /\ \A r : Adds(toDrone[remote], Frame, toDrone'[remote], r)
<1> DEFINE e == Frame
           to == IF state = "CONNECTED" THEN remote ELSE Router
<1>1. /\ stack # << >> /\ stack' = SubSeq(stack, 1, Len(stack) - 1)
      /\ Send(to, e)
  BY DEF SendTop
<1>2. stack \in Seq(Out) /\ toRouter \in Seq(Out) /\ to \in Drones \cup {Router}
  BY DEF TypeInv, StackType, NetType, SessionType
<1>3. e \in Out /\ e = stack[Len(stack)]
  BY <1>1, StackTop DEF Frame
<1>4. ASSUME NEW r PROVE Adds(stack', e, stack, r)
  <2> DEFINE t == stack'
  <2>1. t = SubSeq(stack, 1, Len(stack) - 1)
    BY <1>1
  <2>2. stack \in Seq(Out) /\ stack # << >>
    BY <1>1, <1>2
  <2> HIDE DEF t, e
  <2>3. Adds(t, stack[Len(stack)], stack, r)
    BY <2>1, <2>2, FrontAdds
  <2> QED
    BY <2>3, <1>3 DEF t
<1> HIDE DEF e
<1>5. CASE to = Router
  <2>1. toRouter' = Append(toRouter, e) /\ toDrone' = toDrone
    BY <1>1, <1>5 DEF Send
  <2> DEFINE u == toRouter'
  <2>2. toRouter \in Seq(Out) /\ e \in Out /\ u = Append(toRouter, e)
    BY <1>2, <1>3, <2>1
  <2> HIDE DEF u
  <2>3. Longer(Out, toRouter, e, u)
    BY <2>2, AppendFacts
  <2>4. ASSUME NEW r PROVE Adds(toRouter, e, u, r)
    BY <2>2, AppendAdds
  <2> QED
    BY <1>1, <1>3, <1>4, <1>5, <2>1, <2>3, <2>4 DEF u, e
<1>6. CASE to # Router
  <2>1. toDrone' = [toDrone EXCEPT ![to] = Append(@, e)] /\ toRouter' = toRouter
    BY <1>1, <1>6 DEF Send
  <2>2. state = "CONNECTED" /\ to = remote /\ remote \in Drones /\ remote # Router
    BY <1>2, <1>6
  <2>3. toDrone \in [Drones -> Seq(Out)]
    BY DEF TypeInv, NetType
  <2>4. (\A d \in Drones : d # remote => toDrone'[d] = toDrone[d])
          /\ toDrone'[remote] = Append(toDrone[remote], e)
    BY <2>1, <2>2, <2>3
  <2> DEFINE u == toDrone'[remote]
             s == toDrone[remote]
  <2>5. s \in Seq(Out) /\ e \in Out /\ u = Append(s, e)
    BY <1>3, <2>2, <2>3, <2>4
  <2> HIDE DEF u, s
  <2>6. Longer(Out, s, e, u)
    BY <2>5, AppendFacts
  <2>7. ASSUME NEW r PROVE Adds(s, e, u, r)
    BY <2>5, AppendAdds
  <2> QED
    BY <1>1, <1>3, <1>4, <2>1, <2>2, <2>4, <2>6, <2>7 DEF u, s, e
<1> QED
  BY <1>5, <1>6

LEMMA SendTopFront == ASSUME TypeInv, SendTop PROVE Front(Out, stack, stack')
<1> DEFINE t == stack'
<1>1. stack \in Seq(Out) /\ stack # << >> /\ t = SubSeq(stack, 1, Len(stack) - 1)
  BY DEF SendTop, TypeInv, StackType
<1> HIDE DEF t
<1>2. Front(Out, stack, t)
  BY <1>1, FrontFacts
<1> QED
  BY <1>2 DEF t

LEMMA InboxTakes ==
    ASSUME TypeInv, inbox # << >>, inbox' = Tail(inbox)
    PROVE  /\ Shorter(Back, inbox, inbox') /\ \A r : Adds(inbox', Head(inbox), inbox, r)
<1> DEFINE t == inbox'
<1>1. inbox \in Seq(Back) /\ inbox # << >> /\ t = Tail(inbox)
  BY DEF TypeInv, InboxType
<1> HIDE DEF t
<1>2. Shorter(Back, inbox, t)
  BY <1>1, TailFacts
<1>3. ASSUME NEW r PROVE Adds(t, Head(inbox), inbox, r)
  BY <1>1, TailAdds
<1> QED
  BY <1>2, <1>3 DEF t

LEMMA InboxGains ==
    ASSUME TypeInv, NEW e \in Back, inbox' = Append(inbox, e)
    PROVE  /\ Longer(Back, inbox, e, inbox') /\ \A r : Adds(inbox, e, inbox', r)
<1> DEFINE u == inbox'
<1>1. inbox \in Seq(Back) /\ u = Append(inbox, e)
  BY DEF TypeInv, InboxType
<1> HIDE DEF u
<1>2. Longer(Back, inbox, e, u)
  BY <1>1, AppendFacts
<1>3. ASSUME NEW r PROVE Adds(inbox, e, u, r)
  BY <1>1, AppendAdds
<1> QED
  BY <1>2, <1>3 DEF u

LEMMA StackGains ==
    ASSUME TypeInv, NEW e \in Out, stack' = Append(stack, e)
    PROVE  /\ Longer(Out, stack, e, stack') /\ \A r : Adds(stack, e, stack', r)
<1> DEFINE u == stack'
<1>1. stack \in Seq(Out) /\ u = Append(stack, e)
  BY DEF TypeInv, StackType
<1> HIDE DEF u
<1>2. Longer(Out, stack, e, u)
  BY <1>1, AppendFacts
<1>3. ASSUME NEW r PROVE Adds(stack, e, u, r)
  BY <1>1, AppendAdds
<1> QED
  BY <1>2, <1>3 DEF u

LEMMA RouterTakes ==
    ASSUME TypeInv, toRouter # << >>, toRouter' = Tail(toRouter)
    PROVE  /\ Shorter(Out, toRouter, toRouter') /\ \A r : Adds(toRouter', Head(toRouter), toRouter, r)
<1> DEFINE t == toRouter'
<1>1. toRouter \in Seq(Out) /\ toRouter # << >> /\ t = Tail(toRouter)
  BY DEF TypeInv, NetType
<1> HIDE DEF t
<1>2. Shorter(Out, toRouter, t)
  BY <1>1, TailFacts
<1>3. ASSUME NEW r PROVE Adds(t, Head(toRouter), toRouter, r)
  BY <1>1, TailAdds
<1> QED
  BY <1>2, <1>3 DEF t

LEMMA DroneTakes ==
    ASSUME TypeInv, NEW d \in Drones, toDrone[d] # << >>, toDrone' = [toDrone EXCEPT ![d] = Tail(@)]
    PROVE  /\ Shorter(Out, toDrone[d], toDrone'[d])
           /\ \A r : Adds(toDrone'[d], Head(toDrone[d]), toDrone[d], r)
           /\ \A e \in Drones : e # d => toDrone'[e] = toDrone[e]
<1> DEFINE t == toDrone'[d]
           s == toDrone[d]
<1>0. toDrone \in [Drones -> Seq(Out)]
  BY DEF TypeInv, NetType
<1>1. s \in Seq(Out) /\ s # << >> /\ t = Tail(s)
  BY <1>0
<1>2. \A e \in Drones : e # d => toDrone'[e] = toDrone[e]
  BY <1>0
<1> HIDE DEF t, s
<1>3. Shorter(Out, s, t)
  BY <1>1, TailFacts
<1>4. ASSUME NEW r PROVE Adds(t, Head(s), s, r)
  BY <1>1, TailAdds
<1> QED
  BY <1>2, <1>3, <1>4 DEF t, s

\* A worker dies with what it was doing and the first messages sent to it.
LEMMA DieEffect ==
    ASSUME TypeInv, NEW d \in Drones, Die(d)
    PROVE  /\ \A e \in Drones : e # d => toDrone'[e] = toDrone[e]
           /\ work' = {w \in work : w.drone # d}
           /\ \E n \in 0 .. Len(toDrone[d]) :
                /\ Dropped(Out, toDrone[d], n, toDrone'[d])
                /\ \A r : Leaves(toDrone[d], n, toDrone'[d], r)
                /\ \A r : r \in lost' <=>
                     \/ r \in lost \/ \E w \in work : w.drone = d /\ w.req = r
                     \/ \E i \in 1 .. n : toDrone[d][i].type = "REQUEST" /\ toDrone[d][i].req = r
<1>1. toDrone \in [Drones -> Seq(Out)]
  BY DEF TypeInv, NetType
<1>2. PICK n \in 0 .. Len(toDrone[d]) :
          LET gone == SubSeq(toDrone[d], 1, n) IN
          /\ toDrone' = [toDrone EXCEPT ![d] = SubSeq(@, n + 1, Len(@))]
          /\ lost' = lost \cup {w.req : w \in {x \in work : x.drone = d}}
                         \cup {gone[i].req : i \in {j \in 1 .. n : gone[j].type = "REQUEST"}}
  BY DEF Die
<1> DEFINE s == toDrone[d]
           t == toDrone'[d]
           gone == SubSeq(s, 1, n)
<1>3. s \in Seq(Out) /\ t = SubSeq(s, n + 1, Len(s)) /\ n \in 0 .. Len(s)
  BY <1>1, <1>2
<1>4. \A e \in Drones : e # d => toDrone'[e] = toDrone[e]
  BY <1>1, <1>2
<1>5. lost' = lost \cup {w.req : w \in {x \in work : x.drone = d}}
                  \cup {gone[i].req : i \in {j \in 1 .. n : gone[j].type = "REQUEST"}}
  BY <1>2
<1>6. \A i \in 1 .. n : gone[i] = s[i]
  BY <1>3
<1> HIDE DEF s, t, gone
<1>7. Dropped(Out, s, n, t)
  BY <1>3, DropFacts
<1>8. ASSUME NEW r PROVE Leaves(s, n, t, r)
  BY <1>3, DropLeaves
<1>9. ASSUME NEW r
      PROVE  r \in lost' <=> \/ r \in lost \/ \E w \in work : w.drone = d /\ w.req = r
                             \/ \E i \in 1 .. n : s[i].type = "REQUEST" /\ s[i].req = r
  BY <1>5, <1>6
<1>10. work' = {w \in work : w.drone # d}
  BY DEF Die
<1> QED
  BY <1>3, <1>4, <1>7, <1>8, <1>9, <1>10 DEF s, t

-----------------------------------------------------------------------------
(* Where a request is.                                                     *)

LEMMA InNames == \A s, r : In(s, r) => Names(s, r)
  BY DEF In, Names

LEMMA HeadNames ==
    ASSUME TypeInv, NEW r
    PROVE  /\ toRouter # << >> /\ Head(toRouter).req = r => Names(toRouter, r)
           /\ \A d \in Drones : toDrone[d] # << >> /\ Head(toDrone[d]).req = r => Names(toDrone[d], r)
<1>1. toRouter \in Seq(Out) /\ \A d \in Drones : toDrone[d] \in Seq(Out)
  BY DEF TypeInv, NetType
<1>2. ASSUME NEW s \in Seq(Out), s # << >>, Head(s).req = r PROVE Names(s, r)
  <2>1. Head(s) = s[1] /\ 1 \in DOMAIN s
    BY <1>2
  <2> QED
    BY <1>2, <2>1 DEF Names
<1> QED
  BY <1>1, <1>2

LEMMA EndsLastTakes ==
    ASSUME TypeInv, NEW r \in Reqs, EndsLast(r), inbox # << >>, inbox' = Tail(inbox)
    PROVE  /\ EndsLast(r)'
           /\ Head(inbox).req = r /\ Head(inbox).kind \in Ends => ~Names(inbox', r) /\ ~Ended(inbox', r)
<1> DEFINE t == inbox'
<1>1. Shorter(Back, inbox, t)
  BY InboxTakes
<1> HIDE DEF t
<1>2. \A i \in DOMAIN t : i \in Nat /\ i # 0 /\ i + 1 \in DOMAIN inbox /\ t[i] = inbox[i + 1]
  BY <1>1 DEF Shorter
<1>3. ASSUME NEW i \in DOMAIN t, NEW j \in DOMAIN t, t[i].req = r, t[j].req = r, t[i].kind \in Ends
      PROVE  j <= i
  <2>1. j + 1 <= i + 1
    BY <1>2, <1>3 DEF EndsLast
  <2> QED
    BY <1>2, <2>1
<1>4. ASSUME Head(inbox).req = r, Head(inbox).kind \in Ends, NEW i \in DOMAIN t, t[i].req = r PROVE FALSE
  <2>1. 1 \in DOMAIN inbox /\ inbox[1].req = r /\ inbox[1].kind \in Ends
    BY <1>1, <1>4 DEF Shorter
  <2>2. i + 1 <= 1
    BY <1>2, <1>4, <2>1 DEF EndsLast
  <2> QED
    BY <1>2, <1>4, <2>2
<1>5. EndsLast(r)'
  BY <1>3 DEF EndsLast, t
<1> QED
  BY <1>4, <1>5 DEF Names, Ended, t

LEMMA EndsLastGains ==
    ASSUME TypeInv, NEW r \in Reqs, EndsLast(r), NEW e \in Back, inbox' = Append(inbox, e),
           e.req = r => ~Ended(inbox, r)
    PROVE  EndsLast(r)'
<1> DEFINE u == inbox'
<1>1. Longer(Back, inbox, e, u)
  BY InboxGains
<1> HIDE DEF u
<1>2. ASSUME NEW i \in DOMAIN u, NEW j \in DOMAIN u, u[i].req = r, u[j].req = r, u[i].kind \in Ends
      PROVE  j <= i
  <2>1. CASE i = Len(u)
    BY <1>1, <2>1 DEF Longer
  <2>2. CASE i # Len(u)
    <3>1. i \in DOMAIN inbox /\ inbox[i] = u[i]
      BY <1>1, <2>2 DEF Longer
    <3>2. Ended(inbox, r)
      BY <1>2, <3>1 DEF Ended
    <3>3. j \in DOMAIN inbox /\ inbox[j] = u[j]
      BY <1>1, <1>2, <3>2 DEF Longer
    <3> QED
      BY <1>2, <3>1, <3>3 DEF EndsLast
  <2> QED
    BY <2>1, <2>2
<1> QED
  BY <1>2 DEF EndsLast, u

\* Neither what is sent nor what is being answered changes, and nothing comes that ends r.
LEMMA OnePlaceKept ==
    ASSUME NEW r \in Reqs, OnePlace(r), UNCHANGED <<stack, toRouter, toDrone, work>>,
           Ended(inbox', r) => Ended(inbox, r)
    PROVE  OnePlace(r)'
<1>1. Once(stack', r) /\ Once(toRouter', r) /\ (Names(stack', r) <=> Names(stack, r))
        /\ (Names(toRouter', r) <=> Names(toRouter, r))
  BY DEF OnePlace
<1>2. (Worked(r)' <=> Worked(r)) /\ (Droned(r)' <=> Droned(r))
  BY DEF Worked, Droned
<1>3. \A v, w \in work' : v.req = r /\ w.req = r => v = w
  BY DEF OnePlace
<1>4. /\ \A d \in Drones : Once(toDrone'[d], r)
      /\ \A d, e \in Drones : Names(toDrone'[d], r) /\ Names(toDrone'[e], r) => d = e
  BY DEF OnePlace
<1> QED
  BY <1>1, <1>2, <1>3, <1>4 DEF OnePlace

\* What a worker that reads message m does.
Handles(d, a, m) ==
    \/ m.type = "REQUEST" /\ Begin(d, m.req, a) /\ UNCHANGED <<inbox, bound>>
    \/ m.type = "CONNECT" /\ Reply(d, "OK", m.req, 0) /\ UNCHANGED <<work, starts>>
    \/ m.type = "DISCONNECT" /\ UNCHANGED <<inbox, work, starts>>
Ignores(d) == d \notin bound /\ UNCHANGED <<inbox, bound, work, starts>>

LEMMA RouterServeEffect ==
    ASSUME TypeInv, NEW d \in Drones, NEW a \in Answers, RouterServe(d, a)
    PROVE  /\ toRouter # << >> /\ Head(toRouter) \in Out /\ Shorter(Out, toRouter, toRouter')
           /\ \A r : Adds(toRouter', Head(toRouter), toRouter, r)
           /\ Handles(d, a, Head(toRouter))
<1>1. toRouter # << >> /\ toRouter' = Tail(toRouter)
  BY DEF RouterServe
<1>2. Head(toRouter) \in Out
  BY <1>1, RouterHead
<1>3. Head(toRouter).type \in {"REQUEST", "CONNECT", "DISCONNECT"}
  BY <1>2, OutFields
<1>4. Handles(d, a, Head(toRouter))
  BY <1>3 DEF RouterServe, Handles
<1> QED
  BY <1>1, <1>2, <1>4, RouterTakes

LEMMA DroneServeEffect ==
    ASSUME TypeInv, NEW d \in Drones, NEW a \in Answers, DroneServe(d, a)
    PROVE  /\ toDrone[d] # << >> /\ Head(toDrone[d]) \in Out /\ Shorter(Out, toDrone[d], toDrone'[d])
           /\ \A r : Adds(toDrone'[d], Head(toDrone[d]), toDrone[d], r)
           /\ \A e \in Drones : e # d => toDrone'[e] = toDrone[e]
           /\ Handles(d, a, Head(toDrone[d])) \/ Ignores(d)
<1>1. toDrone[d] # << >> /\ toDrone' = [toDrone EXCEPT ![d] = Tail(@)]
  BY DEF DroneServe
<1>2. Head(toDrone[d]) \in Out
  BY <1>1, DroneHead
<1>3. Head(toDrone[d]).type \in {"REQUEST", "CONNECT", "DISCONNECT"}
  BY <1>2, OutFields
<1>4. Handles(d, a, Head(toDrone[d])) \/ Ignores(d)
  BY <1>3 DEF DroneServe, Handles, Ignores
<1> QED
  BY <1>1, <1>2, <1>4, DroneTakes

LEMMA HandlesEffect ==
    ASSUME TypeInv, NEW d \in Drones, NEW a, NEW m \in Out, Handles(d, a, m) \/ Ignores(d), NEW r
    PROVE  /\ Ended(inbox', r) <=> Ended(inbox, r)
           /\ Worked(r)' => Worked(r) \/ (m.req = r /\ m.type = "REQUEST")
           /\ Worked(r) => Worked(r)'
           /\ (\A v, w \in work : v.req = r /\ w.req = r => v = w) /\ (m.req = r => ~Worked(r))
              => \A v, w \in work' : v.req = r /\ w.req = r => v = w
           /\ \A i \in DOMAIN inbox' : (i \in DOMAIN inbox /\ inbox'[i] = inbox[i]) \/ inbox'[i].kind = "OK"
           /\ EndsLast(r) /\ r \in Reqs /\ (m.req = r => ~Ended(inbox, r)) => EndsLast(r)'
<1>1. CASE m.type = "REQUEST" /\ Begin(d, m.req, a) /\ UNCHANGED inbox
  <2>1. work' = work \cup {[drone |-> d, req |-> m.req, todo |-> a]} /\ inbox' = inbox
    BY <1>1 DEF Begin
  <2> QED
    BY <1>1, <2>1 DEF Worked, EndsLast
<1>2. CASE m.type = "CONNECT" /\ Reply(d, "OK", m.req, 0) /\ UNCHANGED work
  <2> DEFINE e == [from |-> d, kind |-> "OK", req |-> m.req, k |-> 0]
  <2>1. e \in Back /\ inbox' = Append(inbox, e)
    BY <1>2, OutFields, ReplyIs DEF Reply
  <2>2. e.kind = "OK" /\ e.kind \notin Ends /\ e.req = m.req
    BY DEF Ends
  <2> HIDE DEF e
  <2>3. Longer(Back, inbox, e, inbox') /\ Adds(inbox, e, inbox', r)
    BY <2>1, InboxGains
  <2>4. Ended(inbox', r) <=> Ended(inbox, r)
    BY <2>2, <2>3 DEF Adds
  <2>5. \A i \in DOMAIN inbox' : (i \in DOMAIN inbox /\ inbox'[i] = inbox[i]) \/ inbox'[i].kind = "OK"
    BY <2>2, <2>3 DEF Longer
  <2>6. EndsLast(r) /\ r \in Reqs /\ (m.req = r => ~Ended(inbox, r)) => EndsLast(r)'
    BY <2>1, <2>2, EndsLastGains
  <2> QED
    BY <1>2, <2>4, <2>5, <2>6 DEF Worked
<1>3. CASE UNCHANGED <<inbox, work>>
  BY <1>3 DEF Worked, EndsLast
<1> QED
  BY <1>1, <1>2, <1>3 DEF Handles, Ignores

LEMMA BounceEffect ==
    ASSUME TypeInv, NEW d \in Drones, Bounce(d)
    PROVE  /\ toDrone[d] # << >> /\ Head(toDrone[d]) \in Out /\ Shorter(Out, toDrone[d], toDrone'[d])
           /\ \A r : Adds(toDrone'[d], Head(toDrone[d]), toDrone[d], r)
           /\ \A e \in Drones : e # d => toDrone'[e] = toDrone[e]
           /\ \E e \in Back : /\ e = [from |-> d, kind |-> "BOUNCE", req |-> Head(toDrone[d]).req, k |-> 0]
                             /\ inbox' = Append(inbox, e) /\ Longer(Back, inbox, e, inbox')
                             /\ e.kind = "BOUNCE" /\ e.kind \in Ends /\ e.kind \notin AnswerKinds
                             /\ e.req = Head(toDrone[d]).req /\ e.from = d
                             /\ \A r : Adds(inbox, e, inbox', r)
<1>1. /\ toDrone[d] # << >> /\ toDrone' = [toDrone EXCEPT ![d] = Tail(@)]
      /\ Reply(d, "BOUNCE", Head(toDrone[d]).req, 0)
  BY DEF Bounce
<1>2. Head(toDrone[d]) \in Out
  BY <1>1, DroneHead
<1> DEFINE e == [from |-> d, kind |-> "BOUNCE", req |-> Head(toDrone[d]).req, k |-> 0]
<1>3. e \in Back /\ inbox' = Append(inbox, e)
  BY <1>1, <1>2, OutFields, ReplyIs DEF Reply
<1>4. e.kind = "BOUNCE" /\ e.kind \in Ends /\ e.kind \notin AnswerKinds
        /\ e.req = Head(toDrone[d]).req /\ e.from = d
  BY DEF Ends, AnswerKinds
<1>5. e = [from |-> d, kind |-> "BOUNCE", req |-> Head(toDrone[d]).req, k |-> 0]
  OBVIOUS
<1> HIDE DEF e
<1>6. Longer(Back, inbox, e, inbox') /\ \A r : Adds(inbox, e, inbox', r)
  BY <1>3, InboxGains
<1>7. /\ Shorter(Out, toDrone[d], toDrone'[d])
      /\ \A r : Adds(toDrone'[d], Head(toDrone[d]), toDrone[d], r)
      /\ \A f \in Drones : f # d => toDrone'[f] = toDrone[f]
  BY <1>1, DroneTakes
<1> QED
  BY <1>1, <1>2, <1>3, <1>4, <1>5, <1>6, <1>7

LEMMA RefuseEffect ==
    ASSUME TypeInv, RouterRefuse
    PROVE  /\ toRouter # << >> /\ Head(toRouter) \in Out /\ Shorter(Out, toRouter, toRouter')
           /\ \A r : Adds(toRouter', Head(toRouter), toRouter, r)
           /\ \E e \in Back : /\ inbox' = Append(inbox, e) /\ Longer(Back, inbox, e, inbox')
                             /\ e.kind = "BOUNCE" /\ e.kind \in Ends /\ e.kind \notin AnswerKinds
                             /\ e.req = Head(toRouter).req /\ e.from = Router
                             /\ \A r : Adds(inbox, e, inbox', r)
<1>1. /\ toRouter # << >> /\ toRouter' = Tail(toRouter)
      /\ Reply(Router, "BOUNCE", Head(toRouter).req, 0)
  BY DEF RouterRefuse
<1>2. Head(toRouter) \in Out
  BY <1>1, RouterHead
<1> DEFINE e == [from |-> Router, kind |-> "BOUNCE", req |-> Head(toRouter).req, k |-> 0]
<1>3. e \in Back /\ inbox' = Append(inbox, e)
  BY <1>1, <1>2, OutFields, ReplyIs DEF Reply
<1>4. e.kind = "BOUNCE" /\ e.kind \in Ends /\ e.kind \notin AnswerKinds
        /\ e.req = Head(toRouter).req /\ e.from = Router
  BY DEF Ends, AnswerKinds
<1> HIDE DEF e
<1>5. Longer(Back, inbox, e, inbox') /\ \A r : Adds(inbox, e, inbox', r)
  BY <1>3, InboxGains
<1> QED
  BY <1>1, <1>2, <1>3, <1>4, <1>5, RouterTakes

LEMMA AnswerEffect ==
    ASSUME TypeInv, WorkInv, NEW w \in work, Answer(w)
    PROVE  \E e \in Back :
             /\ e = [from |-> w.drone, kind |-> w.todo[1].kind, req |-> w.req, k |-> w.todo[1].k]
             /\ inbox' = Append(inbox, e) /\ Longer(Back, inbox, e, inbox')
             /\ e.req = w.req /\ e.from = w.drone /\ e.kind = w.todo[1].kind /\ e.k = w.todo[1].k
             /\ e.kind \in AnswerKinds
             /\ \A r : Adds(inbox, e, inbox', r)
             /\ \/ e.kind \in Final /\ Len(w.todo) = 1 /\ work' = work \ {w}
                \/ /\ e.kind \notin Final /\ e.kind \notin Ends
                   /\ FitsAfter(w.todo[1], Tail(w.todo)[1])
                   /\ work' = (work \ {w}) \cup {[drone |-> w.drone, req |-> w.req, todo |-> Tail(w.todo)]}
<1> DEFINE e == [from |-> w.drone, kind |-> w.todo[1].kind, req |-> w.req, k |-> w.todo[1].k]
           v == [drone |-> w.drone, req |-> w.req, todo |-> Tail(w.todo)]
<1>1. /\ w \in Work /\ w.drone \in Drones /\ w.req \in Reqs /\ w.todo \in Seq(Part)
      /\ Head(w.todo) = w.todo[1] /\ w.todo[1].kind \in AnswerKinds /\ w.todo[1].k \in Ks
      /\ [w EXCEPT !.todo = Tail(@)] = v
  BY TodoHead
<1>2. e \in Back
  BY <1>1, ReplyIs
<1>3. inbox' = Append(inbox, e) /\ work' = (work \ {w}) \cup IF Len(w.todo) = 1 THEN {} ELSE {v}
  BY <1>1 DEF Answer, Reply
<1>4. e.req = w.req /\ e.from = w.drone /\ e.kind = w.todo[1].kind /\ e.k = w.todo[1].k
  OBVIOUS
<1>5. e = [from |-> w.drone, kind |-> w.todo[1].kind, req |-> w.req, k |-> w.todo[1].k]
  OBVIOUS
<1>6. EndsWell(w.todo) /\ Chained(w.todo)
  BY DEF WorkInv
<1>7. /\ Len(w.todo) = 1 => w.todo[1].kind \in Final
      /\ Len(w.todo) # 1 => w.todo[1].kind \notin Final /\ FitsAfter(w.todo[1], Tail(w.todo)[1])
  BY <1>1, <1>6, ChainTail
<1>8. w.todo[1].kind \notin Final => w.todo[1].kind \notin Ends
  BY <1>1 DEF Ends, Final, AnswerKinds
<1> HIDE DEF e, v
<1>9. Longer(Back, inbox, e, inbox') /\ \A r : Adds(inbox, e, inbox', r)
  BY <1>2, <1>3, InboxGains
<1>10. \/ e.kind \in Final /\ Len(w.todo) = 1 /\ work' = work \ {w}
       \/ /\ e.kind \notin Final /\ e.kind \notin Ends
          /\ FitsAfter(w.todo[1], Tail(w.todo)[1])
          /\ work' = (work \ {w}) \cup {v}
  BY <1>3, <1>4, <1>7, <1>8
<1> QED
  BY <1>1, <1>2, <1>3, <1>4, <1>5, <1>9, <1>10 DEF v

LEMMA ProcessEffect ==
    ASSUME TypeInv, Process
    PROVE  /\ inbox # << >> /\ inbox' = Tail(inbox) /\ Shorter(Back, inbox, inbox')
           /\ Head(inbox) \in Back /\ Head(inbox) = inbox[1] /\ 1 \in DOMAIN inbox
           /\ \A r : Adds(inbox', Head(inbox), inbox, r)
           /\ \/ stack' = stack
              \/ \E e \in Out : /\ e.type = "REQUEST" /\ e.req = Head(inbox).req /\ e.req \in Reqs
                   /\ ~complete[e.req]
                                /\ Head(inbox).kind = "BOUNCE" /\ Head(inbox).kind \in Ends
                                /\ Findable(e.req) /\ Longer(Out, stack, e, stack')
                                /\ \A r : Adds(stack, e, stack', r)
           /\ \A r \in Reqs : complete'[r] <=> complete[r]
                \/ (r = Head(inbox).req /\ Head(inbox).kind \in Final /\ Findable(r))
<1>1. inbox # << >> /\ inbox' = Tail(inbox)
  BY DEF Process
<1> DEFINE m == Head(inbox)
<1>2. m \in Back /\ m = inbox[1] /\ 1 \in DOMAIN inbox
  BY <1>1, InboxHead
<1>3. m.kind \in Kinds /\ (m.kind \in AnswerKinds => m.req \in Reqs)
  BY <1>2, BackFields
<1>4. complete \in [Reqs -> BOOLEAN]
  BY DEF TypeInv, RequestType
<1>5. ForRequest(m) \/ Connected(m) \/ Over(m) \/ Unreachable(m)
  BY DEF Process
<1> HIDE DEF m
<1>6. ASSUME NEW r \in Reqs
      PROVE  complete'[r] <=> complete[r] \/ (r = m.req /\ m.kind \in Final /\ Findable(r))
  <2>1. CASE ForRequest(m)
    <3>1. m.req \in Reqs /\ m.kind \in AnswerKinds
      BY <1>3, <2>1 DEF ForRequest, AnswerKinds
    <3>2. CASE Findable(m.req) /\ m.kind \in Final
      <4>1. complete' = [complete EXCEPT ![m.req] = TRUE]
        BY <2>1, <3>2 DEF ForRequest, Final
      <4> QED
        BY <1>4, <3>1, <3>2, <4>1
    <3>3. CASE ~(Findable(m.req) /\ m.kind \in Final)
      <4>1. complete' = complete
        BY <2>1, <3>1, <3>3 DEF ForRequest, Final, AnswerKinds
      <4> QED
        BY <3>3, <4>1
    <3> QED
      BY <3>2, <3>3
  <2>2. CASE Connected(m) \/ Over(m) \/ Unreachable(m)
    <3>1. complete' = complete /\ m.kind \notin Final
      BY <2>2 DEF Connected, Over, Unreachable, Final
    <3> QED
      BY <3>1
  <2> QED
    BY <1>5, <2>1, <2>2
<1>7. \/ stack' = stack
      \/ \E e \in Out : /\ e.type = "REQUEST" /\ e.req = m.req /\ e.req \in Reqs /\ ~complete[e.req]
                        /\ m.kind = "BOUNCE" /\ m.kind \in Ends
                        /\ Findable(e.req) /\ Longer(Out, stack, e, stack')
                        /\ \A r : Adds(stack, e, stack', r)
  <2>1. SUFFICES ASSUME stack' # stack
        PROVE  \E e \in Out : /\ e.type = "REQUEST" /\ e.req = m.req /\ e.req \in Reqs /\ ~complete[e.req]
                        /\ m.kind = "BOUNCE" /\ m.kind \in Ends
                        /\ Findable(e.req) /\ Longer(Out, stack, e, stack')
                        /\ \A r : Adds(stack, e, stack', r)
    OBVIOUS
  <2>2. Over(m)
    BY <1>5, <2>1 DEF ForRequest, Connected, Unreachable
  <2>3. m.req \in Reqs /\ Findable(m.req) /\ ~complete[m.req] /\ Sending("REQUEST", m.req)
    BY <2>1, <2>2 DEF Over, Resend
  <2>4. m.kind = "BOUNCE" /\ m.kind \in Ends
    <3>1. m.kind = "TIMEOUT" => m.req = 0
      BY <1>2, BackFields
    <3>2. 0 \notin Reqs
      BY DEF Reqs
    <3> QED
      BY <2>2, <2>3, <3>1, <3>2 DEF Over, Ends
  <2> DEFINE e == [type |-> "REQUEST", req |-> m.req]
  <2>5. e \in Out /\ stack' = Append(stack, e)
    BY <2>3, OutIs DEF Sending
  <2>6. e.type = "REQUEST" /\ e.req = m.req
    OBVIOUS
  <2> HIDE DEF e
  <2>7. Longer(Out, stack, e, stack') /\ \A r : Adds(stack, e, stack', r)
    BY <2>5, StackGains
  <2> QED
    BY <2>3, <2>4, <2>5, <2>6, <2>7
<1>8. Shorter(Back, inbox, inbox') /\ \A r : Adds(inbox', m, inbox, r)
  BY <1>1, InboxTakes DEF m
<1> QED
  BY <1>1, <1>2, <1>6, <1>7, <1>8 DEF m

\* One message more is about to be sent.
LEMMA OnePlaceSent ==
    ASSUME NEW q \in Reqs, OnePlace(q), NEW e, Adds(stack, e, stack', q),
           UNCHANGED <<toRouter, toDrone, work>>, Ended(inbox', q) => Ended(inbox, q),
           e.req = q => ~Names(stack, q) /\ ~Names(toRouter, q) /\ ~Droned(q) /\ ~Worked(q)
             /\ ~Ended(inbox', q)
    PROVE  OnePlace(q)'
<1>1. Once(stack', q) /\ Once(toRouter', q) /\ (Names(toRouter', q) <=> Names(toRouter, q))
      /\ (Names(stack', q) <=> Names(stack, q) \/ e.req = q)
  BY DEF OnePlace, Adds
<1>2. (Worked(q)' <=> Worked(q)) /\ (Droned(q)' <=> Droned(q))
  BY DEF Worked, Droned
<1>3. \A v, w \in work' : v.req = q /\ w.req = q => v = w
  BY DEF OnePlace
<1>4. /\ \A d \in Drones : Once(toDrone'[d], q)
      /\ \A d, e2 \in Drones : Names(toDrone'[d], q) /\ Names(toDrone'[e2], q) => d = e2
  BY DEF OnePlace
<1> QED
  BY <1>1, <1>2, <1>3, <1>4 DEF OnePlace

\* Something is to come of a request in one place at most.
LEMMA OnePlaceStep ==
    ASSUME TypeInv, WorkInv, Calm, CalmInv, Step, NEW q \in Reqs, ~complete[q], ~complete'[q]
    PROVE  OnePlace(q)'
<1>0. OnePlace(q) /\ EndsLast(q)
  BY DEF CalmInv, Placed
<1>1. CASE CallRequest
  <2> DEFINE e == [type |-> "REQUEST", req |-> trace + 1]
  <2>1. e \in Out /\ stack' = Append(stack, e) /\ UNCHANGED <<toRouter, toDrone, work, inbox>>
    <3>1. trace + 1 \in Reqs
      BY <1>1, ConstantsOK DEF CallRequest, TypeInv, SessionType, Reqs
    <3> QED
      BY <1>1, <3>1, OutIs DEF CallRequest, Sending, net, server
  <2>2. e.req = trace + 1 /\ e.type = "REQUEST"
    OBVIOUS
  <2> HIDE DEF e
  <2>3. Adds(stack, e, stack', q)
    BY <2>1, StackGains
  <2>4. e.req = q => ~Names(stack, q) /\ ~Names(toRouter, q) /\ ~Droned(q) /\ ~Worked(q) /\ ~Ended(inbox', q)
    <3>1. q = trace + 1 => q > trace
      BY DEF TypeInv, SessionType
    <3> QED
      BY <2>1, <2>2, <3>1 DEF CalmInv, Fresh, Names, Ended
  <2> QED
    BY <1>0, <2>1, <2>3, <2>4, OnePlaceSent
<1>2. CASE CallConnect
  <2> DEFINE e == [type |-> "CONNECT", req |-> trace]
  <2>1. e \in Out /\ stack' = Append(stack, e) /\ UNCHANGED <<toRouter, toDrone, work, inbox>>
    <3>1. trace \in 0 .. MaxReqs
      BY <1>2, ConstantsOK DEF CallConnect, TypeInv, SessionType, Reqs
    <3> QED
      BY <1>2, <3>1, OutIs DEF CallConnect, Sending, net, server
  <2>2. e.req = trace /\ e.type = "CONNECT"
    OBVIOUS
  <2> HIDE DEF e
  <2>3. Adds(stack, e, stack', q)
    BY <2>1, StackGains
  <2>4. e.req # q
    <3>1. \A r \in 1 .. trace : complete[r]
      BY <1>2 DEF CallConnect, Calm
    <3>2. trace \in 0 .. MaxReqs
      BY DEF TypeInv, SessionType
    <3> QED
      BY <2>2, <3>1, <3>2 DEF Reqs
  <2> QED
    BY <1>0, <2>1, <2>3, <2>4, OnePlaceSent
<1>3. CASE CallDisconnect
  <2> DEFINE e == [type |-> "DISCONNECT", req |-> trace]
  <2>1. e \in Out /\ stack' = Append(stack, e) /\ UNCHANGED <<toRouter, toDrone, work, inbox>>
    <3>1. trace \in 0 .. MaxReqs
      BY <1>3, ConstantsOK DEF CallDisconnect, TypeInv, SessionType, Reqs
    <3> QED
      BY <1>3, <3>1, OutIs DEF CallDisconnect, Sending, net, server
  <2>2. e.req = trace /\ e.type = "DISCONNECT"
    OBVIOUS
  <2> HIDE DEF e
  <2>3. Adds(stack, e, stack', q)
    BY <2>1, StackGains
  <2>4. e.req = q => ~Names(stack, q) /\ ~Names(toRouter, q) /\ ~Droned(q) /\ ~Worked(q) /\ ~Ended(inbox', q)
    <3>1. \A r \in 1 .. trace : complete[r] \/ r \in lost
      BY <1>3 DEF CallDisconnect, Calm
    <3>2. state = "CONNECTED" /\ op.name # "disconnect" /\ trace \in 0 .. MaxReqs
      BY <1>3 DEF CallDisconnect, Idle, TypeInv, SessionType
    <3> QED
      BY <2>1, <2>2, <3>1, <3>2 DEF CalmInv, LostQuiet, Reqs
  <2> QED
    BY <1>0, <2>1, <2>3, <2>4, OnePlaceSent
<1>4. ASSUME NEW r \in Reqs, CallRecv(r) PROVE OnePlace(q)'
  <2>1. UNCHANGED <<stack, toRouter, toDrone, work, inbox>>
    BY <1>4 DEF CallRecv, Take, net, server
  <2> QED
    BY <1>0, <2>1, OnePlaceKept
<1>5. ASSUME NEW r \in Reqs, Finish(r) PROVE OnePlace(q)'
  <2>1. UNCHANGED <<stack, toRouter, toDrone, work, inbox>>
    BY <1>5 DEF Finish, net, server
  <2> QED
    BY <1>0, <2>1, OnePlaceKept
<1>6. CASE SendTop
  <2>1. UNCHANGED <<inbox, work>>
    BY <1>6 DEF SendTop, server
  <2>2. Adds(stack', Frame, stack, q)
    BY <1>6, SendTopEffect
  <2>3. /\ Once(stack', q) /\ (Names(stack', q) => Names(stack, q))
        /\ Frame.req = q => Names(stack, q) /\ ~Names(stack', q)
    BY <1>0, <2>2 DEF Adds, OnePlace
  <2>4. (Worked(q)' <=> Worked(q)) /\ (Ended(inbox', q) <=> Ended(inbox, q))
    BY <2>1 DEF Worked
  <2>5. \A v, w \in work' : v.req = q /\ w.req = q => v = w
    BY <1>0, <2>1 DEF OnePlace
  <2>6. CASE toDrone' = toDrone /\ Adds(toRouter, Frame, toRouter', q)
    <3>1. Droned(q)' <=> Droned(q)
      BY <2>6 DEF Droned
    <3>2. /\ \A d \in Drones : Once(toDrone'[d], q)
          /\ \A d, e \in Drones : Names(toDrone'[d], q) /\ Names(toDrone'[e], q) => d = e
      BY <1>0, <2>6 DEF OnePlace
    <3>3. (Names(toRouter', q) <=> Names(toRouter, q) \/ Frame.req = q) /\ Once(toRouter', q)
      BY <1>0, <2>3, <2>6 DEF Adds, OnePlace
    <3> QED
      BY <1>0, <2>3, <2>4, <2>5, <3>1, <3>2, <3>3 DEF OnePlace
  <2>7. CASE /\ remote \in Drones /\ toRouter' = toRouter /\ Adds(toDrone[remote], Frame, toDrone'[remote], q)
             /\ \A d \in Drones : d # remote => toDrone'[d] = toDrone[d]
    <3>1. Droned(q)' <=> Droned(q) \/ Frame.req = q
      BY <2>7 DEF Droned, Adds
    <3>2. Frame.req = q => \A d \in Drones : ~Names(toDrone[d], q)
      BY <1>0, <2>3 DEF OnePlace, Droned
    <3>3. Once(toDrone'[remote], q)
      BY <1>0, <2>7, <3>2 DEF OnePlace, Adds
    <3>4. \A d \in Drones : Once(toDrone'[d], q)
      BY <1>0, <2>7, <3>3 DEF OnePlace
    <3>5. \A d \in Drones : Names(toDrone'[d], q) <=> Names(toDrone[d], q) \/ (d = remote /\ Frame.req = q)
      BY <2>7 DEF Adds
    <3>6. \A d, e \in Drones : Names(toDrone'[d], q) /\ Names(toDrone'[e], q) => d = e
      BY <1>0, <3>2, <3>5 DEF OnePlace
    <3>7. Once(toRouter', q) /\ (Names(toRouter', q) <=> Names(toRouter, q))
      BY <1>0, <2>7 DEF OnePlace
    <3> QED
      BY <1>0, <2>3, <2>4, <2>5, <3>1, <3>4, <3>6, <3>7 DEF OnePlace
  <2> QED
    BY <1>6, <2>6, <2>7, SendTopEffect
<1>7. CASE Process
  <2>1. UNCHANGED <<toRouter, toDrone, work>>
    BY <1>7 DEF Process, server
  <2>2. inbox # << >> /\ inbox' = Tail(inbox) /\ Adds(inbox', Head(inbox), inbox, q)
    BY <1>7, ProcessEffect
  <2>3. Head(inbox).req = q /\ Head(inbox).kind \in Ends => ~Ended(inbox', q)
    BY <1>0, <2>2, EndsLastTakes
  <2>4. Ended(inbox', q) => Ended(inbox, q)
    BY <2>2 DEF Adds
  <2>5. CASE stack' = stack
    BY <1>0, <2>1, <2>4, <2>5, OnePlaceKept
  <2>6. CASE stack' # stack
    <3>1. PICK e \in Out : /\ e.req = Head(inbox).req /\ Head(inbox).kind \in Ends
                           /\ Adds(stack, e, stack', q)
      BY <1>7, <2>6, ProcessEffect
    <3>2. e.req = q => Ended(inbox, q)
      BY <2>2, <3>1 DEF Adds
    <3>3. e.req = q => ~Names(stack, q) /\ ~Names(toRouter, q) /\ ~Droned(q) /\ ~Worked(q)
            /\ ~Ended(inbox', q)
      BY <1>0, <2>3, <3>1, <3>2 DEF OnePlace
    <3> QED
      BY <1>0, <2>1, <2>4, <3>1, <3>3, OnePlaceSent
  <2> QED
    BY <2>5, <2>6
<1>8. CASE RecvResult
  <2>1. UNCHANGED <<stack, toRouter, toDrone, work, inbox>>
    BY <1>8 DEF RecvResult, Take, net, server
  <2> QED
    BY <1>0, <2>1, OnePlaceKept
<1>9. CASE RecvNull
  <2>1. UNCHANGED <<stack, toRouter, toDrone, work, inbox>>
    BY <1>9 DEF RecvNull, net, server
  <2> QED
    BY <1>0, <2>1, OnePlaceKept
<1>10. CASE ConnectReturns
  <2>1. UNCHANGED <<stack, toRouter, toDrone, work, inbox>>
    BY <1>10 DEF ConnectReturns, net, server
  <2> QED
    BY <1>0, <2>1, OnePlaceKept
<1>11. ASSUME NEW d \in Drones, NEW a \in Answers, RouterServe(d, a) PROVE OnePlace(q)'
  <2>1. Adds(toRouter', Head(toRouter), toRouter, q) /\ Head(toRouter) \in Out /\ toRouter # << >>
    BY <1>11, RouterServeEffect
  <2>2. UNCHANGED <<stack, toDrone>>
    BY <1>11 DEF RouterServe
  <2>3. /\ Once(toRouter', q) /\ (Names(toRouter', q) => Names(toRouter, q))
        /\ Head(toRouter).req = q => Names(toRouter, q) /\ ~Names(toRouter', q)
    BY <1>0, <2>1 DEF Adds, OnePlace
  <2>4. Once(stack', q) /\ (Names(stack', q) <=> Names(stack, q)) /\ (Droned(q)' <=> Droned(q))
    BY <1>0, <2>2 DEF OnePlace, Droned
  <2>5. /\ \A d2 \in Drones : Once(toDrone'[d2], q)
        /\ \A d2, e2 \in Drones : Names(toDrone'[d2], q) /\ Names(toDrone'[e2], q) => d2 = e2
    BY <1>0, <2>2 DEF OnePlace
  <2>6. Head(toRouter).req = q => ~Worked(q)
    BY <1>0, <2>3 DEF OnePlace
  <2>7. /\ Ended(inbox', q) <=> Ended(inbox, q)
        /\ Worked(q)' => Worked(q) \/ Head(toRouter).req = q
        /\ \A v, w \in work' : v.req = q /\ w.req = q => v = w
    <3>1. \A v, w \in work : v.req = q /\ w.req = q => v = w
      BY <1>0 DEF OnePlace
    <3>2. Handles(d, a, Head(toRouter))
      BY <1>11, RouterServeEffect
    <3> DEFINE m == Head(toRouter)
    <3>3. m \in Out /\ (m.req = q => ~Worked(q)) /\ Handles(d, a, m)
      BY <2>1, <2>6, <3>2
    <3> HIDE DEF m
    <3>4. /\ Ended(inbox', q) <=> Ended(inbox, q)
          /\ Worked(q)' => Worked(q) \/ m.req = q
          /\ \A v, w \in work' : v.req = q /\ w.req = q => v = w
      BY <3>1, <3>3, HandlesEffect
    <3> QED
      BY <3>4 DEF m
  <2> QED
    BY <1>0, <2>3, <2>4, <2>5, <2>6, <2>7 DEF OnePlace
<1>12. ASSUME NEW d \in Drones, NEW a \in Answers, DroneServe(d, a) PROVE OnePlace(q)'
  <2>1. Adds(toDrone'[d], Head(toDrone[d]), toDrone[d], q) /\ Head(toDrone[d]) \in Out /\ toDrone[d] # << >>
        /\ \A d2 \in Drones : d2 # d => toDrone'[d2] = toDrone[d2]
    BY <1>12, DroneServeEffect
  <2>2. UNCHANGED <<stack, toRouter>>
    BY <1>12 DEF DroneServe
  <2>3. Head(toDrone[d]).req = q => Droned(q) /\ \A d2 \in Drones : ~Names(toDrone'[d2], q)
    <3>1. SUFFICES ASSUME Head(toDrone[d]).req = q PROVE Droned(q)
                     /\ \A d2 \in Drones : ~Names(toDrone'[d2], q)
      OBVIOUS
    <3>2. Names(toDrone[d], q)
      BY <2>1, <3>1 DEF Adds
    <3>3. \A d2 \in Drones : d2 # d => ~Names(toDrone'[d2], q)
      BY <1>0, <2>1, <3>2 DEF OnePlace
    <3>4. ~Names(toDrone'[d], q)
      BY <1>0, <2>1, <3>1 DEF OnePlace, Adds
    <3> QED
      BY <3>2, <3>3, <3>4 DEF Droned
  <2>4. Once(stack', q) /\ (Names(stack', q) <=> Names(stack, q)) /\ Once(toRouter', q)
          /\ (Names(toRouter', q) <=> Names(toRouter, q))
    BY <1>0, <2>2 DEF OnePlace
  <2>5. \A d2 \in Drones : Once(toDrone'[d2], q) /\ (Names(toDrone'[d2], q) => Names(toDrone[d2], q))
    <3>1. Once(toDrone'[d], q) /\ (Names(toDrone'[d], q) => Names(toDrone[d], q))
      BY <1>0, <2>1 DEF OnePlace, Adds
    <3> QED
      BY <1>0, <2>1, <3>1 DEF OnePlace
  <2>6. \A d2, e2 \in Drones : Names(toDrone'[d2], q) /\ Names(toDrone'[e2], q) => d2 = e2
    BY <1>0, <2>5 DEF OnePlace
  <2>7. (Droned(q)' => Droned(q)) /\ (Head(toDrone[d]).req = q => Droned(q) /\ ~Droned(q)')
    BY <2>3, <2>5 DEF Droned
  <2>8. Head(toDrone[d]).req = q => ~Worked(q)
    BY <1>0, <2>7 DEF OnePlace
  <2>9. /\ Ended(inbox', q) <=> Ended(inbox, q)
        /\ Worked(q)' => Worked(q) \/ Head(toDrone[d]).req = q
        /\ \A v, w \in work' : v.req = q /\ w.req = q => v = w
    <3>1. \A v, w \in work : v.req = q /\ w.req = q => v = w
      BY <1>0 DEF OnePlace
    <3>2. Handles(d, a, Head(toDrone[d])) \/ Ignores(d)
      BY <1>12, DroneServeEffect
    <3> DEFINE m == Head(toDrone[d])
    <3>3. m \in Out /\ (m.req = q => ~Worked(q)) /\ (Handles(d, a, m) \/ Ignores(d))
      BY <2>1, <2>8, <3>2
    <3> HIDE DEF m
    <3>4. /\ Ended(inbox', q) <=> Ended(inbox, q)
          /\ Worked(q)' => Worked(q) \/ m.req = q
          /\ \A v, w \in work' : v.req = q /\ w.req = q => v = w
      BY <3>1, <3>3, HandlesEffect
    <3> QED
      BY <3>4 DEF m
  <2> QED
    BY <1>0, <2>4, <2>5, <2>6, <2>7, <2>9 DEF OnePlace
<1>13. ASSUME NEW d \in Drones, Bounce(d) PROVE OnePlace(q)'
  <2>1. Adds(toDrone'[d], Head(toDrone[d]), toDrone[d], q) /\ Head(toDrone[d]) \in Out /\ toDrone[d] # << >>
        /\ \A d2 \in Drones : d2 # d => toDrone'[d2] = toDrone[d2]
    BY <1>13, BounceEffect
  <2>2. UNCHANGED <<stack, toRouter>>
    BY <1>13 DEF Bounce
  <2>3. Head(toDrone[d]).req = q => Droned(q) /\ \A d2 \in Drones : ~Names(toDrone'[d2], q)
    <3>1. SUFFICES ASSUME Head(toDrone[d]).req = q PROVE Droned(q)
                     /\ \A d2 \in Drones : ~Names(toDrone'[d2], q)
      OBVIOUS
    <3>2. Names(toDrone[d], q)
      BY <2>1, <3>1 DEF Adds
    <3>3. \A d2 \in Drones : d2 # d => ~Names(toDrone'[d2], q)
      BY <1>0, <2>1, <3>2 DEF OnePlace
    <3>4. ~Names(toDrone'[d], q)
      BY <1>0, <2>1, <3>1 DEF OnePlace, Adds
    <3> QED
      BY <3>2, <3>3, <3>4 DEF Droned
  <2>4. Once(stack', q) /\ (Names(stack', q) <=> Names(stack, q)) /\ Once(toRouter', q)
          /\ (Names(toRouter', q) <=> Names(toRouter, q))
    BY <1>0, <2>2 DEF OnePlace
  <2>5. \A d2 \in Drones : Once(toDrone'[d2], q) /\ (Names(toDrone'[d2], q) => Names(toDrone[d2], q))
    <3>1. Once(toDrone'[d], q) /\ (Names(toDrone'[d], q) => Names(toDrone[d], q))
      BY <1>0, <2>1 DEF OnePlace, Adds
    <3> QED
      BY <1>0, <2>1, <3>1 DEF OnePlace
  <2>6. \A d2, e2 \in Drones : Names(toDrone'[d2], q) /\ Names(toDrone'[e2], q) => d2 = e2
    BY <1>0, <2>5 DEF OnePlace
  <2>7. (Droned(q)' => Droned(q)) /\ (Head(toDrone[d]).req = q => Droned(q) /\ ~Droned(q)')
    BY <2>3, <2>5 DEF Droned
  <2>8. (Worked(q)' <=> Worked(q)) /\ \A v, w \in work' : v.req = q /\ w.req = q => v = w
    BY <1>13, <1>0 DEF Bounce, server, Worked, OnePlace
  <2>9. Ended(inbox', q) => Ended(inbox, q) \/ Head(toDrone[d]).req = q
    BY <1>13, BounceEffect DEF Adds
  <2> QED
    BY <1>0, <2>4, <2>5, <2>6, <2>7, <2>8, <2>9 DEF OnePlace
<1>14. ASSUME NEW d \in Drones, Expire(d) PROVE OnePlace(q)'
  <2> DEFINE e == [from |-> d, kind |-> "TIMEOUT", req |-> 0, k |-> 0]
  <2>1. e \in Back /\ inbox' = Append(inbox, e) /\ e.kind \notin Ends
    BY <1>14, ReplyIs DEF Expire, Reply, Ends
  <2> HIDE DEF e
  <2>2. Adds(inbox, e, inbox', q)
    BY <2>1, InboxGains
  <2>3. Ended(inbox', q) => Ended(inbox, q)
    BY <2>1, <2>2 DEF Adds
  <2>4. UNCHANGED <<stack, toRouter, toDrone, work>>
    BY <1>14 DEF Expire
  <2> QED
    BY <1>0, <2>3, <2>4, OnePlaceKept
<1>15. ASSUME NEW d \in Drones, Die(d) PROVE OnePlace(q)'
  <2>1. (\A e \in Drones : e # d => toDrone'[e] = toDrone[e]) /\ work' = {w \in work : w.drone # d}
    BY <1>15, DieEffect
  <2>2. UNCHANGED <<stack, toRouter, inbox>>
    BY <1>15 DEF Die
  <2>3. (Names(toDrone'[d], q) => Names(toDrone[d], q)) /\ (Once(toDrone[d], q) => Once(toDrone'[d], q))
    BY <1>15, DieEffect DEF Leaves
  <2>4. \A e \in Drones : Once(toDrone'[e], q) /\ (Names(toDrone'[e], q) => Names(toDrone[e], q))
    BY <1>0, <2>1, <2>3 DEF OnePlace
  <2>5. \A e, f \in Drones : Names(toDrone'[e], q) /\ Names(toDrone'[f], q) => e = f
    BY <1>0, <2>4 DEF OnePlace
  <2>6. (Droned(q)' => Droned(q)) /\ (Worked(q)' => Worked(q))
    BY <2>1, <2>4 DEF Droned, Worked
  <2>7. \A v, w \in work' : v.req = q /\ w.req = q => v = w
    BY <1>0, <2>1 DEF OnePlace
  <2>8. Once(stack', q) /\ (Names(stack', q) <=> Names(stack, q)) /\ Once(toRouter', q)
          /\ (Names(toRouter', q) <=> Names(toRouter, q))
        /\ (Ended(inbox', q) <=> Ended(inbox, q))
    BY <1>0, <2>2 DEF OnePlace
  <2> QED
    BY <1>0, <2>4, <2>5, <2>6, <2>7, <2>8 DEF OnePlace
<1>16. CASE RouterRefuse
  <2>1. Adds(toRouter', Head(toRouter), toRouter, q) /\ Head(toRouter) \in Out /\ toRouter # << >>
    BY <1>16, RefuseEffect
  <2>2. UNCHANGED <<stack, toDrone>>
    BY <1>16 DEF RouterRefuse
  <2>3. /\ Once(toRouter', q) /\ (Names(toRouter', q) => Names(toRouter, q))
        /\ Head(toRouter).req = q => Names(toRouter, q) /\ ~Names(toRouter', q)
    BY <1>0, <2>1 DEF Adds, OnePlace
  <2>4. Once(stack', q) /\ (Names(stack', q) <=> Names(stack, q)) /\ (Droned(q)' <=> Droned(q))
    BY <1>0, <2>2 DEF OnePlace, Droned
  <2>5. /\ \A d2 \in Drones : Once(toDrone'[d2], q)
        /\ \A d2, e2 \in Drones : Names(toDrone'[d2], q) /\ Names(toDrone'[e2], q) => d2 = e2
    BY <1>0, <2>2 DEF OnePlace
  <2>6. (Worked(q)' <=> Worked(q)) /\ \A v, w \in work' : v.req = q /\ w.req = q => v = w
    BY <1>16, <1>0 DEF RouterRefuse, server, Worked, OnePlace
  <2>7. Ended(inbox', q) => Ended(inbox, q) \/ Head(toRouter).req = q
    BY <1>16, RefuseEffect DEF Adds
  <2> QED
    BY <1>0, <2>3, <2>4, <2>5, <2>6, <2>7 DEF OnePlace
<1>17. ASSUME NEW w \in work, Answer(w) PROVE OnePlace(q)'
  <2>1. PICK e \in Back :
             /\ e.req = w.req /\ e.kind \in AnswerKinds /\ Adds(inbox, e, inbox', q)
             /\ \/ work' = work \ {w}
                \/ /\ e.kind \notin Ends
                   /\ work' = (work \ {w}) \cup {[drone |-> w.drone, req |-> w.req, todo |-> Tail(w.todo)]}
    BY <1>17, AnswerEffect
  <2>2. UNCHANGED <<stack, toRouter, toDrone>>
    BY <1>17 DEF Answer
  <2>3. Once(stack', q) /\ (Names(stack', q) <=> Names(stack, q)) /\ Once(toRouter', q)
          /\ (Names(toRouter', q) <=> Names(toRouter, q))
        /\ (Droned(q)' <=> Droned(q))
    BY <1>0, <2>2 DEF OnePlace, Droned
  <2>4. /\ \A d \in Drones : Once(toDrone'[d], q)
        /\ \A d, f \in Drones : Names(toDrone'[d], q) /\ Names(toDrone'[f], q) => d = f
    BY <1>0, <2>2 DEF OnePlace
  <2>5. \A v, x \in work : v.req = q /\ x.req = q => v = x
    BY <1>0 DEF OnePlace
  <2>6. \A v, x \in work' : v.req = q /\ x.req = q => v = x
    <3> DEFINE y == [drone |-> w.drone, req |-> w.req, todo |-> Tail(w.todo)]
    <3>1. y.req = w.req /\ \A v \in work' : v \in work \ {w} \/ v = y
      BY <2>1
    <3> HIDE DEF y
    <3>2. \A v \in work' : v.req = q => v = y \/ (v \in work /\ v # w)
      BY <3>1
    <3>3. \A v \in work' : v.req = q /\ w.req = q => v = y
      BY <1>17, <2>5, <3>2
    <3>4. \A v \in work' : v.req = q /\ w.req # q => v \in work
      BY <3>1, <3>2
    <3> QED
      BY <2>5, <3>3, <3>4
  <2>7. Worked(q)' => Worked(q)
    BY <1>17, <2>1 DEF Worked
  <2>8. w.req = q => Worked(q)
    BY <1>17 DEF Worked
  <2>9. Ended(inbox', q) /\ ~Ended(inbox, q) => w.req = q /\ ~Worked(q)'
    <3>1. SUFFICES ASSUME Ended(inbox', q), ~Ended(inbox, q) PROVE w.req = q /\ ~Worked(q)'
      OBVIOUS
    <3>2. w.req = q /\ work' = work \ {w}
      BY <2>1, <3>1 DEF Adds
    <3> QED
      BY <1>17, <2>5, <3>2 DEF Worked
  <2> QED
    BY <1>0, <2>3, <2>4, <2>6, <2>7, <2>8, <2>9 DEF OnePlace
<1> QED
  BY <1>1, <1>2, <1>3, <1>4, <1>5, <1>6, <1>7, <1>8, <1>9, <1>10, <1>11, <1>12, <1>13, <1>14, <1>15,
    <1>16, <1>17 DEF Step

\* What ends a request is the last that comes of it.
LEMMA EndsLastStep ==
    ASSUME TypeInv, WorkInv, Calm, CalmInv, Step, NEW q \in Reqs, ~complete[q], ~complete'[q]
    PROVE  EndsLast(q)'
<1>0. OnePlace(q) /\ EndsLast(q)
  BY DEF CalmInv, Placed
<1>1. CASE CallRequest
  BY <1>1, <1>0 DEF EndsLast, CallRequest, requests, net, server, history, Idle, Call, Sending
<1>2. CASE CallConnect
  BY <1>2, <1>0 DEF EndsLast, CallConnect, requests, net, server, history, Idle, Call, Sending
<1>3. CASE CallDisconnect
  BY <1>3, <1>0 DEF EndsLast, CallDisconnect, session, requests, net, server, history, Idle, Call, Sending
<1>4. ASSUME NEW r \in Reqs, CallRecv(r) PROVE EndsLast(q)'
  BY <1>4, <1>0 DEF EndsLast, CallRecv, Take, session, requests, net, server, history, Idle, Call, Findable
<1>5. ASSUME NEW r \in Reqs, Finish(r) PROVE EndsLast(q)'
  BY <1>5, <1>0 DEF EndsLast, Finish, session, calls, net, server, history, Idle, Findable
<1>6. CASE SendTop
  BY <1>6, <1>0 DEF EndsLast, SendTop, server, history, Frame, Own, Send
<1>7. CASE Process
  <2>1. inbox # << >> /\ inbox' = Tail(inbox)
    BY <1>7 DEF Process
  <2> QED
    BY <1>0, <2>1, EndsLastTakes
<1>8. CASE RecvResult
  BY <1>8, <1>0 DEF EndsLast, RecvResult, Take, session, net, server, history, Call
<1>9. CASE RecvNull
  BY <1>9, <1>0 DEF EndsLast, RecvNull, session, requests, net, server, history, Call
<1>10. CASE ConnectReturns
  BY <1>10, <1>0 DEF EndsLast, ConnectReturns, session, requests, net, server, history, Call
<1>11. ASSUME NEW d \in Drones, NEW a \in Answers, RouterServe(d, a) PROVE EndsLast(q)'
  <2> DEFINE m == Head(toRouter)
  <2>1. m \in Out /\ (Handles(d, a, m)) /\ Adds(toRouter', m, toRouter, q)
    BY <1>11, RouterServeEffect
  <2>2. m.req = q => ~Ended(inbox, q)
    BY <1>0, <2>1 DEF Adds, OnePlace
  <2> HIDE DEF m
  <2> QED
    BY <1>0, <2>1, <2>2, HandlesEffect
<1>12. ASSUME NEW d \in Drones, NEW a \in Answers, DroneServe(d, a) PROVE EndsLast(q)'
  <2> DEFINE m == Head(toDrone[d])
  <2>1. m \in Out /\ (Handles(d, a, m) \/ Ignores(d)) /\ Adds(toDrone'[d], m, toDrone[d], q)
    BY <1>12, DroneServeEffect
  <2>2. m.req = q => ~Ended(inbox, q)
    BY <1>0, <2>1 DEF Adds, OnePlace, Droned
  <2> HIDE DEF m
  <2> QED
    BY <1>0, <2>1, <2>2, HandlesEffect
<1>13. ASSUME NEW d \in Drones, Bounce(d) PROVE EndsLast(q)'
  <2>1. PICK e \in Back : inbox' = Append(inbox, e) /\ e.req = Head(toDrone[d]).req
    BY <1>13, BounceEffect
  <2>2. e.req = q => ~Ended(inbox, q)
    <3>1. Adds(toDrone'[d], Head(toDrone[d]), toDrone[d], q)
      BY <1>13, BounceEffect
    <3> QED
      BY <1>0, <2>1, <3>1 DEF Adds, OnePlace, Droned
  <2> QED
    BY <1>0, <2>1, <2>2, EndsLastGains
<1>14. ASSUME NEW d \in Drones, Expire(d) PROVE EndsLast(q)'
  <2> DEFINE e == [from |-> d, kind |-> "TIMEOUT", req |-> 0, k |-> 0]
  <2>1. e \in Back /\ inbox' = Append(inbox, e) /\ e.req = 0
    BY <1>14, ReplyIs DEF Expire, Reply
  <2> HIDE DEF e
  <2> QED
    BY <1>0, <2>1, EndsLastGains DEF Reqs
<1>15. ASSUME NEW d \in Drones, Die(d) PROVE EndsLast(q)'
  BY <1>15, <1>0 DEF EndsLast, Die, session, requests, calls
<1>16. CASE RouterRefuse
  <2>1. PICK e \in Back : inbox' = Append(inbox, e) /\ e.req = Head(toRouter).req
    BY <1>16, RefuseEffect
  <2>2. e.req = q => ~Ended(inbox, q)
    <3>1. Adds(toRouter', Head(toRouter), toRouter, q)
      BY <1>16, RefuseEffect
    <3> QED
      BY <1>0, <2>1, <3>1 DEF Adds, OnePlace
  <2> QED
    BY <1>0, <2>1, <2>2, EndsLastGains
<1>17. ASSUME NEW w \in work, Answer(w) PROVE EndsLast(q)'
  <2>1. PICK e \in Back : inbox' = Append(inbox, e) /\ e.req = w.req
    BY <1>17, AnswerEffect
  <2>2. e.req = q => ~Ended(inbox, q)
    BY <1>17, <1>0, <2>1 DEF OnePlace, Worked
  <2> QED
    BY <1>0, <2>1, <2>2, EndsLastGains
<1> QED
  BY <1>1, <1>2, <1>3, <1>4, <1>5, <1>6, <1>7, <1>8, <1>9, <1>10, <1>11, <1>12, <1>13, <1>14, <1>15,
    <1>16, <1>17 DEF Step

\* Nothing is to come of a request that is complete.
LEMMA SettledStep ==
    ASSUME TypeInv, WorkInv, Calm, CalmInv, Step, NEW q \in Reqs, complete[q]
    PROVE  Settled(q)'
<1>0. Settled(q)
  BY DEF CalmInv, Placed
<1>1. CASE CallRequest
  <2> DEFINE e == [type |-> "REQUEST", req |-> trace + 1]
  <2>1. e \in Out /\ stack' = Append(stack, e) /\ UNCHANGED <<toRouter, toDrone, work, inbox>>
    <3>1. trace + 1 \in Reqs
      BY <1>1, ConstantsOK DEF CallRequest, TypeInv, SessionType, Reqs
    <3> QED
      BY <1>1, <3>1, OutIs DEF CallRequest, Sending, net, server
  <2>2. e.req = trace + 1 /\ e.type = "REQUEST"
    OBVIOUS
  <2> HIDE DEF e
  <2>3. Adds(stack, e, stack', q)
    BY <2>1, StackGains
  <2>4. ~(e.req = q /\ e.type = "REQUEST")
    <3>1. q = trace + 1 => q > trace
      BY DEF TypeInv, SessionType
    <3> QED
      BY <2>2, <3>1 DEF CalmInv, Fresh
  <2>5. ~In(stack', q)
    BY <1>0, <2>3, <2>4 DEF Settled, Adds
  <2> QED
    BY <1>0, <2>1, <2>5 DEF Settled, Worked
<1>2. CASE CallConnect
  <2> DEFINE e == [type |-> "CONNECT", req |-> trace]
  <2>1. e \in Out /\ stack' = Append(stack, e) /\ UNCHANGED <<toRouter, toDrone, work, inbox>>
    <3>1. trace \in 0 .. MaxReqs
      BY <1>2, ConstantsOK DEF CallConnect, TypeInv, SessionType, Reqs
    <3> QED
      BY <1>2, <3>1, OutIs DEF CallConnect, Sending, net, server
  <2>2. e.req = trace /\ e.type = "CONNECT"
    OBVIOUS
  <2> HIDE DEF e
  <2>3. Adds(stack, e, stack', q)
    BY <2>1, StackGains
  <2>4. ~(e.req = q /\ e.type = "REQUEST")
    BY <2>2
  <2>5. ~In(stack', q)
    BY <1>0, <2>3, <2>4 DEF Settled, Adds
  <2> QED
    BY <1>0, <2>1, <2>5 DEF Settled, Worked
<1>3. CASE CallDisconnect
  <2> DEFINE e == [type |-> "DISCONNECT", req |-> trace]
  <2>1. e \in Out /\ stack' = Append(stack, e) /\ UNCHANGED <<toRouter, toDrone, work, inbox>>
    <3>1. trace \in 0 .. MaxReqs
      BY <1>3, ConstantsOK DEF CallDisconnect, TypeInv, SessionType, Reqs
    <3> QED
      BY <1>3, <3>1, OutIs DEF CallDisconnect, Sending, net, server
  <2>2. e.req = trace /\ e.type = "DISCONNECT"
    OBVIOUS
  <2> HIDE DEF e
  <2>3. Adds(stack, e, stack', q)
    BY <2>1, StackGains
  <2>4. ~(e.req = q /\ e.type = "REQUEST")
    BY <2>2
  <2>5. ~In(stack', q)
    BY <1>0, <2>3, <2>4 DEF Settled, Adds
  <2> QED
    BY <1>0, <2>1, <2>5 DEF Settled, Worked
<1>4. ASSUME NEW r \in Reqs, CallRecv(r) PROVE Settled(q)'
  BY <1>4, <1>0 DEF Settled, Worked, CallRecv, Take, session, requests, net, server, history, Idle,
    Call, Findable
<1>5. ASSUME NEW r \in Reqs, Finish(r) PROVE Settled(q)'
  BY <1>5, <1>0 DEF Settled, Worked, Finish, session, calls, net, server, history, Idle, Findable
<1>6. CASE SendTop
  <2>1. UNCHANGED <<inbox, work>>
    BY <1>6 DEF SendTop, server
  <2>2. Adds(stack', Frame, stack, q)
    BY <1>6, SendTopEffect
  <2>3. ~In(stack', q) /\ ~(Frame.req = q /\ Frame.type = "REQUEST")
    BY <1>0, <2>2 DEF Settled, Adds
  <2>4. ~In(toRouter', q) /\ \A d \in Drones : ~In(toDrone'[d], q)
    <3>1. CASE toDrone' = toDrone /\ Adds(toRouter, Frame, toRouter', q)
      BY <1>0, <2>3, <3>1 DEF Settled, Adds
    <3>2. CASE /\ remote \in Drones /\ toRouter' = toRouter
                    /\ Adds(toDrone[remote], Frame, toDrone'[remote], q)
               /\ \A d \in Drones : d # remote => toDrone'[d] = toDrone[d]
      <4>1. ~In(toDrone'[remote], q)
        BY <1>0, <2>3, <3>2 DEF Settled, Adds
      <4> QED
        BY <1>0, <3>2, <4>1 DEF Settled
    <3> QED
      BY <1>6, <3>1, <3>2, SendTopEffect
  <2> QED
    BY <1>0, <2>1, <2>3, <2>4 DEF Settled, Worked
<1>7. CASE Process
  <2>1. UNCHANGED <<toRouter, toDrone, work>>
    BY <1>7 DEF Process, server
  <2>2. ~In(stack', q)
    <3>1. CASE stack' = stack
      BY <1>0, <3>1 DEF Settled
    <3>2. CASE stack' # stack
      <4>1. PICK e \in Out : ~complete[e.req] /\ Adds(stack, e, stack', q)
        BY <1>7, <3>2, ProcessEffect
      <4> QED
        BY <1>0, <4>1 DEF Settled, Adds
    <3> QED
      BY <3>1, <3>2
  <2>3. \A i \in DOMAIN inbox' : i + 1 \in DOMAIN inbox /\ inbox'[i] = inbox[i + 1]
    BY <1>7, ProcessEffect DEF Shorter
  <2>4. \A i \in DOMAIN inbox' : inbox'[i].req = q => inbox'[i].kind \notin AnswerKinds
    BY <1>0, <2>3 DEF Settled
  <2> QED
    BY <1>0, <2>1, <2>2, <2>4 DEF Settled, Worked
<1>8. CASE RecvResult
  BY <1>8, <1>0 DEF Settled, Worked, RecvResult, Take, session, net, server, history, Call
<1>9. CASE RecvNull
  BY <1>9, <1>0 DEF Settled, Worked, RecvNull, session, requests, net, server, history, Call
<1>10. CASE ConnectReturns
  BY <1>10, <1>0 DEF Settled, Worked, ConnectReturns, session, requests, net, server, history, Call
<1>11. ASSUME NEW d \in Drones, NEW a \in Answers, RouterServe(d, a) PROVE Settled(q)'
  <2> DEFINE m == Head(toRouter)
  <2>1. m \in Out /\ (Handles(d, a, m)) /\ Adds(toRouter', m, toRouter, q)
    BY <1>11, RouterServeEffect
  <2>2. ~In(toRouter', q) /\ ~(m.req = q /\ m.type = "REQUEST")
    BY <1>0, <2>1 DEF Adds, Settled
  <2> HIDE DEF m
  <2>3. \A i \in DOMAIN inbox' : (i \in DOMAIN inbox /\ inbox'[i] = inbox[i]) \/ inbox'[i].kind = "OK"
    BY <2>1, HandlesEffect
  <2>4. \A i \in DOMAIN inbox' : inbox'[i].req = q => inbox'[i].kind \notin AnswerKinds
    BY <1>0, <2>3 DEF Settled, AnswerKinds
  <2>5. Worked(q)' => Worked(q) \/ (m.req = q /\ m.type = "REQUEST")
    BY <2>1, HandlesEffect
  <2>6. UNCHANGED <<stack, toDrone>>
    BY <1>11 DEF RouterServe
  <2> QED
    BY <1>0, <2>2, <2>4, <2>5, <2>6 DEF Settled
<1>12. ASSUME NEW d \in Drones, NEW a \in Answers, DroneServe(d, a) PROVE Settled(q)'
  <2> DEFINE m == Head(toDrone[d])
  <2>1. m \in Out /\ (Handles(d, a, m) \/ Ignores(d)) /\ Adds(toDrone'[d], m, toDrone[d], q)
        /\ \A e \in Drones : e # d => toDrone'[e] = toDrone[e]
    BY <1>12, DroneServeEffect
  <2>2. ~In(toDrone'[d], q) /\ ~(m.req = q /\ m.type = "REQUEST")
    BY <1>0, <2>1 DEF Adds, Settled
  <2> HIDE DEF m
  <2>3. \A i \in DOMAIN inbox' : (i \in DOMAIN inbox /\ inbox'[i] = inbox[i]) \/ inbox'[i].kind = "OK"
    BY <2>1, HandlesEffect
  <2>4. \A i \in DOMAIN inbox' : inbox'[i].req = q => inbox'[i].kind \notin AnswerKinds
    BY <1>0, <2>3 DEF Settled, AnswerKinds
  <2>5. Worked(q)' => Worked(q) \/ (m.req = q /\ m.type = "REQUEST")
    BY <2>1, HandlesEffect
  <2>6. UNCHANGED <<stack, toRouter>>
    BY <1>12 DEF DroneServe
  <2> QED
    BY <1>0, <2>1, <2>2, <2>4, <2>5, <2>6 DEF Settled
<1>13. ASSUME NEW d \in Drones, Bounce(d) PROVE Settled(q)'
  <2>1. Adds(toDrone'[d], Head(toDrone[d]), toDrone[d], q) /\ \A e \in Drones : e # d
          => toDrone'[e] = toDrone[e]
    BY <1>13, BounceEffect
  <2>2. \A e \in Drones : ~In(toDrone'[e], q)
    <3>1. ~In(toDrone'[d], q)
      BY <1>0, <2>1 DEF Adds, Settled
    <3> QED
      BY <1>0, <2>1, <3>1 DEF Settled
  <2>4. \A i \in DOMAIN inbox' : inbox'[i].req = q => inbox'[i].kind \notin AnswerKinds
    <3>1. PICK e \in Back : e.kind \notin AnswerKinds /\ Longer(Back, inbox, e, inbox')
      BY <1>13, BounceEffect
    <3> QED
      BY <1>0, <3>1 DEF Settled, Longer
  <2> QED
    BY <1>13, <1>0, <2>2, <2>4 DEF Settled, Worked, Bounce, server
<1>14. ASSUME NEW d \in Drones, Expire(d) PROVE Settled(q)'
  <2> DEFINE e == [from |-> d, kind |-> "TIMEOUT", req |-> 0, k |-> 0]
  <2>1. e \in Back /\ inbox' = Append(inbox, e) /\ e.req = 0
    BY <1>14, ReplyIs DEF Expire, Reply
  <2> HIDE DEF e
  <2>2. Longer(Back, inbox, e, inbox')
    BY <2>1, InboxGains
  <2>3. \A i \in DOMAIN inbox' : inbox'[i].req = q => inbox'[i].kind \notin AnswerKinds
    BY <1>0, <2>1, <2>2 DEF Longer, Settled, Reqs
  <2> QED
    BY <1>14, <1>0, <2>3 DEF Settled, Worked, Expire
<1>15. ASSUME NEW d \in Drones, Die(d) PROVE Settled(q)'
  <2>1. (\A e \in Drones : e # d => toDrone'[e] = toDrone[e]) /\ work' = {w \in work : w.drone # d}
    BY <1>15, DieEffect
  <2>2. UNCHANGED <<stack, toRouter, inbox>>
    BY <1>15 DEF Die
  <2>3. In(toDrone'[d], q) => In(toDrone[d], q)
    BY <1>15, DieEffect DEF Leaves
  <2>4. \A e \in Drones : ~In(toDrone'[e], q)
    BY <1>0, <2>1, <2>3 DEF Settled
  <2>5. ~Worked(q)'
    BY <1>0, <2>1 DEF Settled, Worked
  <2> QED
    BY <1>0, <2>2, <2>4, <2>5 DEF Settled
<1>16. CASE RouterRefuse
  <2>1. ~In(toRouter', q)
    <3>1. Adds(toRouter', Head(toRouter), toRouter, q)
      BY <1>16, RefuseEffect
    <3> QED
      BY <1>0, <3>1 DEF Adds, Settled
  <2>4. \A i \in DOMAIN inbox' : inbox'[i].req = q => inbox'[i].kind \notin AnswerKinds
    <3>1. PICK e \in Back : e.kind \notin AnswerKinds /\ Longer(Back, inbox, e, inbox')
      BY <1>16, RefuseEffect
    <3> QED
      BY <1>0, <3>1 DEF Settled, Longer
  <2> QED
    BY <1>16, <1>0, <2>1, <2>4 DEF Settled, Worked, RouterRefuse, server
<1>17. ASSUME NEW w \in work, Answer(w) PROVE Settled(q)'
  <2>1. PICK e \in Back :
             /\ e.req = w.req /\ Longer(Back, inbox, e, inbox')
             /\ \/ work' = work \ {w}
                \/ work' = (work \ {w}) \cup {[drone |-> w.drone, req |-> w.req, todo |-> Tail(w.todo)]}
    BY <1>17, AnswerEffect
  <2>2. UNCHANGED <<stack, toRouter, toDrone>>
    BY <1>17 DEF Answer
  <2>3. w.req # q
    BY <1>17, <1>0 DEF Settled, Worked
  <2>4. ~Worked(q)'
    BY <1>0, <2>1, <2>3 DEF Settled, Worked
  <2>5. \A i \in DOMAIN inbox' : inbox'[i].req = q => inbox'[i].kind \notin AnswerKinds
    BY <1>0, <2>1, <2>3 DEF Settled, Longer
  <2> QED
    BY <1>0, <2>2, <2>4, <2>5 DEF Settled
<1> QED
  BY <1>1, <1>2, <1>3, <1>4, <1>5, <1>6, <1>7, <1>8, <1>9, <1>10, <1>11, <1>12, <1>13, <1>14, <1>15,
    <1>16, <1>17 DEF Step

\* ... and of one that becomes so.
LEMMA SettledWhenComplete ==
    ASSUME TypeInv, CalmInv, Step, NEW q \in Reqs, ~complete[q], complete'[q]
    PROVE  Settled(q)'
<1>0. OnePlace(q) /\ EndsLast(q)
  BY DEF CalmInv, Placed
<1>1. Process
  BY DEF Step, CallRequest, CallConnect, CallDisconnect, CallRecv, Take, Finish, SendTop,
    RecvResult, RecvNull,
         ConnectReturns, RouterServe, DroneServe, Bounce, Expire, Die, RouterRefuse, Answer, requests
<1>2. q = Head(inbox).req /\ Head(inbox).kind \in Final /\ Head(inbox).kind \in Ends
  BY <1>1, ProcessEffect DEF Final, Ends
<1>3. inbox # << >> /\ inbox' = Tail(inbox) /\ Adds(inbox', Head(inbox), inbox, q)
  BY <1>1, ProcessEffect
<1>4. Ended(inbox, q)
  BY <1>2, <1>3 DEF Adds
<1>5. ~Names(inbox', q)
  BY <1>0, <1>2, <1>3, EndsLastTakes
<1>6. UNCHANGED <<toRouter, toDrone, work>>
  BY <1>1 DEF Process, server
<1>7. ~Names(stack, q) /\ ~Names(toRouter, q) /\ ~Droned(q) /\ ~Worked(q)
  BY <1>0, <1>4 DEF OnePlace
<1>8. ~Names(stack', q)
  <2>1. CASE stack' = stack
    BY <1>7, <2>1
  <2>2. CASE stack' # stack
    <3>1. Head(inbox).kind = "BOUNCE"
      BY <1>1, <2>2, ProcessEffect
    <3> QED
      BY <1>2, <3>1 DEF Final
  <2> QED
    BY <2>1, <2>2
<1>9. /\ ~In(stack', q) /\ ~In(toRouter', q) /\ (\A d \in Drones : ~In(toDrone'[d], q)) /\ ~Worked(q)'
  BY <1>6, <1>7, <1>8, InNames DEF Droned, Worked
<1>10. \A i \in DOMAIN inbox' : inbox'[i].req # q
  BY <1>5 DEF Names
<1> QED
  BY <1>9, <1>10 DEF Settled

LEMMA PlacedStep ==
    ASSUME TypeInv, TypeInv', WorkInv, Calm, CalmInv, Step
    PROVE  Placed'
<1>1. ASSUME NEW q \in Reqs PROVE IF complete'[q] THEN Settled(q)' ELSE OnePlace(q)' /\ EndsLast(q)'
  <2>1. CASE complete[q] /\ complete'[q]
    BY <2>1, SettledStep
  <2>2. CASE ~complete[q] /\ complete'[q]
    BY <2>2, SettledWhenComplete
  <2>3. CASE ~complete[q] /\ ~complete'[q]
    BY <2>3, OnePlaceStep, EndsLastStep
  <2>4. CASE complete[q] /\ ~complete'[q]
    <3>1. Process
      BY <2>4 DEF Step, CallRequest, CallConnect, CallDisconnect, CallRecv, Take, Finish, SendTop,
        RecvResult, RecvNull,
             ConnectReturns, RouterServe, DroneServe, Bounce, Expire, Die, RouterRefuse, Answer, requests
    <3> QED
      BY <2>4, <3>1, ProcessEffect
  <2> QED
    BY <2>1, <2>2, <2>3, <2>4
<1> QED
  BY <1>1 DEF Placed

-----------------------------------------------------------------------------
(* What has come of each request.                                          *)

LEMMA CompleteStays ==
    ASSUME TypeInv, Step
    PROVE  (\A r \in Reqs : complete[r] => complete'[r]) /\ lost \subseteq lost' /\ dead \subseteq dead'
<1>1. ASSUME NEW r \in Reqs PROVE complete[r] => complete'[r]
  <2>1. CASE complete' = complete
    BY <2>1
  <2>2. CASE complete' # complete
    <3>1. Process
      BY <2>2 DEF Step, CallRequest, CallConnect, CallDisconnect, CallRecv, Take, Finish, SendTop,
        RecvResult, RecvNull,
             ConnectReturns, RouterServe, DroneServe, Bounce, Expire, Die, RouterRefuse, Answer, requests
    <3> QED
      BY <3>1, ProcessEffect
  <2> QED
    BY <2>1, <2>2
<1>2. lost \subseteq lost' /\ dead \subseteq dead'
  <2>1. CASE lost' = lost /\ dead' = dead
    BY <2>1
  <2>2. CASE ~(lost' = lost /\ dead' = dead)
    <3>1. \E d \in Drones : Die(d)
      BY <2>2 DEF Step, CallRequest, CallConnect, CallDisconnect, CallRecv, Take, Finish, SendTop,
        Process, RecvResult, RecvNull,
             ConnectReturns, RouterServe, DroneServe, Bounce, Expire, RouterRefuse, Answer, history, server
    <3>2. PICK d \in Drones : Die(d)
      BY <3>1
    <3>3. dead \subseteq dead'
      BY <3>2 DEF Die
    <3>4. lost \subseteq lost'
      BY <3>2 DEF Die
    <3> QED
      BY <3>3, <3>4
  <2> QED
    BY <2>1, <2>2
<1> QED
  BY <1>1, <1>2

\* Message m names a request that is complete or was lost, if it is none.
Bystander(m) == m.type # "REQUEST" /\ m.req # 0 => complete[m.req] \/ m.req \in lost

LEMMA StillBystander ==
    ASSUME TypeInv, Step, NEW m \in Out, Bystander(m)
    PROVE  m.type # "REQUEST" /\ m.req # 0 => complete'[m.req] \/ m.req \in lost'
<1>1. m.req # 0 => m.req \in Reqs
  BY OutFields DEF Reqs
<1> QED
  BY <1>1, CompleteStays DEF Bystander

\* What is on its way from the client was so before, or names such a request.
LEMMA BystandersKept ==
    ASSUME TypeInv, Step, NEW s \in Seq(Out), Bystanders(s), NEW e, Bystander(e) /\ e \in Out,
           NEW t, \A i \in DOMAIN t : t[i] = e \/ \E j \in DOMAIN s : t[i] = s[j]
    PROVE  \A i \in DOMAIN t : t[i].type # "REQUEST" /\ t[i].req # 0 => complete'[t[i].req]
             \/ t[i].req \in lost'
<1>1. \A j \in DOMAIN s : s[j] \in Out /\ Bystander(s[j])
  BY DEF Bystanders, Bystander
<1>2. \A i \in DOMAIN t : t[i] \in Out /\ Bystander(t[i])
  BY <1>1
<1> QED
  BY <1>2, StillBystander

\* Every message of t is one of s, or e.
From(t, s, e) == \A i \in DOMAIN t : t[i] = e \/ \E j \in DOMAIN s : t[i] = s[j]

LEMMA FromLonger == ASSUME NEW S, NEW s, NEW e, NEW u, Longer(S, s, e, u) PROVE From(u, s, e)
  BY DEF Longer, From
LEMMA FromShorter == ASSUME NEW S, NEW s, NEW e, NEW u, Shorter(S, s, u) PROVE From(u, s, e)
  BY DEF Shorter, From
LEMMA FromFront == ASSUME NEW S, NEW s, NEW e, NEW u, Front(S, s, u) PROVE From(u, s, e)
  BY DEF Front, From
LEMMA FromDropped == ASSUME NEW S, NEW s, NEW e, NEW u, NEW n, Dropped(S, s, n, u) PROVE From(u, s, e)
  BY DEF Dropped, From
LEMMA FromSelf == \A s, e : From(s, s, e)
  BY DEF From

LEMMA NamedDoneFrom ==
    ASSUME TypeInv, NamedDone, Step, NEW e \in Out, Bystander(e),
           From(stack', stack, e), From(toRouter', toRouter, e), \A d
             \in Drones : From(toDrone'[d], toDrone[d], e)
    PROVE  NamedDone'
<1>1. stack \in Seq(Out) /\ toRouter \in Seq(Out) /\ \A d \in Drones : toDrone[d] \in Seq(Out)
  BY DEF TypeInv, StackType, NetType
<1>2. Bystanders(stack) /\ Bystanders(toRouter) /\ \A d \in Drones : Bystanders(toDrone[d])
  BY DEF NamedDone
<1> DEFINE B(t) == \A i \in DOMAIN t : t[i].type # "REQUEST" /\ t[i].req # 0 => complete'[t[i].req]
      \/ t[i].req \in lost'
<1>3. ASSUME NEW s \in Seq(Out), Bystanders(s), NEW t, From(t, s, e) PROVE B(t)
  BY <1>3, BystandersKept DEF From
<1> HIDE DEF B
<1>4. B(stack') /\ B(toRouter') /\ \A d \in Drones : B(toDrone'[d])
  BY <1>1, <1>2, <1>3
<1> QED
  BY <1>4 DEF NamedDone, Bystanders, B

LEMMA SomeBystander == \E z \in Out : Bystander(z)
<1> DEFINE z == [type |-> "CONNECT", req |-> 0]
<1>1. 0 \in 0 .. MaxReqs
  BY ConstantsOK
<1>2. z \in Out
  BY <1>1, OutIs
<1>3. Bystander(z)
  BY DEF Bystander
<1> QED
  BY <1>2, <1>3

\* Connects and disconnects name what is complete or was lost.
LEMMA NamedDoneStep ==
    ASSUME TypeInv, Calm, CalmInv, Step
    PROVE  NamedDone'
<1>0. NamedDone
  BY DEF CalmInv
<1>1. CASE CallRequest
  <2> DEFINE e == [type |-> "REQUEST", req |-> trace + 1]
  <2>1. e \in Out /\ stack' = Append(stack, e) /\ UNCHANGED <<toRouter, toDrone>>
    <3>1. trace + 1 \in Reqs
      BY <1>1, ConstantsOK DEF CallRequest, TypeInv, SessionType, Reqs
    <3> QED
      BY <1>1, <3>1, OutIs DEF CallRequest, Sending, net
  <2>2. Bystander(e)
    BY DEF Bystander
  <2> HIDE DEF e
  <2>3. From(stack', stack, e)
    BY <2>1, StackGains, FromLonger
  <2> QED
    BY <1>0, <2>1, <2>2, <2>3, FromSelf, NamedDoneFrom
<1>2. CASE CallConnect
  <2> DEFINE e == [type |-> "CONNECT", req |-> trace]
  <2>1. e \in Out /\ stack' = Append(stack, e) /\ UNCHANGED <<toRouter, toDrone>>
    <3>1. trace \in 0 .. MaxReqs
      BY <1>2, ConstantsOK DEF CallConnect, TypeInv, SessionType, Reqs
    <3> QED
      BY <1>2, <3>1, OutIs DEF CallConnect, Sending, net
  <2>2. Bystander(e)
    <3>1. \A r \in 1 .. trace : complete[r]
      BY <1>2 DEF CallConnect, Calm
    <3>2. trace \in 0 .. MaxReqs
      BY DEF TypeInv, SessionType
    <3> QED
      BY <3>1, <3>2, ConstantsOK DEF Bystander
  <2> HIDE DEF e
  <2>3. From(stack', stack, e)
    BY <2>1, StackGains, FromLonger
  <2> QED
    BY <1>0, <2>1, <2>2, <2>3, FromSelf, NamedDoneFrom
<1>3. CASE CallDisconnect
  <2> DEFINE e == [type |-> "DISCONNECT", req |-> trace]
  <2>1. e \in Out /\ stack' = Append(stack, e) /\ UNCHANGED <<toRouter, toDrone>>
    <3>1. trace \in 0 .. MaxReqs
      BY <1>3, ConstantsOK DEF CallDisconnect, TypeInv, SessionType, Reqs
    <3> QED
      BY <1>3, <3>1, OutIs DEF CallDisconnect, Sending, net
  <2>2. Bystander(e)
    <3>1. \A r \in 1 .. trace : complete[r] \/ r \in lost
      BY <1>3 DEF CallDisconnect, Calm
    <3>2. trace \in 0 .. MaxReqs
      BY DEF TypeInv, SessionType
    <3> QED
      BY <3>1, <3>2, ConstantsOK DEF Bystander
  <2> HIDE DEF e
  <2>3. From(stack', stack, e)
    BY <2>1, StackGains, FromLonger
  <2> QED
    BY <1>0, <2>1, <2>2, <2>3, FromSelf, NamedDoneFrom
<1>4. ASSUME NEW r \in Reqs, CallRecv(r) PROVE NamedDone'
  <2>z1. PICK z \in Out : Bystander(z)
    BY SomeBystander
  <2>1. UNCHANGED <<stack, toRouter, toDrone>>
    BY <1>4 DEF CallRecv, Take, net
  <2> QED
    BY <1>0, <2>z1, <2>1, FromSelf, NamedDoneFrom
<1>5. ASSUME NEW r \in Reqs, Finish(r) PROVE NamedDone'
  <2>z1. PICK z \in Out : Bystander(z)
    BY SomeBystander
  <2>1. UNCHANGED <<stack, toRouter, toDrone>>
    BY <1>5 DEF Finish, net
  <2> QED
    BY <1>0, <2>z1, <2>1, FromSelf, NamedDoneFrom
<1>6. CASE SendTop
  <2>1. stack # << >> /\ stack' = SubSeq(stack, 1, Len(stack) - 1) /\ stack \in Seq(Out)
    BY <1>6 DEF SendTop, TypeInv, StackType
  <2>2. Front(Out, stack, stack')
    BY <1>6, SendTopFront
  <2>3. Frame \in Out /\ Frame = stack[Len(stack)]
    BY <1>6, SendTopEffect
  <2>4. Bystander(Frame)
    BY <1>0, <2>2, <2>3 DEF NamedDone, Bystanders, Bystander, Front
  <2>5. From(stack', stack, Frame)
    BY <2>2, FromFront
  <2>6. CASE toDrone' = toDrone /\ Longer(Out, toRouter, Frame, toRouter')
    BY <1>0, <2>3, <2>4, <2>5, <2>6, FromLonger, FromSelf, NamedDoneFrom
  <2>7. CASE /\ toRouter' = toRouter /\ Longer(Out, toDrone[remote], Frame, toDrone'[remote])
             /\ \A d \in Drones : d # remote => toDrone'[d] = toDrone[d]
    <3>1. \A d \in Drones : From(toDrone'[d], toDrone[d], Frame)
      <4>1. From(toDrone'[remote], toDrone[remote], Frame)
        BY <2>7, FromLonger
      <4> QED
        BY <2>7, <4>1, FromSelf
    <3> QED
      BY <1>0, <2>3, <2>4, <2>5, <2>7, <3>1, FromSelf, NamedDoneFrom
  <2> QED
    BY <1>6, <2>6, <2>7, SendTopEffect
<1>7. CASE Process
  <2>z1. PICK z \in Out : Bystander(z)
    BY SomeBystander
  <2>1. UNCHANGED <<toRouter, toDrone>>
    BY <1>7 DEF Process
  <2>2. CASE stack' = stack
    BY <1>0, <2>z1, <2>1, <2>2, FromSelf, NamedDoneFrom
  <2>3. CASE stack' # stack
    <3>1. PICK e \in Out : e.type = "REQUEST" /\ Longer(Out, stack, e, stack')
      BY <1>7, <2>3, ProcessEffect
    <3>2. Bystander(e)
      BY <3>1 DEF Bystander
    <3> QED
      BY <1>0, <2>1, <3>1, <3>2, FromLonger, FromSelf, NamedDoneFrom
  <2> QED
    BY <2>2, <2>3
<1>8. CASE RecvResult
  <2>z1. PICK z \in Out : Bystander(z)
    BY SomeBystander
  <2>1. UNCHANGED <<stack, toRouter, toDrone>>
    BY <1>8 DEF RecvResult, Take, net
  <2> QED
    BY <1>0, <2>z1, <2>1, FromSelf, NamedDoneFrom
<1>9. CASE RecvNull
  <2>z1. PICK z \in Out : Bystander(z)
    BY SomeBystander
  <2>1. UNCHANGED <<stack, toRouter, toDrone>>
    BY <1>9 DEF RecvNull, net
  <2> QED
    BY <1>0, <2>z1, <2>1, FromSelf, NamedDoneFrom
<1>10. CASE ConnectReturns
  <2>z1. PICK z \in Out : Bystander(z)
    BY SomeBystander
  <2>1. UNCHANGED <<stack, toRouter, toDrone>>
    BY <1>10 DEF ConnectReturns, net
  <2> QED
    BY <1>0, <2>z1, <2>1, FromSelf, NamedDoneFrom
<1>11. ASSUME NEW d \in Drones, NEW a \in Answers, RouterServe(d, a) PROVE NamedDone'
  <2>z1. PICK z \in Out : Bystander(z)
    BY SomeBystander
  <2>1. UNCHANGED <<stack, toDrone>> /\ Shorter(Out, toRouter, toRouter')
    BY <1>11, RouterServeEffect DEF RouterServe
  <2> QED
    BY <1>0, <2>z1, <2>1, FromSelf, FromShorter, NamedDoneFrom
<1>12. ASSUME NEW d \in Drones, NEW a \in Answers, DroneServe(d, a) PROVE NamedDone'
  <2>z1. PICK z \in Out : Bystander(z)
    BY SomeBystander
  <2>1. UNCHANGED <<stack, toRouter>> /\ Shorter(Out, toDrone[d], toDrone'[d])
        /\ \A e \in Drones : e # d => toDrone'[e] = toDrone[e]
    BY <1>12, DroneServeEffect DEF DroneServe
  <2>2. \A f \in Drones : From(toDrone'[f], toDrone[f], z)
    <3>1. From(toDrone'[d], toDrone[d], z)
      BY <2>1, FromShorter
    <3> QED
      BY <2>1, <3>1, FromSelf
  <2> QED
    BY <1>0, <2>z1, <2>1, <2>2, FromSelf, NamedDoneFrom
<1>13. ASSUME NEW d \in Drones, Bounce(d) PROVE NamedDone'
  <2>z1. PICK z \in Out : Bystander(z)
    BY SomeBystander
  <2>1. UNCHANGED <<stack, toRouter>> /\ Shorter(Out, toDrone[d], toDrone'[d])
        /\ \A e \in Drones : e # d => toDrone'[e] = toDrone[e]
    BY <1>13, BounceEffect DEF Bounce
  <2>2. \A f \in Drones : From(toDrone'[f], toDrone[f], z)
    <3>1. From(toDrone'[d], toDrone[d], z)
      BY <2>1, FromShorter
    <3> QED
      BY <2>1, <3>1, FromSelf
  <2> QED
    BY <1>0, <2>z1, <2>1, <2>2, FromSelf, NamedDoneFrom
<1>14. ASSUME NEW d \in Drones, Expire(d) PROVE NamedDone'
  <2>z1. PICK z \in Out : Bystander(z)
    BY SomeBystander
  <2>1. UNCHANGED <<stack, toRouter, toDrone>>
    BY <1>14 DEF Expire
  <2> QED
    BY <1>0, <2>z1, <2>1, FromSelf, NamedDoneFrom
<1>15. ASSUME NEW d \in Drones, Die(d) PROVE NamedDone'
  <2>z1. PICK z \in Out : Bystander(z)
    BY SomeBystander
  <2>1. UNCHANGED <<stack, toRouter>> /\ (\A e \in Drones : e # d => toDrone'[e] = toDrone[e])
        /\ \E n \in 0 .. Len(toDrone[d]) : Dropped(Out, toDrone[d], n, toDrone'[d])
    BY <1>15, DieEffect DEF Die
  <2>2. \A f \in Drones : From(toDrone'[f], toDrone[f], z)
    <3>1. From(toDrone'[d], toDrone[d], z)
      BY <2>1, FromDropped
    <3> QED
      BY <2>1, <3>1, FromSelf
  <2> QED
    BY <1>0, <2>z1, <2>1, <2>2, FromSelf, NamedDoneFrom
<1>16. CASE RouterRefuse
  <2>z1. PICK z \in Out : Bystander(z)
    BY SomeBystander
  <2>1. UNCHANGED <<stack, toDrone>> /\ Shorter(Out, toRouter, toRouter')
    BY <1>16, RefuseEffect DEF RouterRefuse
  <2> QED
    BY <1>0, <2>z1, <2>1, FromSelf, FromShorter, NamedDoneFrom
<1>17. ASSUME NEW w \in work, Answer(w) PROVE NamedDone'
  <2>z1. PICK z \in Out : Bystander(z)
    BY SomeBystander
  <2>1. UNCHANGED <<stack, toRouter, toDrone>>
    BY <1>17 DEF Answer
  <2> QED
    BY <1>0, <2>z1, <2>1, FromSelf, NamedDoneFrom
<1> QED
  BY <1>1, <1>2, <1>3, <1>4, <1>5, <1>6, <1>7, <1>8, <1>9, <1>10, <1>11, <1>12, <1>13, <1>14, <1>15,
    <1>16, <1>17 DEF Step

\* Neither request r nor what ends it is anywhere.
Gone(r) == ~Names(stack, r) /\ ~Names(toRouter, r) /\ ~Droned(r) /\ ~Worked(r) /\ ~Ended(inbox, r)

LEMMA EndedNames == \A s, r : Ended(s, r) => Names(s, r)
  BY DEF Ended, Names

LEMMA HandlesNames ==
    ASSUME TypeInv, NEW d \in Drones, NEW a, NEW m \in Out, Handles(d, a, m) \/ Ignores(d), NEW r, m.req # r,
           ~Names(inbox, r)
    PROVE  ~Names(inbox', r)
<1>1. CASE inbox' = inbox
  BY <1>1
<1>2. CASE inbox' # inbox
  <2> DEFINE e == [from |-> d, kind |-> "OK", req |-> m.req, k |-> 0]
  <2>1. e \in Back /\ inbox' = Append(inbox, e) /\ e.req = m.req
    BY <1>2, OutFields, ReplyIs DEF Reply, Handles, Ignores
  <2> HIDE DEF e
  <2>2. Adds(inbox, e, inbox', r)
    BY <2>1, InboxGains
  <2> QED
    BY <2>1, <2>2 DEF Adds
<1> QED
  BY <1>1, <1>2

\* Nothing comes of a request that is gone until it is called.
LEMMA GoneStep ==
    ASSUME TypeInv, WorkInv, Step, NEW q \in Reqs, Gone(q),
           CallRequest \/ CallConnect \/ CallDisconnect => q # trace'
    PROVE  Gone(q)' /\ (~Names(inbox, q) => ~Names(inbox', q))
<1>0. ~Names(stack, q) /\ ~Names(toRouter, q) /\ ~Droned(q) /\ ~Worked(q) /\ ~Ended(inbox, q)
  BY DEF Gone
<1>1. CASE CallRequest
  <2> DEFINE e == [type |-> "REQUEST", req |-> trace + 1]
  <2>1. e \in Out /\ stack' = Append(stack, e) /\ UNCHANGED <<toRouter, toDrone, work, inbox>>
    <3>1. trace + 1 \in Reqs
      BY <1>1, ConstantsOK DEF CallRequest, TypeInv, SessionType, Reqs
    <3> QED
      BY <1>1, <3>1, OutIs DEF CallRequest, Sending, net, server
  <2>2. e.req # q
    <3>1. trace' = trace + 1
      BY <1>1 DEF CallRequest, session
    <3> QED
      BY <1>1, <3>1
  <2> HIDE DEF e
  <2>3. Adds(stack, e, stack', q)
    BY <2>1, StackGains
  <2>4. ~Names(stack', q)
    BY <1>0, <2>2, <2>3 DEF Adds
  <2> QED
    BY <1>0, <2>1, <2>4 DEF Gone, Droned, Worked
<1>2. CASE CallConnect
  <2> DEFINE e == [type |-> "CONNECT", req |-> trace]
  <2>1. e \in Out /\ stack' = Append(stack, e) /\ UNCHANGED <<toRouter, toDrone, work, inbox>>
    <3>1. trace \in 0 .. MaxReqs
      BY <1>2, ConstantsOK DEF CallConnect, TypeInv, SessionType, Reqs
    <3> QED
      BY <1>2, <3>1, OutIs DEF CallConnect, Sending, net, server
  <2>2. e.req # q
    <3>1. trace' = trace
      BY <1>2 DEF CallConnect, session
    <3> QED
      BY <1>2, <3>1
  <2> HIDE DEF e
  <2>3. Adds(stack, e, stack', q)
    BY <2>1, StackGains
  <2>4. ~Names(stack', q)
    BY <1>0, <2>2, <2>3 DEF Adds
  <2> QED
    BY <1>0, <2>1, <2>4 DEF Gone, Droned, Worked
<1>3. CASE CallDisconnect
  <2> DEFINE e == [type |-> "DISCONNECT", req |-> trace]
  <2>1. e \in Out /\ stack' = Append(stack, e) /\ UNCHANGED <<toRouter, toDrone, work, inbox>>
    <3>1. trace \in 0 .. MaxReqs
      BY <1>3, ConstantsOK DEF CallDisconnect, TypeInv, SessionType, Reqs
    <3> QED
      BY <1>3, <3>1, OutIs DEF CallDisconnect, Sending, net, server
  <2>2. e.req # q
    <3>1. trace' = trace
      BY <1>3 DEF CallDisconnect, session
    <3> QED
      BY <1>3, <3>1
  <2> HIDE DEF e
  <2>3. Adds(stack, e, stack', q)
    BY <2>1, StackGains
  <2>4. ~Names(stack', q)
    BY <1>0, <2>2, <2>3 DEF Adds
  <2> QED
    BY <1>0, <2>1, <2>4 DEF Gone, Droned, Worked
<1>4. ASSUME NEW r \in Reqs, CallRecv(r) PROVE Gone(q)' /\ (~Names(inbox, q) => ~Names(inbox', q))
  <2>1. UNCHANGED <<stack, toRouter, toDrone, work, inbox>>
    BY <1>4 DEF CallRecv, Take, net, server
  <2> QED
    BY <1>0, <2>1 DEF Gone, Droned, Worked
<1>5. ASSUME NEW r \in Reqs, Finish(r) PROVE Gone(q)' /\ (~Names(inbox, q) => ~Names(inbox', q))
  <2>1. UNCHANGED <<stack, toRouter, toDrone, work, inbox>>
    BY <1>5 DEF Finish, net, server
  <2> QED
    BY <1>0, <2>1 DEF Gone, Droned, Worked
<1>6. CASE SendTop
  <2>1. UNCHANGED <<inbox, work>>
    BY <1>6 DEF SendTop, server
  <2>2. Adds(stack', Frame, stack, q)
    BY <1>6, SendTopEffect
  <2>3. ~Names(stack', q) /\ Frame.req # q
    BY <1>0, <2>2 DEF Adds
  <2>4. ~Names(toRouter', q) /\ ~Droned(q)'
    <3>1. CASE toDrone' = toDrone /\ Adds(toRouter, Frame, toRouter', q)
      BY <1>0, <2>3, <3>1 DEF Droned, Adds
    <3>2. CASE /\ remote \in Drones /\ toRouter' = toRouter
                    /\ Adds(toDrone[remote], Frame, toDrone'[remote], q)
               /\ \A d \in Drones : d # remote => toDrone'[d] = toDrone[d]
      <4>1. ~Names(toDrone'[remote], q)
        BY <1>0, <2>3, <3>2 DEF Droned, Adds
      <4> QED
        BY <1>0, <3>2, <4>1 DEF Droned
    <3> QED
      BY <1>6, <3>1, <3>2, SendTopEffect
  <2> QED
    BY <1>0, <2>1, <2>3, <2>4 DEF Gone, Worked
<1>7. CASE Process
  <2>1. UNCHANGED <<toRouter, toDrone, work>>
    BY <1>7 DEF Process, server
  <2>2. Adds(inbox', Head(inbox), inbox, q)
    BY <1>7, ProcessEffect
  <2>3. ~Ended(inbox', q) /\ (~Names(inbox, q) => ~Names(inbox', q))
    BY <1>0, <2>2 DEF Adds
  <2>4. ~Names(stack', q)
    <3>1. CASE stack' = stack
      BY <1>0, <3>1
    <3>2. CASE stack' # stack
      <4>1. PICK e \in Out : /\ e.req = Head(inbox).req /\ Head(inbox).kind \in Ends
                             /\ Adds(stack, e, stack', q)
        BY <1>7, <3>2, ProcessEffect
      <4> QED
        BY <1>0, <2>2, <4>1 DEF Adds
    <3> QED
      BY <3>1, <3>2
  <2> QED
    BY <1>0, <2>1, <2>3, <2>4 DEF Gone, Droned, Worked
<1>8. CASE RecvResult
  <2>1. UNCHANGED <<stack, toRouter, toDrone, work, inbox>>
    BY <1>8 DEF RecvResult, Take, net, server
  <2> QED
    BY <1>0, <2>1 DEF Gone, Droned, Worked
<1>9. CASE RecvNull
  <2>1. UNCHANGED <<stack, toRouter, toDrone, work, inbox>>
    BY <1>9 DEF RecvNull, net, server
  <2> QED
    BY <1>0, <2>1 DEF Gone, Droned, Worked
<1>10. CASE ConnectReturns
  <2>1. UNCHANGED <<stack, toRouter, toDrone, work, inbox>>
    BY <1>10 DEF ConnectReturns, net, server
  <2> QED
    BY <1>0, <2>1 DEF Gone, Droned, Worked
<1>11. ASSUME NEW d \in Drones, NEW a \in Answers, RouterServe(d, a) PROVE Gone(q)'
                /\ (~Names(inbox, q) => ~Names(inbox', q))
  <2> DEFINE m == Head(toRouter)
  <2>1. m \in Out /\ (Handles(d, a, m)) /\ Adds(toRouter', m, toRouter, q)
    BY <1>11, RouterServeEffect
  <2>2. ~Names(toRouter', q) /\ m.req # q
    BY <1>0, <2>1 DEF Adds
  <2> HIDE DEF m
  <2>3. ~Worked(q)' /\ ~Ended(inbox', q)
    BY <1>0, <2>1, <2>2, HandlesEffect
  <2>4. ~Names(inbox, q) => ~Names(inbox', q)
    BY <2>1, <2>2, HandlesNames
  <2>5. UNCHANGED <<stack, toDrone>>
    BY <1>11 DEF RouterServe
  <2> QED
    BY <1>0, <2>2, <2>3, <2>4, <2>5 DEF Gone, Droned
<1>12. ASSUME NEW d \in Drones, NEW a \in Answers, DroneServe(d, a) PROVE Gone(q)'
                /\ (~Names(inbox, q) => ~Names(inbox', q))
  <2> DEFINE m == Head(toDrone[d])
  <2>1. m \in Out /\ (Handles(d, a, m) \/ Ignores(d)) /\ Adds(toDrone'[d], m, toDrone[d], q)
        /\ \A e \in Drones : e # d => toDrone'[e] = toDrone[e]
    BY <1>12, DroneServeEffect
  <2>2. ~Names(toDrone'[d], q) /\ m.req # q
    BY <1>0, <2>1 DEF Adds, Droned
  <2> HIDE DEF m
  <2>3. ~Worked(q)' /\ ~Ended(inbox', q)
    BY <1>0, <2>1, <2>2, HandlesEffect
  <2>4. ~Names(inbox, q) => ~Names(inbox', q)
    BY <2>1, <2>2, HandlesNames
  <2>5. UNCHANGED <<stack, toRouter>>
    BY <1>12 DEF DroneServe
  <2> QED
    BY <1>0, <2>1, <2>2, <2>3, <2>4, <2>5 DEF Gone, Droned
<1>13. ASSUME NEW d \in Drones, Bounce(d) PROVE Gone(q)' /\ (~Names(inbox, q) => ~Names(inbox', q))
  <2>1. Adds(toDrone'[d], Head(toDrone[d]), toDrone[d], q)
        /\ \A e \in Drones : e # d => toDrone'[e] = toDrone[e]
    BY <1>13, BounceEffect
  <2>2. ~Names(toDrone'[d], q) /\ Head(toDrone[d]).req # q
    BY <1>0, <2>1 DEF Adds, Droned
  <2>3. PICK e \in Back : e.req = Head(toDrone[d]).req /\ Adds(inbox, e, inbox', q)
    BY <1>13, BounceEffect
  <2>4. ~Ended(inbox', q) /\ (~Names(inbox, q) => ~Names(inbox', q))
    BY <1>0, <2>2, <2>3 DEF Adds
  <2>5. UNCHANGED <<stack, work, toRouter>>
    BY <1>13 DEF Bounce, server
  <2> QED
    BY <1>0, <2>1, <2>2, <2>4, <2>5 DEF Gone, Droned, Worked
<1>14. ASSUME NEW d \in Drones, Expire(d) PROVE Gone(q)' /\ (~Names(inbox, q) => ~Names(inbox', q))
  <2> DEFINE e == [from |-> d, kind |-> "TIMEOUT", req |-> 0, k |-> 0]
  <2>1. e \in Back /\ inbox' = Append(inbox, e) /\ e.req = 0
    BY <1>14, ReplyIs DEF Expire, Reply
  <2> HIDE DEF e
  <2>2. Adds(inbox, e, inbox', q)
    BY <2>1, InboxGains
  <2>3. ~Ended(inbox', q) /\ (~Names(inbox, q) => ~Names(inbox', q))
    BY <1>0, <2>1, <2>2 DEF Adds, Reqs
  <2> QED
    BY <1>14, <1>0, <2>3 DEF Gone, Droned, Worked, Expire
<1>15. ASSUME NEW d \in Drones, Die(d) PROVE Gone(q)' /\ (~Names(inbox, q) => ~Names(inbox', q))
  <2>1. (\A e \in Drones : e # d => toDrone'[e] = toDrone[e]) /\ work' = {w \in work : w.drone # d}
    BY <1>15, DieEffect
  <2>2. Names(toDrone'[d], q) => Names(toDrone[d], q)
    BY <1>15, DieEffect DEF Leaves
  <2>3. ~Droned(q)' /\ ~Worked(q)'
    BY <1>0, <2>1, <2>2 DEF Droned, Worked
  <2> QED
    BY <1>15, <1>0, <2>3 DEF Gone, Die
<1>16. CASE RouterRefuse
  <2>1. Adds(toRouter', Head(toRouter), toRouter, q)
    BY <1>16, RefuseEffect
  <2>2. ~Names(toRouter', q) /\ Head(toRouter).req # q
    BY <1>0, <2>1 DEF Adds
  <2>3. PICK e \in Back : e.req = Head(toRouter).req /\ Adds(inbox, e, inbox', q)
    BY <1>16, RefuseEffect
  <2>4. ~Ended(inbox', q) /\ (~Names(inbox, q) => ~Names(inbox', q))
    BY <1>0, <2>2, <2>3 DEF Adds
  <2>5. UNCHANGED <<stack, work, toDrone>>
    BY <1>16 DEF RouterRefuse, server
  <2> QED
    BY <1>0, <2>2, <2>4, <2>5 DEF Gone, Droned, Worked
<1>17. ASSUME NEW w \in work, Answer(w) PROVE Gone(q)' /\ (~Names(inbox, q) => ~Names(inbox', q))
  <2>1. PICK e \in Back :
             /\ e.req = w.req /\ Adds(inbox, e, inbox', q)
             /\ \/ work' = work \ {w}
                \/ work' = (work \ {w}) \cup {[drone |-> w.drone, req |-> w.req, todo |-> Tail(w.todo)]}
    BY <1>17, AnswerEffect
  <2>2. w.req # q
    BY <1>17, <1>0 DEF Worked
  <2>3. ~Worked(q)'
    BY <1>0, <2>1, <2>2 DEF Worked
  <2>4. ~Ended(inbox', q) /\ (~Names(inbox, q) => ~Names(inbox', q))
    BY <1>0, <2>1, <2>2 DEF Adds
  <2> QED
    BY <1>17, <1>0, <2>3, <2>4 DEF Gone, Droned, Answer
<1> QED
  BY <1>1, <1>2, <1>3, <1>4, <1>5, <1>6, <1>7, <1>8, <1>9, <1>10, <1>11, <1>12, <1>13, <1>14, <1>15,
    <1>16, <1>17 DEF Step

\* Only a call takes a result, only a message brings something.
LEMMA UntouchedStep ==
    ASSUME TypeInv, Step, NEW q \in Reqs, ~Names(inbox, q), queue[q] = << >>
    PROVE  got'[q] = got[q] /\ queue'[q] = queue[q] /\ parts'[q] = parts[q]
<1>1. queue \in [Reqs -> Seq(Ks)] /\ got \in [Reqs -> Seq(Ks)] /\ parts \in [Reqs -> Seq(Ks)]
  BY DEF TypeInv, RequestType
<1>2. ASSUME NEW r \in Reqs, Take(r) PROVE got'[q] = got[q] /\ queue'[q] = queue[q] /\ parts'[q] = parts[q]
  BY <1>1, <1>2 DEF Take
<1>3. CASE Process
  <2>1. Head(inbox).req # q /\ Head(inbox) \in Back
    BY <1>3, ProcessEffect DEF Adds
  <2> DEFINE m == Head(inbox)
  <2>2. m.kind \in AnswerKinds => m.req \in Reqs
    BY <2>1, BackFields
  <2>3. (ForRequest(m) \/ Connected(m) \/ Over(m) \/ Unreachable(m)) /\ got' = got
    BY <1>3 DEF Process, calls
  <2> HIDE DEF m
  <2>4. CASE ForRequest(m)
    <3>1. m.req \in Reqs /\ m.req # q
      BY <2>1, <2>2, <2>4 DEF ForRequest, AnswerKinds, m
    <3> QED
      BY <1>1, <2>3, <2>4, <3>1 DEF ForRequest, Push
  <2>5. CASE ~ForRequest(m)
    BY <2>3, <2>5 DEF Connected, Over, Unreachable
  <2> QED
    BY <2>4, <2>5
<1>4. CASE (\E r \in Reqs : CallRecv(r)) \/ RecvResult
  <2>1. CASE \E r \in Reqs : Take(r)
    BY <1>2, <2>1
  <2>2. CASE UNCHANGED <<got, queue, parts>>
    BY <2>2
  <2>3. RecvResult => op.req \in Reqs
    BY DEF RecvResult, TypeInv, OpType
  <2> QED
    BY <1>4, <2>1, <2>2, <2>3 DEF CallRecv, RecvResult, requests
<1>5. CASE ~Process /\ ~RecvResult /\ ~(\E r \in Reqs : CallRecv(r))
  BY <1>5 DEF Step, CallRequest, CallConnect, CallDisconnect, Finish, SendTop, RecvNull,
    ConnectReturns, RouterServe, DroneServe,
              Bounce, Expire, Die, RouterRefuse, Answer, requests, calls
<1> QED
  BY <1>3, <1>4, <1>5

\* A request is begun by a worker that reads it, and lost by one that has it or was sent it.
LEMMA StartsStep ==
    ASSUME TypeInv, Step, NEW q \in Reqs
    PROVE  \/ starts'[q] = starts[q]
           \/ /\ starts'[q] = starts[q] + 1 /\ Worked(q)' /\ complete' = complete
              /\ \E d \in Drones, a \in Answers :
                   \/ RouterServe(d, a) /\ Head(toRouter).req = q /\ Head(toRouter).type = "REQUEST"
                   \/ DroneServe(d, a) /\ Head(toDrone[d]).req = q /\ Head(toDrone[d]).type = "REQUEST"
<1>1. starts \in [Reqs -> Nat]
  BY DEF TypeInv, HistoryType
<1>2. ASSUME NEW d \in Drones, NEW a \in Answers, NEW m \in Out, Handles(d, a, m) \/ Ignores(d)
      PROVE  starts'[q] = starts[q] \/ (starts'[q] = starts[q] + 1 /\ Worked(q)' /\ m.req = q
               /\ m.type = "REQUEST")
  <2>1. CASE m.type = "REQUEST" /\ Begin(d, m.req, a)
    <3>1. m.req \in Reqs
      BY <2>1, OutFields
    <3>2. starts'[q] = IF q = m.req THEN starts[q] + 1 ELSE starts[q]
      BY <1>1, <2>1, <3>1 DEF Begin
    <3>3. Worked(m.req)'
      <4> DEFINE v == [drone |-> d, req |-> m.req, todo |-> a]
      <4>1. v \in work' /\ v.req = m.req
        BY <2>1 DEF Begin
      <4> HIDE DEF v
      <4> QED
        BY <4>1 DEF Worked
    <3> QED
      BY <2>1, <3>2, <3>3
  <2>2. CASE UNCHANGED starts
    BY <2>2
  <2> QED
    BY <1>2, <2>1, <2>2 DEF Handles, Ignores
<1>3. ASSUME NEW d \in Drones, NEW a \in Answers, RouterServe(d, a)
      PROVE  starts'[q] = starts[q] \/ (starts'[q] = starts[q] + 1 /\ Worked(q)'
               /\ complete' = complete /\ Head(toRouter).req = q /\ Head(toRouter).type = "REQUEST")
  <2> DEFINE m == Head(toRouter)
  <2>1. m \in Out /\ Handles(d, a, m)
    BY <1>3, RouterServeEffect
  <2> HIDE DEF m
  <2>2. starts'[q] = starts[q] \/ (starts'[q] = starts[q] + 1 /\ Worked(q)' /\ m.req = q
          /\ m.type = "REQUEST")
    BY <1>2, <2>1
  <2> QED
    BY <1>3, <2>2 DEF m, RouterServe, requests
<1>4. ASSUME NEW d \in Drones, NEW a \in Answers, DroneServe(d, a)
      PROVE  starts'[q] = starts[q] \/ (starts'[q] = starts[q] + 1 /\ Worked(q)'
               /\ complete' = complete /\ Head(toDrone[d]).req = q /\ Head(toDrone[d]).type = "REQUEST")
  <2> DEFINE m == Head(toDrone[d])
  <2>1. m \in Out /\ (Handles(d, a, m) \/ Ignores(d))
    BY <1>4, DroneServeEffect
  <2> HIDE DEF m
  <2>2. starts'[q] = starts[q] \/ (starts'[q] = starts[q] + 1 /\ Worked(q)' /\ m.req = q
          /\ m.type = "REQUEST")
    BY <1>2, <2>1
  <2> QED
    BY <1>4, <2>2 DEF m, DroneServe, requests
<1>5. CASE ~\E d \in Drones, a \in Answers : RouterServe(d, a) \/ DroneServe(d, a)
  <2>1. starts' = starts
    BY <1>5 DEF Step, CallRequest, CallConnect, CallDisconnect, CallRecv, Take, Finish, SendTop,
      Process, RecvResult, RecvNull,
           ConnectReturns, Bounce, Expire, Die, RouterRefuse, Answer, history
  <2> QED
    BY <2>1
<1> QED
  BY <1>3, <1>4, <1>5

LEMMA LostStep ==
    ASSUME TypeInv, Step, NEW q \in lost'
    PROVE  \/ q \in lost
           \/ \E d \in Drones, n \in Nat :
                /\ Die(d) /\ work' = {w \in work : w.drone # d}
                /\ \A e \in Drones : e # d => toDrone'[e] = toDrone[e]
                /\ Leaves(toDrone[d], n, toDrone'[d], q) /\ 1 .. n \subseteq DOMAIN toDrone[d]
                /\ \/ \E w \in work : w.drone = d /\ w.req = q
                   \/ \E i \in 1 .. n : toDrone[d][i].type = "REQUEST" /\ toDrone[d][i].req = q
<1>1. CASE \E d \in Drones : Die(d)
  <2>1. PICK d \in Drones : Die(d)
    BY <1>1
  <2>2. PICK n \in 0 .. Len(toDrone[d]) :
                /\ Dropped(Out, toDrone[d], n, toDrone'[d])
                /\ \A r : Leaves(toDrone[d], n, toDrone'[d], r)
                /\ \A r : r \in lost' <=>
                     \/ r \in lost \/ \E w \in work : w.drone = d /\ w.req = r
                     \/ \E i \in 1 .. n : toDrone[d][i].type = "REQUEST" /\ toDrone[d][i].req = r
    BY <2>1, DieEffect
  <2>3. n \in Nat /\ 1 .. n \subseteq DOMAIN toDrone[d]
    BY <2>2 DEF Dropped
  <2>4. work' = {w \in work : w.drone # d} /\ \A e \in Drones : e # d => toDrone'[e] = toDrone[e]
    BY <2>1, DieEffect
  <2> QED
    BY <2>1, <2>2, <2>3, <2>4
<1>2. CASE ~\E d \in Drones : Die(d)
  <2>1. lost' = lost
    BY <1>2 DEF Step, CallRequest, CallConnect, CallDisconnect, CallRecv, Take, Finish, SendTop,
      Process, RecvResult, RecvNull,
           ConnectReturns, RouterServe, DroneServe, Bounce, Expire, RouterRefuse, Answer, history
  <2> QED
    BY <2>1
<1> QED
  BY <1>1, <1>2

LEMMA FreshStep ==
    ASSUME TypeInv, WorkInv, Fresh, Step
    PROVE  Fresh'
<1>1. ASSUME NEW q \in Reqs, q > trace'
      PROVE  /\ Gone(q)' /\ ~Names(inbox', q) /\ ~complete'[q] /\ q \notin lost' /\ starts'[q] = 0
             /\ got'[q] = << >> /\ queue'[q] = << >> /\ parts'[q] = << >>
  <2>1. trace' = trace \/ trace' = trace + 1
    BY DEF Step, CallRequest, CallConnect, CallDisconnect, CallRecv, Take, Finish, SendTop, Process,
      RecvResult, RecvNull,
           ConnectReturns, RouterServe, DroneServe, Bounce, Expire, Die, RouterRefuse, Answer, session
  <2>2. q > trace /\ q # trace'
    BY <1>1, <2>1, ConstantsOK DEF TypeInv, SessionType, Reqs
  <2>3. /\ ~Names(stack, q) /\ ~Names(toRouter, q) /\ ~Droned(q) /\ ~Worked(q) /\ ~Names(inbox, q)
        /\ ~complete[q] /\ q \notin lost /\ starts[q] = 0
        /\ got[q] = << >> /\ queue[q] = << >> /\ parts[q] = << >>
    BY <2>2 DEF Fresh
  <2>4. Gone(q)
    BY <2>3, EndedNames DEF Gone
  <2>5. Gone(q)' /\ ~Names(inbox', q)
    BY <2>2, <2>3, <2>4, GoneStep
  <2>6. ~complete'[q]
    <3>1. CASE complete' = complete
      BY <2>3, <3>1
    <3>2. CASE complete' # complete
      <4>1. Process
        BY <3>2 DEF Step, CallRequest, CallConnect, CallDisconnect, CallRecv, Take, Finish, SendTop,
          RecvResult, RecvNull,
             ConnectReturns, RouterServe, DroneServe, Bounce, Expire, Die, RouterRefuse, Answer, requests
      <4>2. q # Head(inbox).req
        BY <2>3, <4>1, ProcessEffect DEF Adds
      <4> QED
        BY <2>3, <4>1, <4>2, ProcessEffect
    <3> QED
      BY <3>1, <3>2
  <2>7. q \notin lost'
    <3>1. SUFFICES ASSUME q \in lost' PROVE FALSE
      OBVIOUS
    <3>2. PICK d \in Drones, n \in Nat :
                /\ 1 .. n \subseteq DOMAIN toDrone[d]
                /\ \/ \E w \in work : w.drone = d /\ w.req = q
                   \/ \E i \in 1 .. n : toDrone[d][i].type = "REQUEST" /\ toDrone[d][i].req = q
      BY <2>3, <3>1, LostStep
    <3> QED
      BY <2>3, <3>2 DEF Worked, Droned, Names
  <2>8. starts'[q] = 0
    <3>1. CASE starts'[q] = starts[q]
      BY <2>3, <3>1
    <3>2. CASE starts'[q] # starts[q]
      <4>1. PICK d \in Drones, a \in Answers :
                   \/ RouterServe(d, a) /\ Head(toRouter).req = q
                   \/ DroneServe(d, a) /\ Head(toDrone[d]).req = q
        BY <3>2, StartsStep
      <4>2. (RouterServe(d, a) => toRouter # << >>) /\ (DroneServe(d, a) => toDrone[d] # << >>)
        BY DEF RouterServe, DroneServe
      <4> QED
        BY <2>3, <4>1, <4>2, HeadNames DEF Droned
    <3> QED
      BY <3>1, <3>2
  <2>9. got'[q] = << >> /\ queue'[q] = << >> /\ parts'[q] = << >>
    BY <2>3, UntouchedStep
  <2> QED
    BY <2>5, <2>6, <2>7, <2>8, <2>9
<1> QED
  BY <1>1 DEF Fresh, Gone

\* Who changes the state of the session.
LEMMA StateStep ==
    ASSUME TypeInv, Step
    PROVE  \/ state' = state
           \/ CallConnect /\ state' = "CONNECTING"
           \/ SendTop /\ Own /\ op.name = "disconnect" /\ state' = "DISCONNECTED"
           \/ Process /\ Connected(Head(inbox)) /\ state' = "CONNECTED"
           \/ Process /\ Over(Head(inbox)) /\ state' = "DISCONNECTED"
<1>1. CASE CallConnect
  BY <1>1 DEF CallConnect
<1>2. CASE SendTop
  BY <1>2 DEF SendTop
<1>3. CASE Process
  BY <1>3 DEF Process, ForRequest, Connected, Over, Unreachable
<1>4. CASE ~CallConnect /\ ~SendTop /\ ~Process
  BY <1>4 DEF Step, CallRequest, CallDisconnect, CallRecv, Take, Finish, RecvResult, RecvNull,
              ConnectReturns, RouterServe, DroneServe, Bounce, Expire, Die, RouterRefuse, Answer, session
<1> QED
  BY <1>1, <1>2, <1>3, <1>4

\* Who changes the call in progress.
LEMMA OpStep ==
    ASSUME TypeInv, Step
    PROVE  \/ op' = op
           \/ op.name = "none" /\ CallRequest /\ op'.name = "request"
           \/ op.name = "none" /\ CallConnect /\ op'.name = "connect"
           \/ op.name = "none" /\ CallDisconnect /\ op'.name = "disconnect"
           \/ op.name = "none" /\ op'.name = "recv"
           \/ SendTop /\ Own
           \/ op.name = "recv" /\ op'.name = "none"
           \/ ConnectReturns /\ op.name = "connecting" /\ op'.name = "none"
<1>1. CASE SendTop
  BY <1>1 DEF SendTop
<1>2. CASE RecvResult \/ RecvNull \/ ConnectReturns
  BY <1>2 DEF RecvResult, RecvNull, ConnectReturns, Call
<1>3. CASE CallRequest \/ CallConnect \/ CallDisconnect \/ \E r \in Reqs : CallRecv(r)
  BY <1>3 DEF CallRequest, CallConnect, CallDisconnect, CallRecv, Idle, Call
<1>4. CASE (\E r \in Reqs : Finish(r)) \/ Process \/ RouterRefuse \/ \E w \in work : Answer(w)
  BY <1>4 DEF Finish, Process, RouterRefuse, Answer, calls
<1>5. CASE \E d \in Drones : (\E a \in Answers : RouterServe(d, a) \/ DroneServe(d, a))
             \/ Bounce(d) \/ Expire(d) \/ Die(d)
  BY <1>5 DEF RouterServe, DroneServe, Bounce, Expire, Die, calls
<1> QED
  BY <1>1, <1>2, <1>3, <1>4, <1>5 DEF Step

LEMMA OkHead ==
    ASSUME TypeInv, Process, Connected(Head(inbox))
    PROVE  Ok(1)
<1>1. inbox # << >>
  BY DEF Process
<1> QED
  BY <1>1, InboxHead DEF Connected, Ok

LEMMA LostQuietStep ==
    ASSUME TypeInv, TypeInv', WorkInv, Calm, CalmInv, Step
    PROVE  LostQuiet'
<1>1. SUFFICES ASSUME state' = "CONNECTED", op'.name # "disconnect", NEW q \in lost', ~complete'[q]
      PROVE Gone(q)'
  BY DEF LostQuiet, Gone
<1>2. q \in Reqs /\ ~complete[q]
  BY <1>1, CompleteStays DEF TypeInv, HistoryType
<1>3. OnePlace(q) /\ EndsLast(q)
  BY <1>2 DEF CalmInv, Placed
<1>4. q \in lost => q <= trace
  BY <1>2 DEF CalmInv, Fresh, TypeInv, SessionType, Reqs
<1>5. CASE state = "CONNECTED" /\ op.name # "disconnect" /\ q \in lost
  <2>1. Gone(q)
    BY <1>2, <1>5 DEF CalmInv, LostQuiet, Gone
  <2>2. CallRequest \/ CallConnect \/ CallDisconnect => q # trace'
    <3>1. ~CallConnect
      BY <1>5 DEF CallConnect
    <3>2. ~CallDisconnect
      BY <1>1 DEF CallDisconnect, Call
    <3>3. CallRequest => q # trace'
      BY <1>2, <1>4, <1>5 DEF CallRequest, TypeInv, SessionType, Reqs
    <3> QED
      BY <3>1, <3>2, <3>3
  <2> QED
    BY <1>2, <2>1, <2>2, GoneStep
<1>6. CASE q \notin lost
  <2>1. PICK d \in Drones, n \in Nat :
                /\ Die(d) /\ work' = {w \in work : w.drone # d}
                /\ \A e \in Drones : e # d => toDrone'[e] = toDrone[e]
                /\ Leaves(toDrone[d], n, toDrone'[d], q) /\ 1 .. n \subseteq DOMAIN toDrone[d]
                /\ \/ \E w \in work : w.drone = d /\ w.req = q
                   \/ \E i \in 1 .. n : toDrone[d][i].type = "REQUEST" /\ toDrone[d][i].req = q
    BY <1>6, LostStep
  <2>2. UNCHANGED <<stack, toRouter, inbox>>
    BY <2>1 DEF Die
  <2>3. CASE \E w \in work : w.drone = d /\ w.req = q
    <3>1. Worked(q) /\ ~Worked(q)'
      BY <1>3, <2>1, <2>3 DEF Worked, OnePlace
    <3>2. ~Names(stack, q) /\ ~Names(toRouter, q) /\ ~Droned(q) /\ ~Ended(inbox, q)
      BY <1>3, <3>1 DEF OnePlace
    <3>3. ~Droned(q)'
      BY <2>1, <3>2 DEF Droned, Leaves
    <3> QED
      BY <2>2, <3>1, <3>2, <3>3 DEF Gone
  <2>4. CASE \E i \in 1 .. n : toDrone[d][i].type = "REQUEST" /\ toDrone[d][i].req = q
    <3>1. Names(toDrone[d], q) /\ Droned(q)
      BY <2>1, <2>4 DEF Names, Droned
    <3>2. ~Names(stack, q) /\ ~Names(toRouter, q) /\ ~Worked(q) /\ ~Ended(inbox, q)
      BY <1>3, <3>1 DEF OnePlace
    <3>3. ~Worked(q)'
      BY <2>1, <3>2 DEF Worked
    <3>4. ~Names(toDrone'[d], q)
      BY <1>3, <2>1, <2>4 DEF OnePlace, Leaves
    <3>5. \A e \in Drones : e # d => ~Names(toDrone'[e], q)
      BY <1>3, <2>1, <3>1 DEF OnePlace
    <3> QED
      BY <2>2, <3>2, <3>3, <3>4, <3>5 DEF Gone, Droned
  <2> QED
    BY <2>1, <2>3, <2>4
<1>7. CASE state # "CONNECTED" /\ q \in lost
  <2>1. Process /\ Connected(Head(inbox))
    BY <1>1, <1>7, StateStep
  <2>2. op.name = "connecting"
    BY <2>1, OkHead DEF CalmInv, Connecting, OkAwaited, Ok
  <2>3. AllComplete
    BY <2>2 DEF CalmInv, Connecting, ConnectWaits
  <2> QED
    BY <1>2, <1>4, <1>7, <2>3 DEF AllComplete, Reqs, TypeInv, SessionType
<1>8. CASE state = "CONNECTED" /\ op.name = "disconnect" /\ q \in lost
  <2>1. SendTop /\ Own
    BY <1>1, <1>8, OpStep
  <2>2. state' = "DISCONNECTED"
    BY <1>8, <2>1 DEF SendTop
  <2> QED
    BY <1>1, <2>2
<1> QED
  BY <1>5, <1>6, <1>7, <1>8

\* A request gets on its way by a call.
LEMMA OnWayStep ==
    ASSUME TypeInv, WorkInv, NamedDone, Step, NEW q
             \in Reqs \ lost', ~OnWay(q), ~(CallRequest /\ q = trace + 1)
    PROVE  ~OnWay(q)'
<1>0. /\ ~In(stack, q) /\ ~In(toRouter, q) /\ \A d \in Drones : ~In(toDrone[d], q)
      /\ complete[q] \/ \A i \in DOMAIN inbox : ~(inbox[i].req = q /\ inbox[i].kind = "BOUNCE")
  BY DEF OnWay
<1>a. q \in Reqs /\ q \notin lost' /\ ~(CallRequest /\ q = trace + 1)
  OBVIOUS
<1>b. complete[q] => complete'[q]
  BY CompleteStays
<1>c. NamedDone /\ q \notin lost'
  OBVIOUS
<1>1. CASE CallRequest
  <2> DEFINE e == [type |-> "REQUEST", req |-> trace + 1]
  <2>1. e \in Out /\ stack' = Append(stack, e) /\ UNCHANGED <<toRouter, toDrone, work, inbox>>
    <3>1. trace + 1 \in Reqs
      BY <1>1, ConstantsOK DEF CallRequest, TypeInv, SessionType, Reqs
    <3> QED
      BY <1>1, <3>1, OutIs DEF CallRequest, Sending, net, server
  <2>2. ~(e.req = q /\ e.type = "REQUEST")
    BY <1>1, <1>a
  <2> HIDE DEF e
  <2>3. ~In(stack', q)
    BY <1>0, <2>1, <2>2, StackGains DEF Adds
  <2> QED
    BY <1>0, <1>b, <2>1, <2>3 DEF OnWay
<1>2. CASE CallConnect
  <2> DEFINE e == [type |-> "CONNECT", req |-> trace]
  <2>1. e \in Out /\ stack' = Append(stack, e) /\ UNCHANGED <<toRouter, toDrone, work, inbox>>
    <3>1. trace \in 0 .. MaxReqs
      BY <1>2, ConstantsOK DEF CallConnect, TypeInv, SessionType, Reqs
    <3> QED
      BY <1>2, <3>1, OutIs DEF CallConnect, Sending, net, server
  <2>2. ~(e.req = q /\ e.type = "REQUEST")
    BY <1>2, <1>a
  <2> HIDE DEF e
  <2>3. ~In(stack', q)
    BY <1>0, <2>1, <2>2, StackGains DEF Adds
  <2> QED
    BY <1>0, <1>b, <2>1, <2>3 DEF OnWay
<1>3. CASE CallDisconnect
  <2> DEFINE e == [type |-> "DISCONNECT", req |-> trace]
  <2>1. e \in Out /\ stack' = Append(stack, e) /\ UNCHANGED <<toRouter, toDrone, work, inbox>>
    <3>1. trace \in 0 .. MaxReqs
      BY <1>3, ConstantsOK DEF CallDisconnect, TypeInv, SessionType, Reqs
    <3> QED
      BY <1>3, <3>1, OutIs DEF CallDisconnect, Sending, net, server
  <2>2. ~(e.req = q /\ e.type = "REQUEST")
    BY <1>3, <1>a
  <2> HIDE DEF e
  <2>3. ~In(stack', q)
    BY <1>0, <2>1, <2>2, StackGains DEF Adds
  <2> QED
    BY <1>0, <1>b, <2>1, <2>3 DEF OnWay
<1>4. ASSUME NEW r \in Reqs, CallRecv(r) PROVE ~OnWay(q)'
  <2>1. UNCHANGED <<stack, toRouter, toDrone, inbox>>
    BY <1>4 DEF CallRecv, Take, net, server
  <2> QED
    BY <1>0, <1>b, <2>1 DEF OnWay
<1>5. ASSUME NEW r \in Reqs, Finish(r) PROVE ~OnWay(q)'
  <2>1. UNCHANGED <<stack, toRouter, toDrone, inbox>>
    BY <1>5 DEF Finish, net, server
  <2> QED
    BY <1>0, <1>b, <2>1 DEF OnWay
<1>6. CASE SendTop
  <2>2. Adds(stack', Frame, stack, q)
    BY <1>6, SendTopEffect
  <2>3. ~In(stack', q) /\ ~(Frame.req = q /\ Frame.type = "REQUEST")
    BY <1>0, <2>2 DEF Adds
  <2>4. ~In(toRouter', q) /\ \A d \in Drones : ~In(toDrone'[d], q)
    <3>1. CASE toDrone' = toDrone /\ Adds(toRouter, Frame, toRouter', q)
      BY <1>0, <2>3, <3>1 DEF Adds
    <3>2. CASE /\ remote \in Drones /\ toRouter' = toRouter
                    /\ Adds(toDrone[remote], Frame, toDrone'[remote], q)
               /\ \A d \in Drones : d # remote => toDrone'[d] = toDrone[d]
      <4>1. ~In(toDrone'[remote], q)
        BY <1>0, <2>3, <3>2 DEF Adds
      <4> QED
        BY <1>0, <3>2, <4>1
    <3> QED
      BY <1>6, <3>1, <3>2, SendTopEffect
  <2>5. inbox' = inbox
    BY <1>6 DEF SendTop
  <2> QED
    BY <1>0, <1>b, <2>3, <2>4, <2>5 DEF OnWay
<1>7. CASE Process
  <2>1. UNCHANGED <<toRouter, toDrone>>
    BY <1>7 DEF Process
  <2>2. /\ Head(inbox) = inbox[1] /\ 1 \in DOMAIN inbox
        /\ \A i \in DOMAIN inbox' : i + 1 \in DOMAIN inbox /\ inbox'[i] = inbox[i + 1]
    BY <1>7, ProcessEffect DEF Shorter
  <2>3. ~In(stack', q)
    <3>1. CASE stack' = stack
      BY <1>0, <3>1
    <3>2. CASE stack' # stack
      <4>1. PICK e \in Out : /\ e.req = Head(inbox).req /\ Head(inbox).kind = "BOUNCE" /\ ~complete[e.req]
                             /\ Adds(stack, e, stack', q)
        BY <1>7, <3>2, ProcessEffect
      <4>2. e.req # q
        BY <1>0, <2>2, <4>1
      <4> QED
        BY <1>0, <4>1, <4>2 DEF Adds
    <3> QED
      BY <3>1, <3>2
  <2>4. complete[q] \/ \A i \in DOMAIN inbox' : ~(inbox'[i].req = q /\ inbox'[i].kind = "BOUNCE")
    BY <1>0, <2>2
  <2> QED
    BY <1>0, <1>b, <2>1, <2>3, <2>4 DEF OnWay
<1>8. CASE RecvResult
  <2>1. UNCHANGED <<stack, toRouter, toDrone, inbox>>
    BY <1>8 DEF RecvResult, Take, net, server
  <2> QED
    BY <1>0, <1>b, <2>1 DEF OnWay
<1>9. CASE RecvNull
  <2>1. UNCHANGED <<stack, toRouter, toDrone, inbox>>
    BY <1>9 DEF RecvNull, net, server
  <2> QED
    BY <1>0, <1>b, <2>1 DEF OnWay
<1>10. CASE ConnectReturns
  <2>1. UNCHANGED <<stack, toRouter, toDrone, inbox>>
    BY <1>10 DEF ConnectReturns, net, server
  <2> QED
    BY <1>0, <1>b, <2>1 DEF OnWay
<1>11. ASSUME NEW d \in Drones, NEW a \in Answers, RouterServe(d, a) PROVE ~OnWay(q)'
  <2> DEFINE m == Head(toRouter)
  <2>1. m \in Out /\ (Handles(d, a, m)) /\ Adds(toRouter', m, toRouter, q)
    BY <1>11, RouterServeEffect
  <2>2. ~In(toRouter', q)
    BY <1>0, <2>1 DEF Adds
  <2> HIDE DEF m
  <2>3. \A i \in DOMAIN inbox' : (i \in DOMAIN inbox /\ inbox'[i] = inbox[i]) \/ inbox'[i].kind = "OK"
    BY <2>1, HandlesEffect
  <2>4. complete[q] \/ \A i \in DOMAIN inbox' : ~(inbox'[i].req = q /\ inbox'[i].kind = "BOUNCE")
    BY <1>0, <2>3
  <2>5. UNCHANGED <<stack, toDrone>>
    BY <1>11 DEF RouterServe
  <2> QED
    BY <1>0, <1>b, <2>2, <2>4, <2>5 DEF OnWay
<1>12. ASSUME NEW d \in Drones, NEW a \in Answers, DroneServe(d, a) PROVE ~OnWay(q)'
  <2> DEFINE m == Head(toDrone[d])
  <2>1. m \in Out /\ (Handles(d, a, m) \/ Ignores(d)) /\ Adds(toDrone'[d], m, toDrone[d], q)
        /\ \A e \in Drones : e # d => toDrone'[e] = toDrone[e]
    BY <1>12, DroneServeEffect
  <2>2. ~In(toDrone'[d], q)
    BY <1>0, <2>1 DEF Adds
  <2> HIDE DEF m
  <2>3. \A i \in DOMAIN inbox' : (i \in DOMAIN inbox /\ inbox'[i] = inbox[i]) \/ inbox'[i].kind = "OK"
    BY <2>1, HandlesEffect
  <2>4. complete[q] \/ \A i \in DOMAIN inbox' : ~(inbox'[i].req = q /\ inbox'[i].kind = "BOUNCE")
    BY <1>0, <2>3
  <2>5. UNCHANGED <<stack, toRouter>>
    BY <1>12 DEF DroneServe
  <2> QED
    BY <1>0, <1>b, <2>1, <2>2, <2>4, <2>5 DEF OnWay
<1>13. ASSUME NEW d \in Drones, Bounce(d) PROVE ~OnWay(q)'
  <2>1. Adds(toDrone'[d], Head(toDrone[d]), toDrone[d], q) /\ Head(toDrone[d]) \in Out /\ toDrone[d] # << >>
        /\ \A e \in Drones : e # d => toDrone'[e] = toDrone[e]
    BY <1>13, BounceEffect
  <2>2. ~In(toDrone'[d], q) /\ ~(Head(toDrone[d]).req = q /\ Head(toDrone[d]).type = "REQUEST")
    BY <1>0, <2>1 DEF Adds
  <2>3. Head(toDrone[d]).req = q => complete[q]
    <3>1. lost' = lost /\ q # 0
      BY <1>13 DEF Bounce, history, Reqs
    <3>2. Head(toDrone[d]) = toDrone[d][1] /\ 1 \in DOMAIN toDrone[d]
      BY <1>13, BounceEffect DEF Shorter
    <3> QED
      BY <1>c, <2>2, <3>1, <3>2 DEF NamedDone, Bystanders
  <2>4. complete[q] \/ \A i \in DOMAIN inbox' : ~(inbox'[i].req = q /\ inbox'[i].kind = "BOUNCE")
    <3>1. PICK e \in Back : e.req = Head(toDrone[d]).req /\ Longer(Back, inbox, e, inbox')
      BY <1>13, BounceEffect
    <3> QED
      BY <1>0, <2>3, <3>1 DEF Longer
  <2>5. UNCHANGED <<stack, toRouter>>
    BY <1>13 DEF Bounce
  <2> QED
    BY <1>0, <1>b, <2>1, <2>2, <2>4, <2>5 DEF OnWay
<1>14. ASSUME NEW d \in Drones, Expire(d) PROVE ~OnWay(q)'
  <2> DEFINE e == [from |-> d, kind |-> "TIMEOUT", req |-> 0, k |-> 0]
  <2>1. e \in Back /\ inbox' = Append(inbox, e) /\ e.kind = "TIMEOUT"
    BY <1>14, ReplyIs DEF Expire, Reply
  <2> HIDE DEF e
  <2>2. Longer(Back, inbox, e, inbox')
    BY <2>1, InboxGains
  <2>4. complete[q] \/ \A i \in DOMAIN inbox' : ~(inbox'[i].req = q /\ inbox'[i].kind = "BOUNCE")
    BY <1>0, <2>1, <2>2 DEF Longer
  <2> QED
    BY <1>14, <1>0, <1>b, <2>4 DEF OnWay, Expire
<1>15. ASSUME NEW d \in Drones, Die(d) PROVE ~OnWay(q)'
  <2>1. \A e \in Drones : e # d => toDrone'[e] = toDrone[e]
    BY <1>15, DieEffect
  <2>2. In(toDrone'[d], q) => In(toDrone[d], q)
    BY <1>15, DieEffect DEF Leaves
  <2>3. \A e \in Drones : ~In(toDrone'[e], q)
    BY <1>0, <2>1, <2>2
  <2> QED
    BY <1>15, <1>0, <1>b, <2>3 DEF OnWay, Die
<1>16. CASE RouterRefuse
  <2>1. Adds(toRouter', Head(toRouter), toRouter, q) /\ Head(toRouter) \in Out /\ toRouter # << >>
    BY <1>16, RefuseEffect
  <2>2. ~In(toRouter', q) /\ ~(Head(toRouter).req = q /\ Head(toRouter).type = "REQUEST")
    BY <1>0, <2>1 DEF Adds
  <2>3. Head(toRouter).req = q => complete[q]
    <3>1. lost' = lost /\ q # 0
      BY <1>16 DEF RouterRefuse, history, Reqs
    <3>2. Head(toRouter) = toRouter[1] /\ 1 \in DOMAIN toRouter
      BY <1>16, RefuseEffect DEF Shorter
    <3> QED
      BY <1>c, <2>2, <3>1, <3>2 DEF NamedDone, Bystanders
  <2>4. complete[q] \/ \A i \in DOMAIN inbox' : ~(inbox'[i].req = q /\ inbox'[i].kind = "BOUNCE")
    <3>1. PICK e \in Back : e.req = Head(toRouter).req /\ Longer(Back, inbox, e, inbox')
      BY <1>16, RefuseEffect
    <3> QED
      BY <1>0, <2>3, <3>1 DEF Longer
  <2>5. UNCHANGED <<stack, toDrone>>
    BY <1>16 DEF RouterRefuse
  <2> QED
    BY <1>0, <1>b, <2>2, <2>4, <2>5 DEF OnWay
<1>17. ASSUME NEW w \in work, Answer(w) PROVE ~OnWay(q)'
  <2>1. PICK e \in Back : e.kind \in AnswerKinds /\ Longer(Back, inbox, e, inbox')
    BY <1>17, AnswerEffect
  <2>4. complete[q] \/ \A i \in DOMAIN inbox' : ~(inbox'[i].req = q /\ inbox'[i].kind = "BOUNCE")
    BY <1>0, <2>1 DEF Longer, AnswerKinds
  <2> QED
    BY <1>17, <1>0, <1>b, <2>4 DEF OnWay, Answer
<1> QED
  BY <1>1, <1>2, <1>3, <1>4, <1>5, <1>6, <1>7, <1>8, <1>9, <1>10, <1>11, <1>12, <1>13, <1>14, <1>15,
    <1>16, <1>17 DEF Step

LEMMA BegunStep ==
    ASSUME TypeInv, TypeInv', WorkInv, Calm, CalmInv, Placed', Step
    PROVE  Begun'
<1>1. SUFFICES ASSUME NEW q \in Reqs \ lost' PROVE starts'[q] <= 1 /\ (OnWay(q)' => starts'[q] = 0)
  BY DEF Begun
<1>2. q \notin lost
  BY CompleteStays
<1>3. starts[q] <= 1 /\ (OnWay(q) => starts[q] = 0) /\ starts[q] \in Nat
  BY <1>2 DEF CalmInv, Begun, TypeInv, HistoryType
<1>4. OnWay(q)' => OnWay(q) \/ (CallRequest /\ q = trace + 1)
  BY OnWayStep DEF CalmInv
<1>5. CASE starts'[q] = starts[q]
  <2>1. CallRequest /\ q = trace + 1 => starts[q] = 0
    BY DEF CalmInv, Fresh, TypeInv, SessionType
  <2> QED
    BY <1>3, <1>4, <1>5, <2>1
<1>6. CASE starts'[q] # starts[q]
  <2>1. starts'[q] = starts[q] + 1 /\ Worked(q)' /\ complete' = complete
    BY <1>6, StartsStep
  <2>2. PICK d \in Drones, a \in Answers :
                   \/ RouterServe(d, a) /\ Head(toRouter).req = q /\ Head(toRouter).type = "REQUEST"
                   \/ DroneServe(d, a) /\ Head(toDrone[d]).req = q /\ Head(toDrone[d]).type = "REQUEST"
    BY <1>6, StartsStep
  <2>3. In(toRouter, q) \/ In(toDrone[d], q)
    <3>1. CASE RouterServe(d, a) /\ Head(toRouter).req = q /\ Head(toRouter).type = "REQUEST"
      BY <3>1, RouterServeEffect DEF Adds
    <3>2. CASE DroneServe(d, a) /\ Head(toDrone[d]).req = q /\ Head(toDrone[d]).type = "REQUEST"
      BY <3>2, DroneServeEffect DEF Adds
    <3> QED
      BY <2>2, <3>1, <3>2
  <2>4. OnWay(q)
    BY <2>3 DEF OnWay
  <2>5. ~complete'[q]
    <3>1. complete[q] => Settled(q)
      BY DEF CalmInv, Placed
    <3> QED
      BY <2>1, <2>3, <3>1 DEF Settled
  <2>6. OnePlace(q)'
    BY <2>5 DEF Placed
  <2>7. ~Names(stack', q) /\ ~Names(toRouter', q) /\ ~Droned(q)' /\ ~Ended(inbox', q)
    BY <2>1, <2>6 DEF OnePlace
  <2>8. ~In(stack', q) /\ ~In(toRouter', q) /\ \A e \in Drones : ~In(toDrone'[e], q)
    BY <2>7, InNames DEF Droned
  <2>9. ~\E i \in DOMAIN inbox' : inbox'[i].req = q /\ inbox'[i].kind = "BOUNCE"
    BY <2>7 DEF Ended, Ends
  <2>10. ~OnWay(q)'
    BY <2>8, <2>9 DEF OnWay
  <2> QED
    BY <1>3, <2>1, <2>4, <2>10
<1> QED
  BY <1>5, <1>6

-----------------------------------------------------------------------------
(* Who changes what.                                                       *)

LEMMA TraceStep == ASSUME TypeInv, Step PROVE trace' = trace \/ CallRequest
  BY DEF Step, CallConnect, CallDisconnect, CallRecv, Take, Finish, SendTop, Process, RecvResult, RecvNull,
         ConnectReturns, RouterServe, DroneServe, Bounce, Expire, Die, RouterRefuse, Answer, session

LEMMA TerrStep == ASSUME TypeInv, Step PROVE terr' = terr \/ (Process /\ Unreachable(Head(inbox)))
<1>1. CASE Process
  BY <1>1 DEF Process, ForRequest, Connected, Over
<1>2. CASE ~Process
  BY <1>2 DEF Step, CallRequest, CallConnect, CallDisconnect, CallRecv, Take, Finish, SendTop,
    RecvResult, RecvNull,
         ConnectReturns, RouterServe, DroneServe, Bounce, Expire, Die, RouterRefuse, Answer, session
<1> QED
  BY <1>1, <1>2

LEMMA PeerStep == ASSUME TypeInv, Step PROVE peer' = peer \/ (Process /\ Connected(Head(inbox)))
<1>1. CASE Process
  BY <1>1 DEF Process, ForRequest, Unreachable, Over
<1>2. CASE ~Process
  BY <1>2 DEF Step, CallRequest, CallConnect, CallDisconnect, CallRecv, Take, Finish, SendTop,
    RecvResult, RecvNull,
         ConnectReturns, RouterServe, DroneServe, Bounce, Expire, Die, RouterRefuse, Answer, history
<1> QED
  BY <1>1, <1>2

LEMMA StackStep ==
    ASSUME TypeInv, Step
    PROVE  \/ stack' = stack
           \/ \E e \in Out : op.name = "none" /\ Longer(Out, stack, e, stack')
           \/ SendTop /\ Front(Out, stack, stack')
           \/ Process /\ stack' # stack
<1>1. ASSUME NEW e \in Out, stack' = Append(stack, e) PROVE Longer(Out, stack, e, stack')
  BY <1>1, StackGains
<1>2. trace \in 0 .. MaxReqs /\ (trace < MaxReqs => trace + 1 \in Reqs)
  BY ConstantsOK DEF TypeInv, SessionType, Reqs
<1>3. CASE CallRequest
  BY <1>1, <1>2, <1>3, OutIs DEF CallRequest, Sending, Idle
<1>4. CASE CallConnect
  BY <1>1, <1>2, <1>4, OutIs DEF CallConnect, Sending, Idle
<1>5. CASE CallDisconnect
  BY <1>1, <1>2, <1>5, OutIs DEF CallDisconnect, Sending, Idle
<1>6. CASE SendTop
  BY <1>6, SendTopFront
<1>7. CASE ~CallRequest /\ ~CallConnect /\ ~CallDisconnect /\ ~SendTop
  BY <1>7 DEF Step, CallRecv, Take, Finish, RecvResult, RecvNull,
         ConnectReturns, RouterServe, DroneServe, Bounce, Expire, Die, RouterRefuse, Answer
<1> QED
  BY <1>3, <1>4, <1>5, <1>6, <1>7

LEMMA RouterStep ==
    ASSUME TypeInv, Step
    PROVE  \/ toRouter' = toRouter
           \/ /\ SendTop /\ (state # "CONNECTED" \/ remote = Router) /\ Frame \in Out
              /\ Longer(Out, toRouter, Frame, toRouter')
           \/ toRouter # << >> /\ Shorter(Out, toRouter, toRouter')
                /\ \E d \in Drones, a \in Answers : RouterServe(d, a)
           \/ toRouter # << >> /\ Shorter(Out, toRouter, toRouter') /\ RouterRefuse
<1>1. CASE SendTop
  BY <1>1, SendTopEffect
<1>2. ASSUME NEW d \in Drones, NEW a \in Answers, RouterServe(d, a)
      PROVE toRouter # << >> /\ Shorter(Out, toRouter, toRouter')
  BY <1>2, RouterServeEffect
<1>3. CASE RouterRefuse
  BY <1>3, RefuseEffect
<1>4. CASE ~SendTop /\ ~RouterRefuse /\ ~\E d \in Drones, a \in Answers : RouterServe(d, a)
  BY <1>4 DEF Step, CallRequest, CallConnect, CallDisconnect, CallRecv, Take, Finish, Process,
    RecvResult, RecvNull,
         ConnectReturns, DroneServe, Bounce, Expire, Die, Answer, net
<1> QED
  BY <1>1, <1>2, <1>3, <1>4

LEMMA DroneStep ==
    ASSUME TypeInv, Step, NEW d \in Drones
    PROVE  \/ toDrone'[d] = toDrone[d]
           \/ /\ SendTop /\ state = "CONNECTED" /\ remote = d /\ Frame \in Out
              /\ Longer(Out, toDrone[d], Frame, toDrone'[d])
           \/ toDrone[d] # << >> /\ Shorter(Out, toDrone[d], toDrone'[d])
                /\ \E a \in Answers : DroneServe(d, a)
           \/ toDrone[d] # << >> /\ Shorter(Out, toDrone[d], toDrone'[d]) /\ Bounce(d)
           \/ Die(d) /\ \E n \in Nat : Dropped(Out, toDrone[d], n, toDrone'[d])
<1>1. CASE SendTop
  BY <1>1, SendTopEffect
<1>2. ASSUME NEW e \in Drones, NEW a \in Answers, DroneServe(e, a)
      PROVE IF e = d THEN toDrone[d] # << >>
        /\ Shorter(Out, toDrone[d], toDrone'[d]) ELSE toDrone'[d] = toDrone[d]
  BY <1>2, DroneServeEffect
<1>3. ASSUME NEW e \in Drones, Bounce(e)
      PROVE IF e = d THEN toDrone[d] # << >>
        /\ Shorter(Out, toDrone[d], toDrone'[d]) ELSE toDrone'[d] = toDrone[d]
  BY <1>3, BounceEffect
<1>4. ASSUME NEW e \in Drones, Die(e)
      PROVE IF e = d THEN \E n \in Nat : Dropped(Out, toDrone[d], n, toDrone'[d]) ELSE toDrone'[d] =
        toDrone[d]
  <2>1. CASE e = d
    <3>1. PICK n \in 0 .. Len(toDrone[d]) : Dropped(Out, toDrone[d], n, toDrone'[d])
      BY <1>4, <2>1, DieEffect
    <3> QED
      BY <2>1, <3>1 DEF Dropped
  <2>2. CASE e # d
    BY <1>4, <2>2, DieEffect
  <2> QED
    BY <2>1, <2>2
<1>5. CASE ~SendTop /\ ~\E e \in Drones : (\E a \in Answers : DroneServe(e, a)) \/ Bounce(e) \/ Die(e)
  BY <1>5 DEF Step, CallRequest, CallConnect, CallDisconnect, CallRecv, Take, Finish, Process,
    RecvResult, RecvNull,
         ConnectReturns, RouterServe, Expire, RouterRefuse, Answer, net
<1> QED
  BY <1>1, <1>2, <1>3, <1>4, <1>5

\* What a message that comes newly is.
Comes(e) ==
    \/ e.kind \in AnswerKinds /\ \E w \in work : Answer(w) /\ e.from = w.drone /\ e.req = w.req
    \/ e.kind = "OK" /\ \E d \in Drones, a \in Answers : RouterServe(d, a) /\ e.from = d /\ Asks(1)
         /\ bound' = bound \cup {d}
    \/ e.kind = "OK" /\ \E d \in Drones, a \in Answers : /\ DroneServe(d, a) /\ 1 \in DOMAIN toDrone[d]
                                                        /\ toDrone[d][1].type = "CONNECT"
    \/ e.kind = "BOUNCE" /\ RouterRefuse /\ e.from = Router
    \/ e.kind = "BOUNCE" /\ e.from # Router /\ \E d \in Drones : Bounce(d) /\ e.from = d
    \/ e.kind = "TIMEOUT" /\ \E d \in Drones : Expire(d)

LEMMA InboxStep ==
    ASSUME TypeInv, WorkInv, Step
    PROVE  \/ inbox' = inbox /\ ~Process
           \/ Process
           \/ ~Process /\ \E e \in Back : Longer(Back, inbox, e, inbox') /\ Comes(e)
<1>0. \A d \in Drones : d # Router
  BY ConstantsOK
<1>1. ASSUME NEW d \in Drones, NEW a \in Answers, RouterServe(d, a)
      PROVE  inbox' = inbox \/ \E e \in Back : Longer(Back, inbox, e, inbox') /\ Comes(e)
  <2> DEFINE m == Head(toRouter)
             e == [from |-> d, kind |-> "OK", req |-> m.req, k |-> 0]
  <2>1. m \in Out /\ m = toRouter[1] /\ 1 \in DOMAIN toRouter
    BY <1>1, RouterServeEffect DEF Shorter
  <2>2. SUFFICES ASSUME inbox' # inbox PROVE \E f \in Back : Longer(Back, inbox, f, inbox') /\ Comes(f)
    OBVIOUS
  <2>3. m.type = "CONNECT" /\ Reply(d, "OK", m.req, 0) /\ bound' = bound \cup {d}
    <3>1. m.type \in {"REQUEST", "CONNECT", "DISCONNECT"}
      BY <2>1, OutFields
    <3> QED
      BY <1>1, <2>2, <3>1 DEF RouterServe
  <2>4. e \in Back /\ inbox' = Append(inbox, e)
    BY <2>1, <2>3, OutFields, ReplyIs DEF Reply
  <2>5. e.kind = "OK" /\ e.from = d /\ Asks(1)
    BY <2>1, <2>3 DEF Asks
  <2> HIDE DEF e
  <2>6. Longer(Back, inbox, e, inbox')
    BY <2>4, InboxGains
  <2> QED
    BY <1>1, <2>3, <2>4, <2>5, <2>6 DEF Comes
<1>2. ASSUME NEW d \in Drones, NEW a \in Answers, DroneServe(d, a)
      PROVE  inbox' = inbox \/ \E e \in Back : Longer(Back, inbox, e, inbox') /\ Comes(e)
  <2> DEFINE m == Head(toDrone[d])
             e == [from |-> d, kind |-> "OK", req |-> m.req, k |-> 0]
  <2>1. m \in Out /\ m = toDrone[d][1] /\ 1 \in DOMAIN toDrone[d]
    BY <1>2, DroneServeEffect DEF Shorter
  <2>2. SUFFICES ASSUME inbox' # inbox PROVE \E f \in Back : Longer(Back, inbox, f, inbox') /\ Comes(f)
    OBVIOUS
  <2>3. m.type = "CONNECT" /\ Reply(d, "OK", m.req, 0)
    <3>1. Handles(d, a, m) \/ Ignores(d)
      BY <1>2, DroneServeEffect
    <3> QED
      BY <2>2, <3>1 DEF Handles, Ignores
  <2>4. e \in Back /\ inbox' = Append(inbox, e)
    BY <2>1, <2>3, OutFields, ReplyIs DEF Reply
  <2>5. e.kind = "OK" /\ toDrone[d][1].type = "CONNECT"
    BY <2>1, <2>3
  <2> HIDE DEF e
  <2>6. Longer(Back, inbox, e, inbox')
    BY <2>4, InboxGains
  <2> QED
    BY <1>2, <2>1, <2>4, <2>5, <2>6 DEF Comes
<1>3. ASSUME NEW d \in Drones, Bounce(d) PROVE \E e \in Back : Longer(Back, inbox, e, inbox') /\ Comes(e)
  <2>1. PICK e \in Back : Longer(Back, inbox, e, inbox') /\ e.kind = "BOUNCE" /\ e.from = d
    BY <1>3, BounceEffect
  <2> QED
    BY <1>0, <1>3, <2>1 DEF Comes
<1>4. ASSUME RouterRefuse PROVE \E e \in Back : Longer(Back, inbox, e, inbox') /\ Comes(e)
  <2>1. PICK e \in Back : Longer(Back, inbox, e, inbox') /\ e.kind = "BOUNCE" /\ e.from = Router
    BY <1>4, RefuseEffect
  <2> QED
    BY <1>4, <2>1 DEF Comes
<1>5. ASSUME NEW w \in work, Answer(w) PROVE \E e \in Back : Longer(Back, inbox, e, inbox') /\ Comes(e)
  <2>1. PICK e \in Back : Longer(Back, inbox, e, inbox') /\ e.kind \in AnswerKinds
          /\ e.from = w.drone /\ e.req = w.req
    BY <1>5, AnswerEffect
  <2> QED
    BY <1>5, <2>1 DEF Comes
<1>6. ASSUME NEW d \in Drones, Expire(d) PROVE \E e \in Back : Longer(Back, inbox, e, inbox') /\ Comes(e)
  <2> DEFINE e == [from |-> d, kind |-> "TIMEOUT", req |-> 0, k |-> 0]
  <2>1. e \in Back /\ inbox' = Append(inbox, e) /\ e.kind = "TIMEOUT"
    BY <1>6, ReplyIs DEF Expire, Reply
  <2> HIDE DEF e
  <2>2. Longer(Back, inbox, e, inbox')
    BY <2>1, InboxGains
  <2> QED
    BY <1>6, <2>1, <2>2 DEF Comes
<1>7. CASE /\ ~Process /\ ~RouterRefuse /\ ~\E w \in work : Answer(w)
           /\ ~\E d \in Drones : (\E a \in Answers : RouterServe(d, a) \/ DroneServe(d, a))
                \/ Bounce(d) \/ Expire(d)
  BY <1>7 DEF Step, CallRequest, CallConnect, CallDisconnect, CallRecv, Take, Finish, SendTop,
    RecvResult, RecvNull,
         ConnectReturns, Die, net
<1> QED
  BY <1>1, <1>2, <1>3, <1>4, <1>5, <1>6, <1>7

LEMMA WorkIs ==
    ASSUME TypeInv, WorkInv, Step, NEW w \in work'
    PROVE  \/ \E v \in work : v.drone = w.drone /\ v.req = w.req
           \/ \E a \in Answers : /\ RouterServe(w.drone, a) /\ toRouter # << >> /\ w.req = Head(toRouter).req
                                 /\ Head(toRouter).type = "REQUEST"
           \/ \E a \in Answers : /\ DroneServe(w.drone, a) /\ w.drone \in Drones /\ toDrone[w.drone] # << >>
                                 /\ w.req = Head(toDrone[w.drone]).req
                                 /\ Head(toDrone[w.drone]).type = "REQUEST" /\ w.drone \in bound
<1>1. SUFFICES ASSUME w \notin work
      PROVE  \/ \E v \in work : v.drone = w.drone /\ v.req = w.req
             \/ \E a \in Answers : /\ RouterServe(w.drone, a) /\ toRouter # << >>
                  /\ w.req = Head(toRouter).req
                                   /\ Head(toRouter).type = "REQUEST"
             \/ \E a \in Answers : /\ DroneServe(w.drone, a) /\ w.drone \in Drones /\ toDrone[w.drone] # << >>
                                   /\ w.req = Head(toDrone[w.drone]).req
                                   /\ Head(toDrone[w.drone]).type = "REQUEST" /\ w.drone \in bound
  OBVIOUS
<1>2. ASSUME NEW d, NEW a, NEW m, Handles(d, a, m) \/ Ignores(d)
      PROVE  m.type = "REQUEST" /\ w.drone = d /\ w.req = m.req
  <2>1. m.type = "REQUEST" /\ Begin(d, m.req, a)
    BY <1>1, <1>2 DEF Handles, Ignores
  <2> DEFINE v == [drone |-> d, req |-> m.req, todo |-> a]
  <2>2. w = v
    BY <1>1, <2>1 DEF Begin
  <2> QED
    BY <2>1, <2>2
<1>3. ASSUME NEW d \in Drones, NEW a \in Answers, RouterServe(d, a)
      PROVE  w.drone = d /\ toRouter # << >> /\ w.req = Head(toRouter).req /\ Head(toRouter).type = "REQUEST"
  <2> DEFINE m == Head(toRouter)
  <2>1. Handles(d, a, m) /\ toRouter # << >>
    BY <1>3, RouterServeEffect
  <2> HIDE DEF m
  <2>2. m.type = "REQUEST" /\ w.drone = d /\ w.req = m.req
    BY <1>2, <2>1
  <2> QED
    BY <2>1, <2>2 DEF m
<1>4. ASSUME NEW d \in Drones, NEW a \in Answers, DroneServe(d, a)
      PROVE  w.drone = d /\ toDrone[d] # << >> /\ w.req = Head(toDrone[d]).req
               /\ Head(toDrone[d]).type = "REQUEST"
             /\ d \in bound
  <2> DEFINE m == Head(toDrone[d])
  <2>1. (Handles(d, a, m) \/ Ignores(d)) /\ toDrone[d] # << >>
    BY <1>4, DroneServeEffect
  <2>2. d \in bound
    BY <1>1, <1>4 DEF DroneServe
  <2> HIDE DEF m
  <2>3. m.type = "REQUEST" /\ w.drone = d /\ w.req = m.req
    BY <1>2, <2>1
  <2> QED
    BY <2>1, <2>2, <2>3 DEF m
<1>5. ASSUME NEW x \in work, Answer(x) PROVE x.drone = w.drone /\ x.req = w.req
  <2> DEFINE v == [drone |-> x.drone, req |-> x.req, todo |-> Tail(x.todo)]
  <2>1. work' = work \ {x} \/ work' = (work \ {x}) \cup {v}
    BY <1>5, AnswerEffect
  <2>2. w = v
    BY <1>1, <2>1
  <2> QED
    BY <2>2
<1>6. CASE ~(\E x \in work : Answer(x)) /\ ~\E d \in Drones, a \in Answers : RouterServe(d, a)
             \/ DroneServe(d, a)
  BY <1>1, <1>6 DEF Step, CallRequest, CallConnect, CallDisconnect, CallRecv, Take, Finish, SendTop,
    Process, RecvResult, RecvNull,
         ConnectReturns, Bounce, Expire, Die, RouterRefuse, server
<1> QED
  BY <1>3, <1>4, <1>5, <1>6

-----------------------------------------------------------------------------
(* Connecting.                                                             *)

LEMMA RouterServeAlive == ASSUME NEW d \in Drones, NEW a, RouterServe(d, a) PROVE ~AllDead
  BY DEF RouterServe, Free, AllDead

LEMMA AllDeadStays == ASSUME TypeInv, Step PROVE AllDead => AllDead'
  BY CompleteStays DEF AllDead

\* An OK comes of a CONNECT the router was sent.
LEMMA OkComes ==
    ASSUME TypeInv, AskedByRouter, NEW e, Comes(e), e.kind = "OK"
    PROVE  /\ Asks(1) /\ e.from \in Drones /\ bound' = bound \cup {e.from}
           /\ \E d \in Drones, a \in Answers : RouterServe(d, a) /\ e.from = d
  BY DEF Comes, AskedByRouter, AnswerKinds

\* What the head of the inbox is, and what is left of it.
LEMMA ProcessShifts ==
    ASSUME TypeInv, Process
    PROVE  /\ 1 \in DOMAIN inbox /\ Head(inbox) = inbox[1]
           /\ \A i \in DOMAIN inbox' : i \in Nat /\ i # 0 /\ i + 1 \in DOMAIN inbox
                /\ inbox'[i] = inbox[i + 1] /\ i + 1 # 1
<1>1. Shorter(Back, inbox, inbox') /\ 1 \in DOMAIN inbox /\ Head(inbox) = inbox[1]
  BY ProcessEffect
<1>2. \A i \in DOMAIN inbox' : i \in Nat /\ i # 0 /\ i + 1 \in DOMAIN inbox
        /\ inbox'[i] = inbox[i + 1] /\ i + 1 # 1
  BY <1>1 DEF Shorter
<1> QED
  BY <1>1, <1>2

LEMMA NoResend ==
    ASSUME TypeInv, Fresh, AllComplete, Process
    PROVE  stack' = stack
<1>1. SUFFICES ASSUME stack' # stack PROVE FALSE
  OBVIOUS
<1>2. PICK e \in Out : e.req = Head(inbox).req /\ e.req \in Reqs /\ ~complete[e.req]
  BY <1>1, ProcessEffect
<1>3. Names(inbox, e.req)
  BY <1>2, ProcessEffect DEF Names
<1>4. ~(e.req > trace)
  BY <1>2, <1>3 DEF Fresh
<1>5. e.req \in 1 .. trace
  BY <1>2, <1>4 DEF TypeInv, SessionType, Reqs
<1> QED
  BY <1>2, <1>5 DEF AllComplete

LEMMA AskedTop ==
    ASSUME TypeInv, OwnSend, SendTop, Frame.type = "CONNECT"
    PROVE  op.name = "connect"
<1>1. Len(stack) \in DOMAIN stack /\ Frame = stack[Len(stack)]
  BY StackTop DEF SendTop, Frame
<1>2. Len(stack) = 1 /\ op.name \in {"connect", "disconnect"}
  BY <1>1 DEF OwnSend
<1>3. op.name = "disconnect" => stack[1].type = "DISCONNECT"
  BY DEF OwnSend
<1> QED
  BY <1>1, <1>2, <1>3

\* A send while the client connects is that of the CONNECT.
LEMMA ConnectSends ==
    ASSUME TypeInv, ConnectWaits, SendTop, op.name \in {"connect", "connecting"}
    PROVE  op.name = "connect" /\ Own /\ op'.name = "connecting" /\ state' = state
             /\ state # "CONNECTED" /\ inbox' = inbox
<1>1. stack # << >>
  BY DEF SendTop
<1>2. op.name = "connect" /\ Len(stack) = 1 /\ state # "CONNECTED"
  BY <1>1 DEF ConnectWaits
<1>3. Own
  BY <1>2 DEF Own
<1>4. op'.name = "connecting"
  BY <1>2, <1>3 DEF SendTop, TypeInv, OpType
<1> QED
  BY <1>2, <1>3, <1>4 DEF SendTop

LEMMA ConnectReturnsStays ==
    ASSUME Calm, ConnectReturns, ~AllDead, RouterLeft
    PROVE  state = "CONNECTED"
  BY DEF Calm, ConnectReturns, RouterLeft

LEMMA RouterLeftStep ==
    ASSUME TypeInv, WorkInv, RouterLeft, Step
    PROVE  RouterLeft'
<1>1. SUFFICES ASSUME terr' \/ \E i \in DOMAIN inbox' : RouterBounce(i)' PROVE AllDead'
  BY DEF RouterLeft, RouterBounce
<1>2. SUFFICES ASSUME ~AllDead PROVE FALSE
  BY AllDeadStays
<1>3. ~terr /\ \A i \in DOMAIN inbox : ~RouterBounce(i)
  BY <1>2 DEF RouterLeft
<1>4. CASE terr'
  <2>1. Process /\ Unreachable(Head(inbox))
    BY <1>3, <1>4, TerrStep
  <2>2. RouterBounce(1)
    BY <2>1, ProcessShifts DEF Unreachable, RouterBounce
  <2> QED
    BY <1>3, <2>1, <2>2, ProcessShifts
<1>5. ASSUME NEW i \in DOMAIN inbox', RouterBounce(i)' PROVE FALSE
  <2>1. inbox'[i].kind = "BOUNCE" /\ inbox'[i].from = Router
    BY <1>5 DEF RouterBounce
  <2>2. CASE inbox' = inbox
    BY <1>3, <1>5, <2>1, <2>2 DEF RouterBounce
  <2>3. CASE Process
    BY <1>3, <1>5, <2>1, <2>3, ProcessShifts DEF RouterBounce
  <2>4. CASE ~Process /\ inbox' # inbox
    <3>1. PICK e \in Back : Longer(Back, inbox, e, inbox') /\ Comes(e)
      BY <2>4, InboxStep
    <3>2. inbox'[i] = e
      BY <1>3, <1>5, <2>1, <3>1 DEF Longer, RouterBounce
    <3>3. RouterRefuse
      BY <2>1, <3>1, <3>2 DEF Comes, AnswerKinds
    <3> QED
      BY <1>2, <3>3 DEF RouterRefuse, AllDead
  <2> QED
    BY <2>2, <2>3, <2>4
<1> QED
  BY <1>1, <1>4, <1>5

LEMMA AskedByRouterStep ==
    ASSUME TypeInv, OwnSend, ConnectWaits, AskedByRouter, Step
    PROVE  AskedByRouter'
<1>1. SUFFICES ASSUME NEW d \in Drones, NEW i \in DOMAIN toDrone'[d], toDrone'[d][i].type =
                 "CONNECT" PROVE FALSE
  BY DEF AskedByRouter
<1>2. \A j \in DOMAIN toDrone[d] : toDrone[d][j].type # "CONNECT"
  BY DEF AskedByRouter
<1>3. CASE SendTop /\ state = "CONNECTED" /\ Longer(Out, toDrone[d], Frame, toDrone'[d])
  <2>1. Frame.type # "CONNECT"
    BY <1>3, AskedTop DEF ConnectWaits
  <2> QED
    BY <1>1, <1>2, <1>3, <2>1 DEF Longer
<1>4. CASE toDrone'[d] = toDrone[d] \/ Shorter(Out, toDrone[d], toDrone'[d])
           \/ \E n \in Nat : Dropped(Out, toDrone[d], n, toDrone'[d])
  BY <1>1, <1>2, <1>4 DEF Shorter, Dropped
<1> QED
  BY <1>3, <1>4, DroneStep

\* Nothing else happens to a session that waits for an OK which has come.
LEMMA OkWaits ==
    ASSUME TypeInv, Calm, ConnectWaits, RouterLeft, Step, NEW i \in DOMAIN inbox, op.name =
             "connecting", state # "CONNECTED",
           toRouter = << >>, ~terr
    PROVE  op' = op /\ toRouter' = toRouter /\ ~SendTop /\ (state' # "CONNECTED" \/ Process)
             /\ (terr' = terr \/ Process)
<1>1. ~SendTop
  BY DEF SendTop, ConnectWaits
<1>2. op' = op
  BY <1>1, OpStep DEF ConnectReturns, Calm
<1>3. toRouter' = toRouter
  BY <1>1, RouterStep
<1>4. state' # "CONNECTED" \/ Process
  BY StateStep
<1> QED
  BY <1>1, <1>2, <1>3, <1>4, TerrStep

LEMMA OkAwaitedStep ==
    ASSUME TypeInv, WorkInv, Calm, Connecting, Step
    PROVE  OkAwaited'
<1>0. ConnectWaits /\ OkAwaited /\ AskedOnce /\ RouterLeft /\ AskedByRouter /\ ConnectedQuiet
  BY DEF Connecting
<1>1. SUFFICES ASSUME NEW i \in DOMAIN inbox', inbox'[i].kind = "OK"
      PROVE  /\ op'.name = "connecting" /\ state' # "CONNECTED" /\ toRouter' = << >> /\ ~terr'
             /\ \A j \in DOMAIN inbox' : /\ ~(inbox'[j].kind = "BOUNCE" /\ inbox'[j].from = Router)
                                         /\ inbox'[j].kind = "OK" => i = j
  BY DEF OkAwaited, Ok, RouterBounce
<1>2. ASSUME NEW j \in DOMAIN inbox, inbox[j].kind = "OK"
      PROVE  /\ op.name = "connecting" /\ state # "CONNECTED" /\ toRouter = << >> /\ ~terr
             /\ op' = op /\ toRouter' = toRouter /\ (state' # "CONNECTED" \/ Process)
                  /\ (terr' = terr \/ Process)
             /\ \A l \in DOMAIN inbox : /\ ~(inbox[l].kind = "BOUNCE" /\ inbox[l].from = Router)
                                        /\ inbox[l].kind = "OK" => j = l
  <2>1. /\ op.name = "connecting" /\ state # "CONNECTED" /\ toRouter = << >> /\ ~terr
        /\ \A l \in DOMAIN inbox : ~RouterBounce(l) /\ (Ok(l) => j = l)
    BY <1>0, <1>2 DEF OkAwaited, Ok
  <2>2. op' = op /\ toRouter' = toRouter /\ (state' # "CONNECTED" \/ Process) /\ (terr' = terr \/ Process)
    BY <1>0, <2>1, OkWaits
  <2> QED
    BY <2>1, <2>2 DEF Ok, RouterBounce
<1>3. CASE inbox' = inbox /\ ~Process
  BY <1>1, <1>2, <1>3
<1>4. CASE Process
  <2>1. i + 1 \in DOMAIN inbox /\ inbox[i + 1].kind = "OK" /\ i + 1 # 1
    BY <1>1, <1>4, ProcessShifts
  <2>2. inbox[1].kind # "OK" /\ ~(inbox[1].kind = "BOUNCE" /\ inbox[1].from = Router)
    BY <1>2, <1>4, <2>1, ProcessShifts
  <2>3. state' # "CONNECTED"
    BY <1>2, <1>4, <2>1, <2>2, StateStep, ProcessShifts DEF Connected
  <2>4. ~terr'
    BY <1>2, <1>4, <2>1, <2>2, TerrStep, ProcessShifts DEF Unreachable
  <2>5. \A j \in DOMAIN inbox' : /\ ~(inbox'[j].kind = "BOUNCE" /\ inbox'[j].from = Router)
                                 /\ inbox'[j].kind = "OK" => i = j
    <3>1. SUFFICES ASSUME NEW j \in DOMAIN inbox'
          PROVE  /\ ~(inbox'[j].kind = "BOUNCE" /\ inbox'[j].from = Router)
                 /\ inbox'[j].kind = "OK" => i = j
      OBVIOUS
    <3>2. j + 1 \in DOMAIN inbox /\ inbox'[j] = inbox[j + 1] /\ j \in Nat /\ i \in Nat
      BY <1>1, <1>4, <3>1, ProcessShifts
    <3>3. inbox[j + 1].kind = "OK" => i + 1 = j + 1
      BY <1>2, <2>1, <3>2
    <3> QED
      BY <1>2, <2>1, <3>2, <3>3
  <2> QED
    BY <1>2, <2>1, <2>3, <2>4, <2>5
<1>5. CASE ~Process /\ \E e \in Back : Longer(Back, inbox, e, inbox') /\ Comes(e)
  <2>1. PICK e \in Back : Longer(Back, inbox, e, inbox') /\ Comes(e)
    BY <1>5
  <2>2. CASE e.kind = "OK"
    <3>1. PICK d \in Drones, a \in Answers : RouterServe(d, a) /\ Asks(1)
      BY <1>0, <2>1, <2>2, OkComes
    <3>2. ~AllDead
      BY <3>1, RouterServeAlive
    <3>3. op.name = "connecting" /\ state # "CONNECTED" /\ 1 = Len(toRouter) /\ \A j \in DOMAIN inbox : ~Ok(j)
      BY <1>0, <3>1, <3>2 DEF AskedOnce, Asks
    <3>4. ~terr /\ \A j \in DOMAIN inbox : ~RouterBounce(j)
      BY <1>0, <3>2 DEF RouterLeft
    <3>5. op' = op /\ state' = state /\ terr' = terr
      BY <3>1 DEF RouterServe, calls, session
    <3>6. toRouter' = << >>
      <4>1. toRouter' \in Seq(Out) /\ Len(toRouter') = 0
        BY <3>1, <3>3, RouterServeEffect DEF Shorter
      <4> QED
        BY <4>1
    <3>7. \A j \in DOMAIN inbox' : /\ ~(inbox'[j].kind = "BOUNCE" /\ inbox'[j].from = Router)
                                   /\ inbox'[j].kind = "OK" => i = j
      <4>1. \A j \in DOMAIN inbox' : j # Len(inbox') => /\ inbox'[j].kind # "OK"
                                                        /\ ~(inbox'[j].kind = "BOUNCE"
                                                             /\ inbox'[j].from = Router)
        BY <2>1, <3>3, <3>4 DEF Longer, Ok, RouterBounce
      <4>2. inbox'[Len(inbox')].kind = "OK"
        BY <2>1, <2>2 DEF Longer
      <4> QED
        BY <1>1, <4>1, <4>2
    <3> QED
      BY <3>3, <3>4, <3>5, <3>6, <3>7
  <2>3. CASE e.kind # "OK"
    <3>1. i \in DOMAIN inbox /\ inbox[i].kind = "OK"
      BY <1>1, <2>1, <2>3 DEF Longer
    <3>2. ~(e.kind = "BOUNCE" /\ e.from = Router)
      <4>1. ~RouterRefuse
        BY <1>2, <3>1 DEF RouterRefuse
      <4> QED
        BY <2>1, <4>1 DEF Comes, AnswerKinds
    <3>3. \A j \in DOMAIN inbox' : /\ ~(inbox'[j].kind = "BOUNCE" /\ inbox'[j].from = Router)
                                   /\ inbox'[j].kind = "OK" => i = j
      BY <1>2, <2>1, <2>3, <3>1, <3>2 DEF Longer
    <3> QED
      BY <1>2, <1>5, <3>1, <3>3
  <2> QED
    BY <2>2, <2>3
<1> QED
  BY <1>3, <1>4, <1>5, InboxStep

LEMMA AskedOnceStep ==
    ASSUME TypeInv, WorkInv, OwnSend, Calm, Connecting, Step
    PROVE  AskedOnce'
<1>0. ConnectWaits /\ OkAwaited /\ AskedOnce /\ RouterLeft /\ AskedByRouter /\ ConnectedQuiet
  BY DEF Connecting
<1>1. SUFFICES ASSUME NEW i \in DOMAIN toRouter', toRouter'[i].type = "CONNECT", ~AllDead
      PROVE  /\ op'.name = "connecting" /\ state' # "CONNECTED" /\ i = Len(toRouter')
             /\ \A j \in DOMAIN inbox' : inbox'[j].kind # "OK"
  BY AllDeadStays DEF AskedOnce, Asks, Ok
<1>2. ASSUME NEW j \in DOMAIN toRouter, toRouter[j].type = "CONNECT"
      PROVE  /\ op.name = "connecting" /\ state # "CONNECTED" /\ j = Len(toRouter)
             /\ \A l \in DOMAIN inbox : inbox[l].kind # "OK"
  BY <1>0, <1>1, <1>2 DEF AskedOnce, Asks, Ok
\* New is an OK only if the router's first message was a CONNECT.
<1>3. ASSUME \A l \in DOMAIN inbox : inbox[l].kind # "OK", NEW j \in DOMAIN inbox', inbox'[j].kind = "OK"
      PROVE  Asks(1) /\ \E d \in Drones, a \in Answers : RouterServe(d, a)
  <2>1. ~Process
    BY <1>3, ProcessShifts
  <2>2. PICK e \in Back : Longer(Back, inbox, e, inbox') /\ Comes(e)
    BY <1>3, <2>1, InboxStep
  <2>3. e.kind = "OK"
    BY <1>3, <2>2 DEF Longer
  <2> QED
    BY <1>0, <2>2, <2>3, OkComes
<1>4. CASE toRouter' = toRouter
  <2>1. op.name = "connecting" /\ state # "CONNECTED" /\ i = Len(toRouter)
          /\ \A l \in DOMAIN inbox : inbox[l].kind # "OK"
    BY <1>1, <1>2, <1>4
  <2>2. ~SendTop
    BY <1>0, <2>1 DEF SendTop, ConnectWaits
  <2>3. op' = op
    BY <1>0, <1>1, <2>1, <2>2, OpStep, ConnectReturnsStays
  <2>4. state' # "CONNECTED"
    BY <2>1, <2>2, StateStep, ProcessShifts DEF Connected
  <2>5. \A l \in DOMAIN inbox' : inbox'[l].kind # "OK"
    <3>1. ASSUME NEW d \in Drones, NEW a \in Answers, RouterServe(d, a) PROVE FALSE
      <4>1. Len(toRouter') = Len(toRouter) - 1 /\ Len(toRouter) \in Nat
        BY <3>1, RouterServeEffect DEF Shorter
      <4> QED
        BY <1>4, <4>1
    <3> QED
      BY <1>3, <2>1, <3>1
  <2> QED
    BY <1>4, <2>1, <2>3, <2>4, <2>5
<1>5. CASE SendTop /\ Longer(Out, toRouter, Frame, toRouter')
  <2>1. CASE i = Len(toRouter')
    <3>1. Frame.type = "CONNECT"
      BY <1>1, <1>5, <2>1 DEF Longer
    <3>2. op.name = "connect"
      BY <1>5, <3>1, AskedTop
    <3>3. op'.name = "connecting" /\ state' # "CONNECTED" /\ inbox' = inbox
      BY <1>0, <1>5, <3>2, ConnectSends
    <3>4. \A l \in DOMAIN inbox : inbox[l].kind # "OK"
      BY <1>0, <3>2 DEF ConnectWaits, Ok
    <3> QED
      BY <2>1, <3>3, <3>4
  <2>2. CASE i # Len(toRouter')
    <3>1. i \in DOMAIN toRouter /\ toRouter[i].type = "CONNECT"
      BY <1>1, <1>5, <2>2 DEF Longer
    <3>2. op.name = "connecting"
      BY <1>2, <3>1
    <3> QED
      BY <1>0, <1>5, <3>2 DEF SendTop, ConnectWaits
  <2> QED
    BY <2>1, <2>2
<1>6. CASE Shorter(Out, toRouter, toRouter') /\ \E d \in Drones, a \in Answers : RouterServe(d, a)
  <2>1. PICK d \in Drones, a \in Answers : RouterServe(d, a)
    BY <1>6
  <2>2. i + 1 \in DOMAIN toRouter /\ toRouter[i + 1].type = "CONNECT" /\ i \in Nat /\ i # 0
          /\ Len(toRouter') = Len(toRouter) - 1
        /\ Len(toRouter) \in Nat
    BY <1>1, <1>6 DEF Shorter
  <2>3. /\ op.name = "connecting" /\ state # "CONNECTED" /\ i + 1 = Len(toRouter)
        /\ \A l \in DOMAIN inbox : inbox[l].kind # "OK"
    BY <1>2, <2>2
  <2>4. op' = op /\ state' = state
    BY <2>1 DEF RouterServe, calls, session
  <2>5. \A l \in DOMAIN inbox' : inbox'[l].kind # "OK"
    <3>1. SUFFICES ASSUME NEW l \in DOMAIN inbox', inbox'[l].kind = "OK" PROVE FALSE
      OBVIOUS
    <3>2. 1 \in DOMAIN toRouter /\ toRouter[1].type = "CONNECT"
      BY <1>3, <2>3, <3>1 DEF Asks
    <3>3. 1 = Len(toRouter)
      BY <1>2, <3>2
    <3>4. i + 1 = Len(toRouter) /\ i \in Nat /\ i # 0
      BY <2>2, <2>3
    <3> QED
      BY <3>3, <3>4
  <2>6. i = Len(toRouter')
    BY <2>2, <2>3
  <2> QED
    BY <2>3, <2>4, <2>5, <2>6
<1>7. CASE RouterRefuse
  BY <1>1, <1>7 DEF RouterRefuse, AllDead
<1> QED
  BY <1>4, <1>5, <1>6, <1>7, RouterStep

LEMMA ConnectedQuietStep ==
    ASSUME TypeInv, WorkInv, Connecting, AtPeer, Step
    PROVE  ConnectedQuiet'
<1>0. ConnectWaits /\ OkAwaited /\ AskedOnce /\ RouterLeft /\ AskedByRouter /\ ConnectedQuiet
  BY DEF Connecting
<1>1. SUFFICES ASSUME state' = "CONNECTED"
      PROVE  /\ toRouter' = << >> /\ ~terr'
             /\ \A i \in DOMAIN inbox' : inbox'[i].kind # "OK"
                  /\ ~(inbox'[i].kind = "BOUNCE" /\ inbox'[i].from = Router)
  BY DEF ConnectedQuiet, Ok, RouterBounce
<1>2. CASE state = "CONNECTED"
  <2>1. toRouter = << >> /\ ~terr
    BY <1>0, <1>2 DEF ConnectedQuiet
  <2>2. \A i \in DOMAIN inbox : inbox[i].kind # "OK" /\ ~(inbox[i].kind = "BOUNCE" /\ inbox[i].from = Router)
    BY <1>0, <1>2 DEF ConnectedQuiet, Ok, RouterBounce
  <2>3. remote # Router
    BY <1>2, ConstantsOK DEF AtPeer
  <2>4. toRouter' = toRouter
    BY <1>2, <2>1, <2>3, RouterStep
  <2>5. terr' = terr
    BY <2>2, TerrStep, ProcessShifts DEF Unreachable
  <2>6. ASSUME NEW i \in DOMAIN inbox'
        PROVE  inbox'[i].kind # "OK" /\ ~(inbox'[i].kind = "BOUNCE" /\ inbox'[i].from = Router)
    <3>1. CASE inbox' = inbox
      BY <2>2, <3>1
    <3>2. CASE Process
      BY <2>2, <3>2, ProcessShifts
    <3>3. CASE inbox' # inbox /\ ~Process
      <4>1. PICK e \in Back : Longer(Back, inbox, e, inbox') /\ Comes(e)
        BY <3>3, InboxStep
      <4>2. e.kind # "OK"
        <5>1. ~Asks(1)
          BY <2>1 DEF Asks
        <5> QED
          BY <1>0, <4>1, <5>1, OkComes
      <4>3. ~(e.kind = "BOUNCE" /\ e.from = Router)
        BY <2>1, <4>1 DEF Comes, AnswerKinds, RouterRefuse
      <4> QED
        BY <2>2, <4>1, <4>2, <4>3 DEF Longer
    <3> QED
      BY <3>1, <3>2, <3>3
  <2> QED
    BY <2>1, <2>4, <2>5, <2>6
<1>3. CASE state # "CONNECTED"
  <2>1. Process /\ Connected(Head(inbox))
    BY <1>1, <1>3, StateStep
  <2>2. Ok(1) /\ 1 \in DOMAIN inbox
    BY <2>1, OkHead, ProcessShifts
  <2>3. toRouter = << >> /\ ~terr /\ \A j \in DOMAIN inbox : ~RouterBounce(j) /\ (Ok(j) => 1 = j)
    BY <1>0, <2>2 DEF OkAwaited
  <2>4. toRouter' = toRouter /\ terr' = terr
    BY <2>1 DEF Process, Connected
  <2>5. ASSUME NEW i \in DOMAIN inbox'
        PROVE  inbox'[i].kind # "OK" /\ ~(inbox'[i].kind = "BOUNCE" /\ inbox'[i].from = Router)
    <3>1. i + 1 \in DOMAIN inbox /\ inbox'[i] = inbox[i + 1] /\ i + 1 # 1
      BY <2>1, ProcessShifts
    <3> QED
      BY <2>3, <3>1 DEF Ok, RouterBounce
  <2> QED
    BY <2>3, <2>4, <2>5
<1> QED
  BY <1>2, <1>3

LEMMA ConnectWaitsStep ==
    ASSUME TypeInv, TypeInv', WorkInv, OwnSend, Calm, Fresh, Connecting, Step
    PROVE  ConnectWaits'
<1>0. ConnectWaits /\ OkAwaited /\ AskedOnce /\ RouterLeft /\ AskedByRouter /\ ConnectedQuiet
  BY DEF Connecting
<1>1. ASSUME op'.name \in {"connect", "connecting"} PROVE AllComplete'
  <2>1. CASE CallConnect
    <3>1. AllComplete /\ complete' = complete /\ trace' = trace
      BY <2>1 DEF CallConnect, Calm, AllComplete, requests
    <3> QED
      BY <3>1 DEF AllComplete
  <2>2. CASE ~CallConnect
    <3>1. op.name \in {"connect", "connecting"} /\ ~CallRequest
      <4>1. CASE op' = op
        BY <1>1, <4>1 DEF CallRequest, Idle
      <4>2. CASE SendTop /\ Own
        <5>1. op.name = "connect"
          BY <1>1, <4>2 DEF SendTop, Own
        <5> QED
          BY <5>1 DEF CallRequest, Idle
      <4> QED
        BY <1>1, <2>2, <4>1, <4>2, OpStep
    <3>2. trace' = trace /\ AllComplete
      BY <1>0, <3>1, TraceStep DEF ConnectWaits
    <3>3. 1 .. trace \subseteq Reqs
      BY ConstantsOK DEF TypeInv, SessionType, Reqs
    <3> QED
      BY <3>2, <3>3, CompleteStays DEF AllComplete
  <2> QED
    BY <2>1, <2>2
<1>2. ASSUME op'.name = "connect"
      PROVE  /\ state' # "CONNECTED" /\ Len(stack') = 1 /\ \A i \in DOMAIN inbox' : inbox'[i].kind # "OK"
             /\ AllDead' \/ \A i \in DOMAIN toRouter' : toRouter'[i].type # "CONNECT"
  <2>1. CASE CallConnect
    <3>1. op.name = "none" /\ state' # "CONNECTED" /\ UNCHANGED <<inbox, toRouter, dead>>
      BY <2>1 DEF CallConnect, Idle, net, server
    <3>2. stack' = <<[type |-> "CONNECT", req |-> trace]>>
      BY <2>1, <3>1 DEF CallConnect, Sending, OwnSend
    <3>3. \A i \in DOMAIN inbox : inbox[i].kind # "OK"
      BY <1>0, <3>1 DEF OkAwaited, Ok
    <3>4. AllDead \/ \A i \in DOMAIN toRouter : toRouter[i].type # "CONNECT"
      BY <1>0, <3>1 DEF AskedOnce, Asks
    <3> QED
      BY <3>1, <3>2, <3>3, <3>4 DEF AllDead
  <2>2. CASE ~CallConnect
    <3>1. op' = op
      <4>1. SendTop /\ Own => op'.name # "connect"
        BY DEF SendTop, Own, TypeInv, OpType
      <4> QED
        BY <1>2, <2>2, <4>1, OpStep
    <3>2. /\ state # "CONNECTED" /\ Len(stack) = 1 /\ AllComplete
          /\ \A i \in DOMAIN inbox : inbox[i].kind # "OK"
          /\ AllDead \/ \A i \in DOMAIN toRouter : toRouter[i].type # "CONNECT"
      BY <1>0, <1>2, <3>1 DEF ConnectWaits, Ok, Asks
    <3>3. ~SendTop
      BY <1>0, <1>2, <3>1, ConnectSends
    <3>4. state' # "CONNECTED"
      BY <3>2, StateStep, ProcessShifts DEF Connected
    <3>5. stack' = stack
      BY <1>2, <3>1, <3>2, <3>3, StackStep, NoResend
    <3>6. AllDead' \/ \A i \in DOMAIN toRouter' : toRouter'[i].type # "CONNECT"
      <4>1. CASE AllDead
        BY <4>1, AllDeadStays
      <4>2. CASE \A i \in DOMAIN toRouter : toRouter[i].type # "CONNECT"
        BY <3>3, <4>2, RouterStep DEF Shorter
      <4> QED
        BY <3>2, <4>1, <4>2
    <3>7. ASSUME NEW i \in DOMAIN inbox', inbox'[i].kind = "OK" PROVE FALSE
      <4>1. ~Process
        BY <3>2, <3>7, ProcessShifts
      <4>2. PICK e \in Back : Longer(Back, inbox, e, inbox') /\ Comes(e)
        BY <3>2, <3>7, <4>1, InboxStep
      <4>3. e.kind = "OK"
        BY <3>2, <3>7, <4>2 DEF Longer
      <4>4. PICK d \in Drones, a \in Answers : RouterServe(d, a) /\ Asks(1)
        BY <1>0, <4>2, <4>3, OkComes
      <4>5. ~AllDead
        BY <4>4, RouterServeAlive
      <4> QED
        BY <3>2, <4>4, <4>5 DEF Asks
    <3> QED
      BY <3>2, <3>4, <3>5, <3>6, <3>7
  <2> QED
    BY <2>1, <2>2
<1>3. ASSUME op'.name = "connecting" PROVE stack' = << >>
  <2>1. CASE op' = op
    <3>1. stack = << >> /\ AllComplete
      BY <1>0, <1>3, <2>1 DEF ConnectWaits
    <3>2. ~SendTop
      BY <3>1 DEF SendTop
    <3> QED
      BY <1>3, <2>1, <3>1, <3>2, StackStep, NoResend
  <2>2. CASE SendTop /\ Own
    <3>1. Len(stack) = 1 /\ Front(Out, stack, stack')
      BY <2>2, SendTopFront DEF Own
    <3>2. stack' \in Seq(Out) /\ Len(stack') = 0
      BY <3>1 DEF Front
    <3> QED
      BY <3>2
  <2> QED
    BY <1>3, <2>1, <2>2, OpStep
<1> QED
  BY <1>1, <1>2, <1>3 DEF ConnectWaits, Ok, Asks

\* No request at all is on its way when all are complete.
LEMMA AllGone ==
    ASSUME TypeInv, AllComplete, Placed, Fresh, NEW r \in Reqs
    PROVE  /\ \A d \in Drones : ~In(toDrone[d], r)
           /\ ~Worked(r)
           /\ \A i \in DOMAIN inbox : inbox[i].req = r => inbox[i].kind \notin AnswerKinds
<1>1. CASE r > trace
  BY <1>1, InNames DEF Fresh, Droned, Names
<1>2. CASE ~(r > trace)
  <2>1. complete[r]
    BY <1>2 DEF AllComplete, TypeInv, SessionType, Reqs
  <2> QED
    BY <2>1 DEF Placed, Settled
<1> QED
  BY <1>1, <1>2

LEMMA RemoteStep ==
    ASSUME TypeInv, Step, remote' # remote
    PROVE  \/ CallConnect
           \/ SendTop /\ state' = "DISCONNECTED"
           \/ SendTop /\ state # "CONNECTED"
           \/ Process /\ \/ Head(inbox).kind \in AnswerKinds /\ remote' = Head(inbox).from
                         \/ Connected(Head(inbox)) \/ Over(Head(inbox)) \/ Unreachable(Head(inbox))
<1>1. CASE SendTop
  BY <1>1 DEF SendTop
<1>2. CASE Process
  BY <1>2 DEF Process, ForRequest, AnswerKinds
<1>3. CASE ~CallConnect /\ ~SendTop /\ ~Process
  BY <1>3 DEF Step, CallRequest, CallDisconnect, CallRecv, Take, Finish, RecvResult, RecvNull,
              ConnectReturns, RouterServe, DroneServe, Bounce, Expire, Die, RouterRefuse, Answer, session
<1> QED
  BY <1>1, <1>2, <1>3

LEMMA AtPeerStep ==
    ASSUME TypeInv, TypeInv', WorkInv, CalmInv, Step
    PROVE  AtPeer'
<1>0. Connecting /\ ConnectWaits /\ OkAwaited /\ ConnectedQuiet /\ Placed /\ Fresh /\ AtPeer
  BY DEF CalmInv, Connecting
<1>1. SUFFICES ASSUME state' = "CONNECTED"
      PROVE  /\ remote' = peer' /\ peer' \in Drones
             /\ \A d \in Drones \ {peer'} : \A i \in DOMAIN toDrone'[d] : toDrone'[d][i].type # "REQUEST"
             /\ \A w \in work' : w.drone = peer'
             /\ \A i \in DOMAIN inbox' : inbox'[i].kind \in AnswerKinds => inbox'[i].from = peer'
  BY DEF AtPeer
<1>2. CASE state = "CONNECTED"
  <2>1. /\ remote = peer /\ peer \in Drones
        /\ \A d \in Drones \ {peer} : \A i \in DOMAIN toDrone[d] : toDrone[d][i].type # "REQUEST"
        /\ \A w \in work : w.drone = peer
        /\ \A i \in DOMAIN inbox : inbox[i].kind \in AnswerKinds => inbox[i].from = peer
    BY <1>0, <1>2 DEF AtPeer
  <2>2. toRouter = << >> /\ \A i \in DOMAIN inbox : inbox[i].kind # "OK"
          /\ ~(inbox[i].kind = "BOUNCE" /\ inbox[i].from = Router)
    BY <1>0, <1>2 DEF ConnectedQuiet, Ok, RouterBounce
  <2>3. peer' = peer
    BY <2>2, PeerStep, ProcessShifts DEF Connected
  <2>4. remote' = peer
    <3>1. CASE remote' = remote
      BY <2>1, <3>1
    <3>2. CASE remote' # remote
      <4>1. ~CallConnect /\ ~(SendTop /\ state' = "DISCONNECTED") /\ ~(SendTop /\ state # "CONNECTED")
        BY <1>1, <1>2 DEF CallConnect
      <4>2. ~(Process /\ (Connected(Head(inbox)) \/ Unreachable(Head(inbox))))
        BY <2>2, ProcessShifts DEF Connected, Unreachable
      <4>3. ~(Process /\ Over(Head(inbox)))
        BY <1>1 DEF Over
      <4>4. Process /\ Head(inbox).kind \in AnswerKinds /\ remote' = Head(inbox).from
        BY <3>2, <4>1, <4>2, <4>3, RemoteStep
      <4> QED
        BY <2>1, <4>4, ProcessShifts
    <3> QED
      BY <3>1, <3>2
  <2>5. ASSUME NEW d \in Drones, d # peer, NEW i \in DOMAIN toDrone'[d]
        PROVE  toDrone'[d][i].type # "REQUEST"
    <3>1. \A j \in DOMAIN toDrone[d] : toDrone[d][j].type # "REQUEST"
      BY <2>1, <2>5
    <3>2. CASE \/ toDrone'[d] = toDrone[d] \/ Shorter(Out, toDrone[d], toDrone'[d])
               \/ \E n \in Nat : Dropped(Out, toDrone[d], n, toDrone'[d])
      BY <2>5, <3>1, <3>2 DEF Shorter, Dropped
    <3> QED
      BY <2>1, <2>5, <3>2, DroneStep
  <2>6. ASSUME NEW w \in work' PROVE w.drone = peer
    <3>1. CASE \E v \in work : v.drone = w.drone
      BY <2>1, <3>1
    <3>2. CASE /\ w.drone \in Drones /\ toDrone[w.drone] # << >> /\ Head(toDrone[w.drone]).type = "REQUEST"
      <4>1. 1 \in DOMAIN toDrone[w.drone] /\ Head(toDrone[w.drone]) = toDrone[w.drone][1]
        <5>1. toDrone[w.drone] \in Seq(Out)
          BY <3>2 DEF TypeInv, NetType
        <5> QED
          BY <3>2, <5>1
      <4> QED
        BY <2>1, <3>2, <4>1
    <3> QED
      BY <2>2, <3>1, <3>2, WorkIs
  <2>7. ASSUME NEW i \in DOMAIN inbox', inbox'[i].kind \in AnswerKinds PROVE inbox'[i].from = peer
    <3>1. CASE inbox' = inbox
      BY <2>1, <2>7, <3>1
    <3>2. CASE Process
      BY <2>1, <2>7, <3>2, ProcessShifts
    <3>3. CASE inbox' # inbox /\ ~Process
      <4>1. PICK e \in Back : Longer(Back, inbox, e, inbox') /\ Comes(e)
        BY <3>3, InboxStep
      <4>2. e.kind \in AnswerKinds => e.from = peer
        BY <2>1, <4>1 DEF Comes, AnswerKinds
      <4> QED
        BY <2>1, <2>7, <4>1, <4>2 DEF Longer
    <3> QED
      BY <3>1, <3>2, <3>3
  <2> QED
    BY <2>1, <2>3, <2>4, <2>5, <2>6, <2>7
<1>3. CASE state # "CONNECTED"
  <2>1. Process /\ Connected(Head(inbox))
    BY <1>1, <1>3, StateStep
  <2>2. AllComplete
    BY <1>0, <2>1, OkHead DEF OkAwaited, ConnectWaits, Ok
  <2>3. remote' = peer' /\ peer' \in Drones
    BY <2>1, ProcessEffect, BackFields DEF Connected
  <2>4. UNCHANGED <<toDrone, work>>
    BY <2>1 DEF Process, server
  <2>5. \A r \in Reqs : /\ \A d \in Drones : ~In(toDrone[d], r)
                        /\ ~Worked(r)
                        /\ \A i \in DOMAIN inbox : inbox[i].req = r => inbox[i].kind \notin AnswerKinds
    BY <1>0, <2>2, AllGone
  <2>6. ASSUME NEW d \in Drones, NEW i \in DOMAIN toDrone[d], toDrone[d][i].type = "REQUEST" PROVE FALSE
    <3>1. toDrone[d][i] \in Out
      BY <2>6 DEF TypeInv, NetType
    <3>2. toDrone[d][i].req \in Reqs
      BY <2>6, <3>1, OutFields
    <3> QED
      BY <2>5, <2>6, <3>2 DEF In
  <2>7. work = {}
    BY <2>5 DEF Worked, TypeInv, ServerType, Work
  <2>8. ASSUME NEW i \in DOMAIN inbox', inbox'[i].kind \in AnswerKinds PROVE FALSE
    <3>1. i + 1 \in DOMAIN inbox /\ inbox'[i] = inbox[i + 1]
      BY <2>1, ProcessShifts
    <3>2. inbox[i + 1] \in Back
      BY <3>1 DEF TypeInv, InboxType
    <3>3. inbox[i + 1].req \in Reqs
      BY <2>8, <3>1, <3>2, BackFields
    <3> QED
      BY <2>5, <2>8, <3>1, <3>3
  <2> QED
    BY <2>3, <2>4, <2>6, <2>7, <2>8
<1> QED
  BY <1>2, <1>3

-----------------------------------------------------------------------------
(* As long as no worker gives it up, the session is held by its peer.      *)

\* Who takes the session from a worker.
LEMMA BoundStep ==
    ASSUME TypeInv, Patient, Step, NEW d \in Drones, d \in bound, d \notin bound', d \notin dead'
    PROVE  /\ toDrone[d] # << >> /\ Shorter(Out, toDrone[d], toDrone'[d])
           /\ toDrone[d][1].type = "DISCONNECT"
<1>1. ASSUME NEW e \in Drones, NEW a \in Answers, DroneServe(e, a) PROVE e = d
               /\ Head(toDrone[e]).type = "DISCONNECT"
  <2> DEFINE m == Head(toDrone[e])
  <2>1. m \in Out
    BY <1>1, DroneServeEffect
  <2>2. m.type \in {"REQUEST", "CONNECT", "DISCONNECT"}
    BY <2>1, OutFields
  <2>3. IF e \notin bound
        THEN UNCHANGED <<inbox, bound, work, starts>>
        ELSE CASE m.type = "REQUEST"    -> Begin(e, m.req, a) /\ UNCHANGED <<inbox, bound>>
               [] m.type = "CONNECT"    -> Reply(e, "OK", m.req, 0)
                                           /\ UNCHANGED <<bound, work, starts>>
               [] m.type = "DISCONNECT" -> bound' = bound \ {e}
                                           /\ UNCHANGED <<inbox, work, starts>>
    BY <1>1 DEF DroneServe
  <2> HIDE DEF m
  <2>4. bound' # bound
    OBVIOUS
  <2>5. m.type = "DISCONNECT" /\ bound' = bound \ {e}
    BY <2>2, <2>3, <2>4
  <2> QED
    BY <2>5 DEF m
<1>2. ASSUME NEW e \in Drones, NEW a \in Answers, RouterServe(e, a) PROVE FALSE
  <2> DEFINE m == Head(toRouter)
  <2>1. m \in Out
    BY <1>2, RouterServeEffect
  <2>2. m.type \in {"REQUEST", "CONNECT", "DISCONNECT"}
    BY <2>1, OutFields
  <2>3. /\ CASE m.type = "REQUEST"    -> Begin(e, m.req, a) /\ UNCHANGED <<inbox, bound>>
             [] m.type = "CONNECT"    -> Reply(e, "OK", m.req, 0) /\ bound' = bound \cup {e}
                                         /\ UNCHANGED <<work, starts>>
             [] m.type = "DISCONNECT" -> UNCHANGED <<inbox, bound, work, starts>>
    BY <1>2 DEF RouterServe
  <2> HIDE DEF m
  <2> QED
    BY <2>2, <2>3
<1>3. ASSUME NEW e \in Drones, Die(e) PROVE FALSE
  BY <1>3 DEF Die
<1>4. ASSUME NEW e \in Drones, Expire(e) PROVE FALSE
  BY <1>4 DEF Expire, Patient
<1>5. \E e \in Drones, a \in Answers : DroneServe(e, a)
  BY <1>2, <1>3, <1>4 DEF Step, CallRequest, CallConnect, CallDisconnect, CallRecv, Take, Finish,
    SendTop, Process,
         RecvResult, RecvNull, ConnectReturns, Bounce, RouterRefuse, Answer, server
<1>6. PICK a \in Answers : DroneServe(d, a)
  BY <1>1, <1>5
<1> QED
  BY <1>1, <1>6, DroneServeEffect DEF Shorter

\* Only the call sends a DISCONNECT, and then the session is over.
LEMMA DisconnectTop ==
    ASSUME TypeInv, OwnSend, ConnectWaits, SendTop, state = "CONNECTED", Frame.type = "DISCONNECT"
    PROVE  state' = "DISCONNECTED"
<1>1. Len(stack) \in DOMAIN stack /\ Frame = stack[Len(stack)]
  BY StackTop DEF SendTop, Frame
<1>2. Len(stack) = 1 /\ op.name \in {"connect", "disconnect"}
  BY <1>1 DEF OwnSend
<1>3. op.name = "disconnect"
  BY <1>2 DEF ConnectWaits
<1> QED
  BY <1>2, <1>3 DEF SendTop, Own

LEMMA KeepsStays ==
    ASSUME TypeInv, Patient, Step, NEW d \in Drones, d \notin dead', Keeps(d),
           ~(SendTop /\ state = "CONNECTED" /\ Frame.type = "DISCONNECT")
    PROVE  d \in bound' /\ \A i \in DOMAIN toDrone'[d] : toDrone'[d][i].type # "DISCONNECT"
<1>1. d \in bound /\ \A i \in DOMAIN toDrone[d] : toDrone[d][i].type # "DISCONNECT"
  BY DEF Keeps
<1>2. d \in bound'
  <2>1. SUFFICES ASSUME d \notin bound' PROVE FALSE
    OBVIOUS
  <2>2. Shorter(Out, toDrone[d], toDrone'[d]) /\ toDrone[d][1].type = "DISCONNECT"
    BY <1>1, <2>1, BoundStep
  <2> QED
    BY <1>1, <2>2 DEF Shorter
<1>3. ~Die(d)
  BY DEF Die
<1>4. ASSUME NEW i \in DOMAIN toDrone'[d] PROVE toDrone'[d][i].type # "DISCONNECT"
  <2>1. CASE toDrone'[d] = toDrone[d] \/ Shorter(Out, toDrone[d], toDrone'[d])
    BY <1>1, <1>4, <2>1 DEF Shorter
  <2>2. CASE SendTop /\ state = "CONNECTED" /\ Longer(Out, toDrone[d], Frame, toDrone'[d])
    BY <1>1, <1>4, <2>2 DEF Longer
  <2> QED
    BY <1>3, <2>1, <2>2, DroneStep
<1> QED
  BY <1>2, <1>4

\* What is sent to a worker that lives is sent to one that has the session.
LEMMA SentToHolder ==
    ASSUME TypeInv, OwnSend, Patient, HeldInv, AtPeer, Step, NEW d \in Drones, d \notin dead'
    PROVE  /\ toDrone'[d] # << >> => d \in bound'
           /\ \A i \in DOMAIN toDrone'[d] : toDrone'[d][i].type = "DISCONNECT" => i = Len(toDrone'[d])
<1>0. d \notin dead /\ ~Die(d)
  BY CompleteStays DEF Die
<1>1. /\ toDrone[d] # << >> => d \in bound
      /\ \A i \in DOMAIN toDrone[d] : toDrone[d][i].type = "DISCONNECT" => i = Len(toDrone[d])
      /\ state = "CONNECTED" /\ remote = d => Keeps(d)
  BY <1>0 DEF HeldInv, AtPeer
<1>2. toDrone[d] \in Seq(Out)
  BY DEF TypeInv, NetType
<1>3. CASE toDrone'[d] = toDrone[d]
  <2>1. d \in bound /\ d \notin bound' => FALSE
    <3>1. SUFFICES ASSUME d \in bound, d \notin bound' PROVE FALSE
      OBVIOUS
    <3>2. Shorter(Out, toDrone[d], toDrone'[d])
      BY <3>1, BoundStep
    <3> QED
      BY <1>2, <1>3, <3>2 DEF Shorter
  <2> QED
    BY <1>1, <1>3, <2>1
<1>4. CASE SendTop /\ state = "CONNECTED" /\ remote = d /\ Longer(Out, toDrone[d], Frame, toDrone'[d])
  <2>1. Keeps(d) /\ bound' = bound
    BY <1>1, <1>4 DEF SendTop, server
  <2> QED
    BY <1>4, <2>1 DEF Keeps, Longer
<1>5. CASE toDrone[d] # << >> /\ Shorter(Out, toDrone[d], toDrone'[d])
  <2>1. ASSUME NEW i \in DOMAIN toDrone'[d], toDrone'[d][i].type = "DISCONNECT" PROVE i = Len(toDrone'[d])
    <3>1. i + 1 \in DOMAIN toDrone[d] /\ toDrone[d][i + 1].type = "DISCONNECT" /\ i \in Nat
          /\ Len(toDrone'[d]) = Len(toDrone[d]) - 1 /\ Len(toDrone[d]) \in Nat
      BY <1>5, <2>1 DEF Shorter
    <3>2. i + 1 = Len(toDrone[d])
      BY <1>1, <3>1
    <3> QED
      BY <3>1, <3>2
  <2>2. ASSUME d \notin bound' PROVE toDrone'[d] = << >>
    <3>1. d \in bound
      BY <1>1, <1>5
    <3>2. 1 \in DOMAIN toDrone[d] /\ toDrone[d][1].type = "DISCONNECT"
      BY <1>5, <2>2, <3>1, BoundStep DEF Shorter
    <3>3. Len(toDrone[d]) = 1
      BY <1>1, <3>2
    <3> DEFINE t == toDrone'[d]
    <3>4. t \in Seq(Out) /\ Len(t) = 0
      BY <1>5, <3>3 DEF Shorter
    <3> HIDE DEF t
    <3>5. t = << >>
      BY <3>4
    <3> QED
      BY <3>5 DEF t
  <2> QED
    BY <2>1, <2>2
<1> QED
  BY <1>0, <1>3, <1>4, <1>5, DroneStep

LEMMA HeldStep ==
    ASSUME TypeInv, TypeInv', WorkInv, OwnSend, Calm, Patient, CalmInv, HeldInv, Step
    PROVE  HeldInv'
<1>0. Connecting /\ ConnectWaits /\ OkAwaited /\ ConnectedQuiet /\ AskedByRouter /\ AtPeer
  BY DEF CalmInv, Connecting
<1>1. \A d \in Drones : d \notin dead' => d \notin dead
  BY CompleteStays
<1>2. ASSUME state' = "CONNECTED", peer' \notin dead'
      PROVE  peer' \in bound' /\ \A i \in DOMAIN toDrone'[peer'] : toDrone'[peer'][i].type # "DISCONNECT"
  <2>1. ~(SendTop /\ state = "CONNECTED" /\ Frame.type = "DISCONNECT")
    BY <1>0, <1>2, DisconnectTop
  <2>2. CASE state = "CONNECTED"
    <3>1. PICK d \in Drones : d = peer
      BY <1>0, <2>2 DEF AtPeer
    <3>2. peer' = d
      BY <1>0, <2>2, <3>1, PeerStep, ProcessShifts DEF Connected, ConnectedQuiet, Ok
    <3>3. Keeps(d) /\ d \notin dead'
      BY <1>1, <1>2, <2>2, <3>1, <3>2 DEF HeldInv
    <3>4. d \in bound' /\ \A i \in DOMAIN toDrone'[d] : toDrone'[d][i].type # "DISCONNECT"
      BY <2>1, <3>3, KeepsStays
    <3> QED
      BY <3>2, <3>4
  <2>3. CASE state # "CONNECTED"
    <3>1. Process /\ Connected(Head(inbox))
      BY <1>2, <2>3, StateStep
    <3>2. peer' = inbox[1].from /\ Ok(1)
      BY <3>1, OkHead, ProcessShifts DEF Connected
    <3>3. peer' \in Drones
      <4>1. Head(inbox) \in Back /\ Head(inbox) = inbox[1]
        BY <3>1, ProcessEffect
      <4> QED
        BY <3>1, <3>2, <4>1, BackFields DEF Connected
    <3>4. Keeps(inbox[1].from)
      BY <1>1, <1>2, <3>2, <3>3 DEF HeldInv, Ok
    <3>5. bound' = bound /\ toDrone' = toDrone
      BY <3>1 DEF Process, server
    <3> QED
      BY <3>2, <3>4, <3>5 DEF Keeps
  <2> QED
    BY <2>2, <2>3
<1>3. ASSUME NEW i \in DOMAIN inbox', inbox'[i].kind = "OK", inbox'[i].from \notin dead'
      PROVE  /\ inbox'[i].from \in bound'
             /\ \A j \in DOMAIN toDrone'[inbox'[i].from] : toDrone'[inbox'[i].from][j].type # "DISCONNECT"
  <2>1. inbox'[i] \in Back
    BY <1>3 DEF TypeInv, InboxType
  <2>2. PICK d \in Drones : d = inbox'[i].from
    BY <1>3, <2>1, BackFields
  <2>3. d \notin dead' /\ d \notin dead
    BY <1>1, <1>3, <2>2
  <2>4. CASE \E j \in DOMAIN inbox : inbox[j] = inbox'[i]
    <3>1. PICK j \in DOMAIN inbox : inbox[j] = inbox'[i]
      BY <2>4
    <3>2. Ok(j) /\ inbox[j].from = d
      BY <1>3, <2>2, <3>1 DEF Ok
    <3>3. Keeps(d)
      BY <2>3, <3>2 DEF HeldInv, Ok
    <3>4. state # "CONNECTED"
      BY <1>0, <3>2 DEF OkAwaited, Ok
    <3>5. d \in bound' /\ \A l \in DOMAIN toDrone'[d] : toDrone'[d][l].type # "DISCONNECT"
      BY <2>3, <3>3, <3>4, KeepsStays
    <3> QED
      BY <2>2, <3>5
  <2>5. CASE ~\E j \in DOMAIN inbox : inbox[j] = inbox'[i]
    <3>1. PICK e \in Back : Longer(Back, inbox, e, inbox') /\ Comes(e)
      BY <1>3, <2>5, InboxStep, ProcessShifts
    <3>2. inbox'[i] = e
      BY <1>3, <2>5, <3>1 DEF Longer
    <3>3. PICK f \in Drones, a \in Answers : RouterServe(f, a) /\ e.from = f /\ bound' = bound \cup {e.from}
      BY <1>0, <1>3, <3>1, <3>2, OkComes
    <3>4. d = f /\ d \in bound'
      BY <2>2, <3>2, <3>3
    <3>5. d \notin bound /\ toDrone' = toDrone
      BY <3>3, <3>4 DEF RouterServe, Free
    <3>6. toDrone[d] = << >>
      BY <2>3, <3>5 DEF HeldInv
    <3> QED
      BY <2>2, <3>4, <3>5, <3>6
  <2> QED
    BY <2>4, <2>5
<1>4. \A d \in Drones \ dead' :
        /\ toDrone'[d] # << >> => d \in bound'
        /\ \A i \in DOMAIN toDrone'[d] : toDrone'[d][i].type = "DISCONNECT" => i = Len(toDrone'[d])
  BY <1>0, SentToHolder
<1> QED
  BY <1>2, <1>3, <1>4 DEF HeldInv, Keeps, Ok

-----------------------------------------------------------------------------
(* No request is forgotten.                                                *)

\* Request r is to be answered: it can be found, or is about to be.
Waited(r) == Findable(r) \/ op = [name |-> "request", req |-> r]
Ending(r) == complete[r] \/ terr \/ r \in lost
Sent(r) == In(stack, r) \/ In(toRouter, r) \/ (\E d \in Drones : In(toDrone[d], r))
Somewhere(r) == Ending(r) \/ Sent(r) \/ Worked(r) \/ Ended(inbox, r)

\* A request is waited for from its call on.
LEMMA WaitedStep ==
    ASSUME TypeInv, Step, NEW r \in Reqs, Waited(r)'
    PROVE  Waited(r) \/ (CallRequest /\ r = trace + 1)
<1>0. /\ Slot(r) \in 0 .. HashSize - 1 /\ hash \in [0 .. HashSize - 1 -> Seq(Reqs)] /\ Slot(r)' = Slot(r)
  BY SlotType DEF TypeInv, HashType, Slot
<1>1. CASE op' = [name |-> "request", req |-> r]
  <2>1. op'.name = "request" /\ op'.req = r
    BY <1>1
  <2>2. CASE op' = op
    BY <1>1, <2>2 DEF Waited
  <2>3. CASE CallRequest
    BY <2>1, <2>3 DEF CallRequest, Call
  <2>4. CASE SendTop /\ Own
    <3>1. op'.name \in {"connecting", "none"}
      BY <2>4 DEF SendTop, TypeInv, OpType
    <3> QED
      BY <2>1, <3>1
  <2> QED
    BY <2>1, <2>2, <2>3, <2>4, OpStep
<1>2. CASE Findable(r)'
  <2>1. PICK i \in DOMAIN hash'[Slot(r)] : hash'[Slot(r)][i] = r
    BY <1>0, <1>2 DEF Findable
  <2>2. CASE hash' = hash
    BY <1>0, <2>1, <2>2 DEF Waited, Findable
  <2>3. CASE SendTop
    <3>1. SUFFICES ASSUME hash' # hash PROVE Waited(r)
      BY <2>2
    <3>2. op.name = "request" /\ hash' = [hash EXCEPT ![Slot(op.req)] = <<op.req>> \o @]
      BY <2>3, <3>1 DEF SendTop
    <3>3. op.req \in Reqs /\ op \in [name : OpNames, req : 0 .. MaxReqs]
      BY <3>2 DEF TypeInv, OpType
    <3>4. CASE Slot(op.req) = Slot(r)
      <4> DEFINE s == hash[Slot(r)]
                 o == op.req
      <4>1. s \in Seq(Reqs) /\ o \in Reqs /\ hash'[Slot(r)] = <<o>> \o s
        BY <1>0, <3>2, <3>3, <3>4
      <4> HIDE DEF s, o
      <4>2. r = o \/ \E j \in DOMAIN s : s[j] = r
        <5>1. i \in 1 .. Len(s) + 1 /\ (<<o>> \o s)[i] = r /\ Len(s) \in Nat
          BY <2>1, <4>1
        <5>2. CASE i = 1
          BY <4>1, <5>1, <5>2
        <5>3. CASE i # 1
          <6>1. i - 1 \in 1 .. Len(s)
            BY <5>1, <5>3
          <6>2. s[i - 1] = r
            BY <4>1, <5>1, <5>3
          <6> QED
            BY <4>1, <6>1, <6>2
        <5> QED
          BY <5>2, <5>3
      <4>3. CASE r = o
        BY <3>2, <3>3, <4>3 DEF Waited, o
      <4>4. CASE \E j \in DOMAIN s : s[j] = r
        BY <4>4 DEF Waited, Findable, s
      <4> QED
        BY <4>2, <4>3, <4>4
    <3>5. CASE Slot(op.req) # Slot(r)
      BY <1>0, <2>1, <3>2, <3>5 DEF Waited, Findable
    <3> QED
      BY <3>4, <3>5
  <2>4. ASSUME NEW q \in Reqs, Finish(q) PROVE Findable(r)
    <3>1. CASE Slot(q) = Slot(r)
      <4> DEFINE s == hash[Slot(r)]
                 n == CHOOSE j \in DOMAIN s : s[j] = q
      <4>1. s \in Seq(Reqs) /\ n \in DOMAIN s /\ hash'[Slot(r)] = SubSeq(s, n + 1, Len(s))
        <5>1. \E j \in DOMAIN s : s[j] = q
          BY <2>4, <3>1 DEF Finish, Findable
        <5>2. hash' = [hash EXCEPT ![Slot(r)] = SubSeq(s, n + 1, Len(s))]
          BY <2>4, <3>1 DEF Finish
        <5> QED
          BY <1>0, <5>1, <5>2
      <4> DEFINE t == hash'[Slot(r)]
      <4>2. n \in 0 .. Len(s) /\ t = SubSeq(s, n + 1, Len(s)) /\ i \in DOMAIN t /\ t[i] = r
        BY <2>1, <4>1
      <4> HIDE DEF s, n, t
      <4>3. Dropped(Reqs, s, n, t)
        BY <4>1, <4>2, DropFacts
      <4>4. i + n \in DOMAIN s /\ s[i + n] = r
        BY <4>2, <4>3 DEF Dropped
      <4> QED
        BY <4>4 DEF s, Findable
    <3>2. CASE Slot(q) # Slot(r)
      BY <1>0, <2>1, <2>4, <3>2 DEF Finish, Findable
    <3> QED
      BY <3>1, <3>2
  <2>5. CASE ~SendTop /\ ~\E q \in Reqs : Finish(q)
    <3>1. hash' = hash
      BY <2>5 DEF Step, CallRequest, CallConnect, CallDisconnect, CallRecv, Take, Process,
        RecvResult, RecvNull,
           ConnectReturns, RouterServe, DroneServe, Bounce, Expire, Die, RouterRefuse, Answer, requests
    <3> QED
      BY <2>2, <3>1
  <2> QED
    BY <2>3, <2>4, <2>5 DEF Waited
<1> QED
  BY <1>1, <1>2 DEF Waited

\* What is about to be sent is sent, ...
LEMMA StackKept ==
    ASSUME TypeInv, Step, NEW r \in Reqs, In(stack, r)
    PROVE  Sent(r)'
<1>1. CASE stack' = stack
  BY <1>1 DEF Sent
<1>2. ASSUME NEW e \in Out, Longer(Out, stack, e, stack') PROVE Sent(r)'
  BY <1>2 DEF Sent, In, Longer
<1>3. CASE SendTop
  <2>1. In(stack', r) \/ (Frame.req = r /\ Frame.type = "REQUEST")
    BY <1>3, SendTopEffect DEF Adds
  <2>2. CASE Frame.req = r /\ Frame.type = "REQUEST"
    <3>1. In(toRouter', r) \/ \E d \in Drones : In(toDrone'[d], r)
      BY <1>3, <2>2, SendTopEffect DEF Adds
    <3> QED
      BY <3>1 DEF Sent
  <2> QED
    BY <2>1, <2>2 DEF Sent
<1>4. CASE Process
  <2>1. In(stack', r)
    BY <1>1, <1>4, ProcessEffect DEF Adds
  <2> QED
    BY <2>1 DEF Sent
<1> QED
  BY <1>1, <1>2, <1>3, <1>4, StackStep

\* A worker begins what it is given.
LEMMA BeginsIt ==
    ASSUME NEW d, NEW a, NEW m, Handles(d, a, m), m.type = "REQUEST"
    PROVE  Worked(m.req)'
<1> DEFINE w == [drone |-> d, req |-> m.req, todo |-> a]
<1>1. w \in work' /\ w.req = m.req
  BY DEF Handles, Begin
<1>2. \E v \in work' : v.req = m.req
  BY <1>1
<1> QED
  BY <1>2 DEF Worked

\* ... what the router has goes to a worker or comes back, ...
LEMMA RouterKept ==
    ASSUME TypeInv, Step, NEW r \in Reqs, In(toRouter, r)
    PROVE  Somewhere(r)'
<1>1. CASE toRouter' = toRouter
  BY <1>1 DEF Sent, Somewhere
<1>2. CASE Longer(Out, toRouter, Frame, toRouter')
  BY <1>2 DEF Sent, Somewhere, In, Longer
<1> DEFINE m == Head(toRouter)
<1>3. ASSUME NEW d \in Drones, NEW a \in Answers, RouterServe(d, a) PROVE Somewhere(r)'
  <2>1. Adds(toRouter', m, toRouter, r) /\ Handles(d, a, m)
    BY <1>3, RouterServeEffect
  <2> HIDE DEF m
  <2>2. In(toRouter', r) \/ (m.req = r /\ m.type = "REQUEST")
    BY <2>1 DEF Adds
  <2>3. CASE m.req = r /\ m.type = "REQUEST"
    <3>1. \E v \in work' : v.req = m.req
      BY <2>1, <2>3, BeginsIt DEF Worked
    <3> QED
      BY <2>3, <3>1 DEF Somewhere, Worked
  <2> QED
    BY <2>2, <2>3 DEF Somewhere, Sent
<1>4. CASE RouterRefuse
  <2>1. Adds(toRouter', m, toRouter, r)
    BY <1>4, RefuseEffect
  <2>2. m.req = r => Ended(inbox', r)
    BY <1>4, RefuseEffect DEF Adds
  <2> HIDE DEF m
  <2> QED
    BY <2>1, <2>2 DEF Adds, Somewhere, Sent
<1> QED
  BY <1>1, <1>2, <1>3, <1>4, RouterStep

\* ... what a worker was sent is begun, comes back, or is lost, ...
LEMMA DroneKept ==
    ASSUME TypeInv, HeldInv, Step, NEW r \in Reqs, NEW d \in Drones, In(toDrone[d], r)
    PROVE  Somewhere(r)'
<1>1. CASE toDrone'[d] = toDrone[d]
  BY <1>1 DEF Sent, Somewhere
<1>2. CASE Longer(Out, toDrone[d], Frame, toDrone'[d])
  BY <1>2 DEF Sent, Somewhere, In, Longer
<1> DEFINE m == Head(toDrone[d])
<1>3. ASSUME NEW a \in Answers, DroneServe(d, a) PROVE Somewhere(r)'
  <2>1. Adds(toDrone'[d], m, toDrone[d], r)
    BY <1>3, DroneServeEffect
  <2>2. d \in bound
    BY <1>3 DEF DroneServe, HeldInv
  <2>3. Handles(d, a, m)
    BY <1>3, <2>2, DroneServeEffect DEF Ignores
  <2> HIDE DEF m
  <2>4. In(toDrone'[d], r) \/ (m.req = r /\ m.type = "REQUEST")
    BY <2>1 DEF Adds
  <2>5. CASE m.req = r /\ m.type = "REQUEST"
    <3>1. \E v \in work' : v.req = m.req
      BY <2>3, <2>5, BeginsIt DEF Worked
    <3> QED
      BY <2>5, <3>1 DEF Somewhere, Worked
  <2> QED
    BY <2>4, <2>5 DEF Somewhere, Sent
<1>4. CASE Bounce(d)
  <2>1. Adds(toDrone'[d], m, toDrone[d], r)
    BY <1>4, BounceEffect
  <2>2. m.req = r => Ended(inbox', r)
    BY <1>4, BounceEffect DEF Adds
  <2> HIDE DEF m
  <2>3. In(toDrone'[d], r) \/ Ended(inbox', r)
    BY <2>1, <2>2 DEF Adds
  <2> QED
    BY <2>3 DEF Somewhere, Sent
<1>5. CASE Die(d)
  <2>1. PICK n \in 0 .. Len(toDrone[d]) :
                /\ Leaves(toDrone[d], n, toDrone'[d], r)
                /\ \A q : r = q => (r \in lost' <=>
                     \/ r \in lost \/ \E w \in work : w.drone = d /\ w.req = r
                     \/ \E i \in 1 .. n : toDrone[d][i].type = "REQUEST" /\ toDrone[d][i].req = r)
    BY <1>5, DieEffect
  <2>2. In(toDrone'[d], r) \/ r \in lost'
    BY <2>1 DEF Leaves
  <2> QED
    BY <2>2 DEF Somewhere, Sent, Ending
<1> QED
  BY <1>1, <1>2, <1>3, <1>4, <1>5, DroneStep

\* ... what a worker does ends, unless it dies, ...
LEMMA WorkKept ==
    ASSUME TypeInv, WorkInv, Step, NEW r \in Reqs, NEW w \in work, w.req = r
    PROVE  Somewhere(r)'
<1>1. CASE w \in work'
  BY <1>1 DEF Somewhere, Worked
<1>2. CASE Answer(w)
  <2>1. PICK e \in Back :
             /\ e.req = r /\ Adds(inbox, e, inbox', r)
             /\ \/ e.kind \in Final
                \/ work' = (work \ {w}) \cup {[drone |-> w.drone, req |-> w.req, todo |-> Tail(w.todo)]}
    BY <1>2, AnswerEffect
  <2>2. CASE e.kind \in Final
    BY <2>1, <2>2 DEF Somewhere, Adds, Final, Ends
  <2>3. CASE work' = (work \ {w}) \cup {[drone |-> w.drone, req |-> w.req, todo |-> Tail(w.todo)]}
    <3> DEFINE v == [drone |-> w.drone, req |-> w.req, todo |-> Tail(w.todo)]
    <3>1. v \in work' /\ v.req = r
      BY <2>3
    <3> HIDE DEF v
    <3> QED
      BY <3>1 DEF Somewhere, Worked
  <2> QED
    BY <2>1, <2>2, <2>3
<1>3. ASSUME NEW d \in Drones, Die(d) PROVE Somewhere(r)'
  <2>1. CASE w.drone = d
    <3>1. r \in lost'
      BY <1>3, <2>1, DieEffect
    <3> QED
      BY <3>1 DEF Somewhere, Ending
  <2>2. CASE w.drone # d
    BY <1>1, <1>3, <2>2 DEF Die
  <2> QED
    BY <2>1, <2>2
<1>4. CASE ~Answer(w) /\ ~\E d \in Drones : Die(d)
  <2>1. w \in work'
    <3>1. ASSUME NEW v \in work, Answer(v) PROVE w \in work'
      BY <1>4, <3>1 DEF Answer
    <3>2. ASSUME NEW d \in Drones, NEW a \in Answers, RouterServe(d, a) \/ DroneServe(d, a) PROVE w \in work'
      <4>1. \E m : Handles(d, a, m) \/ Ignores(d)
        BY <3>2, RouterServeEffect, DroneServeEffect
      <4> QED
        BY <4>1 DEF Handles, Ignores, Begin
    <3>3. CASE /\ ~\E v \in work : Answer(v)
               /\ ~\E d \in Drones, a \in Answers : RouterServe(d, a) \/ DroneServe(d, a)
      BY <1>4, <3>3 DEF Step, CallRequest, CallConnect, CallDisconnect, CallRecv, Take, Finish,
        SendTop, Process,
           RecvResult, RecvNull, ConnectReturns, Bounce, Expire, RouterRefuse, server
    <3> QED
      BY <3>1, <3>2, <3>3
  <2> QED
    BY <1>1, <2>1
<1> QED
  BY <1>2, <1>3, <1>4

\* ... and what comes back completes the request, or it is sent again.
LEMMA EndKept ==
    ASSUME TypeInv, WorkInv, OwnSend, Step, NEW r \in Reqs, Waited(r), Ended(inbox, r)
    PROVE  Somewhere(r)'
<1>1. PICK i \in DOMAIN inbox : inbox[i].req = r /\ inbox[i].kind \in Ends
  BY DEF Ended
<1>2. CASE inbox' = inbox
  BY <1>2 DEF Somewhere
<1>3. ASSUME NEW e \in Back, Longer(Back, inbox, e, inbox') PROVE Somewhere(r)'
  <2>1. i \in DOMAIN inbox' /\ inbox'[i] = inbox[i]
    BY <1>3 DEF Longer
  <2> QED
    BY <1>1, <2>1 DEF Somewhere, Ended
<1>4. CASE Process
  <2>1. CASE i # 1
    <3>1. i - 1 \in DOMAIN inbox' /\ inbox'[i - 1] = inbox[i]
      BY <1>4, <2>1, ProcessEffect DEF Shorter
    <3> QED
      BY <1>1, <3>1 DEF Somewhere, Ended
  <2>2. CASE i = 1
    <3> DEFINE m == Head(inbox)
    <3>1. m.req = r /\ m.kind \in Ends /\ m \in Back
      BY <1>1, <1>4, <2>2, ProcessEffect
    <3>2. ForRequest(m) \/ Connected(m) \/ Over(m) \/ Unreachable(m)
      BY <1>4 DEF Process
    <3>3. m.kind \in Final /\ Findable(r) => complete'[r]
      BY <1>4, <3>1, ProcessEffect
    <3>4. complete[r] => complete'[r]
      BY CompleteStays
    <3> HIDE DEF m
    <3>5. CASE ~Findable(r)
      <4>1. op.name = "request" /\ op.req = r
        BY <3>5 DEF Waited
      <4>2. 1 \in DOMAIN stack /\ stack[1] = [type |-> "REQUEST", req |-> r]
        BY <4>1 DEF OwnSend, TypeInv, StackType
      <4>3. In(stack, r)
        BY <4>2 DEF In
      <4>4. Sent(r)'
        BY <4>3, StackKept
      <4> QED
        BY <4>4 DEF Somewhere
    <3>6. CASE Findable(r) /\ m.kind = "BOUNCE"
      <4>1. CASE Unreachable(m)
        BY <4>1 DEF Unreachable, Somewhere, Ending
      <4>2. CASE Over(m) /\ ~complete[r]
        <5>1. stack' = Append(stack, [type |-> "REQUEST", req |-> r])
          BY <3>1, <3>6, <4>2 DEF Over, Resend, Sending
        <5> DEFINE e == [type |-> "REQUEST", req |-> r]
        <5>2. e \in Out /\ e.req = r /\ e.type = "REQUEST" /\ stack' = Append(stack, e)
          BY <5>1, OutIs
        <5> HIDE DEF e
        <5>3. In(stack', r)
          BY <5>2, StackGains DEF Adds
        <5> QED
          BY <5>3 DEF Somewhere, Sent
      <4>3. CASE complete[r]
        BY <3>4, <4>3 DEF Somewhere, Ending
      <4> QED
        BY <3>2, <3>6, <4>1, <4>2, <4>3 DEF ForRequest, Connected
    <3>7. CASE Findable(r) /\ m.kind # "BOUNCE"
      BY <3>1, <3>3, <3>7 DEF Ends, Final, Somewhere, Ending
    <3> QED
      BY <3>5, <3>6, <3>7
  <2> QED
    BY <2>1, <2>2
<1> QED
  BY <1>2, <1>3, <1>4, InboxStep

WaitInv == \A r \in Reqs : r <= trace /\ Waited(r) => Somewhere(r)

LEMMA WaitStep ==
    ASSUME TypeInv, WorkInv, OwnSend, HeldInv, WaitInv, Step
    PROVE  WaitInv'
<1>1. ASSUME NEW r \in Reqs, r <= trace', Waited(r)' PROVE Somewhere(r)'
  <2>1. CASE CallRequest /\ r = trace + 1
    <3> DEFINE e == [type |-> "REQUEST", req |-> r]
    <3>1. e \in Out /\ e.req = r /\ e.type = "REQUEST" /\ stack' = Append(stack, e)
      BY <2>1, OutIs DEF CallRequest, Sending
    <3> HIDE DEF e
    <3>2. In(stack', r)
      BY <3>1, StackGains DEF Adds
    <3> QED
      BY <3>2 DEF Somewhere, Sent
  <2>2. CASE ~(CallRequest /\ r = trace + 1)
    <3>1. Waited(r)
      BY <1>1, <2>2, WaitedStep
    <3>2. r <= trace
      BY <1>1, <2>2, TraceStep DEF CallRequest, TypeInv, SessionType, Reqs
    <3>3. Somewhere(r)
      BY <3>1, <3>2 DEF WaitInv
    <3>4. CASE Ending(r)
      <4>1. Ending(r)'
        BY <3>4, CompleteStays, TerrStep DEF Ending, Unreachable
      <4> QED
        BY <4>1 DEF Somewhere
    <3>5. CASE In(stack, r)
      <4>1. Sent(r)'
        BY <3>5, StackKept
      <4> QED
        BY <4>1 DEF Somewhere
    <3>6. CASE In(toRouter, r)
      BY <3>6, RouterKept
    <3>7. ASSUME NEW d \in Drones, In(toDrone[d], r) PROVE Somewhere(r)'
      BY <3>7, DroneKept
    <3>8. ASSUME NEW w \in work, w.req = r PROVE Somewhere(r)'
      BY <3>8, WorkKept
    <3>9. CASE Ended(inbox, r)
      BY <3>1, <3>9, EndKept
    <3> QED
      BY <3>3, <3>4, <3>5, <3>6, <3>7, <3>8, <3>9 DEF Somewhere, Sent, Worked
  <2> QED
    BY <2>1, <2>2
<1> QED
  BY <1>1 DEF WaitInv

LEMMA WaitedIsThere == ASSUME TypeInv, WaitInv PROVE NoneForgotten
<1>1. SUFFICES ASSUME NEW r \in 1 .. trace
      PROVE  \/ complete[r] \/ terr \/ r \in lost
             \/ (~Findable(r) /\ op # [name |-> "request", req |-> r])
             \/ In(stack, r) \/ In(toRouter, r) \/ (\E d \in Drones : In(toDrone[d], r))
             \/ \E w \in work : w.req = r
             \/ \E i \in DOMAIN inbox : inbox[i].req = r /\ inbox[i].kind \in Ends
  BY DEF NoneForgotten
<1>2. r \in Reqs /\ r <= trace
  BY ConstantsOK DEF TypeInv, SessionType, Reqs
<1>3. Waited(r) => Somewhere(r)
  BY <1>2 DEF WaitInv
<1> QED
  BY <1>3 DEF Waited, Somewhere, Ending, Sent, Worked, Ended

-----------------------------------------------------------------------------
(* The results of a request are as they were made.                         *)

\* What comes after the messages s.
OneMoreOf(s, e, u, r) ==
    /\ \A i \in DOMAIN s : i \in Nat /\ i \in DOMAIN u /\ u[i] = s[i] /\ i < Len(u)
                           /\ (IsAnswer(u, i, r) <=> IsAnswer(s, i, r))
    /\ \A i \in DOMAIN u : i \in Nat /\ i > 0 /\ (i \in DOMAIN s \/ i = Len(u))
    /\ IsAnswer(u, Len(u), r) <=> e.req = r /\ e.kind \in AnswerKinds
    /\ Len(u) \in DOMAIN u /\ u[Len(u)] = e /\ Len(u) = Len(s) + 1 /\ Len(s) \in Nat
    /\ \A i, j \in Nat : j <= Len(u) => (Among(u, i, j, r) <=> Among(s, i, j, r))

LEMMA OneMore ==
    ASSUME NEW S, NEW s, NEW e, NEW u, NEW r, Longer(S, s, e, u)
    PROVE  OneMoreOf(s, e, u, r)
<1>1. /\ \A i \in DOMAIN s : i \in Nat /\ i \in DOMAIN u /\ u[i] = s[i] /\ i < Len(u)
                             /\ (IsAnswer(u, i, r) <=> IsAnswer(s, i, r))
      /\ \A i \in DOMAIN u : i \in Nat /\ i > 0 /\ (i \in DOMAIN s \/ i = Len(u))
  BY DEF Longer, IsAnswer
<1>2. IsAnswer(u, Len(u), r) <=> e.req = r /\ e.kind \in AnswerKinds
  BY DEF Longer, IsAnswer
<1>3. Len(u) \in DOMAIN u /\ u[Len(u)] = e /\ Len(u) = Len(s) + 1 /\ Len(s) \in Nat
  BY DEF Longer
<1>4. ASSUME NEW i \in Nat, NEW j \in Nat, j <= Len(u) PROVE Among(u, i, j, r) <=> Among(s, i, j, r)
  <2>1. ASSUME Among(u, i, j, r) PROVE Among(s, i, j, r)
    <3>1. PICK l \in DOMAIN u : i < l /\ l < j /\ IsAnswer(u, l, r)
      BY <2>1 DEF Among
    <3>2. l # Len(u)
      BY <1>1, <1>3, <1>4, <3>1
    <3>3. l \in DOMAIN s /\ IsAnswer(s, l, r)
      BY <1>1, <3>1, <3>2
    <3> QED
      BY <3>1, <3>3 DEF Among
  <2>2. ASSUME Among(s, i, j, r) PROVE Among(u, i, j, r)
    <3>1. PICK l \in DOMAIN s : i < l /\ l < j /\ IsAnswer(s, l, r)
      BY <2>2 DEF Among
    <3>2. l \in DOMAIN u /\ IsAnswer(u, l, r)
      BY <1>1, <3>1
    <3> QED
      BY <3>1, <3>2 DEF Among
  <2> QED
    BY <2>1, <2>2
<1> QED
  BY <1>1, <1>2, <1>3, <1>4 DEF OneMoreOf

LEMMA AnswerFollows ==
    ASSUME NEW S, NEW s, NEW e, NEW u, NEW r, NEW open, NEW n, Longer(S, s, e, u),
           InOrder(s, r, open, n), e.req = r, e.kind \in AnswerKinds, MayFollow(s, r, open, n, e)
    PROVE  /\ InOrder(u, r, open, n)
           /\ \A m : FitsAfter(e, m) => MayFollow(u, r, open, n, m)
<1>0. /\ \A i \in DOMAIN s : i \in Nat /\ i \in DOMAIN u /\ u[i] = s[i] /\ i < Len(u)
                             /\ (IsAnswer(u, i, r) <=> IsAnswer(s, i, r))
      /\ \A i \in DOMAIN u : i \in Nat /\ i > 0 /\ (i \in DOMAIN s \/ i = Len(u))
      /\ IsAnswer(u, Len(u), r)
      /\ Len(u) \in DOMAIN u /\ u[Len(u)] = e /\ Len(u) = Len(s) + 1 /\ Len(s) \in Nat
      /\ \A i, j \in Nat : j <= Len(u) => (Among(u, i, j, r) <=> Among(s, i, j, r))
  <2>1. OneMoreOf(s, e, u, r)
    BY OneMore
  <2> QED
    BY <2>1 DEF OneMoreOf
<1>1. ASSUME NEW i \in DOMAIN u, IsAnswer(u, i, r), ~Among(u, 0, i, r) PROVE Fits(open, n, u[i])
  <2>1. ~Among(s, 0, i, r)
    BY <1>0, <1>1
  <2>2. CASE i \in DOMAIN s
    BY <1>0, <1>1, <2>1, <2>2 DEF InOrder
  <2>3. CASE i = Len(u)
    <3>1. \A l \in DOMAIN s : ~IsAnswer(s, l, r)
      BY <1>0, <2>1, <2>3 DEF Among
    <3> QED
      BY <1>0, <2>3, <3>1 DEF MayFollow
  <2> QED
    BY <1>0, <2>2, <2>3
<1>2. ASSUME NEW i \in DOMAIN u, NEW j
               \in DOMAIN u, i < j, IsAnswer(u, i, r), IsAnswer(u, j, r), ~Among(u, i, j, r)
      PROVE  FitsAfter(u[i], u[j])
  <2>0. i \in Nat /\ j \in Nat /\ j <= Len(u)
    BY <1>0, <1>2
  <2>1. i \in DOMAIN s /\ ~Among(s, i, j, r) /\ IsAnswer(s, i, r)
    BY <1>0, <1>2, <2>0
  <2>2. CASE j \in DOMAIN s
    BY <1>0, <1>2, <2>1, <2>2 DEF InOrder
  <2>3. CASE j = Len(u)
    BY <1>0, <2>1, <2>3 DEF MayFollow
  <2> QED
    BY <1>0, <2>2, <2>3
<1>3. ASSUME NEW m, FitsAfter(e, m) PROVE MayFollow(u, r, open, n, m)
  <2>1. ASSUME NEW i \in DOMAIN u, IsAnswer(u, i, r), ~Among(u, i, Len(u) + 1, r) PROVE FitsAfter(u[i], m)
    <3>1. ~(i < Len(u))
      BY <1>0, <2>1 DEF Among
    <3>2. i = Len(u)
      BY <1>0, <3>1
    <3> QED
      BY <1>0, <1>3, <3>2
  <2> QED
    BY <1>0, <2>1 DEF MayFollow
<1> QED
  BY <1>1, <1>2, <1>3 DEF InOrder

LEMMA OtherFollows ==
    ASSUME NEW S, NEW s, NEW e, NEW u, NEW r, NEW open, NEW n, Longer(S, s, e, u),
           InOrder(s, r, open, n), ~(e.req = r /\ e.kind \in AnswerKinds)
    PROVE  /\ InOrder(u, r, open, n)
           /\ \A m : MayFollow(s, r, open, n, m) => MayFollow(u, r, open, n, m)
<1>0. /\ \A i \in DOMAIN s : i \in Nat /\ i \in DOMAIN u /\ u[i] = s[i] /\ i < Len(u)
                             /\ (IsAnswer(u, i, r) <=> IsAnswer(s, i, r))
      /\ \A i \in DOMAIN u : i \in Nat /\ i > 0 /\ (i \in DOMAIN s \/ i = Len(u))
      /\ ~IsAnswer(u, Len(u), r)
      /\ Len(u) \in DOMAIN u /\ u[Len(u)] = e /\ Len(u) = Len(s) + 1 /\ Len(s) \in Nat
      /\ \A i, j \in Nat : j <= Len(u) => (Among(u, i, j, r) <=> Among(s, i, j, r))
  <2>1. OneMoreOf(s, e, u, r)
    BY OneMore
  <2> QED
    BY <2>1 DEF OneMoreOf
<1>1. ASSUME NEW i \in DOMAIN u, IsAnswer(u, i, r), ~Among(u, 0, i, r) PROVE Fits(open, n, u[i])
  BY <1>0, <1>1 DEF InOrder
<1>2. ASSUME NEW i \in DOMAIN u, NEW j
               \in DOMAIN u, i < j, IsAnswer(u, i, r), IsAnswer(u, j, r), ~Among(u, i, j, r)
      PROVE  FitsAfter(u[i], u[j])
  <2>1. i \in DOMAIN s /\ j \in DOMAIN s
    BY <1>0, <1>2
  <2>2. ~Among(s, i, j, r)
    BY <1>0, <1>2, <2>1
  <2> QED
    BY <1>0, <1>2, <2>1, <2>2 DEF InOrder
<1>3. ASSUME NEW m, MayFollow(s, r, open, n, m) PROVE MayFollow(u, r, open, n, m)
  <2>1. ASSUME \A i \in DOMAIN u : ~IsAnswer(u, i, r) PROVE Fits(open, n, m)
    BY <1>0, <1>3, <2>1 DEF MayFollow
  <2>2. ASSUME NEW i \in DOMAIN u, IsAnswer(u, i, r), ~Among(u, i, Len(u) + 1, r) PROVE FitsAfter(u[i], m)
    <3>1. i \in DOMAIN s /\ IsAnswer(s, i, r)
      BY <1>0, <2>2
    <3>2. ~Among(s, i, Len(s) + 1, r)
      <4>1. SUFFICES ASSUME NEW l \in DOMAIN s, i < l, IsAnswer(s, l, r) PROVE FALSE
        BY DEF Among
      <4>2. l \in DOMAIN u /\ l < Len(u) + 1 /\ IsAnswer(u, l, r)
        BY <1>0, <4>1
      <4> QED
        BY <2>2, <4>1, <4>2 DEF Among
    <3> QED
      BY <1>0, <1>3, <3>1, <3>2 DEF MayFollow
  <2> QED
    BY <2>1, <2>2 DEF MayFollow
<1> QED
  BY <1>1, <1>2, <1>3 DEF InOrder

\* What is left of the messages s without the first.
OneLessOf(s, t, r) ==
    /\ \A i \in DOMAIN t : i \in Nat /\ i > 0 /\ i + 1 \in DOMAIN s /\ t[i] = s[i + 1]
                           /\ (IsAnswer(t, i, r) <=> IsAnswer(s, i + 1, r))
    /\ \A i \in DOMAIN s : i \in Nat /\ i > 0 /\ (i = 1 \/ i - 1 \in DOMAIN t)
    /\ 1 \in DOMAIN s /\ Len(t) = Len(s) - 1 /\ Len(s) \in Nat
    /\ \A i, j \in Nat : Among(t, i, j, r) <=> Among(s, i + 1, j + 1, r)
    /\ \A j \in Nat : Among(s, 0, j + 1, r) => (IsAnswer(s, 1, r) /\ j > 0) \/ Among(s, 1, j + 1, r)

LEMMA OneLess ==
    ASSUME NEW S, NEW s, NEW t, NEW r, Shorter(S, s, t)
    PROVE  OneLessOf(s, t, r)
<1>1. /\ \A i \in DOMAIN t : i \in Nat /\ i > 0 /\ i + 1 \in DOMAIN s /\ t[i] = s[i + 1]
                             /\ (IsAnswer(t, i, r) <=> IsAnswer(s, i + 1, r))
      /\ \A i \in DOMAIN s : i \in Nat /\ i > 0 /\ (i = 1 \/ i - 1 \in DOMAIN t)
  BY DEF Shorter, IsAnswer
<1>2. 1 \in DOMAIN s /\ Len(t) = Len(s) - 1 /\ Len(s) \in Nat
  BY DEF Shorter
<1>3. ASSUME NEW i \in Nat, NEW j \in Nat PROVE Among(t, i, j, r) <=> Among(s, i + 1, j + 1, r)
  <2>1. ASSUME Among(t, i, j, r) PROVE Among(s, i + 1, j + 1, r)
    <3>1. PICK l \in DOMAIN t : i < l /\ l < j /\ IsAnswer(t, l, r)
      BY <2>1 DEF Among
    <3>2. l + 1 \in DOMAIN s /\ IsAnswer(s, l + 1, r) /\ i + 1 < l + 1 /\ l + 1 < j + 1
      BY <1>1, <3>1
    <3> QED
      BY <3>2 DEF Among
  <2>2. ASSUME Among(s, i + 1, j + 1, r) PROVE Among(t, i, j, r)
    <3>1. PICK l \in DOMAIN s : i + 1 < l /\ l < j + 1 /\ IsAnswer(s, l, r)
      BY <2>2 DEF Among
    <3>2. l - 1 \in DOMAIN t /\ l \in Nat
      BY <1>1, <3>1
    <3>3. (l - 1) + 1 = l /\ i < l - 1 /\ l - 1 < j
      BY <3>1, <3>2
    <3>4. IsAnswer(t, l - 1, r)
      BY <1>1, <3>1, <3>2, <3>3
    <3> QED
      BY <3>2, <3>3, <3>4 DEF Among
  <2> QED
    BY <2>1, <2>2
<1>4. ASSUME NEW j \in Nat, Among(s, 0, j + 1, r) PROVE (IsAnswer(s, 1, r) /\ j > 0) \/ Among(s, 1, j + 1, r)
  <2>1. PICK l \in DOMAIN s : 0 < l /\ l < j + 1 /\ IsAnswer(s, l, r)
    BY <1>4 DEF Among
  <2>2. CASE l = 1
    BY <2>1, <2>2
  <2>3. CASE l # 1
    <3>1. 1 < l
      BY <1>1, <2>1, <2>3
    <3> QED
      BY <2>1, <3>1 DEF Among
  <2> QED
    BY <2>2, <2>3
<1> QED
  BY <1>1, <1>2, <1>3, <1>4 DEF OneLessOf

LEMMA LaterPair ==
    ASSUME NEW S, NEW s, NEW t, NEW r, NEW open, NEW n, Shorter(S, s, t), InOrder(s, r, open, n),
           NEW i \in DOMAIN t, NEW j
             \in DOMAIN t, i < j, IsAnswer(t, i, r), IsAnswer(t, j, r), ~Among(t, i, j, r)
    PROVE  FitsAfter(t[i], t[j])
<1>0. OneLessOf(s, t, r)
  BY OneLess
<1>1. i \in Nat /\ i + 1 \in DOMAIN s /\ t[i] = s[i + 1] /\ IsAnswer(s, i + 1, r)
  BY <1>0 DEF OneLessOf
<1>a. j \in Nat /\ j + 1 \in DOMAIN s /\ t[j] = s[j + 1] /\ IsAnswer(s, j + 1, r)
  BY <1>0 DEF OneLessOf
<1>2. ~Among(s, i + 1, j + 1, r)
  BY <1>0, <1>1, <1>a DEF OneLessOf
<1>3. i + 1 < j + 1
  BY <1>1, <1>a
<1> QED
  BY <1>1, <1>a, <1>2, <1>3 DEF InOrder

LEMMA FollowsLess ==
    ASSUME NEW S, NEW s, NEW t, NEW r, NEW open, NEW n, NEW m, Shorter(S, s, t), MayFollow(s, r, open, n, m),
           NEW i \in DOMAIN t, IsAnswer(t, i, r), ~Among(t, i, Len(t) + 1, r)
    PROVE  FitsAfter(t[i], m)
<1>0. OneLessOf(s, t, r)
  BY OneLess
<1>1. i \in Nat /\ i + 1 \in DOMAIN s /\ t[i] = s[i + 1] /\ IsAnswer(s, i + 1, r)
  BY <1>0 DEF OneLessOf
<1>2. Len(t) + 1 \in Nat /\ (Len(t) + 1) + 1 = Len(s) + 1
  BY DEF Shorter
<1>3. ~Among(s, i + 1, Len(s) + 1, r)
  BY <1>0, <1>1, <1>2 DEF OneLessOf
<1> QED
  BY <1>1, <1>3 DEF MayFollow

LEMMA OtherLeaves ==
    ASSUME NEW S, NEW s, NEW t, NEW r, NEW open, NEW n, Shorter(S, s, t), InOrder(s, r, open, n),
             ~IsAnswer(s, 1, r)
    PROVE  /\ InOrder(t, r, open, n)
           /\ \A m : MayFollow(s, r, open, n, m) => MayFollow(t, r, open, n, m)
<1>0. OneLessOf(s, t, r)
  BY OneLess
<1>1. ASSUME NEW i \in DOMAIN t, IsAnswer(t, i, r), ~Among(t, 0, i, r) PROVE Fits(open, n, t[i])
  <2>1. i \in Nat /\ i + 1 \in DOMAIN s /\ t[i] = s[i + 1] /\ IsAnswer(s, i + 1, r)
    BY <1>0, <1>1 DEF OneLessOf
  <2>2. ~Among(s, 0 + 1, i + 1, r)
    BY <1>0, <1>1, <2>1 DEF OneLessOf
  <2>3. ~Among(s, 0, i + 1, r)
    BY <1>0, <2>1, <2>2 DEF OneLessOf
  <2> QED
    BY <2>1, <2>3 DEF InOrder
<1>2. ASSUME NEW m, MayFollow(s, r, open, n, m) PROVE MayFollow(t, r, open, n, m)
  <2>1. ASSUME \A i \in DOMAIN t : ~IsAnswer(t, i, r) PROVE Fits(open, n, m)
    <3>1. ASSUME NEW i \in DOMAIN s, IsAnswer(s, i, r) PROVE FALSE
      <4>1. i - 1 \in DOMAIN t /\ i \in Nat
        BY <1>0, <3>1 DEF OneLessOf
      <4>2. (i - 1) + 1 = i
        BY <4>1
      <4> QED
        BY <1>0, <2>1, <3>1, <4>1, <4>2 DEF OneLessOf
    <3> QED
      BY <1>2, <3>1 DEF MayFollow
  <2> QED
    BY <1>2, <2>1, FollowsLess DEF MayFollow
<1> QED
  BY <1>1, <1>2, LaterPair DEF InOrder

LEMMA AnswerLeaves ==
    ASSUME NEW S, NEW s, NEW t, NEW r, NEW open, NEW n, NEW open2, NEW n2, Shorter(S, s, t),
             InOrder(s, r, open, n),
           IsAnswer(s, 1, r), \A m : FitsAfter(s[1], m) => Fits(open2, n2, m)
    PROVE  /\ InOrder(t, r, open2, n2)
           /\ \A m : MayFollow(s, r, open, n, m) => MayFollow(t, r, open2, n2, m)
<1>0. OneLessOf(s, t, r)
  BY OneLess
<1>1. ASSUME NEW i \in DOMAIN t, IsAnswer(t, i, r), ~Among(t, 0, i, r) PROVE Fits(open2, n2, t[i])
  <2>1. i \in Nat /\ i + 1 \in DOMAIN s /\ t[i] = s[i + 1] /\ IsAnswer(s, i + 1, r)
          /\ 1 \in DOMAIN s /\ 1 < i + 1
    BY <1>0, <1>1 DEF OneLessOf
  <2>2. ~Among(s, 0 + 1, i + 1, r)
    BY <1>0, <1>1, <2>1 DEF OneLessOf
  <2>3. FitsAfter(s[1], s[i + 1])
    BY <2>1, <2>2 DEF InOrder
  <2> QED
    BY <2>1, <2>3
<1>2. ASSUME NEW i \in DOMAIN t, NEW j
               \in DOMAIN t, i < j, IsAnswer(t, i, r), IsAnswer(t, j, r), ~Among(t, i, j, r)
      PROVE  FitsAfter(t[i], t[j])
  BY <1>2, LaterPair
<1>3. ASSUME NEW m, MayFollow(s, r, open, n, m) PROVE MayFollow(t, r, open2, n2, m)
  <2>1. ASSUME \A i \in DOMAIN t : ~IsAnswer(t, i, r) PROVE Fits(open2, n2, m)
    <3>1. ~Among(s, 1, Len(s) + 1, r)
      <4>1. SUFFICES ASSUME NEW l \in DOMAIN s, 1 < l, IsAnswer(s, l, r) PROVE FALSE
        BY DEF Among
      <4>2. l - 1 \in DOMAIN t /\ l \in Nat
        BY <1>0, <4>1 DEF OneLessOf
      <4>3. (l - 1) + 1 = l
        BY <4>2
      <4> QED
        BY <1>0, <2>1, <4>1, <4>2, <4>3 DEF OneLessOf
    <3>2. FitsAfter(s[1], m)
      BY <1>0, <1>3, <3>1 DEF OneLessOf, MayFollow
    <3> QED
      BY <3>2
  <2> QED
    BY <1>3, <2>1, FollowsLess DEF MayFollow
<1> QED
  BY <1>1, <1>2, <1>3 DEF InOrder

\* Results and those that wait for them, as one more waits or one is taken.
LEMMA ResultsGain ==
    ASSUME NEW g \in Seq(Ks), NEW q \in Seq(Ks), NEW k \in Ks, NEW u, u = Append(q, k)
    PROVE  /\ Len(g \o u) = Len(g \o q) + 1 /\ Len(g \o q) \in Nat
           /\ DOMAIN (g \o q) = 1 .. Len(g \o q) /\ DOMAIN (g \o u) = 1 .. Len(g \o u)
           /\ \A i \in DOMAIN (g \o q) : (g \o u)[i] = (g \o q)[i]
           /\ (g \o u)[Len(g \o u)] = k
<1>1. u \in Seq(Ks) /\ Len(u) = Len(q) + 1 /\ u[Len(u)] = k /\ \A i \in 1 .. Len(q) : u[i] = q[i]
  OBVIOUS
<1>2. /\ g \o q \in Seq(Ks) /\ Len(g \o q) = Len(g) + Len(q)
      /\ \A i \in 1 .. Len(g) + Len(q) : (g \o q)[i] = IF i <= Len(g) THEN g[i] ELSE q[i - Len(g)]
  OBVIOUS
<1>3. /\ g \o u \in Seq(Ks) /\ Len(g \o u) = Len(g) + Len(u)
      /\ \A i \in 1 .. Len(g) + Len(u) : (g \o u)[i] = IF i <= Len(g) THEN g[i] ELSE u[i - Len(g)]
  BY <1>1
<1>4. Len(g) \in Nat /\ Len(q) \in Nat
  OBVIOUS
<1> DEFINE a == g \o q
           b == g \o u
<1>5. DOMAIN a = 1 .. Len(a) /\ DOMAIN b = 1 .. Len(b) /\ Len(a) \in Nat /\ Len(b) = Len(a) + 1
  BY <1>1, <1>2, <1>3, <1>4
<1> HIDE DEF a, b
<1>6. ASSUME NEW i \in DOMAIN a PROVE b[i] = a[i]
  <2>1. i \in 1 .. Len(g) + Len(q) /\ i \in 1 .. Len(g) + Len(u)
    BY <1>1, <1>2, <1>4, <1>5, <1>6 DEF a
  <2>2. CASE i <= Len(g)
    BY <1>2, <1>3, <2>1, <2>2 DEF a, b
  <2>3. CASE ~(i <= Len(g))
    <3>1. i - Len(g) \in 1 .. Len(q)
      BY <1>4, <2>1, <2>3
    <3>2. a[i] = q[i - Len(g)] /\ b[i] = u[i - Len(g)]
      BY <1>2, <1>3, <2>1, <2>3 DEF a, b
    <3> QED
      BY <1>1, <3>1, <3>2
  <2> QED
    BY <2>2, <2>3
<1>7. b[Len(b)] = k
  <2>1. Len(b) = Len(g) + Len(u) /\ Len(b) \in 1 .. Len(g) + Len(u) /\ ~(Len(b) <= Len(g))
          /\ Len(b) - Len(g) = Len(u)
    BY <1>1, <1>3, <1>4 DEF b
  <2>2. b[Len(b)] = u[Len(b) - Len(g)]
    BY <1>3, <2>1 DEF b
  <2> QED
    BY <1>1, <2>1, <2>2
<1> QED
  BY <1>5, <1>6, <1>7 DEF a, b

LEMMA ResultsTaken ==
    ASSUME NEW g \in Seq(Ks), NEW q \in Seq(Ks), q # << >>
    PROVE  Append(g, Head(q)) \o Tail(q) = g \o q
<1>1. q = <<Head(q)>> \o Tail(q) /\ Head(q) \in Ks /\ Tail(q) \in Seq(Ks)
  OBVIOUS
<1>2. Append(g, Head(q)) = g \o <<Head(q)>>
  BY <1>1
<1>3. (g \o <<Head(q)>>) \o Tail(q) = g \o (<<Head(q)>> \o Tail(q))
  BY <1>1
<1> QED
  BY <1>1, <1>2, <1>3

LEMMA TakeResults ==
    ASSUME TypeInv, NEW q \in Reqs, Take(q), NEW r \in Reqs
    PROVE  got'[r] \o queue'[r] = got[r] \o queue[r] /\ parts' = parts
<1>1. queue \in [Reqs -> Seq(Ks)] /\ got \in [Reqs -> Seq(Ks)]
  BY DEF TypeInv, RequestType
<1>2. CASE r = q
  <2>1. queue[r] # << >> /\ got'[r] = Append(got[r], Head(queue[r])) /\ queue'[r] = Tail(queue[r])
          /\ parts' = parts
    BY <1>1, <1>2 DEF Take
  <2>2. Append(got[r], Head(queue[r])) \o Tail(queue[r]) = got[r] \o queue[r]
    BY <1>1, <2>1, ResultsTaken
  <2> QED
    BY <2>1, <2>2
<1>3. CASE r # q
  BY <1>1, <1>3 DEF Take
<1> QED
  BY <1>2, <1>3

\* Only an answer that is processed changes the results of a request that can be found.
LEMMA ResultsSame ==
    ASSUME TypeInv, Step, NEW r \in Reqs, ~(Process /\ IsAnswer(inbox, 1, r) /\ Findable(r))
    PROVE  Results(r)' = Results(r) /\ parts'[r] = parts[r]
<1>0. /\ queue \in [Reqs -> Seq(Ks)] /\ got \in [Reqs -> Seq(Ks)] /\ parts \in [Reqs -> Seq(Ks)]
      /\ complete \in [Reqs -> BOOLEAN]
  BY DEF TypeInv, RequestType
<1>1. ASSUME NEW q \in Reqs, Take(q) PROVE Results(r)' = Results(r) /\ parts'[r] = parts[r]
  BY <1>1, TakeResults DEF Results
<1>2. CASE Process
  <2> DEFINE m == Head(inbox)
  <2>1. m \in Back /\ m = inbox[1]
    BY <1>2, ProcessEffect
  <2>2. ~(m.req = r /\ m.kind \in AnswerKinds /\ Findable(r))
    BY <1>2, <2>1 DEF IsAnswer
  <2>3. m.kind \in AnswerKinds => m.req \in Reqs
    BY <2>1, BackFields
  <2>4. (ForRequest(m) \/ Connected(m) \/ Over(m) \/ Unreachable(m)) /\ got' = got
    BY <1>2 DEF Process, calls
  <2> HIDE DEF m
  <2>5. queue'[r] = queue[r] /\ parts'[r] = parts[r]
    <3>1. CASE ForRequest(m)
      <4>1. m.req \in Reqs /\ (m.req = r => ~Findable(m.req))
        BY <2>2, <2>3, <3>1 DEF ForRequest, AnswerKinds
      <4> QED
        BY <1>0, <3>1, <4>1 DEF ForRequest, Push
    <3>2. CASE ~ForRequest(m)
      BY <2>4, <3>2 DEF Connected, Over, Unreachable
    <3> QED
      BY <3>1, <3>2
  <2> QED
    BY <2>4, <2>5 DEF Results
<1>3. CASE (\E q \in Reqs : CallRecv(q)) \/ RecvResult
  <2>1. CASE \E q \in Reqs : Take(q)
    BY <1>1, <2>1
  <2>2. CASE UNCHANGED <<got, queue, parts>>
    BY <2>2 DEF Results
  <2>3. RecvResult => op.req \in Reqs
    BY DEF RecvResult, TypeInv, OpType
  <2> QED
    BY <1>3, <2>1, <2>2, <2>3 DEF CallRecv, RecvResult, requests
<1>4. CASE ~Process /\ ~RecvResult /\ ~(\E q \in Reqs : CallRecv(q))
  <2>1. UNCHANGED <<got, queue, parts>>
    BY <1>4 DEF Step, CallRequest, CallConnect, CallDisconnect, Finish, SendTop, RecvNull,
      ConnectReturns, RouterServe,
              DroneServe, Bounce, Expire, Die, RouterRefuse, Answer, requests, calls
  <2> QED
    BY <2>1 DEF Results
<1> QED
  BY <1>2, <1>3, <1>4

\* An answer that fits is taken as the next response, or the next part of one.
LEMMA ResultComes ==
    ASSUME TypeInv, Process, NEW r \in Reqs, IsAnswer(inbox, 1, r), Findable(r), Numbered(r),
           Fits(Open(r), Count(r), inbox[1])
    PROVE  /\ Numbered(r)'
           /\ \A x : FitsAfter(inbox[1], x) => Fits(Open(r)', Count(r)', x)
<1>0. /\ queue \in [Reqs -> Seq(Ks)] /\ got \in [Reqs -> Seq(Ks)] /\ parts \in [Reqs -> Seq(Ks)]
  BY DEF TypeInv, RequestType
<1> DEFINE m == Head(inbox)
<1>1. m \in Back /\ m = inbox[1]
  BY ProcessEffect
<1>2. m.req = r /\ m.kind \in AnswerKinds /\ m.k \in Ks /\ Fits(Open(r), Count(r), m)
  BY <1>1, BackFields DEF IsAnswer
<1>3. ForRequest(m) /\ got' = got
  <2>1. (ForRequest(m) \/ Connected(m) \/ Over(m) \/ Unreachable(m)) /\ got' = got
    BY DEF Process, calls
  <2> HIDE DEF m
  <2> QED
    BY <1>2, <2>1 DEF Connected, Over, Unreachable, AnswerKinds
<1> HIDE DEF m
<1> DEFINE g == got[r]
           q == queue[r]
           p == parts[r]
           n == Len(g \o q)
<1>4. /\ g \in Seq(Ks) /\ q \in Seq(Ks) /\ p \in Seq(Ks) /\ got'[r] = g
      /\ g \o q \in Seq(Ks) /\ n \in Nat /\ DOMAIN (g \o q) = 1 .. n
  BY <1>0, <1>3
<1>5. /\ \A i \in DOMAIN (g \o q) : (g \o q)[i] = i
      /\ \A i \in DOMAIN p : p[i] = n + 1
      /\ Open(r) <=> p # << >>
      /\ Count(r) = IF p # << >> THEN n + 1 ELSE n
  <2>1. Count(r) = n + IF p # << >> THEN 1 ELSE 0
    BY DEF Results, Open, Count
  <2>2. /\ \A i \in DOMAIN (g \o q) : (g \o q)[i] = i
        /\ \A i \in DOMAIN p : p[i] = n + 1
        /\ Open(r) <=> p # << >>
    BY DEF Numbered, Results, Open
  <2> HIDE DEF n, p, g, q
  <2>3. n \in Nat
    BY <1>4
  <2>4. Count(r) = IF p # << >> THEN n + 1 ELSE n
    BY <2>1, <2>3
  <2> QED
    BY <2>2, <2>4
<1> DEFINE u == queue'[r]
           v == parts'[r]
           l == Len(g \o u)
<1>6. /\ \A i \in DOMAIN (g \o u) : (g \o u)[i] = i
      /\ \A i \in DOMAIN v : v[i] = l + 1
      /\ m.kind \notin Final => (v # << >> <=> m.kind = "PARTIAL") /\ (IF v # << >> THEN l + 1 ELSE l) = m.k
      /\ l \in Nat
  <2>0. r \in Reqs /\ m.req = r /\ Findable(m.req)
    BY <1>2
  <2>1. CASE m.kind \in {"RESULT", "EXCEPTION"}
    <3>1. p = << >> /\ m.k = n + 1
      BY <1>2, <1>5, <2>1 DEF Fits
    <3>2. queue' = [queue EXCEPT ![r] = Append(@, m.k)] /\ parts' = parts
      BY <1>3, <2>0, <2>1 DEF ForRequest, Push
    <3>3. u = Append(q, m.k) /\ v = << >>
      BY <1>0, <3>1, <3>2
    <3> HIDE DEF g, q, p, u, v
    <3>4. /\ Len(g \o u) = n + 1 /\ DOMAIN (g \o u) = 1 .. n + 1
          /\ \A i \in DOMAIN (g \o q) : (g \o u)[i] = (g \o q)[i]
          /\ (g \o u)[n + 1] = n + 1
      <4>1. Len(g \o u) = n + 1 /\ DOMAIN (g \o u) = 1 .. Len(g \o u) /\ (g \o u)[Len(g \o u)] = m.k
        BY <1>2, <1>4, <3>3, ResultsGain
      <4>2. \A i \in DOMAIN (g \o q) : (g \o u)[i] = (g \o q)[i]
        BY <1>2, <1>4, <3>3, ResultsGain
      <4> QED
        BY <3>1, <4>1, <4>2
    <3>5. \A i \in DOMAIN (g \o u) : (g \o u)[i] = i
      <4>1. \A i \in 1 .. n + 1 : i = n + 1 \/ i \in 1 .. n
        BY <1>4
      <4> QED
        BY <1>4, <1>5, <3>4, <4>1
    <3>6. l = n + 1 /\ l = m.k
      BY <3>1, <3>4
    <3>7. m.kind # "PARTIAL"
      BY <2>1
    <3> HIDE DEF n, l
    <3> QED
      BY <1>4, <3>3, <3>5, <3>6, <3>7
  <2>2. CASE m.kind = "COMPLETE"
    <3>1. queue' = queue /\ parts' = parts
      BY <1>3, <2>0, <2>2 DEF ForRequest
    <3>2. p = << >>
      BY <1>2, <1>5, <2>2 DEF Fits
    <3>3. u = q /\ v = p
      BY <3>1
    <3> HIDE DEF g, q, p, u, v
    <3>4. l = n
      BY <3>3
    <3> QED
      BY <1>4, <1>5, <2>2, <3>2, <3>3, <3>4 DEF Final
  <2>3. CASE m.kind = "PARTIAL"
    <3>1. queue' = queue /\ parts' = [parts EXCEPT ![r] = Append(@, m.k)]
      BY <1>3, <2>0, <2>3 DEF ForRequest
    <3>2. m.k = n + 1
      BY <1>2, <1>5, <2>3 DEF Fits
    <3>3. u = q /\ v = Append(p, m.k)
      BY <1>0, <3>1
    <3> HIDE DEF g, q, p, u, v
    <3>4. l = n
      BY <3>3
    <3>5. v # << >> /\ \A i \in DOMAIN v : v[i] = m.k \/ (i \in DOMAIN p /\ v[i] = p[i])
      BY <1>2, <1>4, <3>3
    <3>6. \A i \in DOMAIN v : v[i] = n + 1
      BY <1>5, <3>2, <3>5
    <3> QED
      BY <1>4, <1>5, <2>3, <3>2, <3>3, <3>4, <3>5, <3>6
  <2>4. CASE m.kind = "NOCONTENT"
    <3>1. p # << >> /\ m.k = n + 1
      BY <1>2, <1>5, <2>4 DEF Fits
    <3>2. queue' = [queue EXCEPT ![r] = Append(@, Stitched(p))] /\ parts' = [parts EXCEPT ![r] = << >>]
      BY <1>3, <2>0, <2>4, <3>1 DEF ForRequest, Push
    <3>3. u = Append(q, Stitched(p)) /\ v = << >>
      BY <1>0, <3>2
    <3>4. Stitched(p) = n + 1
      <4> HIDE DEF p, n
      <4>1. 1 \in DOMAIN p
        BY <1>4, <3>1
      <4>2. \A i \in DOMAIN p : p[i] = p[1]
        BY <1>5, <4>1
      <4> QED
        BY <1>5, <4>1, <4>2 DEF Stitched
    <3> HIDE DEF g, q, p, u, v
    <3>5. /\ Len(g \o u) = n + 1 /\ DOMAIN (g \o u) = 1 .. n + 1
          /\ \A i \in DOMAIN (g \o q) : (g \o u)[i] = (g \o q)[i]
          /\ (g \o u)[n + 1] = n + 1
      <4>0. m.k \in Ks /\ u = Append(q, m.k)
        BY <1>2, <3>1, <3>3, <3>4
      <4>1. Len(g \o u) = n + 1 /\ DOMAIN (g \o u) = 1 .. Len(g \o u) /\ (g \o u)[Len(g \o u)] = m.k
        BY <4>0, <1>4, ResultsGain
      <4>2. \A i \in DOMAIN (g \o q) : (g \o u)[i] = (g \o q)[i]
        BY <4>0, <1>4, ResultsGain
      <4> QED
        BY <3>1, <4>1, <4>2
    <3>6. \A i \in DOMAIN (g \o u) : (g \o u)[i] = i
      <4>1. \A i \in 1 .. n + 1 : i = n + 1 \/ i \in 1 .. n
        BY <1>4
      <4> QED
        BY <1>4, <1>5, <3>5, <4>1
    <3>7. l = n + 1 /\ l = m.k
      BY <3>1, <3>5
    <3>8. m.kind # "PARTIAL"
      BY <2>4
    <3> HIDE DEF n, l
    <3> QED
      BY <1>4, <3>3, <3>6, <3>7, <3>8
  <2> QED
    BY <1>2, <2>1, <2>2, <2>3, <2>4 DEF AnswerKinds
<1>7. Results(r)' = g \o u /\ (Open(r)' <=> v # << >>) /\ parts'[r] = v
        /\ Count(r)' = IF v # << >> THEN l + 1 ELSE l
  <2>1. Results(r)' = g \o u /\ (Open(r)' <=> v # << >>) /\ parts'[r] = v
          /\ Count(r)' = l + IF v # << >> THEN 1 ELSE 0
    BY <1>4 DEF Results, Open, Count
  <2> HIDE DEF g, u, v, l
  <2>2. l \in Nat
    BY <1>6
  <2> QED
    BY <2>1, <2>2
<1>8. Numbered(r)'
  BY <1>6, <1>7 DEF Numbered
<1>9. ASSUME NEW x, FitsAfter(inbox[1], x) PROVE Fits(Open(r)', Count(r)', x)
  <2>1. m.kind \notin Final /\ Fits(m.kind = "PARTIAL", m.k, x)
    BY <1>1, <1>9 DEF FitsAfter
  <2>2. Count(r)' = m.k /\ (Open(r)' <=> m.kind = "PARTIAL")
    BY <1>6, <1>7, <2>1
  <2> DEFINE o == Open(r)'
             c == Count(r)'
  <2>3. Count(r)' = m.k /\ Open(r)' = (m.kind = "PARTIAL")
    <3>1. Open(r)' \in BOOLEAN
      BY DEF Open
    <3> QED
      BY <2>2, <3>1
  <2> QED
    BY <2>1, <2>3
<1> QED
  BY <1>8, <1>9

\* What a worker answers, it did before, or has begun.
LEMMA WorkOf ==
    ASSUME TypeInv, WorkInv, Step, NEW w \in work'
    PROVE  \/ w \in work
           \/ w.todo \in Answers /\ inbox' = inbox
                /\ (In(toRouter, w.req) \/ \E d \in Drones : In(toDrone[d], w.req))
           \/ \E v \in work : Answer(v) /\ v.req = w.req
<1>1. SUFFICES ASSUME w \notin work
      PROVE  \/ w.todo \in Answers /\ inbox' = inbox
                  /\ (In(toRouter, w.req) \/ \E d \in Drones : In(toDrone[d], w.req))
             \/ \E v \in work : Answer(v) /\ v.req = w.req
  OBVIOUS
<1>2. ASSUME NEW d, NEW a \in Answers, NEW m, Handles(d, a, m) \/ Ignores(d)
      PROVE  m.type = "REQUEST" /\ w.req = m.req /\ w.todo \in Answers /\ inbox' = inbox
  <2>1. m.type = "REQUEST" /\ Begin(d, m.req, a) /\ inbox' = inbox
    BY <1>1, <1>2 DEF Handles, Ignores
  <2> DEFINE v == [drone |-> d, req |-> m.req, todo |-> a]
  <2>2. w = v
    BY <1>1, <2>1 DEF Begin
  <2> QED
    BY <2>1, <2>2
<1>3. ASSUME NEW d \in Drones, NEW a \in Answers, RouterServe(d, a)
      PROVE  In(toRouter, w.req) /\ w.todo \in Answers /\ inbox' = inbox
  <2> DEFINE m == Head(toRouter)
  <2>1. Handles(d, a, m) /\ m = toRouter[1] /\ 1 \in DOMAIN toRouter
    BY <1>3, RouterServeEffect DEF Shorter
  <2> HIDE DEF m
  <2>2. m.type = "REQUEST" /\ w.req = m.req /\ w.todo \in Answers /\ inbox' = inbox
    BY <1>2, <2>1
  <2> QED
    BY <2>1, <2>2 DEF In
<1>4. ASSUME NEW d \in Drones, NEW a \in Answers, DroneServe(d, a)
      PROVE  In(toDrone[d], w.req) /\ w.todo \in Answers /\ inbox' = inbox
  <2> DEFINE m == Head(toDrone[d])
  <2>1. (Handles(d, a, m) \/ Ignores(d)) /\ m = toDrone[d][1] /\ 1 \in DOMAIN toDrone[d]
    BY <1>4, DroneServeEffect DEF Shorter
  <2> HIDE DEF m
  <2>2. m.type = "REQUEST" /\ w.req = m.req /\ w.todo \in Answers /\ inbox' = inbox
    BY <1>2, <2>1
  <2> QED
    BY <2>1, <2>2 DEF In
<1>5. ASSUME NEW x \in work, Answer(x) PROVE x.req = w.req
  <2> DEFINE v == [drone |-> x.drone, req |-> x.req, todo |-> Tail(x.todo)]
  <2>1. work' = work \ {x} \/ work' = (work \ {x}) \cup {v}
    BY <1>5, AnswerEffect
  <2>2. w = v
    BY <1>1, <2>1
  <2> QED
    BY <2>2
<1>6. CASE ~(\E x \in work : Answer(x)) /\ ~\E d \in Drones, a \in Answers : RouterServe(d, a)
             \/ DroneServe(d, a)
  BY <1>1, <1>6 DEF Step, CallRequest, CallConnect, CallDisconnect, CallRecv, Take, Finish, SendTop,
    Process, RecvResult, RecvNull,
         ConnectReturns, Bounce, Expire, Die, RouterRefuse, server
<1> QED
  BY <1>3, <1>4, <1>5, <1>6

\* A request on its way is not begun, nor complete.
LEMMA OnWayQuiet ==
    ASSUME Placed, NEW r \in Reqs, OnWay(r)
    PROVE  ~complete[r] /\ ~Worked(r)
<1>1. ~complete[r]
  BY DEF OnWay, Placed, Settled
<1>2. OnePlace(r)
  BY <1>1 DEF Placed
<1>3. Names(stack, r) \/ Names(toRouter, r) \/ Droned(r) \/ Ended(inbox, r)
  BY InNames DEF OnWay, Droned, Ended, Ends
<1> QED
  BY <1>1, <1>2, <1>3 DEF OnePlace

LEMMA SameFits ==
    ASSUME NEW a, NEW b, a.kind = b.kind, a.k = b.k
    PROVE  /\ \A o, n : Fits(o, n, a) <=> Fits(o, n, b)
           /\ \A l : FitsAfter(l, a) <=> FitsAfter(l, b)
           /\ \A m : FitsAfter(a, m) <=> FitsAfter(b, m)
  BY DEF Fits, FitsAfter

\* Nothing has come of a request on its way, and what comes then is the first of an answer.
LEMMA UntouchedQuiet ==
    ASSUME TypeInv, WorkInv, Step, Placed, NEW r \in Reqs, OnWay(r), Untouched(r)
    PROVE  Untouched(r)' /\ Sequel(r)' /\ Results(r)' = << >> /\ parts'[r] = << >>
<1>1. Results(r) = << >> /\ parts[r] = << >> /\ \A i \in DOMAIN inbox : ~IsAnswer(inbox, i, r)
  BY DEF Untouched
<1>2. ~Worked(r)
  BY OnWayQuiet
<1>3. ~(Process /\ IsAnswer(inbox, 1, r))
  BY <1>1, ProcessEffect
<1>4. Results(r)' = << >> /\ parts'[r] = << >>
  BY <1>1, <1>3, ResultsSame
<1>5. \A i \in DOMAIN inbox' : ~IsAnswer(inbox', i, r)
  <2>1. CASE inbox' = inbox
    BY <1>1, <2>1
  <2>2. CASE Process
    BY <1>1, <2>2, ProcessShifts DEF IsAnswer
  <2>3. CASE \E e \in Back : Longer(Back, inbox, e, inbox') /\ Comes(e)
    <3>1. PICK e \in Back : Longer(Back, inbox, e, inbox') /\ Comes(e)
      BY <2>3
    <3>2. ~(e.req = r /\ e.kind \in AnswerKinds)
      BY <1>2, <3>1 DEF Comes, AnswerKinds, Worked
    <3> QED
      BY <1>1, <3>1, <3>2 DEF Longer, IsAnswer
  <2> QED
    BY <2>1, <2>2, <2>3, InboxStep
<1>6. Count(r)' = 0 /\ Open(r)' = FALSE
  BY <1>4 DEF Count, Open
<1>7. ASSUME NEW w \in work', w.req = r PROVE Fits(FALSE, 0, w.todo[1])
  <2>1. w.todo \in Answers
    BY <1>2, <1>7, WorkOf DEF Worked
  <2> QED
    BY <2>1, AnswerType
<1>8. Sequel(r)'
  <2>1. InOrder(inbox', r, FALSE, 0)
    BY <1>5 DEF InOrder
  <2>2. \A w \in work' : w.req = r => MayFollow(inbox', r, FALSE, 0, w.todo[1])
    BY <1>5, <1>7 DEF MayFollow
  <2> QED
    BY <1>6, <2>1, <2>2 DEF Sequel
<1> QED
  BY <1>4, <1>5, <1>8 DEF Untouched

\* A request that can be found after a step and is not on its way could be found before.
LEMMA FoundBefore ==
    ASSUME TypeInv, OwnSend, Step, NEW r \in Reqs, Findable(r)', ~OnWay(r)
    PROVE  Findable(r)
<1>1. Waited(r)'
  BY DEF Waited
<1>2. CASE CallRequest
  <2>1. hash' = hash
    BY <1>2 DEF CallRequest, requests
  <2> QED
    BY <2>1 DEF Findable, Slot
<1>3. CASE op = [name |-> "request", req |-> r]
  <2>1. op.name = "request" /\ op.req = r
    BY <1>3
  <2>2. 1 \in DOMAIN stack /\ stack[1] = [type |-> "REQUEST", req |-> r]
    BY <2>1 DEF OwnSend, TypeInv, StackType
  <2>3. In(stack, r)
    BY <2>2 DEF In
  <2> QED
    BY <2>3 DEF OnWay
<1> QED
  BY <1>1, <1>2, <1>3, WaitedStep DEF Waited

\* What comes next of a request that can be found follows what came before.
LEMMA SequelStep ==
    ASSUME TypeInv, WorkInv, Step, Placed, NEW r \in Reqs, ~OnWay(r), Findable(r), Numbered(r), Sequel(r)
    PROVE  Numbered(r)' /\ Sequel(r)'
<1>1. /\ InOrder(inbox, r, Open(r), Count(r))
      /\ \A w \in work : w.req = r => MayFollow(inbox, r, Open(r), Count(r), w.todo[1])
  BY DEF Sequel
<1>2. ASSUME NEW w \in work', w.req = r PROVE w \in work \/ \E v \in work : Answer(v) /\ v.req = r
  BY <1>2, WorkOf DEF OnWay
<1>3. CASE ~(Process /\ IsAnswer(inbox, 1, r))
  <2>1. Results(r)' = Results(r) /\ parts'[r] = parts[r]
    BY <1>3, ResultsSame
  <2>2. Numbered(r)' /\ Count(r)' = Count(r) /\ Open(r)' = Open(r)
    BY <2>1 DEF Numbered, Count, Open
  <2> DEFINE o == Open(r)
             n == Count(r)
  <2>3. SUFFICES InOrder(inbox', r, o, n) /\ \A w \in work' : w.req = r
                   => MayFollow(inbox', r, o, n, w.todo[1])
    BY <2>2 DEF Sequel
  <2>4. InOrder(inbox, r, o, n) /\ \A w \in work : w.req = r => MayFollow(inbox, r, o, n, w.todo[1])
    BY <1>1
  <2> HIDE DEF o, n
  <2>5. ASSUME NEW v \in work, Answer(v), v.req = r
        PROVE  InOrder(inbox', r, o, n) /\ \A w \in work' : w.req = r => MayFollow(inbox', r, o, n, w.todo[1])
    <3>1. PICK e \in Back :
             /\ Longer(Back, inbox, e, inbox') /\ e.req = r /\ e.kind \in AnswerKinds
             /\ e.kind = v.todo[1].kind /\ e.k = v.todo[1].k
             /\ \/ work' = work \ {v}
                \/ /\ FitsAfter(v.todo[1], Tail(v.todo)[1])
                   /\ work' = (work \ {v}) \cup {[drone |-> v.drone, req |-> v.req, todo |-> Tail(v.todo)]}
      BY <2>5, AnswerEffect
    <3>2. MayFollow(inbox, r, o, n, v.todo[1])
      BY <2>4, <2>5
    <3>3. MayFollow(inbox, r, o, n, e)
      BY <3>1, <3>2, SameFits DEF MayFollow
    <3>4. InOrder(inbox', r, o, n) /\ \A m : FitsAfter(e, m) => MayFollow(inbox', r, o, n, m)
      BY <2>4, <3>1, <3>3, AnswerFollows
    <3>5. ASSUME NEW w \in work', w.req = r PROVE FitsAfter(e, w.todo[1])
      <4>1. \A x, y \in work : x.req = r /\ y.req = r => x = y
        BY <2>5 DEF Placed, Settled, OnePlace, Worked
      <4>2. w \notin work \ {v}
        BY <2>5, <3>5, <4>1
      <4> DEFINE x == [drone |-> v.drone, req |-> v.req, todo |-> Tail(v.todo)]
      <4>3. w = x /\ FitsAfter(v.todo[1], Tail(v.todo)[1])
        BY <3>1, <4>2
      <4>4. FitsAfter(v.todo[1], w.todo[1])
        BY <4>3
      <4> QED
        BY <3>1, <4>4, SameFits
    <3> QED
      BY <3>4, <3>5
  <2>6. CASE ~\E v \in work : Answer(v) /\ v.req = r
    <3>1. \A w \in work' : w.req = r => w \in work
      BY <1>2, <2>6
    <3>2. CASE inbox' = inbox
      BY <2>4, <3>1, <3>2
    <3>3. CASE Process
      <4>1. ~IsAnswer(inbox, 1, r) /\ Shorter(Back, inbox, inbox')
        BY <1>3, <3>3, ProcessEffect
      <4>2. InOrder(inbox', r, o, n) /\ \A m : MayFollow(inbox, r, o, n, m) => MayFollow(inbox', r, o, n, m)
        BY <2>4, <4>1, OtherLeaves
      <4> QED
        BY <2>4, <3>1, <4>2
    <3>4. ASSUME NEW e \in Back, Longer(Back, inbox, e, inbox'), Comes(e)
          PROVE  InOrder(inbox', r, o, n) /\ \A w \in work' : w.req = r
                   => MayFollow(inbox', r, o, n, w.todo[1])
      <4>1. ~(e.req = r /\ e.kind \in AnswerKinds)
        BY <2>6, <3>4 DEF Comes, AnswerKinds
      <4>2. InOrder(inbox', r, o, n) /\ \A m : MayFollow(inbox, r, o, n, m) => MayFollow(inbox', r, o, n, m)
        BY <2>4, <3>4, <4>1, OtherFollows
      <4> QED
        BY <2>4, <3>1, <4>2
    <3> QED
      BY <3>2, <3>3, <3>4, InboxStep
  <2> QED
    BY <2>5, <2>6
<1>4. CASE Process /\ IsAnswer(inbox, 1, r)
  <2>1. /\ Shorter(Back, inbox, inbox') /\ 1 \in DOMAIN inbox
    BY <1>4, ProcessEffect
  <2>2. ~Among(inbox, 0, 1, r)
    <3>1. \A l \in DOMAIN inbox : l \in Nat
      BY <2>1 DEF Shorter
    <3> QED
      BY <3>1 DEF Among
  <2>3. Fits(Open(r), Count(r), inbox[1])
    BY <1>1, <1>4, <2>1, <2>2 DEF InOrder
  <2>4. Numbered(r)' /\ \A x : FitsAfter(inbox[1], x) => Fits(Open(r)', Count(r)', x)
    BY <1>4, <2>3, ResultComes
  <2>5. work' = work
    BY <1>4 DEF Process, server
  <2> DEFINE o == Open(r)
             n == Count(r)
             o2 == Open(r)'
             n2 == Count(r)'
  <2>6. /\ \A x : FitsAfter(inbox[1], x) => Fits(o2, n2, x)
        /\ InOrder(inbox, r, o, n) /\ \A w \in work : w.req = r => MayFollow(inbox, r, o, n, w.todo[1])
    BY <1>1, <2>4
  <2>7. SUFFICES InOrder(inbox', r, o2, n2) /\ \A w \in work' : w.req = r
                   => MayFollow(inbox', r, o2, n2, w.todo[1])
    BY <2>4 DEF Sequel
  <2> HIDE DEF o, n, o2, n2
  <2>8. InOrder(inbox', r, o2, n2) /\ \A m : MayFollow(inbox, r, o, n, m) => MayFollow(inbox', r, o2, n2, m)
    BY <1>4, <2>1, <2>6, AnswerLeaves
  <2> QED
    BY <2>5, <2>6, <2>8
<1> QED
  BY <1>3, <1>4

LEMMA ResultsStep ==
    ASSUME TypeInv, WorkInv, OwnSend, NamedDone, Placed, Fresh, ResultsInv, Step
    PROVE  ResultsInv'
<1>1. ASSUME NEW r \in Reqs, r \notin lost'
      PROVE  Numbered(r)' /\ (OnWay(r)' => Untouched(r)') /\ (Findable(r)' => Sequel(r)')
  <2>1. Numbered(r) /\ (OnWay(r) => Untouched(r)) /\ (Findable(r) => Sequel(r))
    BY <1>1, CompleteStays DEF ResultsInv
  <2>2. CASE OnWay(r)
    <3>1. Untouched(r)' /\ Sequel(r)' /\ Results(r)' = << >> /\ parts'[r] = << >>
      BY <2>1, <2>2, UntouchedQuiet
    <3>2. Numbered(r)'
      BY <3>1 DEF Numbered
    <3> QED
      BY <3>1, <3>2
  <2>3. CASE ~OnWay(r)
    <3>1. OnWay(r)' => Untouched(r)'
      <4>1. SUFFICES ASSUME OnWay(r)' PROVE Untouched(r)'
        OBVIOUS
      <4>2. CallRequest /\ r = trace + 1
        BY <1>1, <2>3, <4>1, OnWayStep
      <4>3. r > trace
        BY <4>2 DEF TypeInv, SessionType
      <4>4. got[r] = << >> /\ queue[r] = << >> /\ parts[r] = << >> /\ ~Names(inbox, r)
        BY <4>3 DEF Fresh
      <4>5. got'[r] = << >> /\ queue'[r] = << >> /\ parts'[r] = << >> /\ inbox' = inbox
        BY <4>2, <4>4 DEF CallRequest, requests, net
      <4>6. << >> \o << >> = << >>
        OBVIOUS
      <4> QED
        BY <4>4, <4>5, <4>6 DEF Untouched, Results, Names, IsAnswer
    <3>2. CASE Findable(r)
      BY <2>1, <2>3, <3>1, <3>2, SequelStep
    <3>3. CASE ~Findable(r)
      <4>1. ~Findable(r)'
        BY <2>3, <3>3, FoundBefore
      <4>2. Results(r)' = Results(r) /\ parts'[r] = parts[r]
        BY <3>3, ResultsSame
      <4>3. Numbered(r)'
        BY <2>1, <4>2 DEF Numbered
      <4> QED
        BY <3>1, <4>1, <4>3
    <3> QED
      BY <3>2, <3>3
  <2> QED
    BY <2>2, <2>3
<1> QED
  BY <1>1 DEF ResultsInv

-----------------------------------------------------------------------------
(* The invariants, and what they mean.                                     *)

LEMMA CalmStep ==
    ASSUME TypeInv, TypeInv', WorkInv, OwnSend, Calm, CalmInv, Step
    PROVE  CalmInv'
<1>1. Placed'
  BY PlacedStep
<1>2. NamedDone'
  BY NamedDoneStep
<1>3. Fresh'
  BY FreshStep DEF CalmInv
<1>4. Begun'
  BY <1>1, BegunStep
<1>5. LostQuiet'
  BY LostQuietStep
<1>6. Connecting'
  <2>1. Connecting /\ AtPeer /\ Fresh
    BY DEF CalmInv
  <2>2. ConnectWaits' /\ OkAwaited' /\ AskedOnce'
    BY <2>1, ConnectWaitsStep, OkAwaitedStep, AskedOnceStep
  <2>3. RouterLeft' /\ AskedByRouter' /\ ConnectedQuiet'
    BY <2>1, RouterLeftStep, AskedByRouterStep, ConnectedQuietStep DEF Connecting
  <2> QED
    BY <2>2, <2>3 DEF Connecting
<1>7. AtPeer'
  BY AtPeerStep
<1>8. ResultsInv'
  BY ResultsStep DEF CalmInv
<1> QED
  BY <1>1, <1>2, <1>3, <1>4, <1>5, <1>6, <1>7, <1>8 DEF CalmInv

LEMMA CalmInit == Init => CalmInv /\ WorkInv /\ OwnSend
<1> SUFFICES ASSUME Init PROVE CalmInv /\ WorkInv /\ OwnSend
  OBVIOUS
<1>1. /\ stack = << >> /\ inbox = << >> /\ toRouter = << >> /\ toDrone = [d \in Drones |-> << >>]
      /\ work = {} /\ lost = {} /\ op.name = "none" /\ state = "DISCONNECTED" /\ terr = FALSE
      /\ complete = [r \in Reqs |-> FALSE] /\ starts = [r \in Reqs |-> 0]
      /\ got = [r \in Reqs |-> << >>] /\ queue = [r \in Reqs |-> << >>] /\ parts = [r \in Reqs |-> << >>]
  BY DEF Init
<1>2. DOMAIN << >> = {} /\ \A d \in Drones : toDrone[d] = << >>
  BY <1>1
<1>3. \A r : ~Names(<< >>, r) /\ ~In(<< >>, r) /\ ~Ended(<< >>, r) /\ Once(<< >>, r)
  BY <1>2 DEF Names, In, Ended, Once
<1>4. \A r : ~Worked(r) /\ ~Droned(r)
  BY <1>1, <1>2, <1>3 DEF Worked, Droned
<1>5. Placed
  <2>1. \A r \in Reqs : OnePlace(r)
    BY <1>1, <1>2, <1>3, <1>4 DEF OnePlace
  <2>2. \A r \in Reqs : EndsLast(r)
    BY <1>1, <1>2 DEF EndsLast
  <2> QED
    BY <1>1, <2>1, <2>2 DEF Placed
<1>6. NamedDone
  BY <1>1, <1>2 DEF NamedDone, Bystanders
<1>7. Fresh
  BY <1>1, <1>2, <1>3, <1>4 DEF Fresh
<1>8. Begun
  BY <1>1 DEF Begun
<1>9. LostQuiet /\ AtPeer
  BY <1>1 DEF LostQuiet, AtPeer
<1>10. Connecting
  BY <1>1, <1>2 DEF Connecting, ConnectWaits, OkAwaited, AskedOnce, RouterLeft, AskedByRouter,
    ConnectedQuiet, RouterBounce
<1>11. WorkInv /\ OwnSend
  BY <1>1, <1>2 DEF WorkInv, OwnSend
<1>12. ResultsInv
  <2>1. << >> \o << >> = << >>
    OBVIOUS
  <2>2. ASSUME NEW r \in Reqs PROVE Results(r) = << >> /\ parts[r] = << >>
    BY <1>1, <2>1 DEF Results
  <2>3. \A r \in Reqs : Numbered(r) /\ Untouched(r)
    BY <1>1, <1>2, <2>2 DEF Numbered, Untouched
  <2>4. ASSUME NEW r \in Reqs PROVE Sequel(r)
    BY <1>1, <1>2 DEF Sequel, InOrder
  <2> QED
    BY <2>3, <2>4 DEF ResultsInv
<1> QED
  BY <1>5, <1>6, <1>7, <1>8, <1>9, <1>10, <1>11, <1>12 DEF CalmInv

\* As long as no worker waits in vain for the next request.
PatientInv == HeldInv /\ WaitInv

\* The inductive invariant.
BaseInv == TypeInv /\ WorkInv /\ OwnSend /\ (Calm => CalmInv) /\ (Calm /\ Patient => PatientInv)

LEMMA PatientInit == Init => PatientInv
<1> SUFFICES ASSUME Init PROVE PatientInv
  OBVIOUS
<1>1. /\ inbox = << >> /\ toDrone = [d \in Drones |-> << >>] /\ state = "DISCONNECTED"
      /\ hash = [s \in 0 .. HashSize - 1 |-> << >>] /\ trace = 0
  BY DEF Init
<1>2. DOMAIN << >> = {} /\ \A d \in Drones : toDrone[d] = << >>
  BY <1>1
<1>3. HeldInv
  BY <1>1, <1>2 DEF HeldInv
<1>4. WaitInv
  BY <1>1 DEF WaitInv, Reqs
<1> QED
  BY <1>3, <1>4 DEF PatientInv

LEMMA BaseInit == Init => BaseInv
  BY TypeInit, CalmInit, PatientInit DEF BaseInv

LEMMA BaseStutters == ASSUME BaseInv, UNCHANGED vars PROVE BaseInv'
<1> USE DEF vars, session, requests, calls, net, server, history
<1>1. TypeInv'
  BY DEF BaseInv, TypeInv, SessionType, RequestType, HashType, OpType, StackType, NetType,
    InboxType, ServerType, HistoryType
<1>2. WorkInv' /\ OwnSend'
  BY DEF BaseInv, WorkInv, OwnSend
<1>3. ASSUME Calm' PROVE CalmInv'
  <2>1. CalmInv
    BY <1>3 DEF BaseInv, Calm
  <2>2. Placed'
    BY <2>1 DEF CalmInv, Placed, Settled, OnePlace, EndsLast, Worked, Droned
  <2>3. NamedDone' /\ Begun'
    BY <2>1 DEF CalmInv, NamedDone, Bystanders, Begun, OnWay
  <2>4. Fresh' /\ LostQuiet' /\ AtPeer'
    BY <2>1 DEF CalmInv, Fresh, LostQuiet, Worked, Droned, AtPeer
  <2>5. Connecting'
    BY <2>1 DEF CalmInv, Connecting, ConnectWaits, OkAwaited, AskedOnce, RouterLeft, AskedByRouter,
      ConnectedQuiet,
                AllComplete, AllDead, Ok, Asks, RouterBounce
  <2>6. ResultsInv'
    <3>1. ASSUME NEW r \in Reqs
          PROVE  /\ (Numbered(r)' <=> Numbered(r)) /\ (OnWay(r)' <=> OnWay(r))
                      /\ (Untouched(r)' <=> Untouched(r))
                 /\ (Findable(r)' <=> Findable(r)) /\ (Sequel(r)' <=> Sequel(r))
      <4>1. Results(r)' = Results(r) /\ Open(r)' = Open(r)
        BY DEF Results, Open
      <4>2. Count(r)' = Count(r) /\ (Numbered(r)' <=> Numbered(r)) /\ (Untouched(r)' <=> Untouched(r))
        BY <4>1 DEF Count, Numbered, Untouched
      <4>3. Sequel(r)' <=> Sequel(r)
        BY <4>1, <4>2 DEF Sequel
      <4>4. (OnWay(r)' <=> OnWay(r)) /\ (Findable(r)' <=> Findable(r))
        BY DEF OnWay, Findable, Slot
      <4> QED
        BY <4>2, <4>3, <4>4
    <3>2. ResultsInv
      BY <2>1 DEF CalmInv
    <3> QED
      BY <3>1, <3>2 DEF ResultsInv
  <2> QED
    BY <2>2, <2>3, <2>4, <2>5, <2>6 DEF CalmInv
<1>4. ASSUME Calm', Patient' PROVE PatientInv'
  <2>1. PatientInv
    BY <1>4 DEF BaseInv, Calm, Patient
  <2>2. HeldInv'
    BY <2>1 DEF PatientInv, HeldInv, Keeps, Ok
  <2>3. WaitInv'
    BY <2>1 DEF PatientInv, WaitInv, Waited, Findable, Slot, Somewhere, Ending, Sent, Worked
  <2> QED
    BY <2>2, <2>3 DEF PatientInv
<1> QED
  BY <1>1, <1>2, <1>3, <1>4 DEF BaseInv

LEMMA BaseStep == BaseInv /\ [Next]_vars => BaseInv'
<1> SUFFICES ASSUME BaseInv, [Next]_vars PROVE BaseInv'
  OBVIOUS
<1>1. CASE Next
  <2>1. Step /\ faults' = faults
    BY <1>1 DEF Next
  <2>2. TypeInv /\ WorkInv /\ OwnSend /\ (Calm => CalmInv) /\ (Calm /\ Patient => PatientInv)
    BY DEF BaseInv
  <2>3. TypeInv'
    BY <2>1, <2>2, TypeStep
  <2>4. WorkInv' /\ OwnSend'
    BY <2>1, <2>2, <2>3, WorkStep, OwnStep
  <2>5. Calm' => CalmInv'
    BY <2>1, <2>2, <2>3, CalmStep DEF Calm
  <2>6. ASSUME Calm', Patient' PROVE PatientInv'
    <3>1. Calm /\ Patient /\ CalmInv /\ HeldInv /\ WaitInv
      BY <2>1, <2>2, <2>6 DEF Calm, Patient, PatientInv
    <3>2. HeldInv'
      BY <2>1, <2>2, <2>3, <3>1, HeldStep
    <3>3. WaitInv'
      BY <2>1, <2>2, <3>1, WaitStep
    <3> QED
      BY <3>2, <3>3 DEF PatientInv
  <2> QED
    BY <2>3, <2>4, <2>5, <2>6 DEF BaseInv
<1>2. CASE UNCHANGED vars
  BY <1>2, BaseStutters
<1> QED
  BY <1>1, <1>2

\* The inductive invariant holds in every state that the session comes to.
THEOREM BaseAlways == Spec => []BaseInv
  BY BaseInit, BaseStep, PTL DEF Spec

\* Every variable keeps its type, also when connects and disconnects overlap with answers.
THEOREM TypesHold == Spec => []TypeOK
<1>1. BaseInv => TypeOK
  BY TypeIsOK DEF BaseInv
<1> QED
  BY <1>1, BaseAlways, PTL

\* A request is run a second time only if the worker that began it died.
THEOREM RunsOnce == Spec => [](Calm => RunOnce)
<1>1. BaseInv => (Calm => RunOnce)
  BY DEF BaseInv, CalmInv, Begun, RunOnce
<1> QED
  BY <1>1, BaseAlways, PTL

\* Results reach the caller as the method made them: in order, none twice and none missing
\* before another, those that came in parts put together (_osrf_app_request_push_queue).
THEOREM ResultsComeAsMade == Spec => [](Calm => ResultsAsMadeTyped)
<1>1. ASSUME BaseInv, Calm PROVE ResultsAsMadeTyped
  <2>1. TypeOK
    BY <1>1, TypeIsOK DEF BaseInv
  <2>2. ResultsAsMade
    BY <1>1 DEF BaseInv, CalmInv, ResultsInv, Numbered, Results, ResultsAsMade
  <2> QED
    BY <2>1, <2>2 DEF ResultsAsMadeTyped
<1>2. BaseInv => (Calm => ResultsAsMadeTyped)
  BY <1>1
<1> QED
  BY <1>2, BaseAlways, PTL

\* The session that is connected is so to a worker that has it, and sends its requests there
\* (osrf_app_session_set_remote, osrfAppSessionConnect).
THEOREM PeerIsRight == Spec => [](Calm => Peer)
<1>1. ASSUME BaseInv, Calm PROVE Peer
  <2>1. RemoteIsPeer
    BY <1>1 DEF BaseInv, CalmInv, AtPeer, RemoteIsPeer
  <2>2. PeerHasItUnexpired
    BY <1>1 DEF BaseInv, PatientInv, HeldInv, Keeps, Patient, PeerHasItUnexpired, PeerHasSession
  <2> QED
    BY <2>1, <2>2 DEF Peer
<1>2. BaseInv => (Calm => Peer)
  BY <1>1
<1> QED
  BY <1>2, BaseAlways, PTL

\* A request that is not complete is on its way, being answered, coming back, or was lost with
\* a worker that died: no redirect and no answer that is dropped leaves its caller in vain.
THEOREM NothingForgotten == Spec => [](Calm => NoneForgottenUnexpired)
<1>1. ASSUME BaseInv, Calm PROVE NoneForgottenUnexpired
  <2>1. SUFFICES ASSUME Patient PROVE NoneForgotten
    BY DEF NoneForgottenUnexpired, Patient
  <2>2. TypeInv /\ WaitInv
    BY <1>1, <2>1 DEF BaseInv, PatientInv
  <2> QED
    BY <2>2, WaitedIsThere
<1>2. BaseInv => (Calm => NoneForgottenUnexpired)
  BY <1>1
<1> QED
  BY <1>2, BaseAlways, PTL
=============================================================================
