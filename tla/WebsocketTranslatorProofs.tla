--------------------- MODULE WebsocketTranslatorProofs ---------------------
(***************************************************************************)
(* Proofs about WebsocketTranslator, for any number of callers, sessions   *)
(* and messages, and any interleaving of the three threads: as long as the *)
(* mutex keeps the threads apart, a message goes to the worker that the    *)
(* caller was told it is connected to, if there was room to remember it,   *)
(* and a caller that waits for an answer is not closed.                    *)
(*                                                                         *)
(* The cache and what the caller was told are two pieces of state that     *)
(* change at different moments; the invariant says what may be between     *)
(* them (Agreed).  The count of requests in flight is compared with the    *)
(* set of those that are waited for (FlightInv), which needs that each     *)
(* answer on its way is the only one to its request (OnceInv).             *)
(***************************************************************************)
EXTENDS WebsocketTranslator, FiniteSetTheorems, TLAPS

-----------------------------------------------------------------------------
(* The invariant.                                                          *)

\* The responder has a response.
Holding == resp \in {"got", "locking", "body", "relay"}

\* What the threads have in hand: the message of the caller that is there, and a response.
HandsInv ==
    /\ main \in {"locking", "lookup", "relay"} =>
         inMsg.thread \in Threads /\ inMsg.batch \in Batches /\ inMsg.thread[1] = client /\ sent > 0
    /\ Holding => tmsg \in Response
    /\ main # "away" => client > 0
    /\ IsFiniteSet(Cached)

\* Two threads are never in their critical sections without being noticed.
AloneInv ==
    ~raced => /\ ~(MainInside /\ RespInside)
              /\ ~(MainInside /\ IdleInside)
              /\ ~(RespInside /\ IdleInside)

\* The threads of a caller that was here or is.
Past(t) == t[1] <= client

\* Nothing is under way or remembered of the threads of callers to come.
FreshInv ==
    /\ \A x \in asked : Past(x.thread)
    /\ \A i \in DOMAIN inbox : Past(inbox[i].thread)
    /\ Holding => Past(tmsg.thread)
    /\ \A w \in bound : Past(w[1])
    /\ \A t \in Threads : ~Past(t) => cache[t] = NoDrone /\ bonded[t] = NoDrone

\* The cache agrees with what the caller was told, but for what it is about to be told
\* and for the sessions there was no room for.
Agreed(t) ==
    IF resp = "relay" /\ t = tmsg.thread
    THEN \/ tmsg.stats = <<"TIMEOUT">> /\ cache[t] = NoDrone
         \/ tmsg.stats = <<"OK">> /\ bonded[t] = NoDrone /\ cache[t] = tmsg.sender
         \/ tmsg.stats # <<"TIMEOUT">> /\ t \in crowded
         \/ /\ tmsg.stats # <<"TIMEOUT">> /\ cache[t] = bonded[t]
            /\ tmsg.stats = <<"OK">> => bonded[t] # NoDrone
    ELSE t \in crowded \/ cache[t] = bonded[t]

CacheInv ==
    ~raced /\ main \notin {"away", "leaving"} =>
        \A t \in Threads : t[1] = client => Agreed(t)

SessionInv == HandsInv /\ AloneInv /\ FreshInv /\ CacheInv

\* A message of the caller that was sent.
Asked(x) == x.n <= sent /\ (main \in {"locking", "lookup", "relay"} => x.n < sent)

Completes(r) == r.stats = <<"COMPLETE">>

\* An answer that nobody has counted yet is the only one to a request that was asked.
Answers(r) == r.of \in Item /\ r.of.type = "REQUEST" /\ Asked(r.of) /\ r.of \notin asked

OnceInv ==
    /\ IsFiniteSet(asked)
    /\ \A x \in asked : Asked(x)
    /\ \A i \in DOMAIN inbox : Completes(inbox[i]) => Answers(inbox[i])
    /\ \A i, j \in DOMAIN inbox :
         Completes(inbox[i]) /\ Completes(inbox[j]) /\ i # j => inbox[i].of # inbox[j].of
    /\ resp \in {"got", "locking", "body"} /\ Completes(tmsg) =>
         /\ Answers(tmsg)
         /\ \A i \in DOMAIN inbox : Completes(inbox[i]) => inbox[i].of # tmsg.of

\* Until requests are given up as many are in flight as are waited for, or more.
FlightInv == ~raced /\ abandoned = {} => Cardinality(Waiting) <= inFlight

-----------------------------------------------------------------------------
(* What the steps have in common.                                          *)

\* The sets of the constants.
LEMMA Constants ==
    /\ MaxClients \in Nat /\ MaxSent \in Nat /\ MaxCalmSent \in Nat /\ MaxSessions \in Nat
    /\ MaxSeveredSent \in Nat /\ MaxSeveredSent <= MaxSent
    /\ MaxQuiet \in Nat /\ MaxSignals \in Nat /\ MaxWait \in Nat
    /\ \A s \in Batches : s \in Seq({"CONNECT", "REQUEST", "DISCONNECT"})
    /\ Threads = (1 .. MaxClients) \X Names
  BY ConstantsOK DEF ConstantsOK, Threads

\* The items of a message that was sent.
LEMMA AskingFacts ==
    ASSUME TypeOK, HandsInv, main = "relay"
    PROVE  /\ IsFiniteSet(Asking)
           /\ Asking \subseteq Item
           /\ \A x \in Asking : x.n = sent /\ x.thread = inMsg.thread
<1> DEFINE D == {i \in DOMAIN inMsg.batch : inMsg.batch[i] # "DISCONNECT"}
           F == [k \in D |-> [n |-> sent, k |-> k, thread |-> inMsg.thread, type |-> inMsg.batch[k],
                              to |-> recipient]]
<1>1. /\ inMsg.thread \in Threads /\ inMsg.batch \in Batches /\ recipient \in Drones \cup {Router}
      /\ inMsg.batch \in Seq({"CONNECT", "REQUEST", "DISCONNECT"})
  BY Constants DEF TypeOK, HandsInv
<1>2. DOMAIN inMsg.batch = 1 .. Len(inMsg.batch) /\ Len(inMsg.batch) \in Nat
  BY <1>1
<1>3. IsFiniteSet(D)
  <2>1. IsFiniteSet(1 .. Len(inMsg.batch))
    BY <1>2, FS_Interval
  <2>2. D \in SUBSET (1 .. Len(inMsg.batch))
    BY <1>2
  <2> QED
    BY <2>1, <2>2, FS_Subset
<1>4. Asking = {F[k] : k \in D}
  BY DEF Asking
<1>5. IsFiniteSet(Asking)
  <2>1. F \in Surjection(D, Asking)
    <3> HIDE DEF F, D
    <3>1. DOMAIN F = D
      BY DEF F
    <3>2. F = [k \in D |-> F[k]]
      BY DEF F
    <3> QED
      BY <1>4, <3>2 DEF Surjection
  <2> HIDE DEF F, D
  <2> QED
    BY <1>3, <2>1, FS_Surjection
<1>6. \A x \in Asking : x.n = sent /\ x.thread = inMsg.thread
  BY DEF Asking
<1>7. Asking \subseteq Item
  <2>1. \A k \in D : k \in Nat \ {0} /\ inMsg.batch[k] \in {"CONNECT", "REQUEST"}
    BY <1>1, <1>2
  <2>2. sent \in 1 .. MaxSent + MaxCalmSent
    BY Constants DEF TypeOK, HandsInv
  <2> QED
    BY <1>1, <2>1, <2>2 DEF Asking, Item
<1> QED
  BY <1>5, <1>6, <1>7

\* What waits for an answer.
LEMMA WaitingFacts ==
    ASSUME TypeOK, HandsInv, OnceInv
    PROVE  Waiting \subseteq Item /\ IsFiniteSet(Waiting) /\ Cardinality(Waiting) \in Nat
<1> DEFINE I == {j \in DOMAIN inbox : Completes(inbox[j])}
           F == [i \in I |-> inbox[i].of]
           D == {inbox[i].of : i \in I}
           N == IF resp \in {"got", "locking", "body"} /\ Completes(tmsg) THEN {tmsg.of} ELSE {}
<1>0. asked \subseteq Item /\ IsFiniteSet(asked) /\ inbox \in Seq(Response)
  BY DEF TypeOK, OnceInv
<1>1. IsFiniteSet(D)
  <2>1. DOMAIN inbox = 1 .. Len(inbox) /\ Len(inbox) \in Nat
    BY <1>0
  <2>2. IsFiniteSet(1 .. Len(inbox))
    BY <2>1, FS_Interval
  <2>3. I \in SUBSET (1 .. Len(inbox))
    BY <2>1
  <2>4. IsFiniteSet(I)
    BY <2>2, <2>3, FS_Subset
  <2>5. F \in Surjection(I, D)
    <3> HIDE DEF I
    <3>1. F = [i \in I |-> F[i]] /\ D = {F[i] : i \in I}
      OBVIOUS
    <3> HIDE DEF F, D
    <3> QED
      BY <3>1 DEF Surjection
  <2> HIDE DEF F, I, D
  <2> QED
    BY <2>4, <2>5, FS_Surjection
<1>2. IsFiniteSet(N)
  BY FS_EmptySet, FS_Singleton
<1>3. D \subseteq Item /\ N \subseteq Item
  BY DEF OnceInv, Answers
<1>4. Waiting \subseteq (asked \cup D) \cup N
  BY DEF Waiting, Requests, Completes
<1>5. IsFiniteSet((asked \cup D) \cup N)
  <2> HIDE DEF D, N
  <2>1. IsFiniteSet(asked \cup D)
    BY <1>0, <1>1, FS_Union
  <2> QED
    BY <2>1, <1>2, FS_Union
<1> HIDE DEF D, N
<1> QED
  BY <1>0, <1>3, <1>4, <1>5, FS_Subset, FS_CardinalityType

\* Fewer sessions, or one more.
LEMMA CachedFacts ==
    ASSUME TypeOK, HandsInv
    PROVE  /\ Cardinality(Cached) \in Nat /\ Cardinality(Cached) <= MaxSessions
           /\ \A S \in SUBSET Cached : IsFiniteSet(S) /\ Cardinality(S) <= MaxSessions
           /\ \A t, S : S \in SUBSET (Cached \cup {t}) /\ Cardinality(Cached) < MaxSessions
                          => IsFiniteSet(S) /\ Cardinality(S) <= MaxSessions
<1>1. IsFiniteSet(Cached) /\ Cardinality(Cached) \in Nat /\ Cardinality(Cached) <= MaxSessions
  BY FS_CardinalityType DEF TypeOK, HandsInv
<1>2. MaxSessions \in Nat
  BY Constants
<1>3. ASSUME NEW S \in SUBSET Cached
      PROVE  IsFiniteSet(S) /\ Cardinality(S) <= MaxSessions
  <2>1. IsFiniteSet(S) /\ Cardinality(S) <= Cardinality(Cached)
    BY <1>1, FS_Subset
  <2>2. Cardinality(S) \in Nat
    BY <2>1, FS_CardinalityType
  <2> QED
    BY <1>1, <1>2, <2>1, <2>2
<1>4. ASSUME NEW t, NEW S \in SUBSET (Cached \cup {t}), Cardinality(Cached) < MaxSessions
      PROVE  IsFiniteSet(S) /\ Cardinality(S) <= MaxSessions
  <2>1. /\ IsFiniteSet(Cached \cup {t})
        /\ Cardinality(Cached \cup {t}) = IF t
             \in Cached THEN Cardinality(Cached) ELSE Cardinality(Cached) + 1
    BY <1>1, FS_AddElement
  <2>2. IsFiniteSet(S) /\ Cardinality(S) <= Cardinality(Cached \cup {t})
    BY <2>1, FS_Subset
  <2>3. Cardinality(S) \in Nat /\ Cardinality(Cached \cup {t}) \in Nat
    BY <2>1, <2>2, FS_CardinalityType
  <2> QED
    BY <1>1, <1>2, <1>4, <2>1, <2>2, <2>3
<1> QED
  BY <1>1, <1>3, <1>4

\* What is at the places of a longer sequence, and of a shorter one.
LEMMA AppendFacts ==
    ASSUME NEW S, NEW s \in Seq(S), NEW e \in S, NEW u, u = Append(s, e)
    PROVE  /\ u \in Seq(S) /\ DOMAIN u = 1 .. Len(s) + 1 /\ DOMAIN s = 1 .. Len(s) /\ Len(s) \in Nat
           /\ \A i \in DOMAIN u : (i = Len(s) + 1 /\ u[i] = e) \/ (i \in DOMAIN s /\ u[i] = s[i])
<1>1. DOMAIN u = 1 .. Len(s) + 1 /\ DOMAIN s = 1 .. Len(s) /\ Len(s) \in Nat /\ u \in Seq(S)
  OBVIOUS
<1>2. \A i \in 1 .. Len(s) + 1 : i = Len(s) + 1 \/ i \in 1 .. Len(s)
  BY <1>1
<1> QED
  BY <1>1, <1>2

LEMMA TailFacts ==
    ASSUME NEW S, NEW s \in Seq(S), s # << >>, NEW u, u = Tail(s)
    PROVE  /\ Head(s) = s[1] /\ 1 \in DOMAIN s
           /\ \A i \in DOMAIN u : u[i] = s[i + 1] /\ i + 1 \in DOMAIN s /\ i + 1 # 1
  OBVIOUS

\* The types are kept.
LEMMA TypeStep ==
    ASSUME TypeOK, HandsInv, OnceInv, Step
    PROVE  TypeOK' /\ HandsInv'
<1>1. CASE Connect
  <2>1. client' \in 1 .. MaxClients /\ resp' \in {resp, "start"} /\ idle' \in {idle, "start"}
        /\ main' = "open" /\ closing' = FALSE /\ connected' = TRUE /\ quiet' = 0
    BY <1>1, Constants DEF Connect, TypeOK
  <2>2. /\ UNCHANGED <<inMsg, recipient, tmsg, locked, cache, inFlight, shutdown, signals, sent>>
        /\ UNCHANGED <<asked, inbox, bound, severed, bonded, crowded, given, raced, abandoned>>
    BY <1>1 DEF Connect, network, history, told
  <2>3. Holding' => Holding
    BY <1>1 DEF Connect, Holding
  <2>4. TypeOK'
    <3>1. Cached' = Cached
      BY <2>2 DEF Cached
    <3>2. client' \in 0 .. MaxClients
      BY <2>1
    <3>3. quiet' \in 0 .. MaxQuiet
      BY <2>1, Constants
    <3>4. {closing', connected'} \subseteq BOOLEAN
      BY <2>1
    <3> QED
      BY <2>1, <2>2, <3>1, <3>2, <3>3, <3>4 DEF TypeOK
  <2> QED
    BY <2>1, <2>2, <2>3, <2>4 DEF HandsInv, Cached
<1>2. CASE \E n \in Names, b \in Batches : Receive(n, b)
  <2>1. sent \in Nat /\ (sent < MaxSent \/ sent < MaxSeveredSent \/ sent < MaxCalmSent)
    BY <1>2, Constants DEF TypeOK, Receive
  <2>2. sent' = sent + 1 /\ sent' \in 0 .. MaxSent + MaxCalmSent /\ sent' > 0
    BY <1>2, <2>1, Constants DEF Receive
  <2> QED
    BY <1>2, <2>2, Constants DEF TypeOK, HandsInv, Holding, Cached, Receive, respVars, shared, network,
      history, told
<1>3. CASE MainLock
  BY <1>3 DEF told, TypeOK, HandsInv, Holding, Cached, MainLock, respVars, shared, caller, network
<1>4. CASE MainLookup
  BY <1>4 DEF TypeOK, HandsInv, Holding, Cached, MainLookup, respVars, shared, caller, network, history, told
<1>5. CASE MainReject
  BY <1>5 DEF TypeOK, HandsInv, Holding, Cached, MainReject, respVars, shared, caller, network, history, told
<1>6. CASE MainRelay
  <2> DEFINE t == inMsg.thread
  <2>1. Asking \subseteq Item /\ IsFiniteSet(Asking) /\ main = "relay" /\ t \in Threads
    BY <1>6, AskingFacts DEF MainRelay, HandsInv
  <2>2. Cardinality(Requests(Asking)) \in Nat
    <3>1. Requests(Asking) \in SUBSET Asking
      BY DEF Requests
    <3> QED
      BY <2>1, <3>1, FS_Subset, FS_CardinalityType
  <2>3. inFlight' \in Int
    BY <1>6, <2>2 DEF MainRelay, TypeOK
  <2>4. asked' \subseteq Item /\ bound' \subseteq Threads \X Drones
    BY <1>6, <2>1 DEF MainRelay, TypeOK
  <2>5. /\ cache' \in [Threads -> Drones \cup {NoDrone}] /\ bonded' \in [Threads -> Drones \cup {NoDrone}]
        /\ Cached' \subseteq Cached /\ crowded' \subseteq crowded
    <3>1. CASE Disconnects
      <4>1. /\ cache' = [cache EXCEPT ![t] = NoDrone] /\ bonded' = [bonded EXCEPT ![t] = NoDrone]
            /\ crowded' = crowded \ {t}
        BY <1>6, <3>1 DEF MainRelay
      <4> QED
        BY <2>1, <4>1 DEF TypeOK, Cached
    <3>2. CASE ~Disconnects
      BY <1>6, <3>2 DEF MainRelay, TypeOK, Cached
    <3> QED
      BY <3>1, <3>2
  <2>6. IsFiniteSet(Cached') /\ Cardinality(Cached') <= MaxSessions
    BY <2>5, CachedFacts
  <2>7. main' \in {"unlock", "unlockFail"} /\ quiet' = 0
    BY <1>6 DEF MainRelay
  <2>8. /\ UNCHANGED <<inMsg, recipient, resp, tmsg, idle, locked, connected, shutdown, signals>>
        /\ UNCHANGED <<client, closing, sent, inbox, severed, given, raced, abandoned>>
    BY <1>6 DEF MainRelay, respVars, caller
  <2>9. TypeOK'
    BY <2>3, <2>4, <2>5, <2>6, <2>7, <2>8, Constants DEF TypeOK
  <2> QED
    BY <2>1, <2>6, <2>7, <2>8, <2>9 DEF HandsInv, Holding
<1>7. CASE MainUnlock
  BY <1>7 DEF TypeOK, HandsInv, Holding, Cached, MainUnlock, respVars, shared, caller, network, history, told
<1>8. CASE MainClose
  BY <1>8 DEF TypeOK, HandsInv, Holding, Cached, MainClose, respVars, shared, network, history, told
<1>9. CASE Leave
  BY <1>9 DEF TypeOK, HandsInv, Holding, Cached, Leave, respVars, caller, network, history, told
<1>10. CASE Clear
  <2>1. cache' = [t \in Threads |-> NoDrone] /\ main' = "away"
    BY <1>10 DEF Clear
  <2>2. Cached' = {} /\ cache' \in [Threads -> Drones \cup {NoDrone}]
    BY <2>1 DEF Cached
  <2>3. IsFiniteSet(Cached') /\ Cardinality(Cached') <= MaxSessions
    BY <2>2, CachedFacts
  <2>4. /\ UNCHANGED <<inMsg, recipient, resp, tmsg, idle, locked, connected, inFlight, quiet, shutdown>>
        /\ UNCHANGED <<signals, client, closing, sent, asked, inbox, bound, severed, bonded, crowded, given, raced,
             abandoned>>
    BY <1>10 DEF Clear, respVars, caller, network, history, told
  <2>5. TypeOK'
    BY <2>1, <2>2, <2>3, <2>4 DEF TypeOK
  <2> QED
    BY <2>1, <2>3, <2>4, <2>5 DEF HandsInv, Holding
<1>11. CASE RespUnlock
  BY <1>11 DEF TypeOK, HandsInv, Holding, Cached, RespUnlock, mainVars, shared, caller, network, history, told
<1>12. CASE RespRecv
  BY <1>12 DEF TypeOK, HandsInv, Holding, Cached, RespRecv, mainVars, shared, caller, history, told
<1>13. CASE RespCheck
  BY <1>13 DEF TypeOK, HandsInv, Holding, Cached, RespCheck, mainVars, shared, caller, network, history, told
<1>14. CASE RespSevered
  BY <1>14 DEF TypeOK, HandsInv, Holding, Cached, RespSevered, mainVars, shared, network, history, told
<1>15. CASE RespProbe
  BY <1>15 DEF TypeOK, HandsInv, Holding, Cached, RespProbe, mainVars, shared, caller, network, history, told
<1>16. CASE RespLock
  BY <1>16 DEF told, TypeOK, HandsInv, Holding, Cached, RespLock, mainVars, shared, caller, network
<1>17. CASE RespBody
  <2> DEFINE t == tmsg.thread
  <2>1. t \in Threads /\ tmsg.sender \in Drones \cup {NoDrone} /\ resp' = "relay" /\ resp = "body"
    BY <1>17 DEF RespBody, HandsInv, Holding, Response
  <2>2. \/ cache' = cache
        \/ cache' = [cache EXCEPT ![t] = tmsg.sender] /\ Cardinality(Cached) < MaxSessions
        \/ cache' = [cache EXCEPT ![t] = NoDrone]
    <3>1. Full \/ Cardinality(Cached) < MaxSessions
      BY CachedFacts, Constants DEF Full
    <3> QED
      BY <1>17, <3>1 DEF RespBody
  <2>3. inFlight' \in {inFlight, inFlight - 1}
    BY <1>17 DEF RespBody
  <2>4. cache' \in [Threads -> Drones \cup {NoDrone}]
    BY <2>1, <2>2 DEF TypeOK
  <2>5. IsFiniteSet(Cached') /\ Cardinality(Cached') <= MaxSessions
    <3>1. CASE cache' = cache
      BY <3>1, CachedFacts DEF Cached
    <3>2. CASE cache' = [cache EXCEPT ![t] = tmsg.sender] /\ Cardinality(Cached) < MaxSessions
      <4>1. Cached' \in SUBSET (Cached \cup {t})
        BY <2>1, <3>2 DEF Cached, TypeOK
      <4> HIDE DEF t
      <4> QED
        BY <3>2, <4>1, CachedFacts
    <3>3. CASE cache' = [cache EXCEPT ![t] = NoDrone]
      <4>1. Cached' \in SUBSET Cached
        BY <2>1, <3>3 DEF Cached, TypeOK
      <4> QED
        BY <4>1, CachedFacts
    <3> QED
      BY <2>2, <3>1, <3>2, <3>3
  <2>6. /\ UNCHANGED <<main, inMsg, recipient, tmsg, idle, locked, connected, quiet, shutdown, signals>>
        /\ UNCHANGED <<client, closing, sent, asked, inbox, bound, severed, bonded, given, raced, abandoned>>
    BY <1>17 DEF RespBody, mainVars, caller, network
  <2>7. crowded' \subseteq Threads
    BY <1>17, <2>1 DEF RespBody, TypeOK
  <2>8. TypeOK'
    BY <2>1, <2>3, <2>4, <2>5, <2>6, <2>7 DEF TypeOK
  <2> QED
    BY <2>1, <2>5, <2>6, <2>8 DEF HandsInv, Holding
<1>18. CASE RespRelay
  <2> DEFINE t == tmsg.thread
  <2>1. t \in Threads /\ tmsg.sender \in Drones \cup {NoDrone} /\ resp' = "unlocking" /\ tmsg' = << >>
        /\ quiet' = 0
    BY <1>18 DEF RespRelay, HandsInv, Holding, Response
  <2>2. \/ bonded' = bonded \/ bonded' = [bonded EXCEPT ![t] = tmsg.sender]
        \/ bonded' = [bonded EXCEPT ![t] = NoDrone]
    BY <1>18 DEF RespRelay
  <2>3. bonded' \in [Threads -> Drones \cup {NoDrone}]
    BY <2>1, <2>2 DEF TypeOK
  <2>4. /\ UNCHANGED <<main, inMsg, recipient, idle, locked, connected, cache, inFlight, shutdown, signals>>
        /\ UNCHANGED <<client, closing, sent, asked, inbox, bound, severed, raced, abandoned>>
    BY <1>18 DEF RespRelay, mainVars, caller, network
  <2>5. crowded' \subseteq Threads
    BY <1>18 DEF RespRelay, TypeOK
  <2>6. given' \subseteq (0 .. MaxClients) \X (Item \cup {NoItem})
    <3>1. tmsg.of \in Item \cup {NoItem} /\ client \in 0 .. MaxClients
      BY <1>18 DEF RespRelay, HandsInv, Holding, Response, TypeOK
    <3>2. given' \in {{<<client, tmsg.of>>}, {}}
      BY <1>18 DEF RespRelay
    <3> QED
      BY <3>1, <3>2
  <2>7. TypeOK'
    BY <2>1, <2>3, <2>4, <2>5, <2>6, Constants DEF TypeOK, Cached
  <2> QED
    BY <2>1, <2>4, <2>7 DEF HandsInv, Holding, Cached
<1>19. CASE IdleUnlock
  BY <1>19 DEF TypeOK, HandsInv, Holding, Cached, IdleUnlock, mainVars, respVars, shared, caller,
    network, history, told
<1>20. CASE IdleLock
  BY <1>20 DEF told, TypeOK, HandsInv, Holding, Cached, IdleLock, mainVars, respVars, shared, caller, network
<1>21. CASE IdleCheck
  <2>1. /\ idle' = "unlocking" /\ inFlight' \in {inFlight, 0} /\ closing' \in BOOLEAN
        /\ abandoned' = abandoned \/ abandoned' = abandoned \cup Waiting
    BY <1>21 DEF told, IdleCheck, TypeOK
  <2>2. abandoned' \subseteq Item /\ inFlight' \in Int
    BY <2>1, WaitingFacts DEF TypeOK
  <2>3. /\ UNCHANGED <<main, inMsg, recipient, resp, tmsg, locked, connected, cache, quiet,
             shutdown, signals>>
        /\ UNCHANGED <<client, sent, asked, inbox, bound, severed, bonded, crowded, given, raced>>
    BY <1>21 DEF told, IdleCheck, mainVars, respVars, network
  <2>4. TypeOK'
    BY <2>1, <2>2, <2>3 DEF TypeOK, Cached
  <2> QED
    BY <2>3, <2>4 DEF HandsInv, Holding, Cached
<1>22. CASE \E x \in asked, d \in Drones : Accept(x, d)
  <2>1. PICK x \in asked, d \in Drones : Accept(x, d)
    BY <1>22
  <2> DEFINE r == [thread |-> x.thread, sender |-> d, stats |-> <<"OK">>, of |-> x]
  <2>2. inbox' = Append(inbox, r) /\ r \in Response
    <3>1. x \in Item /\ x.thread \in Threads
      BY <2>1 DEF TypeOK, Item, Accept
    <3> QED
      BY <2>1, <3>1 DEF Accept, Send, Response
  <2>3. inbox' \in Seq(Response)
    <3> HIDE DEF r
    <3> QED
      BY <2>2 DEF TypeOK
  <2>4. asked' \subseteq Item /\ bound' \subseteq Threads \X Drones
    BY <2>1 DEF Accept, TypeOK, Item
  <2>5. /\ UNCHANGED <<main, inMsg, recipient, resp, tmsg, idle, locked, connected, cache, inFlight, quiet>>
        /\ UNCHANGED <<shutdown, signals, client, closing, sent, severed, bonded, crowded, given, raced, abandoned>>
    BY <2>1 DEF Accept, mainVars, respVars, shared, caller, history, told
  <2>6. TypeOK'
    BY <2>3, <2>4, <2>5 DEF TypeOK, Cached
  <2> QED
    BY <2>5, <2>6 DEF HandsInv, Holding, Cached
<1>23. CASE \E x \in asked, stats \in {<<"COMPLETE">>, << >>} : Answer(x, stats)
  <2>1. PICK x \in asked, stats \in {<<"COMPLETE">>, << >>} : Answer(x, stats)
    BY <1>23
  <2> DEFINE r == [thread |-> x.thread, sender |-> NoDrone, stats |-> stats, of |-> x]
  <2>2. inbox' = Append(inbox, r) /\ r \in Response
    <3>1. x \in Item /\ x.thread \in Threads
      BY <2>1 DEF TypeOK, Item, Answer
    <3> QED
      BY <2>1, <3>1 DEF Answer, Send, Response
  <2>3. inbox' \in Seq(Response)
    <3> HIDE DEF r
    <3> QED
      BY <2>2 DEF TypeOK
  <2>4. asked' \subseteq Item /\ bound' \subseteq Threads \X Drones
    BY <2>1 DEF Answer, TypeOK, Item
  <2>5. /\ UNCHANGED <<main, inMsg, recipient, resp, tmsg, idle, locked, connected, cache, inFlight, quiet>>
        /\ UNCHANGED <<shutdown, signals, client, closing, sent, severed, bonded, crowded, given, raced, abandoned>>
    BY <2>1 DEF Answer, mainVars, respVars, shared, caller, history, told
  <2>6. TypeOK'
    BY <2>3, <2>4, <2>5 DEF TypeOK, Cached
  <2> QED
    BY <2>5, <2>6 DEF HandsInv, Holding, Cached
<1>24. CASE \E b \in bound : Expire(b)
  BY <1>24 DEF TypeOK, HandsInv, Holding, Cached, Expire, mainVars, respVars, shared, caller,
    history, told, Send, Response
<1>25. CASE Tick
  BY <1>25, Constants DEF TypeOK, HandsInv, Holding, Cached, Tick, mainVars, respVars, caller,
    network, history, told
<1>26. CASE Sigusr1
  <2>1. /\ shutdown' = TRUE /\ signals' \in 0 .. MaxSignals
        /\ resp' \in {resp, "probe", "exit"} /\ closing' \in {closing, TRUE}
    <3>1. shutdown' = TRUE /\ signals' \in 0 .. MaxSignals
      BY <1>26, Constants DEF Sigusr1, TypeOK
    <3>2. resp' \in {resp, "probe", "exit"} /\ closing' \in {closing, TRUE}
      BY <1>26 DEF Sigusr1
    <3> QED
      BY <3>1, <3>2
  <2>2. /\ UNCHANGED <<main, inMsg, recipient, tmsg, idle, locked, connected, cache, inFlight, quiet>>
        /\ UNCHANGED <<client, sent, asked, inbox, bound, severed, bonded, crowded, given, raced, abandoned>>
    BY <1>26 DEF Sigusr1, mainVars, network, history, told
  <2>3. TypeOK'
    <3>1. Cached' = Cached
      BY <2>2 DEF Cached
    <3>2. {closing', shutdown'} \subseteq BOOLEAN
      BY <2>1 DEF TypeOK
    <3> QED
      BY <2>1, <2>2, <3>1, <3>2 DEF TypeOK
  <2> QED
    BY <2>1, <2>2, <2>3 DEF HandsInv, Holding, Cached
<1>27. CASE Sever
  BY <1>27 DEF TypeOK, HandsInv, Holding, Cached, Sever, mainVars, respVars, shared, caller, history, told
<1> QED
  BY <1>1, <1>2, <1>3, <1>4, <1>5, <1>6, <1>7, <1>8, <1>9, <1>10, <1>11, <1>12, <1>13, <1>14, <1>15,
    <1>16, <1>17, <1>18, <1>19, <1>20, <1>21, <1>22, <1>23, <1>24, <1>25, <1>26, <1>27 DEF Step,
    MainBody, RespNext, IdleNext

\* Two threads meet only where that is noticed.
LEMMA AloneStep ==
    ASSUME AloneInv, Step
    PROVE  AloneInv'
<1>1. CASE Connect
  BY <1>1 DEF AloneInv, MainInside, RespInside, IdleInside, Connect, network, history, told
<1>2. CASE \E n \in Names, b \in Batches : Receive(n, b)
  BY <1>2 DEF AloneInv, MainInside, RespInside, IdleInside, Receive, respVars, shared, network, history, told
<1>3. CASE MainLock
  BY <1>3 DEF told, AloneInv, MainInside, RespInside, IdleInside, MainLock, respVars, shared, caller, network
<1>4. CASE MainLookup
  BY <1>4 DEF AloneInv, MainInside, RespInside, IdleInside, MainLookup, respVars, shared, caller,
    network, history, told
<1>5. CASE MainReject
  BY <1>5 DEF AloneInv, MainInside, RespInside, IdleInside, MainReject, respVars, shared, caller,
    network, history, told
<1>6. CASE MainRelay
  BY <1>6 DEF AloneInv, MainInside, RespInside, IdleInside, MainRelay, respVars, caller
<1>7. CASE MainUnlock
  BY <1>7 DEF AloneInv, MainInside, RespInside, IdleInside, MainUnlock, respVars, shared, caller,
    network, history, told
<1>8. CASE MainClose
  BY <1>8 DEF AloneInv, MainInside, RespInside, IdleInside, MainClose, respVars, shared, network, history, told
<1>9. CASE Leave
  BY <1>9 DEF AloneInv, MainInside, RespInside, IdleInside, Leave, respVars, caller, network, history, told
<1>10. CASE Clear
  BY <1>10 DEF AloneInv, MainInside, RespInside, IdleInside, Clear, respVars, caller, network, history, told
<1>11. CASE RespUnlock
  BY <1>11 DEF AloneInv, MainInside, RespInside, IdleInside, RespUnlock, mainVars, shared, caller,
    network, history, told
<1>12. CASE RespRecv
  BY <1>12 DEF AloneInv, MainInside, RespInside, IdleInside, RespRecv, mainVars, shared, caller, history, told
<1>13. CASE RespCheck
  BY <1>13 DEF AloneInv, MainInside, RespInside, IdleInside, RespCheck, mainVars, shared, caller,
    network, history, told
<1>14. CASE RespSevered
  BY <1>14 DEF AloneInv, MainInside, RespInside, IdleInside, RespSevered, mainVars, shared, network, history, told
<1>15. CASE RespProbe
  BY <1>15 DEF AloneInv, MainInside, RespInside, IdleInside, RespProbe, mainVars, shared, caller,
    network, history, told
<1>16. CASE RespLock
  BY <1>16 DEF told, AloneInv, MainInside, RespInside, IdleInside, RespLock, mainVars, shared, caller, network
<1>17. CASE RespBody
  BY <1>17 DEF AloneInv, MainInside, RespInside, IdleInside, RespBody, mainVars, caller, network, history, told
<1>18. CASE RespRelay
  BY <1>18 DEF AloneInv, MainInside, RespInside, IdleInside, RespRelay, mainVars, caller, network
<1>19. CASE IdleUnlock
  BY <1>19 DEF AloneInv, MainInside, RespInside, IdleInside, IdleUnlock, mainVars, respVars, shared,
    caller, network, history, told
<1>20. CASE IdleLock
  BY <1>20 DEF told, AloneInv, MainInside, RespInside, IdleInside, IdleLock, mainVars, respVars, shared,
    caller, network
<1>21. CASE IdleCheck
  BY <1>21 DEF told, AloneInv, MainInside, RespInside, IdleInside, IdleCheck, mainVars, respVars, network
<1>22. CASE \E x \in asked, d \in Drones : Accept(x, d)
  BY <1>22 DEF AloneInv, MainInside, RespInside, IdleInside, Accept, mainVars, respVars, shared,
    caller, history, told
<1>23. CASE \E x \in asked, stats \in {<<"COMPLETE">>, << >>} : Answer(x, stats)
  BY <1>23 DEF AloneInv, MainInside, RespInside, IdleInside, Answer, mainVars, respVars, shared,
    caller, history, told
<1>24. CASE \E b \in bound : Expire(b)
  BY <1>24 DEF AloneInv, MainInside, RespInside, IdleInside, Expire, mainVars, respVars, shared,
    caller, history, told
<1>25. CASE Tick
  BY <1>25 DEF AloneInv, MainInside, RespInside, IdleInside, Tick, mainVars, respVars, caller,
    network, history, told
<1>26. CASE Sigusr1
  BY <1>26 DEF AloneInv, MainInside, RespInside, IdleInside, Sigusr1, mainVars, network, history, told
<1>27. CASE Sever
  BY <1>27 DEF AloneInv, MainInside, RespInside, IdleInside, Sever, mainVars, respVars, shared,
    caller, history, told
<1> QED
  BY <1>1, <1>2, <1>3, <1>4, <1>5, <1>6, <1>7, <1>8, <1>9, <1>10, <1>11, <1>12, <1>13, <1>14, <1>15,
    <1>16, <1>17, <1>18, <1>19, <1>20, <1>21, <1>22, <1>23, <1>24, <1>25, <1>26, <1>27 DEF Step,
    MainBody, RespNext, IdleNext

\* Threads of callers to come stay unknown.
LEMMA FreshStep ==
    ASSUME TypeOK, HandsInv, OnceInv, FreshInv, Step
    PROVE  FreshInv'
<1>1. CASE Connect
  <2>1. client' = client + 1 /\ UNCHANGED <<asked, inbox, tmsg, bound, cache, bonded, crowded>>
    BY <1>1 DEF Connect, network, history, told
  <2>2. Holding' => Holding
    BY <1>1 DEF Connect, Holding
  <2>3. \A t \in Threads : t[1] \in Nat
    BY Constants
  <2>4. client \in Nat
    BY DEF TypeOK
  <2>5. \A t \in Threads : t[1] <= client => t[1] <= client + 1
    BY <2>3, <2>4
  <2>6. \A x \in asked : x.thread \in Threads
    BY DEF TypeOK, Item
  <2>7. \A i \in DOMAIN inbox : inbox[i].thread \in Threads
    <3>1. inbox \in Seq(Response)
      BY DEF TypeOK
    <3>2. \A i \in DOMAIN inbox : inbox[i] \in Response
      BY <3>1
    <3> QED
      BY <3>2 DEF Response
  <2>8. Holding => tmsg.thread \in Threads
    BY DEF HandsInv, Response
  <2>9. \A w \in bound : w[1] \in Threads
    BY DEF TypeOK
  <2> QED
    BY <2>1, <2>2, <2>5, <2>6, <2>7, <2>8, <2>9 DEF FreshInv, Past
<1>2. CASE \E n \in Names, b \in Batches : Receive(n, b)
  BY <1>2 DEF FreshInv, Past, Holding, Receive, respVars, shared, network, history, told
<1>3. CASE MainLock
  BY <1>3 DEF told, FreshInv, Past, Holding, MainLock, respVars, shared, caller, network
<1>4. CASE MainLookup
  BY <1>4 DEF FreshInv, Past, Holding, MainLookup, respVars, shared, caller, network, history, told
<1>5. CASE MainReject
  BY <1>5 DEF FreshInv, Past, Holding, MainReject, respVars, shared, caller, network, history, told
<1>6. CASE MainRelay
  <2>1. /\ \A x \in Asking : x.thread = inMsg.thread
        /\ inMsg.thread \in Threads /\ inMsg.thread[1] = client
    BY <1>6, AskingFacts DEF MainRelay, HandsInv
  <2>2. client \in Nat
    BY DEF TypeOK
  <2>3. Past(inMsg.thread)
    BY <2>1, <2>2 DEF Past
  <2>4. asked' \subseteq asked \cup Asking /\ bound' \subseteq bound
    BY <1>6 DEF MainRelay
  <2>5. UNCHANGED <<inbox, client, resp, tmsg>>
    BY <1>6 DEF MainRelay, respVars, caller
  <2>6. \A t \in Threads : ~Past(t) => cache'[t] = cache[t] /\ bonded'[t] = bonded[t]
    BY <1>6, <2>3 DEF MainRelay, TypeOK
  <2>7. \A x \in asked' : Past(x.thread)
    BY <2>1, <2>3, <2>4 DEF FreshInv
  <2> QED
    BY <2>4, <2>5, <2>6, <2>7 DEF FreshInv, Past, Holding
<1>7. CASE MainUnlock
  BY <1>7 DEF FreshInv, Past, Holding, MainUnlock, respVars, shared, caller, network, history, told
<1>8. CASE MainClose
  BY <1>8 DEF FreshInv, Past, Holding, MainClose, respVars, shared, network, history, told
<1>9. CASE Leave
  BY <1>9 DEF FreshInv, Past, Holding, Leave, respVars, caller, network, history, told
<1>10. CASE Clear
  <2>1. cache' = [t \in Threads |-> NoDrone]
    BY <1>10 DEF Clear
  <2>2. UNCHANGED <<asked, inbox, resp, tmsg, bound, client, bonded>>
    BY <1>10 DEF Clear, respVars, caller, network, history, told
  <2> QED
    BY <2>1, <2>2 DEF FreshInv, Past, Holding
<1>11. CASE RespUnlock
  BY <1>11 DEF FreshInv, Past, Holding, RespUnlock, mainVars, shared, caller, network, history, told
<1>12. CASE RespRecv
  <2>1. inbox # << >> /\ inbox \in Seq(Response) /\ tmsg' = Head(inbox) /\ inbox' = Tail(inbox)
    BY <1>12 DEF RespRecv, TypeOK
  <2>2. tmsg' = inbox[1] /\ 1 \in DOMAIN inbox
    BY <2>1
  <2>3. \A i \in DOMAIN inbox' : inbox'[i] = inbox[i + 1] /\ i + 1 \in DOMAIN inbox
    BY <2>1
  <2>4. UNCHANGED <<asked, bound, client, cache, bonded, crowded>>
    BY <1>12 DEF RespRecv, caller, shared, history, told
  <2> QED
    BY <2>2, <2>3, <2>4 DEF FreshInv, Past
<1>13. CASE RespCheck
  BY <1>13 DEF FreshInv, Past, Holding, RespCheck, mainVars, shared, caller, network, history, told
<1>14. CASE RespSevered
  BY <1>14 DEF FreshInv, Past, Holding, RespSevered, mainVars, shared, network, history, told
<1>15. CASE RespProbe
  BY <1>15 DEF FreshInv, Past, Holding, RespProbe, mainVars, shared, caller, network, history, told
<1>16. CASE RespLock
  BY <1>16 DEF told, FreshInv, Past, Holding, RespLock, mainVars, shared, caller, network
<1>17. CASE RespBody
  <2>1. Past(tmsg.thread) /\ resp' = "relay"
    BY <1>17 DEF RespBody, FreshInv, Holding
  <2>2. \A t \in Threads : ~Past(t) => cache'[t] = cache[t]
    BY <1>17, <2>1 DEF RespBody, TypeOK
  <2>3. UNCHANGED <<asked, inbox, tmsg, bound, client, bonded>>
    BY <1>17 DEF RespBody, caller, network, history, told
  <2> QED
    BY <2>1, <2>2, <2>3 DEF FreshInv, Past
<1>18. CASE RespRelay
  <2>1. Past(tmsg.thread) /\ resp' = "unlocking"
    BY <1>18 DEF RespRelay, FreshInv, Holding
  <2>2. \A t \in Threads : ~Past(t) => bonded'[t] = bonded[t]
    BY <1>18, <2>1 DEF RespRelay, TypeOK
  <2>3. UNCHANGED <<asked, inbox, bound, client, cache>>
    BY <1>18 DEF RespRelay, caller, network
  <2> QED
    BY <2>1, <2>2, <2>3 DEF FreshInv, Past, Holding
<1>19. CASE IdleUnlock
  BY <1>19 DEF FreshInv, Past, Holding, IdleUnlock, mainVars, respVars, shared, caller, network, history, told
<1>20. CASE IdleLock
  BY <1>20 DEF told, FreshInv, Past, Holding, IdleLock, mainVars, respVars, shared, caller, network
<1>21. CASE IdleCheck
  BY <1>21 DEF told, FreshInv, Past, Holding, IdleCheck, mainVars, respVars, network
<1>22. CASE \E x \in asked, d \in Drones : Accept(x, d)
  <2>1. PICK x \in asked, d \in Drones : Accept(x, d)
    BY <1>22
  <2>2. PICK r \in Response : inbox' = Append(inbox, r) /\ r.thread = x.thread
    <3>1. x \in Item
      BY <2>1 DEF Accept, TypeOK
    <3>2. [thread |-> x.thread, sender |-> d, stats |-> <<"OK">>, of |-> x] \in Response
      BY <3>1 DEF Item, Response
    <3> QED
      BY <2>1, <3>2 DEF Accept, Send
  <2>3. Past(x.thread)
    BY <2>1 DEF Accept, FreshInv
  <2>4. \A i \in DOMAIN inbox' : Past(inbox'[i].thread)
    <3> TAKE i \in DOMAIN inbox'
    <3>1. inbox \in Seq(Response)
      BY DEF TypeOK
    <3>2. inbox'[i] = r \/ (i \in DOMAIN inbox /\ inbox'[i] = inbox[i])
      BY <2>2, <3>1, AppendFacts
    <3> QED
      BY <2>2, <2>3, <3>2 DEF FreshInv
  <2>5. UNCHANGED <<resp, tmsg, client, cache, bonded, crowded>>
    BY <2>1 DEF Accept, respVars, caller, shared, history, told
  <2>6. asked' \subseteq asked /\ \A w \in bound' : Past(w[1])
    BY <2>1, <2>3 DEF Accept, FreshInv, network
  <2> QED
    BY <2>4, <2>5, <2>6 DEF FreshInv, Past, Holding
<1>23. CASE \E x \in asked, stats \in {<<"COMPLETE">>, << >>} : Answer(x, stats)
  <2>1. PICK x \in asked, stats \in {<<"COMPLETE">>, << >>} : Answer(x, stats)
    BY <1>23
  <2>2. PICK r \in Response : inbox' = Append(inbox, r) /\ r.thread = x.thread
    <3>1. x \in Item
      BY <2>1 DEF Answer, TypeOK
    <3>2. [thread |-> x.thread, sender |-> NoDrone, stats |-> stats, of |-> x] \in Response
      BY <3>1 DEF Item, Response
    <3> QED
      BY <2>1, <3>2 DEF Answer, Send
  <2>3. Past(x.thread)
    BY <2>1 DEF Answer, FreshInv
  <2>4. \A i \in DOMAIN inbox' : Past(inbox'[i].thread)
    <3> TAKE i \in DOMAIN inbox'
    <3>1. inbox \in Seq(Response)
      BY DEF TypeOK
    <3>2. inbox'[i] = r \/ (i \in DOMAIN inbox /\ inbox'[i] = inbox[i])
      BY <2>2, <3>1, AppendFacts
    <3> QED
      BY <2>2, <2>3, <3>2 DEF FreshInv
  <2>5. UNCHANGED <<resp, tmsg, client, cache, bonded, crowded>>
    BY <2>1 DEF Answer, respVars, caller, shared, history, told
  <2>6. asked' \subseteq asked /\ \A w \in bound' : Past(w[1])
    BY <2>1, <2>3 DEF Answer, FreshInv, network
  <2> QED
    BY <2>4, <2>5, <2>6 DEF FreshInv, Past, Holding
<1>24. CASE \E b \in bound : Expire(b)
  <2>1. PICK b \in bound : Expire(b)
    BY <1>24
  <2>2. PICK r \in Response : inbox' = Append(inbox, r) /\ r.thread = b[1]
    <3>1. b[1] \in Threads /\ b[2] \in Drones
      BY <2>1 DEF TypeOK
    <3>2. [thread |-> b[1], sender |-> b[2], stats |-> <<"TIMEOUT">>, of |-> NoItem] \in Response
      BY <3>1 DEF Response
    <3> QED
      BY <2>1, <3>2 DEF Expire, Send
  <2>3. Past(b[1])
    BY <2>1 DEF Expire, FreshInv
  <2>4. \A i \in DOMAIN inbox' : Past(inbox'[i].thread)
    <3> TAKE i \in DOMAIN inbox'
    <3>1. inbox \in Seq(Response)
      BY DEF TypeOK
    <3>2. inbox'[i] = r \/ (i \in DOMAIN inbox /\ inbox'[i] = inbox[i])
      BY <2>2, <3>1, AppendFacts
    <3> QED
      BY <2>2, <2>3, <3>2 DEF FreshInv
  <2>5. UNCHANGED <<resp, tmsg, client, cache, bonded, crowded>>
    BY <2>1 DEF Expire, respVars, caller, shared, history, told
  <2>6. asked' \subseteq asked /\ \A w \in bound' : Past(w[1])
    BY <2>1, <2>3 DEF Expire, FreshInv, network
  <2> QED
    BY <2>4, <2>5, <2>6 DEF FreshInv, Past, Holding
<1>25. CASE Tick
  BY <1>25 DEF FreshInv, Past, Holding, Tick, mainVars, respVars, caller, network, history, told
<1>26. CASE Sigusr1
  BY <1>26 DEF FreshInv, Past, Holding, Sigusr1, mainVars, network, history, told
<1>27. CASE Sever
  BY <1>27 DEF FreshInv, Past, Holding, Sever, mainVars, respVars, shared, caller, history, told
<1> QED
  BY <1>1, <1>2, <1>3, <1>4, <1>5, <1>6, <1>7, <1>8, <1>9, <1>10, <1>11, <1>12, <1>13, <1>14, <1>15,
    <1>16, <1>17, <1>18, <1>19, <1>20, <1>21, <1>22, <1>23, <1>24, <1>25, <1>26, <1>27 DEF Step,
    MainBody, RespNext, IdleNext

\* The cache and what the caller was told change together.
LEMMA CacheStep ==
    ASSUME TypeOK, HandsInv, AloneInv, FreshInv, CacheInv, Step
    PROVE  CacheInv'
<1>1. CASE Connect
  <2>1. client' = client + 1 /\ UNCHANGED <<tmsg, cache, bonded, crowded>> /\ resp' \in {resp, "start"}
    BY <1>1 DEF Connect, history, told
  <2>2. ASSUME NEW t \in Threads, t[1] = client + 1
        PROVE  cache[t] = NoDrone /\ bonded[t] = NoDrone /\ ~(resp = "relay" /\ t = tmsg.thread)
    <3>1. client \in Nat
      BY DEF TypeOK
    <3>2. ~Past(t)
      BY <2>2, <3>1 DEF Past
    <3> QED
      BY <3>2 DEF FreshInv, Holding
  <2> QED
    BY <2>1, <2>2 DEF CacheInv, Agreed
<1>2. CASE \E n \in Names, b \in Batches : Receive(n, b)
  BY <1>2 DEF CacheInv, Agreed, Receive, respVars, shared, network, history, told
<1>3. CASE MainLock
  BY <1>3 DEF told, CacheInv, Agreed, MainLock, respVars, shared, caller, network
<1>4. CASE MainLookup
  BY <1>4 DEF CacheInv, Agreed, MainLookup, respVars, shared, caller, network, history, told
<1>5. CASE MainReject
  BY <1>5 DEF CacheInv, Agreed, MainReject, respVars, shared, caller, network, history, told
<1>6. CASE MainRelay
  <2>1. UNCHANGED <<resp, tmsg, client, raced>> /\ main \in {"relay"} /\ inMsg.thread \in Threads
    BY <1>6 DEF MainRelay, respVars, caller, HandsInv
  <2>2. SUFFICES ASSUME ~raced, NEW t \in Threads, t[1] = client
                 PROVE  Agreed(t)'
    BY <2>1 DEF CacheInv
  <2>3. resp # "relay"
    BY <2>1, <2>2 DEF AloneInv, MainInside, RespInside
  <2>4. t \in crowded \/ cache[t] = bonded[t]
    BY <2>1, <2>2, <2>3 DEF CacheInv, Agreed
  <2>5. t \in crowded' \/ cache'[t] = bonded'[t]
    BY <1>6, <2>1, <2>4 DEF MainRelay, TypeOK
  <2> QED
    BY <2>1, <2>3, <2>5 DEF Agreed
<1>7. CASE MainUnlock
  BY <1>7 DEF CacheInv, Agreed, MainUnlock, respVars, shared, caller, network, history, told
<1>8. CASE MainClose
  BY <1>8 DEF CacheInv, Agreed, MainClose, respVars, shared, network, history, told
<1>9. CASE Leave
  BY <1>9 DEF CacheInv, Agreed, Leave, respVars, caller, network, history, told
<1>10. CASE Clear
  BY <1>10 DEF CacheInv, Agreed, Clear, respVars, caller, network, history, told
<1>11. CASE RespUnlock
  BY <1>11 DEF CacheInv, Agreed, RespUnlock, mainVars, shared, caller, network, history, told
<1>12. CASE RespRecv
  BY <1>12 DEF CacheInv, Agreed, RespRecv, mainVars, shared, caller, history, told
<1>13. CASE RespCheck
  BY <1>13 DEF CacheInv, Agreed, RespCheck, mainVars, shared, caller, network, history, told
<1>14. CASE RespSevered
  BY <1>14 DEF CacheInv, Agreed, RespSevered, mainVars, shared, network, history, told
<1>15. CASE RespProbe
  BY <1>15 DEF CacheInv, Agreed, RespProbe, mainVars, shared, caller, network, history, told
<1>16. CASE RespLock
  BY <1>16 DEF told, CacheInv, Agreed, RespLock, mainVars, shared, caller, network
<1>17. CASE RespBody
  <2>1. /\ UNCHANGED <<main, tmsg, client, raced, bonded>> /\ resp = "body" /\ resp' = "relay"
        /\ tmsg.thread \in Threads
    BY <1>17 DEF RespBody, mainVars, caller, HandsInv, Holding, Response
  <2>2. SUFFICES ASSUME ~raced, main \notin {"away", "leaving"}, NEW t \in Threads, t[1] = client
                 PROVE  Agreed(t)'
    BY <2>1 DEF CacheInv
  <2>3. t \in crowded \/ cache[t] = bonded[t]
    BY <2>1, <2>2 DEF CacheInv, Agreed
  <2>4. CASE t # tmsg.thread
    <3>1. cache'[t] = cache[t] /\ (t \in crowded => t \in crowded')
      BY <1>17, <2>1, <2>4 DEF RespBody, TypeOK
    <3> QED
      BY <2>1, <2>3, <2>4, <3>1 DEF Agreed
  <2>5. CASE t = tmsg.thread
    <3>1. crowded \subseteq crowded'
      BY <1>17 DEF RespBody
    <3>2. CASE tmsg.stats = <<"OK">> /\ cache[t] = NoDrone
      <4>1. t \in crowded' \/ cache'[t] = tmsg.sender
        BY <1>17, <2>1, <2>5, <3>2 DEF RespBody, TypeOK
      <4>2. tmsg.stats # <<"TIMEOUT">>
        BY <3>2
      <4> QED
        BY <2>1, <2>3, <2>5, <3>1, <3>2, <4>1, <4>2 DEF Agreed
    <3>3. CASE tmsg.stats = <<"TIMEOUT">>
      <4>1. cache'[t] = NoDrone
        BY <1>17, <2>1, <2>5, <3>3 DEF RespBody, TypeOK
      <4> QED
        BY <2>1, <2>5, <3>3, <4>1 DEF Agreed
    <3>4. CASE ~(tmsg.stats = <<"OK">> /\ cache[t] = NoDrone) /\ tmsg.stats # <<"TIMEOUT">>
      <4>1. cache' = cache
        BY <1>17, <2>5, <3>4 DEF RespBody
      <4> QED
        BY <2>1, <2>3, <2>5, <3>1, <3>4, <4>1 DEF Agreed
    <3> QED
      BY <3>2, <3>3, <3>4
  <2> QED
    BY <2>4, <2>5
<1>18. CASE RespRelay
  <2>1. /\ UNCHANGED <<main, client, raced, cache>> /\ resp = "relay" /\ resp' = "unlocking"
        /\ tmsg.thread \in Threads
    BY <1>18 DEF RespRelay, mainVars, caller, HandsInv, Holding, Response
  <2>2. SUFFICES ASSUME ~raced, main \notin {"away", "leaving"}, NEW t \in Threads, t[1] = client
                 PROVE  t \in crowded' \/ cache[t] = bonded'[t]
    BY <2>1 DEF CacheInv, Agreed
  <2>3. Agreed(t)
    BY <2>2 DEF CacheInv
  <2>4. CASE t # tmsg.thread
    <3>1. bonded'[t] = bonded[t] /\ (t \in crowded => t \in crowded')
      BY <1>18, <2>1, <2>4 DEF RespRelay, TypeOK
    <3> QED
      BY <2>1, <2>3, <2>4, <3>1 DEF Agreed
  <2>5. CASE t = tmsg.thread
    <3>1. CASE tmsg.stats = <<"OK">> /\ bonded[t] = NoDrone
      <4>1. t \in crowded \/ cache[t] = tmsg.sender
        BY <2>1, <2>3, <2>5, <3>1 DEF Agreed
      <4>2. bonded'[t] = tmsg.sender /\ crowded' = crowded
        BY <1>18, <2>1, <2>5, <3>1 DEF RespRelay, TypeOK
      <4> QED
        BY <4>1, <4>2
    <3>2. CASE tmsg.stats = <<"TIMEOUT">>
      <4>1. bonded'[t] = NoDrone
        BY <1>18, <2>1, <2>5, <3>2 DEF RespRelay, TypeOK
      <4>2. cache[t] = NoDrone
        BY <2>1, <2>3, <2>5, <3>2 DEF Agreed
      <4> QED
        BY <4>1, <4>2
    <3>3. CASE ~(tmsg.stats = <<"OK">> /\ bonded[t] = NoDrone) /\ tmsg.stats # <<"TIMEOUT">>
      <4>1. bonded' = bonded /\ crowded' = crowded
        BY <1>18, <2>5, <3>3 DEF RespRelay
      <4> QED
        BY <2>1, <2>3, <2>5, <3>3, <4>1 DEF Agreed
    <3> QED
      BY <3>1, <3>2, <3>3
  <2> QED
    BY <2>4, <2>5
<1>19. CASE IdleUnlock
  BY <1>19 DEF CacheInv, Agreed, IdleUnlock, mainVars, respVars, shared, caller, network, history, told
<1>20. CASE IdleLock
  BY <1>20 DEF told, CacheInv, Agreed, IdleLock, mainVars, respVars, shared, caller, network
<1>21. CASE IdleCheck
  BY <1>21 DEF told, CacheInv, Agreed, IdleCheck, mainVars, respVars, network
<1>22. CASE \E x \in asked, d \in Drones : Accept(x, d)
  BY <1>22 DEF CacheInv, Agreed, Accept, mainVars, respVars, shared, caller, history, told
<1>23. CASE \E x \in asked, stats \in {<<"COMPLETE">>, << >>} : Answer(x, stats)
  BY <1>23 DEF CacheInv, Agreed, Answer, mainVars, respVars, shared, caller, history, told
<1>24. CASE \E b \in bound : Expire(b)
  BY <1>24 DEF CacheInv, Agreed, Expire, mainVars, respVars, shared, caller, history, told
<1>25. CASE Tick
  BY <1>25 DEF CacheInv, Agreed, Tick, mainVars, respVars, caller, network, history, told
<1>26. CASE Sigusr1
  BY <1>26 DEF CacheInv, Agreed, Sigusr1, mainVars, network, history, told
<1>27. CASE Sever
  BY <1>27 DEF CacheInv, Agreed, Sever, mainVars, respVars, shared, caller, history, told
<1> QED
  BY <1>1, <1>2, <1>3, <1>4, <1>5, <1>6, <1>7, <1>8, <1>9, <1>10, <1>11, <1>12, <1>13, <1>14, <1>15,
    <1>16, <1>17, <1>18, <1>19, <1>20, <1>21, <1>22, <1>23, <1>24, <1>25, <1>26, <1>27 DEF Step,
    MainBody, RespNext, IdleNext

\* Each request is answered once.
LEMMA OnceStep ==
    ASSUME TypeOK, HandsInv, OnceInv, Step
    PROVE  OnceInv'
<1>1. CASE Connect
  BY <1>1 DEF OnceInv, Answers, Asked, Completes, Connect, network, history, told
<1>2. CASE \E n \in Names, b \in Batches : Receive(n, b)
  <2>1. sent' = sent + 1 /\ main' = "locking" /\ UNCHANGED <<asked, inbox, resp, tmsg>>
    BY <1>2 DEF Receive, respVars, network
  <2>2. \A x \in Item : Asked(x) => Asked(x)'
    <3>1. sent \in Nat /\ \A x \in Item : x.n \in Nat
      BY DEF TypeOK, Item
    <3> QED
      BY <2>1, <3>1 DEF Asked
  <2>3. \A r : Answers(r) => Answers(r)'
    BY <2>1, <2>2 DEF Answers
  <2>4. \A x \in asked : Asked(x)'
    BY <2>2 DEF OnceInv, TypeOK
  <2> QED
    BY <2>1, <2>3, <2>4 DEF OnceInv, Completes
<1>3. CASE MainLock
  BY <1>3 DEF told, OnceInv, Answers, Asked, Completes, MainLock, respVars, shared, caller, network
<1>4. CASE MainLookup
  BY <1>4 DEF OnceInv, Answers, Asked, Completes, MainLookup, respVars, shared, caller, network, history, told
<1>5. CASE MainReject
  BY <1>5 DEF OnceInv, Answers, Asked, Completes, MainReject, respVars, shared, caller, network, history, told
<1>6. CASE MainRelay
  <2>1. /\ IsFiniteSet(Asking) /\ Asking \subseteq Item /\ \A x \in Asking : x.n = sent
        /\ main = "relay"
    BY <1>6, AskingFacts DEF MainRelay
  <2>2. UNCHANGED <<inbox, resp, tmsg, sent>> /\ main' \in {"unlock", "unlockFail"}
    BY <1>6 DEF MainRelay, respVars, caller
  <2>3. asked \subseteq asked' /\ asked' \subseteq asked \cup Asking
    BY <1>6 DEF MainRelay
  <2>4. IsFiniteSet(asked')
    <3>1. IsFiniteSet(asked \cup Asking)
      BY <2>1, FS_Union DEF OnceInv
    <3> QED
      BY <2>3, <3>1, FS_Subset
  <2>5. sent \in Nat /\ \A x \in Item : x.n \in Nat
    BY DEF TypeOK, Item
  <2>6. \A x \in asked' : Asked(x)'
    BY <2>1, <2>2, <2>3, <2>5 DEF OnceInv, Asked
  <2>7. \A r : Answers(r) => Answers(r)'
    <3> TAKE r
    <3> HAVE Answers(r)
    <3>1. r.of \notin Asking
      BY <2>1, <2>5 DEF Answers, Asked
    <3> QED
      BY <2>2, <2>3, <3>1 DEF Answers, Asked
  <2> QED
    BY <2>2, <2>4, <2>6, <2>7 DEF OnceInv, Completes
<1>7. CASE MainUnlock
  BY <1>7 DEF OnceInv, Answers, Asked, Completes, MainUnlock, respVars, shared, caller, network, history, told
<1>8. CASE MainClose
  BY <1>8 DEF OnceInv, Answers, Asked, Completes, MainClose, respVars, shared, network, history, told
<1>9. CASE Leave
  BY <1>9 DEF OnceInv, Answers, Asked, Completes, Leave, respVars, caller, network, history, told
<1>10. CASE Clear
  BY <1>10 DEF OnceInv, Answers, Asked, Completes, Clear, respVars, caller, network, history, told
<1>11. CASE RespUnlock
  BY <1>11 DEF OnceInv, Answers, Asked, Completes, RespUnlock, mainVars, shared, caller, network, history, told
<1>12. CASE RespRecv
  <2>1. /\ inbox # << >> /\ inbox \in Seq(Response) /\ tmsg' = Head(inbox) /\ inbox' = Tail(inbox)
        /\ resp' = "got"
    BY <1>12 DEF RespRecv, TypeOK
  <2>2. tmsg' = inbox[1] /\ 1 \in DOMAIN inbox
    BY <2>1, TailFacts
  <2>3. \A i \in DOMAIN inbox' : inbox'[i] = inbox[i + 1] /\ i + 1 \in DOMAIN inbox /\ i + 1 # 1
    BY <2>1, TailFacts
  <2>4. \A i, j \in DOMAIN inbox' : i # j => i + 1 # j + 1
    BY <2>1
  <2>5. UNCHANGED <<main, asked, sent>>
    BY <1>12 DEF RespRecv, mainVars, caller
  <2>6. \A r : Answers(r) => Answers(r)'
    BY <2>5 DEF Answers, Asked
  <2>7. \A i, j \in DOMAIN inbox' : Completes(inbox'[i]) /\ Completes(inbox'[j]) /\ i # j =>
           inbox'[i].of # inbox'[j].of
    BY <2>3, <2>4 DEF OnceInv
  <2>8. Completes(tmsg') =>
          /\ Answers(tmsg)'
          /\ \A i \in DOMAIN inbox' : Completes(inbox'[i]) => inbox'[i].of # tmsg'.of
    <3>1. Completes(inbox[1]) => Answers(inbox[1])
      BY <2>2 DEF OnceInv
    <3>2. Completes(tmsg') => Answers(tmsg)'
      BY <2>2, <2>5, <3>1 DEF Answers, Asked
    <3> QED
      BY <2>2, <2>3, <3>2 DEF OnceInv
  <2> QED
    BY <2>1, <2>3, <2>5, <2>6, <2>7, <2>8 DEF OnceInv, Asked, Completes
<1>13. CASE RespCheck
  BY <1>13 DEF OnceInv, Answers, Asked, Completes, RespCheck, mainVars, shared, caller, network, history, told
<1>14. CASE RespSevered
  BY <1>14 DEF OnceInv, Answers, Asked, Completes, RespSevered, mainVars, shared, network, history, told
<1>15. CASE RespProbe
  BY <1>15 DEF OnceInv, Answers, Asked, Completes, RespProbe, mainVars, shared, caller, network, history, told
<1>16. CASE RespLock
  BY <1>16 DEF told, OnceInv, Answers, Asked, Completes, RespLock, mainVars, shared, caller, network
<1>17. CASE RespBody
  BY <1>17 DEF OnceInv, Answers, Asked, Completes, RespBody, mainVars, caller, network, history, told
<1>18. CASE RespRelay
  BY <1>18 DEF OnceInv, Answers, Asked, Completes, RespRelay, mainVars, caller, network
<1>19. CASE IdleUnlock
  BY <1>19 DEF OnceInv, Answers, Asked, Completes, IdleUnlock, mainVars, respVars, shared, caller,
    network, history, told
<1>20. CASE IdleLock
  BY <1>20 DEF told, OnceInv, Answers, Asked, Completes, IdleLock, mainVars, respVars, shared, caller, network
<1>21. CASE IdleCheck
  BY <1>21 DEF told, OnceInv, Answers, Asked, Completes, IdleCheck, mainVars, respVars, network
<1>22. CASE \E x \in asked, d \in Drones : Accept(x, d)
  <2>1. PICK x \in asked, d \in Drones : Accept(x, d)
    BY <1>22
  <2>2. PICK r \in Response : inbox' = Append(inbox, r) /\ r.of = x /\ ~Completes(r)
    <3>1. x \in Item
      BY <2>1 DEF Accept, TypeOK
    <3>2. [thread |-> x.thread, sender |-> d, stats |-> <<"OK">>, of |-> x] \in Response
      BY <3>1 DEF Item, Response
    <3>3. inbox' = Append(inbox, [thread |-> x.thread, sender |-> d, stats |-> <<"OK">>, of |-> x])
      BY <2>1 DEF Accept, Send
    <3> QED
      BY <2>1, <3>2, <3>3 DEF Accept, Completes
  <2>3. inbox \in Seq(Response)
    BY DEF TypeOK
  <2>4. \A i \in DOMAIN inbox' :
          (i = Len(inbox) + 1 /\ inbox'[i] = r) \/ (i \in DOMAIN inbox /\ inbox'[i] = inbox[i])
    <3> TAKE i \in DOMAIN inbox'
    <3> QED
      BY <2>2, <2>3, AppendFacts
  <2>5. UNCHANGED <<main, resp, tmsg, sent>> /\ asked' = asked \ {x}
    BY <2>1 DEF Accept, mainVars, respVars, caller, shared, history, told
  <2>6. /\ x \in Item /\ Asked(x) /\ IsFiniteSet(asked')
    BY <2>1, <2>5, FS_RemoveElement DEF OnceInv, TypeOK, Accept
  <2>7. \A i \in DOMAIN inbox : Completes(inbox[i]) => inbox[i].of # x
    BY <2>1 DEF OnceInv, Answers, Accept
  <2>8. resp \in {"got", "locking", "body"} /\ Completes(tmsg) => tmsg.of # x
    BY <2>1 DEF OnceInv, Answers, Accept
  <2>9. \A y : Answers(y) /\ y.of # x => Answers(y)'
    BY <2>5 DEF Answers, Asked
  <2>10. Completes(r) => Answers(r)'
    BY <2>2, <2>5, <2>6 DEF Answers, Asked
  <2>11. \A i \in DOMAIN inbox' : (Completes(inbox[i]) => Answers(inbox[i]))'
    <3> SUFFICES ASSUME NEW i \in DOMAIN inbox', Completes(inbox'[i])
                 PROVE  Answers(inbox[i])'
      BY DEF Completes
    <3>1. CASE inbox'[i] = r
      BY <2>10, <3>1 DEF Answers, Asked
    <3>2. CASE i \in DOMAIN inbox /\ inbox'[i] = inbox[i]
      <4>1. Answers(inbox[i]) /\ inbox[i].of # x
        BY <2>7, <3>2 DEF OnceInv
      <4> QED
        BY <2>5, <3>2, <4>1 DEF Answers, Asked
    <3> QED
      BY <2>4, <3>1, <3>2
  <2>12. \A i, j \in DOMAIN inbox' : Completes(inbox'[i]) /\ Completes(inbox'[j]) /\ i # j =>
            inbox'[i].of # inbox'[j].of
    BY <2>2, <2>4, <2>7 DEF OnceInv
  <2>13. resp \in {"got", "locking", "body"} /\ Completes(tmsg) =>
           /\ Answers(tmsg)'
           /\ \A i \in DOMAIN inbox' : Completes(inbox'[i]) => inbox'[i].of # tmsg.of
    BY <2>2, <2>4, <2>8, <2>9, <2>5 DEF OnceInv
  <2> QED
    BY <2>5, <2>6, <2>11, <2>12, <2>13 DEF OnceInv, Asked, Completes
<1>23. CASE \E x \in asked, stats \in {<<"COMPLETE">>, << >>} : Answer(x, stats)
  <2>1. PICK x \in asked, stats \in {<<"COMPLETE">>, << >>} : Answer(x, stats)
    BY <1>23
  <2>2. PICK r \in Response : inbox' = Append(inbox, r) /\ r.of = x /\ (Completes(r) => x.type = "REQUEST")
    <3>1. x \in Item
      BY <2>1 DEF Answer, TypeOK
    <3>2. [thread |-> x.thread, sender |-> NoDrone, stats |-> stats, of |-> x] \in Response
      BY <3>1 DEF Item, Response
    <3>3. inbox' = Append(inbox, [thread |-> x.thread, sender |-> NoDrone, stats |-> stats, of |-> x])
      BY <2>1 DEF Answer, Send
    <3>4. stats = <<"COMPLETE">> => x.type = "REQUEST"
      BY <2>1 DEF Answer
    <3> DEFINE r == [thread |-> x.thread, sender |-> NoDrone, stats |-> stats, of |-> x]
    <3>5. r.of = x /\ (Completes(r) => x.type = "REQUEST")
      BY <3>4 DEF Completes
    <3> QED
      BY <3>2, <3>3, <3>5
  <2>3. inbox \in Seq(Response)
    BY DEF TypeOK
  <2>4. \A i \in DOMAIN inbox' :
          (i = Len(inbox) + 1 /\ inbox'[i] = r) \/ (i \in DOMAIN inbox /\ inbox'[i] = inbox[i])
    <3> TAKE i \in DOMAIN inbox'
    <3> QED
      BY <2>2, <2>3, AppendFacts
  <2>5. UNCHANGED <<main, resp, tmsg, sent>> /\ asked' = asked \ {x}
    BY <2>1 DEF Answer, mainVars, respVars, caller, shared, history, told
  <2>6. /\ x \in Item /\ Asked(x) /\ IsFiniteSet(asked')
    BY <2>1, <2>5, FS_RemoveElement DEF OnceInv, TypeOK, Answer
  <2>7. \A i \in DOMAIN inbox : Completes(inbox[i]) => inbox[i].of # x
    BY <2>1 DEF OnceInv, Answers, Answer
  <2>8. resp \in {"got", "locking", "body"} /\ Completes(tmsg) => tmsg.of # x
    BY <2>1 DEF OnceInv, Answers, Answer
  <2>9. \A y : Answers(y) /\ y.of # x => Answers(y)'
    BY <2>5 DEF Answers, Asked
  <2>10. Completes(r) => Answers(r)'
    BY <2>2, <2>5, <2>6 DEF Answers, Asked
  <2>11. \A i \in DOMAIN inbox' : (Completes(inbox[i]) => Answers(inbox[i]))'
    <3> SUFFICES ASSUME NEW i \in DOMAIN inbox', Completes(inbox'[i])
                 PROVE  Answers(inbox[i])'
      BY DEF Completes
    <3>1. CASE inbox'[i] = r
      BY <2>10, <3>1 DEF Answers, Asked
    <3>2. CASE i \in DOMAIN inbox /\ inbox'[i] = inbox[i]
      <4>1. Answers(inbox[i]) /\ inbox[i].of # x
        BY <2>7, <3>2 DEF OnceInv
      <4> QED
        BY <2>5, <3>2, <4>1 DEF Answers, Asked
    <3> QED
      BY <2>4, <3>1, <3>2
  <2>12. \A i, j \in DOMAIN inbox' : Completes(inbox'[i]) /\ Completes(inbox'[j]) /\ i # j =>
            inbox'[i].of # inbox'[j].of
    BY <2>2, <2>4, <2>7 DEF OnceInv
  <2>13. resp \in {"got", "locking", "body"} /\ Completes(tmsg) =>
           /\ Answers(tmsg)'
           /\ \A i \in DOMAIN inbox' : Completes(inbox'[i]) => inbox'[i].of # tmsg.of
    BY <2>2, <2>4, <2>8, <2>9, <2>5 DEF OnceInv
  <2> QED
    BY <2>5, <2>6, <2>11, <2>12, <2>13 DEF OnceInv, Asked, Completes
<1>24. CASE \E b \in bound : Expire(b)
  <2>1. PICK b \in bound : Expire(b)
    BY <1>24
  <2>2. PICK r \in Response : inbox' = Append(inbox, r) /\ ~Completes(r)
    <3>1. b[1] \in Threads /\ b[2] \in Drones
      BY <2>1 DEF TypeOK
    <3>2. [thread |-> b[1], sender |-> b[2], stats |-> <<"TIMEOUT">>, of |-> NoItem] \in Response
      BY <3>1 DEF Response
    <3>3. inbox' = Append(inbox, [thread |-> b[1], sender |-> b[2], stats |-> <<"TIMEOUT">>, of |-> NoItem])
      BY <2>1 DEF Expire, Send
    <3> QED
      BY <2>1, <3>2, <3>3 DEF Expire, Completes
  <2>3. inbox \in Seq(Response)
    BY DEF TypeOK
  <2>4. \A i \in DOMAIN inbox' :
          (i = Len(inbox) + 1 /\ inbox'[i] = r) \/ (i \in DOMAIN inbox /\ inbox'[i] = inbox[i])
    <3> TAKE i \in DOMAIN inbox'
    <3> QED
      BY <2>2, <2>3, AppendFacts
  <2>5. UNCHANGED <<main, resp, tmsg, sent>> /\ asked' = asked
    BY <2>1 DEF Expire, mainVars, respVars, caller, shared, history, told
  <2> QED
    BY <2>2, <2>4, <2>5 DEF OnceInv, Answers, Asked
<1>25. CASE Tick
  BY <1>25 DEF OnceInv, Answers, Asked, Completes, Tick, mainVars, respVars, caller, network, history, told
<1>26. CASE Sigusr1
  BY <1>26 DEF OnceInv, Answers, Asked, Completes, Sigusr1, mainVars, network, history, told
<1>27. CASE Sever
  <2>1. asked' = {} /\ UNCHANGED <<main, inbox, resp, tmsg, sent>>
    BY <1>27 DEF Sever, mainVars, respVars, caller
  <2>2. IsFiniteSet(asked')
    BY <2>1, FS_EmptySet
  <2> QED
    BY <2>1, <2>2 DEF OnceInv, Answers, Asked, Completes
<1> QED
  BY <1>1, <1>2, <1>3, <1>4, <1>5, <1>6, <1>7, <1>8, <1>9, <1>10, <1>11, <1>12, <1>13, <1>14, <1>15,
    <1>16, <1>17, <1>18, <1>19, <1>20, <1>21, <1>22, <1>23, <1>24, <1>25, <1>26, <1>27 DEF Step,
    MainBody, RespNext, IdleNext

\* When no more wait than before and the count stays, it stays large enough.
LEMMA WaitingFewer ==
    ASSUME TypeOK, HandsInv, OnceInv, FlightInv, Waiting' \subseteq Waiting,
           inFlight' = inFlight, abandoned' = abandoned, raced => raced'
    PROVE  FlightInv'
<1>1. IsFiniteSet(Waiting) /\ Cardinality(Waiting) \in Nat
  BY WaitingFacts
<1>2. Waiting' \in SUBSET Waiting
  OBVIOUS
<1>3. Cardinality(Waiting') <= Cardinality(Waiting) /\ Cardinality(Waiting') \in Nat
  BY <1>1, <1>2, FS_Subset, FS_CardinalityType
<1>4. inFlight \in Int
  BY DEF TypeOK
<1> QED
  BY <1>1, <1>3, <1>4 DEF FlightInv

\* The count of requests in flight stays large enough.
LEMMA FlightStep ==
    ASSUME TypeOK, HandsInv, AloneInv, OnceInv, FlightInv, Step
    PROVE  FlightInv'
<1>1. CASE Connect
  <2>1. Waiting' \subseteq Waiting
    BY <1>1 DEF Connect, Waiting, Requests, mainVars, respVars, network
  <2>2. UNCHANGED <<inFlight, abandoned>> /\ (raced => raced')
    BY <1>1 DEF Connect, shared, history, told
  <2> QED
    BY <2>1, <2>2, WaitingFewer
<1>2. CASE \E n \in Names, b \in Batches : Receive(n, b)
  <2>1. UNCHANGED <<asked, inbox, resp, tmsg, inFlight, abandoned, raced>>
    BY <1>2 DEF Receive, respVars, network, shared, history, told
  <2> QED
    BY <2>1, WaitingFewer DEF Waiting
<1>3. CASE MainLock
  <2>1. Waiting' \subseteq Waiting
    BY <1>3 DEF told, MainLock, Waiting, Requests, mainVars, respVars, network
  <2>2. UNCHANGED <<inFlight, abandoned>> /\ (raced => raced')
    BY <1>3 DEF MainLock, shared, history, told
  <2> QED
    BY <2>1, <2>2, WaitingFewer
<1>4. CASE MainLookup
  <2>1. Waiting' \subseteq Waiting
    BY <1>4 DEF MainLookup, Waiting, Requests, mainVars, respVars, network
  <2>2. UNCHANGED <<inFlight, abandoned>> /\ (raced => raced')
    BY <1>4 DEF MainLookup, shared, history, told
  <2> QED
    BY <2>1, <2>2, WaitingFewer
<1>5. CASE MainReject
  <2>1. Waiting' \subseteq Waiting
    BY <1>5 DEF MainReject, Waiting, Requests, mainVars, respVars, network
  <2>2. UNCHANGED <<inFlight, abandoned>> /\ (raced => raced')
    BY <1>5 DEF MainReject, shared, history, told
  <2> QED
    BY <2>1, <2>2, WaitingFewer
<1>6. CASE MainRelay
  <2> DEFINE more == Requests(Asking)
  <2>1. /\ IsFiniteSet(more) /\ Cardinality(more) \in Nat
        /\ IsFiniteSet(Waiting) /\ Cardinality(Waiting) \in Nat
    <3>1. main = "relay"
      BY <1>6 DEF MainRelay
    <3>2. IsFiniteSet(Asking) /\ more \in SUBSET Asking
      BY <3>1, AskingFacts DEF Requests
    <3> QED
      BY <3>2, WaitingFacts, FS_Subset, FS_CardinalityType
  <2>2. UNCHANGED <<inbox, resp, tmsg, raced, abandoned>> /\ asked' \subseteq asked \cup Asking
    BY <1>6 DEF MainRelay, respVars
  <2>3. Waiting' \subseteq Waiting \cup more
    BY <2>2 DEF Waiting, Requests
  <2>4. SUFFICES ASSUME ~raced, abandoned = {}
                 PROVE  Cardinality(Waiting') <= inFlight'
    BY <2>2 DEF FlightInv
  <2>5. inFlight' = inFlight + Cardinality(more)
    BY <1>6, <2>4 DEF MainRelay, AloneInv, MainInside, RespInside
  <2>6. IsFiniteSet(Waiting \cup more) /\ Cardinality(Waiting \cup more) \in Nat
    BY <2>1, FS_Union, FS_CardinalityType
  <2>7. Cardinality(Waiting \cup more) <= Cardinality(Waiting) + Cardinality(more)
    <3> HIDE DEF more
    <3>1. /\ Cardinality(Waiting \cup more)
               = Cardinality(Waiting) + Cardinality(more) - Cardinality(Waiting \cap more)
      BY <2>1, FS_Union
    <3>2. Cardinality(Waiting \cap more) \in Nat
      <4>1. Waiting \cap more \in SUBSET more
        OBVIOUS
      <4> QED
        BY <2>1, <4>1, FS_Subset, FS_CardinalityType
    <3> QED
      BY <2>1, <3>1, <3>2
  <2>8. Cardinality(Waiting') <= Cardinality(Waiting \cup more) /\ Cardinality(Waiting') \in Nat
    <3>1. Waiting' \in SUBSET (Waiting \cup more)
      BY <2>3
    <3> QED
      BY <2>6, <3>1, FS_Subset, FS_CardinalityType
  <2>9. Cardinality(Waiting) <= inFlight /\ inFlight \in Int
    BY <2>4 DEF FlightInv, TypeOK
  <2> HIDE DEF more
  <2> QED
    BY <2>1, <2>5, <2>6, <2>7, <2>8, <2>9
<1>7. CASE MainUnlock
  <2>1. Waiting' \subseteq Waiting
    BY <1>7 DEF MainUnlock, Waiting, Requests, mainVars, respVars, network
  <2>2. UNCHANGED <<inFlight, abandoned>> /\ (raced => raced')
    BY <1>7 DEF MainUnlock, shared, history, told
  <2> QED
    BY <2>1, <2>2, WaitingFewer
<1>8. CASE MainClose
  <2>1. Waiting' \subseteq Waiting
    BY <1>8 DEF MainClose, Waiting, Requests, mainVars, respVars, network
  <2>2. UNCHANGED <<inFlight, abandoned>> /\ (raced => raced')
    BY <1>8 DEF MainClose, shared, history, told
  <2> QED
    BY <2>1, <2>2, WaitingFewer
<1>9. CASE Leave
  <2>1. Waiting' \subseteq Waiting
    BY <1>9 DEF Leave, Waiting, Requests, mainVars, respVars, network
  <2>2. UNCHANGED <<inFlight, abandoned>> /\ (raced => raced')
    BY <1>9 DEF Leave, shared, history, told
  <2> QED
    BY <2>1, <2>2, WaitingFewer
<1>10. CASE Clear
  <2>1. Waiting' \subseteq Waiting
    BY <1>10 DEF Clear, Waiting, Requests, mainVars, respVars, network
  <2>2. UNCHANGED <<inFlight, abandoned>> /\ (raced => raced')
    BY <1>10 DEF Clear, shared, history, told
  <2> QED
    BY <2>1, <2>2, WaitingFewer
<1>11. CASE RespUnlock
  <2>1. Waiting' \subseteq Waiting
    BY <1>11 DEF RespUnlock, Waiting, Requests, mainVars, respVars, network
  <2>2. UNCHANGED <<inFlight, abandoned>> /\ (raced => raced')
    BY <1>11 DEF RespUnlock, shared, history, told
  <2> QED
    BY <2>1, <2>2, WaitingFewer
<1>12. CASE RespRecv
  <2>1. /\ inbox # << >> /\ inbox \in Seq(Response) /\ tmsg' = Head(inbox) /\ inbox' = Tail(inbox)
        /\ resp' = "got"
    BY <1>12 DEF RespRecv, TypeOK
  <2>2. tmsg' = inbox[1] /\ 1 \in DOMAIN inbox
    BY <2>1, TailFacts
  <2>3. \A i \in DOMAIN inbox' : inbox'[i] = inbox[i + 1] /\ i + 1 \in DOMAIN inbox
    BY <2>1, TailFacts
  <2>4. UNCHANGED <<asked, inFlight, abandoned, raced>>
    BY <1>12 DEF RespRecv, shared, history, told
  <2>5. ASSUME NEW i \in DOMAIN inbox', inbox'[i].stats = <<"COMPLETE">>
        PROVE  \E j \in DOMAIN inbox : inbox[j].stats = <<"COMPLETE">> /\ inbox[j].of = inbox'[i].of
    BY <2>3, <2>5
  <2>6. Waiting' \subseteq Waiting
    BY <2>1, <2>2, <2>4, <2>5 DEF Waiting, Requests
  <2> QED
    BY <2>4, <2>6, WaitingFewer
<1>13. CASE RespCheck
  <2>1. Waiting' \subseteq Waiting
    BY <1>13 DEF RespCheck, Waiting, Requests, mainVars, respVars, network
  <2>2. UNCHANGED <<inFlight, abandoned>> /\ (raced => raced')
    BY <1>13 DEF RespCheck, shared, history, told
  <2> QED
    BY <2>1, <2>2, WaitingFewer
<1>14. CASE RespSevered
  <2>1. Waiting' \subseteq Waiting
    BY <1>14 DEF RespSevered, Waiting, Requests, mainVars, respVars, network
  <2>2. UNCHANGED <<inFlight, abandoned>> /\ (raced => raced')
    BY <1>14 DEF RespSevered, shared, history, told
  <2> QED
    BY <2>1, <2>2, WaitingFewer
<1>15. CASE RespProbe
  <2>1. Waiting' \subseteq Waiting
    BY <1>15 DEF RespProbe, Waiting, Requests, mainVars, respVars, network
  <2>2. UNCHANGED <<inFlight, abandoned>> /\ (raced => raced')
    BY <1>15 DEF RespProbe, shared, history, told
  <2> QED
    BY <2>1, <2>2, WaitingFewer
<1>16. CASE RespLock
  <2>1. Waiting' \subseteq Waiting
    BY <1>16 DEF told, RespLock, Waiting, Requests, mainVars, respVars, network
  <2>2. UNCHANGED <<inFlight, abandoned>> /\ (raced => raced')
    BY <1>16 DEF RespLock, shared, history, told
  <2> QED
    BY <2>1, <2>2, WaitingFewer
<1>17. CASE RespBody
  <2>1. /\ UNCHANGED <<main, asked, inbox, tmsg, raced, abandoned>>
        /\ resp = "body" /\ resp' = "relay"
    BY <1>17 DEF RespBody, mainVars, network, history, told
  <2>2. Waiting' \subseteq Waiting
    BY <2>1 DEF Waiting, Requests
  <2>3. CASE ~Completes(tmsg)
    <3>1. inFlight' = inFlight
      BY <1>17, <2>3 DEF RespBody, Completes
    <3> QED
      BY <2>1, <2>2, <3>1, WaitingFewer
  <2>4. CASE Completes(tmsg)
    <3>1. SUFFICES ASSUME ~raced, abandoned = {}
                   PROVE  Cardinality(Waiting') <= inFlight'
      BY <2>1 DEF FlightInv
    <3>2. inFlight' = inFlight - 1
      BY <1>17, <2>1, <2>4, <3>1 DEF RespBody, Completes, AloneInv, MainInside, RespInside
    <3> DEFINE x == tmsg.of
    <3>3. x \in Waiting /\ Waiting' \subseteq Waiting \ {x}
      <4>1. x.type = "REQUEST" /\ x \notin asked
        BY <2>1, <2>4 DEF OnceInv, Answers
      <4>2. \A i \in DOMAIN inbox : inbox[i].stats = <<"COMPLETE">> => inbox[i].of # x
        BY <2>1, <2>4 DEF OnceInv, Completes
      <4>3. x \in Waiting
        BY <2>1, <2>4, <4>1 DEF Waiting, Requests, Completes
      <4>4. x \notin Waiting'
        BY <2>1, <4>1, <4>2 DEF Waiting, Requests
      <4> QED
        BY <2>2, <4>3, <4>4
    <3>4. /\ IsFiniteSet(Waiting) /\ Cardinality(Waiting) \in Nat /\ Cardinality(Waiting) <= inFlight
          /\ inFlight \in Int
      BY <3>1, WaitingFacts DEF FlightInv, TypeOK
    <3> HIDE DEF x
    <3>5. IsFiniteSet(Waiting \ {x}) /\ Cardinality(Waiting \ {x}) = Cardinality(Waiting) - 1
      BY <3>3, <3>4, FS_RemoveElement
    <3>6. Cardinality(Waiting') <= Cardinality(Waiting \ {x}) /\ Cardinality(Waiting') \in Nat
      <4>1. Waiting' \in SUBSET (Waiting \ {x})
        BY <3>3
      <4> QED
        BY <3>5, <4>1, FS_Subset, FS_CardinalityType
    <3> QED
      BY <3>2, <3>4, <3>5, <3>6
  <2> QED
    BY <2>3, <2>4
<1>18. CASE RespRelay
  <2>1. Waiting' \subseteq Waiting
    BY <1>18 DEF RespRelay, Waiting, Requests, mainVars, respVars, network
  <2>2. UNCHANGED <<inFlight, abandoned>> /\ (raced => raced')
    BY <1>18 DEF RespRelay, shared, history, told
  <2> QED
    BY <2>1, <2>2, WaitingFewer
<1>19. CASE IdleUnlock
  <2>1. Waiting' \subseteq Waiting
    BY <1>19 DEF IdleUnlock, Waiting, Requests, mainVars, respVars, network
  <2>2. UNCHANGED <<inFlight, abandoned>> /\ (raced => raced')
    BY <1>19 DEF IdleUnlock, shared, history, told
  <2> QED
    BY <2>1, <2>2, WaitingFewer
<1>20. CASE IdleLock
  <2>1. Waiting' \subseteq Waiting
    BY <1>20 DEF told, IdleLock, Waiting, Requests, mainVars, respVars, network
  <2>2. UNCHANGED <<inFlight, abandoned>> /\ (raced => raced')
    BY <1>20 DEF IdleLock, shared, history, told
  <2> QED
    BY <2>1, <2>2, WaitingFewer
<1>21. CASE IdleCheck
  <2>1. UNCHANGED <<asked, inbox, resp, tmsg, raced>>
    BY <1>21 DEF told, IdleCheck, respVars, network
  <2>2. Waiting' = Waiting
    BY <2>1 DEF Waiting
  <2>3. CASE connected /\ inFlight # 0 /\ quiet >= MaxWait
    <3>1. inFlight' = 0 /\ abandoned' = abandoned \cup Waiting
      BY <1>21, <2>3 DEF told, IdleCheck
    <3>2. abandoned' = {} => Waiting = {}
      BY <3>1
    <3>3. Cardinality({}) = 0
      BY FS_EmptySet
    <3> QED
      BY <2>2, <3>1, <3>2, <3>3 DEF FlightInv
  <2>4. CASE ~(connected /\ inFlight # 0 /\ quiet >= MaxWait)
    BY <1>21, <2>1, <2>2, <2>4 DEF told, IdleCheck, FlightInv
  <2> QED
    BY <2>3, <2>4
<1>22. CASE \E x \in asked, d \in Drones : Accept(x, d)
  <2>1. PICK x \in asked, d \in Drones : Accept(x, d)
    BY <1>22
  <2>2. PICK r \in Response : inbox' = Append(inbox, r) /\ ~Completes(r)
    <3>1. x \in Item
      BY <2>1 DEF Accept, TypeOK
    <3>2. [thread |-> x.thread, sender |-> d, stats |-> <<"OK">>, of |-> x] \in Response
      BY <3>1 DEF Item, Response
    <3>3. inbox' = Append(inbox, [thread |-> x.thread, sender |-> d, stats |-> <<"OK">>, of |-> x])
      BY <2>1 DEF Accept, Send
    <3> QED
      BY <2>1, <3>2, <3>3 DEF Accept, Completes
  <2>3. inbox \in Seq(Response)
    BY DEF TypeOK
  <2>4. \A i \in DOMAIN inbox' : inbox'[i] = r \/ (i \in DOMAIN inbox /\ inbox'[i] = inbox[i])
    <3> TAKE i \in DOMAIN inbox'
    <3> QED
      BY <2>2, <2>3, AppendFacts
  <2>5. UNCHANGED <<resp, tmsg, inFlight, abandoned, raced>> /\ asked' \subseteq asked
    BY <2>1 DEF Accept, respVars, network, shared, history, told
  <2>6. Waiting' \subseteq Waiting
    BY <2>2, <2>4, <2>5 DEF Waiting, Requests, Completes
  <2> QED
    BY <2>5, <2>6, WaitingFewer
<1>23. CASE \E x \in asked, stats \in {<<"COMPLETE">>, << >>} : Answer(x, stats)
  <2>1. PICK x \in asked, stats \in {<<"COMPLETE">>, << >>} : Answer(x, stats)
    BY <1>23
  <2>2. PICK r \in Response : inbox' = Append(inbox, r) /\ r.of \in asked
    <3>1. x \in Item
      BY <2>1 DEF Answer, TypeOK
    <3>2. [thread |-> x.thread, sender |-> NoDrone, stats |-> stats, of |-> x] \in Response
      BY <3>1 DEF Item, Response
    <3>3. inbox' = Append(inbox, [thread |-> x.thread, sender |-> NoDrone, stats |-> stats, of |-> x])
      BY <2>1 DEF Answer, Send
    <3> QED
      BY <2>1, <3>2, <3>3 DEF Answer, Completes
  <2>3. inbox \in Seq(Response)
    BY DEF TypeOK
  <2>4. \A i \in DOMAIN inbox' : inbox'[i] = r \/ (i \in DOMAIN inbox /\ inbox'[i] = inbox[i])
    <3> TAKE i \in DOMAIN inbox'
    <3> QED
      BY <2>2, <2>3, AppendFacts
  <2>5. UNCHANGED <<resp, tmsg, inFlight, abandoned, raced>> /\ asked' \subseteq asked
    BY <2>1 DEF Answer, respVars, network, shared, history, told
  <2>6. Waiting' \subseteq Waiting
    BY <2>2, <2>4, <2>5 DEF Waiting, Requests, Completes
  <2> QED
    BY <2>5, <2>6, WaitingFewer
<1>24. CASE \E b \in bound : Expire(b)
  <2>1. PICK b \in bound : Expire(b)
    BY <1>24
  <2>2. PICK r \in Response : inbox' = Append(inbox, r) /\ ~Completes(r)
    <3>1. b[1] \in Threads /\ b[2] \in Drones
      BY <2>1 DEF TypeOK
    <3>2. [thread |-> b[1], sender |-> b[2], stats |-> <<"TIMEOUT">>, of |-> NoItem] \in Response
      BY <3>1 DEF Response
    <3>3. inbox' = Append(inbox, [thread |-> b[1], sender |-> b[2], stats |-> <<"TIMEOUT">>, of |-> NoItem])
      BY <2>1 DEF Expire, Send
    <3> QED
      BY <2>1, <3>2, <3>3 DEF Expire, Completes
  <2>3. inbox \in Seq(Response)
    BY DEF TypeOK
  <2>4. \A i \in DOMAIN inbox' : inbox'[i] = r \/ (i \in DOMAIN inbox /\ inbox'[i] = inbox[i])
    <3> TAKE i \in DOMAIN inbox'
    <3> QED
      BY <2>2, <2>3, AppendFacts
  <2>5. UNCHANGED <<resp, tmsg, inFlight, abandoned, raced>> /\ asked' \subseteq asked
    BY <2>1 DEF Expire, respVars, network, shared, history, told
  <2>6. Waiting' \subseteq Waiting
    BY <2>2, <2>4, <2>5 DEF Waiting, Requests, Completes
  <2> QED
    BY <2>5, <2>6, WaitingFewer
<1>25. CASE Tick
  <2>1. Waiting' \subseteq Waiting
    BY <1>25 DEF Tick, Waiting, Requests, mainVars, respVars, network
  <2>2. UNCHANGED <<inFlight, abandoned>> /\ (raced => raced')
    BY <1>25 DEF Tick, shared, history, told
  <2> QED
    BY <2>1, <2>2, WaitingFewer
<1>26. CASE Sigusr1
  <2>1. Waiting' \subseteq Waiting
    BY <1>26 DEF Sigusr1, Waiting, Requests, mainVars, respVars, network
  <2>2. UNCHANGED <<inFlight, abandoned>> /\ (raced => raced')
    BY <1>26 DEF Sigusr1, shared, history, told
  <2> QED
    BY <2>1, <2>2, WaitingFewer
<1>27. CASE Sever
  <2>1. Waiting' \subseteq Waiting
    BY <1>27 DEF Sever, Waiting, Requests, mainVars, respVars, network
  <2>2. UNCHANGED <<inFlight, abandoned>> /\ (raced => raced')
    BY <1>27 DEF Sever, shared, history, told
  <2> QED
    BY <2>1, <2>2, WaitingFewer
<1> QED
  BY <1>1, <1>2, <1>3, <1>4, <1>5, <1>6, <1>7, <1>8, <1>9, <1>10, <1>11, <1>12, <1>13, <1>14, <1>15,
    <1>16, <1>17, <1>18, <1>19, <1>20, <1>21, <1>22, <1>23, <1>24, <1>25, <1>26, <1>27 DEF Step,
    MainBody, RespNext, IdleNext

-----------------------------------------------------------------------------
(* The theorems.                                                           *)

\* The inductive invariant.
WInv == TypeOK /\ SessionInv /\ OnceInv /\ FlightInv

LEMMA WInvInit ==
    Init => WInv /\ abandoned = {}
<1> SUFFICES ASSUME Init PROVE WInv /\ abandoned = {}
  OBVIOUS
<1>1. Cached = {} /\ IsFiniteSet(Cached) /\ Cardinality(Cached) = 0
  BY FS_EmptySet DEF Init, Cached
<1>2. /\ main = "away" /\ resp = "off" /\ idle = "off" /\ asked = {} /\ inbox = << >> /\ bound = {}
      /\ abandoned = {} /\ inFlight = 0
      /\ cache = [t \in Threads |-> NoDrone] /\ bonded = [t \in Threads |-> NoDrone]
      /\ crowded = {} /\ given = {}
  BY DEF Init
<1>3. TypeOK
  <2>1. /\ recipient = Router /\ inMsg = << >> /\ tmsg = << >> /\ quiet = 0 /\ signals = 0 /\ client = 0
        /\ sent = 0 /\ {locked, connected, shutdown, closing, severed, raced} \subseteq BOOLEAN
    BY DEF Init
  <2>2. cache \in [Threads -> Drones \cup {NoDrone}] /\ bonded \in [Threads -> Drones \cup {NoDrone}]
    BY <1>2
  <2>3. Cardinality(Cached) <= MaxSessions
    BY <1>1, Constants
  <2>4. /\ quiet \in 0 .. MaxQuiet /\ signals \in 0 .. MaxSignals /\ client \in 0 .. MaxClients
        /\ sent \in 0 .. MaxSent + MaxCalmSent
    BY <2>1, Constants
  <2> QED
    BY <1>2, <2>1, <2>2, <2>3, <2>4 DEF TypeOK
<1>4. SessionInv
  BY <1>1, <1>2 DEF SessionInv, HandsInv, Holding, AloneInv, MainInside, RespInside, IdleInside, FreshInv,
                    CacheInv
<1>5. OnceInv
  BY <1>2, FS_EmptySet DEF OnceInv
<1>6. FlightInv
  <2>1. Waiting = {}
    BY <1>2 DEF Waiting, Requests
  <2>2. Cardinality({}) = 0
    BY FS_EmptySet
  <2> QED
    BY <1>2, <2>1, <2>2 DEF FlightInv
<1> QED
  BY <1>2, <1>3, <1>4, <1>5, <1>6 DEF WInv

LEMMA WInvStep ==
    WInv /\ [Next]_<<outside, vars>> => WInv'
<1> SUFFICES ASSUME WInv, [Next]_<<outside, vars>> PROVE WInv'
  OBVIOUS
<1>1. TypeOK /\ HandsInv /\ AloneInv /\ FreshInv /\ CacheInv /\ OnceInv /\ FlightInv
  BY DEF WInv, SessionInv
<1>2. CASE Step
  BY <1>1, <1>2, TypeStep, AloneStep, FreshStep, CacheStep, OnceStep, FlightStep DEF WInv, SessionInv
<1>3. CASE UNCHANGED <<outside, vars>>
  <2>1. /\ UNCHANGED <<main, inMsg, recipient, resp, tmsg, idle, locked, connected, cache, inFlight, quiet>>
        /\ UNCHANGED <<shutdown, signals, client, closing, sent, asked, inbox, bound, severed>>
        /\ UNCHANGED <<bonded, crowded, given, raced, abandoned>>
    BY <1>3 DEF vars, mainVars, respVars, shared, caller, network, history, told
  <2>2. TypeOK'
    BY <1>1, <2>1 DEF TypeOK, Cached
  <2>3. HandsInv' /\ AloneInv'
    BY <1>1, <2>1 DEF HandsInv, Holding, Cached, AloneInv, MainInside, RespInside, IdleInside
  <2>4. FreshInv' /\ CacheInv'
    BY <1>1, <2>1 DEF FreshInv, Past, Holding, CacheInv, Agreed
  <2>5. OnceInv'
    BY <1>1, <2>1 DEF OnceInv, Answers, Asked, Completes
  <2>6. FlightInv'
    BY <1>1, <2>1 DEF FlightInv, Waiting
  <2> QED
    BY <2>2, <2>3, <2>4, <2>5, <2>6 DEF WInv, SessionInv
<1> QED
  BY <1>2, <1>3 DEF Next

\* The invariant holds in every reachable state: among the rest, the variables have their
\* types, and the cache of sessions is never larger than MAX_ACTIVE_STATEFUL_SESSIONS
\* (osrf_responder_thread_main_body).
THEOREM WebsocketInvariance == Spec => []WInv
<1> QED
  BY WInvInit, WInvStep, PTL DEF Spec

\* The lookup of the recipient finds what the caller was told.
LEMMA LookupStep ==
    ASSUME WInv, [Next]_<<outside, vars>>, main = "lookup", main' = "relay", ~raced,
           inMsg.thread \notin crowded
    PROVE  recipient' = IF bonded[inMsg.thread] # NoDrone THEN bonded[inMsg.thread] ELSE Router
<1>1. MainLookup
  <2>1. Step
    BY DEF Next, vars, mainVars
  <2>2. ~(MainLock \/ MainReject \/ MainRelay \/ MainUnlock \/ MainClose \/ Clear \/ Connect \/ Leave)
    BY DEF told, MainLock, MainReject, MainRelay, MainUnlock, MainClose, Clear, Connect, Leave
  <2>3. ~RespNext /\ ~IdleNext
    BY DEF told, RespNext, RespUnlock, RespRecv, RespCheck, RespSevered, RespProbe, RespLock, RespBody, RespRelay,
           IdleNext, IdleUnlock, IdleLock, IdleCheck, mainVars
  <2>4. ~Tick /\ ~Sigusr1 /\ ~Sever
    BY DEF Tick, Sigusr1, Sever, mainVars
  <2>5. /\ ~ \E n \in Names, b \in Batches : Receive(n, b)
        /\ ~ \E x \in asked, d \in Drones : Accept(x, d)
        /\ ~ \E x \in asked, stats \in {<<"COMPLETE">>, << >>} : Answer(x, stats)
        /\ ~ \E b \in bound : Expire(b)
    BY DEF Receive, Accept, Answer, Expire, mainVars
  <2> QED
    BY <2>1, <2>2, <2>3, <2>4, <2>5 DEF Step, MainBody
<1>2. inMsg.thread \in Threads /\ inMsg.thread[1] = client
  BY DEF WInv, SessionInv, HandsInv
<1>3. resp # "relay"
  BY DEF WInv, SessionInv, AloneInv, MainInside, RespInside
<1>4. cache[inMsg.thread] = bonded[inMsg.thread]
  BY <1>2, <1>3 DEF WInv, SessionInv, CacheInv, Agreed
<1> QED
  BY <1>1, <1>4 DEF MainLookup

\* For any number of callers, workers, sessions and messages: as long as the mutex keeps the
\* threads apart, a message goes to the worker that the caller was told it is connected to,
\* and to the router otherwise; but for the sessions whose OK came when the cache was full,
\* of which nothing is said (on_message_handler_body, osrf_responder_thread_main_body).
THEOREM RecipientSafe == Spec => RecipientFollowsSession
<1>1. WInv /\ [Next]_<<outside, vars>>
        => [ main = "lookup" /\ main' = "relay" /\ ~raced /\ inMsg.thread \notin crowded =>
               recipient' = IF bonded[inMsg.thread] # NoDrone
                            THEN bonded[inMsg.thread] ELSE Router ]_vars
  BY LookupStep
<1> QED
  BY <1>1, WebsocketInvariance, PTL DEF Spec, RecipientFollowsSession

\* What the idle timeout thread may close: a caller with no request to be answered, but
\* for those that this very check gives up.
ClosedStep ==
    idle = "check" /\ idle' = "unlocking" /\ ~closing /\ closing' /\ ~raced =>
        \A x \in Waiting : x.thread[1] = client => x \in abandoned'

LEMMA IdleStep ==
    ASSUME WInv, [Next]_<<outside, vars>>, abandoned = {}
    PROVE  ClosedStep /\ (abandoned' = {} \/ quiet >= MaxWait)
<1>1. CASE IdleCheck
  <2>1. CASE connected /\ inFlight # 0 /\ quiet >= MaxWait
    BY <1>1, <2>1 DEF told, IdleCheck, ClosedStep
  <2>2. CASE ~(connected /\ inFlight # 0 /\ quiet >= MaxWait)
    <3>1. abandoned' = {}
      BY <1>1, <2>2 DEF told, IdleCheck
    <3>2. ASSUME ~closing, closing', ~raced
          PROVE  Waiting = {}
      <4>1. inFlight = 0
        BY <1>1, <2>2, <3>2 DEF told, IdleCheck
      <4>2. IsFiniteSet(Waiting) /\ Cardinality(Waiting) \in Nat
        BY WaitingFacts DEF WInv, SessionInv
      <4>3. Cardinality(Waiting) = 0
        BY <3>2, <4>1, <4>2 DEF WInv, FlightInv
      <4> QED
        BY <4>2, <4>3, FS_EmptySet
    <3> QED
      BY <3>1, <3>2 DEF ClosedStep
  <2> QED
    BY <2>1, <2>2
<1>2. CASE ~IdleCheck
  <2>1. abandoned' = abandoned /\ ~(idle = "check" /\ idle' = "unlocking")
    <3>1. CASE UNCHANGED <<outside, vars>>
      BY <3>1 DEF vars, history, told
    <3>2. CASE MainBody \/ Connect \/ Leave
      BY <3>2 DEF told, MainBody, MainLock, MainLookup, MainReject, MainRelay, MainUnlock, MainClose, Clear,
                  Connect, Leave, history, told
    <3>3. CASE RespNext
      BY <3>3 DEF told, RespNext, RespUnlock, RespRecv, RespCheck, RespSevered, RespProbe, RespLock, RespBody,
                  RespRelay, history, told
    <3>4. CASE IdleUnlock \/ IdleLock
      BY <3>4 DEF IdleUnlock, IdleLock, history, told
    <3>5. CASE Tick \/ Sigusr1 \/ Sever
      BY <3>5 DEF Tick, Sigusr1, Sever, history, told
    <3>6. CASE \/ \E n \in Names, b \in Batches : Receive(n, b)
               \/ \E x \in asked, d \in Drones : Accept(x, d)
               \/ \E x \in asked, stats \in {<<"COMPLETE">>, << >>} : Answer(x, stats)
               \/ \E b \in bound : Expire(b)
      BY <3>6 DEF Receive, Accept, Answer, Expire, history, told
    <3> QED
      BY <1>2, <3>1, <3>2, <3>3, <3>4, <3>5, <3>6 DEF Next, Step, IdleNext
  <2> QED
    BY <2>1 DEF ClosedStep
<1> QED
  BY <1>1, <1>2

\* For any instance: up to and with the first check that gives requests up, the idle timeout
\* thread closes no caller one of whose requests is still to be answered and is not given
\* up (active_connection_count, osrf_idle_timeout_thread_main).
THEOREM ClosedUntilGivenUp == Spec => [][abandoned = {} => ClosedStep]_vars
<1>1. WInv /\ [Next]_<<outside, vars>> => [abandoned = {} => ClosedStep]_vars
  BY IdleStep
<1> QED
  BY <1>1, WebsocketInvariance, PTL DEF Spec

\* Where no quiet time is as long as the wait for an answer, as in the run, the variables
\* have their types and nobody is closed who waits for an answer.
THEOREM TypedAndIdleSafe ==
    ASSUME MaxQuiet < MaxWait
    PROVE  Spec => TypedAndClosedOnlyIdle
<1>1. WInv /\ abandoned = {} /\ [Next]_<<outside, vars>> => (abandoned = {})' /\ ClosedStep
  <2> SUFFICES ASSUME WInv, abandoned = {}, [Next]_<<outside, vars>>
               PROVE  abandoned' = {} /\ ClosedStep
    OBVIOUS
  <2>1. ~(quiet >= MaxWait)
    BY Constants DEF WInv, TypeOK
  <2> QED
    BY <2>1, IdleStep
<1>2. Init => abandoned = {}
  BY WInvInit
<1>3. WInv => TypeOK
  BY DEF WInv
<1>4. WInv /\ abandoned = {} /\ [Next]_<<outside, vars>>
        => [ idle = "check" /\ idle' = "unlocking" /\ ~closing /\ closing' /\ ~raced =>
               \A x \in Waiting : x.thread[1] = client => x \in abandoned' ]_vars
  BY <1>1 DEF ClosedStep
<1> QED
  BY <1>1, <1>2, <1>3, <1>4, WebsocketInvariance, PTL DEF Spec, TypedAndClosedOnlyIdle, ClosedOnlyIdle
=============================================================================
