----------------------------- MODULE AppSession -----------------------------
(***************************************************************************)
(* src/src/libopensrf/osrf_app_session.c and osrf_stack.c: a client's      *)
(* session with a service, its requests, and what the messages that come   *)
(* do to them; and, on the other side, what a worker's stack does with the *)
(* messages of the session.                                                *)
(*                                                                         *)
(* The client is one thread.  Every send first handles the messages that   *)
(* have come, and handling one may send (a request is resent after a       *)
(* redirect or a timeout): the sends in progress are a stack.  Sessions    *)
(* are built with ASSUME_STATELESS: unless connected, a message goes to    *)
(* the router.                                                             *)
(*                                                                         *)
(* A transport message holds one message here; a bundle of them is as many *)
(* messages in a row.  A wait may end without a message at any moment: its *)
(* length is left out.  Outside: the router picks any free                 *)
(* worker, Jabber returns what is sent to a dead one, the method answers   *)
(* with one of the sequences in Answers.                                   *)
(***************************************************************************)
EXTENDS Integers, Sequences, FiniteSets

CONSTANTS
    Drones,         \* the addresses of workers
    Router,         \* orig_remote_id: the router's address for the service
    HashSize,       \* OSRF_REQUEST_HASH_SIZE
    Answers,        \* what a method sends: sequences of [kind, k]
    MaxReqs,        \* bound: requests of the session
    MaxConnects,    \* bound: calls of osrfAppSessionConnect
    Faults          \* what may happen in a behaviour: workers die ("die"), a worker waits in
                    \* vain for the next request ("expire"), the client gives up waiting, and
                    \* connects and disconnects with requests unanswered ("overlap")

Ks == 0 .. 2

\* The parts of an answer, and those that end it.
AnswerKinds == {"RESULT", "PARTIAL", "NOCONTENT", "COMPLETE", "EXCEPTION"}
Final == {"COMPLETE", "EXCEPTION"}
Part == [kind : AnswerKinds, k : Ks]

\* Message m may come when n is the last response, open if it came in parts so far.
Fits(open, n, m) ==
    \/ ~open /\ m.kind \in {"RESULT", "PARTIAL", "EXCEPTION"} /\ m.k = n + 1
    \/ ~open /\ m.kind = "COMPLETE"
    \/ open /\ m.kind \in {"PARTIAL", "NOCONTENT"} /\ m.k = n
FitsAfter(l, m) == l.kind \notin Final /\ Fits(l.kind = "PARTIAL", l.k, m)
Chained(a) == \A i \in 1 .. Len(a) - 1 : FitsAfter(a[i], a[i + 1])
EndsWell(a) == a # << >> /\ a[Len(a)].kind \in Final

ASSUME ConstantsOK ==
    /\ Router \notin Drones
    /\ HashSize \in Nat \ {0} /\ MaxReqs \in Nat /\ MaxConnects \in Nat
    /\ Faults \subseteq SUBSET {"die", "expire", "overlap"}

\* What comes of a method that does not mix large responses with small ones (MethodResponse):
\* its responses in order, the parts of one together, and then its one final STATUS.
ASSUME AnswersAssumption ==
    \A a \in Answers : a \in Seq(Part) /\ EndsWell(a) /\ Chained(a) /\ Fits(FALSE, 0, a[1])

VARIABLES
    faults,                         \* what may happen, one of Faults
    state, remote, terr, trace,     \* session->state, remote_id, transport_error, thread_trace
    hash,                           \* request_hash: the ids in each slot, the newest first
    queue, complete, parts,         \* of each request: result, complete, part_response_buffer
    op, stack,                      \* the call in progress, the sends in progress
    got,                            \* of each request: the results returned to the caller
    connects,                       \* calls of connect so far
    inbox,                          \* messages on their way to the client
    toRouter, toDrone,              \* messages on their way from it
    bound,                          \* workers that hold the session connected
    work,                           \* requests being answered: [drone, req, todo]
    dead,                           \* workers that died
    starts, lost, peer              \* history: times a request was begun, requests whose worker
                                    \* died or dropped them, the worker the client connected to

session == <<state, remote, terr, trace>>
requests == <<hash, queue, complete, parts>>
calls == <<op, got, connects>>
net == <<inbox, toRouter, toDrone>>
server == <<bound, work, dead>>
history == <<starts, lost, peer>>
vars == <<faults, session, requests, calls, stack, net, server, history>>

Reqs == 1 .. MaxReqs
Kinds == {"OK", "RESULT", "PARTIAL", "NOCONTENT", "COMPLETE", "EXCEPTION", "TIMEOUT", "BOUNCE"}
Slot(r) == r % HashSize
Findable(r) == \E i \in DOMAIN hash[Slot(r)] : hash[Slot(r)][i] = r
Done(r) == r \in Reqs /\ complete[r]

Init ==
    /\ faults \in Faults
    /\ state = "DISCONNECTED" /\ remote = Router /\ terr = FALSE /\ trace = 0
    /\ hash = [s \in 0 .. HashSize - 1 |-> << >>]
    /\ queue = [r \in Reqs |-> << >>] /\ complete = [r \in Reqs |-> FALSE]
    /\ parts = [r \in Reqs |-> << >>]
    /\ op = [name |-> "none", req |-> 0] /\ stack = << >>
    /\ got = [r \in Reqs |-> << >>] /\ connects = 0
    /\ inbox = << >> /\ toRouter = << >> /\ toDrone = [d \in Drones |-> << >>]
    /\ bound = {} /\ work = {} /\ dead = {}
    /\ starts = [r \in Reqs |-> 0] /\ lost = {} /\ peer = Router

-----------------------------------------------------------------------------
(* The client's calls.                                                     *)

Idle == op.name = "none"
Call(name, r) == op' = [name |-> name, req |-> r]
Sending(type, r) == stack' = Append(stack, [type |-> type, req |-> r])

\* osrfAppSessionMakeLocaleRequest
CallRequest ==
    /\ Idle /\ trace < MaxReqs
    /\ trace' = trace + 1
    /\ Call("request", trace + 1) /\ Sending("REQUEST", trace + 1)
    /\ UNCHANGED <<state, remote, terr, requests, got, connects, net, server, history>>

\* osrfAppSessionConnect, unless connected
CallConnect ==
    /\ Idle /\ state # "CONNECTED" /\ connects < MaxConnects
    /\ "overlap" \in faults \/ (state = "DISCONNECTED" /\ \A r \in 1 .. trace : complete[r])
    /\ connects' = connects + 1
    /\ remote' = Router /\ state' = "CONNECTING"
    /\ Call("connect", 0) /\ Sending("CONNECT", trace)
    /\ UNCHANGED <<terr, trace, requests, got, net, server, history>>

\* osrf_app_session_disconnect: nothing is sent unless connected.
CallDisconnect ==
    /\ Idle /\ state = "CONNECTED"
    /\ "overlap" \in faults \/ \A r \in 1 .. trace : complete[r] \/ r \in lost
    /\ Call("disconnect", 0) /\ Sending("DISCONNECT", trace)
    /\ UNCHANGED <<session, requests, got, connects, net, server, history>>

\* osrfAppSessionRequestRecv of a request that can be found: a result that is there is
\* returned as it is; otherwise the wait begins.
Take(r) ==
    /\ queue[r] # << >>
    /\ got' = [got EXCEPT ![r] = Append(@, Head(queue[r]))]
    /\ queue' = [queue EXCEPT ![r] = Tail(@)]
    /\ UNCHANGED <<session, hash, complete, parts, connects, stack, net, server, history>>

CallRecv(r) ==
    /\ Idle /\ Findable(r)
    /\ \/ Take(r) /\ UNCHANGED op
       \/ /\ queue[r] = << >>
          /\ Call("recv", r)
          /\ UNCHANGED <<session, requests, got, connects, stack, net, server, history>>

\* osrf_app_session_request_finish.  No entry's prev is ever set: whichever entry it
\* is, the slot becomes what follows it.
Finish(r) ==
    /\ Idle /\ Findable(r) /\ (complete[r] \/ "overlap" \in faults)
    /\ LET s == hash[Slot(r)]
           i == CHOOSE j \in DOMAIN s : s[j] = r
       IN  hash' = [hash EXCEPT ![Slot(r)] = SubSeq(s, i + 1, Len(s))]
    /\ UNCHANGED <<session, queue, complete, parts, calls, stack, net, server, history>>

-----------------------------------------------------------------------------
(* osrfAppSessionSendBatch: after the messages that have come, any number  *)
(* of those on their way, the top of the stack is sent.                    *)

Frame == stack[Len(stack)]
\* A call's own send is at the bottom of the stack, when the call makes one.
Own == Len(stack) = 1 /\ op.name \in {"request", "connect", "disconnect"}

Send(to, m) ==
    IF to = Router
    THEN toRouter' = Append(toRouter, m) /\ UNCHANGED toDrone
    ELSE toDrone' = [toDrone EXCEPT ![to] = Append(@, m)] /\ UNCHANGED toRouter

\* Mutant: the session that disconnects still counts as connected.
SendTopConnected ==
    /\ stack # << >>
    /\ LET to == IF state = "CONNECTED" THEN remote ELSE Router
       IN  /\ Send(to, Frame)
           /\ remote' = IF Own /\ op.name = "disconnect" THEN Router ELSE to
    /\ stack' = SubSeq(stack, 1, Len(stack) - 1)
    /\ IF ~Own THEN UNCHANGED <<op, hash>>
       ELSE /\ op' = IF op.name = "connect" THEN [op EXCEPT !.name = "connecting"]
                     ELSE [name |-> "none", req |-> 0]
            /\ hash' = IF op.name = "request"
                       THEN [hash EXCEPT ![Slot(op.req)] = <<op.req>> \o @] ELSE hash
    /\ UNCHANGED <<state, terr, trace, queue, complete, parts, got, connects, inbox, server, history>>

SendTop ==
    /\ stack # << >>
    /\ LET to == IF state = "CONNECTED" THEN remote ELSE Router
       IN  /\ Send(to, Frame)
           /\ remote' = IF Own /\ op.name = "disconnect" THEN Router ELSE to
    /\ stack' = SubSeq(stack, 1, Len(stack) - 1)
    /\ IF ~Own THEN UNCHANGED <<op, hash>>
       ELSE /\ op' = IF op.name = "connect" THEN [op EXCEPT !.name = "connecting"]
                     ELSE [name |-> "none", req |-> 0]
            /\ hash' = IF op.name = "request"
                       THEN [hash EXCEPT ![Slot(op.req)] = <<op.req>> \o @] ELSE hash
    /\ state' = IF Own /\ op.name = "disconnect" THEN "DISCONNECTED" ELSE state
    /\ UNCHANGED <<terr, trace, queue, complete, parts, got, connects, inbox, server, history>>

-----------------------------------------------------------------------------
(* osrf_stack_transport_handler and _do_client: a message has come.        *)

\* osrf_app_session_queue_wait is called by every send, and by recv and connect.
Reading == stack # << >> \/ op.name \in {"recv", "connecting"}

Push(r, k) == queue' = [queue EXCEPT ![r] = Append(@, k)]
\* What the parts of a response make, 0 when they are not those of one response.
Stitched(ps) == IF \A i \in DOMAIN ps : ps[i] = ps[1] THEN ps[1] ELSE 0

\* Mutant: the parts of a response are kept after it is complete.
ForRequestKeeping(m) ==
    /\ m.kind \in {"RESULT", "PARTIAL", "NOCONTENT", "COMPLETE", "EXCEPTION"}
    /\ remote' = m.from
    /\ IF m.kind \in {"RESULT", "EXCEPTION"} THEN Push(m.req, m.k) /\ UNCHANGED parts
       ELSE IF m.kind = "NOCONTENT" THEN Push(m.req, Stitched(parts[m.req])) /\ UNCHANGED parts
       ELSE /\ parts' = IF m.kind = "PARTIAL" THEN [parts EXCEPT ![m.req] = Append(@, m.k)] ELSE parts
            /\ UNCHANGED queue
    /\ complete' = [complete EXCEPT ![m.req] = @ \/ m.kind \in {"COMPLETE", "EXCEPTION"}]
    /\ UNCHANGED <<state, terr, stack, peer>>

\* RESULT, COMPLETE and the parts of a response, of a request that can be found.
ForRequest(m) ==
    /\ m.kind \in {"RESULT", "PARTIAL", "NOCONTENT", "COMPLETE", "EXCEPTION"}
    /\ remote' = m.from
    /\ IF ~Findable(m.req) THEN UNCHANGED <<queue, complete, parts>>
       ELSE CASE m.kind = "RESULT"    -> Push(m.req, m.k) /\ UNCHANGED <<complete, parts>>
              [] m.kind = "PARTIAL"   -> /\ parts' = [parts EXCEPT ![m.req] = Append(@, m.k)]
                                         /\ UNCHANGED <<queue, complete>>
              [] m.kind = "NOCONTENT" -> /\ IF parts[m.req] = << >> THEN UNCHANGED queue
                                            ELSE Push(m.req, Stitched(parts[m.req]))
                                         /\ parts' = [parts EXCEPT ![m.req] = << >>]
                                         /\ UNCHANGED complete
              [] m.kind = "COMPLETE"  -> /\ complete' = [complete EXCEPT ![m.req] = TRUE]
                                         /\ UNCHANGED <<queue, parts>>
              [] m.kind = "EXCEPTION" -> /\ complete' = [complete EXCEPT ![m.req] = TRUE]
                                         /\ Push(m.req, m.k) /\ UNCHANGED parts
    /\ UNCHANGED <<state, terr, stack, peer>>

Connected(m) ==
    /\ m.kind = "OK"
    /\ remote' = m.from /\ state' = "CONNECTED" /\ peer' = m.from
    /\ UNCHANGED <<terr, stack, queue, complete, parts>>

\* Mutant: a request is sent again though it is complete.
ResendAny(r) == IF r \in Reqs /\ Findable(r) THEN Sending("REQUEST", r) ELSE UNCHANGED stack

\* The session is over, and the request named is sent again if it is not complete:
\* a worker's timeout names none; a message that came back from a worker's address
\* counts as a redirect and names that of the message, one from the router's does not.
Resend(r) == IF r \in Reqs /\ Findable(r) /\ ~complete[r] THEN Sending("REQUEST", r) ELSE UNCHANGED stack

\* Mutant: a redirect is not followed by a resend.
OverSilently(m) ==
    /\ m.kind = "TIMEOUT" \/ (m.kind = "BOUNCE" /\ m.from # Router)
    /\ remote' = Router /\ state' = "DISCONNECTED"
    /\ UNCHANGED <<stack, terr, peer, queue, complete, parts>>

Over(m) ==
    /\ m.kind = "TIMEOUT" \/ (m.kind = "BOUNCE" /\ m.from # Router)
    /\ remote' = Router /\ state' = "DISCONNECTED"
    /\ Resend(m.req)
    /\ UNCHANGED <<terr, peer, queue, complete, parts>>

Unreachable(m) ==
    /\ m.kind = "BOUNCE" /\ m.from = Router
    /\ remote' = Router /\ terr' = TRUE
    /\ UNCHANGED <<state, stack, peer, queue, complete, parts>>

Process ==
    /\ Reading /\ inbox # << >>
    /\ inbox' = Tail(inbox)
    /\ LET m == Head(inbox) IN ForRequest(m) \/ Connected(m) \/ Over(m) \/ Unreachable(m)
    /\ UNCHANGED <<trace, hash, calls, toRouter, toDrone, server, starts, lost>>

\* _osrf_app_request_recv returns a result.
RecvResult ==
    /\ op.name = "recv" /\ stack = << >> /\ ~terr
    /\ Take(op.req) /\ Call("none", 0)

\* ... or NULL: the request is complete, the router unreachable, or time is over.
RecvNull ==
    /\ op.name = "recv" /\ stack = << >>
    /\ terr \/ queue[op.req] = << >>
    /\ terr \/ complete[op.req] \/ "overlap" \in faults \/ "expire" \in faults \/ op.req \in lost
    /\ Call("none", 0)
    /\ UNCHANGED <<session, requests, got, connects, stack, net, server, history>>

ConnectReturns ==
    /\ op.name = "connecting" /\ stack = << >>
    /\ state = "CONNECTED" \/ terr \/ "overlap" \in faults
    /\ Call("none", 0)
    /\ UNCHANGED <<session, requests, got, connects, stack, net, server, history>>

-----------------------------------------------------------------------------
(* The service.                                                            *)

Free(d) == d \notin bound \cup dead /\ \A w \in work : w.drone # d
Reply(d, kind, r, k) == inbox' = Append(inbox, [from |-> d, kind |-> kind, req |-> r, k |-> k])

Begin(d, r, a) ==
    /\ work' = work \cup {[drone |-> d, req |-> r, todo |-> a]}
    /\ starts' = [starts EXCEPT ![r] = @ + 1]

\* The router gives a message to a free worker (a session is built for it); a DISCONNECT
\* that comes this way ends a session nobody has.
RouterServe(d, a) ==
    /\ toRouter # << >> /\ Free(d)
    /\ toRouter' = Tail(toRouter)
    /\ LET m == Head(toRouter) IN
         CASE m.type = "REQUEST"    -> Begin(d, m.req, a) /\ UNCHANGED <<inbox, bound>>
           [] m.type = "CONNECT"    -> Reply(d, "OK", m.req, 0) /\ bound' = bound \cup {d}
                                       /\ UNCHANGED <<work, starts>>
           [] m.type = "DISCONNECT" -> UNCHANGED <<inbox, bound, work, starts>>
    /\ UNCHANGED <<session, requests, calls, stack, toDrone, dead, lost, peer>>

\* No worker of the service is left: the router sends the message back.
RouterRefuse ==
    /\ toRouter # << >> /\ Drones \subseteq dead
    /\ toRouter' = Tail(toRouter)
    /\ Reply(Router, "BOUNCE", Head(toRouter).req, 0)
    /\ UNCHANGED <<session, requests, calls, stack, toDrone, server, history>>

\* A worker reads a message sent to it between two requests: _do_server if it has the
\* session, nothing if it has not.
DroneServe(d, a) ==
    /\ toDrone[d] # << >> /\ d \notin dead /\ \A w \in work : w.drone # d
    /\ toDrone' = [toDrone EXCEPT ![d] = Tail(@)]
    /\ LET m == Head(toDrone[d]) IN
         IF d \notin bound
         THEN UNCHANGED <<inbox, bound, work, starts>>
         ELSE CASE m.type = "REQUEST"    -> Begin(d, m.req, a) /\ UNCHANGED <<inbox, bound>>
                [] m.type = "CONNECT"    -> Reply(d, "OK", m.req, 0)
                                            /\ UNCHANGED <<bound, work, starts>>
                [] m.type = "DISCONNECT" -> bound' = bound \ {d}
                                            /\ UNCHANGED <<inbox, work, starts>>
    /\ UNCHANGED <<session, requests, calls, stack, toRouter, dead, lost, peer>>

\* Jabber returns what was sent to a worker that died.
Bounce(d) ==
    /\ toDrone[d] # << >> /\ d \in dead
    /\ toDrone' = [toDrone EXCEPT ![d] = Tail(@)]
    /\ Reply(d, "BOUNCE", Head(toDrone[d]).req, 0)
    /\ UNCHANGED <<session, requests, calls, stack, toRouter, server, history>>

\* The next message of an answer.
Answer(w) ==
    /\ w \in work
    /\ Reply(w.drone, Head(w.todo).kind, w.req, Head(w.todo).k)
    /\ work' = (work \ {w}) \cup
               IF Len(w.todo) = 1 THEN {} ELSE {[w EXCEPT !.todo = Tail(@)]}
    /\ UNCHANGED <<session, requests, calls, stack, toRouter, toDrone, bound, dead, history>>

\* The keepalive loop ends: STATUS TIMEOUT, with the trace 0.
Expire(d) ==
    /\ "expire" \in faults /\ d \in bound /\ \A w \in work : w.drone # d
    /\ bound' = bound \ {d}
    /\ Reply(d, "TIMEOUT", 0, 0)
    /\ UNCHANGED <<session, requests, calls, stack, toRouter, toDrone, work, dead, history>>

\* A worker dies with what it was doing and the first n messages of those sent to it,
\* which had been delivered.
Die(d) ==
    /\ "die" \in faults /\ d \notin dead
    /\ dead' = dead \cup {d} /\ bound' = bound \ {d}
    /\ work' = {w \in work : w.drone # d}
    /\ \E n \in 0 .. Len(toDrone[d]) :
          LET gone == SubSeq(toDrone[d], 1, n) IN
          /\ toDrone' = [toDrone EXCEPT ![d] = SubSeq(@, n + 1, Len(@))]
          /\ lost' = lost \cup {w.req : w \in {x \in work : x.drone = d}}
                         \cup {gone[i].req : i \in {j \in 1 .. n : gone[j].type = "REQUEST"}}
    /\ UNCHANGED <<session, requests, calls, stack, inbox, toRouter, starts, peer>>

Step ==
    \/ CallRequest \/ CallConnect \/ CallDisconnect
    \/ \E r \in Reqs : CallRecv(r) \/ Finish(r)
    \/ SendTop \/ Process \/ RecvResult \/ RecvNull \/ ConnectReturns
    \/ \E d \in Drones : \/ \E a \in Answers : RouterServe(d, a) \/ DroneServe(d, a)
                         \/ Bounce(d) \/ Expire(d) \/ Die(d)
    \/ RouterRefuse
    \/ \E w \in work : Answer(w)

Next == Step /\ UNCHANGED faults

Spec == Init /\ [][Next]_vars

-----------------------------------------------------------------------------
(* Properties.                                                             *)

\* Every variable has its type; a dead worker has no session.
TypeOK ==
    /\ state \in {"DISCONNECTED", "CONNECTING", "CONNECTED"}
    /\ remote \in Drones \cup {Router} /\ peer \in Drones \cup {Router}
    /\ terr \in BOOLEAN /\ trace \in 0 .. MaxReqs /\ connects \in 0 .. MaxConnects
    /\ hash \in [0 .. HashSize - 1 -> Seq(Reqs)]
    /\ queue \in [Reqs -> Seq(Ks)] /\ got \in [Reqs -> Seq(Ks)] /\ parts \in [Reqs -> Seq(Ks)]
    /\ complete \in [Reqs -> BOOLEAN]
    /\ op.name \in {"none", "request", "connect", "connecting", "disconnect", "recv"}
    /\ op.req \in 0 .. MaxReqs
    /\ bound \subseteq Drones /\ dead \subseteq Drones /\ bound \cap dead = {}
    /\ \A i \in DOMAIN inbox : inbox[i].kind \in Kinds /\ inbox[i].from \in Drones \cup {Router}
    /\ lost \subseteq Reqs

\* The results a caller is given and those that wait for it are the first of those the
\* method made, in order, each once and whole.  (When a worker dies in the middle of an
\* answer and the request is sent again, its results come again.)
ResultsAsMade ==
    \A r \in Reqs \ lost : LET s == got[r] \o queue[r] IN \A i \in DOMAIN s : s[i] = i

\* A request is run a second time only if the worker that began it died: what is sent
\* again after a redirect was not read, or will not be answered.
RunOnce == \A r \in Reqs : starts[r] <= 1 \/ r \in lost

\* While it is connected the session's messages go to the worker that accepted it.
RemoteIsPeer == state = "CONNECTED" => remote = peer

\* ... and as long as no call is in progress nor message on its way, that worker has it.
PeerHasSession ==
    state = "CONNECTED" /\ Idle /\ inbox = << >> /\ peer \notin dead => peer \in bound

In(s, r) == \E i \in DOMAIN s : s[i].req = r /\ s[i].type = "REQUEST"
Ends == {"BOUNCE", "COMPLETE", "EXCEPTION"}
\* A request that is not complete is somewhere: about to be sent, on its way, being
\* answered, coming back, or it was lost with a worker that died.
NoneForgotten ==
    \A r \in 1 .. trace :
        \/ complete[r] \/ terr \/ r \in lost
        \/ (~Findable(r) /\ op # [name |-> "request", req |-> r])
        \/ In(stack, r) \/ In(toRouter, r) \/ (\E d \in Drones : In(toDrone[d], r))
        \/ \E w \in work : w.req = r
        \/ \E i \in DOMAIN inbox : inbox[i].req = r /\ inbox[i].kind \in Ends

\* The last two as long as no worker gives the session up.
PeerHasItUnexpired == "expire" \notin faults => PeerHasSession
NoneForgottenUnexpired == "expire" \notin faults => NoneForgotten

\* A client that is connected is so to a worker that has the session, and sends to that one.
Peer == PeerHasItUnexpired /\ RemoteIsPeer

\* Every variable has its type, and results reach the caller as they were made.
ResultsAsMadeTyped == TypeOK /\ ResultsAsMade

\* "each slot of the hash table is a doubly linked list": no two requests leave it at once.
OthersStay ==
    [][Cardinality({r \in Reqs : Findable(r) /\ ~Findable(r)'}) <= 1]_vars

=============================================================================
