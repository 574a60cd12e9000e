------------------------ MODULE WebsocketTranslator ------------------------
(***************************************************************************)
(* src/src/gateway/osrf_websocket_translator.c: the gateway between one    *)
(* websocket caller and the OpenSRF network, inside one Apache process.    *)
(*                                                                         *)
(* Three threads share one structure: the Apache thread (on_connect,       *)
(* on_message, on_disconnect), the responder thread and the idle timeout   *)
(* thread.  A step is what a thread does between two points where another  *)
(* thread can notice: a lock, an unlock, a wait, or two accesses of the    *)
(* shared state that one critical section makes.  Unlocking a mutex that   *)
(* another thread holds is undefined; a pthread mutex of the default kind  *)
(* is then free, and the model says so.  When that puts two threads in     *)
(* their critical sections, ++ and -- on requests_in_flight may lose one.  *)
(*                                                                         *)
(* Outside: the websocket module of Apache, the callers, and the network   *)
(* (a service answers CONNECT with STATUS OK, REQUEST with COMPLETE or not *)
(* at all, and may time a session out).  A thread is <<caller, name>>: a   *)
(* caller makes up names no other caller uses.                             *)
(***************************************************************************)
EXTENDS Integers, Sequences, FiniteSets

CONSTANTS
    Drones,         \* the addresses of the service's workers
    NoDrone,        \* no cached recipient
    Router,         \* the router's address for the service
    Names,          \* the thread names a caller uses
    Batches,        \* what "osrf_msg" may hold: sequences of message types
    MaxSessions,    \* MAX_ACTIVE_STATEFUL_SESSIONS
    IdleTimeout,    \* idle_timeout_interval, in ticks
    MaxWait,        \* max_request_wait_time, in ticks
    MaxClients,     \* bound: callers the process serves
    MaxSent,        \* bound: messages of the callers
    MaxSeveredSent, \* bound: the same when the Jabber connection may break
    MaxCalmSent,    \* bound: the same when nothing else happens, those after MaxSent
                    \* when all the others were answered
    MaxQuiet,       \* bound: ticks without activity that are told apart
    MaxSignals,     \* bound: SIGUSR1s
    Outside         \* what may happen in a behaviour: callers stay quiet ("quiet"), SIGUSR1
                    \* comes ("signal"), the Jabber connection breaks ("sever")

ASSUME ConstantsOK ==
    /\ NoDrone \notin Drones /\ Router \notin Drones /\ NoDrone # Router
    /\ \A n \in {MaxSessions, IdleTimeout, MaxWait, MaxClients, MaxSent, MaxSeveredSent, MaxCalmSent,
                 MaxQuiet, MaxSignals} : n \in Nat
    /\ MaxSeveredSent <= MaxSent
    /\ Outside \subseteq SUBSET {"quiet", "signal", "sever"}
    /\ \A b \in Batches : b \in Seq({"CONNECT", "REQUEST", "DISCONNECT"})

VARIABLES
    outside,                        \* what may happen, one of Outside
    main, inMsg, recipient,         \* the Apache thread, its message, where it goes
    resp, tmsg,                     \* the responder thread, its response
    idle,                           \* the idle timeout thread
    locked,                         \* trans->mutex
    connected,                      \* trans->client_connected
    cache,                          \* trans->stateful_session_cache
    inFlight,                       \* requests_in_flight
    quiet,                          \* now - last_activity_time, in ticks
    shutdown, signals,              \* shutdown_requested, SIGUSR1s so far
    client, closing, sent,          \* the caller's number, close() called, messages so far
    asked, inbox, bound, severed,   \* the network: unanswered messages, responses on their
                                    \* way, sessions of the drones, a broken connection
    bonded,                         \* history: the drone a caller was told it is connected to
    crowded,                        \* history: threads that were told so while the cache was full
    given,                          \* history: what was just written to whom: a caller, and what
                                    \* it had asked
    raced,                          \* history: two threads were in their critical sections
    abandoned                       \* history: requests given up as dead

mainVars == <<main, inMsg, recipient>>
respVars == <<resp, tmsg>>
shared   == <<connected, cache, inFlight, quiet, shutdown, signals>>
caller   == <<client, closing, sent>>
network  == <<asked, inbox, bound, severed>>
told     == <<bonded, crowded, given>>
history  == <<told, raced, abandoned>>
vars == <<mainVars, respVars, idle, locked, shared, caller, network, history>>

Threads == (1 .. MaxClients) \X Names
Item == [n : 1 .. MaxSent + MaxCalmSent, k : Nat \ {0}, thread : Threads,
         type : {"CONNECT", "REQUEST"}, to : Drones \cup {Router}]
NoItem == << >>
\* A transport_message from the network: stats are the status codes of its body,
\* none when it is a message that bounced.  Only the sender of an OK matters.
Response == [thread : Threads, sender : Drones \cup {NoDrone},
             stats : {<<"OK">>, <<"COMPLETE">>, <<"TIMEOUT">>, << >>},
             of : Item \cup {NoItem}]

\* The steps inside a critical section.
MainInside == main \in {"lookup", "relay", "unlock", "unlockFail"}
RespInside == resp \in {"body", "relay", "unlocking"}
IdleInside == idle \in {"check", "unlocking"}

Cached == {t \in Threads : cache[t] # NoDrone}

Init ==
    /\ outside \in Outside
    /\ main = "away" /\ inMsg = << >> /\ recipient = Router
    /\ resp = "off" /\ tmsg = << >> /\ idle = "off"
    /\ locked = FALSE /\ connected = FALSE
    /\ cache = [t \in Threads |-> NoDrone]
    /\ inFlight = 0 /\ quiet = 0 /\ shutdown = FALSE /\ signals = 0
    /\ client = 0 /\ closing = FALSE /\ sent = 0
    /\ asked = {} /\ inbox = << >> /\ bound = {} /\ severed = FALSE
    /\ bonded = [t \in Threads |-> NoDrone] /\ crowded = {} /\ given = {}
    /\ raced = FALSE /\ abandoned = {}

-----------------------------------------------------------------------------
(* The Apache thread.                                                      *)

\* on_connect_handler: the first caller starts the two threads.
Connect ==
    /\ main = "away" /\ client < MaxClients
    /\ main' = "open" /\ client' = client + 1 /\ closing' = FALSE
    /\ connected' = TRUE /\ quiet' = 0
    /\ IF client = 0 THEN resp' = "start" /\ idle' = "start"
                     ELSE UNCHANGED <<resp, idle>>
    /\ UNCHANGED <<inMsg, recipient, tmsg, locked, cache, inFlight, shutdown, signals, sent,
                   network, history>>

\* A message of the caller has come: on_message_handler is about to lock.
Receive(name, batch) ==
    /\ main = "open"
    /\ \/ sent < IF "sever" \in outside THEN MaxSeveredSent ELSE MaxSent
       \/ outside = {} /\ sent < MaxCalmSent /\ asked = {} /\ inbox = << >>
    /\ main' = "locking" /\ sent' = sent + 1
    /\ inMsg' = [thread |-> <<client, name>>, batch |-> batch]
    /\ UNCHANGED <<recipient, respVars, idle, locked, shared, client, closing, network, history>>

MainLock ==
    /\ main = "locking" /\ ~locked
    /\ main' = "lookup" /\ locked' = TRUE
    /\ raced' = (raced \/ RespInside \/ IdleInside)
    /\ UNCHANGED <<inMsg, recipient, respVars, idle, shared, caller, network,
                   told, abandoned>>

\* on_message_handler_body: the cached recipient, or the router.
MainLookup ==
    /\ main = "lookup"
    /\ recipient' = IF cache[inMsg.thread] # NoDrone THEN cache[inMsg.thread] ELSE Router
    /\ main' = "relay"
    /\ UNCHANGED <<inMsg, respVars, idle, locked, shared, caller, network, history>>

\* ... which refuses what it cannot parse, and a new thread that names no service.
MainReject ==
    /\ main = "lookup"
    /\ main' = "unlockFail"
    /\ UNCHANGED <<inMsg, recipient, respVars, idle, locked, shared, caller, network, history>>

\* The messages of the batch that the network must answer.
Asking == {[n |-> sent, k |-> k, thread |-> inMsg.thread, type |-> inMsg.batch[k], to |-> recipient] :
               k \in {i \in DOMAIN inMsg.batch : inMsg.batch[i] # "DISCONNECT"}}
Requests(items) == {x \in items : x.type = "REQUEST"}
Disconnects == \E k \in DOMAIN inMsg.batch : inMsg.batch[k] = "DISCONNECT"

\* Mutant: DISCONNECT leaves the recipient cached.
MainRelayKeeping ==
    /\ main = "relay"
    /\ inFlight' = inFlight + Cardinality(Requests(Asking))
    /\ bonded' = [bonded EXCEPT ![inMsg.thread] = IF Disconnects THEN NoDrone ELSE @]
    /\ crowded' = IF Disconnects THEN crowded \ {inMsg.thread} ELSE crowded
    /\ asked' = asked \cup Asking
    /\ main' = "unlock" /\ quiet' = 0
    /\ UNCHANGED <<inMsg, recipient, respVars, idle, locked, connected, cache, shutdown, signals,
                   caller, inbox, bound, severed, given, raced, abandoned>>

\* Mutant: requests are not counted.
MainRelayUncounted ==
    /\ main = "relay"
    /\ asked' = asked \cup Asking
    /\ main' = "unlock" /\ quiet' = 0
    /\ UNCHANGED <<inMsg, recipient, respVars, idle, locked, connected, cache, inFlight, shutdown,
                   signals, caller, inbox, bound, severed, told, raced, abandoned>>

\* extract_inbound_messages and client_send_message: requests are counted and
\* DISCONNECT forgets the recipient even when the send then fails.
MainRelay ==
    /\ main = "relay"
    /\ \/ inFlight' = inFlight + Cardinality(Requests(Asking))
       \/ resp = "body" /\ inFlight' = inFlight
    /\ IF Disconnects
       THEN /\ cache' = [cache EXCEPT ![inMsg.thread] = NoDrone]
            /\ bonded' = [bonded EXCEPT ![inMsg.thread] = NoDrone]
            /\ crowded' = crowded \ {inMsg.thread}
       ELSE UNCHANGED <<cache, bonded, crowded>>
    /\ IF severed
       THEN main' = "unlockFail" /\ UNCHANGED <<asked, bound>>
       ELSE /\ main' = "unlock"
            /\ asked' = asked \cup Asking
            /\ bound' = IF Disconnects THEN bound \ {<<inMsg.thread, recipient>>} ELSE bound
    /\ quiet' = 0
    /\ UNCHANGED <<inMsg, recipient, respVars, idle, locked, connected, shutdown, signals, caller,
                   inbox, severed, given, raced, abandoned>>

\* on_message_handler unlocks; after a failure it closes the connection.
MainUnlock ==
    /\ main \in {"unlock", "unlockFail"}
    /\ locked' = FALSE
    /\ main' = IF main = "unlock" THEN "open" ELSE "failed"
    /\ inMsg' = << >> /\ recipient' = Router
    /\ UNCHANGED <<respVars, idle, shared, caller, network, history>>

MainClose ==
    /\ main = "failed"
    /\ main' = "open" /\ closing' = TRUE
    /\ UNCHANGED <<inMsg, recipient, respVars, idle, locked, shared, client, sent, network, history>>

\* on_disconnect_handler, when the caller leaves or was told to.
Leave ==
    /\ main = "open"
    /\ main' = "leaving" /\ connected' = FALSE
    /\ UNCHANGED <<inMsg, recipient, respVars, idle, locked, cache, inFlight, quiet, shutdown,
                   signals, caller, network, history>>

\* ... which then clears the cache, without the mutex.
Clear ==
    /\ main = "leaving"
    /\ main' = "away" /\ cache' = [t \in Threads |-> NoDrone]
    /\ UNCHANGED <<inMsg, recipient, respVars, idle, locked, connected, inFlight, quiet, shutdown,
                   signals, caller, network, history>>

-----------------------------------------------------------------------------
(* The responder thread.                                                   *)

\* The top of the loop unlocks the mutex, whoever holds it.
RespUnlock ==
    /\ resp \in {"start", "unlock", "unlocking"}
    /\ locked' = FALSE /\ resp' = "recv"
    /\ given' = {}
    /\ UNCHANGED <<mainVars, tmsg, idle, shared, caller, network, bonded, crowded, raced, abandoned>>

\* client_recv returns the oldest response; client_connected is read unlocked.
RespRecv ==
    /\ resp = "recv" /\ inbox # << >>
    /\ tmsg' = Head(inbox) /\ inbox' = Tail(inbox)
    /\ resp' = "got"
    /\ UNCHANGED <<mainVars, idle, locked, shared, caller, asked, bound, severed, history>>

\* Mutant: with nobody connected the thread ends.
RespCheckEnding ==
    /\ resp = "got"
    /\ IF connected THEN resp' = "locking" /\ UNCHANGED tmsg
                    ELSE resp' = "exit" /\ tmsg' = << >>
    /\ UNCHANGED <<mainVars, idle, locked, shared, caller, network, history>>

\* With nobody connected the response is dropped.
RespCheck ==
    /\ resp = "got"
    /\ IF connected THEN resp' = "locking" /\ UNCHANGED tmsg
                    ELSE resp' = "unlock" /\ tmsg' = << >>
    /\ UNCHANGED <<mainVars, idle, locked, shared, caller, network, history>>

\* client_recv returns NULL when the connection breaks: the thread ends.
RespSevered ==
    /\ resp = "recv" /\ severed
    /\ resp' = "exit" /\ closing' = TRUE
    /\ UNCHANGED <<mainVars, tmsg, idle, locked, shared, client, sent, network, history>>

\* ... or when a signal interrupts its select(): socket_connected then waits for
\* data, and waits again for as long as errno is EINTR, which no later success of
\* select() resets: only what the log writes in between may have changed it.
RespProbe ==
    /\ resp = "probe" /\ (inbox # << >> \/ severed)
    /\ resp' \in {"unlock", "spin"}
    /\ UNCHANGED <<mainVars, tmsg, idle, locked, shared, caller, network, history>>

RespLock ==
    /\ resp = "locking" /\ ~locked
    /\ resp' = "body" /\ locked' = TRUE
    /\ raced' = (raced \/ MainInside \/ IdleInside)
    /\ UNCHANGED <<mainVars, tmsg, idle, shared, caller, network, told, abandoned>>

\* There is no room for another session.
Full == Cardinality(Cached) >= MaxSessions

\* osrf_responder_thread_main_body: what the status says of the session.
RespBody ==
    /\ resp = "body"
    /\ resp' = "relay"
    /\ CASE tmsg.stats = <<"OK">> /\ cache[tmsg.thread] = NoDrone ->
                /\ IF Full
                   THEN crowded' = crowded \cup {tmsg.thread} /\ UNCHANGED cache
                   ELSE cache' = [cache EXCEPT ![tmsg.thread] = tmsg.sender] /\ UNCHANGED crowded
                /\ UNCHANGED inFlight
         [] tmsg.stats = <<"TIMEOUT">> ->
                /\ cache' = [cache EXCEPT ![tmsg.thread] = NoDrone]
                /\ UNCHANGED <<inFlight, crowded>>
         [] tmsg.stats = <<"COMPLETE">> ->
                /\ \/ inFlight' = inFlight - 1
                   \/ main = "relay" /\ inFlight' = inFlight
                /\ UNCHANGED <<cache, crowded>>
         [] OTHER -> UNCHANGED <<cache, inFlight, crowded>>
    /\ UNCHANGED <<mainVars, tmsg, idle, locked, connected, quiet, shutdown, signals, caller,
                   network, bonded, given, raced, abandoned>>

\* ... and the response is written to whoever is connected.
RespRelay ==
    /\ resp = "relay"
    /\ CASE tmsg.stats = <<"OK">> /\ bonded[tmsg.thread] = NoDrone ->
                bonded' = [bonded EXCEPT ![tmsg.thread] = tmsg.sender] /\ UNCHANGED crowded
         [] tmsg.stats = <<"TIMEOUT">> ->
                /\ bonded' = [bonded EXCEPT ![tmsg.thread] = NoDrone]
                /\ crowded' = crowded \ {tmsg.thread}
         [] OTHER -> UNCHANGED <<bonded, crowded>>
    /\ given' = IF connected THEN {<<client, tmsg.of>>} ELSE {}
    /\ resp' = "unlocking" /\ tmsg' = << >> /\ quiet' = 0
    /\ UNCHANGED <<mainVars, idle, locked, connected, cache, inFlight, shutdown, signals,
                   caller, network, raced, abandoned>>

-----------------------------------------------------------------------------
(* The idle timeout thread.                                                *)

\* The top of the loop unlocks the mutex and sleeps.
IdleUnlock ==
    /\ idle \in {"start", "unlocking"}
    /\ locked' = FALSE /\ idle' = "sleep"
    /\ UNCHANGED <<mainVars, respVars, shared, caller, network, history>>

\* The sleep is over and the mutex is free.
IdleLock ==
    /\ idle = "sleep" /\ ~locked
    /\ idle' = "check" /\ locked' = TRUE
    /\ raced' = (raced \/ MainInside \/ RespInside)
    /\ UNCHANGED <<mainVars, respVars, shared, caller, network, told, abandoned>>

\* Requests whose COMPLETE the responder has not seen.
Waiting == Requests(asked) \cup
           Requests({inbox[i].of : i \in {j \in DOMAIN inbox : inbox[j].stats = <<"COMPLETE">>}}) \cup
           IF resp \in {"got", "locking", "body"} /\ tmsg.stats = <<"COMPLETE">>
           THEN Requests({tmsg.of}) ELSE {}

\* Mutant: requests are never given up.
IdleCheckForever ==
    /\ idle = "check"
    /\ idle' = "unlocking"
    /\ closing' = (closing \/ (connected /\ inFlight = 0 /\ (shutdown \/ quiet >= IdleTimeout)))
    /\ UNCHANGED <<mainVars, respVars, locked, shared, client, sent, network, history>>

\* active_connection_count gives up requests that took too long; the caller is
\* closed when none is in flight and it was quiet, or the process shuts down.
IdleCheck ==
    /\ idle = "check"
    /\ idle' = "unlocking"
    /\ LET dead == connected /\ inFlight # 0 /\ quiet >= MaxWait
           none == inFlight = 0 \/ dead
       IN  /\ inFlight' = IF dead THEN 0 ELSE inFlight
           /\ abandoned' = IF dead THEN abandoned \cup Waiting ELSE abandoned
           /\ closing' = (closing \/ (connected /\ none /\ (shutdown \/ quiet >= IdleTimeout)))
    /\ UNCHANGED <<mainVars, respVars, locked, connected, cache, quiet, shutdown, signals,
                   client, sent, network, told, raced>>

-----------------------------------------------------------------------------
(* Outside: the clock, SIGUSR1, the network.                               *)

Tick ==
    /\ "quiet" \in outside /\ connected /\ quiet < MaxQuiet
    /\ quiet' = quiet + 1
    /\ UNCHANGED <<mainVars, respVars, idle, locked, connected, cache, inFlight, shutdown, signals,
                   caller, network, history>>

\* sigusr1_handler; the signal may interrupt the select() of client_recv, or that of
\* socket_connected, which then says that the connection broke.
Sigusr1 ==
    /\ "signal" \in outside /\ client > 0 /\ signals < MaxSignals
    /\ shutdown' = TRUE /\ signals' = signals + 1
    /\ \/ UNCHANGED <<resp, closing>>
       \/ resp = "recv" /\ resp' = "probe" /\ UNCHANGED closing
       \/ resp = "probe" /\ resp' = "exit" /\ closing' = TRUE
    /\ UNCHANGED <<mainVars, tmsg, idle, locked, connected, cache, inFlight, quiet, client, sent,
                   network, history>>

Send(t, d, stats, item) ==
    inbox' = Append(inbox, [thread |-> t, sender |-> d, stats |-> stats, of |-> item])

\* A worker takes the session that CONNECT asks for.
Accept(x, d) ==
    /\ x \in asked /\ x.type = "CONNECT" /\ x.to \in {Router, d}
    /\ Send(x.thread, d, <<"OK">>, x)
    /\ bound' = bound \cup {<<x.thread, d>>}
    /\ asked' = asked \ {x}
    /\ UNCHANGED <<mainVars, respVars, idle, locked, shared, caller, severed, history>>

\* A request is answered, or bounces.
Answer(x, stats) ==
    /\ x \in asked /\ (stats = << >> \/ x.type = "REQUEST")
    /\ Send(x.thread, NoDrone, stats, x)
    /\ asked' = asked \ {x}
    /\ UNCHANGED <<mainVars, respVars, idle, locked, shared, caller, bound, severed, history>>

\* A worker waited too long for the next request of its session.
Expire(b) ==
    /\ b \in bound /\ ~severed
    /\ Send(b[1], b[2], <<"TIMEOUT">>, NoItem)
    /\ bound' = bound \ {b}
    /\ UNCHANGED <<mainVars, respVars, idle, locked, shared, caller, asked, severed, history>>

\* The Jabber connection breaks: nothing more is answered.
Sever ==
    /\ "sever" \in outside /\ client > 0 /\ ~severed
    /\ severed' = TRUE /\ asked' = {}
    /\ UNCHANGED <<mainVars, respVars, idle, locked, shared, caller, inbox, bound, history>>

-----------------------------------------------------------------------------
MainBody == MainLock \/ MainLookup \/ MainReject \/ MainRelay \/ MainUnlock \/ MainClose \/ Clear
RespNext == RespUnlock \/ RespRecv \/ RespCheck \/ RespSevered \/ RespProbe \/ RespLock \/
            RespBody \/ RespRelay
IdleNext == IdleUnlock \/ IdleLock \/ IdleCheck

Step ==
    \/ Connect \/ Leave \/ MainBody \/ RespNext \/ IdleNext
    \/ \E n \in Names, b \in Batches : Receive(n, b)
    \/ \E x \in asked : \/ \E d \in Drones : Accept(x, d)
                        \/ \E stats \in {<<"COMPLETE">>, << >>} : Answer(x, stats)
    \/ \E b \in bound : Expire(b)
    \/ Tick \/ Sigusr1 \/ Sever

Next == Step /\ UNCHANGED outside

Spec == Init /\ [][Next]_<<outside, vars>>

\* The threads run, time passes, and a caller told to leave does.  A thread that waits
\* for the mutex gets it: the idle timeout thread sleeps a second or more, with the
\* mutex free, between any two of its checks.
FairSpec ==
    /\ Spec
    /\ SF_vars(MainLock) /\ SF_vars(RespLock)
    /\ WF_vars(MainBody) /\ WF_vars(RespNext) /\ WF_vars(IdleNext)
    /\ WF_vars(Tick) /\ WF_vars(Leave /\ closing)

-----------------------------------------------------------------------------
(* Properties.                                                             *)

\* What the variables hold: the cache never grows beyond its limit.
TypeOK ==
    /\ main \in {"away", "open", "locking", "lookup", "relay", "unlock", "unlockFail", "failed",
                 "leaving"}
    /\ inMsg = << >> \/ (inMsg.thread \in Threads /\ inMsg.batch \in Batches)
    /\ recipient \in Drones \cup {Router}
    /\ resp \in {"off", "start", "unlock", "recv", "got", "probe", "spin", "exit", "locking", "body",
                 "relay", "unlocking"}
    /\ tmsg = << >> \/ tmsg \in Response
    /\ idle \in {"off", "start", "sleep", "check", "unlocking"}
    /\ {locked, connected, shutdown, closing, severed, raced} \subseteq BOOLEAN
    /\ cache \in [Threads -> Drones \cup {NoDrone}] /\ Cardinality(Cached) <= MaxSessions
    /\ bonded \in [Threads -> Drones \cup {NoDrone}]
    /\ crowded \subseteq Threads /\ given \subseteq (0 .. MaxClients) \X (Item \cup {NoItem})
    /\ inFlight \in Int /\ quiet \in 0 .. MaxQuiet
    /\ signals \in 0 .. MaxSignals /\ client \in 0 .. MaxClients
    /\ sent \in 0 .. MaxSent + MaxCalmSent
    /\ asked \subseteq Item /\ abandoned \subseteq Item /\ inbox \in Seq(Response)
    /\ bound \subseteq Threads \X Drones

\* As long as the mutex keeps the threads apart, a message goes to the worker the
\* caller was told it is connected to, from then until the session is timed out or
\* disconnected, and to the router before and after; all but the messages of a session
\* whose OK came when the cache was full ("Current session will not be tracked"), of
\* which nothing is said (on_message_handler_body, osrf_responder_thread_main_body).
RecipientFollowsSession ==
    [][ main = "lookup" /\ main' = "relay" /\ ~raced /\ inMsg.thread \notin crowded =>
            recipient' = IF bonded[inMsg.thread] # NoDrone
                         THEN bonded[inMsg.thread] ELSE Router ]_vars

\* The same of every session, however full the cache is.
RecipientFollowsEverySession ==
    [][ main = "lookup" /\ main' = "relay" /\ ~raced =>
            recipient' = IF bonded[inMsg.thread] # NoDrone
                         THEN bonded[inMsg.thread] ELSE Router ]_vars

\* The idle timeout thread never closes a caller one of whose requests is still to
\* be answered and was not given up, unless two threads met in their critical sections.
ClosedOnlyIdle ==
    [][ idle = "check" /\ idle' = "unlocking" /\ ~closing /\ closing' /\ ~raced =>
            \A x \in Waiting : x.thread[1] = client => x \in abandoned' ]_vars

\* ... and the variables have their types on the way: the cache of sessions never grows
\* beyond its limit (on_message_handler_body, osrf_responder_thread_main_body).
TypedAndClosedOnlyIdle == []TypeOK /\ ClosedOnlyIdle

\* No caller stays for ever without activity: it leaves, or it is closed, even when
\* answers never come and when the responder has ended with the Jabber connection.
IdleClientDropped == ("quiet" \in outside /\ connected) ~> ~connected

\* The answer to the n-th message is on its way, and who asked is there.
Coming(n) ==
    /\ connected
    /\ \E i \in DOMAIN inbox :
          LET x == inbox[i].of IN x # NoItem /\ x.n = n /\ x.thread[1] = client

\* It has just been written to who asked.
Given(n) == \E g \in given : g[2] # NoItem /\ g[2].n = n /\ g[2].thread[1] = g[1]

\* The answer to a message is written to the caller that asked, or that caller leaves.
ResponsesRelayed == \A n \in 1 .. MaxSent : Coming(n) ~> (~connected \/ Given(n))

\* ... the same of the behaviours without a signal, whether Jabber stays or not.
RelayedUndisturbed ==
    \A n \in 1 .. MaxSent : ("signal" \notin outside /\ Coming(n)) ~> (~connected \/ Given(n))

\* "All message handling code is wrapped in a thread mutex such that all actions
\* (after the initial setup) are serialized": after its first wait the responder never
\* frees the mutex while another thread is in its critical section.
SerializedAfterSetup ==
    [][ resp = "unlock" /\ resp' = "recv" => ~MainInside /\ ~IdleInside ]_vars

\* Responses are passed "back to the websocket client": to the one that asked.
AnswersReachTheirCaller ==
    [][ resp = "relay" /\ resp' = "unlocking" => tmsg.thread[1] = client ]_vars

\* "Clear the session cache" when a caller has left.
CacheCleared == main = "away" => Cached = {}

\* "Once disconnected, the on_disconnect_handler() handler will run, clean it all up,
\* and kill the process": no caller is taken after the responder thread has ended.
KilledWhenSevered == [][ resp = "exit" => client' = client ]_vars

=============================================================================
