# OpenSRF in TLA+

OpenSRF lets clients call methods of services by name over a Jabber network. This directory holds
TLA+ modules of the C implementation under `src/`, the TLC configurations that check them and the
TLAPS proofs about them. `PROJECT.json` maps every definition to the lines it models, lists the
runs, what each shows, the mutants that show that a property can fail, the findings, the hazards
and the theorems.

    tlc -workers 2 -config router_pool.cfg MCRouter.tla     # a run
    tlapm RouterProofs.tla                                  # the proofs of a module

1. The system. 2. The modules and the runs. 3. What is proved. 4. Bounds, fairness, abstractions.
5. What the code does otherwise than it says. 6. What is not modelled. 7. What comes next.

## 1. The system

    browser ── WebSocket translator ─┐                     ┌─ listener ── worker ── method
    browser ── HTTP translator ──────┤                     │     (prefork: a pipe to each worker)
    browser ── JSON gateway ─────────┤                     │
    program ── application session ──┴── Jabber ── router ─┴─ listener ── worker ── method
                     └───────────── Jabber, straight to a worker, once connected ─────┘

A client sends a REQUEST to the router's address for the service (its *class*). The router passes
it to one of the listeners that registered for the class (its *nodes*). The listener writes it to
the pipe of an idle worker, and the worker, which has a Jabber connection of its own, answers the
client directly: RESULTs, in parts if they are large, then a STATUS that says the request is
complete. A client may CONNECT first: it then talks to one worker, which keeps the session until
DISCONNECT or until it has waited too long. Messages are JSON, inside of XML, and everything that
is read or written passes through the library's lists, hashes, buffers and parsers.

| component | state it keeps | operations | what is hard | what makes it correct |
|---|---|---|---|---|
| router (`router/osrf_router.c`) | hash of classes, hash of nodes of each, an iterator, the last message and a count per node, a Jabber connection per class | register, unregister, route, bounce, information requests, remove a broken class, stop | listeners that die with requests on their way; removal under the iterator; a class that goes with its last node; a signal between test and `select` | a fair round robin, one outcome per request, only dead nodes removed, no class without a node |
| prefork (`osrf_prefork.c`) | idle stack, active ring, list of workers to be replaced, a count; one pipe each way per worker | dispatch, launch, reap, the handlers of SIGCHLD, SIGHUP, SIGTERM, SIGINT | handlers anywhere in the main loop; deaths noticed late; no end of file on the pipes | every request is in one place; no worker in two; a graceful shutdown that kills no busy worker |
| application session (`osrf_app_session.c`, `osrf_stack.c`) | state and remote address, hash of pending requests with results and parts | request, connect, disconnect, receive, finish, resend; every STATUS | every send handles incoming messages first; late messages of earlier sessions; dead workers; a wait that is restarted | results once, whole, in order; messages to the worker that has the session; no request forgotten; no wait that outlasts its time |
| methods (`osrf_application.c`) | output buffer of the session, responses an atomic method saved | respond, respond and complete, exception, return codes | a flush reads messages, and a REQUEST among them runs inside the one in progress | each request ends with exactly one final STATUS, after its responses, in order |
| WebSocket translator (`osrf_websocket_translator.c`) | one structure, three threads, a mutex: session cache, count of requests in flight, time of the last activity | connect, message, disconnect; responder loop; idle loop; SIGUSR1 | who holds the mutex; answers that outlive their caller | messages go to the worker of their session; busy callers are not closed; idle ones are |
| HTTP translator, JSON gateway (`osrf_http_translator.c`, `osrf_json_gateway.c`) | one structure per process, sessions cached in memcached | one request of a browser | answers that come after their request ran out of time, in the next one's wait | a browser gets what is its own, and all of it |
| transport (`transport_client.c`, `transport_session.c`, `socket_bundle.c`) | queue of messages, parser state and buffers, the list of sockets | connect, send, wait, receive, disconnect, free, discard | pieces of any length; logins refused or cut; descriptors whose numbers are used again | messages whole, once and in order; no other descriptor touched |
| system (`osrf_system.c`) | a pid file per service | start and stop services | the listener writes its pid file when the command is over; ids are used again | every listener is the one its pid file names |
| hash, list, array of strings (`osrf_hash.c`, `osrf_list.c`, `string_array.c`) | buckets and a chain of entries; slots; iterators | set, get, remove, iterate, tokenize, swap | removal under an iterator; holes; who frees what | maps, lists and sequences, with nothing freed twice or left behind |
| buffer and UTF-8 (`utils.c`, `osrf_utf8.c`) | memory, its size, how much is used; the position in a string | add, reset, chomp; escape | the longest size; a string cut inside of a character | the text that was added, ended inside of the memory |
| JSON (`osrf_json_object.c`, `osrf_parse_json.c`, `jsonpush.c`) | trees of objects, a list of free ones; the state of a parser | set, remove, extract, clone, free; parse, at once or in pieces; write | owners; two parsers of one format; class hints | one owner for each object; parsers that agree; what was written is read back |

Perl, Python, Java and JavaScript have further implementations of some of these parts, and there
are configuration, logging and caching libraries. `PROJECT.json` lists them all, with the reason
where one is not modelled.

**How the modules use each other.** Each module is a component with its surroundings: what the
others may send it, in every order in which they may. StringArray and JsonObject are built on
the list of ListOps, as in the code; MethodResponse is the worker that AppSession's client talks
to, seen from the inside; ServiceControl starts the listener that Prefork is; WebGateway and
WebsocketTranslator call the client that Transport is. Four MC modules instantiate several components
*beside each other*: `unit` is chosen in the initial state and says which of them moves, so that
one run checks them all, each exactly as it would be checked alone.

## 2. The modules and the runs

### Router, RouterProofs, MCRouter

`Router` is the router's single thread, cut at the points where the outside can get in between:
`CheckStop` (the test of `router->stop`), `FillFDSet` with `RemoveBrokenClass`, `Select`, one
`TopReceive` per message to the router itself, `NextClass`, one `ClassReceive` per message to a
class, `LoopEnd`. `RouteRequest` is `osrfRouterClassHandleMessage`; `RouteBounce` is the error
branch with `osrfRouterClassHandleBounce`; `Register` and `Unregister` are the commands a listener
sends when it starts, and on SIGUSR2 and SIGUSR1. `class[c]` is the class record: nodes in hash
order, the position of the iterator, and for each node the last message it was sent. The iterator
may stand on a removed node (`before`). `turns` is history: how often a node was chosen since the
nodes last changed. The environment sends requests, delivers what the router sent or returns it
when the node is down, and breaks connections.

| run | shows | bounds |
|---|---|---|
| `router_pool` | `TypeOK`, `RoundRobin`, `OneOutcome`, `BounceRemovesOnlyDead` | 1 class, 3 listeners, 2 requests, symmetric: a listener can die with a request of each kind while two others remain |
| `router_changes` | `RegistrationKept`, `RegistryConsistent`, `NoClassWithoutNode` | 1 class, 2 listeners, 2 requests, and one oddity (`MaxOddities`): a listener that leaves and returns, an information request, a connection that is lost or refused |
| `router_liveness` | `DeadNodeRemoved`, `ClassesServed` | 2 classes with a listener each, 2 requests, one of an untrusted sender |
| `router_retry` | violation of `BouncedIsRetried`: section 5 | 2 listeners, 2 requests |

`OneOutcome` says that no request is delivered twice, and none delivered whose sender was told that
it failed, however often requests are sent again after errors.

### MCContainers and MCLibrary: OsrfHash, OsrfList, StringArray, GrowingBuffer, LibraryProofs; JsonObject, JsonPush, Utf8

The run `library` has one unit for each. The containers, and the properties `InPlace` and `Promised`
of them, are in MCContainers, which LibraryProofs is about; MCLibrary extends it by the units that are
only model-checked. Abstract specifications are named after the arrow; the
detailed one is shown to implement it under the refinement mapping in its module.

* `OsrfHash` → `OrderedMap` (entries in the order in which their keys were first set): the nodes,
  the buckets and the chain with its iterators. `InPlace` includes that the two ways to search agree
  (the limit of six entries is the constant `Few`, 2 here) and that an iterator goes on after what
  was removed under it; `Promised` that it never goes back.
* `ListOps` are the operations of `osrf_list.c` on the array; `OsrfList` is a list with an iterator
  and with or without the callback that frees items. `HeldAndTraversed`: an item that the list has
  is in one slot, in front of `size`; one it let go of is in none; an iterator at its end has
  returned every item that stayed.
* `StringArray` → `StringSequence` (the words of a text, then strings added at the end and removed
  wherever they are): the array turns the list's callback off to shift its items. Tokenizing is
  compared with the definition of a word.
* `GrowingBuffer` → `Text`: `buffer_init`, the doubling, the longest size, `buffer_reset`,
  `buffer_chomp`. A buffer that would be too long is freed and is the end of a behaviour.
* `JsonObject`: trees, the list of free objects and every call that moves an object, with the
  callbacks that free the items of lists and hashes. `TreeSound`: one owner for each object;
  a clone that is equal and shares nothing.
* `JsonParse` has the recursive parser, the writer, and the check and repair of numbers, as
  recursive operators; `JsonPush` is the incremental parser with its own stack, fed one
  character at a time. `ParsersAgree`: it accepts what the other parser reads, with the same value,
  and refuses what no continuation makes a document. `ReadsBack`: what was written is read back.
  The two are stated of the states *before* a step (`[][P]_v`), which is the same because a step
  is always possible there, and they are evaluated once for each state.
* `Utf8`: the conversion of a string to ASCII, byte by byte, checked against a reference
  definition (`CodePoints`) in both directions.

Bounds: 3 items in up to 3 slots of arrays that grow by one; 3 keys, two of them in one bucket, and
at most four nodes made; 3 copies of strings and texts of up to four characters; buffers of 1, 2 and 6 bytes
that hold five characters; 4 objects, 6 calls; documents of up to 7 characters, or 14 if they are
objects, with and without class hints (for each state of the parser, a few characters of each kind
that it tells apart, and one that it refuses); strings of 4 of the 15 bytes at the borders of the classes
of bytes. Every removal and insertion around an iterator, the growth of each array, the
longest size and the reuse of what was freed occur within these.

### Prefork, PreforkProofs, MCPrefork

The listener's loop (`pc`), from the wait for a message over the search for a worker to the write,
with a signal handler before any step. A blocking call ends early when a signal arrives *during*
it, not when it arrived just before: that is why the wait and the test before it are separate
steps. Workers are processes with a pipe each way. The listener holds both ends of all pipes, so
that a write to a dead worker succeeds and no pipe ever reads as closed.

The two loops over workers are cut where a handler can see the difference. `reap_children` is
`WaitPid` (the process is gone, the worker is still in its list), `Delete`, `Refill` and `Reaped`;
`check_children` is `ReadStatus` (the answer is out of the pipe, the worker is still in the active
list), `Settle` (it may be killed after a SIGHUP), `Unlink` and `Push`. `todo` holds the workers that
the loop has still to see and `then` where the listener goes on. A shutdown begins wherever its signal
came; `caught` remembers the worker that it found read from, or waited for, but still listed.

| run | shows | bounds |
|---|---|---|
| `prefork_pool` | `PoolSound` (lists, count and processes agree; a worker has one request at a time), `NoneLost` (a request is in one place, and lost only with a worker that crashed or was killed), `GracefulKillsIdle` | 1 to 2 workers, 3 requests (interchangeable) and an error message, 2 requests per worker, a crash, a SIGHUP, a failed fork, both shutdowns |
| `prefork_live` | when no worker ends of itself: `Dispatched`; `GracefulEnds`, unless the signal came between the read of a worker's answer, or its `waitpid`, and its leaving the list (section 5) | 1 to 2 workers, 3 requests |
| `prefork_wait` | violation of `DispatchedAlways`: section 5 | 1 worker that ends after a request, 2 requests |

Three process ids for two workers let an id be used again.

### MCSession: AppSession, AppSessionProofs, MethodResponse, RequestRecv, AnsweringProofs

`AppSession` is the client half of a session and what a worker's stack does with its messages. The
sends in progress are a stack, because a send first handles what has come and that may send again
(`Resend`). `inbox`, `toRouter` and `toDrone` are in order, as one Jabber stream is; a message may
be under way as long as it likes. A worker that dies loses what was delivered to it, and Jabber
returns the rest. `Faults` says what may happen in a behaviour: workers die, a worker waits in vain
for the next request, or the client *overlaps*: it gives up waiting, and connects and disconnects
while requests are unanswered. The run leaves the last out, because the code does not withstand it
(section 5). What methods answer is a constant; `AnswersAssumption` says that the parts of an
answer follow one another as `MethodResponse` sends those of a method that does not mix large and
small ones, and that it ends with a STATUS.

`MethodResponse` is a worker and the methods it runs: the stack of requests in progress, the session's output
buffer, and what has been sent. Every point where the library reads messages (`Waited`) may start
another request on top of the stack. `Conducts` says what the methods of a behaviour may do besides
what their interface asks: fail, respond more than a chunk, or (an atomic one) return without a
response.

`RequestRecv` is `_osrf_app_request_recv` with its clock: `elapsed`, `remaining` and the CONTINUE
that restarts the wait. A wait may be late by up to `MaxLate` seconds, in each turn of the loop anew: the
clock moves between two waits, and a wait handles what it finds before it looks at the clock ("a
sufficiently large backlog of input messages could keep you working past the nominal expiration of
the timeout", osrf_stack.c:26-29). With a timeout of 0 the loop goes round until the next second.

| run | shows | bounds |
|---|---|---|
| `session` | client: `ResultsAsMadeTyped`, `RunOnce`, and, where no worker gives a session up, `Peer` and `NoneForgottenUnexpired`; worker: `Orderly` (with chunks and failures too), `EveryRequestEnds`; wait: `Awaited` | 2 requests, 2 workers, 2 connects, answers of 2 results in parts or with an exception, either worker or both die, or sessions time out; 3 requests nested in any way, 2 responses each, a buffer of 2, 2 chunks; waits of 0, 1 and 3 seconds that are up to 2 late, 2 results, 2 CONTINUEs |

`Orderly` says of every method that its responses leave in the order it made them, each once, none
left out, and then one final STATUS with nothing after it. It names the two things that are otherwise
(`Follows`, `NoneLeftOut`): a response in chunks passes smaller ones that are still in the bundle, and
what a method bundled before it failed may leave after its exception. Section 5 has the forms without
these. `Awaited`: a call does not last longer than its timeout and one late turn of the loop, and as long
again for each CONTINUE (`InTime`), gives up only after the clock has moved (`NotAtOnce`), and misses
no result (`NoneMissed`).

### WebsocketTranslator, WebsocketTranslatorProofs, MCWebsocketTranslator

Three threads, a mutex, and callers served one after the other by the same process. A step is what
a thread does between two points another thread can notice. Unlocking a mutex that is held by
another thread frees it, as it does for the default kind; when that lets two threads into their
critical sections the updates of the counter may be lost, and the model chooses. `Outside` says
what may happen in a behaviour: callers fall quiet, SIGUSR1 comes, the Jabber connection breaks.
Three histories say what callers were told: `bonded` is the worker whose OK a caller was sent, whether the
cache has it or not; `crowded` are the threads whose OK came when the cache was full, which the
translator does not track; `given` is what was just written, and to whom.

| run | shows | bounds |
|---|---|---|
| `ws_session` | `RecipientFollowsSession`, `TypedAndClosedOnlyIdle` | 2 workers, room for 1 session; 2 callers and 2 messages with quiet times, a signal or a broken connection, or 3 messages of the first caller when nothing else happens, the third when the others were answered (`MaxCalmSent`): a session that is accepted, times out and is asked for again takes three |
| `ws_live` | `IdleClientDropped` when callers fall quiet, also when the connection breaks and the responder has ended; `RelayedUndisturbed`: an answer is written to the caller that asked, or that caller leaves | 1 worker, 2 callers, 2 messages, 1 when the connection breaks (`MaxSeveredSent`) |

`ClosedOnlyIdle` is checked for answers that come before the longest wait is over. Both properties
of `ws_session` speak only of behaviours in which the mutex kept the threads apart (`raced`), and
`RecipientFollowsSession` not of sessions that were accepted when the cache was full (`crowded`):
section 5 has the violation by those. `RelayedUndisturbed` is stated for behaviours without a signal.

### MCProcesses: Transport, TransportProofs, ServiceControl, WebGateway, ProcessesProofs

`Transport` is one process and its connection to Jabber, through all three layers. What comes from
the server comes in pieces: a read sees any part of it. `session` holds the parser's elements and
buffers, `fd` who has each file descriptor open. A child of the process may discard the client that
it inherited.

`ServiceControl` is `osrf_system_service_ctrl`: the list of services, the two forks, the pid files,
the signals, and a table of processes that crash and whose ids are used again. `Careful` restricts
a behaviour to commands that come one after the other when what was started has started.

`WebGateway` is a child process of the web server that serves one browser at a time, by the
translator or the gateway, with one Jabber address for all. `coming` are the answers under way,
each tagged with its request; `late` remembers what was still under way when a request came.
The browser chooses whether it wants the answer in parts (`multipart`). If so each packet is written at
once, and the first one ends the wait of a lone CONNECT. If not, packets are `kept` until the last; those of
a lone CONNECT are written with every packet, and the wait goes on.

| run | shows | bounds |
|---|---|---|
| `processes` | transport: `MessagesWhole`, `ConnectedIsLoggedIn`, `OwnDescriptor`; services: `ListenerNamed`, `StopStops`; browsers: `OwnAnswers`, `WholeAnswer`, `CachedIsConnected` | 2 connects, 2 messages or presences, 2 descriptors, 1 of others, timeouts of none and 2; 3 services, 4 process ids, 3 commands, 1 other process; 2 browsers, 2 workers, 1 thread, 2 requests; answers to a lone CONNECT, and to a REQUEST with a DISCONNECT, in parts or whole, others whole |

## 3. What is proved

All theorems hold for every value of the constants under the assumptions that the modules name
(`RouterAssumption`, `ListAssumption`, `OsrfListAssumption`, `BufferAssumption`, `HashAssumption`,
`ArrayAssumption`, `WaitsAssumption`, `PreforkAssumption`, `AnswersAssumption`,
`TransportAssumption`, `ControlAssumption`, `GatewayAssumption`, `ConstantsOK`): that constants are of
their kinds, process ids and descriptors are numbers, sizes are positive, nothing has the address NULL,
and the settings server lists each service of the host once. Those about Transport have the hypothesis
`Reuse = FALSE`: every program frees a client that it has disconnected, and none connects it again
(section 6); one about WebsocketTranslator has a hypothesis that is explained below.

**RouterProofs.** `Invariance`: `Spec => []IInv`, where `IInv` is `TableInv /\ LoopInv /\ WorldInv`,
and from it `TypeCorrect`, `RegistryCorrect` (`RegistryConsistent`: no class or node is listed
twice, a node only under its own class, the iterator's node is one of the class) and
`EveryClassHasANode` (`NoClassWithoutNode`). `RegistryConsistent` is not inductive alone. A step of
the iterator computes a position in the sequence of nodes, so the proof needs that the sequence has
no repetition and that the iterator's node is in it (`GoodClass`); that removing a node leaves a
good class (`DropNode`) needs the case analysis of where the iterator stands. A class disappears
when its last node does, so that a class exists exactly as long as it has nodes and a connection
must be kept through bounces that remove a node in the middle of a drain: `LoopInv` (`GotOK`) says
what the main loop remembers about the class it is at. The lemmas about sequences (what
`SelectSeq`, `Append` and `SubSeq` keep) come first, then one about each operation on a class, then
one step per action.

Three more invariants are added to `IInv`, one for each question.

* `RoundRobinFair` (`RoundRobin`). That the counts of turns differ by one at most says nothing of
  the next turn. `Fair` orders the nodes by when their turn comes, from the iterator on and around:
  the sooner it comes, the fewer turns a node had. A node that leaves, or an iterator
  that is moved by a removal, keeps that order.
* `ListenersRegistered` (`RegistrationKept`) and `OnlyDeadRemoved` (`BounceRemovesOnlyDead`), from
  `ListenersInv`: while no connection was lost, a listener that is up is in the registry or its last
  command in the box asks for it; errors in a queue come from listeners that are dead, and these
  do not come back to life; one that was never up has nothing anywhere.
* `RequestsHaveOneOutcome` (`OneOutcome`), from `RequestsInv`. A request may still reach a listener
  from three places: the queue of a class, the wire of a node that is not down, or the memory of the
  router, which sends a node's last message again when an error of that node comes. It is in one of
  them at most (`Once`) and in none before it was sent and after its outcome (`Settled`). What
  the router remembers of a node is the last on its wire as long as it is alive (`LastIsLast`), so
  that while an error or something on the wire is still to come from it, that message was not delivered.

**PreforkProofs**: `PoolSafe` (`PoolSound`), `NoneLostSafe` (`NoneLost`) and `GracefulSafe`
(`GracefulKillsIdle`), from `Invariance`: `Spec => []IInv`, with
`IInv == TypeOK /\ ListsInv /\ LoopInv /\ LoadInv /\ RequestInv /\ CauseInv`.

* `ListsInv`. `PoolConsistent` does not say where a worker is between its launch and the list that
  it goes on (`hand`), nor that the parent has at most one in hand, which a step that reaps in
  between needs.
* `LoopInv` says what the loops over workers have in work: one that was waited for, or one whose answer
  is out of its pipe and which has nothing left, with others behind it, all active, whose answers are
  still in theirs.
* `LoadInv`. `OneAtATime` bounds what a worker has; that giving it a request keeps the bound
  depends on idle workers having nothing at all, not even an answer that the parent has not read,
  which depends in turn on how many requests and answers are in both pipes (`Fits`).
* `RequestInv` says of every message that ever came that it is in one place: `Parted` is a partition
  of what was sent into Jabber's queue, the parent's hand, done, lost, dropped and the workers' loads,
  and each action moves a message from one part to another.
* `CauseInv`: without a crash or a SIGHUP nothing was killed and the dead have nothing left; so what is
  lost has a cause.

The lists are sequences of process ids, of which a step takes those in a set. The lemmas about
`Those` and `Without` (what they contain, that they have no repetition, how many they are) come
from `Ascending`, which counts, and not from a recursive definition.

**TransportProofs**: `WholeSafe` (`MessagesWhole`), `LoginSafe` (`ConnectedIsLoggedIn`) and
`OwnDescriptorSafe` (`OwnDescriptor`), from `TransportInvariance`: `Spec => []IInv`, with
`IInv == TypeOK /\ HeldInv /\ LoginInv /\ WholeInv`.

* `WholeInv` looks ahead. Between two reads the session may be anywhere in a stanza, with half a
  message in its buffers, and an invariant that described it there would be the parser once more. So it
  says where the session *will* be when all of the wire has been read (`All`): between two stanzas
  with empty buffers, every end of a message inside of one (`Matched`), and its queue after what the
  program took is what the server sent. A read, of whatever length, does not change that
  (`ReadPart`); a stanza that the server adds is read from a clean session to a clean session (one lemma for
  each kind of stanza); taking a message only moves it (`Dequeued`). That the number of messages still to come
  is the number of their ends on the wire is `QueueCount`.
* `HeldInv` says when the descriptor is the session's, from the connect to the end that the server
  makes. It is what makes reads and the closing of the socket harmless.
* `LoginInv`: who is logged in, *or will be* when the wire has been read, was accepted.

What a read makes of the session is a recursive function on the wire. The induction over it is done with
sets: `Least` (a set of numbers has a least one, from the library's theorem about well-founded orders)
gives `Climb` (a set that has 0, and with each number below n the next, has all up to n), and each
lemma about reading says of which set.

**AppSessionProofs**: `TypesHold`, `RunsOnce` (`RunOnce`), `ResultsComeAsMade`
(`ResultsAsMadeTyped`), `PeerIsRight` (`Peer`) and `NothingForgotten` (`NoneForgottenUnexpired`), from
`BaseAlways`: `Spec => []BaseInv`. All but the first say `Calm => ...`: the client does not overlap
(section 5 shows what happens when it does). Workers may die *and* give sessions up in one behaviour,
where the run takes one of the two. `BaseInv` is a chain, each link of which the next one needs:

* `OwnSend`: the send that a call makes itself is at the bottom of the stack, and all above it send
  requests again; so there is at most one CONNECT or DISCONNECT, and it is the call's.
* `Placed`: what is to come of a request that is not complete is in one place at most (the stack, the
  router's queue, a worker's queue, a worker, or its end in the inbox), and nothing more is to
  come of a complete one. A redirect moves a request from the inbox back to the stack. A DISCONNECT carries the
  id of the last request, so that it would be taken for it when it is returned: `NamedDone` says that
  the request it names is complete or was lost by then.
* `Begun`: one that is on its way and was not lost was not begun, hence `RunOnce`.
* `Connecting`: from CONNECT to OK no other OK is on its way, and once connected none comes any more, nor an
  error of the router; so the address stays that of the peer (`AtPeer`). `LostQuiet` keeps what is left
  of lost requests out of a session that is connected.
* `ResultsInv`: `Fits` says which message may come next in an answer. What is in the inbox, and after
  it what the worker has still to send, continues what the caller has (`Sequel`), and of a request on
  its way nothing has come yet (`Untouched`); so each RESULT, and each part of one, has the next number.
* `HeldInv` and `WaitInv`, as long as no worker gives a session up: who was sent something has the
  session, a DISCONNECT is the last thing a worker is sent, and who waits for a request waits for something that
  is somewhere.

**WebsocketTranslatorProofs**: `RecipientSafe` (`RecipientFollowsSession`), `ClosedUntilGivenUp` and
`TypedAndIdleSafe` (`TypedAndClosedOnlyIdle`), from `WebsocketInvariance`: `Spec => []WInv`, with
`WInv == TypeOK /\ SessionInv /\ OnceInv /\ FlightInv`.

* `SessionInv`. The cache changes in one step of the responder and the caller is told in the next, so
  the two agree only up to the response in hand (`Agreed`); that the lookup does not come between these
  steps is `AloneInv`, the mutex, for as long as it is kept (`raced`). A new caller starts
  with an agreement because nothing is under way for its threads yet (`FreshInv`): what late answers
  put in the cache belongs to the callers before. Of the sessions that the cache has no room for
  (`crowded`) the two say different things, and the theorem leaves them out.
* `FlightInv`: as many are counted as are waited for, or more. That the responder may count one down
  needs that the answer in its hand is the only one to its request, wherever that one is
  (`OnceInv`).
* When requests are given up the count is set to zero and their late answers count it below that, so
  `FlightInv` says nothing from then on (`abandoned`), and `ws_late` shows that the property fails.
  `ClosedUntilGivenUp` has no hypothesis and goes up to and with that check; `TypedAndIdleSafe`
  has the hypothesis `MaxQuiet < MaxWait`, under which it never comes: the instance of `ws_session`
  satisfies it.

**LibraryProofs**: `ListHeldAndTraversed` (`HeldAndTraversed`), from the invariant that the items of
the list are in one slot each and that what stayed was passed or is still in front of the iterator
(`Ahead`): the property alone says nothing before the iterator's end. `BufferTerminated` (the string ends inside of the memory) and `BufferIsText`,
the refinement of `Text`. The memory's size is not the buffer's size, and clearing leaves a `!` in
place of a NUL in builds without NDEBUG, so the invariant says where the first NUL is.
Of the hash, `HashSound` (its part of `InPlace`) and `HashIsMap`, the refinement of `OrderedMap`.
`ContainersInPlace` and `ContainersPromised` are the run's `InPlace` and `Promised`, of a behaviour in
which one of the containers moves. The hash's invariant:

* `ListInv`: a live node's pointers lead to the live nodes next to it, in the order in which
  they were made; so the nodes live are the one increasing sequence of their set (`Lists`), which is what
  the map's entries are.
* `GoneInv`: from a node that was removed since the iterator came to an entry, the pointer leads to a
  live node, to another such node, or to the end, with no live node in between (but, at the end, for those
  made after its removal). So an iterator that stands on a removed node goes on without missing one.
* `BucketInv`: each live node is in its key's bucket, in one slot. With few entries the code
  searches the chain instead: that both find the same node is an induction over the nodes passed,
  done with a set of numbers (`Climb`).

Of the arrays of strings, `ArraysFilled` (their part of `InPlace`) and `ArraysAreSequences`, the
refinement of `StringSequence`. The invariant (`ArrayInv`) says of each array that its list is full up to its size
with copies, each in one slot, and empty behind (`IsFull`), and of the two that they share no copy and leave
none out. The work is in three loops of the code, which are recursive functions here:

* `Shifted`, which moves the strings behind a removed one (`MovedLemma`): after k turns, k slots
  hold the string of their right neighbour. It removes the last slot a second time when that was the
  one removed.
* `Filling`, which adds the words of the text.
* `Tokenize`, of which `Spells` says, after each letter, at which positions words have begun and
  that all of them but the last have ended. `Words` defines the same from the text alone; that the
  two are equal needs that an increasing sequence of the positions is the only one (`ListsOnce`).

That such a function exists is proved once (`LoopExists`), as TLA+ does not have it for granted.

**ProcessesProofs**: of WebGateway, `OwnAnswersSafe` (`OwnAnswers`), `WholeAnswerSafe`
(`WholeAnswer`) and `CachedIsConnectedSafe` (`CachedIsConnected`), from `GatewayInvariance`.

* What the browser is given is what was taken from the queue, so the invariant says of all that may
  get there, on its way (`coming`) or arrived, whose it is: while a request is served, its own or
  that of a request in `late` (`OwnInv`). That nothing else can come rests on the queue being
  emptied before the batch is sent, and on nothing being `kept` from one request to the next (`KeptInv`).
* An end of an answer that is taken is the end only if none is behind it, in the queue or on its way:
  `LastInv`. It is so of one REQUEST, with what a DISCONNECT beside it is answered, which is nothing;
  hence the hypothesis of `WholeAnswerSafe` on what browsers batch. A second REQUEST would be
  answered after the first one's COMPLETE, where the translator stops.

Of ServiceControl, `ListenersNamed` (`ListenerNamed`) and `StopsStop` (`StopStops`), from
`ControlInvariance`. The first holds because a service has one process at most (`Sole`), so that
nobody else empties or removes the file between the open and the write (`FileInv`); and that is so
because a start is given only for services without a process, and goes through a list in which
each is named once (`StartOK`). A stop finds no service starting, and leaves behind it, in the
list, none that runs (`StopOK`); between the kill and the removal of the file the service has no
listener (`KillOK`). `StopsStop` has the hypothesis that there is one entry for commands, as in the
run: with more, the entry of a stop would stay while a later command starts the service again.

**AnsweringProofs** proves of MethodResponse `ResponsesOrderly` (its types, `Orderly`, `ChunksTogether`) and
`EveryRequestHasItsEnd` (`EveryRequestEnds`), from `AnsweringInvariance`. The messages sent say too
little to be an invariant: the next step may flush a bundle to which several requests have added, and
the request in progress holds back a response that does not fit. So the invariant is about `Issued`,
what was sent and what is bundled as one sequence:

* `OrderInv`: it is in order (but for what chunks and failures do: `Follows`), and each request in
  progress has in it the responses it has made, but for one that waits for room. The parts of a response
  are a block that goes between what was sent and the bundle (`BlockAt`): what it passes is in the bundle,
  and of its own request only smaller responses are there (`BlockOrdered`). A request that is atomic or refused has none, and what it sends may
  go ahead of the bundle without passing a message of its own (`InsertedOrdered`).
* `ReadInv`: requests are read in the order they were sent, and one that runs inside another is a
  later one: what a step issues for the request on top leaves those below it as they were
  (`OthersPlaced`), and a request that is read has nothing issued yet.
* `ChunkInv`: no part of a response is ever bundled, and the parts of one are sent together.
* `EndInv`: a request that was read is in progress or has its end in `Issued`; and an end that is
  only bundled has a request in progress that will flush it, so that when none is left it is sent.
* `SizeInv`: the bundle has its limit, and room for the STATUS of each request being completed.

Of RequestRecv it proves `RequestAwaited` (`InTime`, `NotAtOnce` and `NoneMissed`), from `Budget`: what went by,
what is left with one turn that is late, and what a CONTINUE that came will add, is no more than what was
granted. `InTime` alone does not bound the next turn of the loop. The wrong subtraction of
`osrf_app_session.c:388` takes what went by from the start in every turn, also what a wait was late by; it makes the
wait too short and never too long, so only one turn can be late at the cost of the caller, which is why the
bound holds in spite of it.

Each invariant was first checked by TLC, those of Prefork, Transport and
WebsocketTranslator on the instances of their runs. The theorems of WebGateway, ServiceControl,
MethodResponse and RequestRecv are stated of the modules' own specifications and of `ProcessesSpec`
and `SessionSpec`, in which one of the units of MCProcesses or MCSession moves, for every value of
their constants; those of the library likewise, of `ContainersSpec`, of which the behaviours of the run
`library` are an extension by further units.

Model-checked only: the liveness properties (fairness and ENABLED are beyond the prover); the
modules with recursive operators (JsonObject, JsonParse, JsonPush, Utf8: what they compute is proved
by induction over data, which it cannot do either).

## 4. Bounds, fairness, abstractions

**Bounds.** Every bound is a constant whose name starts with `Max`. Requests, listeners, workers and
callers are as few as let two of them be in each other's way and a third one be a bystander; the
violations in section 5 need two. Symmetry is used where the values are interchangeable in the module and
in every property of the run: requests and listeners of the router, requests of the listener,
workers of a session, of the translator and of the gateway, browsers. No run that checks liveness uses it.

**Fairness.** Router: its thread runs, and Jabber delivers or returns every message (weak fairness
of `RouterStep` and `JabberDeliver`). Prefork: weak, of the listener's steps and of each worker's.
WebsocketTranslator: weak for each thread, the clock and a caller that was told to leave; strong for
the two threads that wait for the mutex. The idle thread holds it for a moment and then sleeps
for at least a second, so a waiting thread finds it free again and again, and a scheduler that
never let it in then would be starving it. Nothing obliges clients, listeners, operators, arrivals,
signals, crashes or answers. The other modules state safety only.

**Deadlock** is not checked: in every module the surroundings may have nothing more to do, and the bounds
end what they may do. That the listener or the router does not get stuck is what the liveness
properties say.

**Abstractions.** Messages carry what the properties tell apart: a type, a request, the number of
a result. Jabber keeps the order of one sender's messages to one receiver, returns messages to
addresses that are gone, and loses nothing else. Time is a choice: a wait ends when it likes,
except in WebsocketTranslator, RequestRecv and Transport, which count the ticks that their limits are
about. Characters stand for the classes that the parsers tell apart, keywords and hexadecimal
escapes are shorter; the bytes of UTF-8 are real. memcached keeps what it is given. Chunks of one response are
as many as the constant says, whatever its size.

## 5. What the code does otherwise than it says

The first two are runs of `PROJECT.json`, with the line they contradict. The others are to be run
by hand: a configuration checks one property, named in it (where it names several, one at a time),
and ends in its violation.

| configuration | property | what happens | at; the line that says otherwise |
|---|---|---|---|
| `router_retry` | `BouncedIsRetried` | a bounced request is replaced by the last one its node was sent | osrf_router.c:533; :346 |
| `prefork_wait` | `DispatchedAlways` | the last busy worker ends just before the listener waits for it, for ever | osrf_prefork.c:1048; :841 |
| `router_claims` | `StopEndsLoop` | a stop signal between the test and `select` waits for the next message | osrf_router.c:214; :43 |
| `router_claims` | `SurvivesQueries` | the statistics of an unknown class bring the router down | osrf_router.c:916; :205 |
| `library_claims` | `NextIfThereIsOne` | an iterator at the end does not see an entry appended later | osrf_hash.c:550; :536 |
| `library_claims` | `CloneIsCopy` | the clone of an array whose last element was removed is shorter, that of a string without a value is not equal | osrf_json_object.c (`jsonObjectClone`); :939 |
| `library_claims` | `AllReadBack` | a character above FFFF is written as two surrogates and read back as two characters | osrf_utf8.c; osrf_parse_json.c (`get_utf8`) |
| `prefork_reap` | `DeadReaped` | a dead worker is not replaced until the next message | osrf_prefork.c:862; :810 |
| `prefork_reap` | `GracefulEndsAlways` | a SIGTERM between the read of a worker's answer, or its `waitpid`, and its leaving the list: the shutdown waits for that worker for ever | osrf_prefork.c:1085, :824; :1386 |
| `response_claims` | `EveryRequestEnds` | an atomic method without responses answers nothing at all | osrf_application.c:832; :811 |
| `response_claims` | `ResponsesInOrder` | a chunked response overtakes the smaller ones before it | osrf_application.c:749; :713 |
| `response_claims` | `EndIsLast` | responses of a method that failed are sent with the next request's | osrf_application.c:610; OpenSRF-Messaging-Protocol.html:98 |
| `session_overlap` | `RemoteIsPeer` | a late response redirects a connected session to a worker that does not have it | osrf_stack.c:117; osrf_prefork.c:451 |
| `session_overlap` | `OthersStay` | finishing a request drops the newer ones of its slot | osrf_app_session.c:267; :33 |
| `session_claims` | `PeerHasSession` | a DISCONNECT of the previous session ends the next one | osrf_stack.c:104; osrf_prefork.c:451 |
| `session_claims` | `NoneForgotten` | a request that crosses its session's TIMEOUT is dropped and not sent again | osrf_prefork.c:502; OpenSRF-Messaging-Protocol.html:61 |
| `session_claims` | `TimeIsUsed` | with messages coming in between, a wait ends before its time | osrf_app_session.c:388 |
| `session_claims` | `OneReprieve` | every CONTINUE restarts the wait | osrf_app_session.c:379; :383 |
| `ws_session` | `RecipientFollowsEverySession` (in place of its own) | a session accepted when the cache is full is not tracked, and its messages go to the router | osrf_websocket_translator.c:278; :254 |
| `ws_claims` | `AnswersReachTheirCaller` | an answer reaches the next caller | osrf_websocket_translator.c:318; :34 |
| `ws_claims` | `SerializedAfterSetup` | a thread unlocks the mutex another one holds | osrf_websocket_translator.c:367; :187 |
| `ws_late` | `ClosedOnlyIdle` | after a late answer the count of requests is off, and a busy caller is closed | osrf_websocket_translator.c:401; :106 |
| `ws_claims` | `CacheCleared` | a session is cached after its caller left | osrf_websocket_translator.c:977; :960 |
| `ws_usr1` | `ResponsesRelayed` | one signal and the responder spins for ever | socket_bundle.c:652; :637 |
| `ws_claims` | `KilledWhenSevered` | the process outlives its Jabber connection | osrf_websocket_translator.c:361; :947 |

The units of `processes` state further properties that the code does not have, without a
configuration of their own; each is the form without exceptions of one that the run checks, or its
complement. Transport: `OwnDescriptorAlways` (the session keeps the number of a descriptor that the
socket layer closed), `TimeoutWaited` (a wait ends early when what came holds no message),
`ConnectWaits` (one wait for each stage of the login, whatever came). ServiceControl, without
`Careful`: `ListenerNamedAlways` and `OthersUntouched` (a stop while a start is under way; a pid
file of the past). WebGateway: `OwnAnswersAlways`, `WholeBatch` (the answer to a CONNECT is taken
for the end of its batch), `WrittenOnce` (a lone CONNECT whose answer is not in parts writes what came
before its end again, osrf_http_translator.c:476), `GatewayWhole` (the status is 200 when a wait ended
without an answer), `DownNoticed` (a request that waits when Jabber is lost ends as one whose time is up,
and not with the transport error of osrf_http_translator.c:442).

## 6. What is not modelled

Components: transport messages and OpenSRF messages (conversions between a structure and its text;
what the properties tell apart of them is data here), the process that forks the routers, the
transport group, settings, configuration and cache (a tree that is read at the start, and memcached),
logging, digests and dates, the other languages, the shell and the examples, the tests.

Of the components that are modelled:

* Prefork: a request is one write and one read of the pipe. After the first piece the worker reads
  without blocking (osrf_prefork.c:1184); what becomes of a piece that comes later is not modelled.
  `launch_child` is one step: for a moment the new worker is in the idle list with the process id 0
  (osrf_prefork.c:607-614), and a handler that shuts down then signals the listener's own process group. The id
  of a process that was waited for and is still listed is not given to another.
* AppSession: locale, time zone, ingress, the release of a session. MethodResponse: registration and
  introspection of methods.
* Lists: `osrfListFree`, `osrfListSwap`, `osrfListFind`, which are one step over all slots;
  `osrfStringArrayContains`; the big list and big hash (Judy arrays, used by no program here).
* Buffer: an initial size of zero would be doubled for ever, and what callers do after a buffer could
  not grow is not modelled; no caller of the first kind exists.
* JSON: the legacy parser and writer, paths, XML, the iterator over children; the resume of the
  incremental parser after a handler refused (jsonpush.c:183), which nobody calls. Class names are
  plain, as the library writes them. A backslash as the last character makes the recursive parser
  look at the end of the text, which is modelled as a failure.
* Transport: `socket_wait_all`, listening and datagram sockets and sends with a timeout, which only the tests
  use; presences beyond their tags. The flag for an error in the client's queue is never set in the code and
  so is not in the model. `Reuse`, off in the run, is a client that connects again after it
  disconnected: the buffers for the router's broadcast and for error codes are not reset.
* WebSocket translator: a packet without OpenSRF messages. HTTP translator and gateway: the formats of
  parameters, answers and headers.

## 7. What comes next

1. The pipe between listener and worker with partial reads; an abstract pool of workers that runs each
   request once at most, which Prefork refines.
2. A channel from request to answers that AppSession and MethodResponse refine together.
3. The legacy JSON parser beside the other two, and paths into trees.
4. OpenSRF::Server of the Perl implementation, Python's server and session, the shared socket of the
   JavaScript client, each against the specification of its C counterpart.
