------------------------------ MODULE Transport ------------------------------
(***************************************************************************)
(* A process and its connection to Jabber: transport_client.c on top of    *)
(* transport_session.c on top of socket_bundle.c.                          *)
(*                                                                         *)
(* The client keeps a queue of messages.  The session logs in, in two      *)
(* stages, and turns the tags that come from the socket into messages; the *)
(* socket layer closes a socket that the server has closed.  What comes    *)
(* from the server comes in pieces: a read sees any part of it, and a tag  *)
(* when it is complete.  Descriptors are numbers that the process uses     *)
(* again, the session and the rest of the process alike.                   *)
(***************************************************************************)
EXTENDS Integers, Sequences, SequencesExt, FiniteSetsExt

CONSTANTS
    Fds,          \* file descriptors other than those of the standard streams
    Timeouts,     \* the timeouts that client_recv is called with, -1 for none
    Reuse,        \* whether a client is used again after client_disconnect; the programs free it
    MaxConnects,  \* bound: connections
    MaxStanzas,   \* bound: messages and presences in a connection
    MaxOthers     \* bound: descriptors that the rest of the process opens

ASSUME TransportAssumption ==
    /\ Fds \subseteq Nat \ {0} /\ Timeouts \subseteq Nat \cup {-1} /\ Reuse \in BOOLEAN
    /\ MaxConnects \in Nat /\ MaxStanzas \in Nat /\ MaxOthers \in Nat

VARIABLES
    session,   \* sockId, connecting, connected, the elements it is in (jabber_machine),
               \* the buffers, and the client's queue
    fd,        \* who has each descriptor open
    call,      \* the call that is under way, and how long it has waited and may still wait
    server,    \* what the server thinks of the connection
    wire,      \* tags and texts that the server sent and nobody has read
    sent,      \* history: the messages of the connection
    taken,     \* history: those that client_recv returned
    ends,      \* history: how the last call ended
    stray,     \* history: whether a descriptor of somebody else's was written or closed
    closed,    \* history: whether the server closed the connection of this client
    connects, others  \* counted for the bounds

vars == <<session, fd, call, server, wire, sent, taken, ends, stray, closed, connects, others>>

Forever == -1

\* init_transport and client_init.
NewSession == [sockId |-> 0, connecting |-> 0, connected |-> FALSE, in |-> {},
               from |-> << >>, body |-> << >>, thread |-> << >>, error |-> << >>,
               queue |-> << >>]

Idle == [op |-> "none", waited |-> 0, remaining |-> 0]

Init ==
    /\ session = NewSession /\ fd = [f \in Fds |-> "free"]
    /\ call = Idle /\ server = "none" /\ wire = << >>
    /\ sent = << >> /\ taken = << >> /\ ends = "none"
    /\ stray = FALSE /\ closed = FALSE /\ connects = 0 /\ others = 0

-----------------------------------------------------------------------------
(* What the parser makes of the tags.                                      *)

Open(tag, n)  == [ev |-> "open", tag |-> tag, val |-> n]
Close(tag)    == [ev |-> "close", tag |-> tag, val |-> 0]
Text(n)       == [ev |-> "text", tag |-> "text", val |-> n]

\* Mutant: any iq is taken for the answer.
AnyAnswer(s, t) == s.connecting = 2

\* An iq of the right type while the answer to the login is expected.
LoginAccepted(s, t) == t.val = "result" /\ s.connecting = 2

\* startElementHandler
StartElement(s, t) ==
    CASE t.tag = "message" ->
           [s EXCEPT !.in = @ \cup {"message"}, !.from = Append(@, t.val)]
      [] t.tag \in {"body", "thread"} ->
           IF "message" \in s.in THEN [s EXCEPT !.in = @ \cup {t.tag}] ELSE s
      [] t.tag = "presence" -> [s EXCEPT !.in = @ \cup {"presence"}, !.from = Append(@, t.val)]
      [] t.tag = "stream:error" -> [s EXCEPT !.in = @ \cup {t.tag}, !.connected = FALSE]
      [] t.tag = "stream:stream" -> IF s.connecting = 1 THEN [s EXCEPT !.connecting = 2] ELSE s
      [] t.tag = "handshake" -> [s EXCEPT !.connected = TRUE, !.connecting = 0]
      [] t.tag = "error" -> [s EXCEPT !.in = @ \cup {"error"}, !.error = Append(@, t.val)]
      [] t.tag = "iq" ->
           IF LoginAccepted(s, t)
           THEN [s EXCEPT !.in = @ \cup {"iq"}, !.connected = TRUE, !.connecting = 0]
           ELSE [s EXCEPT !.in = @ \cup {"iq"}]
      [] OTHER -> s

\* Mutant: the type of an error is kept for the next message.
ResetSomeBuffers(s) == [s EXCEPT !.from = << >>, !.body = << >>, !.thread = << >>]

\* reset_session_buffers
ResetBuffers(s) ==
    [s EXCEPT !.from = << >>, !.body = << >>, !.thread = << >>, !.error = << >>]

\* client_message_handler
Enqueue(s, m) == [s EXCEPT !.queue = Append(@, m)]

\* The message that the buffers hold; it is an error if the error has a type.
Message(s) == [from |-> s.from, body |-> s.body, thread |-> s.thread, isError |-> s.error # << >>]

\* endElementHandler
EndElement(s, t) ==
    IF t.tag \notin s.in THEN s
    ELSE LET left == [s EXCEPT !.in = @ \ {t.tag}]
         IN  CASE t.tag = "message" -> ResetBuffers(Enqueue(left, Message(s)))
               [] t.tag \in {"iq", "presence"} -> ResetBuffers(left)
               [] OTHER -> left

\* characterHandler
Characters(s, t) ==
    [s EXCEPT !.body   = IF {"message", "body"} \subseteq s.in THEN Append(@, t.val) ELSE @,
              !.thread = IF {"message", "thread"} \subseteq s.in THEN Append(@, t.val) ELSE @]

\* grab_incoming
Parse(s, t) ==
    CASE t.ev = "open"  -> StartElement(s, t)
      [] t.ev = "close" -> EndElement(s, t)
      [] OTHER          -> Characters(s, t)

\* _socket_handle_client_data: the first n tags and texts are there.
Readings(s, w) ==
    LET read[i \in 0 .. Len(w)] == IF i = 0 THEN s ELSE Parse(read[i - 1], w[i]) IN read

ReadData(n) == Readings(session, wire)[n]

-----------------------------------------------------------------------------
(* Sockets.                                                                *)

\* The descriptor that open and socket return: the lowest that is free.
Lowest == Min({f \in Fds : fd[f] = "free"})

Owner(f) == IF f \in Fds THEN fd[f] ELSE "stdin"

\* Somebody else's descriptor would be used.
Foreign(f) == Owner(f) \notin {"session", "free"}

\* close of a descriptor, by socket_disconnect or socket_wait.
Closed(f) == [x \in Fds |-> IF x = f THEN "free" ELSE fd[x]]

\* select or recv fails: the descriptor is not open or not the session's, or a
\* signal comes.
WaitFails == Owner(session.sockId) # "session"

Gone == server \in {"left", "refused"}

\* The server has closed the connection, and all that it sent is read.
AtEnd(n) == ~WaitFails /\ Gone /\ n = Len(wire)

-----------------------------------------------------------------------------
(* session_connect                                                         *)

\* It ends without success: socket_disconnect, sock_id = 0.
ConnectFails(s) ==
    /\ session' = [s EXCEPT !.sockId = 0]
    /\ fd' = Closed(s.sockId)
    /\ stray' = (stray \/ Foreign(s.sockId))
    /\ server' = "none" /\ ends' = "not connected" /\ call' = Idle

\* client_connect of a client that has a socket.
ConnectAgain ==
    /\ call = Idle /\ session.sockId # 0 /\ ends' = "already open"
    /\ UNCHANGED <<session, fd, call, server, wire, sent, taken, stray, closed, connects, others>>

\* No server listens, or there is no descriptor.
ConnectRefused ==
    /\ call = Idle /\ session.sockId = 0 /\ ends' = "not connected"
    /\ UNCHANGED <<session, fd, call, server, wire, sent, taken, stray, closed, connects, others>>

\* The socket is opened and the opening tag of the stream sent.
ConnectStart ==
    /\ call = Idle /\ session.sockId = 0 /\ connects < MaxConnects
    /\ Reuse \/ session = NewSession
    /\ \E f \in Fds : fd[f] = "free"
    /\ session' = [session EXCEPT !.sockId = Lowest, !.connecting = 1]
    /\ fd' = [fd EXCEPT ![Lowest] = "session"]
    /\ call' = [Idle EXCEPT !.op = "stage1"]
    /\ server' = "opened" /\ wire' = << >> /\ sent' = << >> /\ taken' = << >>
    /\ ends' = "calling" /\ connects' = connects + 1 /\ closed' = FALSE
    /\ UNCHANGED <<stray, others>>

\* The answer to it is waited for once, whatever comes of it; then the login is
\* sent if the server opened its stream.
Stage1 ==
    /\ call.op = "stage1"
    /\ \E n \in 0 .. Len(wire) :
         LET s == ReadData(n)
         IN  /\ wire' = SubSeq(wire, n + 1, Len(wire))
             /\ closed' = (closed \/ AtEnd(n))
             /\ \/ /\ s.connecting = 2 /\ ~AtEnd(n)
                   /\ session' = s /\ call' = [call EXCEPT !.op = "stage2"]
                   /\ server' = IF server = "streamed" THEN "asked" ELSE server
                   /\ UNCHANGED <<fd, ends, stray>>
                \/ /\ s.connecting = 2 /\ Gone
                   /\ ConnectFails(s)
                \/ /\ s.connecting # 2
                   /\ session' = s /\ call' = [call EXCEPT !.op = "stage2"]
                   /\ fd' = IF AtEnd(n) THEN Closed(s.sockId) ELSE fd
                   /\ UNCHANGED <<server, ends, stray>>
    /\ UNCHANGED <<sent, taken, connects, others>>

\* The answer to the login is waited for once.
Stage2 ==
    /\ call.op = "stage2"
    /\ \E n \in 0 .. (IF WaitFails THEN 0 ELSE Len(wire)) :
         LET s == ReadData(n)
         IN  /\ wire' = SubSeq(wire, n + 1, Len(wire))
             /\ closed' = (closed \/ AtEnd(n))
             /\ \/ /\ s.connected
                   /\ session' = s /\ fd' = IF AtEnd(n) THEN Closed(s.sockId) ELSE fd
                   /\ ends' = "connected" /\ call' = Idle
                   /\ UNCHANGED <<server, stray>>
                \/ ~s.connected /\ ConnectFails(s)
    /\ UNCHANGED <<sent, taken, connects, others>>

-----------------------------------------------------------------------------
(* client_recv                                                             *)

\* A client that was disconnected is only freed.
InUse == Reuse \/ session.sockId # 0 \/ session = NewSession

\* The oldest message of the queue, if there is one.
Dequeue(s, why) ==
    /\ call' = Idle
    /\ IF s.queue = << >>
       THEN session' = s /\ ends' = why /\ UNCHANGED taken
       ELSE /\ session' = [s EXCEPT !.queue = Tail(@)]
            /\ ends' = "message" /\ taken' = Append(taken, Head(s.queue))

RecvStart ==
    /\ call.op = "none" /\ connects > 0 /\ InUse
    /\ \E t \in Timeouts :
         IF session.queue # << >>
         THEN Dequeue(session, "message")
         ELSE /\ call' = [op |-> "recv", waited |-> 0, remaining |-> t]
              /\ ends' = "calling" /\ UNCHANGED <<session, taken>>
    /\ UNCHANGED <<fd, server, wire, sent, stray, closed, connects, others>>

\* session_wait reports an error: what has been read stays in the queue.
RecvFails ==
    /\ call.op = "recv"
    /\ \/ /\ WaitFails /\ UNCHANGED <<session, fd, wire, closed>>
       \/ /\ AtEnd(Len(wire))
          /\ session' = ReadData(Len(wire)) /\ wire' = << >>
          /\ fd' = Closed(session.sockId) /\ closed' = TRUE
    /\ call' = Idle /\ ends' = "error"
    /\ UNCHANGED <<server, sent, taken, stray, connects, others>>

\* A signal ends the wait.
RecvInterrupted ==
    /\ call.op = "recv" /\ call.remaining # 0
    /\ call' = Idle /\ ends' = "error"
    /\ UNCHANGED <<session, fd, server, wire, sent, taken, stray, closed, connects, others>>

\* The time that is left after a wait of d seconds: time(NULL) - start is the time
\* of all waits of the call.
Left(d) == call.remaining - (call.waited + d)

\* A wait of d seconds brings n tags and texts; it may bring a part of one, or
\* nothing when the time is over.
RecvWait ==
    /\ call.op = "recv" /\ ~WaitFails
    /\ \E n \in 0 .. Len(wire) :
         LET s == ReadData(n)
         IN  /\ ~AtEnd(n)
             /\ wire' = SubSeq(wire, n + 1, Len(wire))
             /\ \/ /\ call.remaining = Forever /\ n > 0
                   /\ IF s.queue = << >> THEN session' = s /\ UNCHANGED <<call, ends, taken>>
                      ELSE Dequeue(s, "message")
                \/ \E d \in 0 .. call.remaining :
                     /\ n = 0 /\ wire = << >> => d = call.remaining
                     /\ IF s.queue = << >> /\ Left(d) > 0
                        THEN /\ session' = s /\ UNCHANGED <<ends, taken>>
                             /\ call' = [call EXCEPT !.waited = @ + d, !.remaining = Left(d)]
                        ELSE Dequeue(s, IF \E t \in Timeouts \ {Forever} : call.waited + d >= t
                                        THEN "timeout" ELSE "early")
    /\ UNCHANGED <<fd, server, sent, stray, closed, connects, others>>

-----------------------------------------------------------------------------
(* The other calls.                                                        *)

\* client_send_message, of a client that is connected as far as it knows; others
\* send nothing.
Send ==
    /\ call.op = "none" /\ session.connected /\ InUse
    /\ stray' = (stray \/ Foreign(session.sockId))
    /\ UNCHANGED <<session, fd, call, server, wire, sent, taken, ends, closed, connects, others>>

\* session_disconnect: the closing tag of the stream, then socket_disconnect.
SessionDisconnect ==
    /\ stray' = (stray \/ (session.sockId # 0 /\ Foreign(session.sockId)))
    /\ fd' = Closed(session.sockId)
    /\ server' = "none"

\* client_disconnect: the state machine and the queue stay as they are.
ClientDisconnect ==
    /\ call.op = "none" /\ session.sockId # 0
    /\ SessionDisconnect
    /\ session' = [session EXCEPT !.sockId = 0]
    /\ wire' = << >> /\ ends' = "none"
    /\ UNCHANGED <<call, sent, taken, closed, connects, others>>

NewClient ==
    /\ session' = NewSession /\ wire' = << >> /\ sent' = << >> /\ taken' = << >>
    /\ ends' = "none" /\ closed' = FALSE

\* client_free; then client_init, for a new connection.
ClientFree ==
    /\ call.op = "none" /\ SessionDisconnect /\ NewClient
    /\ call' = Idle /\ UNCHANGED <<connects, others>>

\* Mutant: the child frees the client as its parent would.
ClientDiscardFrees == stray' = TRUE

\* client_discard: nothing is sent and nothing closed.
ClientDiscard == UNCHANGED stray

\* osrfSystemIgnoreTransportClient, in the child after a fork, which is what we go on with: the
\* connection is its parent's; or in a worker that finds it is not connected.  The
\* descriptor stays open.
Ignore ==
    /\ call.op = "none" /\ session.sockId # 0
    /\ fd' = [f \in Fds |-> IF f = session.sockId /\ fd[f] = "session" THEN "ignored" ELSE fd[f]]
    /\ ClientDiscard /\ NewClient
    /\ server' = "none"
    /\ UNCHANGED <<call, connects, others>>

\* The rest of the process opens and closes files and sockets of its own.
OtherOpens ==
    /\ call.op = "none" /\ others < MaxOthers /\ \E f \in Fds : fd[f] = "free"
    /\ fd' = [fd EXCEPT ![Lowest] = "other"] /\ others' = others + 1
    /\ UNCHANGED <<session, call, server, wire, sent, taken, ends, stray, closed, connects>>

OtherCloses(f) ==
    /\ call.op = "none" /\ fd[f] = "other" /\ fd' = [fd EXCEPT ![f] = "free"]
    /\ UNCHANGED <<session, call, server, wire, sent, taken, ends, stray, closed, connects, others>>

-----------------------------------------------------------------------------
(* The Jabber server, as far as the session sees it.                       *)

Says(tokens) ==
    /\ wire' = wire \o tokens
    /\ UNCHANGED <<session, fd, call, taken, ends, stray, closed, connects, others>>

\* It closes the connection, of a client that has logged in or not.
Leaves == IF server = "in" THEN "left" ELSE "refused"

ServerStream ==
    /\ server = "opened" /\ server' = "streamed"
    /\ Says(<<Open("stream:stream", 0)>>) /\ UNCHANGED sent

\* A component is answered with a handshake, others with an iq.
ServerAccepts ==
    /\ server = "asked" /\ server' = "in"
    /\ \/ Says(<<Open("handshake", 0), Close("handshake")>>)
       \/ Says(<<Open("iq", "result"), Close("iq")>>)
    /\ UNCHANGED sent

ServerRefuses ==
    /\ server = "asked" /\ server' = "refusing"
    /\ Says(<<Open("iq", "error"), Open("error", 401), Close("error"), Close("iq")>>)
    /\ UNCHANGED sent

ServerError ==
    /\ server \in {"asked", "in"} /\ server' = Leaves
    /\ Says(<<Open("stream:error", 0), Text(0), Close("stream:error")>>) /\ UNCHANGED sent

\* A message n, and one that comes back as an error.
Tags(n, error) ==
    <<Open("message", n), Open("body", 0), Text(n), Close("body"), Open("thread", 0), Text(n)>>
      \o (IF error THEN <<Close("thread"), Open("error", n), Close("error")>> ELSE <<Text(n), Close("thread")>>)
      \o <<Close("message")>>

ServerMessage ==
    /\ server = "in" /\ Len(sent) < MaxStanzas /\ UNCHANGED server
    /\ \E error \in BOOLEAN :
         LET n == Len(sent) + 1
         IN  /\ Says(Tags(n, error))
             /\ sent' = Append(sent, [from |-> <<n>>, body |-> <<n>>, isError |-> error,
                                      thread |-> IF error THEN <<n>> ELSE <<n, n>>])

ServerPresence ==
    /\ server = "in" /\ wire = << >> /\ UNCHANGED <<server, sent>>
    /\ Says(<<Open("presence", 0), Open("status", 0), Text(0), Close("status"), Close("presence")>>)

ServerCloses ==
    /\ server \in {"opened", "streamed", "asked", "refusing", "in"} /\ server' = Leaves
    /\ Says(<< >>) /\ UNCHANGED sent

-----------------------------------------------------------------------------
Next ==
    \/ ConnectAgain \/ ConnectRefused \/ ConnectStart \/ Stage1 \/ Stage2
    \/ RecvStart \/ RecvFails \/ RecvInterrupted \/ RecvWait
    \/ Send \/ ClientDisconnect \/ ClientFree \/ Ignore
    \/ OtherOpens \/ \E f \in Fds : OtherCloses(f)
    \/ ServerStream \/ ServerAccepts \/ ServerRefuses \/ ServerError
    \/ ServerMessage \/ ServerPresence \/ ServerCloses

Spec == Init /\ [][Next]_vars

-----------------------------------------------------------------------------
\* "There may be more data that hasn't arrived yet" (_socket_handle_client_data):
\* in whatever pieces messages arrive, client_recv returns them whole, once, in
\* order, and marked as errors only if they are; nothing that was read is lost
\* when the connection ends.
MessagesWhole ==
    LET got == taken \o session.queue
        unread == {i \in DOMAIN wire : wire[i] = Close("message")}
    IN  /\ IsPrefix(got, sent)
        /\ Owner(session.sockId) = "session" => Len(got) + Cardinality(unread) = Len(sent)

\* "@return 1 if successful" (session_connect): a call that reports success had its
\* login accepted by the server.
ConnectedIsLoggedIn ==
    ends = "connected" => session.connected /\ server \in {"in", "left"}

\* "Disconnecting would disconnect the parent as well" (client_discard): no process
\* writes to or closes a descriptor that is not its session's, unless the server
\* has closed the connection.
OwnDescriptor == [][stray' => stray \/ closed]_vars

\* The same without the exception: after the server closed the connection, the
\* number of its descriptor is still kept when it is somebody else's.
OwnDescriptorAlways == ~stray

\* "How long to wait for a message to arrive, in seconds" (client_recv): without a
\* message and without an error it does not return earlier.
TimeoutWaited == ends # "early"

\* "If connect_timeout is -1, wait indefinitely for the Jabber server to respond"
\* (session_connect): it does not fail while the server's answer is under way.
ConnectWaits == [][wire' # << >> => ends' # "not connected" \/ ends = ends']_vars
=============================================================================
