--------------------------- MODULE MethodResponse ---------------------------
(***************************************************************************)
(* src/src/libopensrf/osrf_application.c and the server's half of          *)
(* osrf_app_session.c and osrf_stack.c: how a worker runs the methods its  *)
(* caller asks for and sends what they respond.                            *)
(*                                                                         *)
(* Small responses are bundled in the session's outbuf, large ones sent at *)
(* once in chunks, those of an atomic method saved until it returns.       *)
(* Before most of what it sends, the library handles whatever messages     *)
(* have come (osrf_app_session_queue_wait with no timeout): a request among *)
(* them runs at once, inside the one being answered.  The stack of requests *)
(* in progress is therefore part of the state.                             *)
(*                                                                         *)
(* Outside: the methods, which respond and return as their interface lets  *)
(* them, and the caller, who may send requests without waiting (a stateful *)
(* session).                                                               *)
(***************************************************************************)
EXTENDS Integers, Sequences, FiniteSets

CONSTANTS
    MaxReqs,        \* bound: requests of the caller
    MaxMade,        \* bound: responses of a method
    MaxBundle,      \* max_bundle_size, in messages
    Chunks,         \* chunks a large response is cut into
    Conducts        \* what the methods of a behaviour may do: respond more than a chunk
                    \* ("big"), return a negative code ("fail"), and an atomic one return 1
                    \* without a response ("silent")

\* What the constants are.
ConstantsOK ==
    /\ MaxReqs \in Nat /\ MaxMade \in Nat \ {0} /\ MaxBundle \in Nat \ {0} /\ Chunks \in Nat \ {0}
    /\ Conducts \subseteq SUBSET {"big", "fail", "silent"}

VARIABLES
    conduct,        \* what the methods may do, one of Conducts
    stack,          \* the requests in progress, the innermost last
    outbuf,         \* the session's outbuf
    inbound,        \* requests that have come and were not read
    asked,          \* requests the caller has sent
    wire            \* history: the messages sent, in order

vars == <<conduct, stack, outbuf, inbound, asked, wire>>

Reqs == 1 .. MaxReqs
Kinds == {"RESULT", "PARTIAL", "NOCONTENT", "COMPLETE", "EXCEPTION"}
\* A message: of a RESULT and its parts, k says which response it is.
Message == [req : Reqs, kind : Kinds, k : 0 .. MaxMade]
Msg(r, kind, k) == [req |-> r, kind |-> kind, k |-> k]

\* A method in progress (osrfMethodContext): pc is "run" in the method, "wait" while
\* the library reads messages before it does what "then" says with "held"; saved says
\* whether an atomic method has a list of responses; over, that it has returned.
Frame == [req : Reqs, atomic : BOOLEAN, saved : BOOLEAN, big : BOOLEAN, made : 0 .. MaxMade,
          completed : BOOLEAN, pc : {"run", "wait"}, over : BOOLEAN,
          then : {"none", "append", "flush", "send"}, held : Seq(Message)]

Top == stack[Len(stack)]
SetTop(f) == [stack EXCEPT ![Len(stack)] = f]
Pop == SubSeq(stack, 1, Len(stack) - 1)
Running == stack # << >> /\ Top.pc = "run"

\* osrfSendChunkedResult: the parts of response k, then the mark that ends them.
InChunks(r, k) == [i \in 1 .. Chunks + 1 |->
                     Msg(r, IF i <= Chunks THEN "PARTIAL" ELSE "NOCONTENT", k)]

Init ==
    /\ conduct \in Conducts
    /\ stack = << >> /\ outbuf = << >> /\ inbound = << >>
    /\ asked = 0 /\ wire = << >>

\* The caller sends its next request.
Ask ==
    /\ asked < MaxReqs
    /\ asked' = asked + 1 /\ inbound' = Append(inbound, asked + 1)
    /\ UNCHANGED <<stack, outbuf, wire>>

\* A request is read between two requests, or wherever the library waits.
Reading == ~Running
NewFrame(r, atomic) ==
    [req |-> r, atomic |-> atomic, saved |-> FALSE, big |-> FALSE, made |-> 0, completed |-> FALSE,
     pc |-> "run", over |-> FALSE, then |-> "none", held |-> << >>]

\* osrfAppRunMethod calls the method.
Run(atomic) ==
    /\ Reading /\ inbound # << >>
    /\ stack' = Append(stack, NewFrame(Head(inbound), atomic))
    /\ inbound' = Tail(inbound)
    /\ UNCHANGED <<outbuf, asked, wire>>

\* ... or answers that there is no such method: the STATUS is sent by
\* osrfAppSessionSendBatch, which first reads what has come.
NotFound ==
    /\ Reading /\ inbound # << >>
    /\ stack' = Append(stack, [NewFrame(Head(inbound), FALSE) EXCEPT
                                   !.pc = "wait", !.over = TRUE, !.then = "send",
                                   !.held = <<Msg(Head(inbound), "EXCEPTION", 0)>>])
    /\ inbound' = Tail(inbound)
    /\ UNCHANGED <<outbuf, asked, wire>>

-----------------------------------------------------------------------------
(* _osrfAppRespond, called by the method on top.                           *)

May == Running /\ ~Top.completed /\ Top.made < MaxMade
Next1 == Top.made + 1

\* An atomic method's responses are saved.
Save(size) ==
    /\ May /\ Top.atomic
    /\ stack' = SetTop([Top EXCEPT !.saved = TRUE, !.big = (@ \/ size = "big"), !.made = Next1])
    /\ UNCHANGED <<outbuf, inbound, asked, wire>>

\* A large response goes out in chunks, at once.
SendChunked ==
    /\ May /\ ~Top.atomic
    /\ wire' = wire \o InChunks(Top.req, Next1)
    /\ stack' = SetTop([Top EXCEPT !.made = Next1])
    /\ UNCHANGED <<outbuf, inbound, asked>>

\* Mutant: the flush before an overflow is forgotten with what it held.
BundleForgetting ==
    /\ May /\ ~Top.atomic
    /\ outbuf' = IF Len(outbuf) + 1 > MaxBundle THEN <<Msg(Top.req, "RESULT", Next1)>>
                 ELSE Append(outbuf, Msg(Top.req, "RESULT", Next1))
    /\ stack' = SetTop([Top EXCEPT !.made = Next1])
    /\ UNCHANGED <<inbound, asked, wire>>

\* A small one is bundled; if the bundle would overflow, it is flushed first.
Bundle ==
    /\ May /\ ~Top.atomic
    /\ LET m == Msg(Top.req, "RESULT", Next1)
       IN  IF outbuf # << >> /\ Len(outbuf) + 1 > MaxBundle
           THEN /\ stack' = SetTop([Top EXCEPT !.made = Next1, !.pc = "wait", !.then = "append",
                                               !.held = <<m>>])
                /\ UNCHANGED outbuf
           ELSE /\ stack' = SetTop([Top EXCEPT !.made = Next1])
                /\ outbuf' = Append(outbuf, m)
    /\ UNCHANGED <<inbound, asked, wire>>

\* The STATUS that ends a request joins the bundle, which is then flushed.
EndBundle(f) ==
    /\ outbuf' = Append(outbuf, Msg(f.req, "COMPLETE", 0))
    /\ stack' = SetTop([f EXCEPT !.completed = TRUE, !.pc = "wait", !.then = "flush"])

\* osrfAppRespondComplete without data (with data, it is Respond first): for an atomic
\* method it only makes the list.
RespondComplete ==
    /\ Running /\ ~Top.completed
    /\ IF Top.atomic
       THEN /\ stack' = SetTop([Top EXCEPT !.saved = TRUE, !.completed = TRUE])
            /\ UNCHANGED outbuf
       ELSE EndBundle(Top)
    /\ UNCHANGED <<inbound, asked, wire>>

-----------------------------------------------------------------------------
(* The method returns.                                                     *)

\* A negative code: an exception is sent, whatever was saved or bundled.
Fail ==
    /\ "fail" \in conduct /\ Running /\ ~Top.completed
    /\ stack' = SetTop([Top EXCEPT !.over = TRUE, !.pc = "wait", !.then = "send",
                                   !.held = <<Msg(Top.req, "EXCEPTION", 0)>>])
    /\ UNCHANGED <<outbuf, inbound, asked, wire>>

\* _osrfAppPostProcess with saved responses: all in one RESULT, or in chunks.
ReturnSaved ==
    /\ Running /\ Top.saved
    /\ LET done == Msg(Top.req, "COMPLETE", 0)
           f == [Top EXCEPT !.over = TRUE, !.pc = "wait", !.then = "send"]
       IN  IF Top.big
           THEN /\ wire' = wire \o InChunks(Top.req, 1)
                /\ stack' = SetTop([f EXCEPT !.held = <<done>>])
           ELSE /\ stack' = SetTop([f EXCEPT !.held = <<Msg(Top.req, "RESULT", 1), done>>])
                /\ UNCHANGED wire
    /\ UNCHANGED <<outbuf, inbound, asked>>

\* Code 0 says that the method has completed the request itself.
ReturnZero ==
    /\ Running /\ ~Top.saved /\ Top.completed
    /\ stack' = Pop
    /\ UNCHANGED <<outbuf, inbound, asked, wire>>

\* Mutant: the library never completes a request for the method.
ReturnOneSilently ==
    /\ Running /\ ~Top.saved /\ ~Top.completed /\ ~Top.atomic
    /\ stack' = Pop
    /\ UNCHANGED <<outbuf, inbound, asked, wire>>

\* Code 1: the library completes the request.
ReturnOne ==
    /\ Running /\ ~Top.saved /\ ~Top.completed /\ ~Top.atomic
    /\ EndBundle([Top EXCEPT !.over = TRUE])
    /\ UNCHANGED <<inbound, asked, wire>>

\* ... except for an atomic method: osrfAppRespondComplete makes the list too late.
ReturnOneAtomic ==
    /\ "silent" \in conduct /\ Running /\ ~Top.saved /\ Top.atomic
    /\ stack' = Pop
    /\ UNCHANGED <<outbuf, inbound, asked, wire>>

\* Nothing more has come: what the library waited to do is done.
Waited ==
    /\ stack # << >> /\ Top.pc = "wait" /\ inbound = << >>
    /\ CASE Top.then = "append" -> wire' = wire \o outbuf /\ outbuf' = Top.held
         [] Top.then = "flush"  -> wire' = wire \o outbuf /\ outbuf' = << >>
         [] Top.then = "send"   -> wire' = wire \o Top.held /\ UNCHANGED outbuf
    /\ stack' = IF Top.over THEN Pop
                ELSE SetTop([Top EXCEPT !.pc = "run", !.then = "none", !.held = << >>])
    /\ UNCHANGED <<inbound, asked>>

Respond(size) == Save(size) \/ (size = "big" /\ SendChunked) \/ (size = "small" /\ Bundle)

Step ==
    \/ Ask \/ NotFound \/ Waited
    \/ \E atomic \in BOOLEAN : Run(atomic)
    \/ Respond("small") \/ ("big" \in conduct /\ Respond("big"))
    \/ RespondComplete \/ Fail \/ ReturnSaved \/ ReturnZero \/ ReturnOne \/ ReturnOneAtomic

Next == Step /\ UNCHANGED conduct

Spec == Init /\ [][Next]_vars

-----------------------------------------------------------------------------
(* Properties.                                                             *)

\* A bundle never grows beyond its limit, the final STATUS of each request that is
\* being completed apart.
TypeOK ==
    /\ stack \in Seq(Frame) /\ Len(stack) <= asked
    /\ outbuf \in Seq(Message)
    /\ Len(outbuf) <= MaxBundle + Cardinality({i \in DOMAIN stack : stack[i].then = "flush"})
    /\ inbound \in Seq(Reqs) /\ asked \in 0 .. MaxReqs /\ wire \in Seq(Message)

Ending(m) == m.kind \in {"COMPLETE", "EXCEPTION"}
\* The response is there: it is whole, or this is its last part.
Completes(m) == m.kind \in {"RESULT", "NOCONTENT"}

\* What may follow a message of the same request.  A response that is sent in chunks
\* overtakes smaller ones that wait in the bundle, and these may leave after the exception of
\* a method that failed; nothing else is out of its order or behind an end.
Follows(n, m) ==
    /\ Ending(m) => "fail" \in conduct /\ m.kind = "EXCEPTION" /\ n.kind = "RESULT"
    /\ Completes(m) /\ Completes(n) =>
         \/ m.k < n.k
         \/ "big" \in conduct /\ m.k # n.k /\ m.kind = "NOCONTENT" /\ n.kind = "RESULT"

\* The responses of a method leave in the order it made them, each once, and then one final
\* STATUS, although the requests that run meanwhile use the same outbuf, but for what
\* chunks and a failure do.
InOrder ==
    \A i, j \in DOMAIN wire : i < j /\ wire[i].req = wire[j].req => Follows(wire[j], wire[i])

\* None is left out: those made before one that is sent were sent before it, or, when it came
\* in chunks, are at least in the bundle.
NoneLeftOut ==
    LET issued == wire \o outbuf
    IN  \A j \in DOMAIN wire : Completes(wire[j]) =>
            /\ wire[j].k >= 1
            /\ \A k \in 1 .. wire[j].k - 1 : \E i \in DOMAIN issued :
                   /\ issued[i].req = wire[j].req /\ Completes(issued[i]) /\ issued[i].k = k
                   /\ i < j \/ ("big" \in conduct /\ wire[j].kind = "NOCONTENT")

Orderly == InOrder /\ NoneLeftOut

\* What would be so of every method: one final STATUS with nothing after it ...
EndIsLast ==
    \A i, j \in DOMAIN wire : i < j /\ wire[i].req = wire[j].req => ~Ending(wire[i])

\* ... and all responses in their order.
ResponsesInOrder ==
    \A j \in DOMAIN wire : Completes(wire[j]) =>
        LET earlier == {i \in 1 .. j - 1 : wire[i].req = wire[j].req /\ Completes(wire[i])}
        IN  wire[j].k >= 1 /\ {wire[i].k : i \in earlier} = 1 .. wire[j].k - 1

\* The parts of a response are together among those of its request, so that the caller
\* who appends them to one buffer gets that response.
ChunksTogether ==
    \A i, j \in DOMAIN wire :
        /\ i < j /\ wire[i].kind = "PARTIAL" /\ wire[j].req = wire[i].req
        /\ \A l \in i + 1 .. j - 1 : wire[l].req # wire[i].req
        => wire[j].kind \in {"PARTIAL", "NOCONTENT"} /\ wire[j].k = wire[i].k

\* When nothing is in progress every request that came has its final STATUS, and the
\* caller need not guess.
EveryRequestEnds ==
    stack = << >> /\ inbound = << >> =>
        \A r \in 1 .. asked : \E i \in DOMAIN wire : wire[i].req = r /\ Ending(wire[i])

=============================================================================
