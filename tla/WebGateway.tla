------------------------------ MODULE WebGateway ------------------------------
(***************************************************************************)
(* A child process of the web server with the HTTP translator              *)
(* (osrf_http_translator.c) and the JSON gateway (osrf_json_gateway.c).    *)
(*                                                                         *)
(* It serves one browser at a time and has one Jabber address for all of   *)
(* them.  The translator passes OpenSRF messages on as they are, and takes *)
(* whatever comes while it waits for the answer of the current request; it *)
(* keeps in the cache which worker a browser is connected to.  The gateway *)
(* makes a method call of each request, in a session of its own, and gets  *)
(* only what belongs to that session.                                      *)
(***************************************************************************)
EXTENDS Integers, Sequences, FiniteSets, SequencesExt

CONSTANTS
    Browsers,     \* addresses of browsers
    Workers,      \* addresses of workers of the service
    Threads,      \* session threads that browsers name
    Batches,      \* what a browser sends at once: sequences of message types
    Multipart,    \* the batches whose answer may be wanted in parts, as it comes
    Service,      \* the service, which the router gives to some worker
    MaxHttp       \* bound: requests

\* What a browser sends is a list of messages.
GatewayAssumption == Batches \subseteq Seq({"CONNECT", "REQUEST", "DISCONNECT"})

VARIABLES
    req,      \* the requests, in the order in which they came
    at,       \* what the process is doing: nothing, or waiting for an answer
    complete, \* trans->complete
    coming,   \* answers to each request that are on their way
    queue,    \* answers that have arrived and nobody has taken
    cache,    \* the cached session of each thread
    kept,     \* trans->messages: what is not written yet, of an answer that is not in parts
    got,      \* what each request's browser was given
    ended,    \* how each request ended
    late,     \* history: the requests that had answers on their way when this one was sent
    worker,   \* history: the worker that has each request
    up        \* the process is connected to Jabber

vars == <<req, at, complete, coming, queue, cache, kept, got, ended, late, worker, up>>

Nobody == "nobody"
NoSession == [ip |-> Nobody, jid |-> Nobody]

Init ==
    /\ req = << >> /\ at = "idle" /\ complete = FALSE /\ coming = << >> /\ queue = << >>
    /\ cache = [t \in Threads |-> NoSession] /\ kept = << >>
    /\ got = << >> /\ ended = << >> /\ late = << >> /\ worker = << >> /\ up = TRUE

Now == Len(req)

-----------------------------------------------------------------------------
(* What the service answers.  A packet is known by its last message.       *)

Replies(type) ==
    CASE type = "CONNECT" -> {<<"ok">>, <<"failed">>}
      [] type = "REQUEST" -> {<<"complete">>, <<"continue", "result", "complete">>, <<"result">>,
                              <<"failed">>, << >>}
      [] OTHER            -> {<< >>}

\* The packets that a batch is answered with; none when the addressee is gone, but
\* an error from Jabber; a worker whose session has ended says so.
Answers(batch, to) ==
    {FlattenSeq(a) : a \in {a \in [DOMAIN batch -> UNION {Replies(batch[i]) : i \in DOMAIN batch}] :
                              \A i \in DOMAIN batch : a[i] \in Replies(batch[i])}}
      \cup {<<"error">>} \cup (IF to \in Workers THEN {<<"timeout">>} ELSE {})

\* What the requests before this one are still to be answered.
Outstanding == {n \in DOMAIN coming : coming[n] # << >>}

\* The message is sent: to a worker if there is one at the other end of the connection.
Sent(r) ==
    \E w \in (IF r.to \in Workers THEN {r.to} ELSE Workers) :
      /\ worker' = Append(worker, w)
      /\ IF up
         THEN \E a \in Answers(r.batch, r.to) :
                coming' = Append(coming, [i \in DOMAIN a |-> [of |-> Now + 1, last |-> a[i], from |-> w]])
         ELSE coming' = Append(coming, << >>)

\* An answer arrives.
Arrive(n) ==
    /\ up /\ coming[n] # << >>
    /\ queue' = Append(queue, Head(coming[n]))
    /\ coming' = [coming EXCEPT ![n] = Tail(@)]
    /\ UNCHANGED <<req, at, complete, cache, kept, got, ended, late, worker, up>>

\* The Jabber server closes the connection.
Disconnected ==
    /\ up /\ up' = FALSE
    /\ coming' = [n \in DOMAIN coming |-> << >>]
    /\ UNCHANGED <<req, at, complete, queue, cache, kept, got, ended, late, worker>>

-----------------------------------------------------------------------------
(* The translator: osrfHttpTranslatorProcess.                              *)

\* osrfHttpTranslatorSetTo: a service is addressed, or the worker that is cached for
\* the thread and the browser.
MayBeSentTo(r) ==
    r.to = Service \/ cache[r.thread] = [ip |-> r.browser, jid |-> r.to]

Has(r, type) == \E i \in DOMAIN r.batch : r.batch[i] = type

Only(r, type) == r.batch = <<type>>

Forget(t) == [cache EXCEPT ![t] = NoSession]

\* A request that is turned down.
Refuse(r) ==
    /\ at = "idle" /\ Now < MaxHttp /\ r.via = "translator" /\ ~MayBeSentTo(r)
    /\ req' = Append(req, r) /\ ended' = Append(ended, "bad request")
    /\ coming' = Append(coming, << >>) /\ got' = Append(got, << >>)
    /\ late' = Append(late, {}) /\ worker' = Append(worker, Nobody)
    /\ UNCHANGED <<at, complete, queue, cache, kept, up>>

\* Mutant: what has arrived is left in the queue.
NotDrained == queue

\* "Discard any old status messages in the recv queue."
Drained == << >>

\* The batch is sent on.  A lone DISCONNECT has no answer.
Translate(r) ==
    /\ at = "idle" /\ Now < MaxHttp /\ r.via = "translator" /\ MayBeSentTo(r)
    /\ req' = Append(req, r) /\ got' = Append(got, << >>)
    /\ queue' = Drained /\ Sent(r) /\ late' = Append(late, Outstanding)
    /\ IF Only(r, "DISCONNECT")
       THEN /\ cache' = Forget(r.thread) /\ ended' = Append(ended, "ok") /\ UNCHANGED at
       ELSE /\ ended' = Append(ended, "open") /\ at' = "translator" /\ UNCHANGED cache
    /\ complete' = FALSE /\ UNCHANGED <<kept, up>>

Ends(how) == ended' = [ended EXCEPT ![Now] = how] /\ at' = "idle"

\* Mutant: a worker that goes on working has finished.
IsLastStatus(p) == p.last \in {"ok", "complete", "failed", "continue"}

\* osrfHttpTranslatorCheckStatus: a status other than CONTINUE is the end.
IsLast(p) == p.last \in {"ok", "complete", "failed"}

\* Mutant: a session is cached for every request.
CachedAlways(r, p) == [cache EXCEPT ![r.thread] = [ip |-> r.browser, jid |-> p.from]]

\* osrfHttpTranslatorCacheSession, with the first packet when the batch connects.
Cached(r, p) ==
    IF got[Now] = << >> /\ kept = << >> /\ Has(r, "CONNECT")
    THEN [cache EXCEPT ![r.thread] = [ip |-> r.browser, jid |-> p.from]] ELSE cache

\* The browser gets the packet: in a multipart answer at once; otherwise it is kept, and
\* with the last one the browser gets all that were kept.  Those of a lone CONNECT are
\* written with every packet, which ends only the multipart answer: the loop goes on in the
\* other, and what was written stays in the list.
Pass(p) ==
    LET r    == req[Now]
        over == IsLast(p) \/ (r.multipart /\ Only(r, "CONNECT"))
        new  == IF r.multipart THEN <<p>>
                ELSE IF IsLast(p) \/ Only(r, "CONNECT") THEN Append(kept, p) ELSE << >>
        session == Cached(r, p)
    IN  /\ got' = [got EXCEPT ![Now] = @ \o new] /\ complete' = IsLast(p)
        /\ kept' = IF over \/ r.multipart THEN << >> ELSE Append(kept, p)
        /\ cache' = IF over /\ Has(r, "DISCONNECT") THEN [session EXCEPT ![r.thread] = NoSession] ELSE session
        /\ IF over THEN Ends("ok") ELSE UNCHANGED <<ended, at>>

\* A packet is taken from the queue.
TranslatorReceive ==
    /\ at = "translator" /\ queue # << >> /\ queue' = Tail(queue)
    /\ LET p == Head(queue)
           t == req[Now].thread
       IN  CASE p.last = "error" ->
                  cache' = Forget(t) /\ Ends("not found") /\ kept' = << >> /\ UNCHANGED <<got, complete>>
             [] p.last = "timeout" ->
                  cache' = Forget(t) /\ UNCHANGED <<kept, got, complete, ended, at>>
             [] OTHER -> Pass(p)
    /\ UNCHANGED <<req, coming, late, worker, up>>

\* Nothing comes in time, or the connection is gone: handle->error is never set.
\* What was kept for an answer that is not multipart is not written.
TranslatorTimeout ==
    /\ at = "translator" /\ queue = << >>
    /\ kept' = << >> /\ Ends("timeout")
    /\ UNCHANGED <<req, complete, coming, queue, cache, got, late, worker, up>>

-----------------------------------------------------------------------------
(* The gateway: osrf_json_gateway_method_handler.                          *)

\* The messages that wait are handled before the call is sent: none is for its session.
\* If it cannot be sent the process exits, and the web server starts another.
Call(r) ==
    /\ at = "idle" /\ Now < MaxHttp /\ r.via = "gateway" /\ queue' = << >>
    /\ req' = Append(req, r) /\ got' = Append(got, << >>)
    /\ Sent(r) /\ late' = Append(late, Outstanding) /\ complete' = FALSE
    /\ IF up THEN ended' = Append(ended, "open") /\ at' = "gateway"
       ELSE ended' = Append(ended, "exit") /\ UNCHANGED at
    /\ up' = TRUE /\ UNCHANGED <<cache, kept>>

\* What is not of the session is dropped.  A result is written; an error of the
\* service ends the request with its status, one of Jabber as if all was well.
GatewayReceive ==
    /\ at = "gateway" /\ queue # << >> /\ queue' = Tail(queue)
    /\ LET p == Head(queue)
       IN  IF p.of # Now \/ p.last = "continue" THEN UNCHANGED <<got, ended, at>>
           ELSE /\ got' = [got EXCEPT ![Now] = Append(@, p)]
                /\ CASE p.last \in {"complete", "error"} -> Ends("ok")
                     [] p.last = "failed"                -> Ends("failed")
                     [] OTHER                            -> UNCHANGED <<ended, at>>
    /\ UNCHANGED <<req, complete, coming, cache, kept, late, worker, up>>

\* When no more comes, the answer ends with the status of the last result, or 200.
GatewayTimeout ==
    /\ at = "gateway" /\ queue = << >> /\ Ends("ok")
    /\ UNCHANGED <<req, complete, coming, queue, cache, kept, got, late, worker, up>>

-----------------------------------------------------------------------------
Requests ==
    {r \in [via : {"translator"}, browser : Browsers, thread : Threads, to : Workers \cup {Service},
            batch : Batches, multipart : BOOLEAN] : r.multipart => r.batch \in Multipart}
    \cup [via : {"gateway"}, browser : Browsers, thread : {Nobody}, to : {Service},
          batch : {<<"REQUEST">>}, multipart : {FALSE}]

Handle ==
    \/ TranslatorReceive \/ TranslatorTimeout \/ GatewayReceive \/ GatewayTimeout

Next ==
    \/ \E r \in Requests : Refuse(r) \/ Translate(r) \/ Call(r)
    \/ Handle
    \/ \E n \in DOMAIN coming : Arrive(n)
    \/ Disconnected

Spec == Init /\ [][Next]_vars

-----------------------------------------------------------------------------
Alone(n) == late[n] = {}

\* "Discard any old status messages" (osrfHttpTranslatorProcess): a browser is given
\* what belongs to its own request, or to one whose answer was still on its way.
OwnAnswers ==
    \A n \in DOMAIN got : \A i \in DOMAIN got[n] : got[n][i].of \in {n} \cup late[n]

\* The same without the exception.
OwnAnswersAlways == \A n \in DOMAIN got : \A i \in DOMAIN got[n] : got[n][i].of = n

\* "Check for explicit status=COMPLETE" (osrfHttpTranslatorCheckStatus): a request that
\* ends well has all of its answer, unless it came behind a CONNECT or others were late.
WholeAnswer ==
    \A n \in DOMAIN got :
      ended[n] = "ok" /\ Alone(n) /\ req[n].via = "translator" /\ ~Has(req[n], "CONNECT") =>
        Only(req[n], "DISCONNECT") \/ (coming[n] = << >> /\ got[n] # << >> /\ IsLast(Last(got[n])))

\* The same with a CONNECT, "if there is a connect message in this batch": its own
\* answer is taken for the end.
WholeBatch ==
    \A n \in DOMAIN got :
      ended[n] = "ok" /\ Alone(n) /\ req[n].via = "translator" => coming[n] = << >>

\* What was written is not written again: not so of a lone CONNECT.
WrittenOnce ==
    \A n \in DOMAIN got : \A i, j \in DOMAIN got[n] : i < j => got[n][i] # got[n][j]

\* The gateway's status is 200 only with the whole answer.
GatewayWhole ==
    \A n \in DOMAIN got :
      ended[n] = "ok" /\ req[n].via = "gateway" => got[n] # << >> /\ Last(got[n]).last = "complete"

\* "Cache the transaction with the JID of the backend process we are talking to"
\* (osrfHttpTranslatorCacheSession): a cached session is one that the browser asked
\* for, with the worker that has it, unless an answer came late.
CachedIsConnected ==
    \A t \in Threads : cache[t] # NoSession =>
      \E n \in DOMAIN req : /\ Has(req[n], "CONNECT") /\ req[n].thread = t
                            /\ req[n].browser = cache[t].ip
                            /\ worker[n] = cache[t].jid \/ ~Alone(n)

\* "Transport error" (osrfHttpTranslatorProcess): a request that waits when the connection
\* is gone does not end as one whose time is up.
DownNoticed ==
    [][~up /\ at = "translator" /\ at' = "idle" => ended'[Now] # "timeout"]_vars
=============================================================================
