------------------------------ MODULE RequestRecv ------------------------------
(***************************************************************************)
(* _osrf_app_request_recv: a client waits for the next result of one of    *)
(* its requests, by the second, while messages come for this request and   *)
(* for others.                                                             *)
(***************************************************************************)
EXTENDS Integers

CONSTANTS
    Waits,          \* timeouts that a caller gives
    MaxMade,        \* bound: results of the request
    MaxContinues,   \* bound: STATUS messages CONTINUE of the request
    MaxLate         \* bound: seconds by which a wait outlasts what it was given

WaitsAssumption ==
    Waits \subseteq Nat /\ MaxMade \in Nat /\ MaxContinues \in Nat /\ MaxLate \in Nat

VARIABLES
    turn,           \* where in the loop the call is: in the first or the second wait; or none is made
    wait,           \* timeout
    elapsed,        \* time(NULL) - start
    remaining,
    reset_timeout,
    results,        \* how many messages req->result has
    done,           \* req->complete
    made,           \* history: results that came
    taken,          \* history: results that were returned
    continues,      \* history: CONTINUEs that came
    granted,        \* history: those that the last call could have noticed
    said            \* history: what the last call returned

vars == <<turn, wait, elapsed, remaining, reset_timeout, results, done, made, taken,
          continues, granted, said>>

Init ==
    /\ turn = "none" /\ wait = 0 /\ elapsed = 0 /\ remaining = 0 /\ reset_timeout = FALSE
    /\ results = 0 /\ done = FALSE /\ made = 0 /\ taken = 0 /\ continues = 0 /\ granted = 0
    /\ said = "nothing"

Return(what) == turn' = "none" /\ said' = what

\* A result that is there is returned at once; else the waiting begins.
Call(t) ==
    /\ turn = "none"
    /\ wait' = t /\ elapsed' = 0 /\ remaining' = t
    /\ granted' = IF reset_timeout THEN 1 ELSE 0
    /\ \/ results > 0 /\ results' = results - 1 /\ taken' = taken + 1 /\ Return("result")
       \/ results = 0 /\ turn' = "first" /\ said' = "nothing" /\ UNCHANGED <<results, taken>>
    /\ UNCHANGED <<reset_timeout, done, made, continues>>

\* What osrf_app_session_queue_wait has processed when it returns: some results, maybe a
\* CONTINUE, maybe the COMPLETE that ends them.  Only something that came, for this request
\* or another, makes it return early.  It may be late: the clock moves while the loop goes
\* round, and only the first message is waited for, so that "a sufficiently large backlog of
\* input messages could keep you working past the nominal expiration of the timeout".
Come(n, continue, complete, other, d, longest) ==
    /\ n \in 0 .. MaxMade - made /\ (done => n = 0 /\ ~continue /\ ~complete)
    /\ continue => continues < MaxContinues
    /\ d \in 0 .. longest + MaxLate /\ (n = 0 /\ ~continue /\ ~complete /\ ~other => d >= longest)
    /\ made' = made + n
    /\ continues' = continues + (IF continue THEN 1 ELSE 0)
    /\ granted' = granted + (IF continue THEN 1 ELSE 0)
    /\ elapsed' = elapsed + d
    /\ done' = (done \/ complete)

\* Mutant: a request that is complete has nothing to return.
AnswerUnlessDone(n) ==
    \/ (done' \/ results + n = 0) /\ results' = results + n /\ taken' = taken
    \/ ~done' /\ results + n > 0 /\ results' = results + n - 1 /\ taken' = taken + 1

\* The first message that is there is dequeued.
Answer(n) ==
    \/ results + n = 0 /\ results' = 0 /\ taken' = taken
    \/ results + n > 0 /\ results' = results + n - 1 /\ taken' = taken + 1

\* Mutant: what was left is not less for the time that went by.
LeftUndiminished(r, e) == r

\* The time since the start is taken off in every turn.
TimeLeft(r, e) == r - e

\* What follows each wait: an error of the transport, a result, or the end of them.
First ==
    /\ turn = "first"
    /\ \E n \in 0 .. MaxMade, continue, complete, other, error \in BOOLEAN, d \in 0 .. MaxLate :
           /\ Come(n, continue, complete, other, d, 0)
           /\ reset_timeout' = (reset_timeout \/ continue)
           /\ \/ error /\ Return("error") /\ results' = results + n /\ taken' = taken
              \/ /\ ~error /\ Answer(n)
                 /\ \/ taken' > taken /\ Return("result")
                    \/ taken' = taken /\ done' /\ Return("complete")
                    \/ taken' = taken /\ ~done' /\ turn' = "second" /\ said' = said
    /\ UNCHANGED <<wait, remaining>>

Second ==
    /\ turn = "second"
    /\ \E n \in 0 .. MaxMade, continue, complete, other, error \in BOOLEAN,
          d \in 0 .. remaining + MaxLate :
           /\ Come(n, continue, complete, other, d, remaining)
           /\ \/ /\ error /\ Return("error") /\ results' = results + n
                 /\ reset_timeout' = (reset_timeout \/ continue) /\ UNCHANGED <<taken, remaining>>
              \/ /\ ~error /\ Answer(n) /\ (taken' > taken \/ done')
                 /\ Return(IF taken' > taken THEN "result" ELSE "complete")
                 /\ reset_timeout' = (reset_timeout \/ continue) /\ UNCHANGED remaining
              \/ /\ ~error /\ Answer(n) /\ taken' = taken /\ ~done'
                 /\ remaining' = IF reset_timeout \/ continue THEN wait
                                 ELSE TimeLeft(remaining, elapsed')
                 /\ reset_timeout' = FALSE
                 /\ IF remaining' >= 0 THEN turn' = "first" /\ said' = said ELSE Return("timeout")
    /\ UNCHANGED wait

Next == First \/ Second \/ \E t \in Waits : Call(t)

Spec == Init /\ [][Next]_vars

-----------------------------------------------------------------------------
(* Properties.                                                             *)

\* Every variable has its type.
TypeOK ==
    /\ turn \in {"none", "first", "second"} /\ wait \in Nat /\ elapsed \in Nat /\ remaining \in Int
    /\ turn # "none" => remaining >= 0
    /\ {reset_timeout, done} \subseteq BOOLEAN
    /\ results \in 0 .. MaxMade /\ made \in 0 .. MaxMade /\ taken \in 0 .. MaxMade
    /\ continues \in 0 .. MaxContinues /\ granted \in 0 .. MaxContinues + 1
    /\ said \in {"nothing", "result", "complete", "timeout", "error"}

\* A timeout, and the time by which the two waits of one turn of the loop may be late.
Reprieve == wait + 2 * MaxLate

\* A call lasts no longer than its timeout, and once more for every CONTINUE, each time with
\* no more than one turn of the loop that is late: however often something comes for other
\* requests, and however late each wait is, the call does not wait longer for it.
InTime == elapsed <= (granted + 1) * Reprieve

\* A call gives up only after the clock has moved: with a timeout of 0 it goes round until
\* the next second.
NotAtOnce == said = "timeout" => elapsed > 0

\* No result is dropped, and none is there when the caller hears that there are no more.
NoneMissed ==
    /\ made = taken + results
    /\ said \in {"complete", "timeout"} => results = 0

Awaited == InTime /\ NotAtOnce /\ NoneMissed

\* "Otherwise wait up to timeout seconds until you either get an input message for the
\* specified request, run out of time, or encounter an error".
TimeIsUsed == said = "timeout" => elapsed >= wait

\* "We restart the timer from the beginning -- but only once".
OneReprieve == elapsed <= 2 * Reprieve
=============================================================================
