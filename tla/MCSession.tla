------------------------------ MODULE MCSession ------------------------------
(***************************************************************************)
(* Small instances of the two ends of a session for TLC, one beside the    *)
(* other: the client's session with a service (AppSession), a worker that  *)
(* answers its requests (MethodResponse), and a client that waits for the  *)
(* answer (RequestRecv).  A behaviour chooses one.                         *)
(***************************************************************************)
EXTENDS AppSession, TLC

CONSTANTS
    d1, d2,                                         \* workers
    OneEnd,                                         \* the ends that are checked
    MaxCalls, MaxMade, MaxBundle, Chunks, Conducts, \* MethodResponse; MaxMade of RequestRecv, too
    Waits, MaxContinues, MaxLate                    \* RequestRecv

VARIABLES
    unit,                                           \* which one it is
    conduct, frames, outbuf, inbound, asked, wire,  \* MethodResponse
    turn, wait, elapsed, remaining, reset_timeout,  \* RequestRecv
    pending, done, made, taken, continues, granted, said

workerVars == <<conduct, frames, outbuf, inbound, asked, wire>>
waitVars == <<turn, wait, elapsed, remaining, reset_timeout, pending, done, made, taken,
              continues, granted, said>>
allVars == <<unit, vars, workerVars, waitVars>>

-----------------------------------------------------------------------------
TwoDrones == {d1, d2}
Alike == Permutations(TwoDrones)

M(kind, k) == [kind |-> kind, k |-> k]

\* What a method sends: one result; or results in parts, or a result and an exception.
Simple == {<<M("RESULT", 1), M("COMPLETE", 0)>>}
OrException == {<<M("PARTIAL", 1), M("NOCONTENT", 1), M("PARTIAL", 2), M("NOCONTENT", 2),
                  M("COMPLETE", 0)>>,
                <<M("RESULT", 1), M("EXCEPTION", 2)>>}

OneAtMost == {{"die"}, {"expire"}}
Expiring == {{"expire"}}
Overlapping == {{"overlap"}}

AnyEnd == {"client", "worker", "wait"}

\* Methods that keep to their interface, methods that also fail and respond more than a
\* chunk, and methods that return 1 without a response.
SomeConducts == {{}, {"big", "fail"}, {"silent"}}

-----------------------------------------------------------------------------
Worker == INSTANCE MethodResponse WITH stack <- frames, MaxReqs <- MaxCalls

Wait == INSTANCE RequestRecv WITH results <- pending

ASSUME SessionAssumption == Worker!ConstantsOK /\ Wait!WaitsAssumption

-----------------------------------------------------------------------------
SessionInit ==
    /\ unit \in OneEnd
    /\ Init /\ Worker!Init /\ Wait!Init
    /\ unit # "client" => faults = CHOOSE f \in Faults : TRUE
    /\ unit # "worker" => conduct = {}

ClientStep == unit = "client" /\ Next /\ UNCHANGED <<unit, workerVars, waitVars>>
WorkerStep == unit = "worker" /\ Worker!Next /\ UNCHANGED <<unit, vars, waitVars>>
WaitStep   == unit = "wait" /\ Wait!Next /\ UNCHANGED <<unit, vars, workerVars>>

SessionNext == ClientStep \/ WorkerStep \/ WaitStep

SessionSpec == SessionInit /\ [][SessionNext]_allVars

-----------------------------------------------------------------------------
(* Properties of the modules, for the one that moves.                      *)

\* Responses of a worker are in order, with the pieces of one together.
Orderly == unit = "worker" => Worker!TypeOK /\ Worker!Orderly /\ Worker!ChunksTogether

\* When nothing is in progress, every request that came to a worker has its final STATUS,
\* unless an atomic method may return 1 without a response (osrfAppRunMethod).
EveryRequestEnds == unit = "worker" /\ "silent" \notin conduct => Worker!EveryRequestEnds

\* A call for a result lasts no longer than its timeout and one late turn of the loop, and
\* once more for every CONTINUE; it gives up only after the clock has moved, and no result is
\* missed (_osrf_app_request_recv).
Awaited == unit = "wait" => Wait!TypeOK /\ Wait!Awaited

-----------------------------------------------------------------------------
(* What the documentation says and the code does not do.                   *)

\* "Otherwise wait up to timeout seconds until you either get an input message for the
\* specified request, run out of time, or encounter an error".
TimeIsUsed == unit = "wait" => Wait!TimeIsUsed

\* "We restart the timer from the beginning -- but only once".
OneReprieve == unit = "wait" => Wait!OneReprieve
=============================================================================
