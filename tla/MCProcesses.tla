----------------------------- MODULE MCProcesses -----------------------------
(***************************************************************************)
(* Small instances for TLC of what a process does around its sessions, one *)
(* beside the other: its connection to Jabber, the command that starts and *)
(* stops the services, and a child of the web server with its two          *)
(* translators.  A behaviour chooses one of them.                          *)
(***************************************************************************)
EXTENDS Transport, TLC

CONSTANTS
    inC, inPerl, missing,                                                          \* services
    Pids, Commands, Services, CServices, Implemented, Apps, Careful, MaxCommands,  \* ServiceControl
    Browsers, Workers, Threads, Batches, Multipart, Service, MaxHttp               \* WebGateway

VARIABLES
    unit,                                     \* which one it is
    cmd, proc, pidfile, cmds, strangers,      \* ServiceControl
    req, at, complete, coming, queue, cache,  \* WebGateway
    kept, got, ended, late, worker, up

serviceVars == <<cmd, proc, pidfile, cmds, strangers>>
webVars     == <<req, at, complete, coming, queue, cache, kept, got, ended, late, worker, up>>
allVars     == <<unit, vars, serviceVars, webVars>>

-----------------------------------------------------------------------------
\* The timeouts of client_recv: none, and one that two waits can share.
SomeTimeouts == {-1, 2}

\* Three services, of which one is not in C and one has no implementation.
SomeApps == <<inC, inPerl, missing>>

\* What a browser may send at once.
SomeBatches   == {<<"CONNECT">>, <<"REQUEST">>, <<"DISCONNECT">>, <<"CONNECT", "REQUEST">>,
                  <<"REQUEST", "DISCONNECT">>}
SomeMultipart == {<<"CONNECT">>, <<"REQUEST", "DISCONNECT">>}

Interchangeable == Permutations(Browsers) \cup Permutations(Workers)

-----------------------------------------------------------------------------
Control == INSTANCE ServiceControl WITH others <- strangers

Web == INSTANCE WebGateway

ASSUME ProcessesAssumption == Control!ControlAssumption /\ Web!GatewayAssumption

ProcessesInit ==
    /\ unit \in {"transport", "control", "web"}
    /\ Init /\ Control!Init /\ Web!Init

TransportStep == unit = "transport" /\ Next /\ UNCHANGED <<unit, serviceVars, webVars>>
ControlStep   == unit = "control" /\ Control!Next /\ UNCHANGED <<unit, vars, webVars>>
WebStep       == unit = "web" /\ Web!Next /\ UNCHANGED <<unit, vars, serviceVars>>

ProcessesNext == TransportStep \/ ControlStep \/ WebStep

ProcessesSpec == ProcessesInit /\ [][ProcessesNext]_allVars

-----------------------------------------------------------------------------
(* Properties of the modules, for the one that moves.                      *)

\* While services are started and stopped with care, every listener that runs is the one
\* its pid file names (osrf_prefork_run, daemonize_write_pid).
ListenerNamed == unit = "control" => Control!ListenerNamed

\* "If no value is specified, all C-based services are affected": a stop with care that
\* went through the list leaves no listener of its services (osrf_system_service_ctrl).
StopStops == unit = "control" => Control!StopStops

\* "Discard any old status messages": a browser gets what belongs to its own request, or
\* to one whose answer was still on its way (osrfHttpTranslatorProcess).
OwnAnswers == unit = "web" => Web!OwnAnswers

\* "Check for explicit status=COMPLETE": a request that ends well has all of its answer,
\* unless it came behind a CONNECT or others were late (osrfHttpTranslatorCheckStatus).
WholeAnswer == unit = "web" => Web!WholeAnswer

\* "Cache the transaction with the JID of the backend process we are talking to": a cached
\* session is with the worker that has it, unless an answer came late.
CachedIsConnected == unit = "web" => Web!CachedIsConnected
=============================================================================
