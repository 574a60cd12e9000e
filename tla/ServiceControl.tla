---------------------------- MODULE ServiceControl ----------------------------
(***************************************************************************)
(* The command that starts and stops the services written in C             *)
(* (osrf_system.c, osrf_system_service_ctrl).                              *)
(*                                                                         *)
(* It asks the settings server for the services of the host.  For each one *)
(* to be started it forks a process, which detaches itself with a second   *)
(* fork, writes its process id to the service's pid file and becomes the   *)
(* listener; the command does not wait for that.  A service is stopped by  *)
(* sending TERM to whatever process has the id in the pid file, and        *)
(* removing the file.  The system gives process ids to new processes when  *)
(* the old ones have ended.                                                *)
(***************************************************************************)
EXTENDS Integers, Sequences, FiniteSets

CONSTANTS
    Pids,         \* process ids
    Commands,     \* commands that may run at the same time
    Services,     \* the services of the host
    CServices,    \* those whose language is C
    Implemented,  \* those with an implementation
    Apps,         \* the list of services as the settings server has it
    Careful,      \* whether one command runs at a time, no service is started twice, and
                  \* nothing is stopped while it is starting
    MaxCommands,  \* bound: commands
    MaxOthers     \* bound: other processes

\* The settings server lists every service of the host once; 0 is the id of no process.
ControlAssumption ==
    /\ 0 \notin Pids
    /\ Apps \in Seq(Services) /\ \A i, j \in DOMAIN Apps : Apps[i] = Apps[j] => i = j
    /\ \A s \in Services : \E i \in DOMAIN Apps : Apps[i] = s

VARIABLES
    cmd,      \* the commands: where each is, what it does, and with which services
    proc,     \* the processes
    pidfile,  \* pid files: which file it is (ino), and the id in it, or 0
    cmds, others  \* counted for the bounds

vars == <<cmd, proc, pidfile, cmds, others>>

NoFile == [ino |-> 0, pid |-> 0]
NoCmd  == [pc |-> "none", action |-> "none", only |-> {}, tries |-> 0, client |-> FALSE,
           next |-> 1, pid |-> 0]
Free   == [is |-> "free", service |-> "none", ino |-> 0]

Init ==
    /\ cmd = [c \in Commands |-> NoCmd] /\ proc = [p \in Pids |-> Free]
    /\ pidfile = [s \in Services |-> NoFile] /\ cmds = 0 /\ others = 0

Starting == {"launched", "detached", "checked", "opened", "written"}

Of(s, states) == {p \in Pids : proc[p].service = s /\ proc[p].is \in states}

FreePids == {p \in Pids : proc[p].is = "free"}

Go(c, pc) == cmd' = [cmd EXCEPT ![c].pc = pc]

-----------------------------------------------------------------------------
(* osrf_system_service_ctrl                                                *)

\* main: the command is given; without a service it is for all of them.
Command(c, action, only) ==
    /\ cmd[c].pc \in {"none", "done"} /\ cmds < MaxCommands /\ cmds' = cmds + 1
    /\ Careful =>
         /\ \A d \in Commands : cmd[d].pc \in {"none", "done"}
         /\ \A s \in Services : Of(s, Starting \cup {"stopping"}) = {}
         /\ action = "start" => \A s \in only : Of(s, {"running"}) = {}
    /\ cmd' = [cmd EXCEPT ![c] = [NoCmd EXCEPT !.pc = "bootstrap", !.action = action, !.only = only]]
    /\ UNCHANGED <<proc, pidfile, others>>

\* osrfSystemBootstrapClientResc: 1, 0, or -1, which the caller takes for success.
Bootstrap(c) ==
    /\ cmd[c].pc = "bootstrap"
    /\ \E rc \in {1, 0, -1} :
         cmd' = [cmd EXCEPT ![c].pc = IF rc = 0 THEN "done" ELSE "settings",
                            ![c].client = (rc = 1)]
    /\ UNCHANGED <<proc, pidfile, cmds, others>>

\* osrf_settings_retrieve, three times; then the command gives up.
SettingsFail(c) ==
    /\ cmd[c].pc = "settings"
    /\ cmd' = [cmd EXCEPT ![c].tries = @ + 1,
                          ![c].pc = IF cmd[c].tries < 2 THEN "settings" ELSE "done"]
    /\ UNCHANGED <<proc, pidfile, cmds, others>>

\* There are services, or there are none, which the code notes but goes on with NULL.
Settings(c) ==
    /\ cmd[c].pc = "settings" /\ cmd[c].client
    /\ \/ Go(c, "loop")
       \/ Go(c, "done")
    /\ UNCHANGED <<proc, pidfile, cmds, others>>

App(c) == Apps[cmd[c].next]

InList(c) == cmd[c].pc = "loop" /\ cmd[c].next <= Len(Apps)

\* Mutant: a stop for all services stops none.
ChosenSingly(c) ==
    App(c) \in CServices \cap cmd[c].only /\ (cmd[c].action = "start" \/ cmd[c].only = {App(c)})

\* A service in C that the command is for.
Chosen(c) == App(c) \in CServices /\ App(c) \in cmd[c].only

\* The next service, if this one is not for us.
Skip(c) ==
    /\ InList(c) /\ ~Chosen(c)
    /\ cmd' = [cmd EXCEPT ![c].next = @ + 1]
    /\ UNCHANGED <<proc, pidfile, cmds, others>>

Done(c) ==
    /\ cmd[c].pc = "loop" /\ cmd[c].next > Len(Apps) /\ Go(c, "done")
    /\ UNCHANGED <<proc, pidfile, cmds, others>>

\* The process of the service is forked; the command goes on, if fork fails as well.
Fork(c) ==
    /\ InList(c) /\ Chosen(c) /\ cmd[c].action = "start"
    /\ IF FreePids = {} THEN UNCHANGED proc
       ELSE \E p \in FreePids :
              proc' = [proc EXCEPT ![p] = [is |-> "launched", service |-> App(c), ino |-> 0]]
    /\ cmd' = [cmd EXCEPT ![c].next = @ + 1]
    /\ UNCHANGED <<pidfile, cmds, others>>

\* stop_service: the pid file is read.  Without one nothing else is done.
ReadPid(c) ==
    /\ InList(c) /\ Chosen(c) /\ cmd[c].action = "stop"
    /\ IF pidfile[App(c)] = NoFile
       THEN cmd' = [cmd EXCEPT ![c].next = @ + 1]
       ELSE cmd' = [cmd EXCEPT ![c].pc = "kill", ![c].pid = pidfile[App(c)].pid]
    /\ UNCHANGED <<proc, pidfile, cmds, others>>

\* TERM ends a process that has no handler for it yet, and others in time.
Signalled(p) == IF proc[p].is = "running" THEN [proc[p] EXCEPT !.is = "stopping"] ELSE Free

\* kill(pid, SIGTERM), if there is a number in the file.
Killed(c) ==
    [p \in Pids |-> IF p = cmd[c].pid /\ proc[p].is # "free" THEN Signalled(p) ELSE proc[p]]

Kill(c) ==
    /\ cmd[c].pc = "kill"
    /\ proc' = Killed(c) /\ Go(c, "unlink")
    /\ UNCHANGED <<pidfile, cmds, others>>

\* The file is removed, whatever has become of the process.
Unlink(c) ==
    /\ cmd[c].pc = "unlink"
    /\ pidfile' = [pidfile EXCEPT ![App(c)] = NoFile]
    /\ cmd' = [cmd EXCEPT ![c].pc = "loop", ![c].next = @ + 1]
    /\ UNCHANGED <<proc, cmds, others>>

-----------------------------------------------------------------------------
(* The forked process.                                                     *)

Becomes(p, state) ==
    /\ proc' = [proc EXCEPT ![p].is = state] /\ UNCHANGED <<cmd, cmds, others>>

\* It ends: the pid file stays.
Exits(p) == proc' = [proc EXCEPT ![p] = Free] /\ UNCHANGED <<cmd, pidfile, cmds, others>>

\* daemonize: the child of the second fork goes on; if there is none, the process itself.
Daemonize(p) ==
    /\ proc[p].is = "launched"
    /\ IF FreePids = {} THEN proc' = [proc EXCEPT ![p].is = "detached"]
       ELSE \E q \in FreePids :
              proc' = [proc EXCEPT ![p] = Free, ![q] = [proc[p] EXCEPT !.is = "detached"]]
    /\ UNCHANGED <<cmd, pidfile, cmds, others>>

Check(p) ==
    /\ proc[p].is = "detached"
    /\ IF proc[p].service \in Implemented
       THEN Becomes(p, "checked") /\ UNCHANGED pidfile
       ELSE Exits(p)

\* fopen of the pid file for writing empties the file that is there or makes a new one.
OpenPidFile(p) ==
    LET s == proc[p].service
        ino == IF pidfile[s] = NoFile THEN p ELSE pidfile[s].ino
    IN  /\ proc[p].is = "checked"
        /\ pidfile' = [pidfile EXCEPT ![s] = [ino |-> ino, pid |-> 0]]
        /\ proc' = [proc EXCEPT ![p].is = "opened", ![p].ino = ino]
        /\ UNCHANGED <<cmd, cmds, others>>

OpenPidFileFails(p) == proc[p].is = "checked" /\ Exits(p)

\* Mutant: the id stays in the buffer.
WritePidUnflushed(p) == proc[p].is = "opened" /\ pidfile' = pidfile /\ Becomes(p, "written")

\* fclose writes the id, to a file that may have been removed.
WritePid(p) ==
    LET s == proc[p].service
    IN  /\ proc[p].is = "opened"
        /\ pidfile' = IF pidfile[s] # NoFile /\ pidfile[s].ino = proc[p].ino
                      THEN [pidfile EXCEPT ![s].pid = p] ELSE pidfile
        /\ Becomes(p, "written")

\* osrfAppRegisterApplication and osrf_prefork_run.
Run(p)  == proc[p].is = "written" /\ Becomes(p, "running") /\ UNCHANGED pidfile

\* They fail, the listener crashes, or it has stopped.
Exit(p) == proc[p].is \in {"written", "running", "stopping"} /\ Exits(p)

\* Other processes.
OtherStarts(p) ==
    /\ proc[p].is = "free" /\ others < MaxOthers /\ others' = others + 1
    /\ proc' = [proc EXCEPT ![p].is = "other"] /\ UNCHANGED <<cmd, pidfile, cmds>>

OtherEnds(p) == proc[p].is = "other" /\ Exits(p)

-----------------------------------------------------------------------------
Next ==
    \/ \E c \in Commands :
         \/ \E action \in {"start", "stop"} :
              \/ Command(c, action, Services)
              \/ \E s \in Services : Command(c, action, {s})
         \/ Bootstrap(c) \/ SettingsFail(c) \/ Settings(c)
         \/ Skip(c) \/ Done(c) \/ Fork(c) \/ ReadPid(c) \/ Kill(c) \/ Unlink(c)
    \/ \E p \in Pids :
         \/ Daemonize(p) \/ Check(p) \/ OpenPidFile(p) \/ OpenPidFileFails(p) \/ WritePid(p)
         \/ Run(p) \/ Exit(p) \/ OtherStarts(p) \/ OtherEnds(p)

Spec == Init /\ [][Next]_vars

-----------------------------------------------------------------------------
\* The pid file is all that a stop goes by: every listener is named by the pid file
\* of its service, through starts that fail, listeners that crash, and ids used again,
\* if services are started and stopped with care.
ListenerNamed ==
    Careful => \A p \in Pids : proc[p].is = "running" => pidfile[proc[p].service].pid = p

\* "If no value is specified, all C-based services are affected" (osrf_system_service_ctrl):
\* a stop that went through the list leaves no listener of its services, if it was
\* given with care.
StopStops ==
    \A c \in Commands :
      Careful /\ cmd[c].pc = "done" /\ cmd[c].action = "stop" /\ cmd[c].next > Len(Apps)
        => \A s \in CServices \cap cmd[c].only : Of(s, {"running"} \cup Starting) = {}

\* The same without care.
ListenerNamedAlways ==
    \A p \in Pids : proc[p].is = "running" => pidfile[proc[p].service].pid = p

\* No process but a listener is told to end.
OthersUntouched ==
    [][\A c \in Commands : cmd[c].pc = "kill" /\ cmd'[c].pc = "unlink"
         => \A p \in Pids : proc[p].is = "other" => proc'[p] = proc[p]]_vars
=============================================================================
