------------------------------- MODULE Prefork -------------------------------
(***************************************************************************)
(* The prefork server of the C library (osrf_prefork.c).                   *)
(*                                                                         *)
(* A parent process reads requests from Jabber and hands each to a child   *)
(* over the child's data pipe.  A child works on one request at a time,    *)
(* then reports "available" on its status pipe, except after its last one, *)
(* when it exits.  The parent keeps a stack of idle children and a ring of *)
(* active ones, and adjusts their number between min and max.              *)
(*                                                                         *)
(* Signals are what makes it hard.  SIGCHLD only sets child_dead, which the*)
(* parent tests now and then; SIGHUP, SIGTERM and SIGINT are handled inside*)
(* the handler, whatever the parent was doing.  A blocking call ends early *)
(* when a signal arrives during it, but not when it arrived just before.   *)
(*                                                                         *)
(* The parent holds both ends of all pipes open.  So a write to a dead     *)
(* child succeeds, and select() never sees its status pipe end; the        *)
(* branches for a failed write are unreachable and are not modelled.       *)
(***************************************************************************)
EXTENDS Integers, Sequences, FiniteSets

CONSTANTS
    Pids,         \* process ids, which the system uses again
    Msgs,         \* messages that Jabber delivers to the listener
    Errors,       \* those with error_type set
    Empties,      \* those without usable data
    MinChildren,  \* min_children
    MaxChildren,  \* max_children
    MaxRequests,  \* max_requests
    NoMsg,        \* NULL
    MaxCrashes,   \* bound: children that crash, panic or fail to initialize
    MaxHups,      \* bound: SIGHUP
    MaxForkFails, \* bound: launch_child without a child in prefork_run
    Signals       \* which of "term" and "int" the parent may get

ASSUME PreforkAssumption ==
    /\ Pids \subseteq Nat /\ IsFiniteSet(Pids) /\ Cardinality(Pids) >= MaxChildren
    /\ Errors \subseteq Msgs /\ Empties \subseteq Msgs /\ NoMsg \notin Msgs
    /\ MinChildren \in Nat /\ MaxChildren \in Nat /\ MinChildren <= MaxChildren
    /\ MaxRequests \in Nat \ {0}
    /\ MaxCrashes \in Nat /\ MaxHups \in Nat /\ MaxForkFails \in Nat
    /\ Signals \subseteq {"term", "int"}

VARIABLES
    pc,        \* where the parent is
    msg,       \* cur_msg, until a child has it
    hand,      \* the child that has just been written to, in neither list
    idle,      \* idle_list, the top of the stack first
    active,    \* the ring of active children, from first_child on
    pending,   \* sighup_pending_list: how many clones of a pid it holds
    num,       \* current_num_children
    childDead, \* child_dead
    proc,      \* the child processes
    data,      \* the data pipes
    status,    \* how often "available" stands in the status pipes
    work,      \* the messages a child has read and works on
    served,    \* the child's loop counter
    killed,    \* children that were sent SIGKILL
    inbox, sent,    \* messages that Jabber has for the listener, or ever had
    done,           \* history: messages that a child has finished
    lost,           \* history: messages that went with their child
    dropped,        \* history: messages that the parent forgot
    crashes, hups, fails,  \* counters for the bounds
    todo,      \* the children a loop over children has still to see, the one it is at first
    then,      \* where the parent goes on after that loop, or "none"
    caught     \* history: the child that a shutdown found read from or waited for, but listed

lists    == <<idle, active, pending, num, childDead>>
children == <<proc, data, status, work, served, killed>>
pool     == <<lists, children, lost>>
jabber   == <<inbox, sent>>
bounds   == <<crashes, hups, fails>>
loop     == <<todo, then, caught>>
vars     == <<pc, msg, hand, pool, jabber, done, dropped, bounds, loop>>

Here(l) == {l[i] : i \in DOMAIN l}

Free    == {p \in Pids : proc[p] = "none"}
Zombies == {p \in Pids : proc[p] = "zombie"}
Living  == {p \in Pids : proc[p] \in {"start", "ready", "busy"}}

\* What a child has been given and has not finished.
Load(p) == Here(data[p]) \cup Here(work[p])

\* The numbers of a finite set, from the smallest on: the n-th is the one that n are not above.
Ascending(S) ==
    [n \in 1 .. Cardinality(S) |-> CHOOSE x \in S : Cardinality({y \in S : y <= x}) = n]

\* What a list has of a set, in the order of the list.
Those(l, S) ==
    LET at == Ascending({i \in DOMAIN l : l[i] \in S}) IN [n \in DOMAIN at |-> l[at[n]]]

Without(l, S) == Those(l, Here(l) \ S)

\* After prefork_launch_children.
Init ==
    /\ pc = "top" /\ msg = NoMsg /\ hand = {}
    /\ \E new \in SUBSET Pids :
         /\ Cardinality(new) = MinChildren
         /\ idle = Ascending(new)
         /\ proc = [p \in Pids |-> IF p \in new THEN "start" ELSE "none"]
    /\ active = << >> /\ pending = [p \in Pids |-> 0]
    /\ num = MinChildren /\ childDead = FALSE
    /\ data = [p \in Pids |-> << >>] /\ status = [p \in Pids |-> 0]
    /\ work = [p \in Pids |-> << >>] /\ served = [p \in Pids |-> 0]
    /\ killed = {}
    /\ inbox = << >> /\ sent = {} /\ done = {} /\ lost = {} /\ dropped = {}
    /\ crashes = 0 /\ hups = 0 /\ fails = 0
    /\ todo = << >> /\ then = "none" /\ caught = {}

-----------------------------------------------------------------------------
(* Reaping and checking.  A signal handler may run between any two steps.   *)

Keep == UNCHANGED <<jabber, done, dropped, bounds>>

\* if( child_dead ) reap_children(), which first forgets what SIGCHLD told.
ReapIfDead(next) ==
    /\ IF childDead THEN pc' = "bury" /\ then' = next ELSE pc' = next /\ UNCHANGED then
    /\ childDead' = FALSE
    /\ UNCHANGED <<msg, hand, idle, active, pending, num, children, lost, todo, caught>> /\ Keep

\* waitpid returns a child that has ended; it is still in its list.
WaitPid ==
    /\ pc = "bury"
    /\ \E p \in Zombies : /\ proc' = [proc EXCEPT ![p] = "reaped"]
                         /\ todo' = <<p>>
    /\ pc' = "delete"
    /\ UNCHANGED <<msg, hand, lists, data, status, work, served, killed, lost, then, caught>>
    /\ Keep

\* What is left of child p when its pipes are closed, and what goes with it.
Bury(p) ==
    /\ proc' = [proc EXCEPT ![p] = "none"]
    /\ data' = [data EXCEPT ![p] = << >>] /\ status' = [status EXCEPT ![p] = 0]
    /\ work' = [work EXCEPT ![p] = << >>] /\ served' = [served EXCEPT ![p] = 0]
    /\ killed' = killed \ {p}
    /\ lost' = lost \cup Load(p)
    /\ num' = num - 1
    /\ hand' = hand \ {p}
    /\ todo' = << >> /\ pc' = "bury"
    /\ UNCHANGED <<msg, pending, childDead, then, caught>> /\ Keep

\* Mutant: the dead stay in the idle list.
DeleteFromActive ==
    /\ pc = "delete"
    /\ \E p \in Here(todo) : Bury(p) /\ active' = Without(active, {p})
    /\ UNCHANGED idle

\* del_prefork_child: the child leaves its list.
Delete ==
    /\ pc = "delete"
    /\ \E p \in Here(todo) : /\ Bury(p)
                            /\ idle' = Without(idle, {p})
                            /\ active' = Without(active, {p})

\* No other child has ended.
Buried == pc = "refill" \/ (pc = "bury" /\ Zombies = {})

\* launch_child makes up for what is missing to the minimum.
Refill ==
    /\ Buried /\ num < MinChildren
    /\ \E p \in Free : /\ proc' = [proc EXCEPT ![p] = "start"]
                      /\ idle' = <<p>> \o idle
    /\ num' = num + 1
    /\ pc' = "refill"
    /\ UNCHANGED <<msg, hand, active, pending, childDead, data, status, work, served, killed,
                   lost, loop>> /\ Keep

\* The end of reap_children.
Reaped ==
    /\ Buried /\ num >= MinChildren
    /\ pc' = then /\ then' = "none"
    /\ UNCHANGED <<msg, hand, pool, todo, caught>> /\ Keep

Answered == {p \in Here(active) : status[p] > 0}

\* select() has returned: check_children goes through those that have answered.
LookAtAnswers(next) ==
    /\ pc' = "read" /\ then' = next
    /\ todo' = Those(active, Answered)
    /\ UNCHANGED <<msg, hand, pool, caught>> /\ Keep

\* The loop goes on with the children in rest.
GoOnWith(rest) ==
    /\ todo' = rest
    /\ IF rest = << >> THEN pc' = then /\ then' = "none" ELSE pc' = "read" /\ UNCHANGED then

\* The answer is taken out of the pipe; the child is still in the active list.
ReadStatus ==
    /\ pc = "read"
    /\ status' = [status EXCEPT ![Head(todo)] = 0]
    /\ pc' = "settle"
    /\ UNCHANGED <<msg, hand, lists, proc, data, work, served, killed, lost, loop>> /\ Keep

\* A child on the SIGHUP list is killed, and stays where it is.
Settle ==
    /\ pc = "settle"
    /\ LET p == Head(todo)
       IN  IF pending[p] > 0
           THEN /\ pending' = [pending EXCEPT ![p] = @ - 1]
                /\ killed' = killed \cup {p}
                /\ GoOnWith(Tail(todo))
           ELSE pc' = "unlink" /\ UNCHANGED <<pending, killed, todo, then>>
    /\ UNCHANGED <<msg, hand, idle, active, num, childDead, proc, data, status, work, served,
                   lost, caught>> /\ Keep

\* Another leaves the active list; when it was the first of the ring the loop ends with it.
Unlink ==
    /\ pc = "unlink"
    /\ LET p == Head(todo)
       IN  /\ active' = Without(active, {p})
           /\ hand' = hand \cup {p}
           /\ todo' = IF p = Head(active) THEN <<p>> ELSE todo
    /\ pc' = "push"
    /\ UNCHANGED <<msg, idle, pending, num, childDead, children, lost, then, caught>> /\ Keep

\* It goes on the idle stack.
Push ==
    /\ pc = "push"
    /\ idle' = <<Head(todo)>> \o idle
    /\ hand' = hand \ {Head(todo)}
    /\ GoOnWith(Tail(todo))
    /\ UNCHANGED <<msg, active, pending, num, childDead, children, lost, caught>> /\ Keep

-----------------------------------------------------------------------------
(* The parent: prefork_run.                                                *)

\* The top of the loop; without children the server gives up.
Top ==
    /\ pc = "top"
    /\ pc' = IF active = << >> /\ idle = << >> THEN "returned" ELSE "recv"
    /\ UNCHANGED <<msg, hand, pool, loop>> /\ Keep

\* client_recv returns a message; errors and empty messages are skipped.
Recv ==
    /\ pc = "recv" /\ inbox # << >>
    /\ LET m == Head(inbox)
       IN  IF m \in Errors \cup Empties
           THEN /\ pc' = IF m \in Errors THEN "reap" ELSE "top"
                /\ dropped' = dropped \cup {m}
                /\ UNCHANGED msg
           ELSE /\ pc' = "check" /\ msg' = m
                /\ UNCHANGED dropped
    /\ inbox' = Tail(inbox)
    /\ UNCHANGED <<hand, pool, sent, done, bounds, loop>>

\* if( child_dead ) reap_children, at the end of a turn of the loop.
ReapAndGoOn == pc = "reap" /\ ReapIfDead("top")

\* check_children without waiting: first the dead, ...
Check == pc = "check" /\ ReapIfDead("scan")

\* ... then those that have answered.
Scan ==
    /\ pc = "scan"
    /\ \/ Answered # {} /\ LookAtAnswers("pick")
       \/ Answered = {} /\ pc' = "pick" /\ UNCHANGED <<msg, hand, pool, loop>> /\ Keep

\* The child on top of the idle stack is taken.
PickIdle ==
    /\ pc = "pick" /\ idle # << >>
    /\ hand' = {Head(idle)} /\ idle' = Tail(idle)
    /\ pc' = "give"
    /\ UNCHANGED <<msg, active, pending, num, childDead, children, lost, loop>> /\ Keep

\* No child is idle, and launch_child starts one.
PickNew ==
    /\ pc = "pick" /\ idle = << >> /\ num < MaxChildren
    /\ \E p \in Free : hand' = {p} /\ proc' = [proc EXCEPT ![p] = "start"]
    /\ num' = num + 1
    /\ pc' = "give"
    /\ UNCHANGED <<msg, idle, active, pending, childDead, data, status, work, served, killed,
                   lost, loop>> /\ Keep

\* There are too many, or the new child cannot be forked.
PickNone ==
    /\ pc = "pick" /\ idle = << >>
    /\ \/ num >= MaxChildren /\ UNCHANGED fails
       \/ num < MaxChildren /\ fails < MaxForkFails /\ fails' = fails + 1
    /\ pc' = "wait"
    /\ UNCHANGED <<msg, hand, pool, jabber, done, dropped, crashes, hups, loop>>

\* Mutant: the request is not marked as honored.
GiveAndKeep ==
    /\ pc = "give"
    /\ \E p \in hand : data' = [data EXCEPT ![p] = Append(@, msg)]
    /\ pc' = "add"
    /\ UNCHANGED <<msg, hand, lists, proc, status, work, served, killed, lost, loop>> /\ Keep

\* The request is written to the child.
Give ==
    /\ pc = "give"
    /\ \E p \in hand : data' = [data EXCEPT ![p] = Append(@, msg)]
    /\ msg' = NoMsg /\ pc' = "add"
    /\ UNCHANGED <<hand, lists, proc, status, work, served, killed, lost, loop>> /\ Keep

\* add_prefork_child
AddActive ==
    /\ pc = "add"
    /\ \E p \in hand : active' = Append(active, p)
    /\ hand' = {} /\ pc' = "reap"
    /\ UNCHANGED <<msg, idle, pending, num, childDead, children, lost, loop>> /\ Keep

\* check_children until a child answers: the dead are reaped before select().
Wait == pc = "wait" /\ ReapIfDead("ring")

\* The descriptors are collected.  A signal since child_dead was tested interrupts nothing.
EnterSelect ==
    /\ \/ pc = "ring" /\ pc' = IF active = << >> THEN "waited" ELSE "select"
       \/ pc = "term_ring" /\ pc' = IF active = << >> THEN "term" ELSE "term_select"
    /\ UNCHANGED <<msg, hand, pool, loop>> /\ Keep

Select == pc = "select" /\ Answered # {} /\ LookAtAnswers("waited")

Waited == pc = "waited" /\ ReapIfDead("pick")

-----------------------------------------------------------------------------
(* The parent: signals.                                                    *)

Gone == pc \in {"exited", "aborted", "returned"}

\* Where the parent is, or comes back to, in prefork_run or prefork_clear.
At == IF then = "none" THEN pc ELSE then

Stopping == At \in {"term", "term_ring", "term_select"}

InHand == IF msg = NoMsg THEN {} ELSE {msg}

\* A blocking call that a signal interrupts returns, and the loop goes on.
Interrupted ==
    CASE pc = "recv" /\ inbox = << >>           -> "reap"
      [] pc = "select" /\ Answered = {}         -> "check"
      [] pc = "term_select" /\ Answered = {}    -> "term"
      [] OTHER                                  -> pc

\* sighup_handler: the active children are noted, the idle ones killed.
SigHup ==
    /\ ~Gone /\ hups < MaxHups
    /\ hups' = hups + 1
    /\ pending' = [p \in Pids |-> IF p \in Here(active) THEN pending[p] + 1 ELSE pending[p]]
    /\ killed' = killed \cup Here(idle)
    /\ pc' = Interrupted
    /\ UNCHANGED <<msg, hand, idle, active, num, childDead, proc, data, status, work, served,
                   lost, jabber, done, dropped, crashes, fails, loop>>

\* sigterm_handler starts a graceful shutdown, which never comes back.
SigTerm ==
    /\ "term" \in Signals
    /\ ~Gone /\ ~Stopping
    /\ pc' = "term" /\ todo' = << >> /\ then' = "none"
    /\ caught' = IF pc \in {"delete", "settle", "unlink"} THEN {Head(todo)} ELSE {}
    /\ dropped' = dropped \cup InHand /\ msg' = NoMsg
    /\ UNCHANGED <<hand, pool, jabber, done, bounds>>

\* prefork_clear waits for an active child to become idle ...
TermWait == pc = "term" /\ active # << >> /\ ReapIfDead("term_ring")

TermSelect == pc = "term_select" /\ Answered # {} /\ LookAtAnswers("term")

\* Mutant: no child is waited for.
ExitAtOnce ==
    /\ pc = "term"
    /\ pc' = "exited"
    /\ killed' = killed \cup Here(idle) \cup Here(active)
    /\ idle' = << >> /\ active' = << >>
    /\ UNCHANGED <<msg, hand, pending, num, childDead, proc, data, status, work, served,
                   lost, loop>> /\ Keep

\* ... and kills the idle ones when none is active.
TermExit ==
    /\ pc = "term" /\ active = << >>
    /\ pc' = "exited"
    /\ killed' = killed \cup Here(idle)
    /\ idle' = << >>
    /\ UNCHANGED <<msg, hand, active, pending, num, childDead, proc, data, status, work, served,
                   lost, loop>> /\ Keep

\* sigint_handler: all children in the lists are killed.
SigInt ==
    /\ "int" \in Signals
    /\ ~Gone
    /\ pc' = "aborted"
    /\ killed' = killed \cup Here(idle) \cup Here(active)
    /\ idle' = << >> /\ active' = << >>
    /\ dropped' = dropped \cup InHand /\ msg' = NoMsg
    /\ todo' = << >> /\ then' = "none"
    /\ UNCHANGED <<hand, pending, num, childDead, proc, data, status, work, served, lost,
                   jabber, done, bounds, caught>>

ParentStep ==
    \/ Top \/ Recv \/ ReapAndGoOn \/ Check \/ Scan
    \/ WaitPid \/ Delete \/ Refill \/ Reaped
    \/ ReadStatus \/ Settle \/ Unlink \/ Push
    \/ PickIdle \/ PickNew \/ PickNone \/ Give \/ AddActive
    \/ Wait \/ EnterSelect \/ Select \/ Waited
    \/ TermWait \/ TermSelect \/ TermExit

-----------------------------------------------------------------------------
(* The children.                                                           *)

\* The end of a child: SIGCHLD sets child_dead and interrupts the parent.
Exit(p) ==
    /\ proc' = [proc EXCEPT ![p] = "zombie"]
    /\ childDead' = TRUE
    /\ pc' = Interrupted

\* prefork_child_init_hook succeeds.
ChildStart(p) ==
    /\ proc[p] = "start"
    /\ proc' = [proc EXCEPT ![p] = "ready"]
    /\ UNCHANGED <<pc, msg, hand, lists, data, status, work, served, killed, lost, loop>> /\ Keep

\* prefork_child_wait: what the pipe holds is one request.
ChildRead(p) ==
    /\ proc[p] = "ready" /\ data[p] # << >>
    /\ proc' = [proc EXCEPT ![p] = "busy"]
    /\ work' = [work EXCEPT ![p] = data[p]]
    /\ data' = [data EXCEPT ![p] = << >>]
    /\ UNCHANGED <<pc, msg, hand, lists, status, served, killed, lost, loop>> /\ Keep

\* Mutant: the child does not report.
ChildSilent(p) ==
    /\ proc[p] = "busy"
    /\ done' = done \cup Here(work[p])
    /\ work' = [work EXCEPT ![p] = << >>]
    /\ served' = [served EXCEPT ![p] = @ + 1]
    /\ proc' = [proc EXCEPT ![p] = "ready"]
    /\ UNCHANGED <<pc, msg, hand, lists, data, status, killed, lost, jabber, dropped, bounds,
                   loop>>

\* The request is done: the child reports, or exits after its last one.
ChildDone(p) ==
    /\ proc[p] = "busy"
    /\ done' = done \cup Here(work[p])
    /\ work' = [work EXCEPT ![p] = << >>]
    /\ served' = [served EXCEPT ![p] = @ + 1]
    /\ IF served[p] + 1 < MaxRequests
       THEN /\ proc' = [proc EXCEPT ![p] = "ready"]
            /\ status' = [status EXCEPT ![p] = @ + 1]
            /\ UNCHANGED <<pc, childDead>>
       ELSE Exit(p) /\ UNCHANGED status
    /\ UNCHANGED <<msg, hand, idle, active, pending, num, data, killed, lost, jabber,
                   dropped, bounds, loop>>

\* The request is done, and the child terminates: session->panic.
ChildPanic(p) ==
    /\ proc[p] = "busy" /\ crashes < MaxCrashes
    /\ crashes' = crashes + 1
    /\ done' = done \cup Here(work[p])
    /\ work' = [work EXCEPT ![p] = << >>]
    /\ Exit(p)
    /\ UNCHANGED <<msg, hand, idle, active, pending, num, data, status, served, killed, lost,
                   jabber, dropped, hups, fails, loop>>

\* The child cannot initialize, or crashes in a method.
ChildCrash(p) ==
    /\ p \in Living /\ crashes < MaxCrashes
    /\ crashes' = crashes + 1
    /\ Exit(p)
    /\ UNCHANGED <<msg, hand, idle, active, pending, num, data, status, work, served, killed,
                   lost, jabber, done, dropped, hups, fails, loop>>

\* SIGKILL takes effect.
ChildKilled(p) ==
    /\ p \in killed \cap Living
    /\ Exit(p)
    /\ UNCHANGED <<msg, hand, idle, active, pending, num, data, status, work, served, killed,
                   lost, loop>> /\ Keep

ChildStep(p) == ChildStart(p) \/ ChildRead(p) \/ ChildDone(p) \/ ChildKilled(p)

\* Jabber delivers a message to the listener.
Arrive(m) ==
    /\ m \notin sent
    /\ sent' = sent \cup {m}
    /\ inbox' = Append(inbox, m)
    /\ UNCHANGED <<pc, msg, hand, pool, done, dropped, bounds, loop>>

Next ==
    \/ ParentStep
    \/ SigHup \/ SigTerm \/ SigInt
    \/ \E p \in Pids : ChildStep(p) \/ ChildPanic(p) \/ ChildCrash(p)
    \/ \E m \in Msgs : Arrive(m)

Spec == Init /\ [][Next]_vars

\* Parent and children are scheduled, and methods return.
FairSpec == Spec /\ WF_vars(ParentStep) /\ \A p \in Pids : WF_vars(ChildStep(p))

-----------------------------------------------------------------------------
(* Properties.                                                             *)

\* Every variable has its type.
TypeOK ==
    /\ pc \in {"top", "recv", "reap", "check", "scan", "pick", "give", "add", "wait", "ring",
               "select", "waited", "term", "term_ring", "term_select", "exited", "aborted", "returned",
               "bury", "delete", "refill", "read", "settle", "unlink", "push"}
    /\ then \in {"none", "top", "scan", "ring", "pick", "waited", "term", "term_ring"}
    /\ todo \in Seq(Pids) /\ caught \subseteq Pids
    /\ msg \in Msgs \cup {NoMsg} /\ hand \subseteq Pids
    /\ idle \in Seq(Pids) /\ active \in Seq(Pids)
    /\ pending \in [Pids -> Nat] /\ num \in Nat /\ childDead \in BOOLEAN
    /\ proc \in [Pids -> {"none", "start", "ready", "busy", "zombie", "reaped"}]
    /\ data \in [Pids -> Seq(Msgs)] /\ work \in [Pids -> Seq(Msgs)]
    /\ status \in [Pids -> Nat] /\ served \in [Pids -> 0 .. MaxRequests]
    /\ killed \subseteq Pids
    /\ inbox \in Seq(Msgs) /\ sent \subseteq Msgs
    /\ done \subseteq Msgs /\ lost \subseteq Msgs /\ dropped \subseteq Msgs
    /\ crashes \in Nat /\ hups \in Nat /\ fails \in Nat

\* While the server runs, each child that has not been buried is in exactly one of
\* the two lists, or was just taken out of the one for the other (where a shutdown
\* may have caught it); current_num_children is the number of these children, and
\* at most max_children.
PoolConsistent ==
    LET listed == Here(idle) \cup Here(active)
        own    == Pids \ Free
    IN  ~Gone =>
          /\ Len(idle) + Len(active) = Cardinality(listed)
          /\ listed \subseteq own /\ own \ listed \subseteq hand
          /\ ~Stopping => hand \subseteq own \ listed
          /\ num = Cardinality(own) /\ num <= MaxChildren

\* A child has one request at a time, and none when it is in the idle list, is
\* about to exit, or has said that it is available.
OneAtATime ==
    \A p \in Pids :
      /\ Len(data[p]) + Len(work[p]) + status[p] <= 1
      /\ p \in Here(idle) => Load(p) = {} /\ status[p] = 0
      /\ p \in Here(idle) \cap Living => served[p] < MaxRequests

\* No request is forgotten or handed out twice: each one that reached the
\* listener is in exactly one place.
Conserved ==
    \A m \in sent :
      LET places == {<<"inbox", i>> : i \in {i \in DOMAIN inbox : inbox[i] = m}}
                    \cup {<<"msg", 0>> : x \in InHand \cap {m}}
                    \cup {<<"child", p>> : p \in {p \in Pids : m \in Load(p)}}
                    \cup {<<h, 0>> : h \in {h \in {"done", "lost", "dropped"} :
                             \/ h = "done" /\ m \in done
                             \/ h = "lost" /\ m \in lost
                             \/ h = "dropped" /\ m \in dropped}}
      IN  Cardinality(places) = 1

\* A request is only lost with a child that crashed or was killed, and only
\* skipped, when it is one, while the server is stopping: a child that has
\* served its quota takes no request with it.
LostOnlyWithCrash ==
    /\ lost # {} => crashes > 0 \/ hups > 0
    /\ \A m \in dropped : m \in Errors \cup Empties \/ Stopping \/ pc \in {"exited", "aborted"}

\* The pool of a listener: its variables have their types, its lists agree with its
\* processes, and each of these with the requests it has (prefork_run, reap_children,
\* check_children).
PoolSound == TypeOK /\ PoolConsistent /\ OneAtATime

\* What becomes of a request: it is in one place, and only lost with a child that
\* crashed or was killed (prefork_run, prefork_child_wait, del_prefork_child).
NoneLost == Conserved /\ LostOnlyWithCrash

\* "Wait for at least one active child to become idle, then repeat" (prefork_clear):
\* a graceful shutdown kills no child that has a request.
GracefulKillsIdle ==
    [][pc = "term" /\ pc' = "exited" => \A p \in killed' \ killed : Load(p) = {}]_vars

\* A request that the parent has read from Jabber is given to a child.
Dispatched == \A m \in Msgs : msg = m ~> msg # m

\* "If no idle children are available, either spawn a new one or [...] wait for
\* one to become available" (prefork_run): the same when children end after their
\* quota of requests.
DispatchedAlways == Dispatched

\* "Once complete, all children will be idle and cleaned up below" (prefork_clear): a
\* graceful shutdown comes to its end, unless its signal came where check_children had
\* emptied the pipe of a child and the child was still in the active list.
GracefulEnds == pc = "term" /\ caught = {} ~> pc = "exited"

\* The same wherever the signal came.
GracefulEndsAlways == pc = "term" ~> pc = "exited"

\* "Spawn new ones as needed to maintain at least a minimum number"
\* (reap_children): the death of a child does not go unnoticed.
DeadReaped == childDead ~> (~childDead \/ Gone \/ Stopping)
=============================================================================
