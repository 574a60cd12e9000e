------------------------------- MODULE Router -------------------------------
(***************************************************************************)
(* The OpenSRF router (src/router/osrf_router.c).                          *)
(*                                                                         *)
(* One process owns a registry of service classes.  Each class has a       *)
(* Jabber connection of its own and a list of nodes, the listeners that    *)
(* registered for it.  The main loop waits in select(), drains the router's*)
(* own connection (register and unregister commands, information requests),*)
(* then drains every ready class connection: a request goes to the next    *)
(* node of the class in turn, and a Jabber error, which says that a node   *)
(* could not be reached, removes the node and sends what that node was     *)
(* last sent to another one.                                               *)
(*                                                                         *)
(* Around it are the Jabber server, which keeps messages in order per      *)
(* connection and answers a message for an absent node with an error, the  *)
(* listeners, which come, go and die, and the signal that stops the router.*)
(***************************************************************************)
EXTENDS Integers, Sequences, FiniteSets

CONSTANTS
    Classes,         \* service names
    Nodes,           \* Jabber ids of listeners; a listener never reuses one
    Requests,        \* client requests; each stands for its own sender
    ServiceOf,       \* the class a listener serves
    TrustedServers,  \* nodes whose domain is in router->trustedServers
    TrustedClients,  \* nodes and requests whose domain is in trustedClients
    Top,             \* the router's own connection
    NoNode, NoMsg,   \* NULL
    MaxOddities      \* bound: nodes that unregister or register again, information
                     \* requests, connections lost or refused, all together

ASSUME RouterAssumption ==
    /\ ServiceOf \in [Nodes -> Classes]
    /\ TrustedServers \subseteq Nodes
    /\ TrustedClients \subseteq Nodes \cup Requests
    /\ Nodes \cap Requests = {}
    /\ NoNode \notin Nodes /\ NoMsg \notin Requests /\ Top \notin Classes
    /\ MaxOddities \in Nat

VARIABLES
    pc,        \* where the main loop is
    stop,      \* router->stop, set by the signal handler
    ready,     \* the descriptors select() found readable
    todo,      \* the classes the inner loop has yet to visit, in hash order
    got,       \* messages of the connection being drained already in memory
    classes,   \* the keys of router->classes, in the order of insertion
    class,     \* what is stored for each class
    conn,      \* the connections: none, open, eof (the server hung up), closed
    inbox,     \* messages the Jabber server holds for each class connection
    topbox,    \* ... and for the router's own connection
    wire,      \* messages on their way from the router to each node
    node,      \* the listeners
    sent,      \* requests that clients have sent
    delivered, \* how often each request reached a listener
    cancelled, \* requests whose sender was told that they failed
    toggles, queries, losses   \* counters for the bounds

loop    == <<pc, stop, ready, todo, got>>
table   == <<classes, class>>
network == <<conn, inbox, topbox, wire>>
world   == <<node, sent, delivered, cancelled>>
bounds  == <<toggles, queries, losses>>
vars    == <<loop, table, network, world, bounds>>

MoreOddities == toggles + queries + losses < MaxOddities

-----------------------------------------------------------------------------
(* The data a class keeps, and the hash operations on it.                  *)

\* The node hash in order of insertion, the iterator (reset, on a live node,
\* on a removed node whose successor is live, or on a removed node that leads
\* nowhere), and the last message sent to each node.  "turns" is a history
\* variable: how often each node was chosen since the set of nodes changed.
ClassRec == [nodes : Seq(Nodes),
             pos   : {"start", "at", "before", "end"},
             at    : Nodes \cup {NoNode},
             last  : [Nodes -> Requests \cup {NoMsg}],
             turns : [Nodes -> Nat]]

EmptyClass == [nodes |-> << >>, pos |-> "start", at |-> NoNode,
               last  |-> [n \in Nodes |-> NoMsg],
               turns |-> [n \in Nodes |-> 0]]

Elems(s) == {s[i] : i \in DOMAIN s}

Members(k) == Elems(k.nodes)

IndexOf(k, n) == CHOOSE i \in DOMAIN k.nodes : k.nodes[i] = n

WithoutAt(s, i) == [j \in 1 .. Len(s) - 1 |-> IF j < i THEN s[j] ELSE s[j + 1]]

\* osrfHashSet of a new node at the end of the list.
AddNode(k, n) ==
    [k EXCEPT !.nodes = Append(@, n), !.last[n] = NoMsg,
              !.turns = [m \in Nodes |-> 0]]

\* osrfHashRemove of a node: an iterator that was on it still finds the node
\* that followed it, until that one goes as well.
DropNode(k, n) ==
    LET i    == IndexOf(k, n)
        here == k.at = n /\ k.pos \in {"at", "before"}
        next == here /\ k.pos = "at" /\ i < Len(k.nodes)
    IN  [nodes |-> WithoutAt(k.nodes, i),
         pos   |-> IF next THEN "before" ELSE IF here THEN "end" ELSE k.pos,
         at    |-> IF next THEN k.nodes[i + 1] ELSE IF here THEN NoNode ELSE k.at,
         last  |-> [k.last EXCEPT ![n] = NoMsg],
         turns |-> [m \in Nodes |-> 0]]

\* Mutant: the iterator is read and never advanced.
PickCurrent(k) == IF k.pos \in {"at", "before"} THEN k.at ELSE k.nodes[1]

\* The node that the iterator comes to next, from the start again if none.
Pick(k) ==
    LET i == CASE k.pos = "at"     -> IndexOf(k, k.at) + 1
               [] k.pos = "before" -> IndexOf(k, k.at)
               [] OTHER            -> 1
    IN  k.nodes[IF i > Len(k.nodes) THEN 1 ELSE i]

\* Request r becomes the last message of the node picked for it.
Routed(k, r) ==
    [k EXCEPT !.pos = "at", !.at = Pick(k), !.last[Pick(k)] = r,
              !.turns[Pick(k)] = @ + 1]

Registered(c) == c \in Elems(classes)

ClassIndex(c) == CHOOSE i \in DOMAIN classes : classes[i] = c

-----------------------------------------------------------------------------
(* Messages.                                                               *)

InMsg == [kind : {"request"}, req : Requests]
         \cup [kind : {"error"}, from : Nodes, req : Requests]

TopMsg == [cmd : {"register", "unregister"}, from : Nodes]
          \cup [cmd : {"stats"}, class : Classes]
          \cup [cmd : {"info"}]

Init ==
    /\ pc = "check" /\ stop = FALSE /\ ready = {} /\ todo = << >> /\ got = 0
    /\ classes = << >> /\ class = [c \in Classes |-> EmptyClass]
    /\ conn = [c \in Classes \cup {Top} |-> IF c = Top THEN "open" ELSE "none"]
    /\ inbox = [c \in Classes |-> << >>]
    /\ topbox = << >>
    /\ wire = [n \in Nodes |-> << >>]
    /\ node = [n \in Nodes |-> "off"]
    /\ sent = {} /\ cancelled = {}
    /\ delivered = [r \in Requests |-> 0]
    /\ toggles = 0 /\ queries = 0 /\ losses = 0

-----------------------------------------------------------------------------
(* The registry.                                                           *)

\* osrfRouterRemoveClass: the callback frees the class, its nodes and its
\* connection, with every message that was waiting there.
RemoveClass(c) ==
    /\ classes' = WithoutAt(classes, ClassIndex(c))
    /\ class' = [class EXCEPT ![c] = EmptyClass]
    /\ conn' = [conn EXCEPT ![c] = "none"]
    /\ inbox' = [inbox EXCEPT ![c] = << >>]

\* Mutant: an empty class stays.
RemoveNodeOnly(c, n, box) ==
    /\ class' = IF Registered(c) /\ n \in Members(class[c])
                THEN [class EXCEPT ![c] = DropNode(@, n)] ELSE class
    /\ inbox' = box
    /\ UNCHANGED <<classes, conn>>

\* Mutant: the class goes with any of its nodes.
RemoveNodeAndClass(c, n, box) ==
    IF Registered(c) THEN RemoveClass(c) ELSE inbox' = box /\ UNCHANGED <<table, conn>>

\* osrfRouterClassRemoveNode: an empty class goes too.
RemoveNode(c, n, box) ==
    IF Registered(c) /\ n \in Members(class[c])
    THEN IF Len(class[c].nodes) = 1
         THEN RemoveClass(c)
         ELSE /\ class' = [class EXCEPT ![c] = DropNode(@, n)]
              /\ inbox' = box
              /\ UNCHANGED <<classes, conn>>
    ELSE inbox' = box /\ UNCHANGED <<table, conn>>

\* client_send_message to node n: the message is lost if the server hung up.
SendTo(c, n, r) ==
    wire' = IF conn[c] = "open" THEN [wire EXCEPT ![n] = Append(@, r)] ELSE wire

\* osrfRouterClassHandleMessage, on class data k that the caller may have changed.
HandleMessage(c, k, r) ==
    /\ class' = [class EXCEPT ![c] = IF k.nodes = << >> THEN k ELSE Routed(k, r)]
    /\ IF k.nodes = << >> THEN UNCHANGED wire ELSE SendTo(c, Pick(k), r)

\* Mutant: the node stays registered when its message is sent elsewhere.
ResendAndKeep(c, n, box) ==
    /\ IF n \in Members(class[c]) /\ class[c].last[n] # NoMsg
       THEN HandleMessage(c, class[c], class[c].last[n])
       ELSE UNCHANGED <<class, wire>>
    /\ inbox' = box
    /\ UNCHANGED <<classes, conn, cancelled>>

\* Mutant: the node under the iterator is taken for the one the error is from.
DropCurrent(c, n, box) ==
    /\ RemoveNode(c, class[c].at, box)
    /\ UNCHANGED <<wire, cancelled>>

\* Mutant: the last node of a class is given another chance.
SpareLastNode(c, n, box) ==
    IF n \in Members(class[c]) /\ Len(class[c].nodes) > 1
    THEN RemoveNode(c, n, box) /\ UNCHANGED <<wire, cancelled>>
    ELSE inbox' = box /\ UNCHANGED <<table, conn, wire, cancelled>>

\* osrfRouterClassHandleBounce and what its caller does with the result: the
\* message resent is the last one the node was sent.
HandleBounce(c, n, box) ==
    LET k == class[c]
    IN  IF n \notin Members(k)
        THEN inbox' = box /\ UNCHANGED <<table, conn, wire, cancelled>>
        ELSE IF Len(k.nodes) = 1
        THEN /\ cancelled' = IF k.last[n] # NoMsg /\ conn[c] = "open"
                             THEN cancelled \cup {k.last[n]} ELSE cancelled
             /\ RemoveNode(c, n, box)
             /\ UNCHANGED wire
        ELSE /\ IF k.last[n] = NoMsg
                THEN RemoveNode(c, n, box) /\ UNCHANGED wire
                ELSE /\ HandleMessage(c, DropNode(k, n), k.last[n])
                     /\ inbox' = box
                     /\ UNCHANGED <<classes, conn>>
             /\ UNCHANGED cancelled

-----------------------------------------------------------------------------
(* The main loop.                                                          *)

\* while( ! router->stop )
CheckStop ==
    /\ pc = "check"
    /\ pc' = IF stop THEN "done" ELSE "fill"
    /\ UNCHANGED <<stop, ready, todo, got, table, network, world, bounds>>

\* _osrfRouterFillFDSet: classes whose descriptor is closed are removed, the
\* others go into the set.
Broken(c) == Registered(c) /\ conn[c] = "closed"

RemoveBrokenClass(c) ==
    /\ pc = "fill" /\ Broken(c)
    /\ RemoveClass(c)
    /\ UNCHANGED <<loop, topbox, wire, world, bounds>>

FillFDSet ==
    /\ pc = "fill" /\ \A c \in Classes : ~Broken(c)
    /\ pc' = "select"
    /\ UNCHANGED <<stop, ready, todo, got, table, network, world, bounds>>

\* Mutant: the sockets of the classes are not watched.
TopReadable(c) == c = Top /\ (conn[c] = "eof" \/ topbox # << >>)

Readable(c) == \/ conn[c] = "eof"
               \/ /\ conn[c] = "open"
                  /\ IF c = Top THEN topbox # << >> ELSE inbox[c] # << >>

Blocked == \A c \in Classes \cup {Top} : conn[c] # "closed" /\ ~Readable(c)

\* select() blocks until a descriptor is readable; a closed one is an error.
Select ==
    /\ pc = "select"
    /\ \/ /\ conn[Top] = "closed"
          /\ pc' = "done"
          /\ UNCHANGED ready
       \/ /\ conn[Top] # "closed"
          /\ ready' = {c \in Classes \cup {Top} : Readable(c)}
          /\ ready' # {}
          /\ pc' = "top"
    /\ UNCHANGED <<stop, todo, got, table, network, world, bounds>>

\* A signal without effect on the router interrupts select(): continue.
SelectInterrupted ==
    /\ pc = "select" /\ ~stop /\ Blocked
    /\ pc' = "check"
    /\ UNCHANGED <<stop, ready, todo, got, table, network, world, bounds>>

\* Mutant: the count of messages in memory is not set by a read.
TakenOne(box) == got - 1

\* client_recv() with no message in memory reads all the connection holds.
Taken(box) == (IF got > 0 THEN got ELSE Len(box)) - 1

HasMessage(c, box) == got > 0 \/ (conn[c] = "open" /\ box # << >>)

\* The router's own connection has nothing more, or the server hung up.
TopDrained ==
    /\ pc = "top"
    /\ Top \notin ready \/ ~HasMessage(Top, topbox)
    /\ conn' = IF Top \in ready /\ conn[Top] = "eof"
               THEN [conn EXCEPT ![Top] = "closed"] ELSE conn
    /\ todo' = classes
    /\ pc' = "classes"
    /\ UNCHANGED <<stop, ready, got, table, inbox, topbox, wire, world, bounds>>

TopReceive ==
    /\ pc = "top" /\ Top \in ready /\ HasMessage(Top, topbox)
    /\ got' = Taken(topbox)
    /\ topbox' = Tail(topbox)

\* Mutant: a node is added without a look whether it is there.
RegisterAgain ==
    /\ TopReceive
    /\ Head(topbox).cmd = "register"
    /\ LET n == Head(topbox).from
           c == ServiceOf[n]
       IN  /\ n \in TrustedServers
           /\ class' = [class EXCEPT ![c] = AddNode(@, n)]
           /\ IF Registered(c)
              THEN UNCHANGED <<classes, conn>>
              ELSE /\ classes' = Append(classes, c)
                   /\ conn' = [conn EXCEPT ![c] = "open"]
    /\ UNCHANGED <<pc, stop, ready, todo, inbox, wire, world, bounds>>

\* osrfRouterHandleCommand, "register": the class is added and connected
\* unless it is there, then the node unless it is there.
Register ==
    /\ TopReceive
    /\ Head(topbox).cmd = "register"
    /\ LET n == Head(topbox).from
           c == ServiceOf[n]
       IN  \/ /\ n \in TrustedServers /\ n \notin Members(class[c])
              /\ class' = [class EXCEPT ![c] = AddNode(@, n)]
              /\ IF Registered(c)
                 THEN UNCHANGED <<classes, conn>>
                 ELSE /\ classes' = Append(classes, c)
                      /\ conn' = [conn EXCEPT ![c] = "open"]
              /\ UNCHANGED losses
           \/ /\ n \in TrustedServers /\ ~Registered(c)    \* client_connect fails
              /\ MoreOddities /\ losses' = losses + 1
              /\ UNCHANGED <<table, conn>>
           \/ /\ n \notin TrustedServers \/ n \in Members(class[c])
              /\ UNCHANGED <<table, conn, losses>>
    /\ UNCHANGED <<pc, stop, ready, todo, inbox, wire, world, toggles, queries>>

\* osrfRouterHandleCommand, "unregister".
Unregister ==
    /\ TopReceive
    /\ Head(topbox).cmd = "unregister"
    /\ LET n == Head(topbox).from
       IN  IF n \in TrustedServers
           THEN RemoveNode(ServiceOf[n], n, inbox)
           ELSE UNCHANGED <<table, conn, inbox>>
    /\ UNCHANGED <<pc, stop, ready, todo, wire, world, bounds>>

\* A CONNECT, a request about all classes, or one that is not known: an answer, and no
\* change.
Answered(m) == m.cmd = "info" /\ UNCHANGED pc

\* The two requests about one class use what osrfHashGet returns for it without a check.
OfClass(m) == m.cmd = "stats" /\ pc' = IF Registered(m.class) THEN pc ELSE "crashed"

\* osrfRouterHandleAppRequest
AppRequest ==
    /\ TopReceive
    /\ LET m == Head(topbox) IN Answered(m) \/ OfClass(m)
    /\ UNCHANGED <<stop, ready, todo, table, conn, inbox, wire, world, bounds>>

\* The class at the head of the list is left: it was not ready, it has no more
\* messages, its server hung up, or a bounce just removed it.
NextClass ==
    /\ pc = "classes" /\ todo # << >>
    /\ LET c == Head(todo)
       IN  /\ c \notin ready \/ ~Registered(c) \/ ~HasMessage(c, inbox[c])
           /\ conn' = IF c \in ready /\ Registered(c) /\ conn[c] = "eof"
                      THEN [conn EXCEPT ![c] = "closed"] ELSE conn
           /\ got' = 0
    /\ todo' = Tail(todo)
    /\ UNCHANGED <<pc, stop, ready, table, inbox, topbox, wire, world, bounds>>

ClassReceive(c) ==
    /\ pc = "classes" /\ todo # << >> /\ c = Head(todo)
    /\ c \in ready /\ Registered(c) /\ HasMessage(c, inbox[c])
    /\ got' = Taken(inbox[c])

\* osrfRouterClassHandleIncoming, for a request.
RouteRequest(c) ==
    /\ ClassReceive(c)
    /\ Head(inbox[c]).kind = "request"
    /\ LET r == Head(inbox[c]).req
       IN  IF r \in TrustedClients
           THEN HandleMessage(c, class[c], r)
           ELSE UNCHANGED <<class, wire>>
    /\ inbox' = [inbox EXCEPT ![c] = Tail(@)]
    /\ UNCHANGED <<pc, stop, ready, todo, classes, conn, topbox, world, bounds>>

\* osrfRouterClassHandleIncoming, for an error.
RouteBounce(c) ==
    /\ ClassReceive(c)
    /\ Head(inbox[c]).kind = "error"
    /\ LET n   == Head(inbox[c]).from
           box == [inbox EXCEPT ![c] = Tail(@)]
       IN  IF n \in TrustedClients
           THEN HandleBounce(c, n, box)
           ELSE inbox' = box /\ UNCHANGED <<table, conn, wire, cancelled>>
    /\ UNCHANGED <<pc, stop, ready, todo, topbox, node, sent, delivered, bounds>>

LoopEnd ==
    /\ pc = "classes" /\ todo = << >>
    /\ pc' = "check"
    /\ UNCHANGED <<stop, ready, todo, got, table, network, world, bounds>>

RouterStep ==
    \/ CheckStop \/ FillFDSet \/ Select
    \/ TopDrained \/ Register \/ Unregister \/ AppRequest
    \/ NextClass \/ LoopEnd
    \/ \E c \in Classes : RemoveBrokenClass(c) \/ RouteRequest(c) \/ RouteBounce(c)

\* routerSignalHandler calls router_stop; a select() in progress returns EINTR
\* and finds the switch set.
Signal ==
    /\ ~stop /\ pc \notin {"done", "crashed"}
    /\ stop' = TRUE
    /\ pc' = IF pc = "select" /\ Blocked THEN "done" ELSE pc
    /\ UNCHANGED <<ready, todo, got, table, network, world, bounds>>

-----------------------------------------------------------------------------
(* The Jabber server, the listeners and the clients.                       *)

Up(n) == node[n] \in {"up", "leaving"}

ToTop(m) == topbox' = IF conn[Top] = "open" THEN Append(topbox, m) ELSE topbox

\* A listener starts and registers.
NodeStart(n) ==
    /\ node[n] = "off"
    /\ node' = [node EXCEPT ![n] = "up"]
    /\ ToTop([cmd |-> "register", from |-> n])
    /\ UNCHANGED <<loop, table, conn, inbox, wire, sent, delivered, cancelled, bounds>>

\* A listener unregisters, on its way out or because it was told to.
NodeLeave(n) ==
    /\ node[n] = "up"
    /\ node' = [node EXCEPT ![n] = "leaving"]
    /\ ToTop([cmd |-> "unregister", from |-> n])
    /\ UNCHANGED <<loop, table, conn, inbox, wire, sent, delivered, cancelled, bounds>>

\* A listener is told to register again, whether it unregistered before or not.
NodeReturn(n) ==
    /\ Up(n) /\ MoreOddities
    /\ toggles' = toggles + 1
    /\ node' = [node EXCEPT ![n] = "up"]
    /\ ToTop([cmd |-> "register", from |-> n])
    /\ UNCHANGED <<loop, table, conn, inbox, wire, sent, delivered, cancelled,
                   queries, losses>>

\* A listener exits, after unregistering or without.
NodeDown(n) ==
    /\ Up(n)
    /\ node' = [node EXCEPT ![n] = "down"]
    /\ UNCHANGED <<loop, table, network, sent, delivered, cancelled, bounds>>

\* The server hands a message to a listener, or sends an error to the class
\* connection it came from.
JabberDeliver(n) ==
    /\ wire[n] # << >>
    /\ LET r == Head(wire[n])
           c == ServiceOf[n]
       IN  IF Up(n)
           THEN /\ delivered' = [delivered EXCEPT ![r] = @ + 1]
                /\ UNCHANGED inbox
           ELSE /\ inbox' = IF conn[c] = "open"
                            THEN [inbox EXCEPT ![c] = Append(@,
                                     [kind |-> "error", from |-> n, req |-> r])]
                            ELSE inbox
                /\ UNCHANGED delivered
    /\ wire' = [wire EXCEPT ![n] = Tail(@)]
    /\ UNCHANGED <<loop, table, conn, topbox, node, sent, cancelled, bounds>>

\* A client sends a request to a class; without a connection for the class the
\* server tells the client so.
ClientSend(r, c) ==
    /\ r \notin sent
    /\ sent' = sent \cup {r}
    /\ IF conn[c] = "open"
       THEN /\ inbox' = [inbox EXCEPT ![c] = Append(@, [kind |-> "request", req |-> r])]
            /\ UNCHANGED cancelled
       ELSE cancelled' = cancelled \cup {r} /\ UNCHANGED inbox
    /\ UNCHANGED <<loop, table, conn, topbox, wire, node, delivered, bounds>>

\* Somebody asks the router for information.
Query ==
    /\ MoreOddities
    /\ queries' = queries + 1
    /\ \/ ToTop([cmd |-> "info"])
       \/ \E c \in Classes : ToTop([cmd |-> "stats", class |-> c])
    /\ UNCHANGED <<loop, table, conn, inbox, wire, world, toggles, losses>>

\* The server hangs up on one of the router's connections.
ConnectionLost(c) ==
    /\ MoreOddities /\ conn[c] = "open"
    /\ losses' = losses + 1
    /\ conn' = [conn EXCEPT ![c] = "eof"]
    /\ UNCHANGED <<loop, table, inbox, topbox, wire, world, toggles, queries>>

Environment ==
    \/ Signal \/ SelectInterrupted \/ Query
    \/ \E n \in Nodes : \/ NodeStart(n) \/ NodeLeave(n) \/ NodeReturn(n) \/ NodeDown(n)
                        \/ JabberDeliver(n)
    \/ \E r \in Requests, c \in Classes : ClientSend(r, c)
    \/ \E c \in Classes \cup {Top} : ConnectionLost(c)

Next == RouterStep \/ Environment

Spec == Init /\ [][Next]_vars

\* The router's process is scheduled, and the Jabber server delivers.
FairSpec == Spec /\ WF_vars(RouterStep) /\ \A n \in Nodes : WF_vars(JabberDeliver(n))
-----------------------------------------------------------------------------
(* Properties.                                                             *)

\* Every variable has its type.
TypeOK ==
    /\ pc \in {"check", "fill", "select", "top", "classes", "done", "crashed"}
    /\ stop \in BOOLEAN
    /\ ready \subseteq Classes \cup {Top}
    /\ todo \in Seq(Classes) /\ got \in Nat
    /\ classes \in Seq(Classes)
    /\ class \in [Classes -> ClassRec]
    /\ conn \in [Classes \cup {Top} -> {"none", "open", "eof", "closed"}]
    /\ inbox \in [Classes -> Seq(InMsg)]
    /\ topbox \in Seq(TopMsg)
    /\ wire \in [Nodes -> Seq(Requests)]
    /\ node \in [Nodes -> {"off", "up", "leaving", "down"}]
    /\ sent \subseteq Requests /\ cancelled \subseteq Requests
    /\ delivered \in [Requests -> Nat]
    /\ toggles \in Nat /\ queries \in Nat /\ losses \in Nat

\* "no class without a node" (osrfRouterClassHandleMessage): a class is in the
\* registry, and has a connection, exactly while it has a node.
NoClassWithoutNode ==
    \A c \in Classes : /\ Registered(c) <=> class[c].nodes # << >>
                       /\ Registered(c) <=> conn[c] # "none"

\* No class and no node is listed twice, a node is listed only under the class
\* it serves, and the iterator of a class never rests on a node that is gone.
RegistryConsistent ==
    /\ \A i, j \in DOMAIN classes : classes[i] = classes[j] => i = j
    /\ \A c \in Classes :
         /\ \A i, j \in DOMAIN class[c].nodes : class[c].nodes[i] = class[c].nodes[j] => i = j
         /\ \A n \in Members(class[c]) : ServiceOf[n] = c
         /\ class[c].pos \in {"at", "before"} => class[c].at \in Members(class[c])

\* The round robin is fair: between two changes to the nodes of a class no node
\* is chosen two times more often than another.
RoundRobin ==
    \A c \in Classes : \A m, n \in Members(class[c]) :
        class[c].turns[m] <= class[c].turns[n] + 1

\* A request reaches at most one listener, at most once, however often it was
\* sent again after an error.
AtMostOnce == \A r \in Requests : delivered[r] <= 1

\* A sender that was told that its request failed is told the truth: no listener
\* has got the request.
CancelledIsUndelivered == \A r \in cancelled : delivered[r] = 0

\* A request has one outcome: a listener gets it once, or its sender is told that it
\* failed, or it is lost (osrfRouterClassHandleBounce, osrfRouterClassHandleMessage).
OneOutcome == AtMostOnce /\ CancelledIsUndelivered

\* While no connection is lost, a listener that asked to be registered and has
\* not exited is in the registry once its command has been read.
RegistrationKept ==
    \A n \in TrustedServers :
        (/\ losses = 0 /\ node[n] = "up"
         /\ \A i \in DOMAIN topbox :
                topbox[i].cmd \in {"register", "unregister"} => topbox[i].from # n)
        => n \in Members(class[ServiceOf[n]])

\* "The presumption is that the relevant node is dead" when an error comes back
\* (osrfRouterClassHandleBounce): a step that handles an error removes no
\* listener that is alive.
BounceRemovesOnlyDead ==
    [][\A c \in Classes : RouteBounce(c) =>
          \A n \in Members(class[c]) : n \in Members(class[c])' \/ node[n] = "down"]_vars

\* A dead node that a request is on its way to is removed from its class in the
\* end, unless the router itself goes away or the error cannot reach it.
DeadNodeRemoved ==
    \A n \in Nodes :
        (node[n] = "down" /\ wire[n] # << >> /\ n \in TrustedClients)
        ~> (n \notin Members(class[ServiceOf[n]]) \/ pc \in {"done", "crashed"})

\* A request that waits on the connection of a class is read in the end, unless
\* the class or the router goes away.
ClassesServed ==
    \A c \in Classes : \A r \in Requests :
        ([kind |-> "request", req |-> r] \in Elems(inbox[c]))
        ~> (\/ [kind |-> "request", req |-> r] \notin Elems(inbox[c])
            \/ pc \in {"done", "crashed"})

-----------------------------------------------------------------------------
(* What comments in the code say and the code does not do.                 *)

\* "A previous message bounced.  Try to send a clone of it to a different node
\* of the same class" (osrfRouterClassHandleIncoming): when an error comes for a
\* registered node and the class has another, the message of the error is sent.
BouncedIsRetried ==
    [][\A c \in Classes :
         (/\ RouteBounce(c) /\ conn[c] = "open"
          /\ Head(inbox[c]).from \in TrustedClients
          /\ Head(inbox[c]).from \in Members(class[c]) /\ Len(class[c].nodes) > 1)
         => \E n \in Nodes : wire'[n] = Append(wire[n], Head(inbox[c]).req)]_vars

\* "To be set by signal handler to interrupt main loop" (osrfRouterStruct.stop):
\* once the switch is set the loop ends.
StopEndsLoop == stop ~> pc \in {"done", "crashed"}

\* "We don't exit the loop until we receive a signal to stop, or until we
\* encounter an error" (osrfRouterRun): asking for the counts of a class does
\* not bring the router down.
SurvivesQueries == pc # "crashed"
=============================================================================
