------------------------------ MODULE MCRouter ------------------------------
(* Small instances of Router for TLC. *)
EXTENDS Router, TLC

CONSTANTS a, b, n1, n2, n3, r1, r2, r3

\* Each class has one listener.
OneEach == (n1 :> a) @@ (n2 :> b)

\* All listeners serve class a.
AllOfA == [n \in Nodes |-> a]

\* A request stands for its sender; all are trusted, or all but the sender of r1.
AllNodes == Nodes
Everybody == Nodes \cup Requests
AllButOne == (Nodes \cup Requests) \ {r1}

InterchangeableAll == Permutations(Requests) \cup Permutations(Nodes)
=============================================================================
