----------------------------- MODULE MCPrefork ------------------------------
(* Small instances of Prefork for TLC. *)
EXTENDS Prefork, TLC

CONSTANTS m1, m2, m3, m4

ThreePids == 1 .. 3

\* Requests are alike.
Alike == Permutations(Msgs \ (Errors \cup Empties))
=============================================================================
