---------------------------- MODULE MCRuntimePool ----------------------------
(* Instances of RuntimePool for TLC. Requests and runtimes are             *)
(* interchangeable, so safety runs may use symmetry.                       *)
EXTENDS RuntimePool, TLC

Symmetry == Permutations(Request) \cup Permutations(Runtime)
=============================================================================
