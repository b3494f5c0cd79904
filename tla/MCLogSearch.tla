---------------------------- MODULE MCLogSearch ----------------------------
(* Small instances of LogSearch for TLC.                                   *)
EXTENDS LogSearch, TLC

CONSTANTS g1, t1, t2, h1, h2

(* Concurrent requests are interchangeable.                                *)
Symmetry == Permutations(Handlers)
=============================================================================
