---------------------------- MODULE MCTestRunner ----------------------------
(* Four jobs: two that share a key, one without a key and an exclusive one that
   names the key as well.  *)
EXTENDS TestRunner, TLC

CONSTANTS a, w1, w2

MCJob == 0 .. 3
MCConflicts == (0 :> {a}) @@ (1 :> {a}) @@ (2 :> {}) @@ (3 :> {a})
MCWorker == {w1, w2}
MCThread == MCWorker \cup {main}
=============================================================================
