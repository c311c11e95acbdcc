---------------------------- MODULE MCCoroutine -----------------------------
EXTENDS Coroutine

CONSTANTS g1, g2, g3, f1, f2

(* A generator may have a try block, or a fiber. *)
MCPrograms == {{g1}, {f1}}

Alike == Permutations({g2, g3})
=============================================================================
