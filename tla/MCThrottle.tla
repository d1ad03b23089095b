----------------------------- MODULE MCThrottle -----------------------------
(* Throttle on small instances; the bodies are alike. *)
EXTENDS Throttle, TLC

Symmetry == Permutations(Reader)
=============================================================================
