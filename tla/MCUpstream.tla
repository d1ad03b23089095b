----------------------------- MODULE MCUpstream -----------------------------
(* Upstream on small instances: symmetry of hosts, connections and timers. *)
EXTENDS Upstream, TLC

Symmetry == Permutations(Host \ InterimHost) \cup Permutations(InterimHost) \cup Permutations(ConnId) \cup Permutations(TimerId)
=============================================================================
