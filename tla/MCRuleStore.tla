----------------------------- MODULE MCRuleStore -----------------------------
(* RuleStore on small instances; tasks and registries are alike. *)
EXTENDS RuleStore, TLC

Symmetry == Permutations(Task) \cup Permutations(Registry)
=============================================================================
