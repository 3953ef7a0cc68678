----------------------------- MODULE StepGraph -----------------------------
(* What it means for a dependency relation between steps to be a cycle,      *)
(* stated without reference to any algorithm: deps[s] is the set of steps s  *)
(* depends on.                                                               *)

(* A nonempty set of steps each of which waits for another one of the set. *)
Knot(S, deps) == S # {} /\ \A s \in S : deps[s] \cap S # {}

Acyclic(deps) == \A S \in SUBSET DOMAIN deps : ~Knot(S, deps)
=============================================================================
