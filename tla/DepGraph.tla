------------------------------ MODULE DepGraph ------------------------------
(***************************************************************************)
(* Dependency edges: deps maps every node to the set of nodes it depends   *)
(* on (Node.deps in graph.rs).  The operators are stated with closed sets  *)
(* instead of recursion so that proofs can use them.                       *)
(***************************************************************************)

(* A set of nodes that no dep edge leaves.                                 *)
Closed(deps, S) == \A n \in S : deps[n] \subseteq S

(* dep_reaches: `to` is `from` itself or reached from it along dep edges,  *)
(* that is, no closed set holds `from` without `to`.                       *)
Reaches(deps, from, to) ==
  \A S \in SUBSET DOMAIN deps : from \in S /\ Closed(deps, S) => to \in S

(* What topo_order finds an order for: every set of nodes has a member     *)
(* that depends on no member of it.                                        *)
Acyclic(deps) ==
  \A S \in (SUBSET DOMAIN deps) \ {{}} : \E n \in S : deps[n] \cap S = {}

(* Mutant: add_dep looks for the direct counter-edge only. *)
Acceptable_DirectOnly(deps, n, D) == \A d \in D : d # n /\ n \notin deps[d]

(* The dep edges a batch of add_dep calls, all from node n, may add.       *)
(* Edges out of n do not change who reaches n: each is judged alone.       *)
Acceptable(deps, n, D) ==
  \A d \in D : d # n /\ ~Reaches(deps, d, n)

AddEdges(deps, n, D) == [deps EXCEPT ![n] = @ \cup D]
=============================================================================
