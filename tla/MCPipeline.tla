----------------------------- MODULE MCPipeline -----------------------------
(***************************************************************************)
(* Instances of Pipeline for TLC.  The trees are not a hand-picked sample: *)
(* they are all the trees over a three-node universe that add_child and    *)
(* add_dep can build, split by whether the implementation order they ask   *)
(* for exists.                                                             *)
(***************************************************************************)
EXTENDS Pipeline, TLC

Others == Node \ {Root}

(* Parents as add_child assigns them: the root or another new node, with   *)
(* every chain of parents ending at the root.                              *)
ParentChoices(ns) ==
  {p \in [ns \ {Root} -> ns] :
     \A S \in (SUBSET (ns \ {Root})) \ {{}} : \E n \in S : p[n] \notin S}

(* Deps as submit_architecture adds them: from a new node to the root or   *)
(* to another new node, and acyclic.                                       *)
DepChoices(ns) ==
  {d \in [ns \ {Root} -> SUBSET ns] :
     \A S \in (SUBSET (ns \ {Root})) \ {{}} : \E n \in S : d[n] \cap S = {}}

MakeTree(ns, p, d) ==
  [nodes  |-> ns,
   parent |-> [n \in Node |-> IF n \in ns \ {Root} THEN p[n] ELSE NoNode],
   deps   |-> [n \in Node |-> IF n \in ns \ {Root} THEN d[n] ELSE {}]]

BuildableTrees ==
  {SeedTree} \cup
  UNION {{MakeTree(ns, p, d) : p \in ParentChoices(ns), d \in DepChoices(ns)} :
           ns \in {X \in SUBSET Node : Root \in X /\ X # {Root}}}

LayeredTrees == {t \in BuildableTrees : Acyclic(WaitsFor(t))}

(* A two-node tree and the bare root, for the runs about one node.         *)
SmallTrees ==
  {SeedTree} \cup
  {MakeTree({Root, n}, [m \in {n} |-> Root], [m \in {n} |-> {}]) : n \in Others}

(* Siblings without deps: what their specs add is all there is.            *)
FlatTree == MakeTree(Node, [n \in Others |-> Root], [n \in Others |-> {}])
FlatTrees == {SeedTree, FlatTree}

Symmetry == Permutations(Others) \cup Permutations(Slots)
=============================================================================
