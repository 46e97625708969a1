------------------------------- MODULE Stages -------------------------------
(***************************************************************************)
(* The node tree, the stage board, and the readiness rules of bureau-rs.   *)
(*                                                                         *)
(* A board st maps every node to its six stage states (graph.rs,           *)
(* NodeStages).  A tree t is the topology the architect produced: the set  *)
(* of nodes, each node's parent in the filesystem tree and its dep edges.  *)
(* Everything here is a pure function of a tree and a board; the modules   *)
(* Board, Pipeline and Restart give them dynamics.                         *)
(***************************************************************************)
EXTENDS Naturals, DepGraph

CONSTANTS Node,     \* every node that any tree may contain
          Root,     \* the workspace root
          NoNode    \* the parent of the root (Option::None in the code)

ASSUME RootAssumption == Root \in Node /\ NoNode \notin Node

Stage == {"architect", "spec", "iface", "tests", "impl", "debug"}

StageState == {"NotStarted", "InProgress", "Done", "Failed"}

(* Stage::ALL lists the stages in this order. *)
Rank == [architect |-> 0, spec |-> 1, iface |-> 2, tests |-> 3, impl |-> 4,
         debug |-> 5]

BoardType == [Node -> [Stage -> StageState]]

EmptyBoard == [n \in Node |-> [s \in Stage |-> "NotStarted"]]

(***************************************************************************)
(* Trees.  Nodes outside t.nodes carry no parent and no deps.              *)
(***************************************************************************)
TreeType == [nodes  : SUBSET Node,
             parent : [Node -> Node \cup {NoNode}],
             deps   : [Node -> SUBSET Node]]

NoDeps == [n \in Node |-> {}]

EmptyTree == [nodes  |-> {},
              parent |-> [n \in Node |-> NoNode],
              deps   |-> NoDeps]

SeedTree == [EmptyTree EXCEPT !.nodes = {Root}]

Children(t, n) == {c \in t.nodes : t.parent[c] = n}

(* The impl stage of a node waits for the impl of its deps and children.   *)
WaitsFor(t) == [n \in Node |-> t.deps[n] \cup Children(t, n)]

(* What NodeGraph's constructors guarantee of every tree they build: one   *)
(* root, every other node's parent and every dep inside the tree.          *)
WellFormedTree(t) ==
  /\ t \in TreeType
  /\ Root \in t.nodes
  /\ \A n \in t.nodes : /\ t.parent[n] = NoNode <=> n = Root
                        /\ t.parent[n] \in t.nodes \cup {NoNode}
                        /\ t.deps[n] \subseteq t.nodes
  /\ \A n \in Node \ t.nodes : t.parent[n] = NoNode /\ t.deps[n] = {}

(* t adds nodes to u and leaves the nodes of u as they were: what a        *)
(* submit_architecture call can do to a tree that already has nodes.  The  *)
(* call resolves names among the nodes it declares and the root, so no new *)
(* node hangs under or depends on another old one.                         *)
Extends(t, u) ==
  /\ u.nodes \subseteq t.nodes
  /\ \A n \in u.nodes : t.parent[n] = u.parent[n] /\ t.deps[n] = u.deps[n]
  /\ \A n \in t.nodes \ u.nodes :
       ({t.parent[n]} \cup t.deps[n]) \cap u.nodes \subseteq {Root}

(***************************************************************************)
(* Readiness.                                                              *)
(***************************************************************************)
IsDone(st, n, s) == st[n][s] = "Done"

IsTerminal(st, n, s) == st[n][s] \in {"Done", "Failed"}

(* The part of stage_is_ready that is about the other stages of the board. *)
Prerequisite(t, st, n, s) ==
  /\ s = "architect" => t.parent[n] = NoNode
  /\ s = "spec" =>
       /\ IsDone(st, Root, "architect")
       /\ t.parent[n] # NoNode => IsDone(st, t.parent[n], "spec")
  /\ s = "iface" =>
       /\ IsDone(st, n, "spec")
       /\ \A d \in t.deps[n] : IsDone(st, d, "iface")
  /\ s = "tests" =>
       /\ IsDone(st, n, "iface")
       /\ \A d \in t.deps[n] : IsDone(st, d, "iface")
  /\ s = "impl" =>
       /\ IsDone(st, n, "tests")
       /\ \A d \in t.deps[n] \cup Children(t, n) : IsDone(st, d, "impl")
  /\ s = "debug" =>
       /\ st[n]["impl"] = "Failed"
       /\ \A c \in Children(t, n) : IsTerminal(st, c, "impl")

(* Mutant: impl waits for its own tests only. *)
StageIsReady_ImplIgnoresOthers(t, st, n, s) ==
  /\ n \in t.nodes
  /\ st[n][s] = "NotStarted"
  /\ Prerequisite(t, st, n, s) \/ (s = "impl" /\ IsDone(st, n, "tests"))

StageIsReady(t, st, n, s) ==
  /\ n \in t.nodes
  /\ st[n][s] = "NotStarted"
  /\ Prerequisite(t, st, n, s)

(* Mutant: a stage may be picked again whatever its state is. *)
NextReady_AnyState(t, st) ==
  {p \in t.nodes \X Stage : Acyclic(t.deps) /\ Prerequisite(t, st, p[1], p[2])}

(* The (node, stage) pairs pick_next_ready may return.  Stages come first, *)
(* in the order of Stage::ALL; within a stage the code takes the first     *)
(* node of a topological order whose ties follow the order in which the    *)
(* architect happened to list the nodes, so any ready node may come first. *)
(* With a dep cycle there is no topological order and nothing is picked.   *)
NextReady(t, st) ==
  {p \in t.nodes \X Stage :
     /\ Acyclic(t.deps)
     /\ StageIsReady(t, st, p[1], p[2])
     /\ \A m \in t.nodes, s \in Stage :
          StageIsReady(t, st, m, s) => Rank[p[2]] <= Rank[s]}

(* Mutant: all_done asks for every stage, debug included. *)
AllDone_EveryStage(t, st) ==
  \A n \in t.nodes, s \in Stage \ {"architect"} : IsDone(st, n, s)

(* all_done: the architect ran and every node has its four products.       *)
AllDone(t, st) ==
  /\ Root \in t.nodes => IsDone(st, Root, "architect")
  /\ \A n \in t.nodes, s \in {"spec", "iface", "tests", "impl"} : IsDone(st, n, s)

(***************************************************************************)
(* Resets.                                                                 *)
(***************************************************************************)
(* Mutant: the cascade runs towards the earlier stages. *)
ResetStaleRow_Backwards(row) ==
  [s \in Stage |->
     IF \E p \in Stage : Rank[s] <= Rank[p] /\ row[p] = "InProgress"
     THEN "NotStarted" ELSE row[s]]

(* reset_stale_inprogress on one node: cascade from the EARLIEST stage     *)
(* left InProgress, so a stage is reset when it or an earlier stage is.    *)
ResetStaleRow(row) ==
  [s \in Stage |->
     IF \E p \in Stage : Rank[p] <= Rank[s] /\ row[p] = "InProgress"
     THEN "NotStarted" ELSE row[s]]

(* Mutant: failed stages get another chance at restart. *)
ResetStale_FailedToo(st) ==
  [n \in Node |-> [s \in Stage |->
     IF st[n][s] \in {"InProgress", "Failed"} THEN "NotStarted" ELSE st[n][s]]]

ResetStale(st) == [n \in Node |-> ResetStaleRow(st[n])]

(***************************************************************************)
(* Properties of boards that several modules check.                        *)
(***************************************************************************)
(* Every stage that has left NotStarted did so with its prerequisites met, *)
(* and they still are met.                                                 *)
Ordered(t, st) ==
  \A n \in t.nodes, s \in Stage :
    st[n][s] # "NotStarted" => Prerequisite(t, st, n, s)

(* Stages of nodes that are not in the tree have not moved.                *)
Untouched(t, st) ==
  \A n \in Node \ t.nodes, s \in Stage : st[n][s] = "NotStarted"
=============================================================================
