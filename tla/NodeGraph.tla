------------------------------ MODULE NodeGraph ------------------------------
(***************************************************************************)
(* NodeGraph of graph.rs and the calls that build it: ensure_root_seeded,  *)
(* submit_architecture (nodes first, then their dep edges, saved only when *)
(* all of them were accepted) and submit_spec (dep edges of one node).     *)
(*                                                                         *)
(* A graph is kept as the code keeps it, a table of nodes in insertion     *)
(* order.  crate[n] is what containing_crate(n) walks up to: parents and   *)
(* boundaries never change, so it is fixed when the node is added.         *)
(***************************************************************************)
EXTENDS Naturals, Sequences, FiniteSets, DepGraph

CONSTANTS Id,        \* node ids
          NoNode,    \* no parent, no root
          Name,      \* node names
          NoName,    \* what an id outside the table is called
          MaxCalls,  \* bound: submit_architecture calls
          MaxDeps,   \* bound: dep edges one of them lists
          MaxLinks   \* bound: submit_spec calls that add a dep

ASSUME GraphAssumption ==
  /\ NoNode \notin Id
  /\ NoName \notin Name
  /\ MaxCalls \in Nat
  /\ MaxDeps \in Nat
  /\ MaxLinks \in Nat

VARIABLES g,       \* the graph in the caller's hands
          saved,   \* the graph as graph::save last wrote it
          call,    \* the submit_architecture call in progress
          links    \* submit_spec deps so far

vars == <<g, saved, call, links>>

NodesOf(h) == {h.order[i] : i \in DOMAIN h.order}

GraphType == [order    : Seq(Id),
              root     : Id \cup {NoNode},
              name     : [Id -> Name \cup {NoName}],
              parent   : [Id -> Id \cup {NoNode}],
              boundary : [Id -> BOOLEAN],
              crate    : [Id -> Id \cup {NoNode}],
              deps     : [Id -> SUBSET Id]]

(* Ids that are not in the table yet have neither name nor place.          *)
EmptyGraph == [order    |-> <<>>,
               root     |-> NoNode,
               name     |-> [n \in Id |-> NoName],
               parent   |-> [n \in Id |-> NoNode],
               boundary |-> [n \in Id |-> FALSE],
               crate    |-> [n \in Id |-> NoNode],
               deps     |-> [n \in Id |-> {}]]

(* at: idle, adding nodes, or adding their deps; new: the nodes of the     *)
(* call; declared: the dep edges it lists; calls: how many there were.     *)
Idle == [at |-> "idle", new |-> {}, declared |-> {}, calls |-> 0]

Init ==
  /\ g = EmptyGraph
  /\ saved = EmptyGraph
  /\ call = Idle
  /\ links = 0

-----------------------------------------------------------------------------
(* Crate c needs crate d when a node of c depends on a node of d # c.      *)
CrateDeps(h) ==
  [c \in Id |->
     {h.crate[d] : d \in UNION {h.deps[n] : n \in {m \in Id : h.crate[m] = c}}}
       \ {c}]

(* insert_root, and the render that saves it.                              *)
InsertRoot(n, nm) ==
  /\ g.root = NoNode
  /\ g' = [g EXCEPT !.order = Append(@, n), !.root = n, !.name[n] = nm,
                    !.boundary[n] = TRUE, !.crate[n] = n]
  /\ saved' = g'
  /\ UNCHANGED <<call, links>>

BeginCall ==
  /\ g.root # NoNode
  /\ call.at = "idle"
  /\ call.calls < MaxCalls
  /\ call' = [at |-> "nodes", new |-> {}, declared |-> {},
              calls |-> call.calls + 1]
  /\ UNCHANGED <<g, saved, links>>

(* Names are unique within the call and differ from the root's.            *)
FreshName(nm) ==
  /\ nm # g.name[g.root]
  /\ \A n \in call.new : g.name[n] # nm

(* add_child's own rule. *)
UniqueSibling(p, nm) ==
  \A n \in NodesOf(g) : ~(g.parent[n] = p /\ g.name[n] = nm)

(* add_child, under the root or a node of the same call.                   *)
AddChild(p, n, nm, b) ==
  /\ call.at = "nodes"
  /\ p \in call.new \cup {g.root}
  /\ n \notin NodesOf(g)
  /\ FreshName(nm)
  /\ UniqueSibling(p, nm)
  /\ g' = [g EXCEPT !.order = Append(@, n), !.name[n] = nm, !.parent[n] = p,
                    !.boundary[n] = b,
                    !.crate[n] = IF b THEN n ELSE g.crate[p]]
  /\ call' = [call EXCEPT !.new = @ \cup {n}]
  /\ UNCHANGED <<saved, links>>

(* The deps the call lists, by name: of its nodes, on its nodes or the root. *)
NodesAdded(D) ==
  /\ call.at = "nodes"
  /\ Cardinality(D) <= MaxDeps
  /\ call' = [call EXCEPT !.at = "deps", !.declared = D]
  /\ UNCHANGED <<g, saved, links>>

(* Mutant: only the nodes are checked for cycles. *)
DepsAccepted_NodesOnly(n, D) == Acceptable(g.deps, n, D)

(* The two cycle checks of each add_dep from node n: between nodes, and    *)
(* between crates.                                                         *)
DepsAccepted(n, D) ==
  /\ Acceptable(g.deps, n, D)
  /\ Acceptable(CrateDeps(g), g.crate[n], {g.crate[d] : d \in D} \ {g.crate[n]})

WithDeps(n, D) == [g EXCEPT !.deps = AddEdges(@, n, D)]

(* The listed deps that add_dep has not taken yet.                         *)
Pending == {e \in call.declared : e[2] \notin g.deps[e[1]]}

AddDep(from, to) ==
  /\ call.at = "deps"
  /\ <<from, to>> \in Pending
  /\ DepsAccepted(from, {to})
  /\ g' = WithDeps(from, {to})
  /\ UNCHANGED <<saved, call, links>>

(* A name or a listed dep is refused.                                      *)
Refused ==
  \/ call.at = "nodes"
  \/ call.at = "deps" /\ \E e \in Pending : ~DepsAccepted(e[1], {e[2]})

(* Mutant: the graph is saved as the nodes come in. *)
FailCall_Keeps ==
  /\ Refused
  /\ call' = [call EXCEPT !.at = "idle"]
  /\ saved' = g
  /\ UNCHANGED <<g, links>>

(* Nothing of a refused call is saved; the next loads the graph again.     *)
FailCall ==
  /\ Refused
  /\ g' = saved
  /\ call' = [call EXCEPT !.at = "idle"]
  /\ UNCHANGED <<saved, links>>

EndCall ==
  /\ call.at = "deps"
  /\ Pending = {}
  /\ saved' = g
  /\ call' = [call EXCEPT !.at = "idle"]
  /\ UNCHANGED <<g, links>>

(* find_by_name: the first node of that name, in insertion order.          *)
FirstNamed(n) ==
  \A i, j \in DOMAIN g.order :
    g.order[i] = n /\ g.name[g.order[j]] = g.name[n] => i <= j

(* submit_spec: the node's deps on others, found by name; all of them are  *)
(* accepted and saved, or none.                                            *)
SpecDeps(n, D) ==
  /\ call.at = "idle"
  /\ links < MaxLinks
  /\ \A d \in D : FirstNamed(d) /\ g.name[d] # g.name[n]
  /\ DepsAccepted(n, D)
  /\ g' = WithDeps(n, D)
  /\ saved' = g'
  /\ links' = links + 1
  /\ UNCHANGED call

Next ==
  \/ \E n \in Id, nm \in Name : InsertRoot(n, nm)
  \/ BeginCall
  \/ \E p, n \in Id, nm \in Name, b \in BOOLEAN : AddChild(p, n, nm, b)
  \/ \E D \in SUBSET (call.new \X (call.new \cup {g.root})) : NodesAdded(D)
  \/ \E from, to \in Id : AddDep(from, to)
  \/ \E n \in NodesOf(g) : \E D \in SUBSET NodesOf(g) : SpecDeps(n, D)
  \/ FailCall
  \/ EndCall

Spec == Init /\ [][Next]_vars

-----------------------------------------------------------------------------
(* Properties.                                                             *)

(* Every node hangs in one tree, in a crate, with its deps in the table;   *)
(* ids outside the table have no edges.                                    *)
Rooted(h) ==
  /\ h.root # NoNode <=> NodesOf(h) # {}
  /\ h.root # NoNode => h.root \in NodesOf(h) /\ h.crate[h.root] = h.root
  /\ \A n \in NodesOf(h) : /\ n # h.root => h.parent[n] \in NodesOf(h)
                           /\ h.crate[n] \in NodesOf(h)
                           /\ h.deps[n] \subseteq NodesOf(h)
  /\ \A n \in Id \ NodesOf(h) : h.deps[n] = {} /\ h.crate[n] = NoNode

TypeOK ==
  /\ g \in GraphType /\ Rooted(g)
  /\ saved \in GraphType /\ Rooted(saved)
  /\ call \in [at : {"idle", "nodes", "deps"}, new : SUBSET Id,
               declared : SUBSET (Id \X Id), calls : Nat]
  /\ links \in Nat

(* No chain of deps leads from a node back to itself, whatever calls were  *)
(* made, refused or abandoned halfway.                                     *)
NodesAcyclic == Acyclic(g.deps) /\ Acyclic(saved.deps)

(* Nor do the crates depend on each other in a circle, which cargo would   *)
(* reject although no node is on a cycle.                                  *)
CratesAcyclic == Acyclic(CrateDeps(g)) /\ Acyclic(CrateDeps(saved))

(* submit_architecture is all or nothing: when one node of a call is on    *)
(* disk, so are all of them, with every dep the call listed, however the   *)
(* call was refused on the way.                                            *)
AllOrNothing ==
  call.at = "idle" /\ call.new \cap NodesOf(saved) # {} =>
    /\ call.new \subseteq NodesOf(saved)
    /\ \A e \in call.declared : e[2] \in saved.deps[e[1]]
=============================================================================
