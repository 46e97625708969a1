--------------------------- MODULE GraphAlgorithms ---------------------------
(***************************************************************************)
(* The lookups of graph.rs, one iteration of their loops per step, on the  *)
(* graphs that the calls of NodeGraph build and on those that come in from *)
(* other worktrees, which may have cycles.  A lookup borrows the graph,    *)
(* which stands still until it has answered.                               *)
(*                                                                         *)
(* Stacks and frontiers are sets: the answers must not depend on the order *)
(* of the pops, and a node that is on a stack twice is skipped the second  *)
(* time.  In topo_order, whose answer is an order, queue and order are one *)
(* sequence: a node popped from the front of the queue is appended to the  *)
(* order, so that the first `popped` nodes of `line` are the order and the *)
(* others the queue.                                                       *)
(***************************************************************************)
EXTENDS NodeGraph

CONSTANT MaxMerged  \* bound: deps come in while the table has so many nodes

ASSUME MergedAssumption == MaxMerged \in Nat

VARIABLES loop,     \* the lookup in progress and its arguments
          visited,  \* the nodes its loop has been at
          todo,     \* the nodes still to look at
          answer,   \* none as long as the loop runs
          topo      \* the locals of topo_order

lookup == <<loop, visited, todo, answer, topo>>

Lookup == {"dep_reaches", "crate_reaches", "transitive_deps",
           "reverse_dep_closure", "containing_crate", "topo_order"}

NoLoop == [fn |-> "none", from |-> NoNode, to |-> NoNode]

(* at: the place in insertion order of the node looked at next.            *)
NoTopo == [line |-> <<>>, popped |-> 0, at |-> 1, degree |-> [n \in Id |-> 0]]

LookupInit ==
  /\ Init
  /\ loop = NoLoop
  /\ visited = {}
  /\ todo = {}
  /\ answer = "none"
  /\ topo = NoTopo

-----------------------------------------------------------------------------
(* Deps of n from a spec that was accepted in another worktree: the rebase *)
(* merges node files and nothing tests the edges against this graph.       *)
Merged(n, D) ==
  /\ call.at = "idle"
  /\ Cardinality(NodesOf(g)) <= MaxMerged
  /\ g' = WithDeps(n, D)
  /\ saved' = g'
  /\ UNCHANGED <<call, links>>

GraphStep ==
  /\ loop = NoLoop
  /\ \/ Next
     \/ \E n \in NodesOf(g) : \E D \in SUBSET (NodesOf(g) \ {n}) : Merged(n, D)
  /\ UNCHANGED lookup

-----------------------------------------------------------------------------
(* Calls: what each function sets up before its loop.                      *)

Call(fn, from, to, seen, first) ==
  /\ loop = NoLoop
  /\ call.at = "idle"
  /\ loop' = [fn |-> fn, from |-> from, to |-> to]
  /\ visited' = seen
  /\ todo' = first
  /\ UNCHANGED vars

CallDepReaches(start, target) ==
  /\ Call("dep_reaches", start, target, {}, {start})
  /\ answer' = IF start = target THEN "true" ELSE "none"
  /\ UNCHANGED topo

(* add_dep calls it for an edge between nodes of different crates, from    *)
(* the one's crate back to the other's, with the edge as `extra`.          *)
CallCrateReaches(from, to) ==
  /\ g.crate[from] # g.crate[to]
  /\ Call("crate_reaches", from, to, {}, {g.crate[to]})
  /\ answer' = "none"
  /\ UNCHANGED topo

CallTransitiveDeps(n) ==
  /\ Call("transitive_deps", n, NoNode, {}, g.deps[n])
  /\ answer' = "none"
  /\ UNCHANGED topo

(* Mutant: the target is not part of what it affects. *)
CallReverseDepClosure_Strict(target) ==
  /\ Call("reverse_dep_closure", target, NoNode, {}, {target})
  /\ answer' = "none"
  /\ UNCHANGED topo

CallReverseDepClosure(target) ==
  /\ Call("reverse_dep_closure", target, NoNode, {target}, {target})
  /\ answer' = "none"
  /\ UNCHANGED topo

CallContainingCrate(n) ==
  /\ Call("containing_crate", n, NoNode, {}, {n})
  /\ answer' = "none"
  /\ UNCHANGED topo

CallTopoOrder ==
  /\ Call("topo_order", NoNode, NoNode, {}, {})
  /\ answer' = "none"
  /\ topo' = [NoTopo EXCEPT !.degree = [n \in Id |-> Cardinality(g.deps[n])]]

-----------------------------------------------------------------------------
(* Loops.                                                                  *)

Running(fn) == loop.fn = fn /\ answer = "none"

(* `while let Some(n) = stack.pop()`, past nodes that were visited.        *)
Pop(n, next) ==
  /\ visited' = visited \cup {n}
  /\ todo' = (todo \ {n}) \cup (IF n \in visited THEN {} ELSE next)
  /\ UNCHANGED answer

Return(value) == answer' = value /\ UNCHANGED <<visited, todo>>

(* The target is looked for among the deps as they are pushed.             *)
DepReaches ==
  /\ Running("dep_reaches")
  /\ \/ \E n \in todo :
          LET Hit == n \notin visited /\ loop.to \in g.deps[n]
          IN  \/ Hit /\ Return("true")
              \/ ~Hit /\ Pop(n, g.deps[n])
     \/ todo = {} /\ Return("false")
  /\ UNCHANGED <<vars, loop, topo>>

(* The target is looked for when it is popped.                             *)
CrateReaches ==
  LET from == g.crate[loop.from]
      to   == g.crate[loop.to]
  IN  /\ Running("crate_reaches")
      /\ \/ \E c \in todo :
              LET Hit   == c \notin visited /\ c = from
                  extra == IF c = from THEN {to} \ {c} ELSE {}
              IN  \/ Hit /\ Return("true")
                  \/ ~Hit /\ Pop(c, CrateDeps(g)[c] \cup extra)
         \/ todo = {} /\ Return("false")
      /\ UNCHANGED <<vars, loop, topo>>

TransitiveDeps ==
  /\ Running("transitive_deps")
  /\ \/ \E n \in todo : Pop(n, g.deps[n])
     \/ todo = {} /\ Return("true")
  /\ UNCHANGED <<vars, loop, topo>>

(* A node enters the closure when it is pushed.                            *)
ReverseDepClosure ==
  /\ Running("reverse_dep_closure")
  /\ \/ \E n \in todo :
          LET parents == {m \in NodesOf(g) : n \in g.deps[m]} \ visited
          IN  /\ visited' = visited \cup parents
              /\ todo' = (todo \ {n}) \cup parents
              /\ UNCHANGED answer
     \/ todo = {} /\ Return("true")
  /\ UNCHANGED <<vars, loop, topo>>

(* Up the parents to the nearest boundary, which remains in todo.          *)
ContainingCrate ==
  /\ Running("containing_crate")
  /\ \E n \in todo :
       \/ g.boundary[n] /\ Return("true")
       \/ ~g.boundary[n] /\ todo' = {g.parent[n]} /\ UNCHANGED <<visited, answer>>
  /\ UNCHANGED <<vars, loop, topo>>

-----------------------------------------------------------------------------
(* topo_order.  While no node is popped, the scan of the table fills the   *)
(* queue with the nodes without deps; after each pop, it takes the popped  *)
(* node from the in-degrees of its dependents and queues those it leaves   *)
(* without.                                                                *)

Popped(t) == t.line[t.popped]

(* Mutant: a dependent is queued by the first of its deps. *)
Scanned_ByFirst(t, m) ==
  LET waits == t.popped > 0 /\ Popped(t) \in g.deps[m]
      ready == IF t.popped = 0 THEN t.degree[m] = 0 ELSE waits
  IN  [t EXCEPT !.degree[m] = IF waits THEN @ - 1 ELSE @,
                !.line = IF ready THEN Append(@, m) ELSE @,
                !.at = @ + 1]

Scanned(t, m) ==
  LET waits == t.popped > 0 /\ Popped(t) \in g.deps[m]
      ready == IF t.popped = 0 THEN t.degree[m] = 0 ELSE waits /\ t.degree[m] = 1
  IN  [t EXCEPT !.degree[m] = IF waits THEN @ - 1 ELSE @,
                !.line = IF ready THEN Append(@, m) ELSE @,
                !.at = @ + 1]

TopoScan ==
  /\ Running("topo_order")
  /\ topo.at \in DOMAIN g.order
  /\ topo' = Scanned(topo, g.order[topo.at])
  /\ UNCHANGED <<vars, loop, visited, todo, answer>>

TopoPop ==
  /\ Running("topo_order")
  /\ topo.at > Len(g.order)
  /\ topo.popped < Len(topo.line)
  /\ topo' = [topo EXCEPT !.popped = @ + 1, !.at = 1]
  /\ UNCHANGED <<vars, loop, visited, todo, answer>>

(* An order, or None when some node was never queued.                      *)
TopoReturn ==
  /\ Running("topo_order")
  /\ topo.at > Len(g.order)
  /\ topo.popped = Len(topo.line)
  /\ Return(IF topo.popped = Len(g.order) THEN "true" ELSE "false")
  /\ UNCHANGED <<vars, loop, topo>>

-----------------------------------------------------------------------------
(* The caller takes the answer.                                            *)
Answered ==
  /\ loop # NoLoop
  /\ answer # "none"
  /\ loop' = NoLoop
  /\ visited' = {}
  /\ todo' = {}
  /\ answer' = "none"
  /\ topo' = NoTopo
  /\ UNCHANGED vars

LookupNext ==
  \/ GraphStep
  \/ \E m, n \in NodesOf(g) : CallDepReaches(m, n) \/ CallCrateReaches(m, n)
  \/ \E n \in NodesOf(g) :
       CallTransitiveDeps(n) \/ CallReverseDepClosure(n) \/ CallContainingCrate(n)
  \/ CallTopoOrder
  \/ DepReaches \/ CrateReaches \/ TransitiveDeps \/ ReverseDepClosure
  \/ ContainingCrate
  \/ TopoScan \/ TopoPop \/ TopoReturn
  \/ Answered

LookupSpec == LookupInit /\ [][LookupNext]_<<vars, lookup>>

-----------------------------------------------------------------------------
(* Properties.                                                             *)

Says(fn, statement) ==
  loop.fn = fn /\ answer # "none" => (answer = "true" <=> statement)

Gives(fn, result, set) ==
  loop.fn = fn /\ answer # "none" => result = set

(* Every lookup answers, on graphs with and without cycles: the searches   *)
(* of add_dep and of the operator's cascade what NodeGraph's DepsAccepted  *)
(* asks, the hypothetical edge making no difference; the forward and the   *)
(* backward closure exactly the nodes that reaching defines, a node being  *)
(* among its own deps only on a cycle; containing_crate the crate that was *)
(* fixed when the node was added.                                          *)
LookupsAgree ==
  LET from == loop.from
      to   == loop.to
  IN  /\ Says("dep_reaches", Reaches(g.deps, from, to))
      /\ Says("crate_reaches", Reaches(CrateDeps(g), g.crate[to], g.crate[from]))
      /\ Gives("transitive_deps", visited,
               {n \in NodesOf(g) : \E d \in g.deps[from] : Reaches(g.deps, d, n)})
      /\ Gives("reverse_dep_closure", visited,
               {n \in NodesOf(g) : Reaches(g.deps, n, from)})
      /\ Gives("containing_crate", todo, {g.crate[from]})

(* pick_next_ready's order: there is one exactly if there is no cycle; it  *)
(* holds every node once, deps before dependents, and nodes that wait for  *)
(* nothing in insertion order.                                             *)
TopoOrderSound ==
  LET order    == topo.line
      Source(n) == g.deps[n] = {}
      Before(s, m, n) == \E i, j \in DOMAIN s : i < j /\ s[i] = m /\ s[j] = n
  IN  /\ Says("topo_order", Acyclic(g.deps))
      /\ loop.fn = "topo_order" /\ answer = "true" =>
           /\ \A n \in NodesOf(g) : \E i \in DOMAIN order : order[i] = n
           /\ \A i, j \in DOMAIN order : order[i] = order[j] => i = j
           /\ \A n \in NodesOf(g) : \A d \in g.deps[n] : Before(order, d, n)
           /\ \A m, n \in NodesOf(g) :
                Source(m) /\ Source(n) /\ Before(g.order, m, n) => Before(order, m, n)
=============================================================================
