--------------------------- MODULE NodeGraphProofs ---------------------------
(***************************************************************************)
(* Proofs about NodeGraph and GraphAlgorithms for every set of nodes and   *)
(* names and any number of calls: neither nodes nor crates ever depend on  *)
(* each other in a circle, submit_architecture is all or nothing, and the  *)
(* loops of the lookups answer what their declarative definitions say.     *)
(***************************************************************************)
EXTENDS GraphAlgorithms, DepGraphProofs, FunctionTheorems, TLAPS

-----------------------------------------------------------------------------
(* The inductive invariant.                                                *)

(* A node is in the table once.                                            *)
Ordered(h) == \A i, j \in DOMAIN h.order : h.order[i] = h.order[j] => i = j

(* A node is in the crate it is the boundary of, or in its parent's.       *)
InCrates(h) ==
  /\ h.root # NoNode => h.boundary[h.root]
  /\ \A n \in NodesOf(h) :
       /\ h.boundary[n] => h.crate[n] = n
       /\ ~h.boundary[n] => h.crate[n] = h.crate[h.parent[n]]

(* What holds of a graph in hand and of a graph on disk.                   *)
GraphOK(h) == h \in GraphType /\ Rooted(h) /\ Ordered(h) /\ InCrates(h)

(* Between calls, the graph is the one on disk; nodes of a call are on     *)
(* disk only once it has ended.                                            *)
IdleOK ==
  /\ g = saved
  /\ call.new # {} => g.root # NoNode
  /\ call.new \cap NodesOf(g) # {} =>
       call.new \subseteq NodesOf(g) /\ Pending = {}

BusyOK ==
  /\ g.root # NoNode /\ saved.root # NoNode
  /\ call.new \subseteq NodesOf(g)
  /\ call.new \cap NodesOf(saved) = {}
  /\ NodesOf(saved) \subseteq NodesOf(g)
  /\ call.declared \subseteq call.new \X (call.new \cup {g.root})

Inv ==
  /\ TypeOK
  /\ GraphOK(g)
  /\ GraphOK(saved)
  /\ IF call.at = "idle" THEN IdleOK ELSE BusyOK

(* What add_dep's two tests add to it.                                     *)
NoCycles(h) == Acyclic(h.deps) /\ Acyclic(CrateDeps(h))

-----------------------------------------------------------------------------
(* Lemmas about graphs.                                                    *)

(* Crates depend on crates.                                                *)
LEMMA CrateDepsType ==
  ASSUME GraphAssumption, NEW h \in GraphType, Rooted(h)
  PROVE CrateDeps(h) \in [Id -> SUBSET Id]
<1> SUFFICES ASSUME NEW c \in Id, NEW n \in Id, h.crate[n] = c, NEW d \in h.deps[n]
             PROVE h.crate[d] \in Id
  BY DEF CrateDeps, GraphType
<1>1. n \in NodesOf(h)
  BY DEF Rooted, GraphAssumption
<1>2. d \in NodesOf(h) /\ h.crate[d] \in NodesOf(h)
  BY <1>1 DEF Rooted
<1> QED BY <1>2 DEF NodesOf, GraphType

(* What Append does to the nodes of a table.                               *)
LEMMA NodesOfAppend ==
  ASSUME NEW h \in GraphType, NEW k \in GraphType, NEW n \in Id,
         k.order = Append(h.order, n)
  PROVE /\ NodesOf(k) = NodesOf(h) \cup {n}
        /\ Ordered(h) /\ n \notin NodesOf(h) => Ordered(k)
<1>1. h.order \in Seq(Id)
  BY DEF GraphType
<1> DEFINE s == h.order
<1>2. /\ Len(k.order) = Len(s) + 1
      /\ \A i \in 1..Len(s) : k.order[i] = s[i]
      /\ k.order[Len(s) + 1] = n
      /\ DOMAIN k.order = 1..(Len(s) + 1)
      /\ DOMAIN s = 1..Len(s)
      /\ Len(s) \in Nat
  BY <1>1
<1>3. NodesOf(k) \subseteq NodesOf(h) \cup {n}
  BY <1>2 DEF NodesOf
<1>4. NodesOf(h) \cup {n} \subseteq NodesOf(k)
  BY <1>2 DEF NodesOf
<1>5. ASSUME Ordered(h), n \notin NodesOf(h)
      PROVE Ordered(k)
  <2>1. \A i \in 1..Len(s) : s[i] # n
    BY <1>2, <1>5 DEF NodesOf
  <2>2. \A i, j \in 1..Len(s) : s[i] = s[j] => i = j
    BY <1>2, <1>5 DEF Ordered
  <2> SUFFICES ASSUME NEW i \in 1..(Len(s) + 1), NEW j \in 1..(Len(s) + 1),
                      k.order[i] = k.order[j]
               PROVE i = j
    BY <1>2 DEF Ordered
  <2> QED BY <1>2, <2>1, <2>2
<1> QED BY <1>3, <1>4, <1>5

(* A new node has no deps and nobody depends on it: the crates depend on   *)
(* each other as before.                                                   *)
LEMMA NewNodeKeepsCrates ==
  ASSUME GraphAssumption, NEW h \in GraphType, Rooted(h),
         NEW k \in GraphType, NEW n \in Id \ NodesOf(h),
         k.deps = h.deps, \A m \in Id \ {n} : k.crate[m] = h.crate[m]
  PROVE CrateDeps(k) = CrateDeps(h)
<1>1. h.deps[n] = {} /\ h.crate[n] = NoNode
  BY DEF Rooted
<1>2. \A m \in Id : n \notin h.deps[m]
  BY DEF Rooted
<1> DEFINE Needed(f, c) ==
       {f.crate[d] : d \in UNION {f.deps[m] : m \in {m \in Id : f.crate[m] = c}}}
<1>3. ASSUME NEW c \in Id PROVE Needed(k, c) = Needed(h, c)
  <2> DEFINE DK == UNION {k.deps[m] : m \in {m \in Id : k.crate[m] = c}}
             DH == UNION {h.deps[m] : m \in {m \in Id : h.crate[m] = c}}
  <2>1. DK = DH
    BY <1>1
  <2>2. n \notin DH /\ DH \subseteq Id
    BY <1>2 DEF GraphType
  <2>3. \A d \in DH : k.crate[d] = h.crate[d]
    BY <2>2
  <2> QED BY <2>1, <2>3
<1> QED BY <1>3 DEF CrateDeps

(* Deps of node n are edges out of n's crate.                              *)
LEMMA NewDepsAreCrateEdges ==
  ASSUME GraphAssumption, NEW h \in GraphType, Rooted(h),
         NEW n \in NodesOf(h), NEW D \in SUBSET NodesOf(h),
         NEW k \in GraphType, k.crate = h.crate, k.deps = AddEdges(h.deps, n, D)
  PROVE CrateDeps(k) = AddEdges(CrateDeps(h), h.crate[n],
                                {h.crate[d] : d \in D} \ {h.crate[n]})
<1>1. n \in Id /\ D \subseteq Id /\ h.crate[n] \in Id
  <2>1. NodesOf(h) \subseteq Id
    BY DEF NodesOf, GraphType
  <2> QED BY <2>1 DEF Rooted
<1>2. /\ k.deps[n] = h.deps[n] \cup D
      /\ \A m \in Id \ {n} : k.deps[m] = h.deps[m]
  BY <1>1 DEF AddEdges, GraphType
<1> DEFINE Out(f, c) == UNION {f.deps[m] : m \in {m \in Id : f.crate[m] = c}}
           More == {h.crate[d] : d \in D} \ {h.crate[n]}
<1>3. Out(k, h.crate[n]) = Out(h, h.crate[n]) \cup D
  BY <1>1, <1>2
<1>4. \A c \in Id \ {h.crate[n]} : Out(k, c) = Out(h, c)
  BY <1>2
<1>5. \A c \in Id : CrateDeps(k)[c] = {h.crate[d] : d \in Out(k, c)} \ {c}
  BY DEF CrateDeps
<1>6. \A c \in Id : CrateDeps(h)[c] = {h.crate[d] : d \in Out(h, c)} \ {c}
  BY DEF CrateDeps
<1> HIDE DEF Out
<1>7. CrateDeps(k)[h.crate[n]] = CrateDeps(h)[h.crate[n]] \cup More
  BY <1>1, <1>3, <1>5, <1>6
<1>8. \A c \in Id \ {h.crate[n]} : CrateDeps(k)[c] = CrateDeps(h)[c]
  BY <1>4, <1>5, <1>6
<1>9. /\ DOMAIN CrateDeps(k) = Id /\ DOMAIN CrateDeps(h) = Id
      /\ CrateDeps(k) = [c \in Id |-> CrateDeps(k)[c]]
  BY DEF CrateDeps
<1> HIDE DEF More
<1>10. AddEdges(CrateDeps(h), h.crate[n], More)
         = [c \in Id |-> IF c = h.crate[n] THEN CrateDeps(h)[c] \cup More
                         ELSE CrateDeps(h)[c]]
  BY <1>1, <1>9 DEF AddEdges
<1>11. \A c \in Id : CrateDeps(k)[c] = IF c = h.crate[n]
                                       THEN CrateDeps(h)[c] \cup More
                                       ELSE CrateDeps(h)[c]
  BY <1>7, <1>8
<1> QED BY <1>9, <1>10, <1>11 DEF More

(* A node added to the table keeps the graph in order.                     *)
LEMMA NewNodeKeepsGraph ==
  ASSUME GraphAssumption, NEW h, GraphOK(h), NEW n \in Id \ NodesOf(h),
         NEW k \in GraphType, k.order = Append(h.order, n), k.deps = h.deps,
         \A m \in Id \ {n} : /\ k.crate[m] = h.crate[m]
                             /\ k.parent[m] = h.parent[m]
                             /\ k.boundary[m] = h.boundary[m],
         k.crate[n] \in NodesOf(h) \cup {n},
         k.boundary[n] => k.crate[n] = n,
         ~k.boundary[n] => k.crate[n] = h.crate[k.parent[n]],
         \/ /\ h.root = NoNode /\ k.root = n /\ k.boundary[n]
         \/ /\ h.root # NoNode /\ k.root = h.root
            /\ k.parent[n] \in NodesOf(h)
  PROVE GraphOK(k) /\ CrateDeps(k) = CrateDeps(h)
<1> USE DEF GraphOK
<1>1. NodesOf(k) = NodesOf(h) \cup {n} /\ n \in Id /\ Ordered(k)
  BY NodesOfAppend
<1>2. CrateDeps(k) = CrateDeps(h)
  BY NewNodeKeepsCrates
<1>3. NodesOf(h) \subseteq Id
  BY DEF NodesOf, GraphType
<1>4. h.deps[n] = {}
  BY DEF Rooted
<1>5. k.root # NoNode /\ k.root \in NodesOf(k) /\ k.crate[k.root] = k.root
  BY <1>1, <1>3 DEF Rooted, GraphAssumption
<1>6. ASSUME NEW m \in NodesOf(k)
      PROVE /\ m # k.root => k.parent[m] \in NodesOf(k)
            /\ k.crate[m] \in NodesOf(k)
            /\ k.deps[m] \subseteq NodesOf(k)
  <2>1. CASE m = n
    BY <1>1, <1>4, <2>1
  <2>2. CASE m # n
    <3>1. m \in NodesOf(h) /\ m \in Id
      BY <1>1, <1>3, <2>2
    <3>2. m # k.root => m # h.root
      BY <3>1 DEF Rooted
    <3> QED BY <1>1, <2>2, <3>1, <3>2 DEF Rooted
  <2> QED BY <2>1, <2>2
<1>7. \A m \in Id \ NodesOf(k) : k.deps[m] = {} /\ k.crate[m] = NoNode
  BY <1>1 DEF Rooted
<1>8. Rooted(k)
  BY <1>5, <1>6, <1>7 DEF Rooted
<1>9. InCrates(k)
  <2>1. k.root # NoNode => k.boundary[k.root]
    BY <1>1, <1>3 DEF InCrates, Rooted
  <2>2. ASSUME NEW m \in NodesOf(k)
        PROVE /\ k.boundary[m] => k.crate[m] = m
              /\ ~k.boundary[m] => k.crate[m] = k.crate[k.parent[m]]
    <3>1. CASE m = n
      <4>1. ASSUME ~k.boundary[n] PROVE k.crate[k.parent[n]] = h.crate[k.parent[n]]
        BY <1>3, <4>1
      <4> QED BY <3>1, <4>1
    <3>2. CASE m # n
      <4>1. m \in NodesOf(h) /\ m \in Id
        BY <1>1, <1>3, <2>2, <3>2
      <4>2. ASSUME ~h.boundary[m] PROVE h.parent[m] \in NodesOf(h)
        BY <4>1, <4>2 DEF InCrates, Rooted
      <4>3. ASSUME ~h.boundary[m] PROVE k.crate[k.parent[m]] = h.crate[h.parent[m]]
        BY <1>3, <3>2, <4>1, <4>2, <4>3
      <4> QED BY <3>2, <4>1, <4>3 DEF InCrates
    <3> QED BY <3>1, <3>2
  <2> QED BY <2>1, <2>2 DEF InCrates
<1> QED BY <1>1, <1>2, <1>8, <1>9

(* So do deps between its nodes, whether they make a cycle or not.         *)
LEMMA NewDepsKeepGraph ==
  ASSUME GraphAssumption, GraphOK(g), NEW n \in NodesOf(g), NEW D \in SUBSET NodesOf(g)
  PROVE GraphOK(WithDeps(n, D)) /\ NodesOf(WithDeps(n, D)) = NodesOf(g)
<1> DEFINE k == WithDeps(n, D)
<1> USE DEF GraphOK
<1>1. n \in Id /\ D \subseteq Id
  BY DEF NodesOf, GraphType
<1>2. AddEdges(g.deps, n, D) \in [Id -> SUBSET Id]
  BY <1>1 DEF AddEdges, GraphType
<1>3. /\ k = [g EXCEPT !.deps = AddEdges(g.deps, n, D)]
      /\ k \in GraphType
      /\ k.deps = AddEdges(g.deps, n, D)
      /\ k.order = g.order /\ k.root = g.root /\ k.crate = g.crate
      /\ k.parent = g.parent /\ k.boundary = g.boundary
  BY <1>2 DEF WithDeps, GraphType
<1>4. NodesOf(k) = NodesOf(g)
  BY <1>3 DEF NodesOf
<1>5. \A m \in Id : m # n => k.deps[m] = g.deps[m]
  BY <1>3 DEF AddEdges, GraphType
<1>6. k.deps[n] = g.deps[n] \cup D
  BY <1>1, <1>3 DEF AddEdges, GraphType
<1>7. Rooted(k)
  <2>1. ASSUME NEW m \in NodesOf(k) PROVE k.deps[m] \subseteq NodesOf(k)
    <3>1. m \in NodesOf(g) /\ m \in Id
      BY <1>4 DEF NodesOf, GraphType
    <3>2. g.deps[m] \subseteq NodesOf(g)
      BY <3>1 DEF Rooted
    <3> QED BY <1>4, <1>5, <1>6, <3>1, <3>2
  <2>2. \A m \in Id \ NodesOf(k) : k.deps[m] = {}
    BY <1>4, <1>5 DEF Rooted
  <2> QED BY <1>3, <1>4, <2>1, <2>2 DEF Rooted
<1>8. Ordered(k) /\ InCrates(k)
  BY <1>3, <1>4 DEF Ordered, InCrates
<1> QED BY <1>3, <1>4, <1>7, <1>8

(* Deps that add_dep accepts close no cycle.                               *)
LEMMA AcceptedDepsCloseNone ==
  ASSUME GraphAssumption, GraphOK(g), NoCycles(g), NEW n \in NodesOf(g),
         NEW D \in SUBSET NodesOf(g), DepsAccepted(n, D)
  PROVE NoCycles(WithDeps(n, D))
<1> DEFINE k == WithDeps(n, D)
<1> USE DEF GraphOK, NoCycles
<1>1. n \in Id /\ D \subseteq Id /\ g.crate[n] \in Id
      /\ {g.crate[d] : d \in D} \subseteq Id
  <2>1. NodesOf(g) \subseteq Id
    BY DEF NodesOf, GraphType
  <2>2. \A m \in NodesOf(g) : g.crate[m] \in NodesOf(g)
    BY DEF Rooted
  <2> QED BY <2>1, <2>2
<1>2. /\ k.deps = AddEdges(g.deps, n, D)
      /\ k.crate = g.crate
  BY DEF WithDeps, GraphType
<1>3. k \in GraphType
  BY NewDepsKeepGraph
<1>4. Acyclic(k.deps)
  <2>1. g.deps \in [Id -> SUBSET Id]
    BY DEF GraphType
  <2> QED BY <1>1, <1>2, <2>1, AcceptedEdgesKeepAcyclic DEF DepsAccepted
<1>5. CrateDeps(g) \in [Id -> SUBSET Id]
  BY CrateDepsType
<1>6. CrateDeps(k) = AddEdges(CrateDeps(g), g.crate[n],
                              {g.crate[d] : d \in D} \ {g.crate[n]})
  BY <1>2, <1>3, NewDepsAreCrateEdges
<1>7. Acyclic(CrateDeps(k))
  <2> DEFINE E == {g.crate[d] : d \in D} \ {g.crate[n]}
  <2>1. E \in SUBSET Id /\ Acceptable(CrateDeps(g), g.crate[n], E)
    BY <1>1 DEF DepsAccepted
  <2> HIDE DEF E
  <2>2. Acyclic(AddEdges(CrateDeps(g), g.crate[n], E))
    BY <1>1, <1>5, <2>1, AcceptedEdgesKeepAcyclic
  <2> QED BY <1>6, <2>2 DEF E
<1> QED BY <1>4, <1>7

-----------------------------------------------------------------------------
(* Steps of the calls.                                                     *)

LEMMA EmptyGraphOK ==
  ASSUME GraphAssumption
  PROVE GraphOK(EmptyGraph) /\ NoCycles(EmptyGraph) /\ NodesOf(EmptyGraph) = {}
<1>1. EmptyGraph \in GraphType
  BY DEF EmptyGraph, GraphType
<1>2. NodesOf(EmptyGraph) = {}
  BY DEF EmptyGraph, NodesOf
<1>3. Rooted(EmptyGraph)
  BY <1>2 DEF EmptyGraph, Rooted
<1>4. Acyclic(EmptyGraph.deps)
  BY DEF EmptyGraph, Acyclic
<1>5. CrateDeps(EmptyGraph) = [c \in Id |-> {}]
  BY DEF CrateDeps, EmptyGraph
<1>6. Acyclic(CrateDeps(EmptyGraph))
  BY <1>5 DEF Acyclic
<1>7. Ordered(EmptyGraph) /\ InCrates(EmptyGraph)
  <2>1. EmptyGraph.root = NoNode /\ DOMAIN EmptyGraph.order = {}
    BY DEF EmptyGraph
  <2> QED BY <1>2, <2>1 DEF Ordered, InCrates
<1>8. GraphOK(EmptyGraph)
  BY <1>1, <1>3, <1>7 DEF GraphOK
<1>9. NoCycles(EmptyGraph)
  BY <1>4, <1>6 DEF NoCycles
<1> QED BY <1>2, <1>8, <1>9

(* A row for node n in each of the graph's tables.                         *)
LEMMA RowType ==
  ASSUME NEW h \in GraphType, NEW k, NEW n \in Id, NEW nm \in Name,
         NEW r \in Id \cup {NoNode}, NEW p \in Id \cup {NoNode},
         NEW b \in BOOLEAN, NEW c \in Id,
         k = [h EXCEPT !.order = Append(h.order, n), !.root = r,
                       !.name = [h.name EXCEPT ![n] = nm],
                       !.parent = [h.parent EXCEPT ![n] = p],
                       !.boundary = [h.boundary EXCEPT ![n] = b],
                       !.crate = [h.crate EXCEPT ![n] = c]]
  PROVE k \in GraphType
<1>1. Append(h.order, n) \in Seq(Id)
  BY DEF GraphType
<1>2. [h.name EXCEPT ![n] = nm] \in [Id -> Name \cup {NoName}]
  BY DEF GraphType
<1>3. [h.parent EXCEPT ![n] = p] \in [Id -> Id \cup {NoNode}]
  BY DEF GraphType
<1>4. [h.boundary EXCEPT ![n] = b] \in [Id -> BOOLEAN]
  BY DEF GraphType
<1>5. [h.crate EXCEPT ![n] = c] \in [Id -> Id \cup {NoNode}]
  BY DEF GraphType
<1> QED BY <1>1, <1>2, <1>3, <1>4, <1>5 DEF GraphType

LEMMA InsertRootKeepsGraph ==
  ASSUME GraphAssumption, GraphOK(g), NEW n \in Id, NEW nm \in Name,
         InsertRoot(n, nm)
  PROVE /\ GraphOK(g') /\ NodesOf(g) = {} /\ g'.root = n
        /\ g'.deps = g.deps /\ CrateDeps(g') = CrateDeps(g)
<1>1. NodesOf(g) = {}
  BY DEF InsertRoot, GraphOK, Rooted
<1>2. g \in GraphType
  BY DEF GraphOK
<1>3. g' \in GraphType
  <2>1. g' = [g EXCEPT !.order = Append(g.order, n), !.root = n,
                       !.name = [g.name EXCEPT ![n] = nm],
                       !.parent = [g.parent EXCEPT ![n] = g.parent[n]],
                       !.boundary = [g.boundary EXCEPT ![n] = TRUE],
                       !.crate = [g.crate EXCEPT ![n] = n]]
    BY <1>2 DEF InsertRoot, GraphType
  <2>2. g.parent[n] \in Id \cup {NoNode}
    BY <1>2 DEF GraphType
  <2> QED BY <1>2, <2>1, <2>2, RowType
<1>4. /\ g'.order = Append(g.order, n) /\ g'.deps = g.deps
      /\ g'.root = n /\ g'.crate[n] = n /\ g'.boundary[n] = TRUE
      /\ \A m \in Id \ {n} : g'.crate[m] = g.crate[m]
      /\ \A m \in Id \ {n} : g'.parent[m] = g.parent[m]
      /\ \A m \in Id \ {n} : g'.boundary[m] = g.boundary[m]
  BY <1>2 DEF InsertRoot, GraphType
<1>5. g.root = NoNode
  BY DEF InsertRoot
<1> QED BY <1>1, <1>3, <1>4, <1>5, NewNodeKeepsGraph

LEMMA AddChildKeepsGraph ==
  ASSUME GraphAssumption, GraphOK(g), BusyOK,
         NEW p \in Id, NEW n \in Id, NEW nm \in Name, NEW b \in BOOLEAN,
         AddChild(p, n, nm, b)
  PROVE /\ GraphOK(g')
        /\ NodesOf(g') = NodesOf(g) \cup {n}
        /\ n \notin NodesOf(g)
        /\ g'.root = g.root
        /\ g'.deps = g.deps /\ CrateDeps(g') = CrateDeps(g)
<1>1. n \notin NodesOf(g) /\ p \in NodesOf(g)
  BY DEF AddChild, BusyOK, GraphOK, Rooted
<1>2. g \in GraphType /\ g.crate[p] \in NodesOf(g) /\ g.crate[p] \in Id
  BY <1>1 DEF GraphOK, Rooted, NodesOf, GraphType
<1>3. g' = [g EXCEPT !.order = Append(@, n), !.name[n] = nm, !.parent[n] = p,
                     !.boundary[n] = b,
                     !.crate[n] = IF b THEN n ELSE g.crate[p]]
  BY DEF AddChild
<1>4. g' \in GraphType
  <2> DEFINE c == IF b THEN n ELSE g.crate[p]
  <2>1. g' = [g EXCEPT !.order = Append(g.order, n), !.root = g.root,
                       !.name = [g.name EXCEPT ![n] = nm],
                       !.parent = [g.parent EXCEPT ![n] = p],
                       !.boundary = [g.boundary EXCEPT ![n] = b],
                       !.crate = [g.crate EXCEPT ![n] = c]]
    BY <1>2, <1>3 DEF GraphType
  <2>2. g.root \in Id \cup {NoNode} /\ c \in Id
    BY <1>2 DEF GraphType
  <2> HIDE DEF c
  <2> QED BY <1>2, <2>1, <2>2, RowType
<1>5. /\ g'.order = Append(g.order, n) /\ g'.deps = g.deps /\ g'.root = g.root
      /\ g'.crate[n] \in NodesOf(g) \cup {n}
      /\ g'.parent[n] = p /\ g'.boundary[n] = b
      /\ b => g'.crate[n] = n
      /\ ~b => g'.crate[n] = g.crate[p]
      /\ \A m \in Id \ {n} : g'.crate[m] = g.crate[m]
      /\ \A m \in Id \ {n} : g'.parent[m] = g.parent[m]
      /\ \A m \in Id \ {n} : g'.boundary[m] = g.boundary[m]
  BY <1>2, <1>3 DEF GraphType
<1>6. NodesOf(g') = NodesOf(g) \cup {n}
  BY <1>2, <1>4, <1>5, NodesOfAppend
<1>7. g.root # NoNode
  BY DEF BusyOK
<1> QED BY <1>1, <1>4, <1>5, <1>6, <1>7, NewNodeKeepsGraph

(* A listed dep is between nodes of the table.                             *)
LEMMA ListedDepsInTable ==
  ASSUME NEW from, NEW to, BusyOK, TypeOK, call.at = "deps",
         <<from, to>> \in Pending,
         call.declared \subseteq call.new \X (call.new \cup {g.root})
  PROVE from \in NodesOf(g) /\ to \in NodesOf(g)
BY DEF Pending, BusyOK, TypeOK, Rooted

LEMMA InitInv ==
  ASSUME GraphAssumption, Init
  PROVE Inv
<1>1. GraphOK(EmptyGraph) /\ NodesOf(EmptyGraph) = {}
  BY EmptyGraphOK
<1> QED BY <1>1 DEF Init, Inv, TypeOK, GraphOK, IdleOK, Idle, GraphAssumption

LEMMA StepInv ==
  ASSUME GraphAssumption, Inv, [Next]_vars
  PROVE Inv'
<1> USE DEF Inv
<1>1. ASSUME NEW n \in Id, NEW nm \in Name, InsertRoot(n, nm)
      PROVE Inv'
  <2>1. GraphOK(g') /\ NodesOf(g) = {} /\ g'.root = n
    BY <1>1, InsertRootKeepsGraph
  <2>2. saved' = g' /\ call' = call /\ links' = links /\ g.root = NoNode
    BY <1>1 DEF InsertRoot
  <2>3. call.at = "idle" /\ call.new = {}
    BY <2>2 DEF BusyOK, IdleOK
  <2>4. IdleOK'
    BY <2>2, <2>3 DEF IdleOK
  <2> QED BY <2>1, <2>2, <2>3, <2>4 DEF TypeOK, GraphOK
<1>2. ASSUME BeginCall
      PROVE Inv'
  <2>1. /\ g' = g /\ saved' = saved /\ links' = links
        /\ g.root # NoNode /\ call.at = "idle"
        /\ call' = [at |-> "nodes", new |-> {}, declared |-> {},
                    calls |-> call.calls + 1]
    BY <1>2 DEF BeginCall
  <2>2. BusyOK'
    BY <2>1 DEF IdleOK, BusyOK, NodesOf
  <2> QED BY <2>1, <2>2 DEF TypeOK, GraphOK
<1>3. ASSUME NEW p \in Id, NEW n \in Id, NEW nm \in Name, NEW b \in BOOLEAN,
             AddChild(p, n, nm, b)
      PROVE Inv'
  <2>1. /\ call.at = "nodes" /\ saved' = saved /\ links' = links
        /\ call' = [call EXCEPT !.new = @ \cup {n}]
    BY <1>3 DEF AddChild
  <2>2. BusyOK
    BY <2>1
  <2>3. /\ GraphOK(g') /\ NodesOf(g') = NodesOf(g) \cup {n}
        /\ n \notin NodesOf(g) /\ g'.root = g.root
    BY <1>3, <2>2, AddChildKeepsGraph
  <2>4. BusyOK'
    BY <2>1, <2>2, <2>3 DEF BusyOK, TypeOK
  <2> QED BY <2>1, <2>3, <2>4 DEF TypeOK, GraphOK
<1>4. ASSUME NEW D \in SUBSET (call.new \X (call.new \cup {g.root})), NodesAdded(D)
      PROVE Inv'
  <2>1. /\ call.at = "nodes" /\ g' = g /\ saved' = saved /\ links' = links
        /\ call' = [call EXCEPT !.at = "deps", !.declared = D]
    BY <1>4 DEF NodesAdded
  <2>2. g.root \in Id
    BY <2>1 DEF BusyOK, TypeOK, GraphType
  <2>3. BusyOK'
    BY <2>1 DEF BusyOK, TypeOK
  <2> QED BY <2>1, <2>2, <2>3 DEF TypeOK
<1>5. ASSUME NEW from \in Id, NEW to \in Id, AddDep(from, to)
      PROVE Inv'
  <2>1. /\ call.at = "deps" /\ saved' = saved /\ call' = call /\ links' = links
        /\ <<from, to>> \in Pending
        /\ g' = WithDeps(from, {to})
    BY <1>5 DEF AddDep
  <2>2. BusyOK
    BY <2>1
  <2>3. from \in NodesOf(g) /\ to \in NodesOf(g)
    BY <2>1, <2>2, ListedDepsInTable DEF BusyOK
  <2>4. GraphOK(g') /\ NodesOf(g') = NodesOf(g)
    BY <2>1, <2>3, NewDepsKeepGraph
  <2>5. g'.root = g.root
    BY <2>1 DEF WithDeps, TypeOK, GraphType
  <2>6. BusyOK'
    BY <2>1, <2>2, <2>4, <2>5 DEF BusyOK
  <2> QED BY <2>1, <2>4, <2>6 DEF TypeOK, GraphOK
<1>6. ASSUME NEW n \in NodesOf(g), NEW D \in SUBSET NodesOf(g), SpecDeps(n, D)
      PROVE Inv'
  <2>1. /\ call.at = "idle" /\ call' = call /\ saved' = g' /\ links' = links + 1
        /\ g' = WithDeps(n, D)
    BY <1>6 DEF SpecDeps
  <2>2. GraphOK(g') /\ NodesOf(g') = NodesOf(g)
    BY <2>1, NewDepsKeepGraph
  <2>3. g'.root = g.root
    BY <2>1 DEF WithDeps, TypeOK, GraphType
  <2>4. \A m \in Id : g.deps[m] \subseteq g'.deps[m]
    BY <2>1 DEF WithDeps, AddEdges, TypeOK, GraphType
  <2>5. Pending' \subseteq Pending
    BY <2>1, <2>4 DEF Pending, TypeOK
  <2>6. IdleOK'
    BY <2>1, <2>2, <2>3, <2>5 DEF IdleOK
  <2> QED BY <2>1, <2>2, <2>6 DEF TypeOK, GraphOK
<1>7. ASSUME FailCall
      PROVE Inv'
  <2>1. /\ call.at # "idle" /\ g' = saved /\ saved' = saved /\ links' = links
        /\ call' = [call EXCEPT !.at = "idle"]
    BY <1>7 DEF FailCall, Refused
  <2>2. IdleOK'
    <3>1. g'.root # NoNode
      BY <2>1 DEF BusyOK
    <3>2. call'.new \cap NodesOf(g') = {}
      BY <2>1 DEF BusyOK, TypeOK
    <3> QED BY <2>1, <3>1, <3>2 DEF IdleOK, TypeOK
  <2> QED BY <2>1, <2>2 DEF TypeOK
<1>8. ASSUME EndCall
      PROVE Inv'
  <2>1. /\ call.at = "deps" /\ g' = g /\ saved' = g /\ links' = links
        /\ call' = [call EXCEPT !.at = "idle"] /\ Pending = {}
    BY <1>8 DEF EndCall
  <2>2. Pending' = {}
    BY <2>1 DEF Pending, TypeOK
  <2>3. IdleOK'
    BY <2>1, <2>2 DEF IdleOK, BusyOK, TypeOK
  <2> QED BY <2>1, <2>3 DEF TypeOK
<1>9. CASE UNCHANGED vars
  BY <1>9 DEF vars, TypeOK, GraphOK, IdleOK, BusyOK, Pending, NodesOf
<1> QED BY <1>1, <1>2, <1>3, <1>4, <1>5, <1>6, <1>7, <1>8, <1>9 DEF Next

(* What is saved is the graph in hand, before the step or after it.        *)
LEMMA CyclesStep ==
  ASSUME GraphAssumption, Inv, NoCycles(g), NoCycles(saved), [Next]_vars
  PROVE NoCycles(g') /\ NoCycles(saved')
<1> SUFFICES /\ g' = saved \/ NoCycles(g')
             /\ saved' \in {saved, g, g'}
  OBVIOUS
<1> USE DEF Inv
<1>1. ASSUME NEW n \in Id, NEW nm \in Name, InsertRoot(n, nm)
      PROVE NoCycles(g') /\ saved' = g'
  BY <1>1, InsertRootKeepsGraph DEF NoCycles, InsertRoot
<1>2. ASSUME NEW p \in Id, NEW n \in Id, NEW nm \in Name, NEW b \in BOOLEAN,
             AddChild(p, n, nm, b)
      PROVE NoCycles(g') /\ saved' = saved
  <2>1. call.at = "nodes" /\ saved' = saved
    BY <1>2 DEF AddChild
  <2> QED BY <1>2, <2>1, AddChildKeepsGraph DEF NoCycles
<1>3. ASSUME NEW from \in Id, NEW to \in Id, AddDep(from, to)
      PROVE NoCycles(g') /\ saved' = saved
  <2>1. /\ call.at = "deps" /\ saved' = saved /\ <<from, to>> \in Pending
        /\ DepsAccepted(from, {to}) /\ g' = WithDeps(from, {to})
    BY <1>3 DEF AddDep
  <2>2. from \in NodesOf(g) /\ {to} \in SUBSET NodesOf(g)
    BY <2>1, ListedDepsInTable DEF BusyOK
  <2> QED BY <2>1, <2>2, AcceptedDepsCloseNone
<1>4. ASSUME NEW n \in NodesOf(g), NEW D \in SUBSET NodesOf(g), SpecDeps(n, D)
      PROVE NoCycles(g') /\ saved' = g'
  BY <1>4, AcceptedDepsCloseNone DEF SpecDeps
<1>5. ASSUME BeginCall \/ FailCall \/ EndCall \/ UNCHANGED vars
             \/ \E D \in SUBSET (call.new \X (call.new \cup {g.root})) : NodesAdded(D)
      PROVE g' \in {g, saved} /\ saved' \in {g, saved}
  BY <1>5 DEF BeginCall, FailCall, EndCall, NodesAdded, vars
<1> QED BY <1>1, <1>2, <1>3, <1>4, <1>5 DEF Next

-----------------------------------------------------------------------------
(* Theorems about the calls.                                               *)

(* The inductive invariant holds throughout.                               *)
THEOREM GraphInv ==
  ASSUME GraphAssumption
  PROVE Spec => []Inv
<1>1. Init => Inv
  BY InitInv
<1>2. Inv /\ [Next]_vars => Inv'
  BY StepInv
<1> QED BY <1>1, <1>2, PTL DEF Spec

(* The tables keep their types, and every node hangs in one tree, in a     *)
(* crate, with its deps in the table.                                      *)
THEOREM GraphTypeOK ==
  ASSUME GraphAssumption
  PROVE Spec => []TypeOK
<1>1. Inv => TypeOK
  BY DEF Inv
<1> QED BY <1>1, GraphInv, PTL

(* Neither the graph in hand nor the saved one ever has a cycle.           *)
LEMMA CyclesInv ==
  ASSUME GraphAssumption
  PROVE Spec => [](NoCycles(g) /\ NoCycles(saved))
<1>1. Init => NoCycles(g) /\ NoCycles(saved)
  BY EmptyGraphOK DEF Init
<1>2. Inv /\ NoCycles(g) /\ NoCycles(saved) /\ [Next]_vars
        => (NoCycles(g) /\ NoCycles(saved))'
  BY CyclesStep
<1> QED BY <1>1, <1>2, GraphInv, PTL DEF Spec

(* add_dep keeps the nodes free of dependency cycles, in hand and on disk, *)
(* over any number of calls, accepted or refused.                          *)
THEOREM NodesStayAcyclic ==
  ASSUME GraphAssumption
  PROVE Spec => []NodesAcyclic
<1>1. NoCycles(g) /\ NoCycles(saved) => NodesAcyclic
  BY DEF NoCycles, NodesAcyclic
<1> QED BY <1>1, CyclesInv, PTL

(* add_dep keeps the crates free of dependency cycles, which cargo would   *)
(* refuse to build.                                                        *)
THEOREM CratesStayAcyclic ==
  ASSUME GraphAssumption
  PROVE Spec => []CratesAcyclic
<1>1. NoCycles(g) /\ NoCycles(saved) => CratesAcyclic
  BY DEF NoCycles, CratesAcyclic
<1> QED BY <1>1, CyclesInv, PTL

(* The nodes and deps of a submit_architecture call reach the disk         *)
(* together or not at all.                                                 *)
THEOREM CallsAreAllOrNothing ==
  ASSUME GraphAssumption
  PROVE Spec => []AllOrNothing
<1>1. Inv => AllOrNothing
  BY DEF Inv, IdleOK, AllOrNothing, Pending
<1> QED BY <1>1, GraphInv, PTL

(* No two children of a node share a name. *)
SiblingsDiffer(h) ==
  \A m, n \in NodesOf(h) : h.parent[m] = h.parent[n] /\ h.name[m] = h.name[n] => m = n

LEMMA SiblingsStep ==
  ASSUME GraphAssumption, Inv, SiblingsDiffer(g), SiblingsDiffer(saved), [Next]_vars
  PROVE SiblingsDiffer(g') /\ SiblingsDiffer(saved')
<1> SUFFICES /\ g' = saved \/ SiblingsDiffer(g')
             /\ saved' \in {saved, g, g'}
  OBVIOUS
<1>1. g \in GraphType /\ GraphOK(g)
  BY DEF Inv, GraphOK
<1>2. ASSUME NEW n \in Id, NEW nm \in Name, InsertRoot(n, nm)
      PROVE SiblingsDiffer(g') /\ saved' = g'
  <2>1. NodesOf(g) = {} /\ g'.order = Append(g.order, n) /\ saved' = g'
    BY <1>1, <1>2, InsertRootKeepsGraph DEF InsertRoot, GraphType
  <2>2. NodesOf(g') = NodesOf(g) \cup {n}
    BY <1>1, <1>2, <2>1, InsertRootKeepsGraph, NodesOfAppend DEF GraphOK
  <2> QED BY <2>1, <2>2 DEF SiblingsDiffer
<1>3. ASSUME NEW p \in Id, NEW n \in Id, NEW nm \in Name, NEW b \in BOOLEAN,
             AddChild(p, n, nm, b)
      PROVE SiblingsDiffer(g') /\ saved' = saved
  <2>1. saved' = saved /\ call.at = "nodes" /\ UniqueSibling(p, nm)
    BY <1>3 DEF AddChild
  <2>2. NodesOf(g') = NodesOf(g) \cup {n} /\ n \notin NodesOf(g)
    BY <1>1, <1>3, <2>1, AddChildKeepsGraph DEF Inv
  <2>3. /\ g'.parent[n] = p /\ g'.name[n] = nm
        /\ \A m \in Id \ {n} : g'.parent[m] = g.parent[m] /\ g'.name[m] = g.name[m]
    BY <1>1, <1>3 DEF AddChild, GraphType
  <2>4. NodesOf(g) \subseteq Id
    BY <1>1 DEF GraphType, NodesOf
  <2> QED BY <2>1, <2>2, <2>3, <2>4 DEF SiblingsDiffer, UniqueSibling
<1>4. ASSUME NEW n, NEW D, g' = WithDeps(n, D)
      PROVE SiblingsDiffer(g')
  <2>1. g'.order = g.order /\ g'.parent = g.parent /\ g'.name = g.name
    BY <1>1, <1>4 DEF WithDeps, GraphType
  <2> QED BY <2>1 DEF SiblingsDiffer, NodesOf
<1>5. ASSUME NEW from \in Id, NEW to \in Id, AddDep(from, to)
      PROVE SiblingsDiffer(g') /\ saved' = saved
  BY <1>4, <1>5 DEF AddDep
<1>6. ASSUME NEW n \in NodesOf(g), NEW D \in SUBSET NodesOf(g), SpecDeps(n, D)
      PROVE SiblingsDiffer(g') /\ saved' = g'
  BY <1>4, <1>6 DEF SpecDeps
<1>7. ASSUME BeginCall \/ FailCall \/ EndCall \/ UNCHANGED vars
             \/ \E D \in SUBSET (call.new \X (call.new \cup {g.root})) : NodesAdded(D)
      PROVE g' \in {g, saved} /\ saved' \in {g, saved}
  BY <1>7 DEF BeginCall, FailCall, EndCall, NodesAdded, vars
<1> QED BY <1>2, <1>3, <1>5, <1>6, <1>7 DEF Next

(* add_child's name rule and the call's own keep siblings apart by name in *)
(* the graph in hand and on disk, over any number of calls: the directory  *)
(* of a node, which is its parent's and its name, is its own.              *)
THEOREM SiblingNamesDiffer ==
  ASSUME GraphAssumption
  PROVE Spec => [](SiblingsDiffer(g) /\ SiblingsDiffer(saved))
<1>1. Init => SiblingsDiffer(g) /\ SiblingsDiffer(saved)
  BY DEF Init, EmptyGraph, SiblingsDiffer, NodesOf
<1>2. Inv /\ SiblingsDiffer(g) /\ SiblingsDiffer(saved) /\ [Next]_vars
        => (SiblingsDiffer(g) /\ SiblingsDiffer(saved))'
  BY SiblingsStep
<1> QED BY <1>1, <1>2, GraphInv, PTL DEF Spec

-----------------------------------------------------------------------------
(* Lookups.  The table stays in order when deps come in from elsewhere,    *)
(* and stands still while a loop runs.                                     *)

lookupVars == <<vars, lookup>>

LEMMA MergeKeepsInv ==
  ASSUME GraphAssumption, Inv, NEW n \in NodesOf(g), NEW D \in SUBSET NodesOf(g),
         Merged(n, D)
  PROVE Inv'
<1> USE DEF Inv
<1>1. /\ call.at = "idle" /\ call' = call /\ saved' = g' /\ links' = links
      /\ g' = WithDeps(n, D)
  BY DEF Merged
<1>2. GraphOK(g') /\ NodesOf(g') = NodesOf(g)
  BY <1>1, NewDepsKeepGraph
<1>3. g'.root = g.root
  BY <1>1 DEF WithDeps, TypeOK, GraphType
<1>4. \A m \in Id : g.deps[m] \subseteq g'.deps[m]
  BY <1>1 DEF WithDeps, AddEdges, TypeOK, GraphType
<1>5. Pending' \subseteq Pending
  BY <1>1, <1>4 DEF Pending, TypeOK
<1>6. IdleOK'
  BY <1>1, <1>2, <1>3, <1>5 DEF IdleOK
<1> QED BY <1>1, <1>2, <1>6 DEF TypeOK, GraphOK

LEMMA OthersLeaveGraph ==
  ASSUME LookupNext, ~GraphStep
  PROVE UNCHANGED vars
BY DEF LookupNext, CallDepReaches, CallCrateReaches, CallTransitiveDeps,
       CallReverseDepClosure, CallContainingCrate, CallTopoOrder, Call,
       DepReaches, CrateReaches, TransitiveDeps, ReverseDepClosure,
       ContainingCrate, TopoScan, TopoPop, TopoReturn, Answered

LEMMA LookupStepInv ==
  ASSUME GraphAssumption, Inv, [LookupNext]_lookupVars
  PROVE Inv'
<1>1. CASE GraphStep
  <2>1. CASE Next
    BY <2>1, StepInv
  <2>2. CASE \E n \in NodesOf(g) : \E D \in SUBSET (NodesOf(g) \ {n}) : Merged(n, D)
    BY <2>2, MergeKeepsInv
  <2> QED BY <1>1, <2>1, <2>2 DEF GraphStep
<1>2. CASE UNCHANGED vars
  BY <1>2, StepInv
<1> QED BY <1>1, <1>2, OthersLeaveGraph DEF lookupVars

LEMMA GraphInvOfLookups ==
  ASSUME GraphAssumption
  PROVE LookupSpec => []Inv
<1>1. LookupInit => Inv
  BY InitInv DEF LookupInit
<1>2. Inv /\ [LookupNext]_lookupVars => Inv'
  BY LookupStepInv
<1> QED BY <1>1, <1>2, PTL DEF LookupSpec, lookupVars

(* What the loops find in a table in order.                                *)
LEMMA TableFacts ==
  ASSUME GraphAssumption, Inv
  PROVE /\ g \in GraphType /\ Rooted(g) /\ Ordered(g) /\ InCrates(g)
        /\ NodesOf(g) \in SUBSET Id
        /\ g.deps \in [Id -> SUBSET Id]
        /\ CrateDeps(g) \in [Id -> SUBSET Id]
        /\ \A n \in NodesOf(g) : g.deps[n] \subseteq NodesOf(g) /\ g.crate[n] \in NodesOf(g)
        /\ \A n \in Id \ NodesOf(g) : g.deps[n] = {}
<1> USE DEF Inv, GraphOK
<1>1. NodesOf(g) \in SUBSET Id
  BY DEF NodesOf, GraphType
<1>2. CrateDeps(g) \in [Id -> SUBSET Id]
  BY CrateDepsType
<1> QED BY <1>1, <1>2 DEF Rooted, GraphType

(* Which steps a loop takes part in: its call, its own iterations, and     *)
(* steps that change nothing.                                              *)
LEMMA StepsOf ==
  ASSUME [LookupNext]_lookupVars
  PROVE LET Same == UNCHANGED lookupVars
            Is(fn) == loop'.fn = fn
        IN  /\ Is("dep_reaches") =>
                 (\E m, n \in NodesOf(g) : CallDepReaches(m, n)) \/ DepReaches \/ Same
            /\ Is("crate_reaches") =>
                 (\E m, n \in NodesOf(g) : CallCrateReaches(m, n)) \/ CrateReaches \/ Same
            /\ Is("transitive_deps") =>
                 (\E n \in NodesOf(g) : CallTransitiveDeps(n)) \/ TransitiveDeps \/ Same
            /\ Is("reverse_dep_closure") =>
                 (\E n \in NodesOf(g) : CallReverseDepClosure(n)) \/ ReverseDepClosure \/ Same
            /\ Is("containing_crate") =>
                 (\E n \in NodesOf(g) : CallContainingCrate(n)) \/ ContainingCrate \/ Same
            /\ Is("topo_order") =>
                 CallTopoOrder \/ TopoScan \/ TopoPop \/ TopoReturn \/ Same
<1>1. CASE GraphStep \/ Answered
  BY <1>1 DEF GraphStep, Answered, NoLoop, lookup
<1>2. CASE \E m, n \in NodesOf(g) : CallDepReaches(m, n)
  BY <1>2 DEF CallDepReaches, Call
<1>3. CASE \E m, n \in NodesOf(g) : CallCrateReaches(m, n)
  BY <1>3 DEF CallCrateReaches, Call
<1>4. CASE \E n \in NodesOf(g) : CallTransitiveDeps(n)
  BY <1>4 DEF CallTransitiveDeps, Call
<1>5. CASE \E n \in NodesOf(g) : CallReverseDepClosure(n)
  BY <1>5 DEF CallReverseDepClosure, Call
<1>6. CASE \E n \in NodesOf(g) : CallContainingCrate(n)
  BY <1>6 DEF CallContainingCrate, Call
<1>7. CASE CallTopoOrder
  BY <1>7 DEF CallTopoOrder, Call
<1>8. CASE DepReaches
  BY <1>8 DEF DepReaches, Running
<1>9. CASE CrateReaches
  BY <1>9 DEF CrateReaches, Running
<1>10. CASE TransitiveDeps
  BY <1>10 DEF TransitiveDeps, Running
<1>11. CASE ReverseDepClosure
  BY <1>11 DEF ReverseDepClosure, Running
<1>12. CASE ContainingCrate
  BY <1>12 DEF ContainingCrate, Running
<1>13. CASE TopoScan \/ TopoPop \/ TopoReturn
  BY <1>13 DEF TopoScan, TopoPop, TopoReturn, Running
<1> QED BY <1>1, <1>2, <1>3, <1>4, <1>5, <1>6, <1>7, <1>8, <1>9, <1>10, <1>11,
           <1>12, <1>13 DEF LookupNext

-----------------------------------------------------------------------------
(* The searches.                                                           *)

(* dep_reaches: the target is not among the nodes it has pushed.           *)
DepReachesOK ==
  loop.fn = "dep_reaches" =>
    /\ answer \in {"none", "true", "false"}
    /\ answer = "none" =>
         /\ Search(Id, g.deps, {loop.from}, visited, todo)
         /\ loop.to \notin visited \cup todo
    /\ answer # "none" => (answer = "true" <=> Reaches(g.deps, loop.from, loop.to))

LEMMA DepReachesStep ==
  ASSUME GraphAssumption, Inv, DepReachesOK, [LookupNext]_lookupVars
  PROVE DepReachesOK'
<1> SUFFICES ASSUME loop'.fn = "dep_reaches"
             PROVE DepReachesOK'
  BY DEF DepReachesOK
<1>1. g.deps \in [Id -> SUBSET Id] /\ NodesOf(g) \subseteq Id
  BY TableFacts
<1>2. ASSUME NEW m \in NodesOf(g), NEW n \in NodesOf(g), CallDepReaches(m, n)
      PROVE DepReachesOK'
  <2>1. /\ loop'.from = m /\ loop'.to = n /\ g' = g
        /\ visited' = {} /\ todo' = {m}
        /\ answer' = IF m = n THEN "true" ELSE "none"
    BY <1>2 DEF CallDepReaches, Call, vars
  <2>2. Search(Id, g.deps, {m}, {}, {m})
    BY <1>1, SearchBegins
  <2>3. m = n => Reaches(g.deps, m, n)
    BY ReachesItself
  <2> QED BY <2>1, <2>2, <2>3 DEF DepReachesOK
<1>3. ASSUME DepReaches
      PROVE DepReachesOK'
  <2>1. /\ g' = g /\ loop' = loop /\ loop.fn = "dep_reaches"
        /\ Search(Id, g.deps, {loop.from}, visited, todo)
        /\ loop.to \notin visited \cup todo
    BY <1>3 DEF DepReaches, DepReachesOK, Running, vars
  <2>2. ASSUME NEW n \in todo, loop.to \in g.deps[n], Return("true")
        PROVE DepReachesOK'
    <3>1. n \in Id /\ Reaches(g.deps, loop.from, n)
      BY <2>1 DEF Search
    <3>2. Reaches(g.deps, loop.from, loop.to)
      BY <1>1, <2>2, <3>1, ReachesOn
    <3> QED BY <2>1, <2>2, <3>2 DEF Return, DepReachesOK
  <2>3. ASSUME NEW n \in todo, n \in visited \/ loop.to \notin g.deps[n], Pop(n, g.deps[n])
        PROVE DepReachesOK'
    <3>1. Search(Id, g.deps, {loop.from}, visited', todo')
      BY <1>1, <2>1, <2>3, SearchGoesOn DEF Pop
    <3>2. loop.to \notin visited' \cup todo'
      BY <2>1, <2>3 DEF Pop
    <3>3. answer' = "none"
      BY <1>3, <2>3 DEF Pop, DepReaches, Running
    <3> QED BY <2>1, <3>1, <3>2, <3>3 DEF DepReachesOK
  <2>4. ASSUME todo = {}, Return("false")
        PROVE DepReachesOK'
    <3>1. ~Reaches(g.deps, loop.from, loop.to)
      BY <1>1, <2>1, <2>4, SearchEnds
    <3> QED BY <2>1, <2>4, <3>1 DEF Return, DepReachesOK
  <2> QED BY <1>3, <2>2, <2>3, <2>4 DEF DepReaches
<1>4. CASE UNCHANGED lookupVars
  BY <1>4 DEF lookupVars, lookup, vars, DepReachesOK
<1> QED BY <1>2, <1>3, <1>4, StepsOf

(* crate_reaches, along CrateDeps: the crate it looks for has not been     *)
(* visited, so that the hypothetical edge out of it is never followed.     *)
CrateReachesOK ==
  loop.fn = "crate_reaches" =>
    LET from == g.crate[loop.from]
        to   == g.crate[loop.to]
    IN  /\ answer \in {"none", "true", "false"}
        /\ answer = "none" =>
             Search(Id, CrateDeps(g), {to}, visited, todo) /\ from \notin visited
        /\ answer # "none" => (answer = "true" <=> Reaches(CrateDeps(g), to, from))

LEMMA CrateReachesStep ==
  ASSUME GraphAssumption, Inv, CrateReachesOK, [LookupNext]_lookupVars
  PROVE CrateReachesOK'
<1> SUFFICES ASSUME loop'.fn = "crate_reaches"
             PROVE CrateReachesOK'
  BY DEF CrateReachesOK
<1>1. /\ CrateDeps(g) \in [Id -> SUBSET Id]
      /\ \A n \in NodesOf(g) : g.crate[n] \in Id
  BY TableFacts
<1>2. ASSUME NEW m \in NodesOf(g), NEW n \in NodesOf(g), CallCrateReaches(m, n)
      PROVE CrateReachesOK'
  <2>1. /\ loop'.from = m /\ loop'.to = n /\ g' = g
        /\ visited' = {} /\ todo' = {g.crate[n]} /\ answer' = "none"
    BY <1>2 DEF CallCrateReaches, Call, vars
  <2>2. Search(Id, CrateDeps(g), {g.crate[n]}, {}, {g.crate[n]})
    BY <1>1, SearchBegins
  <2>3. CrateDeps(g)' = CrateDeps(g)
    BY <2>1
  <2> QED BY <2>1, <2>2, <2>3 DEF CrateReachesOK
<1>3. ASSUME CrateReaches
      PROVE CrateReachesOK'
  <2> DEFINE from == g.crate[loop.from]
             to   == g.crate[loop.to]
             extra(c) == IF c = from THEN {to} \ {c} ELSE {}
  <2>1. /\ g' = g /\ loop' = loop /\ loop.fn = "crate_reaches"
        /\ Search(Id, CrateDeps(g), {to}, visited, todo)
        /\ from \notin visited
    BY <1>3 DEF CrateReaches, CrateReachesOK, Running, vars
  <2>2. CrateDeps(g)' = CrateDeps(g) /\ from' = from /\ to' = to
    BY <2>1
  <2>3. ASSUME NEW c \in todo, c = from, Return("true")
        PROVE CrateReachesOK'
    <3>1. Reaches(CrateDeps(g), to, from)
      BY <2>1, <2>3 DEF Search
    <3> QED BY <2>1, <2>2, <2>3, <3>1 DEF Return, CrateReachesOK
  <2>4. ASSUME NEW c \in todo, c \in visited \/ c # from, Pop(c, CrateDeps(g)[c] \cup extra(c))
        PROVE CrateReachesOK'
    <3>1. c # from /\ extra(c) = {}
      BY <2>1, <2>4
    <3>2. Search(Id, CrateDeps(g), {to}, visited', todo')
      BY <1>1, <2>1, <2>4, <3>1, SearchGoesOn DEF Pop
    <3>3. from \notin visited'
      BY <2>1, <2>4, <3>1 DEF Pop
    <3>4. answer' = "none"
      BY <1>3, <2>4 DEF Pop, CrateReaches, Running
    <3> QED BY <2>1, <2>2, <3>2, <3>3, <3>4 DEF CrateReachesOK
  <2>5. ASSUME todo = {}, Return("false")
        PROVE CrateReachesOK'
    <3>1. ~Reaches(CrateDeps(g), to, from)
      BY <1>1, <2>1, <2>5, SearchEnds
    <3> QED BY <2>1, <2>2, <2>5, <3>1 DEF Return, CrateReachesOK
  <2> QED BY <1>3, <2>3, <2>4, <2>5 DEF CrateReaches
<1>4. CASE UNCHANGED lookupVars
  BY <1>4 DEF lookupVars, lookup, vars, CrateReachesOK
<1> QED BY <1>2, <1>3, <1>4, StepsOf

(* transitive_deps: a search that begins with the node's deps.             *)
TransitiveDepsOK ==
  loop.fn = "transitive_deps" =>
    /\ loop.from \in NodesOf(g)
    /\ Search(Id, g.deps, g.deps[loop.from], visited, todo)
    /\ answer # "none" => todo = {}

LEMMA TransitiveDepsStep ==
  ASSUME GraphAssumption, Inv, TransitiveDepsOK, [LookupNext]_lookupVars
  PROVE TransitiveDepsOK'
<1> SUFFICES ASSUME loop'.fn = "transitive_deps"
             PROVE TransitiveDepsOK'
  BY DEF TransitiveDepsOK
<1>1. g.deps \in [Id -> SUBSET Id] /\ NodesOf(g) \subseteq Id
  BY TableFacts
<1>2. ASSUME NEW n \in NodesOf(g), CallTransitiveDeps(n)
      PROVE TransitiveDepsOK'
  <2>1. /\ loop'.from = n /\ g' = g /\ visited' = {} /\ todo' = g.deps[n]
        /\ answer' = "none"
    BY <1>2 DEF CallTransitiveDeps, Call, vars
  <2>2. Search(Id, g.deps, g.deps[n], {}, g.deps[n])
    BY <1>1, SearchBegins
  <2>3. NodesOf(g)' = NodesOf(g)
    BY <2>1 DEF NodesOf
  <2> QED BY <2>1, <2>2, <2>3 DEF TransitiveDepsOK
<1>3. ASSUME TransitiveDeps
      PROVE TransitiveDepsOK'
  <2>1. /\ g' = g /\ loop' = loop /\ loop.fn = "transitive_deps"
        /\ Search(Id, g.deps, g.deps[loop.from], visited, todo)
        /\ loop.from \in NodesOf(g) /\ NodesOf(g)' = NodesOf(g)
        /\ answer = "none"
    BY <1>3 DEF TransitiveDeps, TransitiveDepsOK, Running, vars, NodesOf
  <2>2. ASSUME NEW n \in todo, Pop(n, g.deps[n])
        PROVE TransitiveDepsOK'
    <3>1. Search(Id, g.deps, g.deps[loop.from], visited', todo')
      BY <1>1, <2>1, <2>2, SearchGoesOn DEF Pop
    <3> QED BY <2>1, <2>2, <3>1 DEF Pop, TransitiveDepsOK
  <2>3. ASSUME todo = {}, Return("true")
        PROVE TransitiveDepsOK'
    BY <2>1, <2>3 DEF Return, TransitiveDepsOK
  <2> QED BY <1>3, <2>2, <2>3 DEF TransitiveDeps
<1>4. CASE UNCHANGED lookupVars
  BY <1>4 DEF lookupVars, lookup, vars, TransitiveDepsOK, NodesOf
<1> QED BY <1>2, <1>3, <1>4, StepsOf

(* reverse_dep_closure: the same against the edges; a node is visited when *)
(* it is pushed.                                                           *)
ReverseDepClosureOK ==
  loop.fn = "reverse_dep_closure" =>
    /\ loop.from \in NodesOf(g)
    /\ BackSearch(Id, g.deps, loop.from, visited, todo)
    /\ answer # "none" => todo = {}

LEMMA ReverseDepClosureStep ==
  ASSUME GraphAssumption, Inv, ReverseDepClosureOK, [LookupNext]_lookupVars
  PROVE ReverseDepClosureOK'
<1> SUFFICES ASSUME loop'.fn = "reverse_dep_closure"
             PROVE ReverseDepClosureOK'
  BY DEF ReverseDepClosureOK
<1>1. /\ g.deps \in [Id -> SUBSET Id] /\ NodesOf(g) \subseteq Id
      /\ \A n \in Id \ NodesOf(g) : g.deps[n] = {}
  BY TableFacts
<1>2. ASSUME NEW n \in NodesOf(g), CallReverseDepClosure(n)
      PROVE ReverseDepClosureOK'
  <2>1. /\ loop'.from = n /\ g' = g /\ visited' = {n} /\ todo' = {n}
        /\ answer' = "none"
    BY <1>2 DEF CallReverseDepClosure, Call, vars
  <2>2. BackSearch(Id, g.deps, n, {n}, {n})
    BY <1>1, BackSearchBegins
  <2>3. NodesOf(g)' = NodesOf(g)
    BY <2>1 DEF NodesOf
  <2> QED BY <2>1, <2>2, <2>3 DEF ReverseDepClosureOK
<1>3. ASSUME ReverseDepClosure
      PROVE ReverseDepClosureOK'
  <2>1. /\ g' = g /\ loop' = loop /\ loop.fn = "reverse_dep_closure"
        /\ BackSearch(Id, g.deps, loop.from, visited, todo)
        /\ loop.from \in NodesOf(g) /\ NodesOf(g)' = NodesOf(g)
        /\ answer = "none"
    BY <1>3 DEF ReverseDepClosure, ReverseDepClosureOK, Running, vars, NodesOf
  <2> DEFINE parents(n) == {m \in NodesOf(g) : n \in g.deps[m]} \ visited
  <2>2. ASSUME NEW n \in todo, visited' = visited \cup parents(n),
               todo' = (todo \ {n}) \cup parents(n), answer' = answer
        PROVE ReverseDepClosureOK'
    <3>1. /\ parents(n) \in SUBSET Id
          /\ \A m \in Id : m \in parents(n) <=> n \in g.deps[m] /\ m \notin visited
      BY <1>1
    <3> HIDE DEF parents
    <3>2. BackSearch(Id, g.deps, loop.from, visited', todo')
      BY <1>1, <2>1, <2>2, <3>1, BackSearchGoesOn
    <3> QED BY <2>1, <2>2, <3>2 DEF ReverseDepClosureOK
  <2>3. ASSUME todo = {}, Return("true")
        PROVE ReverseDepClosureOK'
    BY <2>1, <2>3 DEF Return, ReverseDepClosureOK
  <2> QED BY <1>3, <2>2, <2>3 DEF ReverseDepClosure
<1>4. CASE UNCHANGED lookupVars
  BY <1>4 DEF lookupVars, lookup, vars, ReverseDepClosureOK, NodesOf
<1> QED BY <1>2, <1>3, <1>4, StepsOf

(* containing_crate: every node on the way up is in the same crate.        *)
ContainingCrateOK ==
  loop.fn = "containing_crate" =>
    \E n \in NodesOf(g) :
      /\ todo = {n}
      /\ g.crate[n] = g.crate[loop.from]
      /\ answer # "none" => g.boundary[n]

LEMMA ContainingCrateStep ==
  ASSUME GraphAssumption, Inv, ContainingCrateOK, [LookupNext]_lookupVars
  PROVE ContainingCrateOK'
<1> SUFFICES ASSUME loop'.fn = "containing_crate"
             PROVE ContainingCrateOK'
  BY DEF ContainingCrateOK
<1>1. Rooted(g) /\ InCrates(g)
  BY TableFacts
<1>2. ASSUME NEW n \in NodesOf(g), CallContainingCrate(n)
      PROVE ContainingCrateOK'
  <2>1. /\ loop'.from = n /\ g' = g /\ todo' = {n} /\ answer' = "none"
    BY <1>2 DEF CallContainingCrate, Call, vars
  <2>2. NodesOf(g)' = NodesOf(g)
    BY <2>1 DEF NodesOf
  <2> QED BY <2>1, <2>2 DEF ContainingCrateOK
<1>3. ASSUME ContainingCrate
      PROVE ContainingCrateOK'
  <2>1. /\ g' = g /\ loop' = loop /\ loop.fn = "containing_crate"
        /\ NodesOf(g)' = NodesOf(g) /\ answer = "none"
    BY <1>3 DEF ContainingCrate, Running, vars, NodesOf
  <2>2. PICK n \in NodesOf(g) : todo = {n} /\ g.crate[n] = g.crate[loop.from]
    BY <2>1 DEF ContainingCrateOK
  <2>3. ASSUME g.boundary[n], Return("true")
        PROVE ContainingCrateOK'
    BY <2>1, <2>2, <2>3 DEF Return, ContainingCrateOK
  <2>4. ASSUME ~g.boundary[n], todo' = {g.parent[n]}, answer' = answer
        PROVE ContainingCrateOK'
    <3>1. g.parent[n] \in NodesOf(g) /\ g.crate[g.parent[n]] = g.crate[n]
      BY <1>1, <2>4 DEF Rooted, InCrates
    <3> QED BY <2>1, <2>2, <2>4, <3>1 DEF ContainingCrateOK
  <2> QED BY <1>3, <2>2, <2>3, <2>4 DEF ContainingCrate
<1>4. CASE UNCHANGED lookupVars
  BY <1>4 DEF lookupVars, lookup, vars, ContainingCrateOK, NodesOf
<1> QED BY <1>2, <1>3, <1>4, StepsOf

LookupsOK ==
  DepReachesOK /\ CrateReachesOK /\ TransitiveDepsOK /\ ReverseDepClosureOK
    /\ ContainingCrateOK

(* What the searches have found when they answer.                          *)
LEMMA LookupsOKAgree ==
  ASSUME GraphAssumption, Inv, LookupsOK
  PROVE LookupsAgree
<1> DEFINE from == loop.from
<1> USE DEF LookupsOK, Says, Gives
<1>1. Says("dep_reaches", Reaches(g.deps, from, loop.to))
  BY DEF DepReachesOK
<1>2. Says("crate_reaches", Reaches(CrateDeps(g), g.crate[loop.to], g.crate[from]))
  BY DEF CrateReachesOK
<1>3. /\ g.deps \in [Id -> SUBSET Id] /\ NodesOf(g) \in SUBSET Id
      /\ \A n \in NodesOf(g) : g.deps[n] \subseteq NodesOf(g)
      /\ \A n \in Id \ NodesOf(g) : g.deps[n] = {}
      /\ InCrates(g)
  BY TableFacts
<1>4. ASSUME loop.fn = "transitive_deps", answer # "none"
      PROVE visited = {n \in NodesOf(g) : \E d \in g.deps[from] : Reaches(g.deps, d, n)}
  <2>1. from \in NodesOf(g) /\ Search(Id, g.deps, g.deps[from], visited, {})
    BY <1>4 DEF TransitiveDepsOK
  <2>2. \A n : n \in visited <=> \E d \in g.deps[from] : Reaches(g.deps, d, n)
    BY <1>3, <2>1, SearchEnds
  <2>3. Closed(g.deps, NodesOf(g))
    BY <1>3 DEF Closed
  <2>4. \A d \in g.deps[from] : \A n : Reaches(g.deps, d, n) => n \in NodesOf(g)
    BY <1>3, <2>1, <2>3, ReachesWithin
  <2> QED BY <2>2, <2>4
<1>5. ASSUME loop.fn = "reverse_dep_closure", answer # "none"
      PROVE visited = {n \in NodesOf(g) : Reaches(g.deps, n, from)}
  <2>1. from \in NodesOf(g) /\ BackSearch(Id, g.deps, from, visited, {})
    BY <1>5 DEF ReverseDepClosureOK
  <2>2. visited \subseteq Id /\ \A n \in Id : n \in visited <=> Reaches(g.deps, n, from)
    BY <1>3, <2>1, BackSearchEnds DEF BackSearch
  <2>3. ASSUME NEW n \in Id \ NodesOf(g) PROVE ~Reaches(g.deps, n, from)
    <3>1. Closed(g.deps, {n})
      BY <1>3 DEF Closed
    <3> QED BY <1>3, <2>1, <3>1, ReachesWithin
  <2> QED BY <1>3, <2>2, <2>3
<1>6. ASSUME loop.fn = "containing_crate", answer # "none"
      PROVE todo = {g.crate[from]}
  BY <1>3, <1>6 DEF ContainingCrateOK, InCrates
<1> QED BY <1>1, <1>2, <1>4, <1>5, <1>6 DEF LookupsAgree

(* The lookups answer what their callers take them to answer, on every     *)
(* graph of any size that calls and merges can lead to, with or without    *)
(* cycles, and whatever the order in which stacks are popped.              *)
THEOREM LookupsAnswerRightly ==
  ASSUME GraphAssumption
  PROVE LookupSpec => []LookupsAgree
<1>1. LookupInit => LookupsOK
  BY DEF LookupInit, NoLoop, LookupsOK, DepReachesOK, CrateReachesOK, TransitiveDepsOK,
         ReverseDepClosureOK, ContainingCrateOK
<1>2. Inv /\ LookupsOK /\ [LookupNext]_lookupVars => LookupsOK'
  BY DepReachesStep, CrateReachesStep, TransitiveDepsStep, ReverseDepClosureStep,
     ContainingCrateStep DEF LookupsOK
<1>3. Inv /\ LookupsOK => LookupsAgree
  BY LookupsOKAgree
<1> QED BY <1>1, <1>2, <1>3, GraphInvOfLookups, PTL DEF LookupSpec, lookupVars

-----------------------------------------------------------------------------
(* topo_order.  t stands for the locals of the loop.                       *)

(* The nodes of the table that the scan has passed, the popped ones whose  *)
(* scan is over, and those that were ever queued.                          *)
Passed(h, t) == {h.order[k] : k \in 1 .. (t.at - 1)}
Spent(t)     == {t.line[i] : i \in 1 .. (t.popped - 1)}
Queued(t)    == {t.line[i] : i \in DOMAIN t.line}

(* The nodes that have been taken from m's in-degree.                      *)
Counted(h, t, m) ==
  IF t.popped > 0 /\ m \in Passed(h, t) THEN Spent(t) \cup {Popped(t)} ELSE Spent(t)

TopoType(h, t) ==
  /\ t \in [line : Seq(Id), popped : Nat, at : Nat, degree : [Id -> Nat]]
  /\ t.popped <= Len(t.line)
  /\ t.at \in 1 .. (Len(h.order) + 1)

QueuedOnce(h, t) ==
  /\ Queued(t) \subseteq NodesOf(h)
  /\ \A i, j \in DOMAIN t.line : t.line[i] = t.line[j] => i = j

DegreesOK(h, t) ==
  \A m \in NodesOf(h) : t.degree[m] = Cardinality(h.deps[m] \ Counted(h, t, m))

QueuedWhenReady(h, t) ==
  \A m \in NodesOf(h) :
    m \in Queued(t) <=> t.degree[m] = 0 /\ (t.popped > 0 \/ m \in Passed(h, t))

DepsFirst(h, t) ==
  \A i \in DOMAIN t.line : \A d \in h.deps[t.line[i]] :
    \E j \in DOMAIN t.line : j < i /\ t.line[j] = d

SourcesInOrder(h, t) ==
  \A a, b \in DOMAIN t.line : \A i, j \in DOMAIN h.order :
    /\ t.line[a] = h.order[i] /\ h.deps[t.line[a]] = {}
    /\ t.line[b] = h.order[j] /\ h.deps[t.line[b]] = {}
    /\ i < j
    => a < b

TopoInv(h, t) ==
  /\ TopoType(h, t)
  /\ QueuedOnce(h, t)
  /\ DegreesOK(h, t)
  /\ QueuedWhenReady(h, t)
  /\ DepsFirst(h, t)
  /\ SourcesInOrder(h, t)

(* Deps are nodes of the table, which is finite.                           *)
LEMMA DepsAreFinite ==
  ASSUME GraphAssumption, NEW h, GraphOK(h)
  PROVE /\ IsFiniteSet(NodesOf(h))
        /\ Cardinality(NodesOf(h)) = Len(h.order)
        /\ \A m \in Id : IsFiniteSet(h.deps[m])
<1> DEFINE n == Len(h.order)
           f == [i \in 1 .. n |-> h.order[i]]
<1>1. h.order \in Seq(Id) /\ DOMAIN h.order = 1 .. n /\ n \in Nat
  BY DEF GraphOK, GraphType
<1>2. f \in Bijection(1 .. n, NodesOf(h))
  <2>1. f \in [1 .. n -> NodesOf(h)]
    BY <1>1 DEF NodesOf
  <2>2. \A i, j \in 1 .. n : f[i] = f[j] => i = j
    BY <1>1 DEF GraphOK, Ordered
  <2>3. \A m \in NodesOf(h) : \E i \in 1 .. n : f[i] = m
    BY <1>1 DEF NodesOf
  <2> HIDE DEF f, n
  <2> QED BY <2>1, <2>2, <2>3, Fun_IsBij
<1>3. IsFiniteSet(NodesOf(h)) /\ Cardinality(NodesOf(h)) = n
  <2> HIDE DEF f, n
  <2>1. IsFiniteSet(1 .. n) /\ Cardinality(1 .. n) = n
    BY <1>1, FS_Interval
  <2> QED BY <1>2, <2>1, FS_Bijection DEF ExistsBijection
<1>4. ASSUME NEW m \in Id PROVE IsFiniteSet(h.deps[m])
  <2>1. h.deps[m] \subseteq NodesOf(h)
    BY DEF GraphOK, Rooted
  <2> QED BY <1>3, <2>1, FS_Subset
<1> QED BY <1>3, <1>4

LEMMA Appended ==
  ASSUME NEW S, NEW s \in Seq(S), NEW x \in S
  PROVE /\ Append(s, x) \in Seq(S)
        /\ Len(s) \in Nat /\ DOMAIN s = 1 .. Len(s)
        /\ Len(Append(s, x)) = Len(s) + 1
        /\ DOMAIN Append(s, x) = 1 .. (Len(s) + 1)
        /\ \A i \in 1 .. Len(s) : Append(s, x)[i] = s[i]
        /\ Append(s, x)[Len(s) + 1] = x
OBVIOUS

(* What looking at node m does to the locals.                              *)
LEMMA ScanFacts ==
  ASSUME GraphAssumption, GraphOK(g), NEW t, TopoInv(g, t), t.at \in DOMAIN g.order,
         NEW m, m = g.order[t.at], NEW u, u = Scanned(t, m)
  PROVE /\ m \in NodesOf(g) /\ m \in Id /\ m \notin Passed(g, t)
        /\ Passed(g, u) = Passed(g, t) \cup {m}
        /\ u.popped = t.popped /\ Spent(u) = Spent(t)
        /\ t.popped > 0 => Popped(u) = Popped(t)
        /\ t.popped > 0 => t.popped \in DOMAIN t.line /\ Popped(t) \notin Spent(t)
        /\ t.popped = 0 => Spent(t) = {}
<1>1. /\ t \in [line : Seq(Id), popped : Nat, at : Nat, degree : [Id -> Nat]]
      /\ t.popped <= Len(t.line) /\ t.line \in Seq(Id) /\ t.popped \in Nat /\ t.at \in Nat
      /\ Len(t.line) \in Nat /\ DOMAIN t.line = 1 .. Len(t.line)
  BY DEF TopoInv, TopoType
<1>2. g.order \in Seq(Id) /\ DOMAIN g.order = 1 .. Len(g.order) /\ Len(g.order) \in Nat
  BY DEF GraphOK, GraphType
<1>3. m \in NodesOf(g) /\ m \in Id
  BY <1>2 DEF NodesOf
<1>4. m \notin Passed(g, t)
  <2> SUFFICES ASSUME NEW k \in 1 .. (t.at - 1), g.order[k] = m PROVE FALSE
    BY DEF Passed
  <2>1. k \in DOMAIN g.order /\ k # t.at
    BY <1>1, <1>2
  <2> QED BY <2>1 DEF GraphOK, Ordered
<1>5. u.popped = t.popped /\ u.at = t.at + 1
  BY <1>1 DEF Scanned
<1>6. Passed(g, u) = Passed(g, t) \cup {m}
  <2>1. 1 .. (u.at - 1) = (1 .. (t.at - 1)) \cup {t.at}
    BY <1>1, <1>2, <1>5
  <2> QED BY <2>1 DEF Passed
<1>7. u.line = t.line \/ u.line = Append(t.line, m)
  BY <1>1 DEF Scanned
<1>8. \A i \in 1 .. Len(t.line) : u.line[i] = t.line[i]
  <2>1. \A i \in 1 .. Len(t.line) : Append(t.line, m)[i] = t.line[i]
    BY <1>1, <1>3, Appended
  <2> QED BY <1>7, <2>1
<1>9. \A i \in 1 .. (t.popped - 1) : u.line[i] = t.line[i]
  <2>1. 1 .. (t.popped - 1) \subseteq 1 .. Len(t.line)
    BY <1>1
  <2> QED BY <1>8, <2>1
<1>10. Spent(u) = Spent(t)
  BY <1>5, <1>9 DEF Spent
<1>11. ASSUME t.popped > 0
       PROVE /\ t.popped \in DOMAIN t.line
             /\ Popped(u) = Popped(t)
             /\ Popped(t) \notin Spent(t)
  <2>1. t.popped \in 1 .. Len(t.line)
    BY <1>1, <1>11
  <2>2. ASSUME NEW i \in 1 .. (t.popped - 1), t.line[i] = t.line[t.popped] PROVE FALSE
    <3>1. i \in DOMAIN t.line /\ i # t.popped
      BY <1>1
    <3> QED BY <1>1, <2>1, <2>2, <3>1 DEF TopoInv, QueuedOnce
  <2> QED BY <1>1, <1>5, <1>8, <2>1, <2>2 DEF Popped, Spent
<1>12. t.popped = 0 => Spent(t) = {}
  BY DEF Spent
<1> QED BY <1>3, <1>4, <1>5, <1>6, <1>10, <1>11, <1>12

(* Whether m is queued, and its in-degree afterwards.                      *)
Enqueued(h, t, m, u) ==
  /\ u.line = Append(t.line, m)
  /\ m \notin Queued(t) /\ u.degree[m] = 0
  /\ t.popped > 0 => h.deps[m] # {}

NotEnqueued(t, m, u) ==
  /\ u.line = t.line
  /\ m \in Queued(t) <=> u.degree[m] = 0

LEMMA ScanCounts ==
  ASSUME GraphAssumption, GraphOK(g), NEW t, TopoInv(g, t), t.at \in DOMAIN g.order,
         NEW m, m = g.order[t.at], NEW u, u = Scanned(t, m)
  PROVE /\ u.degree \in [Id -> Nat]
        /\ \A k \in Id \ {m} : u.degree[k] = t.degree[k]
        /\ u.degree[m] = Cardinality(g.deps[m] \ Counted(g, u, m))
        /\ Enqueued(g, t, m, u) \/ NotEnqueued(t, m, u)
<1> USE DEF Enqueued, NotEnqueued
<1> DEFINE waits == t.popped > 0 /\ Popped(t) \in g.deps[m]
<1>1. /\ t \in [line : Seq(Id), popped : Nat, at : Nat, degree : [Id -> Nat]]
      /\ t.degree \in [Id -> Nat] /\ t.popped \in Nat
  BY DEF TopoInv, TopoType
<1>2. /\ m \in NodesOf(g) /\ m \in Id /\ m \notin Passed(g, t)
      /\ Passed(g, u) = Passed(g, t) \cup {m}
      /\ u.popped = t.popped /\ Spent(u) = Spent(t)
      /\ t.popped > 0 => Popped(u) = Popped(t)
      /\ t.popped > 0 => Popped(t) \notin Spent(t)
      /\ t.popped = 0 => Spent(t) = {}
  BY ScanFacts
<1>3. /\ t.degree[m] = Cardinality(g.deps[m] \ Spent(t))
      /\ m \in Queued(t) <=> t.degree[m] = 0 /\ t.popped > 0
  BY <1>2 DEF TopoInv, DegreesOK, QueuedWhenReady, Counted
<1>4. u.degree = [t.degree EXCEPT ![m] = IF waits THEN t.degree[m] - 1 ELSE t.degree[m]]
  BY <1>1 DEF Scanned
<1>5. u.line = IF (IF t.popped = 0 THEN t.degree[m] = 0 ELSE waits /\ t.degree[m] = 1)
               THEN Append(t.line, m) ELSE t.line
  BY <1>1 DEF Scanned
<1>6. IsFiniteSet(g.deps[m] \ Spent(t))
  BY <1>2, DepsAreFinite, FS_Subset
<1>7. CASE waits
  <2>1. /\ Counted(g, u, m) = Spent(t) \cup {Popped(t)}
        /\ Popped(t) \in g.deps[m] \ Spent(t)
    BY <1>2, <1>7 DEF Counted
  <2>2. g.deps[m] \ Counted(g, u, m) = (g.deps[m] \ Spent(t)) \ {Popped(t)}
    BY <2>1
  <2>3. Cardinality(g.deps[m] \ Counted(g, u, m)) = t.degree[m] - 1
    <3>1. Cardinality((g.deps[m] \ Spent(t)) \ {Popped(t)})
            = Cardinality(g.deps[m] \ Spent(t)) - 1
      BY <1>6, <2>1, FS_RemoveElement
    <3> QED BY <1>3, <2>2, <3>1
  <2>4. Cardinality(g.deps[m] \ Counted(g, u, m)) \in Nat
    BY <1>6, <2>2, FS_RemoveElement, FS_CardinalityType
  <2>5. u.degree[m] = t.degree[m] - 1 /\ u.degree[m] \in Nat /\ t.degree[m] \in Nat
    BY <1>1, <1>2, <1>4, <1>7, <2>3, <2>4
  <2>6. u.degree \in [Id -> Nat] /\ \A k \in Id \ {m} : u.degree[k] = t.degree[k]
    <3>1. PICK d \in Nat : d = t.degree[m] - 1
      BY <2>5
    <3>2. u.degree = [t.degree EXCEPT ![m] = d]
      BY <1>4, <1>7, <3>1
    <3> QED BY <1>1, <1>2, <3>2
  <2>7. m \notin Queued(t)
    BY <1>3, <2>5
  <2>8. u.line = IF t.degree[m] = 1 THEN Append(t.line, m) ELSE t.line
    BY <1>1, <1>5, <1>7
  <2>9. u.degree[m] = 0 <=> t.degree[m] = 1
    BY <2>5
  <2> QED BY <1>7, <2>3, <2>5, <2>6, <2>7, <2>8, <2>9
<1>8. CASE ~waits
  <2>1. g.deps[m] \ Counted(g, u, m) = g.deps[m] \ Spent(t)
    BY <1>2, <1>8 DEF Counted
  <2>2. u.degree = t.degree
    BY <1>1, <1>4, <1>8
  <2>3. u.line = IF t.popped = 0 /\ t.degree[m] = 0 THEN Append(t.line, m) ELSE t.line
    BY <1>5, <1>8
  <2>4. (t.popped = 0 /\ ~(t.popped > 0)) \/ (t.popped > 0 /\ t.popped # 0)
    BY <1>1
  <2>5. u.degree[m] = Cardinality(g.deps[m] \ Counted(g, u, m))
    BY <1>3, <2>1, <2>2
  <2>6. CASE t.popped = 0 /\ t.degree[m] = 0
    <3>1. ~(t.popped > 0) /\ m \notin Queued(t)
      BY <1>3, <2>6
    <3>2. u.line = Append(t.line, m) /\ u.degree[m] = 0
      BY <2>2, <2>3, <2>6
    <3> QED BY <1>1, <2>2, <2>5, <3>1, <3>2
  <2>7. CASE ~(t.popped = 0 /\ t.degree[m] = 0)
    <3>1. m \in Queued(t) <=> t.degree[m] = 0
      BY <1>3, <2>4, <2>7
    <3> QED BY <1>1, <2>2, <2>3, <2>5, <2>7, <3>1
  <2> QED BY <2>6, <2>7
<1> QED BY <1>7, <1>8

(* What the scan's two outcomes have in common.                            *)
LEMMA ScanLine ==
  ASSUME GraphAssumption, GraphOK(g), NEW t, TopoInv(g, t), t.at \in DOMAIN g.order,
         NEW m, m = g.order[t.at], NEW u, u = Scanned(t, m)
  PROVE /\ TopoType(g, u)
        /\ \A i \in DOMAIN t.line : i \in DOMAIN u.line /\ u.line[i] = t.line[i]
        /\ \A i \in DOMAIN u.line : i \in DOMAIN t.line \/ u.line[i] = m
        /\ \A i \in DOMAIN u.line : i \notin DOMAIN t.line =>
             /\ \A j \in DOMAIN t.line : j < i
             /\ \A j \in DOMAIN u.line : j \notin DOMAIN t.line => j = i
             /\ m \notin Queued(t) /\ u.degree[m] = 0
             /\ t.popped > 0 => g.deps[m] # {}
        /\ u.line = t.line \/ m \in Queued(u)
        /\ u.line = t.line => (m \in Queued(t) <=> u.degree[m] = 0)
        /\ u.line # t.line => u.degree[m] = 0
<1>1. /\ t \in [line : Seq(Id), popped : Nat, at : Nat, degree : [Id -> Nat]]
      /\ t.popped <= Len(t.line) /\ t.line \in Seq(Id) /\ t.popped \in Nat
      /\ Len(t.line) \in Nat /\ DOMAIN t.line = 1 .. Len(t.line)
      /\ t.at \in 1 .. (Len(g.order) + 1)
  BY DEF TopoInv, TopoType
<1>2. DOMAIN g.order = 1 .. Len(g.order) /\ Len(g.order) \in Nat
  BY DEF GraphOK, GraphType
<1>3. m \in Id
  BY ScanFacts
<1>4. u.popped = t.popped /\ u.at = t.at + 1
  BY <1>1 DEF Scanned
<1>5. u = [line |-> u.line, popped |-> u.popped, at |-> u.at, degree |-> u.degree]
  BY <1>1 DEF Scanned
<1>6. u.degree \in [Id -> Nat]
  BY ScanCounts
<1>7. t.at + 1 \in 1 .. (Len(g.order) + 1) /\ t.at + 1 \in Nat
  BY <1>1, <1>2
<1>8. CASE Enqueued(g, t, m, u)
  <2> USE DEF Enqueued
  <2> DEFINE n == Len(t.line)
  <2>1. /\ u.line \in Seq(Id) /\ Len(u.line) = n + 1 /\ DOMAIN u.line = 1 .. (n + 1)
        /\ \A i \in 1 .. n : u.line[i] = t.line[i]
        /\ u.line[n + 1] = m
    BY <1>1, <1>3, <1>8, Appended
  <2>2. t.popped <= Len(u.line)
    BY <1>1, <2>1
  <2>3. TopoType(g, u)
    BY <1>1, <1>4, <1>5, <1>6, <1>7, <2>1, <2>2 DEF TopoType
  <2>4. n + 1 \in DOMAIN u.line /\ 1 .. n \subseteq DOMAIN u.line /\ n + 1 \notin 1 .. n
    BY <1>1, <2>1
  <2>5. \A i \in DOMAIN u.line : i \notin 1 .. n => i = n + 1 /\ \A j \in 1 .. n : j < i
    BY <1>1, <2>1
  <2>6. m \in Queued(u)
    BY <2>1, <2>4 DEF Queued
  <2>7. u.line # t.line
    BY <1>1, <2>1, <2>4
  <2>8. DOMAIN t.line = 1 .. n
    BY <1>1
  <2> HIDE DEF n
  <2>9. \A i \in DOMAIN t.line : i \in DOMAIN u.line /\ u.line[i] = t.line[i]
    BY <2>1, <2>4, <2>8
  <2>10. \A i \in DOMAIN u.line : i \in DOMAIN t.line \/ u.line[i] = m
    BY <2>1, <2>5, <2>8
  <2>11. ASSUME NEW i \in DOMAIN u.line, i \notin DOMAIN t.line
         PROVE /\ \A j \in DOMAIN t.line : j < i
               /\ \A j \in DOMAIN u.line : j \notin DOMAIN t.line => j = i
    BY <2>5, <2>8, <2>11
  <2>12. \A i \in DOMAIN u.line : i \notin DOMAIN t.line =>
           /\ \A j \in DOMAIN t.line : j < i
           /\ \A j \in DOMAIN u.line : j \notin DOMAIN t.line => j = i
           /\ m \notin Queued(t) /\ u.degree[m] = 0
           /\ t.popped > 0 => g.deps[m] # {}
    BY <1>8, <2>11
  <2>13. u.degree[m] = 0
    BY <1>8
  <2> QED BY <2>3, <2>6, <2>7, <2>9, <2>10, <2>12, <2>13, Zenon
<1>9. CASE NotEnqueued(t, m, u)
  <2> USE DEF NotEnqueued
  <2>1. TopoType(g, u)
    BY <1>1, <1>4, <1>5, <1>6, <1>7, <1>9 DEF TopoType
  <2> QED BY <1>9, <2>1
<1>10. Enqueued(g, t, m, u) \/ NotEnqueued(t, m, u)
  BY ScanCounts
<1> QED BY <1>8, <1>9, <1>10

LEMMA ScanKeepsTopo ==
  ASSUME GraphAssumption, GraphOK(g), NEW t, TopoInv(g, t), t.at \in DOMAIN g.order
  PROVE TopoInv(g, Scanned(t, g.order[t.at]))
<1>1. PICK m : m = g.order[t.at]
  OBVIOUS
<1>2. PICK u : u = Scanned(t, m)
  OBVIOUS
<1> SUFFICES TopoInv(g, u)
  BY <1>1, <1>2
<1> USE DEF TopoInv
<1>3. /\ m \in NodesOf(g) /\ m \in Id /\ m \notin Passed(g, t)
      /\ Passed(g, u) = Passed(g, t) \cup {m}
      /\ u.popped = t.popped /\ Spent(u) = Spent(t)
      /\ t.popped > 0 => Popped(u) = Popped(t)
      /\ t.popped > 0 => t.popped \in DOMAIN t.line
      /\ t.popped = 0 => Spent(t) = {}
  BY <1>1, <1>2, ScanFacts
<1>4. /\ \A k \in Id \ {m} : u.degree[k] = t.degree[k]
      /\ u.degree[m] = Cardinality(g.deps[m] \ Counted(g, u, m))
  BY <1>1, <1>2, ScanCounts
<1>5. /\ TopoType(g, u)
      /\ \A i \in DOMAIN t.line : i \in DOMAIN u.line /\ u.line[i] = t.line[i]
      /\ \A i \in DOMAIN u.line : i \in DOMAIN t.line \/ u.line[i] = m
      /\ \A i \in DOMAIN u.line : i \notin DOMAIN t.line =>
           /\ \A j \in DOMAIN t.line : j < i
           /\ \A j \in DOMAIN u.line : j \notin DOMAIN t.line => j = i
           /\ m \notin Queued(t) /\ u.degree[m] = 0
           /\ t.popped > 0 => g.deps[m] # {}
      /\ u.line = t.line \/ m \in Queued(u)
      /\ u.line = t.line => (m \in Queued(t) <=> u.degree[m] = 0)
      /\ u.line # t.line => u.degree[m] = 0
  BY <1>1, <1>2, ScanLine
<1>6. Queued(t) \subseteq Queued(u) /\ Queued(u) \subseteq Queued(t) \cup {m}
  BY <1>5 DEF Queued
<1>7. NodesOf(g) \subseteq Id
  BY DEF GraphOK, GraphType, NodesOf
<1>8. QueuedOnce(g, u)
  <2>1. Queued(u) \subseteq NodesOf(g)
    BY <1>3, <1>6 DEF QueuedOnce
  <2>2. ASSUME NEW i \in DOMAIN u.line, NEW j \in DOMAIN u.line, u.line[i] = u.line[j]
        PROVE i = j
    <3>1. CASE i \in DOMAIN t.line /\ j \in DOMAIN t.line
      BY <1>5, <2>2, <3>1 DEF QueuedOnce
    <3>2. CASE i \notin DOMAIN t.line /\ j \notin DOMAIN t.line
      BY <1>5, <3>2
    <3>3. CASE i \in DOMAIN t.line /\ j \notin DOMAIN t.line
      <4>1. t.line[i] = m /\ m \notin Queued(t)
        BY <1>5, <2>2, <3>3
      <4> QED BY <3>3, <4>1 DEF Queued
    <3>4. CASE i \notin DOMAIN t.line /\ j \in DOMAIN t.line
      <4>1. t.line[j] = m /\ m \notin Queued(t)
        BY <1>5, <2>2, <3>4
      <4> QED BY <3>4, <4>1 DEF Queued
    <3> QED BY <3>1, <3>2, <3>3, <3>4
  <2> QED BY <2>1, <2>2 DEF QueuedOnce
<1>9. DegreesOK(g, u)
  <2>1. ASSUME NEW k \in NodesOf(g), k # m
        PROVE u.degree[k] = Cardinality(g.deps[k] \ Counted(g, u, k))
    <3>1. Counted(g, u, k) = Counted(g, t, k)
      BY <1>3, <2>1 DEF Counted
    <3>2. u.degree[k] = t.degree[k]
      BY <1>4, <1>7, <2>1
    <3> QED BY <3>1, <3>2 DEF DegreesOK
  <2> QED BY <1>4, <2>1 DEF DegreesOK
<1>10. QueuedWhenReady(g, u)
  <2>1. ASSUME NEW k \in NodesOf(g), k # m
        PROVE k \in Queued(u) <=> u.degree[k] = 0 /\ (u.popped > 0 \/ k \in Passed(g, u))
    <3>1. k \in Queued(u) <=> k \in Queued(t)
      BY <1>6, <2>1
    <3>2. u.degree[k] = t.degree[k]
      BY <1>4, <1>7, <2>1
    <3>3. k \in Passed(g, u) <=> k \in Passed(g, t)
      BY <1>3, <2>1
    <3> QED BY <1>3, <3>1, <3>2, <3>3 DEF QueuedWhenReady
  <2>2. m \in Queued(u) <=> u.degree[m] = 0
    <3>1. u.line = t.line => Queued(u) = Queued(t)
      BY DEF Queued
    <3> QED BY <1>5, <3>1
  <2>3. m \in Passed(g, u)
    BY <1>3
  <2> QED BY <2>1, <2>2, <2>3 DEF QueuedWhenReady
<1>11. DepsFirst(g, u)
  <2> SUFFICES ASSUME NEW i \in DOMAIN u.line, NEW d \in g.deps[u.line[i]]
               PROVE \E j \in DOMAIN u.line : j < i /\ u.line[j] = d
    BY DEF DepsFirst
  <2>1. CASE i \in DOMAIN t.line
    BY <1>5, <2>1 DEF DepsFirst
  <2>2. CASE i \notin DOMAIN t.line
    <3>1. u.line[i] = m /\ u.degree[m] = 0 /\ \A j \in DOMAIN t.line : j < i
      BY <1>5, <2>2
    <3>2. IsFiniteSet(g.deps[m] \ Counted(g, u, m))
      BY <1>3, DepsAreFinite, FS_Subset
    <3>3. g.deps[m] \ Counted(g, u, m) = {}
      BY <1>4, <3>1, <3>2, FS_EmptySet
    <3>4. Counted(g, u, m) \subseteq Queued(t)
      <4>1. Spent(t) \subseteq Queued(t)
        <5>1. t.popped \in Nat /\ t.popped <= Len(t.line) /\ Len(t.line) \in Nat
              /\ DOMAIN t.line = 1 .. Len(t.line)
          BY DEF TopoType
        <5>2. 1 .. (t.popped - 1) \subseteq DOMAIN t.line
          BY <5>1
        <5> QED BY <5>2 DEF Spent, Queued
      <4> QED BY <1>3, <4>1 DEF Counted, Queued, Popped
    <3>5. PICK j \in DOMAIN t.line : t.line[j] = d
      BY <3>1, <3>3, <3>4 DEF Queued
    <3> QED BY <1>5, <3>1, <3>5
  <2> QED BY <2>1, <2>2
<1>12. SourcesInOrder(g, u)
  <2> SUFFICES ASSUME NEW a \in DOMAIN u.line, NEW b \in DOMAIN u.line,
                      NEW i \in DOMAIN g.order, NEW j \in DOMAIN g.order,
                      u.line[a] = g.order[i], g.deps[u.line[a]] = {},
                      u.line[b] = g.order[j], g.deps[u.line[b]] = {}, i < j
               PROVE a < b
    BY DEF SourcesInOrder
  <2>1. i \in Nat /\ j \in Nat /\ t.at \in Nat /\ DOMAIN g.order = 1 .. Len(g.order)
        /\ Len(g.order) \in Nat
    BY DEF GraphOK, GraphType, TopoType
  <2>2. CASE a \in DOMAIN t.line /\ b \in DOMAIN t.line
    BY <1>5, <2>2 DEF SourcesInOrder
  <2>3. CASE a \in DOMAIN t.line /\ b \notin DOMAIN t.line
    BY <1>5, <2>3
  <2>4. CASE a \notin DOMAIN t.line
    <3>1. u.line[a] = m /\ ~(t.popped > 0)
      BY <1>5, <2>4
    <3>2. i = t.at
      BY <1>1, <3>1 DEF GraphOK, Ordered
    <3>3. b \in DOMAIN t.line
      <4>1. ASSUME b \notin DOMAIN t.line PROVE FALSE
        <5>1. u.line[b] = m
          BY <1>5, <4>1
        <5>2. j = t.at
          BY <1>1, <5>1 DEF GraphOK, Ordered
        <5> QED BY <2>1, <3>2, <5>2
      <4> QED BY <4>1
    <3>4. u.line[b] \in Queued(t) /\ u.line[b] \in NodesOf(g)
      BY <1>5, <3>3 DEF Queued, QueuedOnce
    <3>5. u.line[b] \in Passed(g, t)
      BY <3>1, <3>4 DEF QueuedWhenReady
    <3>6. PICK k \in 1 .. (t.at - 1) : g.order[k] = g.order[j]
      BY <3>5 DEF Passed
    <3>7. k \in DOMAIN g.order /\ k < t.at
      BY <2>1
    <3>8. k = j
      BY <3>6, <3>7 DEF GraphOK, Ordered
    <3> QED BY <2>1, <3>2, <3>7, <3>8
  <2> QED BY <2>2, <2>3, <2>4
<1> QED BY <1>5, <1>8, <1>9, <1>10, <1>11, <1>12

(* Before the first pop and between two scans, nothing is half counted.    *)
LEMMA PopKeepsTopo ==
  ASSUME GraphAssumption, GraphOK(g), NEW t, TopoInv(g, t), t.at > Len(g.order),
         t.popped < Len(t.line)
  PROVE TopoInv(g, [t EXCEPT !.popped = @ + 1, !.at = 1])
<1>1. PICK u : u = [t EXCEPT !.popped = @ + 1, !.at = 1]
  OBVIOUS
<1> SUFFICES TopoInv(g, u)
  BY <1>1
<1> USE DEF TopoInv
<1>2. /\ t \in [line : Seq(Id), popped : Nat, at : Nat, degree : [Id -> Nat]]
      /\ t.popped \in Nat /\ Len(t.line) \in Nat /\ DOMAIN t.line = 1 .. Len(t.line)
      /\ t.at \in 1 .. (Len(g.order) + 1)
  BY DEF TopoType
<1>3. /\ Len(g.order) \in Nat /\ DOMAIN g.order = 1 .. Len(g.order)
  BY DEF GraphOK, GraphType
<1>4. /\ u \in [line : Seq(Id), popped : Nat, at : Nat, degree : [Id -> Nat]]
      /\ u.line = t.line /\ u.degree = t.degree
      /\ u.popped = t.popped + 1 /\ u.at = 1
  <2>1. u = [line |-> t.line, popped |-> t.popped + 1, at |-> 1, degree |-> t.degree]
    BY <1>1, <1>2
  <2>2. t.line \in Seq(Id) /\ t.popped + 1 \in Nat /\ t.degree \in [Id -> Nat]
    BY <1>2
  <2> QED BY <2>1, <2>2
<1>5. Passed(g, t) = NodesOf(g) /\ Passed(g, u) = {}
  <2>1. t.at - 1 = Len(g.order) /\ 1 .. (u.at - 1) = {}
    BY <1>2, <1>3, <1>4
  <2> QED BY <1>3, <2>1 DEF Passed, NodesOf
<1>6. Spent(u) = IF t.popped > 0 THEN Spent(t) \cup {Popped(t)} ELSE Spent(t)
  <2>1. CASE t.popped > 0
    <3>1. 1 .. (u.popped - 1) = 1 .. (t.popped - 1) \cup {t.popped}
      BY <1>2, <1>4, <2>1
    <3> QED BY <1>4, <2>1, <3>1 DEF Spent, Popped
  <2>2. CASE ~(t.popped > 0)
    <3>1. 1 .. (u.popped - 1) = {} /\ 1 .. (t.popped - 1) = {}
      BY <1>2, <1>4, <2>2
    <3> QED BY <2>2, <3>1 DEF Spent
  <2> QED BY <2>1, <2>2
<1>7. \A m \in NodesOf(g) : Counted(g, u, m) = Counted(g, t, m)
  BY <1>5, <1>6 DEF Counted
<1>8. Queued(u) = Queued(t)
  BY <1>4 DEF Queued
<1>9. TopoType(g, u)
  BY <1>2, <1>3, <1>4 DEF TopoType
<1>10. QueuedOnce(g, u) /\ DepsFirst(g, u) /\ SourcesInOrder(g, u)
  <2>1. QueuedOnce(g, u)
    BY <1>4, <1>8 DEF QueuedOnce
  <2>2. DepsFirst(g, u)
    BY <1>4 DEF DepsFirst
  <2>3. SourcesInOrder(g, u)
    BY <1>4 DEF SourcesInOrder
  <2> QED BY <2>1, <2>2, <2>3
<1>11. DegreesOK(g, u)
  BY <1>4, <1>7 DEF DegreesOK
<1>12. QueuedWhenReady(g, u)
  <2>1. u.popped > 0
    BY <1>2, <1>4
  <2> QED BY <1>4, <1>5, <1>8, <2>1 DEF QueuedWhenReady
<1> QED BY <1>9, <1>10, <1>11, <1>12

TopoOK ==
  loop.fn = "topo_order" =>
    /\ TopoInv(g, topo)
    /\ answer # "none" =>
         /\ topo.at > Len(g.order) /\ topo.popped = Len(topo.line)
         /\ answer = "true" <=> topo.popped = Len(g.order)

LEMMA TopoBegins ==
  ASSUME GraphAssumption, GraphOK(g)
  PROVE TopoInv(g, [NoTopo EXCEPT !.degree = [n \in Id |-> Cardinality(g.deps[n])]])
<1>1. PICK t : t = [NoTopo EXCEPT !.degree = [n \in Id |-> Cardinality(g.deps[n])]]
  OBVIOUS
<1>2. /\ t.line = <<>> /\ t.popped = 0 /\ t.at = 1
      /\ t = [line |-> t.line, popped |-> t.popped, at |-> t.at, degree |-> t.degree]
      /\ t.degree = [n \in Id |-> Cardinality(g.deps[n])]
  BY <1>1 DEF NoTopo
<1>3. \A n \in Id : Cardinality(g.deps[n]) \in Nat
  BY DepsAreFinite, FS_CardinalityType
<1>4. t.degree \in [Id -> Nat]
  BY <1>2, <1>3
<1>5. Len(g.order) \in Nat /\ NodesOf(g) \subseteq Id
  BY DEF GraphOK, GraphType, NodesOf
<1>6. DOMAIN t.line = {} /\ Len(t.line) = 0 /\ t.line \in Seq(Id)
  BY <1>2
<1>7. Passed(g, t) = {} /\ Spent(t) = {} /\ Queued(t) = {}
  <2>1. 1 .. (t.at - 1) = {} /\ 1 .. (t.popped - 1) = {}
    BY <1>2
  <2> QED BY <1>6, <2>1 DEF Passed, Spent, Queued
<1>8. TopoType(g, t)
  <2>1. t \in [line : Seq(Id), popped : Nat, at : Nat, degree : [Id -> Nat]]
    <3>1. t.popped \in Nat /\ t.at \in Nat
      BY <1>2
    <3> QED BY <1>2, <1>4, <1>6, <3>1
  <2>2. t.popped <= Len(t.line) /\ t.at \in 1 .. (Len(g.order) + 1)
    BY <1>2, <1>5, <1>6
  <2> QED BY <2>1, <2>2 DEF TopoType
<1>9. QueuedOnce(g, t) /\ DepsFirst(g, t) /\ SourcesInOrder(g, t)
  BY <1>6, <1>7 DEF QueuedOnce, DepsFirst, SourcesInOrder
<1>10. DegreesOK(g, t)
  <2>1. \A m \in NodesOf(g) : g.deps[m] \ Counted(g, t, m) = g.deps[m]
    BY <1>7 DEF Counted
  <2> QED BY <1>2, <1>5, <2>1 DEF DegreesOK
<1>11. QueuedWhenReady(g, t)
  <2>1. ~(t.popped > 0)
    BY <1>2
  <2> QED BY <1>7, <2>1 DEF QueuedWhenReady
<1> QED BY <1>1, <1>8, <1>9, <1>10, <1>11 DEF TopoInv

LEMMA TopoStep ==
  ASSUME GraphAssumption, Inv, TopoOK, [LookupNext]_lookupVars
  PROVE TopoOK'
<1> SUFFICES ASSUME loop'.fn = "topo_order"
             PROVE TopoOK'
  BY DEF TopoOK
<1>1. GraphOK(g)
  BY DEF Inv
<1>2. ASSUME CallTopoOrder
      PROVE TopoOK'
  <2>1. /\ g' = g /\ answer' = "none"
        /\ topo' = [NoTopo EXCEPT !.degree = [n \in Id |-> Cardinality(g.deps[n])]]
    BY <1>2 DEF CallTopoOrder, Call, vars
  <2>2. TopoInv(g', topo')
    BY <1>1, <2>1, TopoBegins
  <2> QED BY <2>1, <2>2 DEF TopoOK
<1>3. ASSUME TopoScan
      PROVE TopoOK'
  <2>1. /\ g' = g /\ answer' = "none" /\ loop.fn = "topo_order"
        /\ topo.at \in DOMAIN g.order
        /\ topo' = Scanned(topo, g.order[topo.at])
    BY <1>3 DEF TopoScan, Running, vars
  <2>2. TopoInv(g, topo)
    BY <2>1 DEF TopoOK
  <2>3. TopoInv(g', topo')
    BY <1>1, <2>1, <2>2, ScanKeepsTopo
  <2> QED BY <2>1, <2>3 DEF TopoOK
<1>4. ASSUME TopoPop
      PROVE TopoOK'
  <2>1. /\ g' = g /\ answer' = "none" /\ loop.fn = "topo_order"
        /\ topo.at > Len(g.order) /\ topo.popped < Len(topo.line)
        /\ topo' = [topo EXCEPT !.popped = @ + 1, !.at = 1]
    BY <1>4 DEF TopoPop, Running, vars
  <2>2. TopoInv(g, topo)
    BY <2>1 DEF TopoOK
  <2>3. TopoInv(g', topo')
    BY <1>1, <2>1, <2>2, PopKeepsTopo
  <2> QED BY <2>1, <2>3 DEF TopoOK
<1>5. ASSUME TopoReturn
      PROVE TopoOK'
  <2>1. /\ g' = g /\ topo' = topo /\ loop.fn = "topo_order"
        /\ topo.at > Len(g.order) /\ topo.popped = Len(topo.line)
        /\ answer' = IF topo.popped = Len(g.order) THEN "true" ELSE "false"
    BY <1>5 DEF TopoReturn, Running, Return, vars
  <2> QED BY <2>1 DEF TopoOK
<1>6. CASE UNCHANGED lookupVars
  BY <1>6 DEF lookupVars, lookup, vars, TopoOK
<1> QED BY <1>2, <1>3, <1>4, <1>5, <1>6, StepsOf

(* When the queue has run dry, every node's in-degree counts the deps that *)
(* are not in the order, and the order is complete exactly if it has every *)
(* node.                                                                   *)
LEMMA TopoAtEnd ==
  ASSUME GraphAssumption, GraphOK(g), NEW t, TopoInv(g, t),
         t.at > Len(g.order), t.popped = Len(t.line)
  PROVE /\ \A m \in NodesOf(g) : m \in Queued(t) <=> g.deps[m] \subseteq Queued(t)
        /\ t.popped = Len(g.order) <=> Queued(t) = NodesOf(g)
<1>1. /\ t.line \in Seq(Id) /\ t.popped \in Nat /\ t.at \in Nat
      /\ t.at = Len(g.order) + 1
      /\ DOMAIN t.line = 1 .. t.popped
      /\ DOMAIN g.order = 1 .. Len(g.order)
      /\ Len(g.order) \in Nat
  BY DEF TopoInv, TopoType, GraphOK, GraphType
<1>2. Passed(g, t) = NodesOf(g)
  <2>1. 1 .. (t.at - 1) = DOMAIN g.order
    BY <1>1
  <2> QED BY <2>1 DEF Passed, NodesOf
<1>3. \A m \in NodesOf(g) : Counted(g, t, m) = Queued(t)
  <2>1. CASE t.popped = 0
    <3>1. DOMAIN t.line = {} /\ 1 .. (t.popped - 1) = {} /\ ~(t.popped > 0)
      BY <1>1, <2>1
    <3> QED BY <3>1 DEF Counted, Spent, Queued
  <2>2. CASE t.popped > 0
    <3>1. DOMAIN t.line = (1 .. (t.popped - 1)) \cup {t.popped}
      BY <1>1, <2>2
    <3>2. Queued(t) = Spent(t) \cup {Popped(t)}
      BY <3>1 DEF Queued, Spent, Popped
    <3> QED BY <1>2, <2>2, <3>2 DEF Counted
  <2> QED BY <1>1, <2>1, <2>2
<1>4. ASSUME NEW m \in NodesOf(g)
      PROVE m \in Queued(t) <=> g.deps[m] \subseteq Queued(t)
  <2>1. IsFiniteSet(g.deps[m] \ Queued(t))
    <3>1. m \in Id
      BY DEF GraphOK, GraphType, NodesOf
    <3> QED BY <3>1, DepsAreFinite, FS_Subset
  <2>2. t.degree[m] = 0 <=> g.deps[m] \ Queued(t) = {}
    <3>1. t.degree[m] = Cardinality(g.deps[m] \ Queued(t))
      BY <1>3 DEF TopoInv, DegreesOK
    <3> QED BY <2>1, <3>1, FS_EmptySet
  <2>3. m \in Queued(t) <=> t.degree[m] = 0
    BY <1>2 DEF TopoInv, QueuedWhenReady
  <2> QED BY <2>2, <2>3
<1>5. Cardinality(Queued(t)) = t.popped
  <2> DEFINE f == [i \in 1 .. t.popped |-> t.line[i]]
  <2>1. f \in [1 .. t.popped -> Queued(t)]
    BY <1>1 DEF Queued
  <2>2. \A i, j \in 1 .. t.popped : f[i] = f[j] => i = j
    BY <1>1 DEF TopoInv, QueuedOnce
  <2>3. \A m \in Queued(t) : \E i \in 1 .. t.popped : f[i] = m
    BY <1>1 DEF Queued
  <2> HIDE DEF f
  <2>4. f \in Bijection(1 .. t.popped, Queued(t))
    BY <2>1, <2>2, <2>3, Fun_IsBij
  <2>5. IsFiniteSet(1 .. t.popped) /\ Cardinality(1 .. t.popped) = t.popped
    <3>1. PICK n \in Nat : n = t.popped
      BY <1>1
    <3>2. /\ IsFiniteSet(1 .. n)
          /\ Cardinality(1 .. n) = IF 1 > n THEN 0 ELSE n - 1 + 1
      BY FS_Interval
    <3> QED BY <3>1, <3>2
  <2> QED BY <2>4, <2>5, FS_Bijection DEF ExistsBijection
<1>6. Queued(t) \in SUBSET NodesOf(g)
  BY DEF TopoInv, QueuedOnce
<1>7. t.popped = Len(g.order) <=> Queued(t) = NodesOf(g)
  BY <1>5, <1>6, DepsAreFinite, FS_Subset
<1> QED BY <1>4, <1>7

LEMMA TopoOKSound ==
  ASSUME GraphAssumption, Inv, TopoOK
  PROVE TopoOrderSound
<1> DEFINE Source(n)       == g.deps[n] = {}
           Before(s, m, n) == \E i, j \in DOMAIN s : i < j /\ s[i] = m /\ s[j] = n
<1> SUFFICES ASSUME loop.fn = "topo_order", answer # "none"
             PROVE /\ answer = "true" <=> Acyclic(g.deps)
                   /\ answer = "true" =>
                        /\ \A n \in NodesOf(g) : \E i \in DOMAIN topo.line : topo.line[i] = n
                        /\ \A i, j \in DOMAIN topo.line : topo.line[i] = topo.line[j] => i = j
                        /\ \A n \in NodesOf(g) : \A d \in g.deps[n] : Before(topo.line, d, n)
                        /\ \A m, n \in NodesOf(g) :
                             Source(m) /\ Source(n) /\ Before(g.order, m, n)
                             => Before(topo.line, m, n)
  BY DEF TopoOrderSound, Says
<1>1. /\ GraphOK(g) /\ TopoInv(g, topo)
      /\ topo.at > Len(g.order) /\ topo.popped = Len(topo.line)
      /\ answer = "true" <=> topo.popped = Len(g.order)
  BY DEF Inv, TopoOK
<1>2. answer = "true" <=> Queued(topo) = NodesOf(g)
  BY <1>1, TopoAtEnd
<1>3. \A m \in NodesOf(g) : m \in Queued(topo) <=> g.deps[m] \subseteq Queued(topo)
  BY <1>1, TopoAtEnd
<1>4. /\ g.deps \in [Id -> SUBSET Id]
      /\ NodesOf(g) \in SUBSET Id
      /\ \A n \in NodesOf(g) : g.deps[n] \subseteq NodesOf(g)
      /\ \A n \in Id \ NodesOf(g) : g.deps[n] = {}
  BY TableFacts
<1>5. ASSUME Queued(topo) = NodesOf(g)
      PROVE Acyclic(g.deps)
  <2> DEFINE n == Len(topo.line)
             s == [i \in 1 .. n |-> topo.line[i]]
  <2>1. topo.line \in Seq(Id) /\ n \in Nat /\ DOMAIN topo.line = 1 .. n
    BY <1>1 DEF TopoInv, TopoType
  <2>2. s \in [1 .. n -> Id]
    BY <2>1
  <2>3. ASSUME NEW m \in Id, g.deps[m] # {}
        PROVE \E i \in 1 .. n : s[i] = m
    BY <1>4, <1>5, <2>1, <2>3 DEF Queued
  <2>4. ASSUME NEW i \in 1 .. n, NEW d \in g.deps[s[i]]
        PROVE \E j \in 1 .. n : j < i /\ s[j] = d
    BY <1>1, <2>1 DEF TopoInv, DepsFirst
  <2> HIDE DEF s, n
  <2> QED BY <1>4, <2>1, <2>2, <2>3, <2>4, ListedIsAcyclic
<1>6. ASSUME Queued(topo) # NodesOf(g)
      PROVE ~Acyclic(g.deps)
  <2> DEFINE S == NodesOf(g) \ Queued(topo)
  <2>1. Queued(topo) \subseteq NodesOf(g)
    BY <1>1 DEF TopoInv, QueuedOnce
  <2>2. S \in (SUBSET DOMAIN g.deps) \ {{}}
    BY <1>4, <1>6, <2>1
  <2>3. ASSUME NEW n \in S
        PROVE g.deps[n] \cap S # {}
    BY <1>3, <1>4
  <2> QED BY <2>2, <2>3 DEF Acyclic
<1>7. ASSUME answer = "true"
      PROVE /\ \A n \in NodesOf(g) : \E i \in DOMAIN topo.line : topo.line[i] = n
            /\ \A i, j \in DOMAIN topo.line : topo.line[i] = topo.line[j] => i = j
            /\ \A n \in NodesOf(g) : \A d \in g.deps[n] : Before(topo.line, d, n)
            /\ \A m, n \in NodesOf(g) :
                 Source(m) /\ Source(n) /\ Before(g.order, m, n) => Before(topo.line, m, n)
  <2>1. \A n \in NodesOf(g) : \E i \in DOMAIN topo.line : topo.line[i] = n
    BY <1>2, <1>7 DEF Queued
  <2>2. \A i, j \in DOMAIN topo.line : topo.line[i] = topo.line[j] => i = j
    BY <1>1 DEF TopoInv, QueuedOnce
  <2>3. ASSUME NEW n \in NodesOf(g), NEW d \in g.deps[n]
        PROVE Before(topo.line, d, n)
    <3>1. PICK i \in DOMAIN topo.line : topo.line[i] = n
      BY <2>1
    <3>2. PICK j \in DOMAIN topo.line : j < i /\ topo.line[j] = d
      BY <1>1, <3>1 DEF TopoInv, DepsFirst
    <3> QED BY <3>1, <3>2
  <2>4. ASSUME NEW m \in NodesOf(g), NEW n \in NodesOf(g),
               Source(m), Source(n), Before(g.order, m, n)
        PROVE Before(topo.line, m, n)
    <3>1. PICK i \in DOMAIN g.order, j \in DOMAIN g.order :
            i < j /\ g.order[i] = m /\ g.order[j] = n
      BY <2>4
    <3>2. PICK a \in DOMAIN topo.line : topo.line[a] = m
      BY <2>1
    <3>3. PICK b \in DOMAIN topo.line : topo.line[b] = n
      BY <2>1
    <3>4. a < b
      BY <1>1, <2>4, <3>1, <3>2, <3>3 DEF TopoInv, SourcesInOrder
    <3> QED BY <3>2, <3>3, <3>4
  <2> QED BY <2>1, <2>2, <2>3, <2>4
<1> QED BY <1>2, <1>5, <1>6, <1>7

(* topo_order finds an order exactly if the deps close no cycle, on graphs *)
(* of any size and with any deps, and the order has every node once, deps  *)
(* before dependents, nodes without deps in insertion order.               *)
THEOREM TopoOrderIsSound ==
  ASSUME GraphAssumption
  PROVE LookupSpec => []TopoOrderSound
<1>1. LookupInit => TopoOK
  BY DEF LookupInit, NoLoop, TopoOK
<1>2. Inv /\ TopoOK /\ [LookupNext]_lookupVars => TopoOK'
  BY TopoStep
<1>3. Inv /\ TopoOK => TopoOrderSound
  BY TopoOKSound
<1> QED BY <1>1, <1>2, <1>3, GraphInvOfLookups, PTL DEF LookupSpec, lookupVars
=============================================================================
