--------------------------- MODULE RenderingProofs ---------------------------
(***************************************************************************)
(* Proofs about Rendering for trees of any size and depth and any layout   *)
(* of crates in them: where nodes are rendered, how the modules of a crate *)
(* hang together, what imports and prompts name.                           *)
(*                                                                         *)
(* A walk up the tree is a recursive function, and what holds of it is     *)
(* shown by induction over the tree.  The induction is a fact about sets   *)
(* of nodes, Tree, that every step of NodeGraph preserves.                 *)
(***************************************************************************)
EXTENDS Rendering, NodeGraphProofs, SequenceTheorems

-----------------------------------------------------------------------------
(* Trees.                                                                  *)

(* Only nodes below the root hang from another.                            *)
Placed(h) == \A n \in Id : n \notin NodesOf(h) \ {h.root} => h.parent[n] = NoNode

(* What the root has, and a child whenever its parent does, all nodes have. *)
Tree(h) ==
  \A S \in SUBSET NodesOf(h) :
    /\ h.root \in S
    /\ \A n \in NodesOf(h) \ {h.root} : h.parent[n] \in S => n \in S
    => S = NodesOf(h)

Named(h) == \A n \in NodesOf(h) : h.name[n] \in Name

(* The walks up from all nodes.  Chains is one such function.              *)
IsChains(h, f) ==
  f = [n \in Id |-> IF h.parent[n] = NoNode THEN <<n>> ELSE Append(f[h.parent[n]], n)]

TreeOK(h) == Placed(h) /\ Tree(h) /\ Named(h) /\ \E f : IsChains(h, f)

(* A node added to the table is a new leaf.                                *)
LEMMA NewNodeKeepsTree ==
  ASSUME GraphAssumption, NEW h, GraphOK(h), TreeOK(h),
         NEW n \in Id \ NodesOf(h), NEW k \in GraphType,
         k.order = Append(h.order, n),
         \A m \in Id \ {n} : k.parent[m] = h.parent[m] /\ k.name[m] = h.name[m],
         k.name[n] \in Name,
         \/ h.root = NoNode /\ k.root = n /\ k.parent[n] = h.parent[n]
         \/ h.root # NoNode /\ k.root = h.root /\ k.parent[n] \in NodesOf(h)
  PROVE TreeOK(k)
<1>1. NodesOf(k) = NodesOf(h) \cup {n} /\ NodesOf(h) \subseteq Id /\ h \in GraphType
  <2>1. h \in GraphType
    BY DEF GraphOK
  <2>2. NodesOf(h) \subseteq Id
    BY <2>1 DEF GraphType, NodesOf
  <2> QED BY <2>1, <2>2, NodesOfAppend
<1>2. h.parent[n] = NoNode
  BY DEF TreeOK, Placed
<1>3. h.root = NoNode <=> NodesOf(h) = {}
  BY DEF GraphOK, Rooted
<1>4. h.root # NoNode => h.root \in NodesOf(h)
  BY DEF GraphOK, Rooted
<1>5. Placed(k)
  BY <1>1, <1>2, <1>3, <1>4 DEF TreeOK, Placed
<1>6. Named(k)
  BY <1>1 DEF TreeOK, Named
<1>7. Tree(k)
  <2> SUFFICES ASSUME NEW S \in SUBSET NodesOf(k), k.root \in S,
                      \A m \in NodesOf(k) \ {k.root} : k.parent[m] \in S => m \in S
               PROVE S = NodesOf(k)
    BY DEF Tree
  <2>1. CASE h.root = NoNode
    BY <1>1, <1>3, <2>1
  <2>2. CASE h.root # NoNode
    <3> DEFINE T == S \ {n}
    <3>1. T \in SUBSET NodesOf(h) /\ h.root \in T /\ k.root = h.root
      BY <1>1, <1>4, <2>2
    <3>2. ASSUME NEW m \in NodesOf(h) \ {h.root}, h.parent[m] \in T
          PROVE m \in T
      BY <1>1, <3>1, <3>2
    <3>3. T = NodesOf(h)
      <4> HIDE DEF T
      <4> QED BY <3>1, <3>2 DEF TreeOK, Tree
    <3> QED BY <1>1, <1>4, <2>2, <3>1, <3>3
  <2> QED BY <2>1, <2>2
<1>8. \E f : IsChains(k, f)
  <2>1. PICK f : IsChains(h, f)
    BY DEF TreeOK
  <2>2. \A m \in Id \ {n} : h.parent[m] = NoNode \/ (h.parent[m] # n /\ h.parent[m] \in Id)
    BY <1>1 DEF TreeOK, Placed, GraphOK, Rooted
  <2>3. k.parent[n] = NoNode \/ (k.parent[n] # n /\ k.parent[n] \in Id)
    BY <1>1, <1>2, <1>4
  <2> DEFINE e == [f EXCEPT ![n] = IF k.parent[n] = NoNode THEN <<n>>
                                   ELSE Append(f[k.parent[n]], n)]
             at(m) == IF k.parent[m] = NoNode THEN <<m>> ELSE Append(e[k.parent[m]], m)
  <2>4. DOMAIN f = Id /\ \A m \in Id : f[m] = IF h.parent[m] = NoNode THEN <<m>>
                                              ELSE Append(f[h.parent[m]], m)
    BY <2>1 DEF IsChains
  <2>5. ASSUME NEW m \in Id
        PROVE e[m] = at(m)
    <3>1. CASE m = n
      BY <2>3, <2>4, <3>1
    <3>2. CASE m # n
      BY <2>2, <2>4, <3>2
    <3> QED BY <3>1, <3>2
  <2>6. e = [m \in Id |-> at(m)]
    BY <2>4, <2>5
  <2> HIDE DEF e
  <2>7. IsChains(k, e)
    BY <2>6, Zenon DEF IsChains
  <2> QED BY <2>7
<1> QED BY <1>5, <1>6, <1>7, <1>8 DEF TreeOK

(* New deps leave the tree as it is.                                       *)
LEMMA SameTree ==
  ASSUME NEW h, NEW k, TreeOK(h), k.order = h.order, k.root = h.root,
         k.parent = h.parent, k.name = h.name
  PROVE TreeOK(k)
<1>1. NodesOf(k) = NodesOf(h)
  BY DEF NodesOf
<1>2. Placed(k) /\ Tree(k) /\ Named(k)
  BY <1>1 DEF TreeOK, Placed, Tree, Named
<1>3. \A f : IsChains(h, f) => IsChains(k, f)
  BY DEF IsChains
<1> QED BY <1>2, <1>3 DEF TreeOK

LEMMA EmptyTree ==
  ASSUME GraphAssumption
  PROVE TreeOK(EmptyGraph)
<1>1. NodesOf(EmptyGraph) = {}
  BY EmptyGraphOK
<1>2. \A n \in Id : EmptyGraph.parent[n] = NoNode
  BY DEF EmptyGraph
<1>3. Placed(EmptyGraph) /\ Tree(EmptyGraph) /\ Named(EmptyGraph)
  BY <1>1, <1>2 DEF Placed, Tree, Named
<1>4. IsChains(EmptyGraph, [n \in Id |-> <<n>>])
  BY <1>2, Zenon DEF IsChains
<1> QED BY <1>3, <1>4 DEF TreeOK

-----------------------------------------------------------------------------
(* Every step of the calls and lookups keeps the trees, in hand and on     *)
(* disk, and the names of siblings apart.                                  *)

TreesOK ==
  /\ TreeOK(g) /\ TreeOK(saved)
  /\ SiblingsDiffer(g) /\ SiblingsDiffer(saved)

(* What a step can make of the graph in hand.                              *)
LEMMA InsertRootKeepsTree ==
  ASSUME GraphAssumption, Inv, TreeOK(g), NEW n \in Id, NEW nm \in Name,
         InsertRoot(n, nm)
  PROVE TreeOK(g')
<1>1. GraphOK(g) /\ g \in GraphType
  BY DEF Inv, GraphOK
<1>2. /\ NodesOf(g) = {} /\ g.root = NoNode
      /\ g' \in GraphType
  BY <1>1, InsertRootKeepsGraph DEF InsertRoot, GraphOK
<1>3. /\ g'.order = Append(g.order, n) /\ g'.root = n /\ g'.name[n] = nm
      /\ g'.parent = g.parent
      /\ \A m \in Id \ {n} : g'.name[m] = g.name[m]
  BY <1>1 DEF InsertRoot, GraphType
<1>4. n \in Id \ NodesOf(g)
  BY <1>2
<1>5. \A m \in Id \ {n} : g'.parent[m] = g.parent[m] /\ g'.name[m] = g.name[m]
  BY <1>3
<1>6. g.root = NoNode /\ g'.root = n /\ g'.parent[n] = g.parent[n]
  BY <1>2, <1>3
<1>7. g'.name[n] \in Name
  BY <1>3
<1> QED BY <1>1, <1>2, <1>3, <1>4, <1>5, <1>6, <1>7, NewNodeKeepsTree

LEMMA AddChildKeepsTree ==
  ASSUME GraphAssumption, Inv, TreeOK(g), NEW p \in Id, NEW n \in Id,
         NEW nm \in Name, NEW b \in BOOLEAN, AddChild(p, n, nm, b)
  PROVE TreeOK(g')
<1>1. GraphOK(g) /\ g \in GraphType /\ BusyOK
  BY DEF Inv, GraphOK, AddChild
<1>2. g' \in GraphType
  BY <1>1, AddChildKeepsGraph DEF GraphOK
<1>3. /\ g'.order = Append(g.order, n) /\ g'.root = g.root
      /\ g'.name[n] = nm /\ g'.parent[n] = p
      /\ \A m \in Id \ {n} : g'.name[m] = g.name[m]
      /\ \A m \in Id \ {n} : g'.parent[m] = g.parent[m]
  BY <1>1 DEF AddChild, GraphType
<1>4. n \in Id \ NodesOf(g) /\ p \in NodesOf(g) /\ g.root # NoNode
  BY <1>1 DEF AddChild, BusyOK, GraphOK, Rooted
<1>5. \A m \in Id \ {n} : g'.parent[m] = g.parent[m] /\ g'.name[m] = g.name[m]
  BY <1>3
<1>6. g.root # NoNode /\ g'.root = g.root /\ g'.parent[n] \in NodesOf(g)
  BY <1>3, <1>4
<1>7. g'.name[n] \in Name
  BY <1>3
<1> QED BY <1>1, <1>2, <1>3, <1>4, <1>5, <1>6, <1>7, NewNodeKeepsTree

LEMMA NewDepsKeepTree ==
  ASSUME g \in GraphType, TreeOK(g), NEW n, NEW D, g' = WithDeps(n, D)
  PROVE TreeOK(g')
<1>1. /\ g'.order = g.order /\ g'.root = g.root
      /\ g'.parent = g.parent /\ g'.name = g.name
  BY DEF WithDeps, GraphType
<1> QED BY <1>1, SameTree

LEMMA TreesStep ==
  ASSUME GraphAssumption, Inv, TreesOK, [Next]_vars
  PROVE TreesOK'
<1> USE DEF TreesOK
<1>1. SiblingsDiffer(g') /\ SiblingsDiffer(saved')
  BY SiblingsStep
<1>2. g \in GraphType
  BY DEF Inv, GraphOK
<1>3. ASSUME NEW n \in Id, NEW nm \in Name, InsertRoot(n, nm)
      PROVE TreeOK(g') /\ saved' = g'
  BY <1>3, InsertRootKeepsTree DEF InsertRoot
<1>4. ASSUME NEW p \in Id, NEW n \in Id, NEW nm \in Name, NEW b \in BOOLEAN,
             AddChild(p, n, nm, b)
      PROVE TreeOK(g') /\ saved' = saved
  BY <1>4, AddChildKeepsTree DEF AddChild
<1>5. ASSUME NEW from \in Id, NEW to \in Id, AddDep(from, to)
      PROVE TreeOK(g') /\ saved' = saved
  BY <1>2, <1>5, NewDepsKeepTree DEF AddDep
<1>6. ASSUME NEW n \in NodesOf(g), NEW D \in SUBSET NodesOf(g), SpecDeps(n, D)
      PROVE TreeOK(g') /\ saved' = g'
  BY <1>2, <1>6, NewDepsKeepTree DEF SpecDeps
<1>7. ASSUME BeginCall \/ FailCall \/ EndCall \/ UNCHANGED vars
             \/ \E D \in SUBSET (call.new \X (call.new \cup {g.root})) : NodesAdded(D)
      PROVE g' \in {g, saved} /\ saved' \in {g, saved}
  BY <1>7 DEF BeginCall, FailCall, EndCall, NodesAdded, vars
<1>8. TreeOK(g') /\ TreeOK(saved')
  BY <1>3, <1>4, <1>5, <1>6, <1>7 DEF Next
<1> QED BY <1>1, <1>8

LEMMA MergeKeepsTrees ==
  ASSUME Inv, TreesOK, NEW n, NEW D, Merged(n, D)
  PROVE TreesOK'
<1>1. g \in GraphType /\ g' = WithDeps(n, D) /\ saved' = g'
  BY DEF Inv, GraphOK, Merged
<1>2. TreeOK(g')
  BY <1>1, NewDepsKeepTree DEF TreesOK
<1>3. g'.order = g.order /\ g'.parent = g.parent /\ g'.name = g.name
  BY <1>1 DEF WithDeps, GraphType
<1>4. SiblingsDiffer(g')
  BY <1>3 DEF TreesOK, SiblingsDiffer, NodesOf
<1> QED BY <1>1, <1>2, <1>4 DEF TreesOK

LEMMA TreesHold ==
  ASSUME GraphAssumption
  PROVE LookupSpec => [](Inv /\ TreesOK)
<1>1. LookupInit => TreesOK
  BY EmptyTree, EmptyGraphOK DEF LookupInit, Init, TreesOK, SiblingsDiffer
<1>2. ASSUME Inv, TreesOK, [LookupNext]_lookupVars
      PROVE TreesOK'
  <2>1. CASE GraphStep
    <3>1. CASE Next
      BY <3>1, <1>2, TreesStep
    <3>2. CASE \E n \in NodesOf(g) : \E D \in SUBSET (NodesOf(g) \ {n}) : Merged(n, D)
      BY <3>2, <1>2, MergeKeepsTrees
    <3> QED BY <2>1, <3>1, <3>2 DEF GraphStep
  <2>2. CASE UNCHANGED vars
    BY <1>2, <2>2, TreesStep
  <2> QED BY <1>2, <2>1, <2>2, OthersLeaveGraph DEF lookupVars
<1>3. Inv /\ TreesOK /\ [LookupNext]_lookupVars => TreesOK'
  BY <1>2
<1> QED BY <1>1, <1>3, GraphInvOfLookups, PTL DEF LookupSpec, lookupVars

-----------------------------------------------------------------------------
(* Chains.                                                                 *)

(* What is known of a graph in hand or on disk.                            *)
Sound(h) == GraphOK(h) /\ TreeOK(h) /\ SiblingsDiffer(h)

LEMMA TreeFacts ==
  ASSUME GraphAssumption, NEW h, Sound(h)
  PROVE /\ h \in GraphType /\ NodesOf(h) \subseteq Id
        /\ \A n \in NodesOf(h) : n # h.root => h.parent[n] \in NodesOf(h)
        /\ \A n \in NodesOf(h) : h.root \in NodesOf(h)
        /\ h.parent[h.root] = NoNode \/ NodesOf(h) = {}
        /\ NoNode \notin NodesOf(h)
<1>1. h \in GraphType /\ NodesOf(h) \subseteq Id
  BY DEF Sound, GraphOK, GraphType, NodesOf
<1>2. Rooted(h) /\ Placed(h)
  BY DEF Sound, GraphOK, TreeOK
<1> QED BY <1>1, <1>2 DEF Rooted, Placed, GraphAssumption

LEMMA ChainOf ==
  ASSUME GraphAssumption, NEW h, Sound(h), NEW n \in NodesOf(h)
  PROVE Chain(h, n) = IF n = h.root THEN <<n>> ELSE Append(Chain(h, h.parent[n]), n)
<1>1. PICK f : IsChains(h, f)
  BY DEF Sound, TreeOK
<1>2. IsChains(h, Chains(h))
  BY <1>1, Zenon DEF Chains, IsChains
<1>3. n \in Id /\ (h.parent[n] = NoNode <=> n = h.root)
  BY TreeFacts
<1> HIDE DEF Chains
<1>4. Chains(h)[n] = IF h.parent[n] = NoNode THEN <<n>>
                     ELSE Append(Chains(h)[h.parent[n]], n)
  BY <1>2, <1>3 DEF IsChains
<1> QED BY <1>3, <1>4 DEF Chain

(* A chain goes from the root to its node, and whatever is on it has its   *)
(* own chain as the part that leads there.                                 *)
ChainOK(h, n) ==
  /\ Chain(h, n) \in Seq(NodesOf(h))
  /\ Len(Chain(h, n)) >= 1
  /\ Chain(h, n)[1] = h.root
  /\ Chain(h, n)[Len(Chain(h, n))] = n
  /\ \A i \in 1 .. Len(Chain(h, n)) :
       Chain(h, Chain(h, n)[i]) = SubSeq(Chain(h, n), 1, i)

LEMMA Extended ==
  ASSUME NEW S, NEW s \in Seq(S), NEW x \in S
  PROVE /\ Append(s, x) \in Seq(S)
        /\ Len(Append(s, x)) = Len(s) + 1
        /\ Append(s, x)[Len(s) + 1] = x
        /\ \A i \in 1 .. Len(s) : Append(s, x)[i] = s[i]
        /\ \A i \in 1 .. Len(s) : SubSeq(Append(s, x), 1, i) = SubSeq(s, 1, i)
        /\ SubSeq(Append(s, x), 1, Len(s) + 1) = Append(s, x)
        /\ SubSeq(Append(s, x), 1, Len(s)) = s
OBVIOUS

LEMMA ChainFacts ==
  ASSUME GraphAssumption, NEW h, Sound(h), NEW n \in NodesOf(h)
  PROVE ChainOK(h, n)
<1> DEFINE S == {m \in NodesOf(h) : ChainOK(h, m)}
<1>1. h.root \in S
  <2>1. h.root \in NodesOf(h)
    BY TreeFacts
  <2>2. Chain(h, h.root) = <<h.root>>
    BY <2>1, ChainOf
  <2> QED BY <2>1, <2>2 DEF ChainOK
<1>2. ASSUME NEW m \in NodesOf(h) \ {h.root}, h.parent[m] \in S
      PROVE m \in S
  <2>1. PICK c : c = Chain(h, h.parent[m])
    OBVIOUS
  <2>2. Chain(h, m) = Append(c, m)
    BY <2>1, ChainOf
  <2>3. /\ c \in Seq(NodesOf(h)) /\ Len(c) >= 1 /\ c[1] = h.root
        /\ \A i \in 1 .. Len(c) : Chain(h, c[i]) = SubSeq(c, 1, i)
    BY <1>2, <2>1 DEF ChainOK
  <2>4. PICK d : d = Append(c, m)
    OBVIOUS
  <2>5. /\ d \in Seq(NodesOf(h)) /\ Len(d) = Len(c) + 1 /\ d[Len(c) + 1] = m
        /\ \A i \in 1 .. Len(c) : d[i] = c[i]
        /\ \A i \in 1 .. Len(c) : SubSeq(d, 1, i) = SubSeq(c, 1, i)
        /\ SubSeq(d, 1, Len(c) + 1) = d
    BY <2>3, <2>4, Extended
  <2>6. ASSUME NEW i \in 1 .. Len(d)
        PROVE Chain(h, d[i]) = SubSeq(d, 1, i)
    <3>1. CASE i = Len(c) + 1
      BY <2>2, <2>4, <2>5, <3>1
    <3>2. CASE i # Len(c) + 1
      <4>1. i \in 1 .. Len(c)
        BY <2>3, <2>5, <3>2
      <4> QED BY <2>3, <2>5, <4>1
    <3> QED BY <3>1, <3>2
  <2>7. Chain(h, m) = d
    BY <2>2, <2>4
  <2>8. Len(d) >= 1 /\ d[1] = h.root /\ d[Len(d)] = m
    BY <2>3, <2>5
  <2> QED BY <2>5, <2>6, <2>7, <2>8 DEF ChainOK
<1>3. S = NodesOf(h)
  <2> HIDE DEF S
  <2>1. S \in SUBSET NodesOf(h)
    BY DEF S
  <2> QED BY <1>1, <1>2, <2>1 DEF Sound, TreeOK, Tree
<1> QED BY <1>3

(* Neighbours on a chain are parent and child.                             *)
LEMMA ChainLinks ==
  ASSUME GraphAssumption, NEW h, Sound(h), NEW n \in NodesOf(h),
         NEW i \in 1 .. Len(Chain(h, n)), i > 1
  PROVE /\ Chain(h, n)[i] \in NodesOf(h) \ {h.root}
        /\ h.parent[Chain(h, n)[i]] = Chain(h, n)[i - 1]
<1>1. PICK c : c = Chain(h, n)
  OBVIOUS
<1>2. c \in Seq(NodesOf(h)) /\ Chain(h, c[i]) = SubSeq(c, 1, i) /\ i \in 1 .. Len(c)
  BY <1>1, ChainFacts DEF ChainOK
<1>3. PICK y : y = c[i]
  OBVIOUS
<1>4. y \in NodesOf(h) /\ Len(SubSeq(c, 1, i)) = i /\ SubSeq(c, 1, i)[i - 1] = c[i - 1]
  BY <1>2, <1>3
<1>5. y # h.root
  <2>1. SUFFICES ASSUME y = h.root PROVE FALSE
    OBVIOUS
  <2>2. Len(Chain(h, y)) = 1
    BY <1>4, <2>1, ChainOf
  <2> QED BY <1>2, <1>3, <1>4, <2>2
<1>6. h.parent[y] \in NodesOf(h)
  BY <1>4, <1>5, TreeFacts
<1>7. PICK d : d = Chain(h, h.parent[y])
  OBVIOUS
<1>8. d \in Seq(NodesOf(h)) /\ Len(d) >= 1 /\ d[Len(d)] = h.parent[y]
  BY <1>6, <1>7, ChainFacts DEF ChainOK
<1>9. Append(d, y) = SubSeq(c, 1, i)
  BY <1>2, <1>3, <1>4, <1>5, <1>7, ChainOf
<1>10. Len(d) = i - 1 /\ SubSeq(c, 1, i)[i - 1] = d[i - 1]
  BY <1>4, <1>6, <1>8, <1>9
<1> QED BY <1>1, <1>3, <1>4, <1>5, <1>8, <1>10

-----------------------------------------------------------------------------
(* Names along a chain.                                                    *)

LEMMA NamesOfChain ==
  ASSUME GraphAssumption, NEW h, Sound(h), NEW n \in NodesOf(h)
  PROVE /\ NamePath(h, n) \in Seq(Name)
        /\ Len(NamePath(h, n)) = Len(Chain(h, n))
        /\ \A i \in 1 .. Len(Chain(h, n)) : NamePath(h, n)[i] = h.name[Chain(h, n)[i]]
<1>1. PICK c : c = Chain(h, n)
  OBVIOUS
<1>2. c \in Seq(NodesOf(h)) /\ DOMAIN c = 1 .. Len(c) /\ Len(c) \in Nat
  BY <1>1, ChainFacts DEF ChainOK
<1>3. \A i \in 1 .. Len(c) : h.name[c[i]] \in Name
  BY <1>2 DEF Sound, TreeOK, Named
<1>4. NamePath(h, n) = [i \in 1 .. Len(c) |-> h.name[c[i]]]
  BY <1>1, <1>2 DEF NamePath, Names
<1>5. [i \in 1 .. Len(c) |-> h.name[c[i]]] \in Seq(Name)
  BY <1>2, <1>3, IsASeq
<1> QED BY <1>1, <1>2, <1>4, <1>5

(* No two nodes have the same path of names.                               *)
LEMMA PathsDiffer ==
  ASSUME GraphAssumption, NEW h, Sound(h), NEW m \in NodesOf(h), NEW n \in NodesOf(h),
         NamePath(h, m) = NamePath(h, n)
  PROVE m = n
<1> DEFINE S == {k \in NodesOf(h) :
                   \A j \in NodesOf(h) : NamePath(h, j) = NamePath(h, k) => j = k}
<1>1. h.root \in S
  <2>1. h.root \in NodesOf(h) /\ Len(Chain(h, h.root)) = 1
    BY TreeFacts, ChainOf
  <2>2. ASSUME NEW j \in NodesOf(h), NamePath(h, j) = NamePath(h, h.root)
        PROVE j = h.root
    <3>1. Len(Chain(h, j)) = 1
      BY <2>1, <2>2, NamesOfChain
    <3>2. Chain(h, j)[1] = h.root /\ Chain(h, j)[Len(Chain(h, j))] = j
      BY ChainFacts DEF ChainOK
    <3> QED BY <3>1, <3>2
  <2> QED BY <2>1, <2>2
<1>2. ASSUME NEW k \in NodesOf(h) \ {h.root}, h.parent[k] \in S
      PROVE k \in S
  <2> SUFFICES ASSUME NEW j \in NodesOf(h), NamePath(h, j) = NamePath(h, k)
               PROVE j = k
    OBVIOUS
  <2>1. PICK p \in NodesOf(h) : p = h.parent[k]
    BY <1>2
  <2>2. Len(Chain(h, p)) >= 1 /\ Chain(h, p) \in Seq(NodesOf(h))
    BY ChainFacts DEF ChainOK
  <2>3. Chain(h, k) = Append(Chain(h, p), k)
    BY <2>1, ChainOf
  <2>4. Len(Chain(h, k)) = Len(Chain(h, p)) + 1
    BY <2>2, <2>3
  <2>5. Len(Chain(h, j)) = Len(Chain(h, p)) + 1
    BY <2>4, NamesOfChain
  <2>6. j # h.root
    <3>1. j = h.root => Len(Chain(h, j)) = 1
      BY ChainOf
    <3> QED BY <2>2, <2>5, <3>1
  <2>7. PICK q \in NodesOf(h) : q = h.parent[j]
    BY <2>6, TreeFacts
  <2>8. Len(Chain(h, q)) >= 1 /\ Chain(h, q) \in Seq(NodesOf(h))
    BY ChainFacts DEF ChainOK
  <2>9. Chain(h, j) = Append(Chain(h, q), j)
    BY <2>6, <2>7, ChainOf
  <2>10. Len(Chain(h, q)) = Len(Chain(h, p))
    BY <2>2, <2>5, <2>8, <2>9
  <2>11. ASSUME NEW i \in 1 .. Len(Chain(h, p))
         PROVE NamePath(h, q)[i] = NamePath(h, p)[i]
    <3>1. Chain(h, k)[i] = Chain(h, p)[i] /\ i \in 1 .. Len(Chain(h, k))
      BY <2>2, <2>3, <2>4
    <3>2. Chain(h, j)[i] = Chain(h, q)[i] /\ i \in 1 .. Len(Chain(h, j))
      BY <2>2, <2>5, <2>8, <2>9, <2>10
    <3>3. NamePath(h, q)[i] = NamePath(h, j)[i] /\ NamePath(h, p)[i] = NamePath(h, k)[i]
      BY <2>10, <3>1, <3>2, NamesOfChain
    <3> QED BY <3>3
  <2>12. NamePath(h, q) = NamePath(h, p)
    <3>1. /\ NamePath(h, q) \in Seq(Name) /\ NamePath(h, p) \in Seq(Name)
          /\ Len(NamePath(h, q)) = Len(NamePath(h, p))
          /\ Len(NamePath(h, q)) = Len(Chain(h, p))
      BY <2>10, NamesOfChain
    <3> QED BY <2>11, <3>1, SeqEqual
  <2>13. q = p
    BY <1>2, <2>1, <2>12
  <2>14. h.name[j] = h.name[k]
    <3> DEFINE l == Len(Chain(h, p)) + 1
    <3>1. Chain(h, k)[l] = k /\ Chain(h, j)[l] = j
      BY <2>2, <2>3, <2>8, <2>9, <2>10
    <3>2. l \in 1 .. Len(Chain(h, k)) /\ l \in 1 .. Len(Chain(h, j))
      BY <2>2, <2>4, <2>5
    <3>3. NamePath(h, k)[l] = h.name[k] /\ NamePath(h, j)[l] = h.name[j]
      BY <3>1, <3>2, NamesOfChain
    <3> QED BY <3>3
  <2> QED BY <2>1, <2>7, <2>13, <2>14 DEF Sound, SiblingsDiffer
<1>3. S = NodesOf(h)
  <2> HIDE DEF S
  <2>1. S \in SUBSET NodesOf(h)
    BY DEF S
  <2> QED BY <1>1, <1>2, <2>1 DEF Sound, TreeOK, Tree
<1> QED BY <1>3

-----------------------------------------------------------------------------
(* Parts of chains.                                                        *)

(* n lies below c, or is c.                                                *)
Under(h, c, n) ==
  /\ Len(Chain(h, c)) <= Len(Chain(h, n))
  /\ SubSeq(Chain(h, n), 1, Len(Chain(h, c))) = Chain(h, c)

LEMMA BelowFacts ==
  ASSUME GraphAssumption, NEW h, Sound(h), NEW c \in NodesOf(h), NEW n \in NodesOf(h),
         Under(h, c, n)
  PROVE /\ Below(h, c, n) \in Seq(NodesOf(h))
        /\ Len(Below(h, c, n)) = Len(Chain(h, n)) - Len(Chain(h, c))
        /\ \A i \in 1 .. Len(Below(h, c, n)) :
             Below(h, c, n)[i] = Chain(h, n)[Len(Chain(h, c)) + i]
        /\ \A i \in 1 .. Len(Chain(h, c)) : Chain(h, n)[i] = Chain(h, c)[i]
<1>1. PICK s \in Seq(NodesOf(h)) : s = Chain(h, n)
  BY ChainFacts DEF ChainOK
<1>2. PICK t \in Seq(NodesOf(h)) : t = Chain(h, c)
  BY ChainFacts DEF ChainOK
<1>3. Len(t) <= Len(s) /\ SubSeq(s, 1, Len(t)) = t
  BY <1>1, <1>2 DEF Under
<1>4. Below(h, c, n) = SubSeq(s, Len(t) + 1, Len(s))
  BY <1>1, <1>2 DEF Below
<1>5. \A i \in 1 .. Len(t) : s[i] = t[i]
  BY <1>3
<1>6. /\ SubSeq(s, Len(t) + 1, Len(s)) \in Seq(NodesOf(h))
      /\ Len(SubSeq(s, Len(t) + 1, Len(s))) = Len(s) - Len(t)
      /\ \A i \in 1 .. (Len(s) - Len(t)) :
           SubSeq(s, Len(t) + 1, Len(s))[i] = s[Len(t) + i]
  BY <1>3
<1> QED BY <1>1, <1>2, <1>4, <1>5, <1>6

(* Below one node, names tell nodes apart.                                 *)
LEMMA BelowDiffer ==
  ASSUME GraphAssumption, NEW h, Sound(h), NEW c \in NodesOf(h),
         NEW m \in NodesOf(h), NEW n \in NodesOf(h), Under(h, c, m), Under(h, c, n),
         Names(h, Below(h, c, m)) = Names(h, Below(h, c, n))
  PROVE m = n
<1> DEFINE b == Below(h, c, m)
           d == Below(h, c, n)
           k == Len(Chain(h, c))
<1>1. /\ b \in Seq(NodesOf(h)) /\ Len(b) = Len(Chain(h, m)) - k
      /\ \A i \in 1 .. Len(b) : b[i] = Chain(h, m)[k + i]
      /\ \A i \in 1 .. k : Chain(h, m)[i] = Chain(h, c)[i]
  BY BelowFacts
<1>2. /\ d \in Seq(NodesOf(h)) /\ Len(d) = Len(Chain(h, n)) - k
      /\ \A i \in 1 .. Len(d) : d[i] = Chain(h, n)[k + i]
      /\ \A i \in 1 .. k : Chain(h, n)[i] = Chain(h, c)[i]
  BY BelowFacts
<1>3. k \in Nat /\ Len(Chain(h, m)) \in Nat /\ Len(Chain(h, n)) \in Nat
  <2>1. \A x \in NodesOf(h) : Chain(h, x) \in Seq(NodesOf(h))
    BY ChainFacts DEF ChainOK
  <2> HIDE DEF k
  <2>2. \A x \in NodesOf(h) : Len(Chain(h, x)) \in Nat
    BY <2>1
  <2> QED BY <2>2 DEF k
<1>4. Names(h, b) = Names(h, d)
  OBVIOUS
<1> HIDE DEF b, d, k
<1>5. DOMAIN b = DOMAIN d /\ \A i \in DOMAIN b : h.name[b[i]] = h.name[d[i]]
  BY <1>4, Zenon DEF Names
<1>6. Len(b) = Len(d)
  BY <1>1, <1>2, <1>5
<1>7. Len(Chain(h, m)) = Len(Chain(h, n))
  BY <1>1, <1>2, <1>3, <1>6
<1>8. ASSUME NEW i \in 1 .. Len(Chain(h, m))
      PROVE NamePath(h, m)[i] = NamePath(h, n)[i]
  <2>1. NamePath(h, m)[i] = h.name[Chain(h, m)[i]]
    BY NamesOfChain
  <2>2. NamePath(h, n)[i] = h.name[Chain(h, n)[i]]
    BY <1>7, NamesOfChain
  <2>3. CASE i <= k
    <3>1. i \in 1 .. k
      BY <1>3, <2>3
    <3> QED BY <1>1, <1>2, <2>1, <2>2, <3>1
  <2>4. CASE i > k
    <3>1. i - k \in 1 .. Len(b) /\ k + (i - k) = i
      BY <1>1, <1>3, <2>4
    <3>2. b[i - k] = Chain(h, m)[i] /\ d[i - k] = Chain(h, n)[i]
      BY <1>1, <1>2, <1>6, <3>1
    <3>3. i - k \in DOMAIN b
      BY <1>1, <3>1
    <3> QED BY <1>5, <2>1, <2>2, <3>2, <3>3
  <2> QED BY <1>3, <2>3, <2>4
<1>9. NamePath(h, m) = NamePath(h, n)
  <2>1. /\ NamePath(h, m) \in Seq(Name) /\ NamePath(h, n) \in Seq(Name)
        /\ Len(NamePath(h, m)) = Len(NamePath(h, n))
        /\ Len(NamePath(h, m)) = Len(Chain(h, m))
    BY <1>7, NamesOfChain
  <2> QED BY <1>8, <2>1, SeqEqual
<1> QED BY <1>9, PathsDiffer

-----------------------------------------------------------------------------
(* Crates.                                                                 *)

LEMMA RootAbove ==
  ASSUME GraphAssumption, NEW h, Sound(h), NEW n \in NodesOf(h)
  PROVE h.root \in NodesOf(h) /\ Under(h, h.root, n)
<1>1. h.root \in NodesOf(h) /\ Len(Chain(h, h.root)) = 1
  BY TreeFacts, ChainOf
<1>2. Len(Chain(h, n)) >= 1 /\ Len(Chain(h, n)) \in Nat /\ Chain(h, n)[1] = h.root
  <2>1. Chain(h, n) \in Seq(NodesOf(h))
    BY ChainFacts DEF ChainOK
  <2> QED BY <2>1, ChainFacts DEF ChainOK
<1>3. Chain(h, Chain(h, n)[1]) = SubSeq(Chain(h, n), 1, 1)
  <2>1. 1 \in 1 .. Len(Chain(h, n))
    BY <1>2
  <2> QED BY <2>1, ChainFacts DEF ChainOK
<1> QED BY <1>1, <1>2, <1>3 DEF Under

(* The crate of a node is above it, with no other crate in between.        *)
CrateOK(h, n) ==
  /\ h.crate[n] \in NodesOf(h)
  /\ h.boundary[h.crate[n]] /\ h.crate[h.crate[n]] = h.crate[n]
  /\ Under(h, h.crate[n], n)
  /\ \A i \in 1 .. Len(Chain(h, n)) :
       i > Len(Chain(h, h.crate[n])) => ~h.boundary[Chain(h, n)[i]]

LEMMA CrateFacts ==
  ASSUME GraphAssumption, NEW h, Sound(h), NEW n \in NodesOf(h)
  PROVE CrateOK(h, n)
<1> DEFINE S == {m \in NodesOf(h) : CrateOK(h, m)}
<1>1. ASSUME NEW m \in NodesOf(h), h.boundary[m]
      PROVE m \in S
  <2>1. h.crate[m] = m
    BY <1>1 DEF Sound, GraphOK, InCrates
  <2>2. PICK s \in Seq(NodesOf(h)) : s = Chain(h, m)
    BY ChainFacts DEF ChainOK
  <2>3. SubSeq(s, 1, Len(s)) = s /\ Len(s) \in Nat
    BY SubSeqFull
  <2>4. Under(h, m, m)
    BY <2>2, <2>3 DEF Under
  <2> QED BY <1>1, <2>1, <2>2, <2>3, <2>4 DEF CrateOK
<1>2. h.root \in S
  <2>1. h.root \in NodesOf(h) /\ h.boundary[h.root]
    BY TreeFacts DEF Sound, GraphOK, InCrates
  <2> QED BY <1>1, <2>1
<1>3. ASSUME NEW m \in NodesOf(h) \ {h.root}, h.parent[m] \in S, ~h.boundary[m]
      PROVE m \in S
  <2>1. PICK c : c = h.crate[m]
    OBVIOUS
  <2>2. PICK p \in NodesOf(h) : p = h.parent[m]
    BY <1>3
  <2>3. h.crate[p] = c
    BY <1>3, <2>1, <2>2 DEF Sound, GraphOK, InCrates
  <2>4. /\ c \in NodesOf(h) /\ h.boundary[c] /\ h.crate[c] = c /\ Under(h, c, p)
        /\ \A i \in 1 .. Len(Chain(h, p)) :
             i > Len(Chain(h, c)) => ~h.boundary[Chain(h, p)[i]]
    BY <1>3, <2>2, <2>3 DEF CrateOK
  <2>5. PICK s \in Seq(NodesOf(h)) : s = Chain(h, p)
    BY ChainFacts DEF ChainOK
  <2>6. PICK t : t = Append(s, m) /\ t = Chain(h, m)
    BY <2>2, <2>5, ChainOf
  <2>7. Len(Chain(h, c)) >= 1 /\ Len(Chain(h, c)) \in Nat
    <3>1. Chain(h, c) \in Seq(NodesOf(h))
      BY <2>4, ChainFacts DEF ChainOK
    <3> QED BY <2>4, <3>1, ChainFacts DEF ChainOK
  <2>8. /\ Len(t) = Len(s) + 1 /\ t[Len(s) + 1] = m
        /\ \A i \in 1 .. Len(s) : t[i] = s[i]
        /\ \A i \in 1 .. Len(s) : SubSeq(t, 1, i) = SubSeq(s, 1, i)
    <3>1. m \in NodesOf(h) /\ t = Append(s, m)
      BY <2>6
    <3> QED BY <3>1, Extended
  <2>9. Len(Chain(h, c)) <= Len(s) /\ SubSeq(s, 1, Len(Chain(h, c))) = Chain(h, c)
    BY <2>4, <2>5 DEF Under
  <2>10. Under(h, c, m)
    BY <2>6, <2>7, <2>8, <2>9 DEF Under
  <2>11. ASSUME NEW i \in 1 .. Len(t), i > Len(Chain(h, c))
         PROVE ~h.boundary[t[i]]
    <3>1. CASE i = Len(s) + 1
      BY <1>3, <2>8, <3>1
    <3>2. CASE i # Len(s) + 1
      <4>1. i \in 1 .. Len(s)
        BY <2>8, <3>2
      <4> QED BY <2>4, <2>5, <2>8, <2>11, <4>1
    <3> QED BY <3>1, <3>2
  <2> QED BY <2>1, <2>4, <2>6, <2>10, <2>11 DEF CrateOK
<1>4. S = NodesOf(h)
  <2>1. \A m \in NodesOf(h) \ {h.root} : h.parent[m] \in S => m \in S
    BY <1>1, <1>3
  <2> HIDE DEF S
  <2>2. S \in SUBSET NodesOf(h)
    BY DEF S
  <2> QED BY <1>2, <2>1, <2>2 DEF Sound, TreeOK, Tree
<1> QED BY <1>4

(* The directory below which a node is rendered: its package's.            *)
LEMMA HomeFacts ==
  ASSUME GraphAssumption, NEW h, Sound(h), NEW layout \in Layout, NEW n \in NodesOf(h)
  PROVE /\ PackageOf(h, layout, n) \in NodesOf(h)
        /\ Under(h, PackageOf(h, layout, n), n)
        /\ h.boundary[PackageOf(h, layout, n)]
        /\ layout = "SingleCrate" => PackageOf(h, layout, n) = h.root
        /\ PackageOf(h, layout, PackageOf(h, layout, n)) = PackageOf(h, layout, n)
<1>1. CASE layout = "SingleCrate"
  BY <1>1, RootAbove DEF PackageOf, Sound, GraphOK, InCrates, Rooted
<1>2. CASE layout # "SingleCrate"
  BY <1>2, CrateFacts DEF PackageOf, CrateOK
<1> QED BY <1>1, <1>2

LEMMA SrcDirOf ==
  ASSUME NEW h, NEW layout \in Layout, NEW n
  PROVE NodeSrcDir(h, layout, n) =
          LET home == PackageOf(h, layout, n)
              inner == Names(h, Below(h, home, n))
          IN  IF home = h.root THEN [area |-> "src", at |-> inner]
              ELSE [area |-> "crates", at |-> <<h.name[home]>> \o inner]
BY DEF NodeSrcDir, PackageOf, Layout

-----------------------------------------------------------------------------
(* Slots.                                                                  *)

(* What crates/<name> presumes.                                            *)
CrateNamesDiffer(h) ==
  \A c, d \in NodesOf(h) : h.boundary[c] /\ h.boundary[d] /\ h.name[c] = h.name[d] => c = d

LEMMA SameAfterFirst ==
  ASSUME NEW S, NEW s \in Seq(S), NEW t \in Seq(S), NEW x \in S, NEW y \in S,
         <<x>> \o s = <<y>> \o t
  PROVE x = y /\ s = t
<1>1. <<x>> \in Seq(S) /\ <<y>> \in Seq(S)
  OBVIOUS
<1>2. (<<x>> \o s)[1] = x /\ (<<y>> \o t)[1] = y
  BY <1>1
<1>3. Len(s) = Len(t)
  BY <1>1, ConcatProperties
<1>4. \A i \in 1 .. Len(s) : (<<x>> \o s)[1 + i] = s[i]
  BY <1>1
<1>5. \A i \in 1 .. Len(t) : (<<y>> \o t)[1 + i] = t[i]
  BY <1>1
<1>6. s = t
  BY <1>3, <1>4, <1>5, SeqEqual
<1> QED BY <1>2, <1>6

LEMMA NamesType ==
  ASSUME GraphAssumption, NEW h, Sound(h), NEW s \in Seq(NodesOf(h))
  PROVE Names(h, s) \in Seq(Name) /\ Len(Names(h, s)) = Len(s)
<1>1. Len(s) \in Nat /\ DOMAIN s = 1 .. Len(s)
  OBVIOUS
<1>2. \A i \in 1 .. Len(s) : h.name[s[i]] \in Name
  BY DEF Sound, TreeOK, Named
<1>3. [i \in 1 .. Len(s) |-> h.name[s[i]]] \in Seq(Name)
  BY <1>1, <1>2, IsASeq
<1>4. Names(h, s) = [i \in 1 .. Len(s) |-> h.name[s[i]]]
  BY <1>1 DEF Names
<1> QED BY <1>1, <1>3, <1>4

(* A source directory belongs to one node.                                 *)
LEMMA SrcDirsDiffer ==
  ASSUME GraphAssumption, NEW h, Sound(h), NEW layout \in Layout,
         layout = "SingleCrate" \/ CrateNamesDiffer(h),
         NEW m \in NodesOf(h), NEW n \in NodesOf(h),
         NodeSrcDir(h, layout, m) = NodeSrcDir(h, layout, n)
  PROVE m = n
<1>1. PICK c \in NodesOf(h) : c = PackageOf(h, layout, m)
  BY HomeFacts
<1>2. PICK d \in NodesOf(h) : d = PackageOf(h, layout, n)
  BY HomeFacts
<1>3. Under(h, c, m) /\ Under(h, d, n) /\ h.boundary[c] /\ h.boundary[d]
  BY <1>1, <1>2, HomeFacts
<1>4. PICK a : a = Names(h, Below(h, c, m))
  OBVIOUS
<1>5. PICK b : b = Names(h, Below(h, d, n))
  OBVIOUS
<1>6. a \in Seq(Name) /\ b \in Seq(Name)
  BY <1>3, <1>4, <1>5, BelowFacts, NamesType
<1>7. NodeSrcDir(h, layout, m) = IF c = h.root THEN [area |-> "src", at |-> a]
                                 ELSE [area |-> "crates", at |-> <<h.name[c]>> \o a]
  BY <1>1, <1>4, SrcDirOf
<1>8. NodeSrcDir(h, layout, n) = IF d = h.root THEN [area |-> "src", at |-> b]
                                 ELSE [area |-> "crates", at |-> <<h.name[d]>> \o b]
  BY <1>2, <1>5, SrcDirOf
<1>9. CASE c = h.root
  <2>1. NodeSrcDir(h, layout, n) = [area |-> "src", at |-> a]
    BY <1>7, <1>9
  <2>2. d = h.root
    BY <1>8, <2>1
  <2>3. a = b
    BY <1>8, <2>1, <2>2
  <2> QED BY <1>3, <1>4, <1>5, <1>9, <2>2, <2>3, BelowDiffer
<1>10. CASE c # h.root
  <2>1. d # h.root /\ <<h.name[c]>> \o a = <<h.name[d]>> \o b
    <3>1. PICK x : x = <<h.name[c]>> \o a
      OBVIOUS
    <3>2. PICK y : y = <<h.name[d]>> \o b
      OBVIOUS
    <3>3. NodeSrcDir(h, layout, n) = [area |-> "crates", at |-> x]
      BY <1>7, <1>10, <3>1
    <3>4. d # h.root
      <4>1. NodeSrcDir(h, layout, n).area = "crates"
        BY <3>3
      <4> QED BY <1>8, <4>1
    <3>5. NodeSrcDir(h, layout, n) = [area |-> "crates", at |-> y]
      BY <1>8, <3>2, <3>4
    <3>6. x = y
      BY <3>3, <3>5
    <3> QED BY <3>1, <3>2, <3>4, <3>6
  <2>2. PICK x \in Name, y \in Name : x = h.name[c] /\ y = h.name[d]
    BY DEF Sound, TreeOK, Named
  <2>3. h.name[c] = h.name[d] /\ a = b
    <3>1. <<x>> \o a = <<y>> \o b
      BY <2>1, <2>2
    <3>2. x = y /\ a = b
      BY <1>6, <3>1, SameAfterFirst
    <3> QED BY <2>2, <3>2
  <2>4. CrateNamesDiffer(h)
    BY <1>1, <1>10, HomeFacts
  <2>5. c = d
    BY <1>3, <2>3, <2>4 DEF CrateNamesDiffer
  <2> QED BY <1>3, <1>4, <1>5, <2>3, <2>5, BelowDiffer
<1> QED BY <1>9, <1>10

(* A slot's path belongs to one node.                                      *)
LEMMA OneOwner ==
  ASSUME GraphAssumption, NEW h, Sound(h), NEW layout \in Layout,
         layout = "SingleCrate" \/ CrateNamesDiffer(h),
         NEW n \in NodesOf(h), NEW slot \in NodeSlot
  PROVE Owners(h, layout, SlotPath(h, layout, n, slot)) = {n}
<1>1. \A m : SlotPath(h, layout, m, slot).file = slot
  BY DEF SlotPath
<1>2. SUFFICES ASSUME NEW m \in NodesOf(h),
                      SlotPath(h, layout, n, slot) = SlotPath(h, layout, m, slot)
               PROVE m = n
  BY <1>1 DEF Owners
<1>3. CASE slot \in SpecSlot
  <2>1. NodeSpecDir(h, n) = NodeSpecDir(h, m)
    BY <1>2, <1>3 DEF SlotPath
  <2>2. NamePath(h, n) = NamePath(h, m)
    BY <2>1 DEF NodeSpecDir
  <2> QED BY <2>2, PathsDiffer
<1>4. CASE slot \notin SpecSlot
  <2>1. NodeSrcDir(h, layout, n) = NodeSrcDir(h, layout, m)
    BY <1>2, <1>4 DEF SlotPath
  <2> QED BY <2>1, SrcDirsDiffer
<1> QED BY <1>3, <1>4

LEMMA SavedIsSound ==
  ASSUME Inv, TreesOK
  PROVE Sound(saved)
BY DEF Inv, TreesOK, Sound

(* No edit by path and no read reaches a node other than the one meant,    *)
(* and no two nodes are rendered into one file, for trees of any depth, in *)
(* both layouts: as long as no two crates have one name, which add_child   *)
(* sees to among siblings only.                                            *)
THEOREM SlotPathsResolve ==
  ASSUME GraphAssumption
  PROVE LookupSpec => [](CrateNamesDiffer(saved) => PathsResolve)
<1>1. Inv /\ TreesOK => (CrateNamesDiffer(saved) => PathsResolve)
  BY SavedIsSound, OneOwner DEF PathsResolve
<1> QED BY <1>1, TreesHold, PTL

-----------------------------------------------------------------------------
(* Modules.                                                                *)

LEMMA ModLinesFacts ==
  ASSUME GraphAssumption, NEW h, Sound(h), NEW layout \in Layout
  PROVE /\ ModLines(h, layout) \in [Id -> SUBSET Id]
        /\ \A m \in Id : ModLines(h, layout)[m] =
             {k \in NodesOf(h) : h.parent[k] = m /\ (layout = "SingleCrate" \/ ~h.boundary[k])}
<1>1. NodesOf(h) \subseteq Id
  BY TreeFacts
<1>2. \A m \in Id : ModLines(h, layout)[m] =
        {k \in NodesOf(h) : h.parent[k] = m /\ (layout = "SingleCrate" \/ ~h.boundary[k])}
  BY DEF ModLines, ModChildren, ChildrenOf
<1> QED BY <1>1, <1>2 DEF ModLines, ModChildren, ChildrenOf

(* What mod.rs declares is compiled in the same package.                   *)
LEMMA LinesStayInPackage ==
  ASSUME GraphAssumption, NEW h, Sound(h), NEW layout \in Layout, NEW m \in NodesOf(h),
         NEW k \in ModLines(h, layout)[m]
  PROVE k \in NodesOf(h) /\ PackageOf(h, layout, k) = PackageOf(h, layout, m)
<1>1. /\ m \in Id /\ k \in NodesOf(h) /\ h.parent[k] = m
      /\ layout = "SingleCrate" \/ ~h.boundary[k]
  BY TreeFacts, ModLinesFacts
<1> QED BY <1>1 DEF PackageOf, Sound, GraphOK, InCrates

(* What is no package's root is declared by its parent.                    *)
LEMMA ParentDeclares ==
  ASSUME GraphAssumption, NEW h, Sound(h), NEW layout \in Layout, NEW k \in NodesOf(h),
         PackageOf(h, layout, k) # k
  PROVE /\ k # h.root /\ h.parent[k] \in NodesOf(h)
        /\ k \in ModLines(h, layout)[h.parent[k]]
        /\ PackageOf(h, layout, h.parent[k]) = PackageOf(h, layout, k)
<1>1. k # h.root
  BY TreeFacts DEF PackageOf, Sound, GraphOK, InCrates
<1>2. layout = "SingleCrate" \/ ~h.boundary[k]
  BY DEF PackageOf, Sound, GraphOK, InCrates
<1>3. h.parent[k] \in NodesOf(h) /\ h.parent[k] \in Id
  BY <1>1, TreeFacts
<1>4. k \in ModLines(h, layout)[h.parent[k]]
  BY <1>2, <1>3, ModLinesFacts
<1> QED BY <1>1, <1>3, <1>4, LinesStayInPackage

LEMMA ReachedFromHome ==
  ASSUME GraphAssumption, NEW h, Sound(h), NEW layout \in Layout, NEW n \in NodesOf(h)
  PROVE Reaches(ModLines(h, layout), PackageOf(h, layout, n), n)
<1> DEFINE home == PackageOf(h, layout, n)
<1> SUFFICES ASSUME NEW S \in SUBSET Id, home \in S, Closed(ModLines(h, layout), S)
             PROVE n \in S
  BY ModLinesFacts DEF Reaches
<1> DEFINE T == {m \in NodesOf(h) : PackageOf(h, layout, m) = home => m \in S}
<1>1. h.root \in T
  <2>1. h.root \in NodesOf(h)
    BY TreeFacts
  <2> QED BY <2>1, ParentDeclares
<1>2. ASSUME NEW m \in NodesOf(h) \ {h.root}, h.parent[m] \in T
      PROVE m \in T
  <2>1. CASE PackageOf(h, layout, m) = m
    BY <2>1
  <2>2. CASE PackageOf(h, layout, m) # m
    <3>1. /\ m \in ModLines(h, layout)[h.parent[m]]
          /\ PackageOf(h, layout, h.parent[m]) = PackageOf(h, layout, m)
      BY <2>2, ParentDeclares
    <3> QED BY <1>2, <3>1 DEF Closed
  <2> QED BY <2>1, <2>2
<1>3. T = NodesOf(h)
  <2> HIDE DEF T
  <2>1. T \in SUBSET NodesOf(h)
    BY DEF T
  <2> QED BY <1>1, <1>2, <2>1 DEF Sound, TreeOK, Tree
<1> QED BY <1>3

LEMMA ReachedFromHomeOnly ==
  ASSUME GraphAssumption, NEW h, Sound(h), NEW layout \in Layout, NEW n \in NodesOf(h),
         NEW c \in Packages(h, layout), Reaches(ModLines(h, layout), c, n)
  PROVE c = PackageOf(h, layout, n)
<1> DEFINE S == {m \in NodesOf(h) : PackageOf(h, layout, m) = c}
<1>1. h.root \in NodesOf(h) /\ NodesOf(h) \subseteq Id
  BY TreeFacts
<1>2. c \in S
  BY <1>1 DEF Packages, PackageOf, Sound, GraphOK, InCrates
<1>3. Closed(ModLines(h, layout), S)
  BY LinesStayInPackage DEF Closed
<1>4. S \in SUBSET Id
  BY <1>1
<1> HIDE DEF S
<1>5. n \in S
  BY <1>2, <1>3, <1>4, ModLinesFacts, ReachesWithin
<1> QED BY <1>5 DEF S

LEMMA SrcDirFromHome ==
  ASSUME GraphAssumption, NEW h, Sound(h), NEW layout \in Layout, NEW n \in NodesOf(h)
  PROVE LET home == PackageOf(h, layout, n)
            Dir(m) == NodeSrcDir(h, layout, m)
        IN  /\ Dir(n).area = Dir(home).area
            /\ Dir(n).at = Dir(home).at \o Names(h, Below(h, home, n))
<1>1. PICK c \in NodesOf(h) : c = PackageOf(h, layout, n)
  BY HomeFacts
<1>2. PackageOf(h, layout, c) = c /\ Under(h, c, n)
  BY <1>1, HomeFacts
<1>3. Names(h, Below(h, c, c)) = <<>>
  <2>1. PICK s \in Seq(NodesOf(h)) : s = Chain(h, c)
    BY ChainFacts DEF ChainOK
  <2>2. Below(h, c, c) = <<>>
    BY <2>1, SubSeqEmpty DEF Below
  <2> QED BY <2>2 DEF Names
<1>4. PICK a : a = Names(h, Below(h, c, n))
  OBVIOUS
<1>5. a \in Seq(Name) /\ h.name[c] \in Name
  BY <1>2, <1>4, BelowFacts, NamesType DEF Sound, TreeOK, Named
<1>6. <<>> \o a = a /\ <<h.name[c]>> \o <<>> = <<h.name[c]>>
  BY <1>5
<1>7. NodeSrcDir(h, layout, c) = IF c = h.root THEN [area |-> "src", at |-> <<>>]
                                 ELSE [area |-> "crates", at |-> <<h.name[c]>>]
  BY <1>2, <1>3, <1>6, SrcDirOf
<1>8. NodeSrcDir(h, layout, n) = IF c = h.root THEN [area |-> "src", at |-> a]
                                 ELSE [area |-> "crates", at |-> <<h.name[c]>> \o a]
  BY <1>1, <1>4, SrcDirOf
<1>9. NodeSrcDir(h, layout, n).area = NodeSrcDir(h, layout, c).area
  BY <1>7, <1>8
<1>10. NodeSrcDir(h, layout, n).at = NodeSrcDir(h, layout, c).at \o a
  <2>1. CASE c = h.root
    <3>1. NodeSrcDir(h, layout, c).at = <<>> /\ NodeSrcDir(h, layout, n).at = a
      BY <1>7, <1>8, <2>1
    <3> QED BY <1>6, <3>1, Zenon
  <2>2. CASE c # h.root
    <3>1. NodeSrcDir(h, layout, c).at = <<h.name[c]>>
      BY <1>7, <2>2
    <3>2. NodeSrcDir(h, layout, n).at = <<h.name[c]>> \o a
      BY <1>8, <2>2
    <3> QED BY <3>1, <3>2, Zenon
  <2> QED BY <2>1, <2>2
<1> QED BY <1>1, <1>4, <1>9, <1>10

LEMMA CompiledOnceIn ==
  ASSUME GraphAssumption, NEW h, Sound(h), NEW layout \in Layout, NEW n \in NodesOf(h)
  PROVE /\ {c \in Packages(h, layout) : Reaches(ModLines(h, layout), c, n)}
             = {PackageOf(h, layout, n)}
        /\ \A m, k \in ModLines(h, layout)[n] : h.name[m] = h.name[k] => m = k
<1>1. PackageOf(h, layout, n) \in Packages(h, layout)
  BY HomeFacts, CrateFacts DEF PackageOf, Packages, CrateOK
<1>2. \A m \in ModLines(h, layout)[n] : m \in NodesOf(h) /\ h.parent[m] = n
  BY TreeFacts, ModLinesFacts
<1> QED BY <1>1, <1>2, ReachedFromHome, ReachedFromHomeOnly DEF Sound, SiblingsDiffer

(* However deep the tree and wherever its crates begin, every node is      *)
(* compiled in one package and in one place of it, from the file that      *)
(* rustc looks for.                                                        *)
THEOREM NodesCompileOnce ==
  ASSUME GraphAssumption
  PROVE LookupSpec => []CompiledOnce
<1>1. Inv /\ TreesOK => CompiledOnce
  BY SavedIsSound, CompiledOnceIn, SrcDirFromHome DEF CompiledOnce
<1> QED BY <1>1, TreesHold, PTL

-----------------------------------------------------------------------------
(* What a task may read.                                                   *)

LEMMA ResolvesTo ==
  ASSUME NEW h, GraphOK(h), NEW layout, NEW path, NEW n \in NodesOf(h),
         Owners(h, layout, path) = {n}
  PROVE ResolvePathToSlot(h, layout, path) = n
<1> DEFINE First(i) == /\ h.order[i] \in Owners(h, layout, path)
                       /\ \A j \in 1 .. (i - 1) : ~(h.order[j] \in Owners(h, layout, path))
<1>1. PICK s \in Seq(Id) : s = h.order
  BY DEF GraphOK, GraphType
<1>2. PICK i \in DOMAIN s : s[i] = n
  BY <1>1 DEF NodesOf
<1>3. DOMAIN s = 1 .. Len(s) /\ Len(s) \in Nat
  OBVIOUS
<1>4. First(i)
  <2>1. \A j \in 1 .. (i - 1) : j \in DOMAIN s /\ j # i
    BY <1>3
  <2>2. \A j \in DOMAIN s : s[j] = s[i] => j = i
    BY <1>1 DEF GraphOK, Ordered
  <2> QED BY <1>1, <1>2, <2>1, <2>2
<1>5. \E k \in DOMAIN h.order : First(k)
  BY <1>1, <1>4
<1> DEFINE first == CHOOSE k \in DOMAIN h.order : First(k)
<1>6. First(first)
  <2> HIDE DEF First
  <2> QED BY <1>5
<1>7. h.order[first] = n
  BY <1>6
<1>8. ResolvePathToSlot(h, layout, path) = h.order[first]
  BY Zenon DEF ResolvePathToSlot
<1> QED BY <1>7, <1>8

LEMMA AncestorsInTable ==
  ASSUME GraphAssumption, NEW h, Sound(h), NEW n \in NodesOf(h)
  PROVE Ancestors(h, n) \subseteq NodesOf(h)
<1>1. PICK s \in Seq(NodesOf(h)) : s = Chain(h, n)
  BY ChainFacts DEF ChainOK
<1>2. SubSeq(s, 1, Len(s) - 1) \in Seq(NodesOf(h))
  BY SubSeqProperties
<1> QED BY <1>1, <1>2 DEF Ancestors, Above

LEMMA ReadableSlots ==
  ASSUME GraphAssumption, NEW h, Sound(h), NEW layout \in Layout,
         layout = "SingleCrate" \/ CrateNamesDiffer(h),
         NEW self \in NodesOf(h), NEW n \in NodesOf(h), NEW slot \in NodeSlot,
         n = self \/ slot \in PublicSurface \/ n \in Ancestors(h, self)
  PROVE IsReadable(h, layout, self, SlotPath(h, layout, n, slot))
<1>1. ResolvePathToSlot(h, layout, SlotPath(h, layout, n, slot)) = n
  BY OneOwner, ResolvesTo DEF Sound
<1>2. SlotPath(h, layout, n, slot).file = slot
  BY DEF SlotPath
<1> QED BY <1>1, <1>2, TreeFacts DEF IsReadable

(* A listed file is a slot that may be read and that is rendered.          *)
LEMMA ListedSlots ==
  ASSUME GraphAssumption, NEW h, Sound(h), NEW layout \in Layout, NEW self \in NodesOf(h),
         NEW notes \in SUBSET NodesOf(h), NEW path \in ListedFiles(h, layout, self, notes)
  PROVE \E n \in NodesOf(h), slot \in NodeSlot :
          /\ path = SlotPath(h, layout, n, slot)
          /\ n = self \/ slot \in PublicSurface \/ n \in Ancestors(h, self)
          /\ slot # "private.md" \/ n \in notes
<1>1. Ancestors(h, self) \subseteq NodesOf(h) /\ h.deps[self] \subseteq NodesOf(h)
  BY AncestorsInTable DEF Sound, GraphOK, Rooted
<1>2. CASE \E slot \in SourceSlot : path = SlotPath(h, layout, self, slot)
  BY <1>2 DEF SourceSlot, NodeSlot
<1>3. CASE \E m \in {self} \cup Ancestors(h, self) : path = SlotPath(h, layout, m, "public.md")
  BY <1>1, <1>3 DEF NodeSlot, SpecSlot, PublicSurface
<1>4. CASE \E m \in ({self} \cup Ancestors(h, self)) \cap notes :
             path = SlotPath(h, layout, m, "private.md")
  BY <1>1, <1>4 DEF NodeSlot, SpecSlot
<1>5. CASE \E m \in h.deps[self], slot \in PublicSurface : path = SlotPath(h, layout, m, slot)
  BY <1>1, <1>5 DEF NodeSlot, SourceSlot, SpecSlot, PublicSurface
<1> QED BY <1>2, <1>3, <1>4, <1>5 DEF ListedFiles

LEMMA ListedFilesIn ==
  ASSUME GraphAssumption, NEW h, Sound(h), NEW layout \in Layout,
         layout = "SingleCrate" \/ CrateNamesDiffer(h), NEW self \in NodesOf(h),
         NEW notes \in SUBSET NodesOf(h), NEW path \in ListedFiles(h, layout, self, notes)
  PROVE IsReadable(h, layout, self, path) /\ path \in RenderedFiles(h, layout, notes)
<1>1. PICK n \in NodesOf(h), slot \in NodeSlot :
        /\ path = SlotPath(h, layout, n, slot)
        /\ n = self \/ slot \in PublicSurface \/ n \in Ancestors(h, self)
        /\ slot # "private.md" \/ n \in notes
  BY ListedSlots
<1>2. IsReadable(h, layout, self, path)
  BY <1>1, ReadableSlots
<1>3. path \in RenderedFiles(h, layout, notes)
  BY <1>1 DEF RenderedFiles
<1> QED BY <1>2, <1>3

(* A prompt names no file that read_file would refuse or not find, for any *)
(* tree and whichever nodes have private notes, as long as no two crates   *)
(* have one name.                                                          *)
THEOREM ListedFilesReadable ==
  ASSUME GraphAssumption
  PROVE LookupSpec => [](CrateNamesDiffer(saved) => ListedAreReadable)
<1>1. Inv /\ TreesOK => (CrateNamesDiffer(saved) => ListedAreReadable)
  BY SavedIsSound, ListedFilesIn DEF ListedAreReadable
<1> QED BY <1>1, TreesHold, PTL

-----------------------------------------------------------------------------
(* Use paths.                                                              *)

(* Where the pub mod lines go from a node: to its modules.                 *)
LEMMA LineFrom ==
  ASSUME GraphAssumption, NEW h, Sound(h), NEW layout \in Layout, NEW m \in NodesOf(h), NEW k
  PROVE k \in ModLines(h, layout)[m] <=>
          /\ k \in NodesOf(h) /\ h.parent[k] = m
          /\ layout = "SingleCrate" \/ ~h.boundary[k]
<1>1. m \in Id
  BY TreeFacts
<1> QED BY <1>1, ModLinesFacts

(* Down to a node of the same crate, the lines carry the nodes' names.     *)
LEMMA LeadsDown ==
  ASSUME GraphAssumption, NEW h, Sound(h), NEW layout \in Layout,
         NEW n \in NodesOf(h), NEW c \in NodesOf(h), Under(h, c, n),
         \A i \in 1 .. Len(Chain(h, n)) :
           i > Len(Chain(h, c)) => ~h.boundary[Chain(h, n)[i]]
  PROVE Leads(h, layout, c, Names(h, Below(h, c, n)), n)
<1>1. PICK s \in Seq(NodesOf(h)) : s = Chain(h, n)
  BY ChainFacts DEF ChainOK
<1>2. PICK t \in Seq(NodesOf(h)) : t = Chain(h, c)
  BY ChainFacts DEF ChainOK
<1>3. PICK b \in Seq(NodesOf(h)) : b = Below(h, c, n)
  BY BelowFacts
<1> DEFINE top == Len(t)
           names == Names(h, b)
           walk == [i \in 0 .. Len(names) |-> s[top + i]]
<1>4. /\ Len(b) = Len(s) - top /\ \A i \in 1 .. Len(b) : b[i] = s[top + i]
      /\ \A i \in 1 .. top : s[i] = t[i]
  BY <1>1, <1>2, <1>3, BelowFacts
<1>5. top \in Nat /\ Len(s) \in Nat /\ top >= 1 /\ t[top] = c /\ s[Len(s)] = n /\ top <= Len(s)
  <2>1. top >= 1 /\ t[top] = c
    BY <1>2, ChainFacts DEF ChainOK
  <2>2. s[Len(s)] = n
    BY <1>1, ChainFacts DEF ChainOK
  <2>3. top <= Len(s)
    BY <1>1, <1>2 DEF Under
  <2> QED BY <2>1, <2>2, <2>3
<1>6. Len(names) = Len(s) - top
  <2>1. Len(names) = Len(b)
    BY NamesType
  <2> QED BY <1>4, <2>1
<1>7. \A i \in 1 .. Len(names) : names[i] = h.name[s[top + i]]
  <2>1. \A i \in 1 .. Len(b) : names[i] = h.name[b[i]]
    BY DEF Names
  <2> QED BY <1>4, <1>6, <2>1
<1> HIDE DEF top, names
<1>8. \A i \in 0 .. Len(names) : top + i \in 1 .. Len(s)
  BY <1>5, <1>6
<1>9. walk \in [0 .. Len(names) -> NodesOf(h)]
  BY <1>8
<1>10. walk[0] = c
  <2>1. walk[0] = s[top]
    BY <1>5, <1>6
  <2> QED BY <1>4, <1>5, <2>1
<1>11. walk[Len(names)] = n
  <2>1. walk[Len(names)] = s[top + Len(names)]
    BY <1>5, <1>6
  <2>2. top + Len(names) = Len(s)
    BY <1>5, <1>6
  <2> QED BY <1>5, <2>1, <2>2
<1>12. ASSUME NEW i \in 1 .. Len(names)
       PROVE walk[i] \in ModLines(h, layout)[walk[i - 1]] /\ h.name[walk[i]] = names[i]
  <2>1. PICK j \in 1 .. Len(s) : j = top + i /\ j > 1 /\ j > top
    <3>1. top + i \in 1 .. Len(s)
      BY <1>8
    <3>2. top + i > 1 /\ top + i > top
      BY <1>5
    <3> QED BY <3>1, <3>2
  <2>2. walk[i] = s[j] /\ walk[i - 1] = s[j - 1] /\ j - 1 \in 1 .. Len(s)
    BY <1>5, <1>6, <2>1
  <2>3. s[j] \in NodesOf(h) \ {h.root} /\ h.parent[s[j]] = s[j - 1]
    BY <1>1, <2>1, ChainLinks
  <2>4. s[j - 1] \in NodesOf(h) /\ ~h.boundary[s[j]]
    BY <1>1, <1>2, <2>1, <2>2 DEF top
  <2>5. s[j] \in ModLines(h, layout)[s[j - 1]]
    BY <2>3, <2>4, LineFrom
  <2> QED BY <1>7, <2>1, <2>2, <2>5
<1> HIDE DEF walk
<1>13. Leads(h, layout, c, names, n)
  BY <1>9, <1>10, <1>11, <1>12 DEF Leads
<1> QED BY <1>3, <1>13 DEF names

(* By the same names, lines from one module lead to one module.            *)
LEMMA LeadsToOne ==
  ASSUME GraphAssumption, NEW h, Sound(h), NEW layout \in Layout, NEW c,
         NEW names \in Seq(Name), NEW m, NEW n,
         Leads(h, layout, c, names, m), Leads(h, layout, c, names, n)
  PROVE m = n
<1> DEFINE l == Len(names)
           Walk(w, k) ==
             /\ w \in [0 .. l -> NodesOf(h)]
             /\ w[0] = c /\ w[l] = k
             /\ \A i \in 1 .. l : /\ w[i] \in ModLines(h, layout)[w[i - 1]]
                                  /\ h.name[w[i]] = names[i]
<1>1. l \in Nat
  OBVIOUS
<1>2. PICK v : Walk(v, m)
  BY DEF Leads
<1>3. PICK w : Walk(w, n)
  BY DEF Leads
<1> DEFINE D == {i \in 0 .. l : v[i] # w[i]}
<1>4. D = {}
  <2>1. SUFFICES ASSUME D # {} PROVE FALSE
    OBVIOUS
  <2>2. D \in SUBSET Nat
    BY <1>1
  <2>3. PICK i \in D : \A j \in D : ~(j < i)
    BY <2>1, <2>2, LeastNumber
  <2>4. i \in 1 .. l /\ i - 1 \in 0 .. l /\ i - 1 < i
    BY <1>1, <1>2, <1>3, <2>3
  <2>5. v[i - 1] = w[i - 1] /\ v[i - 1] \in NodesOf(h)
    BY <1>2, <2>3, <2>4
  <2>6. v[i] \in ModLines(h, layout)[v[i - 1]] /\ h.name[v[i]] = names[i]
    BY <1>2, <2>4
  <2>7. w[i] \in ModLines(h, layout)[v[i - 1]] /\ h.name[w[i]] = names[i]
    BY <1>3, <2>4, <2>5
  <2>8. /\ v[i] \in NodesOf(h) /\ w[i] \in NodesOf(h)
        /\ h.parent[v[i]] = h.parent[w[i]] /\ h.name[v[i]] = h.name[w[i]]
    BY <2>5, <2>6, <2>7, LineFrom
  <2>9. v[i] = w[i]
    BY <2>8 DEF Sound, SiblingsDiffer
  <2> QED BY <2>3, <2>9
<1>5. v[l] = w[l]
  BY <1>1, <1>4
<1> QED BY <1>2, <1>3, <1>5

(* The manifest of n's crate names the crate of a dep, and no other by     *)
(* that name.                                                              *)
LEMMA DepCrateNamed ==
  ASSUME GraphAssumption, NEW h, Sound(h), CrateNamesDiffer(h),
         NEW n \in NodesOf(h), NEW d \in h.deps[n], h.crate[n] # h.crate[d]
  PROVE {c \in CrateDeps(h)[h.crate[n]] : h.name[c] = h.name[h.crate[d]]} = {h.crate[d]}
<1>1. /\ n \in Id /\ d \in NodesOf(h) /\ h.crate[n] \in Id
      /\ h.crate[d] \in NodesOf(h) /\ h.boundary[h.crate[d]]
  <2>1. d \in NodesOf(h)
    BY DEF Sound, GraphOK, Rooted
  <2> QED BY <2>1, TreeFacts, CrateFacts DEF CrateOK
<1>2. CrateDeps(h)[h.crate[n]] =
        {h.crate[e] : e \in UNION {h.deps[k] : k \in {k \in Id : h.crate[k] = h.crate[n]}}}
          \ {h.crate[n]}
  BY <1>1 DEF CrateDeps
<1>3. h.crate[d] \in CrateDeps(h)[h.crate[n]]
  BY <1>1, <1>2
<1>4. ASSUME NEW c \in CrateDeps(h)[h.crate[n]], h.name[c] = h.name[h.crate[d]]
      PROVE c = h.crate[d]
  <2>1. PICK k \in Id : \E e \in h.deps[k] : c = h.crate[e]
    BY <1>2
  <2>2. k \in NodesOf(h)
    BY <2>1 DEF Sound, GraphOK, Rooted
  <2>3. h.deps[k] \subseteq NodesOf(h)
    BY <2>2 DEF Sound, GraphOK, Rooted
  <2>4. c \in NodesOf(h) /\ h.boundary[c]
    BY <2>1, <2>3, CrateFacts DEF CrateOK
  <2> QED BY <1>1, <1>4, <2>4 DEF CrateNamesDiffer
<1> QED BY <1>3, <1>4

LEMMA ImportsReachIn ==
  ASSUME GraphAssumption, NEW h, Sound(h), CrateNamesDiffer(h),
         NEW n \in NodesOf(h), NEW d \in h.deps[n]
  PROVE Denotes(h, "Workspace", n, ImportPath(h, n, d)) = {d}
<1>1. d \in NodesOf(h) /\ "Workspace" \in Layout
  BY DEF Sound, GraphOK, Rooted, Layout
<1>2. PICK c \in NodesOf(h) : c = h.crate[d]
  BY <1>1, CrateFacts DEF CrateOK
<1>3. PICK names \in Seq(Name) : names = Names(h, Below(h, c, d))
  <2>1. Below(h, c, d) \in Seq(NodesOf(h))
    BY <1>1, <1>2, CrateFacts, BelowFacts DEF CrateOK
  <2> QED BY <2>1, NamesType
<1> DEFINE path == ImportPath(h, n, d)
           here == PackageOf(h, "Workspace", n)
           starts == IF path.crate = Crate THEN {here}
                     ELSE {k \in PackageDeps(h, "Workspace", here) : h.name[k] = path.crate}
<1>4. here = h.crate[n] /\ PackageDeps(h, "Workspace", here) = CrateDeps(h)[here]
  BY DEF PackageOf, PackageDeps
<1>5. path.crate = IF h.crate[n] = c THEN Crate ELSE h.name[c]
  BY <1>2 DEF ImportPath
<1>6. path.inner = names
  BY <1>2, <1>3 DEF ImportPath
<1>7. starts = {c}
  <2>1. CASE h.crate[n] = c
    BY <1>4, <1>5, <2>1
  <2>2. CASE h.crate[n] # c
    <3>1. h.name[c] # Crate
      BY DEF Crate, Sound, TreeOK, Named, GraphAssumption
    <3>2. {k \in CrateDeps(h)[h.crate[n]] : h.name[k] = h.name[c]} = {c}
      BY <1>2, <2>2, DepCrateNamed
    <3> QED BY <1>4, <1>5, <2>2, <3>1, <3>2
  <2> QED BY <2>1, <2>2
<1>8. Leads(h, "Workspace", c, names, d)
  BY <1>1, <1>2, <1>3, CrateFacts, LeadsDown DEF CrateOK
<1>9. \A k \in NodesOf(h) : Leads(h, "Workspace", c, names, k) => k = d
  BY <1>1, <1>8, LeadsToOne
<1> HIDE DEF starts, path
<1>10. Denotes(h, "Workspace", n, path)
         = {k \in NodesOf(h) : \E x \in starts : Leads(h, "Workspace", x, path.inner, k)}
  BY Zenon DEF Denotes, starts
<1>11. Denotes(h, "Workspace", n, path) = {d}
  BY <1>1, <1>6, <1>7, <1>8, <1>9, <1>10
<1> QED BY <1>11 DEF path

(* An agent that writes the use path its prompt advises for a dep names    *)
(* that dep and nothing else, through the manifests and module files as    *)
(* they were rendered, however crates are nested, as long as no two crates *)
(* have one name.                                                          *)
THEOREM AdvisedImportsReach ==
  ASSUME GraphAssumption
  PROVE LookupSpec => [](CrateNamesDiffer(saved) => ImportsReach)
<1>1. Inv /\ TreesOK => (CrateNamesDiffer(saved) => ImportsReach)
  BY SavedIsSound, ImportsReachIn DEF ImportsReach
<1> QED BY <1>1, TreesHold, PTL

-----------------------------------------------------------------------------
(* Prompts.                                                                *)

Titled(s, T) == \E S : s \in Seq(S) /\ \A x \in S : x.title \in T

OwnTitle == {"This node", "Files you can read", "Dependencies", "Own", "Debug stage"}

(* A prompt is what is shared, then what is not.                           *)
Splits(s, shared) ==
  /\ Titled(shared, Shared)
  /\ \E rest : Titled(rest, OwnTitle) /\ s = shared \o rest

LEMMA TitledSection ==
  ASSUME NEW T, NEW title \in T, NEW about
  PROVE Titled(<<Sec(title, about)>>, T)
<1> DEFINE S == {Sec(title, about)}
<1>1. <<Sec(title, about)>> \in Seq(S)
  OBVIOUS
<1>2. \A x \in S : x.title \in T
  BY DEF Sec
<1> HIDE DEF S
<1> QED BY <1>1, <1>2, Zenon DEF Titled

LEMMA TitledNone ==
  ASSUME NEW T
  PROVE Titled(<<>>, T)
<1> DEFINE S == {}
<1>1. <<>> \in Seq(S) /\ \A x \in S : x.title \in T
  OBVIOUS
<1> HIDE DEF S
<1> QED BY <1>1, Zenon DEF Titled

LEMMA TitledIf ==
  ASSUME NEW T, NEW condition, NEW s, Titled(s, T)
  PROVE Titled(If(condition, s), T)
BY TitledNone DEF If

LEMMA TitledBoth ==
  ASSUME NEW T, NEW s, NEW u, Titled(s, T), Titled(u, T)
  PROVE Titled(s \o u, T)
<1>1. PICK S : s \in Seq(S) /\ \A x \in S : x.title \in T
  BY DEF Titled
<1>2. PICK U : u \in Seq(U) /\ \A x \in U : x.title \in T
  BY DEF Titled
<1> DEFINE V == S \cup U
<1>3. s \in Seq(V) /\ u \in Seq(V)
  BY <1>1, <1>2
<1>4. s \o u \in Seq(V) /\ \A x \in V : x.title \in T
  BY <1>1, <1>2, <1>3
<1> QED BY <1>4 DEF Titled

LEMMA SplitsBefore ==
  ASSUME NEW s, NEW shared, Splits(s, shared), NEW u, Titled(u, OwnTitle)
  PROVE Splits(s \o u, shared)
<1>1. PICK rest : Titled(rest, OwnTitle) /\ s = shared \o rest
  BY DEF Splits
<1>2. PICK S : shared \in Seq(S)
  BY DEF Splits, Titled
<1>3. PICK R : rest \in Seq(R)
  BY <1>1 DEF Titled
<1>4. PICK U : u \in Seq(U)
  BY DEF Titled
<1> DEFINE V == S \cup R \cup U
<1>5. shared \in Seq(V) /\ rest \in Seq(V) /\ u \in Seq(V)
  BY <1>2, <1>3, <1>4
<1> HIDE DEF V
<1>6. (shared \o rest) \o u = shared \o (rest \o u)
  BY <1>5, ConcatAssociative
<1>7. Titled(rest \o u, OwnTitle)
  BY <1>1, TitledBoth
<1> QED BY <1>1, <1>6, <1>7, Zenon DEF Splits

LEMMA SplitsSamePrefix ==
  ASSUME NEW a, NEW b, NEW shared, Splits(a, shared), Splits(b, shared)
  PROVE SamePrefix(a, b)
<1>1. PICK S : shared \in Seq(S) /\ \A x \in S : x.title \in Shared
  BY DEF Splits, Titled
<1> DEFINE k == Len(shared)
<1>2. ASSUME NEW s, Splits(s, shared)
      PROVE /\ k \in {0} \cup DOMAIN s
            /\ \A i \in 1 .. k : s[i] = shared[i]
            /\ \A i \in DOMAIN s : s[i].title \in Shared <=> i <= k
  <2>1. PICK rest : Titled(rest, OwnTitle) /\ s = shared \o rest
    BY <1>2 DEF Splits
  <2>2. PICK R : rest \in Seq(R) /\ \A x \in R : x.title \in OwnTitle
    BY <2>1 DEF Titled
  <2>3. /\ DOMAIN s = 1 .. (k + Len(rest)) /\ k \in Nat /\ Len(rest) \in Nat
        /\ \A i \in 1 .. k : s[i] = shared[i]
        /\ \A i \in 1 .. (k + Len(rest)) : i > k => s[i] = rest[i - k]
    BY <1>1, <2>1, <2>2
  <2>4. \A i \in 1 .. k : shared[i].title \in Shared
    BY <1>1
  <2>5. \A i \in 1 .. Len(rest) : rest[i].title \notin Shared
    <3>1. \A title \in OwnTitle : title \notin Shared
      BY DEF OwnTitle, Shared
    <3> QED BY <2>2, <3>1
  <2> HIDE DEF k
  <2>6. ASSUME NEW i \in DOMAIN s
        PROVE s[i].title \in Shared <=> i <= k
    <3>1. CASE i <= k
      BY <2>3, <2>4, <3>1
    <3>2. CASE i > k
      <4>1. i - k \in 1 .. Len(rest) /\ s[i] = rest[i - k]
        BY <2>3, <3>2
      <4> QED BY <2>3, <2>5, <3>2, <4>1
    <3> QED BY <2>3, <3>1, <3>2
  <2>7. k \in {0} \cup DOMAIN s
    BY <2>3
  <2> QED BY <2>3, <2>6, <2>7
<1>3. /\ k \in {0} \cup DOMAIN a /\ \A i \in 1 .. k : a[i] = shared[i]
      /\ \A i \in DOMAIN a : a[i].title \in Shared <=> i <= k
  BY <1>2
<1>4. /\ k \in {0} \cup DOMAIN b /\ \A i \in 1 .. k : b[i] = shared[i]
      /\ \A i \in DOMAIN b : b[i].title \in Shared <=> i <= k
  BY <1>2
<1> HIDE DEF k
<1>5. k \in {0} \cup (DOMAIN a \cap DOMAIN b)
  BY <1>3, <1>4
<1>6. \A i \in 1 .. k : a[i] = b[i]
  BY <1>3, <1>4
<1> QED BY <1>3, <1>4, <1>5, <1>6 DEF SamePrefix

(* The part of a prompt that is the same for all children of a node.       *)
Common(h, n, stage, authored) ==
  CASE stage = "spec" ->
         AncestorChain(h, n) \o ParentSpec(h, n, authored) \o Siblings(h, n)
           \o <<Sec("Existing graph", h.order)>>
    [] stage = "iface" ->
         AncestorChain(h, n) \o ParentSpec(h, n, authored)
           \o ParentIface(h, n, authored) \o Siblings(h, n)
    [] OTHER -> AncestorChain(h, n) \o Siblings(h, n)

LEMMA CommonShared ==
  ASSUME NEW h, NEW n, NEW stage, NEW authored
  PROVE Titled(Common(h, n, stage, authored), Shared)
<1>1. \A title \in Shared : \A about : Titled(<<Sec(title, about)>>, Shared)
  BY TitledSection
<1>2. Titled(AncestorChain(h, n), Shared)
  BY <1>1, TitledIf DEF AncestorChain, Shared
<1>3. Titled(ParentSpec(h, n, authored), Shared)
  BY <1>1, TitledIf DEF ParentSpec, Shared
<1>4. Titled(ParentIface(h, n, authored), Shared)
  BY <1>1, TitledIf DEF ParentIface, Shared
<1>5. Titled(Siblings(h, n), Shared)
  BY <1>1, TitledIf DEF Siblings, Shared
<1>6. Titled(<<Sec("Existing graph", h.order)>>, Shared)
  BY <1>1 DEF Shared
<1>7. CASE stage = "spec"
  BY <1>2, <1>3, <1>5, <1>6, <1>7, TitledBoth DEF Common
<1>8. CASE stage = "iface"
  BY <1>2, <1>3, <1>4, <1>5, <1>8, TitledBoth DEF Common
<1>9. CASE stage \notin {"spec", "iface"}
  BY <1>2, <1>5, <1>9, TitledBoth DEF Common
<1> QED BY <1>7, <1>8, <1>9

(* Whatever the stage, nothing shared comes behind what is a node's own.   *)
LEMMA StageSplits ==
  ASSUME NEW h, NEW n, NEW authored, NEW stage \in {"spec", "iface", "tests", "impl", "debug"}
  PROVE Splits(BuildForStage(h, n, stage, authored), Common(h, n, stage, authored))
<1> DEFINE front == Common(h, n, stage, authored)
           ownSpec == OwnSpec(h, n, authored)
           deps == DepIfaces(h, n)
           this == ThisNode(h, n)
           Slot(slot) == Own(h, n, slot, authored)
           debug == If(stage = "debug", <<Sec("Debug stage", h.name[n])>>)
<1>1. \A title \in OwnTitle : \A about : Titled(<<Sec(title, about)>>, OwnTitle)
  BY TitledSection
<1>2. \A slot : Titled(Slot(slot), OwnTitle)
  BY <1>1, TitledIf DEF Own, OwnTitle
<1>3. Titled(ownSpec, OwnTitle)
  BY <1>2, TitledBoth DEF OwnSpec
<1>4. Titled(deps, OwnTitle)
  BY <1>1, TitledIf DEF DepIfaces, OwnTitle
<1>5. Titled(this, OwnTitle)
  <2>1. PICK a : a = Sec("This node", h.name[n])
    OBVIOUS
  <2>2. PICK b : b = Sec("Files you can read", h.name[n])
    OBVIOUS
  <2> DEFINE S == {a, b}
  <2>3. <<a, b>> \in Seq(S)
    OBVIOUS
  <2>4. \A x \in S : x.title \in OwnTitle
    <3>1. a.title = "This node" /\ b.title = "Files you can read"
      BY <2>1, <2>2 DEF Sec
    <3> QED BY <3>1 DEF OwnTitle
  <2> HIDE DEF S
  <2>5. Titled(<<a, b>>, OwnTitle)
    BY <2>3, <2>4, Zenon DEF Titled
  <2> QED BY <2>1, <2>2, <2>5 DEF ThisNode
<1>6. Titled(debug, OwnTitle)
  BY <1>1, TitledIf DEF OwnTitle
<1>7. Splits(front, front)
  <2>1. Titled(front, Shared)
    BY CommonShared
  <2>2. Titled(<<>>, OwnTitle)
    BY TitledNone
  <2>3. front = front \o <<>>
    <3>1. PICK S : front \in Seq(S)
      BY <2>1 DEF Titled
    <3> HIDE DEF front
    <3> QED BY <3>1, ConcatEmptySeq
  <2> QED BY <2>1, <2>2, <2>3, Zenon DEF Splits
<1>8. Splits(front \o this \o ownSpec, front)
  BY <1>3, <1>5, <1>7, SplitsBefore
<1>9. Splits(front \o deps \o this \o ownSpec, front)
  BY <1>3, <1>4, <1>5, <1>7, SplitsBefore
<1>10. CASE stage = "spec"
  BY <1>8, <1>10 DEF BuildForStage, Common
<1>11. CASE stage = "iface"
  BY <1>9, <1>11 DEF BuildForStage, Common
<1>12. CASE stage = "tests"
  <2>1. Splits(front \o deps \o this \o ownSpec \o Slot("public.rs"), front)
    BY <1>2, <1>9, SplitsBefore
  <2> QED BY <1>12, <2>1 DEF BuildForStage, Common
<1>13. CASE stage \in {"impl", "debug"}
  <2>1. Splits(front \o deps \o this \o ownSpec \o Slot("public.rs") \o Slot("tests.rs")
                 \o Slot("private.rs") \o debug, front)
    BY <1>2, <1>6, <1>9, SplitsBefore
  <2> QED BY <1>13, <2>1 DEF BuildForStage, Common
<1> QED BY <1>10, <1>11, <1>12, <1>13

(* Children of one node have the same ancestors and the same family.       *)
LEMMA CommonToSiblings ==
  ASSUME GraphAssumption, NEW h, Sound(h), NEW m \in NodesOf(h) \ {h.root},
         NEW n \in NodesOf(h) \ {h.root}, h.parent[m] = h.parent[n],
         NEW stage, NEW authored
  PROVE Common(h, m, stage, authored) = Common(h, n, stage, authored)
<1>1. ASSUME NEW x \in NodesOf(h) \ {h.root}
      PROVE Above(h, x) = Chain(h, h.parent[x])
  <2>1. PICK s \in Seq(NodesOf(h)) : s = Chain(h, h.parent[x])
    BY TreeFacts, ChainFacts DEF ChainOK
  <2>2. Chain(h, x) = Append(s, x)
    BY <2>1, ChainOf
  <2>3. SubSeq(Append(s, x), 1, Len(Append(s, x)) - 1) = s
    BY <2>1, AppendProperties, Extended
  <2> QED BY <2>1, <2>2, <2>3 DEF Above
<1>2. AncestorChain(h, m) = AncestorChain(h, n)
  BY <1>1 DEF AncestorChain
<1>3. ParentSpec(h, m, authored) = ParentSpec(h, n, authored)
  BY DEF ParentSpec
<1>4. ParentIface(h, m, authored) = ParentIface(h, n, authored)
  BY DEF ParentIface
<1>5. Siblings(h, m) = Siblings(h, n)
  BY DEF Siblings
<1> QED BY <1>2, <1>3, <1>4, <1>5 DEF Common

(* At every stage, the prompts of the children of a node begin alike, with *)
(* all that they share before the first section of their own: for trees of *)
(* any shape and whatever has been authored.                               *)
THEOREM PromptsSharePrefix ==
  ASSUME GraphAssumption
  PROVE LookupSpec => []SiblingsSharePrefix
<1>1. ASSUME NEW h, Sound(h), NEW m \in NodesOf(h) \ {h.root},
             NEW n \in NodesOf(h) \ {h.root}, h.parent[m] = h.parent[n],
             NEW stage \in {"spec", "iface", "tests", "impl", "debug"}, NEW authored
      PROVE SamePrefix(BuildForStage(h, m, stage, authored),
                       BuildForStage(h, n, stage, authored))
  <2>1. Common(h, m, stage, authored) = Common(h, n, stage, authored)
    BY <1>1, CommonToSiblings
  <2> QED BY <2>1, StageSplits, SplitsSamePrefix
<1>2. Inv /\ TreesOK => SiblingsSharePrefix
  BY <1>1, SavedIsSound DEF SiblingsSharePrefix
<1> QED BY <1>2, TreesHold, PTL

-----------------------------------------------------------------------------
(* One call.                                                               *)

NamesDiffer(h) == \A m, n \in NodesOf(h) : h.name[m] = h.name[n] => m = n

(* The names of a call differ among themselves and from the root's.        *)
OneCallOK ==
  /\ call.calls = 0 => call.at = "idle" /\ call.new = {}
  /\ call.calls <= 1 =>
       /\ NodesOf(g) \subseteq {g.root} \cup call.new /\ NamesDiffer(g)
       /\ NodesOf(saved) \subseteq {saved.root} \cup call.new /\ NamesDiffer(saved)

LEMMA OneCallDeps ==
  ASSUME Inv, OneCallOK, NEW n, NEW D, g' = WithDeps(n, D),
         saved' \in {saved, g'}, call' = call
  PROVE OneCallOK'
<1>1. g'.order = g.order /\ g'.root = g.root /\ g'.name = g.name
  BY DEF WithDeps, Inv, TypeOK, GraphType
<1>2. NodesOf(g') = NodesOf(g) /\ (NamesDiffer(g) => NamesDiffer(g'))
  BY <1>1 DEF NodesOf, NamesDiffer
<1> QED BY <1>1, <1>2 DEF OneCallOK

LEMMA OneCallStep ==
  ASSUME GraphAssumption, Inv, OneCallOK, [Next]_vars
  PROVE OneCallOK'
<1>1. /\ g \in GraphType /\ GraphOK(g) /\ call.calls \in Nat
      /\ call \in [at : {"idle", "nodes", "deps"}, new : SUBSET Id,
                   declared : SUBSET (Id \X Id), calls : Nat]
  BY DEF Inv, GraphOK, TypeOK
<1>2. ASSUME NEW n \in Id, NEW nm \in Name, InsertRoot(n, nm)
      PROVE OneCallOK'
  <2>1. /\ NodesOf(g) = {} /\ g'.order = Append(g.order, n) /\ g'.root = n
        /\ saved' = g' /\ call' = call
    BY <1>1, <1>2, InsertRootKeepsGraph DEF InsertRoot, GraphType
  <2>2. NodesOf(g') = NodesOf(g) \cup {n}
    BY <1>1, <1>2, <2>1, InsertRootKeepsGraph, NodesOfAppend DEF GraphOK
  <2> QED BY <2>1, <2>2 DEF OneCallOK, NamesDiffer
<1>3. ASSUME NEW p \in Id, NEW n \in Id, NEW nm \in Name, NEW b \in BOOLEAN,
             AddChild(p, n, nm, b)
      PROVE OneCallOK'
  <2>1. /\ call.at = "nodes" /\ n \notin NodesOf(g) /\ FreshName(nm)
        /\ saved' = saved /\ BusyOK
        /\ call'.new = call.new \cup {n} /\ call'.calls = call.calls
    BY <1>1, <1>3 DEF AddChild, Inv
  <2>2. /\ g'.order = Append(g.order, n) /\ g'.root = g.root /\ g'.name[n] = nm
        /\ \A m \in Id \ {n} : g'.name[m] = g.name[m]
    BY <1>1, <1>3 DEF AddChild, GraphType
  <2>3. NodesOf(g') = NodesOf(g) \cup {n} /\ NodesOf(g) \subseteq Id
    <3>1. g' \in GraphType
      BY <1>1, <1>3, <2>1, AddChildKeepsGraph DEF GraphOK
    <3>2. NodesOf(g) \subseteq Id
      BY <1>1 DEF GraphType, NodesOf
    <3> QED BY <1>1, <2>2, <3>1, <3>2, NodesOfAppend
  <2>4. call.calls # 0
    BY <2>1 DEF OneCallOK
  <2>5. ASSUME call.calls <= 1
        PROVE NodesOf(g') \subseteq {g'.root} \cup call'.new /\ NamesDiffer(g')
    <3>1. NodesOf(g) \subseteq {g.root} \cup call.new /\ NamesDiffer(g)
      BY <2>5 DEF OneCallOK
    <3>2. \A m \in NodesOf(g) : g.name[m] # nm
      BY <2>1, <3>1 DEF FreshName
    <3>3. \A m \in NodesOf(g) : m # n /\ g'.name[m] = g.name[m]
      BY <2>1, <2>2, <2>3
    <3>4. NamesDiffer(g')
      BY <2>2, <2>3, <3>1, <3>2, <3>3 DEF NamesDiffer
    <3> QED BY <2>1, <2>2, <2>3, <3>1, <3>4
  <2> QED BY <2>1, <2>4, <2>5 DEF OneCallOK
<1>4. ASSUME NEW from \in Id, NEW to \in Id, AddDep(from, to)
      PROVE OneCallOK'
  BY <1>4, OneCallDeps DEF AddDep
<1>5. ASSUME NEW n \in NodesOf(g), NEW D \in SUBSET NodesOf(g), SpecDeps(n, D)
      PROVE OneCallOK'
  BY <1>5, OneCallDeps DEF SpecDeps
<1>6. CASE BeginCall
  <2>1. /\ g' = g /\ saved' = saved /\ call'.calls = call.calls + 1
        /\ call.at = "idle" /\ g = saved /\ call'.new = {}
    BY <1>6 DEF BeginCall, Inv, IdleOK
  <2>2. call'.calls <= 1 => call.calls = 0 /\ call.calls <= 1 /\ call.new = {}
    BY <1>1, <2>1 DEF OneCallOK
  <2> QED BY <1>1, <2>1, <2>2 DEF OneCallOK
<1>7. ASSUME NEW D, NodesAdded(D)
      PROVE OneCallOK'
  BY <1>1, <1>7 DEF NodesAdded, OneCallOK
<1>8. CASE FailCall \/ EndCall
  <2>1. /\ call'.calls = call.calls /\ call'.new = call.new /\ call'.at = "idle"
        /\ g' \in {g, saved} /\ saved' \in {g, saved}
    BY <1>1, <1>8 DEF FailCall, EndCall
  <2> QED BY <2>1 DEF OneCallOK
<1>9. CASE UNCHANGED vars
  BY <1>9 DEF vars, OneCallOK
<1> QED BY <1>2, <1>3, <1>4, <1>5, <1>6, <1>7, <1>8, <1>9 DEF Next

LEMMA OneCallNames ==
  ASSUME GraphAssumption
  PROVE LookupSpec => [](call.calls <= 1 => CrateNamesDiffer(saved))
<1>1. LookupInit => OneCallOK
  BY EmptyGraphOK DEF LookupInit, Init, Idle, OneCallOK, NamesDiffer
<1>2. ASSUME Inv, OneCallOK, [LookupNext]_lookupVars
      PROVE OneCallOK'
  <2>1. ASSUME NEW n \in NodesOf(g), NEW D, Merged(n, D)
        PROVE OneCallOK'
    BY <1>2, <2>1, OneCallDeps DEF Merged
  <2>2. CASE GraphStep
    BY <1>2, <2>1, <2>2, OneCallStep DEF GraphStep
  <2>3. CASE UNCHANGED vars
    BY <1>2, <2>3, OneCallStep
  <2> QED BY <1>2, <2>2, <2>3, OthersLeaveGraph DEF lookupVars
<1>3. Inv /\ OneCallOK /\ [LookupNext]_lookupVars => OneCallOK'
  BY <1>2
<1>4. OneCallOK => (call.calls <= 1 => CrateNamesDiffer(saved))
  BY DEF OneCallOK, NamesDiffer, CrateNamesDiffer
<1> QED BY <1>1, <1>3, <1>4, GraphInvOfLookups, PTL DEF LookupSpec, lookupVars

(* A project whose tree comes from one submit_architecture call never has  *)
(* two crates of one name: its paths, imports and listed files are right   *)
(* without a condition, whatever specs and merges add to it.               *)
THEOREM OneCallRendersRightly ==
  ASSUME GraphAssumption
  PROVE LookupSpec => [](call.calls <= 1 => PathsResolve /\ ImportsReach /\ ListedAreReadable)
<1> QED BY OneCallNames, SlotPathsResolve, AdvisedImportsReach, ListedFilesReadable, PTL
==============================================================================
