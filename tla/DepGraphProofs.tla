--------------------------- MODULE DepGraphProofs ---------------------------
(***************************************************************************)
(* The argument behind add_dep's cycle check, for graphs of any size, the  *)
(* second way in which an acyclic graph has no endless walks, and what a   *)
(* search of a graph has found when it ends.                               *)
(***************************************************************************)
EXTENDS DepGraph, FiniteSetTheorems, WellFoundedInduction, TLAPS

(* add_dep's node-level check is enough: edges out of n to nodes that do   *)
(* not reach n cannot close a cycle in the graph they were checked against *)
THEOREM AcceptedEdgesKeepAcyclic ==
  ASSUME NEW N, NEW deps \in [N -> SUBSET N], Acyclic(deps),
         NEW n \in N, NEW D \in SUBSET N, Acceptable(deps, n, D)
  PROVE Acyclic(AddEdges(deps, n, D))
<1> DEFINE new == AddEdges(deps, n, D)
<1>1. /\ DOMAIN new = N
      /\ new[n] = deps[n] \cup D
      /\ \A m \in N \ {n} : new[m] = deps[m]
  BY DEF AddEdges
<1> HIDE DEF new
<1> SUFFICES ASSUME NEW S \in (SUBSET N) \ {{}},
                    \A m \in S : new[m] \cap S # {}
             PROVE FALSE
  BY <1>1 DEF Acyclic, new
<1>2. PICK m \in S : deps[m] \cap S = {}
  BY DEF Acyclic
<1>3. m = n
  BY <1>1, <1>2
<1>4. PICK d \in D : d \in S
  BY <1>1, <1>2, <1>3
<1>5. PICK C \in SUBSET N : d \in C /\ Closed(deps, C) /\ n \notin C
  BY <1>4 DEF Acceptable, Reaches
<1>6. PICK k \in C \cap S : deps[k] \cap (C \cap S) = {}
  <2>1. C \cap S \in (SUBSET N) \ {{}}
    BY <1>4, <1>5
  <2> QED BY <2>1 DEF Acyclic
<1>7. new[k] \cap S = {}
  BY <1>1, <1>5, <1>6 DEF Closed
<1> QED BY <1>6, <1>7

(* Of a nonempty collection of finite sets, one has no proper subset in it *)
LEMMA SmallestSet ==
  ASSUME NEW N, IsFiniteSet(N), NEW T \in SUBSET SUBSET N, T # {}
  PROVE \E X \in T : \A Y \in T : Y \subseteq X => Y = X
<1>1. IsWellFoundedOn(StrictSubsetOrdering(N), SUBSET N)
  BY FS_StrictSubsetOrderingWellFounded, FS_FiniteSubsetsOfFinite
<1>2. PICK X \in T : \A Y \in T : <<Y, X>> \notin StrictSubsetOrdering(N)
  BY <1>1, WFMin
<1> QED BY <1>2 DEF StrictSubsetOrdering

LEMMA LeastNumber ==
  ASSUME NEW I \in SUBSET Nat, I # {}
  PROVE \E i \in I : \A j \in I : ~(j < i)
<1>1. PICK i \in I : \A j \in I : <<j, i>> \notin OpToRel(<, Nat)
  BY NatLessThanWellFounded, WFMin, Zenon
<1> QED BY <1>1 DEF OpToRel

(* A graph is acyclic if its nodes can be listed, all of them that have    *)
(* deps, so that deps come first.                                          *)
LEMMA ListedIsAcyclic ==
  ASSUME NEW N, NEW deps \in [N -> SUBSET N], NEW n \in Nat, NEW s \in [1 .. n -> N],
         \A m \in N : deps[m] # {} => \E i \in 1 .. n : s[i] = m,
         \A i \in 1 .. n : \A d \in deps[s[i]] : \E j \in 1 .. n : j < i /\ s[j] = d
  PROVE Acyclic(deps)
<1> SUFFICES ASSUME NEW S \in (SUBSET N) \ {{}}
             PROVE \E m \in S : deps[m] \cap S = {}
  BY DEF Acyclic
<1>1. CASE \E m \in S : deps[m] = {}
  BY <1>1
<1>2. CASE \A m \in S : deps[m] # {}
  <2> DEFINE I == {i \in 1 .. n : s[i] \in S}
  <2>1. I \in SUBSET Nat /\ I # {}
    BY <1>2
  <2>2. PICK i \in I : \A j \in I : ~(j < i)
    <3> HIDE DEF I
    <3> QED BY <2>1, LeastNumber
  <2>3. deps[s[i]] \cap S = {}
    BY <2>2
  <2> QED BY <2>3
<1> QED BY <1>1, <1>2

(* Acyclic is about walks along the edges; in a finite graph, walks        *)
(* against them end as well: every set of nodes has a member that no       *)
(* member of it leads to.                                                  *)
LEMMA AcyclicBackwards ==
  ASSUME NEW N, IsFiniteSet(N), NEW deps \in [N -> SUBSET N], Acyclic(deps),
         NEW S \in (SUBSET N) \ {{}}
  PROVE \E n \in S : \A m \in S : n \notin deps[m]
<1> DEFINE Entered(X) == \A n \in X : \E m \in X : n \in deps[m]
           T == {X \in (SUBSET N) \ {{}} : Entered(X)}
<1> SUFFICES ASSUME Entered(S) PROVE FALSE
  OBVIOUS
<1>1. T \in SUBSET SUBSET N /\ S \in T
  OBVIOUS
<1>2. PICK X \in T : \A Y \in T : Y \subseteq X => Y = X
  <2> HIDE DEF T
  <2> QED BY <1>1, SmallestSet
<1>3. PICK n \in X : deps[n] \cap X = {}
  BY DEF Acyclic
<1>4. PICK m \in X : n \in deps[m]
  OBVIOUS
<1>5. X \ {n} \in T
  <2>1. X \ {n} # {}
    BY <1>3, <1>4
  <2>2. Entered(X \ {n})
    BY <1>3
  <2> QED BY <2>1, <2>2
<1> QED BY <1>2, <1>5

-----------------------------------------------------------------------------
(* Reaching.                                                               *)

LEMMA ReachesItself ==
  ASSUME NEW deps, NEW a
  PROVE Reaches(deps, a, a)
BY DEF Reaches

LEMMA ReachesOn ==
  ASSUME NEW N, NEW deps \in [N -> SUBSET N], NEW a, NEW b \in N,
         NEW c \in deps[b], Reaches(deps, a, b)
  PROVE Reaches(deps, a, c)
BY DEF Reaches, Closed

LEMMA ReachesBack ==
  ASSUME NEW N, NEW deps \in [N -> SUBSET N], NEW a \in N, NEW b \in deps[a],
         NEW c, Reaches(deps, b, c)
  PROVE Reaches(deps, a, c)
BY DEF Reaches, Closed

(* What a closed set holds, it reaches only within itself.                 *)
LEMMA ReachesWithin ==
  ASSUME NEW N, NEW deps \in [N -> SUBSET N], NEW S \in SUBSET N,
         Closed(deps, S), NEW a \in S, NEW b, Reaches(deps, a, b)
  PROVE b \in S
BY DEF Reaches

-----------------------------------------------------------------------------
(* Searches.  V has been visited and T remains to be looked at: both are   *)
(* reached from the set A, and no edge leads out of V but to T.            *)

Search(N, deps, A, V, T) ==
  /\ V \cup T \subseteq N
  /\ A \subseteq V \cup T
  /\ \A n \in V : deps[n] \subseteq V \cup T
  /\ \A n \in V \cup T : \E a \in A : Reaches(deps, a, n)

LEMMA SearchBegins ==
  ASSUME NEW N, NEW deps \in [N -> SUBSET N], NEW A \in SUBSET N
  PROVE Search(N, deps, A, {}, A)
BY ReachesItself DEF Search

LEMMA SearchGoesOn ==
  ASSUME NEW N, NEW deps \in [N -> SUBSET N], NEW A, NEW V, NEW T,
         Search(N, deps, A, V, T), NEW n \in T
  PROVE Search(N, deps, A, V \cup {n}, (T \ {n}) \cup (IF n \in V THEN {} ELSE deps[n]))
<1> DEFINE W == V \cup {n}
           U == (T \ {n}) \cup (IF n \in V THEN {} ELSE deps[n])
<1>1. n \in N /\ deps[n] \subseteq N
  BY DEF Search
<1>2. V \cup T \subseteq W \cup U
  OBVIOUS
<1>3. deps[n] \subseteq W \cup U
  BY <1>2 DEF Search
<1>4. W \cup U \subseteq V \cup T \cup deps[n]
  OBVIOUS
<1>5. \A m \in W : deps[m] \subseteq W \cup U
  BY <1>2, <1>3 DEF Search
<1>6. PICK a \in A : Reaches(deps, a, n)
  BY DEF Search
<1>7. \A m \in deps[n] : Reaches(deps, a, m)
  BY <1>1, <1>6, ReachesOn
<1>8. \A m \in W \cup U : \E b \in A : Reaches(deps, b, m)
  BY <1>4, <1>7 DEF Search
<1>9. W \cup U \subseteq N /\ A \subseteq W \cup U
  BY <1>1, <1>2, <1>4 DEF Search
<1> HIDE DEF W, U
<1>10. Search(N, deps, A, W, U)
  BY <1>5, <1>8, <1>9 DEF Search
<1> QED BY <1>10 DEF W, U

LEMMA SearchEnds ==
  ASSUME NEW N, NEW deps \in [N -> SUBSET N], NEW A, NEW V, Search(N, deps, A, V, {})
  PROVE \A n : n \in V <=> \E a \in A : Reaches(deps, a, n)
<1>1. V \in SUBSET N /\ A \subseteq V /\ Closed(deps, V)
  BY DEF Search, Closed
<1>2. ASSUME NEW a \in A, NEW n, Reaches(deps, a, n) PROVE n \in V
  BY <1>1, <1>2, ReachesWithin
<1> QED BY <1>2 DEF Search

(* Against the edges: V reaches t, and all edges into V but not T come     *)
(* from V.                                                                 *)
BackSearch(N, deps, t, V, T) ==
  /\ V \subseteq N
  /\ T \subseteq V
  /\ t \in V
  /\ \A n \in V : Reaches(deps, n, t)
  /\ \A n \in V \ T : \A m \in N : n \in deps[m] => m \in V

LEMMA BackSearchBegins ==
  ASSUME NEW N, NEW deps, NEW t \in N
  PROVE BackSearch(N, deps, t, {t}, {t})
BY ReachesItself DEF BackSearch

LEMMA BackSearchGoesOn ==
  ASSUME NEW N, NEW deps \in [N -> SUBSET N], NEW t, NEW V, NEW T,
         BackSearch(N, deps, t, V, T), NEW n \in T, NEW P \in SUBSET N,
         \A m \in N : m \in P <=> n \in deps[m] /\ m \notin V
  PROVE BackSearch(N, deps, t, V \cup P, (T \ {n}) \cup P)
<1>1. n \in V /\ Reaches(deps, n, t)
  BY DEF BackSearch
<1>2. \A m \in P : Reaches(deps, m, t)
  BY <1>1, ReachesBack
<1>3. \A k \in (V \cup P) \ ((T \ {n}) \cup P) : k = n \/ k \in V \ T
  OBVIOUS
<1>4. \A k \in (V \cup P) \ ((T \ {n}) \cup P) :
        \A m \in N : k \in deps[m] => m \in V \cup P
  BY <1>3 DEF BackSearch
<1> QED BY <1>2, <1>4 DEF BackSearch

LEMMA BackSearchEnds ==
  ASSUME NEW N, NEW deps \in [N -> SUBSET N], NEW t \in N, NEW V,
         BackSearch(N, deps, t, V, {}), NEW n \in N
  PROVE n \in V <=> Reaches(deps, n, t)
<1>1. Closed(deps, N \ V)
  BY DEF BackSearch, Closed
<1>2. ASSUME n \notin V, Reaches(deps, n, t) PROVE t \notin V
  BY <1>1, <1>2, ReachesWithin
<1> QED BY <1>2 DEF BackSearch
=============================================================================
