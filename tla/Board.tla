------------------------------- MODULE Board --------------------------------
(***************************************************************************)
(* What the engine promises, with no scheduler, no slots, no retries and   *)
(* no processes: a board on which a ready stage may start, a started stage *)
(* ends Done or Failed, and a restart takes back what was interrupted.     *)
(* Pipeline implements this specification.                                 *)
(***************************************************************************)
EXTENDS Stages

CONSTANT Trees      \* the trees an architect may leave on main

VARIABLES tree,     \* topology on main
          st        \* stage states on main

boardVars == <<tree, st>>

Init ==
  /\ tree = EmptyTree
  /\ st = EmptyBoard

(* The root is inserted into an empty workspace. *)
Seed ==
  /\ tree = EmptyTree
  /\ tree' = SeedTree
  /\ UNCHANGED st

(* The architect's landing adds nodes, while the architect stage is open.  *)
Grow ==
  /\ tree.nodes # {}
  /\ st[Root]["architect"] = "InProgress"
  /\ tree' \in {t \in Trees : Extends(t, tree)}
  /\ UNCHANGED st

(* A spec's landing adds deps of its own node, while the spec is open.      *)
Link(n) ==
  /\ st[n]["spec"] = "InProgress"
  /\ \E D \in SUBSET (tree.nodes \ {n}) :
       tree' = [tree EXCEPT !.deps = AddEdges(tree.deps, n, D)]
  /\ UNCHANGED st

Start(n, s) ==
  /\ StageIsReady(tree, st, n, s)
  /\ st' = [st EXCEPT ![n][s] = "InProgress"]
  /\ UNCHANGED tree

Finish(n, s, result) ==
  /\ st[n][s] = "InProgress"
  /\ st' = [st EXCEPT ![n][s] = result]
  /\ UNCHANGED tree

(* A restart reopens exactly the stages that were interrupted.             *)
Reopen ==
  /\ st' = [n \in Node |-> [s \in Stage |->
              IF st[n][s] = "InProgress" THEN "NotStarted" ELSE st[n][s]]]
  /\ UNCHANGED tree

Next ==
  \/ Seed
  \/ Grow
  \/ Reopen
  \/ \E n \in Node : Link(n)
  \/ \E n \in Node, s \in Stage :
       \/ Start(n, s)
       \/ \E result \in {"Done", "Failed"} : Finish(n, s, result)

Spec == Init /\ [][Next]_boardVars
=============================================================================
