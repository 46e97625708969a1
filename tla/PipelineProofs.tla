--------------------------- MODULE PipelineProofs ---------------------------
(***************************************************************************)
(* Proofs about the scheduler for every tree, every number of slots and    *)
(* every limit: the inductive invariant of Pipeline, the safety properties *)
(* it implies, and that Pipeline implements Board.                         *)
(***************************************************************************)
EXTENDS Pipeline, DepGraphProofs, FiniteSetTheorems, TLAPS

-----------------------------------------------------------------------------
(* Lemmas about boards.                                                    *)

(* On an ordered board, a stage after an open one has not started: stages  *)
(* of one node run in the order of Stage::ALL.                             *)
LEMMA LaterUntouched ==
  ASSUME NEW t, WellFormedTree(t), NEW b \in BoardType,
         Ordered(t, b), Untouched(t, b),
         NEW n \in Node, NEW p \in Stage, NEW s \in Stage,
         b[n][p] = "InProgress", Rank[p] < Rank[s]
  PROVE b[n][s] = "NotStarted"
<1>1. n \in t.nodes
  BY DEF Untouched
<1>2. \A q \in Stage : b[n][q] # "NotStarted" => Prerequisite(t, b, n, q)
  BY <1>1 DEF Ordered
<1>3. t.parent[n] = NoNode <=> n = Root
  BY <1>1 DEF WellFormedTree
<1>4. CASE s = "architect"
  BY <1>4 DEF Rank, Stage
<1>5. CASE s = "spec"
  BY <1>2, <1>3, <1>5 DEF Rank, Stage, Prerequisite, IsDone
<1>6. CASE s = "iface"
  BY <1>2, <1>3, <1>6 DEF Rank, Stage, Prerequisite, IsDone
<1>7. CASE s = "tests"
  BY <1>2, <1>3, <1>7 DEF Rank, Stage, Prerequisite, IsDone
<1>8. CASE s = "impl"
  BY <1>2, <1>3, <1>8 DEF Rank, Stage, Prerequisite, IsDone
<1>9. CASE s = "debug"
  BY <1>2, <1>3, <1>9 DEF Rank, Stage, Prerequisite, IsDone
<1> QED BY <1>4, <1>5, <1>6, <1>7, <1>8, <1>9 DEF Stage

(* Two stages of one node are never open together.                         *)
LEMMA OneOpenStage ==
  ASSUME NEW t, WellFormedTree(t), NEW b \in BoardType,
         Ordered(t, b), Untouched(t, b),
         NEW n \in Node, NEW p \in Stage, NEW s \in Stage,
         b[n][p] = "InProgress", b[n][s] = "InProgress"
  PROVE p = s
<1>1. p = s \/ Rank[p] < Rank[s] \/ Rank[s] < Rank[p]
  BY DEF Rank, Stage
<1> QED BY <1>1, LaterUntouched

(* Where a stage is ready, no stage of the node is open.                   *)
LEMMA ReadyMeansIdle ==
  ASSUME NEW t, WellFormedTree(t), NEW b \in BoardType,
         Ordered(t, b), Untouched(t, b),
         NEW n \in Node, NEW p \in Stage, NEW s \in Stage,
         StageIsReady(t, b, n, s)
  PROVE b[n][p] # "InProgress"
<1> SUFFICES ASSUME b[n][p] = "InProgress" PROVE FALSE
  OBVIOUS
<1>1. /\ n \in t.nodes
      /\ b[n][s] = "NotStarted"
      /\ Prerequisite(t, b, n, s)
  BY DEF StageIsReady
<1>2. \A q \in Stage : b[n][q] # "NotStarted" => Prerequisite(t, b, n, q)
  BY <1>1 DEF Ordered
<1>3. t.parent[n] = NoNode <=> n = Root
  BY <1>1 DEF WellFormedTree
<1>4. \A q \in Stage : Rank[p] < Rank[q] => b[n][q] = "NotStarted"
  BY LaterUntouched
<1>5. CASE Rank[p] < Rank[s]
  BY <1>1, <1>2, <1>3, <1>4, <1>5 DEF Rank, Stage, Prerequisite, IsDone
<1>6. CASE Rank[s] < Rank[p]
  BY <1>1, <1>2, <1>3, <1>6 DEF Rank, Stage, Prerequisite, IsDone
<1> QED BY <1>1, <1>5, <1>6 DEF Rank, Stage

(* Prerequisites outlive every change that keeps finished stages finished. *)
LEMMA PrerequisiteStable ==
  ASSUME NEW t, WellFormedTree(t), NEW b \in BoardType, NEW c \in BoardType,
         \A n \in Node, s \in Stage : b[n][s] \in {"Done", "Failed"} => c[n][s] = b[n][s],
         NEW m \in t.nodes, NEW q \in Stage, Prerequisite(t, b, m, q)
  PROVE Prerequisite(t, c, m, q)
<1>1. /\ m \in Node
      /\ Root \in Node
      /\ t.parent[m] # NoNode => t.parent[m] \in Node
      /\ t.deps[m] \subseteq Node
      /\ Children(t, m) \subseteq Node
  BY RootAssumption DEF WellFormedTree, TreeType, Children
<1>2. \A n \in Node, s \in Stage :
        /\ IsDone(b, n, s) => IsDone(c, n, s)
        /\ IsTerminal(b, n, s) => IsTerminal(c, n, s)
  BY DEF IsDone, IsTerminal
<1>3. b[m]["impl"] = "Failed" => c[m]["impl"] = "Failed"
  BY <1>1 DEF Stage
<1> QED BY <1>1, <1>2, <1>3 DEF Prerequisite, Stage

(* ... so the board stays ordered if only ready stages start.              *)
LEMMA OrderedStable ==
  ASSUME NEW t, WellFormedTree(t), NEW b \in BoardType, NEW c \in BoardType,
         Ordered(t, b),
         \A n \in Node, s \in Stage : b[n][s] \in {"Done", "Failed"} => c[n][s] = b[n][s],
         \A n \in t.nodes, s \in Stage :
           b[n][s] = "NotStarted" /\ c[n][s] # "NotStarted" => StageIsReady(t, b, n, s)
  PROVE Ordered(t, c)
<1> SUFFICES ASSUME NEW n \in t.nodes, NEW s \in Stage, c[n][s] # "NotStarted"
             PROVE Prerequisite(t, c, n, s)
  BY DEF Ordered
<1>1. Prerequisite(t, b, n, s)
  BY DEF Ordered, StageIsReady
<1> QED BY <1>1, PrerequisiteStable

(* reset_stale_inprogress takes back the open stages and nothing else.     *)
LEMMA ResetStaleReopens ==
  ASSUME NEW t, WellFormedTree(t), NEW b \in BoardType, Ordered(t, b), Untouched(t, b)
  PROVE ResetStale(b) = [n \in Node |-> [s \in Stage |->
                           IF b[n][s] = "InProgress" THEN "NotStarted" ELSE b[n][s]]]
<1> SUFFICES ASSUME NEW n \in Node, NEW s \in Stage
             PROVE (IF \E p \in Stage : Rank[p] <= Rank[s] /\ b[n][p] = "InProgress"
                    THEN "NotStarted" ELSE b[n][s])
                   = (IF b[n][s] = "InProgress" THEN "NotStarted" ELSE b[n][s])
  BY DEF ResetStale, ResetStaleRow
<1>1. CASE b[n][s] = "InProgress"
  BY <1>1 DEF Rank, Stage
<1>2. ASSUME b[n][s] # "InProgress",
             NEW p \in Stage, Rank[p] <= Rank[s], b[n][p] = "InProgress"
      PROVE b[n][s] = "NotStarted"
  <2>1. Rank[p] < Rank[s]
    BY <1>2 DEF Rank, Stage
  <2> QED BY <1>2, <2>1, LaterUntouched
<1> QED BY <1>1, <1>2

(* While the architect is at work, nothing else has ever started.          *)
LEMMA ArchitectAlone ==
  ASSUME NEW t, WellFormedTree(t), NEW b \in BoardType, Ordered(t, b), Untouched(t, b),
         b[Root]["architect"] = "InProgress",
         NEW n \in Node, NEW s \in Stage, b[n][s] # "NotStarted"
  PROVE n = Root /\ s = "architect"
<1>1. n \in t.nodes
  BY DEF Untouched
<1>2. \A q \in Stage : b[n][q] # "NotStarted" => Prerequisite(t, b, n, q)
  BY <1>1 DEF Ordered
<1>3. t.parent[n] = NoNode <=> n = Root
  BY <1>1 DEF WellFormedTree
<1> QED BY <1>2, <1>3 DEF Stage, Prerequisite, IsDone

-----------------------------------------------------------------------------
(* Steps that change main.                                                 *)

(* The architect's landing keeps an ordered board ordered.                 *)
LEMMA GrowKeepsOrder ==
  ASSUME NEW t, WellFormedTree(t), NEW u, WellFormedTree(u), NEW b \in BoardType,
         Ordered(t, b), Untouched(t, b), Extends(u, t), b[Root]["architect"] = "InProgress"
  PROVE Ordered(u, b) /\ Untouched(u, b)
<1>1. Untouched(u, b)
  BY DEF Untouched, Extends
<1>2. ASSUME NEW n \in u.nodes, NEW s \in Stage, b[n][s] # "NotStarted"
      PROVE Prerequisite(u, b, n, s)
  <2>1. n \in Node
    BY DEF WellFormedTree, TreeType
  <2>2. n = Root /\ s = "architect"
    BY <1>2, <2>1, ArchitectAlone
  <2>3. u.parent[Root] = NoNode
    BY DEF WellFormedTree
  <2> QED BY <2>2, <2>3 DEF Prerequisite
<1> QED BY <1>1, <1>2 DEF Ordered

(* A spec's landing does too, and what was ready stays ready.              *)
LEMMA LinkKeepsOrder ==
  ASSUME NEW t, WellFormedTree(t), NEW b \in BoardType,
         Ordered(t, b), Untouched(t, b),
         NEW n \in Node, b[n]["spec"] = "InProgress", NEW D \in SUBSET t.nodes,
         NEW u, u = [t EXCEPT !.deps = AddEdges(t.deps, n, D)]
  PROVE /\ WellFormedTree(u)
        /\ Ordered(u, b)
        /\ Untouched(u, b)
        /\ \A m \in Node, s \in Stage : StageIsReady(t, b, m, s) => StageIsReady(u, b, m, s)
<1>1. n \in t.nodes
  BY DEF Untouched, Stage
<1>2. /\ u.nodes = t.nodes
      /\ u.parent = t.parent
      /\ u.deps \in [Node -> SUBSET Node]
      /\ u.deps[n] = t.deps[n] \cup D
      /\ \A m \in Node \ {n} : u.deps[m] = t.deps[m]
      /\ u \in TreeType
  BY DEF WellFormedTree, TreeType, AddEdges
<1>3. WellFormedTree(u)
  <2>1. t.nodes \subseteq Node
    BY DEF WellFormedTree, TreeType
  <2>2. \A m \in t.nodes : u.deps[m] \subseteq t.nodes
    BY <1>2, <2>1 DEF WellFormedTree
  <2>3. \A m \in Node \ t.nodes : u.deps[m] = {}
    BY <1>1, <1>2 DEF WellFormedTree
  <2> QED BY <1>2, <2>2, <2>3 DEF WellFormedTree
<1>4. \A m : Children(u, m) = Children(t, m)
  BY <1>2 DEF Children
<1>5. \A s \in Stage : Rank["spec"] < Rank[s] => b[n][s] = "NotStarted"
  BY LaterUntouched DEF Stage
<1>6. b[n]["iface"] = "NotStarted" /\ b[n]["tests"] = "NotStarted" /\ b[n]["impl"] = "NotStarted"
  BY <1>5 DEF Rank, Stage
<1>7. ASSUME NEW m \in t.nodes, NEW s \in Stage, Prerequisite(t, b, m, s),
             m = n => s \notin {"iface", "tests", "impl"}
      PROVE Prerequisite(u, b, m, s)
  <2>1. m \in Node
    BY DEF WellFormedTree, TreeType
  <2> QED BY <1>2, <1>4, <1>7, <2>1 DEF Prerequisite
<1>8. Ordered(u, b)
  BY <1>2, <1>6, <1>7 DEF Ordered
<1>9. Untouched(u, b)
  BY <1>2 DEF Untouched
<1>10. ASSUME NEW m \in Node, NEW s \in Stage, StageIsReady(t, b, m, s)
       PROVE StageIsReady(u, b, m, s)
  <2>1. m = n => s \notin {"iface", "tests", "impl"}
    BY <1>6, <1>10 DEF StageIsReady, Prerequisite, IsDone
  <2> QED BY <1>2, <1>7, <1>10, <2>1 DEF StageIsReady
<1> QED BY <1>3, <1>8, <1>9, <1>10

(* A task that marks its open stage keeps order and what is ready.         *)
LEMMA FinishKeepsOrder ==
  ASSUME NEW t, WellFormedTree(t), NEW b \in BoardType,
         Ordered(t, b), Untouched(t, b),
         NEW n \in Node, NEW s \in Stage, b[n][s] = "InProgress",
         NEW c \in BoardType,
         \A m \in Node, q \in Stage : c[m][q] # b[m][q] => m = n /\ q = s
  PROVE /\ Ordered(t, c)
        /\ Untouched(t, c)
        /\ \A m \in Node, q \in Stage : StageIsReady(t, b, m, q) => StageIsReady(t, c, m, q)
<1>1. n \in t.nodes
  BY DEF Untouched
<1>3. \A m \in Node, q \in Stage : b[m][q] \in {"Done", "Failed", "NotStarted"} => c[m][q] = b[m][q]
  OBVIOUS
<1>4. Ordered(t, c)
  <2>1. \A m \in Node, q \in Stage : b[m][q] \in {"Done", "Failed"} => c[m][q] = b[m][q]
    BY <1>3
  <2>2. t.nodes \subseteq Node
    BY DEF WellFormedTree, TreeType
  <2>3. \A m \in t.nodes, q \in Stage :
           b[m][q] = "NotStarted" /\ c[m][q] # "NotStarted" => StageIsReady(t, b, m, q)
    BY <1>3, <2>2
  <2> QED BY <2>1, <2>3, OrderedStable
<1>5. Untouched(t, c)
  BY <1>3 DEF Untouched
<1>6. ASSUME NEW m \in Node, NEW q \in Stage, StageIsReady(t, b, m, q)
      PROVE StageIsReady(t, c, m, q)
  <2>1. m \in t.nodes /\ b[m][q] = "NotStarted" /\ Prerequisite(t, b, m, q)
    BY <1>6 DEF StageIsReady
  <2>2. \A k \in Node, r \in Stage : b[k][r] \in {"Done", "Failed"} => c[k][r] = b[k][r]
    BY <1>3
  <2>3. Prerequisite(t, c, m, q)
    BY <2>1, <2>2, PrerequisiteStable
  <2> QED BY <1>3, <2>1, <2>3 DEF StageIsReady
<1> QED BY <1>4, <1>5, <1>6

(* Starting a ready stage keeps order.                                     *)
LEMMA StartKeepsOrder ==
  ASSUME NEW t, WellFormedTree(t), NEW b \in BoardType,
         Ordered(t, b), Untouched(t, b),
         NEW n \in Node, NEW s \in Stage, StageIsReady(t, b, n, s),
         NEW c, c = [b EXCEPT ![n][s] = "InProgress"]
  PROVE /\ c \in BoardType
        /\ Ordered(t, c)
        /\ Untouched(t, c)
<1>1. n \in t.nodes /\ b[n][s] = "NotStarted"
  BY DEF StageIsReady
<1>2. /\ c \in BoardType
      /\ \A m \in Node, q \in Stage : <<m, q>> # <<n, s>> => c[m][q] = b[m][q]
  BY DEF BoardType, StageState
<1>3. \A m \in Node, q \in Stage : b[m][q] \in {"Done", "Failed"} => c[m][q] = b[m][q]
  BY <1>1, <1>2
<1>4. t.nodes \subseteq Node
  BY DEF WellFormedTree, TreeType
<1>5. \A m \in t.nodes, q \in Stage :
         b[m][q] = "NotStarted" /\ c[m][q] # "NotStarted" => StageIsReady(t, b, m, q)
  BY <1>2, <1>4
<1>6. Ordered(t, c)
  BY <1>2, <1>3, <1>5, OrderedStable
<1>7. Untouched(t, c)
  BY <1>1, <1>2 DEF Untouched
<1> QED BY <1>2, <1>6, <1>7

(* A restart keeps order.                                                  *)
LEMMA ReopenKeepsOrder ==
  ASSUME NEW t, WellFormedTree(t), NEW b \in BoardType, Ordered(t, b), Untouched(t, b)
  PROVE /\ ResetStale(b) \in BoardType
        /\ Ordered(t, ResetStale(b))
        /\ Untouched(t, ResetStale(b))
<1> DEFINE c == [n \in Node |-> [s \in Stage |->
                   IF b[n][s] = "InProgress" THEN "NotStarted" ELSE b[n][s]]]
<1>1. ResetStale(b) = c
  BY ResetStaleReopens
<1>2. c \in BoardType
  BY DEF BoardType, StageState
<1>3. \A m \in Node, q \in Stage : b[m][q] \in {"Done", "Failed", "NotStarted"} => c[m][q] = b[m][q]
  OBVIOUS
<1>4. t.nodes \subseteq Node
  BY DEF WellFormedTree, TreeType
<1> HIDE DEF c
<1>5. Ordered(t, c)
  BY <1>2, <1>3, <1>4, OrderedStable
<1>6. Untouched(t, c)
  BY <1>3 DEF Untouched
<1> QED BY <1>1, <1>2, <1>5, <1>6

-----------------------------------------------------------------------------
(* The inductive invariant.                                                *)

LEMMA SeedTreeWellFormed == WellFormedTree(SeedTree) /\ SeedTree # EmptyTree
BY TreesAssumption DEF SeedTree, EmptyTree

LEMMA InvInit == Init => Inv
<1> SUFFICES ASSUME Init PROVE Inv
  OBVIOUS
<1>1. FreeJob \in Job
  BY RootAssumption, LimitsAssumption
  DEF FreeJob, Job, Stage, Attempt, JobState, NoDeps
<1>2. TypeOK
  BY <1>1, RootAssumption
  DEF Init, TypeOK, EmptyBoard, BoardType, StageState, LoopState, Stage
<1>3. PoolEmpty
  BY DEF Init, PoolEmpty, FreeJob
<1>4. Untouched(tree, st)
  BY DEF Init, Untouched, EmptyBoard, EmptyTree
<1>5. DependencyOrder
  BY DEF Init, DependencyOrder, Ordered, EmptyTree
<1>6. RunningIsInProgress /\ OneTaskPerNode
  BY DEF Init, RunningIsInProgress, OneTaskPerNode, FreeJob, Running
<1> QED BY <1>2, <1>3, <1>4, <1>5, <1>6 DEF Init, Inv, PickStillReady, Seeded, Rested

(* What a step from a seeded workspace may use.                            *)
LEMMA Unfold ==
  ASSUME Inv, loop # "seed"
  PROVE /\ WellFormedTree(tree)
        /\ tree.nodes \subseteq Node
        /\ st \in BoardType
        /\ Ordered(tree, st)
        /\ Untouched(tree, st)
BY DEF Inv, TypeOK, Seeded, DependencyOrder, WellFormedTree, TreeType

LEMMA RunningMeansSeeded ==
  ASSUME Inv, NEW i \in Slots, job[i].at \in Running
  PROVE /\ loop \notin {"seed", "stale"}
        /\ job[i] \in Job
        /\ job[i].node \in Node
        /\ job[i].stage \in Stage
        /\ st[job[i].node][job[i].stage] = "InProgress"
BY DEF Inv, TypeOK, Rested, PoolEmpty, Running, RunningIsInProgress, Job

(* Steps of the loop that leave main and the pool alone.                   *)
LEMMA IdleSteps ==
  ASSUME Inv, Halt \/ EnterFill \/ StopFilling \/ Complete \/ Stuck \/ Return
  PROVE Inv'
<1>1. /\ UNCHANGED <<tree, st, job, picked, total, deaths, crashes, firstError, overCap>>
      /\ loop \notin {"seed", "stale"}
      /\ loop' \in {"drain", "fill", "wait", "returned"}
      /\ halted' \in {TRUE, halted}
      /\ scheduler' \in {"Stopped", "Done", scheduler}
      /\ outcome' \in {"ok", "err", outcome}
  BY DEF Halt, EnterFill, StopFilling, Complete, Stuck, Return, mainVars
<1>2. TypeOK'
  <2>1. loop' \in LoopState
    BY <1>1 DEF LoopState
  <2>2. scheduler' \in {"Running", "Stopped", "Done"} /\ outcome' \in {"none", "ok", "err"}
    BY <1>1 DEF Inv, TypeOK
  <2>3. halted' \in BOOLEAN
    BY <1>1 DEF Inv, TypeOK
  <2> QED BY <1>1, <2>1, <2>2, <2>3 DEF Inv, TypeOK
<1> QED
  BY <1>1, <1>2 DEF Inv, DependencyOrder, PickStillReady, RunningIsInProgress,
                    OneTaskPerNode, Seeded, Rested, PoolEmpty

LEMMA SeedRootStep == ASSUME Inv, SeedRoot PROVE Inv'
<1>1. /\ tree' = IF tree.nodes = {} THEN SeedTree ELSE tree
      /\ loop = "seed" /\ loop' = "stale"
      /\ UNCHANGED <<st, picked, job, total, firstError, halted, overCap, scheduler,
                     outcome, deaths, crashes>>
  BY DEF SeedRoot
<1>2. PoolEmpty /\ PoolEmpty'
  BY <1>1 DEF Inv, Rested, PoolEmpty
<1>3. CASE tree = EmptyTree
  <2>1. tree' = SeedTree
    BY <1>1, <1>3 DEF EmptyTree
  <2>2. TypeOK'
    BY <1>1, <2>1, SeedTreeWellFormed DEF Inv, TypeOK, LoopState
  <2>3. \A n \in Node, s \in Stage : st[n][s] = "NotStarted"
    BY <1>3 DEF Inv, Untouched, EmptyTree
  <2>4. Untouched(tree', st')
    BY <1>1, <2>3 DEF Untouched
  <2>5. DependencyOrder'
    BY <1>1, <2>1, <2>3, SeedTreeWellFormed
    DEF DependencyOrder, Ordered, WellFormedTree, TreeType
  <2> QED
    BY <1>1, <1>2, <2>1, <2>2, <2>4, <2>5, SeedTreeWellFormed
    DEF Inv, PickStillReady, RunningIsInProgress, OneTaskPerNode, Seeded, Rested, PoolEmpty,
        Running
<1>4. CASE tree # EmptyTree
  <2>1. WellFormedTree(tree)
    BY <1>4 DEF Inv, TypeOK
  <2>2. tree' = tree
    BY <1>1, <2>1 DEF WellFormedTree
  <2>3. TypeOK'
    BY <1>1, <2>2 DEF Inv, TypeOK, LoopState
  <2> QED
    BY <1>1, <1>2, <1>4, <2>2, <2>3
    DEF Inv, DependencyOrder, PickStillReady, RunningIsInProgress, OneTaskPerNode, Seeded,
        Rested
<1> QED BY <1>3, <1>4

LEMMA ResetStaleStep == ASSUME Inv, ResetStaleInProgress PROVE Inv'
<1>1. /\ loop = "stale" /\ loop' = "check"
      /\ st' = ResetStale(st)
      /\ UNCHANGED <<tree, picked, job, total, firstError, halted, overCap, scheduler,
                     outcome, deaths, crashes>>
  BY DEF ResetStaleInProgress
<1>2. /\ WellFormedTree(tree)
      /\ st' \in BoardType
      /\ Ordered(tree, st')
      /\ Untouched(tree, st')
  BY <1>1, Unfold, ReopenKeepsOrder
<1>3. PoolEmpty
  BY <1>1 DEF Inv, Rested
<1>4. TypeOK'
  BY <1>1, <1>2 DEF Inv, TypeOK, LoopState
<1>5. Untouched(tree', st') /\ DependencyOrder'
  BY <1>1, <1>2 DEF DependencyOrder
<1> QED
  BY <1>1, <1>3, <1>4, <1>5
  DEF Inv, PickStillReady, RunningIsInProgress, OneTaskPerNode, Seeded, Rested, PoolEmpty,
      Running

LEMMA PickNextReadyStep == ASSUME Inv, PickNextReady PROVE Inv'
<1>1. /\ loop = "fill" /\ loop' = "mark"
      /\ picked' \in NextReady(tree, st)
      /\ UNCHANGED <<tree, st, job, total, firstError, halted, overCap, scheduler,
                     outcome, deaths, crashes>>
  BY DEF PickNextReady, mainVars
<1>2. picked' \in Node \X Stage /\ StageIsReady(tree, st, picked'[1], picked'[2])
  BY <1>1, Unfold DEF NextReady
<1>3. TypeOK'
  BY <1>1, <1>2 DEF Inv, TypeOK, LoopState
<1> QED
  BY <1>1, <1>2, <1>3
  DEF Inv, DependencyOrder, PickStillReady, RunningIsInProgress, OneTaskPerNode, Seeded, Rested

LEMMA MarkAndSpawnStep == ASSUME Inv, MarkAndSpawn PROVE Inv'
<1> DEFINE n == picked[1]
           s == picked[2]
<1>1. /\ loop = "mark" /\ loop' = "fill"
      /\ st' = [st EXCEPT ![n][s] = "InProgress"]
      /\ total' = total + 1
      /\ UNCHANGED <<tree, picked, firstError, halted, overCap, scheduler, outcome,
                     deaths, crashes>>
  BY DEF MarkAndSpawn
<1>2. PICK i \in Slots :
        /\ job[i].at = "free"
        /\ job' = [job EXCEPT ![i] = [node |-> n, stage |-> s, attempt |-> 1,
                                      at |-> "allocate", seen |-> NoDeps]]
  BY DEF MarkAndSpawn
<1>3. n \in Node /\ s \in Stage /\ StageIsReady(tree, st, n, s)
  BY <1>1 DEF Inv, TypeOK, PickStillReady
<1>4. /\ WellFormedTree(tree) /\ st \in BoardType
      /\ Ordered(tree, st) /\ Untouched(tree, st)
  BY <1>1, Unfold
<1> HIDE DEF n, s
<1>5. st' \in BoardType /\ Ordered(tree, st') /\ Untouched(tree, st')
  BY <1>1, <1>3, <1>4, StartKeepsOrder
<1>6. [node |-> n, stage |-> s, attempt |-> 1, at |-> "allocate", seen |-> NoDeps] \in Job
  BY <1>3, LimitsAssumption DEF Job, Attempt, JobState, NoDeps
<1>7. TypeOK'
  BY <1>1, <1>2, <1>5, <1>6 DEF Inv, TypeOK, LoopState
<1>8. \A p \in Stage : st[n][p] # "InProgress"
  BY <1>3, <1>4, ReadyMeansIdle
<1>9. /\ job \in [Slots -> Job]
      /\ job'[i].node = n /\ job'[i].stage = s
      /\ \A j \in Slots \ {i} : job'[j] = job[j]
  BY <1>2 DEF Inv, TypeOK
<1>10. \A j \in Slots \ {i} : job[j].at \in Running =>
         /\ job[j].node \in Node
         /\ job[j].stage \in Stage
         /\ st[job[j].node][job[j].stage] = "InProgress"
         /\ job[j].node # n
  BY <1>8, <1>9 DEF Inv, RunningIsInProgress, Job
<1>11. RunningIsInProgress'
  <2> SUFFICES ASSUME NEW j \in Slots, job'[j].at \in Running
               PROVE st'[job'[j].node][job'[j].stage] = "InProgress"
    BY DEF RunningIsInProgress
  <2>1. CASE j = i
    BY <1>1, <1>3, <1>4, <1>9, <2>1 DEF BoardType
  <2>2. CASE j # i
    BY <1>1, <1>4, <1>9, <1>10, <2>2 DEF BoardType
  <2> QED BY <2>1, <2>2
<1>12. OneTaskPerNode'
  BY <1>9, <1>10 DEF Inv, OneTaskPerNode
<1> QED
  BY <1>1, <1>4, <1>5, <1>7, <1>11, <1>12
  DEF Inv, DependencyOrder, PickStillReady, Seeded, Rested

(* Steps that only empty a slot, or let a task go without touching main.   *)
LEMMA PoolSteps ==
  ASSUME Inv, NEW i \in Slots, JoinNext(i) \/ Drain(i) \/ TaskDies(i)
  PROVE Inv'
<1>1. FreeJob \in Job /\ FreeJob.at \notin Running
  BY RootAssumption, LimitsAssumption
  DEF FreeJob, Job, Stage, Attempt, JobState, NoDeps, Running
<1>2. \E k \in Job : k.at \notin Running /\ job' = [job EXCEPT ![i] = k]
  <2>1. CASE JoinNext(i) \/ Drain(i)
    BY <1>1, <2>1 DEF JoinNext, Drain
  <2>2. CASE TaskDies(i)
    <3> DEFINE k == [job[i] EXCEPT !.at = "err", !.seen = NoDeps]
    <3>1. k \in Job /\ k.at \notin Running
      BY DEF Inv, TypeOK, Job, JobState, NoDeps, Running
    <3>2. job' = [job EXCEPT ![i] = k]
      BY <2>2 DEF TaskDies
    <3> QED BY <3>1, <3>2
  <2> QED BY <2>1, <2>2
<1>3. /\ UNCHANGED <<tree, st, picked, total, crashes, halted, overCap, scheduler, outcome>>
      /\ loop' \in {loop, "check"}
      /\ loop \in {"wait", "drain"} \/ job[i].at \in Running
  BY DEF JoinNext, Drain, TaskDies, mainVars, loopVars
<1>4. firstError' \in BOOLEAN
  <2>1. firstError \in BOOLEAN
    BY DEF Inv, TypeOK
  <2>2. firstError' = firstError \/ firstError' = (firstError \/ job[i].at = "err")
    BY DEF JoinNext, Drain, TaskDies, loopVars
  <2> QED BY <2>1, <2>2
<1>5. deaths' \in Nat
  BY DEF JoinNext, Drain, TaskDies, Inv, TypeOK
<1>6. loop \notin {"seed", "stale"}
  BY <1>3, RunningMeansSeeded
<1>7. TypeOK'
  BY <1>2, <1>3, <1>4, <1>5 DEF Inv, TypeOK, LoopState
<1>8. \A j \in Slots : job'[j].at \in Running => j # i /\ job'[j] = job[j]
  BY <1>2 DEF Inv, TypeOK
<1> QED
  BY <1>3, <1>6, <1>7, <1>8
  DEF Inv, DependencyOrder, PickStillReady, RunningIsInProgress, OneTaskPerNode, Seeded, Rested

LEMMA CrashStep == ASSUME Inv, Crash PROVE Inv'
<1>1. FreeJob \in Job
  BY RootAssumption, LimitsAssumption
  DEF FreeJob, Job, Stage, Attempt, JobState, NoDeps
<1>2. job' \in [Slots -> Job]
  BY <1>1 DEF Crash
<1>3. UNCHANGED <<tree, st, picked, deaths>> /\ loop' = "seed"
  BY DEF Crash, mainVars
<1>4. TypeOK'
  <2>1. crashes' \in Nat
    BY DEF Crash, Inv, TypeOK
  <2>2. /\ total' = 0 /\ scheduler' = "Running" /\ outcome' = "none"
        /\ firstError' = FALSE /\ halted' = FALSE /\ overCap' = FALSE
    BY DEF Crash
  <2> QED BY <1>2, <1>3, <2>1, <2>2 DEF Inv, TypeOK, LoopState
<1>5. \A i \in Slots : job'[i].at = "free"
  BY DEF Crash, FreeJob
<1> QED
  BY <1>3, <1>4, <1>5
  DEF Inv, DependencyOrder, PickStillReady, RunningIsInProgress, OneTaskPerNode, Seeded,
      Rested, PoolEmpty, Running

-----------------------------------------------------------------------------
(* The steps of a task.  Each of them moves one running job to another     *)
(* position of the same task.                                              *)

LEMMA JobMoves ==
  ASSUME Inv, NEW i \in Slots, JobStep(i)
  PROVE /\ job[i].at \in Running
        /\ \E k \in Job :
             /\ k.node = job[i].node /\ k.stage = job[i].stage
             /\ job' = [job EXCEPT ![i] = k]
             /\ k.at \in Running => st' = st
        /\ UNCHANGED <<loopVars, deaths, crashes>>
        /\ overCap' \in BOOLEAN
<1>1. job[i] \in Job /\ job \in [Slots -> Job] /\ overCap \in BOOLEAN /\ CostCap \in BOOLEAN
  BY LimitsAssumption DEF Inv, TypeOK
<1> DEFINE Goal ==
      /\ job[i].at \in Running
      /\ \E k \in Job : /\ k.node = job[i].node /\ k.stage = job[i].stage
                        /\ job' = [job EXCEPT ![i] = k]
                        /\ k.at \in Running => st' = st
      /\ UNCHANGED <<loopVars, deaths, crashes>>
      /\ overCap' \in BOOLEAN
<1>2. CASE Allocate(i)
  <2> DEFINE k == [job[i] EXCEPT !.at = "attempt",
                     !.seen = IF job[i].stage = "spec" THEN tree.deps ELSE NoDeps]
  <2>1. tree.deps \in [Node -> SUBSET Node]
    BY DEF Inv, TypeOK, WellFormedTree, TreeType, EmptyTree, NoDeps
  <2>2. k \in Job /\ k.node = job[i].node /\ k.stage = job[i].stage
    BY <1>1, <2>1 DEF Job, JobState, NoDeps
  <2>3. job' = [job EXCEPT ![i] = k] /\ st' = st
    BY <1>2 DEF Allocate, mainVars
  <2>4. job[i].at \in Running /\ UNCHANGED <<loopVars, deaths, crashes, overCap>>
    BY <1>2 DEF Allocate, Running
  <2> QED BY <1>1, <2>2, <2>3, <2>4
<1>3. CASE Lands(i)
  <2> DEFINE k == [job[i] EXCEPT !.at = "markDone", !.seen = NoDeps]
  <2>1. k \in Job /\ k.node = job[i].node /\ k.stage = job[i].stage
    BY <1>1 DEF Job, JobState, NoDeps
  <2>2. job' = [job EXCEPT ![i] = k] /\ st' = st
    BY <1>3 DEF Lands
  <2>3. job[i].at \in Running /\ UNCHANGED <<loopVars, deaths, crashes>>
    BY <1>3 DEF Lands, Running
  <2>4. overCap' \in BOOLEAN
    BY <1>1, <1>3 DEF Lands, SpendSome
  <2> QED BY <2>1, <2>2, <2>3, <2>4
<1>4. CASE AttemptFails(i)
  <2> DEFINE k == IF job[i].attempt <= MaxRetries
                  THEN [job[i] EXCEPT !.attempt = @ + 1, !.at = "allocate", !.seen = NoDeps]
                  ELSE [job[i] EXCEPT !.at = "markFailed", !.seen = NoDeps]
  <2>1. k \in Job /\ k.node = job[i].node /\ k.stage = job[i].stage
    <3>1. CASE job[i].attempt <= MaxRetries
      <4>1. job[i].attempt + 1 \in Attempt
        BY <1>1, <3>1, LimitsAssumption DEF Job, Attempt
      <4> QED BY <1>1, <3>1, <4>1 DEF Job, JobState, NoDeps
    <3>2. CASE ~(job[i].attempt <= MaxRetries)
      BY <1>1, <3>2 DEF Job, JobState, NoDeps
    <3> QED BY <3>1, <3>2
  <2>2. job' = [job EXCEPT ![i] = k] /\ st' = st
    BY <1>4 DEF AttemptFails, mainVars
  <2>3. job[i].at \in Running /\ UNCHANGED <<loopVars, deaths, crashes>>
    BY <1>4 DEF AttemptFails, Running
  <2>4. overCap' \in BOOLEAN
    BY <1>1, <1>4 DEF AttemptFails, SpendSome
  <2> QED BY <2>1, <2>2, <2>3, <2>4
<1>5. CASE MarkDone(i)
  <2> DEFINE k == [job[i] EXCEPT !.at = "ok"]
  <2>1. k \in Job /\ k.node = job[i].node /\ k.stage = job[i].stage /\ k.at \notin Running
    BY <1>1 DEF Job, JobState, Running
  <2>2. job' = [job EXCEPT ![i] = k]
    BY <1>5 DEF MarkDone
  <2>3. job[i].at \in Running /\ UNCHANGED <<loopVars, deaths, crashes, overCap>>
    BY <1>5 DEF MarkDone, Running
  <2> QED BY <1>1, <2>1, <2>2, <2>3
<1>6. CASE MarkFailed(i)
  <2> DEFINE k == [job[i] EXCEPT !.at = IF job[i].stage = "impl" THEN "ok" ELSE "err"]
  <2>1. k \in Job /\ k.node = job[i].node /\ k.stage = job[i].stage /\ k.at \notin Running
    BY <1>1 DEF Job, JobState, Running
  <2>2. job' = [job EXCEPT ![i] = k]
    BY <1>6 DEF MarkFailed
  <2>3. job[i].at \in Running /\ UNCHANGED <<loopVars, deaths, crashes, overCap>>
    BY <1>6 DEF MarkFailed, Running
  <2> QED BY <1>1, <2>1, <2>2, <2>3
<1> QED
  BY <1>2, <1>3, <1>4, <1>5, <1>6 DEF JobStep, ArchitectLands, SpecLands, ContentLands

(* What a task does to main: nothing, a landing that extends the tree, or  *)
(* the mark on its own open stage.                                         *)
LEMMA MainAfterJobStep ==
  ASSUME Inv, NEW i \in Slots, JobStep(i)
  PROVE /\ WellFormedTree(tree') /\ st' \in BoardType
        /\ Ordered(tree', st') /\ Untouched(tree', st')
        /\ loop = "mark" => StageIsReady(tree', st', picked[1], picked[2])
        /\ \A n \in Node, s \in Stage :
             st'[n][s] # st[n][s] => n = job[i].node /\ s = job[i].stage
<1> DEFINE n == job[i].node
           s == job[i].stage
<1>1. job[i].at \in Running
  BY JobMoves
<1>2. /\ n \in Node /\ s \in Stage /\ st[n][s] = "InProgress" /\ loop # "seed"
  BY <1>1, RunningMeansSeeded
<1>3. /\ WellFormedTree(tree) /\ st \in BoardType
      /\ Ordered(tree, st) /\ Untouched(tree, st)
  BY <1>2, Unfold
<1>4. loop = "mark" => /\ picked[1] \in Node /\ picked[2] \in Stage
                       /\ StageIsReady(tree, st, picked[1], picked[2])
  BY DEF Inv, TypeOK, PickStillReady
<1>5. CASE ArchitectLands(i)
  <2>1. s = "architect" /\ st' = st /\ tree' \in Trees /\ Extends(tree', tree)
    BY <1>5 DEF ArchitectLands, Lands
  <2>2. n = Root
    BY <1>2, <1>3, <2>1 DEF Ordered, Untouched, Prerequisite, WellFormedTree
  <2>3. WellFormedTree(tree')
    BY <2>1, TreesAssumption
  <2>4. Ordered(tree', st) /\ Untouched(tree', st)
    BY <1>2, <1>3, <2>1, <2>2, <2>3, GrowKeepsOrder
  <2>5. loop # "mark"
    <3>1. \A m \in Node, q \in Stage : ~StageIsReady(tree, st, m, q)
      <4> SUFFICES ASSUME NEW m \in Node, NEW q \in Stage, StageIsReady(tree, st, m, q)
                   PROVE FALSE
        OBVIOUS
      <4>1. \A k \in Node, r \in Stage : st[k][r] # "NotStarted" => k = Root /\ r = "architect"
        BY <1>2, <1>3, <2>1, <2>2, ArchitectAlone
      <4>2. m \in tree.nodes /\ st[m][q] = "NotStarted" /\ Prerequisite(tree, st, m, q)
        BY DEF StageIsReady
      <4>3. q # "architect"
        BY <1>2, <1>3, <2>1, <2>2, <4>2 DEF Prerequisite, WellFormedTree
      <4> QED
        BY <1>2, <2>1, <2>2, <4>1, <4>2, <4>3, RootAssumption
        DEF Prerequisite, IsDone, Stage
    <3> QED BY <1>4, <3>1
  <2> QED BY <1>3, <2>1, <2>3, <2>4, <2>5
<1>6. CASE SpecLands(i)
  <2>1. s = "spec" /\ st' = st
    BY <1>6 DEF SpecLands, Lands
  <2>2. PICK D \in SUBSET tree.nodes :
          tree' = [tree EXCEPT !.deps = AddEdges(tree.deps, n, D)]
    BY <1>6 DEF SpecLands
  <2>3. n \in Node /\ st[n]["spec"] = "InProgress"
    BY <1>2, <2>1
  <2> HIDE DEF n
  <2>4. /\ WellFormedTree(tree') /\ Ordered(tree', st) /\ Untouched(tree', st)
        /\ \A m \in Node, q \in Stage :
             StageIsReady(tree, st, m, q) => StageIsReady(tree', st, m, q)
    BY <1>3, <2>2, <2>3, LinkKeepsOrder, SMTT(30)
  <2> QED BY <1>3, <1>4, <2>1, <2>4
<1>7. CASE MarkDone(i) \/ MarkFailed(i)
  <2>1. PICK result \in {"Done", "Failed"} : st' = [st EXCEPT ![n][s] = result]
    BY <1>7 DEF MarkDone, MarkFailed
  <2>2. tree' = tree
    BY <1>7 DEF MarkDone, MarkFailed
  <2> HIDE DEF n, s
  <2>3. st' \in BoardType
    BY <1>2, <1>3, <2>1 DEF BoardType, StageState
  <2>4. \A m \in Node, q \in Stage : st'[m][q] # st[m][q] => m = n /\ q = s
    BY <1>2, <1>3, <2>1 DEF BoardType
  <2>5. /\ Ordered(tree, st') /\ Untouched(tree, st')
        /\ \A m \in Node, q \in Stage :
             StageIsReady(tree, st, m, q) => StageIsReady(tree, st', m, q)
    BY <1>2, <1>3, <2>3, <2>4, FinishKeepsOrder
  <2> QED BY <1>3, <1>4, <2>2, <2>3, <2>4, <2>5 DEF n, s
<1>8. CASE Allocate(i) \/ ContentLands(i) \/ AttemptFails(i)
  <2>1. UNCHANGED <<tree, st>>
    BY <1>8 DEF Allocate, ContentLands, Lands, AttemptFails, mainVars
  <2> QED BY <1>3, <1>4, <2>1
<1> QED BY <1>5, <1>6, <1>7, <1>8 DEF JobStep

LEMMA JobStepStep ==
  ASSUME Inv, NEW i \in Slots, JobStep(i)
  PROVE Inv'
<1>1. /\ job[i].at \in Running
      /\ UNCHANGED <<loop, picked, total, firstError, halted, scheduler, outcome, deaths,
                     crashes>>
      /\ overCap' \in BOOLEAN
  BY JobMoves DEF loopVars
<1>2. PICK k \in Job :
        /\ k.node = job[i].node /\ k.stage = job[i].stage
        /\ job' = [job EXCEPT ![i] = k]
        /\ k.at \in Running => st' = st
  BY JobMoves
<1>3. /\ WellFormedTree(tree') /\ st' \in BoardType
      /\ Ordered(tree', st') /\ Untouched(tree', st')
      /\ loop = "mark" => StageIsReady(tree', st', picked[1], picked[2])
      /\ \A n \in Node, s \in Stage :
           st'[n][s] # st[n][s] => n = job[i].node /\ s = job[i].stage
  BY MainAfterJobStep
<1>4. job' \in [Slots -> Job] /\ job'[i] = k /\ \A j \in Slots \ {i} : job'[j] = job[j]
  BY <1>2 DEF Inv, TypeOK
<1>5. TypeOK'
  BY <1>1, <1>3, <1>4 DEF Inv, TypeOK
<1>6. OneTaskPerNode'
  BY <1>1, <1>2, <1>4 DEF Inv, OneTaskPerNode
<1>7. ASSUME NEW j \in Slots, job'[j].at \in Running
      PROVE st'[job'[j].node][job'[j].stage] = "InProgress"
  <2>1. CASE j = i
    BY <1>1, <1>2, <1>4, <1>7, <2>1 DEF Inv, RunningIsInProgress
  <2>2. CASE j # i
    <3>1. /\ job'[j] = job[j] /\ job[j].node # job[i].node
          /\ job[j].node \in Node /\ job[j].stage \in Stage
          /\ st[job[j].node][job[j].stage] = "InProgress"
      BY <1>1, <1>4, <1>7, <2>2 DEF Inv, TypeOK, OneTaskPerNode, RunningIsInProgress, Job
    <3> QED BY <1>3, <3>1
  <2> QED BY <2>1, <2>2
<1>8. RunningIsInProgress'
  BY <1>7 DEF RunningIsInProgress
<1>9. loop \notin {"seed", "stale"}
  BY <1>1, RunningMeansSeeded
<1>10. DependencyOrder' /\ Untouched(tree', st') /\ PickStillReady'
  BY <1>1, <1>3 DEF DependencyOrder, PickStillReady
<1>11. Seeded' /\ Rested'
  <2>1. Root \in tree'.nodes
    BY <1>3 DEF WellFormedTree
  <2> QED BY <1>1, <1>9, <2>1 DEF Seeded, Rested, EmptyTree
<1> QED BY <1>5, <1>6, <1>8, <1>10, <1>11 DEF Inv

LEMMA InvStep == Inv /\ [Next]_vars => Inv'
<1> SUFFICES ASSUME Inv, [Next]_vars PROVE Inv'
  OBVIOUS
<1>1. CASE SeedRoot
  BY <1>1, SeedRootStep
<1>2. CASE ResetStaleInProgress
  BY <1>2, ResetStaleStep
<1>3. CASE Halt \/ EnterFill \/ StopFilling \/ Complete \/ Stuck \/ Return
  BY <1>3, IdleSteps
<1>4. CASE PickNextReady
  BY <1>4, PickNextReadyStep
<1>5. CASE MarkAndSpawn
  BY <1>5, MarkAndSpawnStep
<1>6. CASE \E i \in Slots : JoinNext(i) \/ Drain(i) \/ TaskDies(i)
  BY <1>6, PoolSteps
<1>7. CASE \E i \in Slots : JobStep(i)
  BY <1>7, JobStepStep
<1>8. CASE Crash
  BY <1>8, CrashStep
<1>9. CASE UNCHANGED vars
  BY <1>9
  DEF vars, Inv, TypeOK, DependencyOrder, PickStillReady, RunningIsInProgress, OneTaskPerNode,
      Seeded, Rested, PoolEmpty
<1> QED
  BY <1>1, <1>2, <1>3, <1>4, <1>5, <1>6, <1>7, <1>8, <1>9 DEF Next, SchedulerStep

-----------------------------------------------------------------------------
(* Theorems.                                                               *)

(* The inductive invariant holds, type correctness included.               *)
THEOREM InvHolds == Spec => []Inv
BY InvInit, InvStep, PTL DEF Spec

(* Stages start in semantic-dependency order and stay justified by it,     *)
(* through every interleaving of tasks and every crash and restart.        *)
THEOREM StagesInOrder == Spec => []DependencyOrder
<1>1. Inv => DependencyOrder
  BY DEF Inv
<1> QED BY <1>1, InvHolds, PTL

(* What pick_next_ready read without the lock is still true under it.      *)
THEOREM PicksStayReady == Spec => []PickStillReady
<1>1. Inv => PickStillReady
  BY DEF Inv
<1> QED BY <1>1, InvHolds, PTL

(* No two tasks work on one node, and each owns the open stage it works on *)
THEOREM TasksAreExclusive == Spec => [](OneTaskPerNode /\ RunningIsInProgress)
<1>1. Inv => OneTaskPerNode /\ RunningIsInProgress
  BY DEF Inv
<1> QED BY <1>1, InvHolds, PTL

-----------------------------------------------------------------------------
(* Refinement.                                                             *)

(* Board reads trees and boards as Pipeline does.                          *)
LEMMA SameStages ==
  /\ B!Stage = Stage
  /\ B!EmptyTree = EmptyTree /\ B!SeedTree = SeedTree /\ B!EmptyBoard = EmptyBoard
  /\ \A t, u : B!Extends(t, u) <=> Extends(t, u)
  /\ \A deps, n, D : B!AddEdges(deps, n, D) = AddEdges(deps, n, D)
  /\ \A t, b, n, s : B!StageIsReady(t, b, n, s) <=> StageIsReady(t, b, n, s)
<1>1. B!Stage = Stage
  BY DEF B!Stage, Stage
<1>2. B!EmptyTree = EmptyTree /\ B!SeedTree = SeedTree
  BY DEF B!EmptyTree, EmptyTree, B!SeedTree, SeedTree, B!NoDeps, NoDeps
<1>3. B!EmptyBoard = EmptyBoard
  BY <1>1 DEF B!EmptyBoard, EmptyBoard
<1>4. \A t, u : B!Extends(t, u) <=> Extends(t, u)
  BY DEF B!Extends, Extends
<1>5. \A deps, n, D : B!AddEdges(deps, n, D) = AddEdges(deps, n, D)
  BY DEF B!AddEdges, AddEdges
<1>6. ASSUME NEW t, NEW b, NEW n, NEW s
      PROVE B!StageIsReady(t, b, n, s) <=> StageIsReady(t, b, n, s)
  <2>1. /\ B!Children(t, n) = Children(t, n)
        /\ \A m, q : B!IsDone(b, m, q) <=> IsDone(b, m, q)
        /\ \A m, q : B!IsTerminal(b, m, q) <=> IsTerminal(b, m, q)
    BY DEF B!Children, Children, B!IsDone, IsDone, B!IsTerminal, IsTerminal
  <2>2. B!Prerequisite(t, b, n, s) <=> Prerequisite(t, b, n, s)
    BY <2>1 DEF B!Prerequisite, Prerequisite
  <2> QED BY <2>2 DEF B!StageIsReady, StageIsReady
<1> QED BY <1>1, <1>2, <1>3, <1>4, <1>5, <1>6

(* Every step of a task is a step of the board or leaves it alone.         *)
LEMMA JobStepRefines ==
  ASSUME Inv, NEW i \in Slots, JobStep(i)
  PROVE [B!Next]_(B!boardVars)
<1> DEFINE n == job[i].node
           s == job[i].stage
<1>1. /\ n \in Node /\ s \in Stage /\ st[n][s] = "InProgress" /\ loop # "seed"
  BY JobMoves, RunningMeansSeeded
<1>2. /\ WellFormedTree(tree) /\ tree.nodes \subseteq Node
      /\ Ordered(tree, st) /\ Untouched(tree, st)
  BY <1>1, Unfold
<1>3. CASE ArchitectLands(i)
  <2>1. s = "architect" /\ st' = st /\ tree' \in Trees /\ Extends(tree', tree)
    BY <1>3 DEF ArchitectLands, Lands
  <2>2. n = Root
    BY <1>1, <1>2, <2>1 DEF Ordered, Untouched, Prerequisite, WellFormedTree
  <2>3. tree.nodes # {}
    BY <1>2 DEF WellFormedTree
  <2>4. B!Grow
    BY <1>1, <2>1, <2>2, <2>3, SameStages DEF B!Grow
  <2> QED BY <2>4 DEF B!Next
<1>4. CASE SpecLands(i)
  <2>1. s = "spec" /\ st' = st
    BY <1>4 DEF SpecLands, Lands
  <2>2. PICK D \in SUBSET tree.nodes :
          /\ Acceptable(job[i].seen, n, D)
          /\ tree' = [tree EXCEPT !.deps = AddEdges(tree.deps, n, D)]
    BY <1>4 DEF SpecLands
  <2>3. D \in SUBSET (tree.nodes \ {n})
    BY <2>2 DEF Acceptable
  <2>4. B!Link(n)
    BY <1>1, <2>1, <2>2, <2>3, SameStages DEF B!Link
  <2> QED BY <1>1, <2>4, SameStages DEF B!Next
<1>5. CASE MarkDone(i) \/ MarkFailed(i)
  <2>1. PICK result \in {"Done", "Failed"} : st' = [st EXCEPT ![n][s] = result]
    BY <1>5 DEF MarkDone, MarkFailed
  <2>2. tree' = tree
    BY <1>5 DEF MarkDone, MarkFailed
  <2>3. B!Finish(n, s, result)
    BY <1>1, <2>1, <2>2 DEF B!Finish
  <2> QED BY <1>1, <2>3, SameStages DEF B!Next
<1>6. CASE Allocate(i) \/ ContentLands(i) \/ AttemptFails(i)
  BY <1>6 DEF Allocate, ContentLands, Lands, AttemptFails, mainVars, B!boardVars
<1> QED BY <1>3, <1>4, <1>5, <1>6 DEF JobStep

LEMMA StepRefines == Inv /\ [Next]_vars => [B!Next]_(B!boardVars)
<1> SUFFICES ASSUME Inv, [Next]_vars PROVE [B!Next]_(B!boardVars)
  OBVIOUS
<1>1. CASE SeedRoot
  <2>1. CASE tree.nodes = {}
    <3>1. tree = EmptyTree
      BY <2>1 DEF Inv, TypeOK, WellFormedTree
    <3>2. B!Seed
      BY <1>1, <2>1, <3>1, SameStages DEF SeedRoot, B!Seed
    <3> QED BY <3>2 DEF B!Next
  <2>2. CASE tree.nodes # {}
    BY <1>1, <2>2 DEF SeedRoot, B!boardVars
  <2> QED BY <2>1, <2>2
<1>2. CASE ResetStaleInProgress
  <2>1. loop # "seed" /\ st' = ResetStale(st) /\ tree' = tree
    BY <1>2 DEF ResetStaleInProgress
  <2>2. st' = [n \in Node |-> [s \in Stage |->
                 IF st[n][s] = "InProgress" THEN "NotStarted" ELSE st[n][s]]]
    BY <2>1, Unfold, ResetStaleReopens
  <2>3. B!Reopen
    BY <2>1, <2>2, SameStages DEF B!Reopen
  <2> QED BY <2>3 DEF B!Next
<1>3. CASE MarkAndSpawn
  <2>1. /\ picked[1] \in Node /\ picked[2] \in Stage
        /\ StageIsReady(tree, st, picked[1], picked[2])
    BY <1>3 DEF MarkAndSpawn, Inv, TypeOK, PickStillReady
  <2>2. B!Start(picked[1], picked[2])
    BY <1>3, <2>1, SameStages DEF MarkAndSpawn, B!Start
  <2> QED BY <2>1, <2>2, SameStages DEF B!Next
<1>4. CASE \E i \in Slots : JobStep(i)
  BY <1>4, JobStepRefines
<1>5. CASE \/ Halt \/ EnterFill \/ PickNextReady \/ StopFilling \/ Complete \/ Stuck \/ Return
           \/ \E i \in Slots : JoinNext(i) \/ Drain(i) \/ TaskDies(i)
           \/ Crash
           \/ UNCHANGED vars
  BY <1>5
  DEF Halt, EnterFill, PickNextReady, StopFilling, Complete, Stuck, Return, JoinNext, Drain,
      TaskDies, Crash, mainVars, vars, B!boardVars
<1> QED BY <1>1, <1>2, <1>3, <1>4, <1>5 DEF Next, SchedulerStep

(* The scheduler, with its slots, retries, deaths and restarts, implements *)
(* the abstract board: a stage only starts when it is ready, only an open  *)
(* stage finishes, and a restart reopens exactly what was interrupted.     *)
THEOREM PipelineImplementsBoard == Spec => ImplementsBoard
<1>1. Init => B!Init
  BY SameStages DEF Init, B!Init
<1>2. Inv /\ [Next]_vars => [B!Next]_(B!boardVars)
  BY StepRefines
<1> QED BY <1>1, <1>2, InvHolds, PTL DEF Spec, ImplementsBoard, B!Spec

(* A finished stage is never reopened, not even by the cascade of a        *)
(* restart.                                                                *)
THEOREM FinishedStaysFinished == Spec => FinishedIsFinal
<1>1. ASSUME Inv, [Next]_vars
      PROVE [\A n \in Node, s \in Stage :
               st[n][s] \in {"Done", "Failed"} => st'[n][s] = st[n][s]]_vars
  <2>1. st \in BoardType
    BY <1>1 DEF Inv, TypeOK
  <2>2. [B!Next]_(B!boardVars)
    BY <1>1, StepRefines
  <2> SUFFICES ASSUME NEW n \in Node, NEW s \in Stage, st[n][s] \in {"Done", "Failed"}
               PROVE st'[n][s] = st[n][s]
    OBVIOUS
  <2>3. CASE \E m \in Node, q \in Stage : B!Start(m, q)
    BY <2>1, <2>3, SameStages DEF B!Start, StageIsReady, BoardType
  <2>4. CASE \E m \in Node, q \in Stage, result \in {"Done", "Failed"} : B!Finish(m, q, result)
    BY <2>1, <2>4 DEF B!Finish, BoardType
  <2>5. CASE B!Reopen
    BY <2>1, <2>5, SameStages DEF B!Reopen
  <2>6. CASE st' = st
    BY <2>6
  <2> QED
    BY <2>2, <2>3, <2>4, <2>5, <2>6, SameStages DEF B!Next, B!Seed, B!Grow, B!Link, B!boardVars
<1> QED BY <1>1, InvHolds, PTL DEF Spec, FinishedIsFinal

-----------------------------------------------------------------------------
(* One task at a time.                                                     *)

(* With one slot, the edges in the worktree of a spec task are still the   *)
(* edges on main when the spec lands.                                      *)
FreshDeps ==
  \A i \in Slots :
    job[i].at = "attempt" /\ job[i].stage = "spec" => job[i].seen = tree.deps

LEMMA SerialStep ==
  ASSUME \A i, j \in Slots : i = j, Inv, DepsAcyclic, FreshDeps, [Next]_vars
  PROVE DepsAcyclic' /\ FreshDeps'
<1>1. job \in [Slots -> Job]
  BY DEF Inv, TypeOK
<1>2. CASE SeedRoot
  <2>1. PoolEmpty /\ job' = job
    BY <1>2 DEF SeedRoot, Inv, Rested
  <2>2. tree' \in {SeedTree, tree}
    BY <1>2 DEF SeedRoot
  <2>3. Acyclic(tree'.deps)
    BY <2>2, TreesAssumption DEF DepsAcyclic
  <2> QED BY <2>1, <2>3 DEF DepsAcyclic, FreshDeps, PoolEmpty
<1>3. ASSUME NEW i \in Slots, ArchitectLands(i) PROVE DepsAcyclic' /\ FreshDeps'
  <2>1. tree' \in Trees /\ job' = [job EXCEPT ![i].at = "markDone", ![i].seen = NoDeps]
    BY <1>3 DEF ArchitectLands, Lands
  <2>2. job'[i].at # "attempt"
    BY <1>1, <2>1 DEF Job
  <2> QED BY <2>1, <2>2, TreesAssumption DEF DepsAcyclic, FreshDeps
<1>4. ASSUME NEW i \in Slots, SpecLands(i) PROVE DepsAcyclic' /\ FreshDeps'
  <2> DEFINE n == job[i].node
  <2>1. /\ job[i].at = "attempt" /\ job[i].stage = "spec"
        /\ job' = [job EXCEPT ![i].at = "markDone", ![i].seen = NoDeps]
    BY <1>4 DEF SpecLands, Lands
  <2>2. job'[i].at # "attempt"
    BY <1>1, <2>1 DEF Job
  <2>3. PICK D \in SUBSET tree.nodes :
          /\ Acceptable(job[i].seen, n, D)
          /\ tree' = [tree EXCEPT !.deps = AddEdges(tree.deps, n, D)]
    BY <1>4 DEF SpecLands
  <2>4. job[i].seen = tree.deps
    BY <2>1 DEF FreshDeps
  <2>5. /\ n \in Node /\ D \in SUBSET Node
        /\ tree.deps \in [Node -> SUBSET Node]
        /\ tree'.deps = AddEdges(tree.deps, n, D)
    <3>1. loop # "seed" /\ n \in Node
      BY <2>1, RunningMeansSeeded DEF Running
    <3>2. tree \in TreeType /\ tree.nodes \subseteq Node
      BY <3>1, Unfold DEF WellFormedTree
    <3> QED BY <2>3, <3>1, <3>2 DEF TreeType
  <2>6. Acyclic(tree'.deps)
    BY <2>3, <2>4, <2>5, AcceptedEdgesKeepAcyclic DEF DepsAcyclic
  <2> QED BY <2>2, <2>6 DEF DepsAcyclic, FreshDeps
<1>5. ASSUME NEW i \in Slots, Allocate(i) PROVE DepsAcyclic' /\ FreshDeps'
  <2>1. tree' = tree
    BY <1>5 DEF Allocate, mainVars
  <2>2. job'[i].stage = "spec" => job'[i].seen = tree.deps
    BY <1>1, <1>5 DEF Allocate, Job
  <2> QED BY <2>1, <2>2 DEF DepsAcyclic, FreshDeps
<1>6. ASSUME NEW i \in Slots,
             ContentLands(i) \/ AttemptFails(i) \/ MarkDone(i) \/ MarkFailed(i)
               \/ JoinNext(i) \/ Drain(i) \/ TaskDies(i)
      PROVE DepsAcyclic' /\ FreshDeps'
  <2>1. tree' = tree
    BY <1>6 DEF ContentLands, AttemptFails, MarkDone, MarkFailed, JoinNext, Drain, TaskDies,
                mainVars
  <2>2. job'[i].at # "attempt"
    BY <1>1, <1>6
    DEF ContentLands, Lands, AttemptFails, MarkDone, MarkFailed, JoinNext, Drain, TaskDies,
        Job, FreeJob
  <2> QED BY <2>1, <2>2 DEF DepsAcyclic, FreshDeps
<1>7. CASE MarkAndSpawn
  <2>1. tree' = tree
    BY <1>7 DEF MarkAndSpawn
  <2>2. \A i \in Slots : job'[i].at # "attempt"
    BY <1>1, <1>7 DEF MarkAndSpawn
  <2> QED BY <2>1, <2>2 DEF DepsAcyclic, FreshDeps
<1>8. CASE Crash
  BY <1>8 DEF Crash, mainVars, DepsAcyclic, FreshDeps, FreeJob
<1>9. CASE \/ ResetStaleInProgress \/ Halt \/ EnterFill \/ PickNextReady \/ StopFilling
           \/ Complete \/ Stuck \/ Return \/ UNCHANGED vars
  BY <1>9
  DEF ResetStaleInProgress, Halt, EnterFill, PickNextReady, StopFilling, Complete, Stuck,
      Return, mainVars, vars, DepsAcyclic, FreshDeps
<1> QED
  BY <1>2, <1>3, <1>4, <1>5, <1>6, <1>7, <1>8, <1>9 DEF Next, SchedulerStep, JobStep

(* With one task at a time (max_parallel_tasks = 1, the default), the deps *)
(* on main never form a cycle, however many specs add to them.             *)
THEOREM SerialDepsStayAcyclic ==
  ASSUME \A i, j \in Slots : i = j
  PROVE Spec => []DepsAcyclic
<1>1. Init => DepsAcyclic /\ FreshDeps
  BY DEF Init, DepsAcyclic, Acyclic, EmptyTree, NoDeps, FreshDeps, FreeJob
<1>2. Inv /\ (DepsAcyclic /\ FreshDeps) /\ [Next]_vars => (DepsAcyclic /\ FreshDeps)'
  BY SerialStep
<1> QED BY <1>1, <1>2, InvHolds, PTL DEF Spec

-----------------------------------------------------------------------------
(* What Engine::run reports.                                               *)

Built == scheduler = "Done" /\ AllDone(tree, st) /\ PoolEmpty

(* Past the loop, either a halt is on record or Complete has seen the tree *)
(* built with an empty pool, and nothing is left that could undo it.       *)
ReportInv ==
  /\ loop = "drain" => halted \/ Built
  /\ outcome = "ok" => loop = "returned" /\ ~halted /\ Built

(* A tree that is built stays built while the loop and the tasks rest.     *)
LEMMA BuiltStays ==
  ASSUME Built, UNCHANGED <<tree, st, job, scheduler>>
  PROVE Built'
BY DEF Built, PoolEmpty

LEMMA ReportStep ==
  ASSUME ReportInv, [Next]_vars
  PROVE ReportInv'
<1>1. ASSUME NEW i \in Slots, JobStep(i) \/ TaskDies(i) PROVE ReportInv'
  <2>1. job[i].at \in Running
    BY <1>1 DEF JobStep, Allocate, ArchitectLands, SpecLands, ContentLands, Lands,
                AttemptFails, MarkDone, MarkFailed, TaskDies, Running
  <2>2. ~Built
    BY <2>1 DEF Built, PoolEmpty, Running
  <2>3. UNCHANGED <<loop, halted, outcome>>
    BY <1>1 DEF JobStep, Allocate, ArchitectLands, SpecLands, ContentLands, Lands,
                AttemptFails, MarkDone, MarkFailed, TaskDies, loopVars
  <2> QED BY <2>2, <2>3 DEF ReportInv
<1>2. ASSUME NEW i \in Slots, JoinNext(i) PROVE ReportInv'
  BY <1>2 DEF JoinNext, ReportInv
<1>3. ASSUME NEW i \in Slots, Drain(i) PROVE ReportInv'
  <2>1. ~PoolEmpty
    BY <1>3 DEF Drain, PoolEmpty
  <2>2. halted /\ outcome # "ok"
    BY <1>3, <2>1 DEF Drain, ReportInv, Built
  <2> QED BY <1>3, <2>2 DEF Drain, loopVars, ReportInv
<1>4. CASE Complete
  <2>1. Built'
    BY <1>4 DEF Complete, Built, PoolEmpty, mainVars
  <2> QED BY <1>4, <2>1 DEF Complete, ReportInv
<1>5. CASE Return
  <2>1. ASSUME outcome' = "ok" PROVE ~halted /\ Built
    BY <1>5, <2>1 DEF Return, ReportInv
  <2>2. Built => Built'
    BY <1>5, BuiltStays DEF Return, mainVars
  <2> QED BY <1>5, <2>1, <2>2 DEF Return, ReportInv
<1>6. CASE Halt \/ Stuck \/ Crash
  BY <1>6 DEF Halt, Stuck, Crash, ReportInv
<1>7. CASE SeedRoot \/ ResetStaleInProgress \/ EnterFill \/ PickNextReady \/ MarkAndSpawn
             \/ StopFilling
  BY <1>7 DEF SeedRoot, ResetStaleInProgress, EnterFill, PickNextReady, MarkAndSpawn,
              StopFilling, ReportInv
<1>8. CASE UNCHANGED vars
  BY <1>8, BuiltStays DEF vars, ReportInv
<1> QED BY <1>1, <1>2, <1>3, <1>4, <1>5, <1>6, <1>7, <1>8 DEF Next, SchedulerStep

(* Engine::run returns Ok only of a tree that is built, with no task left  *)
(* and no halt on record, in this process or after any restart.            *)
THEOREM OkIsBuilt == Spec => []OkMeansBuilt
<1>1. Init => ReportInv
  BY DEF Init, ReportInv
<1>2. ReportInv /\ [Next]_vars => ReportInv'
  BY ReportStep
<1>3. ReportInv => OkMeansBuilt
  BY DEF ReportInv, Built, OkMeansBuilt
<1> QED BY <1>1, <1>2, <1>3, PTL DEF Spec

-----------------------------------------------------------------------------
(* The cap on tasks.                                                       *)

Busy == {i \in Slots : job[i].at # "free"}

(* While the pool is filled, every task above the cap is still in it: the  *)
(* turn began below the cap, and only join_next takes tasks out.           *)
CapInv ==
  /\ total <= MaxTasksTotal + Cardinality(Slots) - 1
  /\ loop \in {"fill", "mark"} => total <= MaxTasksTotal - 1 + Cardinality(Busy)

LEMMA BusyIsCounted ==
  ASSUME IsFiniteSet(Slots)
  PROVE /\ IsFiniteSet(Busy)
        /\ Cardinality(Busy) \in Nat
        /\ Cardinality(Slots) \in Nat
        /\ Cardinality(Busy) <= Cardinality(Slots)
        /\ Cardinality(Slots) >= 1
<1>1. Busy \subseteq Slots
  BY DEF Busy
<1>2. /\ IsFiniteSet(Busy)
      /\ Cardinality(Busy) <= Cardinality(Slots)
  BY <1>1, FS_Subset
<1>3. Cardinality(Slots) \in Nat /\ Cardinality(Busy) \in Nat
  BY <1>2, FS_CardinalityType
<1>4. Cardinality(Slots) # 0
  BY FS_EmptySet, LimitsAssumption
<1> QED BY <1>2, <1>3, <1>4

LEMMA CapStep ==
  ASSUME IsFiniteSet(Slots), Inv, CapInv, [Next]_vars
  PROVE CapInv'
<1>1. /\ total \in Nat
      /\ job \in [Slots -> Job]
      /\ MaxTasksTotal \in Nat
  BY LimitsAssumption DEF Inv, TypeOK
<1>2. ASSUME UNCHANGED <<total, loop>>, Busy' = Busy PROVE CapInv'
  BY <1>2 DEF CapInv
<1>3. ASSUME NEW i \in Slots, JobStep(i) \/ TaskDies(i) PROVE CapInv'
  <2>1. /\ job[i].at \in Running
        /\ UNCHANGED <<total, loop>>
    BY <1>3 DEF JobStep, Allocate, ArchitectLands, SpecLands, ContentLands, Lands,
                AttemptFails, MarkDone, MarkFailed, TaskDies, Running, loopVars
  <2>2. /\ job[i].at # "free" /\ job'[i].at # "free"
        /\ \A j \in Slots \ {i} : job'[j] = job[j]
    <3>1. CASE Allocate(i)
      BY <1>1, <3>1 DEF Allocate, Job
    <3>2. CASE Lands(i)
      BY <1>1, <3>2 DEF Lands, Job
    <3>3. CASE AttemptFails(i)
      BY <1>1, <3>3 DEF AttemptFails, Job
    <3>4. CASE MarkDone(i) \/ MarkFailed(i)
      BY <1>1, <3>4 DEF MarkDone, MarkFailed, Job
    <3>5. CASE TaskDies(i)
      BY <1>1, <3>5 DEF TaskDies, Running, Job
    <3> QED
      BY <1>3, <3>1, <3>2, <3>3, <3>4, <3>5
         DEF JobStep, ArchitectLands, SpecLands, ContentLands
  <2> QED BY <1>2, <2>1, <2>2 DEF Busy
<1>4. CASE EnterFill
  BY <1>1, <1>4, BusyIsCounted DEF EnterFill, CapInv, Busy
<1>5. CASE PickNextReady
  BY <1>5 DEF PickNextReady, CapInv, Busy
<1>6. CASE MarkAndSpawn
  <2>1. PICK i \in Slots :
          /\ job[i].at = "free"
          /\ job' = [job EXCEPT ![i] = [node |-> picked[1], stage |-> picked[2],
                                        attempt |-> 1, at |-> "allocate",
                                        seen |-> NoDeps]]
    BY <1>6 DEF MarkAndSpawn
  <2>2. Busy' = Busy \cup {i} /\ i \notin Busy
    BY <1>1, <2>1 DEF Busy
  <2>3. Cardinality(Busy') = Cardinality(Busy) + 1
    BY <2>2, BusyIsCounted, FS_AddElement
  <2>4. Busy' \subseteq Slots
    BY <2>1, <2>2 DEF Busy
  <2>5. Cardinality(Busy') <= Cardinality(Slots)
    BY <2>4, FS_Subset
  <2>6. total' = total + 1 /\ total <= MaxTasksTotal - 1 + Cardinality(Busy)
    BY <1>6 DEF MarkAndSpawn, CapInv
  <2>7. total' <= MaxTasksTotal - 1 + Cardinality(Busy')
    BY <1>1, <2>3, <2>6, BusyIsCounted
  <2>8. total' <= MaxTasksTotal + Cardinality(Slots) - 1
    BY <1>1, <2>3, <2>5, <2>6, BusyIsCounted
  <2> QED BY <2>7, <2>8 DEF CapInv
<1>7. CASE \/ SeedRoot \/ ResetStaleInProgress \/ Halt \/ StopFilling \/ Complete \/ Stuck
           \/ Return \/ \E i \in Slots : JoinNext(i) \/ Drain(i)
  <2>1. total' = total /\ loop' \notin {"fill", "mark"}
    BY <1>7 DEF SeedRoot, ResetStaleInProgress, Halt, StopFilling, Complete, Stuck, Return,
                JoinNext, Drain, loopVars
  <2> QED BY <2>1 DEF CapInv
<1>8. CASE Crash
  BY <1>1, <1>8, BusyIsCounted DEF Crash, CapInv
<1>9. CASE UNCHANGED vars
  BY <1>2, <1>9 DEF vars, Busy
<1> QED BY <1>3, <1>4, <1>5, <1>6, <1>7, <1>8, <1>9 DEF Next, SchedulerStep

(* max_tasks_total is overshot by at most the pool less one task, for any  *)
(* finite pool and any cap: the loop reads the cap once per turn and the   *)
(* turn may then fill every free slot.                                     *)
THEOREM OvershootIsBounded ==
  ASSUME IsFiniteSet(Slots)
  PROVE Spec => []TaskCapOvershoot
<1>1. Init => CapInv
  BY BusyIsCounted, LimitsAssumption DEF Init, CapInv
<1>2. Inv /\ CapInv /\ [Next]_vars => CapInv'
  BY CapStep
<1>3. CapInv => TaskCapOvershoot
  BY DEF CapInv, TaskCapOvershoot
<1> QED BY <1>1, <1>2, <1>3, InvHolds, PTL DEF Spec

-----------------------------------------------------------------------------
(* Why the scheduler gets stuck.                                           *)

(* When nothing is picked although the deps have an order, nothing is      *)
(* ready: among ready stages some come first in Stage::ALL.                *)
LEMMA NothingReady ==
  ASSUME NEW t, NEW b, Acyclic(t.deps), NextReady(t, b) = {},
         NEW n \in t.nodes, NEW s \in Stage
  PROVE ~StageIsReady(t, b, n, s)
<1> DEFINE ready == {q \in Stage : \E m \in t.nodes : StageIsReady(t, b, m, q)}
<1> SUFFICES ASSUME StageIsReady(t, b, n, s) PROVE FALSE
  OBVIOUS
<1>1. s \in ready
  OBVIOUS
<1>2. PICK q \in ready : \A p \in ready : Rank[q] <= Rank[p]
  <2> HIDE DEF ready
  <2>1. ready \subseteq Stage
    BY DEF ready
  <2> QED BY <1>1, <2>1 DEF Rank, Stage
<1>3. PICK m \in t.nodes : StageIsReady(t, b, m, q)
  BY <1>2
<1>4. <<m, q>> \in NextReady(t, b)
  BY <1>2, <1>3 DEF NextReady
<1> QED BY <1>4

(* With nothing ready, nothing open and nothing failed, and impl stages    *)
(* that do not wait in a circle, every product is there.                   *)
LEMMA IdleMeansBuilt ==
  ASSUME IsFiniteSet(Node),
         NEW t, WellFormedTree(t), NEW b \in BoardType, NextReady(t, b) = {},
         \A n \in Node, s \in Stage : b[n][s] \in {"NotStarted", "Done"},
         Acyclic(WaitsFor(t))
  PROVE AllDone(t, b)
<1> DEFINE DoneAt(s) == {n \in t.nodes : b[n][s] = "Done"}
<1>1. /\ t.nodes \in SUBSET Node /\ Root \in t.nodes
      /\ t.deps \in [Node -> SUBSET Node]
      /\ WaitsFor(t) \in [Node -> SUBSET Node]
      /\ \A n \in t.nodes : WaitsFor(t)[n] = t.deps[n] \cup Children(t, n)
      /\ \A n \in t.nodes : t.deps[n] \subseteq t.nodes /\ WaitsFor(t)[n] \subseteq t.nodes
  BY DEF WellFormedTree, TreeType, WaitsFor, Children
<1>2. Acyclic(t.deps)
  <2>1. \A n \in Node : t.deps[n] \subseteq WaitsFor(t)[n]
    BY <1>1 DEF WaitsFor
  <2> QED BY <1>1, <2>1 DEF Acyclic
<1>3. \A n \in t.nodes, s \in Stage : b[n][s] # "Done" => ~Prerequisite(t, b, n, s)
  BY <1>1, <1>2, NothingReady DEF StageIsReady
<1>4. b[Root]["architect"] = "Done"
  BY <1>1, <1>3 DEF WellFormedTree, Prerequisite, Stage
<1>5. DoneAt("spec") = t.nodes
  <2> SUFFICES ASSUME t.nodes \ DoneAt("spec") # {} PROVE FALSE
    OBVIOUS
  <2>1. PICK n \in t.nodes \ DoneAt("spec") :
          \A m \in t.nodes \ DoneAt("spec") : n \notin WaitsFor(t)[m]
    <3> DEFINE S == t.nodes \ DoneAt("spec")
    <3>1. S \in (SUBSET Node) \ {{}}
      BY <1>1
    <3> HIDE DEF S
    <3>2. \E n \in S : \A m \in S : n \notin WaitsFor(t)[m]
      BY <1>1, <3>1, AcyclicBackwards
    <3> QED BY <3>2 DEF S
  <2>2. t.parent[n] # NoNode /\ b[t.parent[n]]["spec"] # "Done"
    BY <1>3, <1>4, <2>1 DEF Prerequisite, IsDone, Stage
  <2>3. t.parent[n] \in t.nodes \ DoneAt("spec")
    BY <2>1, <2>2 DEF WellFormedTree
  <2>4. n \in WaitsFor(t)[t.parent[n]]
    BY <1>1, <2>1, <2>3 DEF Children
  <2> QED BY <2>1, <2>3, <2>4
<1>6. DoneAt("iface") = t.nodes
  <2> DEFINE S == t.nodes \ DoneAt("iface")
  <2> SUFFICES ASSUME S # {} PROVE FALSE
    OBVIOUS
  <2>1. PICK n \in S : t.deps[n] \cap S = {}
    BY <1>1, <1>2 DEF Acyclic
  <2>2. PICK d \in t.deps[n] : b[d]["iface"] # "Done"
    BY <1>3, <1>5, <2>1 DEF Prerequisite, IsDone, Stage
  <2> QED BY <1>1, <2>1, <2>2
<1>7. DoneAt("tests") = t.nodes
  <2>1. \A n \in t.nodes : Prerequisite(t, b, n, "tests")
    BY <1>1, <1>6 DEF Prerequisite, IsDone, Stage
  <2> QED BY <1>3, <2>1 DEF Stage
<1>8. DoneAt("impl") = t.nodes
  <2> DEFINE S == t.nodes \ DoneAt("impl")
  <2> SUFFICES ASSUME S # {} PROVE FALSE
    OBVIOUS
  <2>1. PICK n \in S : WaitsFor(t)[n] \cap S = {}
    BY <1>1 DEF Acyclic
  <2>2. PICK d \in WaitsFor(t)[n] : b[d]["impl"] # "Done"
    BY <1>1, <1>3, <1>7, <2>1 DEF Prerequisite, IsDone, Stage
  <2> QED BY <1>1, <2>1, <2>2
<1> QED BY <1>4, <1>5, <1>6, <1>7, <1>8 DEF AllDone, IsDone

(* A stage that is open although no task works on it any more.             *)
Abandoned(n, s) ==
  /\ st[n][s] = "InProgress"
  /\ \A i \in Slots : job[i].at \in Running => <<job[i].node, job[i].stage>> # <<n, s>>

Blamed == SomeFailed \/ \E n \in Node, s \in Stage : Abandoned(n, s)

(* An error among the results is to be seen on main, and whatever ended    *)
(* the run still is.                                                       *)
BlameInv ==
  /\ firstError => loop \notin {"seed", "stale"} /\ Blamed
  /\ \A i \in Slots : job[i].at = "err" => Blamed
  /\ loop = "returned" =>
       PoolEmpty /\ (outcome = "ok" \/ halted \/ Blamed \/ ~Acyclic(WaitsFor(tree)))

(* What is to blame remains while no finished stage is reopened, no open   *)
(* stage is taken back and no new task takes an abandoned stage.           *)
LEMMA BlameStays ==
  ASSUME Blamed,
         \A n \in Node, s \in Stage : st[n][s] = "Failed" => st'[n][s] = "Failed",
         \A n \in Node, s \in Stage : Abandoned(n, s) => Abandoned(n, s)'
  PROVE Blamed'
BY DEF Blamed, SomeFailed

(* The scheduler is stuck for a reason that is to be seen on main.         *)
LEMMA StuckIsBlamed ==
  ASSUME IsFiniteSet(Node), Inv, Stuck
  PROVE Blamed \/ ~Acyclic(WaitsFor(tree))
<1> SUFFICES ASSUME ~Blamed, Acyclic(WaitsFor(tree)) PROVE FALSE
  OBVIOUS
<1>1. /\ loop = "fill" /\ PoolEmpty
      /\ NextReady(tree, st) = {} /\ ~AllDone(tree, st)
  BY DEF Stuck
<1>2. WellFormedTree(tree) /\ st \in BoardType
  BY <1>1, Unfold
<1>3. ASSUME NEW n \in Node, NEW s \in Stage PROVE st[n][s] \in {"NotStarted", "Done"}
  <2>1. st[n][s] # "InProgress"
    BY <1>1 DEF Blamed, Abandoned, PoolEmpty, Running
  <2>2. st[n][s] # "Failed"
    BY DEF Blamed, SomeFailed
  <2> QED BY <1>2, <2>1, <2>2 DEF BoardType, StageState
<1> QED BY <1>1, <1>2, <1>3, IdleMeansBuilt

(* A step of a task, or its death, leaves the blame where it is; an error  *)
(* comes with something to blame.                                          *)
LEMMA TaskKeepsBlame ==
  ASSUME Inv, BlameInv, NEW i \in Slots, JobStep(i) \/ TaskDies(i)
  PROVE BlameInv'
<1> DEFINE n == job[i].node
           s == job[i].stage
<1>1. /\ job[i].at \in Running
      /\ UNCHANGED <<loop, firstError, halted, outcome>>
  BY DEF JobStep, Allocate, ArchitectLands, SpecLands, ContentLands, Lands,
         AttemptFails, MarkDone, MarkFailed, TaskDies, Running, loopVars
<1>2. /\ st \in BoardType /\ job \in [Slots -> Job]
      /\ n \in Node /\ s \in Stage /\ st[n][s] = "InProgress"
      /\ loop # "returned"
  BY <1>1, RunningMeansSeeded DEF Inv, TypeOK, BlameInv, PoolEmpty, Running
<1>3. \A j \in Slots :
        /\ job'[j].at \in Running => job[j].at \in Running
        /\ job'[j].node = job[j].node /\ job'[j].stage = job[j].stage
        /\ j # i => job'[j] = job[j]
  BY <1>1, <1>2 DEF JobStep, Allocate, ArchitectLands, SpecLands, ContentLands, Lands,
         AttemptFails, MarkDone, MarkFailed, TaskDies, Job
<1>4. \A m \in Node, q \in Stage : <<m, q>> # <<n, s>> => st'[m][q] = st[m][q]
  BY <1>2 DEF JobStep, Allocate, ArchitectLands, SpecLands, ContentLands, Lands,
         AttemptFails, MarkDone, MarkFailed, TaskDies, mainVars, BoardType
<1>5. Blamed => Blamed'
  <2>1. ASSUME NEW m \in Node, NEW q \in Stage, Abandoned(m, q) PROVE Abandoned(m, q)'
    BY <1>1, <1>3, <1>4, <2>1 DEF Abandoned
  <2>2. \A m \in Node, q \in Stage : st[m][q] = "Failed" => st'[m][q] = "Failed"
    BY <1>2, <1>4
  <2> QED BY <2>1, <2>2, BlameStays
<1>6. ASSUME job'[i].at = "err" PROVE Blamed'
  <2>1. CASE MarkFailed(i)
    <3>1. st'[n][s] = "Failed"
      BY <1>2, <2>1 DEF MarkFailed, BoardType
    <3> QED BY <1>2, <3>1 DEF Blamed, SomeFailed
  <2>2. CASE TaskDies(i)
    <3>1. st' = st
      BY <2>2 DEF TaskDies, mainVars
    <3>2. \A j \in Slots : job'[j].at \in Running => j # i
      BY <1>6 DEF Running
    <3>3. \A j \in Slots : job'[j].at \in Running => job[j].node # n
      BY <1>1, <1>3, <3>2 DEF Inv, OneTaskPerNode
    <3>4. ASSUME NEW m \in Node, NEW q \in Stage, m = n, q = s PROVE Abandoned(m, q)'
      BY <1>2, <1>3, <3>1, <3>3, <3>4 DEF Abandoned
    <3> QED BY <1>2, <3>4 DEF Blamed
  <2>3. CASE Allocate(i) \/ ArchitectLands(i) \/ SpecLands(i) \/ ContentLands(i)
             \/ AttemptFails(i) \/ MarkDone(i)
    BY <1>2, <1>6, <2>3 DEF Allocate, ArchitectLands, SpecLands, ContentLands, Lands,
       AttemptFails, MarkDone, Job
  <2> QED BY <2>1, <2>2, <2>3 DEF JobStep
<1>7. ASSUME NEW j \in Slots, job'[j].at = "err" PROVE Blamed'
  BY <1>3, <1>5, <1>6, <1>7 DEF BlameInv
<1> QED BY <1>1, <1>2, <1>5, <1>7 DEF BlameInv

LEMMA BlameStep ==
  ASSUME IsFiniteSet(Node), Inv, BlameInv, [Next]_vars
  PROVE BlameInv'
<1>1. job \in [Slots -> Job] /\ st \in BoardType
  BY DEF Inv, TypeOK
<1>2. ASSUME NEW i \in Slots, JobStep(i) \/ TaskDies(i) PROVE BlameInv'
  BY <1>2, TaskKeepsBlame
<1>3. ASSUME UNCHANGED st,
             \A i \in Slots : job'[i] = job[i] \/ job'[i] = FreeJob
      PROVE (Blamed => Blamed') /\ \A i \in Slots : job'[i].at = "err" => Blamed'
  <2>1. \A i \in Slots : job'[i].at \in {"err"} \cup Running => job'[i] = job[i]
    BY <1>3 DEF FreeJob, Running
  <2>2. ASSUME NEW m \in Node, NEW q \in Stage, Abandoned(m, q) PROVE Abandoned(m, q)'
    BY <1>3, <2>1, <2>2 DEF Abandoned
  <2>3. Blamed => Blamed'
    BY <1>3, <2>2, BlameStays
  <2> QED BY <2>1, <2>3 DEF BlameInv
<1>4. CASE SeedRoot \/ Halt \/ EnterFill \/ PickNextReady \/ StopFilling \/ Complete
  <2>1. /\ UNCHANGED <<st, job, firstError>>
        /\ loop' # "returned" /\ (loop' \in {"seed", "stale"} => loop = "seed")
    BY <1>4 DEF SeedRoot, Halt, EnterFill, PickNextReady, StopFilling, Complete, mainVars
  <2> QED BY <1>3, <2>1 DEF BlameInv
<1>5. CASE ResetStaleInProgress
  <2>1. /\ loop = "stale" /\ loop' = "check" /\ UNCHANGED <<job, firstError>>
        /\ PoolEmpty
    BY <1>5 DEF ResetStaleInProgress, Inv, Rested
  <2> QED BY <2>1 DEF BlameInv, PoolEmpty
<1>6. CASE MarkAndSpawn
  <2>1. PICK i \in Slots :
          /\ job[i].at = "free"
          /\ job' = [job EXCEPT ![i] = [node |-> picked[1], stage |-> picked[2],
                                        attempt |-> 1, at |-> "allocate",
                                        seen |-> NoDeps]]
    BY <1>6 DEF MarkAndSpawn
  <2>2. /\ loop = "mark" /\ loop' = "fill" /\ UNCHANGED firstError
        /\ st' = [st EXCEPT ![picked[1]][picked[2]] = "InProgress"]
    BY <1>6 DEF MarkAndSpawn
  <2>3. /\ picked[1] \in Node /\ picked[2] \in Stage
        /\ st[picked[1]][picked[2]] = "NotStarted"
    BY <2>2 DEF Inv, TypeOK, PickStillReady, StageIsReady
  <2>4. \A m \in Node, q \in Stage :
          <<m, q>> # <<picked[1], picked[2]>> => st'[m][q] = st[m][q]
    BY <1>1, <2>2 DEF BoardType
  <2>5. ASSUME NEW m \in Node, NEW q \in Stage, Abandoned(m, q) PROVE Abandoned(m, q)'
    BY <1>1, <2>1, <2>3, <2>4, <2>5 DEF Abandoned
  <2>6. \A m \in Node, q \in Stage : st[m][q] = "Failed" => st'[m][q] = "Failed"
    BY <2>3, <2>4
  <2>7. Blamed => Blamed'
    BY <2>5, <2>6, BlameStays
  <2>8. \A j \in Slots : job'[j].at = "err" => job[j].at = "err"
    BY <1>1, <2>1
  <2> QED BY <2>2, <2>7, <2>8 DEF BlameInv
<1>7. CASE Stuck
  <2>1. PoolEmpty' /\ UNCHANGED <<tree, st, job, firstError>> /\ loop' = "returned"
    BY <1>7 DEF Stuck, mainVars, PoolEmpty
  <2>2. Blamed' \/ ~Acyclic(WaitsFor(tree'))
    BY <1>3, <1>7, <2>1, StuckIsBlamed
  <2> QED BY <1>3, <2>1, <2>2 DEF BlameInv
<1>8. CASE Return
  <2>1. /\ PoolEmpty' /\ UNCHANGED <<tree, st, job, firstError, halted>>
        /\ loop' = "returned"
        /\ outcome' = "ok" \/ firstError \/ halted
    BY <1>8 DEF Return, mainVars, PoolEmpty
  <2> QED BY <1>3, <2>1 DEF BlameInv
<1>9. ASSUME NEW i \in Slots, JoinNext(i) \/ Drain(i) PROVE BlameInv'
  <2>1. /\ UNCHANGED st /\ job' = [job EXCEPT ![i] = FreeJob]
        /\ loop' \in {"check", "drain"}
    BY <1>9 DEF JoinNext, Drain, mainVars, loopVars
  <2>2. firstError' => firstError \/ job[i].at = "err"
    BY <1>9, Zenon DEF JoinNext, Drain, loopVars
  <2>3. (Blamed => Blamed') /\ \A j \in Slots : job'[j].at = "err" => Blamed'
    BY <1>1, <1>3, <2>1
  <2> QED BY <2>1, <2>2, <2>3 DEF BlameInv
<1>10. CASE Crash
  BY <1>10 DEF Crash, BlameInv, FreeJob
<1>11. CASE UNCHANGED vars
  <2>1. UNCHANGED <<st, job, tree, firstError, loop, halted, outcome>>
    BY <1>11 DEF vars
  <2> QED BY <1>3, <2>1 DEF BlameInv, PoolEmpty
<1> QED
  BY <1>2, <1>4, <1>5, <1>6, <1>7, <1>8, <1>9, <1>10, <1>11 DEF Next, SchedulerStep

(* Whatever tree the architect leaves and whatever specs add to it, a run  *)
(* that comes back without the tree built has a budget halt on record, a   *)
(* failed stage or an abandoned one on main, or a circle of impl stages:   *)
(* readiness rules and scheduler never block each other.                   *)
THEOREM BlockedForAReason ==
  ASSUME IsFiniteSet(Node)
  PROVE Spec => []BuildsUnlessBlocked
<1>1. Init => BlameInv
  BY DEF Init, BlameInv, FreeJob
<1>2. Inv /\ BlameInv /\ [Next]_vars => BlameInv'
  BY BlameStep
<1>3. BlameInv => BuildsUnlessBlocked
  BY DEF BlameInv, BuildsUnlessBlocked, Excused, Blamed, Abandoned, SomeFailed, SomeOrphan
<1> QED BY <1>1, <1>2, <1>3, InvHolds, PTL DEF Spec
=============================================================================
