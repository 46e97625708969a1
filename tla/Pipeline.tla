------------------------------ MODULE Pipeline ------------------------------
(***************************************************************************)
(* The scheduler of engine.rs: Engine::run with its slot pool, the tasks   *)
(* (advance_stage) it spawns, their retries, the budget halts, tasks that  *)
(* die without marking their stage, and crashes of the whole process       *)
(* followed by a restart in the same workdir.                              *)
(*                                                                         *)
(* An attempt (worktree, writer, critique, gate, landing) is one step with *)
(* two outcomes here; Landing opens the git side of it.  The gap between   *)
(* pick_next_ready, which reads main without its lock, and                 *)
(* set_stage_on_main, which takes it, is kept: tasks move in between.      *)
(***************************************************************************)
EXTENDS Stages, FiniteSets

CONSTANTS
  Trees,          \* the trees an architect may leave on main
  Slots,          \* the slot pool: max_parallel_tasks of them
  MaxRetries,     \* limits.max_stage_retries
  MaxTasksTotal,  \* limits.max_tasks_total
  MaxLateDeps,    \* bound: dep edges one spec may add (submit_spec.deps)
  CostCap,        \* TRUE iff limits.cost_cap_usd is set
  MaxDeaths,      \* bound: tasks that die (allocate error, panic)
  MaxCrashes      \* bound: restarts of the process

ASSUME TreesAssumption ==
  /\ SeedTree \in Trees
  /\ \A t \in Trees : WellFormedTree(t) /\ Acyclic(t.deps)

ASSUME LimitsAssumption ==
  /\ Slots # {}
  /\ MaxRetries \in Nat
  /\ MaxTasksTotal \in Nat
  /\ MaxLateDeps \in Nat
  /\ CostCap \in BOOLEAN
  /\ MaxDeaths \in Nat
  /\ MaxCrashes \in Nat

VARIABLES
  tree,        \* topology on main
  st,          \* stage states on main
  loop,        \* where Engine::run is
  picked,      \* the (node, stage) pick_next_ready returned
  job,         \* the JoinSet: one record per slot
  total,       \* total_tasks
  firstError,  \* first_error.is_some()
  halted,      \* halt_reason.is_some()
  overCap,     \* estimated_cost_usd >= cost_cap_usd
  scheduler,   \* the scheduler state the UI shows
  outcome,     \* what Engine::run returned
  deaths,      \* how many tasks died so far
  crashes      \* how many restarts so far

mainVars == <<tree, st>>
loopVars == <<loop, picked, total, firstError, halted, scheduler, outcome>>
vars == <<tree, st, loop, picked, job, total, firstError, halted, overCap,
          scheduler, outcome, deaths, crashes>>

Attempt == 1 .. (MaxRetries + 1)

JobState == {"free", "allocate", "attempt", "markDone", "markFailed", "ok", "err"}

(* A job that has not returned yet.                                        *)
Running == {"allocate", "attempt", "markDone", "markFailed"}

(* seen: the dep edges in the worktree of a spec task, which are those     *)
(* main had when the worktree was allocated.  Only the spec stage adds     *)
(* deps, so no other task's copy matters.                                  *)
Job == [node : Node, stage : Stage, attempt : Attempt, at : JobState,
        seen : [Node -> SUBSET Node]]

FreeJob == [node |-> Root, stage |-> "architect", attempt |-> 1, at |-> "free",
            seen |-> NoDeps]

LoopState == {"seed", "stale", "check", "fill", "mark", "wait", "drain", "returned"}

PoolEmpty == \A i \in Slots : job[i].at = "free"

Init ==
  /\ tree = EmptyTree
  /\ st = EmptyBoard
  /\ loop = "seed"
  /\ picked = <<Root, "architect">>
  /\ job = [i \in Slots |-> FreeJob]
  /\ total = 0
  /\ firstError = FALSE
  /\ halted = FALSE
  /\ overCap = FALSE
  /\ scheduler = "Running"
  /\ outcome = "none"
  /\ deaths = 0
  /\ crashes = 0

-----------------------------------------------------------------------------
(* Engine::run.                                                            *)

(* ensure_root_seeded.                                                     *)
SeedRoot ==
  /\ loop = "seed"
  /\ tree' = IF tree.nodes = {} THEN SeedTree ELSE tree
  /\ loop' = "stale"
  /\ UNCHANGED <<st, picked, job, total, firstError, halted, overCap, scheduler,
                 outcome, deaths, crashes>>

(* reset_stale_inprogress.                                                 *)
ResetStaleInProgress ==
  /\ loop = "stale"
  /\ st' = ResetStale(st)
  /\ loop' = "check"
  /\ UNCHANGED <<tree, picked, job, total, firstError, halted, overCap,
                 scheduler, outcome, deaths, crashes>>

(* Top of the loop: the cost cap first, then the task cap.                 *)
Halt ==
  /\ loop = "check"
  /\ overCap \/ total >= MaxTasksTotal
  /\ halted' = TRUE
  /\ scheduler' = "Stopped"
  /\ loop' = "drain"
  /\ UNCHANGED <<mainVars, picked, job, total, firstError, overCap, outcome,
                 deaths, crashes>>

(* Mutant: the cap on tasks stops nothing. *)
EnterFill_Uncapped ==
  /\ loop = "check"
  /\ ~overCap
  /\ loop' = "fill"
  /\ UNCHANGED <<mainVars, picked, job, total, firstError, halted, overCap,
                 scheduler, outcome, deaths, crashes>>

EnterFill ==
  /\ loop = "check"
  /\ ~overCap
  /\ total < MaxTasksTotal
  /\ loop' = "fill"
  /\ UNCHANGED <<mainVars, picked, job, total, firstError, halted, overCap,
                 scheduler, outcome, deaths, crashes>>

(* while joinset.len() < max_parallel: pick, from an unlocked read of main *)
PickNextReady ==
  /\ loop = "fill"
  /\ \E i \in Slots : job[i].at = "free"
  /\ picked' \in NextReady(tree, st)
  /\ loop' = "mark"
  /\ UNCHANGED <<mainVars, job, total, firstError, halted, overCap, scheduler,
                 outcome, deaths, crashes>>

(* Mutant: the task is spawned without marking its stage first. *)
MarkAndSpawn_NoMark ==
  /\ loop = "mark"
  /\ \E i \in Slots :
       /\ job[i].at = "free"
       /\ job' = [job EXCEPT ![i] = [node |-> picked[1], stage |-> picked[2],
                                     attempt |-> 1, at |-> "allocate",
                                     seen |-> NoDeps]]
  /\ total' = total + 1
  /\ loop' = "fill"
  /\ UNCHANGED <<mainVars, picked, firstError, halted, overCap, scheduler, outcome,
                 deaths, crashes>>

(* ... then set_stage_on_main(InProgress) under main_lock, and spawn.      *)
MarkAndSpawn ==
  /\ loop = "mark"
  /\ st' = [st EXCEPT ![picked[1]][picked[2]] = "InProgress"]
  /\ \E i \in Slots :
       /\ job[i].at = "free"
       /\ job' = [job EXCEPT ![i] = [node |-> picked[1], stage |-> picked[2],
                                     attempt |-> 1, at |-> "allocate",
                                     seen |-> NoDeps]]
  /\ total' = total + 1
  /\ loop' = "fill"
  /\ UNCHANGED <<tree, picked, firstError, halted, overCap, scheduler, outcome,
                 deaths, crashes>>

(* Mutant: join_next is awaited on an empty pool. *)
StopFilling_EmptyPool ==
  /\ loop = "fill"
  /\ NextReady(tree, st) = {} \/ \A i \in Slots : job[i].at # "free"
  /\ loop' = "wait"
  /\ UNCHANGED <<mainVars, picked, job, total, firstError, halted, overCap,
                 scheduler, outcome, deaths, crashes>>

(* The pool is full or nothing is ready, and something runs: join_next.    *)
StopFilling ==
  /\ loop = "fill"
  /\ \/ \A i \in Slots : job[i].at # "free"
     \/ NextReady(tree, st) = {}
  /\ ~PoolEmpty
  /\ loop' = "wait"
  /\ UNCHANGED <<mainVars, picked, job, total, firstError, halted, overCap,
                 scheduler, outcome, deaths, crashes>>

(* Nothing is ready, nothing runs, and all_done says the tree is built.    *)
Complete ==
  /\ loop = "fill"
  /\ NextReady(tree, st) = {}
  /\ PoolEmpty
  /\ AllDone(tree, st)
  /\ scheduler' = "Done"
  /\ loop' = "drain"
  /\ UNCHANGED <<mainVars, picked, job, total, firstError, halted, overCap,
                 outcome, deaths, crashes>>

(* Nothing is ready, nothing runs, and the tree is not built: stuck.       *)
Stuck ==
  /\ loop = "fill"
  /\ NextReady(tree, st) = {}
  /\ PoolEmpty
  /\ ~AllDone(tree, st)
  /\ scheduler' = "Stopped"
  /\ outcome' = "err"
  /\ loop' = "returned"
  /\ UNCHANGED <<mainVars, picked, job, total, firstError, halted, overCap,
                 deaths, crashes>>

JoinNext(i) ==
  /\ loop = "wait"
  /\ job[i].at \in {"ok", "err"}
  /\ firstError' = (firstError \/ job[i].at = "err")
  /\ job' = [job EXCEPT ![i] = FreeJob]
  /\ loop' = "check"
  /\ UNCHANGED <<mainVars, picked, total, halted, overCap, scheduler, outcome,
                 deaths, crashes>>

(* After the loop: results are joined, errors among them are dropped.      *)
Drain(i) ==
  /\ loop = "drain"
  /\ job[i].at \in {"ok", "err"}
  /\ job' = [job EXCEPT ![i] = FreeJob]
  /\ UNCHANGED <<mainVars, loopVars, overCap, deaths, crashes>>

(* Mutant: a budget halt is not reported, as it once was not. *)
Return_IgnoresHalt ==
  /\ loop = "drain"
  /\ PoolEmpty
  /\ outcome' = IF firstError THEN "err" ELSE "ok"
  /\ loop' = "returned"
  /\ UNCHANGED <<mainVars, picked, job, total, firstError, halted, overCap,
                 scheduler, deaths, crashes>>

Return ==
  /\ loop = "drain"
  /\ PoolEmpty
  /\ outcome' = IF firstError \/ halted THEN "err" ELSE "ok"
  /\ loop' = "returned"
  /\ UNCHANGED <<mainVars, picked, job, total, firstError, halted, overCap,
                 scheduler, deaths, crashes>>

-----------------------------------------------------------------------------
(* advance_stage, one job per spawned task.                                *)

(* Every role turn adds to estimated_cost_usd; with a cap configured, the  *)
(* turns of an attempt may take the estimate over it.                      *)
SpendSome == overCap' \in {overCap, overCap \/ CostCap}

(* A worktree of its own, branched from main's HEAD.                       *)
Allocate(i) ==
  /\ job[i].at = "allocate"
  /\ job' = [job EXCEPT ![i].at = "attempt",
                        ![i].seen = IF job[i].stage = "spec" THEN tree.deps
                                    ELSE NoDeps]
  /\ UNCHANGED <<mainVars, loopVars, overCap, deaths, crashes>>

(* run_attempt_in_worktree returns Ok: the branch has been landed on main. *)
Lands(i) ==
  /\ job[i].at = "attempt"
  /\ job' = [job EXCEPT ![i].at = "markDone", ![i].seen = NoDeps]
  /\ SpendSome
  /\ UNCHANGED <<st, loopVars, deaths, crashes>>

(* The architect brings the tree it submitted.                             *)
ArchitectLands(i) ==
  /\ Lands(i)
  /\ job[i].stage = "architect"
  /\ tree' \in {t \in Trees : Extends(t, tree)}

(* A spec brings the deps it submitted.  add_dep judged them against the   *)
(* edges in the worktree; the landing adds them to the edges on main.      *)
SpecLands(i) ==
  /\ Lands(i)
  /\ job[i].stage = "spec"
  /\ \E D \in SUBSET tree.nodes :
       /\ Cardinality(D) <= MaxLateDeps
       /\ Acceptable(job[i].seen, job[i].node, D)
       /\ tree' = [tree EXCEPT !.deps = AddEdges(tree.deps, job[i].node, D)]

(* Every other stage brings slot content only.                             *)
ContentLands(i) ==
  /\ Lands(i)
  /\ job[i].stage \notin {"architect", "spec"}
  /\ UNCHANGED tree

(* It returns Err: the worktree is gone and main unchanged; try again from *)
(* a fresh one, or give the stage up.                                      *)
AttemptFails(i) ==
  /\ job[i].at = "attempt"
  /\ IF job[i].attempt <= MaxRetries
     THEN job' = [job EXCEPT ![i].attempt = @ + 1, ![i].at = "allocate",
                             ![i].seen = NoDeps]
     ELSE job' = [job EXCEPT ![i].at = "markFailed", ![i].seen = NoDeps]
  /\ SpendSome
  /\ UNCHANGED <<mainVars, loopVars, deaths, crashes>>

MarkDone(i) ==
  /\ job[i].at = "markDone"
  /\ st' = [st EXCEPT ![job[i].node][job[i].stage] = "Done"]
  /\ job' = [job EXCEPT ![i].at = "ok"]
  /\ UNCHANGED <<tree, loopVars, overCap, deaths, crashes>>

(* A failed impl is left to the debug stage and not reported as an error.  *)
MarkFailed(i) ==
  /\ job[i].at = "markFailed"
  /\ st' = [st EXCEPT ![job[i].node][job[i].stage] = "Failed"]
  /\ job' = [job EXCEPT ![i].at = IF job[i].stage = "impl" THEN "ok" ELSE "err"]
  /\ UNCHANGED <<tree, loopVars, overCap, deaths, crashes>>

(* The task ends without marking its stage: no worktree could be           *)
(* allocated, main could not be written, or the task panicked.             *)
TaskDies(i) ==
  /\ deaths < MaxDeaths
  /\ job[i].at \in Running
  /\ job' = [job EXCEPT ![i].at = "err", ![i].seen = NoDeps]
  /\ deaths' = deaths + 1
  /\ UNCHANGED <<mainVars, loopVars, overCap, crashes>>

JobStep(i) ==
  \/ Allocate(i)
  \/ ArchitectLands(i) \/ SpecLands(i) \/ ContentLands(i)
  \/ AttemptFails(i)
  \/ MarkDone(i) \/ MarkFailed(i)

-----------------------------------------------------------------------------
(* The process dies, or is restarted after it returned.  What is on main   *)
(* stays; everything in memory, cost estimate and counters included, is    *)
(* built afresh.                                                           *)
(* Mutant: tasks of the old process are still at work after the restart. *)
Crash_TasksSurvive ==
  /\ crashes < MaxCrashes
  /\ crashes' = crashes + 1
  /\ loop' = "seed"
  /\ total' = 0
  /\ firstError' = FALSE
  /\ halted' = FALSE
  /\ overCap' = FALSE
  /\ scheduler' = "Running"
  /\ outcome' = "none"
  /\ UNCHANGED <<mainVars, picked, job, deaths>>

Crash ==
  /\ crashes < MaxCrashes
  /\ crashes' = crashes + 1
  /\ job' = [i \in Slots |-> FreeJob]
  /\ loop' = "seed"
  /\ total' = 0
  /\ firstError' = FALSE
  /\ halted' = FALSE
  /\ overCap' = FALSE
  /\ scheduler' = "Running"
  /\ outcome' = "none"
  /\ UNCHANGED <<mainVars, picked, deaths>>

SchedulerStep ==
  \/ SeedRoot \/ ResetStaleInProgress
  \/ Halt \/ EnterFill \/ PickNextReady \/ MarkAndSpawn \/ StopFilling
  \/ Complete \/ Stuck \/ Return
  \/ \E i \in Slots : JoinNext(i) \/ Drain(i)

Next ==
  \/ SchedulerStep
  \/ \E i \in Slots : JobStep(i) \/ TaskDies(i)
  \/ Crash

Spec == Init /\ [][Next]_vars

(* tokio keeps polling Engine::run and every spawned task, and every LLM   *)
(* and cargo call returns.  Nothing makes a task die or a process crash.   *)
Fairness ==
  /\ WF_vars(SchedulerStep)
  /\ \A i \in Slots : WF_vars(JobStep(i))

FairSpec == Spec /\ Fairness

-----------------------------------------------------------------------------
(* Properties.                                                             *)

TypeOK ==
  /\ tree = EmptyTree \/ WellFormedTree(tree)
  /\ st \in BoardType
  /\ loop \in LoopState
  /\ picked \in Node \X Stage
  /\ job \in [Slots -> Job]
  /\ total \in Nat
  /\ firstError \in BOOLEAN
  /\ halted \in BOOLEAN
  /\ overCap \in BOOLEAN
  /\ scheduler \in {"Running", "Stopped", "Done"}
  /\ outcome \in {"none", "ok", "err"}
  /\ deaths \in Nat
  /\ crashes \in Nat

(* Semantic-dependency order: no stage has started whose prerequisites     *)
(* (parent's spec, deps' interfaces, deps' and children's implementations) *)
(* are not Done on main, whatever tasks did since it was picked and        *)
(* however often the process was restarted in between.                     *)
DependencyOrder == Ordered(tree, st)

(* The unlocked read of pick_next_ready is safe: when set_stage_on_main    *)
(* finally gets the lock, the picked stage is still ready.                 *)
PickStillReady ==
  loop = "mark" => StageIsReady(tree, st, picked[1], picked[2])

(* Two tasks never work on the same node, let alone on the same stage.     *)
OneTaskPerNode ==
  \A i, j \in Slots :
    /\ i # j
    /\ job[i].at \in Running
    /\ job[j].at \in Running
    => job[i].node # job[j].node

(* The stage a task works on is InProgress on main, and stays so until the *)
(* task itself marks it: nobody else takes it or reopens it.               *)
RunningIsInProgress ==
  \A i \in Slots :
    job[i].at \in Running => st[job[i].node][job[i].stage] = "InProgress"

(* Engine::run says Ok only when the whole tree is built and no task is    *)
(* left running; a budget halt or a failed task is never reported as Ok.   *)
OkMeansBuilt ==
  outcome = "ok" => /\ AllDone(tree, st)
                    /\ PoolEmpty
                    /\ ~halted
                    /\ scheduler = "Done"

(* The overshoot of max_tasks_total: the cap is read once per turn of the  *)
(* loop, so a turn that starts below it may still fill the whole pool.     *)
TaskCapOvershoot == total <= MaxTasksTotal + Cardinality(Slots) - 1

(* Once finished, a stage is never reopened, in this process or the next.  *)
FinishedIsFinal ==
  [][\A n \in Node, s \in Stage :
       st[n][s] \in {"Done", "Failed"} => st'[n][s] = st[n][s]]_vars

(* Engine::run always comes back: every pool empties, and the loop ends by *)
(* completing, halting or reporting that it is stuck.                      *)
AlwaysReturns == []<>(loop = "returned")

SomeFailed == \E n \in Node, s \in Stage : st[n][s] = "Failed"
SomeOrphan == \E n \in Node, s \in Stage : st[n][s] = "InProgress"

(* The dep edges on main stay acyclic: topo_order relies on add_dep for it *)
(* ("returns None only if the graph already has a cycle, which our add_dep *)
(* prevents"), and without an order pick_next_ready finds nothing to do.   *)
DepsAcyclic == Acyclic(tree.deps)

Excused == halted \/ SomeFailed \/ SomeOrphan

(* If no stage gave up, no budget ran out and no task died, the pipeline   *)
(* ends with the whole tree built, unless the implementations wait for     *)
(* each other in a circle: nothing else can get the scheduler stuck.       *)
BuildsUnlessBlocked ==
  loop = "returned" => outcome = "ok" \/ Excused \/ ~Acyclic(WaitsFor(tree))

(* The inductive invariant behind the safety properties: besides them, the *)
(* nodes outside the tree have not moved, the root is in place before      *)
(* anything is scheduled, and no task outlives a restart.                  *)
Seeded == tree = EmptyTree => loop = "seed"

Rested == loop \in {"seed", "stale"} => PoolEmpty

Inv ==
  /\ TypeOK
  /\ Untouched(tree, st)
  /\ DependencyOrder
  /\ PickStillReady
  /\ RunningIsInProgress
  /\ OneTaskPerNode
  /\ Seeded
  /\ Rested

B == INSTANCE Board

(* The pipeline implements the abstract board.                             *)
ImplementsBoard == B!Spec
=============================================================================
