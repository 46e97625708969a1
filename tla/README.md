# bureau: specifications, model checks and proofs

bureau builds a Rust project with language models. An architect lays out a tree
of nodes, and each node then passes through six stages (architect, spec, iface,
tests, impl, debug). Each stage is one task: a git worktree, a conversation of
several roles that write through tools, a cargo gate, and a landing on `main`.
The state of the project is what is in git: the graph under `.bureau/` and the
files rendered from it.

This directory holds TLA+ modules translated from `src/src/*.rs`, the
configurations TLC checks them with, and proofs that TLAPS checks.
`PROJECT.json` has, for every definition, the source lines it stands for, and for
every hazard the line where it bites and the properties that watch it.

## 1. The system

| component | code | state | operations | what makes it correct | modelled |
|---|---|---|---|---|---|
| Scheduler | engine.rs `Engine::run`, `pick_next_ready`, `stage_is_ready`, `advance_stage`, `all_done` | slot pool (a JoinSet), counters, halt and error flags; the stage board on main | fill, mark, spawn, join, drain, retry, halt, return | stages start in dependency order, one task per node, the run returns, and says Ok only of a built tree | Pipeline, Board (partly) |
| Dependency graph | graph.rs | the table of nodes: parents, crate boundaries, deps, stages | insert_root, add_child, add_dep, searches, topo_order, load, save | a rooted tree, no cycle among nodes or crates | NodeGraph, GraphAlgorithms (partly) |
| Submissions | tools.rs `submit_architecture`, `submit_spec` | the graph in the task's worktree | add nodes and deps, refuse, save | all or nothing | NodeGraph, ToolCalls, Pipeline (partly) |
| Worktrees, landing | worktree.rs, engine.rs `attempt_inner`, `gate_with_quickfix`, `set_stage_on_main` | refs/heads/main, the files of the main workdir, a branch per task, `main_lock`, `cargo_lock` | allocate, commit, rebase, fast-forward, checkout, abandon, commit_main | what lands is what was gated; nobody's work is lost; locks come back | Landing, MainLine |
| Restart | engine.rs `reset_stale_inprogress`, graph.rs `reset_stage_and_cascade` | marks of a dead process | sweep, render, commit | interrupted stages start over, finished ones stay | Pipeline, Landing |
| Attempt cycle | engine.rs `attempt_inner`, `gate_with_quickfix` | role, round, verdict, status, quickfix budget | write, criticise, revise, judge, quickfix | every attempt ends after a bounded number of turns | Attempt |
| Rate limits | engine.rs `drive_with_transient_retry` | the shared deadline, scheduler state | wait, set, clear, resume | Paused is explained and ends | Attempt |
| Tools | tools.rs | slots in the worktree, recent calls, critique, verdict | 20 tools, forced retries | a role writes only what its stage owns, and only what a submission would accept | ToolCalls, Slots |
| Submission checks | node_validate.rs, rust_summary.rs, paths.rs | – | which items a slot takes, lookup by name | – | Slots (partly) |
| Renderer | render.rs, placeholders.rs | files of the workspace | render, single crate or workspace | every node is compiled once, imports reach their target | Rendering (partly) |
| Prompt context | node_context.rs, prompts.rs | – | sections, listed files, advised imports | what is listed can be read; siblings share a prefix | Rendering (partly) |
| Operator | web/mod.rs | – | pause, resume, reset node, state and graph requests | a reset and a running task do not undo each other | Landing, Feed (partly) |
| Shared state, events | state.rs, event_log.rs | tasks, transcripts, a broadcast channel | record, cap, publish | bounded memory, no end of a transcript lost | Feed (partly) |
| Web pages | web/ui.rs | the page's copy of the state | load, apply events, refresh graph, resync | the page catches up | Feed (partly) |
| Gate | gate.rs | a failure log in the worktree | run cargo | – | its outcome, in Landing and Attempt |
| Prices, configuration | pricing.rs, config.rs, main.rs | – | – | – | limits as constants, the cost test as a free choice |
| Spec summaries, LLM client, lookups | spec_summary.rs, llm.rs, mock_driver.rs, crates_io.rs, docs_rs.rs | a cache | I/O | – | no (section 6) |

**Interaction.** `Engine::run` reads the board from the files of the main workdir
without a lock, marks a stage under `main_lock`, and spawns `advance_stage`. The
task allocates a worktree from main's HEAD, runs its roles there (their tools
change only that worktree), gates it, takes `main_lock`, rebases, gates again
(quickfix turns included, lock held), fast-forwards main, drops the lock, and marks
its stage Done under the lock a second time. All calls to the provider share one
deadline. The web server reads the same files and state and, for `reset_node`,
writes main under the same lock. Everything else reaches main through git.

**Hard behaviour.** Decisions taken on unlocked reads (the pick), checks made
against a worktree's copy and relied on after the landing (deps), a commit that
exists twice (ref and files) and is updated in two steps, two locks of which one is
held over LLM calls, a deadline read and cleared in two critical sections, five ways
to write one slot, events that are sent after the write they speak of, restarts at any point.

## 2. Modules

    DepGraph ── Stages ── Board (abstract)
        │          └───── Pipeline ── MCPipeline          Pipeline => Board
        │                    └─────── PipelineProofs
        ├── DepGraphProofs
        └── NodeGraph ── MCNodeGraph
                └─────── GraphAlgorithms ── Rendering ── MCRendering
                                │              └──── RenderingProofs
                                └────────── NodeGraphProofs
    MainLine (abstract)
    Landing ── MCLanding                                  Landing => MainLine
        └───── LandingProofs
    Attempt ── MCAttempt, AttemptProofs
    Slots ── ToolCalls ── MCToolCalls, ToolCallsProofs
    Feed ── MCFeed, FeedProofs

Each module opens one step of another: an attempt is one step of `Pipeline`; its
git side is `Landing`, its turns are `Attempt`, and one turn is a session of
`ToolCalls`. They meet in what each assumes of the next: `Landing` and `Attempt`
take for granted that tasks in flight are on different nodes (`OneTaskPerNode`),
`Landing` that a writer touches only its own slot (`WritesStayInStage`),
`Pipeline` that a landing either happens or leaves main as it was
(`ImplementsMainLine`), `Rendering` that the graph is a tree (`NodesAcyclic`).

### DepGraph, Stages, Board, Pipeline: the scheduler

`DepGraph` defines reachability, acyclicity and `add_dep`'s test through closed
sets, without recursion, so that proofs can use them (the loops of graph.rs,
in `GraphAlgorithms`, are proved to compute the same). `Stages` holds the tree, the board and the
readiness rules as operators: `Prerequisite` is `stage_is_ready` arm by arm,
`NextReady` is `pick_next_ready`, `ResetStale` the restart's cascade.

`Pipeline` is `Engine::run` and its tasks:

| variable | in the code |
|---|---|
| `tree`, `st` | topology and stage states in the files of main |
| `loop`, `picked` | where `run` is; the pick between its unlocked read and its mark |
| `job` | the JoinSet: node, stage, attempt, place in `advance_stage`, and for a spec the deps its worktree saw |
| `total`, `firstError`, `halted`, `overCap`, `scheduler`, `outcome` | `total_tasks`, `first_error`, `halt_reason`, the cost test, the state the UI shows, the result |

There is one action per step of the loop (`SeedRoot`, `ResetStaleInProgress`, `Halt`,
`EnterFill`, `PickNextReady`, `MarkAndSpawn`, `StopFilling`, `Complete`, `Stuck`,
`JoinNext`, `Drain`, `Return`) and of a task (`Allocate`, `ArchitectLands`,
`SpecLands`, `ContentLands`, `AttemptFails`, `MarkDone`, `MarkFailed`), plus
`TaskDies` (an allocation error or panic: the mark stays InProgress) and `Crash`.
`pick_next_ready` breaks ties by topological order over the architect's listing,
which the model leaves free. A spec's deps are judged against `job.seen`, the deps
of its worktree, and added to those of main, as the merge of two node files does.

`Board` is what the engine promises: ready stages start, open stages finish, a
restart reopens what was interrupted, the tree changes only while the architect or
a spec is open.

### NodeGraph, GraphAlgorithms: the graph and the calls that build it

`NodeGraph` keeps the table in insertion order (`g`), the graph as last saved
(`saved`) and a `submit_architecture` call in progress (`call`): `BeginCall`,
`AddChild` with the name rules of the call and of `add_child`, `NodesAdded`,
`AddDep` with both cycle tests, `FailCall`, `EndCall`, which saves. `SpecDeps` is
`submit_spec`, which finds its deps by name and saves all or none. `crate[n]`, what
`containing_crate` walks up to, is fixed when a node is added.

`GraphAlgorithms` runs the loops of graph.rs beside those calls, one iteration per
step: `DepReaches`, `CrateReaches` (with the hypothetical edge), `TransitiveDeps`,
`ReverseDepClosure`, `ContainingCrate`, and Kahn's algorithm in `TopoScan`, `TopoPop`
and `TopoReturn`. `loop` is the lookup and its arguments, `visited` and `todo` its
locals, `topo` those of `topo_order`. Stacks are sets, popped in any order, which the
answers must not depend on; queue and order of `topo_order` are one sequence, `line`,
of which the first `popped` are the order. A lookup borrows the graph, so the calls
wait until it has answered. `Merged` brings in deps that were accepted in another
worktree: nothing tests them, and graphs with cycles come about.

### MainLine, Landing: how work reaches main

`Landing` has main twice: `head`, the tree at refs/heads/main, and `work`, the
files. Each holds a slot and a mark for every task, and the tracked gate log. `pc`
and `wt` hold where a task is and its worktree: the commit it stands on, its files,
the slots cargo last accepted, attempt and quickfix counters. `mainLock` and `cargo`
are the two mutexes. A checkout is one step per file (`CheckoutFile`), a mark is
saved (`SaveMark`) and then committed (`CommitMark`), the sweep of a restart is
three steps (`SaveReset`, `RenderReset`, `CommitReset`), and so is the operator's
`api_reset_node` (`SaveOperatorReset`, `RenderOperatorReset`, `CommitOperatorReset`),
which runs beside the tasks: a crash can fall between any two, a reset before or
after any step that leaves the lock free. The rebase is a three-way merge file by
file that can conflict. `CommitMarkFails`, `CheckoutFails` and `OperatorResetFails`
are the git errors the code goes on after. Tasks are one (node, stage) each, on
different nodes; tasks that rewrite a slot of an earlier stage (impl and debug) are
`Rewriters`.

`MainLine` is the promise: a task's slot changes only while its stage is open, the
stage is closed once, tasks never touch each other's slot or mark.

### Attempt: roles, verdicts and the provider's limits

One record of places per attempt: `step` is where `attempt_inner` and the call it
awaits stand, `role` whose turn it is, `round`, `verdict`, `authored`, `quickfix`
what the cycle keeps, `forced`, `transient`, `paused`, `nap` the locals of
`drive_with_transient_retry` and of the forced retries around it. `deadline`,
`scheduler` and `mainLock` are shared. `Ask` reads the deadline, `ClearDeadline`
clears it in a second critical section, `RateLimited` sets it, `Tick` is the clock.
The other actions are the branches of the cycle (`CriticClean`, `CriticObjects`,
`ReviserDone`, `JudgeDone`, `FailTask`, `Accept`), of the two gates (`GatePasses`,
`GateFails`, `GateGivesUp`, `QuickfixerDone`) and of the landing, and `CommandFails`
and `CallFails` the errors that leave through `?`.

### Slots, ToolCalls: what a role can do to its worktree

`Slots` has the validators, the item lookup and the ownership tables; a text is a
set of items, an item its form and the names it answers to. `ToolCalls` is one
session: `slots` of the node and of a neighbour, `streak` (the loop detector), the
failed mutating calls that force a retry, critique and verdict. Every tool that can
be attached is an action with its checks in the code's order, `ApplyPatch` a
sequence of steps because it saves after each file. The three tables (what
is attached, what the prompt says will work, what is accepted) are
`ToolNamesFor`, `ToolsAcceptedAt` and the actions' guards.

### Feed: the page and the engine

`server` is the shared state and the graph on disk, `unsent` what a writer has
written and not yet emitted (the lock is dropped in between), `wire` the broadcast
channel, which drops its oldest event when full. `page`, `loading`, `answer`,
`graphAsked` and `graphs` are the script of ui.rs: `Load`, `ApplyState`,
`ApplyEvent`, `AskResync`, `ApplyGraph`, `Break`, `Reconnect`. `transcript` is cut
by `CapTranscript`, as state.rs does.

### Rendering: where a graph's nodes end up

Operators over a saved graph: `NodeSrcDir`, `SlotPath`, `ResolvePathToSlot`,
`RenderedFiles`, the module declarations (`ModLines`) and manifests in both layouts,
`ImportPath`, `IsReadable`, `ListedFiles` and `BuildForStage`, the sections of each
stage's prompt. `Chains` is the walk up the tree as a recursive function, and what
lies above or below a node are parts of its chain. `Denotes` reads a use path as rustc
does: from the module it starts in along `pub mod` lines of these names (`Leads`). The
properties relate what separate walks of the tree compute.

## 3. Runs

| run | shows | properties |
|---|---|---|
| `order` | all trees over three nodes, two slots, a late dep per spec, any stage may fail | DependencyOrder, PickStillReady, OneTaskPerNode, BuildsUnlessBlocked |
| `restart` | root and child, two slots, a retry, a dead task, both caps, a crash or restart at any step | Inv, OkMeansBuilt, TaskCapOvershoot, FinishedIsFinal, ImplementsBoard, AlwaysReturns |
| `architectures` | all trees over four nodes, all crate boundaries, two calls, a submit_spec | NodesAcyclic, CratesAcyclic, AllOrNothing |
| `land` | two tasks, two contents, a quickfix turn before and after the rebase, an operator's reset at any moment | TypeOK, ForwardDescends, FilesAreHead, MainMovesAsGated |
| `landing_crash` | a spec and an impl, retry, quickfix, a crash at any step | SpecIsAuthored, StartsFresh, DoneIsLanded, ImplementsMainLine, EveryStageSettles |
| `landing_faults` | a commit, a checkout and a reset of main that fail half-way: no lock stays behind | TasksEnd |
| `attempts` | a spec and a stage with quickfixes, critique, forced and transient retries, two rate limits | PausedMeansWaiting, TurnBudget, EveryAttemptEnds |
| `tools` | sessions of six stages and roles, any sequence of calls | ValidSlots, EligibleToolsWork, WritesStayInStage, RefusedChangesNothing |
| `feed` | two writers, a channel of one, blank reads, a broken connection, cut transcripts | TranscriptKeepsEnds, GraphNeverBlank, PageCatchesUp |
| `layout` | every graph of one call and one submit_spec over four nodes, every dep graph on three: what the lookups answer; both layouts | TopoOrderSound, LookupsAgree, PathsResolve, CompiledOnce, ImportsReach, ListedAreReadable, SiblingsSharePrefix |
| `parallel_specs` | violated: two specs in parallel land a dep cycle that neither worktree saw | DepsAcyclic |
| `reset_in_flight` | violated: a reset between a landing and its Done mark | DoneIsLanded |

**Bounds.** *Pipeline*: three nodes hold every relation `stage_is_ready` speaks of
(parent, child, sibling, dep in either direction, chain, fork); `MCPipeline`
enumerates all trees over them that the constructors can build. Two slots give every
race between tasks. One retry (`MaxRetries`), one dead task (`MaxDeaths`), one crash
(`MaxCrashes`) each exercise the path and its combination with the others.
`MaxTasksTotal` is 8 in `restart`: a two-node tree reaches it near the end of a
run, and the restarted process goes on to build the tree. `MaxLateDeps` bounds the
deps of one spec.

*Landing*: two tasks give each race and each conflict; two contents let a quickfix
differ from what it fixes. `land` has one attempt and a reset, `landing_crash` two
attempts and a crash. The proofs lift all of these.

*NodeGraph, Rendering*: four ids hold a chain of three below the root and two
crates with two nodes each; `MaxCalls` 2 the reuse of a name; `MaxDeps` 2 with one
submit_spec (`MaxLinks`) cycles of length three and cycles among crates without one
among nodes. `MaxMerged` 3 lets untested deps in as long as the table has three
nodes, enough for each dep graph with a cycle of two or three. `Canonical` and `InOrderOfEntry` make TLC take interchangeable ids and
names in order; they are symmetry reductions.

*Attempt*: `CritiqueRetries`, `MaxQuickfix`, `ToolRetryBudget`, `MaxTransient` are 1,
so that each loop is taken, repeated and exhausted; `Backoff` 2 and `Probe` 1 make a
call sleep more than once on one deadline; `MaxLimited` 2 lets a second limit arrive
while the first is waited for. The theorems hold for all of them.

*ToolCalls*: six pairs of stage and role cover each ownership row, a role
without writes and both gate commands; `MaxCalls` 2 a drive and one forced retry give
sequences of four calls; `LoopThreshold` is 2 where the code has 3, so that a loop
fits. Three texts tell apart what each slot takes: one for public.rs, one that only
tests.rs takes, a pair for private.rs that answers to one name. `MCInit` varies only
the slots the stage owns.

*Feed*: a channel of one slot drops as soon as two events wait; `HeadMin` 2 and `Cap`
4 stand for 50 and the configured cap with a cut after five entries; seven entries
cut twice. The constraint `Apart` explores transcripts and the page one at a time, since they share nothing.

**Mutants.** Each property of a passing run has a mutant of a modelled
definition (`..._<what is wrong>`, beside its original) that TLC shows to break it.

**Fairness.** *Pipeline*: the loop of `run` and each task are weakly fair; tokio
polls both, and every call they await (LLM with its timeout, cargo, git) returns.
*Landing*: weak fairness of each task's steps, of the restarted process's startup
(`Recover`) and of a reset that was begun (`ServeReset`). tokio's mutexes are FIFO;
a lock is held for finitely many steps and asked for boundedly often, so weak
fairness suffices. *Attempt*: the clock (`Tick`) and each task; the provider may
limit `MaxLimited` times, since one that limits for ever keeps every call waiting.
*Feed*: the page's requests are answered and applied, the interval timer fires, a
broken EventSource reconnects, whoever has written emits. Faults, deaths, crashes,
resets, breaks, writes and events that arrive in time are never owed.

## 4. Proofs

Proved for every value of the constants that satisfies the modules' named
assumptions (well-formed acyclic trees, limits that are naturals, a pool that is not
empty, the kinds of tasks disjoint).

*PipelineProofs.* `InvHolds` proves the inductive invariant `Inv`. `DependencyOrder`
alone is not inductive: a pick must still be ready when it is marked
(`PickStillReady`), which needs that between the pick and the mark tasks only move
their own open stages forwards (`RunningIsInProgress`, `OneTaskPerNode`), that nothing
outside the tree has moved (`Untouched`), that the root is there before anything is
picked (`Seeded`) and that no task outlives a restart (`Rested`). From it
`StagesInOrder`, `PicksStayReady`, `TasksAreExclusive`, `FinishedStaysFinished` (it
rests on `ResetStale` never meeting a finished stage behind an open one, which is
`DependencyOrder`) and `PipelineImplementsBoard`, the refinement. `OkIsBuilt`
(`ReportInv`: past the loop either a halt is on record or the tree was seen built
with an empty pool, after which nothing can move) and `OvershootIsBounded` (`CapInv`:
while the pool is filled, every task above the cap is still in it; for a finite
pool). `BlockedForAReason`: in a finite tree whose
implementations do not wait for each other in a circle, a run that ends without a
failure, a halt or a dead task has built everything. The induction over the tree is
done with sets (`IdleMeansBuilt`): of the nodes that lack a stage, acyclicity gives one
whose parent (spec), deps (iface) or deps and children (impl) all have it
(`AcyclicBackwards`), and that one would have been picked. `BlameInv` says that a run
that was stuck or saw an error has left what is to blame on main. `SerialDepsStayAcyclic`: with one slot, the deps on main stay acyclic.

*DepGraphProofs, NodeGraphProofs.* `AcceptedEdgesKeepAcyclic`: edges that pass
`add_dep`'s test keep a graph of any size acyclic. `GraphInv` and from it
`GraphTypeOK`, `NodesStayAcyclic`, `CratesStayAcyclic`, `CallsAreAllOrNothing`,
`SiblingNamesDiffer`; the crate graph is derived from the node graph, so the proof
shows how each `add_child` and `add_dep` changes it. The lookups are proved on what
the calls and merges leave, cyclic graphs included, whatever the order of the pops:
- `LookupsAnswerRightly`: a search has visited only what its start reaches, and what
  it has visited and not yet to visit is closed under deps (`Search`, `BackSearch` in
  DepGraphProofs); when the stack is empty both say the same set. `crate_reaches` is
  the same search on the crate graph, and its hypothetical edge leaves the crate that
  is looked for, so it adds nothing before the search ends.
- `TopoOrderIsSound`: `TopoInv` says that an in-degree counts the deps that the scan
  has not yet taken off (`DegreesOK`), that a node is queued exactly when its in-degree
  is 0 (`QueuedWhenReady`) and behind its deps (`DepsFirst`). When the queue runs dry,
  either every node is in it, and a list with deps first has no cycle
  (`ListedIsAcyclic`), or the others all wait for one another (`TopoAtEnd`).

*RenderingProofs.* For trees of any size and depth and crates anywhere in them:
`NodesCompileOnce`, `PromptsSharePrefix`, and where no two crates of the graph have
one name (`CrateNamesDiffer`), `SlotPathsResolve`, `AdvisedImportsReach` and
`ListedFilesReadable`. The condition is what `crates/<name>` and the manifests presume.
`add_child` keeps names apart among siblings and submit_architecture within a call, so
it holds after one call (`OneCallRendersRightly`), and a second call can break it: with
`MaxCalls` 2 and names free, TLC finds two crates in one directory (section 5).
Induction over the tree is a fact about sets of nodes, `Tree`: what the root has, and a
child whenever its parent does, all nodes have. Every step of the calls preserves it
(`TreesHold`), and with it that the recursive function `Chains` exists, which a new leaf
extends by one value (`NewNodeKeepsTree`). From both follow what a chain is
(`ChainFacts`), that equal name paths are one node (`PathsDiffer`, from
`SiblingsDiffer`), where a node's crate stands on its chain (`CrateFacts`), and that
lines followed from one module by the same names end in one place (`LeadsToOne`).

*LandingProofs.* `Inv` joins the types, the count of failed gates an attempt may
still have (it bounds the log stamps), *Critical(t) <=> mainLock = t* (who is past
its rebase, or between a mark and its commit, holds the lock), and that a branch
rebased under the lock stands on `head`. From it, whatever fails, crashes or is
reset: `TypeCorrect`, `RebasedStaysOnMain`, `LandingsExclude`. Where git calls succeed
(`GitWorks`): `FilesStayHead` (`FilesInv`: outside the steps that change them, files
and commit agree once something has run), and without crashes `MainMovesToGated`
(`MarksOnly`: the commit of a mark carries no slot). After a crash, the first
commit of the next process may carry more. Still under `GitWorks`, and without an
operator's reset (section 5 shows why both), for any number of crashes:
`LandingImplementsMainLine`, `DoneStaysLanded`, `SpecsAreAuthored`, and for at most one
crash `FirstWritersStartFresh`. The invariant `LineInv` says that a branch differs from where it
stands only in its own slot and the log (so that the three-way merge takes all
else from main), that a checkout has nothing left to bring but that slot, that a
flying task's stage is open, and that what has landed is what was gated.

*AttemptProofs.* `TypeCorrect`; `PausedIsExplained`, by an invariant that an
attempt whose call was held up is still at that call or over (`PausedIsOut`); `TurnsAreBounded`, by the number of turns
each place of the cycle and of the two gates may have seen (`CycleTurns`,
`GateTurns`); `LockIsFreed`, by which steps hold `main_lock` (`Held`).

*ToolCallsProofs.* `SlotsStayValid`, `WritesStay`, `RefusalsChangeNothing` for all
stages, roles, texts and sequences of calls. Every write is shown to pass the
slot's validator and line limit (`WritesWell`, `GoodStep`); the invariant also says
what an apply_patch in progress may still do (`PatchOpen`). The fold over the items of one
write_item is opaque to the proof: only its final check is used. `PromptedToolsWork`:
what a prompt says will work is attached and can pass its checks, for each stage and
role, by cases over the tables.

*FeedProofs.* `TypeCorrect` and `TreeNeverBlank`, by what events, answers and the
page's copy can be (`EventsOK`, `AnswersOK`, `ClientOK`) and that no blank graph is
on its way to a page as an answer of its own (`GraphsForPage`). `TranscriptsKeepEnds`, for
transcripts of any length and any cap and head: a transcript is either whole or
its first entries, one marker, and its last (`Whole`, `Cut`), and a second cut of a
cut transcript takes the old marker with it (`SplicedIsCut`). A `Cap` of 0 is no limit, as
in state.rs.

**Only model-checked.** Liveness (`AlwaysReturns`, `EveryStageSettles`, `TasksEnd`,
`EveryAttemptEnds`, `PageCatchesUp`): it needs fairness and ENABLED, which this prover
does not handle. Every other property of a passing run is a theorem, some under the
conditions named above.

## 5. Disagreements met

Two runs end in a violation of what the repository states; `PROJECT.json` quotes it.

- `parallel_specs`: add_dep judges a dep against the worktree of its spec; two specs
  in parallel land a cycle, `topo_order` returns None and the run is stuck.
- `reset_in_flight`: reset_node takes `main_lock`, but a landing and its Done mark are
  two critical sections: the stage ends Done over a placeholder. A reset in flight also
  lets the scheduler start the (node, stage) a second time.

Further observations, each met while translating the line it names.

*Scheduling.* `add_dep` accepts a child that depends on its ancestor, and impl then
waits both ways (graph.rs:413). A debug stage that succeeds leaves impl Failed and
the run stuck (engine.rs:494). `max_tasks_total` is exceeded by up to the pool less one;
`max_nodes` and `max_node_depth` ("hard caps", config.rs:168-176) are enforced nowhere.
The operator's Stop and Pause set a state that `Engine::run` never reads.
topo_order keeps insertion order among nodes without deps; of nodes that become ready
later, the one whose last dep was popped first comes first, whatever the order they
were added in (graph.rs:599). transitive_deps of a node on a cycle includes the node
(graph.rs:664). Nothing calls reverse_dep_closure, which its comment gives to the
cascade of a reset (graph.rs:541).

*Landing.* A commit of a mark that fails is ignored and the next checkout takes the
mark back (engine.rs:368). A checkout that fails after the ref moved makes the retry
find nothing to land, and its Done mark then commits the stale files (worktree.rs:236).
A second crash inside the sweep, after its marks are saved, leaves a landed slot in
place (engine.rs:306). Every failing gate writes one tracked log file, on which rebases
of unrelated tasks conflict (gate.rs:165). A reset clears the marks of impl and debug
without their slot, and private.md outlives every reset (graph.rs:183).

*Attempts.* A deadline that is set between another call's read and its clearing is
lost, and calls go out before it (engine.rs:63-67 says every in-flight call sleeps).
Paused stays if the paused call then fails. After a second critic that finds nothing,
the first judge's verdict still counts (engine.rs:708). Errors of a gate, rebase or
call leave the status Running (engine.rs:735). config.rs and iface_critic.md:3 put
the quickfixer before the critic; it runs after the cycle. impl_critic.md:7 and
tests_critic.md:9 say the judge rejects an empty critique; a clean one skips the judge.

*Tools.* `call()` checks the stage and never the role (tools.rs:3259-3262 says both).
An edit of tests.rs is validated as private.rs (tools.rs:2681-2684 says as its
submission). "These were NOT applied" (engine.rs, near 1500) is said also of a partly
applied patch. Only the last result per tool counts for a forced retry. Node names
`public`, `private`, `tests` and keywords pass `is_valid_ident` (tools.rs:1173-1182).
`files_owned_by_stage` is not used.

*Rendering.* A node file is named after the node alone, so names reused in another
subtree share a file (graph.rs:942); a crate's directory is, too, and two crates of one
name from two calls would be rendered over each other (render.rs:126). The model keeps
both nodes. The advised `use` path ignores the layout and is
wrong in a single crate for a dep in another crate (node_context.rs:93 against
node_validate.rs:295). Prompts say that only listed files can be read; slots of
ancestors can be too.

*State and page.* Caps below 50 are not applied to transcripts, and the marker counts
only the last cut, the old marker among it (state.rs:163). `Engine::note` appends to
the history without its cap. The page loses log lines on a lag until the task is
selected again; comments give 8 s and "every few seconds" where the resync asks every
30 s. `load()` compares with the tree shown before its await (ui.rs:377):
`GraphNeverBlank` names the one case that this leaves open.

## 6. What is left out

- An error of `set_stage_on_main` inside `run` ends the run at once; only a failing
  commit is modelled. `ensure_root_seeded` and the sweep write main without the lock
  while the web server is already up; the model's operator starts after them.
- What cargo and the models answer is a free choice. Parsing of cargo's messages, the wording
  of prompts, specs, code and errors, prices (floating point), TOML and JSON are not modelled.
- spec_summary.rs is a cache of a model's answers. Its comment promises one call per
  spec version; two tasks that miss at once make two calls. Nothing else depends on it.
- llm.rs and mock_driver.rs (network), crates_io.rs and docs_rs.rs (read-only
  requests), event_log.rs's file, and the page's drawing and its transcript view.
- Use paths in node_validate.rs are told apart only as declared or undeclared; the
  summaries of rust_summary.rs shown to models are a rewriting of text.
