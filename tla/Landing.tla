------------------------------- MODULE Landing -------------------------------
(***************************************************************************)
(* How a task's work reaches main: worktree.rs and the landing half of     *)
(* engine.rs (attempt_inner, gate_with_quickfix, set_stage_on_main,        *)
(* advance_stage, reset_stale_inprogress).                                 *)
(*                                                                         *)
(* Main exists twice: as the commit at refs/heads/main, from which         *)
(* worktrees are allocated and onto which branches are rebased, and as the *)
(* files in the main workdir, from which every reader loads the graph and  *)
(* which commit_main stages.  A tree of either kind carries the slot and   *)
(* the stage mark of every task, and the one file that all tasks write:    *)
(* .bureau/last-gate-failure.log.  A task is one (node, stage); tasks in   *)
(* flight are on different nodes (Pipeline's OneTaskPerNode), so their     *)
(* slots and node files are different files.                               *)
(***************************************************************************)
EXTENDS Naturals

CONSTANTS
  Task,           \* the tasks that share main
  NoTask,         \* holder of a free lock
  Operator,       \* holder of main_lock while a reset is served
  SpecTasks,      \* tasks of the spec stage
  Rewriters,      \* tasks of impl and debug: they rewrite iface's private.rs
  Content,        \* what a writer may author, besides the placeholder 0
  MaxAttempts,    \* limits.max_stage_retries + 1
  MaxQuickfix,    \* limits.max_quickfix_iters
  CommitFaults,   \* bound: commit_main calls that fail
  CheckoutFaults, \* bound: checkouts of main that fail
  Crashes,        \* bound: crashes of the process
  Resets          \* bound: resets asked for by the operator

ASSUME LandingAssumption ==
  /\ NoTask \notin Task /\ Operator \notin Task \cup {NoTask}
  /\ SpecTasks \subseteq Task
  /\ Rewriters \subseteq Task \ SpecTasks
  /\ Content \subseteq Nat \ {0}
  /\ MaxAttempts \in Nat \ {0}
  /\ MaxQuickfix \in Nat
  /\ CommitFaults \in Nat
  /\ CheckoutFaults \in Nat
  /\ Crashes \in Nat /\ Resets \in Nat

VARIABLES
  head,     \* the tree at refs/heads/main
  work,     \* the files of the main workdir
  mainLock, \* WorktreePool::main_lock
  cargo,    \* Engine::cargo_lock
  pc,       \* where each task is
  wt,       \* each task's worktree, kept as a record when it is gone
  phase,    \* "up", or where the startup of the next process is
  stale,    \* the stages reset_stale_inprogress found InProgress
  reset,    \* where the handler of a reset is, and the stages it resets
  faults    \* how many of each fault, and how many resets, have happened

vars == <<head, work, mainLock, cargo, pc, wt, phase, stale, reset, faults>>

Placeholder == 0
NoLog == <<>>

Stamp == Task \X (1 .. MaxAttempts) \X (0 .. 2 * MaxQuickfix + 1)

Mark == {"NotStarted", "InProgress", "Done", "Failed"}

TreeType == [slot : [Task -> Content \cup {Placeholder}],
             mark : [Task -> Mark],
             log  : Stamp \cup {NoLog}]

EmptyTree == [slot |-> [t \in Task |-> Placeholder],
              mark |-> [t \in Task |-> "NotStarted"],
              log  |-> NoLog]

(* base: the commit of main the branch stands on; tree: its files; gated:  *)
(* the slots cargo last accepted; fixes: gate runs failed in this attempt; *)
(* budget: quickfix iterations left; rebased: past the rebase.             *)
Worktree == [base : TreeType, tree : TreeType,
             gated : [Task -> Content \cup {Placeholder}],
             attempt : 1 .. MaxAttempts, fixes : Nat, budget : Nat,
             rebased : BOOLEAN]

NoWorktree == [base |-> EmptyTree, tree |-> EmptyTree,
               gated |-> EmptyTree.slot, attempt |-> 1,
               fixes |-> 0, budget |-> 0, rebased |-> FALSE]

NoReset == [step |-> "none", of |-> {}]

Place == {"idle", "started", "allocate", "write", "gate", "cargo", "quickfix",
          "rebase", "forward", "checkout", "landed", "close", "failed",
          "giveUp", "closed", "ended"}

Init ==
  /\ head = EmptyTree
  /\ work = EmptyTree
  /\ mainLock = NoTask
  /\ cargo = NoTask
  /\ pc = [t \in Task |-> "idle"]
  /\ wt = [t \in Task |-> NoWorktree]
  /\ phase = "up"
  /\ stale = {}
  /\ reset = NoReset
  /\ faults = [commit |-> 0, checkout |-> 0, crash |-> 0, reset |-> 0]

Goto(t, place) == pc' = [pc EXCEPT ![t] = place]

(* gate_with_quickfix gives the spec stage the gate one-shot.              *)
Budget(t) == IF t \in SpecTasks THEN 0 ELSE MaxQuickfix

-----------------------------------------------------------------------------
(* Three-way merge of one file: base b, main m, branch w.                  *)
Merge(b, m, w) == IF w = b THEN m ELSE w

Clash(b, m, w) == w # b /\ m # b /\ m # w

Conflicts(b, m, w) ==
  \/ \E t \in Task : Clash(b.slot[t], m.slot[t], w.slot[t])
  \/ \E t \in Task : Clash(b.mark[t], m.mark[t], w.mark[t])
  \/ Clash(b.log, m.log, w.log)

MergeTrees(b, m, w) ==
  [slot |-> [t \in Task |-> Merge(b.slot[t], m.slot[t], w.slot[t])],
   mark |-> [t \in Task |-> Merge(b.mark[t], m.mark[t], w.mark[t])],
   log  |-> Merge(b.log, m.log, w.log)]

-----------------------------------------------------------------------------
(* set_stage_on_main, under main_lock: load the graph from the workdir,    *)
(* save it with one stage changed, commit.                                 *)

SaveMark(t, mark) ==
  /\ mainLock = NoTask
  /\ mainLock' = t
  /\ work' = [work EXCEPT !.mark[t] = mark]
  /\ UNCHANGED <<head, cargo, phase, stale, reset, faults>>

(* The scheduler marks the stage before it spawns the task; a stage that   *)
(* the operator has reset is started again.                                *)
Start(t) ==
  /\ pc[t] \in {"idle", "ended"}
  /\ work.mark[t] = "NotStarted"
  /\ SaveMark(t, "InProgress")
  /\ wt' = [wt EXCEPT ![t] = NoWorktree]
  /\ Goto(t, "started")

MarkDone(t) ==
  /\ pc[t] = "close"
  /\ SaveMark(t, "Done")
  /\ UNCHANGED wt
  /\ Goto(t, "closed")

MarkFailed(t) ==
  /\ pc[t] = "giveUp"
  /\ SaveMark(t, "Failed")
  /\ UNCHANGED wt
  /\ Goto(t, "closed")

Committed(t) == IF pc[t] = "started" THEN "allocate" ELSE "ended"

(* Mutant: the mark is saved but not committed. *)
CommitMark_Forgotten(t) ==
  /\ pc[t] \in {"started", "closed"}
  /\ mainLock' = NoTask
  /\ Goto(t, Committed(t))
  /\ UNCHANGED <<head, work, cargo, wt, phase, stale, reset, faults>>

(* commit_main stages whatever the workdir holds.                          *)
CommitMark(t) ==
  /\ pc[t] \in {"started", "closed"}
  /\ head' = work
  /\ mainLock' = NoTask
  /\ Goto(t, Committed(t))
  /\ UNCHANGED <<work, cargo, wt, phase, stale, reset, faults>>

(* commit_main fails (the index is locked, the disk is full) and the error *)
(* is dropped.                                                             *)
CommitMarkFails(t) ==
  /\ pc[t] \in {"started", "closed"}
  /\ faults.commit < CommitFaults
  /\ faults' = [faults EXCEPT !.commit = @ + 1]
  /\ mainLock' = NoTask
  /\ Goto(t, Committed(t))
  /\ UNCHANGED <<head, work, cargo, wt, phase, stale, reset>>

-----------------------------------------------------------------------------
(* One attempt (run_attempt_in_worktree).                                  *)

(* WorktreePool::allocate: a branch and a worktree from main's HEAD.       *)
Allocate(t) ==
  /\ pc[t] = "allocate"
  /\ mainLock = NoTask
  /\ wt' = [wt EXCEPT ![t] = [NoWorktree EXCEPT !.base = head, !.tree = head,
                                                !.attempt = wt[t].attempt]]
  /\ Goto(t, "write")
  /\ UNCHANGED <<head, work, mainLock, cargo, phase, stale, reset, faults>>

(* Mutant: a spec need not have authored its public.md. *)
Write_Unchecked(t) ==
  /\ pc[t] = "write"
  /\ \E c \in Content \cup {wt[t].tree.slot[t]} :
       wt' = [wt EXCEPT ![t].tree.slot[t] = c, ![t].budget = Budget(t)]
  /\ Goto(t, "gate")
  /\ UNCHANGED <<head, work, mainLock, cargo, phase, stale, reset, faults>>

(* The writer and critique cycle, and the check that a spec was written.   *)
(* Any other writer may leave its slot as it found it.                     *)
Write(t) ==
  /\ pc[t] = "write"
  /\ \E c \in Content \cup {wt[t].tree.slot[t]} :
       /\ t \in SpecTasks => c # Placeholder
       /\ wt' = [wt EXCEPT ![t].tree.slot[t] = c, ![t].budget = Budget(t)]
  /\ Goto(t, "gate")
  /\ UNCHANGED <<head, work, mainLock, cargo, phase, stale, reset, faults>>

(* ... or it ends in an error: the model call, the judge, the spec check.  *)
WriteFails(t) ==
  /\ pc[t] = "write"
  /\ Goto(t, "failed")
  /\ UNCHANGED <<head, work, mainLock, cargo, wt, phase, stale, reset, faults>>

(* gate_with_quickfix.  Before the rebase it runs without main_lock, after *)
(* it with main_lock held; cargo_lock is held for each run_gate only.      *)
GateStarts(t) ==
  /\ pc[t] = "gate"
  /\ cargo = NoTask
  /\ cargo' = t
  /\ Goto(t, "cargo")
  /\ UNCHANGED <<head, work, mainLock, wt, phase, stale, reset, faults>>

GatePasses(t) ==
  /\ pc[t] = "cargo"
  /\ cargo' = NoTask
  /\ wt' = [wt EXCEPT ![t].gated = wt[t].tree.slot]
  /\ Goto(t, IF wt[t].rebased THEN "forward" ELSE "rebase")
  /\ UNCHANGED <<head, work, mainLock, phase, stale, reset, faults>>

(* Mutant: an error leaves main_lock taken. *)
ReleaseMain_Leak(t) == mainLock' = mainLock

(* The main_lock guard of attempt_inner goes with the frame.               *)
ReleaseMain(t) == mainLock' = IF mainLock = t THEN NoTask ELSE mainLock

(* run_gate dumps the failure into the worktree: the dump names the        *)
(* worktree, so no two dumps are alike.                                    *)
GateFails(t) ==
  /\ pc[t] = "cargo"
  /\ cargo' = NoTask
  /\ wt' = [wt EXCEPT ![t].tree.log = <<t, wt[t].attempt, wt[t].fixes>>,
                      ![t].fixes = @ + 1,
                      ![t].budget = IF @ > 0 THEN @ - 1 ELSE 0]
  /\ IF wt[t].budget > 0
     THEN Goto(t, "quickfix") /\ UNCHANGED mainLock
     ELSE Goto(t, "failed") /\ ReleaseMain(t)
  /\ UNCHANGED <<head, work, phase, stale, reset, faults>>

QuickFix(t) ==
  /\ pc[t] = "quickfix"
  /\ \E c \in Content \cup {wt[t].tree.slot[t]} :
       wt' = [wt EXCEPT ![t].tree.slot[t] = c]
  /\ Goto(t, "gate")
  /\ UNCHANGED <<head, work, mainLock, cargo, phase, stale, reset, faults>>

QuickFixFails(t) ==
  /\ pc[t] = "quickfix"
  /\ Goto(t, "failed")
  /\ ReleaseMain(t)
  /\ UNCHANGED <<head, work, cargo, wt, phase, stale, reset, faults>>

(* Mutant: the rebase does not wait for main_lock. *)
Rebase_Unlocked(t) ==
  /\ pc[t] = "rebase"
  /\ ~Conflicts(wt[t].base, head, wt[t].tree)
  /\ mainLock' = IF mainLock = NoTask THEN t ELSE mainLock
  /\ wt' = [wt EXCEPT ![t].tree = MergeTrees(wt[t].base, head, wt[t].tree),
                      ![t].base = head,
                      ![t].rebased = TRUE,
                      ![t].budget = Budget(t)]
  /\ Goto(t, "gate")
  /\ UNCHANGED <<head, work, cargo, phase, stale, reset, faults>>

(* Mutant: what was gated before the rebase is not gated again after it. *)
Rebase_NoRegate(t) ==
  /\ pc[t] = "rebase"
  /\ mainLock = NoTask
  /\ ~Conflicts(wt[t].base, head, wt[t].tree)
  /\ mainLock' = t
  /\ wt' = [wt EXCEPT ![t].tree = MergeTrees(wt[t].base, head, wt[t].tree),
                      ![t].base = head,
                      ![t].rebased = TRUE]
  /\ Goto(t, "forward")
  /\ UNCHANGED <<head, work, cargo, phase, stale, reset, faults>>

(* Commit the worktree, take main_lock, replay the branch onto main.       *)
Rebase(t) ==
  /\ pc[t] = "rebase"
  /\ mainLock = NoTask
  /\ ~Conflicts(wt[t].base, head, wt[t].tree)
  /\ mainLock' = t
  /\ wt' = [wt EXCEPT ![t].tree = MergeTrees(wt[t].base, head, wt[t].tree),
                      ![t].base = head,
                      ![t].rebased = TRUE,
                      ![t].budget = Budget(t)]
  /\ Goto(t, "gate")
  /\ UNCHANGED <<head, work, cargo, phase, stale, reset, faults>>

RebaseConflicts(t) ==
  /\ pc[t] = "rebase"
  /\ mainLock = NoTask
  /\ Conflicts(wt[t].base, head, wt[t].tree)
  /\ Goto(t, "failed")
  /\ UNCHANGED <<head, work, mainLock, cargo, wt, phase, stale, reset, faults>>

(* fast_forward_main.  A branch without commits of its own is main.        *)
NothingToLand(t) ==
  /\ pc[t] = "forward"
  /\ wt[t].tree = head
  /\ mainLock' = NoTask
  /\ Goto(t, "landed")
  /\ UNCHANGED <<head, work, cargo, wt, phase, stale, reset, faults>>

(* Mutant: the ref moves and the files stay. *)
MoveMain_RefOnly(t) ==
  /\ pc[t] = "forward"
  /\ wt[t].base = head
  /\ wt[t].tree # head
  /\ head' = wt[t].tree
  /\ mainLock' = NoTask
  /\ Goto(t, "landed")
  /\ UNCHANGED <<work, cargo, wt, phase, stale, reset, faults>>

(* Otherwise main moves, if the branch descends from it: the ref first ... *)
MoveMain(t) ==
  /\ pc[t] = "forward"
  /\ wt[t].base = head
  /\ wt[t].tree # head
  /\ head' = wt[t].tree
  /\ Goto(t, "checkout")
  /\ UNCHANGED <<work, mainLock, cargo, wt, phase, stale, reset, faults>>

(* ... then the files, one after the other, whatever the workdir holds ... *)
CheckoutFile(t) ==
  /\ pc[t] = "checkout"
  /\ work # head
  /\ \/ \E u \in Task : work' = [work EXCEPT !.slot[u] = head.slot[u]]
     \/ \E u \in Task : work' = [work EXCEPT !.mark[u] = head.mark[u]]
     \/ work' = [work EXCEPT !.log = head.log]
  /\ work' # work
  /\ UNCHANGED <<head, mainLock, cargo, pc, wt, phase, stale, reset, faults>>

(* ... and main_lock is dropped.                                           *)
Landed(t) ==
  /\ pc[t] = "checkout"
  /\ work = head
  /\ mainLock' = NoTask
  /\ Goto(t, "landed")
  /\ UNCHANGED <<head, work, cargo, wt, phase, stale, reset, faults>>

(* The checkout fails after the ref has moved: the attempt is an error.    *)
CheckoutFails(t) ==
  /\ pc[t] = "checkout"
  /\ faults.checkout < CheckoutFaults
  /\ faults' = [faults EXCEPT !.checkout = @ + 1]
  /\ mainLock' = NoTask
  /\ Goto(t, "failed")
  /\ UNCHANGED <<head, work, cargo, wt, phase, stale, reset>>

(* Mutant: one attempt too many. *)
Abandon_OffByOne(t) ==
  /\ mainLock = NoTask
  /\ \/ /\ pc[t] = "landed"
        /\ Goto(t, "close")
        /\ UNCHANGED wt
     \/ /\ pc[t] = "failed"
        /\ wt' = [wt EXCEPT ![t].attempt = @ + 1]
        /\ Goto(t, IF wt[t].attempt <= MaxAttempts THEN "allocate" ELSE "giveUp")
  /\ UNCHANGED <<head, work, mainLock, cargo, phase, stale, reset, faults>>

(* abandon waits for main_lock too.  After a failure the next attempt      *)
(* starts from main again, or the stage is given up.                       *)
Abandon(t) ==
  /\ mainLock = NoTask
  /\ \/ /\ pc[t] = "landed"
        /\ Goto(t, "close")
        /\ UNCHANGED wt
     \/ /\ pc[t] = "failed"
        /\ wt[t].attempt < MaxAttempts
        /\ wt' = [wt EXCEPT ![t].attempt = @ + 1]
        /\ Goto(t, "allocate")
     \/ /\ pc[t] = "failed"
        /\ wt[t].attempt = MaxAttempts
        /\ Goto(t, "giveUp")
        /\ UNCHANGED wt
  /\ UNCHANGED <<head, work, mainLock, cargo, phase, stale, reset, faults>>

-----------------------------------------------------------------------------
(* The process dies; the next one prunes the worktrees (WorktreePool::new) *)
(* and sweeps the stages left InProgress, before it schedules anything.    *)
Crash ==
  /\ faults.crash < Crashes
  /\ faults' = [faults EXCEPT !.crash = @ + 1]
  /\ mainLock' = NoTask
  /\ cargo' = NoTask
  /\ pc' = [t \in Task |-> "idle"]
  /\ wt' = [t \in Task |-> NoWorktree]
  /\ phase' = "down"
  /\ stale' = {}
  /\ reset' = NoReset
  /\ UNCHANGED <<head, work>>

Interrupted == {t \in Task : work.mark[t] = "InProgress"}

(* reset_stale_inprogress returns early when it finds nothing ...          *)
NothingStale ==
  /\ phase = "down"
  /\ Interrupted = {}
  /\ phase' = "up"
  /\ UNCHANGED <<head, work, mainLock, cargo, pc, wt, stale, reset, faults>>

(* ... and otherwise saves the graph with the stages reset,                *)
SaveReset ==
  /\ phase = "down"
  /\ Interrupted # {}
  /\ stale' = Interrupted
  /\ work' = [work EXCEPT !.mark = [t \in Task |->
                IF t \in Interrupted THEN "NotStarted" ELSE work.mark[t]]]
  /\ phase' = "render"
  /\ UNCHANGED <<head, mainLock, cargo, pc, wt, reset, faults>>

(* Mutant: the sweep forgets the slots. *)
RenderReset_NoWipe ==
  /\ phase = "render"
  /\ phase' = "commit"
  /\ UNCHANGED <<head, work, mainLock, cargo, pc, wt, stale, reset, faults>>

(* renders the cleared slots as placeholders (impl and debug own none that *)
(* reset_stage_and_cascade would clear),                                   *)
RenderReset ==
  /\ phase = "render"
  /\ work' = [work EXCEPT !.slot = [t \in Task |->
                IF t \in stale \ Rewriters THEN Placeholder ELSE work.slot[t]]]
  /\ phase' = "commit"
  /\ UNCHANGED <<head, mainLock, cargo, pc, wt, stale, reset, faults>>

(* and commits the lot.                                                    *)
CommitReset ==
  /\ phase = "commit"
  /\ head' = work
  /\ stale' = {}
  /\ phase' = "up"
  /\ UNCHANGED <<work, mainLock, cargo, pc, wt, reset, faults>>

Recover == NothingStale \/ SaveReset \/ RenderReset \/ CommitReset

-----------------------------------------------------------------------------
(* api_reset_node, for a node and whatever depends on it.  The web server  *)
(* answers while tasks run; the handler holds main_lock from its load to   *)
(* its commit.                                                             *)

(* Mutant: the reset does not wait for main_lock. *)
SaveOperatorReset_Unlocked(stages) ==
  /\ phase = "up" /\ reset = NoReset
  /\ stages # {} /\ faults.reset < Resets
  /\ faults' = [faults EXCEPT !.reset = @ + 1]
  /\ work' = [work EXCEPT !.mark = [t \in Task |->
                IF t \in stages THEN "NotStarted" ELSE work.mark[t]]]
  /\ reset' = [step |-> "render", of |-> stages]
  /\ UNCHANGED <<head, mainLock, cargo, pc, wt, phase, stale>>

SaveOperatorReset(stages) ==
  /\ phase = "up" /\ mainLock = NoTask
  /\ stages # {} /\ faults.reset < Resets
  /\ faults' = [faults EXCEPT !.reset = @ + 1]
  /\ mainLock' = Operator
  /\ work' = [work EXCEPT !.mark = [t \in Task |->
                IF t \in stages THEN "NotStarted" ELSE work.mark[t]]]
  /\ reset' = [step |-> "render", of |-> stages]
  /\ UNCHANGED <<head, cargo, pc, wt, phase, stale>>

RenderOperatorReset ==
  /\ reset.step = "render"
  /\ work' = [work EXCEPT !.slot = [t \in Task |->
                IF t \in reset.of \ Rewriters THEN Placeholder ELSE work.slot[t]]]
  /\ reset' = [reset EXCEPT !.step = "commit"]
  /\ UNCHANGED <<head, mainLock, cargo, pc, wt, phase, stale, faults>>

CommitOperatorReset ==
  /\ reset.step = "commit"
  /\ head' = work
  /\ mainLock' = NoTask
  /\ reset' = NoReset
  /\ UNCHANGED <<work, cargo, pc, wt, phase, stale, faults>>

(* The render fails and the handler answers with an error, or the commit   *)
(* fails and it does not: either way the lock is dropped.                  *)
OperatorResetFails ==
  /\ reset # NoReset
  /\ faults.commit < CommitFaults
  /\ faults' = [faults EXCEPT !.commit = @ + 1]
  /\ mainLock' = NoTask
  /\ reset' = NoReset
  /\ UNCHANGED <<head, work, cargo, pc, wt, phase, stale>>

ServeReset == RenderOperatorReset \/ CommitOperatorReset

Step(t) ==
  /\ phase = "up"
  /\ \/ Start(t) \/ MarkDone(t) \/ MarkFailed(t) \/ CommitMark(t)
     \/ Allocate(t) \/ Write(t) \/ WriteFails(t)
     \/ GateStarts(t) \/ GatePasses(t) \/ GateFails(t)
     \/ QuickFix(t) \/ QuickFixFails(t)
     \/ Rebase(t) \/ RebaseConflicts(t)
     \/ NothingToLand(t) \/ MoveMain(t) \/ CheckoutFile(t) \/ Landed(t)
     \/ Abandon(t)

Fault(t) == phase = "up" /\ (CommitMarkFails(t) \/ CheckoutFails(t))

Next ==
  \/ \E t \in Task : Step(t) \/ Fault(t)
  \/ \E stages \in SUBSET Task : SaveOperatorReset(stages)
  \/ ServeReset \/ OperatorResetFails
  \/ Recover
  \/ Crash

Spec == Init /\ [][Next]_vars

(* tokio's mutexes queue their waiters, cargo and the model calls return,  *)
(* and a restarted process gets through its startup.  Faults and crashes   *)
(* are never owed, resets that were begun are.                             *)
Fairness == WF_vars(Recover) /\ WF_vars(ServeReset) /\ \A t \in Task : WF_vars(Step(t))

FairSpec == Spec /\ Fairness

-----------------------------------------------------------------------------
(* Properties.                                                             *)

TypeOK ==
  /\ head \in TreeType
  /\ work \in TreeType
  /\ mainLock \in Task \cup {NoTask, Operator}
  /\ reset \in [step : {"none", "render", "commit"}, of : SUBSET Task]
  /\ cargo \in Task \cup {NoTask}
  /\ pc \in [Task -> Place]
  /\ \A t \in Task :
       /\ wt[t].base \in TreeType
       /\ wt[t].tree \in TreeType
       /\ wt[t].gated \in [Task -> Content \cup {Placeholder}]
       /\ wt[t].attempt \in 1 .. MaxAttempts
       /\ wt[t].fixes \in Nat
       /\ wt[t].budget \in 0 .. MaxQuickfix
       /\ wt[t].rebased \in BOOLEAN
  /\ phase \in {"up", "down", "render", "commit"}
  /\ stale \subseteq Task

(* The rebased branch still stands on main when main is fast-forwarded:    *)
(* nothing lands and nothing is marked between a rebase and its landing,   *)
(* however many quickfix turns lie between them, so the descent check of   *)
(* fast_forward_main never fails a task.                                   *)
ForwardDescends == \A t \in Task : pc[t] = "forward" => wt[t].base = head

(* The slots on main change only by a landing, and then to exactly the     *)
(* combination of everybody's slots that cargo accepted after the rebase:  *)
(* no landing and no commit of a mark carries anything else.  (A reset,    *)
(* by the sweep of a restart or by the operator, commits without a gate.)  *)
MainMovesAsGated ==
  [][head'.slot # head.slot =>
       \/ phase # "up"
       \/ mainLock = Operator
       \/ \E t \in Task : mainLock = t /\ head'.slot = wt[t].gated]_vars

(* Once tasks run, whoever takes main_lock finds the files of the main     *)
(* workdir equal to main's commit: worktrees branch from what readers see, *)
(* and commit_main never picks up leftovers.                               *)
FilesAreHead ==
  phase = "up" /\ mainLock = NoTask /\ (\E t \in Task : pc[t] # "idle")
    => work = head

(* The work of a finished task is on main, in both forms, as its gate last *)
(* saw it, and the landings of other tasks do not take it away.            *)
DoneIsLanded ==
  \A t \in Task :
    pc[t] = "ended" /\ work.mark[t] = "Done" =>
      /\ work.slot[t] = wt[t].gated[t]
      /\ head.slot[t] = wt[t].gated[t]

(* A spec that is Done has been authored, even if it was interrupted after *)
(* its landing and done again after a restart.                             *)
SpecIsAuthored ==
  \A t \in SpecTasks : work.mark[t] = "Done" => work.slot[t] # Placeholder

(* A stage that is the first to write its slot starts from a placeholder:  *)
(* what an interrupted task had landed in it has been wiped ("restart      *)
(* equivalent to a fresh start").                                          *)
StartsFresh ==
  \A t \in Task \ Rewriters : pc[t] = "started" => work.slot[t] = Placeholder

(* Whatever fails on the way, the git operations included, a started task  *)
(* ends: an error never leaves a lock behind.                              *)
TasksEnd == \A t \in Task : pc[t] = "started" ~> pc[t] \in {"ended", "idle"}

(* Nobody waits for ever for main_lock or cargo_lock, through retries,     *)
(* quickfix turns under the lock, and restarts: every stage is settled.    *)
EveryStageSettles ==
  \A t \in Task : <>[](work.mark[t] \in {"Done", "Failed"})

ML == INSTANCE MainLine WITH main <- [slot |-> work.slot, mark |-> work.mark]

(* Landing implements the main line, seen through the main workdir.        *)
ImplementsMainLine == ML!Spec
=============================================================================
