-------------------------------- MODULE Attempt --------------------------------
(***************************************************************************)
(* One attempt at a stage, from its writer to its landing (attempt_inner), *)
(* and the wait for the provider that all attempts share                   *)
(* (drive_with_transient_retry, rate_limit_until and the scheduler's       *)
(* state).  What a role does with its tools is ToolCalls; what landing     *)
(* does to main is Landing.                                                *)
(*                                                                         *)
(* Time is counted down: the deadline of a pause and a sleeping call hold  *)
(* the ticks that are left.                                                *)
(***************************************************************************)
EXTENDS Naturals

CONSTANTS
  Task,            \* attempts in flight, each on a stage of its own
  NoTask,          \* holder of a free main_lock
  ArchitectTask,   \* the attempts of the architect stage
  SpecTask,        \* the attempts of a spec stage
  CritiqueRetries, \* limits.critique_retries
  MaxQuickfix,     \* limits.max_quickfix_iters
  ToolRetryBudget, \* limits.tool_retry_budget
  MaxTransient,    \* MAX_TRANSIENT_RETRIES
  Backoff,         \* RATE_LIMIT_BACKOFF, in ticks
  Probe,           \* the longest sleep of a waiting call, in ticks
  NoDeadline,      \* rate_limit_until is None
  MaxLimited       \* bound: answers of the provider that it is limiting

ASSUME AttemptAssumption ==
  /\ NoTask \notin Task
  /\ ArchitectTask \subseteq Task /\ SpecTask \subseteq Task
  /\ ArchitectTask \cap SpecTask = {}
  /\ CritiqueRetries \in Nat /\ MaxQuickfix \in Nat /\ ToolRetryBudget \in Nat
  /\ MaxTransient \in Nat /\ MaxLimited \in Nat
  /\ Backoff \in Nat \ {0} /\ Probe \in Nat \ {0}
  /\ NoDeadline \notin Nat

VARIABLES
  status,    \* EngineTask::status, or "none" before the task is listed
  step,      \* where the attempt stands
  role,      \* whose turn it is
  round,     \* of the critique cycle
  forced,    \* forced retries of this turn
  transient, \* transient errors of this call
  paused,    \* was_paused of this call
  nap,       \* ticks a waiting call still sleeps
  verdict,   \* EngineTask::final_verdict
  authored,  \* whether the worktree's graph has the node's public.md
  quickfix,  \* quickfix turns of this gate
  turns,     \* turns of the attempt so far, to count
  deadline,  \* rate_limit_until
  scheduler, \* EngineState::scheduler
  mainLock,  \* holder of main_lock
  limited    \* answers so far that the provider is limiting

cycle == <<role, round, verdict, authored, quickfix, turns>>
call == <<forced, transient, paused, nap>>
pause == <<deadline, scheduler, limited>>
vars == <<status, step, cycle, call, pause, mainLock>>

Role == {"writer", "critic", "reviser", "judge", "quickfixer"}
Step == {"idle", "ask", "nap", "clear", "driving", "answered", "verdict",
         "gate", "lock", "rebase", "land", "landed", "ended"}
Verdict == {"none", "satisfactory", "unsatisfactory"}

Rounds(t) == IF t \in ArchitectTask THEN 0 ELSE CritiqueRetries

QuickfixIters(t) == IF t \in ArchitectTask \cup SpecTask THEN 0 ELSE MaxQuickfix

Least(a, b) == IF a < b THEN a ELSE b

Zero == [t \in Task |-> 0]

Init ==
  /\ status = [t \in Task |-> "none"]
  /\ step = [t \in Task |-> "idle"]
  /\ role = [t \in Task |-> "writer"]
  /\ verdict = [t \in Task |-> "none"]
  /\ authored = [t \in Task |-> FALSE]
  /\ paused = [t \in Task |-> FALSE]
  /\ round = Zero /\ forced = Zero /\ transient = Zero
  /\ nap = Zero /\ quickfix = Zero /\ turns = Zero
  /\ deadline = NoDeadline
  /\ scheduler = "Running"
  /\ mainLock = NoTask
  /\ limited = 0

Goto(t, s) == step' = [step EXCEPT ![t] = s]

(* A new call: the counters of drive_with_transient_retry are its locals.  *)
Calls(t, retry) ==
  /\ Goto(t, "ask")
  /\ forced' = [forced EXCEPT ![t] = retry]
  /\ transient' = [transient EXCEPT ![t] = 0]
  /\ paused' = [paused EXCEPT ![t] = FALSE]
  /\ UNCHANGED nap

Turn(t, r) ==
  /\ role' = [role EXCEPT ![t] = r]
  /\ turns' = [turns EXCEPT ![t] = @ + 1]
  /\ Calls(t, 0)

(* A call that has returned has no locals.                                 *)
Returned(t) ==
  /\ forced' = [forced EXCEPT ![t] = 0]
  /\ transient' = [transient EXCEPT ![t] = 0]
  /\ UNCHANGED nap

(* An error that leaves attempt_inner through `?`: the worktree is         *)
(* abandoned, main_lock dropped, and the task's status stays what it is.   *)
Abandoned(t) ==
  /\ Goto(t, "ended")
  /\ mainLock' = IF mainLock = t THEN NoTask ELSE mainLock
  /\ UNCHANGED status

-----------------------------------------------------------------------------
(* drive_with_transient_retry.                                             *)

(* Read the deadline: go ahead, sleep a while, or clear it in a second     *)
(* critical section.                                                       *)
Ask(t) ==
  /\ step[t] = "ask"
  /\ \/ /\ deadline = NoDeadline
        /\ Goto(t, "driving")
        /\ UNCHANGED <<paused, nap>>
     \/ /\ deadline # NoDeadline /\ deadline > 0
        /\ Goto(t, "nap")
        /\ nap' = [nap EXCEPT ![t] = Least(deadline, Probe)]
        /\ paused' = [paused EXCEPT ![t] = TRUE]
     \/ /\ deadline = 0
        /\ Goto(t, "clear")
        /\ UNCHANGED <<paused, nap>>
  /\ UNCHANGED <<status, cycle, forced, transient, pause, mainLock>>

Wake(t) ==
  /\ step[t] = "nap" /\ nap[t] = 0
  /\ Goto(t, "ask")
  /\ UNCHANGED <<status, cycle, call, pause, mainLock>>

ClearDeadline(t) ==
  /\ step[t] = "clear"
  /\ deadline' = NoDeadline
  /\ Goto(t, "driving")
  /\ UNCHANGED <<status, cycle, call, scheduler, limited, mainLock>>

(* Mutant: a limited call is not among those that were paused. *)
RateLimited_NotPaused(t) ==
  /\ step[t] = "driving" /\ limited < MaxLimited
  /\ limited' = limited + 1
  /\ deadline' = Backoff
  /\ scheduler' = "Paused"
  /\ Goto(t, "ask")
  /\ UNCHANGED <<status, cycle, call, mainLock>>

RateLimited(t) ==
  /\ step[t] = "driving" /\ limited < MaxLimited
  /\ limited' = limited + 1
  /\ deadline' = Backoff
  /\ scheduler' = "Paused"
  /\ paused' = [paused EXCEPT ![t] = TRUE]
  /\ Goto(t, "ask")
  /\ UNCHANGED <<status, cycle, forced, transient, nap, mainLock>>

TransientError(t) ==
  /\ step[t] = "driving" /\ transient[t] < MaxTransient
  /\ transient' = [transient EXCEPT ![t] = @ + 1]
  /\ Goto(t, "ask")
  /\ UNCHANGED <<status, cycle, forced, paused, nap, pause, mainLock>>

CallFails(t) ==
  /\ step[t] = "driving"
  /\ Abandoned(t)
  /\ Returned(t)
  /\ UNCHANGED <<cycle, paused, pause>>

Resumed(t) == scheduler' = IF paused[t] THEN "Running" ELSE scheduler

(* Mutant: forced retries are not counted. *)
ForceRetry_Uncounted(t) ==
  /\ step[t] = "driving" /\ ToolRetryBudget > 0
  /\ Resumed(t)
  /\ Calls(t, forced[t])
  /\ UNCHANGED <<status, cycle, deadline, limited, mainLock>>

(* The call returns; tool calls that failed are retried in a call of their *)
(* own while the turn's budget lasts.                                      *)
ForceRetry(t) ==
  /\ step[t] = "driving" /\ forced[t] < ToolRetryBudget
  /\ Resumed(t)
  /\ Calls(t, forced[t] + 1)
  /\ UNCHANGED <<status, cycle, deadline, limited, mainLock>>

Answer(t) ==
  /\ step[t] = "driving"
  /\ Resumed(t)
  /\ Goto(t, "answered")
  /\ Returned(t)
  /\ paused' = [paused EXCEPT ![t] = FALSE]
  /\ UNCHANGED <<status, cycle, deadline, limited, mainLock>>

(* Time passes for whoever waits. *)
Tick ==
  /\ deadline \notin {NoDeadline, 0} \/ \E t \in Task : nap[t] > 0
  /\ deadline' = IF deadline \in {NoDeadline, 0} THEN deadline ELSE deadline - 1
  /\ nap' = [t \in Task |-> IF nap[t] = 0 THEN 0 ELSE nap[t] - 1]
  /\ UNCHANGED <<status, step, cycle, forced, transient, paused, scheduler, limited, mainLock>>

-----------------------------------------------------------------------------
(* attempt_inner: the turns.                                               *)

(* The task is listed and its writer called.                               *)
Begin(t) ==
  /\ step[t] = "idle"
  /\ status' = [status EXCEPT ![t] = "Running"]
  /\ Turn(t, "writer")
  /\ UNCHANGED <<round, verdict, authored, quickfix, pause, mainLock>>

Answered(t, r) == step[t] = "answered" /\ role[t] = r

(* What comes after a turn of the cycle in round r: another round or the   *)
(* verdict gate.                                                           *)
NextRound(t) ==
  IF round[t] < Rounds(t)
  THEN Turn(t, "critic") /\ round' = [round EXCEPT ![t] = @ + 1]
  ELSE Goto(t, "verdict") /\ UNCHANGED <<role, turns, round, call>>

(* Until a role of the spec stage writes it, the graph has no public.md;   *)
(* the tools are attached to every role of the cycle.                      *)
MayAuthor(t) ==
  \/ t \in SpecTask /\ authored' = [authored EXCEPT ![t] = TRUE]
  \/ UNCHANGED authored

WriterDone(t) ==
  /\ Answered(t, "writer")
  /\ MayAuthor(t)
  /\ NextRound(t)
  /\ UNCHANGED <<status, verdict, quickfix, pause, mainLock>>

(* A clean critique skips the reviser and the judge; none does not.        *)
CriticClean(t) ==
  /\ Answered(t, "critic")
  /\ MayAuthor(t)
  /\ Goto(t, "verdict")
  /\ UNCHANGED <<status, role, round, verdict, quickfix, turns, call, pause, mainLock>>

CriticObjects(t) ==
  /\ Answered(t, "critic")
  /\ MayAuthor(t)
  /\ Turn(t, "reviser")
  /\ UNCHANGED <<status, round, verdict, quickfix, pause, mainLock>>

ReviserDone(t) ==
  /\ Answered(t, "reviser")
  /\ MayAuthor(t)
  /\ Turn(t, "judge")
  /\ UNCHANGED <<status, round, verdict, quickfix, pause, mainLock>>

JudgeDone(t, answer) ==
  /\ Answered(t, "judge")
  /\ MayAuthor(t)
  /\ verdict' = [verdict EXCEPT ![t] = answer]
  /\ IF answer = "satisfactory"
     THEN Goto(t, "verdict") /\ UNCHANGED <<role, turns, round, call>>
     ELSE NextRound(t)
  /\ UNCHANGED <<status, quickfix, pause, mainLock>>

(* fail_task: the verdict gate, and the check that a spec was written.     *)
Rejected(t) == verdict[t] = "unsatisfactory" \/ (t \in SpecTask /\ ~authored[t])

FailTask(t) ==
  /\ step[t] = "verdict" /\ Rejected(t)
  /\ status' = [status EXCEPT ![t] = "Failed"]
  /\ Goto(t, "ended")
  /\ UNCHANGED <<cycle, call, pause, mainLock>>

StartGate(t) ==
  /\ Goto(t, "gate")
  /\ quickfix' = [quickfix EXCEPT ![t] = 0]

Accept(t) ==
  /\ step[t] = "verdict" /\ ~Rejected(t)
  /\ StartGate(t)
  /\ UNCHANGED <<status, role, round, verdict, authored, turns, call, pause, mainLock>>

-----------------------------------------------------------------------------
(* gate_with_quickfix, before and under main_lock, and the landing.        *)

GatePasses(t) ==
  /\ step[t] = "gate"
  /\ Goto(t, IF mainLock = t THEN "land" ELSE "lock")
  /\ quickfix' = [quickfix EXCEPT ![t] = 0]
  /\ UNCHANGED <<status, role, round, verdict, authored, turns, call, pause, mainLock>>

(* Mutant: a quickfix turn after the last iteration too. *)
GateFails_OneMore(t) ==
  /\ step[t] = "gate" /\ quickfix[t] <= QuickfixIters(t)
  /\ quickfix' = [quickfix EXCEPT ![t] = @ + 1]
  /\ Turn(t, "quickfixer")
  /\ UNCHANGED <<status, round, verdict, authored, pause, mainLock>>

GateFails(t) ==
  /\ step[t] = "gate" /\ quickfix[t] < QuickfixIters(t)
  /\ quickfix' = [quickfix EXCEPT ![t] = @ + 1]
  /\ Turn(t, "quickfixer")
  /\ UNCHANGED <<status, round, verdict, authored, pause, mainLock>>

GateGivesUp(t) ==
  /\ step[t] = "gate" /\ quickfix[t] = QuickfixIters(t)
  /\ Abandoned(t)
  /\ UNCHANGED <<cycle, call, pause>>

QuickfixerDone(t) ==
  /\ Answered(t, "quickfixer")
  /\ Goto(t, "gate")
  /\ UNCHANGED <<status, cycle, call, pause, mainLock>>

TakeMainLock(t) ==
  /\ step[t] = "lock" /\ mainLock = NoTask
  /\ mainLock' = t
  /\ Goto(t, "rebase")
  /\ UNCHANGED <<status, cycle, call, pause>>

Rebase(t) ==
  /\ step[t] = "rebase"
  /\ StartGate(t)
  /\ UNCHANGED <<status, role, round, verdict, authored, turns, call, pause, mainLock>>

FastForward(t) ==
  /\ step[t] = "land"
  /\ mainLock' = NoTask
  /\ Goto(t, "landed")
  /\ UNCHANGED <<status, cycle, call, pause>>

(* A git or cargo command that cannot be run, the commit after the gate    *)
(* included, or a conflict.                                                *)
CommandFails(t) ==
  /\ step[t] \in {"gate", "rebase", "land"}
  /\ Abandoned(t)
  /\ UNCHANGED <<cycle, call, pause>>

(* The worktree is removed and the task marked Done.                       *)
MarkDone(t) ==
  /\ step[t] = "landed"
  /\ status' = [status EXCEPT ![t] = "Done"]
  /\ Goto(t, "ended")
  /\ UNCHANGED <<cycle, call, pause, mainLock>>

-----------------------------------------------------------------------------
Driving(t) ==
  \/ Ask(t) \/ Wake(t) \/ ClearDeadline(t) \/ RateLimited(t)
  \/ TransientError(t) \/ CallFails(t) \/ ForceRetry(t) \/ Answer(t)

Reviewing(t) ==
  \/ Begin(t) \/ WriterDone(t) \/ CriticClean(t) \/ CriticObjects(t)
  \/ ReviserDone(t) \/ (\E answer \in Verdict : JudgeDone(t, answer))
  \/ FailTask(t) \/ Accept(t)

Landing(t) ==
  \/ GatePasses(t) \/ GateFails(t) \/ GateGivesUp(t) \/ QuickfixerDone(t)
  \/ TakeMainLock(t) \/ Rebase(t) \/ FastForward(t) \/ CommandFails(t)
  \/ MarkDone(t)

Advance(t) == Driving(t) \/ Reviewing(t) \/ Landing(t)

Next == (\E t \in Task : Advance(t)) \/ Tick

(* The runtime polls every task, and the clock runs.  A provider that      *)
(* limits for ever would keep an attempt waiting for ever: MaxLimited.     *)
(* Weak fairness is enough for main_lock, since its holders are few.       *)
Fairness ==
  /\ WF_vars(Tick)
  /\ \A t \in Task : WF_vars(Advance(t))

Spec == Init /\ [][Next]_vars

FairSpec == Spec /\ Fairness

-----------------------------------------------------------------------------
(* Properties.                                                             *)

TypeOK ==
  /\ status \in [Task -> {"none", "Running", "Failed", "Done"}]
  /\ step \in [Task -> Step] /\ role \in [Task -> Role]
  /\ round \in [Task -> 0 .. CritiqueRetries]
  /\ forced \in [Task -> 0 .. ToolRetryBudget]
  /\ transient \in [Task -> 0 .. MaxTransient]
  /\ paused \in [Task -> BOOLEAN] /\ nap \in [Task -> 0 .. Probe]
  /\ verdict \in [Task -> Verdict] /\ authored \in [Task -> BOOLEAN]
  /\ quickfix \in [Task -> 0 .. MaxQuickfix]
  /\ turns \in [Task -> Nat]
  /\ deadline \in {NoDeadline} \cup 0 .. Backoff
  /\ scheduler \in {"Running", "Paused"}
  /\ mainLock \in Task \cup {NoTask}
  /\ limited \in 0 .. MaxLimited

(* The banner says Paused only as long as a call that was held up has not  *)
(* come back, or after such a call has failed its attempt: the last call   *)
(* to be limited, or one that slept meanwhile, sets Running when it        *)
(* succeeds, whoever cleared the deadline and however the calls interleave.*)
PausedMeansWaiting == scheduler = "Paused" => \E t \in Task : paused[t]

(* However critics, judges and gates answer, before and under the lock, an *)
(* attempt takes a bounded number of turns: a writer, three for each round *)
(* and a quickfixer for each iteration of either gate.                     *)
TurnBudget ==
  \A t \in Task : turns[t] <= 1 + 3 * Rounds(t) + 2 * QuickfixIters(t)

(* Every attempt ends, though calls sleep on a deadline that other tasks   *)
(* extend and clear, and though main_lock is held over quickfix turns that *)
(* may sleep as well.                                                      *)
EveryAttemptEnds == \A t \in Task : <>(step[t] = "ended")
=============================================================================
