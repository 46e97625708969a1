----------------------------- MODULE AttemptProofs -----------------------------
(***************************************************************************)
(* Proofs about Attempt for any number of attempts and any limits: the     *)
(* types, the bound on the turns of an attempt, and that the scheduler is  *)
(* shown Paused only while a call that was held up is out.                 *)
(***************************************************************************)
EXTENDS Attempt, TLAPS

-----------------------------------------------------------------------------
(* The inductive invariant.                                                *)

Out == {"ask", "nap", "clear", "driving"}
InCall == Out \cup {"answered"}

Held(t) == mainLock = t

(* Turns of the cycle by the time of a role's turn in the current round.   *)
CycleTurns(t) ==
  /\ role[t] \in {"writer", "judge"} => turns[t] <= 3 * round[t] + 1
  /\ role[t] = "critic" => turns[t] + 1 <= 3 * round[t]
  /\ role[t] = "reviser" => turns[t] <= 3 * round[t]

CycleBound(t) == 1 + 3 * Rounds(t)

(* The first gate has used its iterations when the second one, under the   *)
(* lock, starts counting afresh. *)
GateTurns(t) ==
  turns[t] <= CycleBound(t) + quickfix[t] + (IF Held(t) THEN QuickfixIters(t) ELSE 0)

Local(t) ==
  /\ round[t] <= Rounds(t) /\ quickfix[t] <= QuickfixIters(t)
  /\ step[t] = "idle" => turns[t] = 0 /\ ~Held(t)
  /\ step[t] \in InCall /\ role[t] # "quickfixer" => CycleTurns(t) /\ ~Held(t)
  /\ step[t] = "verdict" => turns[t] <= CycleBound(t) /\ ~Held(t)
  /\ step[t] = "gate" \/ (step[t] \in InCall /\ role[t] = "quickfixer") => GateTurns(t)
  /\ step[t] = "lock" => turns[t] <= CycleBound(t) + QuickfixIters(t) /\ ~Held(t)
  /\ step[t] = "rebase" => turns[t] <= CycleBound(t) + QuickfixIters(t) /\ Held(t)
  /\ step[t] = "land" => Held(t)
  /\ step[t] \in {"landed", "ended"} => ~Held(t)
  /\ step[t] \in {"land", "landed", "ended"} =>
       turns[t] <= CycleBound(t) + 2 * QuickfixIters(t)

TaskInv == \A t \in Task : Local(t)

(* A call that was held up and has not come back, or not well. *)
PausedIsOut == \A t \in Task : paused[t] => step[t] \in Out \cup {"ended"}

PauseInv == PausedIsOut /\ PausedMeansWaiting

-----------------------------------------------------------------------------
(* Types.                                                                  *)

LEMMA ConstantTypes ==
  /\ CritiqueRetries \in Nat /\ MaxQuickfix \in Nat /\ ToolRetryBudget \in Nat
  /\ MaxTransient \in Nat /\ MaxLimited \in Nat
  /\ Backoff \in Nat \ {0} /\ Probe \in Nat \ {0}
  /\ NoTask \notin Task /\ NoDeadline \notin Nat
BY AttemptAssumption DEF AttemptAssumption

LEMMA BoundTypes ==
  ASSUME NEW t \in Task
  PROVE /\ Rounds(t) \in 0 .. CritiqueRetries
        /\ QuickfixIters(t) \in 0 .. MaxQuickfix
BY ConstantTypes DEF Rounds, QuickfixIters

(* A turn that starts has the types of its variables. *)
LEMMA TurnTypes ==
  ASSUME TypeOK, NEW t \in Task, NEW r \in Role, Turn(t, r)
  PROVE /\ step' \in [Task -> Step] /\ role' \in [Task -> Role]
        /\ turns' \in [Task -> Nat]
        /\ forced' \in [Task -> 0 .. ToolRetryBudget]
        /\ transient' \in [Task -> 0 .. MaxTransient]
        /\ paused' \in [Task -> BOOLEAN] /\ nap' \in [Task -> 0 .. Probe]
BY ConstantTypes DEF TypeOK, Turn, Calls, Goto, Step

LEMMA DrivingTypes ==
  ASSUME TypeOK, NEW t \in Task, Driving(t)
  PROVE TypeOK'
<1> USE ConstantTypes DEF TypeOK, cycle, call, pause, Goto, Step
<1>1. CASE Ask(t)
  <2>1. Goto(t, "driving") \/ Goto(t, "nap") \/ Goto(t, "clear")
    BY <1>1 DEF Ask
  <2>2. nap' \in [Task -> 0 .. Probe] /\ paused' \in [Task -> BOOLEAN]
    <3>1. CASE UNCHANGED <<paused, nap>>
      BY <3>1
    <3>2. ASSUME deadline # NoDeadline, deadline > 0,
                 nap' = [nap EXCEPT ![t] = Least(deadline, Probe)],
                 paused' = [paused EXCEPT ![t] = TRUE]
          PROVE nap' \in [Task -> 0 .. Probe] /\ paused' \in [Task -> BOOLEAN]
      <4>1. Least(deadline, Probe) \in 0 .. Probe
        BY <3>2 DEF Least
      <4>2. nap \in [Task -> 0 .. Probe] /\ paused \in [Task -> BOOLEAN]
        OBVIOUS
      <4> QED BY ONLY <3>2, <4>1, <4>2
    <3> QED BY <1>1, <3>1, <3>2 DEF Ask
  <2> QED BY <1>1, <2>1, <2>2 DEF Ask
<1>2. CASE Wake(t)
  BY <1>2 DEF Wake
<1>3. CASE ClearDeadline(t)
  BY <1>3 DEF ClearDeadline
<1>4. CASE RateLimited(t)
  BY <1>4 DEF RateLimited
<1>5. CASE TransientError(t)
  BY <1>5 DEF TransientError
<1>6. CASE CallFails(t)
  BY <1>6 DEF CallFails, Abandoned, Returned
<1>7. CASE ForceRetry(t)
  BY <1>7 DEF ForceRetry, Calls, Resumed
<1>8. CASE Answer(t)
  BY <1>8 DEF Answer, Returned, Resumed
<1> QED BY <1>1, <1>2, <1>3, <1>4, <1>5, <1>6, <1>7, <1>8 DEF Driving

(* What comes after a turn of the cycle. *)
LEMMA NextRoundTypes ==
  ASSUME TypeOK, NEW t \in Task, NextRound(t)
  PROVE /\ step' \in [Task -> Step] /\ role' \in [Task -> Role]
        /\ turns' \in [Task -> Nat] /\ round' \in [Task -> 0 .. CritiqueRetries]
        /\ forced' \in [Task -> 0 .. ToolRetryBudget]
        /\ transient' \in [Task -> 0 .. MaxTransient]
        /\ paused' \in [Task -> BOOLEAN] /\ nap' \in [Task -> 0 .. Probe]
<1>1. CASE round[t] < Rounds(t)
  <2>1. Turn(t, "critic") /\ round' = [round EXCEPT ![t] = @ + 1]
    BY <1>1 DEF NextRound
  <2>2. round' \in [Task -> 0 .. CritiqueRetries]
    BY <1>1, <2>1, BoundTypes, ConstantTypes DEF TypeOK
  <2> QED BY <2>1, <2>2, TurnTypes DEF Role
<1>2. CASE ~(round[t] < Rounds(t))
  BY <1>2 DEF NextRound, Goto, call, TypeOK, Step
<1> QED BY <1>1, <1>2

LEMMA ReviewingTypes ==
  ASSUME TypeOK, NEW t \in Task, Reviewing(t)
  PROVE TypeOK'
<1> USE ConstantTypes DEF pause, Role
<1>1. CASE Begin(t)
  BY <1>1, TurnTypes DEF Begin, TypeOK
<1>2. CASE WriterDone(t)
  BY <1>2, NextRoundTypes DEF WriterDone, MayAuthor, TypeOK
<1>3. CASE CriticClean(t)
  BY <1>3 DEF CriticClean, MayAuthor, TypeOK, Goto, Step, call
<1>4. CASE CriticObjects(t)
  BY <1>4, TurnTypes DEF CriticObjects, MayAuthor, TypeOK
<1>5. CASE ReviserDone(t)
  BY <1>5, TurnTypes DEF ReviserDone, MayAuthor, TypeOK
<1>6. ASSUME NEW answer \in Verdict, JudgeDone(t, answer) PROVE TypeOK'
  <2>1. CASE answer = "satisfactory"
    BY <1>6, <2>1 DEF JudgeDone, MayAuthor, TypeOK, Goto, Step, call
  <2>2. CASE answer # "satisfactory"
    BY <1>6, <2>2, NextRoundTypes DEF JudgeDone, MayAuthor, TypeOK
  <2> QED BY <2>1, <2>2
<1>7. CASE FailTask(t)
  BY <1>7 DEF FailTask, TypeOK, Goto, Step, cycle, call
<1>8. CASE Accept(t)
  BY <1>8 DEF Accept, StartGate, TypeOK, Goto, Step, call
<1> QED BY <1>1, <1>2, <1>3, <1>4, <1>5, <1>6, <1>7, <1>8 DEF Reviewing

LEMMA LandingTypes ==
  ASSUME TypeOK, NEW t \in Task, Landing(t)
  PROVE TypeOK'
<1> USE ConstantTypes DEF cycle, call, pause, Step
<1>1. CASE GatePasses(t)
  BY <1>1 DEF GatePasses, TypeOK, Goto
<1>2. CASE GateFails(t)
  <2>1. quickfix' \in [Task -> 0 .. MaxQuickfix]
    BY <1>2, BoundTypes DEF GateFails, TypeOK
  <2> QED BY <1>2, <2>1, TurnTypes DEF GateFails, TypeOK, Role
<1>3. CASE GateGivesUp(t)
  BY <1>3 DEF GateGivesUp, Abandoned, TypeOK, Goto
<1>4. CASE QuickfixerDone(t)
  BY <1>4 DEF QuickfixerDone, TypeOK, Goto
<1>5. CASE TakeMainLock(t)
  BY <1>5 DEF TakeMainLock, TypeOK, Goto
<1>6. CASE Rebase(t)
  BY <1>6 DEF Rebase, StartGate, TypeOK, Goto
<1>7. CASE FastForward(t)
  BY <1>7 DEF FastForward, TypeOK, Goto
<1>8. CASE CommandFails(t)
  BY <1>8 DEF CommandFails, Abandoned, TypeOK, Goto
<1>9. CASE MarkDone(t)
  BY <1>9 DEF MarkDone, TypeOK, Goto
<1> QED BY <1>1, <1>2, <1>3, <1>4, <1>5, <1>6, <1>7, <1>8, <1>9 DEF Landing

LEMMA InitTypes == Init => TypeOK
BY ConstantTypes DEF Init, TypeOK, Zero, Step, Role, Verdict

LEMMA NextTypes ==
  ASSUME TypeOK, [Next]_vars
  PROVE TypeOK'
<1>1. ASSUME NEW t \in Task, Advance(t) PROVE TypeOK'
  BY <1>1, DrivingTypes, ReviewingTypes, LandingTypes DEF Advance
<1>2. CASE Tick
  BY <1>2, ConstantTypes DEF Tick, TypeOK, cycle
<1>3. CASE UNCHANGED vars
  BY <1>3 DEF vars, cycle, call, pause, TypeOK
<1> QED BY <1>1, <1>2, <1>3 DEF Next

(* The variables of every attempt have the types stated for them.          *)
THEOREM TypeCorrect == Spec => []TypeOK
BY InitTypes, NextTypes, PTL DEF Spec
-----------------------------------------------------------------------------
(* The banner.                                                             *)

(* An attempt that moves among the steps of a call and does not forget     *)
(* that it was held up, while nobody sets Paused. *)
LEMMA PauseFrame ==
  ASSUME TypeOK, PauseInv, NEW t \in Task,
         scheduler' = scheduler, paused' = paused,
         \A s \in Task \ {t} : step'[s] = step[s],
         paused[t] => step'[t] \in Out \cup {"ended"}
  PROVE PauseInv'
BY DEF PauseInv, PausedIsOut, PausedMeansWaiting

LEMMA DrivingPause ==
  ASSUME TypeOK, PauseInv, NEW t \in Task, Driving(t)
  PROVE PauseInv'
<1> USE DEF Goto
<1>1. CASE Ask(t)
  <2>1. step'[t] \in Out /\ \A s \in Task \ {t} : step'[s] = step[s]
    BY <1>1 DEF Ask, TypeOK, Out
  <2>2. scheduler' = scheduler /\ \A s \in Task : paused[s] => paused'[s]
    BY <1>1 DEF Ask, TypeOK, pause
  <2>3. \A s \in Task \ {t} : paused'[s] = paused[s]
    BY <1>1 DEF Ask, TypeOK
  <2> QED BY <2>1, <2>2, <2>3 DEF PauseInv, PausedIsOut, PausedMeansWaiting
<1>2. CASE Wake(t)
  BY <1>2, PauseFrame DEF Wake, TypeOK, Out, call, pause
<1>3. CASE ClearDeadline(t)
  BY <1>3, PauseFrame DEF ClearDeadline, TypeOK, Out, call
<1>4. CASE RateLimited(t)
  <2>1. step'[t] \in Out /\ \A s \in Task \ {t} : step'[s] = step[s]
    BY <1>4 DEF RateLimited, TypeOK, Out
  <2>2. paused'[t] /\ \A s \in Task \ {t} : paused'[s] = paused[s]
    BY <1>4 DEF RateLimited, TypeOK
  <2> QED BY <2>1, <2>2 DEF PauseInv, PausedIsOut, PausedMeansWaiting
<1>5. CASE TransientError(t)
  BY <1>5, PauseFrame DEF TransientError, TypeOK, Out, pause
<1>6. CASE CallFails(t)
  BY <1>6, PauseFrame DEF CallFails, Abandoned, TypeOK, pause
<1>7. ASSUME ForceRetry(t) \/ Answer(t) PROVE PauseInv'
  <2>1. ~paused'[t] /\ \A s \in Task \ {t} : paused'[s] = paused[s] /\ step'[s] = step[s]
    BY <1>7 DEF ForceRetry, Answer, Calls, TypeOK
  <2>2. scheduler' = IF paused[t] THEN "Running" ELSE scheduler
    BY <1>7 DEF ForceRetry, Answer, Resumed
  <2> QED BY <2>1, <2>2 DEF PauseInv, PausedIsOut, PausedMeansWaiting
<1> QED BY <1>1, <1>2, <1>3, <1>4, <1>5, <1>6, <1>7 DEF Driving

(* A turn that starts was not held up before. *)
LEMMA TurnPause ==
  ASSUME TypeOK, PauseInv, NEW t \in Task, NEW r, Turn(t, r),
         step[t] \notin Out \cup {"ended"}, scheduler' = scheduler
  PROVE PauseInv'
<1>1. ~paused[t]
  BY DEF PauseInv, PausedIsOut
<1>2. paused' = paused
  BY <1>1 DEF Turn, Calls, TypeOK
<1> QED BY <1>1, <1>2, PauseFrame DEF Turn, Calls, Goto, TypeOK

(* Between its calls an attempt is not held up. *)
LEMMA StepPause ==
  ASSUME TypeOK, PauseInv, NEW t \in Task, NEW s, Goto(t, s),
         step[t] \notin Out \cup {"ended"}, UNCHANGED <<scheduler, paused>>
  PROVE PauseInv'
<1>1. ~paused[t]
  BY DEF PauseInv, PausedIsOut
<1> QED BY <1>1, PauseFrame DEF Goto, TypeOK

LEMMA NextRoundPause ==
  ASSUME TypeOK, PauseInv, NEW t \in Task, NextRound(t),
         step[t] \notin Out \cup {"ended"}, scheduler' = scheduler
  PROVE PauseInv'
BY TurnPause, StepPause DEF NextRound, call

LEMMA ReviewingPause ==
  ASSUME TypeOK, PauseInv, NEW t \in Task, Reviewing(t)
  PROVE PauseInv'
<1> USE DEF Out, pause, call
<1>1. CASE Begin(t)
  BY <1>1, TurnPause DEF Begin
<1>2. CASE WriterDone(t)
  BY <1>2, NextRoundPause DEF WriterDone, Answered
<1>3. CASE CriticClean(t)
  BY <1>3, StepPause DEF CriticClean, Answered
<1>4. CASE CriticObjects(t)
  BY <1>4, TurnPause DEF CriticObjects, Answered
<1>5. CASE ReviserDone(t)
  BY <1>5, TurnPause DEF ReviserDone, Answered
<1>6. CASE \E answer \in Verdict : JudgeDone(t, answer)
  BY <1>6, StepPause, NextRoundPause DEF JudgeDone, Answered
<1>7. CASE FailTask(t)
  BY <1>7, StepPause DEF FailTask
<1>8. CASE Accept(t)
  BY <1>8, StepPause DEF Accept, StartGate
<1> QED BY <1>1, <1>2, <1>3, <1>4, <1>5, <1>6, <1>7, <1>8 DEF Reviewing

LEMMA LandingPause ==
  ASSUME TypeOK, PauseInv, NEW t \in Task, Landing(t)
  PROVE PauseInv'
<1> USE DEF Out, pause, call
<1>1. CASE GatePasses(t)
  BY <1>1, StepPause DEF GatePasses
<1>2. CASE GateFails(t)
  BY <1>2, TurnPause DEF GateFails
<1>3. CASE GateGivesUp(t)
  BY <1>3, StepPause DEF GateGivesUp, Abandoned
<1>4. CASE QuickfixerDone(t)
  BY <1>4, StepPause DEF QuickfixerDone, Answered
<1>5. CASE TakeMainLock(t)
  BY <1>5, StepPause DEF TakeMainLock
<1>6. CASE Rebase(t)
  BY <1>6, StepPause DEF Rebase, StartGate
<1>7. CASE FastForward(t)
  BY <1>7, StepPause DEF FastForward
<1>8. CASE CommandFails(t)
  BY <1>8, StepPause DEF CommandFails, Abandoned
<1>9. CASE MarkDone(t)
  BY <1>9, StepPause DEF MarkDone
<1> QED BY <1>1, <1>2, <1>3, <1>4, <1>5, <1>6, <1>7, <1>8, <1>9 DEF Landing

LEMMA InitPause == Init => PauseInv
BY DEF Init, PauseInv, PausedIsOut, PausedMeansWaiting

LEMMA NextPause ==
  ASSUME TypeOK, PauseInv, [Next]_vars
  PROVE PauseInv'
<1>1. ASSUME NEW t \in Task, Advance(t) PROVE PauseInv'
  BY <1>1, DrivingPause, ReviewingPause, LandingPause DEF Advance
<1>2. CASE Tick
  BY <1>2 DEF Tick, PauseInv, PausedIsOut, PausedMeansWaiting
<1>3. CASE UNCHANGED vars
  BY <1>3 DEF vars, call, pause, PauseInv, PausedIsOut, PausedMeansWaiting
<1> QED BY <1>1, <1>2, <1>3 DEF Next

(* Paused is shown only while some attempt's call has been held up and not *)
(* come back well, whoever set and cleared the deadline.                   *)
THEOREM PausedIsExplained == Spec => []PausedMeansWaiting
<1>1. TypeOK /\ PauseInv /\ [Next]_vars => (TypeOK /\ PauseInv)'
  BY NextTypes, NextPause
<1>2. PauseInv => PausedMeansWaiting
  BY DEF PauseInv
<1> QED BY <1>1, <1>2, InitTypes, InitPause, PTL DEF Spec
-----------------------------------------------------------------------------
(* The turns.                                                              *)

(* What Local says of an attempt reads only its own variables and whether  *)
(* it holds main_lock. *)
Untouched(t) ==
  /\ step'[t] = step[t] /\ role'[t] = role[t] /\ round'[t] = round[t]
  /\ quickfix'[t] = quickfix[t] /\ turns'[t] = turns[t]
  /\ Held(t)' <=> Held(t)

LEMMA LocalFrame ==
  ASSUME NEW t \in Task, Local(t), Untouched(t)
  PROVE Local(t)'
BY DEF Local, Untouched, CycleTurns, GateTurns, CycleBound, Held, Rounds, QuickfixIters

(* A step of one attempt: it keeps its own Local, the others are as they   *)
(* were. *)
Steps(t) == Local(t)' /\ \A s \in Task \ {t} : Untouched(s)

LEMMA StepsKeepTaskInv ==
  ASSUME TaskInv, NEW t \in Task, Steps(t)
  PROVE TaskInv'
BY LocalFrame DEF TaskInv, Steps

(* main_lock goes from one attempt to nobody, or the other way, or stays.  *)
LEMMA OthersUntouched ==
  ASSUME TypeOK, NEW t \in Task, NEW s, Goto(t, s),
         role' = role \/ (\E r : role' = [role EXCEPT ![t] = r]),
         round' = round \/ round' = [round EXCEPT ![t] = @ + 1],
         quickfix' = quickfix \/ (\E q : quickfix' = [quickfix EXCEPT ![t] = q]),
         turns' = turns \/ turns' = [turns EXCEPT ![t] = @ + 1],
         \/ mainLock' = mainLock
         \/ mainLock = t /\ mainLock' = NoTask
         \/ mainLock = NoTask /\ mainLock' = t
  PROVE \A other \in Task \ {t} : Untouched(other)
<1> SUFFICES ASSUME NEW other \in Task \ {t} PROVE Untouched(other)
  OBVIOUS
<1>1. step'[other] = step[other] /\ role'[other] = role[other]
  BY DEF Goto, TypeOK
<1>2. round'[other] = round[other] /\ quickfix'[other] = quickfix[other]
  BY DEF TypeOK
<1>3. turns'[other] = turns[other]
  BY DEF TypeOK
<1>4. Held(other)' <=> Held(other)
  BY ConstantTypes DEF Held
<1> QED BY <1>1, <1>2, <1>3, <1>4 DEF Untouched

(* A call that goes on within its turn. *)
LEMMA CallGoesOn ==
  ASSUME TypeOK, TaskInv, NEW t \in Task, NEW s \in InCall, step[t] \in InCall,
         Goto(t, s), UNCHANGED <<cycle, mainLock>>
  PROVE TaskInv'
<1>1. \A other \in Task \ {t} : Untouched(other)
  BY OthersUntouched DEF cycle
<1>2. step'[t] = s /\ Local(t)
  BY DEF Goto, TypeOK, TaskInv
<1>3. Local(t)'
  BY <1>2 DEF Local, CycleTurns, GateTurns, CycleBound, Held, Rounds, QuickfixIters,
              cycle, InCall, Out
<1> QED BY <1>1, <1>3, StepsKeepTaskInv DEF Steps

(* The bound that holds wherever an attempt stands. *)
LEMMA LocalBound ==
  ASSUME TypeOK, NEW t \in Task, Local(t)
  PROVE turns[t] <= CycleBound(t) + 2 * QuickfixIters(t)
<1>1. /\ turns[t] \in Nat /\ round[t] \in Nat /\ quickfix[t] \in Nat
      /\ Rounds(t) \in Nat /\ QuickfixIters(t) \in Nat
  BY BoundTypes, ConstantTypes DEF TypeOK
<1>2. step[t] \in Step /\ role[t] \in Role
  BY DEF TypeOK
<1> HIDE DEF Rounds, QuickfixIters
<1>3. CASE step[t] \in InCall /\ role[t] # "quickfixer"
  BY <1>1, <1>2, <1>3 DEF Local, CycleTurns, CycleBound, Role
<1>4. CASE step[t] = "gate" \/ (step[t] \in InCall /\ role[t] = "quickfixer")
  BY <1>1, <1>4 DEF Local, GateTurns, CycleBound
<1>5. CASE step[t] \in {"idle", "verdict", "lock", "rebase", "land", "landed", "ended"}
  BY <1>1, <1>5 DEF Local, CycleBound
<1> QED BY <1>2, <1>3, <1>4, <1>5 DEF Step, InCall, Out

(* An attempt may be abandoned anywhere. *)
LEMMA AbandonKeeps ==
  ASSUME TypeOK, TaskInv, NEW t \in Task, Abandoned(t), UNCHANGED cycle
  PROVE TaskInv'
<1>1. \A other \in Task \ {t} : Untouched(other)
  BY OthersUntouched DEF cycle, Abandoned
<1>2. step'[t] = "ended" /\ mainLock' # t
  BY ConstantTypes DEF Abandoned, Goto, TypeOK
<1>3. turns[t] <= CycleBound(t) + 2 * QuickfixIters(t) /\ Local(t)
  BY LocalBound DEF TaskInv
<1>4. Local(t)'
  BY <1>2, <1>3 DEF Local, CycleBound, Held, Rounds, QuickfixIters, cycle, InCall, Out
<1> QED BY <1>1, <1>4, StepsKeepTaskInv DEF Steps

LEMMA DrivingTurns ==
  ASSUME TypeOK, TaskInv, NEW t \in Task, Driving(t)
  PROVE TaskInv'
<1> USE DEF InCall, Out
<1>1. CASE Ask(t)
  BY <1>1, CallGoesOn DEF Ask
<1>2. CASE Wake(t)
  BY <1>2, CallGoesOn DEF Wake
<1>3. CASE ClearDeadline(t)
  BY <1>3, CallGoesOn DEF ClearDeadline
<1>4. CASE RateLimited(t)
  BY <1>4, CallGoesOn DEF RateLimited
<1>5. CASE TransientError(t)
  BY <1>5, CallGoesOn DEF TransientError
<1>6. CASE CallFails(t)
  BY <1>6, AbandonKeeps DEF CallFails
<1>7. CASE ForceRetry(t)
  BY <1>7, CallGoesOn DEF ForceRetry, Calls
<1>8. CASE Answer(t)
  BY <1>8, CallGoesOn DEF Answer
<1> QED BY <1>1, <1>2, <1>3, <1>4, <1>5, <1>6, <1>7, <1>8 DEF Driving
(* The numbers an attempt counts. *)
LEMMA Counts ==
  ASSUME TypeOK, NEW t \in Task
  PROVE /\ turns[t] \in Nat /\ round[t] \in Nat /\ quickfix[t] \in Nat
        /\ Rounds(t) \in Nat /\ QuickfixIters(t) \in Nat
BY BoundTypes, ConstantTypes DEF TypeOK

LEMMA TurnStarts ==
  ASSUME TypeOK, NEW t \in Task, NEW r, Turn(t, r)
  PROVE /\ step'[t] = "ask" /\ role'[t] = r /\ turns'[t] = turns[t] + 1
        /\ Goto(t, "ask")
        /\ role' = [role EXCEPT ![t] = r] /\ turns' = [turns EXCEPT ![t] = @ + 1]
BY DEF Turn, Calls, Goto, TypeOK

(* A turn of the cycle that fits in its round. *)
LEMMA CycleTurnKeeps ==
  ASSUME TypeOK, TaskInv, NEW t \in Task, NEW r \in Role \ {"quickfixer"}, Turn(t, r),
         round' = round \/ round' = [round EXCEPT ![t] = @ + 1],
         round'[t] \in Nat, round'[t] <= Rounds(t),
         UNCHANGED <<quickfix, mainLock>>, ~Held(t),
         r \in {"writer", "judge"} => turns[t] + 1 <= 3 * round'[t] + 1,
         r = "critic" => turns[t] + 2 <= 3 * round'[t],
         r = "reviser" => turns[t] + 1 <= 3 * round'[t]
  PROVE TaskInv'
<1>1. \A other \in Task \ {t} : Untouched(other)
  BY TurnStarts, OthersUntouched
<1>2. step'[t] = "ask" /\ role'[t] = r /\ turns'[t] = turns[t] + 1
  BY TurnStarts
<1>3. CycleTurns(t)'
  BY <1>2, Counts DEF CycleTurns
<1>4. quickfix'[t] <= QuickfixIters(t)' /\ round'[t] <= Rounds(t)' /\ ~Held(t)'
  BY DEF TaskInv, Local, Held, Rounds, QuickfixIters
<1>5. Local(t)'
  BY <1>2, <1>3, <1>4 DEF Local
<1> QED BY <1>1, <1>5, StepsKeepTaskInv DEF Steps

(* An attempt that goes on without a turn. *)
LEMMA StepKeeps ==
  ASSUME TypeOK, TaskInv, NEW t \in Task, NEW s, Goto(t, s),
         UNCHANGED <<role, round, turns>>,
         quickfix' = quickfix \/ quickfix' = [quickfix EXCEPT ![t] = 0],
         \/ mainLock' = mainLock
         \/ mainLock = t /\ mainLock' = NoTask
         \/ mainLock = NoTask /\ mainLock' = t,
         Local(t)'
  PROVE TaskInv'
<1>1. \A other \in Task \ {t} : Untouched(other)
  BY OthersUntouched
<1> QED BY <1>1, StepsKeepTaskInv DEF Steps

(* The end of the cycle. *)
LEMMA VerdictKeeps ==
  ASSUME TypeOK, TaskInv, NEW t \in Task, Goto(t, "verdict"),
         UNCHANGED <<role, round, turns, quickfix, mainLock>>,
         turns[t] <= 3 * round[t] + 1, ~Held(t)
  PROVE TaskInv'
<1>1. step'[t] = "verdict" /\ Local(t)
  BY DEF Goto, TypeOK, TaskInv
<1>2. turns[t] <= CycleBound(t)
  BY <1>1, Counts DEF CycleBound, Local
<1>3. Local(t)'
  BY <1>1, <1>2 DEF Local, CycleBound, Held, Rounds, QuickfixIters, InCall, Out
<1> QED BY <1>3, StepKeeps

LEMMA NextRoundKeeps ==
  ASSUME TypeOK, TaskInv, NEW t \in Task, NextRound(t),
         step[t] = "answered", role[t] \in {"writer", "judge"},
         UNCHANGED <<quickfix, mainLock>>
  PROVE TaskInv'
<1>1. turns[t] <= 3 * round[t] + 1 /\ ~Held(t) /\ round[t] <= Rounds(t)
  BY DEF TaskInv, Local, CycleTurns, InCall
<1>2. CASE round[t] < Rounds(t)
  <2>1. Turn(t, "critic") /\ round' = [round EXCEPT ![t] = @ + 1]
    BY <1>2 DEF NextRound
  <2>2. round'[t] = round[t] + 1
    BY <2>1 DEF TypeOK
  <2>3. /\ round'[t] \in Nat /\ round'[t] <= Rounds(t)
        /\ turns[t] + 2 <= 3 * round'[t]
    BY <1>1, <1>2, <2>2, Counts
  <2> QED BY <1>1, <2>1, <2>3, CycleTurnKeeps DEF Role
<1>3. CASE ~(round[t] < Rounds(t))
  BY <1>1, <1>3, VerdictKeeps DEF NextRound
<1> QED BY <1>2, <1>3

LEMMA ReviewingTurns ==
  ASSUME TypeOK, TaskInv, NEW t \in Task, Reviewing(t)
  PROVE TaskInv'
<1> USE DEF InCall
<1>1. CASE Begin(t)
  <2>1. turns[t] = 0 /\ ~Held(t) /\ round[t] <= Rounds(t)
    BY <1>1 DEF Begin, TaskInv, Local
  <2> QED BY <1>1, <2>1, Counts, CycleTurnKeeps DEF Begin, Role
<1>2. CASE WriterDone(t)
  BY <1>2, NextRoundKeeps DEF WriterDone, Answered
<1>3. CASE CriticClean(t)
  <2>1. turns[t] + 1 <= 3 * round[t] /\ ~Held(t)
    BY <1>3 DEF CriticClean, Answered, TaskInv, Local, CycleTurns
  <2> QED BY <1>3, <2>1, Counts, VerdictKeeps DEF CriticClean
<1>4. CASE CriticObjects(t)
  <2>1. turns[t] + 1 <= 3 * round[t] /\ ~Held(t) /\ round[t] <= Rounds(t)
    BY <1>4 DEF CriticObjects, Answered, TaskInv, Local, CycleTurns
  <2> QED BY <1>4, <2>1, Counts, CycleTurnKeeps DEF CriticObjects, Role
<1>5. CASE ReviserDone(t)
  <2>1. turns[t] <= 3 * round[t] /\ ~Held(t) /\ round[t] <= Rounds(t)
    BY <1>5 DEF ReviserDone, Answered, TaskInv, Local, CycleTurns
  <2> QED BY <1>5, <2>1, Counts, CycleTurnKeeps DEF ReviserDone, Role
<1>6. ASSUME NEW answer \in Verdict, JudgeDone(t, answer) PROVE TaskInv'
  <2>1. turns[t] <= 3 * round[t] + 1 /\ ~Held(t)
    BY <1>6 DEF JudgeDone, Answered, TaskInv, Local, CycleTurns
  <2>2. CASE answer = "satisfactory"
    BY <1>6, <2>1, <2>2, VerdictKeeps DEF JudgeDone
  <2>3. CASE answer # "satisfactory"
    BY <1>6, <2>3, NextRoundKeeps DEF JudgeDone, Answered
  <2> QED BY <2>2, <2>3
<1>7. CASE FailTask(t)
  <2>1. Local(t) /\ step'[t] = "ended" /\ turns[t] <= CycleBound(t) + 2 * QuickfixIters(t)
    BY <1>7, LocalBound DEF FailTask, Goto, TypeOK, TaskInv
  <2>2. Local(t)'
    BY <1>7, <2>1 DEF FailTask, Local, CycleBound, Held, Rounds, QuickfixIters, cycle, Out
  <2> QED BY <1>7, <2>2, StepKeeps DEF FailTask, cycle
<1>8. CASE Accept(t)
  <2>1. Local(t) /\ step'[t] = "gate" /\ quickfix'[t] = 0
    BY <1>8 DEF Accept, StartGate, Goto, TypeOK, TaskInv
  <2>2. GateTurns(t)'
    BY <1>8, <2>1, Counts DEF Accept, Local, GateTurns, CycleBound, Held, Rounds, QuickfixIters
  <2>3. Local(t)'
    BY <1>8, <2>1, <2>2, Counts DEF Accept, Local, Rounds, QuickfixIters, Out
  <2> QED BY <1>8, <2>3, StepKeeps DEF Accept, StartGate
<1> QED BY <1>1, <1>2, <1>3, <1>4, <1>5, <1>6, <1>7, <1>8 DEF Reviewing
LEMMA LandingTurns ==
  ASSUME TypeOK, TaskInv, NEW t \in Task, Landing(t)
  PROVE TaskInv'
<1>1. Local(t) /\ (Held(t) => mainLock # NoTask)
  BY ConstantTypes DEF TaskInv, Held
<1>2. CASE GatePasses(t)
  <2>1. /\ step'[t] = IF Held(t) THEN "land" ELSE "lock"
        /\ quickfix'[t] = 0 /\ GateTurns(t)
    BY <1>1, <1>2 DEF GatePasses, Goto, TypeOK, Held, Local
  <2>2. IF Held(t) THEN turns[t] <= CycleBound(t) + 2 * QuickfixIters(t)
        ELSE turns[t] <= CycleBound(t) + QuickfixIters(t)
    <3> HIDE DEF QuickfixIters
    <3>1. CycleBound(t) \in Nat
      BY Counts DEF CycleBound
    <3>2. quickfix[t] <= QuickfixIters(t)
      BY <1>1 DEF Local
    <3> QED BY <2>1, <3>1, <3>2, Counts DEF GateTurns
  <2>3. Local(t)'
    BY <1>1, <1>2, <2>1, <2>2, Counts
       DEF GatePasses, Local, CycleBound, Held, Rounds, QuickfixIters, InCall, Out
  <2> QED BY <1>2, <2>3, StepKeeps DEF GatePasses
<1>3. CASE GateFails(t)
  <2>1. Turn(t, "quickfixer") /\ quickfix'[t] = quickfix[t] + 1 /\ GateTurns(t)
    BY <1>1, <1>3 DEF GateFails, TypeOK, Local
  <2>2. step'[t] = "ask" /\ role'[t] = "quickfixer" /\ turns'[t] = turns[t] + 1
    BY <2>1, TurnStarts
  <2>3. GateTurns(t)'
    BY <1>3, <2>1, <2>2, Counts
       DEF GateFails, GateTurns, CycleBound, Held, Rounds, QuickfixIters
  <2>4. round'[t] <= Rounds(t)' /\ quickfix'[t] <= QuickfixIters(t)'
    BY <1>1, <1>3, <2>1, Counts DEF GateFails, Local, Rounds, QuickfixIters
  <2>5. Local(t)'
    BY <2>2, <2>3, <2>4 DEF Local
  <2>6. \A other \in Task \ {t} : Untouched(other)
    BY <1>3, <2>1, TurnStarts, OthersUntouched DEF GateFails
  <2> QED BY <2>5, <2>6, StepsKeepTaskInv DEF Steps
<1>4. CASE GateGivesUp(t)
  BY <1>4, AbandonKeeps DEF GateGivesUp
<1>5. CASE QuickfixerDone(t)
  <2>1. step'[t] = "gate" /\ GateTurns(t)
    BY <1>1, <1>5 DEF QuickfixerDone, Answered, Goto, TypeOK, Local, InCall
  <2>2. Local(t)'
    BY <1>1, <1>5, <2>1
       DEF QuickfixerDone, Local, GateTurns, CycleBound, Held, Rounds, QuickfixIters,
           cycle, InCall, Out
  <2> QED BY <1>5, <2>2, StepKeeps DEF QuickfixerDone, cycle
<1>6. CASE TakeMainLock(t)
  <2>1. step'[t] = "rebase" /\ Held(t)'
        /\ turns[t] <= CycleBound(t) + QuickfixIters(t)
    BY <1>1, <1>6 DEF TakeMainLock, Goto, TypeOK, Local, Held
  <2>2. Local(t)'
    BY <1>1, <1>6, <2>1
       DEF TakeMainLock, Local, CycleBound, Rounds, QuickfixIters, cycle, InCall, Out
  <2> QED BY <1>6, <2>2, StepKeeps DEF TakeMainLock, cycle
<1>7. CASE Rebase(t)
  <2>1. step'[t] = "gate" /\ quickfix'[t] = 0 /\ Held(t)
        /\ turns[t] <= CycleBound(t) + QuickfixIters(t)
    BY <1>1, <1>7 DEF Rebase, StartGate, Goto, TypeOK, Local
  <2>2. GateTurns(t)'
    BY <1>7, <2>1, Counts DEF Rebase, GateTurns, CycleBound, Held, Rounds, QuickfixIters
  <2>3. Local(t)'
    BY <1>1, <1>7, <2>1, <2>2, Counts DEF Rebase, Local, Rounds, QuickfixIters, InCall, Out
  <2> QED BY <1>7, <2>3, StepKeeps DEF Rebase, StartGate
<1>8. CASE FastForward(t)
  <2>1. step'[t] = "landed" /\ Held(t) /\ ~Held(t)'
        /\ turns[t] <= CycleBound(t) + 2 * QuickfixIters(t)
    BY <1>1, <1>8, ConstantTypes DEF FastForward, Goto, TypeOK, Local, Held
  <2>2. Local(t)'
    BY <1>1, <1>8, <2>1
       DEF FastForward, Local, CycleBound, Rounds, QuickfixIters, cycle, InCall, Out
  <2> QED BY <1>8, <2>1, <2>2, StepKeeps DEF FastForward, cycle, Held
<1>9. CASE CommandFails(t)
  BY <1>9, AbandonKeeps DEF CommandFails
<1>10. CASE MarkDone(t)
  <2>1. step'[t] = "ended" /\ ~Held(t)
        /\ turns[t] <= CycleBound(t) + 2 * QuickfixIters(t)
    BY <1>1, <1>10 DEF MarkDone, Goto, TypeOK, Local
  <2>2. Local(t)'
    BY <1>1, <1>10, <2>1
       DEF MarkDone, Local, CycleBound, Held, Rounds, QuickfixIters, cycle, InCall, Out
  <2> QED BY <1>10, <2>2, StepKeeps DEF MarkDone, cycle
<1> QED BY <1>2, <1>3, <1>4, <1>5, <1>6, <1>7, <1>8, <1>9, <1>10 DEF Landing

LEMMA InitTurns == Init => TaskInv
<1> SUFFICES ASSUME Init, NEW t \in Task PROVE Local(t)
  BY DEF TaskInv
<1>1. round[t] = 0 /\ quickfix[t] = 0 /\ turns[t] = 0 /\ step[t] = "idle" /\ ~Held(t)
  BY ConstantTypes DEF Init, Zero, Held
<1> QED BY <1>1, BoundTypes, ConstantTypes DEF Local, InCall, Out

LEMMA NextTurns ==
  ASSUME TypeOK, TaskInv, [Next]_vars
  PROVE TaskInv'
<1>1. ASSUME NEW t \in Task, Advance(t) PROVE TaskInv'
  BY <1>1, DrivingTurns, ReviewingTurns, LandingTurns DEF Advance
<1>2. ASSUME UNCHANGED <<step, cycle, mainLock>> PROVE TaskInv'
  <2>1. \A t \in Task : Untouched(t)
    BY <1>2 DEF Untouched, cycle, Held
  <2> QED BY <2>1, LocalFrame DEF TaskInv
<1>3. CASE Tick
  BY <1>2, <1>3 DEF Tick
<1>4. CASE UNCHANGED vars
  BY <1>2, <1>4 DEF vars
<1> QED BY <1>1, <1>3, <1>4 DEF Next

(* However the reviews and the gates go, an attempt takes no more turns    *)
(* than one writer, three for every round of the cycle and the quickfix    *)
(* iterations of the two gates.                                            *)
THEOREM TurnsAreBounded == Spec => []TurnBudget
<1>1. Init => TypeOK /\ TaskInv
  BY InitTypes, InitTurns
<1>2. TypeOK /\ TaskInv /\ [Next]_vars => (TypeOK /\ TaskInv)'
  BY NextTypes, NextTurns
<1>3. TypeOK /\ TaskInv => TurnBudget
  BY LocalBound DEF TurnBudget, TaskInv, CycleBound
<1> QED BY <1>1, <1>2, <1>3, PTL DEF Spec

(* main_lock is held by an attempt only from its rebase to the end of its  *)
(* landing, quickfix turns of the second gate included: no attempt keeps   *)
(* it after it has ended, however it ended.                                *)
LockFreed == \A t \in Task : step[t] \in {"landed", "ended"} => mainLock # t

(* The lock is dropped on every way out of the landing, the failing gate,  *)
(* command and call included.                                              *)
THEOREM LockIsFreed == Spec => []LockFreed
<1>1. Init => TypeOK /\ TaskInv
  BY InitTypes, InitTurns
<1>2. TypeOK /\ TaskInv /\ [Next]_vars => (TypeOK /\ TaskInv)'
  BY NextTypes, NextTurns
<1>3. TaskInv => LockFreed
  BY DEF LockFreed, TaskInv, Local, Held
<1> QED BY <1>1, <1>2, <1>3, PTL DEF Spec
=============================================================================
