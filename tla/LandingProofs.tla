----------------------------- MODULE LandingProofs -----------------------------
(***************************************************************************)
(* Proofs about Landing for any number of tasks, contents, attempts,       *)
(* quickfix turns, crashes, faults and resets: the types, who holds        *)
(* main_lock, and that a rebased branch stays on main until it lands.      *)
(* Where git never fails, also that main and its files agree whenever the  *)
(* lock is free and that main moves only to what a gate has accepted; and  *)
(* without resets of running nodes, that Landing implements MainLine.      *)
(***************************************************************************)
EXTENDS Landing, TLAPS

-----------------------------------------------------------------------------
(* The inductive invariant.                                                *)

Slots == [Task -> Content \cup {Placeholder}]

WorktreeType ==
  [base : TreeType, tree : TreeType, gated : Slots,
   attempt : 1 .. MaxAttempts, fixes : Nat, budget : 0 .. MaxQuickfix,
   rebased : BOOLEAN]

Types ==
  /\ head \in TreeType
  /\ work \in TreeType
  /\ mainLock \in Task \cup {NoTask, Operator}
  /\ reset \in [step : {"none", "render", "commit"}, of : SUBSET Task]
  /\ cargo \in Task \cup {NoTask}
  /\ pc \in [Task -> Place]
  /\ wt \in [Task -> WorktreeType]
  /\ phase \in {"up", "down", "render", "commit"}
  /\ stale \in SUBSET Task
  /\ faults \in [commit : Nat, checkout : Nat, crash : Nat, reset : Nat]

Gating == {"gate", "cargo", "quickfix"}

(* The failed gates of an attempt, and those that it may still have before *)
(* it is given up: they bound the stamps of the gate log.                  *)
Counted(t) ==
  /\ pc[t] = "write" => ~wt[t].rebased /\ wt[t].fixes = 0
  /\ pc[t] = "rebase" => ~wt[t].rebased /\ wt[t].fixes <= MaxQuickfix
  /\ pc[t] \in Gating =>
       wt[t].fixes + wt[t].budget <= IF wt[t].rebased THEN 2 * MaxQuickfix ELSE MaxQuickfix

(* The places at which a task holds main_lock. *)
Critical(t) ==
  \/ pc[t] \in {"started", "closed", "forward", "checkout"}
  \/ pc[t] \in Gating /\ wt[t].rebased

(* A branch that was rebased under the lock stands on main. *)
OnMain(t) ==
  /\ pc[t] \in Gating /\ wt[t].rebased => wt[t].base = head
  /\ pc[t] = "forward" => wt[t].base = head /\ wt[t].gated = wt[t].tree.slot

Local(t) == Counted(t) /\ OnMain(t) /\ (Critical(t) <=> mainLock = t)

(* The operator's reset holds the lock; a process that starts has no tasks.*)
Global ==
  /\ reset.step # "none" <=> mainLock = Operator
  /\ reset.step = "none" => reset = NoReset
  /\ phase # "up" =>
       Crashes # 0 /\ mainLock = NoTask /\ \A t \in Task : pc[t] = "idle"

Inv == Types /\ (\A t \in Task : Local(t)) /\ Global

-----------------------------------------------------------------------------
(* Constants and records.                                                  *)

LEMMA Constants ==
  /\ NoTask \notin Task /\ Operator \notin Task /\ Operator # NoTask
  /\ SpecTasks \subseteq Task
  /\ MaxAttempts \in Nat \ {0} /\ MaxQuickfix \in Nat
  /\ CommitFaults \in Nat /\ CheckoutFaults \in Nat /\ Crashes \in Nat /\ Resets \in Nat
BY LandingAssumption DEF LandingAssumption

LEMMA BudgetType == ASSUME NEW t \in Task PROVE Budget(t) \in 0 .. MaxQuickfix
BY Constants DEF Budget

LEMMA EmptyTypes == EmptyTree \in TreeType /\ NoWorktree \in WorktreeType
<1>1. EmptyTree \in TreeType
  BY DEF EmptyTree, TreeType, Mark
<1>2. EmptyTree.slot \in Slots
  BY DEF EmptyTree, Slots
<1> QED BY <1>1, <1>2, Constants DEF NoWorktree, WorktreeType

(* A tree with one of its files replaced. *)
LEMMA TreeFields ==
  ASSUME NEW tree \in TreeType
  PROVE /\ \A t \in Task, c \in Content \cup {Placeholder} :
             [tree EXCEPT !.slot[t] = c] \in TreeType
        /\ \A t \in Task, m \in Mark :
             [tree EXCEPT !.mark[t] = m] \in TreeType
             /\ [tree EXCEPT !.mark[t] = m].slot = tree.slot
        /\ \A s \in Slots : [tree EXCEPT !.slot = s] \in TreeType
        /\ \A m \in [Task -> Mark] :
             [tree EXCEPT !.mark = m] \in TreeType
             /\ [tree EXCEPT !.mark = m].slot = tree.slot
        /\ \A l \in Stamp \cup {NoLog} : [tree EXCEPT !.log = l] \in TreeType
        /\ tree.slot \in Slots /\ tree.mark \in [Task -> Mark]
        /\ tree.log \in Stamp \cup {NoLog}
BY DEF TreeType, Slots

LEMMA MergedTree ==
  ASSUME NEW b \in TreeType, NEW m \in TreeType, NEW w \in TreeType
  PROVE MergeTrees(b, m, w) \in TreeType
BY DEF MergeTrees, Merge, TreeType

-----------------------------------------------------------------------------
(* Frames.                                                                 *)

(* What Local says of a task, but for where main's commit is. *)
Others(t) ==
  \A u \in Task \ {t} :
    /\ pc'[u] = pc[u] /\ wt'[u] = wt[u]
    /\ mainLock' = u <=> mainLock = u
    /\ head' = head \/ ~Critical(u)

LEMMA OthersKeepLocal ==
  ASSUME NEW t \in Task, NEW u \in Task \ {t}, Local(u), Others(t)
  PROVE Local(u)'
BY DEF Local, Others, Counted, OnMain, Critical, Gating

(* Only a task that is free to take the lock, or holds it, changes it, and *)
(* only its holder moves main. *)
LocksAs(t) ==
  /\ mainLock' = mainLock \/ {mainLock, mainLock'} \subseteq {NoTask, t}
  /\ head' = head \/ mainLock = t

LEMMA OthersUntouched ==
  ASSUME Inv, NEW t \in Task, NEW place, Goto(t, place), LocksAs(t),
         \A u \in Task \ {t} : wt'[u] = wt[u]
  PROVE Others(t)
<1> SUFFICES ASSUME NEW u \in Task \ {t}
             PROVE /\ pc'[u] = pc[u] /\ wt'[u] = wt[u]
                   /\ mainLock' = u <=> mainLock = u
                   /\ head' = head \/ ~Critical(u)
  BY DEF Others
<1>1. pc'[u] = pc[u]
  BY DEF Inv, Types, Goto
<1>2. mainLock' = u <=> mainLock = u
  BY Constants DEF LocksAs
<1>3. head' = head \/ ~Critical(u)
  BY DEF LocksAs, Inv, Local
<1> QED BY <1>1, <1>2, <1>3

(* One step of a task. *)
LEMMA TaskStep ==
  ASSUME Inv, NEW t \in Task, NEW place, Goto(t, place), LocksAs(t),
         phase = "up", UNCHANGED <<phase, reset>>,
         \A u \in Task \ {t} : wt'[u] = wt[u],
         Types', Local(t)'
  PROVE Inv'
<1>1. \A u \in Task : Local(u)'
  BY OthersUntouched, OthersKeepLocal DEF Inv
<1>2. Global'
  BY Constants DEF Inv, Global, LocksAs
<1> QED BY <1>1, <1>2 DEF Inv

(* ... that leaves its worktree alone. *)
LEMMA PlainStep ==
  ASSUME Inv, NEW t \in Task, NEW place \in Place, Goto(t, place), LocksAs(t),
         phase = "up", UNCHANGED <<wt, phase, reset, stale>>,
         head' \in TreeType, work' \in TreeType,
         cargo' \in Task \cup {NoTask},
         faults' \in [commit : Nat, checkout : Nat, crash : Nat, reset : Nat],
         Local(t)'
  PROVE Inv'
<1>1. Types'
  BY DEF Inv, Types, Goto, LocksAs
<1> QED BY <1>1, TaskStep

(* ... that leaves main, its files and cargo alone. *)
LEMMA WorktreeStep ==
  ASSUME Inv, NEW t \in Task, NEW place \in Place, Goto(t, place), LocksAs(t),
         phase = "up", UNCHANGED <<head, work, phase, reset, stale, faults>>,
         cargo' \in Task \cup {NoTask},
         NEW w \in WorktreeType, wt' = [wt EXCEPT ![t] = w],
         Local(t)'
  PROVE Inv'
<1>1. Types' /\ \A u \in Task \ {t} : wt'[u] = wt[u]
  BY DEF Inv, Types, Goto, LocksAs
<1> QED BY <1>1, TaskStep

(* A task that holds no lock and goes where none is held. *)
Outside == {"idle", "allocate", "landed", "close", "failed", "giveUp", "ended"}

LEMMA OutsideLocal ==
  ASSUME NEW t \in Task, pc'[t] \in Outside, mainLock' # t
  PROVE Local(t)'
BY DEF Outside, Local, Counted, OnMain, Critical, Gating

-----------------------------------------------------------------------------
(* Marks.                                                                  *)

LEMMA PlaceAfter ==
  ASSUME Inv, NEW t \in Task, NEW place, Goto(t, place)
  PROVE pc'[t] = place
BY DEF Inv, Types, Goto

LEMMA MarkKeeps ==
  ASSUME Inv, NEW t \in Task, phase = "up", Start(t) \/ MarkDone(t) \/ MarkFailed(t)
  PROVE Inv'
<1> DEFINE place == IF pc[t] \in {"idle", "ended"} THEN "started" ELSE "closed"
<1>1. Goto(t, place) /\ place \in Place
  BY DEF Start, MarkDone, MarkFailed, Place
<1>2. PICK mark \in Mark : SaveMark(t, mark)
  BY DEF Start, MarkDone, MarkFailed, Mark
<1>3. work' \in TreeType /\ mainLock = NoTask /\ mainLock' = t
  BY <1>2, TreeFields DEF SaveMark, Inv, Types
<1>4. PICK w \in WorktreeType : wt' = [wt EXCEPT ![t] = w]
  <2>1. CASE Start(t)
    BY <2>1, EmptyTypes DEF Start
  <2>2. CASE wt' = wt
    BY <2>2 DEF Inv, Types
  <2> QED BY <2>1, <2>2 DEF Start, MarkDone, MarkFailed
<1>5. Types' /\ \A u \in Task \ {t} : wt'[u] = wt[u]
  BY <1>1, <1>2, <1>3, <1>4 DEF Inv, Types, Goto, SaveMark
<1>6. pc'[t] = place
  BY <1>1, PlaceAfter
<1>7. Local(t)'
  BY <1>3, <1>6 DEF Local, Counted, OnMain, Critical, Gating
<1>8. LocksAs(t) /\ UNCHANGED <<phase, reset>>
  BY <1>2, <1>3 DEF LocksAs, SaveMark
<1> HIDE DEF place
<1> QED BY <1>1, <1>5, <1>7, <1>8, TaskStep

LEMMA CommitKeeps ==
  ASSUME Inv, NEW t \in Task, phase = "up", CommitMark(t) \/ CommitMarkFails(t)
  PROVE Inv'
<1>1. Goto(t, Committed(t)) /\ Committed(t) \in Outside \cap Place
  BY DEF CommitMark, CommitMarkFails, Committed, Outside, Place
<1>2. mainLock = t /\ mainLock' = NoTask
  BY DEF CommitMark, CommitMarkFails, Inv, Local, Critical
<1>3. Local(t)'
  BY <1>1, <1>2, PlaceAfter, OutsideLocal, Constants
<1>4. /\ head' \in TreeType /\ work' \in TreeType /\ cargo' \in Task \cup {NoTask}
      /\ faults' \in [commit : Nat, checkout : Nat, crash : Nat, reset : Nat]
  BY DEF CommitMark, CommitMarkFails, Inv, Types
<1>5. LocksAs(t) /\ UNCHANGED <<wt, phase, reset, stale>>
  BY <1>2 DEF CommitMark, CommitMarkFails, LocksAs
<1> QED BY <1>1, <1>3, <1>4, <1>5, PlainStep

-----------------------------------------------------------------------------
(* The attempt.                                                            *)

(* A worktree with some of its fields replaced. *)
LEMMA WorktreeFields ==
  ASSUME NEW w \in WorktreeType
  PROVE /\ w.base \in TreeType /\ w.tree \in TreeType /\ w.gated \in Slots
        /\ w.attempt \in 1 .. MaxAttempts /\ w.fixes \in Nat
        /\ w.budget \in 0 .. MaxQuickfix /\ w.rebased \in BOOLEAN
BY DEF WorktreeType

(* The attempt a task is at. *)
LEMMA WorktreeOf ==
  ASSUME Inv, NEW t \in Task
  PROVE wt[t] \in WorktreeType
BY DEF Inv, Types

LEMMA AllocateKeeps ==
  ASSUME Inv, NEW t \in Task, phase = "up", Allocate(t)
  PROVE Inv'
<1> DEFINE w == [NoWorktree EXCEPT !.base = head, !.tree = head, !.attempt = wt[t].attempt]
<1>1. w \in WorktreeType /\ ~w.rebased /\ w.fixes = 0
  BY WorktreeOf, WorktreeFields, EmptyTypes DEF Inv, Types, WorktreeType, NoWorktree
<1>2. wt' = [wt EXCEPT ![t] = w]
  BY DEF Allocate
<1> HIDE DEF w
<1>3. wt'[t] = w /\ pc'[t] = "write"
  BY <1>2, PlaceAfter DEF Allocate, Inv, Types
<1>4. Local(t)'
  BY <1>1, <1>3, Constants DEF Allocate, Local, Counted, OnMain, Critical, Gating
<1>5. LocksAs(t) /\ Goto(t, "write") /\ "write" \in Place
  BY DEF LocksAs, Allocate, Place
<1> QED BY <1>1, <1>2, <1>4, <1>5, WorktreeStep DEF Allocate, Inv, Types

(* Writing a slot of the worktree. *)
LEMMA WrittenTree ==
  ASSUME Inv, NEW t \in Task, NEW c \in Content \cup {wt[t].tree.slot[t]}
  PROVE [wt[t].tree EXCEPT !.slot[t] = c] \in TreeType
<1>1. wt[t].tree \in TreeType
  BY WorktreeOf, WorktreeFields
<1>2. c \in Content \cup {Placeholder}
  BY <1>1, TreeFields DEF Slots
<1> QED BY <1>1, <1>2, TreeFields

LEMMA WriteKeeps ==
  ASSUME Inv, NEW t \in Task, phase = "up", Write(t)
  PROVE Inv'
<1>1. PICK c \in Content \cup {wt[t].tree.slot[t]} :
        wt' = [wt EXCEPT ![t].tree.slot[t] = c, ![t].budget = Budget(t)]
  BY DEF Write
<1> DEFINE w == [wt[t] EXCEPT !.tree = [wt[t].tree EXCEPT !.slot[t] = c], !.budget = Budget(t)]
<1>2. wt' = [wt EXCEPT ![t] = w]
  BY <1>1, WorktreeOf DEF Inv, Types, WorktreeType, TreeType
<1>3. /\ w \in WorktreeType /\ w.rebased = wt[t].rebased
      /\ w.fixes = wt[t].fixes /\ w.budget = Budget(t)
  BY WrittenTree, WorktreeOf, BudgetType DEF WorktreeType
<1> HIDE DEF w
<1>4. wt'[t] = w /\ pc'[t] = "gate"
  BY <1>2, PlaceAfter DEF Write, Inv, Types
<1>5. ~wt[t].rebased /\ wt[t].fixes = 0 /\ mainLock # t
  BY DEF Write, Inv, Local, Counted, Critical, Gating
<1>6. Local(t)'
  BY <1>3, <1>4, <1>5, BudgetType, Constants
     DEF Write, Local, Counted, OnMain, Critical, Gating
<1>7. LocksAs(t) /\ Goto(t, "gate") /\ "gate" \in Place
  BY DEF LocksAs, Write, Place
<1> QED BY <1>2, <1>3, <1>6, <1>7, WorktreeStep DEF Write, Inv, Types

(* Steps that fail an attempt, or leave it, where no lock is held. *)
LEMMA LeaveKeeps ==
  ASSUME Inv, NEW t \in Task, phase = "up", WriteFails(t) \/ RebaseConflicts(t)
  PROVE Inv'
<1>1. mainLock # t
  BY DEF WriteFails, RebaseConflicts, Inv, Local, Counted, Critical, Gating
<1>2. Goto(t, "failed") /\ LocksAs(t) /\ "failed" \in Place
  BY DEF WriteFails, RebaseConflicts, LocksAs, Place
<1>3. Local(t)'
  BY <1>1, <1>2, PlaceAfter, OutsideLocal DEF Outside, WriteFails, RebaseConflicts
<1> QED BY <1>2, <1>3, PlainStep DEF WriteFails, RebaseConflicts, Inv, Types

-----------------------------------------------------------------------------
(* The gate.                                                               *)

LEMMA GateStartsKeeps ==
  ASSUME Inv, NEW t \in Task, phase = "up", GateStarts(t)
  PROVE Inv'
<1>1. pc'[t] = "cargo" /\ pc[t] = "gate" /\ Local(t)
  BY PlaceAfter DEF GateStarts, Inv
<1>2. Local(t)'
  BY <1>1 DEF GateStarts, Local, Counted, OnMain, Critical, Gating
<1>3. LocksAs(t) /\ Goto(t, "cargo") /\ "cargo" \in Place
  BY DEF LocksAs, GateStarts, Place
<1> QED BY <1>2, <1>3, PlainStep DEF GateStarts, Inv, Types

LEMMA GatePassesKeeps ==
  ASSUME Inv, NEW t \in Task, phase = "up", GatePasses(t)
  PROVE Inv'
<1> DEFINE w == [wt[t] EXCEPT !.gated = wt[t].tree.slot]
           place == IF wt[t].rebased THEN "forward" ELSE "rebase"
<1>1. wt' = [wt EXCEPT ![t] = w]
  BY WorktreeOf DEF GatePasses, Inv, Types, WorktreeType
<1>2. wt[t].tree.slot \in Slots
  BY WorktreeOf, WorktreeFields, TreeFields
<1>3. /\ w \in WorktreeType /\ w.rebased = wt[t].rebased /\ w.fixes = wt[t].fixes
      /\ w.gated = w.tree.slot /\ w.base = wt[t].base
  BY <1>2, WorktreeOf DEF WorktreeType
<1> HIDE DEF w
<1>4. wt'[t] = w /\ pc'[t] = place /\ pc[t] = "cargo" /\ Local(t)
  BY <1>1, PlaceAfter DEF GatePasses, Inv, Types
<1>5. ~wt[t].rebased => wt[t].fixes <= MaxQuickfix
  BY <1>4, WorktreeOf, WorktreeFields, Constants DEF Local, Counted, Gating
<1>6. Local(t)'
  BY <1>3, <1>4, <1>5 DEF GatePasses, Local, Counted, OnMain, Critical, Gating
<1>7. LocksAs(t) /\ Goto(t, place) /\ place \in Place
  BY DEF LocksAs, GatePasses, Place
<1> HIDE DEF place
<1> QED BY <1>1, <1>3, <1>6, <1>7, WorktreeStep DEF GatePasses, Inv, Types
(* A failed gate is one of those the budget has left, so its dump has a    *)
(* stamp. *)
LEMMA GateFailsKeeps ==
  ASSUME Inv, NEW t \in Task, phase = "up", GateFails(t)
  PROVE Inv'
<1> DEFINE stamp == <<t, wt[t].attempt, wt[t].fixes>>
           left == IF wt[t].budget > 0 THEN wt[t].budget - 1 ELSE 0
           dumped == [wt[t].tree EXCEPT !.log = stamp]
           failed == wt[t].fixes + 1
           w == [wt[t] EXCEPT !.tree = dumped, !.fixes = failed, !.budget = left]
           place == IF wt[t].budget > 0 THEN "quickfix" ELSE "failed"
<1>1. Local(t) /\ pc[t] = "cargo"
  BY DEF Inv, GateFails
<1>2. wt[t].fixes \in Nat /\ wt[t].budget \in 0 .. MaxQuickfix /\ wt[t].attempt \in 1 .. MaxAttempts
  BY WorktreeOf, WorktreeFields
<1>3. wt[t].fixes + wt[t].budget <= IF wt[t].rebased THEN 2 * MaxQuickfix ELSE MaxQuickfix
  BY <1>1 DEF Local, Counted, Gating
<1>4. wt[t].fixes \in 0 .. 2 * MaxQuickfix + 1
  BY <1>2, <1>3, Constants
<1>5. stamp \in Stamp
  BY <1>2, <1>4 DEF Stamp
<1>6. dumped \in TreeType /\ failed \in Nat
  BY <1>2, <1>5, WorktreeOf, WorktreeFields, TreeFields
<1>7. wt' = [wt EXCEPT ![t] = w]
  BY WorktreeOf DEF GateFails, Inv, Types, WorktreeType, TreeType
<1>8. left \in 0 .. MaxQuickfix
  BY <1>2, Constants
<1> HIDE DEF stamp, left, dumped, failed
<1>9. /\ w \in WorktreeType /\ w.rebased = wt[t].rebased /\ w.base = wt[t].base
      /\ w.fixes = failed /\ w.budget = left
  BY <1>2, <1>6, <1>8, WorktreeOf DEF WorktreeType
<1> HIDE DEF w
<1>10. Goto(t, place) /\ place \in Place
  BY DEF GateFails, Place
<1>11. wt'[t] = w /\ pc'[t] = place
  BY <1>7, <1>10, PlaceAfter DEF Inv, Types
<1>12. CASE wt[t].budget > 0
  <2>1. mainLock' = mainLock /\ head' = head
    BY <1>12 DEF GateFails
  <2>2. w.fixes + w.budget = wt[t].fixes + wt[t].budget
    BY <1>2, <1>9, <1>12 DEF left, failed
  <2>3. Local(t)'
    BY <1>1, <1>3, <1>9, <1>11, <1>12, <2>1, <2>2
       DEF Local, Counted, OnMain, Critical, Gating
  <2>4. LocksAs(t)
    BY <2>1 DEF LocksAs
  <2> HIDE DEF place
  <2> QED BY <1>7, <1>9, <1>10, <2>3, <2>4, WorktreeStep DEF GateFails, Inv, Types
<1>13. CASE ~(wt[t].budget > 0)
  <2>1. mainLock' # t /\ LocksAs(t)
    BY <1>13, Constants DEF GateFails, ReleaseMain, LocksAs
  <2>2. Local(t)'
    BY <1>11, <1>13, <2>1, OutsideLocal DEF Outside
  <2> HIDE DEF place
  <2> QED BY <1>7, <1>9, <1>10, <2>1, <2>2, WorktreeStep DEF GateFails, Inv, Types
<1> QED BY <1>12, <1>13

LEMMA QuickFixKeeps ==
  ASSUME Inv, NEW t \in Task, phase = "up", QuickFix(t)
  PROVE Inv'
<1>1. PICK c \in Content \cup {wt[t].tree.slot[t]} :
        wt' = [wt EXCEPT ![t].tree.slot[t] = c]
  BY DEF QuickFix
<1> DEFINE w == [wt[t] EXCEPT !.tree = [wt[t].tree EXCEPT !.slot[t] = c]]
<1>2. wt' = [wt EXCEPT ![t] = w]
  BY <1>1, WorktreeOf DEF Inv, Types, WorktreeType, TreeType
<1>3. /\ w \in WorktreeType /\ w.rebased = wt[t].rebased /\ w.base = wt[t].base
      /\ w.fixes = wt[t].fixes /\ w.budget = wt[t].budget
  BY WrittenTree, WorktreeOf DEF WorktreeType
<1> HIDE DEF w
<1>4. wt'[t] = w /\ pc'[t] = "gate" /\ pc[t] = "quickfix" /\ Local(t)
  BY <1>2, PlaceAfter DEF QuickFix, Inv, Types
<1>5. Local(t)'
  BY <1>3, <1>4 DEF QuickFix, Local, Counted, OnMain, Critical, Gating
<1>6. LocksAs(t) /\ Goto(t, "gate") /\ "gate" \in Place
  BY DEF LocksAs, QuickFix, Place
<1> QED BY <1>2, <1>3, <1>5, <1>6, WorktreeStep DEF QuickFix, Inv, Types

LEMMA QuickFixFailsKeeps ==
  ASSUME Inv, NEW t \in Task, phase = "up", QuickFixFails(t)
  PROVE Inv'
<1>1. mainLock' # t /\ LocksAs(t)
  BY Constants DEF QuickFixFails, ReleaseMain, LocksAs
<1>2. Goto(t, "failed") /\ "failed" \in Place
  BY DEF QuickFixFails, Place
<1>3. Local(t)'
  BY <1>1, <1>2, PlaceAfter, OutsideLocal DEF Outside
<1> QED BY <1>1, <1>2, <1>3, PlainStep DEF QuickFixFails, Inv, Types

-----------------------------------------------------------------------------
(* Rebase and fast-forward.                                                *)

LEMMA RebaseKeeps ==
  ASSUME Inv, NEW t \in Task, phase = "up", Rebase(t)
  PROVE Inv'
<1> DEFINE merged == MergeTrees(wt[t].base, head, wt[t].tree)
           w == [wt[t] EXCEPT !.tree = merged, !.base = head,
                              !.rebased = TRUE, !.budget = Budget(t)]
<1>1. merged \in TreeType
  BY MergedTree, WorktreeOf, WorktreeFields DEF Inv, Types
<1>2. wt' = [wt EXCEPT ![t] = w]
  BY WorktreeOf DEF Rebase, Inv, Types, WorktreeType
<1> HIDE DEF merged
<1>3. /\ w \in WorktreeType /\ w.rebased /\ w.base = head
      /\ w.fixes = wt[t].fixes /\ w.budget = Budget(t)
  BY <1>1, WorktreeOf, BudgetType DEF WorktreeType, Inv, Types
<1> HIDE DEF w
<1>4. wt'[t] = w /\ pc'[t] = "gate" /\ pc[t] = "rebase" /\ Local(t)
  BY <1>2, PlaceAfter DEF Rebase, Inv, Types
<1>5. w.fixes \in Nat /\ w.fixes <= MaxQuickfix
  BY <1>3, <1>4, WorktreeOf, WorktreeFields DEF Local, Counted
<1>6. w.fixes + w.budget <= 2 * MaxQuickfix
  BY <1>3, <1>5, BudgetType, Constants
<1>7. Local(t)'
  BY <1>3, <1>4, <1>6 DEF Rebase, Local, Counted, OnMain, Critical, Gating
<1>8. LocksAs(t) /\ Goto(t, "gate") /\ "gate" \in Place
  BY DEF LocksAs, Rebase, Place
<1> QED BY <1>2, <1>3, <1>7, <1>8, WorktreeStep DEF Rebase, Inv, Types

(* A landing that ends, well or not, frees the lock. *)
LEMMA LandsKeeps ==
  ASSUME Inv, NEW t \in Task, phase = "up",
         NothingToLand(t) \/ Landed(t) \/ CheckoutFails(t)
  PROVE Inv'
<1>1. mainLock = t /\ mainLock' = NoTask
  BY DEF NothingToLand, Landed, CheckoutFails, Inv, Local, Critical
<1>2. PICK p \in {"landed", "failed"} : Goto(t, p)
  BY DEF NothingToLand, Landed, CheckoutFails
<1>3. p \in Place /\ LocksAs(t)
  BY <1>1 DEF Place, LocksAs
<1>4. Local(t)'
  BY <1>1, <1>2, PlaceAfter, OutsideLocal, Constants DEF Outside
<1>5. /\ UNCHANGED <<wt, phase, reset, stale, head, work, cargo>>
      /\ faults' \in [commit : Nat, checkout : Nat, crash : Nat, reset : Nat]
  BY DEF NothingToLand, Landed, CheckoutFails, Inv, Types
<1> QED BY <1>2, <1>3, <1>4, <1>5, PlainStep DEF Inv, Types

LEMMA MoveMainKeeps ==
  ASSUME Inv, NEW t \in Task, phase = "up", MoveMain(t)
  PROVE Inv'
<1>1. mainLock = t /\ mainLock' = t
  BY DEF MoveMain, Inv, Local, Critical
<1>2. Goto(t, "checkout") /\ "checkout" \in Place /\ LocksAs(t)
  BY <1>1 DEF MoveMain, Place, LocksAs
<1>3. pc'[t] = "checkout"
  BY <1>2, PlaceAfter
<1>4. Local(t)'
  BY <1>1, <1>3 DEF Local, Counted, OnMain, Critical, Gating
<1>5. head' \in TreeType
  BY WorktreeOf, WorktreeFields DEF MoveMain
<1> QED BY <1>2, <1>4, <1>5, PlainStep DEF MoveMain, Inv, Types

LEMMA CheckoutFileKeeps ==
  ASSUME Inv, NEW t \in Task, phase = "up", CheckoutFile(t)
  PROVE Inv'
<1>1. work' \in TreeType
  <2>1. /\ work \in TreeType /\ head.slot \in Slots /\ head.mark \in [Task -> Mark]
        /\ head.log \in Stamp \cup {NoLog}
    BY TreeFields DEF Inv, Types
  <2>2. CASE \E u \in Task : work' = [work EXCEPT !.slot[u] = head.slot[u]]
    BY <2>1, <2>2, TreeFields DEF Slots
  <2>3. CASE \E u \in Task : work' = [work EXCEPT !.mark[u] = head.mark[u]]
    BY <2>1, <2>3, TreeFields
  <2>4. CASE work' = [work EXCEPT !.log = head.log]
    BY <2>1, <2>4, TreeFields
  <2> QED BY <2>2, <2>3, <2>4 DEF CheckoutFile
<1>2. Goto(t, "checkout") /\ "checkout" \in Place /\ LocksAs(t)
  BY DEF CheckoutFile, Inv, Types, Goto, Place, LocksAs
<1>3. Local(t)'
  BY DEF CheckoutFile, Inv, Local, Counted, OnMain, Critical, Gating
<1> QED BY <1>1, <1>2, <1>3, PlainStep DEF CheckoutFile, Inv, Types

LEMMA AbandonKeeps ==
  ASSUME Inv, NEW t \in Task, phase = "up", Abandon(t)
  PROVE Inv'
<1>1. PICK place \in {"close", "allocate", "giveUp"} : Goto(t, place)
  BY DEF Abandon
<1>2. place \in Place /\ LocksAs(t)
  BY DEF Abandon, Place, LocksAs
<1>3. mainLock' # t
  BY Constants DEF Abandon
<1>4. Local(t)'
  BY <1>1, <1>3, PlaceAfter, OutsideLocal DEF Outside
<1>5. PICK w \in WorktreeType : wt' = [wt EXCEPT ![t] = w]
  <2>1. CASE wt' = wt
    BY <2>1, WorktreeOf DEF Inv, Types
  <2>2. CASE wt[t].attempt < MaxAttempts /\ wt' = [wt EXCEPT ![t].attempt = @ + 1]
    <3>1. wt[t].attempt + 1 \in 1 .. MaxAttempts
      BY <2>2, WorktreeOf, WorktreeFields, Constants
    <3>2. [wt[t] EXCEPT !.attempt = wt[t].attempt + 1] \in WorktreeType
      BY <3>1, WorktreeOf DEF WorktreeType
    <3> QED BY <2>2, <3>2, WorktreeOf DEF WorktreeType
  <2> QED BY <2>1, <2>2 DEF Abandon
<1> QED BY <1>1, <1>2, <1>4, <1>5, WorktreeStep DEF Abandon, Inv, Types

-----------------------------------------------------------------------------
(* Restarts and resets.                                                    *)

(* Marks and slots are taken back in a tree. *)
LEMMA SweptTree ==
  ASSUME NEW tree \in TreeType, NEW stages
  PROVE /\ [tree EXCEPT !.mark = [t \in Task |->
               IF t \in stages THEN "NotStarted" ELSE tree.mark[t]]] \in TreeType
        /\ [tree EXCEPT !.slot = [t \in Task |->
               IF t \in stages THEN Placeholder ELSE tree.slot[t]]] \in TreeType
<1>1. [t \in Task |-> IF t \in stages THEN "NotStarted" ELSE tree.mark[t]] \in [Task -> Mark]
  BY TreeFields DEF Mark
<1>2. [t \in Task |-> IF t \in stages THEN Placeholder ELSE tree.slot[t]] \in Slots
  BY TreeFields DEF Slots
<1> QED BY <1>1, <1>2, TreeFields

LEMMA CrashKeeps ==
  ASSUME Inv, Crash
  PROVE Inv'
<1>1. Types'
  BY EmptyTypes DEF Inv, Types, Crash, NoReset, Place
<1>2. \A t \in Task : pc'[t] = "idle" /\ mainLock' # t
  BY Constants DEF Crash
<1>3. \A t \in Task : Local(t)'
  BY <1>2, OutsideLocal DEF Outside
<1>4. Global'
  BY <1>2, Constants DEF Crash, Global, NoReset, Inv, Types
<1> QED BY <1>1, <1>3, <1>4 DEF Inv

LEMMA RecoverKeeps ==
  ASSUME Inv, Recover
  PROVE Inv'
<1>1. /\ phase # "up" /\ Crashes # 0 /\ mainLock = NoTask
      /\ \A t \in Task : pc[t] = "idle"
      /\ UNCHANGED <<mainLock, cargo, pc, wt, reset, faults>>
  BY DEF Recover, NothingStale, SaveReset, RenderReset, CommitReset, Inv, Global
<1>2. head' \in TreeType /\ work' \in TreeType
  <2>1. head \in TreeType /\ work \in TreeType
    BY DEF Inv, Types
  <2>2. CASE SaveReset
    BY <2>1, <2>2, SweptTree DEF SaveReset
  <2>3. CASE RenderReset
    BY <2>1, <2>3, SweptTree DEF RenderReset
  <2>4. CASE NothingStale \/ CommitReset
    BY <2>1, <2>4 DEF NothingStale, CommitReset
  <2> QED BY <2>2, <2>3, <2>4 DEF Recover
<1>3. phase' \in {"up", "render", "commit"} /\ stale' \in SUBSET Task
  BY DEF Recover, NothingStale, SaveReset, RenderReset, CommitReset, Interrupted, Inv, Types
<1>4. Types'
  BY <1>1, <1>2, <1>3 DEF Inv, Types
<1>5. \A t \in Task : Local(t)'
  BY <1>1, OutsideLocal, Constants DEF Outside
<1>6. Global'
  BY <1>1 DEF Inv, Global
<1> QED BY <1>4, <1>5, <1>6 DEF Inv

(* While the operator's reset is served, nobody holds the lock. *)
LEMMA ResetFrame ==
  ASSUME Inv, UNCHANGED <<pc, wt>>,
         {mainLock, mainLock'} \subseteq {NoTask, Operator},
         head' = head \/ mainLock = Operator
  PROVE \A t \in Task : Local(t)'
<1> SUFFICES ASSUME NEW t \in Task PROVE Local(t)'
  OBVIOUS
<1>1. ~Critical(t) /\ Local(t)
  BY Constants DEF Inv, Local
<1>2. mainLock' # t
  BY Constants
<1> QED BY <1>1, <1>2 DEF Local, Counted, OnMain, Critical, Gating

LEMMA ResetKeeps ==
  ASSUME Inv,
         \/ \E stages \in SUBSET Task : SaveOperatorReset(stages)
         \/ ServeReset \/ OperatorResetFails
  PROVE Inv'
<1>1. ASSUME NEW stages \in SUBSET Task, SaveOperatorReset(stages) PROVE Inv'
  <2>1. work' \in TreeType
    BY <1>1, SweptTree DEF SaveOperatorReset, Inv, Types
  <2>2. Types'
    BY <1>1, <2>1 DEF SaveOperatorReset, Inv, Types
  <2>3. \A t \in Task : Local(t)'
    BY <1>1, ResetFrame DEF SaveOperatorReset
  <2>4. Global'
    BY <1>1 DEF SaveOperatorReset, Inv, Global
  <2> QED BY <2>2, <2>3, <2>4 DEF Inv
<1>2. CASE RenderOperatorReset
  <2>1. mainLock = Operator
    BY <1>2 DEF RenderOperatorReset, Inv, Global
  <2>2. work' \in TreeType
    BY <1>2, SweptTree DEF RenderOperatorReset, Inv, Types
  <2>3. reset' \in [step : {"none", "render", "commit"}, of : SUBSET Task] /\ reset'.step = "commit"
    BY <1>2 DEF RenderOperatorReset, Inv, Types
  <2>4. Types'
    BY <1>2, <2>2, <2>3 DEF RenderOperatorReset, Inv, Types
  <2>5. \A t \in Task : Local(t)'
    BY <1>2, <2>1, ResetFrame DEF RenderOperatorReset
  <2>6. Global'
    BY <1>2, <2>1, <2>3, Constants DEF RenderOperatorReset, Inv, Global
  <2> QED BY <2>4, <2>5, <2>6 DEF Inv
<1>3. CASE CommitOperatorReset \/ OperatorResetFails
  <2>1. mainLock = Operator /\ mainLock' = NoTask /\ reset' = NoReset
    BY <1>3 DEF CommitOperatorReset, OperatorResetFails, Inv, Global
  <2>2. faults' \in [commit : Nat, checkout : Nat, crash : Nat, reset : Nat]
    BY <1>3 DEF CommitOperatorReset, OperatorResetFails, Inv, Types
  <2>3. Types'
    BY <1>3, <2>1, <2>2 DEF CommitOperatorReset, OperatorResetFails, Inv, Types, NoReset
  <2>4. \A t \in Task : Local(t)'
    BY <1>3, <2>1, ResetFrame DEF CommitOperatorReset, OperatorResetFails
  <2>5. Global'
    BY <1>3, <2>1, Constants DEF CommitOperatorReset, OperatorResetFails, Inv, Global, NoReset
  <2> QED BY <2>3, <2>4, <2>5 DEF Inv
<1> QED BY <1>1, <1>2, <1>3 DEF ServeReset

-----------------------------------------------------------------------------
LEMMA InitInv == Init => Inv
<1> SUFFICES ASSUME Init PROVE Inv
  OBVIOUS
<1>1. Types
  BY EmptyTypes DEF Init, Types, NoReset, Place
<1>2. \A t \in Task : Local(t)
  BY Constants DEF Init, Local, Counted, OnMain, Critical, Gating
<1>3. Global
  BY Constants DEF Init, Global, NoReset
<1> QED BY <1>1, <1>2, <1>3 DEF Inv

LEMMA StepInv ==
  ASSUME Inv, NEW t \in Task, Step(t) \/ Fault(t)
  PROVE Inv'
<1>1. CASE Start(t) \/ MarkDone(t) \/ MarkFailed(t)
  BY <1>1, MarkKeeps DEF Step, Fault
<1>2. CASE CommitMark(t) \/ CommitMarkFails(t)
  BY <1>2, CommitKeeps DEF Step, Fault
<1>3. CASE Allocate(t) \/ Write(t) \/ WriteFails(t) \/ RebaseConflicts(t)
  BY <1>3, AllocateKeeps, WriteKeeps, LeaveKeeps DEF Step, Fault
<1>4. CASE GateStarts(t) \/ GatePasses(t) \/ GateFails(t)
  BY <1>4, GateStartsKeeps, GatePassesKeeps, GateFailsKeeps DEF Step, Fault
<1>5. CASE QuickFix(t) \/ QuickFixFails(t)
  BY <1>5, QuickFixKeeps, QuickFixFailsKeeps DEF Step, Fault
<1>6. CASE Rebase(t) \/ NothingToLand(t) \/ Landed(t) \/ CheckoutFails(t)
  BY <1>6, RebaseKeeps, LandsKeeps DEF Step, Fault
<1>7. CASE MoveMain(t) \/ CheckoutFile(t) \/ Abandon(t)
  BY <1>7, MoveMainKeeps, CheckoutFileKeeps, AbandonKeeps DEF Step, Fault
<1> QED BY <1>1, <1>2, <1>3, <1>4, <1>5, <1>6, <1>7 DEF Step, Fault

LEMMA NextInv ==
  ASSUME Inv, [Next]_vars
  PROVE Inv'
<1>1. CASE UNCHANGED vars
  <2>1. Types' /\ Global'
    BY <1>1 DEF vars, Inv, Types, Global
  <2>2. \A t \in Task : Local(t)'
    BY <1>1 DEF vars, Inv, Local, Counted, OnMain, Critical
  <2> QED BY <2>1, <2>2 DEF Inv
<1> QED BY <1>1, StepInv, ResetKeeps, RecoverKeeps, CrashKeeps DEF Next

LEMMA InvHolds == Spec => []Inv
BY InitInv, NextInv, PTL DEF Spec

-----------------------------------------------------------------------------
(* The theorems that hold whatever fails.                                  *)

(* The trees, worktrees and locks have their types: the stamps of the gate *)
(* log never exceed the gates an attempt may fail.                         *)
THEOREM TypeCorrect == Spec => []TypeOK
<1>1. Inv => TypeOK
  BY DEF Inv, Types, TypeOK, WorktreeType, Slots
<1> QED BY <1>1, InvHolds, PTL

(* A branch that has been rebased stands on main until it lands, whatever  *)
(* crashes, fails or is reset meanwhile.                                   *)
THEOREM RebasedStaysOnMain == Spec => []ForwardDescends
<1>1. Inv => ForwardDescends
  BY DEF Inv, Local, OnMain, ForwardDescends
<1> QED BY <1>1, InvHolds, PTL

(* Whoever is past its rebase, or between a mark and its commit, is the    *)
(* one that holds main_lock: two landings, or a landing and the commit of  *)
(* a mark, never overlap.                                                  *)
OneLander ==
  \A t, u \in Task :
    /\ pc[t] \in {"started", "closed", "forward", "checkout"}
    /\ pc[u] \in {"started", "closed", "forward", "checkout"}
    => t = u

(* main_lock excludes the landings and marks of all tasks.                 *)
THEOREM LandingsExclude == Spec => []OneLander
<1>1. Inv => OneLander
  BY DEF Inv, Local, Critical, OneLander
<1> QED BY <1>1, InvHolds, PTL

-----------------------------------------------------------------------------
(* Where git does not fail.                                                *)

GitWorks == CommitFaults = 0 /\ CheckoutFaults = 0

(* Between a crash and the first commit of a mark, the files may be behind *)
(* main or ahead of it. *)
Settled == Crashes = 0 \/ \E t \in Task : pc[t] # "idle"

(* The lock is not held to change the files or main. *)
Quiet == reset.step = "none" /\ \A t \in Task : pc[t] \notin {"started", "closed", "checkout"}

FilesInv == phase = "up" /\ Settled /\ Quiet => work = head

LEMMA InitFiles == Init => FilesInv
BY DEF Init, FilesInv

(* A step that leaves main and its files alone, and was not the end of a   *)
(* change. *)
LEMMA FilesFrame ==
  ASSUME Inv, FilesInv, NEW t \in Task, NEW place, Goto(t, place), phase = "up",
         UNCHANGED <<head, work, reset>>,
         pc[t] \notin {"idle", "started", "closed", "checkout"}
  PROVE FilesInv'
<1>1. Quiet' => Quiet
  BY DEF Quiet, Goto, Inv, Types
<1>2. Settled
  BY DEF Settled
<1> QED BY <1>1, <1>2 DEF FilesInv

LEMMA StepFiles ==
  ASSUME Inv, FilesInv, GitWorks, NEW t \in Task, Step(t) \/ Fault(t)
  PROVE FilesInv'
<1>1. phase = "up"
  BY DEF Step, Fault
<1>2. CASE Start(t) \/ MarkDone(t) \/ MarkFailed(t)
  <2>1. pc'[t] \in {"started", "closed"}
    BY <1>2, PlaceAfter DEF Start, MarkDone, MarkFailed
  <2> QED BY <2>1 DEF FilesInv, Quiet
<1>3. CASE CommitMark(t)
  BY <1>3 DEF CommitMark, FilesInv
<1>4. CASE Fault(t)
  BY <1>4 DEF Fault, CommitMarkFails, CheckoutFails, GitWorks, Inv, Types
<1>5. CASE \/ Allocate(t) \/ Write(t) \/ WriteFails(t) \/ GateStarts(t) \/ GatePasses(t)
           \/ GateFails(t) \/ QuickFix(t) \/ QuickFixFails(t) \/ Rebase(t)
           \/ RebaseConflicts(t) \/ NothingToLand(t) \/ Abandon(t)
  <2>1. /\ pc[t] \notin {"idle", "started", "closed", "checkout"}
        /\ UNCHANGED <<head, work, reset>>
    BY <1>5 DEF Allocate, Write, WriteFails, GateStarts, GatePasses, GateFails, QuickFix,
       QuickFixFails, Rebase, RebaseConflicts, NothingToLand, Abandon
  <2>2. \E place : Goto(t, place)
    BY <1>5 DEF Allocate, Write, WriteFails, GateStarts, GatePasses, GateFails, QuickFix,
       QuickFixFails, Rebase, RebaseConflicts, NothingToLand, Abandon
  <2> QED BY <1>1, <2>1, <2>2, FilesFrame
<1>6. CASE MoveMain(t) \/ CheckoutFile(t)
  <2>1. pc'[t] = "checkout"
    BY <1>6, PlaceAfter DEF MoveMain, CheckoutFile
  <2> QED BY <2>1 DEF FilesInv, Quiet
<1>7. CASE Landed(t)
  BY <1>7 DEF Landed, FilesInv
<1> QED BY <1>2, <1>3, <1>4, <1>5, <1>6, <1>7 DEF Step

LEMMA NextFiles ==
  ASSUME Inv, FilesInv, GitWorks, [Next]_vars
  PROVE FilesInv'
<1>1. ASSUME NEW t \in Task, Step(t) \/ Fault(t) PROVE FilesInv'
  BY <1>1, StepFiles
<1>2. CASE (\E stages \in SUBSET Task : SaveOperatorReset(stages)) \/ RenderOperatorReset
  <2>1. reset'.step # "none"
    BY <1>2 DEF SaveOperatorReset, RenderOperatorReset, Inv, Types
  <2> QED BY <2>1 DEF FilesInv, Quiet
<1>3. CASE CommitOperatorReset
  BY <1>3 DEF CommitOperatorReset, FilesInv
<1>4. CASE OperatorResetFails
  BY <1>4 DEF OperatorResetFails, GitWorks, Inv, Types
<1>5. CASE Recover
  <2>1. Crashes # 0
    BY <1>5 DEF Recover, NothingStale, SaveReset, RenderReset, CommitReset, Inv, Global
  <2>2. \A t \in Task : pc'[t] = "idle"
    BY <1>5 DEF Recover, NothingStale, SaveReset, RenderReset, CommitReset, Inv, Global
  <2> QED BY <2>1, <2>2 DEF FilesInv, Settled
<1>6. CASE Crash
  BY <1>6 DEF Crash, FilesInv
<1>7. CASE UNCHANGED vars
  BY <1>7 DEF vars, FilesInv, Settled, Quiet
<1> QED BY <1>1, <1>2, <1>3, <1>4, <1>5, <1>6, <1>7 DEF Next, ServeReset

(* What is gated is what main moves to, where nothing crashes either: the  *)
(* commit of a mark finds the slots of main's commit in the files. *)
MarksOnly == \A t \in Task : pc[t] \in {"started", "closed"} => work.slot = head.slot

LEMMA InitMarks == Init => MarksOnly
BY DEF Init, MarksOnly

LEMMA NextMarks ==
  ASSUME Inv, FilesInv, MarksOnly, Crashes = 0, [Next]_vars
  PROVE MarksOnly'
<1>1. ASSUME NEW t \in Task, Step(t) \/ Fault(t) PROVE MarksOnly'
  <2>1. CASE Start(t) \/ MarkDone(t) \/ MarkFailed(t)
    <3>1. PICK mark \in Mark : SaveMark(t, mark)
      BY <2>1 DEF Start, MarkDone, MarkFailed, Mark
    <3>2. mainLock = NoTask /\ reset.step = "none"
      BY <3>1, Constants DEF SaveMark, Inv, Global, Types
    <3>3. work = head
      BY <1>1, <3>2, Constants
         DEF FilesInv, Settled, Quiet, Inv, Local, Critical, Step, Fault
    <3>4. work'.slot = head'.slot
      BY <3>1, <3>3, TreeFields DEF SaveMark, Inv, Types
    <3> QED BY <3>4 DEF MarksOnly
  <2>2. CASE CommitMark(t)
    BY <2>2 DEF CommitMark, MarksOnly
  <2>3. CASE \E place : /\ Goto(t, place) /\ place \notin {"started", "closed"}
                        /\ UNCHANGED <<head, work>>
    BY <2>3 DEF MarksOnly, Goto, Inv, Types
  <2>4. CASE MoveMain(t) \/ CheckoutFile(t)
    <3>1. mainLock = t /\ mainLock' = t
      BY <2>4 DEF MoveMain, CheckoutFile, Inv, Local, Critical
    <3>2. pc'[t] = "checkout"
      BY <2>4, PlaceAfter DEF MoveMain, CheckoutFile, Inv, Types
    <3>3. \A u \in Task : pc'[u] \in {"started", "closed"} => u = t
      BY <1>1, <3>1, StepInv DEF Inv, Local, Critical
    <3> QED BY <3>2, <3>3 DEF MarksOnly
  <2>5. ASSUME \/ Allocate(t) \/ Write(t) \/ WriteFails(t) \/ GateStarts(t) \/ GatePasses(t)
               \/ GateFails(t) \/ QuickFix(t) \/ QuickFixFails(t) \/ Rebase(t)
               \/ RebaseConflicts(t) \/ NothingToLand(t) \/ Landed(t) \/ Abandon(t)
               \/ CommitMarkFails(t) \/ CheckoutFails(t)
        PROVE \E place : /\ Goto(t, place) /\ place \notin {"started", "closed"}
                         /\ UNCHANGED <<head, work>>
    BY <2>5 DEF Allocate, Write, WriteFails, GateStarts, GatePasses, GateFails, QuickFix,
       QuickFixFails, Rebase, RebaseConflicts, NothingToLand, Landed, Abandon,
       CommitMarkFails, CheckoutFails, Committed
  <2> QED BY <1>1, <2>1, <2>2, <2>3, <2>4, <2>5 DEF Step, Fault
<1>2. CASE \/ \E stages \in SUBSET Task : SaveOperatorReset(stages)
           \/ ServeReset \/ OperatorResetFails
  <2>1. {mainLock, mainLock'} \subseteq {NoTask, Operator} /\ UNCHANGED pc
    BY <1>2 DEF SaveOperatorReset, ServeReset, RenderOperatorReset, CommitOperatorReset,
       OperatorResetFails, Inv, Global, Types
  <2>2. \A t \in Task : pc'[t] \notin {"started", "closed"}
    BY <2>1, Constants DEF Inv, Local, Critical
  <2> QED BY <2>2 DEF MarksOnly
<1>3. CASE Recover
  BY <1>3 DEF Recover, NothingStale, SaveReset, RenderReset, CommitReset, Inv, Global
<1>4. CASE Crash
  BY <1>4 DEF Crash, MarksOnly
<1>5. CASE UNCHANGED vars
  BY <1>5 DEF vars, MarksOnly
<1> QED BY <1>1, <1>2, <1>3, <1>4, <1>5 DEF Next

(* Where git works, whoever finds main_lock free and tasks running finds   *)
(* the files of the main workdir equal to main's commit.                   *)
THEOREM FilesStayHead ==
  ASSUME GitWorks
  PROVE Spec => []FilesAreHead
<1>1. Inv /\ FilesInv /\ [Next]_vars => FilesInv'
  BY NextFiles
<1>2. Inv /\ FilesInv => FilesAreHead
  BY Constants DEF Inv, Local, Critical, Global, FilesInv, FilesAreHead, Settled, Quiet
<1> QED BY <1>1, <1>2, InvHolds, InitFiles, PTL DEF Spec

(* A step that changes the slots of main. *)
LEMMA MoverHasGated ==
  ASSUME Inv, MarksOnly, Crashes = 0, Next, head'.slot # head.slot
  PROVE \/ phase # "up"
        \/ mainLock = Operator
        \/ \E t \in Task : mainLock = t /\ head'.slot = wt[t].gated
<1>1. head' # head
  OBVIOUS
<1>2. ASSUME NEW t \in Task, Step(t) \/ Fault(t)
      PROVE \E u \in Task : mainLock = u /\ head'.slot = wt[u].gated
  <2>1. CASE CommitMark(t)
    BY <1>1, <2>1 DEF CommitMark, MarksOnly
  <2>2. CASE MoveMain(t)
    BY <2>2 DEF MoveMain, Inv, Local, Critical, OnMain
  <2>3. CASE ~CommitMark(t) /\ ~MoveMain(t)
    BY <1>1, <1>2, <2>3
       DEF Step, Fault, Start, MarkDone, MarkFailed, SaveMark, CommitMarkFails, CheckoutFails,
           Allocate, Write, WriteFails, GateStarts, GatePasses, GateFails, QuickFix,
           QuickFixFails, Rebase, RebaseConflicts, NothingToLand, CheckoutFile, Landed, Abandon
  <2> QED BY <2>1, <2>2, <2>3
<1>3. CASE \/ \E stages \in SUBSET Task : SaveOperatorReset(stages)
           \/ ServeReset \/ OperatorResetFails
  BY <1>1, <1>3 DEF SaveOperatorReset, ServeReset, RenderOperatorReset, CommitOperatorReset,
     OperatorResetFails, Inv, Global
<1>4. CASE Recover
  BY <1>4 DEF Recover, NothingStale, SaveReset, RenderReset, CommitReset
<1>5. CASE Crash
  BY <1>1, <1>5 DEF Crash
<1> QED BY <1>2, <1>3, <1>4, <1>5 DEF Next

(* Where git works and nothing crashes, the slots on main change only to   *)
(* what the last gate of the landing task has accepted, or by a reset.     *)
THEOREM MainMovesToGated ==
  ASSUME GitWorks, Crashes = 0
  PROVE Spec => MainMovesAsGated
<1>1. Init => Inv /\ FilesInv /\ MarksOnly
  BY InitInv, InitFiles, InitMarks
<1>2. Inv /\ FilesInv /\ MarksOnly /\ [Next]_vars => (Inv /\ FilesInv /\ MarksOnly)'
  BY NextInv, NextFiles, NextMarks
<1>3. ASSUME Inv, MarksOnly, [Next]_vars
      PROVE [head'.slot # head.slot =>
               \/ phase # "up"
               \/ mainLock = Operator
               \/ \E t \in Task : mainLock = t /\ head'.slot = wt[t].gated]_vars
  BY <1>3, MoverHasGated
<1> QED BY <1>1, <1>2, <1>3, PTL DEF Spec, MainMovesAsGated

-----------------------------------------------------------------------------
(* Landing implements MainLine, for any number of tasks, contents,         *)
(* attempts, quickfix turns and crashes, as long as git works and nobody   *)
(* resets a node while its task runs; and with the same invariant the work *)
(* of a finished task is on main and a finished spec has been authored.    *)

(* A task that has been spawned and has not yet marked how it ended. *)
Flying == Place \ {"idle", "closed", "ended"}

(* A task that has a branch of its own. *)
Branching == {"write", "gate", "cargo", "quickfix", "rebase", "forward"}

(* A branch differs from where it stands only in the slot of its task and  *)
(* the gate log, and main still has the slot the branch began with.        *)
OwnSlot(t) ==
  pc[t] \in Branching =>
    /\ wt[t].tree.mark = wt[t].base.mark
    /\ \A u \in Task \ {t} : wt[t].tree.slot[u] = wt[t].base.slot[u]
    /\ wt[t].base.slot[t] = head.slot[t]

(* Between the moving of the ref and the end of the checkout, the files    *)
(* lack nothing of main's commit but the slot that lands.                  *)
CheckingOut(t) ==
  pc[t] = "checkout" =>
    /\ head.slot = wt[t].gated
    /\ head.mark = work.mark
    /\ \A u \in Task \ {t} : head.slot[u] = work.slot[u]

HasLanded(t) ==
  \/ pc[t] \in {"landed", "close"}
  \/ pc[t] \in {"closed", "ended"} /\ work.mark[t] = "Done"

Delivered(t) ==
  HasLanded(t) => work.slot[t] = wt[t].gated[t] /\ head.slot[t] = wt[t].gated[t]

IsOpen(t) == pc[t] \in Flying => work.mark[t] = "InProgress"

(* The commit of a mark carries no slot, unless nothing has run since the  *)
(* process started.                                                        *)
Marking(t) ==
  pc[t] \in {"started", "closed"} /\ (\E u \in Task : pc[u] \notin {"idle", "started"})
    => work.slot = head.slot

Authored(t) ==
  t \in SpecTasks =>
    /\ pc[t] \in Branching \ {"write"} => wt[t].tree.slot[t] # Placeholder
    /\ pc[t] \in {"forward", "checkout", "landed", "close"} => wt[t].gated[t] # Placeholder
    /\ work.mark[t] = "Done" => work.slot[t] # Placeholder

Line(t) ==
  OwnSlot(t) /\ CheckingOut(t) /\ Delivered(t) /\ IsOpen(t) /\ Marking(t) /\ Authored(t)

(* The sweep wipes only what it has reopened. *)
Sweeping == phase = "render" => \A t \in stale : work.mark[t] = "NotStarted"

LineInv == reset = NoReset /\ Sweeping /\ \A t \in Task : Line(t)

-----------------------------------------------------------------------------
(* Frames.                                                                 *)

(* Whoever finds the lock free, once something runs, finds main's commit   *)
(* in the files.                                                           *)
LEMMA FreeLockFiles ==
  ASSUME Inv, FilesInv, LineInv, phase = "up", mainLock = NoTask,
         NEW u \in Task, pc[u] # "idle"
  PROVE work = head
<1>1. Settled
  BY DEF Settled
<1>2. Quiet
  BY Constants DEF Quiet, LineInv, NoReset, Inv, Local, Critical
<1> QED BY <1>1, <1>2 DEF FilesInv

(* So does whoever holds it for its landing. *)
LEMMA HolderFiles ==
  ASSUME Inv, FilesInv, LineInv, phase = "up", NEW t \in Task, pc[t] = "forward"
  PROVE work = head
<1>1. Settled
  BY DEF Settled
<1>2. mainLock = t
  BY DEF Inv, Local, Critical
<1>3. Quiet
  BY <1>2 DEF Quiet, LineInv, NoReset, Inv, Local, Critical
<1> QED BY <1>1, <1>3 DEF FilesInv

(* What Line says of a task that does not move. *)
Steady(t) ==
  \A u \in Task \ {t} :
    /\ pc'[u] = pc[u] /\ wt'[u] = wt[u]
    /\ work'.mark[u] = work.mark[u] /\ work'.slot[u] = work.slot[u]
    /\ pc[u] \in Branching \/ HasLanded(u) => head'.slot[u] = head.slot[u]
    /\ pc[u] \in {"started", "closed", "checkout"} =>
         /\ head' = head /\ work' = work
         /\ pc'[t] \notin {"idle", "started"} => pc[t] \notin {"idle", "started"}

LEMMA SteadyKeepsLine ==
  ASSUME NEW t \in Task, NEW u \in Task \ {t}, Line(u), Steady(t)
  PROVE Line(u)'
<1>1. OwnSlot(u)' /\ IsOpen(u)' /\ Delivered(u)' /\ CheckingOut(u)'
  BY DEF Steady, Line, OwnSlot, CheckingOut, Delivered, HasLanded, IsOpen
<1>2. Authored(u)'
  BY DEF Steady, Line, Authored
<1>3. Marking(u)'
  <2> SUFFICES ASSUME pc'[u] \in {"started", "closed"},
                      NEW v \in Task, pc'[v] \notin {"idle", "started"}
               PROVE work'.slot = head'.slot
    BY DEF Marking
  <2>1. pc[v] \notin {"idle", "started"}
    BY DEF Steady
  <2> QED BY <2>1 DEF Steady, Line, Marking
<1> QED BY <1>1, <1>2, <1>3 DEF Line

LEMMA TaskLine ==
  ASSUME LineInv, NEW t \in Task, phase = "up", UNCHANGED <<phase, reset>>,
         Steady(t), Line(t)'
  PROVE LineInv'
BY SteadyKeepsLine DEF LineInv, Sweeping

(* A step that leaves main and its files alone. *)
LEMMA SteadyAside ==
  ASSUME Inv, NEW t \in Task, NEW place, Goto(t, place), pc[t] \notin {"idle", "started"},
         UNCHANGED <<head, work>>, \A u \in Task \ {t} : wt'[u] = wt[u]
  PROVE Steady(t)
BY DEF Steady, Goto, Inv, Types

(* Changing the mark of one task. *)
LEMMA MarkedTree ==
  ASSUME Inv, NEW t \in Task, NEW mark \in Mark, SaveMark(t, mark)
  PROVE /\ work'.slot = work.slot /\ work'.mark[t] = mark
        /\ \A u \in Task \ {t} : work'.mark[u] = work.mark[u]
        /\ work' = [work EXCEPT !.mark = [work.mark EXCEPT ![t] = mark]]
BY DEF SaveMark, Inv, Types, TreeType

-----------------------------------------------------------------------------
(* The steps of a task.                                                    *)

LEMMA MarkLine ==
  ASSUME Inv, FilesInv, LineInv, NEW t \in Task, phase = "up",
         Start(t) \/ MarkDone(t) \/ MarkFailed(t)
  PROVE LineInv'
<1> DEFINE place == IF pc[t] \in {"idle", "ended"} THEN "started" ELSE "closed"
<1>1. Goto(t, place) /\ \A u \in Task \ {t} : wt'[u] = wt[u]
  BY DEF Start, MarkDone, MarkFailed, Inv, Types
<1>2. PICK mark \in Mark :
        /\ SaveMark(t, mark)
        /\ place = "started" => mark = "InProgress"
        /\ mark = "Done" => pc[t] = "close" /\ wt'[t] = wt[t]
  BY DEF Start, MarkDone, MarkFailed, Mark
<1>3. /\ work'.slot = work.slot /\ work'.mark[t] = mark
      /\ \A u \in Task \ {t} : work'.mark[u] = work.mark[u]
  BY <1>2, MarkedTree
<1>4. /\ mainLock = NoTask /\ UNCHANGED <<head, phase, reset>>
      /\ pc'[t] = place /\ \A u \in Task \ {t} : pc'[u] = pc[u]
  BY <1>1, <1>2 DEF SaveMark, Goto, Inv, Types
<1>5. Steady(t)
  BY <1>1, <1>3, <1>4, Constants DEF Steady, Inv, Local, Critical
<1>6. Marking(t)'
  <2> SUFFICES ASSUME NEW u \in Task, pc'[u] \notin {"idle", "started"}
               PROVE work'.slot = head'.slot
    BY DEF Marking
  <2>1. pc[u] # "idle"
    BY <1>4
  <2> QED BY <1>3, <1>4, <2>1, FreeLockFiles
<1>7. Delivered(t)' /\ Authored(t)'
  BY <1>2, <1>3, <1>4 DEF LineInv, Line, Delivered, HasLanded, Authored, Branching
<1>8. OwnSlot(t)' /\ CheckingOut(t)' /\ IsOpen(t)'
  BY <1>2, <1>3, <1>4 DEF OwnSlot, CheckingOut, IsOpen, Branching, Flying
<1> HIDE DEF place
<1> QED BY <1>4, <1>5, <1>6, <1>7, <1>8, TaskLine DEF Line

LEMMA CommitLine ==
  ASSUME Inv, LineInv, NEW t \in Task, phase = "up", CommitMark(t)
  PROVE LineInv'
<1>1. /\ pc[t] \in {"started", "closed"} /\ mainLock = t
      /\ head' = work /\ UNCHANGED <<work, wt, phase, reset>>
  BY DEF CommitMark, Inv, Local, Critical
<1>2. /\ pc'[t] = Committed(t) /\ \A u \in Task \ {t} : pc'[u] = pc[u]
  BY DEF CommitMark, Goto, Inv, Types
<1>3. ASSUME NEW u \in Task \ {t}
      PROVE /\ pc[u] \in Branching \/ HasLanded(u) => head'.slot[u] = head.slot[u]
            /\ pc[u] \notin {"started", "closed", "checkout"}
  BY <1>1 DEF LineInv, Line, Marking, Branching, HasLanded, Inv, Local, Critical
<1>4. Steady(t)
  BY <1>1, <1>2, <1>3 DEF Steady
<1>5. Delivered(t)' /\ Authored(t)' /\ IsOpen(t)'
  BY <1>1, <1>2
     DEF LineInv, Line, Delivered, HasLanded, Authored, Branching, IsOpen, Flying, Place, Committed
<1>6. OwnSlot(t)' /\ CheckingOut(t)' /\ Marking(t)'
  BY <1>2 DEF OwnSlot, CheckingOut, Marking, Branching, Committed
<1> QED BY <1>1, <1>4, <1>5, <1>6, TaskLine DEF Line

(* A step within the attempt. *)
LEMMA AsideLine ==
  ASSUME Inv, LineInv, NEW t \in Task, NEW place, Goto(t, place), phase = "up",
         pc[t] \in Flying \ {"started"}, place \in Flying \ {"started", "checkout"},
         UNCHANGED <<head, work, phase, reset>>,
         \A u \in Task \ {t} : wt'[u] = wt[u],
         OwnSlot(t)', Delivered(t)',
         t \in SpecTasks =>
           /\ place \in Branching \ {"write"} => wt'[t].tree.slot[t] # Placeholder
           /\ place \in {"forward", "landed", "close"} => wt'[t].gated[t] # Placeholder
  PROVE LineInv'
<1>1. pc'[t] = place
  BY DEF Goto, Inv, Types
<1>2. Steady(t)
  BY SteadyAside DEF Flying
<1>3. IsOpen(t)' /\ CheckingOut(t)' /\ Marking(t)'
  BY <1>1 DEF LineInv, Line, IsOpen, CheckingOut, Marking, Flying
<1>4. Authored(t)'
  BY <1>1 DEF LineInv, Line, Authored, Flying
<1> QED BY <1>2, <1>3, <1>4, TaskLine DEF Line

LEMMA AllocateLine ==
  ASSUME Inv, LineInv, NEW t \in Task, phase = "up", Allocate(t)
  PROVE LineInv'
<1>1. /\ Goto(t, "write") /\ pc[t] = "allocate" /\ UNCHANGED <<head, work, phase, reset>>
      /\ \A u \in Task \ {t} : wt'[u] = wt[u]
      /\ wt'[t].base = head /\ wt'[t].tree = head
  BY DEF Allocate, Inv, Types, NoWorktree
<1>2. pc'[t] = "write"
  BY <1>1, PlaceAfter
<1>3. OwnSlot(t)' /\ Delivered(t)'
  BY <1>1, <1>2 DEF OwnSlot, Delivered, HasLanded
<1> QED BY <1>1, <1>3, AsideLine DEF Flying, Place, Branching

(* Writing the slot of the task leaves the rest of its branch alone. *)
LEMMA WriteLine ==
  ASSUME Inv, LineInv, NEW t \in Task, phase = "up", Write(t) \/ QuickFix(t)
  PROVE LineInv'
<1>1. /\ Goto(t, "gate") /\ pc[t] \in {"write", "quickfix"}
      /\ UNCHANGED <<head, work, phase, reset>>
      /\ \A u \in Task \ {t} : wt'[u] = wt[u]
  BY DEF Write, QuickFix, Inv, Types
<1>2. PICK c \in Content \cup {wt[t].tree.slot[t]} :
        /\ wt'[t].tree = [wt[t].tree EXCEPT !.slot[t] = c]
        /\ wt'[t].base = wt[t].base
        /\ t \in SpecTasks => c # Placeholder
  <2>1. Placeholder \notin Content
    BY LandingAssumption DEF LandingAssumption, Placeholder
  <2>2. pc[t] = "quickfix" /\ t \in SpecTasks => wt[t].tree.slot[t] # Placeholder
    BY DEF LineInv, Line, Authored, Branching
  <2>3. wt[t] \in WorktreeType /\ wt \in [Task -> WorktreeType]
    BY DEF Inv, Types
  <2>4. CASE Write(t)
    <3>1. PICK c \in Content \cup {wt[t].tree.slot[t]} :
            /\ t \in SpecTasks => c # Placeholder
            /\ wt' = [wt EXCEPT ![t].tree.slot[t] = c, ![t].budget = Budget(t)]
      BY <2>4 DEF Write
    <3>2. /\ wt'[t].tree = [wt[t].tree EXCEPT !.slot[t] = c]
          /\ wt'[t].base = wt[t].base
      BY <2>3, <3>1 DEF WorktreeType
    <3> QED BY <3>1, <3>2
  <2>5. CASE QuickFix(t)
    <3>1. PICK c \in Content \cup {wt[t].tree.slot[t]} :
            wt' = [wt EXCEPT ![t].tree.slot[t] = c]
      BY <2>5 DEF QuickFix
    <3>2. /\ wt'[t].tree = [wt[t].tree EXCEPT !.slot[t] = c]
          /\ wt'[t].base = wt[t].base
      BY <2>3, <3>1 DEF WorktreeType
    <3>3. t \in SpecTasks => c # Placeholder
      BY <2>1, <2>2, <2>5, <3>1 DEF QuickFix
    <3> QED BY <3>2, <3>3
  <2> QED BY <2>4, <2>5
<1>3. /\ wt'[t].tree.mark = wt[t].tree.mark /\ wt'[t].tree.slot[t] = c
      /\ \A u \in Task \ {t} : wt'[t].tree.slot[u] = wt[t].tree.slot[u]
  BY <1>2, WorktreeOf, WorktreeFields DEF TreeType
<1>4. pc'[t] = "gate"
  BY <1>1, PlaceAfter
<1>5. OwnSlot(t)' /\ Delivered(t)'
  BY <1>1, <1>2, <1>3, <1>4 DEF LineInv, Line, OwnSlot, Branching, Delivered, HasLanded
<1> QED BY <1>1, <1>2, <1>3, <1>5, AsideLine DEF Flying, Place, Branching

(* The gate changes the log of the branch, and notes what it accepted. *)
LEMMA GateLine ==
  ASSUME Inv, LineInv, NEW t \in Task, phase = "up",
         GateStarts(t) \/ GatePasses(t) \/ GateFails(t)
  PROVE LineInv'
<1>1. PICK place : Goto(t, place) /\ place \in {"cargo", "forward", "rebase", "quickfix", "failed"}
  BY DEF GateStarts, GatePasses, GateFails
<1>2. /\ pc[t] \in {"gate", "cargo"} /\ UNCHANGED <<head, work, phase, reset>>
      /\ \A u \in Task \ {t} : wt'[u] = wt[u]
      /\ wt'[t].tree.mark = wt[t].tree.mark /\ wt'[t].tree.slot = wt[t].tree.slot
      /\ wt'[t].base = wt[t].base
      /\ GatePasses(t) => wt'[t].gated = wt[t].tree.slot
      /\ place = "forward" => GatePasses(t)
  <2>1. CASE GateStarts(t)
    BY <1>1, <2>1, PlaceAfter DEF GateStarts, GatePasses
  <2>2. CASE GatePasses(t)
    BY <2>2 DEF GatePasses, Inv, Types, WorktreeType
  <2>3. CASE GateFails(t)
    <3>1. pc'[t] # "forward"
      BY <2>3, PlaceAfter DEF GateFails
    <3>2. ~GatePasses(t) \/ place # "forward"
      BY <1>1, <3>1, PlaceAfter
    <3>3. wt'[t].tree = [wt[t].tree EXCEPT !.log = <<t, wt[t].attempt, wt[t].fixes>>]
          /\ wt'[t].base = wt[t].base /\ pc[t] = "cargo"
          /\ UNCHANGED <<head, work, phase, reset>> /\ \A u \in Task \ {t} : wt'[u] = wt[u]
      BY <2>3 DEF GateFails, Inv, Types, WorktreeType
    <3>4. wt'[t].tree.mark = wt[t].tree.mark /\ wt'[t].tree.slot = wt[t].tree.slot
      BY <3>3, WorktreeOf, WorktreeFields DEF TreeType
    <3>5. pc'[t] \in {"quickfix", "failed"} /\ place \in {"quickfix", "failed"}
      BY <1>1, <2>3, PlaceAfter DEF GateFails
    <3>6. ~GatePasses(t)
      BY <3>5, PlaceAfter DEF GatePasses
    <3> QED BY <3>3, <3>4, <3>5, <3>6
  <2> QED BY <2>1, <2>2, <2>3
<1>3. pc'[t] = place
  BY <1>1, PlaceAfter
<1>4. OwnSlot(t)' /\ Delivered(t)'
  BY <1>1, <1>2, <1>3 DEF LineInv, Line, OwnSlot, Branching, Delivered, HasLanded
<1>5. t \in SpecTasks => wt[t].tree.slot[t] # Placeholder
  BY <1>2 DEF LineInv, Line, Authored, Branching
<1> QED BY <1>1, <1>2, <1>4, <1>5, AsideLine DEF Flying, Place, Branching

(* An attempt that fails. *)
LEMMA FailLine ==
  ASSUME Inv, LineInv, NEW t \in Task, phase = "up",
         WriteFails(t) \/ QuickFixFails(t) \/ RebaseConflicts(t)
  PROVE LineInv'
<1>1. /\ Goto(t, "failed") /\ pc[t] \in {"write", "quickfix", "rebase"}
      /\ UNCHANGED <<head, work, wt, phase, reset>>
  BY DEF WriteFails, QuickFixFails, RebaseConflicts
<1>2. pc'[t] = "failed"
  BY <1>1, PlaceAfter
<1>3. OwnSlot(t)' /\ Delivered(t)'
  BY <1>2 DEF OwnSlot, Branching, Delivered, HasLanded
<1> QED BY <1>1, <1>3, AsideLine DEF Flying, Place, Branching

(* The merge takes from main all that the branch has not touched. *)
LEMMA RebaseLine ==
  ASSUME Inv, LineInv, NEW t \in Task, phase = "up", Rebase(t)
  PROVE LineInv'
<1> DEFINE b == wt[t].base
           w == wt[t].tree
<1>1. /\ Goto(t, "gate") /\ pc[t] = "rebase" /\ UNCHANGED <<head, work, phase, reset>>
      /\ \A u \in Task \ {t} : wt'[u] = wt[u]
      /\ wt'[t].base = head /\ wt'[t].tree = MergeTrees(b, head, w)
  BY DEF Rebase, Inv, Types, WorktreeType
<1>2. /\ b \in TreeType /\ w \in TreeType /\ head \in TreeType
  BY WorktreeOf, WorktreeFields DEF Inv, Types
<1>3. /\ w.mark = b.mark /\ \A u \in Task \ {t} : w.slot[u] = b.slot[u]
      /\ b.slot[t] = head.slot[t]
      /\ t \in SpecTasks => w.slot[t] # Placeholder
  BY <1>1 DEF LineInv, Line, OwnSlot, Authored, Branching
<1>4. MergeTrees(b, head, w).mark = head.mark
  BY <1>2, <1>3 DEF MergeTrees, Merge, TreeType
<1>5. \A u \in Task \ {t} : MergeTrees(b, head, w).slot[u] = head.slot[u]
  BY <1>3 DEF MergeTrees, Merge
<1>6. MergeTrees(b, head, w).slot[t] = w.slot[t]
  BY <1>3 DEF MergeTrees, Merge
<1> HIDE DEF b, w
<1>7. pc'[t] = "gate"
  BY <1>1, PlaceAfter
<1>8. OwnSlot(t)' /\ Delivered(t)'
  BY <1>1, <1>4, <1>5, <1>7 DEF OwnSlot, Delivered, HasLanded
<1>9. t \in SpecTasks => wt'[t].tree.slot[t] # Placeholder
  BY <1>1, <1>3, <1>6
<1> QED BY <1>1, <1>8, <1>9, AsideLine DEF Flying, Place, Branching

(* The end of a landing, and of an attempt. *)
LEMMA LandLine ==
  ASSUME Inv, FilesInv, LineInv, NEW t \in Task, phase = "up",
         NothingToLand(t) \/ Landed(t)
  PROVE LineInv'
<1>1. /\ Goto(t, "landed") /\ pc[t] \in {"forward", "checkout"}
      /\ UNCHANGED <<head, work, wt, phase, reset>>
  BY DEF NothingToLand, Landed
<1>2. pc'[t] = "landed"
  BY <1>1, PlaceAfter
<1>3. work = head /\ head.slot[t] = wt[t].gated[t]
  <2>1. CASE NothingToLand(t)
    BY <2>1, HolderFiles DEF NothingToLand, Inv, Local, OnMain
  <2>2. CASE Landed(t)
    BY <2>2 DEF Landed, LineInv, Line, CheckingOut
  <2> QED BY <2>1, <2>2
<1>4. OwnSlot(t)' /\ Delivered(t)'
  BY <1>1, <1>2, <1>3 DEF OwnSlot, Branching, Delivered
<1>5. t \in SpecTasks => wt[t].gated[t] # Placeholder
  BY <1>1 DEF LineInv, Line, Authored
<1> QED BY <1>1, <1>4, <1>5, AsideLine DEF Flying, Place, Branching

LEMMA AbandonLine ==
  ASSUME Inv, LineInv, NEW t \in Task, phase = "up", Abandon(t)
  PROVE LineInv'
<1>1. /\ pc[t] \in {"landed", "failed"} /\ UNCHANGED <<head, work, phase, reset>>
      /\ \A u \in Task \ {t} : wt'[u] = wt[u]
  BY DEF Abandon, Inv, Types
<1>2. PICK place \in {"close", "allocate", "giveUp"} :
        /\ Goto(t, place)
        /\ place = "close" => pc[t] = "landed" /\ wt' = wt
  BY DEF Abandon
<1>3. pc'[t] = place
  BY <1>2, PlaceAfter
<1>4. OwnSlot(t)' /\ Delivered(t)'
  BY <1>1, <1>2, <1>3 DEF LineInv, Line, OwnSlot, Branching, Delivered, HasLanded
<1>5. t \in SpecTasks /\ place = "close" => wt'[t].gated[t] # Placeholder
  BY <1>2 DEF LineInv, Line, Authored
<1> QED BY <1>1, <1>2, <1>4, <1>5, AsideLine DEF Flying, Place, Branching

(* Moving the ref brings to main's commit the slot of the task alone. *)
LEMMA MoveLine ==
  ASSUME Inv, FilesInv, LineInv, NEW t \in Task, phase = "up", MoveMain(t)
  PROVE LineInv'
<1>1. /\ Goto(t, "checkout") /\ pc[t] = "forward" /\ head' = wt[t].tree
      /\ wt[t].base = head /\ UNCHANGED <<work, wt, phase, reset, mainLock>>
  BY DEF MoveMain
<1>2. mainLock = t /\ wt[t].gated = wt[t].tree.slot /\ work = head
  BY <1>1, HolderFiles DEF Inv, Local, Critical, OnMain
<1>3. /\ head'.mark = head.mark
      /\ \A u \in Task \ {t} : head'.slot[u] = head.slot[u]
  BY <1>1 DEF LineInv, Line, OwnSlot, Branching
<1>4. pc'[t] = "checkout" /\ \A u \in Task \ {t} : pc'[u] = pc[u]
  BY <1>1 DEF Goto, Inv, Types
<1>5. Steady(t)
  BY <1>1, <1>2, <1>3, <1>4 DEF Steady, Inv, Local, Critical
<1>6. CheckingOut(t)'
  BY <1>1, <1>2, <1>3 DEF CheckingOut
<1>7. IsOpen(t)' /\ Authored(t)'
  BY <1>1, <1>4 DEF LineInv, Line, IsOpen, Flying, Place, Authored, Branching
<1>8. OwnSlot(t)' /\ Delivered(t)' /\ Marking(t)'
  BY <1>4 DEF OwnSlot, Delivered, HasLanded, Marking, Branching
<1> QED BY <1>1, <1>5, <1>6, <1>7, <1>8, TaskLine DEF Line

(* So does the checkout, to the files. *)
LEMMA CheckoutIsOwn ==
  ASSUME Inv, LineInv, NEW t \in Task, CheckoutFile(t)
  PROVE /\ work'.mark = work.mark
        /\ \A u \in Task \ {t} : work'.slot[u] = work.slot[u]
        /\ work'.slot # work.slot => work'.slot = [work.slot EXCEPT ![t] = head.slot[t]]
<1>1. /\ work \in TreeType /\ head \in TreeType
  BY DEF Inv, Types
<1>2. /\ head.mark = work.mark
      /\ \A u \in Task \ {t} : head.slot[u] = work.slot[u]
  BY DEF CheckoutFile, LineInv, Line, CheckingOut
<1>3. CASE \E u \in Task : work' = [work EXCEPT !.slot[u] = head.slot[u]]
  <2>1. PICK u \in Task : work' = [work EXCEPT !.slot[u] = head.slot[u]]
    BY <1>3
  <2>2. work'.mark = work.mark /\ work'.slot = [work.slot EXCEPT ![u] = head.slot[u]]
    BY <1>1, <2>1 DEF TreeType
  <2> QED BY <1>1, <1>2, <2>2 DEF TreeType
<1>4. CASE \E u \in Task : work' = [work EXCEPT !.mark[u] = head.mark[u]]
  BY <1>1, <1>2, <1>4 DEF TreeType
<1>5. CASE work' = [work EXCEPT !.log = head.log]
  BY <1>1, <1>5 DEF TreeType
<1> QED BY <1>3, <1>4, <1>5 DEF CheckoutFile

LEMMA CheckoutLine ==
  ASSUME Inv, LineInv, NEW t \in Task, phase = "up", CheckoutFile(t)
  PROVE LineInv'
<1>1. /\ pc[t] = "checkout" /\ UNCHANGED <<head, pc, wt, phase, reset, mainLock>>
      /\ mainLock = t
  BY DEF CheckoutFile, Inv, Local, Critical
<1>2. /\ work'.mark = work.mark
      /\ \A u \in Task \ {t} : work'.slot[u] = work.slot[u]
  BY CheckoutIsOwn
<1>3. Steady(t)
  BY <1>1, <1>2 DEF Steady, Inv, Local, Critical
<1>4. CheckingOut(t)' /\ IsOpen(t)'
  BY <1>1, <1>2 DEF LineInv, Line, CheckingOut, IsOpen
<1>5. Authored(t)'
  BY <1>1, <1>2 DEF LineInv, Line, Authored, IsOpen, Flying, Place
<1>6. OwnSlot(t)' /\ Delivered(t)' /\ Marking(t)'
  BY <1>1 DEF OwnSlot, Delivered, HasLanded, Marking, Branching
<1> QED BY <1>1, <1>3, <1>4, <1>5, <1>6, TaskLine DEF Line

-----------------------------------------------------------------------------
(* All steps.                                                              *)

LEMMA InitLine == Init => LineInv
<1> SUFFICES ASSUME Init PROVE LineInv
  OBVIOUS
<1>1. \A t \in Task : pc[t] = "idle" /\ work.mark[t] = "NotStarted"
  BY DEF Init, EmptyTree
<1>2. \A t \in Task : Line(t)
  BY <1>1 DEF Line, OwnSlot, CheckingOut, Delivered, HasLanded, IsOpen, Marking, Authored,
              Branching, Flying
<1> QED BY <1>2 DEF Init, LineInv, Sweeping

LEMMA StepLine ==
  ASSUME Inv, FilesInv, LineInv, GitWorks, NEW t \in Task, Step(t) \/ Fault(t)
  PROVE LineInv'
<1>1. phase = "up" /\ ~Fault(t)
  BY DEF Step, Fault, CommitMarkFails, CheckoutFails, GitWorks, Inv, Types
<1>2. CASE Start(t) \/ MarkDone(t) \/ MarkFailed(t) \/ CommitMark(t)
  BY <1>1, <1>2, MarkLine, CommitLine
<1>3. CASE Allocate(t) \/ Write(t) \/ WriteFails(t) \/ QuickFix(t) \/ QuickFixFails(t)
  BY <1>1, <1>3, AllocateLine, WriteLine, FailLine
<1>4. CASE GateStarts(t) \/ GatePasses(t) \/ GateFails(t)
  BY <1>1, <1>4, GateLine
<1>5. CASE Rebase(t) \/ RebaseConflicts(t) \/ NothingToLand(t) \/ Landed(t) \/ Abandon(t)
  BY <1>1, <1>5, RebaseLine, FailLine, LandLine, AbandonLine
<1>6. CASE MoveMain(t) \/ CheckoutFile(t)
  BY <1>1, <1>6, MoveLine, CheckoutLine
<1> QED BY <1>1, <1>2, <1>3, <1>4, <1>5, <1>6 DEF Step

(* Where no task runs, only what is Done counts. *)
LEMMA IdleLine ==
  ASSUME \A t \in Task : pc'[t] = "idle",
         \A t \in SpecTasks : work'.mark[t] = "Done" => work'.slot[t] # Placeholder
  PROVE \A t \in Task : Line(t)'
BY DEF Line, OwnSlot, CheckingOut, Delivered, HasLanded, IsOpen, Marking, Authored, Branching,
       Flying

LEMMA RecoverLine ==
  ASSUME Inv, LineInv, Recover
  PROVE LineInv'
<1>1. /\ \A t \in Task : pc'[t] = "idle"
      /\ UNCHANGED reset
  BY DEF Recover, NothingStale, SaveReset, RenderReset, CommitReset, Inv, Global
<1>2. \A t \in SpecTasks : t \in Task /\ (work.mark[t] = "Done" => work.slot[t] # Placeholder)
  BY Constants DEF LineInv, Line, Authored
<1>3. CASE SaveReset
  <2>1. /\ stale' = Interrupted /\ work'.slot = work.slot
        /\ \A t \in Task : work'.mark[t] = IF t \in Interrupted THEN "NotStarted" ELSE work.mark[t]
    BY <1>3 DEF SaveReset, Inv, Types, TreeType
  <2>2. Sweeping'
    BY <2>1 DEF Sweeping, Interrupted
  <2> QED BY <1>1, <1>2, <2>1, <2>2, IdleLine DEF LineInv
<1>4. CASE RenderReset
  <2>1. /\ phase = "render" /\ phase' = "commit" /\ work'.mark = work.mark
        /\ \A t \in Task : work'.slot[t] = IF t \in stale \ Rewriters THEN Placeholder
                                           ELSE work.slot[t]
    BY <1>4 DEF RenderReset, Inv, Types, TreeType
  <2>2. \A t \in stale : work.mark[t] # "Done"
    BY <2>1 DEF LineInv, Sweeping
  <2>3. \A t \in SpecTasks : work'.mark[t] = "Done" => work'.slot[t] # Placeholder
    BY <1>2, <2>1, <2>2
  <2> QED BY <1>1, <2>1, <2>3, IdleLine DEF LineInv, Sweeping
<1>5. CASE NothingStale \/ CommitReset
  BY <1>1, <1>2, <1>5, IdleLine DEF NothingStale, CommitReset, LineInv, Sweeping
<1> QED BY <1>3, <1>4, <1>5 DEF Recover

(* Without resets of the operator, and with no fault that would end one. *)
LEMMA NoResetStep ==
  ASSUME Inv, LineInv, Resets = 0
  PROVE ~\/ \E stages \in SUBSET Task : SaveOperatorReset(stages)
         \/ ServeReset \/ OperatorResetFails
BY DEF SaveOperatorReset, ServeReset, RenderOperatorReset, CommitOperatorReset,
       OperatorResetFails, LineInv, NoReset, Inv, Types

LEMMA NextLine ==
  ASSUME Inv, FilesInv, LineInv, GitWorks, Resets = 0, [Next]_vars
  PROVE LineInv'
<1>1. CASE Crash
  <2>1. /\ \A t \in Task : pc'[t] = "idle"
        /\ work' = work /\ reset' = NoReset /\ phase' = "down"
    BY <1>1 DEF Crash
  <2>2. \A t \in SpecTasks : work.mark[t] = "Done" => work.slot[t] # Placeholder
    BY Constants DEF LineInv, Line, Authored
  <2> QED BY <2>1, <2>2, IdleLine DEF LineInv, Sweeping
<1>2. CASE UNCHANGED vars
  BY <1>2 DEF vars, LineInv, Sweeping, Line, OwnSlot, CheckingOut, Delivered, HasLanded, IsOpen,
              Marking, Authored
<1> QED BY <1>1, <1>2, NoResetStep, StepLine, RecoverLine DEF Next

(* The invariant, where git works and nobody resets a running node. *)
LEMMA LineHolds ==
  ASSUME GitWorks, Resets = 0
  PROVE Spec => [](Inv /\ FilesInv /\ LineInv)
<1>1. Init => Inv /\ FilesInv /\ LineInv
  BY InitInv, InitFiles, InitLine
<1>2. Inv /\ FilesInv /\ LineInv /\ [Next]_vars => (Inv /\ FilesInv /\ LineInv)'
  BY NextInv, NextFiles, NextLine
<1> QED BY <1>1, <1>2, PTL DEF Spec

-----------------------------------------------------------------------------
(* The theorems.                                                           *)

(* Where git works and nobody resets a running node, what a task that is   *)
(* Done has had accepted by its last gate is on main, in its commit and in *)
(* its files, whatever other tasks land and wherever processes die.        *)
THEOREM DoneStaysLanded ==
  ASSUME GitWorks, Resets = 0
  PROVE Spec => []DoneIsLanded
<1>1. Inv /\ FilesInv /\ LineInv => DoneIsLanded
  BY DEF LineInv, Line, Delivered, HasLanded, DoneIsLanded
<1> QED BY <1>1, LineHolds, PTL

(* ... and a spec that is Done is no placeholder.                          *)
THEOREM SpecsAreAuthored ==
  ASSUME GitWorks, Resets = 0
  PROVE Spec => []SpecIsAuthored
<1>1. Inv /\ FilesInv /\ LineInv => SpecIsAuthored
  BY Constants DEF LineInv, Line, Authored, SpecIsAuthored
<1> QED BY <1>1, LineHolds, PTL

(* What is not started, and was not reopened by the sweep that is at work, *)
(* has a placeholder; so has what has just started.                        *)
Fresh(t) ==
  t \notin Rewriters =>
    /\ work.mark[t] = "NotStarted" /\ ~(phase = "render" /\ t \in stale)
         => work.slot[t] = Placeholder
    /\ pc[t] = "started" => work.slot[t] = Placeholder

FreshInv == (\A t \in Task : Fresh(t)) /\ (faults.crash = 0 => phase = "up")

LEMMA NextFresh ==
  ASSUME Inv, LineInv, FreshInv, GitWorks, Resets = 0, Crashes <= 1, [Next]_vars
  PROVE FreshInv'
<1>1. work \in TreeType /\ faults \in [commit : Nat, checkout : Nat, crash : Nat, reset : Nat]
  BY DEF Inv, Types
<1>2. ASSUME NEW t \in Task, Step(t) \/ Fault(t) PROVE FreshInv'
  <2>1. phase = "up" /\ ~Fault(t) /\ UNCHANGED <<phase, faults>>
    <3>1. ~Fault(t)
      BY <1>1 DEF Fault, CommitMarkFails, CheckoutFails, GitWorks
    <3> QED BY <1>2, <3>1 DEF Step, Start, MarkDone, MarkFailed, SaveMark, CommitMark,
       Allocate, Write, WriteFails, GateStarts, GatePasses, GateFails, QuickFix,
       QuickFixFails, Rebase, RebaseConflicts, NothingToLand, MoveMain, CheckoutFile,
       Landed, Abandon
  <2>2. CASE Start(t) \/ MarkDone(t) \/ MarkFailed(t)
    <3>1. /\ work'.slot = work.slot
          /\ \A u \in Task : work'.mark[u] = "NotStarted" => work.mark[u] = "NotStarted"
          /\ pc'[t] = "started" => work.mark[t] = "NotStarted"
          /\ \A u \in Task \ {t} : pc'[u] = pc[u]
      <4>1. PICK mark \in Mark \ {"NotStarted"} : SaveMark(t, mark)
        BY <2>2 DEF Start, MarkDone, MarkFailed, Mark
      <4>2. /\ work'.slot = work.slot /\ work'.mark[t] = mark
            /\ \A u \in Task \ {t} : work'.mark[u] = work.mark[u]
        BY <4>1, MarkedTree
      <4>3. \E place : Goto(t, place) /\ (place = "started" => Start(t))
        BY <2>2 DEF Start, MarkDone, MarkFailed
      <4>4. /\ \A u \in Task \ {t} : pc'[u] = pc[u]
            /\ pc'[t] = "started" => work.mark[t] = "NotStarted"
        BY <4>3 DEF Goto, Start, Inv, Types
      <4> QED BY <4>1, <4>2, <4>4
    <3> QED BY <2>1, <3>1 DEF FreshInv, Fresh
  <2>3. CASE CheckoutFile(t)
    <3>1. /\ work'.mark = work.mark /\ work.mark[t] = "InProgress" /\ UNCHANGED pc
          /\ \A u \in Task \ {t} : work'.slot[u] = work.slot[u]
          /\ pc[t] # "started"
      BY <2>3, CheckoutIsOwn DEF CheckoutFile, LineInv, Line, IsOpen, Flying, Place
    <3> QED BY <2>1, <3>1 DEF FreshInv, Fresh
  <2>4. CASE \E place : Goto(t, place) /\ place # "started" /\ work' = work
    BY <2>1, <2>4 DEF FreshInv, Fresh, Goto, Inv, Types
  <2>5. CASE UNCHANGED <<work, pc>>
    BY <2>1, <2>5 DEF FreshInv, Fresh
  <2>6. CASE ~(Start(t) \/ MarkDone(t) \/ MarkFailed(t) \/ CheckoutFile(t))
    <3>1. \E place : Goto(t, place) /\ place # "started" /\ work' = work
      BY <1>2, <2>1, <2>6 DEF Step, CommitMark, Committed,
         Allocate, Write, WriteFails, GateStarts, GatePasses, GateFails, QuickFix,
         QuickFixFails, Rebase, RebaseConflicts, NothingToLand, MoveMain, Landed, Abandon
    <3> QED BY <2>4, <3>1
  <2> QED BY <2>2, <2>3, <2>6
<1>3. CASE SaveReset
  <2>1. /\ stale' = Interrupted /\ phase' = "render" /\ work'.slot = work.slot
        /\ phase = "down" /\ UNCHANGED <<pc, faults>>
        /\ \A t \in Task : work'.mark[t] = IF t \in Interrupted THEN "NotStarted" ELSE work.mark[t]
    BY <1>3 DEF SaveReset, Inv, Types, TreeType
  <2> QED BY <2>1 DEF FreshInv, Fresh
<1>4. CASE RenderReset
  <2>1. /\ phase' = "commit" /\ phase = "render" /\ work'.mark = work.mark
        /\ UNCHANGED <<pc, stale, faults>>
        /\ \A t \in Task : work'.slot[t] = IF t \in stale \ Rewriters THEN Placeholder
                                           ELSE work.slot[t]
    BY <1>4 DEF RenderReset, Inv, Types, TreeType
  <2> QED BY <2>1 DEF FreshInv, Fresh
<1>5. CASE NothingStale \/ CommitReset
  BY <1>5 DEF NothingStale, CommitReset, FreshInv, Fresh
<1>6. CASE Crash
  <2>1. faults.crash = 0 /\ faults'.crash = 1
    BY <1>1, <1>6, Constants DEF Crash
  <2> QED BY <1>6, <2>1 DEF Crash, FreshInv, Fresh
<1>7. CASE UNCHANGED vars
  BY <1>7 DEF vars, FreshInv, Fresh
<1> QED BY <1>2, <1>3, <1>4, <1>5, <1>6, <1>7, NoResetStep DEF Next, Recover

(* Through one crash, at any step, a stage that is the first to write its  *)
(* slot starts from a placeholder.  (A second crash inside the sweep, after*)
(* its marks are saved, leaves a slot as it was: the bound is the code's.) *)
THEOREM FirstWritersStartFresh ==
  ASSUME GitWorks, Resets = 0, Crashes <= 1
  PROVE Spec => []StartsFresh
<1>1. Init => FreshInv
  BY DEF Init, FreshInv, Fresh, EmptyTree
<1>2. Inv /\ FilesInv /\ LineInv /\ FreshInv /\ [Next]_vars => FreshInv'
  BY NextFresh
<1>3. FreshInv => StartsFresh
  BY DEF FreshInv, Fresh, StartsFresh
<1> QED BY <1>1, <1>2, <1>3, LineHolds, PTL DEF Spec

(* How a step of a task looks on the main line. *)
LEMMA TaskRefines ==
  ASSUME Inv, LineInv, NEW t \in Task, Step(t) \/ Fault(t)
  PROVE [ML!Next]_[slot |-> work.slot, mark |-> work.mark]
<1> DEFINE main == [slot |-> work.slot, mark |-> work.mark]
<1>1. ASSUME work' = work PROVE main' = main
  BY <1>1
<1>2. ASSUME NEW mark \in Mark, SaveMark(t, mark)
      PROVE main' = [main EXCEPT !.mark[t] = mark]
  <2>1. work'.slot = work.slot /\ work'.mark = [work.mark EXCEPT ![t] = mark]
    BY <1>2 DEF SaveMark, Inv, Types, TreeType
  <2> QED BY <2>1
<1>3. CASE Start(t)
  <2>1. SaveMark(t, "InProgress") /\ work.mark[t] = "NotStarted"
    BY <1>3 DEF Start
  <2>2. main' = [main EXCEPT !.mark[t] = "InProgress"]
    BY <1>2, <2>1 DEF Mark
  <2>3. ML!Open(t)
    BY <2>1, <2>2 DEF ML!Open
  <2> QED BY <2>3 DEF ML!Next
<1>4. CASE MarkDone(t) \/ MarkFailed(t)
  <2>1. PICK mark \in {"Done", "Failed"} : SaveMark(t, mark)
    BY <1>4 DEF MarkDone, MarkFailed
  <2>2. work.mark[t] = "InProgress"
    BY <1>4 DEF MarkDone, MarkFailed, LineInv, Line, IsOpen, Flying, Place
  <2>3. main' = [main EXCEPT !.mark[t] = mark]
    BY <1>2, <2>1 DEF Mark
  <2>4. ML!Close(t)
    BY <2>2, <2>3 DEF ML!Close
  <2> QED BY <2>4 DEF ML!Next
<1>5. CASE CheckoutFile(t)
  <2>1. work'.mark = work.mark /\ work.mark[t] = "InProgress"
    BY <1>5, CheckoutIsOwn DEF CheckoutFile, LineInv, Line, IsOpen, Flying, Place
  <2>2. CASE work'.slot = work.slot
    BY <2>1, <2>2
  <2>3. CASE work'.slot = [work.slot EXCEPT ![t] = head.slot[t]]
    <3>1. head.slot[t] \in Content \cup {ML!Placeholder}
      BY DEF Inv, Types, TreeType, Placeholder, ML!Placeholder
    <3>2. main' = [main EXCEPT !.slot[t] = head.slot[t]]
      BY <2>1, <2>3
    <3>3. ML!Land(t)
      BY <2>1, <3>1, <3>2 DEF ML!Land
    <3> QED BY <3>3 DEF ML!Next
  <2> QED BY <1>5, <2>2, <2>3, CheckoutIsOwn
<1>6. CASE ~(Start(t) \/ MarkDone(t) \/ MarkFailed(t) \/ CheckoutFile(t))
  <2>1. work' = work
    BY <1>6 DEF Step, Fault, CommitMark, CommitMarkFails, CheckoutFails,
       Allocate, Write, WriteFails, GateStarts, GatePasses, GateFails, QuickFix,
       QuickFixFails, Rebase, RebaseConflicts, NothingToLand, MoveMain, Landed, Abandon
  <2> QED BY <1>1, <2>1
<1> QED BY <1>3, <1>4, <1>5, <1>6

(* ... and of the sweep. *)
LEMMA RecoverRefines ==
  ASSUME Inv, LineInv, Recover
  PROVE [ML!Next]_[slot |-> work.slot, mark |-> work.mark]
<1> DEFINE main == [slot |-> work.slot, mark |-> work.mark]
<1>1. CASE SaveReset
  <2>1. /\ work'.slot = work.slot
        /\ work'.mark = [t \in Task |-> IF t \in Interrupted THEN "NotStarted" ELSE work.mark[t]]
    BY <1>1 DEF SaveReset, Inv, Types, TreeType
  <2>2. work'.mark = [t \in Task |-> IF ML!IsOpen(t) THEN "NotStarted" ELSE main.mark[t]]
    BY <2>1 DEF Interrupted, ML!IsOpen
  <2>3. ML!Reopen
    BY <2>1, <2>2 DEF ML!Reopen
  <2> QED BY <2>3 DEF ML!Next
<1>2. CASE RenderReset
  <2> DEFINE wiped == stale \ Rewriters
  <2>1. /\ work'.mark = work.mark
        /\ work'.slot = [t \in Task |-> IF t \in wiped THEN Placeholder ELSE work.slot[t]]
    BY <1>2 DEF RenderReset, Inv, Types, TreeType
  <2>2. wiped \in SUBSET {t \in Task : main.mark[t] = "NotStarted"}
    BY <1>2 DEF RenderReset, LineInv, Sweeping, Inv, Types
  <2>3. main' = [main EXCEPT !.slot = [t \in Task |-> IF t \in wiped THEN ML!Placeholder
                                                      ELSE main.slot[t]]]
    BY <2>1 DEF Placeholder, ML!Placeholder
  <2>4. ML!Wipe
    BY <2>2, <2>3 DEF ML!Wipe
  <2> QED BY <2>4 DEF ML!Next
<1>3. CASE NothingStale \/ CommitReset
  BY <1>3 DEF NothingStale, CommitReset
<1> QED BY <1>1, <1>2, <1>3 DEF Recover

(* Where git works and nobody resets a running node, Landing implements    *)
(* the main line: with two copies of main, worktrees, rebases, checkouts   *)
(* file by file, retries and crashes, a reader of the workdir never sees a *)
(* slot change whose stage is not open, nor a task touch another's.        *)
THEOREM LandingImplementsMainLine ==
  ASSUME GitWorks, Resets = 0
  PROVE Spec => ImplementsMainLine
<1>1. Init => ML!Init
  BY DEF Init, EmptyTree, Placeholder, ML!Init, ML!Placeholder
<1>2. ASSUME Inv, LineInv, [Next]_vars
      PROVE [ML!Next]_[slot |-> work.slot, mark |-> work.mark]
  <2>1. CASE Crash \/ UNCHANGED vars
    BY <2>1 DEF Crash, vars
  <2> QED BY <1>2, <2>1, TaskRefines, RecoverRefines, NoResetStep DEF Next
<1>3. Inv /\ FilesInv /\ LineInv /\ [Next]_vars
        => [ML!Next]_[slot |-> work.slot, mark |-> work.mark]
  BY <1>2
<1> QED BY <1>1, <1>3, LineHolds, PTL DEF Spec, ImplementsMainLine, ML!Spec
=============================================================================
