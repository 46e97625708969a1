------------------------------ MODULE MainLine ------------------------------
(***************************************************************************)
(* What landing promises about main, with no git, no worktrees, no locks   *)
(* and no retries: a task opens its stage, its slot changes only while the *)
(* stage is open, the stage is closed once, and a restart takes back what  *)
(* was open, slot included.  Tasks never touch each other's stage or slot. *)
(* Landing implements this specification.                                  *)
(***************************************************************************)
EXTENDS Naturals

CONSTANTS Task,      \* one (node, stage) each
          Content    \* what a writer may author in its slot

Placeholder == 0

StageState == {"NotStarted", "InProgress", "Done", "Failed"}

VARIABLE main    \* [slot, mark]: what a reader of the main workdir sees

Init == main = [slot |-> [t \in Task |-> Placeholder],
                mark |-> [t \in Task |-> "NotStarted"]]

Open(t) ==
  /\ main.mark[t] = "NotStarted"
  /\ main' = [main EXCEPT !.mark[t] = "InProgress"]

Land(t) ==
  /\ main.mark[t] = "InProgress"
  /\ \E c \in Content \cup {Placeholder} : main' = [main EXCEPT !.slot[t] = c]

Close(t) ==
  /\ main.mark[t] = "InProgress"
  /\ \E s \in {"Done", "Failed"} : main' = [main EXCEPT !.mark[t] = s]

IsOpen(t) == main.mark[t] = "InProgress"

(* reset_stale_inprogress saves the marks first and renders the slots next. *)
Reopen ==
  main' = [main EXCEPT !.mark = [t \in Task |-> IF IsOpen(t) THEN "NotStarted"
                                                ELSE main.mark[t]]]

Wipe == \E T \in SUBSET {t \in Task : main.mark[t] = "NotStarted"} :
          main' = [main EXCEPT !.slot = [t \in Task |-> IF t \in T THEN Placeholder
                                                        ELSE main.slot[t]]]

Next == Reopen \/ Wipe \/ \E t \in Task : Open(t) \/ Land(t) \/ Close(t)

Spec == Init /\ [][Next]_main
=============================================================================
