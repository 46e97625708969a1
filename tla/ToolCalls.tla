------------------------------ MODULE ToolCalls ------------------------------
(***************************************************************************)
(* One role's session with a model: the tools of tools.rs called one at a  *)
(* time on the task's own worktree, and run_role's loop of forced retries  *)
(* around it.                                                              *)
(*                                                                         *)
(* The tools are the driver's: it attaches ToolNamesFor and calls what the *)
(* model names, in sequence (rig's concurrency is 1).  A model calls what  *)
(* it likes with what arguments it likes; the texts it may write are       *)
(* constants.  Every call goes the same way: record_call_check_loop, the   *)
(* tool, finish.                                                           *)
(***************************************************************************)
EXTENDS Slots

CONSTANTS
  Turn,            \* the <<stage, role>> pairs of the sessions
  Texts,           \* what a model writes into a source slot as a whole
  Notes,           \* what it writes into a section of the spec
  Paths,           \* the paths it names in edits
  Edits,           \* what it changes: records of what to cut and to paste
  Lookups,         \* the tools that ask crates.io, docs.rs or cargo
  Asked,           \* the sets of names it asks about
  EntryLists,      \* the arguments of write_item
  PatchLists,      \* the arguments of apply_patch: sequences of file patches
  Neighbour,       \* the slots of another node, when the session starts
  ToolRetryBudget, \* limits.tool_retry_budget
  LoopThreshold,   \* LOOP_BREAK_THRESHOLD
  LoopWindow,      \* LOOP_WINDOW
  MaxCalls         \* bound: calls of one drive (the driver bounds its turns)

ASSUME ToolCallsAssumption ==
  /\ Turn \subseteq Stage \X Role
  /\ Texts \subseteq Text
  /\ Lookups \subseteq ReadTools \cup CargoTools
  /\ Notes \subseteq Text
  /\ ToolRetryBudget \in Nat
  /\ LoopThreshold \in Nat \ {0}
  /\ LoopWindow \in Nat
  /\ LoopThreshold <= LoopWindow
  /\ MaxCalls \in Nat

VARIABLES
  stage, role, \* TaskCtx: fixed for a session
  slots,       \* the slots of the worktree's graph
  streak,      \* the calls at the end of recent_calls that are the same
  failed,      \* mutating tools whose last result in the transcript is an error
  result,      \* how the last call ended
  patch,       \* an apply_patch call between two of its files
  critique,    \* TaskCtx::critique
  verdict,     \* TaskCtx::verdict
  forced,      \* forced retries so far
  calls,       \* calls of this drive
  pc           \* "driving", "over", or "error" when a drive failed

ctx == <<stage, role>>
vars == <<ctx, slots, streak, failed, result, patch, critique, verdict, forced,
          calls, pc>>

(* A path names a slot of the task's own node, of another node, or nothing *)
(* that can be read (it escapes the workdir or is not there).              *)
Node == {"self", "other"}
Path == [node : Node \cup {"none"}, slot : NodeSlot]

NoCall == [tool |-> "none"]
NoPatch == [active |-> FALSE, left |-> <<>>, changed |-> FALSE, missed |-> FALSE]

Critique == {"none", "clean", "issues"}
Verdict == {"none", "satisfactory", "unsatisfactory"}

Fits(slot, text) == LineCount(text) <= MaxFileLines /\ Validate(slot, text)

(* A source slot holds what some tool let in, or nothing yet; spec comes   *)
(* before the stages that write source, and leaves public.md.              *)
Sound(held) ==
  \A slot \in RustSlot : held[slot] # NotAuthored => Fits(slot, held[slot])

ASSUME NeighbourAssumption ==
  Neighbour \in [NodeSlot -> Text \cup {NotAuthored}] /\ Sound(Neighbour)

Started ==
  {held \in [NodeSlot -> Texts \cup Notes \cup {NotAuthored}] :
     /\ Sound(held)
     /\ stage \in {"architect", "spec"} => \A slot \in RustSlot : held[slot] = NotAuthored
     /\ stage \notin {"architect", "spec"} => held["public.md"] # NotAuthored}

Init ==
  /\ \E turn \in Turn : stage = turn[1] /\ role = turn[2]
  /\ \E held \in Started :
       slots = [n \in Node |-> IF n = "self" THEN held ELSE Neighbour]
  /\ streak = [call |-> NoCall, count |-> 0]
  /\ failed = {}
  /\ result = "none"
  /\ patch = NoPatch
  /\ critique = "none" /\ verdict = "none"
  /\ forced = 0 /\ calls = 0
  /\ pc = "driving"

-----------------------------------------------------------------------------
(* record_call_check_loop and finish.                                      *)

Min2(a, b) == IF a < b THEN a ELSE b

Streak(call) ==
  [call |-> call,
   count |-> IF streak.call = call THEN Min2(streak.count + 1, LoopWindow) ELSE 1]

Loops(call) == Streak(call).count >= LoopThreshold

Called(call) ==
  /\ pc = "driving" /\ ~patch.active
  /\ call.tool \in ToolNamesFor(stage, role)
  /\ calls < MaxCalls
  /\ calls' = calls + 1
  /\ streak' = Streak(call)
  /\ UNCHANGED <<ctx, forced, pc>>

Finished(tool, ok) ==
  /\ result' = IF ok THEN "ok" ELSE "refused"
  /\ failed' = IF tool \notin MutatingTools THEN failed
               ELSE IF ok THEN failed \ {tool} ELSE failed \cup {tool}

(* A call that ends with the slots `after` if the tool accepts it.         *)
Answered(call, accepted, after) ==
  /\ Called(call)
  /\ Finished(call.tool, accepted /\ ~Loops(call))
  /\ slots' = IF accepted /\ ~Loops(call) THEN after ELSE slots
  /\ UNCHANGED <<patch, critique, verdict>>

Own(slot, text) == [slots EXCEPT !["self"][slot] = text]

-----------------------------------------------------------------------------
(* Tools that write slots.                                                 *)

(* Mutant: the deps are checked after the texts are saved. *)
SubmitSpec_SavesFirst(public, private, deps) ==
  LET call == [tool |-> "submit_spec", public |-> public, private |-> private, deps |-> deps]
      accepted == /\ stage = "spec" /\ public # Blank
                  /\ LineCount(public) <= MaxSpecLines /\ ~Loops(call)
  IN  /\ Called(call)
      /\ Finished("submit_spec", accepted /\ deps)
      /\ slots' = IF accepted THEN Own("public.md", public) ELSE slots
      /\ UNCHANGED <<patch, critique, verdict>>

(* deps: whether the lookup by name and add_dep take all deps of the call. *)
SubmitSpec(public, private, deps) ==
  Answered([tool |-> "submit_spec", public |-> public, private |-> private, deps |-> deps],
    /\ stage = "spec"
    /\ public # Blank /\ LineCount(public) <= MaxSpecLines
    /\ private # NotAuthored => LineCount(private) <= MaxSpecLines
    /\ deps,
    [slots EXCEPT !["self"]["public.md"] = public,
                  !["self"]["private.md"] = IF private = NotAuthored THEN @ ELSE private])

SubmitRustSlot(slot, text) ==
  Answered([tool |-> SubmitTool(slot), content |-> text],
    stage \in AllowedStages(slot) /\ Fits(slot, text),
    Own(slot, text))

(* Mutant: the result of the replacements is not validated. *)
WriteItem_Unchecked(slot, entries) ==
  Answered([tool |-> "write_item", slot |-> slot, items |-> entries],
    /\ entries # <<>>
    /\ stage \in AllowedStages(slot)
    /\ slots["self"][slot] # NotAuthored
    /\ WriteItems(slots["self"][slot], entries) # NotAuthored,
    Own(slot, WriteItems(slots["self"][slot], entries)))

(* write_item replaces items of a slot that has been authored.             *)
WriteItem(slot, entries) ==
  Answered([tool |-> "write_item", slot |-> slot, items |-> entries],
    /\ entries # <<>>
    /\ stage \in AllowedStages(slot)
    /\ slots["self"][slot] # NotAuthored
    /\ WriteItems(slots["self"][slot], entries) # NotAuthored
    /\ Fits(slot, WriteItems(slots["self"][slot], entries)),
    Own(slot, WriteItems(slots["self"][slot], entries)))

(* Mutant: an edit of any slot of the node is let in. *)
EditAccepted_AnySlot(path, text) ==
  /\ LineCount(text) <= MaxFileLines
  /\ path.node = "self"
  /\ ValidateEdit(path.slot, text)

(* apply_slot_edit. *)
EditAccepted(path, text) ==
  /\ LineCount(text) <= MaxFileLines
  /\ path.node = "self"
  /\ path.slot \in SlotsOwnedByStage(stage)
  /\ ValidateEdit(path.slot, text)

(* read_slot_content: a slot nobody wrote reads as empty.                  *)
Current(path) ==
  IF slots[path.node][path.slot] = NotAuthored THEN Blank
  ELSE slots[path.node][path.slot]

Edited(path, edit) == (Current(path) \ edit.cut) \cup edit.paste

WriteFile(path, text) ==
  Answered([tool |-> "write_file", path |-> path, content |-> text],
    EditAccepted(path, text), Own(path.slot, text))

WriteFileRange(path, edit) ==
  Answered([tool |-> "write_file_range", path |-> path, edit |-> edit],
    path.node \in Node /\ EditAccepted(path, Edited(path, edit)),
    Own(path.slot, Edited(path, edit)))

-----------------------------------------------------------------------------
(* apply_patch saves file by file and stops at the first one refused.      *)

ApplyPatch(patches) ==
  LET call == [tool |-> "apply_patch", patches |-> patches]
      begins == patches # <<>> /\ ~Loops(call)
  IN  /\ Called(call)
      /\ patch' = IF begins THEN [NoPatch EXCEPT !.active = TRUE, !.left = patches]
                  ELSE NoPatch
      /\ IF begins THEN result' = "none" /\ UNCHANGED failed
         ELSE Finished("apply_patch", FALSE)
      /\ UNCHANGED <<slots, critique, verdict>>

(* A hunk applies where the file has what it cuts.                         *)
Matches(p) == p.path.node \in Node /\ p.edit.cut \subseteq Current(p.path)

Patching == pc = "driving" /\ patch.active /\ patch.left # <<>>

PatchFile ==
  /\ Patching
  /\ LET p == Head(patch.left)
     IN  /\ Matches(p) /\ EditAccepted(p.path, Edited(p.path, p.edit))
         /\ slots' = Own(p.path.slot, Edited(p.path, p.edit))
         /\ patch' = [patch EXCEPT !.left = Tail(@),
                                   !.changed = @ \/ slots' # slots]
  /\ UNCHANGED <<ctx, streak, failed, result, critique, verdict, forced, calls, pc>>

PatchMisses ==
  /\ Patching
  /\ LET p == Head(patch.left) IN p.path.node \in Node /\ ~Matches(p)
  /\ patch' = [patch EXCEPT !.left = Tail(@), !.missed = TRUE]
  /\ UNCHANGED <<ctx, slots, streak, failed, result, critique, verdict, forced, calls, pc>>

PatchRefused ==
  /\ Patching
  /\ LET p == Head(patch.left)
     IN  p.path.node \in Node =>
           Matches(p) /\ ~EditAccepted(p.path, Edited(p.path, p.edit))
  /\ Finished("apply_patch", FALSE)
  /\ patch' = NoPatch
  /\ UNCHANGED <<ctx, slots, streak, critique, verdict, forced, calls, pc>>

PatchDone ==
  /\ pc = "driving" /\ patch.active /\ patch.left = <<>>
  /\ Finished("apply_patch", patch.changed \/ ~patch.missed)
  /\ patch' = NoPatch
  /\ UNCHANGED <<ctx, slots, streak, critique, verdict, forced, calls, pc>>

-----------------------------------------------------------------------------
(* Tools that write no slot.                                               *)

(* The tree is NodeGraph's; here the call only fits or does not.           *)
SubmitArchitecture(fits) ==
  Answered([tool |-> "submit_architecture", fits |-> fits],
    stage = "architect" /\ fits, slots)

SubmitCritique(answer) ==
  LET call == [tool |-> "submit_critique", issues |-> answer]
  IN  /\ Called(call)
      /\ Finished("submit_critique", ~Loops(call))
      /\ critique' = IF Loops(call) THEN critique ELSE answer
      /\ UNCHANGED <<slots, patch, verdict>>

SubmitVerdict(answer) ==
  LET call == [tool |-> "submit_verdict", satisfactory |-> answer]
  IN  /\ Called(call)
      /\ Finished("submit_verdict", ~Loops(call))
      /\ verdict' = IF Loops(call) THEN verdict ELSE answer
      /\ UNCHANGED <<slots, patch, critique>>

(* Own slots and the public ones of any node (the other one here is no     *)
(* ancestor); every slot is rendered but private notes not yet written.    *)
ReadFile(path) ==
  Answered([tool |-> "read_file", path |-> path],
    /\ path.node # "none"
    /\ path.node = "self" \/ path.slot \in {"public.rs", "public.md"}
    /\ path.slot = "private.md" => slots[path.node][path.slot] # NotAuthored,
    slots)

(* Items that are not found are part of the answer.                        *)
ReadItem(slot, names) ==
  Answered([tool |-> "read_item", slot |-> slot, names |-> names],
    names # {} /\ slots["self"][slot] # NotAuthored, slots)

(* crates.io and docs.rs are asked about each entry of a list; an entry    *)
(* that cannot be answered says so in the answer.                          *)
Consult(tool, entries) ==
  Answered([tool |-> tool, entries |-> entries], entries # {}, slots)

(* Errors that cargo finds are an answer too; that it cannot be spawned is *)
(* not.  cargo_lock is held meanwhile.                                     *)
RunCargo(tool, spawned) == Answered([tool |-> tool], spawned, slots)

-----------------------------------------------------------------------------
(* run_role: the drive and its forced retries.                             *)

TurnEnds == pc = "driving" /\ ~patch.active

ForceRetry ==
  /\ TurnEnds
  /\ failed # {} /\ forced < ToolRetryBudget
  /\ forced' = forced + 1
  /\ calls' = 0
  /\ UNCHANGED <<ctx, slots, streak, failed, result, patch, critique, verdict, pc>>

Finish ==
  /\ TurnEnds
  /\ failed = {} \/ forced = ToolRetryBudget
  /\ pc' = "over"
  /\ UNCHANGED <<ctx, slots, streak, failed, result, patch, critique, verdict, forced, calls>>

DriveFails ==
  /\ TurnEnds
  /\ pc' = "error"
  /\ UNCHANGED <<ctx, slots, streak, failed, result, patch, critique, verdict, forced, calls>>

WriteCall ==
  \/ \E public \in Notes, private \in Notes \cup {NotAuthored},
        deps \in BOOLEAN : SubmitSpec(public, private, deps)
  \/ \E slot \in RustSlot, text \in Texts : SubmitRustSlot(slot, text)
  \/ \E slot \in RustSlot, entries \in EntryLists : WriteItem(slot, entries)
  \/ \E path \in Paths, text \in Texts : WriteFile(path, text)
  \/ \E path \in Paths, edit \in Edits : WriteFileRange(path, edit)
  \/ \E patches \in PatchLists : ApplyPatch(patches)
  \/ PatchFile \/ PatchMisses \/ PatchRefused \/ PatchDone

OtherCall ==
  \/ \E fits \in BOOLEAN : SubmitArchitecture(fits)
  \/ \E answer \in Critique \ {"none"} : SubmitCritique(answer)
  \/ \E answer \in Verdict \ {"none"} : SubmitVerdict(answer)
  \/ \E path \in Paths : ReadFile(path)
  \/ \E slot \in RustSlot, names \in Asked : ReadItem(slot, names)
  \/ \E tool \in Lookups \cap ReadTools, entries \in Asked : Consult(tool, entries)
  \/ \E tool \in Lookups \cap CargoTools, spawned \in BOOLEAN : RunCargo(tool, spawned)

Next == WriteCall \/ OtherCall \/ ForceRetry \/ Finish \/ DriveFails

Spec == Init /\ [][Next]_vars

-----------------------------------------------------------------------------
(* Properties.                                                             *)

(* The types of the session's variables. *)
TypeOK ==
  /\ stage \in Stage /\ role \in Role
  /\ slots \in [Node -> [NodeSlot -> Text \cup {NotAuthored}]]
  /\ streak.count \in 0 .. LoopWindow
  /\ failed \subseteq MutatingTools
  /\ result \in {"none", "ok", "refused"}
  /\ patch.active \in BOOLEAN /\ patch.changed \in BOOLEAN /\ patch.missed \in BOOLEAN
  /\ critique \in Critique /\ verdict \in Verdict
  /\ forced \in 0 .. ToolRetryBudget
  /\ calls \in 0 .. MaxCalls
  /\ pc \in {"driving", "over", "error"}

(* Whatever sequence of submits, whole-file and range edits, patches and   *)
(* item replacements a model makes, every source slot of its node would    *)
(* still be accepted if it were submitted as a whole: the five ways of     *)
(* writing, each with checks of its own, let in nothing submit_* refuses.  *)
ValidSlots == \A n \in Node : Sound(slots[n])

(* A session changes slots of its own node only, and of those only the     *)
(* ones its stage owns, whichever of the two ownership tables (one for     *)
(* submits and write_item, one for edits) the tool consults.               *)
WritesStayInStage ==
  [][\A n \in Node, slot \in NodeSlot :
       slots'[n][slot] # slots[n][slot] =>
         n = "self" /\ slot \in SlotsOwnedByStage(stage)]_vars

(* A call that is answered with an error has changed nothing, however many *)
(* texts, deps or items it carried.  A patch saves as it goes, so for a    *)
(* patch this is said of its last step only.                               *)
RefusedChangesNothing ==
  [][(result' = "refused") => (slots' = slots)]_vars

(* When a session starts, the tools its prompt says will work can work:    *)
(* they are attached and some call of them passes the stage checks; a      *)
(* writer or reviser is told of a tool for every slot its stage owns; the  *)
(* headline names a tool from the list; and a quickfixer can run the very  *)
(* command of its gate.                                                    *)
EligibleToolsWork ==
  calls = 0 /\ forced = 0 => \A turn \in Turns :
    LET s == turn[1]
        r == turn[2]
    IN  /\ ToolsAcceptedAt(s, r) \subseteq ToolNamesFor(s, r)
        /\ \A tool \in ToolsAcceptedAt(s, r) : CanSucceed(tool, s)
        /\ PrimaryTools(s, r) \subseteq ToolsAcceptedAt(s, r)
        /\ r \in Author =>
             \A slot \in RustSlot \cap SlotsOwnedByStage(s) :
               SubmitTool(slot) \in ToolsAcceptedAt(s, r)
        /\ r = "quickfixer" => GateToolFor(s) \in ToolsAcceptedAt(s, r)
=============================================================================
