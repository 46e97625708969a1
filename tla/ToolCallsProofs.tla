--------------------------- MODULE ToolCallsProofs ---------------------------
(***************************************************************************)
(* Proofs about ToolCalls for all texts, edits, items and patches a model  *)
(* may write, any limits and any number of calls: what is in a slot would  *)
(* pass as its submission, no call leaves the slots of its stage, and a    *)
(* refused call has changed nothing.                                       *)
(***************************************************************************)
EXTENDS ToolCalls, TLAPS

-----------------------------------------------------------------------------
(* The inductive invariant.  What an item replacement yields is a fold     *)
(* about which nothing is assumed: slots are functions with known domains, *)
(* and their contents are known by the checks they have passed.            *)

Slotted(held) == held = [slot \in NodeSlot |-> held[slot]]

SlotsShaped ==
  /\ slots = [n \in Node |-> slots[n]]
  /\ \A n \in Node : Slotted(slots[n])

SessionOK == stage \in Stage /\ patch.active \in BOOLEAN

(* A patch under way has not been answered. *)
PatchOpen == patch.active => result = "none"

Inv == SessionOK /\ SlotsShaped /\ PatchOpen /\ ValidSlots

-----------------------------------------------------------------------------
(* Lemmas about the tables.                                                *)

(* The stages that may submit a slot own it. *)
LEMMA SubmittersOwn ==
  ASSUME NEW slot \in RustSlot, NEW s \in Stage, s \in AllowedStages(slot)
  PROVE slot \in SlotsOwnedByStage(s)
BY DEF RustSlot, Stage, AllowedStages, SlotsOwnedByStage

(* A stage owns slots of a node. *)
LEMMA OwnedIsSlot ==
  ASSUME NEW s \in Stage
  PROVE SlotsOwnedByStage(s) \subseteq NodeSlot
BY DEF SlotsOwnedByStage, Stage, NodeSlot, RustSlot, SpecSlot

(* What an edit of a slot lets in, its submission would have let in: the   *)
(* items of private.rs are all among those of tests.rs.                    *)
LEMMA EditsFit ==
  ASSUME NEW slot \in RustSlot, NEW text,
         ValidateEdit(slot, text), LineCount(text) <= MaxFileLines
  PROVE Fits(slot, text)
<1>1. AllHave(EditItem(slot), text)
  BY DEF ValidateEdit
<1>2. EditItem(slot) \subseteq SubmitItem(slot)
  BY DEF RustSlot, EditItem, SubmitItem, PublicItem, PrivateItem, TestsItem
<1> QED BY <1>1, <1>2 DEF Fits, Validate, AllHave

(* What a stage's author is told to submit, it owns, and the tools for it  *)
(* take it.                                                                *)
LEMMA AuthorsCanSubmit ==
  ASSUME NEW s \in Stage, NEW slot \in RustSlot
  PROVE SubmitTool(slot) \in AuthorTools(s) <=> slot \in SlotsOwnedByStage(s)
BY DEF Stage, RustSlot, SpecSlot, SubmitTool, AuthorTools, SlotsOwnedByStage

LEMMA SubmitToolNames ==
  \A slot \in RustSlot : SubmitTool(slot) \in {"submit_public", "submit_private", "submit_tests"}
BY DEF RustSlot, SubmitTool

(* Tools that no stage check stops.                                        *)
LEMMA OpenTools ==
  ASSUME NEW s \in Stage, NEW tool \in ReadTools \cup CargoTools \cup AnswerTools
  PROVE CanSucceed(tool, s)
<1>1. /\ tool \notin {"submit_architecture", "submit_spec", "write_item"} \cup EditTools
      /\ tool \notin {SubmitTool(slot) : slot \in RustSlot}
  BY SubmitToolNames DEF ReadTools, CargoTools, AnswerTools, EditTools
<1> QED BY <1>1 DEF CanSucceed

(* Editing tools, wherever the stage owns a slot.                          *)
LEMMA SlotTools ==
  ASSUME NEW s \in Stage \ {"architect", "spec"}, NEW tool \in EditTools \cup {"write_item"}
  PROVE CanSucceed(tool, s)
<1>1. /\ SlotsOwnedByStage(s) # {}
      /\ \E slot \in RustSlot : s \in AllowedStages(slot)
  BY DEF Stage, SlotsOwnedByStage, RustSlot, AllowedStages
<1>2. /\ tool \notin {"submit_architecture", "submit_spec"}
      /\ tool \notin {SubmitTool(slot) : slot \in RustSlot}
  BY SubmitToolNames DEF EditTools
<1> QED BY <1>1, <1>2 DEF CanSucceed

(* The tools of an author, at every stage but architect's.                 *)
LEMMA AuthorToolsWork ==
  ASSUME NEW s \in Stage, NEW tool \in AuthorTools(s)
  PROVE CanSucceed(tool, s)
<1>1. CASE s = "spec"
  <2>1. tool = "submit_spec"
    BY <1>1 DEF AuthorTools
  <2>2. tool \notin {SubmitTool(slot) : slot \in RustSlot}
    BY <2>1, SubmitToolNames
  <2> QED BY <1>1, <2>1, <2>2 DEF CanSucceed, EditTools
<1>2. CASE s # "spec" /\ tool = "write_item"
  <2>1. s # "architect"
    BY <1>2 DEF AuthorTools
  <2> QED BY <1>2, <2>1, SlotTools
<1>3. CASE s # "spec" /\ tool # "write_item"
  <2>1. PICK slot \in RustSlot : tool = SubmitTool(slot) /\ s \in AllowedStages(slot)
    BY <1>3 DEF Stage, AuthorTools, RustSlot, SubmitTool, AllowedStages
  <2>2. tool \notin {"submit_architecture", "submit_spec", "write_item"} \cup EditTools
    BY <2>1, SubmitToolNames DEF EditTools
  <2>3. tool \in {SubmitTool(other) : other \in RustSlot}
    BY <2>1
  <2> QED BY <2>1, <2>2, <2>3 DEF CanSucceed
<1> QED BY <1>1, <1>2, <1>3

(* A quickfixer's tools, where there is a quickfix.                        *)
LEMMA QuickfixToolsWork ==
  ASSUME NEW s \in Stage \ {"architect", "spec"}
  PROVE /\ \A tool \in QuickfixTools(s) : CanSucceed(tool, s)
        /\ {"write_file_range", "apply_patch", "write_item"} \subseteq QuickfixTools(s)
        /\ GateToolFor(s) \in QuickfixTools(s)
<1>1. QuickfixTools(s) \subseteq ReadTools \cup CargoTools \cup EditTools \cup {"write_item"}
  BY DEF Stage, QuickfixTools, ReadTools, CargoTools, EditTools
<1>2. {"write_file_range", "apply_patch", "write_item"} \subseteq QuickfixTools(s)
  BY DEF QuickfixTools, EditTools
<1>3. GateToolFor(s) \in QuickfixTools(s)
  BY DEF Stage, QuickfixTools, GateToolFor
<1> QED BY <1>1, <1>2, <1>3, OpenTools, SlotTools

(* What the table of a turn says, for the roles that attach every tool.    *)
LEMMA UnifiedAccepted ==
  ASSUME NEW s \in Stage, NEW r \in Role \ {"quickfixer"}, <<s, r>> \in Turns
  PROVE /\ ToolsAcceptedAt(s, r) \subseteq UnifiedTools
        /\ \A tool \in ToolsAcceptedAt(s, r) : CanSucceed(tool, s)
        /\ PrimaryTools(s, r) \subseteq ToolsAcceptedAt(s, r)
        /\ r \in Author => AuthorTools(s) \subseteq ToolsAcceptedAt(s, r)
<1>1. GateTools(s, r) \subseteq CargoTools
  BY DEF Stage, GateTools, CargoTools
<1>2. AuthorTools(s) \subseteq UnifiedTools
  <2>1. {"submit_public", "submit_private", "submit_tests"} \subseteq SubmitTools
    BY DEF SubmitTools, RustSlot, SubmitTool
  <2> QED BY <2>1 DEF Stage, AuthorTools, UnifiedTools, SubmitTools
<1>3. CASE s = "architect"
  <2>1. r = "writer"
    BY <1>3 DEF Turns
  <2>2. ToolsAcceptedAt(s, r) = ReadTools \cup GateTools(s, r) \cup {"submit_architecture"}
    BY <1>3, <2>1 DEF ToolsAcceptedAt
  <2>3. CanSucceed("submit_architecture", s)
    <3>1. "submit_architecture" \notin {SubmitTool(slot) : slot \in RustSlot}
      BY SubmitToolNames
    <3> QED BY <1>3, <3>1 DEF CanSucceed, EditTools
  <2>4. AuthorTools(s) = {} /\ PrimaryTools(s, r) = {"submit_architecture"}
    BY <1>3 DEF AuthorTools, PrimaryTools
  <2> QED BY <1>1, <2>2, <2>3, <2>4, OpenTools DEF UnifiedTools, SubmitTools
<1>4. CASE s # "architect" /\ r \in Author
  <2>1. ToolsAcceptedAt(s, r) = ReadTools \cup GateTools(s, r) \cup AuthorTools(s)
    BY <1>4 DEF ToolsAcceptedAt, Author
  <2>2. PrimaryTools(s, r) \subseteq AuthorTools(s)
    BY <1>4 DEF PrimaryTools, Author
  <2> QED BY <1>1, <1>2, <2>1, <2>2, OpenTools, AuthorToolsWork DEF UnifiedTools
<1>5. CASE s # "architect" /\ r \in {"critic", "judge"}
  <2>1. PICK tool \in AnswerTools :
          /\ ToolsAcceptedAt(s, r) = ReadTools \cup GateTools(s, r) \cup {tool}
          /\ PrimaryTools(s, r) = {tool}
    BY <1>5 DEF ToolsAcceptedAt, PrimaryTools, AnswerTools, Author
  <2>2. r \notin Author
    BY <1>5 DEF Author
  <2> QED BY <1>1, <2>1, <2>2, OpenTools DEF UnifiedTools
<1> QED BY <1>3, <1>4, <1>5 DEF Role, Author

(* Every turn of every stage.                                              *)
LEMMA EveryTurn ==
  ASSUME NEW s \in Stage, NEW r \in Role, <<s, r>> \in Turns
  PROVE /\ ToolsAcceptedAt(s, r) \subseteq ToolNamesFor(s, r)
        /\ \A tool \in ToolsAcceptedAt(s, r) : CanSucceed(tool, s)
        /\ PrimaryTools(s, r) \subseteq ToolsAcceptedAt(s, r)
        /\ r \in Author =>
             \A slot \in RustSlot \cap SlotsOwnedByStage(s) :
               SubmitTool(slot) \in ToolsAcceptedAt(s, r)
        /\ r = "quickfixer" => GateToolFor(s) \in ToolsAcceptedAt(s, r)
<1>1. CASE r = "quickfixer"
  <2>1. s \notin {"architect", "spec"}
    BY <1>1 DEF Turns
  <2>2. /\ ToolsAcceptedAt(s, r) = QuickfixTools(s)
        /\ ToolNamesFor(s, r) = QuickfixTools(s)
        /\ r \notin Author
    BY <1>1 DEF ToolsAcceptedAt, ToolNamesFor, Author
  <2>3. PrimaryTools(s, r) = {"write_file_range", "apply_patch", "write_item"}
    BY <1>1, <2>1 DEF PrimaryTools, Author
  <2> QED BY <2>1, <2>2, <2>3, QuickfixToolsWork
<1>2. CASE r # "quickfixer"
  <2>1. ToolNamesFor(s, r) = UnifiedTools
    BY <1>2 DEF ToolNamesFor
  <2> QED BY <1>2, <2>1, UnifiedAccepted, AuthorsCanSubmit
<1> QED BY <1>1, <1>2

-----------------------------------------------------------------------------
(* What a step does to the slots.                                          *)

(* Every slot that changes is the stage's own, and what is put in a source *)
(* slot would pass as its submission. *)
WritesWell ==
  /\ SlotsShaped'
  /\ \A n \in Node, slot \in NodeSlot :
       slots'[n][slot] # slots[n][slot] =>
         /\ n = "self" /\ slot \in SlotsOwnedByStage(stage)
         /\ slot \in RustSlot => Fits(slot, slots'[n][slot])

(* What each step of a session does. *)
GoodStep ==
  /\ WritesWell
  /\ SessionOK' /\ PatchOpen'
  /\ result' = "refused" => slots' = slots

(* Leaving the slots alone writes them well. *)
LEMMA KeepsSlots ==
  ASSUME SlotsShaped, UNCHANGED slots
  PROVE WritesWell
BY DEF WritesWell, SlotsShaped, Slotted

(* Writing one owned slot with a text that fits writes well. *)
LEMMA OwnWritesWell ==
  ASSUME SlotsShaped, SessionOK, NEW slot \in SlotsOwnedByStage(stage), NEW text,
         slot \in RustSlot => Fits(slot, text),
         slots' = Own(slot, text)
  PROVE WritesWell
<1>1. slot \in NodeSlot
  BY OwnedIsSlot DEF SessionOK
<1>2. SlotsShaped'
  BY <1>1 DEF SlotsShaped, Slotted, Own, Node
<1>3. slots'["self"][slot] = text
  BY <1>1 DEF SlotsShaped, Slotted, Own, Node
<1>4. \A n \in Node, other \in NodeSlot :
        n # "self" \/ other # slot => slots'[n][other] = slots[n][other]
  BY DEF SlotsShaped, Slotted, Own, Node
<1> QED BY <1>2, <1>3, <1>4 DEF WritesWell

(* A call that is answered is a good step if what it puts in place of the  *)
(* slots when it is accepted is. *)
LEMMA AnsweredIsGood ==
  ASSUME Inv, NEW call, NEW accepted, NEW after,
         Answered(call, accepted, after),
         accepted /\ slots' = after => WritesWell
  PROVE GoodStep
<1>1. SessionOK' /\ PatchOpen'
  BY DEF Inv, SessionOK, PatchOpen, Answered, Called, ctx
<1>2. result' = "refused" => slots' = slots
  BY DEF Answered, Finished
<1>3. WritesWell
  BY KeepsSlots DEF Inv, Answered
<1> QED BY <1>1, <1>2, <1>3 DEF GoodStep

-----------------------------------------------------------------------------
(* The calls that write slots.                                             *)

(* An edit that apply_slot_edit lets in. *)
LEMMA AcceptedEditFits ==
  ASSUME NEW path, NEW text, EditAccepted(path, text)
  PROVE /\ path.slot \in SlotsOwnedByStage(stage)
        /\ path.slot \in RustSlot => Fits(path.slot, text)
BY EditsFit DEF EditAccepted

LEMMA SubmitSpecIsGood ==
  ASSUME Inv, NEW public, NEW private, NEW deps, SubmitSpec(public, private, deps)
  PROVE GoodStep
<1> DEFINE after ==
      [slots EXCEPT !["self"]["public.md"] = public,
                    !["self"]["private.md"] = IF private = NotAuthored THEN @ ELSE private]
<1>1. ASSUME stage = "spec", slots' = after PROVE WritesWell
  <2>1. SlotsShaped'
    BY <1>1 DEF Inv, SlotsShaped, Slotted, Node
  <2>2. \A n \in Node, slot \in NodeSlot :
          slots'[n][slot] # slots[n][slot] => n = "self" /\ slot \in SpecSlot
    BY <1>1 DEF Inv, SlotsShaped, Slotted, Node, SpecSlot
  <2>3. SlotsOwnedByStage(stage) = SpecSlot
    BY <1>1 DEF SlotsOwnedByStage
  <2>4. SpecSlot \cap RustSlot = {}
    BY DEF SpecSlot, RustSlot
  <2> QED BY <2>1, <2>2, <2>3, <2>4 DEF WritesWell
<1> QED BY <1>1, AnsweredIsGood DEF SubmitSpec

LEMMA SubmitRustSlotIsGood ==
  ASSUME Inv, NEW slot \in RustSlot, NEW text, SubmitRustSlot(slot, text)
  PROVE GoodStep
<1>1. ASSUME stage \in AllowedStages(slot), Fits(slot, text), slots' = Own(slot, text)
      PROVE WritesWell
  BY <1>1, SubmittersOwn, OwnWritesWell DEF Inv, SessionOK
<1> QED BY <1>1, AnsweredIsGood DEF SubmitRustSlot

LEMMA WriteItemIsGood ==
  ASSUME Inv, NEW slot \in RustSlot, NEW entries, WriteItem(slot, entries)
  PROVE GoodStep
<1> DEFINE text == WriteItems(slots["self"][slot], entries)
<1>1. ASSUME stage \in AllowedStages(slot), Fits(slot, text), slots' = Own(slot, text)
      PROVE WritesWell
  <2> HIDE DEF text
  <2> QED BY <1>1, SubmittersOwn, OwnWritesWell DEF Inv, SessionOK
<1> QED BY <1>1, AnsweredIsGood DEF WriteItem

LEMMA WriteFileIsGood ==
  ASSUME Inv, NEW path, NEW text, WriteFile(path, text)
  PROVE GoodStep
<1>1. ASSUME EditAccepted(path, text), slots' = Own(path.slot, text)
      PROVE WritesWell
  BY <1>1, AcceptedEditFits, OwnWritesWell DEF Inv
<1> QED BY <1>1, AnsweredIsGood DEF WriteFile

LEMMA WriteFileRangeIsGood ==
  ASSUME Inv, NEW path, NEW edit, WriteFileRange(path, edit)
  PROVE GoodStep
<1> DEFINE text == Edited(path, edit)
<1>1. ASSUME EditAccepted(path, text), slots' = Own(path.slot, text)
      PROVE WritesWell
  <2> HIDE DEF text
  <2> QED BY <1>1, AcceptedEditFits, OwnWritesWell DEF Inv
<1> QED BY <1>1, AnsweredIsGood DEF WriteFileRange

-----------------------------------------------------------------------------
(* apply_patch.                                                            *)

LEMMA ApplyPatchIsGood ==
  ASSUME Inv, NEW patches, ApplyPatch(patches)
  PROVE GoodStep
<1>1. WritesWell
  BY KeepsSlots DEF Inv, ApplyPatch
<1>2. SessionOK'
  BY DEF Inv, SessionOK, ApplyPatch, Called, ctx, NoPatch
<1>3. PatchOpen'
  BY DEF PatchOpen, ApplyPatch, NoPatch
<1> QED BY <1>1, <1>2, <1>3 DEF GoodStep, ApplyPatch

LEMMA PatchFileIsGood ==
  ASSUME Inv, PatchFile
  PROVE GoodStep
<1> DEFINE p == Head(patch.left)
           text == Edited(p.path, p.edit)
<1>1. WritesWell
  <2>1. EditAccepted(p.path, text) /\ slots' = Own(p.path.slot, text)
    BY DEF PatchFile
  <2> HIDE DEF text, p
  <2> QED BY <2>1, AcceptedEditFits, OwnWritesWell DEF Inv
<1>2. result' = "none" /\ UNCHANGED ctx
  BY DEF Inv, PatchOpen, PatchFile, Patching
<1>3. patch'.active \in BOOLEAN
  BY DEF Inv, SessionOK, PatchFile
<1> QED BY <1>1, <1>2, <1>3 DEF GoodStep, Inv, SessionOK, PatchOpen, ctx

LEMMA PatchMissesIsGood ==
  ASSUME Inv, PatchMisses
  PROVE GoodStep
<1>1. WritesWell
  BY KeepsSlots DEF Inv, PatchMisses
<1>2. result' = "none" /\ UNCHANGED ctx
  BY DEF Inv, PatchOpen, PatchMisses, Patching
<1>3. patch'.active \in BOOLEAN
  BY DEF Inv, SessionOK, PatchMisses
<1> QED BY <1>1, <1>2, <1>3 DEF GoodStep, Inv, SessionOK, PatchOpen, ctx

(* A step that leaves the slots alone and a patch under way unanswered. *)
LEMMA QuietIsGood ==
  ASSUME Inv, UNCHANGED <<ctx, slots>>,
         \/ ~patch'.active /\ patch'.active \in BOOLEAN
         \/ UNCHANGED <<patch, result>>
  PROVE GoodStep
<1>1. WritesWell
  BY KeepsSlots DEF Inv
<1>2. patch'.active \in BOOLEAN
  BY DEF Inv, SessionOK
<1>3. PatchOpen'
  BY DEF Inv, PatchOpen
<1>4. stage' = stage /\ slots' = slots
  BY DEF ctx
<1> QED BY <1>1, <1>2, <1>3, <1>4 DEF GoodStep, Inv, SessionOK
-----------------------------------------------------------------------------
(* The session.                                                            *)

LEMMA WriteCallIsGood ==
  ASSUME Inv, WriteCall
  PROVE GoodStep
<1>1. CASE \E public \in Notes, private \in Notes \cup {NotAuthored}, deps \in BOOLEAN :
             SubmitSpec(public, private, deps)
  BY <1>1, SubmitSpecIsGood
<1>2. CASE \E slot \in RustSlot, text \in Texts : SubmitRustSlot(slot, text)
  BY <1>2, SubmitRustSlotIsGood
<1>3. CASE \E slot \in RustSlot, entries \in EntryLists : WriteItem(slot, entries)
  BY <1>3, WriteItemIsGood
<1>4. CASE \E path \in Paths, text \in Texts : WriteFile(path, text)
  BY <1>4, WriteFileIsGood
<1>5. CASE \E path \in Paths, edit \in Edits : WriteFileRange(path, edit)
  BY <1>5, WriteFileRangeIsGood
<1>6. CASE \E patches \in PatchLists : ApplyPatch(patches)
  BY <1>6, ApplyPatchIsGood
<1>7. CASE PatchFile
  BY <1>7, PatchFileIsGood
<1>8. CASE PatchMisses
  BY <1>8, PatchMissesIsGood
<1>9. CASE PatchRefused
  BY <1>9, QuietIsGood DEF PatchRefused, NoPatch
<1>10. CASE PatchDone
  BY <1>10, QuietIsGood DEF PatchDone, NoPatch
<1> QED BY <1>1, <1>2, <1>3, <1>4, <1>5, <1>6, <1>7, <1>8, <1>9, <1>10 DEF WriteCall

(* Calls that put back the slots they found. *)
LEMMA AsksIsGood ==
  ASSUME Inv, NEW call, NEW accepted, Answered(call, accepted, slots)
  PROVE GoodStep
BY AnsweredIsGood, KeepsSlots DEF Inv

LEMMA OtherCallIsGood ==
  ASSUME Inv, OtherCall
  PROVE GoodStep
<1>1. CASE \E fits \in BOOLEAN : SubmitArchitecture(fits)
  BY <1>1, AsksIsGood DEF SubmitArchitecture
<1>2. CASE \E answer \in Critique \ {"none"} : SubmitCritique(answer)
  BY <1>2, QuietIsGood DEF SubmitCritique, Called, Inv, SessionOK
<1>3. CASE \E answer \in Verdict \ {"none"} : SubmitVerdict(answer)
  BY <1>3, QuietIsGood DEF SubmitVerdict, Called, Inv, SessionOK
<1>4. CASE \E path \in Paths : ReadFile(path)
  BY <1>4, AsksIsGood DEF ReadFile
<1>5. CASE \E slot \in RustSlot, names \in Asked : ReadItem(slot, names)
  BY <1>5, AsksIsGood DEF ReadItem
<1>6. CASE \E tool \in Lookups \cap ReadTools, entries \in Asked : Consult(tool, entries)
  BY <1>6, AsksIsGood DEF Consult
<1>7. CASE \E tool \in Lookups \cap CargoTools, spawned \in BOOLEAN : RunCargo(tool, spawned)
  BY <1>7, AsksIsGood DEF RunCargo
<1> QED BY <1>1, <1>2, <1>3, <1>4, <1>5, <1>6, <1>7 DEF OtherCall

(* Every step of a session, and every stutter, is a good step. *)
LEMMA StepsAreGood ==
  ASSUME Inv, [Next]_vars
  PROVE GoodStep
<1>1. CASE WriteCall
  BY <1>1, WriteCallIsGood
<1>2. CASE OtherCall
  BY <1>2, OtherCallIsGood
<1>3. CASE ForceRetry
  BY <1>3, QuietIsGood DEF ForceRetry
<1>4. CASE Finish
  BY <1>4, QuietIsGood DEF Finish
<1>5. CASE DriveFails
  BY <1>5, QuietIsGood DEF DriveFails
<1>6. CASE UNCHANGED vars
  BY <1>6, QuietIsGood DEF vars
<1> QED BY <1>1, <1>2, <1>3, <1>4, <1>5, <1>6 DEF Next

LEMMA InitInv ==
  ASSUME Init
  PROVE Inv
<1>1. stage \in Stage /\ patch = NoPatch
  BY ToolCallsAssumption DEF Init
<1>2. PICK held \in Started : slots = [n \in Node |-> IF n = "self" THEN held ELSE Neighbour]
  BY DEF Init
<1>3. Sound(held) /\ Slotted(held)
  BY DEF Started, Slotted
<1>4. Sound(Neighbour) /\ Slotted(Neighbour)
  BY NeighbourAssumption DEF Slotted
<1>5. SlotsShaped /\ ValidSlots
  BY <1>2, <1>3, <1>4 DEF SlotsShaped, ValidSlots, Node
<1> QED BY <1>1, <1>5 DEF Inv, SessionOK, PatchOpen, NoPatch

LEMMA NextInv ==
  ASSUME Inv, [Next]_vars
  PROVE Inv'
<1>1. GoodStep
  BY StepsAreGood
<1>2. ASSUME NEW n \in Node, NEW slot \in RustSlot, slots'[n][slot] # NotAuthored
      PROVE Fits(slot, slots'[n][slot])
  <2>1. CASE slots'[n][slot] = slots[n][slot]
    BY <1>2, <2>1 DEF Inv, ValidSlots, Sound
  <2>2. CASE slots'[n][slot] # slots[n][slot]
    BY <1>1, <2>2 DEF GoodStep, WritesWell, NodeSlot
  <2> QED BY <2>1, <2>2
<1>3. ValidSlots'
  BY <1>2 DEF ValidSlots, Sound
<1> QED BY <1>1, <1>3 DEF Inv, GoodStep, WritesWell

LEMMA InvHolds == Spec => []Inv
BY InitInv, NextInv, PTL DEF Spec

-----------------------------------------------------------------------------
(* The theorems.                                                           *)

(* Whatever the model writes, by whichever of the tools, what is in a      *)
(* source slot would pass as its submission.                               *)
THEOREM SlotsStayValid == Spec => []ValidSlots
<1>1. Inv => ValidSlots
  BY DEF Inv
<1> QED BY <1>1, InvHolds, PTL

(* No call changes a slot its stage does not own, or one of another node.  *)
THEOREM WritesStay == Spec => WritesStayInStage
<1>1. ASSUME Inv, [Next]_vars
      PROVE [\A n \in Node, slot \in NodeSlot :
               slots'[n][slot] # slots[n][slot] =>
                 n = "self" /\ slot \in SlotsOwnedByStage(stage)]_vars
  BY <1>1, StepsAreGood DEF GoodStep, WritesWell
<1> QED BY <1>1, InvHolds, PTL DEF Spec, WritesStayInStage

(* A call answered with an error has left every slot as it was.            *)
THEOREM RefusalsChangeNothing == Spec => RefusedChangesNothing
<1>1. ASSUME Inv, [Next]_vars
      PROVE [(result' = "refused") => (slots' = slots)]_vars
  BY <1>1, StepsAreGood DEF GoodStep
<1> QED BY <1>1, InvHolds, PTL DEF Spec, RefusedChangesNothing

(* At every stage and for every role asked of a model, what the prompt     *)
(* lists is attached and can work, and what the stage owes can be given.   *)
THEOREM PromptedToolsWork == Spec => []EligibleToolsWork
<1>1. EligibleToolsWork
  <2> SUFFICES ASSUME NEW turn \in Turns
               PROVE LET s == turn[1]
                         r == turn[2]
                     IN  /\ ToolsAcceptedAt(s, r) \subseteq ToolNamesFor(s, r)
                         /\ \A tool \in ToolsAcceptedAt(s, r) : CanSucceed(tool, s)
                         /\ PrimaryTools(s, r) \subseteq ToolsAcceptedAt(s, r)
                         /\ r \in Author =>
                              \A slot \in RustSlot \cap SlotsOwnedByStage(s) :
                                SubmitTool(slot) \in ToolsAcceptedAt(s, r)
                         /\ r = "quickfixer" => GateToolFor(s) \in ToolsAcceptedAt(s, r)
    BY DEF EligibleToolsWork
  <2>1. turn[1] \in Stage /\ turn[2] \in Role /\ <<turn[1], turn[2]>> \in Turns
    BY DEF Turns
  <2> QED BY <2>1, EveryTurn
<1> QED BY <1>1, PTL
=============================================================================
