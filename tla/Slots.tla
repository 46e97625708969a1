-------------------------------- MODULE Slots --------------------------------
(***************************************************************************)
(* What the slots of a node may hold: the validators of node_validate.rs,  *)
(* the item lookup of rust_summary.rs and the tables of tools.rs that say  *)
(* who may write which slot.                                               *)
(*                                                                         *)
(* A text is a set of items, each a block of one line: the order of items  *)
(* and what is written in them matter to no rule.  An item is its form and *)
(* the names it answers to.                                                *)
(***************************************************************************)
EXTENDS Naturals, FiniteSets, SequencesExt

CONSTANTS
  ItemName,     \* names of items
  NotAuthored,  \* a slot nobody has written
  MaxFileLines, \* limits.max_file_lines
  MaxSpecLines  \* limits.max_spec_section_lines

ASSUME SlotsAssumption ==
  /\ MaxFileLines \in Nat
  /\ MaxSpecLines \in Nat

Stage == {"architect", "spec", "iface", "tests", "impl", "debug"}
Role == {"writer", "critic", "reviser", "judge", "quickfixer"}

RustSlot == {"public.rs", "private.rs", "tests.rs"}
SpecSlot == {"public.md", "private.md"}
NodeSlot == RustSlot \cup SpecSlot

(* default_trait has a method with a body; undeclared is a use of a crate  *)
(* path the node has no dep on; mod_macro is a mod with a macro inside.    *)
Form == {"trait", "default_trait", "struct", "impl", "fn", "mod", "mod_macro",
         "use", "pub_use", "undeclared", "macro", "syntax_error"}

Item == [names : SUBSET ItemName, form : Form]
Text == SUBSET Item

Blank == {}

LineCount(text) == Cardinality(text)

Parses(text) == \A i \in text : i.form # "syntax_error"

-----------------------------------------------------------------------------
(* Validators.                                                             *)

PublicItem == {"trait", "struct", "use", "undeclared"}

PrivateItem == {"struct", "impl", "fn", "use", "pub_use"}

TestsItem == {"trait", "default_trait", "struct", "impl", "fn", "mod",
              "use", "pub_use"}

AllHave(forms, text) == Parses(text) /\ \A i \in text : i.form \in forms

SubmitItem(slot) ==
  CASE slot = "public.rs"  -> PublicItem
    [] slot = "private.rs" -> PrivateItem
    [] slot = "tests.rs"   -> TestsItem

(* SubmitSlot::validate. *)
Validate(slot, text) == AllHave(SubmitItem(slot), text)

EditItem(slot) == IF slot = "public.rs" THEN PublicItem ELSE PrivateItem

(* apply_slot_edit checks tests.rs as it does private.rs, spec sections    *)
(* not at all.                                                             *)
ValidateEdit(slot, text) == slot \in RustSlot => AllHave(EditItem(slot), text)

-----------------------------------------------------------------------------
(* Items by name.                                                          *)

KindOf(item) ==
  CASE item.form \in {"trait", "default_trait"}       -> "trait"
    [] item.form \in {"mod", "mod_macro"}             -> "mod"
    [] item.form \in {"use", "pub_use", "undeclared"} -> "use"
    [] OTHER -> item.form

(* A use or a macro answers to no name; an impl to its type and its header.*)
Named(text, name) ==
  {i \in text : name \in i.names /\ KindOf(i) \notin {"use", "macro"}}

(* write_top_item on one entry [name, text].                               *)
Replaceable(text, entry) ==
  /\ Parses(text) /\ Parses(entry.text)
  /\ Cardinality(Named(text, entry.name)) = 1
  /\ Cardinality(entry.text) = 1
  /\ \A old \in Named(text, entry.name), new \in entry.text : KindOf(old) = KindOf(new)

WriteTopItem(text, entry) == (text \ Named(text, entry.name)) \cup entry.text

(* The entries of a write_item call in their order; NotAuthored when one   *)
(* of them is refused.                                                     *)
WriteItems(text, entries) ==
  FoldLeft(LAMBDA working, entry :
             IF working # NotAuthored /\ Replaceable(working, entry)
             THEN WriteTopItem(working, entry) ELSE NotAuthored,
           text, entries)

-----------------------------------------------------------------------------
(* Who may write what.                                                     *)

(* SubmitSlot::allowed_stages. *)
AllowedStages(slot) ==
  CASE slot = "public.rs"  -> {"iface"}
    [] slot = "private.rs" -> {"iface", "impl", "debug"}
    [] slot = "tests.rs"   -> {"tests", "debug"}

SlotsOwnedByStage(stage) ==
  CASE stage = "architect" -> {}
    [] stage = "spec"  -> SpecSlot
    [] stage = "iface" -> {"public.rs", "private.rs"}
    [] stage = "tests" -> {"tests.rs"}
    [] stage = "impl"  -> {"private.rs"}
    [] stage = "debug" -> {"private.rs", "tests.rs"}

SubmitTool(slot) ==
  CASE slot = "public.rs"  -> "submit_public"
    [] slot = "private.rs" -> "submit_private"
    [] slot = "tests.rs"   -> "submit_tests"

ReadTools == {"read_file", "read_item", "search_crates", "crate_docs", "docs_lookup"}
CargoTools == {"cargo_check", "cargo_test", "cargo_test_no_run", "cargo_clippy"}
EditTools == {"write_file", "write_file_range", "apply_patch"}
SubmitTools == {"submit_architecture", "submit_spec"} \cup {SubmitTool(s) : s \in RustSlot}
AnswerTools == {"submit_critique", "submit_verdict"}

(* tool_is_mutating. *)
MutatingTools == SubmitTools \cup AnswerTools \cup EditTools \cup {"write_item"}

UnifiedTools == ReadTools \cup CargoTools \cup SubmitTools \cup AnswerTools \cup {"write_item"}

QuickfixTools(stage) ==
  {"read_file", "read_item", "write_item"} \cup EditTools \cup
    CASE stage \in {"architect", "spec"} -> {}
      [] stage = "iface" -> {"cargo_check"}
      [] stage = "tests" -> {"cargo_check", "cargo_test_no_run"}
      [] stage \in {"impl", "debug"} -> {"cargo_check", "cargo_test"}

(* tool_names_for: what the driver attaches. *)
ToolNamesFor(stage, role) ==
  IF role = "quickfixer" THEN QuickfixTools(stage) ELSE UnifiedTools

Author == {"writer", "reviser"}

(* Mutant: the tests stage is told to submit private.rs. *)
AuthorTools_TestsSubmitPrivate(stage) ==
  CASE stage = "spec"  -> {"submit_spec"}
    [] stage = "iface" -> {"submit_public", "submit_private", "write_item"}
    [] stage = "tests" -> {"submit_private", "write_item"}
    [] stage = "impl"  -> {"submit_private", "write_item"}
    [] stage = "debug" -> {"submit_private", "submit_tests", "write_item"}
    [] OTHER -> {}

AuthorTools(stage) ==
  CASE stage = "architect" -> {}
    [] stage = "spec"  -> {"submit_spec"}
    [] stage = "iface" -> {"submit_public", "submit_private", "write_item"}
    [] stage = "tests" -> {"submit_tests", "write_item"}
    [] stage = "impl"  -> {"submit_private", "write_item"}
    [] stage = "debug" -> {"submit_private", "submit_tests", "write_item"}

(* The cargo tools a prompt lists. *)
GateTools(stage, role) ==
  CASE stage \in {"architect", "spec"} -> {}
    [] stage = "iface" -> {"cargo_check"}
    [] stage = "tests" -> {"cargo_check", "cargo_test_no_run"}
    [] stage \in {"impl", "debug"} ->
         (IF stage = "debug" /\ role = "judge" THEN {} ELSE {"cargo_check"})
           \cup {"cargo_test"}
           \cup (IF role \in Author \/ (stage = "impl" /\ role = "critic")
                 THEN {"cargo_clippy"} ELSE {})

(* tools_accepted_at: what the prompt says will work. *)
ToolsAcceptedAt(stage, role) ==
  IF role = "quickfixer" THEN QuickfixTools(stage)
  ELSE ReadTools \cup GateTools(stage, role) \cup
       CASE stage = "architect" -> IF role = "writer" THEN {"submit_architecture"} ELSE {}
         [] stage # "architect" /\ role \in Author   -> AuthorTools(stage)
         [] stage # "architect" /\ role = "critic"   -> {"submit_critique"}
         [] stage # "architect" /\ role = "judge"    -> {"submit_verdict"}

(* primary_tool_for: the tools one of which the headline of a prompt names.*)
PrimaryTools(stage, role) ==
  CASE stage = "architect" -> {"submit_architecture"}
    [] stage # "architect" /\ role \in Author -> AuthorTools(stage) \ {"write_item"}
    [] stage # "architect" /\ role = "critic" -> {"submit_critique"}
    [] stage # "architect" /\ role = "judge"  -> {"submit_verdict"}
    [] stage # "architect" /\ role = "quickfixer" ->
         {"write_file_range", "apply_patch", "write_item"}

(* gate_kind_for, as the cargo tool that runs the same command.            *)
GateToolFor(stage) ==
  CASE stage \in {"architect", "spec", "iface"} -> "cargo_check"
    [] stage = "tests" -> "cargo_test_no_run"
    [] stage \in {"impl", "debug"} -> "cargo_test"

(* Every role asked of a model: architect only writes, and no quickfix at  *)
(* architect and spec.                                                     *)
Turns == {turn \in Stage \X Role :
            /\ turn[1] = "architect" => turn[2] = "writer"
            /\ turn[1] = "spec" => turn[2] # "quickfixer"}

(* require_stage and the checks of apply_slot_edit, as the stages at which *)
(* a tool can succeed at all.                                              *)
CanSucceed(tool, stage) ==
  CASE tool = "submit_architecture" -> stage = "architect"
    [] tool = "submit_spec" -> stage = "spec"
    [] tool \in {SubmitTool(s) : s \in RustSlot} ->
         \E s \in RustSlot : tool = SubmitTool(s) /\ stage \in AllowedStages(s)
    [] tool = "write_item" -> \E s \in RustSlot : stage \in AllowedStages(s)
    [] tool \in EditTools -> SlotsOwnedByStage(stage) # {}
    [] OTHER -> TRUE
=============================================================================
