----------------------------- MODULE MCToolCalls -----------------------------
(* ToolCalls for TLC. *)
EXTENDS ToolCalls

Api == [names |-> {"T"}, form |-> "trait"]
Body == [names |-> {"T"}, form |-> "default_trait"]
Type == [names |-> {"S"}, form |-> "struct"]
Imp == [names |-> {"S", "T for S"}, form |-> "impl"]
Inner == [names |-> {"m"}, form |-> "mod"]

(* One for public.rs, one that only tests.rs takes, with a trait that      *)
(* public.rs refuses though its kind fits, and for private.rs a pair that  *)
(* answers to the same name.                                               *)
MCTexts == {{Api}, {Body, Inner}, {Type, Imp}}

MCNotes == {{}, {Type}}

MCTurns == {<<"architect", "writer">>, <<"spec", "writer">>, <<"iface", "reviser">>,
            <<"iface", "quickfixer">>, <<"tests", "judge">>, <<"debug", "quickfixer">>}

MCPaths ==
  [node : {"self"}, slot : {"private.rs", "tests.rs"}] \cup [node : Node, slot : {"public.rs"}]

MCEdits == {[cut |-> {}, paste |-> {Api}], [cut |-> {Type}, paste |-> {}]}

MCEntryLists ==
  {<<[name |-> "T", text |-> {Body}]>>, <<[name |-> "S", text |-> {Imp}]>>,
   <<[name |-> "S", text |-> {Type}], [name |-> "T", text |-> {Api}]>>}

Own2(slot) == [node |-> "self", slot |-> slot]

MCPatchLists ==
  {<<[path |-> Own2(s), edit |-> [cut |-> {}, paste |-> {Type}]],
     [path |-> [node |-> n, slot |-> "private.rs"], edit |-> [cut |-> {Type}, paste |-> {Imp}]]>> :
     s \in {"public.rs", "tests.rs"}, n \in {"self", "other", "none"}}

MCNeighbour == [slot \in NodeSlot |-> NotAuthored]

(* Slots that other stages own start unwritten, all but the spec, and of   *)
(* the node's own only the ones of this stage vary.                        *)
MCInit ==
  /\ Init
  /\ \A slot \in NodeSlot \ SlotsOwnedByStage(stage) :
       slots["self"][slot] = IF slot = "public.md" /\ stage \notin {"architect", "spec"}
                             THEN {Type} ELSE NotAuthored

MCSpec == MCInit /\ [][Next]_vars
=============================================================================
