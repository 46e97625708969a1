------------------------------ MODULE MCLanding ------------------------------
(* Landing for TLC. *)
EXTENDS Landing, TLC

CONSTANTS spec, code, third

AllThree == {spec, code, third}
SpecAndCode == {spec, code}
TwoCode == {code, third}
OneSpec == {spec}
NoSpec == {}

(* The tasks that are of neither kind are interchangeable. *)
Interchangeable == Permutations(Task \ (SpecTasks \cup Rewriters))
=============================================================================
