------------------------------- MODULE MCAttempt -------------------------------
(* Attempt for TLC: a spec beside a stage that may be quickfixed, and an   *)
(* architect on its own.                                                   *)
EXTENDS Attempt

CONSTANTS spec, code

MCTask == {spec, code}
=============================================================================
