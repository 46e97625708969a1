--------------------------------- MODULE MCFeed ---------------------------------
(* Feed for TLC. *)
EXTENDS Feed

(* The transcript and the rest of the state never meet: look at one while  *)
(* the other rests.                                                        *)
Apart ==
  pushed = 0 \/ (loading /\ answer["resync"] = Null /\ page = Null /\ online /\ count.writes = 0)
=============================================================================
