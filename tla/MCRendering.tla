----------------------------- MODULE MCRendering -----------------------------
(* Rendering for TLC. *)
EXTENDS Rendering, TLC

(* Ids and names are interchangeable: TLC takes both in the order in which *)
(* they enter the table.                                                   *)
InOrderOfEntry ==
  \A i \in DOMAIN g.order : g.order[i] = i /\ g.name[i] = i
=============================================================================
