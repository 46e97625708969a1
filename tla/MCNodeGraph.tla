----------------------------- MODULE MCNodeGraph -----------------------------
(* NodeGraph for TLC. *)
EXTENDS NodeGraph, TLC

(* Ids and names are interchangeable, so TLC takes ids in the order in     *)
(* which they enter the table, and a name only after the names before it.  *)
Canonical ==
  \A i \in DOMAIN g.order :
    /\ g.order[i] = i
    /\ \A nm \in 1 .. g.name[i] - 1 : \E j \in 1 .. i - 1 : g.name[j] = nm
=============================================================================
