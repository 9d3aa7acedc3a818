-------------------------- MODULE MCClientActions --------------------------
(***************************************************************************)
(* ClientActions on small instances: presses are interchangeable, and so   *)
(* are the two actions that update the record.                             *)
(***************************************************************************)
EXTENDS ClientActions, TLC

Symmetry == Permutations(Presses) \cup Permutations(Updating)

(* At most one error answer comes before its update is decided.            *)
FewUndecided == Cardinality({p \in Presses : reply[p] = "undecided"}) <= 1
=============================================================================
