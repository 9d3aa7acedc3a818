----------------------------- MODULE MCRegistry -----------------------------
(* Values for model checking Registry: two clients, each with one number.  *)
EXTENDS Registry, TLC

CONSTANTS a, b, p1, p2

FirstOwnerValue == p1 :> a @@ p2 :> b
=============================================================================
