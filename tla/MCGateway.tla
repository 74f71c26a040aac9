----------------------------- MODULE MCGateway -----------------------------
(* Gateway with the symmetry of its calls. *)
EXTENDS Gateway, TLC

Symmetry == Permutations(Turns)
=============================================================================
