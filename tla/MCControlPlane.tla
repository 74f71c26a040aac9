--------------------------- MODULE MCControlPlane ---------------------------
(***************************************************************************)
(* Instances of ControlPlane for TLC.                                      *)
(***************************************************************************)
EXTENDS ControlPlane, TLC

\* Work that earns tokens, work that earns nothing.
MCWork == {[outcome |-> "partial", tokens |-> 1, gpuUs |-> 5000],
           [outcome |-> "failed", tokens |-> 1, gpuUs |-> 5000]}

Symmetry == Permutations(Nodes) \cup Permutations(Pools)
            \cup Permutations(Models) \cup Permutations(ReceiptIds)
=============================================================================
