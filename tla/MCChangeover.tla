---------------------------- MODULE MCChangeover ----------------------------
(***************************************************************************)
(* Instances of Changeover for TLC.                                        *)
(***************************************************************************)
EXTENDS Changeover, TLC

CONSTANTS v1, v2, v3, v4   \* manifests; two have the same version number

MCVersion == (v1 :> 1) @@ (v2 :> 2) @@ (v3 :> 2) @@ (v4 :> 3)
=============================================================================
