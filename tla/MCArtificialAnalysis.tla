------------------------ MODULE MCArtificialAnalysis ------------------------
(***************************************************************************)
(* Instances of ArtificialAnalysis for TLC.                                *)
(***************************************************************************)
EXTENDS ArtificialAnalysis, TLC

CONSTANTS p1, p2

Symmetric == Permutations({p1, p2})
=============================================================================
