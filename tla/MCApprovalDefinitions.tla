----------------------- MODULE MCApprovalDefinitions -----------------------
EXTENDS ApprovalDefinitions, TLC

(* Purchase orders: one step in the base band, two above the threshold.    *)
TwoSteps == 0 :> {1} @@ 1 :> {1, 2}

Interchangeable == Permutations(Savers) \union Permutations(Seeders)
=============================================================================
