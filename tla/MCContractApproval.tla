------------------------- MODULE MCContractApproval -------------------------
EXTENDS ContractApproval, TLC

(* Requests of one kind do the same; a key only has to be a new one.       *)
Interchangeable ==
  Permutations(Submitters) \union Permutations(Signers) \union Permutations(Cancellers)
  \union Permutations(Keys) \union Permutations(TerminationKeys)
=============================================================================
