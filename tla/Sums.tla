-------------------------------- MODULE Sums --------------------------------
(***************************************************************************)
(* Sums of quantities and amounts over finite sets of lines, entries or    *)
(* documents.                                                              *)
(***************************************************************************)
EXTENDS Integers, FiniteSets, FiniteSetsExt

Total(f, S) == MapThenSumSet(LAMBDA x : f[x], S)
=============================================================================
