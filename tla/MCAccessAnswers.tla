--------------------------- MODULE MCAccessAnswers ---------------------------
(* Two questions of company A, one of company B.                            *)
EXTENDS AccessAnswers, TLC

AskedFor == [q \in Questions |-> IF q = 3 THEN "B" ELSE "A"]
Interchangeable == Permutations(Calls) \union Permutations(Changes)
=============================================================================
