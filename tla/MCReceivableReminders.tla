------------------------ MODULE MCReceivableReminders ------------------------
(* A bank line with two entries of amount 1 and fee 1, and an entry of 1    *)
(* typed in by hand.                                                        *)
EXTENDS ReceivableReminders, TLC

CONSTANT MaxCalls   \* bound: calls of the finance desk and edits, in one behaviour

Paid == [e \in Old \union Typed |-> 1]
Fees == [e \in Old \union Typed |-> IF e \in Old THEN 1 ELSE 0]
Interchangeable == Permutations(Requests) \union Permutations(Old) \union Permutations(Editors)

(* Any two of them at a time: two requests, two edits, or one of each.      *)
FewCalls ==
  Cardinality({r \in Requests : pc[r] # "new"}) + Cardinality({x \in Editors : edit[x].at # "new"}) <= MaxCalls

MCNext == Next /\ FewCalls'
MCSpec == Init /\ [][MCNext]_vars
=============================================================================
