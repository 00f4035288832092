-------------------------- MODULE MCApprovalEngine --------------------------
(***************************************************************************)
(* Three documents of one salesman: a contract with the only flow its kind *)
(* may have, an order whose first step two people must agree on, a travel  *)
(* reimbursement either of two people may decide. Managers may be missing. *)
(***************************************************************************)
EXTENDS ApprovalEngine, TLC

CONSTANTS contract, order, trip, ann, ben, cat

KindOf == contract :> "CONTRACT" @@ order :> "PURCHASE_ORDER" @@ trip :> "TRAVEL_REIMBURSEMENT"

AnnSubmits == [d \in Docs |-> ann]

AnyOf(S) == [mode |-> "ANY", staff |-> {{}, S}]
AllOf(S) == [mode |-> "ALL", staff |-> {{}, S}]

FlowsOf ==
  contract :> {<<AnyOf({ben})>>}
    @@ order :> {<<AllOf({ben, cat}), AnyOf({cat})>>}
    @@ trip :> {<<AnyOf({ben, cat}), AnyOf({ann})>>}

Interchangeable == Permutations(Requests)
=============================================================================
