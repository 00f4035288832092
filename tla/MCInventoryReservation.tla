----------------------- MODULE MCInventoryReservation -----------------------
(* Contract A sells steel and is changed once (lines 1 and 3), contract B   *)
(* sells steel and timber (lines 2 and 4). Receipts 1 and 2 bring that much *)
(* steel, receipt 3 brings timber.                                          *)
EXTENDS InventoryReservation, TLC

ItemsSold == [l \in Lines |-> IF l = 4 THEN "timber" ELSE "steel"]
Wanted == [l \in Lines |-> IF l \in {2, 4} THEN 1 ELSE 2]
Sold == [l \in Lines |-> IF l = 4 THEN 2 ELSE l]
Contracts == [v \in Versions |-> IF v = 2 THEN "B" ELSE "A"]
Deliveries ==
  [r \in Receipts |-> IF r = 3 THEN [item |-> "timber", qty |-> 1] ELSE [item |-> "steel", qty |-> r]]

Interchangeable == Permutations(Workers) \union Permutations(Outbounds)
=============================================================================
