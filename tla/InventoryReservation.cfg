SPECIFICATION Spec
CONSTANTS
  Items = {"steel", "timber"}
  Lines = {1, 2, 3, 4}
  ItemOf <- ItemsSold
  Demand <- Wanted
  VersionOf <- Sold
  Versions = {1, 2, 3}
  ContractOf <- Contracts
  Receipts = {1, 2, 3}
  Delivery <- Deliveries
  Outbounds = {o1, o2}
  Frozen = {1}
  Workers = {w1, w2}
SYMMETRY Interchangeable
INVARIANTS TypeOK BooksBalance GoodsConserved NeverOversold
PROPERTIES ReleasedOnlySuperseded
CHECK_DEADLOCK FALSE
