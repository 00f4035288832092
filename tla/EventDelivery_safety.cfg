SPECIFICATION Spec
CONSTANTS
  Events = {1, 2}
  Foreign = {}
  Relays = {r1}
  Consumers = {c1, c2}
  Operators = {o1}
  BatchSize = 2
  Attempts = 2
  MaxFaults = 2
  Unreliable = {"probe", "park"}
  NoOne = NoOne
INVARIANTS TypeOK AppliedOnce NoEventVanishes
PROPERTIES RowsLeaveWhenApplied ImplementsPromise
SYMMETRY Interchangeable
CHECK_DEADLOCK FALSE
