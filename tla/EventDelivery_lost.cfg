SPECIFICATION Spec
CONSTANTS
  Events = {1, 2}
  Foreign = {}
  Relays = {r1}
  Consumers = {c1}
  Operators = {}
  BatchSize = 2
  Attempts = 1
  MaxFaults = 1
  Unreliable = {"probe", "park"}
  NoOne = NoOne
INVARIANTS UncommittedComesBack
CHECK_DEADLOCK FALSE
