SPECIFICATION FairSpec
CONSTANTS
  Events = {1, 2}
  Foreign = {2}
  Relays = {r1, r2}
  Consumers = {c1, c2}
  Operators = {}
  BatchSize = 1
  Attempts = 2
  MaxFaults = 1
  Unreliable = {}
  NoOne = NoOne
INVARIANTS UncommittedComesBack
PROPERTIES EveryEventSettles
CHECK_DEADLOCK FALSE
