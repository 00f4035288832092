SPECIFICATION Spec
CONSTANTS
  Requests = {r1, r2, r3, r4, r5}
  Faults = {"redis", "slow", "lost", "unsure", "late"}
  MaxFaults = 3
SYMMETRY Interchangeable
INVARIANTS OneMorePerFault
CHECK_DEADLOCK FALSE
