SPECIFICATION Spec
CONSTANTS
  Contract = Contract
  Nil = Nil
  Instances = {1, 2, 3}
  Keys = {k1, k2}
  Submitters = {s1, s2}
  Withdrawers = {w1}
  TerminationKeys = {x1, x2}
  Terminators = {t1}
  Signers = {g1}
  Cancellers = {c1}
  MaxVersions = 2
  MaxEdits = 1
SYMMETRY Interchangeable
INVARIANTS TypeOK VersionFollowsContract ApprovedOnItsAttempt TerminationGetsItsAnswer DeletedWasNeverSubmitted
PROPERTY CancelledIsFinal
CHECK_DEADLOCK FALSE
