SPECIFICATION Spec
CONSTANTS
  contract = contract
  order = order
  trip = trip
  ann = ann
  ben = ben
  cat = cat
  Nil = Nil
  Docs = {contract, order, trip}
  Kind <- KindOf
  Submitter <- AnnSubmits
  Keys = {"K1"}
  People = {ann, ben, cat}
  Admins = {cat}
  SalesManagers = {}
  Bosses = {cat}
  Buyers = {}
  Flows <- FlowsOf
  Steps = {1, 2}
  Instances = {1, 2}
  Requests = {r1, r2}
SYMMETRY Interchangeable
INVARIANTS TypeOK OneOpenStep Consent EventsMatchOutcome NobodyApprovesItself
PROPERTIES FinishedForGood ImplementsDesk
CHECK_DEADLOCK FALSE
