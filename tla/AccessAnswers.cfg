SPECIFICATION CacheSpec
CONSTANTS
  Tenants = {"A", "B"}
  Questions = {1, 2, 3}
  TenantOf <- AskedFor
  Calls = {c1, c2, c3}
  Changes = {w1, w2}
  MaxEntries = 2
  NoTicket = none
SYMMETRY Interchangeable
INVARIANTS AnsweredChangesShow WithinLimit
CHECK_DEADLOCK FALSE
