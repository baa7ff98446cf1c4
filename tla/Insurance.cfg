SPECIFICATION Spec
CONSTANTS
  p1 = p1
  w1 = w1
  w2 = w2
  q1 = q1
  q2 = q2
  None = None
  Policies = {p1}
  Ticks = {w1, w2}
  Requests = {q1, q2}
  YearLength = 2
  PeriodsOf <- MCPeriodsOf
  Drafts <- MCDrafts
  Edits <- MCEdits
  MaxDay = 1
  MaxRequests = 3
  MaxFaults = 1
SYMMETRY Symmetry
CHECK_DEADLOCK FALSE
INVARIANTS TypeOK ChargedOnce OneCollector
PROPERTIES NoChargeBeforeShown YearGoesOn NoChargeAfterEnd
