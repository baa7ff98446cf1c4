SPECIFICATION Spec
CONSTANTS
  q1 = q1
  q2 = q2
  Kinds = {"income", "expense", "debt"}
  Requests = {q1, q2}
  Engine = Engine
  None = None
  LastDate = 2
  Spans = {1, 3}
  MaxRetries = 2
  MaxLeft = 1
  MaxRows = 3
  MaxRequests = 2
SYMMETRY Symmetry
CHECK_DEADLOCK FALSE
INVARIANTS JobTypeOK OneRowPerPeriod OneEventPerPeriod
