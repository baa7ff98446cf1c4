SPECIFICATION Spec
CONSTANTS
  a = a
  b = b
  t1 = t1
  t2 = t2
  t3 = t3
  t4 = t4
  t5 = t5
  t6 = t6
  w1 = w1
  w2 = w2
  q1 = q1
  q2 = q2
  k = k
  None = None
  Pools = {a, b}
  Rank <- MCRank
  Keys = {k}
  Transfers = {t1, t2, t3}
  Ticks = {}
  Requests = {q1, q2}
  Drafts <- MCOnce
  Edits = {}
  Forcing = {}
  Opening = 1
  Step = 1
  MaxCatchUp = 1
  MaxDay = 0
  MaxRequests = 6
  MaxFaults = 0
SYMMETRY Symmetry
CHECK_DEADLOCK FALSE
INVARIANTS PoolMatchesLedger PaidOnce OneTransferPerKey NoDeadlock
PROPERTIES ImplementsPayments
