SPECIFICATION FairSpec
CONSTANTS
  a = a
  b = b
  t1 = t1
  t2 = t2
  t3 = t3
  t4 = t4
  t5 = t5
  t6 = t6
  w1 = w1
  w2 = w2
  q1 = q1
  q2 = q2
  k = k
  None = None
  Pools = {a, b}
  Rank <- MCRank
  Keys = {k}
  Transfers = {t1, t2, t3, t4}
  Ticks = {w1, w2}
  Requests = {q1}
  Drafts <- MCEnding
  Edits = {}
  Forcing = {FALSE}
  Opening = 1
  Step = 1
  MaxCatchUp = 1
  MaxDay = 1
  MaxRequests = 2
  MaxFaults = 2
PROPERTIES SchedulesMove
