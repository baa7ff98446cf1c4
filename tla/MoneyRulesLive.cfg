SPECIFICATION FairSpec
CONSTANTS
  r1 = r1
  r2 = r2
  p1 = p1
  e1 = e1
  e2 = e2
  e3 = e3
  e4 = e4
  w1 = w1
  w2 = w2
  q1 = q1
  q2 = q2
  None = None
  Rules = {r1, r2}
  Events = {e1, e2, e3, e4}
  Pools = {p1}
  Ticks = {w1, w2}
  Requests = {q1}
  PoolOf <- MCPoolOf
  KindOf <- MCExpense
  Drafts <- MCLiveDrafts
  Edits <- MCLiveEdits
  Amounts = {0}
  Forcing = {FALSE}
  Opening = 1
  Step = 1
  MaxCatchUp = 2
  MaxDay = 1
  MaxRequests = 3
  MaxFaults = 1
PROPERTIES DueRulesMove
