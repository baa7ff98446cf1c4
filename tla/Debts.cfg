SPECIFICATION DebtFairSpec
CONSTANTS
  r1 = r1
  p1 = p1
  e1 = e1
  e2 = e2
  e3 = e3
  e4 = e4
  w1 = w1
  w2 = w2
  q1 = q1
  q2 = q2
  None = None
  Rules = {r1}
  Events = {e1, e2, e3}
  Pools = {p1}
  Ticks = {w1, w2}
  Requests = {q1, q2}
  PoolOf <- MCPoolOf
  KindOf <- MCExpense
  Drafts = {}
  Edits <- MCEdits
  Amounts = {}
  Forcing = {TRUE, FALSE}
  Opening = 1
  Step = 1
  MaxCatchUp = 2
  MaxDay = 1
  MaxRequests = 3
  MaxFaults = 1
  DebtDrafts <- MCDebtDrafts
  DebtEdits <- MCDebtEdits
INVARIANTS DebtTypeOK SettledStopsEmi OpenMeansUnpaid
PROPERTIES DueRulesMove EmiReducesDebt NoEmiAfterSettled
