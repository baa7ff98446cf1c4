SPECIFICATION Spec
CONSTANTS
  u1 = u1
  u2 = u2
  u3 = u3
  f1 = f1
  f2 = f2
  f3 = f3
  o1 = o1
  o2 = o2
  q1 = q1
  q2 = q2
  None = None
  Users = {u1, u2, u3}
  LegacyUsers = {u1, u2}
  Families = {f1, f2, f3}
  Offers = {o1, o2}
  Requests = {q1, q2}
  Founders <- MCFounders
  Caps = {1, 2}
  FirstCap = 1
  DefaultCap = 2
  MaxRequests = 4
SYMMETRY Symmetry
CHECK_DEADLOCK FALSE
INVARIANTS TypeOK OverlapBounded AcceptedMeansMember OneFriendship ByConsent
