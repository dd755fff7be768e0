SPECIFICATION MCSpec
CONSTANTS
  Files = {page, style}
  Tabs = {t1}
  MaxTouches = 2
  MaxVisits = 3
  NoTime = NoTime
  Repos <- MCRepos
  Shells = {"s"}
  Requests = {"r1", "r2"}
  Capacity = 2
  MaxWrites = 2
  MaxRequests = 3
  Nobody = Nobody
  Nothing = Nothing
CHECK_DEADLOCK FALSE
PROPERTY SavesReachThePages
INVARIANT SharedStateHolds
PROPERTY RequestsEnd
