CONSTANTS
  c1 = c1  c2 = c2  url = url  k1 = k1  k2 = k2  k3 = k3  k4 = k4  k5 = k5
  Calls = {c1, c2}
  Urls = {url}
  Keys = {k1, k2, k3, k4, k5}
  Entries = {site}
  UrlOf <- MCUrlOf
  Offers <- MCOffers
  Amount <- MCAmount
  Unsignable = {k3}
  Covers <- MCCovers
  TaskCap = 5
  DayCap = 4
  RateMax = 1
  MaxEvents = 1
  NoKey = NoKey  NoCall = NoCall
SPECIFICATION Spec
CHECK_DEADLOCK FALSE
INVARIANTS
  TypeOK
  BudgetHolds
  UncountedIsUnheard
  RateBound
  HoldsMatchCalls
  SuccessIsReal
PROPERTIES
  OnlyUntimedRequestsHang
