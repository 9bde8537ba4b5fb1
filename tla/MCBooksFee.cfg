\* Expected to fail: the fee of one share rounds to nothing.
SPECIFICATION Spec
CONSTANTS
  Settings <- GuardedOnly
  Prices = {200, 600}
  VenuePrice = 400
  Sizes = {1, 2}
  MaxFills = 2
INVARIANTS
  MatchedBookReconciles
