\* Expected to fail: a key whose dispatch failed is never dispatched again.
SPECIFICATION RetryingSpec
CONSTANTS
  b1 = b1
  b2 = b2
  s1 = s1
  s2 = s2
  None = None
  Keys = {b1}
  SideOf <- MCSideOf
  QtyOf <- MCQtyOf
  OrderIds <- MCOrderIds
  Slices = 1
  TransientFails = 1
  RejectKeys = {}
  Calls = {}
  MaxCrashes = 0
PROPERTY TransientRetried
