\* Expected to fail: the oversell guard counts the order that is submitted again.
SPECIFICATION Spec
CONSTANTS
  b1 = b1
  b2 = b2
  s1 = s1
  s2 = s2
  None = None
  Keys = {b1, s1}
  SideOf <- MCSideOf
  QtyOf <- MCQtyOf
  OrderIds <- MCOrderIds
  Slices = 1
  TransientFails = 0
  RejectKeys = {}
  Calls = {}
  MaxCrashes = 0
PROPERTY DuplicateGetsItsOrder
