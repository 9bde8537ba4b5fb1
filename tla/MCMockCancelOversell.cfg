\* Expected to fail: a cancelled sell keeps filling, but reserves nothing.
SPECIFICATION Spec
CONSTANTS
  b1 = b1
  b2 = b2
  s1 = s1
  s2 = s2
  None = None
  Keys = {b1, s1, s2}
  SideOf <- MCSideOf
  QtyOf <- MCQtyOf
  OrderIds <- MCOrderIds
  Slices = 2
  TransientFails = 0
  RejectKeys = {}
  Calls = {"cancel"}
  MaxCrashes = 0
INVARIANT NeverOversold
