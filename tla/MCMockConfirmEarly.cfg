\* Expected to fail: an order is confirmed FILLED before its fills are consumed.
SPECIFICATION Spec
CONSTANTS
  b1 = b1
  b2 = b2
  s1 = s1
  s2 = s2
  None = None
  Keys = {b1}
  SideOf <- MCSideOf
  QtyOf <- MCQtyOf
  OrderIds <- MCOrderIds
  Slices = 1
  TransientFails = 0
  RejectKeys = {}
  Calls = {"confirm_order"}
  MaxCrashes = 0
INVARIANT DriftIsDetected
