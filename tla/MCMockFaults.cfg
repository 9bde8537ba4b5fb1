SPECIFICATION Spec
CONSTANTS
  b1 = b1
  b2 = b2
  s1 = s1
  s2 = s2
  None = None
  Keys = {b1, b2, s1}
  SideOf <- MCSideOf
  QtyOf <- MCQtyOf
  OrderIds <- MCOrderIds
  Slices = 2
  TransientFails = 1
  RejectKeys = {}
  Calls = {"cancel", "confirm_order", "reconcile"}
  MaxCrashes = 1
INVARIANTS TypeOK AtMostOnceSend OneOrderPerKey LedgerIsFirst
PROPERTIES ConfirmedStands ImplementsTrading
