\* One buy in any parts, all calls, a crash and replays.
SPECIFICATION Spec
CONSTANTS
  b1 = b1
  s1 = s1
  None = None
  Keys = {b1}
  SideOf <- MCSideOf
  QtyOf <- MCQtyOf
  OrderIds <- MCOrderIds
  MaxCrashes = 1
  Calls = {"cancel", "confirm_order", "reconcile"}
INVARIANTS TypeOK LedgerIsPosition
PROPERTIES TrustIsTheVenues ImplementsTrading ConfirmedStands RefusedOnlyWithReason
