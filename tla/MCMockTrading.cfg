\* Two sells against one buy without cancels; cancels of buys and of a sell.
SPECIFICATION ScenarioSpec
CONSTANTS
  b1 = b1
  b2 = b2
  s1 = s1
  s2 = s2
  None = None
  Keys = {b1, b2, s1, s2}
  SideOf <- MCSideOf
  QtyOf <- MCQtyOf
  OrderIds <- MCOrderIds
  Slices = 2
  TransientFails = 0
  RejectKeys = {b2}
  Calls = {"cancel", "reconcile"}
  MaxCrashes = 0
INVARIANTS OrderMatchesLedger DrainedAgreement
PROPERTIES UncancelledNeverOversold EventuallyFilled
