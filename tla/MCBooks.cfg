\* Fills and lost fills under every configuration.
SPECIFICATION Spec
CONSTANTS
  Settings <- MCSettings
  Prices = {200, 202}
  VenuePrice = 400
  Sizes = {2, 4}
  MaxFills = 4
INVARIANTS
  MoneyIsConserved
  LotsAreThePosition
  GuardedBookReconciles
  CleanMeansSameMoney
  DriftIsLocated
