------------------------------- MODULE Books -------------------------------
(***************************************************************************)
(* The money side of one symbol: every fill is booked by the venue and, if *)
(* it reaches the engine, by the position book and by the configured cost  *)
(* basis; the reconciler compares what the two sides report.  Amounts are  *)
(* half-cents, the unit of the fee per share.                              *)
(***************************************************************************)
EXTENDS CostBasis

CONSTANTS
  Settings,    \* the configurations: [method, guarded, drift]
  Prices,      \* prices of fills and of feed marks
  VenuePrice,  \* the price at which the venue marks its own book
  Sizes,       \* quantities of fills
  MaxFills     \* bound on the executions

\* What drift adds to the reported quantity, average, totals and fees.
Drift == [qty : Int, avg : Int, realized : Int, unrealized : Int, fee : Int]

NoDrift == [qty |-> 0, avg |-> 0, realized |-> 0, unrealized |-> 0, fee |-> 0]

ASSUME SettingsAssumption ==
  Settings \subseteq [method : {"AVERAGE", "FIFO"}, guarded : BOOLEAN, drift : Drift]
ASSUME PricesAssumption == Prices \cup {VenuePrice} \subseteq Nat \ {0}
ASSUME SizesAssumption == Sizes \subseteq Nat \ {0} /\ MaxFills \in Nat

VARIABLES
  settings,   \* Config.cost_basis; whether the oversell guard of Engine.submit
              \* holds; the venue's DriftConfig, NoDrift if it has none
  venue,      \* its book
  venueFees,  \* and the fees it has charged
  position,   \* the engine's PositionBook
  basis,      \* its CostBasis
  fees,       \* the fees its PnlEngine deducted
  mark,       \* the last mark of the feed
  executed,   \* history: executions at the venue
  lost,       \* history: executions that never reached the engine
  crossed,    \* history: the venue's book went from one side to the other
  venueCash,  \* history: money the venue's executions brought in
  cash        \* history: money the engine's fills brought in

vars == <<settings, venue, venueFees, position, basis, fees, mark,
          executed, lost, crossed, venueCash, cash>>

NoMark == 0

Fills == [sign : {1, -1}, qty : Sizes, price : Prices]

-----------------------------------------------------------------------------
\* Fees.  The mock charges half a cent a share, rounded to the cent; the engine
\* takes the fill's fee, or its own schedule when the fill carries none.
CentsPerFill(fill) == 2 * RoundHalfEven(fill.qty, 2)

Schedule(fill) == IF fill.qty < 200 THEN 200 ELSE Smaller(fill.qty, 20000)

\* Mutant of EngineFee: the schedule, whatever the fill says.
EngineFeeOwn(fill) == Schedule(fill)

EngineFee(fill) ==
  IF CentsPerFill(fill) > 0 THEN CentsPerFill(fill) ELSE Schedule(fill)

-----------------------------------------------------------------------------
\* The engine's report, by its cost basis and its mark.
BasisAvg == IF settings.method = "FIFO" THEN FifoAvg(basis) ELSE basis.avg

BasisApply(account, fill) ==
  IF settings.method = "FIFO" THEN FifoApply(account, fill) ELSE AverageApply(account, fill)

Marked == IF mark = NoMark THEN BasisAvg ELSE Whole(mark)

EngineReport ==
  [realized   |-> Minus(basis.realized, Whole(fees)),
   unrealized |-> Times(Minus(Marked, BasisAvg), basis.qty)]

\* The venue's snapshot.  A position that reports no shares is left out of it,
\* which the reconciler reads as zeros.
Reported == IF executed = 0 THEN NoDrift ELSE settings.drift

SnapshotPosition ==
  LET qty == venue.qty + Reported.qty
      avg == Plus(venue.avg, Whole(Reported.avg))
  IN  IF qty = 0
        THEN [qty |-> 0, avg |-> Whole(0), unrealized |-> Whole(0)]
        ELSE [qty |-> qty, avg |-> avg,
              unrealized |-> Times(Minus(Whole(VenuePrice), avg), qty)]

SnapshotTotals ==
  [realized   |-> Plus(Minus(venue.realized, Whole(venueFees)), Whole(settings.drift.realized)),
   unrealized |-> Plus(SnapshotPosition.unrealized, Whole(settings.drift.unrealized)),
   fees       |-> venueFees + settings.drift.fee]

-----------------------------------------------------------------------------
\* The reconciler, which compares all that is reported but the fees: to a cent of
\* P&L, a hundredth of a cent of price, and no share.
PnlTolerance == Whole(2)
PriceTolerance == Ratio(1, 50)

SymbolLegs ==
  LET theirs == SnapshotPosition
  IN  {leg \in {"qty", "avg_cost", "unrealized"} :
         CASE leg = "qty"        -> position.qty # theirs.qty
           [] leg = "avg_cost"   -> Differ(position.avg, theirs.avg, PriceTolerance)
           [] leg = "unrealized" ->
                Differ(EngineReport.unrealized, theirs.unrealized, PnlTolerance)}

\* Mutant of Classify: a difference in price is looked for before one in shares.
ClassifyPriceFirst(legs) ==
  IF "avg_cost" \in legs THEN "FEE_TREATMENT"
  ELSE IF "qty" \in legs THEN "MISSING_FILL" ELSE "MARK_SOURCE"

\* One cause for all the breaks of a symbol, from its most fundamental mismatch.
Classify(legs) ==
  IF "qty" \in legs THEN "MISSING_FILL"
  ELSE IF "avg_cost" \in legs THEN "FEE_TREATMENT" ELSE "MARK_SOURCE"

SymbolBreaks ==
  {[scope |-> "symbol", leg |-> leg, cause |-> Classify(SymbolLegs)] : leg \in SymbolLegs}

TotalBreak(leg, why) == [scope |-> "account", leg |-> leg, cause |-> why]

\* Mutant of TotalBreaks: the account's realized total is not compared.
UnrealizedOnly ==
  {b \in {TotalBreak("unrealized", "MARK_SOURCE")} :
     Differ(EngineReport.unrealized, SnapshotTotals.unrealized, PnlTolerance)}

TotalBreaks ==
  {b \in {TotalBreak("realized", "FEE_TREATMENT"),
          TotalBreak("unrealized", "MARK_SOURCE")} :
     Differ(EngineReport[b.leg], SnapshotTotals[b.leg], PnlTolerance)}

Breaks == SymbolBreaks \cup TotalBreaks

-----------------------------------------------------------------------------
Init ==
  /\ settings \in Settings
  /\ venue = Account /\ position = Account
  /\ basis = IF settings.method = "FIFO" THEN LotAccount ELSE Account
  /\ venueFees = 0 /\ fees = 0
  /\ mark = NoMark
  /\ executed = 0 /\ lost = 0 /\ crossed = FALSE
  /\ venueCash = 0 /\ cash = 0

Proceeds(fill) == -fill.sign * fill.qty * fill.price

\* The venue executes an order the engine let through.
Execute(fill) ==
  /\ executed < MaxFills
  /\ settings.guarded /\ fill.sign = -1 => fill.qty <= position.qty
  /\ venue' = VenueApply(venue, fill)
  /\ venueFees' = venueFees + CentsPerFill(fill)
  /\ venueCash' = venueCash + Proceeds(fill)
  /\ executed' = executed + 1
  /\ crossed' = (crossed \/ venue.qty * venue'.qty < 0)
  /\ UNCHANGED <<settings, mark>>

\* PositionBook.apply and PnlEngine.apply of Engine.on_fill.
Book(fill) ==
  /\ Execute(fill)
  /\ position' = PositionApply(position, fill)
  /\ basis' = BasisApply(basis, fill)
  /\ fees' = fees + EngineFee(fill)
  /\ cash' = cash + Proceeds(fill)
  /\ UNCHANGED lost

\* The fill never gets through: the process died with it in the queue, or
\* on_fill refused it.
Lose(fill) ==
  /\ Execute(fill)
  /\ lost' = lost + 1
  /\ UNCHANGED <<position, basis, fees, cash>>

\* MarkStore.update for the configured source.
Mark(price) ==
  /\ mark' = price
  /\ UNCHANGED <<settings, venue, venueFees, position, basis, fees,
                 executed, lost, crossed, venueCash, cash>>

Next ==
  \/ \E fill \in Fills : Book(fill) \/ Lose(fill)
  \/ \E price \in Prices \cup {VenuePrice} : Mark(price)

Spec == Init /\ [][Next]_vars

-----------------------------------------------------------------------------
(***************************************************************************)
(* Properties.                                                             *)
(***************************************************************************)

\* What the open shares cost and what the closed ones earned add up to the
\* money that moved: neither a partial close nor a flip through zero creates or
\* loses any, in the position book or in either cost basis (positions.py and
\* costbasis.py, which repeat the algorithm).
MoneyIsConserved ==
  /\ Minus(position.realized, Times(position.avg, position.qty)) = Whole(cash)
  /\ Minus(basis.realized, Times(BasisAvg, basis.qty)) = Whole(cash)

\* The lots of the FIFO queue are the position: of one side, none of them empty,
\* and none at all exactly when the book is flat (FifoCostBasis.apply).
LotsAreThePosition ==
  settings.method = "FIFO" =>
    /\ basis.qty = position.qty
    /\ basis.qty = basis.side * LotQty(basis)
    /\ basis.side = 0 <=> basis.lots = <<>>
    /\ \A lot \in Range(basis.lots) : lot.qty > 0

\* The venue reports its book and its P&L as they are; its fees may be skewed.
Undrifted == settings.drift = [NoDrift EXCEPT !.fee = settings.drift.fee]

SameFills == lost = 0 /\ Undrifted

\* With the same fills on both sides and no drift but in the fees, averaged books
\* behind the oversell guard reconcile to zero, except for marks taken at another
\* price than the venue's, which are named as the cause.  A fee_delta
\* (mock.py:204) is never found: no leg compares the fees.
GuardedBookReconciles ==
  SameFills /\ settings.guarded /\ settings.method = "AVERAGE"
    => \A b \in Breaks : b.cause = "MARK_SOURCE" /\ mark # VenuePrice

\* What two clean books may differ by: the tolerance of the realized total, and
\* that of the average for every share.
CleanTolerance == Plus(PnlTolerance, Times(PriceTolerance, Magnitude(position.qty)))

\* A report without breaks means the two sides booked the same shares and, to
\* within the tolerances, the same money, whatever was lost on the way: a
\* lost round trip shows in the realized total alone.  It means nothing once the
\* venue's book has changed sides, where it keeps its old average.
CleanMeansSameMoney ==
  settings.method = "AVERAGE" /\ Undrifted /\ ~crossed /\ Breaks = {}
    => /\ position.qty = venue.qty
       /\ ~Differ(Whole(cash - fees), Whole(venueCash - venueFees), CleanTolerance)

\* A drift of the shares, of the average or of a P&L total that the venue reports
\* is found at its leg and with its cause: shares before prices, and on the
\* account when only a total drifts.  A total tells of its own drift while both
\* sides count it alike: realized from equal fees, unrealized at equal marks.
DriftIsLocated ==
  LET drift == settings.drift
      alike == settings.method = "AVERAGE" /\ ~crossed
  IN  lost = 0 =>
        /\ Reported.qty # 0 =>
             /\ \E b \in SymbolBreaks : b.leg = "qty"
             /\ \A b \in SymbolBreaks : b.cause = "MISSING_FILL"
        /\ ~crossed /\ drift.qty = 0 /\ drift.avg # 0 /\ venue.qty # 0 =>
             \E b \in SymbolBreaks : b.leg = "avg_cost" /\ b.cause = "FEE_TREATMENT"
        /\ alike /\ fees = venueFees /\ Magnitude(drift.realized) > 2 =>
             TotalBreak("realized", "FEE_TREATMENT") \in Breaks
        /\ alike /\ drift.qty = 0 /\ drift.avg = 0 /\ (mark = VenuePrice \/ venue.qty = 0)
             /\ Magnitude(drift.unrealized) > 2 =>
             TotalBreak("unrealized", "MARK_SOURCE") \in Breaks

\* brokers/mock.py:195: with the same fills on both sides and our marks at the
\* venue's price, a matched book reconciles to zero.
MatchedBookReconciles == SameFills /\ mark = VenuePrice => Breaks = {}
=============================================================================
