------------------------------ MODULE CostBasis ------------------------------
(***************************************************************************)
(* The four accounts of one symbol that the code keeps of the same fills:  *)
(*   PositionApply   app/positions.py        PositionBook.apply            *)
(*   AverageApply    app/costbasis.py        AverageCostBasis.apply        *)
(*   FifoApply       app/costbasis.py        FifoCostBasis.apply           *)
(*   VenueApply      app/brokers/mock.py     _apply_to_book                *)
(* A fill is [sign, qty, price], sign 1 for a buy and -1 for a sell.       *)
(***************************************************************************)
EXTENDS Ratios, Quantities, SequencesExt

Account == [qty |-> 0, avg |-> Whole(0), realized |-> Whole(0)]

\* A fill that adds to the side the account is on, or starts from flat.
Opening(qty, fill) == qty = 0 \/ ((qty > 0) <=> (fill.sign > 0))

Direction(qty) == IF qty > 0 THEN 1 ELSE -1

\* The average over the old and the new quantity, blended by their sizes.
Blend(avg, size, fill) ==
  Over(Plus(Times(avg, size), Whole(fill.price * fill.qty)), size + fill.qty)

\* What closing part of an account at the fill's price releases.
Gain(account, fill) ==
  Times(Minus(Whole(fill.price), account.avg),
        Smaller(fill.qty, Magnitude(account.qty)) * Direction(account.qty))

-----------------------------------------------------------------------------
\* Mutant of AverageApply: a partial close re-prices the shares that are left.
AverageRepriced(account, fill) ==
  LET qty == account.qty + fill.sign * fill.qty
  IN  IF Opening(account.qty, fill)
        THEN [account EXCEPT !.qty = qty,
                             !.avg = Blend(@, Magnitude(account.qty), fill)]
        ELSE [qty      |-> qty,
              avg      |-> IF qty = 0 THEN Whole(0) ELSE Whole(fill.price),
              realized |-> Plus(account.realized, Gain(account, fill))]

\* A close leaves the basis of the survivors alone; a flip through zero opens
\* the other side at the fill's price.
AverageApply(account, fill) ==
  LET qty == account.qty + fill.sign * fill.qty
  IN  IF Opening(account.qty, fill)
        THEN [account EXCEPT !.qty = qty,
                             !.avg = Blend(@, Magnitude(account.qty), fill)]
        ELSE [qty      |-> qty,
              avg      |-> CASE qty = 0 -> Whole(0)
                             [] qty # 0 /\ (qty > 0) # (account.qty > 0) -> Whole(fill.price)
                             [] OTHER -> account.avg,
              realized |-> Plus(account.realized, Gain(account, fill))]

\* PositionBook repeats the algorithm for the positions it reports.
PositionApply(account, fill) ==
  LET qty == account.qty + fill.sign * fill.qty
      crossed == qty # 0 /\ (qty > 0) # (account.qty > 0)
  IN  IF Opening(account.qty, fill)
        THEN [account EXCEPT !.avg = Blend(@, Magnitude(account.qty), fill), !.qty = qty]
        ELSE [account EXCEPT !.realized = Plus(@, Gain(account, fill)),
                             !.avg = IF qty = 0 THEN Whole(0)
                                     ELSE IF crossed THEN Whole(fill.price) ELSE @,
                             !.qty = qty]

\* The mock's own book.  A flip through zero keeps the old average.
VenueApply(account, fill) ==
  LET signed == fill.sign * fill.qty
      qty == account.qty + signed
  IN  IF Opening(account.qty, fill)
        THEN [account EXCEPT
                !.avg = Over(Times(Plus(Times(@, account.qty), Whole(fill.price * signed)),
                                   Direction(qty)),
                             Magnitude(qty)),
                !.qty = qty]
        ELSE [account EXCEPT !.realized = Plus(@, Gain(account, fill)),
                             !.qty = qty,
                             !.avg = IF qty = 0 THEN Whole(0) ELSE @]

-----------------------------------------------------------------------------
LotAccount == [qty |-> 0, side |-> 0, lots |-> <<>>, realized |-> Whole(0)]

\* Lots are consumed oldest first; pass carries what the fill has left to close,
\* what that has released, and the lots that survive.
Consume(fill, side, pass, lot) ==
  LET take == Smaller(pass.remaining, lot.qty)
  IN  [remaining |-> pass.remaining - take,
       gain      |-> pass.gain + (fill.price - lot.price) * take * side,
       lots      |-> IF take = lot.qty THEN pass.lots
                     ELSE Append(pass.lots, [lot EXCEPT !.qty = @ - take])]

Consumed(fill, account) ==
  FoldLeft(LAMBDA pass, lot : Consume(fill, account.side, pass, lot),
           [remaining |-> fill.qty, gain |-> 0, lots |-> <<>>],
           account.lots)

\* Mutant of FifoApply: what a flip leaves over opens no lot.
FifoForgetsFlip(account, fill) ==
  LET qty == account.qty + fill.sign * fill.qty
      pass == Consumed(fill, account)
  IN  IF account.side \in {0, fill.sign}
        THEN [account EXCEPT !.side = fill.sign, !.qty = qty,
                             !.lots = Append(@, [qty |-> fill.qty, price |-> fill.price])]
        ELSE [qty |-> qty, realized |-> Plus(account.realized, Whole(pass.gain)), lots |-> pass.lots,
              side |-> IF pass.lots = <<>> THEN 0 ELSE account.side]

FifoApply(account, fill) ==
  LET qty == account.qty + fill.sign * fill.qty
      pass == Consumed(fill, account)
      lot(size) == [qty |-> size, price |-> fill.price]
  IN  IF account.side \in {0, fill.sign}
        THEN [account EXCEPT !.side = fill.sign, !.qty = qty,
                             !.lots = Append(@, lot(fill.qty))]
      ELSE IF pass.remaining > 0
        THEN [qty |-> qty, realized |-> Plus(account.realized, Whole(pass.gain)),
              side |-> fill.sign, lots |-> Append(pass.lots, lot(pass.remaining))]
      ELSE [qty |-> qty, realized |-> Plus(account.realized, Whole(pass.gain)), lots |-> pass.lots,
            side |-> IF pass.lots = <<>> THEN 0 ELSE account.side]

LotQty(account) ==
  FoldLeft(LAMBDA sum, lot : sum + lot.qty, 0, account.lots)

LotCost(account) ==
  FoldLeft(LAMBDA sum, lot : sum + lot.qty * lot.price, 0, account.lots)

FifoAvg(account) ==
  IF LotQty(account) = 0 THEN Whole(0) ELSE Ratio(LotCost(account), LotQty(account))
=============================================================================
