------------------------------- MODULE Orders -------------------------------
(***************************************************************************)
(* The order state machine of app/orders.py, as operators on an order.     *)
(*                                                                         *)
(* An order is any record that has the fields                              *)
(*   status     OrderStatus                                                *)
(*   qty        the quantity ordered                                       *)
(*   filled     filled_qty, the quantity executed so far                   *)
(*   confirmed  terminal_confirmed: the broker itself reported the end     *)
(* Quantities are naturals, counted in the smallest quantity the venue     *)
(* trades.  avg_fill_price, fees, reject_reason and updated_at are left    *)
(* out: no guard of the state machine reads them.                          *)
(*                                                                         *)
(* A Python function that may raise is an operator that returns an outcome *)
(* [order, raised].  The order of an outcome is the object as the call     *)
(* leaves it, ALSO when it raises: a mutation that precedes a raise stays. *)
(***************************************************************************)
EXTENDS Integers

Statuses == {"NEW", "SUBMITTED", "WORKING", "PARTIALLY_FILLED",
             "FILLED", "CANCELLED", "REJECTED"}

Terminal == {"FILLED", "CANCELLED", "REJECTED"}

IsOpen(status) == status \notin Terminal

Exceptions == {"none", "IllegalTransition", "OverFill"}

Returned(o) == [order |-> o, raised |-> "none"]

Raised(o, exception) == [order |-> o, raised |-> exception]

-----------------------------------------------------------------------------
\* The table as a reader of the happy path would write it: a cancel displaces
\* an assumed FILLED.  (Mutant of LegalTransitions.)
CancellableFilled ==
  [NEW              |-> {"SUBMITTED", "REJECTED", "CANCELLED"},
   SUBMITTED        |-> {"WORKING", "PARTIALLY_FILLED", "FILLED",
                         "CANCELLED", "REJECTED"},
   WORKING          |-> {"PARTIALLY_FILLED", "FILLED", "CANCELLED", "REJECTED"},
   PARTIALLY_FILLED |-> {"PARTIALLY_FILLED", "FILLED", "CANCELLED"},
   FILLED           |-> {"FILLED", "CANCELLED"},
   CANCELLED        |-> {"CANCELLED", "FILLED"},
   REJECTED         |-> {"REJECTED"}]

LegalTransitions ==
  [NEW              |-> {"SUBMITTED", "REJECTED", "CANCELLED"},
   SUBMITTED        |-> {"WORKING", "PARTIALLY_FILLED", "FILLED",
                         "CANCELLED", "REJECTED"},
   WORKING          |-> {"PARTIALLY_FILLED", "FILLED", "CANCELLED", "REJECTED"},
   PARTIALLY_FILLED |-> {"PARTIALLY_FILLED", "FILLED", "CANCELLED"},
   FILLED           |-> {"FILLED"},
   CANCELLED        |-> {"CANCELLED", "FILLED"},
   REJECTED         |-> {"REJECTED"}]

CanTransition(current, requested) == requested \in LegalTransitions[current]

Transition(o, requested) ==
  IF CanTransition(o.status, requested)
    THEN Returned([o EXCEPT !.status = requested])
    ELSE Raised(o, "IllegalTransition")

MarkSubmitted(o) == Transition(o, "SUBMITTED")

MarkWorking(o) == Transition(o, "WORKING")

\* Mutants of Booked, FillTarget, Land and ApplyFill: a slipped sign, an
\* off-by-one, the first drafts' final CANCELLED, and dropped guards.
UnBooked(o, qty) == [o EXCEPT !.filled = @ - qty]

FillTargetEarly(o) == IF o.filled + 1 >= o.qty THEN "FILLED" ELSE "PARTIALLY_FILLED"

Booked(o, qty) == [o EXCEPT !.filled = @ + qty]

FillTarget(o) == IF o.filled >= o.qty THEN "FILLED" ELSE "PARTIALLY_FILLED"

LandStrictly(o) == Transition(o, FillTarget(o))

\* A fill takes a CANCELLED we assumed back, table or no table.
Land(o) ==
  IF o.status = "CANCELLED"
    THEN Returned([o EXCEPT !.status = FillTarget(o)])
    ELSE Transition(o, FillTarget(o))

FillDespiteTrust(o, qty) ==
  IF o.filled + qty > o.qty THEN Raised(o, "OverFill") ELSE Land(Booked(o, qty))

FillWithoutLimit(o, qty) ==
  IF o.confirmed THEN Raised(o, "IllegalTransition") ELSE Land(Booked(o, qty))

FillOpenOnly(o, qty) ==
  IF o.confirmed \/ ~IsOpen(o.status) THEN Raised(o, "IllegalTransition")
  ELSE IF o.filled + qty > o.qty THEN Raised(o, "OverFill")
  ELSE Land(Booked(o, qty))

(***************************************************************************)
(* The fill's quantity is added before the transition is tried, so a fill  *)
(* that raises IllegalTransition has been counted in filled all the same.  *)
(***************************************************************************)
ApplyFill(o, qty) ==
  IF o.confirmed THEN Raised(o, "IllegalTransition")
  ELSE IF o.filled + qty > o.qty THEN Raised(o, "OverFill")
  ELSE Land(Booked(o, qty))

MarkCancelled(o, confirmed) ==
  LET r == IF o.status = "CANCELLED" THEN Returned(o) ELSE Transition(o, "CANCELLED")
  IN  IF o.status = "FILLED" /\ o.confirmed THEN Returned(o)
      ELSE IF r.raised # "none" THEN r
      ELSE Returned([r.order EXCEPT !.confirmed = @ \/ confirmed])

\* Mutant of MarkRejected: the early return for a reject already confirmed is gone.
MarkRejectedAgain(o, confirmed) ==
  LET r == IF o.status = "REJECTED" THEN Returned(o) ELSE Transition(o, "REJECTED")
  IN  IF o.filled > 0 THEN Raised(o, "IllegalTransition")
      ELSE IF r.raised # "none" THEN r
      ELSE Returned([r.order EXCEPT !.confirmed = confirmed])

MarkRejected(o, confirmed) ==
  LET r == IF o.status = "REJECTED" THEN Returned(o) ELSE Transition(o, "REJECTED")
  IN  IF o.status = "REJECTED" /\ o.confirmed THEN Returned(o)
      ELSE IF o.filled > 0 THEN Raised(o, "IllegalTransition")
      ELSE IF r.raised # "none" THEN r
      ELSE Returned([r.order EXCEPT !.confirmed = confirmed])

\* Mutant of ConfirmTerminal: any open status from the broker is believed.
ConfirmAnything(o, brokerStatus) ==
  [o EXCEPT !.status = brokerStatus, !.confirmed = ~IsOpen(brokerStatus)]

(***************************************************************************)
(* The broker is authoritative: its terminal status overwrites ours        *)
(* whatever the table says, its open status drops an unconfirmed terminal. *)
(***************************************************************************)
ConfirmTerminal(o, brokerStatus) ==
  IF ~IsOpen(brokerStatus)
    THEN [o EXCEPT !.status = brokerStatus, !.confirmed = TRUE]
  ELSE IF ~IsOpen(o.status) /\ ~o.confirmed
    THEN [o EXCEPT !.status = brokerStatus]
  ELSE o

IsTerminal(o) == o.status \in Terminal /\ o.confirmed

NeedsConfirmation(o) == o.status \in Terminal /\ ~o.confirmed
=============================================================================
