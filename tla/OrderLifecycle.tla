--------------------------- MODULE OrderLifecycle ---------------------------
(***************************************************************************)
(* One order under every sequence of calls that app/orders.py accepts:     *)
(* acks, fills, assumed and reported cancels and rejects, and the answers  *)
(* of query_order, in any order and any number.  Each action is one call,  *)
(* lastCall is its name and the exception it raised.                       *)
(***************************************************************************)
EXTENDS Orders

CONSTANT Sizes      \* the quantities an order may be for

ASSUME SizesAssumption == Sizes \subseteq Nat \ {0}   \* models.Order.__post_init__

VARIABLES order, lastCall

vars == <<order, lastCall>>

Operations == {"none", "mark_submitted", "mark_working", "apply_fill",
               "mark_cancelled", "mark_rejected", "confirm_terminal"}

NewOrder(size) == [status |-> "NEW", qty |-> size, filled |-> 0, confirmed |-> FALSE]

TypeOK ==
  /\ order \in [status : Statuses, qty : Sizes, filled : Nat, confirmed : BOOLEAN]
  /\ lastCall \in [op : Operations, raised : Exceptions]

Init == /\ \E size \in Sizes : order = NewOrder(size)
        /\ lastCall = [op |-> "none", raised |-> "none"]

Call(op, outcome) ==
  /\ order' = outcome.order
  /\ lastCall' = [op |-> op, raised |-> outcome.raised]

Submitted == Call("mark_submitted", MarkSubmitted(order))

Working == Call("mark_working", MarkWorking(order))

\* A fill has a positive quantity (models.Fill.__post_init__); one that is
\* larger than the order is refused like one larger by a single unit.
Filled == \E qty \in 1 .. order.qty + 1 : Call("apply_fill", ApplyFill(order, qty))

Cancelled == \E confirmed \in BOOLEAN :
               Call("mark_cancelled", MarkCancelled(order, confirmed))

Rejected == \E confirmed \in BOOLEAN :
              Call("mark_rejected", MarkRejected(order, confirmed))

Confirmed == \E status \in Statuses :
               Call("confirm_terminal", Returned(ConfirmTerminal(order, status)))

Next == Submitted \/ Working \/ Filled \/ Cancelled \/ Rejected \/ Confirmed

Spec == Init /\ [][Next]_vars

-----------------------------------------------------------------------------
\* The trusted flag is only ever found on an ended order, whatever sequence of
\* fills, cancels, rejects and broker answers led there: is_terminal() and
\* needs_confirmation() split the ended orders between them.
TrustIsForTerminal == order.confirmed => ~IsOpen(order.status)

\* No sequence of calls, a refused one included, counts more than was ordered:
\* apply_fill adds before it tries the transition, but after the OverFill test.
NeverOverfilled == order.filled <= order.qty

\* An order that only we believe FILLED is completely filled: just the broker can
\* end an order as FILLED while executions are missing here.
AssumedFilledIsComplete ==
  order.status = "FILLED" /\ ~order.confirmed => order.filled = order.qty

\* Once the broker has reported the end, no call re-opens the order, takes the
\* flag back or counts another execution; only confirm_terminal may still
\* exchange one end for another.
TrustedIsFinal ==
  [][order.confirmed =>
       /\ order'.confirmed /\ ~IsOpen(order'.status)
       /\ order'.filled = order.filled
       /\ order'.status # order.status => lastCall'.op = "confirm_terminal"]_vars

\* A FILLED that we assumed is only given up on the broker's word: a late local
\* cancel or reject cannot displace it.
OnlyBrokerUndoesFilled ==
  [][order.status = "FILLED" /\ order'.status # "FILLED"
       => lastCall'.op = "confirm_terminal"]_vars

-----------------------------------------------------------------------------
Phase == CASE IsTerminal(order)        -> "trusted"
           [] NeedsConfirmation(order) -> "assumed"
           [] OTHER                    -> "open"

Trust == INSTANCE OrderTrust WITH phase <- Phase, filled <- order.filled

\* The state machine implements the promise of OrderTrust.
ImplementsTrust == Trust!Spec
=============================================================================
