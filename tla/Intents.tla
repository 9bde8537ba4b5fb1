------------------------------- MODULE Intents -------------------------------
(***************************************************************************)
(* What the engine and the venue both know of an order: the intent behind  *)
(* it, named by its idempotency key (idempotency.derive_key), and the      *)
(* engine's own id of it.  All intents are for one symbol: positions and   *)
(* reservations of different symbols never meet.                           *)
(***************************************************************************)
EXTENDS Quantities

CONSTANTS Keys,       \* the idempotency keys of the intents submitted
          SideOf,     \* SideOf[k] is the side of intent k
          QtyOf,      \* QtyOf[k] is its quantity
          OrderIds,   \* the order ids that uuid4 may hand out
          None        \* Python's None

ASSUME IntentsAssumption ==
  /\ IsFiniteSet(Keys)
  /\ SideOf \in [Keys -> {"BUY", "SELL"}]
  /\ QtyOf \in [Keys -> Nat \ {0}]

Signed(side, qty) == IF side = "BUY" THEN qty ELSE -qty

\* An execution.  exec is broker_exec_id, order the id of the engine's order.
Fill == [exec : Nat, order : OrderIds, side : {"BUY", "SELL"}, qty : Nat \ {0}]

NewFill(exec, id, k, qty) ==
  [exec |-> exec, order |-> id, side |-> SideOf[k], qty |-> qty]

\* The quantity executed by a set of fills, and their effect on a position.
Executed(fills) == Total([f \in fills |-> f.qty])

OfSide(fills, side) == {f \in fills : f.side = side}

Net(fills) == Executed(OfSide(fills, "BUY")) - Executed(OfSide(fills, "SELL"))
=============================================================================
