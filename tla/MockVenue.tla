------------------------------ MODULE MockVenue ------------------------------
(***************************************************************************)
(* The venue of app/brokers/mock.py.  It lives in the engine's process and *)
(* dies with it.  Its own calls never suspend; what does run by itself is  *)
(* the drip task of a sliced order, one slice per tick.  acks holds one    *)
(* record per order accepted, with the slices it has dripped, and stands   *)
(* for _orders, _by_client and the drip tasks.                             *)
(***************************************************************************)
EXTENDS Intents, Orders, Sequences

CONSTANTS Slices,           \* MockConfig.slices
          TransientFails,   \* MockConfig.transient_fails
          RejectKeys        \* intents whose symbol is in reject_symbols

ASSUME MockAssumption ==
  Slices \in Nat /\ TransientFails \in Nat /\ RejectKeys \subseteq Keys

VARIABLES acks, book, queue, seq, transientLeft

venueVars == <<acks, book, queue, seq, transientLeft>>

Ack == [bid : Nat, key : Keys, order : OrderIds, status : Statuses,
        filled : Nat, slices : Nat]

VenueTypeOK ==
  /\ acks \subseteq Ack
  /\ book \in Int
  /\ queue \in Seq(Fill)
  /\ seq \in Nat
  /\ transientLeft \in Nat

\* MockBroker.__init__
VenueInit ==
  /\ acks = {} /\ book = 0 /\ queue = <<>> /\ seq = 0
  /\ transientLeft = TransientFails

VenueRestart ==
  /\ acks' = {} /\ book' = 0 /\ queue' = <<>> /\ seq' = 0
  /\ transientLeft' = TransientFails

KnowsKey(k) == \E a \in acks : a.key = k

KnowsBid(bid) == \E a \in acks : a.bid = bid

AckOfKey(known, k) == CHOOSE a \in known : a.key = k

AckOfBid(bid) == CHOOSE a \in acks : a.bid = bid

Update(a, b) == acks' = (acks \ {a}) \cup {b}

\* _apply_to_book, of which the net quantity is kept, and _fills.put.
Publish(fill) ==
  /\ book' = book + Signed(fill.side, fill.qty)
  /\ queue' = Append(queue, fill)

-----------------------------------------------------------------------------
\* submit of an order the venue refuses: OrderRejected.
Refuse(k) == ~KnowsKey(k) /\ k \in RejectKeys /\ UNCHANGED venueVars

\* submit that trips over the next simulated outage: TransientBrokerError.
FailTransiently(k) ==
  /\ ~KnowsKey(k) /\ k \notin RejectKeys /\ transientLeft > 0
  /\ transientLeft' = transientLeft - 1
  /\ UNCHANGED <<acks, book, queue, seq>>

\* submit that returns an ack: of the order the venue has under the key, or of
\* a new order, filled at once or left working for its drip task.
Accept(k, id) ==
  IF KnowsKey(k) THEN UNCHANGED venueVars
  ELSE /\ k \notin RejectKeys /\ transientLeft = 0
       /\ IF Slices <= 1
            THEN /\ acks' = acks \cup {[bid |-> seq + 1, key |-> k, order |-> id,
                                        status |-> "FILLED", filled |-> QtyOf[k],
                                        slices |-> Slices]}
                 /\ Publish(NewFill(seq + 2, id, k, QtyOf[k]))
                 /\ seq' = seq + 2
            ELSE /\ acks' = acks \cup {[bid |-> seq + 1, key |-> k, order |-> id,
                                        status |-> "WORKING", filled |-> 0, slices |-> 0]}
                 /\ seq' = seq + 1
                 /\ UNCHANGED <<book, queue>>
       /\ UNCHANGED transientLeft

\* The quantity of the next slice; the drip ends on the first empty one.
NextSlice(a) ==
  LET remaining == QtyOf[a.key] - a.filled
  IN  IF a.slices = Slices - 1 THEN remaining
      ELSE Smaller(RoundHalfEven(QtyOf[a.key], Slices), remaining)

Dripping(a) == a.slices < Slices /\ NextSlice(a) > 0

\* One tick of _drip: it looks at nothing but its own progress, so the ack it
\* writes replaces whatever the order's ack has become in the meantime.
Drip(a) ==
  /\ Dripping(a)
  /\ LET filled == a.filled + NextSlice(a)
         status == IF filled >= QtyOf[a.key] THEN "FILLED" ELSE "PARTIALLY_FILLED"
     IN  /\ Update(a, [a EXCEPT !.status = status, !.filled = filled,
                                !.slices = @ + 1])
         /\ Publish(NewFill(seq + 1, a.order, a.key, NextSlice(a)))
  /\ seq' = seq + 1
  /\ UNCHANGED transientLeft

\* cancel: an open order becomes CANCELLED; its drip task is left running.
CancelAtVenue(bid) ==
  /\ IF KnowsBid(bid) /\ IsOpen(AckOfBid(bid).status)
       THEN Update(AckOfBid(bid), [AckOfBid(bid) EXCEPT !.status = "CANCELLED"])
       ELSE UNCHANGED acks
  /\ UNCHANGED <<book, queue, seq, transientLeft>>

\* query_order: an order the venue does not know is REJECTED.
StatusOf(bid) == IF KnowsBid(bid) THEN AckOfBid(bid).status ELSE "REJECTED"
=============================================================================
