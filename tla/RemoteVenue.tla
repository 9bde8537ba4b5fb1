---------------------------- MODULE RemoteVenue ----------------------------
(***************************************************************************)
(* A venue behind a real adapter, as far as the contract at the top of     *)
(* app/brokers/base.py binds it.  No such adapter is in the repository, so *)
(* this is an environment: whatever the contract allows may happen.  The   *)
(* venue outlives our process, executes an open order in any parts and at  *)
(* any time, may end one on its own account, is idempotent on the client   *)
(* order id (2), and streams its executions at least once (4): cursor is   *)
(* the place of our subscription in executions, and may go back.           *)
(***************************************************************************)
EXTENDS Intents, Orders, Sequences

VARIABLES acks, book, executions, cursor

venueVars == <<acks, book, executions, cursor>>

Ack == [bid : Nat, key : Keys, order : OrderIds, status : Statuses, filled : Nat]

VenueTypeOK ==
  /\ acks \subseteq Ack
  /\ book \in Int
  /\ executions \in Seq(Fill)
  /\ cursor \in 0 .. Len(executions)

VenueInit == acks = {} /\ book = 0 /\ executions = <<>> /\ cursor = 0

KnowsKey(k) == \E a \in acks : a.key = k

KnowsBid(bid) == \E a \in acks : a.bid = bid

AckOfKey(known, k) == CHOOSE a \in known : a.key = k

AckOfBid(bid) == CHOOSE a \in acks : a.bid = bid

Update(a, b) == acks' = (acks \ {a}) \cup {b}

\* A submit that gets through: the venue works on the order, or ends it with its
\* first ack.  The same client order id finds the same order.
Accept(k, id) ==
  /\ IF KnowsKey(k) THEN UNCHANGED acks
     ELSE \E status \in {"WORKING", "CANCELLED", "REJECTED"} :
            acks' = acks \cup {[bid |-> Cardinality(acks) + 1, key |-> k, order |-> id,
                                status |-> status, filled |-> 0]}
  /\ UNCHANGED <<book, executions, cursor>>

\* An execution of any part of what an open order still wants.
Execute(a) ==
  /\ IsOpen(a.status)
  /\ \E qty \in 1 .. QtyOf[a.key] - a.filled :
       LET fill == NewFill(Len(executions) + 1, a.order, a.key, qty)
           status == IF a.filled + qty = QtyOf[a.key] THEN "FILLED"
                                                      ELSE "PARTIALLY_FILLED"
       IN  /\ Update(a, [a EXCEPT !.status = status, !.filled = @ + qty])
           /\ executions' = Append(executions, fill)
           /\ book' = book + Signed(fill.side, qty)
  /\ UNCHANGED cursor

\* The venue ends an open order: at our request, or because it expires.
End(a) ==
  /\ IsOpen(a.status)
  /\ Update(a, [a EXCEPT !.status = "CANCELLED"])
  /\ UNCHANGED <<book, executions, cursor>>

\* A cancel request is granted at once or still pending when it is acked.
CancelAtVenue(bid) ==
  \/ KnowsBid(bid) /\ End(AckOfBid(bid))
  \/ UNCHANGED venueVars

\* base.py leaves open what is said of an id the venue never gave, None among
\* them: an adapter may answer REJECTED, as the mock does, or raise.
StatusOf(bid) == IF KnowsBid(bid) THEN AckOfBid(bid).status ELSE "REJECTED"

\* The next execution of the stream reaches us.
Deliver == cursor < Len(executions) /\ cursor' = cursor + 1
           /\ UNCHANGED <<acks, book, executions>>

\* The stream reconnects and replays.
Replay == cursor' \in 0 .. cursor - 1 /\ UNCHANGED <<acks, book, executions>>
=============================================================================
