---------------------------- MODULE EngineProofs ----------------------------
(***************************************************************************)
(* What every action of the engine preserves, whatever keys, order ids and *)
(* venue it runs with.  The sessions' proofs only have to add what their   *)
(* venue does.                                                             *)
(*                                                                         *)
(* An order is changed in two ways.  The engine's own operations (Soft)    *)
(* never touch the trusted flag, nor an order that has it; the broker's    *)
(* verdict may set it.  An operation that raises leaves memory and table   *)
(* different, but only where they may differ: on an order without the      *)
(* flag.  So a crash, which puts the table's row back, cannot undo what    *)
(* the broker has confirmed.                                               *)
(***************************************************************************)
EXTENDS Engine, LedgerProofs

\* The trusted flag is for ends only, and nothing is filled beyond what the
\* intent asks for.
Sane(o) ==
  /\ o.confirmed => ~IsOpen(o.status)
  /\ o.qty = QtyOf[o.key] /\ o.filled <= o.qty

\* p is what an operation other than the broker's verdict makes of o.
Soft(o, p) ==
  /\ p \in Order
  /\ p.key = o.key /\ p.qty = o.qty
  /\ o.filled <= o.qty => p.filled <= p.qty
  /\ p.confirmed = o.confirmed
  /\ o.confirmed => p.status = o.status /\ p.filled = o.filled

-----------------------------------------------------------------------------
\* The engine's fills are a ledger.
LEMMA FillsAreRows ==
  ASSUME NEW fills \in SUBSET Fill, IsFiniteSet(fills)
  PROVE  Ledger(fills) /\ Executed(fills) = Summed(fills)
BY DEF Ledger, Fill, Executed, Summed

LEMMA ExecutedType ==
  ASSUME NEW fills \in SUBSET Fill, IsFiniteSet(fills)
  PROVE  Executed(fills) \in Nat
BY FillsAreRows, SummedType

LEMMA ExecutedEmpty == Executed({}) = 0
BY SummedEmpty DEF Executed, Summed

\* A new fill adds its quantity.
LEMMA ExecutedAdd ==
  ASSUME NEW fills \in SUBSET Fill, IsFiniteSet(fills),
         NEW f \in Fill, f \notin fills
  PROVE  Executed(fills \cup {f}) = Executed(fills) + f.qty
  <1>1. f.qty \in Nat
    BY DEF Fill
  <1> QED
    BY <1>1, FillsAreRows, SummedAdd DEF Executed, Summed

LEMMA OneSide ==
  ASSUME NEW fills \in SUBSET Fill, IsFiniteSet(fills), NEW side
  PROVE  OfSide(fills, side) \in SUBSET Fill /\ IsFiniteSet(OfSide(fills, side))
BY FS_Subset DEF OfSide

LEMMA NetType ==
  ASSUME NEW fills \in SUBSET Fill, IsFiniteSet(fills)
  PROVE  Net(fills) \in Int
  <1>1. Executed(OfSide(fills, "BUY")) \in Nat
    BY OneSide, ExecutedType
  <1>2. Executed(OfSide(fills, "SELL")) \in Nat
    BY OneSide, ExecutedType
  <1> QED
    BY <1>1, <1>2 DEF Net

\* A new fill moves the net position by its signed quantity.
LEMMA NetAdd ==
  ASSUME NEW fills \in SUBSET Fill, IsFiniteSet(fills),
         NEW f \in Fill, f \notin fills
  PROVE  Net(fills \cup {f}) = Net(fills) + Signed(f.side, f.qty)
  <1> DEFINE buys  == OfSide(fills, "BUY")
             sells == OfSide(fills, "SELL")
  <1>1. Executed(buys) \in Nat /\ Executed(sells) \in Nat
    BY OneSide, ExecutedType
  <1>2. f.qty \in Nat /\ f.side \in {"BUY", "SELL"}
    BY DEF Fill
  <1>3. CASE f.side = "BUY"
    <2>1. /\ OfSide(fills \cup {f}, "BUY") = buys \cup {f}
          /\ OfSide(fills \cup {f}, "SELL") = sells
      BY <1>3 DEF OfSide
    <2>2. f \notin buys
      BY DEF OfSide
    <2>3. Executed(buys \cup {f}) = Executed(buys) + f.qty
      BY <2>2, OneSide, ExecutedAdd
    <2> HIDE DEF buys, sells
    <2>4. Net(fills \cup {f}) = (Executed(buys) + f.qty) - Executed(sells)
      BY <2>1, <2>3 DEF Net
    <2>5. Net(fills) = Executed(buys) - Executed(sells)
      BY DEF Net, buys, sells
    <2> QED
      BY <1>1, <1>2, <1>3, <2>4, <2>5 DEF Signed
  <1>4. CASE f.side = "SELL"
    <2>1. /\ OfSide(fills \cup {f}, "BUY") = buys
          /\ OfSide(fills \cup {f}, "SELL") = sells \cup {f}
      BY <1>4 DEF OfSide
    <2>2. f \notin sells
      BY DEF OfSide
    <2>3. Executed(sells \cup {f}) = Executed(sells) + f.qty
      BY <2>2, OneSide, ExecutedAdd
    <2> HIDE DEF buys, sells
    <2>4. Net(fills \cup {f}) = Executed(buys) - (Executed(sells) + f.qty)
      BY <2>1, <2>3 DEF Net
    <2>5. Net(fills) = Executed(buys) - Executed(sells)
      BY DEF Net, buys, sells
    <2> QED
      BY <1>1, <1>2, <1>4, <2>4, <2>5 DEF Signed
  <1> QED
    BY <1>2, <1>3, <1>4

\* An empty ledger is a flat position.
LEMMA NetEmpty == Net({}) = 0
  <1>1. OfSide({}, "BUY") = {} /\ OfSide({}, "SELL") = {}
    BY DEF OfSide
  <1> QED
    BY <1>1, ExecutedEmpty DEF Net

-----------------------------------------------------------------------------
LEMMA WithStatus ==
  ASSUME NEW o \in Order, NEW s \in Statuses
  PROVE  /\ [o EXCEPT !.status = s] \in Order
         /\ [o EXCEPT !.status = s].status = s
         /\ [o EXCEPT !.status = s].key = o.key /\ [o EXCEPT !.status = s].qty = o.qty
         /\ [o EXCEPT !.status = s].filled = o.filled
         /\ [o EXCEPT !.status = s].confirmed = o.confirmed
BY DEF Order

LEMMA WithFilled ==
  ASSUME NEW o \in Order, NEW n \in Nat
  PROVE  /\ [o EXCEPT !.filled = n] \in Order
         /\ [o EXCEPT !.filled = n].key = o.key /\ [o EXCEPT !.filled = n].qty = o.qty
         /\ [o EXCEPT !.filled = n].filled = n
         /\ [o EXCEPT !.filled = n].status = o.status
         /\ [o EXCEPT !.filled = n].confirmed = o.confirmed
BY DEF Order

LEMMA WithConfirmed ==
  ASSUME NEW o \in Order, NEW b \in BOOLEAN
  PROVE  /\ [o EXCEPT !.confirmed = b] \in Order
         /\ [o EXCEPT !.confirmed = b].key = o.key /\ [o EXCEPT !.confirmed = b].qty = o.qty
         /\ [o EXCEPT !.confirmed = b].status = o.status
         /\ [o EXCEPT !.confirmed = b].filled = o.filled
         /\ [o EXCEPT !.confirmed = b].confirmed = b
BY DEF Order

LEMMA WithBid ==
  ASSUME NEW o \in Order, NEW bid \in Nat \cup {None}
  PROVE  /\ [o EXCEPT !.bid = bid] \in Order
         /\ [o EXCEPT !.bid = bid].key = o.key /\ [o EXCEPT !.bid = bid].qty = o.qty
         /\ [o EXCEPT !.bid = bid].status = o.status
         /\ [o EXCEPT !.bid = bid].filled = o.filled
         /\ [o EXCEPT !.bid = bid].confirmed = o.confirmed
BY DEF Order

\* An end stays an end under a soft operation.
LEMMA SoftIsSane ==
  ASSUME NEW o, NEW p, Soft(o, p), Sane(o)
  PROVE  Sane(p)
BY DEF Soft, Sane

LEMMA SoftTrans ==
  ASSUME NEW o, NEW p, NEW q, Soft(o, p), Soft(p, q)
  PROVE  Soft(o, q)
BY DEF Soft

LEMMA SoftSame ==
  ASSUME NEW o \in Order
  PROVE  Soft(o, o)
BY DEF Soft

LEMMA SoftTransition ==
  ASSUME NEW o \in Order, NEW s \in Statuses, ~o.confirmed
  PROVE  Soft(o, Transition(o, s).order)
  <1>1. CASE CanTransition(o.status, s)
    <2>1. Transition(o, s).order = [o EXCEPT !.status = s]
      BY <1>1 DEF Transition, Returned
    <2> QED
      BY <2>1, WithStatus DEF Soft
  <1>2. CASE ~CanTransition(o.status, s)
    BY <1>2, SoftSame DEF Transition, Raised
  <1> QED
    BY <1>1, <1>2

LEMMA SoftMarkCancelled ==
  ASSUME NEW o \in Order, Sane(o)
  PROVE  Soft(o, MarkCancelled(o, FALSE).order)
  <1> DEFINE r == IF o.status = "CANCELLED" THEN Returned(o)
                                            ELSE Transition(o, "CANCELLED")
  <1>1. "CANCELLED" \in Statuses /\ o.confirmed \in BOOLEAN /\ o.status \in Statuses
    BY DEF Statuses, Order
  <1>2. Soft(o, r.order)
    <2>1. CASE o.status = "CANCELLED"
      BY <2>1, SoftSame DEF Returned
    <2>2. CASE o.status # "CANCELLED" /\ ~o.confirmed
      BY <1>1, <2>2, SoftTransition
    <2>3. CASE o.status \in {"FILLED", "REJECTED"}
      <3>1. ~CanTransition(o.status, "CANCELLED")
        BY <2>3 DEF CanTransition, LegalTransitions
      <3>2. r.order = o
        BY <2>3, <3>1 DEF Transition, Raised
      <3> QED
        BY <3>2, SoftSame
    <2> QED
      BY <1>1, <2>1, <2>2, <2>3 DEF Sane, IsOpen, Terminal
  <1>3. CASE o.status = "FILLED" /\ o.confirmed
    BY <1>3, SoftSame DEF MarkCancelled, Returned
  <1>4. CASE ~(o.status = "FILLED" /\ o.confirmed) /\ r.raised # "none"
    <2>1. MarkCancelled(o, FALSE) = r
      BY <1>4 DEF MarkCancelled
    <2> QED
      BY <1>2, <2>1
  <1>5. CASE ~(o.status = "FILLED" /\ o.confirmed) /\ r.raised = "none"
    <2> DEFINE p == r.order
               q == [p EXCEPT !.confirmed = @ \/ FALSE]
    <2>1. MarkCancelled(o, FALSE).order = q
      BY <1>5 DEF MarkCancelled, Returned
    <2>2. p \in Order /\ Soft(o, p)
      BY <1>2 DEF Soft
    <2> HIDE DEF p
    <2>3. p.confirmed \in BOOLEAN
      BY <2>2 DEF Order
    <2>4. q = [p EXCEPT !.confirmed = p.confirmed]
      BY <2>3
    <2>5. Soft(p, q)
      BY <2>2, <2>3, <2>4, WithConfirmed DEF Soft
    <2> QED
      BY <2>1, <2>2, <2>5, SoftTrans
  <1> QED
    BY <1>3, <1>4, <1>5

\* A fill is refused by a confirmed order and leaves it alone.
LEMMA SoftApplyFill ==
  ASSUME NEW o \in Order, NEW qty \in Nat \ {0}
  PROVE  /\ Soft(o, ApplyFill(o, qty).order)
         /\ o.confirmed => ApplyFill(o, qty).raised # "none"
  <1> DEFINE b == Booked(o, qty)
             t == FillTarget(b)
  <1>1. CASE o.confirmed
    BY <1>1, SoftSame DEF ApplyFill, Raised
  <1>2. CASE ~o.confirmed /\ o.filled + qty > o.qty
    BY <1>2, SoftSame DEF ApplyFill, Raised
  <1>3. CASE ~o.confirmed /\ ~(o.filled + qty > o.qty)
    <2>1. o.filled + qty \in Nat /\ o.qty \in Nat
      BY DEF Order
    <2>2. b \in Order /\ Soft(o, b) /\ ~b.confirmed
      BY <1>3, <2>1, WithFilled DEF Booked, Soft
    <2>3. t \in Statuses
      BY DEF FillTarget, Statuses
    <2>4. ApplyFill(o, qty) = Land(b)
      BY <1>3 DEF ApplyFill
    <2> HIDE DEF b
    <2>5. CASE b.status = "CANCELLED"
      <3>1. Land(b).order = [b EXCEPT !.status = t]
        BY <2>5 DEF Land, Returned
      <3>2. Soft(b, [b EXCEPT !.status = t])
        <4> HIDE DEF t
        <4> QED
          BY <2>2, <2>3, WithStatus DEF Soft
      <3> QED
        BY <1>3, <2>2, <2>4, <3>1, <3>2, SoftTrans
    <2>6. CASE b.status # "CANCELLED"
      <3>1. Land(b) = Transition(b, t)
        BY <2>6 DEF Land
      <3>2. Soft(b, Transition(b, t).order)
        BY <2>2, <2>3, SoftTransition
      <3> QED
        BY <1>3, <2>2, <2>4, <3>1, <3>2, SoftTrans
    <2> QED
      BY <2>5, <2>6
  <1> QED
    BY <1>1, <1>2, <1>3

LEMMA SoftApplyAck ==
  ASSUME NEW o \in Order, Sane(o), NEW reply \in Reply
  PROVE  Soft(o, ApplyAck(o, reply).order)
  <1> DEFINE bid   == IF o.bid = None THEN reply.bid ELSE o.bid
             bound == [o EXCEPT !.bid = bid]
             moved == MarkSubmitted(bound).order
             submitted == IF o.status = "NEW" THEN [moved EXCEPT !.bid = reply.bid]
                                              ELSE bound
  <1>1. bid \in Nat \cup {None} /\ reply.bid \in Nat \cup {None}
    BY DEF Order, Reply
  <1>2. bound \in Order /\ Soft(o, bound) /\ bound.confirmed = o.confirmed
    <2> HIDE DEF bid
    <2> QED
      BY <1>1, WithBid DEF Soft
  <1>3. ApplyAck(o, reply) = IF reply.status = "CANCELLED"
                               THEN MarkCancelled(submitted, FALSE)
                               ELSE Returned(submitted)
    BY DEF ApplyAck
  <1>4. Soft(o, submitted)
    <2>1. CASE o.status = "NEW"
      <3> HIDE DEF bound
      <3>1. ~o.confirmed
        BY <2>1 DEF Sane, IsOpen, Terminal
      <3>2. "SUBMITTED" \in Statuses
        BY DEF Statuses
      <3>3. moved \in Order /\ Soft(bound, moved)
        BY <1>2, <3>1, <3>2, SoftTransition DEF MarkSubmitted, Soft
      <3> HIDE DEF moved
      <3>4. Soft(moved, [moved EXCEPT !.bid = reply.bid])
        BY <1>1, <3>3, WithBid DEF Soft
      <3> QED
        BY <1>2, <2>1, <3>3, <3>4, SoftTrans
    <2>2. CASE o.status # "NEW"
      BY <1>2, <2>2
    <2> QED
      BY <2>1, <2>2
  <1>5. submitted \in Order /\ Sane(submitted)
    <2> HIDE DEF submitted
    <2> QED
      BY <1>4, SoftIsSane DEF Soft
  <1> HIDE DEF submitted
  <1>6. Soft(submitted, MarkCancelled(submitted, FALSE).order)
    BY <1>5, SoftMarkCancelled
  <1>7. CASE reply.status = "CANCELLED"
    <2>1. ApplyAck(o, reply) = MarkCancelled(submitted, FALSE)
      BY <1>3, <1>7
    <2> QED
      BY <1>4, <1>6, <2>1, SoftTrans
  <1>8. CASE reply.status # "CANCELLED"
    <2>1. ApplyAck(o, reply).order = submitted
      BY <1>3, <1>8 DEF Returned
    <2> QED
      BY <1>4, <2>1
  <1> QED
    BY <1>7, <1>8

LEMMA SoftCancelOutcome ==
  ASSUME NEW o \in Order, Sane(o), NEW reply \in Reply
  PROVE  Soft(o, CancelOutcome(o, reply).order)
BY SoftSame, SoftMarkCancelled DEF CancelOutcome, Returned

\* The broker's verdict leaves what is filled, and the flag once it is set.
LEMMA VerdictIsSane ==
  ASSUME NEW o \in Order, Sane(o), NEW status \in Statuses
  PROVE  /\ ConfirmTerminal(o, status) \in Order
         /\ ConfirmTerminal(o, status).key = o.key
         /\ ConfirmTerminal(o, status).filled = o.filled
         /\ o.confirmed => ConfirmTerminal(o, status).confirmed
         /\ Sane(ConfirmTerminal(o, status))
  <1> DEFINE p == [o EXCEPT !.status = status]
  <1>1. /\ p \in Order /\ p.status = status /\ p.key = o.key /\ p.qty = o.qty
        /\ p.filled = o.filled /\ p.confirmed = o.confirmed
    BY WithStatus
  <1>2. CASE ~IsOpen(status)
    <2> DEFINE q == [p EXCEPT !.confirmed = TRUE]
    <2>1. ConfirmTerminal(o, status) = q
      BY <1>2 DEF ConfirmTerminal, Order
    <2> HIDE DEF p
    <2>2. /\ q \in Order /\ q.status = status /\ q.key = o.key /\ q.qty = o.qty
          /\ q.filled = o.filled /\ q.confirmed
      BY <1>1, WithConfirmed
    <2> HIDE DEF q
    <2> QED
      BY <1>2, <2>1, <2>2 DEF Sane
  <1>3. CASE IsOpen(status) /\ ~IsOpen(o.status) /\ ~o.confirmed
    <2>1. ConfirmTerminal(o, status) = p
      BY <1>3 DEF ConfirmTerminal
    <2> HIDE DEF p
    <2> QED
      BY <1>1, <1>3, <2>1 DEF Sane
  <1>4. CASE IsOpen(status) /\ ~(~IsOpen(o.status) /\ ~o.confirmed)
    BY <1>4 DEF ConfirmTerminal
  <1> QED
    BY <1>2, <1>3, <1>4

\* What an operation leaves alone whether it raises or not: the broker's id of
\* the order and the quantity ordered.
LEMMA FillKeepsTerms ==
  ASSUME NEW o \in Order, NEW qty \in Nat
  PROVE  ApplyFill(o, qty).order.bid = o.bid /\ ApplyFill(o, qty).order.qty = o.qty
BY DEF ApplyFill, Raised, Returned, Booked, Land, Transition, Order

LEMMA CancelKeepsTerms ==
  ASSUME NEW o \in Order
  PROVE  /\ MarkCancelled(o, FALSE).order.bid = o.bid
         /\ MarkCancelled(o, FALSE).order.qty = o.qty
         /\ MarkCancelled(o, FALSE).order.filled = o.filled
BY DEF MarkCancelled, Transition, Raised, Returned, Order

LEMMA VerdictKeepsTerms ==
  ASSUME NEW o \in Order, NEW status \in Statuses
  PROVE  /\ ConfirmTerminal(o, status).bid = o.bid
         /\ ConfirmTerminal(o, status).qty = o.qty
BY DEF ConfirmTerminal, Order

\* An ack may give the order the id that the broker has for it, and nothing else.
LEMMA AckKeepsTerms ==
  ASSUME NEW o \in Order, NEW reply \in Reply
  PROVE  /\ ApplyAck(o, reply).order.bid \in {o.bid, reply.bid}
         /\ ApplyAck(o, reply).order.qty = o.qty
         /\ ApplyAck(o, reply).order.filled = o.filled
  <1> DEFINE bound == [o EXCEPT !.bid = IF @ = None THEN reply.bid ELSE @]
             moved == MarkSubmitted(bound).order
             submitted == IF o.status = "NEW" THEN [moved EXCEPT !.bid = reply.bid]
                                              ELSE bound
  <1>1. /\ bound \in Order /\ bound.bid \in {o.bid, reply.bid}
        /\ bound.qty = o.qty /\ bound.filled = o.filled
    BY DEF Order, Reply
  <1> HIDE DEF bound
  <1>2. /\ moved \in Order /\ moved.bid = bound.bid
        /\ moved.qty = bound.qty /\ moved.filled = bound.filled
    BY <1>1 DEF MarkSubmitted, Transition, Raised, Returned, Order, Statuses
  <1> HIDE DEF moved
  <1>3. /\ submitted \in Order /\ submitted.bid \in {o.bid, reply.bid}
        /\ submitted.qty = o.qty /\ submitted.filled = o.filled
    BY <1>1, <1>2 DEF Order, Reply
  <1>4. ApplyAck(o, reply) = IF reply.status = "CANCELLED"
                               THEN MarkCancelled(submitted, FALSE)
                               ELSE Returned(submitted)
    BY DEF ApplyAck, bound, moved
  <1> HIDE DEF submitted
  <1>5. CASE reply.status = "CANCELLED"
    <2>1. ApplyAck(o, reply) = MarkCancelled(submitted, FALSE)
      BY <1>4, <1>5
    <2> QED
      BY <1>3, <2>1, CancelKeepsTerms
  <1>6. CASE reply.status # "CANCELLED"
    <2>1. ApplyAck(o, reply).order = submitted
      BY <1>4, <1>6 DEF Returned
    <2> QED
      BY <1>3, <2>1
  <1> QED
    BY <1>5, <1>6

\* Without the broker's word no order is REJECTED, and none is FILLED before all
\* of it is.
Coherent(o) ==
  ~o.confirmed => o.status # "REJECTED" /\ (o.status = "FILLED" => o.filled = o.qty)

\* The order a fill leaves behind, and when it is refused: a coherent order that
\* has been acked refuses no fill but one that is too much for it, and is left
\* alone by it.
LEMMA FillOutcome ==
  ASSUME NEW o \in Order, NEW qty \in Nat \ {0}
  PROVE  LET r == ApplyFill(o, qty)
         IN  /\ r.raised = "none" => r.order.filled = o.filled + qty
             /\ Coherent(o) => Coherent(r.order)
             /\ r.order.status = "NEW" => o.status = "NEW"
             /\ Coherent(o) /\ o.status # "NEW" /\ r.raised # "none" => r.order = o
             /\ Coherent(o) /\ o.status # "NEW" /\ ~o.confirmed /\ o.filled + qty <= o.qty
                  => r.raised = "none"
  <1> DEFINE r == ApplyFill(o, qty)
             n == o.filled + qty
             b == [o EXCEPT !.filled = n]
             t == FillTarget(b)
             p == [b EXCEPT !.status = t]
  <1>1. n \in Nat /\ o.filled \in Nat /\ o.qty \in Nat /\ o.status \in Statuses
    BY DEF Order
  <1>2. CASE o.confirmed \/ n > o.qty
    <2>1. r.order = o /\ r.raised # "none"
      BY <1>2 DEF ApplyFill, Raised
    <2> QED
      BY <1>1, <1>2, <2>1
  <1>3. CASE ~o.confirmed /\ ~(n > o.qty)
    <2>1. /\ b \in Order /\ b.filled = n /\ b.status = o.status /\ b.qty = o.qty
          /\ ~b.confirmed
      BY <1>1, <1>3 DEF Order
    <2>2. t \in {"FILLED", "PARTIALLY_FILLED"} /\ (t = "FILLED" => n = o.qty)
      BY <1>1, <1>3, <2>1 DEF FillTarget
    <2>3. r = Land(b)
      BY <1>3 DEF ApplyFill, Booked
    <2> HIDE DEF b, t, r
    <2>4. /\ p.filled = n /\ p.status = t /\ p.qty = o.qty /\ ~p.confirmed
      BY <2>1 DEF Order
    <2>5. \/ r.order = p /\ r.raised = "none"
          \/ /\ r.order = b /\ r.raised # "none"
             /\ o.status # "CANCELLED" /\ ~CanTransition(o.status, t)
      BY <2>1, <2>3 DEF Land, Transition, Returned, Raised, t
    <2>6. o.status \in {"SUBMITTED", "WORKING", "PARTIALLY_FILLED"} => CanTransition(o.status, t)
      BY <2>2 DEF CanTransition, LegalTransitions
    <2>7. Coherent(o) /\ o.status \notin {"NEW", "CANCELLED"} => CanTransition(o.status, t)
      <3>1. Coherent(o) => o.status # "REJECTED" /\ o.status # "FILLED"
        BY <1>1, <1>3 DEF Coherent
      <3> QED
        BY <1>1, <2>6, <3>1 DEF Statuses
    <2> HIDE DEF p, n
    <2>8. Coherent(o) => Coherent(r.order)
      <3>1. CASE r.order = p
        BY <2>2, <2>4, <3>1 DEF Coherent
      <3>2. CASE r.order = b /\ r.raised # "none"
        <4>1. CASE Coherent(o)
          <5>1. o.status = "NEW"
            BY <2>5, <2>7, <3>2, <4>1
          <5> QED
            BY <2>1, <3>2, <5>1 DEF Coherent
        <4> QED
          BY <4>1
      <3> QED
        BY <2>5, <3>1, <3>2
    <2>9. r.raised = "none" => r.order.filled = n
      BY <2>4, <2>5
    <2>10. r.order.status = "NEW" => o.status = "NEW"
      BY <2>1, <2>2, <2>4, <2>5
    <2>11. Coherent(o) /\ o.status # "NEW" => r.raised = "none"
      BY <2>5, <2>7
    <2> QED
      BY <2>8, <2>9, <2>10, <2>11 DEF n, r
  <1> QED
    BY <1>2, <1>3 DEF r

\* A cancel we only assume keeps an order coherent, and ends it as CANCELLED.
LEMMA CancelIsCoherent ==
  ASSUME NEW o \in Order, Coherent(o)
  PROVE  LET p == MarkCancelled(o, FALSE).order
         IN  Coherent(p) /\ p.status \in {o.status, "CANCELLED"}
BY DEF MarkCancelled, Transition, Raised, Returned, Order, Coherent

\* After an ack an order is no longer NEW.
LEMMA AckIsCoherent ==
  ASSUME NEW o \in Order, Coherent(o), NEW reply \in Reply
  PROVE  LET p == ApplyAck(o, reply).order
         IN  Coherent(p) /\ p.status # "NEW"
  <1> DEFINE bound == [o EXCEPT !.bid = IF @ = None THEN reply.bid ELSE @]
             moved == MarkSubmitted(bound).order
             submitted == IF o.status = "NEW" THEN [moved EXCEPT !.bid = reply.bid]
                                              ELSE bound
  <1>1. /\ bound \in Order /\ bound.status = o.status
        /\ bound.confirmed = o.confirmed /\ bound.qty = o.qty /\ bound.filled = o.filled
    BY DEF Order, Reply
  <1> HIDE DEF bound
  <1>2. submitted \in Order /\ Coherent(submitted) /\ submitted.status # "NEW"
    <2>1. CASE o.status = "NEW"
      <3>1. CanTransition(bound.status, "SUBMITTED")
        BY <1>1, <2>1 DEF CanTransition, LegalTransitions
      <3>2. moved = [bound EXCEPT !.status = "SUBMITTED"]
        BY <3>1 DEF MarkSubmitted, Transition, Returned
      <3>3. moved \in Order /\ moved.status = "SUBMITTED"
        BY <1>1, <3>2 DEF Order, Statuses
      <3> HIDE DEF moved
      <3>4. submitted \in Order /\ submitted.status = "SUBMITTED"
        BY <2>1, <3>3 DEF Order, Reply
      <3> QED
        BY <3>4 DEF Coherent
    <2>2. CASE o.status # "NEW"
      BY <1>1, <2>2 DEF Coherent
    <2> QED
      BY <2>1, <2>2
  <1>3. ApplyAck(o, reply) = IF reply.status = "CANCELLED"
                               THEN MarkCancelled(submitted, FALSE)
                               ELSE Returned(submitted)
    BY DEF ApplyAck, bound, moved
  <1> HIDE DEF submitted
  <1>4. CASE reply.status = "CANCELLED"
    <2>1. ApplyAck(o, reply) = MarkCancelled(submitted, FALSE)
      BY <1>3, <1>4
    <2> QED
      BY <1>2, <2>1, CancelIsCoherent
  <1>5. CASE reply.status # "CANCELLED"
    <2>1. ApplyAck(o, reply).order = submitted
      BY <1>3, <1>5 DEF Returned
    <2> QED
      BY <1>2, <2>1
  <1> QED
    BY <1>4, <1>5

\* A verdict of the broker's on an order leaves it coherent.
LEMMA VerdictIsCoherent ==
  ASSUME NEW o \in Order, Coherent(o), NEW status \in Statuses
  PROVE  LET p == ConfirmTerminal(o, status)
         IN  Coherent(p) /\ p.status \in {o.status, status}
BY DEF ConfirmTerminal, Order, Coherent, IsOpen, Terminal

-----------------------------------------------------------------------------
\* A row of the table is the order in memory, or what it was before an operation
\* that raised or a crash; where the flag is set there is no difference in it.
Saved(o, row) ==
  /\ o.key = row.key
  /\ Sane(o) /\ Sane(row)
  /\ o.confirmed <=> row.confirmed
  /\ o.confirmed => row.filled = o.filled

SavedOrders ==
  \A id \in OrderIds :
    /\ orders[id] = None <=> dbOrders[id] = None
    /\ orders[id] # None => Saved(orders[id], dbOrders[id])

\* The registry knows the key of every row.
Registered ==
  \A id \in OrderIds : dbOrders[id] # None => idem[dbOrders[id].key] # None

\* What has been sent has been saved before.
SentIsSaved ==
  \A k \in Keys :
    sends[k] # 0 => \E id \in OrderIds : dbOrders[id] # None /\ dbOrders[id].key = k

\* Every call under way is about an order in the table.
CallsKnown == \A c \in wire : orders[c.order] # None

LedgerSeen == \A f \in dbFills : f.exec \in seen

\* The inductive invariant of the engine.
EngineInv ==
  /\ EngineTypeOK
  /\ SavedOrders
  /\ OneOrderPerKey
  /\ Registered
  /\ SentIsSaved
  /\ AtMostOnceSend
  /\ CallsKnown
  /\ LedgerSeen
  /\ LedgerIsPosition

\* No order is forgotten or taken for another intent.
KeepsKeys ==
  \A id \in Created : orders'[id] # None /\ orders'[id].key = orders[id].key

\* Every order stands for the same intent as before, and is as closed as it was.
OrdersStand ==
  \A id \in OrderIds :
    /\ orders'[id] = None <=> orders[id] = None
    /\ orders[id] # None =>
         /\ orders'[id].key = orders[id].key
         /\ orders'[id].confirmed <=> orders[id].confirmed
         /\ orders[id].confirmed => orders'[id].filled = orders[id].filled

\* A step that Trading allows, or in which nothing happens there.
KeepsPromise ==
  Promise!Next \/ UNCHANGED <<sends, Placed, dbFills, position, Settled>>

\* What every step of the engine does besides: every order stays what it is of,
\* no confirmed order moves, and the promise of Trading is kept.
Keeps == KeepsKeys /\ KeepsConfirmed /\ KeepsPromise

\* The parts of the invariant that are about the order table.
TableInv ==
  /\ orders \in [OrderIds -> Order \cup {None}]
  /\ dbOrders \in [OrderIds -> Order \cup {None}]
  /\ SavedOrders
  /\ OneOrderPerKey
  /\ Registered
  /\ SentIsSaved
  /\ AtMostOnceSend
  /\ CallsKnown

USE NoneAssumption

LEMMA EngineInitial == EngineInit => EngineInv
  <1> SUFFICES ASSUME EngineInit PROVE EngineInv
    OBVIOUS
  <1>1. EngineTypeOK
    <2>1. IsFiniteSet(dbFills)
      BY FS_EmptySet DEF EngineInit
    <2>2. crashes \in 0 .. MaxCrashes
      BY EngineAssumption DEF EngineInit
    <2> QED
      BY <2>1, <2>2 DEF EngineInit, EngineTypeOK, Snapshot, NoSnapshot
  <1>2. LedgerIsPosition
    BY NetEmpty DEF EngineInit, LedgerIsPosition
  <1>3. SavedOrders /\ OneOrderPerKey /\ Registered /\ CallsKnown /\ LedgerSeen
    BY DEF EngineInit, SavedOrders, OneOrderPerKey, Registered, CallsKnown, LedgerSeen
  <1>4. SentIsSaved /\ AtMostOnceSend
    BY DEF EngineInit, SentIsSaved, AtMostOnceSend
  <1> QED
    BY <1>1, <1>2, <1>3, <1>4 DEF EngineInv

-----------------------------------------------------------------------------
\* The steps of the engine as those of Trading.
LEMMA TableStands ==
  ASSUME OrdersStand
  PROVE  Placed' = Placed /\ Settled' = Settled
  <1>1. Created' = Created
    BY DEF OrdersStand, Created
  <1>2. \A id \in Created :
          /\ id \in OrderIds
          /\ orders'[id].key = orders[id].key
          /\ orders'[id].confirmed <=> orders[id].confirmed
          /\ orders[id].confirmed => orders'[id].filled = orders[id].filled
    BY DEF OrdersStand, Created
  <1>3. Placed' = Placed
    BY <1>1, <1>2 DEF Placed
  <1>4. {i \in Created' : orders'[i].confirmed} = {i \in Created : orders[i].confirmed}
    BY <1>1, <1>2
  <1>5. Settled' = Settled
    BY <1>2, <1>4 DEF Settled
  <1> QED
    BY <1>3, <1>5

LEMMA PromiseStutters ==
  ASSUME OrdersStand, UNCHANGED <<sends, dbFills, position>>
  PROVE  KeepsPromise
BY TableStands DEF KeepsPromise

LEMMA PromiseInitial == EngineInit => Promise!Init
  <1> SUFFICES ASSUME EngineInit PROVE Promise!Init
    OBVIOUS
  <1>1. Created = {}
    BY DEF EngineInit, Created
  <1>2. Placed = {} /\ Settled = {}
    BY <1>1 DEF Placed, Settled
  <1> QED
    BY <1>2 DEF EngineInit, Promise!Init

\* An execution that is new to the ledger, of an order that is not closed.
LEMMA PromiseBooks ==
  ASSUME NEW f, OrdersStand,
         f.order \in Created, ~orders[f.order].confirmed,
         \A g \in dbFills : g.exec # f.exec,
         dbFills' = dbFills \cup {f},
         position' = position + Signed(f.side, f.qty),
         sends' = sends
  PROVE  KeepsPromise
  <1> DEFINE d == [key |-> orders[f.order].key, order |-> f.order]
  <1>1. d \in Placed /\ d.order = f.order
    BY DEF Placed
  <1>2. \A e \in Settled : e.order # f.order
    BY DEF Settled
  <1>3. Promise!Book(f)
    BY <1>1, <1>2, TableStands DEF Promise!Book, Promise!Signed, Signed
  <1> QED
    BY <1>3 DEF KeepsPromise, Promise!Next

\* The broker's final word on an order.
LEMMA PromiseSettles ==
  ASSUME NEW id \in Created, NEW p, p # None,
         orders \in [OrderIds -> Order \cup {None}],
         orders' = [orders EXCEPT ![id] = p],
         ~orders[id].confirmed, p.confirmed,
         p.key = orders[id].key, p.filled = orders[id].filled, Sane(orders[id]),
         UNCHANGED <<sends, dbFills, position>>
  PROVE  KeepsPromise
  <1> DEFINE d == [key |-> orders[id].key, order |-> id]
  <1>1. id \in OrderIds /\ orders[id] \in Order
    BY DEF Created
  <1>2. orders'[id] = p /\ \A i \in OrderIds \ {id} : orders'[i] = orders[i]
    BY <1>1
  <1>3. Created' = Created
    BY <1>1, <1>2 DEF Created
  <1>4. \A i \in Created : orders'[i].key = orders[i].key /\ orders'[i].filled = orders[i].filled
    BY <1>2 DEF Created
  <1>5. Placed' = Placed
    BY <1>3, <1>4 DEF Placed
  <1>6. {i \in Created' : orders'[i].confirmed} = {i \in Created : orders[i].confirmed} \cup {id}
    BY <1>1, <1>2, <1>3 DEF Created
  <1>7. Settled' = Settled \cup {[order |-> id, filled |-> orders[id].filled]}
    BY <1>4, <1>6 DEF Settled
  <1>8. \A e \in Settled : e.order # id
    BY DEF Settled
  <1>9. orders[id].filled \in 0 .. QtyOf[orders[id].key]
    <2>1. orders[id].filled \in Nat /\ orders[id].qty \in Nat
      BY <1>1 DEF Order
    <2> QED
      BY <2>1 DEF Sane
  <1>10. d \in Placed
    BY DEF Placed
  <1>11. Promise!Settle(d, orders[id].filled)
    BY <1>5, <1>7, <1>8 DEF Promise!Settle
  <1> QED
    BY <1>9, <1>10, <1>11 DEF KeepsPromise, Promise!Next

-----------------------------------------------------------------------------
\* An order of the table turns into p, in its row too or in memory alone.
LEMMA OrderChanges ==
  ASSUME EngineInv,
         NEW id \in OrderIds, orders[id] # None,
         NEW p \in Order, p.key = orders[id].key, Sane(p),
         orders[id].confirmed => p.confirmed /\ p.filled = orders[id].filled,
         orders' = [orders EXCEPT ![id] = p],
         \/ dbOrders' = [dbOrders EXCEPT ![id] = p]
         \/ dbOrders' = dbOrders /\ (p.confirmed => orders[id].confirmed),
         \A k \in Keys : idem[k] # None => idem'[k] # None,
         sends' = sends,
         wire' \subseteq wire
  PROVE  /\ TableInv' /\ KeepsKeys /\ KeepsConfirmed
         /\ (p.confirmed <=> orders[id].confirmed) => OrdersStand
  <1>1. /\ orders \in [OrderIds -> Order \cup {None}]
        /\ dbOrders \in [OrderIds -> Order \cup {None}]
        /\ wire \subseteq Call
    BY DEF EngineInv, EngineTypeOK
  <1>2. p # None /\ p.key \in Keys
    BY DEF Order
  <1>3. /\ dbOrders[id] # None /\ Saved(orders[id], dbOrders[id])
        /\ dbOrders[id] \in Order
    BY <1>1 DEF EngineInv, SavedOrders
  <1>4. /\ orders' \in [OrderIds -> Order \cup {None}]
        /\ dbOrders' \in [OrderIds -> Order \cup {None}]
    BY <1>1
  <1>5. \A i \in OrderIds :
          /\ orders'[i] = IF i = id THEN p ELSE orders[i]
          /\ dbOrders'[i] = dbOrders[i] \/ (i = id /\ dbOrders'[i] = p)
          /\ (orders'[i] = None) <=> (orders[i] = None)
          /\ (dbOrders'[i] = None) <=> (dbOrders[i] = None)
          /\ orders[i] # None => orders'[i].key = orders[i].key
          /\ dbOrders[i] # None => dbOrders'[i].key = dbOrders[i].key
    BY <1>1, <1>2, <1>3 DEF Saved
  <1>6. SavedOrders'
    <2> SUFFICES ASSUME NEW i \in OrderIds
                 PROVE  /\ orders'[i] = None <=> dbOrders'[i] = None
                        /\ orders'[i] # None => Saved(orders'[i], dbOrders'[i])
      BY DEF SavedOrders
    <2>1. CASE i # id
      BY <1>1, <1>5, <2>1 DEF EngineInv, SavedOrders
    <2>2. CASE i = id
      <3>1. orders'[id] = p
        BY <1>5
      <3>2. CASE dbOrders' = [dbOrders EXCEPT ![id] = p]
        <4>1. dbOrders'[id] = p
          BY <1>1, <3>2
        <4> QED
          BY <1>2, <2>2, <3>1, <4>1 DEF Saved
      <3>3. CASE dbOrders' = dbOrders /\ (p.confirmed => orders[id].confirmed)
        BY <1>2, <1>3, <2>2, <3>1, <3>3 DEF Saved
      <3> QED
        BY <3>2, <3>3
    <2> QED
      BY <2>1, <2>2
  <1>7. OneOrderPerKey'
    BY <1>5 DEF EngineInv, OneOrderPerKey
  <1>8. Registered'
    <2> SUFFICES ASSUME NEW i \in OrderIds, dbOrders'[i] # None
                 PROVE  idem'[dbOrders'[i].key] # None
      BY DEF Registered
    <2>1. dbOrders[i] # None /\ dbOrders'[i].key = dbOrders[i].key
      BY <1>5
    <2>2. dbOrders[i].key \in Keys
      BY <1>1, <2>1 DEF Order
    <2>3. idem[dbOrders[i].key] # None
      BY <2>1 DEF EngineInv, Registered
    <2> QED
      BY <2>1, <2>2, <2>3
  <1>9. SentIsSaved' /\ AtMostOnceSend'
    BY <1>5 DEF EngineInv, SentIsSaved, AtMostOnceSend
  <1>10. CallsKnown'
    BY <1>1, <1>5 DEF EngineInv, CallsKnown, Call
  <1>11. KeepsKeys
    BY <1>5 DEF Created, KeepsKeys
  <1>12. KeepsConfirmed
    BY <1>2, <1>5, <1>6 DEF EngineInv, SavedOrders, Saved, Sane, KeepsConfirmed
  <1>13. (p.confirmed <=> orders[id].confirmed) => OrdersStand
    BY <1>5 DEF OrdersStand
  <1> QED
    BY <1>4, <1>6, <1>7, <1>8, <1>9, <1>10, <1>11, <1>12, <1>13 DEF TableInv

\* The registry that load() builds knows exactly the keys of the rows.
LEMMA RegistryOf ==
  ASSUME NEW table \in [OrderIds -> Order \cup {None}]
  PROVE  /\ KeysOf(table) \in [Keys -> Entry \cup {None}]
         /\ \A id \in OrderIds : table[id] # None => KeysOf(table)[table[id].key] # None
  <1> DEFINE under(k) == {id \in OrderIds : table[id] # None /\ table[id].key = k}
             entry(k) == [order |-> CHOOSE id \in under(k) : TRUE, sent |-> TRUE]
  <1>1. KeysOf(table) = [k \in Keys |-> IF under(k) = {} THEN None ELSE entry(k)]
    BY DEF KeysOf
  <1>2. ASSUME NEW k \in Keys, under(k) # {}
        PROVE  entry(k) \in Entry
    <2>1. (CHOOSE id \in under(k) : TRUE) \in under(k)
      BY <1>2
    <2> QED
      BY <2>1 DEF Entry
  <1>3. KeysOf(table) \in [Keys -> Entry \cup {None}]
    <2> HIDE DEF under, entry
    <2> QED
      BY <1>1, <1>2
  <1>4. ASSUME NEW id \in OrderIds, table[id] # None
        PROVE  KeysOf(table)[table[id].key] # None
    <2>1. table[id].key \in Keys
      BY <1>4 DEF Order
    <2>2. under(table[id].key) # {}
      BY <1>4
    <2> HIDE DEF under, entry
    <2>3. KeysOf(table)[table[id].key] = entry(table[id].key)
      BY <1>1, <2>1, <2>2
    <2> QED
      BY <1>2, <2>1, <2>2, <2>3
  <1> QED
    BY <1>3, <1>4

\* A restart from tables that hold the same orders and all that is confirmed.
LEMMA Reloads ==
  ASSUME EngineInv, Restart,
         dbOrders' \in [OrderIds -> Order \cup {None}],
         dbFills' \in SUBSET Fill, IsFiniteSet(dbFills'), dbPosition' \in Int,
         \A id \in OrderIds :
           /\ dbOrders'[id] = None <=> dbOrders[id] = None
           /\ dbOrders[id] # None =>
                /\ dbOrders'[id].key = dbOrders[id].key
                /\ Sane(dbOrders'[id])
                /\ orders[id].confirmed <=> dbOrders'[id].confirmed
                /\ orders[id].confirmed => dbOrders'[id].filled = orders[id].filled
  PROVE  EngineInv' /\ KeepsKeys /\ KeepsConfirmed /\ OrdersStand
  <1>1. /\ orders' = dbOrders' /\ idem' = KeysOf(dbOrders')
        /\ seen' = {f.exec : f \in dbFills'} /\ position' = Net(dbFills')
        /\ wire' = {} /\ snap' = [r \in Readers |-> NoSnapshot] /\ lastResult' = "none"
        /\ crashes < MaxCrashes /\ crashes' = crashes + 1
        /\ sends' = sends /\ answer' = answer
    BY DEF Restart, Load, historyVars
  <1>2. EngineTypeOK'
    <2>1. idem' \in [Keys -> Entry \cup {None}]
      BY <1>1, RegistryOf
    <2>2. position' \in Int
      BY <1>1, NetType
    <2>3. seen' \subseteq Nat
      BY <1>1 DEF Fill
    <2>4. snap' \in [Readers -> Snapshot]
      BY <1>1 DEF Snapshot, NoSnapshot
    <2>5. crashes' \in 0 .. MaxCrashes
      BY <1>1, EngineAssumption DEF EngineInv, EngineTypeOK
    <2>6. sends' \in [Keys -> Nat] /\ answer' \in [Keys -> {"none", "order", "oversell", "rejected", "failed", "illegal"}]
      BY <1>1 DEF EngineInv, EngineTypeOK
    <2> QED
      BY <1>1, <2>1, <2>2, <2>3, <2>4, <2>5, <2>6 DEF EngineTypeOK
  <1>3. \A id \in OrderIds :
          /\ orders'[id] = None <=> dbOrders[id] = None
          /\ orders'[id] = None <=> orders[id] = None
          /\ orders'[id] # None => Saved(orders'[id], dbOrders'[id])
    BY <1>1 DEF EngineInv, SavedOrders, Saved
  <1>4. SavedOrders'
    BY <1>1, <1>3 DEF SavedOrders
  <1>5. OneOrderPerKey'
    BY <1>1 DEF EngineInv, OneOrderPerKey
  <1>6. Registered'
    BY <1>1, RegistryOf DEF Registered
  <1>7. SentIsSaved' /\ AtMostOnceSend'
    BY <1>1 DEF EngineInv, SentIsSaved, AtMostOnceSend
  <1>8. CallsKnown' /\ LedgerSeen' /\ LedgerIsPosition'
    BY <1>1 DEF CallsKnown, LedgerSeen, LedgerIsPosition
  <1>9. KeepsKeys
    BY <1>1, <1>3 DEF EngineInv, SavedOrders, Saved, Created, KeepsKeys
  <1>10. KeepsConfirmed
    BY <1>1, <1>3 DEF EngineInv, SavedOrders, Saved, Sane, KeepsConfirmed
  <1>11. OrdersStand
    BY <1>1, <1>3 DEF EngineInv, SavedOrders, Saved, OrdersStand
  <1> QED
    BY <1>2, <1>4, <1>5, <1>6, <1>7, <1>8, <1>9, <1>10, <1>11 DEF EngineInv

-----------------------------------------------------------------------------
\* The actions that touch neither the tables nor what memory has of them.
LEMMA MemoryKept ==
  ASSUME EngineInv, UNCHANGED <<memoryVars, dbVars, sends>>, EngineTypeOK', CallsKnown'
  PROVE  EngineInv' /\ Keeps
  <1> USE DEF memoryVars, dbVars
  <1>1. SavedOrders' /\ OneOrderPerKey' /\ Registered'
    BY DEF EngineInv, SavedOrders, OneOrderPerKey, Registered
  <1>2. SentIsSaved' /\ AtMostOnceSend' /\ LedgerSeen' /\ LedgerIsPosition'
    BY DEF EngineInv, SentIsSaved, AtMostOnceSend, LedgerSeen, LedgerIsPosition
  <1>3. KeepsKeys /\ KeepsConfirmed
    BY DEF EngineInv, SavedOrders, Saved, Sane, KeepsKeys, KeepsConfirmed, Created
  <1>4. KeepsPromise
    BY PromiseStutters DEF OrdersStand
  <1> QED
    BY <1>1, <1>2, <1>3, <1>4 DEF EngineInv, Keeps

LEMMA EngineStutters ==
  ASSUME EngineInv, UNCHANGED engineVars
  PROVE  EngineInv' /\ Keeps
  <1> USE DEF engineVars, memoryVars, dbVars, snapVars, historyVars
  <1>1. EngineTypeOK' /\ CallsKnown'
    BY DEF EngineInv, EngineTypeOK, CallsKnown
  <1> QED
    BY <1>1, MemoryKept

LEMMA AnswersASubmit ==
  ASSUME EngineInv, NEW k \in Keys, SubmitOversell(k) \/ SubmitKnown(k)
  PROVE  EngineInv' /\ Keeps
  <1> USE DEF memoryVars, dbVars, snapVars, SubmitOversell, SubmitKnown, Answered
  <1>1. EngineTypeOK'
    BY DEF EngineInv, EngineTypeOK
  <1>2. CallsKnown'
    BY DEF EngineInv, CallsKnown
  <1> QED
    BY <1>1, <1>2, MemoryKept

LEMMA CallsAgain ==
  ASSUME EngineInv, NEW id \in OrderIds, CancelBegin(id) \/ ConfirmBegin(id)
  PROVE  EngineInv' /\ Keeps
  <1> USE DEF memoryVars, dbVars, snapVars, historyVars, CancelBegin, ConfirmBegin, Send, Created
  <1>1. orders[id] \in Order
    BY DEF EngineInv, EngineTypeOK
  <1>2. orders[id].bid \in Nat \cup {None}
    BY <1>1 DEF Order
  <1>3. EngineTypeOK'
    <2> DEFINE call(op) == [op |-> op, order |-> id, bid |-> orders[id].bid, reply |-> None]
    <2>1. call("cancel") \in Call /\ call("query_order") \in Call
      BY <1>2 DEF Call
    <2>2. wire' \subseteq Call
      BY <2>1 DEF EngineInv, EngineTypeOK
    <2> QED
      BY <2>2 DEF EngineInv, EngineTypeOK
  <1>4. CallsKnown'
    BY DEF EngineInv, CallsKnown
  <1> QED
    BY <1>3, <1>4, MemoryKept

LEMMA VenueAnswers ==
  ASSUME EngineInv, NEW c \in wire, NEW reply \in Reply, Answer(c, reply),
         UNCHANGED <<memoryVars, snapVars, dbVars, crashes, historyVars>>
  PROVE  EngineInv' /\ Keeps
  <1> USE DEF memoryVars, dbVars, snapVars, historyVars
  <1> DEFINE d == [c EXCEPT !.reply = reply]
  <1>1. c \in Call
    BY DEF EngineInv, EngineTypeOK
  <1>2. d \in Call /\ d.order = c.order
    BY <1>1 DEF Call
  <1>3. wire' = (wire \ {c}) \cup {d}
    BY DEF Answer
  <1> HIDE DEF d
  <1>4. EngineTypeOK'
    BY <1>2, <1>3 DEF EngineInv, EngineTypeOK
  <1>5. CallsKnown'
    BY <1>2, <1>3 DEF EngineInv, CallsKnown
  <1> QED
    BY <1>4, <1>5, MemoryKept

LEMMA BrokerRaises ==
  ASSUME EngineInv, NEW c \in wire, NEW error \in {"rejected", "failed"},
         CallRaises(c, error)
  PROVE  EngineInv' /\ Keeps
  <1> USE DEF memoryVars, dbVars, snapVars, CallRaises, Answered
  <1>1. EngineTypeOK'
    BY DEF EngineInv, EngineTypeOK
  <1>2. CallsKnown'
    BY DEF EngineInv, CallsKnown
  <1> QED
    BY <1>1, <1>2, MemoryKept

LEMMA Reconciliation ==
  ASSUME EngineInv,
         NEW reader \in Readers, NEW theirs \in Int,
         \/ ReportBegin
         \/ SnapshotAnswered(reader, theirs)
         \/ SnapshotRaises(reader)
         \/ Reconcile(reader)
  PROVE  EngineInv' /\ Keeps
  <1> USE DEF memoryVars, dbVars, snapVars, historyVars
  <1>1. UNCHANGED <<memoryVars, wire, dbVars, crashes, historyVars>>
    BY DEF ReportBegin, SnapshotAnswered, SnapshotRaises, Reconcile
  <1>2. snap' \in [Readers -> Snapshot] /\ lastResult' \in {"none", "clean", "break"}
    <2>1. snap \in [Readers -> Snapshot] /\ lastResult \in {"none", "clean", "break"}
      BY DEF EngineInv, EngineTypeOK
    <2>2. CASE ReportBegin
      <3>1. [stage |-> "asked", book |-> 0] \in Snapshot
        BY DEF Snapshot
      <3> QED
        BY <2>1, <2>2, <3>1 DEF ReportBegin, Ask
    <2>3. CASE SnapshotAnswered(reader, theirs)
      BY <2>1, <2>3 DEF SnapshotAnswered, Snapshot
    <2>4. CASE Reconcile(reader)
      BY <2>1, <2>4 DEF Reconcile, Snapshot, NoSnapshot
    <2>5. CASE SnapshotRaises(reader)
      BY <2>1, <2>5 DEF SnapshotRaises, Snapshot, NoSnapshot
    <2> QED
      BY <2>2, <2>3, <2>4, <2>5
  <1>3. EngineTypeOK'
    BY <1>1, <1>2 DEF EngineInv, EngineTypeOK
  <1>4. CallsKnown'
    BY <1>1 DEF EngineInv, CallsKnown
  <1> QED
    BY <1>1, <1>3, <1>4, MemoryKept

-----------------------------------------------------------------------------
\* submit of a new key: the key had never been sent, and is saved as it is.
LEMMA Submits ==
  ASSUME EngineInv, NEW k \in Keys, SubmitBegin(k)
  PROVE  EngineInv' /\ Keeps
  <1> DEFINE id == CHOOSE new \in OrderIds \ Created : TRUE
             o  == [key |-> k, status |-> "NEW", qty |-> QtyOf[k],
                    filled |-> 0, confirmed |-> FALSE, bid |-> None]
             call == [op |-> "submit", order |-> id, bid |-> None, reply |-> None]
             entry == [order |-> id, sent |-> FALSE]
  <1>1. id \in OrderIds /\ orders[id] = None
    <2>1. OrderIds \ Created # {}
      BY DEF SubmitBegin
    <2>2. id \in OrderIds \ Created
      BY <2>1
    <2> QED
      BY <2>2 DEF Created
  <1>2. /\ idem[k] = None
        /\ orders' = [orders EXCEPT ![id] = o]
        /\ idem' = [idem EXCEPT ![k] = entry]
        /\ dbOrders' = [dbOrders EXCEPT ![id] = orders'[id]]
        /\ wire' = wire \cup {call}
        /\ sends' = [sends EXCEPT ![k] = @ + 1]
        /\ UNCHANGED <<position, seen, snapVars, dbFills, dbPosition, crashes, answer>>
    BY DEF SubmitBegin, SaveOrder, Send
  <1>3. o \in Order /\ o # None /\ o.key = k /\ Sane(o) /\ ~o.confirmed
    <2>1. QtyOf[k] \in Nat \ {0} /\ "NEW" \in Statuses
      BY IntentsAssumption DEF Statuses
    <2>2. o \in Order
      BY <2>1 DEF Order
    <2>3. o # None
      BY <2>2, NoneAssumption
    <2> QED
      BY <2>1, <2>2, <2>3 DEF Sane
  <1>4. call \in Call /\ call.order = id /\ entry \in Entry /\ entry # None
    <2> HIDE DEF id
    <2>1. call \in Call
      BY <1>1 DEF Call
    <2>2. entry \in Entry
      BY <1>1 DEF Entry
    <2>3. entry # None
      BY <2>2, NoneAssumption
    <2> QED
      BY <2>1, <2>2, <2>3
  <1> HIDE DEF id, o, call, entry
  <1>5. /\ orders \in [OrderIds -> Order \cup {None}]
        /\ dbOrders \in [OrderIds -> Order \cup {None}]
        /\ idem \in [Keys -> Entry \cup {None}]
        /\ sends \in [Keys -> Nat]
        /\ wire \subseteq Call
    BY DEF EngineInv, EngineTypeOK
  <1>6. /\ orders' \in [OrderIds -> Order \cup {None}] /\ orders'[id] = o
        /\ dbOrders' = [dbOrders EXCEPT ![id] = o]
    BY <1>1, <1>2, <1>3, <1>5
  <1>7. EngineTypeOK'
    <2>1. dbOrders' \in [OrderIds -> Order \cup {None}]
      BY <1>3, <1>5, <1>6
    <2>2. idem' \in [Keys -> Entry \cup {None}] /\ sends' \in [Keys -> Nat]
      BY <1>2, <1>4, <1>5
    <2>3. wire' \subseteq Call
      BY <1>2, <1>4, <1>5
    <2> QED
      BY <1>2, <1>6, <2>1, <2>2, <2>3 DEF EngineInv, EngineTypeOK, snapVars
  <1>8. dbOrders[id] = None
    BY <1>1 DEF EngineInv, SavedOrders
  <1>9. \A i \in OrderIds :
          /\ orders'[i] = IF i = id THEN o ELSE orders[i]
          /\ dbOrders'[i] = IF i = id THEN o ELSE dbOrders[i]
    BY <1>2, <1>5, <1>6
  <1>10. \A i \in OrderIds :
           /\ dbOrders[i] # None => dbOrders[i] \in Order /\ dbOrders[i].key # k
           /\ orders[i] # None => orders[i].key = dbOrders[i].key /\ dbOrders[i] # None
    BY <1>2, <1>5 DEF EngineInv, SavedOrders, Saved, Registered
  <1>11. SavedOrders'
    BY <1>3, <1>9 DEF EngineInv, SavedOrders, Saved
  <1>12. OneOrderPerKey'
    BY <1>3, <1>9, <1>10 DEF EngineInv, OneOrderPerKey
  <1>13. Registered'
    <2> SUFFICES ASSUME NEW i \in OrderIds, dbOrders'[i] # None
                 PROVE  idem'[dbOrders'[i].key] # None
      BY DEF Registered
    <2>1. CASE i = id
      BY <1>2, <1>3, <1>4, <1>5, <1>9, <2>1
    <2>2. CASE i # id
      <3>1. dbOrders'[i] = dbOrders[i] /\ dbOrders[i].key \in Keys \ {k}
        BY <1>9, <1>10, <2>2 DEF Order
      <3> QED
        BY <1>2, <1>5, <3>1 DEF EngineInv, Registered
    <2> QED
      BY <2>1, <2>2
  <1>14. sends[k] = 0
    BY <1>10 DEF EngineInv, SentIsSaved
  <1>15. \A j \in Keys : sends'[j] = IF j = k THEN 1 ELSE sends[j]
    BY <1>2, <1>5, <1>14
  <1>16. AtMostOnceSend'
    BY <1>15 DEF EngineInv, AtMostOnceSend
  <1>17. SentIsSaved'
    <2> SUFFICES ASSUME NEW j \in Keys, sends'[j] # 0
                 PROVE  \E i \in OrderIds : dbOrders'[i] # None /\ dbOrders'[i].key = j
      BY DEF SentIsSaved
    <2>1. CASE j = k
      BY <1>1, <1>3, <1>9, <2>1
    <2>2. CASE j # k
      <3>1. PICK i \in OrderIds : dbOrders[i] # None /\ dbOrders[i].key = j
        BY <1>15, <2>2 DEF EngineInv, SentIsSaved
      <3>2. dbOrders'[i] = dbOrders[i]
        BY <1>8, <1>9, <3>1
      <3> QED
        BY <3>1, <3>2
    <2> QED
      BY <2>1, <2>2
  <1>18. CallsKnown'
    BY <1>2, <1>3, <1>4, <1>5, <1>9 DEF EngineInv, CallsKnown, Call
  <1>19. LedgerSeen' /\ LedgerIsPosition'
    BY <1>2 DEF EngineInv, LedgerSeen, LedgerIsPosition
  <1>20. Keeps
    <2>1. KeepsKeys
      BY <1>1, <1>3, <1>9 DEF Created, KeepsKeys
    <2>2. KeepsConfirmed
      BY <1>1, <1>9 DEF EngineInv, SavedOrders, Saved, Sane, KeepsConfirmed
    <2>3. KeepsPromise
      <3> DEFINE d == [key |-> k, order |-> id]
      <3>1. id \in OrderIds /\ id \notin Created /\ Created' = Created \cup {id}
        BY <1>1, <1>3, <1>9 DEF Created
      <3>2. orders'[id] = o /\ \A i \in Created : orders'[i] = orders[i]
        BY <1>1, <1>9, <3>1 DEF Created
      <3>3. Placed' = Placed \cup {d}
        BY <1>3, <3>1, <3>2 DEF Placed
      <3>4. {i \in Created' : orders'[i].confirmed} = {i \in Created : orders[i].confirmed}
        BY <1>3, <3>1, <3>2
      <3>5. Settled' = Settled
        BY <3>2, <3>4 DEF Settled
      <3>6. \A e \in Placed : e.key # k /\ e.order # id
        BY <1>10, <3>1 DEF Placed, Created
      <3>7. sends' = [sends EXCEPT ![k] = 1]
        BY <1>2, <1>5, <1>14
      <3>8. Promise!Dispatch(k, id)
        BY <1>2, <1>14, <3>3, <3>5, <3>6, <3>7 DEF Promise!Dispatch
      <3> QED
        BY <3>1, <3>8 DEF KeepsPromise, Promise!Next
    <2> QED
      BY <2>1, <2>2, <2>3 DEF Keeps
  <1> QED
    BY <1>7, <1>11, <1>12, <1>13, <1>16, <1>17, <1>18, <1>19, <1>20 DEF EngineInv

\* A call that returns and is applied to its order.
LEMMA CallEnds ==
  ASSUME EngineInv, NEW c \in wire, SubmitEnd(c) \/ CancelEnd(c) \/ ConfirmEnd(c)
  PROVE  EngineInv' /\ Keeps
  <1> DEFINE id == c.order
             o  == orders[id]
             p  == orders'[id]
  <1>1. c \in Call /\ id \in OrderIds /\ o \in Order /\ Sane(o) /\ o # None
    BY DEF EngineInv, EngineTypeOK, Call, CallsKnown, SavedOrders, Saved
  <1>2. c.reply \in Reply /\ c.reply.status \in Statuses
    BY <1>1 DEF Call, Reply, SubmitEnd, CancelEnd, ConfirmEnd
  <1>3. /\ orders \in [OrderIds -> Order \cup {None}]
        /\ dbOrders \in [OrderIds -> Order \cup {None}]
        /\ idem \in [Keys -> Entry \cup {None}]
    BY DEF EngineInv, EngineTypeOK
  <1>4. /\ p \in Order /\ p.key = o.key /\ Sane(p)
        /\ o.confirmed => p.confirmed /\ p.filled = o.filled
        /\ (p.confirmed <=> o.confirmed) \/ p.filled = o.filled
        /\ orders' = [orders EXCEPT ![id] = p]
        /\ \/ dbOrders' = [dbOrders EXCEPT ![id] = p]
           \/ dbOrders' = dbOrders /\ (p.confirmed => o.confirmed)
        /\ dbFills' = dbFills /\ dbPosition' = dbPosition
    <2>1. CASE SubmitEnd(c)
      <3> DEFINE r == ApplyAck(o, c.reply)
      <3>1. Soft(o, r.order) /\ Sane(r.order)
        BY <1>1, <1>2, SoftApplyAck, SoftIsSane
      <3>2. orders' = [orders EXCEPT ![id] = r.order] /\ p = r.order
        BY <1>1, <1>3, <2>1 DEF SubmitEnd
      <3>3. /\ dbOrders' = [dbOrders EXCEPT ![id] = p] \/ dbOrders' = dbOrders
            /\ dbFills' = dbFills /\ dbPosition' = dbPosition
        BY <2>1 DEF SubmitEnd, SaveOrder, dbVars
      <3> HIDE DEF r, p, o
      <3> QED
        BY <3>1, <3>2, <3>3 DEF Soft
    <2>2. CASE CancelEnd(c)
      <3> DEFINE r == CancelOutcome(o, c.reply)
      <3>1. Soft(o, r.order) /\ Sane(r.order)
        BY <1>1, <1>2, SoftCancelOutcome, SoftIsSane
      <3>2. orders' = [orders EXCEPT ![id] = r.order] /\ p = r.order
        BY <1>1, <1>3, <2>2 DEF CancelEnd
      <3>3. /\ dbOrders' = [dbOrders EXCEPT ![id] = p] \/ dbOrders' = dbOrders
            /\ dbFills' = dbFills /\ dbPosition' = dbPosition
        BY <2>2 DEF CancelEnd, SaveOrder, dbVars
      <3> HIDE DEF r, p, o
      <3> QED
        BY <3>1, <3>2, <3>3 DEF Soft
    <2>3. CASE ConfirmEnd(c)
      <3> DEFINE q == ConfirmTerminal(o, c.reply.status)
      <3>1. /\ q \in Order /\ q.key = o.key /\ q.filled = o.filled /\ Sane(q)
            /\ o.confirmed => q.confirmed
        BY <1>1, <1>2, VerdictIsSane
      <3>2. orders' = [orders EXCEPT ![id] = q] /\ p = q
        BY <1>1, <1>3, <2>3 DEF ConfirmEnd
      <3>3. /\ dbOrders' = [dbOrders EXCEPT ![id] = p]
            /\ dbFills' = dbFills /\ dbPosition' = dbPosition
        BY <2>3 DEF ConfirmEnd, SaveOrder
      <3> HIDE DEF q, p, o
      <3> QED
        BY <3>1, <3>2, <3>3
    <2> QED
      BY <2>1, <2>2, <2>3
  <1>5. /\ idem' \in [Keys -> Entry \cup {None}]
        /\ \A k \in Keys : idem[k] # None => idem'[k] # None
    <2>1. o.key \in Keys /\ dbOrders[id] # None /\ dbOrders[id].key = o.key
      BY <1>1 DEF EngineInv, SavedOrders, Saved, Order
    <2>2. idem[o.key] # None
      BY <1>1, <2>1 DEF EngineInv, Registered
    <2>3. idem[o.key] \in Entry
      BY <1>3, <2>1, <2>2
    <2>4. [idem[o.key] EXCEPT !.sent = TRUE] \in Entry
      BY <2>3 DEF Entry
    <2>5. idem' = idem \/ idem' = [idem EXCEPT ![o.key] = [idem[o.key] EXCEPT !.sent = TRUE]]
      BY <1>3, <2>1 DEF SubmitEnd, CancelEnd, ConfirmEnd
    <2> HIDE DEF o
    <2> QED
      BY <1>3, <2>1, <2>4, <2>5
  <1>6. /\ wire' = wire \ {c}
        /\ UNCHANGED <<position, seen, snap, lastResult, crashes, sends>>
        /\ answer' \in [Keys -> {"none", "order", "oversell", "rejected", "failed", "illegal"}]
    BY DEF EngineInv, EngineTypeOK, SubmitEnd, CancelEnd, ConfirmEnd, Answered, snapVars,
           historyVars
  <1> HIDE DEF p, o, id
  <1>7. /\ TableInv' /\ KeepsKeys /\ KeepsConfirmed
        /\ (p.confirmed <=> o.confirmed) => OrdersStand
    BY <1>1, <1>4, <1>5, <1>6, OrderChanges DEF o, id
  <1>8. EngineTypeOK'
    BY <1>4, <1>5, <1>6, <1>7 DEF EngineInv, EngineTypeOK, TableInv
  <1>9. LedgerSeen' /\ LedgerIsPosition'
    BY <1>4, <1>6 DEF EngineInv, LedgerSeen, LedgerIsPosition
  <1>10. KeepsPromise
    <2>1. CASE p.confirmed <=> o.confirmed
      BY <1>4, <1>6, <1>7, <2>1, PromiseStutters
    <2>2. CASE ~(p.confirmed <=> o.confirmed)
      <3>1. p.confirmed /\ ~o.confirmed /\ p.filled = o.filled
        BY <1>4, <2>2
      <3>2. id \in Created /\ p # None
        BY <1>1, <1>4 DEF Created, o
      <3> QED
        BY <1>1, <1>3, <1>4, <1>6, <3>1, <3>2, PromiseSettles DEF o
    <2> QED
      BY <2>1, <2>2
  <1> QED
    BY <1>7, <1>8, <1>9, <1>10 DEF EngineInv, TableInv, Keeps

-----------------------------------------------------------------------------
\* What the stream of fills hands to on_fill: a fill of an order in the table.
Incoming(f) == f \in Fill /\ orders[f.order] # None

LEMMA IncomingFill ==
  ASSUME EngineInv, NEW f, Incoming(f)
  PROVE  /\ f.order \in OrderIds /\ f.qty \in Nat \ {0} /\ f.exec \in Nat
         /\ Signed(f.side, f.qty) \in Int
         /\ orders[f.order] \in Order /\ Sane(orders[f.order])
         /\ Soft(orders[f.order], ApplyFill(orders[f.order], f.qty).order)
         /\ Sane(ApplyFill(orders[f.order], f.qty).order)
  <1>1. f.order \in OrderIds /\ f.qty \in Nat \ {0} /\ f.exec \in Nat
    BY DEF Incoming, Fill
  <1>2. Signed(f.side, f.qty) \in Int
    BY <1>1 DEF Signed
  <1>3. orders[f.order] \in Order /\ Sane(orders[f.order])
    BY <1>1 DEF Incoming, EngineInv, EngineTypeOK, SavedOrders, Saved
  <1>4. Soft(orders[f.order], ApplyFill(orders[f.order], f.qty).order)
    BY <1>1, <1>3, SoftApplyFill
  <1> QED
    BY <1>1, <1>2, <1>3, <1>4, SoftIsSane

\* An execution that is recorded when it is new to memory is new to the ledger.
LEMMA NewToLedger ==
  ASSUME EngineInv, NEW f, Incoming(f), f.exec \notin seen
  PROVE  /\ Recorded(dbFills, f) = dbFills \cup {f}
         /\ Recorded(dbFills, f) \in SUBSET Fill
         /\ IsFiniteSet(Recorded(dbFills, f))
         /\ Net(Recorded(dbFills, f)) = Net(dbFills) + Signed(f.side, f.qty)
  <1>1. dbFills \in SUBSET Fill /\ IsFiniteSet(dbFills) /\ f \in Fill
    BY DEF EngineInv, EngineTypeOK, Incoming
  <1>2. f \notin dbFills /\ Recorded(dbFills, f) = dbFills \cup {f}
    BY DEF EngineInv, LedgerSeen, Recorded
  <1> QED
    BY <1>1, <1>2, FS_AddElement, NetAdd

LEMMA RefusesFill ==
  ASSUME EngineInv, NEW f, Incoming(f), FillRefused(f)
  PROVE  EngineInv' /\ Keeps
  <1> DEFINE id == f.order
             o  == orders[id]
             p  == ApplyFill(o, f.qty).order
  <1> USE DEF FillRefused, snapVars, dbVars, historyVars
  <1>1. /\ id \in OrderIds /\ o # None /\ f.exec \in Nat
        /\ Soft(o, p) /\ Sane(p)
    BY IncomingFill DEF Incoming
  <1>2. /\ orders' = [orders EXCEPT ![id] = p] /\ seen' = seen \cup {f.exec}
        /\ UNCHANGED <<idem, position, wire, snap, lastResult, dbOrders, dbFills,
                       dbPosition, crashes, sends, answer>>
    OBVIOUS
  <1> HIDE DEF p, o, id, FillRefused
  <1>3. TableInv' /\ KeepsKeys /\ KeepsConfirmed /\ OrdersStand
    BY <1>1, <1>2, OrderChanges DEF Soft, o
  <1>4. EngineTypeOK'
    BY <1>1, <1>2, <1>3 DEF EngineInv, EngineTypeOK, TableInv
  <1>5. LedgerSeen' /\ LedgerIsPosition'
    BY <1>2 DEF EngineInv, LedgerSeen, LedgerIsPosition
  <1>6. KeepsPromise
    BY <1>2, <1>3, PromiseStutters
  <1> QED
    BY <1>3, <1>4, <1>5, <1>6 DEF EngineInv, TableInv, Keeps

LEMMA AppliesFill ==
  ASSUME EngineInv, NEW f, Incoming(f), FillApplied(f)
  PROVE  EngineInv' /\ Keeps
  <1> DEFINE id == f.order
             o  == orders[id]
             p  == ApplyFill(o, f.qty).order
  <1> USE DEF FillApplied, WriteFill, historyVars
  <1>1. /\ id \in OrderIds /\ o # None /\ f.exec \in Nat
        /\ Soft(o, p) /\ Sane(p) /\ Signed(f.side, f.qty) \in Int
    BY IncomingFill DEF Incoming
  <1>2. /\ orders' = [orders EXCEPT ![id] = p] /\ seen' = seen \cup {f.exec}
        /\ dbOrders' = [dbOrders EXCEPT ![id] = p]
        /\ position' = position + Signed(f.side, f.qty)
        /\ dbPosition' = position + Signed(f.side, f.qty)
        /\ dbFills' = Recorded(dbFills, f)
        /\ UNCHANGED <<idem, wire, lastResult, crashes, sends, answer>>
        /\ f.exec \notin seen
    OBVIOUS
  <1>3. snap' \in [Readers -> Snapshot]
    <2>1. [stage |-> "asked", book |-> 0] \in Snapshot
      BY DEF Snapshot
    <2> QED
      BY <2>1 DEF EngineInv, EngineTypeOK, Ask
  <1> HIDE DEF p, o, id, FillApplied
  <1>4. TableInv' /\ KeepsKeys /\ KeepsConfirmed /\ OrdersStand
    BY <1>1, <1>2, OrderChanges DEF Soft, o
  <1>5. /\ dbFills' = dbFills \cup {f} /\ dbFills' \in SUBSET Fill /\ IsFiniteSet(dbFills')
        /\ Net(dbFills') = Net(dbFills) + Signed(f.side, f.qty)
    BY <1>2, NewToLedger
  <1>6. EngineTypeOK'
    <2>1. EngineTypeOK
      BY DEF EngineInv
    <2>2. position' \in Int /\ dbPosition' \in Int
      <3>1. position \in Int /\ Signed(f.side, f.qty) \in Int
        BY <1>1, <2>1 DEF EngineTypeOK
      <3>2. position + Signed(f.side, f.qty) \in Int
        BY <3>1
      <3> QED
        BY <1>2, <3>2
    <2>3. seen' \subseteq Nat
      BY <1>1, <1>2, <2>1 DEF EngineTypeOK
    <2>4. orders' \in [OrderIds -> Order \cup {None}] /\ dbOrders' \in [OrderIds -> Order \cup {None}]
      BY <1>4 DEF TableInv
    <2>5. dbFills' \subseteq Fill /\ IsFiniteSet(dbFills')
      BY <1>5
    <2> QED
      BY <1>2, <1>3, <2>1, <2>2, <2>3, <2>4, <2>5 DEF EngineTypeOK
  <1>7. LedgerSeen' /\ LedgerIsPosition'
    BY <1>2, <1>5 DEF EngineInv, LedgerSeen, LedgerIsPosition
  <1>8. KeepsPromise
    <2>1. id \in Created /\ ~o.confirmed
      BY <1>1, IncomingFill, SoftApplyFill DEF FillApplied, Created, o, id
    <2>2. \A g \in dbFills : g.exec # f.exec
      BY <1>2 DEF EngineInv, LedgerSeen
    <2> QED
      BY <1>2, <1>4, <1>5, <2>1, <2>2, PromiseBooks DEF o, id
  <1> QED
    BY <1>4, <1>6, <1>7, <1>8 DEF EngineInv, TableInv, Keeps

LEMMA HandlesFill ==
  ASSUME EngineInv, NEW f, Incoming(f), OnFill(f)
  PROVE  EngineInv' /\ Keeps
BY EngineStutters, RefusesFill, AppliesFill DEF OnFill, FillSeen

-----------------------------------------------------------------------------
LEMMA Crashes ==
  ASSUME EngineInv, Crash
  PROVE  EngineInv' /\ Keeps
  <1>1. Restart /\ UNCHANGED <<dbOrders, dbFills, dbPosition>>
    BY DEF Crash, dbVars
  <1>2. /\ dbOrders' \in [OrderIds -> Order \cup {None}]
        /\ dbFills' \in SUBSET Fill /\ IsFiniteSet(dbFills') /\ dbPosition' \in Int
    BY <1>1 DEF EngineInv, EngineTypeOK
  <1>3. \A id \in OrderIds :
          /\ dbOrders'[id] = None <=> dbOrders[id] = None
          /\ dbOrders[id] # None =>
               /\ dbOrders'[id].key = dbOrders[id].key
               /\ Sane(dbOrders'[id])
               /\ orders[id].confirmed <=> dbOrders'[id].confirmed
               /\ orders[id].confirmed => dbOrders'[id].filled = orders[id].filled
    BY <1>1 DEF EngineInv, SavedOrders, Saved
  <1>4. EngineInv' /\ KeepsKeys /\ KeepsConfirmed /\ OrdersStand
    BY <1>1, <1>2, <1>3, Reloads
  <1>5. KeepsPromise
    <2>1. position' = position /\ sends' = sends
      BY <1>1, <1>4 DEF EngineInv, LedgerIsPosition, Restart, Load, historyVars
    <2> QED
      BY <1>1, <1>4, <2>1, PromiseStutters
  <1> QED
    BY <1>4, <1>5 DEF Keeps

\* The row that is ahead of memory when the process dies within on_fill is that
\* of an order the broker has not confirmed: a confirmed one refuses the fill.
LEMMA CrashesInFill ==
  ASSUME EngineInv, NEW f, Incoming(f), CrashInFill(f)
  PROVE  EngineInv' /\ Keeps
  <1> DEFINE id == f.order
             o  == orders[id]
             p  == ApplyFill(o, f.qty).order
  <1>1. /\ id \in OrderIds /\ o # None /\ o \in Order
        /\ Soft(o, p) /\ Sane(p) /\ Signed(f.side, f.qty) \in Int
    BY IncomingFill DEF Incoming
  <1>2. ~o.confirmed
    BY <1>1, IncomingFill, SoftApplyFill DEF CrashInFill
  <1>3. PICK n \in 1 .. 2 : WriteFill(f, n)
    BY DEF CrashInFill
  <1>4. /\ dbOrders' = dbOrders \/ dbOrders' = [dbOrders EXCEPT ![id] = p]
        /\ dbFills' = Recorded(dbFills, f)
        /\ dbPosition' = dbPosition
    BY <1>3 DEF WriteFill
  <1>5. Restart /\ f.exec \notin seen
    BY DEF CrashInFill
  <1> HIDE DEF p, o, id
  <1>6. dbFills' \in SUBSET Fill /\ IsFiniteSet(dbFills') /\ dbPosition' \in Int
    BY <1>4, <1>5, NewToLedger DEF EngineInv, EngineTypeOK
  <1>7. /\ orders \in [OrderIds -> Order \cup {None}]
        /\ dbOrders \in [OrderIds -> Order \cup {None}]
        /\ p \in Order /\ p # None /\ p.key = o.key /\ ~p.confirmed
    BY <1>1, <1>2 DEF EngineInv, EngineTypeOK, Soft
  <1>8. dbOrders' \in [OrderIds -> Order \cup {None}]
    BY <1>4, <1>7
  <1>9. ASSUME NEW i \in OrderIds
        PROVE  /\ dbOrders'[i] = None <=> dbOrders[i] = None
               /\ dbOrders[i] # None =>
                    /\ dbOrders'[i].key = dbOrders[i].key
                    /\ Sane(dbOrders'[i])
                    /\ orders[i].confirmed <=> dbOrders'[i].confirmed
                    /\ orders[i].confirmed => dbOrders'[i].filled = orders[i].filled
    <2>1. /\ dbOrders[i] = None <=> orders[i] = None
          /\ dbOrders[i] # None => Saved(orders[i], dbOrders[i])
      BY DEF EngineInv, SavedOrders
    <2>2. CASE dbOrders'[i] = dbOrders[i]
      BY <2>1, <2>2 DEF Saved
    <2>3. CASE i = id /\ dbOrders'[i] = p
      BY <1>1, <1>2, <1>7, <2>1, <2>3 DEF Saved, o
    <2> QED
      BY <1>4, <1>7, <2>2, <2>3
  <1>10. EngineInv' /\ KeepsKeys /\ KeepsConfirmed /\ OrdersStand
    BY <1>5, <1>6, <1>8, <1>9, Reloads
  <1>11. KeepsPromise
    <2>1. /\ dbFills' = dbFills \cup {f}
          /\ Net(dbFills') = Net(dbFills) + Signed(f.side, f.qty)
      BY <1>4, <1>5, NewToLedger
    <2>2. position' = position + Signed(f.side, f.qty) /\ sends' = sends
      BY <1>5, <2>1 DEF EngineInv, LedgerIsPosition, Restart, Load, historyVars
    <2>3. id \in Created /\ ~o.confirmed /\ \A g \in dbFills : g.exec # f.exec
      BY <1>1, <1>2, <1>5 DEF Created, o, EngineInv, LedgerSeen
    <2> QED
      BY <1>10, <2>1, <2>2, <2>3, PromiseBooks DEF o, id
  <1> QED
    BY <1>10, <1>11 DEF Keeps
=============================================================================
