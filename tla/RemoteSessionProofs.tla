------------------------- MODULE RemoteSessionProofs -------------------------
(***************************************************************************)
(* RemoteSession keeps the engine's promises too: with every call lost or  *)
(* late, executions replayed and a venue that outlives the process, all    *)
(* the engine relies on is that acks are well formed and that what the     *)
(* venue executes is an order of the table.                                *)
(***************************************************************************)
EXTENDS RemoteSession, EngineProofs, SequenceTheorems

\* The venue works for orders of the table, all of which survive a crash.
VenueKnows ==
  /\ IsFiniteSet(acks)
  /\ \A a \in acks : orders[a.order] # None
  /\ \A i \in 1 .. Len(executions) : orders[executions[i].order] # None

VenueInv == VenueTypeOK /\ VenueKnows

SessionInv == EngineInv /\ VenueInv

LEMMA SessionInitial == Init => SessionInv
  <1> SUFFICES ASSUME Init PROVE SessionInv
    OBVIOUS
  <1>1. EngineInv
    BY EngineInitial DEF Init
  <1>2. VenueTypeOK
    <2>1. acks = {} /\ book = 0 /\ executions = <<>> /\ cursor = 0
      BY DEF Init, VenueInit
    <2>2. cursor \in 0 .. Len(executions)
      BY <2>1
    <2> QED
      BY <2>1, <2>2 DEF VenueTypeOK
  <1>3. VenueKnows
    BY FS_EmptySet DEF Init, VenueInit, VenueKnows
  <1> QED
    BY <1>1, <1>2, <1>3 DEF SessionInv, VenueInv

-----------------------------------------------------------------------------
\* Executions and acks of the table stay in the table.
LEMMA StillKnown ==
  ASSUME SessionInv, Keeps
  PROVE  /\ \A a \in acks : orders'[a.order] # None
         /\ \A i \in 1 .. Len(executions) : orders'[executions[i].order] # None
  <1>1. \A id \in OrderIds : orders[id] # None => orders'[id] # None
    BY DEF Keeps, KeepsKeys, Created
  <1>2. \A a \in acks : a.order \in OrderIds
    BY DEF SessionInv, VenueInv, VenueTypeOK, Ack
  <1>3. \A i \in 1 .. Len(executions) : executions[i] \in Fill
    BY DEF SessionInv, VenueInv, VenueTypeOK
  <1>4. \A i \in 1 .. Len(executions) : executions[i].order \in OrderIds
    BY <1>3 DEF Fill
  <1> QED
    BY <1>1, <1>2, <1>4 DEF SessionInv, VenueInv, VenueKnows

\* The venue does nothing, or only the place of our subscription changes.
LEMMA VenueIdle ==
  ASSUME SessionInv, UNCHANGED venueVars \/ Replay \/ Deliver, Keeps
  PROVE  VenueInv'
  <1>1. UNCHANGED <<acks, book, executions>>
    BY DEF venueVars, Replay, Deliver
  <1>2. cursor' \in 0 .. Len(executions)
    <2>1. cursor \in 0 .. Len(executions) /\ Len(executions) \in Nat
      BY DEF SessionInv, VenueInv, VenueTypeOK
    <2> QED
      BY <2>1 DEF venueVars, Replay, Deliver
  <1>3. VenueTypeOK'
    BY <1>1, <1>2 DEF SessionInv, VenueInv, VenueTypeOK
  <1>4. VenueKnows'
    BY <1>1, StillKnown DEF SessionInv, VenueInv, VenueKnows
  <1> QED
    BY <1>3, <1>4 DEF VenueInv

\* An ack is replaced by another of the same order.
LEMMA Updates ==
  ASSUME SessionInv, orders' = orders, NEW a \in acks, NEW b \in Ack,
         b.order = a.order, Update(a, b)
  PROVE  /\ acks' \subseteq Ack /\ IsFiniteSet(acks')
         /\ \A d \in acks' : orders'[d.order] # None
  <1>1. acks' = (acks \ {a}) \cup {b}
    BY DEF Update
  <1>2. IsFiniteSet(acks \ {a})
    BY FS_RemoveElement DEF SessionInv, VenueInv, VenueKnows
  <1>3. IsFiniteSet(acks')
    BY <1>1, <1>2, FS_AddElement
  <1> QED
    BY <1>1, <1>3 DEF SessionInv, VenueInv, VenueTypeOK, VenueKnows

LEMMA Ends ==
  ASSUME SessionInv, orders' = orders, NEW a \in acks, End(a)
  PROVE  VenueInv'
  <1> DEFINE b == [a EXCEPT !.status = "CANCELLED"]
  <1>1. a \in Ack
    BY DEF SessionInv, VenueInv, VenueTypeOK
  <1>2. b \in Ack /\ b.order = a.order
    BY <1>1 DEF Ack, Statuses
  <1>3. Update(a, b) /\ UNCHANGED <<book, executions, cursor>>
    BY DEF End
  <1> HIDE DEF b
  <1>4. /\ acks' \subseteq Ack /\ IsFiniteSet(acks')
        /\ \A d \in acks' : orders'[d.order] # None
    BY <1>2, <1>3, Updates
  <1> QED
    BY <1>3, <1>4 DEF SessionInv, VenueInv, VenueTypeOK, VenueKnows

LEMMA CancelsAtVenue ==
  ASSUME SessionInv, orders' = orders, NEW bid, CancelAtVenue(bid)
  PROVE  VenueInv'
  <1>1. CASE KnowsBid(bid) /\ End(AckOfBid(bid))
    <2>1. AckOfBid(bid) \in acks
      BY <1>1 DEF KnowsBid, AckOfBid
    <2>2. PICK a \in acks : a = AckOfBid(bid)
      BY <2>1
    <2>3. End(a)
      BY <1>1, <2>2 DEF End, Update
    <2> QED
      BY <2>3, Ends
  <1>2. CASE UNCHANGED venueVars
    BY <1>2 DEF SessionInv, VenueInv, VenueTypeOK, VenueKnows, venueVars
  <1> QED
    BY <1>1, <1>2 DEF CancelAtVenue

LEMMA Accepts ==
  ASSUME SessionInv, orders' = orders,
         NEW k \in Keys, NEW id \in OrderIds, orders[id] # None,
         Accept(k, id)
  PROVE  VenueInv' /\ AckOfKey(acks', k) \in Ack
  <1>1. VenueTypeOK /\ VenueKnows /\ UNCHANGED <<book, executions, cursor>>
    BY DEF SessionInv, VenueInv, Accept
  <1>2. CASE KnowsKey(k)
    <2>1. acks' = acks
      BY <1>2 DEF Accept
    <2> QED
      BY <1>1, <1>2, <2>1 DEF VenueInv, VenueTypeOK, VenueKnows, AckOfKey, KnowsKey
  <1>3. CASE ~KnowsKey(k)
    <2>0. PICK status \in {"WORKING", "CANCELLED", "REJECTED"} :
            acks' = acks \cup {[bid |-> Cardinality(acks) + 1, key |-> k, order |-> id,
                                status |-> status, filled |-> 0]}
      BY <1>3 DEF Accept
    <2> DEFINE a == [bid |-> Cardinality(acks) + 1, key |-> k, order |-> id,
                     status |-> status, filled |-> 0]
    <2>1. acks' = acks \cup {a}
      BY <2>0
    <2>2. Cardinality(acks) + 1 \in Nat
      BY <1>1, FS_CardinalityType DEF VenueKnows
    <2>3. a \in Ack /\ a.order = id /\ a.key = k
      BY <2>2 DEF Ack, Statuses
    <2> HIDE DEF a
    <2>4. IsFiniteSet(acks')
      BY <1>1, <2>1, FS_AddElement DEF VenueKnows
    <2>5. VenueTypeOK'
      BY <1>1, <2>1, <2>3 DEF VenueTypeOK
    <2>6. VenueKnows'
      BY <1>1, <2>1, <2>3, <2>4 DEF VenueKnows
    <2> QED
      BY <2>1, <2>3, <2>5, <2>6 DEF VenueInv, VenueTypeOK, AckOfKey
  <1> QED
    BY <1>2, <1>3

LEMMA ExecutesPart ==
  ASSUME SessionInv, orders' = orders, NEW a \in acks, Execute(a)
  PROVE  VenueInv'
  <1>1. VenueTypeOK /\ VenueKnows /\ a \in Ack
    BY DEF SessionInv, VenueInv, VenueTypeOK
  <1>2. /\ a.order \in OrderIds /\ orders[a.order] # None /\ a.key \in Keys
        /\ a.filled \in Nat /\ QtyOf[a.key] \in Nat
    BY <1>1, IntentsAssumption DEF Ack, VenueKnows
  <1>3. PICK qty \in 1 .. QtyOf[a.key] - a.filled :
          LET fill == NewFill(Len(executions) + 1, a.order, a.key, qty)
              status == IF a.filled + qty = QtyOf[a.key] THEN "FILLED"
                                                         ELSE "PARTIALLY_FILLED"
          IN  /\ Update(a, [a EXCEPT !.status = status, !.filled = @ + qty])
              /\ executions' = Append(executions, fill)
              /\ book' = book + Signed(fill.side, qty)
    BY DEF Execute
  <1> DEFINE fill == NewFill(Len(executions) + 1, a.order, a.key, qty)
             status == IF a.filled + qty = QtyOf[a.key] THEN "FILLED"
                                                        ELSE "PARTIALLY_FILLED"
             b == [a EXCEPT !.status = status, !.filled = @ + qty]
  <1>4. Len(executions) \in Nat /\ executions \in Seq(Fill) /\ book \in Int
    BY <1>1 DEF VenueTypeOK
  <1>5. qty \in Nat \ {0} /\ a.filled + qty \in Nat
    BY <1>2
  <1>6. fill \in Fill /\ fill.order = a.order
    BY <1>2, <1>4, <1>5, IntentsAssumption DEF NewFill, Fill
  <1>7. b \in Ack /\ b.order = a.order
    <2>1. b = [a EXCEPT !.status = status, !.filled = a.filled + qty]
      OBVIOUS
    <2>2. status \in Statuses
      BY DEF Statuses
    <2> HIDE DEF status
    <2> QED
      BY <1>1, <1>5, <2>1, <2>2 DEF Ack
  <1>8. Signed(fill.side, qty) \in Int
    <2>1. fill.side \in {"BUY", "SELL"}
      BY <1>6 DEF Fill
    <2> QED
      BY <1>5, <2>1 DEF Signed
  <1>9. /\ Update(a, b) /\ executions' = Append(executions, fill)
        /\ book' = book + Signed(fill.side, qty) /\ cursor' = cursor
    BY <1>3 DEF Execute
  <1> HIDE DEF fill, status, b
  <1>10. /\ acks' \subseteq Ack /\ IsFiniteSet(acks')
         /\ \A d \in acks' : orders'[d.order] # None
    BY <1>7, <1>9, Updates
  <1>11. /\ executions' \in Seq(Fill) /\ Len(executions') = Len(executions) + 1
         /\ \A i \in 1 .. Len(executions) : executions'[i] = executions[i]
         /\ executions'[Len(executions) + 1] = fill
    BY <1>4, <1>6, <1>9, AppendProperties
  <1>12. \A i \in 1 .. Len(executions') : orders'[executions'[i].order] # None
    <2> SUFFICES ASSUME NEW i \in 1 .. Len(executions')
                 PROVE  orders[executions'[i].order] # None
      OBVIOUS
    <2>1. CASE i \in 1 .. Len(executions)
      BY <1>1, <1>11, <2>1 DEF VenueKnows
    <2>2. CASE i = Len(executions) + 1
      BY <1>2, <1>6, <1>11, <2>2
    <2> QED
      BY <1>4, <1>11, <2>1, <2>2
  <1>13. book' \in Int
    BY <1>4, <1>8, <1>9
  <1>14. cursor' \in 0 .. Len(executions')
    <2>1. cursor \in 0 .. Len(executions)
      BY <1>1 DEF VenueTypeOK
    <2> QED
      BY <1>4, <1>9, <1>11, <2>1
  <1> QED
    BY <1>10, <1>11, <1>12, <1>13, <1>14 DEF VenueInv, VenueTypeOK, VenueKnows

-----------------------------------------------------------------------------
\* The next fill of the stream is one that on_fill can count on.
LEMMA NextOfStream ==
  ASSUME SessionInv, cursor < Len(executions)
  PROVE  Incoming(NextFill)
  <1>1. executions \in Seq(Fill) /\ cursor \in 0 .. Len(executions)
    BY DEF SessionInv, VenueInv, VenueTypeOK
  <1>2. cursor + 1 \in 1 .. Len(executions)
    BY <1>1
  <1>3. executions[cursor + 1] \in Fill
    BY <1>1, <1>2
  <1> QED
    BY <1>2, <1>3 DEF SessionInv, VenueInv, VenueKnows, Incoming, NextFill

LEMMA CallSteps ==
  ASSUME SessionInv, NEW c \in wire,
         VenueSubmit(c) \/ VenueCancel(c) \/ VenueQuery(c) \/ Resume(c) \/ Lose(c)
  PROVE  SessionInv' /\ Keeps
  <1>1. /\ EngineInv /\ c \in Call /\ c.order \in OrderIds /\ orders[c.order] # None
        /\ orders[c.order] \in Order /\ orders[c.order].key \in Keys
    BY DEF SessionInv, EngineInv, EngineTypeOK, Call, CallsKnown, Order
  <1>2. ASSUME NEW reply \in Reply, Answer(c, reply), EngineIdle
        PROVE  EngineInv' /\ Keeps
    BY <1>1, <1>2, VenueAnswers DEF EngineIdle
  <1>3. CASE VenueSubmit(c)
    <2> DEFINE k == orders[c.order].key
    <2>1. orders' = orders /\ EngineIdle /\ Accept(k, c.order)
      BY <1>3 DEF VenueSubmit, EngineIdle, memoryVars
    <2>2. VenueInv' /\ AckOfKey(acks', k) \in Ack
      BY <1>1, <2>1, Accepts
    <2>3. PICK reply : reply = [bid |-> AckOfKey(acks', k).bid,
                                status |-> AckOfKey(acks', k).status]
      OBVIOUS
    <2>4. Answer(c, reply)
      BY <1>3, <2>3 DEF VenueSubmit, Answer
    <2>5. reply \in Reply
      BY <2>2, <2>3 DEF Ack, Reply
    <2> QED
      BY <1>2, <2>1, <2>2, <2>4, <2>5 DEF SessionInv
  <1>4. CASE VenueCancel(c)
    <2>1. orders' = orders /\ EngineIdle /\ CancelAtVenue(c.bid)
      BY <1>4 DEF VenueCancel, EngineIdle, memoryVars
    <2>2. VenueInv'
      BY <2>1, CancelsAtVenue
    <2>3. PICK reply : reply = [bid |-> c.bid, status |-> StatusOf(c.bid)']
      OBVIOUS
    <2>4. Answer(c, reply)
      BY <1>4, <2>3 DEF VenueCancel, Answer
    <2>5. StatusOf(c.bid)' \in Statuses
      BY <2>2 DEF StatusOf, KnowsBid, AckOfBid, VenueInv, VenueTypeOK, Ack, Statuses
    <2>6. reply \in Reply
      BY <1>1, <2>3, <2>5 DEF Call, Reply
    <2> QED
      BY <1>2, <2>1, <2>2, <2>4, <2>6 DEF SessionInv
  <1>5. CASE VenueQuery(c)
    <2>1. EngineIdle /\ UNCHANGED venueVars
      BY <1>5 DEF VenueQuery
    <2>2. PICK reply : reply = [bid |-> c.bid, status |-> StatusOf(c.bid)]
      OBVIOUS
    <2>3. Answer(c, reply)
      BY <1>5, <2>2 DEF VenueQuery, Answer
    <2>4. StatusOf(c.bid) \in Statuses
      BY DEF SessionInv, VenueInv, StatusOf, KnowsBid, AckOfBid, VenueTypeOK, Ack, Statuses
    <2>5. reply \in Reply
      BY <1>1, <2>2, <2>4 DEF Call, Reply
    <2>6. EngineInv' /\ Keeps
      BY <1>2, <2>1, <2>3, <2>5
    <2> QED
      BY <2>1, <2>6, VenueIdle DEF SessionInv
  <1>6. CASE Resume(c)
    <2>1. EngineInv' /\ Keeps
      BY <1>1, <1>6, CallEnds DEF Resume
    <2> QED
      BY <1>6, <2>1, VenueIdle DEF Resume, SessionInv
  <1>7. CASE Lose(c)
    <2>1. EngineInv' /\ Keeps
      BY <1>1, <1>7, BrokerRaises DEF Lose
    <2> QED
      BY <1>7, <2>1, VenueIdle DEF Lose, SessionInv
  <1> QED
    BY <1>3, <1>4, <1>5, <1>6, <1>7

\* Every step of the session keeps the invariant and every confirmed order.
LEMMA SessionStep ==
  ASSUME SessionInv, [Next]_vars
  PROVE  SessionInv' /\ Keeps
  <1> USE DEF SessionInv
  <1>1. ASSUME NEW k \in Keys, Submit(k)
        PROVE  SessionInv' /\ Keeps
    <2>1. EngineInv' /\ Keeps
      BY <1>1, AnswersASubmit, Submits DEF Submit
    <2> QED
      BY <1>1, <2>1, VenueIdle DEF Submit
  <1>2. ASSUME NEW id \in OrderIds, Cancel(id) \/ Confirm(id)
        PROVE  SessionInv' /\ Keeps
    <2>1. EngineInv' /\ Keeps
      BY <1>2, CallsAgain DEF Cancel, Confirm
    <2> QED
      BY <1>2, <2>1, VenueIdle DEF Cancel, Confirm
  <1>3. CASE Report
    <2>1. \E reader \in Readers, theirs \in Int : TRUE
      BY DEF Readers
    <2>2. EngineInv' /\ Keeps
      BY <1>3, <2>1, Reconciliation DEF Report
    <2> QED
      BY <1>3, <2>2, VenueIdle DEF Report
  <1>4. ASSUME NEW r \in Readers, VenueSnapshot(r) \/ LoseSnapshot(r) \/ Reconciles(r)
        PROVE  SessionInv' /\ Keeps
    <2>1. PICK theirs \in Int : theirs = book
      BY DEF VenueInv, VenueTypeOK
    <2>2. SnapshotAnswered(r, theirs) \/ SnapshotRaises(r) \/ Reconcile(r)
      BY <1>4, <2>1 DEF VenueSnapshot, LoseSnapshot, Reconciles, SnapshotAnswered
    <2>3. EngineInv' /\ Keeps
      BY <2>2, Reconciliation
    <2> QED
      BY <1>4, <2>3, VenueIdle DEF VenueSnapshot, LoseSnapshot, Reconciles
  <1>5. ASSUME NEW a \in acks, Executes(a) \/ Expires(a)
        PROVE  SessionInv' /\ Keeps
    <2>1. UNCHANGED engineVars
      BY <1>5 DEF Executes, Expires
    <2>2. EngineInv' /\ Keeps
      BY <2>1, EngineStutters
    <2>3. orders' = orders
      BY <2>1 DEF engineVars, memoryVars
    <2> QED
      BY <1>5, <2>2, <2>3, ExecutesPart, Ends DEF Executes, Expires
  <1>6. CASE Consume
    <2>1. PICK f : f = NextFill
      OBVIOUS
    <2>2. Incoming(f)
      BY <1>6, <2>1, NextOfStream DEF Consume, Deliver, Incoming
    <2>3. OnFill(f)
      BY <1>6, <2>1 DEF Consume, OnFill, FillSeen, FillRefused, FillApplied, WriteFill, Recorded
    <2>4. EngineInv' /\ Keeps
      BY <2>2, <2>3, HandlesFill
    <2> QED
      BY <1>6, <2>4, VenueIdle DEF Consume
  <1>7. CASE Reconnect
    <2>1. EngineInv' /\ Keeps
      BY <1>7, EngineStutters DEF Reconnect
    <2> QED
      BY <1>7, <2>1, VenueIdle DEF Reconnect
  <1>8. CASE Dies
    <2>1. EngineInv' /\ Keeps
      <3>1. CASE Crash
        BY <3>1, Crashes
      <3>2. CASE cursor < Len(executions) /\ CrashInFill(NextFill)
        <4>1. PICK f : f = NextFill
          OBVIOUS
        <4>2. Incoming(f)
          BY <3>2, <4>1, NextOfStream DEF Incoming
        <4>3. CrashInFill(f)
          BY <3>2, <4>1 DEF CrashInFill, WriteFill, Recorded
        <4> QED
          BY <4>2, <4>3, CrashesInFill
      <3> QED
        BY <1>8, <3>1, <3>2 DEF Dies
    <2> QED
      BY <1>8, <2>1, VenueIdle DEF Dies
  <1>9. CASE UNCHANGED vars
    <2>1. EngineInv' /\ Keeps
      BY <1>9, EngineStutters DEF vars
    <2> QED
      BY <1>9, <2>1, VenueIdle DEF vars
  <1> QED
    BY <1>1, <1>2, <1>3, <1>4, <1>5, <1>6, <1>7, <1>8, <1>9, CallSteps DEF Next

-----------------------------------------------------------------------------
\* The invariant holds throughout every session with a remote venue.
THEOREM RemoteInductive == Spec => []SessionInv
  <1>1. Init => SessionInv
    BY SessionInitial
  <1>2. SessionInv /\ [Next]_vars => SessionInv'
    BY SessionStep
  <1> QED
    BY <1>1, <1>2, PTL DEF Spec

\* The state of the engine and of the venue keeps its type.
THEOREM RemoteTypeCorrect == Spec => []TypeOK
  <1>1. SessionInv => TypeOK
    BY DEF SessionInv, EngineInv, VenueInv, TypeOK
  <1> QED
    BY <1>1, RemoteInductive, PTL

\* A key is dispatched once, however many calls are lost and repeated.
THEOREM RemoteSendsOnce == Spec => []AtMostOnceSend
  <1>1. SessionInv => AtMostOnceSend
    BY DEF SessionInv, EngineInv
  <1> QED
    BY <1>1, RemoteInductive, PTL

\* The position is the sum of the ledger, through replays, refused fills and
\* crashes at any point.
THEOREM RemoteLedger == Spec => []LedgerIsPosition
  <1>1. SessionInv => LedgerIsPosition
    BY DEF SessionInv, EngineInv
  <1> QED
    BY <1>1, RemoteInductive, PTL

\* What the broker has confirmed stands against late acks, fills and restarts.
THEOREM RemoteConfirmedStands == Spec => ConfirmedStands
  <1>1. SessionInv /\ [Next]_vars => [KeepsConfirmed]_vars
    BY SessionStep DEF Keeps
  <1> QED
    BY <1>1, RemoteInductive, PTL DEF Spec, ConfirmedStands

\* The same behind a network: lost replies, replays and restarts are nothing to
\* Trading, whatever the adapter answers.
THEOREM RemoteImplementsTrading == Spec => ImplementsTrading
  <1>1. Init => Promise!Init
    BY PromiseInitial DEF Init
  <1>2. SessionInv /\ [Next]_vars => [Promise!Next]_(Promise!tradingVars)
    BY SessionStep DEF Keeps, KeepsPromise, Promise!tradingVars
  <1> QED
    BY <1>1, <1>2, RemoteInductive, PTL DEF Spec, ImplementsTrading, Promise!Spec
-----------------------------------------------------------------------------
(***************************************************************************)
(* Why a trusted end is the venue's own.  What we hold of the broker's ids *)
(* are ids the venue has given to just that order, in the table, in memory *)
(* and on the wire, and a terminal answer to a query_order that named the  *)
(* order is still true when it is applied, however late: the venue's ends  *)
(* are for good.  A query put without an id is the one that may be         *)
(* answered of no order at all.                                            *)
(***************************************************************************)

\* The venue has given this id to this order, or nobody has given one.
Known(id, bid) == bid = None \/ \E a \in acks : a.bid = bid /\ a.order = id

TrustedReply(c) ==
  /\ Known(c.order, c.reply.bid)
  /\ c.op = "query_order" /\ c.bid # None /\ ~IsOpen(c.reply.status)
       => EndedAtVenue(c.order)

RowsTrusted ==
  \A id \in OrderIds :
    /\ orders[id] # None => Known(id, orders[id].bid)
    /\ dbOrders[id] # None => Known(id, dbOrders[id].bid)

CallsTrusted ==
  \A c \in wire : Known(c.order, c.bid) /\ (c.reply # None => TrustedReply(c))

\* Ids and keys tell the venue's orders apart, and a key leads to our order.
AcksApart ==
  \A a \in acks :
    /\ a.bid <= Cardinality(acks)
    /\ a.key = orders[a.order].key
    /\ \A b \in acks : a.bid = b.bid \/ a.key = b.key => a = b

ApartInv == SessionInv /\ AcksApart

TrustInv == ApartInv /\ RowsTrusted /\ CallsTrusted

\* Whatever the venue does, ids stay with their orders and ends stay ends.
AcksGoOn ==
  \A a \in acks : \E b \in acks' :
    b.bid = a.bid /\ b.order = a.order /\ (~IsOpen(a.status) => ~IsOpen(b.status))

LEMMA TrustGoesOn ==
  ASSUME AcksGoOn
  PROVE  /\ \A id, bid : Known(id, bid) => Known(id, bid)'
         /\ \A id : EndedAtVenue(id) => EndedAtVenue(id)'
BY DEF AcksGoOn, Known, EndedAtVenue

LEMMA RowsGoOn ==
  ASSUME TrustInv, AcksGoOn, UNCHANGED <<orders, dbOrders>>
  PROVE  RowsTrusted'
BY TrustGoesOn DEF TrustInv, RowsTrusted

LEMMA CallsGoOn ==
  ASSUME TrustInv, AcksGoOn
  PROVE  \A c \in wire : Known(c.order, c.bid)' /\ (c.reply # None => TrustedReply(c)')
BY TrustGoesOn DEF TrustInv, CallsTrusted, TrustedReply

LEMMA AcksStay ==
  ASSUME ApartInv, acks' = acks, Keeps
  PROVE  AcksGoOn /\ AcksApart'
  <1>1. AcksGoOn
    BY DEF AcksGoOn
  <1>2. \A a \in acks : a.order \in OrderIds /\ orders[a.order] # None
    BY DEF ApartInv, SessionInv, VenueInv, VenueTypeOK, VenueKnows, Ack
  <1>3. \A a \in acks : orders'[a.order].key = orders[a.order].key
    BY <1>2 DEF Keeps, KeepsKeys, Created
  <1> QED
    BY <1>1, <1>3 DEF ApartInv, AcksApart

\* An ack that is updated keeps its id and its key, so that it stays the only one.
LEMMA UpdatedApart ==
  ASSUME ApartInv, orders' = orders, NEW a \in acks, NEW b \in Ack, Update(a, b),
         b.bid = a.bid, b.key = a.key, b.order = a.order,
         ~IsOpen(a.status) => ~IsOpen(b.status)
  PROVE  AcksGoOn /\ AcksApart'
  <1>1. acks' = (acks \ {a}) \cup {b} /\ IsFiniteSet(acks)
    BY DEF Update, ApartInv, SessionInv, VenueInv, VenueKnows
  <1>2. b \notin acks \ {a}
    BY DEF ApartInv, AcksApart
  <1>3. Cardinality(acks') = Cardinality(acks)
    <2>1. /\ IsFiniteSet(acks \ {a})
          /\ Cardinality(acks \ {a}) = Cardinality(acks) - 1
      BY <1>1, FS_RemoveElement
    <2>2. Cardinality((acks \ {a}) \cup {b}) = Cardinality(acks \ {a}) + 1
      BY <1>2, <2>1, FS_AddElement
    <2>3. Cardinality(acks) \in Nat
      BY <1>1, FS_CardinalityType
    <2> QED
      BY <1>1, <2>1, <2>2, <2>3
  <1>4. AcksGoOn
    BY <1>1 DEF AcksGoOn
  <1>5. AcksApart'
    BY <1>1, <1>3 DEF ApartInv, AcksApart
  <1> QED
    BY <1>4, <1>5

LEMMA EndsApart ==
  ASSUME ApartInv, orders' = orders, NEW a \in acks, End(a)
  PROVE  AcksGoOn /\ AcksApart'
  <1> DEFINE b == [a EXCEPT !.status = "CANCELLED"]
  <1>1. a \in Ack
    BY DEF ApartInv, SessionInv, VenueInv, VenueTypeOK
  <1>2. /\ b \in Ack /\ b.bid = a.bid /\ b.key = a.key /\ b.order = a.order
        /\ ~IsOpen(b.status)
    BY <1>1 DEF Ack, Statuses, IsOpen, Terminal
  <1>3. Update(a, b)
    BY DEF End
  <1> HIDE DEF b
  <1> QED
    BY <1>2, <1>3, UpdatedApart

LEMMA ExecutesApart ==
  ASSUME ApartInv, orders' = orders, NEW a \in acks, Execute(a)
  PROVE  AcksGoOn /\ AcksApart'
  <1>1. a \in Ack /\ a.filled \in Nat /\ a.key \in Keys /\ QtyOf[a.key] \in Nat
    BY IntentsAssumption DEF ApartInv, SessionInv, VenueInv, VenueTypeOK, Ack
  <1>2. PICK qty \in 1 .. QtyOf[a.key] - a.filled, status \in {"FILLED", "PARTIALLY_FILLED"} :
          Update(a, [a EXCEPT !.status = status, !.filled = @ + qty])
    BY DEF Execute
  <1> DEFINE b == [a EXCEPT !.status = status, !.filled = @ + qty]
  <1>3. a.filled + qty \in Nat /\ status \in Statuses
    BY <1>1 DEF Statuses
  <1>4. b \in Ack /\ b.bid = a.bid /\ b.key = a.key /\ b.order = a.order
    BY <1>1, <1>3 DEF Ack
  <1>5. IsOpen(a.status)
    BY DEF Execute
  <1> HIDE DEF b
  <1> QED
    BY <1>2, <1>4, <1>5, UpdatedApart DEF b

LEMMA AcceptsApart ==
  ASSUME ApartInv, orders' = orders, NEW id \in OrderIds, orders[id] # None,
         Accept(orders[id].key, id)
  PROVE  /\ AcksGoOn /\ AcksApart'
         /\ AckOfKey(acks', orders[id].key) \in acks'
         /\ AckOfKey(acks', orders[id].key).order = id
  <1> DEFINE k == orders[id].key
  <1>1. IsFiniteSet(acks) /\ Cardinality(acks) \in Nat
    BY FS_CardinalityType DEF ApartInv, SessionInv, VenueInv, VenueKnows
  <1>2. \A b \in acks : b.bid \in Nat /\ b.order \in OrderIds /\ orders[b.order] # None
    BY DEF ApartInv, SessionInv, VenueInv, VenueTypeOK, VenueKnows, Ack
  <1>3. AcksGoOn /\ AcksApart' /\ \E b \in acks' : b.key = k
    <2>1. CASE KnowsKey(k)
      <3>1. acks' = acks
        BY <2>1 DEF Accept
      <3> QED
        BY <2>1, <3>1 DEF ApartInv, AcksApart, AcksGoOn, KnowsKey
    <2>2. CASE ~KnowsKey(k)
      <3> PICK status \in {"WORKING", "CANCELLED", "REJECTED"} :
             acks' = acks \cup {[bid |-> Cardinality(acks) + 1, key |-> k, order |-> id,
                                 status |-> status, filled |-> 0]}
        BY <2>2 DEF Accept
      <3> DEFINE a == [bid |-> Cardinality(acks) + 1, key |-> k, order |-> id,
                       status |-> status, filled |-> 0]
      <3>1. acks' = acks \cup {a}
        OBVIOUS
      <3>2. a \notin acks
        BY <2>2 DEF KnowsKey
      <3>3. Cardinality(acks') = Cardinality(acks) + 1
        BY <1>1, <3>1, <3>2, FS_AddElement
      <3>4. AcksGoOn
        BY <3>1 DEF AcksGoOn
      <3>5. AcksApart'
        <4>1. \A b \in acks : b.bid <= Cardinality(acks) /\ b.key # k
          BY <2>2 DEF ApartInv, AcksApart, KnowsKey
        <4>2. a.bid = Cardinality(acks) + 1 /\ a.key = k /\ a.key = orders[a.order].key
          OBVIOUS
        <4> HIDE DEF a, k
        <4> QED
          BY <1>1, <1>2, <3>1, <3>3, <4>1, <4>2 DEF ApartInv, AcksApart
      <3>6. a \in acks' /\ a.key = k
        BY <3>1
      <3> HIDE DEF a
      <3> QED
        BY <3>4, <3>5, <3>6
    <2> QED
      BY <2>1, <2>2
  <1>4. AckOfKey(acks', k) \in acks' /\ AckOfKey(acks', k).key = k
    BY <1>3 DEF AckOfKey
  <1>5. \A b \in acks' : b.order \in OrderIds /\ orders[b.order] # None
    BY <1>2 DEF Accept
  <1>6. AckOfKey(acks', k).order = id
    BY <1>3, <1>4, <1>5 DEF AcksApart, ApartInv, SessionInv, EngineInv, OneOrderPerKey
  <1> QED
    BY <1>3, <1>4, <1>6

\* An order of the table turns into p, with an id the venue has given it.
LEMMA RowChanges ==
  ASSUME TrustInv, acks' = acks,
         NEW id \in OrderIds, orders[id] # None, NEW p \in Order, Known(id, p.bid),
         orders' = [orders EXCEPT ![id] = p],
         dbOrders' = [dbOrders EXCEPT ![id] = p] \/ dbOrders' = dbOrders,
         wire' \subseteq wire
  PROVE  RowsTrusted' /\ CallsTrusted'
  <1>1. /\ orders \in [OrderIds -> Order \cup {None}]
        /\ dbOrders \in [OrderIds -> Order \cup {None}]
    BY DEF TrustInv, ApartInv, SessionInv, EngineInv, EngineTypeOK
  <1>2. (dbOrders[id] = None) <=> (orders[id] = None)
    BY DEF TrustInv, ApartInv, SessionInv, EngineInv, SavedOrders
  <1>3. AcksGoOn
    BY DEF AcksGoOn
  <1>4. \A i, bid : Known(i, bid) => Known(i, bid)'
    BY <1>3, TrustGoesOn
  <1>5. \A i \in OrderIds :
          /\ orders'[i] = IF i = id THEN p ELSE orders[i]
          /\ dbOrders'[i] = dbOrders[i] \/ (i = id /\ dbOrders'[i] = p)
    BY <1>1
  <1>6. RowsTrusted'
    BY <1>2, <1>4, <1>5 DEF TrustInv, RowsTrusted
  <1>7. CallsTrusted'
    BY <1>3, CallsGoOn DEF CallsTrusted
  <1> QED
    BY <1>6, <1>7

\* A reply is applied to its order.
LEMMA ResumesTrusting ==
  ASSUME TrustInv, acks' = acks, NEW c \in wire, SubmitEnd(c) \/ CancelEnd(c) \/ ConfirmEnd(c)
  PROVE  RowsTrusted' /\ CallsTrusted'
  <1> DEFINE id == c.order
             o  == orders[id]
  <1>1. c \in Call /\ id \in OrderIds /\ o # None /\ o \in Order /\ Sane(o)
    BY DEF TrustInv, ApartInv, SessionInv, EngineInv, EngineTypeOK, Call, CallsKnown, SavedOrders, Saved
  <1>2. c.reply \in Reply /\ c.reply.status \in Statuses /\ c.reply # None
    BY <1>1 DEF Call, Reply, SubmitEnd, CancelEnd, ConfirmEnd
  <1>3. Known(id, o.bid) /\ Known(id, c.reply.bid)
    BY <1>1, <1>2 DEF TrustInv, RowsTrusted, CallsTrusted, TrustedReply
  <1>4. wire' \subseteq wire
    BY DEF SubmitEnd, CancelEnd, ConfirmEnd
  <1>5. PICK p \in Order : /\ p.bid \in {o.bid, c.reply.bid}
                           /\ orders' = [orders EXCEPT ![id] = p]
                           /\ \/ dbOrders' = [dbOrders EXCEPT ![id] = orders'[id]]
                              \/ dbOrders' = dbOrders
    <2>1. CASE SubmitEnd(c)
      <3>1. PICK p : p = ApplyAck(o, c.reply).order
        OBVIOUS
      <3>2. p \in Order /\ p.bid \in {o.bid, c.reply.bid}
        BY <1>1, <1>2, <3>1, SoftApplyAck, AckKeepsTerms DEF Soft
      <3> QED
        BY <2>1, <3>1, <3>2 DEF SubmitEnd, SaveOrder, dbVars
    <2>2. CASE CancelEnd(c)
      <3>1. PICK p : p = CancelOutcome(o, c.reply).order
        OBVIOUS
      <3>2. p \in Order /\ p.bid = o.bid
        BY <1>1, <1>2, <3>1, SoftCancelOutcome, CancelKeepsTerms DEF Soft, CancelOutcome, Returned
      <3> QED
        BY <2>2, <3>1, <3>2 DEF CancelEnd, SaveOrder, dbVars
    <2>3. CASE ConfirmEnd(c)
      <3>1. PICK p : p = ConfirmTerminal(o, c.reply.status)
        OBVIOUS
      <3>2. p \in Order /\ p.bid = o.bid
        BY <1>1, <1>2, <3>1, VerdictIsSane, VerdictKeepsTerms
      <3> QED
        BY <2>3, <3>1, <3>2 DEF ConfirmEnd, SaveOrder
    <2> QED
      BY <2>1, <2>2, <2>3
  <1> HIDE DEF o, id
  <1>6. Known(id, p.bid)
    BY <1>3, <1>5
  <1>7. orders'[id] = p
    BY <1>1, <1>5 DEF TrustInv, ApartInv, SessionInv, EngineInv, EngineTypeOK
  <1> QED
    BY <1>1, <1>4, <1>5, <1>6, <1>7, RowChanges DEF o

\* A new order has no id yet, nor has the call that submits it.
LEMMA SubmitsTrusting ==
  ASSUME TrustInv, acks' = acks, NEW k \in Keys, SubmitBegin(k)
  PROVE  RowsTrusted' /\ CallsTrusted'
  <1> DEFINE id == CHOOSE new \in OrderIds \ Created : TRUE
             o  == [key |-> k, status |-> "NEW", qty |-> QtyOf[k],
                    filled |-> 0, confirmed |-> FALSE, bid |-> None]
             call == [op |-> "submit", order |-> id, bid |-> None, reply |-> None]
  <1>1. id \in OrderIds
    <2>1. OrderIds \ Created # {}
      BY DEF SubmitBegin
    <2> QED
      BY <2>1
  <1>2. /\ orders' = [orders EXCEPT ![id] = o]
        /\ dbOrders' = [dbOrders EXCEPT ![id] = orders'[id]]
        /\ wire' = wire \cup {call}
    BY DEF SubmitBegin, SaveOrder, Send
  <1>3. /\ orders \in [OrderIds -> Order \cup {None}]
        /\ dbOrders \in [OrderIds -> Order \cup {None}]
    BY DEF TrustInv, ApartInv, SessionInv, EngineInv, EngineTypeOK
  <1>4. \A i, bid : Known(i, bid) => Known(i, bid)'
    <2>1. AcksGoOn
      BY DEF AcksGoOn
    <2> QED
      BY <2>1, TrustGoesOn
  <1>5. Known(id, o.bid)
    BY DEF Known
  <1>6. PICK c : c = call
    OBVIOUS
  <1>7. Known(c.order, c.bid)' /\ c.reply = None
    BY <1>6 DEF Known
  <1> HIDE DEF id, o, call
  <1>8. \A i \in OrderIds :
          /\ orders'[i] = IF i = id THEN o ELSE orders[i]
          /\ dbOrders'[i] = IF i = id THEN o ELSE dbOrders[i]
    BY <1>1, <1>2, <1>3
  <1>9. RowsTrusted'
    BY <1>4, <1>5, <1>8 DEF TrustInv, RowsTrusted
  <1>10. CallsTrusted'
    <2>1. AcksGoOn
      BY DEF AcksGoOn
    <2> QED
      BY <1>2, <1>6, <1>7, <2>1, CallsGoOn DEF CallsTrusted
  <1> QED
    BY <1>9, <1>10

\* A fill leaves the broker's id of its order.
LEMMA FillsTrusting ==
  ASSUME TrustInv, acks' = acks, NEW f, Incoming(f), OnFill(f)
  PROVE  RowsTrusted' /\ CallsTrusted'
  <1> DEFINE id == f.order
             o  == orders[id]
             p  == ApplyFill(o, f.qty).order
  <1>1. EngineInv /\ Known(id, o.bid)
    BY DEF TrustInv, ApartInv, SessionInv, RowsTrusted, Incoming, Fill
  <1>2. /\ id \in OrderIds /\ o # None /\ o \in Order /\ f.qty \in Nat
        /\ p \in Order
    BY <1>1, IncomingFill DEF Incoming, Soft
  <1>3. p.bid = o.bid
    BY <1>2, FillKeepsTerms
  <1>4. CASE FillSeen(f)
    <2>1. UNCHANGED <<orders, dbOrders, wire>> /\ AcksGoOn
      BY <1>4 DEF FillSeen, engineVars, memoryVars, dbVars, AcksGoOn
    <2> QED
      BY <2>1, RowsGoOn, CallsGoOn DEF CallsTrusted
  <1>5. CASE FillRefused(f) \/ FillApplied(f)
    <2>1. /\ orders' = [orders EXCEPT ![id] = p] /\ wire' = wire
          /\ dbOrders' = [dbOrders EXCEPT ![id] = p] \/ dbOrders' = dbOrders
      BY <1>5 DEF FillRefused, FillApplied, WriteFill, dbVars
    <2> HIDE DEF p, o, id
    <2>2. Known(id, p.bid)
      BY <1>1, <1>3
    <2> QED
      BY <1>2, <2>1, <2>2, RowChanges DEF o
  <1> QED
    BY <1>4, <1>5 DEF OnFill

\* Memory takes the rows over, with nothing on the wire.
LEMMA RestartsTrusting ==
  ASSUME TrustInv, acks' = acks, Crash \/ \E f : Incoming(f) /\ CrashInFill(f)
  PROVE  RowsTrusted' /\ CallsTrusted'
  <1>1. orders' = dbOrders' /\ wire' = {}
    BY DEF Crash, CrashInFill, Restart, Load
  <1>2. \A i, bid : Known(i, bid) => Known(i, bid)'
    <2>1. AcksGoOn
      BY DEF AcksGoOn
    <2> QED
      BY <2>1, TrustGoesOn
  <1>3. \A i \in OrderIds : dbOrders'[i] # None => Known(i, dbOrders'[i].bid)
    <2>1. CASE dbOrders' = dbOrders
      BY <2>1 DEF TrustInv, RowsTrusted
    <2>2. CASE \E f : Incoming(f) /\ CrashInFill(f) /\ dbOrders' # dbOrders
      <3>1. PICK f : Incoming(f) /\ CrashInFill(f) /\ dbOrders' # dbOrders
        BY <2>2
      <3> DEFINE id == f.order
                 o  == orders[id]
                 p  == ApplyFill(o, f.qty).order
      <3>2. EngineInv /\ Known(id, o.bid)
        BY <3>1 DEF TrustInv, ApartInv, SessionInv, RowsTrusted, Incoming, Fill
      <3>3. /\ id \in OrderIds /\ o \in Order /\ f.qty \in Nat
            /\ p \in Order
        BY <3>1, <3>2, IncomingFill DEF Soft
      <3>4. p.bid = o.bid
        BY <3>3, FillKeepsTerms
      <3>5. dbOrders' = [dbOrders EXCEPT ![id] = p]
        BY <3>1 DEF CrashInFill, WriteFill
      <3> HIDE DEF p, o, id
      <3>6. Known(id, p.bid)
        BY <3>2, <3>4
      <3>7. dbOrders \in [OrderIds -> Order \cup {None}]
        BY <3>2 DEF EngineInv, EngineTypeOK
      <3> QED
        BY <3>3, <3>5, <3>6, <3>7 DEF TrustInv, RowsTrusted
    <2> QED
      BY <2>1, <2>2 DEF Crash, dbVars
  <1> QED
    BY <1>1, <1>2, <1>3 DEF RowsTrusted, CallsTrusted

\* Every step of the session keeps what trust rests on.
LEMMA TrustStep ==
  ASSUME TrustInv, [Next]_vars
  PROVE  TrustInv' /\ AcksGoOn
  <1> ApartInv
    BY DEF TrustInv
  <1>1. SessionInv' /\ Keeps
    BY SessionStep DEF TrustInv, ApartInv
  <1>2. SUFFICES AcksGoOn /\ AcksApart' /\ RowsTrusted' /\ CallsTrusted'
    BY <1>1 DEF TrustInv, ApartInv
  <1>3. ASSUME acks' = acks, RowsTrusted', CallsTrusted'
        PROVE  AcksGoOn /\ AcksApart' /\ RowsTrusted' /\ CallsTrusted'
    BY <1>1, <1>3, AcksStay
  <1>4. ASSUME AcksGoOn, AcksApart', UNCHANGED <<orders, dbOrders>>, wire' \subseteq wire
        PROVE  AcksGoOn /\ AcksApart' /\ RowsTrusted' /\ CallsTrusted'
    BY <1>4, RowsGoOn, CallsGoOn DEF CallsTrusted
  <1>5. ASSUME UNCHANGED <<acks, orders, dbOrders>>, wire' \subseteq wire
        PROVE  AcksGoOn /\ AcksApart' /\ RowsTrusted' /\ CallsTrusted'
    BY <1>1, <1>4, <1>5, AcksStay
  <1>6. ASSUME NEW c \in wire, NEW reply, Answer(c, reply), AcksGoOn, AcksApart',
               UNCHANGED <<orders, dbOrders>>,
               Known(c.order, reply.bid)',
               c.op = "query_order" /\ c.bid # None /\ ~IsOpen(reply.status)
                 => EndedAtVenue(c.order)'
        PROVE  AcksGoOn /\ AcksApart' /\ RowsTrusted' /\ CallsTrusted'
    <2>1. c \in Call
      BY DEF TrustInv, ApartInv, SessionInv, EngineInv, EngineTypeOK
    <2>2. PICK d : d = [c EXCEPT !.reply = reply]
      OBVIOUS
    <2>3. d.order = c.order /\ d.bid = c.bid /\ d.op = c.op /\ d.reply = reply
      BY <2>1, <2>2 DEF Call
    <2>4. Known(d.order, d.bid)' /\ TrustedReply(d)'
      BY <1>6, <2>3, CallsGoOn DEF TrustedReply
    <2>5. wire' = (wire \ {c}) \cup {d}
      BY <1>6, <2>2 DEF Answer
    <2>6. CallsTrusted'
      BY <1>6, <2>4, <2>5, CallsGoOn DEF CallsTrusted
    <2> QED
      BY <1>6, <2>6, RowsGoOn
  <1>7. ASSUME NEW k \in Keys, Submit(k)
        PROVE  AcksGoOn /\ AcksApart' /\ RowsTrusted' /\ CallsTrusted'
    <2>1. acks' = acks
      BY <1>7 DEF Submit, venueVars
    <2>2. CASE SubmitOversell(k) \/ SubmitKnown(k)
      BY <1>5, <2>1, <2>2 DEF SubmitOversell, SubmitKnown, memoryVars, dbVars
    <2>3. CASE SubmitBegin(k)
      BY <1>3, <2>1, <2>3, SubmitsTrusting
    <2> QED
      BY <1>7, <2>2, <2>3 DEF Submit
  <1>8. ASSUME NEW id \in OrderIds, Cancel(id) \/ Confirm(id)
        PROVE  AcksGoOn /\ AcksApart' /\ RowsTrusted' /\ CallsTrusted'
    <2>1. UNCHANGED <<acks, orders, dbOrders>> /\ orders[id] # None
      BY <1>8 DEF Cancel, Confirm, CancelBegin, ConfirmBegin, venueVars, memoryVars, dbVars,
                  Created
    <2>2. PICK op : wire' = wire \cup {[op |-> op, order |-> id, bid |-> orders[id].bid,
                                        reply |-> None]}
      BY <1>8 DEF Cancel, Confirm, CancelBegin, ConfirmBegin, Send
    <2> DEFINE call == [op |-> op, order |-> id, bid |-> orders[id].bid, reply |-> None]
    <2>3. PICK c : /\ wire' = wire \cup {c} /\ c.reply = None
                   /\ c.order = id /\ c.bid = orders[id].bid
      <3>1. call.reply = None /\ call.order = id /\ call.bid = orders[id].bid
        OBVIOUS
      <3> HIDE DEF call
      <3> QED
        BY <2>2, <3>1 DEF call
    <2>4. AcksGoOn /\ AcksApart'
      BY <1>1, <2>1, AcksStay
    <2>5. Known(c.order, c.bid)
      BY <2>1, <2>3 DEF TrustInv, RowsTrusted
    <2>6. Known(c.order, c.bid)'
      BY <2>4, <2>5, TrustGoesOn
    <2>7. CallsTrusted'
      BY <2>3, <2>4, <2>6, CallsGoOn DEF CallsTrusted
    <2> QED
      BY <2>1, <2>4, <2>7, RowsGoOn
  <1>9. CASE Report
    BY <1>5, <1>9 DEF Report, ReportBegin, venueVars, memoryVars, dbVars
  <1>10. ASSUME NEW c \in wire, VenueSubmit(c)
         PROVE  AcksGoOn /\ AcksApart' /\ RowsTrusted' /\ CallsTrusted'
    <2> DEFINE id == c.order
    <2>1. id \in OrderIds /\ orders[id] # None
      BY DEF TrustInv, ApartInv, SessionInv, EngineInv, EngineTypeOK, CallsKnown, Call
    <2>2. UNCHANGED <<orders, dbOrders>> /\ Accept(orders[id].key, id) /\ c.op = "submit"
      BY <1>10 DEF VenueSubmit, EngineIdle, memoryVars, dbVars
    <2>3. PICK reply : reply = [bid |-> AckOfKey(acks', orders[id].key).bid,
                                status |-> AckOfKey(acks', orders[id].key).status]
      OBVIOUS
    <2>4. Answer(c, reply)
      BY <1>10, <2>3 DEF VenueSubmit, Answer
    <2> HIDE DEF id
    <2>5. /\ AcksGoOn /\ AcksApart'
          /\ AckOfKey(acks', orders[id].key) \in acks'
          /\ AckOfKey(acks', orders[id].key).order = id
      BY <2>1, <2>2, AcceptsApart
    <2>6. Known(c.order, reply.bid)'
      BY <2>3, <2>5 DEF Known, id
    <2> QED
      BY <1>6, <2>2, <2>4, <2>5, <2>6
  <1>11. ASSUME NEW c \in wire, VenueCancel(c)
         PROVE  AcksGoOn /\ AcksApart' /\ RowsTrusted' /\ CallsTrusted'
    <2>1. UNCHANGED <<orders, dbOrders>> /\ CancelAtVenue(c.bid) /\ c.op = "cancel"
      BY <1>11 DEF VenueCancel, EngineIdle, memoryVars, dbVars
    <2>2. AcksGoOn /\ AcksApart'
      <3>1. CASE KnowsBid(c.bid) /\ End(AckOfBid(c.bid))
        <4>1. PICK a \in acks : a = AckOfBid(c.bid)
          BY <3>1 DEF KnowsBid, AckOfBid
        <4>2. End(a)
          BY <3>1, <4>1 DEF End, Update
        <4> QED
          BY <2>1, <4>2, EndsApart
      <3>2. CASE UNCHANGED venueVars
        BY <1>1, <3>2, AcksStay DEF venueVars
      <3> QED
        BY <2>1, <3>1, <3>2 DEF CancelAtVenue
    <2>3. PICK reply : reply = [bid |-> c.bid, status |-> StatusOf(c.bid)']
      OBVIOUS
    <2>4. Answer(c, reply)
      BY <1>11, <2>3 DEF VenueCancel, Answer
    <2>5. Known(c.order, c.bid)'
      BY <2>2, CallsGoOn
    <2> QED
      BY <1>6, <2>1, <2>2, <2>3, <2>4, <2>5
  <1>12. ASSUME NEW c \in wire, VenueQuery(c)
         PROVE  AcksGoOn /\ AcksApart' /\ RowsTrusted' /\ CallsTrusted'
    <2>1. UNCHANGED <<acks, orders, dbOrders>>
      BY <1>12 DEF VenueQuery, EngineIdle, memoryVars, dbVars, venueVars
    <2>2. AcksGoOn /\ AcksApart'
      BY <1>1, <2>1, AcksStay
    <2>3. PICK reply : reply = [bid |-> c.bid, status |-> StatusOf(c.bid)]
      OBVIOUS
    <2>4. Answer(c, reply)
      BY <1>12, <2>3 DEF VenueQuery, Answer
    <2>5. Known(c.order, c.bid) /\ Known(c.order, c.bid)'
      BY <2>2, CallsGoOn DEF TrustInv, CallsTrusted
    <2>6. c.bid # None /\ ~IsOpen(reply.status) => EndedAtVenue(c.order)
      <3> SUFFICES ASSUME c.bid # None, ~IsOpen(reply.status) PROVE EndedAtVenue(c.order)
        OBVIOUS
      <3>1. PICK a \in acks : a.bid = c.bid /\ a.order = c.order
        BY <2>5 DEF Known
      <3>2. AckOfBid(c.bid) = a /\ KnowsBid(c.bid)
        BY <3>1 DEF AckOfBid, KnowsBid, TrustInv, ApartInv, AcksApart
      <3> QED
        BY <2>3, <3>1, <3>2 DEF EndedAtVenue, StatusOf
    <2>7. c.bid # None /\ ~IsOpen(reply.status) => EndedAtVenue(c.order)'
      BY <2>2, <2>6, TrustGoesOn
    <2> QED
      BY <1>6, <2>1, <2>2, <2>3, <2>4, <2>5, <2>7
  <1>13. ASSUME NEW c \in wire, Resume(c) \/ Lose(c)
         PROVE  AcksGoOn /\ AcksApart' /\ RowsTrusted' /\ CallsTrusted'
    <2>1. acks' = acks
      BY <1>13 DEF Resume, Lose, venueVars
    <2>2. CASE Resume(c)
      BY <1>3, <2>1, <2>2, ResumesTrusting DEF Resume
    <2>3. CASE Lose(c)
      BY <1>5, <2>1, <2>3 DEF Lose, CallRaises, memoryVars, dbVars
    <2> QED
      BY <1>13, <2>2, <2>3
  <1>14. ASSUME NEW r \in Readers, VenueSnapshot(r) \/ LoseSnapshot(r) \/ Reconciles(r)
         PROVE  AcksGoOn /\ AcksApart' /\ RowsTrusted' /\ CallsTrusted'
    BY <1>5, <1>14 DEF VenueSnapshot, LoseSnapshot, Reconciles, SnapshotAnswered, SnapshotRaises,
                       Reconcile, venueVars, memoryVars, dbVars
  <1>15. ASSUME NEW a \in acks, Executes(a) \/ Expires(a)
         PROVE  AcksGoOn /\ AcksApart' /\ RowsTrusted' /\ CallsTrusted'
    <2>1. UNCHANGED <<orders, dbOrders, wire>>
      BY <1>15 DEF Executes, Expires, engineVars, memoryVars, dbVars
    <2>2. AcksGoOn /\ AcksApart'
      BY <1>15, <2>1, ExecutesApart, EndsApart DEF Executes, Expires
    <2> QED
      BY <1>4, <2>1, <2>2
  <1>16. CASE Consume
    <2>1. PICK f : f = NextFill
      OBVIOUS
    <2>2. Incoming(f)
      BY <1>16, <2>1, NextOfStream DEF Consume, Deliver, Incoming, TrustInv, ApartInv
    <2>3. OnFill(f)
      BY <1>16, <2>1 DEF Consume, OnFill, FillSeen, FillRefused, FillApplied, WriteFill, Recorded
    <2>4. acks' = acks
      BY <1>16 DEF Consume, Deliver
    <2> QED
      BY <1>3, <2>2, <2>3, <2>4, FillsTrusting
  <1>17. CASE Reconnect \/ UNCHANGED vars
    BY <1>5, <1>17 DEF Reconnect, Replay, vars, engineVars, memoryVars, dbVars, venueVars
  <1>18. CASE Dies
    <2>1. acks' = acks
      BY <1>18 DEF Dies, Replay, venueVars
    <2>2. Crash \/ \E f : Incoming(f) /\ CrashInFill(f)
      <3>1. PICK f : f = NextFill
        OBVIOUS
      <3>2. CASE cursor < Len(executions) /\ CrashInFill(NextFill)
        <4>1. Incoming(f)
          BY <3>1, <3>2, NextOfStream DEF Incoming, TrustInv, ApartInv
        <4>2. CrashInFill(f)
          BY <3>1, <3>2 DEF CrashInFill, WriteFill, Recorded
        <4> QED
          BY <4>1, <4>2
      <3> QED
        BY <1>18, <3>2 DEF Dies
    <2> QED
      BY <1>3, <2>1, <2>2, RestartsTrusting
  <1> QED
    BY <1>7, <1>8, <1>9, <1>10, <1>11, <1>12, <1>13, <1>14, <1>15, <1>16, <1>17, <1>18
    DEF Next

LEMMA TrustInitial == Init => TrustInv
  <1> SUFFICES ASSUME Init PROVE TrustInv
    OBVIOUS
  <1>1. SessionInv
    BY SessionInitial
  <1>2. AcksApart /\ RowsTrusted /\ CallsTrusted
    BY DEF Init, EngineInit, VenueInit, AcksApart, RowsTrusted, CallsTrusted
  <1> QED
    BY <1>1, <1>2 DEF TrustInv, ApartInv

\* Only the answer to a query_order calls an end broker-confirmed: acks, fills and
\* restarts never do.
LEMMA OnlyAnswersConfirm ==
  ASSUME TrustInv, [Next]_vars, NEW id \in OrderIds,
         orders'[id] # None, orders'[id].confirmed
  PROVE  \/ orders[id] # None /\ orders[id].confirmed
         \/ \E c \in wire : ConfirmEnd(c) /\ c.order = id /\ ~IsOpen(c.reply.status)
  <1> DEFINE Before == orders[id] # None /\ orders[id].confirmed
  <1>1. /\ EngineInv /\ SessionInv
        /\ orders \in [OrderIds -> Order \cup {None}]
        /\ dbOrders \in [OrderIds -> Order \cup {None}]
    BY DEF TrustInv, ApartInv, SessionInv, EngineInv, EngineTypeOK
  <1>2. CASE orders' = orders
    BY <1>2
  <1>3. ASSUME NEW i \in OrderIds, NEW p, orders' = [orders EXCEPT ![i] = p],
               orders[i] # None, p.confirmed => orders[i].confirmed
        PROVE  Before
    <2>1. orders'[id] = IF id = i THEN p ELSE orders[id]
      BY <1>1, <1>3
    <2> QED
      BY <1>3, <2>1
  <1>4. ASSUME NEW k \in Keys, Submit(k)
        PROVE  Before
    <2>1. CASE SubmitOversell(k) \/ SubmitKnown(k)
      BY <2>1 DEF SubmitOversell, SubmitKnown, memoryVars
    <2>2. CASE SubmitBegin(k)
      <3> DEFINE i == CHOOSE new \in OrderIds \ Created : TRUE
                 o == [key |-> k, status |-> "NEW", qty |-> QtyOf[k],
                       filled |-> 0, confirmed |-> FALSE, bid |-> None]
      <3>1. orders' = [orders EXCEPT ![i] = o] /\ ~o.confirmed
        BY <2>2 DEF SubmitBegin
      <3> HIDE DEF i, o
      <3>2. orders'[id] = o \/ orders'[id] = orders[id]
        BY <1>1, <3>1
      <3> QED
        BY <3>1, <3>2
    <2> QED
      BY <1>4, <2>1, <2>2 DEF Submit
  <1>5. ASSUME NEW c \in wire, Resume(c)
        PROVE  Before \/ (ConfirmEnd(c) /\ c.order = id /\ ~IsOpen(c.reply.status))
    <2> DEFINE o == orders[c.order]
    <2>1. c \in Call /\ c.order \in OrderIds /\ o # None /\ o \in Order /\ Sane(o)
      BY <1>1 DEF EngineInv, EngineTypeOK, Call, CallsKnown, SavedOrders, Saved
    <2>2. c.reply \in Reply /\ c.reply.status \in Statuses
      BY <1>5, <2>1 DEF Resume, Call, Reply, SubmitEnd, CancelEnd, ConfirmEnd
    <2>3. CASE SubmitEnd(c)
      <3>1. PICK p : p = ApplyAck(o, c.reply).order
        OBVIOUS
      <3>2. p.confirmed = o.confirmed
        BY <2>1, <2>2, <3>1, SoftApplyAck DEF Soft
      <3> QED
        BY <1>3, <2>1, <2>3, <3>1, <3>2 DEF SubmitEnd
    <2>4. CASE CancelEnd(c)
      <3>1. PICK p : p = CancelOutcome(o, c.reply).order
        OBVIOUS
      <3>2. p.confirmed = o.confirmed
        BY <2>1, <2>2, <3>1, SoftCancelOutcome DEF Soft
      <3> QED
        BY <1>3, <2>1, <2>4, <3>1, <3>2 DEF CancelEnd
    <2>5. CASE ConfirmEnd(c)
      <3>1. PICK p : p = ConfirmTerminal(o, c.reply.status)
        OBVIOUS
      <3>2. p.confirmed => o.confirmed \/ ~IsOpen(c.reply.status)
        BY <2>1, <2>2, <3>1 DEF ConfirmTerminal, Order
      <3>3. orders' = [orders EXCEPT ![c.order] = p]
        BY <2>5, <3>1 DEF ConfirmEnd
      <3>4. CASE c.order = id
        BY <1>1, <2>1, <2>5, <3>2, <3>3, <3>4
      <3>5. CASE c.order # id
        BY <1>1, <3>3, <3>5
      <3> QED
        BY <3>4, <3>5
    <2> QED
      BY <1>5, <2>3, <2>4, <2>5 DEF Resume
  <1>6. CASE Consume
    <2>1. PICK f : f = NextFill
      OBVIOUS
    <2>2. Incoming(f)
      BY <1>1, <1>6, <2>1, NextOfStream DEF Consume, Deliver, Incoming
    <2>3. OnFill(f)
      BY <1>6, <2>1 DEF Consume, OnFill, FillSeen, FillRefused, FillApplied, WriteFill, Recorded
    <2>4. CASE FillSeen(f)
      BY <2>4 DEF FillSeen, engineVars, memoryVars
    <2>5. CASE FillRefused(f) \/ FillApplied(f)
      <3>1. PICK p : p = ApplyFill(orders[f.order], f.qty).order
        OBVIOUS
      <3>2. f.order \in OrderIds /\ orders[f.order] # None /\ p.confirmed = orders[f.order].confirmed
        BY <1>1, <2>2, <3>1, IncomingFill DEF Incoming, Soft
      <3>3. orders' = [orders EXCEPT ![f.order] = p]
        BY <2>5, <3>1 DEF FillRefused, FillApplied
      <3> QED
        BY <1>3, <3>2, <3>3
    <2> QED
      BY <2>3, <2>4, <2>5 DEF OnFill
  <1>7. CASE Dies
    <2>1. orders' = dbOrders'
      BY <1>7 DEF Dies, Crash, CrashInFill, Restart, Load
    <2>2. \A i \in OrderIds : /\ orders[i] = None <=> dbOrders[i] = None
                              /\ orders[i] # None => (orders[i].confirmed <=> dbOrders[i].confirmed)
      BY <1>1 DEF EngineInv, SavedOrders, Saved
    <2>3. CASE dbOrders' = dbOrders
      BY <2>1, <2>2, <2>3
    <2>4. CASE cursor < Len(executions) /\ CrashInFill(NextFill) /\ dbOrders' # dbOrders
      <3>1. PICK f : f = NextFill
        OBVIOUS
      <3>2. Incoming(f)
        BY <1>1, <2>4, <3>1, NextOfStream DEF Incoming
      <3>3. PICK p : p = ApplyFill(orders[f.order], f.qty).order
        OBVIOUS
      <3>4. f.order \in OrderIds /\ orders[f.order] # None /\ p.confirmed = orders[f.order].confirmed
        BY <1>1, <3>2, <3>3, IncomingFill DEF Incoming, Soft
      <3>5. dbOrders' = [dbOrders EXCEPT ![f.order] = p]
        BY <2>4, <3>1, <3>3 DEF CrashInFill, WriteFill
      <3>6. dbOrders'[id] = IF id = f.order THEN p ELSE dbOrders[id]
        BY <1>1, <3>5
      <3> QED
        BY <2>1, <2>2, <3>4, <3>6
    <2> QED
      BY <1>7, <2>3, <2>4 DEF Dies, Crash, dbVars
  <1>8. ASSUME NEW c \in wire, VenueSubmit(c) \/ VenueCancel(c) \/ VenueQuery(c) \/ Lose(c)
        PROVE  Before
    BY <1>8 DEF VenueSubmit, VenueCancel, VenueQuery, Lose, CallRaises, EngineIdle, memoryVars
  <1>9. ASSUME NEW i \in OrderIds, Cancel(i) \/ Confirm(i)
        PROVE  Before
    BY <1>9 DEF Cancel, Confirm, CancelBegin, ConfirmBegin, memoryVars
  <1>10. ASSUME NEW r \in Readers, VenueSnapshot(r) \/ LoseSnapshot(r) \/ Reconciles(r)
         PROVE  Before
    BY <1>10 DEF VenueSnapshot, LoseSnapshot, Reconciles, SnapshotAnswered, SnapshotRaises,
                 Reconcile, memoryVars
  <1>11. ASSUME NEW a \in acks, Executes(a) \/ Expires(a)
         PROVE  Before
    BY <1>11 DEF Executes, Expires, engineVars, memoryVars
  <1>12. CASE Report \/ Reconnect \/ UNCHANGED vars
    BY <1>12 DEF Report, ReportBegin, Reconnect, vars, engineVars, memoryVars
  <1> QED
    BY <1>4, <1>5, <1>6, <1>7, <1>8, <1>9, <1>10, <1>11, <1>12 DEF Next

\* An end that our table comes to call broker-confirmed is an end at the venue, so
\* that no order we write off can still execute there, whatever was lost, late,
\* replayed or restarted.  The one order that can is one for which confirm_order was
\* called before its ack: the question has no id, and an adapter that answers it
\* REJECTED, as the mock does (mock.py:178-183), is believed.
THEOREM RemoteTrust == Spec => TrustIsTheVenues
  <1> DEFINE Trusted ==
        \A id \in OrderIds : Misjudged(id)' => Misjudged(id) \/ AskedWithoutId(id)
  <1>1. Init => TrustInv
    BY TrustInitial
  <1>2. TrustInv /\ [Next]_vars => TrustInv'
    BY TrustStep
  <1>3. TrustInv /\ [Next]_vars => [Trusted]_vars
    <2> SUFFICES ASSUME TrustInv, [Next]_vars, NEW id \in OrderIds, Misjudged(id)',
                        ~AskedWithoutId(id)
                 PROVE  Misjudged(id)
      OBVIOUS
    <2>1. ~EndedAtVenue(id)
      BY TrustStep, TrustGoesOn DEF Misjudged
    <2>2. ASSUME NEW c \in wire, ConfirmEnd(c), c.order = id, ~IsOpen(c.reply.status)
          PROVE  FALSE
      <3>1. c.op = "query_order" /\ c.reply # None
        BY <2>2 DEF ConfirmEnd
      <3>2. c.bid # None
        BY <2>2, <3>1 DEF AskedWithoutId
      <3>3. TrustedReply(c)
        BY <3>1 DEF TrustInv, CallsTrusted
      <3> QED
        BY <2>1, <2>2, <3>1, <3>2, <3>3 DEF TrustedReply
    <2> QED
      BY <2>1, <2>2, OnlyAnswersConfirm DEF Misjudged
  <1> QED
    BY <1>1, <1>2, <1>3, PTL DEF Spec, TrustIsTheVenues
-----------------------------------------------------------------------------
(***************************************************************************)
(* Why a refused execution always has a reason.  What the ledger has of an *)
(* order and the execution that is new come from the venue's stream, which *)
(* never executes more of an order than was ordered.  So an order without  *)
(* the broker's word has room for it, unless it has counted what is not in *)
(* the ledger; and the table of transitions refuses it only while it is    *)
(* NEW.                                                                    *)
(***************************************************************************)

\* All that the venue has executed, wherever our subscription is.
Stream == {executions[i] : i \in 1 .. Len(executions)}

\* Executions are told apart by their ids.
Numbered == \A i \in 1 .. Len(executions) : executions[i].exec = i

\* What the venue has executed of an order is what it says, within the order.
AcksCount ==
  \A a \in acks :
    a.filled <= QtyOf[a.key] /\ Executed(RowsOf(Stream, a.order)) = a.filled

StreamAcked == \A f \in Stream : \E a \in acks : a.order = f.order

LedgerStreamed == dbFills \subseteq Stream

\* An order is for its intent's quantity, and only an end it has reached by
\* fills, or a cancel, is believed without the broker's word.
WholeRow(o) == Coherent(o) /\ o.qty = QtyOf[o.key]

RowsWhole ==
  \A id \in OrderIds :
    /\ orders[id] # None => WholeRow(orders[id])
    /\ dbOrders[id] # None => WholeRow(dbOrders[id])

VenueCounts == Numbered /\ AcksCount /\ StreamAcked

RefusalInv == ApartInv /\ VenueCounts /\ LedgerStreamed /\ RowsWhole

LEMMA StreamIsFinite ==
  ASSUME SessionInv
  PROVE  Stream \in SUBSET Fill /\ IsFiniteSet(Stream)
  <1>1. executions \in Seq(Fill) /\ Len(executions) \in Nat
    BY DEF SessionInv, VenueInv, VenueTypeOK
  <1>2. IsFiniteSet(1 .. Len(executions))
    BY <1>1, FS_Interval
  <1> DEFINE place == [i \in 1 .. Len(executions) |-> executions[i]]
  <1>3. place \in Surjection(1 .. Len(executions), Stream)
    BY DEF Surjection, Stream
  <1>4. IsFiniteSet(Stream)
    BY <1>2, <1>3, FS_Surjection
  <1> QED
    BY <1>1, <1>4 DEF Stream

LEMMA PartOfStream ==
  ASSUME SessionInv, NEW id
  PROVE  RowsOf(Stream, id) \in SUBSET Fill /\ IsFiniteSet(RowsOf(Stream, id))
BY StreamIsFinite, FS_Subset DEF RowsOf

LEMMA SameExecution ==
  ASSUME Numbered, NEW f \in Stream, NEW g \in Stream, f.exec = g.exec
  PROVE  f = g
BY DEF Numbered, Stream

\* The venue executes, ends or accepts an order while our process stands still,
\* or stands still itself.
VenueMoves ==
  /\ UNCHANGED <<memoryVars, dbVars>>
  /\ \/ \E a \in acks : End(a) \/ Execute(a)
     \/ \E id \in OrderIds : orders[id] # None /\ Accept(orders[id].key, id)

LEMMA OneMoves ==
  ASSUME SessionInv, [Next]_vars
  PROVE  UNCHANGED <<acks, executions>> \/ VenueMoves
  <1> USE DEF venueVars
  <1>1. ASSUME NEW k \in Keys, Submit(k)
        PROVE  UNCHANGED <<acks, executions>>
    BY <1>1 DEF Submit
  <1>2. ASSUME NEW id \in OrderIds, Cancel(id) \/ Confirm(id)
        PROVE  UNCHANGED <<acks, executions>>
    BY <1>2 DEF Cancel, Confirm
  <1>3. ASSUME NEW c \in wire, VenueSubmit(c)
        PROVE  VenueMoves
    <2>1. c.order \in OrderIds /\ orders[c.order] # None
      BY DEF SessionInv, EngineInv, EngineTypeOK, CallsKnown, Call
    <2>2. PICK id \in OrderIds : id = c.order
      BY <2>1
    <2>3. Accept(orders[id].key, id) /\ UNCHANGED <<memoryVars, dbVars>>
      BY <1>3, <2>2 DEF VenueSubmit, EngineIdle
    <2> QED
      BY <2>1, <2>2, <2>3 DEF VenueMoves
  <1>4. ASSUME NEW c \in wire, VenueCancel(c)
        PROVE  UNCHANGED <<acks, executions>> \/ VenueMoves
    <2>1. UNCHANGED <<memoryVars, dbVars>> /\ CancelAtVenue(c.bid)
      BY <1>4 DEF VenueCancel, EngineIdle
    <2>2. CASE KnowsBid(c.bid) /\ End(AckOfBid(c.bid))
      <3>1. PICK a \in acks : a = AckOfBid(c.bid)
        BY <2>2 DEF KnowsBid, AckOfBid
      <3>2. End(a)
        BY <2>2, <3>1 DEF End, Update
      <3> QED
        BY <2>1, <3>2 DEF VenueMoves
    <2> QED
      BY <2>1, <2>2 DEF CancelAtVenue
  <1>5. ASSUME NEW c \in wire, VenueQuery(c) \/ Resume(c) \/ Lose(c)
        PROVE  UNCHANGED <<acks, executions>>
    BY <1>5 DEF VenueQuery, Resume, Lose
  <1>6. ASSUME NEW r \in Readers, VenueSnapshot(r) \/ LoseSnapshot(r) \/ Reconciles(r)
        PROVE  UNCHANGED <<acks, executions>>
    BY <1>6 DEF VenueSnapshot, LoseSnapshot, Reconciles
  <1>7. ASSUME NEW a \in acks, Executes(a) \/ Expires(a)
        PROVE  VenueMoves
    BY <1>7 DEF Executes, Expires, engineVars, VenueMoves
  <1>8. CASE Report \/ Consume \/ Reconnect \/ Dies \/ UNCHANGED vars
    BY <1>8 DEF Report, Consume, Deliver, Reconnect, Replay, Dies, vars
  <1> QED
    BY <1>1, <1>2, <1>3, <1>4, <1>5, <1>6, <1>7, <1>8 DEF Next

\* An order that ends keeps its count.
LEMMA EndsCounted ==
  ASSUME ApartInv, VenueCounts, NEW a \in acks, End(a)
  PROVE  VenueCounts' /\ Stream' = Stream
  <1> DEFINE b == [a EXCEPT !.status = "CANCELLED"]
  <1>1. acks' = (acks \ {a}) \cup {b} /\ UNCHANGED executions /\ a \in Ack
    BY DEF End, Update, ApartInv, SessionInv, VenueInv, VenueTypeOK
  <1>2. b.order = a.order /\ b.key = a.key /\ b.filled = a.filled
    BY <1>1 DEF Ack
  <1> HIDE DEF b
  <1>3. Stream' = Stream
    BY <1>1 DEF Stream
  <1>4. AcksCount' /\ StreamAcked' /\ Numbered'
    BY <1>1, <1>2, <1>3 DEF VenueCounts, AcksCount, StreamAcked, Numbered
  <1> QED
    BY <1>3, <1>4 DEF VenueCounts

\* A new order has executed nothing.
LEMMA AcceptsCounted ==
  ASSUME ApartInv, VenueCounts, NEW id \in OrderIds, orders[id] # None,
         Accept(orders[id].key, id)
  PROVE  VenueCounts' /\ Stream' = Stream
  <1> DEFINE k == orders[id].key
  <1>1. UNCHANGED executions
    BY DEF Accept
  <1>2. Stream' = Stream
    BY <1>1 DEF Stream
  <1>3. CASE KnowsKey(k)
    <2>1. acks' = acks
      BY <1>3 DEF Accept
    <2> QED
      BY <1>1, <1>2, <2>1 DEF VenueCounts, AcksCount, StreamAcked, Numbered
  <1>4. CASE ~KnowsKey(k)
    <2> PICK status \in {"WORKING", "CANCELLED", "REJECTED"} :
           acks' = acks \cup {[bid |-> Cardinality(acks) + 1, key |-> k, order |-> id,
                               status |-> status, filled |-> 0]}
      BY <1>4 DEF Accept
    <2> DEFINE a == [bid |-> Cardinality(acks) + 1, key |-> k, order |-> id,
                     status |-> status, filled |-> 0]
    <2>1. acks' = acks \cup {a}
      OBVIOUS
    <2>2. \A b \in acks : b.order # id
      BY <1>4 DEF ApartInv, AcksApart, KnowsKey
    <2>3. RowsOf(Stream, id) = {}
      BY <2>2 DEF VenueCounts, StreamAcked, RowsOf
    <2>4. Executed(RowsOf(Stream, id)) = 0
      BY <2>3, ExecutedEmpty
    <2>5. QtyOf[k] \in Nat
      BY IntentsAssumption DEF ApartInv, SessionInv, EngineInv, EngineTypeOK, Order
    <2>6. a.filled = 0 /\ a.order = id /\ a.key = k
      OBVIOUS
    <2> HIDE DEF a, k
    <2>7. AcksCount' /\ StreamAcked' /\ Numbered'
      BY <1>1, <1>2, <2>1, <2>4, <2>5, <2>6 DEF VenueCounts, AcksCount, StreamAcked, Numbered
    <2> QED
      BY <1>2, <2>7 DEF VenueCounts
  <1> QED
    BY <1>3, <1>4

\* A new execution counts with its order, and with no other.
LEMMA ExecutesCounted ==
  ASSUME ApartInv, VenueCounts, NEW a \in acks, Execute(a)
  PROVE  VenueCounts' /\ Stream \subseteq Stream'
  <1>1. /\ a \in Ack /\ a.order \in OrderIds /\ a.key \in Keys /\ a.filled \in Nat
        /\ QtyOf[a.key] \in Nat /\ executions \in Seq(Fill) /\ Len(executions) \in Nat
    BY IntentsAssumption DEF ApartInv, SessionInv, VenueInv, VenueTypeOK, Ack
  <1>2. PICK qty \in 1 .. QtyOf[a.key] - a.filled, status \in {"FILLED", "PARTIALLY_FILLED"} :
          /\ Update(a, [a EXCEPT !.status = status, !.filled = @ + qty])
          /\ executions' = Append(executions, NewFill(Len(executions) + 1, a.order, a.key, qty))
    BY DEF Execute
  <1> DEFINE fill == NewFill(Len(executions) + 1, a.order, a.key, qty)
             b == [a EXCEPT !.status = status, !.filled = @ + qty]
  <1>3. qty \in Nat \ {0} /\ a.filled + qty <= QtyOf[a.key]
    BY <1>1
  <1>4. /\ fill \in Fill /\ fill.exec = Len(executions) + 1 /\ fill.order = a.order
        /\ fill.qty = qty
    BY <1>1, <1>3, IntentsAssumption DEF NewFill, Fill
  <1>5. b.order = a.order /\ b.key = a.key /\ b.filled = a.filled + qty
    BY <1>1 DEF Ack
  <1>6. acks' = (acks \ {a}) \cup {b} /\ executions' = Append(executions, fill)
    BY <1>2 DEF Update
  <1> HIDE DEF fill, b
  <1>7. /\ Len(executions') = Len(executions) + 1
        /\ \A i \in 1 .. Len(executions) : executions'[i] = executions[i]
        /\ executions'[Len(executions) + 1] = fill
    BY <1>1, <1>4, <1>6, AppendProperties
  <1>8. 1 .. Len(executions') = (1 .. Len(executions)) \cup {Len(executions) + 1}
    BY <1>1, <1>7
  <1>9. Stream' = Stream \cup {fill}
    BY <1>7, <1>8 DEF Stream
  <1>10. Numbered'
    BY <1>4, <1>7, <1>8 DEF VenueCounts, Numbered
  <1>11. fill \notin Stream
    <2> SUFFICES ASSUME NEW i \in 1 .. Len(executions), executions[i] = fill
                 PROVE  FALSE
      BY DEF Stream
    <2>1. i = Len(executions) + 1
      BY <1>4 DEF VenueCounts, Numbered
    <2> QED
      BY <1>1, <2>1
  <1>12. Executed(RowsOf(Stream', a.order)) = a.filled + qty
    <2>1. RowsOf(Stream', a.order) = RowsOf(Stream, a.order) \cup {fill}
      BY <1>4, <1>9 DEF RowsOf
    <2>2. fill \notin RowsOf(Stream, a.order)
      BY <1>11 DEF RowsOf
    <2>3. Executed(RowsOf(Stream, a.order)) = a.filled
      BY DEF VenueCounts, AcksCount
    <2>4. /\ RowsOf(Stream, a.order) \in SUBSET Fill
          /\ IsFiniteSet(RowsOf(Stream, a.order))
      BY PartOfStream DEF ApartInv
    <2> QED
      BY <1>4, <2>1, <2>2, <2>3, <2>4, ExecutedAdd
  <1>13. \A d \in acks \ {a} : d.order # a.order
    BY DEF ApartInv, AcksApart
  <1>14. \A d \in acks \ {a} : RowsOf(Stream', d.order) = RowsOf(Stream, d.order)
    BY <1>4, <1>9, <1>13 DEF RowsOf
  <1>15. AcksCount'
    BY <1>3, <1>5, <1>6, <1>12, <1>14 DEF VenueCounts, AcksCount
  <1>16. StreamAcked'
    BY <1>4, <1>5, <1>6, <1>9 DEF VenueCounts, StreamAcked
  <1> QED
    BY <1>9, <1>10, <1>15, <1>16 DEF VenueCounts

-----------------------------------------------------------------------------
\* An order of the table turns into p, which is whole too.
LEMMA RowStaysWhole ==
  ASSUME SessionInv, RowsWhole, NEW id \in OrderIds, NEW p, WholeRow(p),
         orders' = [orders EXCEPT ![id] = p],
         dbOrders' = [dbOrders EXCEPT ![id] = p] \/ dbOrders' = dbOrders
  PROVE  RowsWhole'
  <1>1. /\ orders \in [OrderIds -> Order \cup {None}]
        /\ dbOrders \in [OrderIds -> Order \cup {None}]
    BY DEF SessionInv, EngineInv, EngineTypeOK
  <1>2. \A i \in OrderIds :
          /\ orders'[i] = IF i = id THEN p ELSE orders[i]
          /\ dbOrders'[i] = dbOrders[i] \/ (i = id /\ dbOrders'[i] = p)
    BY <1>1
  <1> QED
    BY <1>2 DEF RowsWhole

\* The quantity of a new order is its intent's.
LEMMA SubmitsWhole ==
  ASSUME SessionInv, RowsWhole, NEW k \in Keys, SubmitBegin(k)
  PROVE  RowsWhole' /\ dbFills' = dbFills
  <1> DEFINE id == CHOOSE new \in OrderIds \ Created : TRUE
             o  == [key |-> k, status |-> "NEW", qty |-> QtyOf[k],
                    filled |-> 0, confirmed |-> FALSE, bid |-> None]
  <1>1. id \in OrderIds
    <2>1. OrderIds \ Created # {}
      BY DEF SubmitBegin
    <2> QED
      BY <2>1
  <1>2. WholeRow(o)
    BY DEF WholeRow, Coherent
  <1>3. /\ orders' = [orders EXCEPT ![id] = o] /\ dbFills' = dbFills
        /\ dbOrders' = [dbOrders EXCEPT ![id] = orders'[id]]
    BY DEF SubmitBegin, SaveOrder
  <1> HIDE DEF id, o
  <1>4. orders'[id] = o
    BY <1>1, <1>3 DEF SessionInv, EngineInv, EngineTypeOK
  <1> QED
    BY <1>1, <1>2, <1>3, <1>4, RowStaysWhole

\* Whatever a reply says, the order it is applied to stays whole.
LEMMA ResumesWhole ==
  ASSUME SessionInv, RowsWhole, NEW c \in wire, SubmitEnd(c) \/ CancelEnd(c) \/ ConfirmEnd(c)
  PROVE  RowsWhole' /\ dbFills' = dbFills
  <1> DEFINE id == c.order
             o  == orders[id]
  <1>1. c \in Call /\ id \in OrderIds /\ o # None /\ o \in Order /\ Sane(o)
    BY DEF SessionInv, EngineInv, EngineTypeOK, Call, CallsKnown, SavedOrders, Saved
  <1>2. c.reply \in Reply /\ c.reply.status \in Statuses
    BY <1>1 DEF Call, Reply, SubmitEnd, CancelEnd, ConfirmEnd
  <1>3. Coherent(o) /\ o.qty = QtyOf[o.key]
    BY <1>1 DEF RowsWhole, WholeRow
  <1>4. PICK p : /\ WholeRow(p)
                 /\ orders' = [orders EXCEPT ![id] = p]
                 /\ \/ dbOrders' = [dbOrders EXCEPT ![id] = orders'[id]]
                    \/ dbOrders' = dbOrders
    <2>1. CASE SubmitEnd(c)
      <3>1. PICK p : p = ApplyAck(o, c.reply).order
        OBVIOUS
      <3>2. p.key = o.key /\ p.qty = o.qty /\ Coherent(p)
        BY <1>1, <1>2, <1>3, <3>1, SoftApplyAck, AckKeepsTerms, AckIsCoherent DEF Soft
      <3> QED
        BY <1>3, <2>1, <3>1, <3>2 DEF SubmitEnd, SaveOrder, dbVars, WholeRow
    <2>2. CASE CancelEnd(c)
      <3>1. PICK p : p = CancelOutcome(o, c.reply).order
        OBVIOUS
      <3>2. p.key = o.key
        BY <1>1, <1>2, <3>1, SoftCancelOutcome DEF Soft
      <3>3. p.qty = o.qty /\ Coherent(p)
        BY <1>1, <1>3, <3>1, CancelKeepsTerms, CancelIsCoherent DEF CancelOutcome, Returned
      <3> QED
        BY <1>3, <2>2, <3>1, <3>2, <3>3 DEF CancelEnd, SaveOrder, dbVars, WholeRow
    <2>3. CASE ConfirmEnd(c)
      <3>1. PICK p : p = ConfirmTerminal(o, c.reply.status)
        OBVIOUS
      <3>2. p.key = o.key /\ p.qty = o.qty /\ Coherent(p)
        BY <1>1, <1>2, <1>3, <3>1, VerdictIsSane, VerdictKeepsTerms, VerdictIsCoherent
      <3> QED
        BY <1>3, <2>3, <3>1, <3>2 DEF ConfirmEnd, SaveOrder, WholeRow
    <2> QED
      BY <2>1, <2>2, <2>3
  <1>5. dbFills' = dbFills
    BY DEF SubmitEnd, CancelEnd, ConfirmEnd, SaveOrder, dbVars
  <1> HIDE DEF id
  <1>6. orders'[id] = p
    BY <1>1, <1>4 DEF SessionInv, EngineInv, EngineTypeOK
  <1> QED
    BY <1>1, <1>4, <1>5, <1>6, RowStaysWhole

\* A fill leaves the order whole, and is the only thing the ledger can gain.
LEMMA FillsWhole ==
  ASSUME SessionInv, RowsWhole, NEW f, Incoming(f)
  PROVE  /\ WholeRow(ApplyFill(orders[f.order], f.qty).order)
         /\ OnFill(f) => RowsWhole' /\ dbFills' \subseteq dbFills \cup {f}
         /\ CrashInFill(f) => RowsWhole' /\ dbFills' \subseteq dbFills \cup {f}
  <1> DEFINE id == f.order
             o  == orders[id]
             p  == ApplyFill(o, f.qty).order
  <1>1. /\ id \in OrderIds /\ o # None /\ o \in Order /\ f.qty \in Nat \ {0}
        /\ p.key = o.key
    BY IncomingFill DEF SessionInv, Incoming, Soft
  <1>2. Coherent(o) /\ o.qty = QtyOf[o.key]
    BY <1>1 DEF RowsWhole, WholeRow
  <1>3. WholeRow(p)
    BY <1>1, <1>2, FillKeepsTerms, FillOutcome DEF WholeRow
  <1>4. ASSUME OnFill(f)
        PROVE  RowsWhole' /\ dbFills' \subseteq dbFills \cup {f}
    <2>1. CASE FillSeen(f)
      BY <2>1 DEF FillSeen, engineVars, memoryVars, dbVars, RowsWhole
    <2>2. CASE FillRefused(f) \/ FillApplied(f)
      <3>1. /\ orders' = [orders EXCEPT ![id] = p]
            /\ dbOrders' = [dbOrders EXCEPT ![id] = p] \/ dbOrders' = dbOrders
            /\ dbFills' = Recorded(dbFills, f) \/ dbFills' = dbFills
        BY <2>2 DEF FillRefused, FillApplied, WriteFill, dbVars
      <3> HIDE DEF id, p
      <3> QED
        BY <1>1, <1>3, <3>1, RowStaysWhole DEF Recorded
    <2> QED
      BY <1>4, <2>1, <2>2 DEF OnFill
  <1>5. ASSUME CrashInFill(f)
        PROVE  RowsWhole' /\ dbFills' \subseteq dbFills \cup {f}
    <2>1. /\ dbFills' = Recorded(dbFills, f)
          /\ dbOrders' = [dbOrders EXCEPT ![id] = p] \/ dbOrders' = dbOrders
          /\ orders' = dbOrders'
      BY <1>5 DEF CrashInFill, WriteFill, Restart, Load
    <2>2. dbOrders \in [OrderIds -> Order \cup {None}]
      BY DEF SessionInv, EngineInv, EngineTypeOK
    <2> HIDE DEF id, p
    <2>3. \A i \in OrderIds : dbOrders'[i] = dbOrders[i] \/ dbOrders'[i] = p
      BY <2>1, <2>2
    <2> QED
      BY <1>3, <2>1, <2>3 DEF RowsWhole, Recorded
  <1> QED
    BY <1>3, <1>4, <1>5

\* The next fill of the stream is the venue's.
LEMMA NextIsStreamed ==
  ASSUME SessionInv, cursor < Len(executions)
  PROVE  Incoming(NextFill) /\ NextFill \in Stream
  <1>1. cursor + 1 \in 1 .. Len(executions)
    BY DEF SessionInv, VenueInv, VenueTypeOK
  <1> QED
    BY <1>1, NextOfStream DEF NextFill, Stream

\* Every step leaves the rows whole, and the ledger with what was executed.
LEMMA StaysWhole ==
  ASSUME SessionInv, RowsWhole, LedgerStreamed, [Next]_vars
  PROVE  RowsWhole' /\ dbFills' \subseteq Stream
  <1> USE DEF LedgerStreamed
  <1>1. ASSUME UNCHANGED <<orders, dbOrders, dbFills>>
        PROVE  RowsWhole' /\ dbFills' \subseteq Stream
    BY <1>1 DEF RowsWhole
  <1>2. ASSUME NEW k \in Keys, Submit(k)
        PROVE  RowsWhole' /\ dbFills' \subseteq Stream
    <2>1. CASE SubmitOversell(k) \/ SubmitKnown(k)
      BY <1>1, <2>1 DEF SubmitOversell, SubmitKnown, memoryVars, dbVars
    <2> QED
      BY <1>2, <2>1, SubmitsWhole DEF Submit
  <1>3. ASSUME NEW id \in OrderIds, Cancel(id) \/ Confirm(id)
        PROVE  RowsWhole' /\ dbFills' \subseteq Stream
    BY <1>1, <1>3 DEF Cancel, Confirm, CancelBegin, ConfirmBegin, memoryVars, dbVars
  <1>4. ASSUME NEW c \in wire, VenueSubmit(c) \/ VenueCancel(c) \/ VenueQuery(c) \/ Lose(c)
        PROVE  RowsWhole' /\ dbFills' \subseteq Stream
    BY <1>1, <1>4 DEF VenueSubmit, VenueCancel, VenueQuery, Lose, CallRaises, EngineIdle,
                      memoryVars, dbVars
  <1>5. ASSUME NEW c \in wire, Resume(c)
        PROVE  RowsWhole' /\ dbFills' \subseteq Stream
    BY <1>5, ResumesWhole DEF Resume
  <1>6. ASSUME NEW r \in Readers, VenueSnapshot(r) \/ LoseSnapshot(r) \/ Reconciles(r)
        PROVE  RowsWhole' /\ dbFills' \subseteq Stream
    BY <1>1, <1>6 DEF VenueSnapshot, LoseSnapshot, Reconciles, SnapshotAnswered, SnapshotRaises,
                      Reconcile, memoryVars, dbVars
  <1>7. ASSUME NEW a \in acks, Executes(a) \/ Expires(a)
        PROVE  RowsWhole' /\ dbFills' \subseteq Stream
    BY <1>1, <1>7 DEF Executes, Expires, engineVars, memoryVars, dbVars
  <1>8. CASE Report \/ Reconnect \/ UNCHANGED vars
    BY <1>1, <1>8 DEF Report, ReportBegin, Reconnect, vars, engineVars, memoryVars, dbVars
  <1>9. PICK f : f = NextFill
    OBVIOUS
  <1>10. CASE Consume
    <2>1. Incoming(f) /\ f \in Stream
      BY <1>9, <1>10, NextIsStreamed DEF Consume, Deliver, Incoming
    <2>2. OnFill(f)
      BY <1>9, <1>10 DEF Consume, OnFill, FillSeen, FillRefused, FillApplied, WriteFill, Recorded
    <2> QED
      BY <2>1, <2>2, FillsWhole
  <1>11. CASE Dies
    <2>1. CASE Crash
      BY <2>1 DEF Crash, Restart, Load, dbVars, RowsWhole
    <2>2. CASE cursor < Len(executions) /\ CrashInFill(NextFill)
      <3>1. Incoming(f) /\ f \in Stream
        BY <1>9, <2>2, NextIsStreamed DEF Incoming
      <3>2. CrashInFill(f)
        BY <1>9, <2>2 DEF CrashInFill, WriteFill, Recorded
      <3> QED
        BY <3>1, <3>2, FillsWhole
    <2> QED
      BY <1>11, <2>1, <2>2 DEF Dies
  <1> QED
    BY <1>2, <1>3, <1>4, <1>5, <1>6, <1>7, <1>8, <1>10, <1>11 DEF Next

-----------------------------------------------------------------------------
LEMMA RefusalInitial == Init => RefusalInv
  <1> SUFFICES ASSUME Init PROVE RefusalInv
    OBVIOUS
  <1>1. ApartInv
    BY SessionInitial DEF Init, VenueInit, ApartInv, AcksApart
  <1>2. Len(executions) = 0 /\ acks = {} /\ Stream = {}
    BY DEF Init, VenueInit, Stream
  <1>3. VenueCounts /\ LedgerStreamed /\ RowsWhole
    BY <1>2 DEF Init, EngineInit, VenueCounts, Numbered, AcksCount, StreamAcked,
                LedgerStreamed, RowsWhole
  <1> QED
    BY <1>1, <1>3 DEF RefusalInv

LEMMA RefusalStep ==
  ASSUME RefusalInv, [Next]_vars
  PROVE  RefusalInv'
  <1>1. ApartInv /\ VenueCounts /\ LedgerStreamed /\ RowsWhole /\ SessionInv
    BY DEF RefusalInv, ApartInv
  <1>2. SessionInv' /\ Keeps
    BY <1>1, SessionStep
  <1>3. RowsWhole' /\ dbFills' \subseteq Stream
    BY <1>1, StaysWhole
  <1>4. AcksApart' /\ VenueCounts' /\ Stream \subseteq Stream'
    <2>1. CASE UNCHANGED <<acks, executions>>
      <3>1. AcksApart'
        BY <1>1, <1>2, <2>1, AcksStay
      <3>2. Stream' = Stream
        BY <2>1 DEF Stream
      <3> QED
        BY <1>1, <2>1, <3>1, <3>2 DEF VenueCounts, Numbered, AcksCount, StreamAcked
    <2>2. CASE VenueMoves
      <3>1. orders' = orders
        BY <2>2 DEF VenueMoves, memoryVars
      <3>2. ASSUME NEW a \in acks, End(a)
            PROVE  AcksApart' /\ VenueCounts' /\ Stream \subseteq Stream'
        BY <1>1, <3>1, <3>2, EndsApart, EndsCounted
      <3>3. ASSUME NEW a \in acks, Execute(a)
            PROVE  AcksApart' /\ VenueCounts' /\ Stream \subseteq Stream'
        BY <1>1, <3>1, <3>3, ExecutesApart, ExecutesCounted
      <3>4. ASSUME NEW id \in OrderIds, orders[id] # None, Accept(orders[id].key, id)
            PROVE  AcksApart' /\ VenueCounts' /\ Stream \subseteq Stream'
        BY <1>1, <3>1, <3>4, AcceptsApart, AcceptsCounted
      <3> QED
        BY <2>2, <3>2, <3>3, <3>4 DEF VenueMoves
    <2> QED
      BY <1>1, <2>1, <2>2, OneMoves
  <1> QED
    BY <1>2, <1>3, <1>4 DEF RefusalInv, ApartInv, LedgerStreamed

\* What the ledger has of an order and an execution that is not in it are no more
\* than was ordered.
LEMMA LedgerHasRoom ==
  ASSUME RefusalInv, NEW f \in Stream, f \notin dbFills
  PROVE  /\ f \in Fill /\ orders[f.order] \in Order
         /\ Executed(RowsOf(dbFills, f.order)) \in Nat
         /\ Executed(RowsOf(dbFills, f.order)) + f.qty <= orders[f.order].qty
  <1> DEFINE id   == f.order
             held == RowsOf(dbFills, id)
             all  == RowsOf(Stream, id)
  <1>1. /\ ApartInv /\ SessionInv /\ VenueCounts /\ LedgerStreamed /\ RowsWhole
        /\ Stream \in SUBSET Fill
    BY StreamIsFinite DEF RefusalInv, ApartInv
  <1>2. f \in Fill /\ id \in OrderIds /\ f.qty \in Nat
    BY <1>1 DEF Fill
  <1>3. PICK a \in acks : a.order = id
    BY <1>1 DEF VenueCounts, StreamAcked
  <1>4. orders[id] # None /\ orders[id] \in Order /\ a.key = orders[id].key
    BY <1>1, <1>2, <1>3 DEF ApartInv, AcksApart, SessionInv, VenueInv, VenueKnows, EngineInv,
                            EngineTypeOK
  <1>5. orders[id].qty = QtyOf[a.key]
    BY <1>1, <1>2, <1>4 DEF RowsWhole, WholeRow
  <1>6. a.filled <= QtyOf[a.key] /\ Executed(all) = a.filled
    BY <1>1, <1>3 DEF VenueCounts, AcksCount
  <1>7. all \in SUBSET Fill /\ IsFiniteSet(all) /\ held \cup {f} \subseteq all /\ f \notin held
    BY <1>1, PartOfStream DEF LedgerStreamed, RowsOf
  <1> HIDE DEF all, held, id
  <1>8. /\ held \in SUBSET Fill /\ IsFiniteSet(held)
        /\ held \cup {f} \in SUBSET Fill /\ IsFiniteSet(held \cup {f})
    BY <1>7, FS_Subset
  <1>9. Executed(held) \in Nat /\ Executed(held \cup {f}) = Executed(held) + f.qty
    BY <1>2, <1>7, <1>8, ExecutedType, ExecutedAdd
  <1>10. Executed(held \cup {f}) <= Executed(all)
    BY <1>7, <1>8, FillsAreRows, SummedMonotone
  <1>11. a.filled \in Nat /\ QtyOf[a.key] \in Nat
    BY <1>1, <1>4, IntentsAssumption DEF SessionInv, VenueInv, VenueTypeOK, Ack
  <1>12. Executed(held) + f.qty <= orders[id].qty
    BY <1>2, <1>5, <1>6, <1>9, <1>10, <1>11
  <1> QED
    BY <1>2, <1>4, <1>9, <1>12 DEF held, id

\* A refusal of an execution that is not in the ledger has one of three reasons.
LEMMA RefusalHasReason ==
  ASSUME RefusalInv, NEW f \in Stream, f \notin dbFills,
         ApplyFill(orders[f.order], f.qty).raised # "none"
  PROVE  \/ orders[f.order].confirmed
         \/ orders[f.order].status = "NEW"
         \/ Overcounts(f.order)
  <1> DEFINE o == orders[f.order]
  <1>1. SessionInv /\ RowsWhole
    BY DEF RefusalInv, ApartInv
  <1>2. /\ f \in Fill /\ o \in Order /\ Executed(RowsOf(dbFills, f.order)) \in Nat
        /\ Executed(RowsOf(dbFills, f.order)) + f.qty <= o.qty
    BY LedgerHasRoom
  <1>3. f.order \in OrderIds /\ f.qty \in Nat \ {0}
    BY <1>2 DEF Fill
  <1>4. o # None /\ o.filled \in Nat /\ o.qty \in Nat
    BY <1>2, NoneAssumption DEF Order
  <1>5. Coherent(o)
    BY <1>1, <1>3, <1>4 DEF RowsWhole, WholeRow
  <1>6. ASSUME ~o.confirmed, o.status # "NEW"
        PROVE  Overcounts(f.order)
    <2>1. o.filled + f.qty > o.qty
      BY <1>2, <1>3, <1>4, <1>5, <1>6, FillOutcome
    <2>2. o.filled > Executed(RowsOf(dbFills, f.order))
      BY <1>2, <1>3, <1>4, <2>1
    <2> QED
      BY <2>2 DEF Overcounts, RowsOf
  <1> QED
    BY <1>6

\* However calls, executions and restarts interleave, an execution of the venue's
\* that counts as seen and is not in the ledger has been refused for a reason: the
\* broker has ended the order, the ack has been overtaken, or the order has counted
\* what the ledger lacks.  Reconnects, replays and restarts never lose one.
THEOREM RemoteRefusesWithReason == Spec => RefusedOnlyWithReason
  <1> DEFINE Reasoned ==
        \A f \in {executions[i] : i \in DOMAIN executions} :
          f.exec \notin seen /\ f.exec \in seen' /\ f \notin dbFills'
            => \/ orders[f.order].confirmed
               \/ orders[f.order].status = "NEW"
               \/ Overcounts(f.order)
  <1>1. RefusalInv /\ [Next]_vars => [Reasoned]_vars
    <2> SUFFICES ASSUME RefusalInv, [Next]_vars, NEW f \in Stream,
                        f.exec \notin seen, f.exec \in seen', f \notin dbFills'
                 PROVE  \/ orders[f.order].confirmed
                        \/ orders[f.order].status = "NEW"
                        \/ Overcounts(f.order)
      <3>1. RefusalInv => DOMAIN executions = 1 .. Len(executions)
        BY DEF RefusalInv, ApartInv, SessionInv, VenueInv, VenueTypeOK
      <3> QED
        BY <3>1 DEF Stream
    <2>1. /\ SessionInv /\ Numbered /\ LedgerStreamed /\ RowsWhole
          /\ \A g \in dbFills : g.exec \in seen
      BY DEF RefusalInv, ApartInv, VenueCounts, SessionInv, EngineInv, LedgerSeen
    <2>2. f \notin dbFills /\ seen' # seen
      BY <2>1
    <2>3. PICK g : g = NextFill
      OBVIOUS
    <2>4. CASE Consume
      <3>1. g \in Stream
        BY <2>1, <2>3, <2>4, NextIsStreamed DEF Consume, Deliver
      <3>2. FillSeen(g) \/ FillRefused(g) \/ FillApplied(g)
        BY <2>3, <2>4 DEF Consume, OnFill, FillSeen, FillRefused, FillApplied, WriteFill, Recorded
      <3>3. seen' = seen \cup {g.exec} /\ ~FillSeen(g)
        BY <2>2, <3>2 DEF FillSeen, FillRefused, FillApplied, engineVars, memoryVars
      <3>4. f = g
        BY <2>1, <3>1, <3>3, SameExecution
      <3>5. ~FillApplied(g)
        <4>1. SUFFICES ASSUME FillApplied(g), f \notin Recorded(dbFills, g) PROVE FALSE
          BY DEF FillApplied, WriteFill
        <4>2. PICK h \in dbFills : h.exec = g.exec
          BY <3>4, <4>1 DEF Recorded
        <4> QED
          BY <2>1, <3>4, <4>2
      <3>6. ApplyFill(orders[f.order], f.qty).raised # "none"
        BY <3>2, <3>3, <3>4, <3>5 DEF FillRefused
      <3> QED
        BY <2>2, <3>6, RefusalHasReason
    <2>5. CASE Dies
      <3>1. seen' = {h.exec : h \in dbFills'}
        BY <2>5 DEF Dies, Crash, CrashInFill, Restart, Load
      <3>2. dbFills' \subseteq Stream
        BY <2>1, StaysWhole
      <3>3. PICK h \in dbFills' : h.exec = f.exec
        BY <3>1
      <3> QED
        BY <2>1, <3>2, <3>3, SameExecution
    <2>6. seen' = seen \/ Consume \/ Dies
      <3> USE DEF memoryVars, engineVars
      <3>1. ASSUME NEW k \in Keys, Submit(k) PROVE seen' = seen
        BY <3>1 DEF Submit, SubmitOversell, SubmitKnown, SubmitBegin
      <3>2. ASSUME NEW id \in OrderIds, Cancel(id) \/ Confirm(id) PROVE seen' = seen
        BY <3>2 DEF Cancel, Confirm, CancelBegin, ConfirmBegin
      <3>3. ASSUME NEW c \in wire, VenueSubmit(c) \/ VenueCancel(c) \/ VenueQuery(c) \/ Lose(c)
            PROVE  seen' = seen
        BY <3>3 DEF VenueSubmit, VenueCancel, VenueQuery, Lose, CallRaises, EngineIdle
      <3>4. ASSUME NEW c \in wire, Resume(c) PROVE seen' = seen
        BY <3>4 DEF Resume, SubmitEnd, CancelEnd, ConfirmEnd
      <3>5. ASSUME NEW r \in Readers, VenueSnapshot(r) \/ LoseSnapshot(r) \/ Reconciles(r)
            PROVE  seen' = seen
        BY <3>5 DEF VenueSnapshot, LoseSnapshot, Reconciles, SnapshotAnswered, SnapshotRaises,
                    Reconcile
      <3>6. ASSUME NEW a \in acks, Executes(a) \/ Expires(a) PROVE seen' = seen
        BY <3>6 DEF Executes, Expires
      <3>7. CASE Report \/ Reconnect \/ UNCHANGED vars
        BY <3>7 DEF Report, ReportBegin, Reconnect, vars
      <3> QED
        BY <3>1, <3>2, <3>3, <3>4, <3>5, <3>6, <3>7 DEF Next
    <2> QED
      BY <2>2, <2>4, <2>5, <2>6
  <1>2. Spec => []RefusalInv
    BY RefusalInitial, RefusalStep, PTL DEF Spec
  <1> QED
    BY <1>1, <1>2, PTL DEF Spec, RefusedOnlyWithReason
=============================================================================
