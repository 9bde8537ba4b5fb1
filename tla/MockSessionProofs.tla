-------------------------- MODULE MockSessionProofs --------------------------
(***************************************************************************)
(* MockSession keeps the engine's promises: what is left to show is that   *)
(* the mock venue answers with well-formed acks and only ever publishes    *)
(* fills of orders that the engine has in its table.                       *)
(***************************************************************************)
EXTENDS MockSession, EngineProofs, SequenceTheorems

\* The venue works for orders of the table, all of which survive a crash.
VenueKnows ==
  /\ \A a \in acks : orders[a.order] # None
  /\ \A i \in 1 .. Len(queue) : orders[queue[i].order] # None

SessionInv == EngineInv /\ VenueTypeOK /\ VenueKnows

LEMMA SessionInitial == Init => SessionInv
  <1> SUFFICES ASSUME Init PROVE SessionInv
    OBVIOUS
  <1>1. EngineInv
    BY EngineInitial DEF Init
  <1>2. VenueTypeOK
    BY MockAssumption DEF Init, VenueInit, VenueTypeOK
  <1>3. VenueKnows
    BY DEF Init, VenueInit, VenueKnows
  <1> QED
    BY <1>1, <1>2, <1>3 DEF SessionInv

-----------------------------------------------------------------------------
\* A venue that does nothing still knows only orders of the table.
LEMMA VenueIdle ==
  ASSUME SessionInv, UNCHANGED venueVars, Keeps
  PROVE  VenueTypeOK' /\ VenueKnows'
  <1> USE DEF venueVars
  <1>1. VenueTypeOK'
    BY DEF SessionInv, VenueTypeOK
  <1>2. \A id \in OrderIds : orders[id] # None => orders'[id] # None
    BY DEF Keeps, KeepsKeys, Created
  <1>3. \A a \in acks : a.order \in OrderIds
    BY DEF SessionInv, VenueTypeOK, Ack
  <1>4. \A i \in 1 .. Len(queue) : queue[i].order \in OrderIds
    <2>1. queue \in Seq(Fill)
      BY DEF SessionInv, VenueTypeOK
    <2>2. \A i \in 1 .. Len(queue) : queue[i] \in Fill
      BY <2>1
    <2> QED
      BY <2>2 DEF Fill
  <1>5. VenueKnows'
    BY <1>2, <1>3, <1>4 DEF SessionInv, VenueKnows
  <1> QED
    BY <1>1, <1>5

\* A fill published is a fill of the order it names.
LEMMA Publishes ==
  ASSUME SessionInv, orders' = orders,
         NEW exec \in Nat, NEW id \in OrderIds, orders[id] # None,
         NEW k \in Keys, NEW qty \in Nat \ {0},
         Publish(NewFill(exec, id, k, qty))
  PROVE  /\ book' \in Int
         /\ queue' \in Seq(Fill)
         /\ \A i \in 1 .. Len(queue') : orders'[queue'[i].order] # None
  <1> DEFINE f == NewFill(exec, id, k, qty)
  <1>1. f \in Fill /\ f.order = id
    BY IntentsAssumption DEF NewFill, Fill
  <1>2. f.side \in {"BUY", "SELL"} /\ f.qty \in Nat
    BY <1>1 DEF Fill
  <1>3. Signed(f.side, f.qty) \in Int
    BY <1>2 DEF Signed
  <1>4. book' = book + Signed(f.side, f.qty) /\ queue' = Append(queue, f)
    BY DEF Publish
  <1> HIDE DEF f
  <1>5. queue \in Seq(Fill) /\ book \in Int
    BY DEF SessionInv, VenueTypeOK
  <1>6. /\ queue' \in Seq(Fill) /\ Len(queue') = Len(queue) + 1
        /\ \A i \in 1 .. Len(queue) : queue'[i] = queue[i]
        /\ queue'[Len(queue) + 1] = f
    BY <1>1, <1>4, <1>5, AppendProperties
  <1>7. \A i \in 1 .. Len(queue') : orders'[queue'[i].order] # None
    <2> SUFFICES ASSUME NEW i \in 1 .. Len(queue')
                 PROVE  orders[queue'[i].order] # None
      OBVIOUS
    <2>1. CASE i \in 1 .. Len(queue)
      BY <1>6, <2>1 DEF SessionInv, VenueKnows
    <2>2. CASE i = Len(queue) + 1
      BY <1>1, <1>6, <2>2
    <2>3. Len(queue) \in Nat
      BY <1>5
    <2> QED
      BY <1>6, <2>1, <2>2, <2>3
  <1> QED
    BY <1>3, <1>4, <1>5, <1>6, <1>7

\* A venue that takes an order of the table in.
LEMMA Accepts ==
  ASSUME SessionInv, orders' = orders,
         NEW k \in Keys, NEW id \in OrderIds, orders[id] # None,
         Accept(k, id)
  PROVE  /\ VenueTypeOK' /\ VenueKnows'
         /\ AckOfKey(acks', k) \in Ack
  <1>1. VenueTypeOK /\ VenueKnows /\ QtyOf[k] \in Nat \ {0} /\ Slices \in Nat
    BY IntentsAssumption, MockAssumption DEF SessionInv
  <1>2. CASE KnowsKey(k)
    <2>1. UNCHANGED venueVars
      BY <1>2 DEF Accept
    <2> QED
      BY <1>1, <1>2, <2>1 DEF venueVars, VenueTypeOK, VenueKnows, AckOfKey, KnowsKey
  <1>3. CASE ~KnowsKey(k) /\ Slices <= 1
    <2> DEFINE a == [bid |-> seq + 1, key |-> k, order |-> id, status |-> "FILLED",
                     filled |-> QtyOf[k], slices |-> Slices]
    <2>1. /\ acks' = acks \cup {a} /\ seq' = seq + 2
          /\ Publish(NewFill(seq + 2, id, k, QtyOf[k]))
          /\ transientLeft' = transientLeft
      BY <1>3 DEF Accept
    <2>2. a \in Ack /\ a.order = id /\ a.key = k
      BY <1>1 DEF Ack, VenueTypeOK, Statuses
    <2> HIDE DEF a
    <2>3. /\ book' \in Int /\ queue' \in Seq(Fill)
          /\ \A i \in 1 .. Len(queue') : orders'[queue'[i].order] # None
      <3>1. seq + 2 \in Nat
        BY <1>1 DEF VenueTypeOK
      <3> QED
        BY <1>1, <2>1, <3>1, Publishes
    <2>4. VenueTypeOK'
      BY <1>1, <2>1, <2>2, <2>3 DEF VenueTypeOK
    <2>5. VenueKnows'
      BY <1>1, <2>1, <2>2, <2>3 DEF VenueKnows
    <2> QED
      BY <2>1, <2>2, <2>4, <2>5 DEF VenueTypeOK, AckOfKey
  <1>4. CASE ~KnowsKey(k) /\ ~(Slices <= 1)
    <2> DEFINE a == [bid |-> seq + 1, key |-> k, order |-> id, status |-> "WORKING",
                     filled |-> 0, slices |-> 0]
    <2>1. /\ acks' = acks \cup {a} /\ seq' = seq + 1
          /\ UNCHANGED <<book, queue, transientLeft>>
      BY <1>4 DEF Accept
    <2>2. a \in Ack /\ a.order = id /\ a.key = k
      BY <1>1 DEF Ack, VenueTypeOK, Statuses
    <2> HIDE DEF a
    <2>3. VenueTypeOK'
      BY <1>1, <2>1, <2>2 DEF VenueTypeOK
    <2>4. VenueKnows'
      BY <1>1, <2>1, <2>2 DEF VenueKnows
    <2> QED
      BY <2>1, <2>2, <2>3, <2>4 DEF VenueTypeOK, AckOfKey
  <1> QED
    BY <1>2, <1>3, <1>4

\* The next slice of an order that is dripping is a quantity.
LEMMA SliceType ==
  ASSUME VenueTypeOK, NEW a \in acks, Dripping(a)
  PROVE  NextSlice(a) \in Nat \ {0}
  <1>1. /\ a.filled \in Nat /\ a.slices \in Nat /\ QtyOf[a.key] \in Nat
        /\ Slices \in Nat /\ Slices > 0
    BY IntentsAssumption, MockAssumption DEF VenueTypeOK, Ack, Dripping
  <1>2. RoundHalfEven(QtyOf[a.key], Slices) \in Int
    BY <1>1 DEF RoundHalfEven
  <1>3. NextSlice(a) \in Int
    BY <1>1, <1>2 DEF NextSlice, Smaller
  <1> QED
    BY <1>3 DEF Dripping

\* One slice of an order the venue works for.
LEMMA Drips ==
  ASSUME SessionInv, orders' = orders, NEW a \in acks, Drip(a)
  PROVE  VenueTypeOK' /\ VenueKnows'
  <1> DEFINE n == NextSlice(a)
             filled == a.filled + n
             status == IF filled >= QtyOf[a.key] THEN "FILLED" ELSE "PARTIALLY_FILLED"
             b == [a EXCEPT !.status = status, !.filled = filled, !.slices = @ + 1]
  <1>1. VenueTypeOK /\ VenueKnows /\ a \in Ack
    BY DEF SessionInv, VenueTypeOK
  <1>2. n \in Nat \ {0}
    BY <1>1, SliceType DEF Drip
  <1>3. /\ a.order \in OrderIds /\ orders[a.order] # None /\ a.key \in Keys
        /\ a.filled \in Nat /\ a.slices \in Nat /\ seq + 1 \in Nat
    BY <1>1 DEF Ack, VenueKnows, VenueTypeOK
  <1>4. /\ acks' = (acks \ {a}) \cup {b} /\ seq' = seq + 1
        /\ Publish(NewFill(seq + 1, a.order, a.key, n))
        /\ transientLeft' = transientLeft
    BY DEF Drip, Update
  <1>5. filled \in Nat /\ a.slices + 1 \in Nat /\ status \in Statuses
    <2> HIDE DEF n
    <2> QED
      BY <1>2, <1>3 DEF Statuses
  <1>6. b \in Ack /\ b.order = a.order
    <2>1. b = [a EXCEPT !.status = status, !.filled = filled, !.slices = a.slices + 1]
      OBVIOUS
    <2> HIDE DEF filled, status
    <2> QED
      BY <1>1, <1>5, <2>1 DEF Ack
  <1> HIDE DEF n, filled, status, b
  <1>7. /\ book' \in Int /\ queue' \in Seq(Fill)
        /\ \A i \in 1 .. Len(queue') : orders'[queue'[i].order] # None
    BY <1>2, <1>3, <1>4, Publishes
  <1>8. VenueTypeOK'
    BY <1>1, <1>3, <1>4, <1>6, <1>7 DEF VenueTypeOK
  <1>9. VenueKnows'
    BY <1>1, <1>3, <1>4, <1>6, <1>7 DEF VenueKnows
  <1> QED
    BY <1>8, <1>9

\* A cancel changes the status of one ack at most.
LEMMA CancelsAtVenue ==
  ASSUME SessionInv, orders' = orders, NEW bid, CancelAtVenue(bid)
  PROVE  VenueTypeOK' /\ VenueKnows'
  <1> DEFINE a == AckOfBid(bid)
             b == [a EXCEPT !.status = "CANCELLED"]
  <1>1. VenueTypeOK /\ VenueKnows
    BY DEF SessionInv
  <1>2. UNCHANGED <<book, queue, seq, transientLeft>>
    BY DEF CancelAtVenue
  <1>3. CASE KnowsBid(bid) /\ IsOpen(a.status)
    <2>1. a \in acks
      BY <1>3 DEF KnowsBid, AckOfBid
    <2>2. acks' = (acks \ {a}) \cup {b}
      BY <1>3 DEF CancelAtVenue, Update
    <2> HIDE DEF a
    <2>3. a \in Ack
      BY <1>1, <2>1 DEF VenueTypeOK
    <2>4. b \in Ack /\ b.order = a.order
      BY <2>3 DEF Ack, Statuses
    <2> HIDE DEF b
    <2> QED
      BY <1>1, <1>2, <2>1, <2>2, <2>4 DEF VenueTypeOK, VenueKnows
  <1>4. CASE ~(KnowsBid(bid) /\ IsOpen(a.status))
    <2>1. acks' = acks
      BY <1>4 DEF CancelAtVenue
    <2> QED
      BY <1>1, <1>2, <2>1 DEF VenueTypeOK, VenueKnows
  <1> QED
    BY <1>3, <1>4

-----------------------------------------------------------------------------
\* The next fill of the queue is one that on_fill can count on.
LEMMA HeadOfQueue ==
  ASSUME SessionInv, queue # <<>>
  PROVE  /\ Incoming(Head(queue))
         /\ Tail(queue) \in Seq(Fill)
         /\ \A i \in 1 .. Len(Tail(queue)) : orders[Tail(queue)[i].order] # None
  <1>1. queue \in Seq(Fill) /\ VenueKnows
    BY DEF SessionInv, VenueTypeOK
  <1>2. Len(queue) \in Nat \ {0}
    BY <1>1, EmptySeq
  <1>3. Head(queue) = queue[1] /\ queue[1] \in Fill
    BY <1>1, <1>2
  <1>4. /\ Tail(queue) \in Seq(Fill) /\ Len(Tail(queue)) = Len(queue) - 1
        /\ \A i \in 1 .. Len(Tail(queue)) : Tail(queue)[i] = queue[i + 1]
    BY <1>1, HeadTailProperties
  <1>5. \A i \in 1 .. Len(Tail(queue)) : i + 1 \in 1 .. Len(queue)
    BY <1>2, <1>4
  <1>6. 1 \in 1 .. Len(queue)
    BY <1>2
  <1> QED
    BY <1>1, <1>3, <1>4, <1>5, <1>6 DEF VenueKnows, Incoming

LEMMA CallSteps ==
  ASSUME SessionInv, NEW c \in wire,
         VenueSubmit(c) \/ VenueCancel(c) \/ VenueQuery(c) \/ Resume(c)
  PROVE  SessionInv' /\ Keeps
  <1>1. /\ EngineInv /\ c \in Call /\ c.order \in OrderIds /\ orders[c.order] # None
        /\ orders[c.order] \in Order /\ orders[c.order].key \in Keys
    BY DEF SessionInv, EngineInv, EngineTypeOK, Call, CallsKnown, Order
  <1>2. CASE VenueSubmit(c)
    <2> DEFINE k == orders[c.order].key
               reply == [bid |-> AckOfKey(acks', k).bid, status |-> AckOfKey(acks', k).status]
    <2>1. CASE Refuse(k) /\ CallRaises(c, "rejected")
      <3>1. EngineInv' /\ Keeps
        BY <1>1, <2>1, BrokerRaises
      <3>2. UNCHANGED venueVars
        BY <2>1 DEF Refuse
      <3> QED
        BY <3>1, <3>2, VenueIdle DEF SessionInv
    <2>2. CASE FailTransiently(k) /\ CallRaises(c, "failed")
      <3>1. EngineInv' /\ Keeps
        BY <1>1, <2>2, BrokerRaises
      <3>2. orders' = orders
        BY <2>2 DEF CallRaises, memoryVars
      <3>3. /\ UNCHANGED <<acks, book, queue, seq>> /\ transientLeft > 0
            /\ transientLeft' = transientLeft - 1
        BY <2>2 DEF FailTransiently
      <3>4. VenueTypeOK' /\ VenueKnows'
        BY <3>2, <3>3 DEF SessionInv, VenueTypeOK, VenueKnows
      <3> QED
        BY <3>1, <3>4 DEF SessionInv
    <2>3. CASE Accept(k, c.order) /\ Answer(c, reply) /\ EngineIdle
      <3>1. orders' = orders
        BY <2>3 DEF EngineIdle, memoryVars
      <3>2. VenueTypeOK' /\ VenueKnows' /\ AckOfKey(acks', k) \in Ack
        BY <1>1, <2>3, <3>1, Accepts
      <3>3. reply \in Reply
        BY <3>2 DEF Ack, Reply
      <3> HIDE DEF reply, k
      <3>4. EngineInv' /\ Keeps
        <4>1. \A r \in Reply : Answer(c, r) => EngineInv' /\ Keeps
          BY <1>1, <2>3, VenueAnswers DEF EngineIdle
        <4>2. PICK r \in Reply : r = reply
          BY <3>3
        <4>3. Answer(c, r)
          BY <2>3, <4>2 DEF Answer
        <4> QED
          BY <4>1, <4>3
      <3> QED
        BY <3>2, <3>4 DEF SessionInv
    <2> QED
      BY <1>2, <2>1, <2>2, <2>3 DEF VenueSubmit
  <1>3. CASE VenueCancel(c)
    <2> DEFINE reply == [bid |-> c.bid, status |-> StatusOf(c.bid)']
    <2>1. CancelAtVenue(c.bid) /\ Answer(c, reply) /\ EngineIdle
      BY <1>3 DEF VenueCancel
    <2>2. orders' = orders
      BY <2>1 DEF EngineIdle, memoryVars
    <2>3. VenueTypeOK' /\ VenueKnows'
      BY <2>1, <2>2, CancelsAtVenue
    <2>4. StatusOf(c.bid)' \in Statuses
      BY <2>3 DEF StatusOf, KnowsBid, AckOfBid, VenueTypeOK, Ack, Statuses
    <2>5. reply \in Reply
      BY <1>1, <2>4 DEF Call, Reply
    <2> HIDE DEF reply
    <2>6. EngineInv' /\ Keeps
      <3>1. \A r \in Reply : Answer(c, r) => EngineInv' /\ Keeps
        BY <1>1, <2>1, VenueAnswers DEF EngineIdle
      <3>2. PICK r \in Reply : r = reply
        BY <2>5
      <3>3. Answer(c, r)
        BY <2>1, <3>2 DEF Answer
      <3> QED
        BY <3>1, <3>3
    <2> QED
      BY <2>3, <2>6 DEF SessionInv
  <1>4. CASE VenueQuery(c)
    <2> DEFINE reply == [bid |-> c.bid, status |-> StatusOf(c.bid)]
    <2>1. Answer(c, reply) /\ EngineIdle /\ UNCHANGED venueVars
      BY <1>4 DEF VenueQuery
    <2>2. StatusOf(c.bid) \in Statuses
      BY DEF SessionInv, StatusOf, KnowsBid, AckOfBid, VenueTypeOK, Ack, Statuses
    <2>3. reply \in Reply
      BY <1>1, <2>2 DEF Call, Reply
    <2> HIDE DEF reply
    <2>4. EngineInv' /\ Keeps
      <3>1. \A r \in Reply : Answer(c, r) => EngineInv' /\ Keeps
        BY <1>1, <2>1, VenueAnswers DEF EngineIdle
      <3>2. PICK r \in Reply : r = reply
        BY <2>3
      <3>3. Answer(c, r)
        BY <2>1, <3>2 DEF Answer
      <3> QED
        BY <3>1, <3>3
    <2> QED
      BY <2>1, <2>4, VenueIdle DEF SessionInv
  <1>5. CASE Resume(c)
    <2>1. EngineInv' /\ Keeps
      BY <1>1, <1>5, CallEnds DEF Resume
    <2>2. UNCHANGED venueVars
      BY <1>5 DEF Resume
    <2> QED
      BY <2>1, <2>2, VenueIdle DEF SessionInv
  <1> QED
    BY <1>2, <1>3, <1>4, <1>5

\* Every step of the session keeps the invariant and every confirmed order.
LEMMA SessionStep ==
  ASSUME SessionInv, [Next]_vars
  PROVE  SessionInv' /\ Keeps
  <1> USE DEF SessionInv
  <1>1. ASSUME NEW k \in Keys, Submit(k)
        PROVE  SessionInv' /\ Keeps
    <2>1. EngineInv' /\ Keeps
      BY <1>1, AnswersASubmit, Submits DEF Submit
    <2> QED
      BY <1>1, <2>1, VenueIdle DEF Submit
  <1>2. ASSUME NEW id \in OrderIds, Cancel(id) \/ Confirm(id)
        PROVE  SessionInv' /\ Keeps
    <2>1. EngineInv' /\ Keeps
      BY <1>2, CallsAgain DEF Cancel, Confirm
    <2> QED
      BY <1>2, <2>1, VenueIdle DEF Cancel, Confirm
  <1>3. CASE Report
    <2>1. \E reader \in Readers, theirs \in Int : TRUE
      BY DEF Readers
    <2>2. EngineInv' /\ Keeps
      BY <1>3, <2>1, Reconciliation DEF Report
    <2> QED
      BY <1>3, <2>2, VenueIdle DEF Report
  <1>4. ASSUME NEW r \in Readers, VenueSnapshot(r) \/ Reconciles(r)
        PROVE  SessionInv' /\ Keeps
    <2>1. PICK theirs \in Int : theirs = book
      BY DEF VenueTypeOK
    <2>2. SnapshotAnswered(r, theirs) \/ Reconcile(r)
      BY <1>4, <2>1 DEF VenueSnapshot, Reconciles, SnapshotAnswered
    <2>3. EngineInv' /\ Keeps
      BY <2>2, Reconciliation
    <2> QED
      BY <1>4, <2>3, VenueIdle DEF VenueSnapshot, Reconciles
  <1>5. ASSUME NEW a \in acks, DripTick(a)
        PROVE  SessionInv' /\ Keeps
    <2>1. EngineInv' /\ Keeps
      BY <1>5, EngineStutters DEF DripTick
    <2>2. orders' = orders
      BY <1>5 DEF DripTick, engineVars, memoryVars
    <2> QED
      BY <1>5, <2>1, <2>2, Drips DEF DripTick
  <1>6. CASE Consume
    <2>1. PICK f : f = Head(queue)
      OBVIOUS
    <2>2. /\ Incoming(f) /\ Tail(queue) \in Seq(Fill)
          /\ \A i \in 1 .. Len(Tail(queue)) : orders[Tail(queue)[i].order] # None
      BY <1>6, <2>1, HeadOfQueue DEF Consume, Incoming
    <2>3. OnFill(f)
      BY <1>6, <2>1 DEF Consume, OnFill, FillSeen, FillRefused, FillApplied, WriteFill, Recorded
    <2>4. EngineInv' /\ Keeps
      BY <2>2, <2>3, HandlesFill
    <2>5. queue' = Tail(queue) /\ UNCHANGED <<acks, book, seq, transientLeft>>
      BY <1>6 DEF Consume
    <2>6. VenueTypeOK'
      BY <2>2, <2>5 DEF VenueTypeOK
    <2>7. VenueKnows'
      <3>1. \A id \in OrderIds : orders[id] # None => orders'[id] # None
        BY <2>4 DEF Keeps, KeepsKeys, Created
      <3>2. \A a \in acks : a.order \in OrderIds
        BY DEF VenueTypeOK, Ack
      <3>3. \A i \in 1 .. Len(Tail(queue)) : Tail(queue)[i] \in Fill
        BY <2>2
      <3>4. \A i \in 1 .. Len(Tail(queue)) : Tail(queue)[i].order \in OrderIds
        BY <3>3 DEF Fill
      <3> QED
        BY <2>2, <2>5, <3>1, <3>2, <3>4 DEF VenueKnows
    <2> QED
      BY <2>4, <2>6, <2>7
  <1>7. CASE Dies
    <2>1. EngineInv' /\ Keeps
      <3>1. CASE Crash
        BY <3>1, Crashes
      <3>2. CASE Quiet /\ queue # <<>> /\ CrashInFill(Head(queue))
        <4>1. PICK f : f = Head(queue)
          OBVIOUS
        <4>2. Incoming(f)
          BY <3>2, <4>1, HeadOfQueue DEF Incoming
        <4>3. CrashInFill(f)
          BY <3>2, <4>1 DEF CrashInFill, WriteFill, Recorded
        <4> QED
          BY <4>2, <4>3, CrashesInFill
      <3> QED
        BY <1>7, <3>1, <3>2 DEF Dies
    <2>2. VenueTypeOK' /\ VenueKnows'
      BY <1>7, MockAssumption DEF Dies, VenueRestart, VenueTypeOK, VenueKnows
    <2> QED
      BY <2>1, <2>2
  <1>8. CASE UNCHANGED vars
    <2>1. EngineInv' /\ Keeps
      BY <1>8, EngineStutters DEF vars
    <2> QED
      BY <1>8, <2>1, VenueIdle DEF vars
  <1> QED
    BY <1>1, <1>2, <1>3, <1>4, <1>5, <1>6, <1>7, <1>8, CallSteps DEF Next

-----------------------------------------------------------------------------
\* The invariant holds throughout every session with the mock.
THEOREM MockInductive == Spec => []SessionInv
  <1>1. Init => SessionInv
    BY SessionInitial
  <1>2. SessionInv /\ [Next]_vars => SessionInv'
    BY SessionStep
  <1> QED
    BY <1>1, <1>2, PTL DEF Spec

\* The state of the engine and of the mock keeps its type.
THEOREM MockTypeCorrect == Spec => []TypeOK
  <1>1. SessionInv => TypeOK
    BY DEF SessionInv, EngineInv, TypeOK
  <1> QED
    BY <1>1, MockInductive, PTL

\* A key is dispatched once, however often it is submitted and the process dies.
THEOREM MockSendsOnce == Spec => []AtMostOnceSend
  <1>1. SessionInv => AtMostOnceSend
    BY DEF SessionInv, EngineInv
  <1> QED
    BY <1>1, MockInductive, PTL

\* No key ever has two orders, in memory or in the table.
THEOREM MockOneOrder == Spec => []OneOrderPerKey
  <1>1. SessionInv => OneOrderPerKey
    BY DEF SessionInv, EngineInv
  <1> QED
    BY <1>1, MockInductive, PTL

\* The position is the sum of the ledger, through crashes at any point.
THEOREM MockLedger == Spec => []LedgerIsPosition
  <1>1. SessionInv => LedgerIsPosition
    BY DEF SessionInv, EngineInv
  <1> QED
    BY <1>1, MockInductive, PTL

\* What the broker has confirmed stands, whatever happens later.
THEOREM MockConfirmedStands == Spec => ConfirmedStands
  <1>1. SessionInv /\ [Next]_vars => [KeepsConfirmed]_vars
    BY SessionStep DEF Keeps
  <1> QED
    BY <1>1, MockInductive, PTL DEF Spec, ConfirmedStands

\* With the mock the engine keeps the promise of Trading: every step of a session is
\* a dispatch, an entry in the ledger or a settlement, or nothing to Trading.
THEOREM MockImplementsTrading == Spec => ImplementsTrading
  <1>1. Init => Promise!Init
    BY PromiseInitial DEF Init
  <1>2. SessionInv /\ [Next]_vars => [Promise!Next]_(Promise!tradingVars)
    BY SessionStep DEF Keeps, KeepsPromise, Promise!tradingVars
  <1> QED
    BY <1>1, <1>2, MockInductive, PTL DEF Spec, ImplementsTrading, Promise!Spec
-----------------------------------------------------------------------------
(***************************************************************************)
(* The rows and the ledger.  Every row, and every order in memory, claims  *)
(* no execution that the ledger does not hold, because the mock publishes  *)
(* nothing of an order before it answers the submit, and is not refused    *)
(* by an order that has been acked.  The one refusal that counts a fill    *)
(* all the same, that of an order still NEW, does not happen here.         *)
(***************************************************************************)

\* o, a row or the order of id in memory, counts what the ledger holds for it.
CountsLedger(id, o) ==
  /\ Coherent(o)
  /\ o.filled <= Executed(FillsOf(id))
  /\ crashes = 0 => o.filled = Executed(FillsOf(id))

RowsBooked ==
  \A id \in OrderIds : orders[id] # None =>
    CountsLedger(id, orders[id]) /\ CountsLedger(id, dbOrders[id])

LedgerKnown == \A f \in dbFills : orders[f.order] # None

\* The reply to a submit of the order is on its way.
AckDue(id) == \E c \in wire : c.op = "submit" /\ c.reply # None /\ c.order = id

\* An order at the venue has been acked, or is about to be before anything else.
AcksDue ==
  \A a \in acks : a.status # "NEW" /\ (orders[a.order].status = "NEW" => AckDue(a.order))

RepliesMove == \A c \in wire : c.reply # None => c.reply.status # "NEW"

QueueAcked == \A i \in 1 .. Len(queue) : \E a \in acks : a.order = queue[i].order

AckInv == AcksDue /\ RepliesMove /\ QueueAcked

BookInv == SessionInv /\ RowsBooked /\ LedgerKnown /\ AckInv

LEMMA LedgerOfOrder ==
  ASSUME SessionInv, NEW id
  PROVE  /\ FillsOf(id) \in SUBSET Fill /\ IsFiniteSet(FillsOf(id))
         /\ Executed(FillsOf(id)) \in Nat
  <1>1. dbFills \in SUBSET Fill /\ IsFiniteSet(dbFills)
    BY DEF SessionInv, EngineInv, EngineTypeOK
  <1>2. FillsOf(id) \in SUBSET Fill /\ IsFiniteSet(FillsOf(id))
    BY <1>1, FS_Subset DEF FillsOf
  <1> QED
    BY <1>2, ExecutedType

\* A fill that memory has not seen adds its quantity to the ledger of its order.
LEMMA LedgerOfOrderGrows ==
  ASSUME SessionInv, NEW f, Incoming(f), f.exec \notin seen,
         dbFills' = Recorded(dbFills, f), NEW id
  PROVE  Executed(FillsOf(id)') = Executed(FillsOf(id)) + (IF id = f.order THEN f.qty ELSE 0)
  <1>1. dbFills' = dbFills \cup {f} /\ f \in Fill /\ f \notin dbFills
    BY NewToLedger DEF SessionInv, EngineInv, LedgerSeen, Incoming
  <1>2. CASE id = f.order
    <2>1. FillsOf(id)' = FillsOf(id) \cup {f} /\ f \notin FillsOf(id)
      BY <1>1, <1>2 DEF FillsOf
    <2>2. Executed(FillsOf(id) \cup {f}) = Executed(FillsOf(id)) + f.qty
      BY <1>1, <2>1, LedgerOfOrder, ExecutedAdd
    <2> QED
      BY <1>2, <2>1, <2>2
  <1>3. CASE id # f.order
    <2>1. FillsOf(id)' = FillsOf(id)
      BY <1>1, <1>3 DEF FillsOf
    <2> QED
      BY <1>3, <2>1, LedgerOfOrder
  <1> QED
    BY <1>2, <1>3

LEMMA RowsStay ==
  ASSUME BookInv, UNCHANGED <<orders, dbOrders, dbFills, crashes>>
  PROVE  RowsBooked' /\ LedgerKnown'
BY DEF BookInv, RowsBooked, CountsLedger, FillsOf, LedgerKnown

\* An order turns into p, which counts the same executions.
LEMMA RowIsRewritten ==
  ASSUME BookInv, NEW id \in OrderIds, orders[id] # None,
         NEW p \in Order, Coherent(p), p.filled = orders[id].filled,
         orders' = [orders EXCEPT ![id] = p],
         dbOrders' = [dbOrders EXCEPT ![id] = p] \/ dbOrders' = dbOrders,
         UNCHANGED <<dbFills, crashes>>
  PROVE  RowsBooked' /\ LedgerKnown'
  <1>1. /\ orders \in [OrderIds -> Order \cup {None}]
        /\ dbOrders \in [OrderIds -> Order \cup {None}]
        /\ dbFills \in SUBSET Fill
    BY DEF BookInv, SessionInv, EngineInv, EngineTypeOK
  <1>2. \A i \in OrderIds :
          /\ orders'[i] = IF i = id THEN p ELSE orders[i]
          /\ dbOrders'[i] = dbOrders[i] \/ (i = id /\ dbOrders'[i] = p)
    BY <1>1
  <1>3. \A i, o : CountsLedger(i, o) => CountsLedger(i, o)'
    BY DEF CountsLedger, FillsOf
  <1>4. CountsLedger(id, p)
    BY DEF BookInv, RowsBooked, CountsLedger
  <1>5. RowsBooked'
    BY <1>2, <1>3, <1>4 DEF BookInv, RowsBooked
  <1>6. LedgerKnown'
    BY <1>1, <1>2, NoneAssumption DEF BookInv, LedgerKnown, Fill
  <1> QED
    BY <1>5, <1>6

\* The venue gives no sign, and nothing that awaits an ack gets lost.
LEMMA AcksStay ==
  ASSUME BookInv, UNCHANGED <<acks, queue>>,
         \A id \in OrderIds : orders[id] # None /\ orders'[id].status = "NEW" =>
           orders[id].status = "NEW" /\ (AckDue(id) => AckDue(id)'),
         \A c \in wire' : c \in wire \/ c.reply = None
  PROVE  AckInv'
  <1>1. \A a \in acks : a.order \in OrderIds /\ orders[a.order] # None
    BY DEF BookInv, SessionInv, VenueTypeOK, VenueKnows, Ack
  <1>2. AcksDue'
    BY <1>1 DEF BookInv, AckInv, AcksDue
  <1>3. RepliesMove' /\ QueueAcked'
    BY DEF BookInv, AckInv, RepliesMove, QueueAcked
  <1> QED
    BY <1>2, <1>3 DEF AckInv

LEMMA SubmitsBooked ==
  ASSUME BookInv, UNCHANGED venueVars, NEW k \in Keys, SubmitBegin(k)
  PROVE  RowsBooked' /\ LedgerKnown' /\ AckInv'
  <1> DEFINE id == CHOOSE new \in OrderIds \ Created : TRUE
             o  == [key |-> k, status |-> "NEW", qty |-> QtyOf[k],
                    filled |-> 0, confirmed |-> FALSE, bid |-> None]
             call == [op |-> "submit", order |-> id, bid |-> None, reply |-> None]
  <1>1. id \in OrderIds /\ orders[id] = None
    <2>1. OrderIds \ Created # {}
      BY DEF SubmitBegin
    <2>2. id \in OrderIds \ Created
      BY <2>1
    <2> QED
      BY <2>2 DEF Created
  <1>2. /\ orders' = [orders EXCEPT ![id] = o]
        /\ dbOrders' = [dbOrders EXCEPT ![id] = orders'[id]]
        /\ wire' = wire \cup {call} /\ UNCHANGED <<dbFills, crashes>>
    BY DEF SubmitBegin, SaveOrder, Send
  <1>3. /\ orders \in [OrderIds -> Order \cup {None}]
        /\ dbOrders \in [OrderIds -> Order \cup {None}]
        /\ dbFills \in SUBSET Fill
    BY DEF BookInv, SessionInv, EngineInv, EngineTypeOK
  <1>4. call.reply = None /\ Coherent(o) /\ o.filled = 0
    BY DEF Coherent
  <1> HIDE DEF id, o, call
  <1>5. \A i \in OrderIds :
          /\ orders'[i] = IF i = id THEN o ELSE orders[i]
          /\ dbOrders'[i] = IF i = id THEN o ELSE dbOrders[i]
    BY <1>1, <1>2, <1>3
  <1>6. \A i, r : CountsLedger(i, r) => CountsLedger(i, r)'
    BY <1>2 DEF CountsLedger, FillsOf
  <1>7. CountsLedger(id, o)
    <2>1. FillsOf(id) = {}
      BY <1>1 DEF BookInv, LedgerKnown, FillsOf
    <2> QED
      BY <1>4, <2>1, ExecutedEmpty DEF CountsLedger
  <1>8. RowsBooked'
    BY <1>5, <1>6, <1>7 DEF BookInv, RowsBooked
  <1>9. LedgerKnown'
    <2>1. \A f \in dbFills : f.order \in OrderIds /\ f.order # id
      BY <1>1, <1>3 DEF BookInv, LedgerKnown, Fill
    <2> QED
      BY <1>2, <1>5, <2>1 DEF BookInv, LedgerKnown
  <1>10. AckInv'
    <2>1. \A i : AckDue(i) => AckDue(i)'
      BY <1>2 DEF AckDue
    <2> QED
      BY <1>1, <1>2, <1>4, <1>5, <2>1, AcksStay DEF venueVars
  <1> QED
    BY <1>8, <1>9, <1>10

\* A fill that the venue publishes is of an order it has an ack of.
LEMMA PublishesAcked ==
  ASSUME BookInv, NEW f, Publish(f), NEW b \in acks', b.order = f.order,
         \A a \in acks : \E d \in acks' : d.order = a.order
  PROVE  QueueAcked'
  <1>1. queue \in Seq(Fill) /\ queue' = Append(queue, f)
    BY DEF BookInv, SessionInv, VenueTypeOK, Publish
  <1>2. /\ Len(queue) \in Nat /\ Len(queue') = Len(queue) + 1
        /\ \A i \in 1 .. Len(queue) : queue'[i] = queue[i]
        /\ queue'[Len(queue) + 1] = f
    BY <1>1, AppendProperties
  <1> SUFFICES ASSUME NEW i \in 1 .. Len(queue')
               PROVE  \E a \in acks' : a.order = queue'[i].order
    BY DEF QueueAcked
  <1>3. CASE i \in 1 .. Len(queue)
    BY <1>2, <1>3 DEF BookInv, AckInv, QueueAcked
  <1>4. CASE i = Len(queue) + 1
    BY <1>2, <1>4
  <1> QED
    BY <1>2, <1>3, <1>4

LEMMA DripsAcked ==
  ASSUME BookInv, NEW a \in acks, DripTick(a)
  PROVE  AckInv'
  <1> DEFINE f == NewFill(seq + 1, a.order, a.key, NextSlice(a))
  <1>1. UNCHANGED <<orders, wire>>
    BY DEF DripTick, engineVars, memoryVars
  <1>2. PICK b : /\ acks' = (acks \ {a}) \cup {b}
                 /\ b.order = a.order /\ b.status \in {"FILLED", "PARTIALLY_FILLED"}
    <2> DEFINE filled == a.filled + NextSlice(a)
               status == IF filled >= QtyOf[a.key] THEN "FILLED" ELSE "PARTIALLY_FILLED"
               d == [a EXCEPT !.status = status, !.filled = filled, !.slices = @ + 1]
    <2>1. a \in Ack
      BY DEF BookInv, SessionInv, VenueTypeOK
    <2>2. acks' = (acks \ {a}) \cup {d}
      BY DEF DripTick, Drip, Update
    <2>3. d.order = a.order /\ d.status = status
      BY <2>1 DEF Ack
    <2> HIDE DEF d
    <2> QED
      BY <2>2, <2>3
  <1>3. Publish(f) /\ f.order = a.order
    BY DEF DripTick, Drip, NewFill
  <1> HIDE DEF f
  <1>4. QueueAcked'
    BY <1>2, <1>3, PublishesAcked
  <1>5. \A i : AckDue(i) => AckDue(i)'
    BY <1>1 DEF AckDue
  <1>6. AcksDue' /\ RepliesMove'
    BY <1>1, <1>2, <1>5 DEF BookInv, AckInv, AcksDue, RepliesMove
  <1> QED
    BY <1>4, <1>6 DEF AckInv

\* The venue answers a call: the order's ack, if it is new, is on its way.
LEMMA AnswersAcked ==
  ASSUME BookInv, NEW c \in wire, NEW reply \in Reply, Answer(c, reply),
         reply.status # "NEW", c.reply = None, orders' = orders,
         \A a \in acks' : a.status # "NEW" /\ (\/ c.op = "submit" /\ a.order = c.order
                                            \/ \E d \in acks : d.order = a.order),
         QueueAcked'
  PROVE  AckInv'
  <1>1. c \in Call
    BY DEF BookInv, SessionInv, EngineInv, EngineTypeOK
  <1>2. PICK d : d = [c EXCEPT !.reply = reply]
    OBVIOUS
  <1>3. d.order = c.order /\ d.op = c.op /\ d.reply = reply /\ d.reply # None
    BY <1>1, <1>2, NoneAssumption DEF Call
  <1>4. wire' = (wire \ {c}) \cup {d}
    BY <1>2 DEF Answer
  <1>5. \A i : AckDue(i) => AckDue(i)'
    BY <1>4 DEF AckDue
  <1>6. c.op = "submit" => AckDue(c.order)'
    BY <1>3, <1>4 DEF AckDue
  <1>7. AcksDue'
    BY <1>5, <1>6 DEF BookInv, AckInv, AcksDue
  <1>8. RepliesMove'
    BY <1>3, <1>4 DEF BookInv, AckInv, RepliesMove
  <1> QED
    BY <1>7, <1>8 DEF AckInv

LEMMA AcceptsAcked ==
  ASSUME BookInv, orders' = orders, NEW c \in wire, NEW reply, c.op = "submit", c.reply = None,
         Accept(orders[c.order].key, c.order), Answer(c, reply),
         reply = [bid |-> AckOfKey(acks', orders[c.order].key).bid,
                  status |-> AckOfKey(acks', orders[c.order].key).status]
  PROVE  AckInv'
  <1> DEFINE id == c.order
             k  == orders[c.order].key
  <1>1. id \in OrderIds /\ orders[id] # None /\ k \in Keys
    BY DEF BookInv, SessionInv, EngineInv, EngineTypeOK, CallsKnown, Call, Order
  <1>2. AckOfKey(acks', k) \in Ack
    BY <1>1, Accepts DEF BookInv
  <1>3. /\ \A a \in acks' : a.status # "NEW" /\ (a.order = id \/ \E d \in acks : d.order = a.order)
        /\ QueueAcked' /\ (\E a \in acks' : a.key = k)
    <2>1. CASE KnowsKey(k)
      <3>1. UNCHANGED venueVars
        BY <2>1 DEF Accept
      <3> QED
        BY <2>1, <3>1 DEF venueVars, BookInv, AckInv, AcksDue, QueueAcked, KnowsKey
    <2>2. CASE ~KnowsKey(k) /\ Slices <= 1
      <3> DEFINE a == [bid |-> seq + 1, key |-> k, order |-> id, status |-> "FILLED",
                       filled |-> QtyOf[k], slices |-> Slices]
                 f == NewFill(seq + 2, id, k, QtyOf[k])
      <3>1. acks' = acks \cup {a} /\ Publish(f)
        BY <2>2 DEF Accept
      <3>2. a.order = id /\ a.key = k /\ a.status = "FILLED" /\ f.order = id
        BY DEF NewFill
      <3> HIDE DEF a, f
      <3>3. a \in acks'
        BY <3>1
      <3>4. QueueAcked'
        BY <3>1, <3>2, <3>3, PublishesAcked
      <3> QED
        BY <3>1, <3>2, <3>4 DEF BookInv, AckInv, AcksDue
    <2>3. CASE ~KnowsKey(k) /\ ~(Slices <= 1)
      <3> DEFINE a == [bid |-> seq + 1, key |-> k, order |-> id, status |-> "WORKING",
                       filled |-> 0, slices |-> 0]
      <3>1. acks' = acks \cup {a} /\ queue' = queue
        BY <2>3 DEF Accept
      <3>2. a.order = id /\ a.key = k /\ a.status = "WORKING"
        OBVIOUS
      <3> HIDE DEF a
      <3> QED
        BY <3>1, <3>2 DEF BookInv, AckInv, AcksDue, QueueAcked
    <2> QED
      BY <2>1, <2>2, <2>3
  <1>4. AckOfKey(acks', k) \in acks'
    BY <1>3 DEF AckOfKey
  <1>5. reply \in Reply /\ reply.status # "NEW"
    BY <1>2, <1>3, <1>4 DEF Ack, Reply
  <1> QED
    BY <1>3, <1>5, AnswersAcked

LEMMA CancelsAcked ==
  ASSUME BookInv, orders' = orders, NEW c \in wire, NEW reply, c.op = "cancel", c.reply = None,
         CancelAtVenue(c.bid), Answer(c, reply),
         reply = [bid |-> c.bid, status |-> StatusOf(c.bid)']
  PROVE  AckInv'
  <1>1. VenueTypeOK'
    BY CancelsAtVenue DEF BookInv
  <1>2. \A a \in acks' : a.status # "NEW" /\ \E d \in acks : d.order = a.order
    <2>1. CASE KnowsBid(c.bid) /\ IsOpen(AckOfBid(c.bid).status)
      <3>1. PICK a \in acks : a = AckOfBid(c.bid)
        BY <2>1 DEF KnowsBid, AckOfBid
      <3> DEFINE b == [a EXCEPT !.status = "CANCELLED"]
      <3>2. acks' = (acks \ {a}) \cup {b}
        BY <2>1, <3>1 DEF CancelAtVenue, Update
      <3>3. b.order = a.order /\ b.status = "CANCELLED"
        BY DEF BookInv, SessionInv, VenueTypeOK, Ack
      <3> HIDE DEF b
      <3> QED
        BY <3>2, <3>3 DEF BookInv, AckInv, AcksDue
    <2>2. CASE ~(KnowsBid(c.bid) /\ IsOpen(AckOfBid(c.bid).status))
      BY <2>2 DEF CancelAtVenue, BookInv, AckInv, AcksDue
    <2> QED
      BY <2>1, <2>2
  <1>3. QueueAcked'
    <2>1. queue' = queue
      BY DEF CancelAtVenue
    <2>2. \A a \in acks : \E d \in acks' : d.order = a.order
      <3>1. CASE KnowsBid(c.bid) /\ IsOpen(AckOfBid(c.bid).status)
        <4>1. PICK a \in acks : a = AckOfBid(c.bid)
          BY <3>1 DEF KnowsBid, AckOfBid
        <4> DEFINE b == [a EXCEPT !.status = "CANCELLED"]
        <4>2. acks' = (acks \ {a}) \cup {b}
          BY <3>1, <4>1 DEF CancelAtVenue, Update
        <4>3. b.order = a.order
          BY DEF BookInv, SessionInv, VenueTypeOK, Ack
        <4> HIDE DEF b
        <4> QED
          BY <4>2, <4>3
      <3>2. CASE ~(KnowsBid(c.bid) /\ IsOpen(AckOfBid(c.bid).status))
        BY <3>2 DEF CancelAtVenue
      <3> QED
        BY <3>1, <3>2
    <2> QED
      BY <2>1, <2>2 DEF BookInv, AckInv, QueueAcked
  <1>4. c.bid \in Nat \cup {None}
    BY DEF BookInv, SessionInv, EngineInv, EngineTypeOK, Call
  <1>5. reply \in Reply /\ reply.status # "NEW"
    BY <1>1, <1>2, <1>4 DEF StatusOf, KnowsBid, AckOfBid, VenueTypeOK, Ack, Reply, Statuses
  <1> QED
    BY <1>2, <1>3, <1>5, AnswersAcked

LEMMA QueriesAcked ==
  ASSUME BookInv, UNCHANGED <<orders, venueVars>>, NEW c \in wire, NEW reply, c.reply = None,
         Answer(c, reply), reply = [bid |-> c.bid, status |-> StatusOf(c.bid)]
  PROVE  AckInv'
  <1>1. c.bid \in Nat \cup {None} /\ VenueTypeOK
    BY DEF BookInv, SessionInv, EngineInv, EngineTypeOK, Call
  <1>2. reply \in Reply /\ reply.status # "NEW"
    BY <1>1 DEF BookInv, AckInv, AcksDue, StatusOf, KnowsBid, AckOfBid, VenueTypeOK, Ack,
                Reply, Statuses
  <1>3. QueueAcked' /\ acks' = acks
    BY DEF BookInv, AckInv, QueueAcked, venueVars
  <1> QED
    BY <1>2, <1>3, AnswersAcked DEF BookInv, AckInv, AcksDue

\* A call that returns: what the broker said leaves the order coherent, and an ack
\* ends its being NEW.
LEMMA ResumesBooked ==
  ASSUME BookInv, NEW c \in wire, Resume(c)
  PROVE  RowsBooked' /\ LedgerKnown' /\ AckInv'
  <1> DEFINE id == c.order
             o  == orders[id]
             p  == orders'[id]
  <1>1. /\ c \in Call /\ id \in OrderIds /\ o # None /\ o \in Order /\ Sane(o)
        /\ orders \in [OrderIds -> Order \cup {None}]
    BY DEF BookInv, SessionInv, EngineInv, EngineTypeOK, Call, CallsKnown, SavedOrders, Saved
  <1>2. c.reply \in Reply /\ c.reply.status \in Statuses /\ c.reply.status # "NEW"
    BY <1>1 DEF Call, Reply, Resume, SubmitEnd, CancelEnd, ConfirmEnd, BookInv, AckInv, RepliesMove
  <1>3. Coherent(o)
    BY <1>1 DEF BookInv, RowsBooked, CountsLedger
  <1>4. wire' = wire \ {c} /\ UNCHANGED <<acks, queue, dbFills, crashes>>
    BY DEF Resume, SubmitEnd, CancelEnd, ConfirmEnd, SaveOrder, dbVars, historyVars, venueVars
  <1>5. /\ p \in Order /\ Coherent(p) /\ p.filled = o.filled
        /\ p.status = "NEW" => o.status = "NEW" /\ c.op # "submit"
        /\ orders' = [orders EXCEPT ![id] = p]
        /\ dbOrders' = [dbOrders EXCEPT ![id] = p] \/ dbOrders' = dbOrders
    <2>1. CASE SubmitEnd(c)
      <3> DEFINE q == ApplyAck(o, c.reply).order
      <3>1. q \in Order /\ Coherent(q) /\ q.status # "NEW" /\ q.filled = o.filled
        BY <1>1, <1>2, <1>3, SoftApplyAck, AckIsCoherent, AckKeepsTerms DEF Soft
      <3>2. orders' = [orders EXCEPT ![id] = q] /\ p = q
        BY <1>1, <2>1 DEF SubmitEnd
      <3>3. dbOrders' = [dbOrders EXCEPT ![id] = p] \/ dbOrders' = dbOrders
        BY <2>1 DEF SubmitEnd, SaveOrder, dbVars
      <3> HIDE DEF p, q, o
      <3> QED
        BY <3>1, <3>2, <3>3
    <2>2. CASE CancelEnd(c)
      <3> DEFINE q == CancelOutcome(o, c.reply).order
      <3>1. q \in Order
        BY <1>1, <1>2, SoftCancelOutcome DEF Soft
      <3>2. Coherent(q) /\ (q.status = "NEW" => o.status = "NEW") /\ q.filled = o.filled
        BY <1>1, <1>3, CancelIsCoherent, CancelKeepsTerms DEF CancelOutcome, Returned
      <3>3. orders' = [orders EXCEPT ![id] = q] /\ p = q
        BY <1>1, <2>2 DEF CancelEnd
      <3>4. dbOrders' = [dbOrders EXCEPT ![id] = p] \/ dbOrders' = dbOrders
        BY <2>2 DEF CancelEnd, SaveOrder, dbVars
      <3>5. c.op # "submit"
        BY <2>2 DEF CancelEnd
      <3> HIDE DEF p, q, o
      <3> QED
        BY <3>1, <3>2, <3>3, <3>4, <3>5
    <2>3. CASE ConfirmEnd(c)
      <3> DEFINE q == ConfirmTerminal(o, c.reply.status)
      <3>1. /\ q \in Order /\ q.filled = o.filled /\ Coherent(q)
            /\ q.status = "NEW" => o.status = "NEW"
        BY <1>1, <1>2, <1>3, VerdictIsSane, VerdictIsCoherent
      <3>2. orders' = [orders EXCEPT ![id] = q] /\ p = q
        BY <1>1, <2>3 DEF ConfirmEnd
      <3>3. dbOrders' = [dbOrders EXCEPT ![id] = p] /\ c.op # "submit"
        BY <2>3 DEF ConfirmEnd, SaveOrder
      <3> HIDE DEF p, q, o
      <3> QED
        BY <3>1, <3>2, <3>3
    <2> QED
      BY <2>1, <2>2, <2>3 DEF Resume
  <1> HIDE DEF p, o, id
  <1>6. RowsBooked' /\ LedgerKnown'
    BY <1>1, <1>4, <1>5, RowIsRewritten DEF o
  <1>7. \A i \in OrderIds : orders'[i] = IF i = id THEN p ELSE orders[i]
    BY <1>1, <1>5
  <1>8. \A i \in OrderIds : orders'[i].status = "NEW" =>
          orders[i].status = "NEW" /\ (AckDue(i) => AckDue(i)')
    <2> SUFFICES ASSUME NEW i \in OrderIds, orders'[i].status = "NEW"
                 PROVE  orders[i].status = "NEW" /\ (AckDue(i) => AckDue(i)')
      OBVIOUS
    <2>1. orders[i].status = "NEW"
      BY <1>5, <1>7 DEF o
    <2>2. i = id => c.op # "submit"
      BY <1>5, <1>7
    <2>3. AckDue(i) => AckDue(i)'
      BY <1>4, <2>2 DEF AckDue, id
    <2> QED
      BY <2>1, <2>3
  <1>9. AckInv'
    BY <1>4, <1>8, AcksStay
  <1> QED
    BY <1>6, <1>9

\* The order of a queued fill has been acked by the time the fill is taken off.
LEMMA HeadIsAcked ==
  ASSUME BookInv, Quiet, queue # <<>>
  PROVE  /\ Incoming(Head(queue))
         /\ orders[Head(queue).order].status # "NEW"
         /\ \A i \in 1 .. Len(Tail(queue)) : Tail(queue)[i] = queue[i + 1] /\ i + 1 \in 1 .. Len(queue)
  <1>1. queue \in Seq(Fill)
    BY DEF BookInv, SessionInv, VenueTypeOK
  <1>2. Len(queue) \in Nat \ {0} /\ Head(queue) = queue[1]
    BY <1>1, EmptySeq
  <1>3. PICK a \in acks : a.order = Head(queue).order
    BY <1>2 DEF BookInv, AckInv, QueueAcked
  <1>4. orders[Head(queue).order].status # "NEW"
    BY <1>3 DEF BookInv, AckInv, AcksDue, AckDue, Quiet
  <1>5. /\ Len(Tail(queue)) = Len(queue) - 1
        /\ \A i \in 1 .. Len(Tail(queue)) : Tail(queue)[i] = queue[i + 1]
    BY <1>1, <1>2, HeadTailProperties
  <1> QED
    BY <1>2, <1>4, <1>5, HeadOfQueue DEF BookInv

\* What a fill makes of the rows, when all or some of on_fill is committed.
LEMMA FillIsBooked ==
  ASSUME BookInv, NEW f, Incoming(f), f.exec \notin seen,
         ApplyFill(orders[f.order], f.qty).raised = "none",
         dbFills' = Recorded(dbFills, f),
         LET p == ApplyFill(orders[f.order], f.qty).order
         IN  /\ \/ dbOrders' = [dbOrders EXCEPT ![f.order] = p]
                \/ dbOrders' = dbOrders /\ crashes' # 0
             /\ \/ orders' = [orders EXCEPT ![f.order] = p]
                \/ orders' = dbOrders',
         crashes' = crashes \/ crashes' # 0
  PROVE  RowsBooked' /\ LedgerKnown'
  <1> DEFINE id == f.order
  <1>0. PICK o, p : o = orders[id] /\ p = ApplyFill(o, f.qty).order
    OBVIOUS
  <1>1. /\ id \in OrderIds /\ o # None /\ o \in Order /\ f.qty \in Nat \ {0} /\ p \in Order
        /\ f \in Fill
    BY <1>0, IncomingFill DEF BookInv, SessionInv, Incoming, Soft
  <1>2. Coherent(o) /\ p.filled = o.filled + f.qty /\ Coherent(p)
    BY <1>0, <1>1, FillOutcome DEF BookInv, RowsBooked, CountsLedger
  <1>3. /\ orders \in [OrderIds -> Order \cup {None}]
        /\ dbOrders \in [OrderIds -> Order \cup {None}]
    BY DEF BookInv, SessionInv, EngineInv, EngineTypeOK
  <1>4. \A i \in OrderIds : orders[i] = None <=> dbOrders[i] = None
    BY DEF BookInv, SessionInv, EngineInv, SavedOrders
  <1>5. \A i \in OrderIds :
          /\ \/ i = id /\ dbOrders'[i] = p
             \/ dbOrders'[i] = dbOrders[i] /\ (i = id => crashes' # 0)
          /\ \/ orders'[i] = dbOrders'[i]
             \/ orders'[i] = IF i = id THEN p ELSE orders[i]
    BY <1>0, <1>1, <1>3
  <1>6. ASSUME NEW i, NEW q \in Order, CountsLedger(i, q), i # id \/ crashes' # 0
        PROVE  CountsLedger(i, q)'
    <2>1. Executed(FillsOf(i)') = Executed(FillsOf(i)) + (IF i = id THEN f.qty ELSE 0)
      BY LedgerOfOrderGrows DEF BookInv
    <2>2. Executed(FillsOf(i)) \in Nat /\ q.filled \in Nat
      BY LedgerOfOrder DEF BookInv, Order
    <2>3. /\ q.filled <= Executed(FillsOf(i)')
          /\ crashes' = 0 => q.filled = Executed(FillsOf(i)')
      BY <1>1, <1>6, <2>1, <2>2 DEF CountsLedger
    <2> QED
      BY <1>6, <2>3 DEF CountsLedger
  <1>7. CountsLedger(id, p)'
    <2>1. Executed(FillsOf(id)') = Executed(FillsOf(id)) + f.qty
      BY LedgerOfOrderGrows DEF BookInv
    <2>2. Executed(FillsOf(id)) \in Nat /\ o.filled \in Nat /\ crashes \in Nat
      BY <1>1, LedgerOfOrder, EngineAssumption DEF BookInv, Order, SessionInv, EngineInv, EngineTypeOK
    <2>3. CountsLedger(id, o)
      BY <1>0, <1>1 DEF BookInv, RowsBooked
    <2>4. /\ p.filled <= Executed(FillsOf(id)')
          /\ crashes' = 0 => p.filled = Executed(FillsOf(id)')
      BY <1>1, <1>2, <2>1, <2>2, <2>3 DEF CountsLedger
    <2> QED
      BY <1>2, <2>4 DEF CountsLedger
  <1>8. RowsBooked'
    <2> SUFFICES ASSUME NEW i \in OrderIds, orders'[i] # None
                 PROVE  CountsLedger(i, orders[i])' /\ CountsLedger(i, dbOrders[i])'
      BY DEF RowsBooked
    <2>1. orders[i] # None /\ dbOrders[i] # None
      BY <1>0, <1>1, <1>4, <1>5
    <2>2. orders[i] \in Order /\ dbOrders[i] \in Order
      BY <1>3, <2>1
    <2>3. CountsLedger(i, orders[i]) /\ CountsLedger(i, dbOrders[i])
      BY <2>1 DEF BookInv, RowsBooked
    <2>4. CountsLedger(i, dbOrders[i])'
      BY <1>5, <1>6, <1>7, <2>2, <2>3
    <2>5. CASE i # id
      BY <1>5, <1>6, <2>2, <2>3, <2>4, <2>5
    <2>6. CASE i = id
      BY <1>5, <1>7, <2>4, <2>6
    <2> QED
      BY <2>4, <2>5, <2>6
  <1>9. LedgerKnown'
    <2>1. dbFills' = dbFills \cup {f} /\ dbFills \in SUBSET Fill
      BY NewToLedger DEF BookInv, SessionInv, EngineInv, EngineTypeOK
    <2>2. \A i \in OrderIds : orders[i] # None => orders'[i] # None
      BY <1>0, <1>1, <1>4, <1>5, NoneAssumption
    <2> QED
      BY <1>0, <1>1, <2>1, <2>2 DEF BookInv, LedgerKnown, Fill
  <1> QED
    BY <1>8, <1>9

LEMMA ConsumesBooked ==
  ASSUME BookInv, Consume
  PROVE  RowsBooked' /\ LedgerKnown' /\ AckInv'
  <1>1. PICK f : f = Head(queue)
    OBVIOUS
  <1> DEFINE id == f.order
             o  == orders[id]
             r  == ApplyFill(o, f.qty)
  <1>2. /\ Incoming(f) /\ o.status # "NEW" /\ queue' = Tail(queue)
        /\ \A i \in 1 .. Len(Tail(queue)) : Tail(queue)[i] = queue[i + 1] /\ i + 1 \in 1 .. Len(queue)
    BY <1>1, HeadIsAcked DEF Consume, Incoming
  <1>3. FillSeen(f) \/ FillRefused(f) \/ FillApplied(f)
    BY <1>1 DEF Consume, OnFill, FillSeen, FillRefused, FillApplied, WriteFill, Recorded
  <1>4. acks' = acks /\ wire' = wire
    BY <1>3 DEF Consume, FillSeen, FillRefused, FillApplied, engineVars
  <1>5. /\ id \in OrderIds /\ o # None /\ o \in Order /\ f.qty \in Nat \ {0}
        /\ Coherent(o) /\ orders \in [OrderIds -> Order \cup {None}]
    BY <1>2, IncomingFill DEF BookInv, SessionInv, EngineInv, EngineTypeOK, RowsBooked,
                              CountsLedger, Incoming
  <1>6. QueueAcked'
    BY <1>2, <1>4 DEF BookInv, AckInv, QueueAcked
  <1>7. CASE FillSeen(f)
    <2>1. UNCHANGED <<orders, dbOrders, dbFills, crashes>>
      BY <1>7 DEF FillSeen, engineVars, memoryVars, dbVars
    <2> QED
      BY <1>4, <1>6, <2>1, RowsStay DEF BookInv, AckInv, AcksDue, AckDue, RepliesMove
  <1>8. CASE FillRefused(f)
    <2>1. r.order = o
      BY <1>2, <1>5, <1>8, FillOutcome DEF FillRefused
    <2>2. orders' = [orders EXCEPT ![id] = o] /\ UNCHANGED <<dbOrders, dbFills, crashes>>
      BY <1>8, <2>1 DEF FillRefused, dbVars
    <2>3. orders' = orders
      BY <1>5, <2>2
    <2> QED
      BY <1>4, <1>6, <2>2, <2>3, RowsStay DEF BookInv, AckInv, AcksDue, AckDue, RepliesMove
  <1>9. CASE FillApplied(f)
    <2>1. /\ orders' = [orders EXCEPT ![id] = r.order]
          /\ dbOrders' = [dbOrders EXCEPT ![id] = r.order]
          /\ dbFills' = Recorded(dbFills, f) /\ crashes' = crashes
          /\ f.exec \notin seen /\ r.raised = "none"
      BY <1>9 DEF FillApplied, WriteFill
    <2>2. RowsBooked' /\ LedgerKnown'
      BY <1>2, <2>1, FillIsBooked
    <2>3. \A i \in OrderIds : orders'[i].status = "NEW" => orders[i].status = "NEW"
      BY <1>2, <1>5, <2>1, FillOutcome
    <2>4. \A a \in acks : a.order \in OrderIds
      BY DEF BookInv, SessionInv, VenueTypeOK, Ack
    <2>5. AcksDue' /\ RepliesMove'
      BY <1>4, <2>3, <2>4 DEF BookInv, AckInv, AcksDue, AckDue, RepliesMove
    <2> QED
      BY <1>6, <2>2, <2>5 DEF AckInv
  <1> QED
    BY <1>3, <1>7, <1>8, <1>9

\* The venue forgets everything with the process, the rows are what memory gets.
LEMMA DiesBooked ==
  ASSUME BookInv, Dies
  PROVE  RowsBooked' /\ LedgerKnown' /\ AckInv'
  <1>1. /\ Restart /\ orders' = dbOrders' /\ wire' = {} /\ acks' = {} /\ queue' = <<>>
        /\ crashes' = crashes + 1 /\ crashes \in Nat
    BY EngineAssumption DEF Dies, Crash, CrashInFill, Restart, Load, VenueRestart, BookInv,
                            SessionInv, EngineInv, EngineTypeOK
  <1>2. AckInv'
    BY <1>1 DEF AckInv, AcksDue, RepliesMove, QueueAcked
  <1>3. RowsBooked' /\ LedgerKnown'
    <2>1. CASE Crash
      <3>1. /\ UNCHANGED <<dbOrders, dbFills>> /\ orders' = dbOrders /\ dbFills \in SUBSET Fill
            /\ \A i \in OrderIds : orders[i] = None <=> dbOrders[i] = None
        BY <1>1, <2>1 DEF Crash, dbVars, BookInv, SessionInv, EngineInv, EngineTypeOK, SavedOrders
      <3>2. \A i, o : CountsLedger(i, o) => CountsLedger(i, o)'
        BY <1>1, <3>1 DEF CountsLedger, FillsOf
      <3> QED
        BY <3>1, <3>2 DEF BookInv, RowsBooked, LedgerKnown, Fill
    <2>2. CASE Quiet /\ queue # <<>> /\ CrashInFill(Head(queue))
      <3>1. PICK f : f = Head(queue)
        OBVIOUS
      <3>2. Incoming(f)
        BY <2>2, <3>1, HeadIsAcked DEF Incoming
      <3>3. /\ f.exec \notin seen /\ ApplyFill(orders[f.order], f.qty).raised = "none"
            /\ dbFills' = Recorded(dbFills, f)
            /\ \/ dbOrders' = dbOrders
               \/ dbOrders' = [dbOrders EXCEPT ![f.order] =
                                 ApplyFill(orders[f.order], f.qty).order]
        BY <2>2, <3>1 DEF CrashInFill, WriteFill
      <3>4. crashes' # 0
        BY <1>1
      <3> QED
        BY <1>1, <3>2, <3>3, <3>4, FillIsBooked
    <2> QED
      BY <2>1, <2>2 DEF Dies
  <1> QED
    BY <1>2, <1>3

\* Every step of the session keeps the rows with the ledger.
LEMMA BookStep ==
  ASSUME BookInv, [Next]_vars
  PROVE  BookInv'
  <1>1. SessionInv'
    BY SessionStep DEF BookInv
  <1>2. SUFFICES RowsBooked' /\ LedgerKnown' /\ AckInv'
    BY <1>1 DEF BookInv
  <1>3. ASSUME UNCHANGED <<orders, dbOrders, dbFills, crashes, acks, queue>>,
               \A c \in wire' : c \in wire \/ c.reply = None,
               \A c \in wire : c.reply # None => c \in wire'
        PROVE  RowsBooked' /\ LedgerKnown' /\ AckInv'
    <2>1. \A id : AckDue(id) => AckDue(id)'
      BY <1>3 DEF AckDue
    <2> QED
      BY <1>3, <2>1, RowsStay, AcksStay
  <1>4. ASSUME NEW k \in Keys, Submit(k)
        PROVE  RowsBooked' /\ LedgerKnown' /\ AckInv'
    <2>1. CASE SubmitBegin(k)
      BY <1>4, <2>1, SubmitsBooked DEF Submit
    <2>2. CASE SubmitOversell(k) \/ SubmitKnown(k)
      BY <1>3, <1>4, <2>2 DEF Submit, SubmitOversell, SubmitKnown, memoryVars, dbVars, venueVars
    <2> QED
      BY <1>4, <2>1, <2>2 DEF Submit
  <1>5. ASSUME NEW id \in OrderIds, Cancel(id) \/ Confirm(id)
        PROVE  RowsBooked' /\ LedgerKnown' /\ AckInv'
    <2>1. UNCHANGED <<orders, dbOrders, dbFills, crashes, acks, queue>>
      BY <1>5 DEF Cancel, Confirm, CancelBegin, ConfirmBegin, memoryVars, dbVars, venueVars
    <2>2. PICK op : wire' = wire \cup {[op |-> op, order |-> id, bid |-> orders[id].bid,
                                        reply |-> None]}
      BY <1>5 DEF Cancel, Confirm, CancelBegin, ConfirmBegin, Send
    <2> QED
      BY <1>3, <2>1, <2>2
  <1>6. CASE Report \/ (\E r \in Readers : VenueSnapshot(r) \/ Reconciles(r)) \/ UNCHANGED vars
    BY <1>3, <1>6 DEF Report, ReportBegin, VenueSnapshot, SnapshotAnswered, Reconciles, Reconcile,
                      vars, engineVars, memoryVars, dbVars, venueVars
  <1>7. ASSUME NEW c \in wire, VenueSubmit(c)
        PROVE  RowsBooked' /\ LedgerKnown' /\ AckInv'
    <2>1. c.op = "submit" /\ c.reply = None
      BY <1>7 DEF VenueSubmit
    <2>2. ASSUME NEW error, CallRaises(c, error), UNCHANGED <<acks, queue>>
          PROVE  RowsBooked' /\ LedgerKnown' /\ AckInv'
      BY <1>3, <2>1, <2>2 DEF CallRaises, memoryVars, dbVars
    <2>3. ASSUME Accept(orders[c.order].key, c.order), EngineIdle,
                 NEW reply, Answer(c, reply),
                 reply = [bid |-> AckOfKey(acks', orders[c.order].key).bid,
                          status |-> AckOfKey(acks', orders[c.order].key).status]
          PROVE  RowsBooked' /\ LedgerKnown' /\ AckInv'
      <3>1. UNCHANGED <<orders, dbOrders, dbFills, crashes>>
        BY <2>3 DEF EngineIdle, memoryVars, dbVars
      <3> QED
        BY <2>1, <2>3, <3>1, RowsStay, AcceptsAcked
    <2>4. PICK reply : reply = [bid |-> AckOfKey(acks', orders[c.order].key).bid,
                                status |-> AckOfKey(acks', orders[c.order].key).status]
      OBVIOUS
    <2>5. \/ Refuse(orders[c.order].key) /\ CallRaises(c, "rejected")
          \/ FailTransiently(orders[c.order].key) /\ CallRaises(c, "failed")
          \/ /\ Accept(orders[c.order].key, c.order) /\ EngineIdle
             /\ Answer(c, reply)
      BY <1>7, <2>4 DEF VenueSubmit, Answer
    <2> QED
      BY <2>2, <2>3, <2>4, <2>5 DEF Refuse, FailTransiently, venueVars
  <1>8. ASSUME NEW c \in wire, VenueCancel(c)
        PROVE  RowsBooked' /\ LedgerKnown' /\ AckInv'
    <2>1. PICK reply : reply = [bid |-> c.bid, status |-> StatusOf(c.bid)']
      OBVIOUS
    <2>2. /\ c.op = "cancel" /\ c.reply = None /\ CancelAtVenue(c.bid) /\ Answer(c, reply)
          /\ UNCHANGED <<orders, dbOrders, dbFills, crashes>>
      BY <1>8, <2>1 DEF VenueCancel, Answer, EngineIdle, memoryVars, dbVars
    <2> QED
      BY <2>1, <2>2, RowsStay, CancelsAcked
  <1>9. ASSUME NEW c \in wire, VenueQuery(c)
        PROVE  RowsBooked' /\ LedgerKnown' /\ AckInv'
    <2>1. PICK reply : reply = [bid |-> c.bid, status |-> StatusOf(c.bid)]
      OBVIOUS
    <2>2. /\ c.reply = None /\ Answer(c, reply)
          /\ UNCHANGED <<orders, dbOrders, dbFills, crashes, venueVars>>
      BY <1>9, <2>1 DEF VenueQuery, Answer, EngineIdle, memoryVars, dbVars
    <2> QED
      BY <2>1, <2>2, RowsStay, QueriesAcked
  <1>10. ASSUME NEW a \in acks, DripTick(a)
         PROVE  RowsBooked' /\ LedgerKnown' /\ AckInv'
    <2>1. UNCHANGED <<orders, dbOrders, dbFills, crashes>>
      BY <1>10 DEF DripTick, engineVars, memoryVars, dbVars
    <2> QED
      BY <1>10, <2>1, RowsStay, DripsAcked
  <1> QED
    BY <1>4, <1>5, <1>6, <1>7, <1>8, <1>9, <1>10, ResumesBooked, ConsumesBooked, DiesBooked
    DEF Next

LEMMA BookInitial == Init => BookInv
  <1> SUFFICES ASSUME Init PROVE BookInv
    OBVIOUS
  <1>1. SessionInv
    BY SessionInitial
  <1>2. RowsBooked /\ LedgerKnown /\ AckInv
    BY DEF Init, EngineInit, VenueInit, RowsBooked, LedgerKnown, AckInv, AcksDue, RepliesMove,
           QueueAcked
  <1> QED
    BY <1>1, <1>2 DEF BookInv

\* The invariant of the rows and the ledger holds throughout every session.
THEOREM MockBookInductive == Spec => []BookInv
  <1>1. BookInv /\ [Next]_vars => BookInv'
    BY BookStep
  <1> QED
    BY <1>1, BookInitial, PTL DEF Spec

\* No row claims an execution that is not in the ledger, wherever a crash has
\* cut on_fill off; without a crash every row counts exactly what the ledger has.
THEOREM MockLedgerIsFirst == Spec => []LedgerIsFirst
  <1>1. BookInv => LedgerIsFirst
    BY DEF BookInv, SessionInv, EngineInv, SavedOrders, RowsBooked, CountsLedger, LedgerIsFirst
  <1> QED
    BY <1>1, MockBookInductive, PTL

\* While the process lives, what every order has counted is what the ledger holds
\* for it: no refused, repeated or interleaved fill is counted on one side only.
THEOREM MockOrderMatchesLedger ==
  ASSUME MaxCrashes = 0
  PROVE  Spec => []OrderMatchesLedger
  <1>1. BookInv => OrderMatchesLedger
    <2> SUFFICES ASSUME BookInv PROVE OrderMatchesLedger
      OBVIOUS
    <2>1. crashes = 0
      BY DEF BookInv, SessionInv, EngineInv, EngineTypeOK
    <2> QED
      BY <2>1 DEF BookInv, RowsBooked, CountsLedger, OrderMatchesLedger, Created
  <1> QED
    BY <1>1, MockBookInductive, PTL

-----------------------------------------------------------------------------
(***************************************************************************)
(* Drained, we agree with the venue.  Its book is always ahead of our      *)
(* position by exactly the fills in the queue; every one of them is new    *)
(* and fits its order, so none is refused; and the last fill to be         *)
(* consumed is reconciled after it, when nothing is ahead any more.  This  *)
(* is so while nobody has an order confirmed before its fills are here     *)
(* (MCMockConfirmEarly shows what happens then) and the process, which the *)
(* mock dies with, lives.                                                  *)
(***************************************************************************)

Queued == {queue[i] : i \in 1 .. Len(queue)}

QueuedOf(id) == {f \in Queued : f.order = id}

\* Nobody asks for the broker's verdict, so that no order is confirmed.
NoVerdict ==
  /\ \A c \in wire : c.op # "query_order"
  /\ \A id \in OrderIds : orders[id] # None => ~orders[id].confirmed

\* Every queued execution is new, and there once.
NewToUs ==
  /\ \A e \in seen : e <= seq
  /\ \A f \in Queued : f.exec <= seq /\ f.exec \notin seen
  /\ \A i, j \in 1 .. Len(queue) : queue[i].exec = queue[j].exec => i = j

\* An order is for what its intent is for, and fills only when the venue has it.
TermsHold ==
  \A id \in OrderIds : orders[id] # None =>
    /\ orders[id].qty = QtyOf[orders[id].key]
    /\ (\A a \in acks : a.order # id) => orders[id].filled = 0

\* What the venue has filled of an order, never too much, is what we have counted
\* and what is in the queue.
AcksAgree ==
  \A a \in acks :
    /\ a.key = orders[a.order].key
    /\ a.filled = orders[a.order].filled + Executed(QueuedOf(a.order))
    /\ a.filled <= QtyOf[a.key]
    /\ \A b \in acks : a.key = b.key => a = b

BookAhead == book = position + Net(Queued)

\* No snapshot is taken while a call is under way, none is stale when compared,
\* and a break that was found is looked at again.
Checking ==
  /\ wire # {} => \A r \in Readers : snap[r].stage = "idle"
  /\ \A r \in Readers : snap[r].stage = "answered" => snap[r].book = book
  /\ queue = <<>> /\ lastResult = "break" => \E r \in Readers : snap[r].stage # "idle"

AgreeInv == NoVerdict /\ NewToUs /\ TermsHold /\ AcksAgree /\ BookAhead

DrainInv == BookInv /\ AgreeInv /\ Checking

LEMMA QueuedTypes ==
  ASSUME SessionInv
  PROVE  /\ Queued \in SUBSET Fill /\ IsFiniteSet(Queued) /\ Net(Queued) \in Int
         /\ \A id : /\ QueuedOf(id) \in SUBSET Fill /\ IsFiniteSet(QueuedOf(id))
                   /\ Executed(QueuedOf(id)) \in Nat
  <1>1. queue \in Seq(Fill) /\ Len(queue) \in Nat
    BY DEF SessionInv, VenueTypeOK
  <1>2. Queued \in SUBSET Fill
    BY <1>1 DEF Queued
  <1>3. IsFiniteSet(Queued)
    <2> DEFINE place == [i \in 1 .. Len(queue) |-> queue[i]]
    <2>1. place \in Surjection(1 .. Len(queue), Queued)
      BY DEF Surjection, Queued
    <2>2. IsFiniteSet(1 .. Len(queue))
      BY <1>1, FS_Interval
    <2> QED
      BY <2>1, <2>2, FS_Surjection
  <1>4. \A id : QueuedOf(id) \in SUBSET Fill /\ IsFiniteSet(QueuedOf(id))
    BY <1>2, <1>3, FS_Subset DEF QueuedOf
  <1> QED
    BY <1>2, <1>3, <1>4, ExecutedType, NetType

\* A new execution in the queue.
LEMMA QueueGrows ==
  ASSUME DrainInv, NEW f \in Fill, f.exec > seq, queue' = Append(queue, f)
  PROVE  /\ Queued' = Queued \cup {f}
         /\ Net(Queued') = Net(Queued) + Signed(f.side, f.qty)
         /\ \A id : Executed(QueuedOf(id)') =
                     Executed(QueuedOf(id)) + (IF id = f.order THEN f.qty ELSE 0)
         /\ \A i, j \in 1 .. Len(queue') : queue'[i].exec = queue'[j].exec => i = j
         /\ queue' # <<>>
  <1>1. queue \in Seq(Fill) /\ seq \in Nat /\ f.exec \in Nat
    BY DEF DrainInv, BookInv, SessionInv, VenueTypeOK, Fill
  <1>2. /\ Len(queue) \in Nat /\ Len(queue') = Len(queue) + 1
        /\ \A i \in 1 .. Len(queue) : queue'[i] = queue[i]
        /\ queue'[Len(queue) + 1] = f
    BY <1>1, AppendProperties
  <1>3. Queued' = Queued \cup {f}
    BY <1>2 DEF Queued
  <1>4. \A g \in Queued : g \in Fill /\ g.exec <= seq /\ g.exec \in Nat
    BY QueuedTypes DEF DrainInv, BookInv, AgreeInv, NewToUs, Fill
  <1>5. f \notin Queued
    BY <1>1, <1>4
  <1>6. Net(Queued') = Net(Queued) + Signed(f.side, f.qty)
    BY <1>3, <1>5, QueuedTypes, NetAdd DEF DrainInv, BookInv
  <1>7. ASSUME NEW id
        PROVE  Executed(QueuedOf(id)') =
                 Executed(QueuedOf(id)) + (IF id = f.order THEN f.qty ELSE 0)
    <2>1. CASE id = f.order
      <3>1. QueuedOf(id)' = QueuedOf(id) \cup {f} /\ f \notin QueuedOf(id)
        BY <1>3, <1>5, <2>1 DEF QueuedOf
      <3> QED
        BY <2>1, <3>1, QueuedTypes, ExecutedAdd DEF DrainInv, BookInv
    <2>2. CASE id # f.order
      <3>1. QueuedOf(id)' = QueuedOf(id)
        BY <1>3, <2>2 DEF QueuedOf
      <3> QED
        BY <2>2, <3>1, QueuedTypes DEF DrainInv, BookInv
    <2> QED
      BY <2>1, <2>2
  <1>8. \A i, j \in 1 .. Len(queue') : queue'[i].exec = queue'[j].exec => i = j
    <2>1. \A i \in 1 .. Len(queue) : queue[i].exec # f.exec
      BY <1>1, <1>4 DEF Queued
    <2>2. \A i \in 1 .. Len(queue') : i \in 1 .. Len(queue) \/ i = Len(queue) + 1
      BY <1>2
    <2> QED
      BY <1>2, <2>1, <2>2 DEF DrainInv, AgreeInv, NewToUs
  <1>9. queue' # <<>>
    BY <1>1, <1>2, EmptySeq
  <1> QED
    BY <1>3, <1>6, <1>7, <1>8, <1>9

\* The first execution taken off the queue.
LEMMA QueueShrinks ==
  ASSUME DrainInv, queue # <<>>, queue' = Tail(queue), NEW f, f = Head(queue)
  PROVE  /\ f \in Queued /\ Queued = Queued' \cup {f} /\ f \notin Queued'
         /\ Net(Queued) = Net(Queued') + Signed(f.side, f.qty) /\ Net(Queued') \in Int
         /\ \A id : /\ Executed(QueuedOf(id)') \in Nat
                   /\ Executed(QueuedOf(id)) =
                        Executed(QueuedOf(id)') + (IF id = f.order THEN f.qty ELSE 0)
         /\ \A g \in Queued' : g.exec # f.exec
         /\ \A i, j \in 1 .. Len(queue') : queue'[i].exec = queue'[j].exec => i = j
  <1>1. queue \in Seq(Fill) /\ SessionInv
    BY DEF DrainInv, BookInv, SessionInv, VenueTypeOK
  <1>2. Len(queue) \in Nat \ {0} /\ f = queue[1] /\ f \in Fill
    BY <1>1, EmptySeq
  <1>3. /\ Len(queue') = Len(queue) - 1
        /\ \A i \in 1 .. Len(queue') : queue'[i] = queue[i + 1]
    BY <1>1, HeadTailProperties
  <1>4. \A i \in 1 .. Len(queue') : i + 1 \in 1 .. Len(queue) /\ i + 1 # 1
    BY <1>2, <1>3
  <1>5. 1 \in 1 .. Len(queue) /\ \A i \in 1 .. Len(queue) : i = 1 \/ i - 1 \in 1 .. Len(queue')
    BY <1>2, <1>3
  <1>6. \A i, j \in 1 .. Len(queue) : queue[i].exec = queue[j].exec => i = j
    BY DEF DrainInv, AgreeInv, NewToUs
  <1>7. f \in Queued /\ Queued = Queued' \cup {f}
    <2>1. f \in Queued
      BY <1>2, <1>5 DEF Queued
    <2>2. Queued' \subseteq Queued
      BY <1>3, <1>4 DEF Queued
    <2>3. ASSUME NEW i \in 1 .. Len(queue)
          PROVE  queue[i] \in Queued' \cup {f}
      <3>1. CASE i = 1
        BY <1>2, <3>1
      <3>2. CASE i - 1 \in 1 .. Len(queue')
        <4>1. queue'[i - 1] = queue[(i - 1) + 1] /\ (i - 1) + 1 = i
          BY <1>3, <3>2
        <4> QED
          BY <3>2, <4>1 DEF Queued
      <3> QED
        BY <1>5, <3>1, <3>2
    <2> QED
      BY <2>1, <2>2, <2>3 DEF Queued
  <1>8. \A g \in Queued' : g.exec # f.exec
    <2>1. \A i \in 1 .. Len(queue') : queue'[i].exec # f.exec
      BY <1>2, <1>3, <1>4, <1>5, <1>6
    <2> QED
      BY <2>1 DEF Queued
  <1>9. f \notin Queued'
    BY <1>8
  <1>10. Queued' \in SUBSET Fill /\ IsFiniteSet(Queued')
    <2>1. Queued \in SUBSET Fill /\ IsFiniteSet(Queued)
      BY <1>1, QueuedTypes
    <2> QED
      BY <1>7, <2>1, FS_Subset
  <1>11. Net(Queued) = Net(Queued') + Signed(f.side, f.qty) /\ Net(Queued') \in Int
    BY <1>2, <1>7, <1>9, <1>10, NetAdd, NetType
  <1>12. ASSUME NEW id
         PROVE  /\ Executed(QueuedOf(id)') \in Nat
                /\ Executed(QueuedOf(id)) =
                     Executed(QueuedOf(id)') + (IF id = f.order THEN f.qty ELSE 0)
    <2>1. QueuedOf(id)' \in SUBSET Fill /\ IsFiniteSet(QueuedOf(id)')
      BY <1>10, FS_Subset DEF QueuedOf
    <2>2. Executed(QueuedOf(id)') \in Nat
      BY <2>1, ExecutedType
    <2>3. CASE id = f.order
      <3>1. QueuedOf(id) = QueuedOf(id)' \cup {f} /\ f \notin QueuedOf(id)'
        BY <1>7, <1>9, <2>3 DEF QueuedOf
      <3> QED
        BY <1>2, <2>1, <2>2, <2>3, <3>1, ExecutedAdd
    <2>4. CASE id # f.order
      <3>1. QueuedOf(id) = QueuedOf(id)'
        BY <1>7, <2>4 DEF QueuedOf
      <3> QED
        BY <2>2, <2>4, <3>1
    <2> QED
      BY <2>2, <2>3, <2>4
  <1>13. \A i, j \in 1 .. Len(queue') : queue'[i].exec = queue'[j].exec => i = j
    <2> SUFFICES ASSUME NEW i \in 1 .. Len(queue'), NEW j \in 1 .. Len(queue'),
                        queue'[i].exec = queue'[j].exec
                 PROVE  i = j
      OBVIOUS
    <2>1. i + 1 = j + 1
      BY <1>3, <1>4, <1>6
    <2> QED
      BY <2>1
  <1> QED
    BY <1>7, <1>8, <1>9, <1>11, <1>12, <1>13

\* A step in which the venue fills nothing: what it holds of an order stays, and
\* so does what the order has filled.
LEMMA AgreeStays ==
  ASSUME DrainInv, Keeps, UNCHANGED <<queue, seq, book, position, seen>>,
         \A c \in wire' : c.op # "query_order",
         \A id \in OrderIds : orders'[id] # None =>
           /\ ~orders'[id].confirmed /\ orders'[id].qty = QtyOf[orders'[id].key]
           /\ \/ orders[id] # None /\ orders'[id].key = orders[id].key
                                   /\ orders'[id].filled = orders[id].filled
              \/ orders[id] = None /\ orders'[id].filled = 0,
         \A b \in acks' : \E a \in acks : b.key = a.key /\ b.order = a.order /\ b.filled = a.filled,
         \A a \in acks : \E b \in acks' : b.order = a.order,
         \A a, b \in acks' : a.key = b.key => a = b
  PROVE  AgreeInv'
  <1>1. Queued' = Queued /\ \A id : QueuedOf(id)' = QueuedOf(id)
    BY DEF Queued, QueuedOf
  <1>2. \A a \in acks : a.order \in OrderIds /\ orders[a.order] # None /\ orders'[a.order] # None
    BY DEF DrainInv, BookInv, SessionInv, VenueTypeOK, VenueKnows, Ack, Keeps, KeepsKeys, Created
  <1>3. NoVerdict'
    BY DEF NoVerdict
  <1>4. NewToUs'
    BY <1>1 DEF DrainInv, AgreeInv, NewToUs
  <1>5. TermsHold'
    BY DEF DrainInv, AgreeInv, TermsHold
  <1>6. AcksAgree'
    <2> SUFFICES ASSUME NEW b \in acks'
                 PROVE  /\ b.key = orders'[b.order].key
                        /\ b.filled = orders'[b.order].filled + Executed(QueuedOf(b.order)')
                        /\ b.filled <= QtyOf[b.key]
      BY DEF AcksAgree
    <2>1. PICK a \in acks : b.key = a.key /\ b.order = a.order /\ b.filled = a.filled
      OBVIOUS
    <2>2. /\ a.key = orders[a.order].key /\ a.filled <= QtyOf[a.key]
          /\ a.filled = orders[a.order].filled + Executed(QueuedOf(a.order))
      BY DEF DrainInv, AgreeInv, AcksAgree
    <2>3. orders'[a.order].key = orders[a.order].key /\ orders'[a.order].filled = orders[a.order].filled
      BY <1>2
    <2>4. QueuedOf(b.order)' = QueuedOf(a.order)
      BY <1>1, <2>1
    <2> QED
      BY <2>1, <2>2, <2>3, <2>4
  <1>7. BookAhead'
    BY <1>1 DEF DrainInv, AgreeInv, BookAhead
  <1> QED
    BY <1>3, <1>4, <1>5, <1>6, <1>7 DEF AgreeInv

\* The venue fills some of an order and queues the execution.
LEMMA AgreePublishes ==
  ASSUME DrainInv, UNCHANGED <<orders, position, seen>>,
         \A c \in wire' : c.op # "query_order",
         NEW f \in Fill, f.exec > seq, seq' \in Nat, f.exec <= seq', Publish(f),
         NEW rest \in SUBSET acks, NEW b, acks' = rest \cup {b},
         \A a \in rest : a.key # b.key, \A a \in acks : a \in rest \/ a.order = b.order,
         b.order = f.order, b.key = orders[b.order].key, b.filled <= QtyOf[b.key],
         orders[b.order].filled \in Nat,
         b.filled = orders[b.order].filled + Executed(QueuedOf(b.order)) + f.qty
  PROVE  AgreeInv'
  <1>1. queue' = Append(queue, f) /\ book' = book + Signed(f.side, f.qty)
    BY DEF Publish
  <1>2. /\ Queued' = Queued \cup {f}
        /\ Net(Queued') = Net(Queued) + Signed(f.side, f.qty)
        /\ \A id : Executed(QueuedOf(id)') =
                     Executed(QueuedOf(id)) + (IF id = f.order THEN f.qty ELSE 0)
        /\ \A i, j \in 1 .. Len(queue') : queue'[i].exec = queue'[j].exec => i = j
    BY <1>1, QueueGrows
  <1>3. /\ seq \in Nat /\ position \in Int /\ f.exec \in Nat /\ f.qty \in Nat /\ seen \in SUBSET Nat
        /\ Queued \in SUBSET Fill /\ Net(Queued) \in Int /\ Signed(f.side, f.qty) \in Int
        /\ \A id : Executed(QueuedOf(id)) \in Nat
    BY QueuedTypes DEF DrainInv, BookInv, SessionInv, VenueTypeOK, EngineInv, EngineTypeOK, Fill, Signed
  <1>4. NoVerdict'
    BY DEF DrainInv, AgreeInv, NoVerdict
  <1>5. NewToUs'
    <2>0. seq <= seq'
      BY <1>3
    <2>1. \A e \in seen : e <= seq'
      <3>1. \A e \in seen : e \in Nat /\ e <= seq
        BY <1>3 DEF DrainInv, AgreeInv, NewToUs
      <3> QED
        BY <1>3, <2>0, <3>1
    <2>2. f.exec \notin seen
      BY <1>3 DEF DrainInv, AgreeInv, NewToUs
    <2>3. \A g \in Queued : g.exec <= seq' /\ g.exec \notin seen
      <3>1. \A g \in Queued : g.exec \in Nat
        BY <1>3 DEF Fill
      <3> QED
        BY <1>3, <3>1 DEF DrainInv, AgreeInv, NewToUs
    <2> QED
      BY <1>2, <2>1, <2>2, <2>3 DEF NewToUs
  <1>6. TermsHold'
    <2>1. \A id : (\A a \in acks' : a.order # id) => (\A a \in acks : a.order # id)
      OBVIOUS
    <2> QED
      BY <2>1 DEF DrainInv, AgreeInv, TermsHold
  <1>7. AcksAgree'
    <2>1. \A a \in rest : /\ a.key = orders[a.order].key /\ a.filled <= QtyOf[a.key]
                          /\ a.filled = orders[a.order].filled + Executed(QueuedOf(a.order))
                          /\ \A d \in acks : a.key = d.key => a = d
      BY DEF DrainInv, AgreeInv, AcksAgree
    <2>2. \A a \in rest : a.order # f.order
      BY <2>1
    <2>3. \A a \in rest : a.filled = orders[a.order].filled + Executed(QueuedOf(a.order)')
      BY <1>2, <1>3, <2>1, <2>2
    <2>4. b.filled = orders[b.order].filled + Executed(QueuedOf(b.order)')
      BY <1>2, <1>3
    <2>5. \A a \in acks' : a = b \/ a \in rest
      OBVIOUS
    <2> QED
      BY <2>1, <2>3, <2>4, <2>5 DEF AcksAgree
  <1>8. BookAhead'
    <2>1. book = position + Net(Queued)
      BY DEF DrainInv, AgreeInv, BookAhead
    <2> QED
      BY <1>1, <1>2, <1>3, <2>1 DEF BookAhead
  <1> QED
    BY <1>4, <1>5, <1>6, <1>7, <1>8 DEF AgreeInv

\* The venue answers a submit with the ack of the order, new or known.
LEMMA AcceptsAgree ==
  ASSUME DrainInv, Keeps, UNCHANGED <<orders, position, seen>>,
         \A d \in wire' : d.op # "query_order",
         NEW id \in OrderIds, orders[id] # None, Accept(orders[id].key, id)
  PROVE  AgreeInv' /\ (UNCHANGED <<queue, book>> \/ queue' # <<>>)
  <1> DEFINE k == orders[id].key
  <1>1. /\ k \in Keys /\ QtyOf[k] \in Nat \ {0} /\ orders[id].filled \in Nat
        /\ seq \in Nat /\ acks \in SUBSET Ack
    BY IntentsAssumption DEF DrainInv, BookInv, SessionInv, EngineInv, EngineTypeOK, Order,
                             VenueTypeOK
  <1>2. \A i \in OrderIds : orders[i] # None =>
          ~orders[i].confirmed /\ orders[i].qty = QtyOf[orders[i].key]
    BY DEF DrainInv, AgreeInv, NoVerdict, TermsHold
  <1>3. ASSUME UNCHANGED <<acks, queue, seq, book>>
        PROVE  AgreeInv'
    <2>1. \A a, b \in acks' : a.key = b.key => a = b
      BY <1>3 DEF DrainInv, AgreeInv, AcksAgree
    <2> QED
      BY <1>2, <1>3, <2>1, AgreeStays
  <1>4. CASE KnowsKey(k)
    <2>1. UNCHANGED venueVars
      BY <1>4 DEF Accept
    <2> QED
      BY <1>3, <2>1 DEF venueVars
  <1>5. ASSUME ~KnowsKey(k)
        PROVE  /\ \A a \in acks : a.key # k /\ a.order # id
               /\ orders[id].filled = 0 /\ Executed(QueuedOf(id)) = 0
    <2>1. \A a \in acks : a.key # k /\ a.order # id
      BY <1>5 DEF KnowsKey, DrainInv, AgreeInv, AcksAgree
    <2>2. orders[id].filled = 0
      BY <2>1 DEF DrainInv, AgreeInv, TermsHold
    <2>3. QueuedOf(id) = {}
      BY <2>1 DEF QueuedOf, Queued, DrainInv, BookInv, AckInv, QueueAcked
    <2> QED
      BY <2>1, <2>2, <2>3, ExecutedEmpty
  <1>6. CASE ~KnowsKey(k) /\ Slices <= 1
    <2> DEFINE b == [bid |-> seq + 1, key |-> k, order |-> id, status |-> "FILLED",
                     filled |-> QtyOf[k], slices |-> Slices]
               f == NewFill(seq + 2, id, k, QtyOf[k])
    <2>1. acks' = acks \cup {b} /\ Publish(f) /\ seq' = seq + 2
      BY <1>6 DEF Accept
    <2>2. b.order = id /\ b.key = k /\ b.filled = QtyOf[k]
      OBVIOUS
    <2>3. f \in Fill /\ f.order = id /\ f.exec = seq + 2 /\ f.qty = QtyOf[k]
      BY <1>1, IntentsAssumption DEF NewFill, Fill
    <2> HIDE DEF b, f, k
    <2>4. f.exec > seq /\ seq' \in Nat /\ f.exec <= seq'
      BY <1>1, <2>1, <2>3
    <2>5. \A a \in acks : a.key # k /\ a.order # id
      BY <1>5, <1>6
    <2>6. b.filled <= QtyOf[b.key] /\ b.filled = orders[id].filled + Executed(QueuedOf(id)) + f.qty
      BY <1>1, <1>5, <1>6, <2>2, <2>3
    <2>7. b.order = f.order /\ b.key = orders[b.order].key /\ orders[b.order].filled \in Nat
          /\ b.filled = orders[b.order].filled + Executed(QueuedOf(b.order)) + f.qty
      BY <1>1, <2>2, <2>3, <2>6 DEF k
    <2>8. AgreeInv'
      BY <2>1, <2>2, <2>3, <2>4, <2>5, <2>6, <2>7, AgreePublishes
    <2>9. queue' # <<>>
      BY <2>1, <2>3, <2>4, QueueGrows DEF Publish
    <2> QED
      BY <2>8, <2>9
  <1>7. CASE ~KnowsKey(k) /\ ~(Slices <= 1)
    <2>1. PICK b : /\ b = [bid |-> seq + 1, key |-> k, order |-> id, status |-> "WORKING",
                           filled |-> 0, slices |-> 0]
                   /\ acks' = acks \cup {b} /\ seq' = seq + 1 /\ UNCHANGED <<book, queue>>
      BY <1>7 DEF Accept
    <2>2. b.order = id /\ b.key = k /\ b.filled = 0
      BY <2>1
    <2> HIDE DEF k
    <2>3. Queued' = Queued /\ \A i : QueuedOf(i)' = QueuedOf(i)
      BY <2>1 DEF Queued, QueuedOf
    <2>4. \A a \in acks : a.key # k /\ a.order # id
      BY <1>5, <1>7
    <2>5. NoVerdict' /\ BookAhead'
      BY <2>1, <2>3 DEF DrainInv, AgreeInv, NoVerdict, BookAhead
    <2>6. NewToUs'
      <3>1. (\A g \in Queued : g.exec \in Nat) /\ (\A e \in seen : e \in Nat)
        BY QueuedTypes DEF DrainInv, BookInv, SessionInv, EngineInv, EngineTypeOK, Fill
      <3>2. \A e \in Nat : e <= seq => e <= seq'
        BY <1>1, <2>1
      <3> QED
        BY <2>1, <2>3, <3>1, <3>2 DEF DrainInv, AgreeInv, NewToUs
    <2>7. TermsHold'
      BY <2>1 DEF DrainInv, AgreeInv, TermsHold
    <2>8. AcksAgree'
      <3>1. /\ b.key = orders[b.order].key /\ b.filled <= QtyOf[b.key]
            /\ b.filled = orders[b.order].filled + Executed(QueuedOf(b.order)')
        BY <1>1, <1>5, <1>7, <2>2, <2>3 DEF k
      <3>2. \A a \in acks : /\ a.key = orders[a.order].key /\ a.filled <= QtyOf[a.key]
                            /\ a.filled = orders[a.order].filled + Executed(QueuedOf(a.order)')
                            /\ \A d \in acks : a.key = d.key => a = d
        BY <2>3 DEF DrainInv, AgreeInv, AcksAgree
      <3> QED
        BY <2>1, <2>2, <2>4, <3>1, <3>2 DEF AcksAgree
    <2> QED
      BY <2>1, <2>5, <2>6, <2>7, <2>8 DEF AgreeInv
  <1> QED
    BY <1>4, <1>6, <1>7

\* One slice: never more than is left of the order.
LEMMA DripsAgree ==
  ASSUME DrainInv, NEW a \in acks, DripTick(a)
  PROVE  AgreeInv' /\ queue' # <<>>
  <1> DEFINE n == NextSlice(a)
             filled == a.filled + n
             status == IF filled >= QtyOf[a.key] THEN "FILLED" ELSE "PARTIALLY_FILLED"
             b == [a EXCEPT !.status = status, !.filled = filled, !.slices = @ + 1]
             f == NewFill(seq + 1, a.order, a.key, n)
  <1>1. /\ VenueTypeOK /\ a \in Ack /\ a.order \in OrderIds /\ a.key \in Keys
        /\ a.filled \in Nat /\ seq \in Nat /\ orders[a.order] # None
        /\ orders[a.order].filled \in Nat
    BY DEF DrainInv, BookInv, SessionInv, VenueTypeOK, VenueKnows, Ack, EngineInv, EngineTypeOK, Order
  <1>2. n \in Nat \ {0} /\ n <= QtyOf[a.key] - a.filled
    <2>1. n \in Nat \ {0}
      BY <1>1, SliceType DEF DripTick, Drip
    <2>2. QtyOf[a.key] \in Nat /\ Slices \in Nat /\ Slices > 0
      BY <1>1, IntentsAssumption, MockAssumption DEF DripTick, Drip, Dripping, Ack
    <2>3. RoundHalfEven(QtyOf[a.key], Slices) \in Int
      BY <2>2 DEF RoundHalfEven
    <2>4. n <= QtyOf[a.key] - a.filled
      BY <1>1, <2>2, <2>3 DEF NextSlice, Smaller
    <2> QED
      BY <2>1, <2>4
  <1>3. /\ acks' = (acks \ {a}) \cup {b} /\ seq' = seq + 1 /\ Publish(f)
        /\ UNCHANGED <<orders, position, seen, wire>> /\ Quiet
    BY DEF DripTick, Drip, Update, engineVars, memoryVars
  <1>4. b.order = a.order /\ b.key = a.key /\ b.filled = filled
    BY <1>1 DEF Ack
  <1>5. f \in Fill /\ f.order = a.order /\ f.exec = seq + 1 /\ f.qty = n
    <2> HIDE DEF n
    <2> QED
      BY <1>1, <1>2, IntentsAssumption DEF NewFill, Fill
  <1> HIDE DEF b, f, n
  <1>6. f.exec > seq /\ seq' \in Nat /\ f.exec <= seq'
    BY <1>1, <1>3, <1>5
  <1>7. /\ a.key = orders[a.order].key
        /\ a.filled = orders[a.order].filled + Executed(QueuedOf(a.order))
        /\ \A d \in acks : a.key = d.key => a = d
    BY DEF DrainInv, AgreeInv, AcksAgree
  <1>8. /\ b.order = f.order /\ b.key = orders[b.order].key /\ orders[b.order].filled \in Nat
        /\ b.filled <= QtyOf[b.key]
        /\ b.filled = orders[b.order].filled + Executed(QueuedOf(b.order)) + f.qty
    <2>1. QtyOf[a.key] \in Nat
      BY <1>1, IntentsAssumption
    <2> QED
      BY <1>1, <1>2, <1>4, <1>5, <1>7, <2>1
  <1>9. \A c \in wire' : c.op # "query_order"
    BY <1>3 DEF Quiet
  <1>10. PICK rest \in SUBSET acks : rest = acks \ {a}
    OBVIOUS
  <1>11. /\ acks' = rest \cup {b} /\ \A d \in rest : d.key # b.key
         /\ \A d \in acks : d \in rest \/ d.order = b.order
    BY <1>3, <1>4, <1>7, <1>10
  <1>12. AgreeInv'
    BY <1>3, <1>5, <1>6, <1>8, <1>9, <1>10, <1>11, AgreePublishes
  <1>13. queue' # <<>>
    BY <1>3, <1>5, <1>6, QueueGrows DEF Publish
  <1> QED
    BY <1>12, <1>13

\* A cancel leaves what the venue has filled, and what it will still fill.
LEMMA CancelsAgree ==
  ASSUME DrainInv, Keeps, UNCHANGED <<orders, position, seen>>,
         \A d \in wire' : d.op # "query_order", NEW bid, CancelAtVenue(bid)
  PROVE  AgreeInv'
  <1>1. UNCHANGED <<queue, seq, book>>
    BY DEF CancelAtVenue
  <1>2. \A i \in OrderIds : orders[i] # None =>
          ~orders[i].confirmed /\ orders[i].qty = QtyOf[orders[i].key]
    BY DEF DrainInv, AgreeInv, NoVerdict, TermsHold
  <1>3. \A a, b \in acks : a.key = b.key => a = b
    BY DEF DrainInv, AgreeInv, AcksAgree
  <1>4. CASE KnowsBid(bid) /\ IsOpen(AckOfBid(bid).status)
    <2>1. PICK a \in acks : a = AckOfBid(bid)
      BY <1>4 DEF KnowsBid, AckOfBid
    <2>2. PICK b : b = [a EXCEPT !.status = "CANCELLED"]
      OBVIOUS
    <2>3. acks' = (acks \ {a}) \cup {b}
      BY <1>4, <2>1, <2>2 DEF CancelAtVenue, Update
    <2>4. b.key = a.key /\ b.order = a.order /\ b.filled = a.filled
      BY <2>2 DEF DrainInv, BookInv, SessionInv, VenueTypeOK, Ack
    <2>5. \A d \in acks' : d = b \/ (d \in acks /\ d # a)
      BY <2>3
    <2>6. \A d, e \in acks' : d.key = e.key => d = e
      BY <1>3, <2>4, <2>5
    <2>7. /\ \A e \in acks' : \E d \in acks : e.key = d.key /\ e.order = d.order /\ e.filled = d.filled
          /\ \A d \in acks : \E e \in acks' : e.order = d.order
      BY <2>3, <2>4
    <2> QED
      BY <1>1, <1>2, <2>6, <2>7, AgreeStays
  <1>5. CASE ~(KnowsBid(bid) /\ IsOpen(AckOfBid(bid).status))
    <2>1. acks' = acks
      BY <1>5 DEF CancelAtVenue
    <2> QED
      BY <1>1, <1>2, <1>3, <2>1, AgreeStays
  <1> QED
    BY <1>4, <1>5

\* What the ack of a submit or a cancel makes of an order.
LEMMA ResumesAgree ==
  ASSUME DrainInv, Keeps, NEW c \in wire, Resume(c)
  PROVE  AgreeInv'
  <1> DEFINE id == c.order
             o  == orders[id]
             p  == orders'[id]
  <1>1. /\ c \in Call /\ id \in OrderIds /\ o # None /\ o \in Order /\ Sane(o)
        /\ orders \in [OrderIds -> Order \cup {None}]
    BY DEF DrainInv, BookInv, SessionInv, EngineInv, EngineTypeOK, Call, CallsKnown, SavedOrders, Saved
  <1>2. c.op # "query_order" /\ \A d \in wire : d.op # "query_order"
    BY DEF DrainInv, AgreeInv, NoVerdict
  <1>3. c.reply \in Reply
    BY <1>1, <1>2 DEF Call, Resume, SubmitEnd, CancelEnd, ConfirmEnd
  <1>4. /\ wire' = wire \ {c} /\ UNCHANGED <<acks, queue, seq, book, position, seen>>
    BY DEF Resume, SubmitEnd, CancelEnd, ConfirmEnd, venueVars
  <1>5. /\ p.key = o.key /\ p.confirmed = o.confirmed /\ p.qty = o.qty /\ p.filled = o.filled
        /\ orders' = [orders EXCEPT ![id] = p]
    <2>1. CASE SubmitEnd(c)
      <3>1. PICK q : q = ApplyAck(o, c.reply).order
        OBVIOUS
      <3>2. Soft(o, q) /\ q.qty = o.qty /\ q.filled = o.filled
        BY <1>1, <1>3, <3>1, SoftApplyAck, AckKeepsTerms
      <3>3. orders' = [orders EXCEPT ![id] = q] /\ p = q
        BY <1>1, <2>1, <3>1 DEF SubmitEnd
      <3> HIDE DEF p, o
      <3> QED
        BY <3>2, <3>3 DEF Soft
    <2>2. CASE CancelEnd(c)
      <3>1. PICK q : q = CancelOutcome(o, c.reply).order
        OBVIOUS
      <3>2. Soft(o, q) /\ q.qty = o.qty /\ q.filled = o.filled
        BY <1>1, <1>3, <3>1, SoftCancelOutcome, CancelKeepsTerms DEF CancelOutcome, Returned
      <3>3. orders' = [orders EXCEPT ![id] = q] /\ p = q
        BY <1>1, <2>2, <3>1 DEF CancelEnd
      <3> HIDE DEF p, o
      <3> QED
        BY <3>2, <3>3 DEF Soft
    <2> QED
      BY <1>2, <2>1, <2>2 DEF Resume, ConfirmEnd
  <1> HIDE DEF p
  <1>6. \A i \in OrderIds : orders'[i] = IF i = id THEN p ELSE orders[i]
    BY <1>1, <1>5
  <1>7. \A i \in OrderIds : orders[i] # None =>
          ~orders[i].confirmed /\ orders[i].qty = QtyOf[orders[i].key]
    BY DEF DrainInv, AgreeInv, NoVerdict, TermsHold
  <1>8. \A i \in OrderIds : orders'[i] # None =>
          /\ ~orders'[i].confirmed /\ orders'[i].qty = QtyOf[orders'[i].key]
          /\ orders[i] # None /\ orders'[i].key = orders[i].key /\ orders'[i].filled = orders[i].filled
    <2> SUFFICES ASSUME NEW i \in OrderIds, orders'[i] # None
                 PROVE  /\ ~orders'[i].confirmed /\ orders'[i].qty = QtyOf[orders'[i].key]
                        /\ orders[i] # None /\ orders'[i].key = orders[i].key
                        /\ orders'[i].filled = orders[i].filled
      OBVIOUS
    <2>1. CASE i = id
      BY <1>1, <1>5, <1>6, <1>7, <2>1
    <2>2. CASE i # id
      BY <1>6, <1>7, <2>2
    <2> QED
      BY <2>1, <2>2
  <1>9. \A a, b \in acks' : a.key = b.key => a = b
    BY <1>4 DEF DrainInv, AgreeInv, AcksAgree
  <1>10. \A d \in wire' : d.op # "query_order"
    BY <1>2, <1>4
  <1> QED
    BY <1>4, <1>8, <1>9, <1>10, AgreeStays

\* Our consumer takes the next execution: it is new and fits its order.
LEMMA ConsumesWhole ==
  ASSUME DrainInv, Consume,
         NEW f, f = Head(queue), NEW id, id = f.order, NEW o, o = orders[id],
         NEW r, r = ApplyFill(o, f.qty)
  PROVE  /\ id \in OrderIds /\ o # None /\ o \in Order /\ f.qty \in Nat \ {0} /\ f \in Fill
         /\ f.exec \notin seen /\ f.exec <= seq /\ f \in Queued
         /\ \E a \in acks : a.order = id
         /\ ~o.confirmed /\ o.qty = QtyOf[o.key]
         /\ r.raised = "none" /\ r.order.filled = o.filled + f.qty
         /\ Soft(o, r.order) /\ r.order.qty = o.qty
         /\ orders' = [orders EXCEPT ![id] = r.order] /\ seen' = seen \cup {f.exec}
         /\ position' = position + Signed(f.side, f.qty) /\ wire' = wire /\ wire = {}
         /\ snap' = [snap EXCEPT !["on_fill"] = [stage |-> "asked", book |-> 0]]
         /\ UNCHANGED <<acks, book, seq>> /\ queue # <<>> /\ queue' = Tail(queue)
  <1>1. /\ Incoming(f) /\ o.status # "NEW" /\ queue # <<>> /\ queue' = Tail(queue) /\ Quiet
        /\ UNCHANGED <<acks, book, seq>>
    BY HeadIsAcked DEF DrainInv, Consume, Incoming
  <1>2. /\ f \in Queued /\ Queued = Queued' \cup {f}
        /\ \A i : /\ Executed(QueuedOf(i)') \in Nat
                  /\ Executed(QueuedOf(i)) =
                       Executed(QueuedOf(i)') + (IF i = f.order THEN f.qty ELSE 0)
    BY <1>1, QueueShrinks
  <1>3. /\ id \in OrderIds /\ o # None /\ o \in Order /\ f.qty \in Nat \ {0} /\ f \in Fill
        /\ Coherent(o)
    BY <1>1, IncomingFill DEF DrainInv, BookInv, SessionInv, EngineInv, EngineTypeOK,
                              RowsBooked, CountsLedger, Incoming
  <1>4. f.exec \notin seen /\ f.exec <= seq
    BY <1>2 DEF DrainInv, AgreeInv, NewToUs
  <1>5. PICK a \in acks : a.order = id
    BY <1>2 DEF Queued, DrainInv, BookInv, AckInv, QueueAcked
  <1>6. ~o.confirmed /\ o.qty = QtyOf[o.key]
    BY <1>3 DEF DrainInv, AgreeInv, NoVerdict, TermsHold
  <1>7. o.filled + f.qty <= o.qty
    <2>1. /\ a.key = orders[a.order].key /\ a.filled <= QtyOf[a.key]
          /\ a.filled = orders[a.order].filled + Executed(QueuedOf(a.order))
      BY DEF DrainInv, AgreeInv, AcksAgree
    <2>2. a.filled = o.filled + (Executed(QueuedOf(id)') + f.qty) /\ a.filled <= o.qty
      BY <1>2, <1>5, <1>6, <2>1
    <2>3. Executed(QueuedOf(id)') \in Nat /\ o.filled \in Nat /\ o.qty \in Nat
      BY <1>2, <1>3 DEF Order
    <2> QED
      BY <1>3, <2>2, <2>3
  <1>8. r.raised = "none" /\ r.order.filled = o.filled + f.qty
    BY <1>1, <1>3, <1>6, <1>7, FillOutcome
  <1>9. Soft(o, r.order) /\ r.order.qty = o.qty
    BY <1>3, SoftApplyFill, FillKeepsTerms
  <1>10. FillApplied(f)
    BY <1>4, <1>8 DEF Consume, OnFill, FillSeen, FillRefused, FillApplied, WriteFill, Recorded
  <1>11. /\ orders' = [orders EXCEPT ![id] = r.order] /\ seen' = seen \cup {f.exec}
         /\ position' = position + Signed(f.side, f.qty) /\ wire' = wire
         /\ snap' = [snap EXCEPT !["on_fill"] = [stage |-> "asked", book |-> 0]]
    BY <1>10 DEF FillApplied, Ask
  <1> QED
    BY <1>1, <1>2, <1>3, <1>4, <1>5, <1>6, <1>8, <1>9, <1>11 DEF Quiet

LEMMA ConsumesAgree ==
  ASSUME DrainInv, Consume
  PROVE  AgreeInv' /\ snap'["on_fill"].stage # "idle" /\ wire' = {}
  <1>1. PICK f : f = Head(queue)
    OBVIOUS
  <1>2. PICK id, o, r : id = f.order /\ o = orders[id] /\ r = ApplyFill(o, f.qty)
    OBVIOUS
  <1>3. /\ id \in OrderIds /\ o # None /\ o \in Order /\ f.qty \in Nat \ {0} /\ f \in Fill
        /\ f.exec \notin seen /\ f.exec <= seq
        /\ \E a \in acks : a.order = id
        /\ ~o.confirmed /\ o.qty = QtyOf[o.key]
        /\ r.order.filled = o.filled + f.qty
        /\ Soft(o, r.order) /\ r.order.qty = o.qty
        /\ orders' = [orders EXCEPT ![id] = r.order] /\ seen' = seen \cup {f.exec}
        /\ position' = position + Signed(f.side, f.qty) /\ wire' = {}
        /\ snap' = [snap EXCEPT !["on_fill"] = [stage |-> "asked", book |-> 0]]
        /\ UNCHANGED <<acks, book, seq>> /\ queue # <<>> /\ queue' = Tail(queue)
    BY <1>1, <1>2, ConsumesWhole
  <1>4. /\ f \in Queued /\ Queued = Queued' \cup {f} /\ f \notin Queued'
        /\ Net(Queued) = Net(Queued') + Signed(f.side, f.qty) /\ Net(Queued') \in Int
        /\ \A i : /\ Executed(QueuedOf(i)') \in Nat
                  /\ Executed(QueuedOf(i)) =
                       Executed(QueuedOf(i)') + (IF i = f.order THEN f.qty ELSE 0)
        /\ \A g \in Queued' : g.exec # f.exec
        /\ \A i, j \in 1 .. Len(queue') : queue'[i].exec = queue'[j].exec => i = j
    BY <1>1, <1>3, QueueShrinks
  <1>5. orders \in [OrderIds -> Order \cup {None}] /\ position \in Int
    BY DEF DrainInv, BookInv, SessionInv, EngineInv, EngineTypeOK
  <1>6. \A a \in acks : /\ a.key = orders[a.order].key /\ a.filled <= QtyOf[a.key]
                        /\ a.filled = orders[a.order].filled + Executed(QueuedOf(a.order))
                        /\ \A b \in acks : a.key = b.key => a = b
    BY DEF DrainInv, AgreeInv, AcksAgree
  <1>7. \A i \in OrderIds : orders'[i] = IF i = id THEN r.order ELSE orders[i]
    BY <1>3, <1>5
  <1>8. snap'["on_fill"].stage # "idle"
    BY <1>3 DEF DrainInv, BookInv, SessionInv, EngineInv, EngineTypeOK, Readers
  <1>9. NoVerdict'
    BY <1>3, <1>7 DEF DrainInv, AgreeInv, NoVerdict, Soft
  <1>10. NewToUs'
    BY <1>3, <1>4 DEF DrainInv, AgreeInv, NewToUs
  <1>11. TermsHold'
    BY <1>3, <1>7 DEF DrainInv, AgreeInv, TermsHold, Soft
  <1>12. AcksAgree'
    <2> SUFFICES ASSUME NEW b \in acks
                 PROVE  /\ b.key = orders'[b.order].key
                        /\ b.filled = orders'[b.order].filled + Executed(QueuedOf(b.order)')
      BY <1>3, <1>6 DEF AcksAgree
    <2>1. b.order \in OrderIds
      BY DEF DrainInv, BookInv, SessionInv, VenueTypeOK, Ack
    <2>2. CASE b.order # id
      BY <1>2, <1>4, <1>6, <1>7, <2>1, <2>2
    <2>3. CASE b.order = id
      <3>1. b.key = o.key /\ b.filled = o.filled + (Executed(QueuedOf(id)') + f.qty)
        BY <1>2, <1>4, <1>6, <2>3
      <3>2. Executed(QueuedOf(id)') \in Nat /\ o.filled \in Nat
        BY <1>3, <1>4 DEF Order
      <3>3. orders'[b.order] = r.order /\ r.order.key = o.key
        BY <1>3, <1>7, <2>1, <2>3 DEF Soft
      <3> QED
        BY <1>3, <2>3, <3>1, <3>2, <3>3
    <2> QED
      BY <2>2, <2>3
  <1>13. BookAhead'
    <2>1. book = position + Net(Queued)
      BY DEF DrainInv, AgreeInv, BookAhead
    <2>2. Signed(f.side, f.qty) \in Int
      BY <1>3 DEF Signed, Fill
    <2> QED
      BY <1>3, <1>4, <1>5, <2>1, <2>2 DEF BookAhead
  <1> QED
    BY <1>3, <1>8, <1>9, <1>10, <1>11, <1>12, <1>13 DEF AgreeInv

\* The snapshots under way, and what a reconciliation concludes.
LEMMA ChecksStay ==
  ASSUME DrainInv, UNCHANGED <<snap, lastResult>>, wire' = {} \/ wire # {} \/ Quiet,
         UNCHANGED <<book, queue>> \/ (queue' # <<>> /\ (wire # {} \/ Quiet))
  PROVE  Checking'
  <1>1. wire # {} \/ Quiet => \A r \in Readers : snap[r].stage = "idle"
    BY DEF DrainInv, Checking, Quiet
  <1> QED
    BY <1>1 DEF DrainInv, Checking

LEMMA ReconcilesAgree ==
  ASSUME DrainInv, Keeps,
         Report \/ \E r \in Readers : VenueSnapshot(r) \/ Reconciles(r)
  PROVE  AgreeInv' /\ Checking'
  <1>1. /\ UNCHANGED <<orders, position, seen, wire, acks, queue, seq, book>>
        /\ snap \in [Readers -> Snapshot] /\ book \in Int /\ position \in Int
    BY DEF Report, ReportBegin, VenueSnapshot, SnapshotAnswered, Reconciles, Reconcile, memoryVars,
           venueVars, DrainInv, BookInv, SessionInv, EngineInv, EngineTypeOK, VenueTypeOK
  <1>2. AgreeInv'
    <2>1. \A a, b \in acks' : a.key = b.key => a = b
      BY <1>1 DEF DrainInv, AgreeInv, AcksAgree
    <2>2. \A d \in wire' : d.op # "query_order"
      BY <1>1 DEF DrainInv, AgreeInv, NoVerdict
    <2>3. \A i \in OrderIds : orders[i] # None =>
            ~orders[i].confirmed /\ orders[i].qty = QtyOf[orders[i].key]
      BY DEF DrainInv, AgreeInv, NoVerdict, TermsHold
    <2> QED
      BY <1>1, <2>1, <2>2, <2>3, AgreeStays
  <1>3. CASE Report
    <2>1. /\ snap' = [snap EXCEPT !["report"] = [stage |-> "asked", book |-> 0]]
          /\ lastResult' = lastResult /\ Quiet
      BY <1>3 DEF Report, ReportBegin, Ask
    <2>2. wire = {} /\ \A r \in Readers : snap'[r].stage # "answered"
      BY <1>1, <2>1 DEF Quiet
    <2>3. "report" \in Readers /\ snap'["report"].stage # "idle"
      BY <1>1, <2>1 DEF Readers
    <2> QED
      BY <1>1, <1>2, <2>2, <2>3 DEF Checking
  <1>4. ASSUME NEW r \in Readers, VenueSnapshot(r)
        PROVE  Checking'
    <2>1. /\ snap' = [snap EXCEPT ![r] = [stage |-> "answered", book |-> book]]
          /\ snap[r].stage = "asked"
      BY <1>4 DEF VenueSnapshot, SnapshotAnswered
    <2>2. wire = {}
      BY <2>1 DEF DrainInv, Checking
    <2>3. snap'[r].stage = "answered" /\ snap'[r].book = book
      BY <1>1, <2>1
    <2>4. \A q \in Readers : q # r => snap'[q] = snap[q]
      BY <1>1, <2>1
    <2> QED
      BY <1>1, <2>2, <2>3, <2>4 DEF DrainInv, Checking
  <1>5. ASSUME NEW r \in Readers, Reconciles(r)
        PROVE  Checking'
    <2>1. /\ snap' = [snap EXCEPT ![r] = NoSnapshot] /\ snap[r].stage = "answered"
          /\ lastResult' = IF snap[r].book = position THEN "clean" ELSE "break"
      BY <1>5 DEF Reconciles, Reconcile
    <2>2. wire = {} /\ snap[r].book = book
      BY <2>1 DEF DrainInv, Checking
    <2>3. ASSUME queue = <<>>
          PROVE  book = position
      <3>1. Queued = {}
        BY <2>3 DEF Queued
      <3>2. book = position + Net(Queued)
        BY DEF DrainInv, AgreeInv, BookAhead
      <3> QED
        BY <1>1, <3>1, <3>2, NetEmpty
    <2>4. \A q \in Readers : snap'[q].stage = "answered" => snap'[q] = snap[q]
      BY <1>1, <2>1 DEF NoSnapshot
    <2> QED
      BY <1>1, <2>1, <2>2, <2>3, <2>4 DEF DrainInv, Checking
  <1> QED
    BY <1>2, <1>3, <1>4, <1>5

\* While the process lives and nobody asks for a verdict, every step keeps us
\* behind the venue by exactly the queue.
LEMMA DrainStep ==
  ASSUME MaxCrashes = 0, "confirm_order" \notin Calls, DrainInv, [Next]_vars
  PROVE  DrainInv'
  <1>0. wire \in SUBSET Call
    BY DEF DrainInv, BookInv, SessionInv, EngineInv, EngineTypeOK
  <1>1. BookInv' /\ Keeps
    BY BookStep, SessionStep DEF DrainInv, BookInv
  <1> SUFFICES AgreeInv' /\ Checking'
    BY <1>1 DEF DrainInv
  <1>2. /\ \A a, b \in acks : a.key = b.key => a = b
        /\ \A d \in wire : d.op # "query_order"
        /\ \A i \in OrderIds : orders[i] # None =>
             ~orders[i].confirmed /\ orders[i].qty = QtyOf[orders[i].key]
    BY DEF DrainInv, AgreeInv, AcksAgree, NoVerdict, TermsHold
  <1>3. ASSUME UNCHANGED <<orders, position, seen, venueVars>>, \A d \in wire' : d.op # "query_order"
        PROVE  AgreeInv'
    BY <1>1, <1>2, <1>3, AgreeStays DEF venueVars
  <1>4. ASSUME NEW k \in Keys, Submit(k)
        PROVE  AgreeInv' /\ Checking'
    <2>1. UNCHANGED <<venueVars, snap, lastResult, position, seen>> /\ Quiet
      BY <1>4 DEF Submit, SubmitBegin, SubmitOversell, SubmitKnown, snapVars, memoryVars
    <2>2. Checking'
      BY <2>1, ChecksStay DEF venueVars
    <2>3. CASE SubmitBegin(k)
      <3>1. PICK id, o : /\ id = CHOOSE new \in OrderIds \ Created : TRUE
                         /\ o = [key |-> k, status |-> "NEW", qty |-> QtyOf[k],
                                 filled |-> 0, confirmed |-> FALSE, bid |-> None]
        OBVIOUS
      <3>2. id \in OrderIds /\ orders[id] = None
        <4>1. id \in OrderIds \ Created
          BY <2>3, <3>1 DEF SubmitBegin
        <4> QED
          BY <4>1 DEF Created
      <3>3. /\ orders' = [orders EXCEPT ![id] = o]
            /\ wire' = wire \cup {[op |-> "submit", order |-> id, bid |-> None, reply |-> None]}
        BY <2>3, <3>1 DEF SubmitBegin, Send
      <3>4. \A i \in OrderIds : orders'[i] = IF i = id THEN o ELSE orders[i]
        BY <3>2, <3>3 DEF DrainInv, BookInv, SessionInv, EngineInv, EngineTypeOK
      <3>5. ~o.confirmed /\ o.qty = QtyOf[o.key] /\ o.filled = 0
        BY <3>1
      <3>6. \A i \in OrderIds : orders'[i] # None =>
              /\ ~orders'[i].confirmed /\ orders'[i].qty = QtyOf[orders'[i].key]
              /\ \/ orders[i] # None /\ orders'[i].key = orders[i].key
                                     /\ orders'[i].filled = orders[i].filled
                 \/ orders[i] = None /\ orders'[i].filled = 0
        BY <1>2, <3>2, <3>4, <3>5
      <3>7. \A d \in wire' : d.op # "query_order"
        BY <1>2, <3>3
      <3> QED
        BY <1>1, <1>2, <2>1, <2>2, <3>6, <3>7, AgreeStays DEF venueVars
    <2>4. CASE SubmitOversell(k) \/ SubmitKnown(k)
      BY <1>2, <1>3, <2>1, <2>2, <2>4 DEF SubmitOversell, SubmitKnown, memoryVars
    <2> QED
      BY <1>4, <2>3, <2>4 DEF Submit
  <1>5. ASSUME NEW id \in OrderIds, Cancel(id) \/ Confirm(id)
        PROVE  AgreeInv' /\ Checking'
    <2>1. Cancel(id)
      BY <1>5 DEF Confirm
    <2>2. /\ UNCHANGED <<venueVars, snap, lastResult, orders, position, seen>> /\ Quiet
          /\ wire' = wire \cup {[op |-> "cancel", order |-> id, bid |-> orders[id].bid, reply |-> None]}
      BY <2>1 DEF Cancel, CancelBegin, Send, snapVars, memoryVars
    <2> QED
      BY <1>2, <1>3, <2>2, ChecksStay DEF venueVars
  <1>6. ASSUME NEW c \in wire, VenueSubmit(c)
        PROVE  AgreeInv' /\ Checking'
    <2>1. /\ c.op = "submit" /\ c.order \in OrderIds /\ orders[c.order] # None
          /\ UNCHANGED <<snap, lastResult, orders, position, seen>>
      BY <1>6 DEF VenueSubmit, CallRaises, EngineIdle, snapVars, memoryVars, DrainInv, BookInv,
                  SessionInv, EngineInv, EngineTypeOK, CallsKnown, Call
    <2>2. CASE Refuse(orders[c.order].key) /\ CallRaises(c, "rejected")
      BY <1>2, <1>3, <2>1, <2>2, ChecksStay DEF Refuse, CallRaises, venueVars
    <2>3. CASE FailTransiently(orders[c.order].key) /\ CallRaises(c, "failed")
      <3>1. UNCHANGED <<acks, book, queue, seq>> /\ wire' = wire \ {c}
        BY <2>3 DEF FailTransiently, CallRaises
      <3> QED
        BY <1>1, <1>2, <2>1, <3>1, AgreeStays, ChecksStay
    <2>4. ASSUME Accept(orders[c.order].key, c.order), NEW reply, Answer(c, reply)
          PROVE  AgreeInv' /\ Checking'
      <3>1. \A d \in wire' : d.op # "query_order"
        BY <1>2, <1>0, <2>1, <2>4 DEF Answer, Call
      <3> QED
        BY <1>1, <2>1, <2>4, <3>1, AcceptsAgree, ChecksStay
    <2> QED
      BY <1>6, <2>2, <2>3, <2>4 DEF VenueSubmit
  <1>7. ASSUME NEW c \in wire, VenueCancel(c)
        PROVE  AgreeInv' /\ Checking'
    <2>1. /\ UNCHANGED <<snap, lastResult, orders, position, seen, book, queue>>
          /\ CancelAtVenue(c.bid) /\ c.op = "cancel"
      BY <1>7 DEF VenueCancel, CancelAtVenue, EngineIdle, snapVars, memoryVars
    <2>2. \A d \in wire' : d.op # "query_order"
      BY <1>2, <1>7, <1>0 DEF VenueCancel, Answer, Call
    <2> QED
      BY <1>1, <2>1, <2>2, CancelsAgree, ChecksStay
  <1>8. ASSUME NEW c \in wire, VenueQuery(c)
        PROVE  FALSE
    BY <1>2, <1>8 DEF VenueQuery
  <1>9. ASSUME NEW c \in wire, Resume(c)
        PROVE  AgreeInv' /\ Checking'
    <2>1. UNCHANGED <<snap, lastResult, book, queue>>
      BY <1>9 DEF Resume, SubmitEnd, CancelEnd, ConfirmEnd, snapVars, venueVars
    <2> QED
      BY <1>1, <1>9, <2>1, ResumesAgree, ChecksStay
  <1>10. ASSUME NEW a \in acks, DripTick(a)
         PROVE  AgreeInv' /\ Checking'
    <2>1. UNCHANGED <<snap, lastResult>> /\ Quiet
      BY <1>10 DEF DripTick, engineVars, snapVars
    <2> QED
      BY <1>10, <2>1, DripsAgree, ChecksStay
  <1>11. CASE Consume
    <2>1. AgreeInv' /\ snap'["on_fill"].stage # "idle" /\ wire' = {}
      BY <1>11, ConsumesAgree
    <2>2. \A r \in Readers : snap'[r].stage # "answered"
      <3>1. \A r \in Readers : snap[r].stage = "idle"
        BY <1>11 DEF Consume, Quiet
      <3>2. snap' = snap \/ snap' = [snap EXCEPT !["on_fill"] = [stage |-> "asked", book |-> 0]]
        BY <1>11 DEF Consume, OnFill, FillSeen, FillRefused, FillApplied, Ask, engineVars, snapVars
      <3> QED
        BY <3>1, <3>2 DEF DrainInv, BookInv, SessionInv, EngineInv, EngineTypeOK
    <2> QED
      BY <2>1, <2>2 DEF Checking, Readers
  <1>12. CASE Dies
    BY <1>12 DEF Dies, Crash, CrashInFill, Restart, DrainInv, BookInv, SessionInv, EngineInv,
                 EngineTypeOK
  <1>13. CASE UNCHANGED vars
    <2>1. UNCHANGED <<snap, lastResult, orders, position, seen, venueVars, wire>>
      BY <1>13 DEF vars, engineVars, snapVars, memoryVars
    <2> QED
      BY <1>2, <1>3, <2>1 DEF venueVars, DrainInv, Checking
  <1> QED
    BY <1>1, <1>4, <1>5, <1>6, <1>7, <1>8, <1>9, <1>10, <1>11, <1>12, <1>13, ReconcilesAgree DEF Next

LEMMA DrainInitial == Init => DrainInv
  <1> SUFFICES ASSUME Init PROVE DrainInv
    OBVIOUS
  <1>1. BookInv
    BY BookInitial
  <1>2. Queued = {} /\ acks = {} /\ queue = <<>> /\ Len(queue) = 0
    BY DEF Init, VenueInit, Queued
  <1>3. AgreeInv
    BY <1>2, NetEmpty DEF Init, EngineInit, VenueInit, AgreeInv, NoVerdict, NewToUs, TermsHold,
                          AcksAgree, BookAhead
  <1>4. Checking
    BY DEF Init, EngineInit, NoSnapshot, Checking
  <1> QED
    BY <1>1, <1>3, <1>4 DEF DrainInv

\* With everything the venue published consumed and no call under way, our
\* position is the venue's book and the last reconciliation has found no break:
\* for every set of intents, every slicing and every fault of the mock, while the
\* process lives and no order's verdict is asked for.
THEOREM MockDrainedAgreement ==
  ASSUME MaxCrashes = 0, "confirm_order" \notin Calls
  PROVE  Spec => []DrainedAgreement
  <1>1. DrainInv /\ [Next]_vars => DrainInv'
    BY DrainStep
  <1>2. DrainInv => DrainedAgreement
    <2> SUFFICES ASSUME DrainInv, queue = <<>>, Quiet
                 PROVE  position = book /\ lastResult # "break"
      BY DEF DrainedAgreement
    <2>1. Queued = {}
      BY DEF Queued
    <2>2. position = book
      BY <2>1, NetEmpty DEF DrainInv, AgreeInv, BookAhead, BookInv, SessionInv, EngineInv, EngineTypeOK
    <2> QED
      BY <2>2 DEF DrainInv, Checking, Quiet
  <1> QED
    BY <1>1, <1>2, DrainInitial, PTL DEF Spec

-----------------------------------------------------------------------------
(***************************************************************************)
(* The oversell guard.  It compares a sell with the position less what the *)
(* open sells may still take, and our position lags behind the venue.  It  *)
(* is enough because the sells in the queue are part of what is reserved:  *)
(* an order stays open until the last of its fills is consumed.  A cancel  *)
(* ends that (MCMockCancelOversell), hence there are none here.            *)
(***************************************************************************)

\* Nothing is cancelled, on either side.
Uncancelled ==
  /\ \A c \in wire : c.op = "submit" /\ (c.reply # None => c.reply.status # "CANCELLED")
  /\ \A a \in acks : a.status # "CANCELLED"
  /\ \A id \in OrderIds : orders[id] # None => orders[id].status # "CANCELLED"

\* A queued execution is on the side of its order.
SidesMatch == \A f \in Queued : f.side = SideOf[orders[f.order].key]

\* What the open sells may still take is there.
Covered == ReservedSells <= position

SellInv == Uncancelled /\ SidesMatch /\ Covered

\* Each order has room for what is queued for it.
Room ==
  \A id \in OrderIds : orders[id] # None =>
    orders[id].filled + Executed(QueuedOf(id)) <= orders[id].qty

LEMMA DrainHasRoom ==
  ASSUME DrainInv
  PROVE  Room
  <1> SUFFICES ASSUME NEW id \in OrderIds, orders[id] # None
               PROVE  orders[id].filled + Executed(QueuedOf(id)) <= orders[id].qty
    BY DEF Room
  <1>1. /\ orders[id].filled \in Nat /\ orders[id].qty \in Nat
        /\ orders[id].qty = QtyOf[orders[id].key] /\ Executed(QueuedOf(id)) \in Nat
    BY QueuedTypes DEF DrainInv, BookInv, SessionInv, EngineInv, EngineTypeOK, Order,
                       AgreeInv, TermsHold
  <1>2. CASE \E a \in acks : a.order = id
    BY <1>1, <1>2 DEF DrainInv, AgreeInv, AcksAgree
  <1>3. CASE \A a \in acks : a.order # id
    <2>1. QueuedOf(id) = {}
      BY <1>3 DEF QueuedOf, Queued, DrainInv, BookInv, AckInv, QueueAcked
    <2>2. orders[id].filled = 0
      BY <1>3 DEF DrainInv, AgreeInv, TermsHold
    <2> QED
      BY <1>1, <2>1, <2>2, ExecutedEmpty
  <1> QED
    BY <1>2, <1>3

-----------------------------------------------------------------------------
\* An order that reserves, and what it reserves.
Sells(o) == o # None /\ SideOf[o.key] = "SELL" /\ IsOpen(o.status)

Reserves(o) == IF Sells(o) THEN Remaining(o) ELSE 0

Selling(table) == {id \in OrderIds : Sells(table[id])}

Reserved(table) == Total([id \in Selling(table) |-> Remaining(table[id])])

\* A table of orders that are not overfilled, one per key.
Table(table) ==
  /\ table \in [OrderIds -> Order \cup {None}]
  /\ \A id1, id2 \in OrderIds :
       table[id1] # None /\ table[id2] # None /\ table[id1].key = table[id2].key => id1 = id2
  /\ \A id \in OrderIds : table[id] # None => table[id].filled <= table[id].qty

\* There are no more sells than keys.
LEMMA SellingFinite ==
  ASSUME NEW t, Table(t)
  PROVE  /\ IsFiniteSet(Selling(t))
         /\ [id \in Selling(t) |-> Remaining(t[id])] \in [Selling(t) -> Nat]
  <1> DEFINE key == [id \in Selling(t) |-> t[id].key]
  <1>1. \A id \in Selling(t) : id \in OrderIds /\ t[id] # None /\ t[id] \in Order
    BY DEF Selling, Sells, Table
  <1>2. key \in [Selling(t) -> Keys]
    BY <1>1 DEF Order
  <1>3. \A id1, id2 \in Selling(t) : key[id1] = key[id2] => id1 = id2
    BY <1>1 DEF Table
  <1> HIDE DEF key
  <1>4. key \in Injection(Selling(t), Keys)
    BY <1>2, <1>3 DEF Injection, IsInjective
  <1>5. IsFiniteSet(Selling(t))
    BY <1>4, FS_Injection, IntentsAssumption
  <1>6. \A id \in Selling(t) : Remaining(t[id]) \in Nat
    BY <1>1 DEF Table, Remaining, Order
  <1> QED
    BY <1>5, <1>6

\* What is reserved moves with the one order that changes.
LEMMA ReservedMoves ==
  ASSUME NEW old, Table(old), NEW new, Table(new), NEW id \in OrderIds,
         \A i \in OrderIds \ {id} : new[i] = old[i]
  PROVE  /\ Reserved(old) \in Nat /\ Reserved(new) \in Nat
         /\ Reserved(new) - Reserves(new[id]) = Reserved(old) - Reserves(old[id])
  <1> DEFINE others(t) == Total([i \in Selling(t) \ {id} |-> Remaining(t[i])])
  <1>1. ASSUME NEW t, Table(t)
        PROVE  /\ Reserved(t) \in Nat /\ others(t) \in Nat /\ Reserves(t[id]) \in Nat
               /\ Reserved(t) = others(t) + Reserves(t[id])
    <2>1. PICK q : q = [i \in Selling(t) |-> Remaining(t[i])]
      OBVIOUS
    <2>2. /\ IsFiniteSet(Selling(t)) /\ q \in [Selling(t) -> Nat]
          /\ Reserved(t) = Total(q) /\ Total(q) \in Nat
      BY <1>1, <2>1, SellingFinite, TotalType DEF Reserved
    <2>3. others(t) = Total([i \in Selling(t) \ {id} |-> q[i]])
      <3>1. [i \in Selling(t) \ {id} |-> Remaining(t[i])] = [i \in Selling(t) \ {id} |-> q[i]]
        BY <2>1
      <3> QED
        BY <3>1
    <2> HIDE DEF others
    <2>4. CASE id \in Selling(t)
      <3>1. Total(q) = others(t) + q[id]
        BY <2>2, <2>3, <2>4, TotalSplit
      <3>2. q[id] \in Nat /\ q[id] = Reserves(t[id])
        BY <2>1, <2>2, <2>4 DEF Selling, Reserves
      <3>3. others(t) \in Nat
        <4>1. IsFiniteSet(Selling(t) \ {id}) /\ [i \in Selling(t) \ {id} |-> q[i]] \in [Selling(t) \ {id} -> Nat]
          BY <2>2, FS_RemoveElement
        <4> QED
          BY <2>3, <4>1, TotalType
      <3> QED
        BY <2>2, <3>1, <3>2, <3>3
    <2>5. CASE id \notin Selling(t)
      <3>1. Selling(t) \ {id} = Selling(t) /\ Reserves(t[id]) = 0
        BY <2>5 DEF Selling, Reserves
      <3>2. [i \in Selling(t) |-> q[i]] = q
        BY <2>2
      <3>3. others(t) = Total(q)
        BY <2>3, <3>1, <3>2
      <3> QED
        BY <2>2, <3>1, <3>3
    <2> QED
      BY <2>4, <2>5
  <1>2. others(new) = others(old)
    <2>1. Selling(new) \ {id} = Selling(old) \ {id}
      BY DEF Selling
    <2>2. [i \in Selling(new) \ {id} |-> Remaining(new[i])]
            = [i \in Selling(old) \ {id} |-> Remaining(old[i])]
      BY <2>1 DEF Selling
    <2> QED
      BY <2>2
  <1> HIDE DEF others
  <1> QED
    BY <1>1, <1>2

LEMMA ReservedIsOfTable == ReservedSells = Reserved(orders)
  <1>1. OpenSells = Selling(orders)
    BY DEF OpenSells, Created, Selling, Sells
  <1> QED
    BY <1>1 DEF ReservedSells, Reserved

LEMMA OrdersTable ==
  ASSUME DrainInv
  PROVE  Table(orders)
  <1>1. Room /\ \A id \in OrderIds : orders[id] # None =>
          orders[id].filled \in Nat /\ orders[id].qty \in Nat /\ Executed(QueuedOf(id)) \in Nat
    BY DrainHasRoom, QueuedTypes DEF DrainInv, BookInv, SessionInv, EngineInv, EngineTypeOK, Order
  <1>2. \A id \in OrderIds : orders[id] # None => orders[id].filled <= orders[id].qty
    BY <1>1 DEF Room
  <1> QED
    BY <1>2 DEF Table, DrainInv, BookInv, SessionInv, EngineInv, EngineTypeOK, OneOrderPerKey

\* Uncancelled, a sell reserves all that it has not counted.
LEMMA UncancelledReserves ==
  ASSUME DrainInv, Uncancelled, NEW id \in OrderIds, orders[id] # None
  PROVE  /\ Reserves(orders[id]) =
              IF SideOf[orders[id].key] = "SELL" THEN orders[id].qty - orders[id].filled ELSE 0
         /\ orders[id].filled < orders[id].qty => IsOpen(orders[id].status)
  <1>1. /\ Coherent(orders[id]) /\ ~orders[id].confirmed /\ orders[id].status # "CANCELLED"
        /\ orders[id].qty \in Nat /\ orders[id].filled \in Nat
    BY DEF DrainInv, BookInv, RowsBooked, CountsLedger, AgreeInv, NoVerdict, Uncancelled,
           SessionInv, EngineInv, EngineTypeOK, Order
  <1>2. IsOpen(orders[id].status) \/ orders[id].filled = orders[id].qty
    BY <1>1 DEF Coherent, IsOpen, Terminal
  <1> QED
    BY <1>1, <1>2 DEF Reserves, Sells, Remaining

\* The sells that are on their way to us are reserved.
LEMMA QueuedIsReserved ==
  ASSUME DrainInv, Uncancelled, SidesMatch
  PROVE  Executed(OfSide(Queued, "SELL")) <= ReservedSells /\ ReservedSells \in Nat
  <1> DEFINE rows == OfSide(Queued, "SELL")
             q    == [id \in Selling(orders) |-> Remaining(orders[id])]
  <1>1. /\ IsFiniteSet(Selling(orders)) /\ q \in [Selling(orders) -> Nat]
        /\ ReservedSells = Total(q)
    BY OrdersTable, SellingFinite, ReservedIsOfTable DEF Reserved
  <1>2. /\ Queued \in SUBSET Fill /\ IsFiniteSet(Queued)
        /\ \A id : /\ QueuedOf(id) \in SUBSET Fill /\ IsFiniteSet(QueuedOf(id))
                  /\ Executed(QueuedOf(id)) \in Nat
    BY QueuedTypes DEF DrainInv, BookInv
  <1>3. Ledger(rows) /\ Executed(rows) = Summed(rows)
    BY <1>2, OneSide, FillsAreRows
  <1>4. \A id : /\ Summed(RowsOf(rows, id)) <= Executed(QueuedOf(id))
                /\ Summed(RowsOf(rows, id)) \in Nat
    <2> TAKE id
    <2>1. RowsOf(rows, id) \subseteq QueuedOf(id)
      BY DEF RowsOf, QueuedOf, OfSide
    <2>2. Ledger(QueuedOf(id)) /\ Executed(QueuedOf(id)) = Summed(QueuedOf(id))
      BY <1>2, FillsAreRows
    <2> QED
      BY <2>1, <2>2, SummedMonotone, SummedType
  <1>5. \A id \in OrderIds : orders[id] # None =>
          /\ orders[id].filled + Executed(QueuedOf(id)) <= orders[id].qty
          /\ orders[id].filled \in Nat /\ orders[id].qty \in Nat
    BY DrainHasRoom DEF Room, DrainInv, BookInv, SessionInv, EngineInv, EngineTypeOK, Order
  <1>6. ASSUME NEW f \in rows
        PROVE  f.order \in Selling(orders)
    <2>1. f \in Queued /\ f \in Fill /\ f.side = "SELL" /\ f \in QueuedOf(f.order)
      BY <1>2 DEF OfSide, QueuedOf
    <2>2. f.order \in OrderIds /\ orders[f.order] # None /\ f.qty \in Nat \ {0}
      BY <2>1 DEF Fill, Queued, DrainInv, BookInv, SessionInv, VenueKnows
    <2>3. f.qty <= Executed(QueuedOf(f.order))
      <3>1. /\ Ledger(QueuedOf(f.order)) /\ Summed({f}) <= Summed(QueuedOf(f.order))
            /\ Executed(QueuedOf(f.order)) = Summed(QueuedOf(f.order))
        BY <1>2, <2>1, FillsAreRows, SummedMonotone
      <3>2. Ledger({})
        BY FS_EmptySet DEF Ledger
      <3>3. Summed({} \cup {f}) = Summed({}) + f.qty
        BY <2>2, <3>2, SummedAdd
      <3>4. {} \cup {f} = {f}
        OBVIOUS
      <3> QED
        BY <2>2, <3>1, <3>3, <3>4, SummedEmpty
    <2>4. orders[f.order].filled < orders[f.order].qty
      BY <1>2, <1>5, <2>2, <2>3
    <2>5. IsOpen(orders[f.order].status)
      BY <2>2, <2>4, UncancelledReserves
    <2>6. SideOf[orders[f.order].key] = "SELL"
      BY <2>1 DEF SidesMatch
    <2> QED
      BY <2>2, <2>5, <2>6 DEF Selling, Sells
  <1>7. \A id \in Selling(orders) : Summed(RowsOf(rows, id)) <= q[id]
    <2> SUFFICES ASSUME NEW id \in Selling(orders)
                 PROVE  Summed(RowsOf(rows, id)) <= Remaining(orders[id])
      OBVIOUS
    <2>1. id \in OrderIds /\ orders[id] # None
      BY DEF Selling, Sells
    <2> QED
      BY <1>2, <1>4, <1>5, <2>1 DEF Remaining
  <1> HIDE DEF rows, q
  <1>8. Summed(rows) <= Total(q) /\ Total(q) \in Nat
    BY <1>1, <1>3, <1>6, <1>7, SummedWithin, TotalType
  <1> QED
    BY <1>1, <1>3, <1>8 DEF rows

-----------------------------------------------------------------------------
\* No fill and no ack of something else cancels an order.
LEMMA FillLands ==
  ASSUME NEW o \in Order, NEW qty \in Nat, ApplyFill(o, qty).raised = "none"
  PROVE  ApplyFill(o, qty).order.status # "CANCELLED"
  <1>1. ApplyFill(o, qty) = Land(Booked(o, qty))
    BY DEF ApplyFill, Raised
  <1> DEFINE b == Booked(o, qty)
             p == [b EXCEPT !.status = FillTarget(b)]
  <1>2. p.status # "CANCELLED"
    BY DEF Booked, FillTarget, Order
  <1> HIDE DEF b, p
  <1>3. Land(b).raised = "none" => Land(b).order = p
    BY DEF Land, Transition, Returned, Raised, p
  <1> QED
    BY <1>1, <1>2, <1>3 DEF b

LEMMA AckCancelsNothing ==
  ASSUME NEW o \in Order, NEW reply \in Reply,
         o.status # "CANCELLED", reply.status # "CANCELLED"
  PROVE  ApplyAck(o, reply).order.status # "CANCELLED"
BY DEF ApplyAck, MarkSubmitted, Transition, Raised, Returned, Order, Reply

\* The venue publishes and we learn nothing, or the queue stays or shrinks.
LEMMA SidesStay ==
  ASSUME DrainInv, SidesMatch, Keeps,
         \A f \in Queued' : f \in Queued \/ f.side = SideOf[orders'[f.order].key]
  PROVE  SidesMatch'
  <1>1. \A f \in Queued : f.order \in OrderIds /\ orders[f.order] # None
    BY QueuedTypes DEF Queued, Fill, DrainInv, BookInv, SessionInv, VenueKnows
  <1>2. \A f \in Queued : orders'[f.order].key = orders[f.order].key
    BY <1>1 DEF Keeps, KeepsKeys, Created
  <1> QED
    BY <1>2 DEF SidesMatch

LEMMA PublishedIsQueued ==
  ASSUME DrainInv, NEW f, Publish(f)
  PROVE  \A g \in Queued' : g \in Queued \/ g = f
  <1>1. queue \in Seq(Fill) /\ queue' = Append(queue, f)
    BY DEF DrainInv, BookInv, SessionInv, VenueTypeOK, Publish
  <1>2. /\ Len(queue) \in Nat /\ Len(queue') = Len(queue) + 1
        /\ \A i \in 1 .. Len(queue) : queue'[i] = queue[i]
        /\ queue'[Len(queue) + 1] = f
    BY <1>1, AppendProperties
  <1> QED
    BY <1>2 DEF Queued

LEMMA AcceptedIsKnown ==
  ASSUME NEW k, NEW id, Accept(k, id)
  PROVE  \E a \in acks' : a.key = k
  <1>1. CASE KnowsKey(k)
    BY <1>1 DEF Accept, KnowsKey, venueVars
  <1>2. CASE ~KnowsKey(k)
    <2>1. PICK bid, status, filled, slices :
            [bid |-> bid, key |-> k, order |-> id, status |-> status,
             filled |-> filled, slices |-> slices] \in acks'
      BY <1>2 DEF Accept
    <2> QED
      BY <2>1
  <1> QED
    BY <1>1, <1>2

\* A submit that the venue answers, and a slice.
LEMMA VenueFillsUncancelled ==
  ASSUME DrainInv, Uncancelled, SidesMatch, Keeps, UNCHANGED orders,
         \/ \E id \in OrderIds : orders[id] # None /\ Accept(orders[id].key, id)
         \/ \E a \in acks : Drip(a)
  PROVE  (\A a \in acks' : a.status # "CANCELLED") /\ SidesMatch'
  <1>1. acks \in SUBSET Ack /\ \A a \in acks : a.status # "CANCELLED"
    BY DEF DrainInv, BookInv, SessionInv, VenueTypeOK, Uncancelled
  <1>2. ASSUME UNCHANGED venueVars
        PROVE  (\A a \in acks' : a.status # "CANCELLED") /\ SidesMatch'
    BY <1>1, <1>2, SidesStay DEF venueVars, Queued
  <1>3. ASSUME NEW id \in OrderIds, orders[id] # None, Accept(orders[id].key, id)
        PROVE  (\A a \in acks' : a.status # "CANCELLED") /\ SidesMatch'
    <2> DEFINE k == orders[id].key
    <2>1. CASE KnowsKey(k)
      BY <1>2, <1>3, <2>1 DEF Accept
    <2>2. CASE ~KnowsKey(k) /\ Slices <= 1
      <3>1. \A a \in acks' : a.status # "CANCELLED"
        BY <1>1, <1>3, <2>2 DEF Accept
      <3>2. PICK f : f = NewFill(seq + 2, id, k, QtyOf[k]) /\ Publish(f)
        BY <1>3, <2>2 DEF Accept
      <3>3. f.side = SideOf[orders'[f.order].key]
        BY <3>2 DEF NewFill
      <3> QED
        BY <3>1, <3>2, <3>3, PublishedIsQueued, SidesStay
    <2>3. CASE ~KnowsKey(k) /\ ~(Slices <= 1)
      <3>1. (\A a \in acks' : a.status # "CANCELLED") /\ queue' = queue
        BY <1>1, <1>3, <2>3 DEF Accept
      <3> QED
        BY <3>1, SidesStay DEF Queued
    <2> QED
      BY <2>1, <2>2, <2>3
  <1>4. ASSUME NEW a \in acks, Drip(a)
        PROVE  (\A b \in acks' : b.status # "CANCELLED") /\ SidesMatch'
    <2>1. PICK b, f : /\ acks' = (acks \ {a}) \cup {b} /\ Publish(f)
                      /\ b.status # "CANCELLED"
                      /\ f = NewFill(seq + 1, a.order, a.key, NextSlice(a))
      <3> DEFINE filled == a.filled + NextSlice(a)
                 status == IF filled >= QtyOf[a.key] THEN "FILLED" ELSE "PARTIALLY_FILLED"
                 d == [a EXCEPT !.status = status, !.filled = filled, !.slices = @ + 1]
      <3>1. acks' = (acks \ {a}) \cup {d} /\ Publish(NewFill(seq + 1, a.order, a.key, NextSlice(a)))
        BY <1>4 DEF Drip, Update
      <3>2. d.status = status /\ status # "CANCELLED"
        BY <1>1 DEF Ack
      <3>3. PICK f : f = NewFill(seq + 1, a.order, a.key, NextSlice(a))
        OBVIOUS
      <3> HIDE DEF d, status
      <3> QED
        BY <3>1, <3>2, <3>3
    <2>2. \A d \in acks' : d.status # "CANCELLED"
      BY <1>1, <2>1
    <2>3. a.key = orders[a.order].key
      BY DEF DrainInv, AgreeInv, AcksAgree
    <2>4. f.side = SideOf[orders'[f.order].key]
      BY <2>1, <2>3 DEF NewFill
    <2> QED
      BY <2>1, <2>2, <2>4, PublishedIsQueued, SidesStay
  <1> QED
    BY <1>3, <1>4

\* What an ack makes of its order.
LEMMA AckOfSubmit ==
  ASSUME DrainInv, Uncancelled, NEW c \in wire, Resume(c)
  PROVE  /\ SubmitEnd(c) /\ UNCHANGED venueVars /\ c.order \in OrderIds /\ orders[c.order] # None
         /\ orders'[c.order] # None
         /\ orders'[c.order].key = orders[c.order].key
         /\ orders'[c.order].qty = orders[c.order].qty
         /\ orders'[c.order].filled = orders[c.order].filled
         /\ orders'[c.order].status # "CANCELLED"
         /\ \A i \in OrderIds \ {c.order} : orders'[i] = orders[i]
  <1> DEFINE id == c.order
             o  == orders[id]
  <1>1. c.op = "submit" /\ SubmitEnd(c) /\ UNCHANGED venueVars
    BY DEF Uncancelled, Resume, SubmitEnd, CancelEnd, ConfirmEnd
  <1>2. /\ c \in Call /\ id \in OrderIds /\ o # None /\ o \in Order /\ Sane(o)
        /\ orders \in [OrderIds -> Order \cup {None}]
    BY DEF DrainInv, BookInv, SessionInv, EngineInv, EngineTypeOK, Call, CallsKnown, SavedOrders, Saved
  <1>3. c.reply \in Reply /\ c.reply.status # "CANCELLED" /\ o.status # "CANCELLED"
    BY <1>1, <1>2 DEF Call, SubmitEnd, Uncancelled
  <1>4. PICK q : q = ApplyAck(o, c.reply).order
    OBVIOUS
  <1>5. q \in Order /\ q.key = o.key /\ q.qty = o.qty /\ q.filled = o.filled /\ q.status # "CANCELLED"
    BY <1>2, <1>3, <1>4, SoftApplyAck, AckKeepsTerms, AckCancelsNothing DEF Soft
  <1>6. orders' = [orders EXCEPT ![id] = q]
    BY <1>1, <1>4 DEF SubmitEnd
  <1>7. q # None
    BY <1>5, NoneAssumption
  <1> QED
    BY <1>1, <1>2, <1>5, <1>6, <1>7

\* A cancel that is made is a call under way.
LEMMA CancelIsSeen ==
  ASSUME NEW id \in OrderIds, CancelBegin(id)
  PROVE  ~NoCancels'
  <1> DEFINE c == [op |-> "cancel", order |-> id, bid |-> orders[id].bid, reply |-> None]
  <1>1. c \in wire' /\ c.op = "cancel"
    BY DEF CancelBegin, Send
  <1> QED
    BY <1>1 DEF NoCancels

\* No step cancels anything while nobody asks for it.
LEMMA StaysUncancelled ==
  ASSUME MaxCrashes = 0, "confirm_order" \notin Calls, NoCancels',
         DrainInv, Uncancelled, SidesMatch, [Next]_vars
  PROVE  Uncancelled' /\ SidesMatch'
  <1>1. Keeps
    BY SessionStep DEF DrainInv, BookInv
  <1>2. /\ wire \in SUBSET Call /\ orders \in [OrderIds -> Order \cup {None}]
        /\ \A c \in wire : c.order \in OrderIds /\ orders[c.order] # None
    BY DEF DrainInv, BookInv, SessionInv, EngineInv, EngineTypeOK, CallsKnown, Call
  <1>3. ASSUME queue' = queue
        PROVE  SidesMatch'
    BY <1>1, <1>3, SidesStay DEF Queued
  <1>4. ASSUME UNCHANGED <<orders, acks>>, \A c \in wire' : c \in wire \/ (c.op = "submit" /\ c.reply = None)
        PROVE  Uncancelled'
    BY <1>4 DEF Uncancelled
  <1>5. ASSUME NEW k \in Keys, Submit(k)
        PROVE  Uncancelled' /\ SidesMatch'
    <2>1. UNCHANGED venueVars
      BY <1>5 DEF Submit
    <2>2. CASE SubmitBegin(k)
      <3>1. PICK id, o : /\ id = CHOOSE new \in OrderIds \ Created : TRUE
                         /\ o = [key |-> k, status |-> "NEW", qty |-> QtyOf[k],
                                 filled |-> 0, confirmed |-> FALSE, bid |-> None]
        OBVIOUS
      <3>2. /\ orders' = [orders EXCEPT ![id] = o]
            /\ wire' = wire \cup {[op |-> "submit", order |-> id, bid |-> None, reply |-> None]}
        BY <2>2, <3>1 DEF SubmitBegin, Send
      <3>3. \A i \in OrderIds : orders'[i] = o \/ orders'[i] = orders[i]
        BY <1>2, <3>2
      <3>4. o.status # "CANCELLED"
        BY <3>1
      <3>5. Uncancelled'
        BY <2>1, <3>2, <3>3, <3>4 DEF Uncancelled, venueVars
      <3> QED
        BY <1>3, <2>1, <3>5 DEF venueVars
    <2>3. CASE SubmitOversell(k) \/ SubmitKnown(k)
      BY <1>3, <1>4, <2>1, <2>3 DEF SubmitOversell, SubmitKnown, memoryVars, venueVars
    <2> QED
      BY <1>5, <2>2, <2>3 DEF Submit
  <1>6. ASSUME NEW id \in OrderIds, Cancel(id) \/ Confirm(id)
        PROVE  FALSE
    BY <1>6, CancelIsSeen DEF Cancel, Confirm
  <1>7. CASE Report \/ \E r \in Readers : VenueSnapshot(r) \/ Reconciles(r)
    BY <1>3, <1>4, <1>7 DEF Report, ReportBegin, VenueSnapshot, SnapshotAnswered, Reconciles, Reconcile,
                            memoryVars, venueVars
  <1>8. ASSUME NEW c \in wire, VenueSubmit(c)
        PROVE  Uncancelled' /\ SidesMatch'
    <2> DEFINE k == orders[c.order].key
    <2>1. CASE Refuse(k) /\ CallRaises(c, "rejected")
      BY <1>3, <1>4, <2>1 DEF Refuse, CallRaises, memoryVars, venueVars
    <2>2. CASE FailTransiently(k) /\ CallRaises(c, "failed")
      BY <1>3, <1>4, <2>2 DEF FailTransiently, CallRaises, memoryVars
    <2>3. CASE /\ Accept(k, c.order) /\ EngineIdle
               /\ Answer(c, [bid |-> AckOfKey(acks', k).bid, status |-> AckOfKey(acks', k).status])
      <3>1. orders' = orders
        BY <2>3 DEF EngineIdle, memoryVars
      <3>2. (\A a \in acks' : a.status # "CANCELLED") /\ SidesMatch'
        BY <1>1, <1>2, <2>3, <3>1, VenueFillsUncancelled
      <3>3. AckOfKey(acks', k) \in acks'
        <4>1. \E a \in acks' : a.key = k
          BY <2>3, AcceptedIsKnown
        <4> QED
          BY <4>1 DEF AckOfKey
      <3>4. PICK reply, d : /\ reply.status # "CANCELLED" /\ d = [c EXCEPT !.reply = reply]
                            /\ wire' = (wire \ {c}) \cup {d}
        <4>1. AckOfKey(acks', k).status # "CANCELLED"
          BY <3>2, <3>3
        <4>2. PICK reply : /\ reply.status # "CANCELLED"
                           /\ Answer(c, reply)
          <5>1. PICK reply : reply = [bid |-> AckOfKey(acks', k).bid, status |-> AckOfKey(acks', k).status]
            OBVIOUS
          <5>2. reply.status = AckOfKey(acks', k).status
            BY <5>1
          <5> QED
            BY <2>3, <4>1, <5>1, <5>2
        <4> QED
          BY <4>2 DEF Answer
      <3>5. d.op = "submit" /\ d.reply = reply
        BY <1>2, <1>8, <3>4 DEF Call, VenueSubmit
      <3>6. Uncancelled'
        BY <3>1, <3>2, <3>4, <3>5 DEF Uncancelled
      <3> QED
        BY <3>2, <3>6
    <2> QED
      BY <1>8, <2>1, <2>2, <2>3 DEF VenueSubmit
  <1>9. ASSUME NEW c \in wire, VenueCancel(c) \/ VenueQuery(c)
        PROVE  FALSE
    BY <1>9 DEF VenueCancel, VenueQuery, Uncancelled
  <1>10. ASSUME NEW c \in wire, Resume(c)
         PROVE  Uncancelled' /\ SidesMatch'
    <2>1. /\ SubmitEnd(c) /\ UNCHANGED venueVars /\ c.order \in OrderIds
          /\ orders'[c.order].status # "CANCELLED"
          /\ \A i \in OrderIds \ {c.order} : orders'[i] = orders[i]
      BY <1>10, AckOfSubmit
    <2>2. \A i \in OrderIds : orders'[i] # None => orders'[i].status # "CANCELLED"
      BY <2>1 DEF Uncancelled
    <2>3. wire' = wire \ {c}
      BY <2>1 DEF SubmitEnd
    <2>4. Uncancelled'
      BY <2>1, <2>2, <2>3 DEF Uncancelled, venueVars
    <2> QED
      BY <1>3, <2>1, <2>4 DEF venueVars
  <1>11. ASSUME NEW a \in acks, DripTick(a)
         PROVE  Uncancelled' /\ SidesMatch'
    <2>1. UNCHANGED <<orders, wire>> /\ Drip(a)
      BY <1>11 DEF DripTick, engineVars, memoryVars
    <2>2. (\A b \in acks' : b.status # "CANCELLED") /\ SidesMatch'
      BY <1>1, <2>1, VenueFillsUncancelled
    <2> QED
      BY <2>1, <2>2 DEF Uncancelled
  <1>12. CASE Consume
    <2>1. PICK f, id, o, r : /\ f = Head(queue) /\ id = f.order /\ o = orders[id]
                             /\ r = ApplyFill(o, f.qty)
      OBVIOUS
    <2>2. /\ id \in OrderIds /\ o \in Order /\ f.qty \in Nat /\ r.raised = "none"
          /\ orders' = [orders EXCEPT ![id] = r.order] /\ UNCHANGED <<acks, wire>>
          /\ queue # <<>> /\ queue' = Tail(queue)
      BY <1>12, <2>1, ConsumesWhole
    <2>3. r.order.status # "CANCELLED"
      BY <2>1, <2>2, FillLands
    <2>4. \A i \in OrderIds : orders'[i] = r.order \/ orders'[i] = orders[i]
      BY <1>2, <2>2
    <2>5. Uncancelled'
      BY <2>2, <2>3, <2>4 DEF Uncancelled
    <2>6. \A g \in Queued' : g \in Queued
      BY <2>1, <2>2, QueueShrinks
    <2> QED
      BY <1>1, <2>5, <2>6, SidesStay
  <1>13. CASE Dies
    BY <1>13 DEF Dies, Crash, CrashInFill, Restart, DrainInv, BookInv, SessionInv, EngineInv,
                 EngineTypeOK
  <1>14. CASE UNCHANGED vars
    BY <1>3, <1>4, <1>14 DEF vars, engineVars, venueVars, memoryVars
  <1> QED
    BY <1>5, <1>6, <1>7, <1>8, <1>9, <1>10, <1>11, <1>12, <1>13, <1>14 DEF Next

\* Every order of a sell reserves what it has not counted.
Whole ==
  /\ Table(orders)
  /\ \A id \in OrderIds : orders[id] # None =>
       Reserves(orders[id]) =
         IF SideOf[orders[id].key] = "SELL" THEN orders[id].qty - orders[id].filled ELSE 0

LEMMA UncancelledIsWhole ==
  ASSUME DrainInv, Uncancelled
  PROVE  Whole
BY OrdersTable, UncancelledReserves DEF Whole

\* The guard lets a sell in only if it is covered, and what is consumed of a sell
\* is taken off both.
LEMMA StaysCovered ==
  ASSUME MaxCrashes = 0, "confirm_order" \notin Calls, NoCancels',
         DrainInv, Uncancelled, SidesMatch, Whole, Whole', Covered, [Next]_vars
  PROVE  Covered'
  <1>1. /\ ReservedSells = Reserved(orders) /\ ReservedSells \in Nat
        /\ position \in Int /\ ReservedSells <= position
    BY ReservedIsOfTable, QueuedIsReserved
       DEF Covered, DrainInv, BookInv, SessionInv, EngineInv, EngineTypeOK
  <1>2. ReservedSells' = Reserved(orders')
    <2>1. OpenSells' = Selling(orders')
      BY DEF OpenSells, Created, Selling, Sells
    <2> QED
      BY <2>1 DEF ReservedSells, Reserved
  <1>3. Table(orders) /\ Table(orders')
    BY DEF Whole
  <1>4. orders \in [OrderIds -> Order \cup {None}] /\ orders' \in [OrderIds -> Order \cup {None}]
    BY <1>3 DEF Table
  <1>5. ASSUME NEW id \in OrderIds, \A i \in OrderIds \ {id} : orders'[i] = orders[i]
        PROVE  /\ ReservedSells' \in Nat
               /\ ReservedSells' - Reserves(orders'[id]) = ReservedSells - Reserves(orders[id])
    BY <1>1, <1>2, <1>3, <1>5, ReservedMoves
  <1>6. ASSUME UNCHANGED <<orders, position>>
        PROVE  Covered'
    BY <1>1, <1>2, <1>6 DEF Covered
  <1>7. ASSUME NEW id \in OrderIds, orders[id] # None
        PROVE  /\ Reserves(orders[id]) = IF SideOf[orders[id].key] = "SELL"
                                           THEN orders[id].qty - orders[id].filled ELSE 0
               /\ orders[id].qty \in Nat /\ orders[id].filled \in Nat
    BY <1>4, <1>7 DEF Whole, Order
  <1>8. ASSUME NEW id \in OrderIds, orders'[id] # None
        PROVE  Reserves(orders'[id]) = IF SideOf[orders'[id].key] = "SELL"
                                         THEN orders'[id].qty - orders'[id].filled ELSE 0
    BY <1>8 DEF Whole
  <1>9. ASSUME NEW k \in Keys, Submit(k)
        PROVE  Covered'
    <2>1. CASE SubmitBegin(k)
      <3>1. PICK id, o : /\ id = CHOOSE new \in OrderIds \ Created : TRUE
                         /\ o = [key |-> k, status |-> "NEW", qty |-> QtyOf[k],
                                 filled |-> 0, confirmed |-> FALSE, bid |-> None]
        OBVIOUS
      <3>2. id \in OrderIds /\ orders[id] = None
        <4>1. id \in OrderIds \ Created
          BY <2>1, <3>1 DEF SubmitBegin
        <4> QED
          BY <4>1 DEF Created
      <3>3. orders' = [orders EXCEPT ![id] = o] /\ position' = position
        BY <2>1, <3>1 DEF SubmitBegin
      <3>4. orders'[id] = o /\ \A i \in OrderIds \ {id} : orders'[i] = orders[i]
        BY <1>4, <3>2, <3>3
      <3>5. Reserves(orders[id]) = 0
        BY <3>2 DEF Reserves, Sells
      <3>6. o # None
        <4>1. orders'[id] \in Order \cup {None}
          BY <1>4, <3>2
        <4>2. o \in Order
          BY <3>1, IntentsAssumption DEF Order, Statuses
        <4> QED
          BY <4>2, NoneAssumption
      <3>7. /\ Reserves(o) = IF SideOf[k] = "SELL" THEN QtyOf[k] ELSE 0
            /\ QtyOf[k] \in Nat
        <4>1. Reserves(o) = IF SideOf[o.key] = "SELL" THEN o.qty - o.filled ELSE 0
          BY <1>8, <3>2, <3>4, <3>6
        <4> QED
          BY <3>1, <4>1, IntentsAssumption
      <3>8. SideOf[k] = "SELL" => QtyOf[k] <= position - ReservedSells
        BY <1>1, <2>1, IntentsAssumption DEF SubmitBegin, Oversells
      <3>9. ReservedSells' - Reserves(o) = ReservedSells - 0 /\ ReservedSells' \in Nat
        BY <1>5, <3>2, <3>4, <3>5
      <3> QED
        BY <1>1, <3>3, <3>7, <3>8, <3>9 DEF Covered
    <2>2. CASE SubmitOversell(k) \/ SubmitKnown(k)
      BY <1>6, <2>2 DEF SubmitOversell, SubmitKnown, memoryVars
    <2> QED
      BY <1>9, <2>1, <2>2 DEF Submit
  <1>10. ASSUME NEW id \in OrderIds, Cancel(id) \/ Confirm(id)
         PROVE  FALSE
    BY <1>10, CancelIsSeen DEF Cancel, Confirm
  <1>11. CASE Report \/ \E r \in Readers : VenueSnapshot(r) \/ Reconciles(r)
    BY <1>6, <1>11 DEF Report, ReportBegin, VenueSnapshot, SnapshotAnswered, Reconciles, Reconcile,
                       memoryVars
  <1>12. ASSUME NEW c \in wire, VenueSubmit(c) \/ VenueCancel(c) \/ VenueQuery(c)
         PROVE  Covered'
    BY <1>6, <1>12 DEF VenueSubmit, VenueCancel, VenueQuery, CallRaises, EngineIdle, memoryVars
  <1>13. ASSUME NEW c \in wire, Resume(c)
         PROVE  Covered'
    <2>1. /\ SubmitEnd(c) /\ c.order \in OrderIds /\ orders[c.order] # None
          /\ orders'[c.order] # None
          /\ orders'[c.order].key = orders[c.order].key
          /\ orders'[c.order].qty = orders[c.order].qty
          /\ orders'[c.order].filled = orders[c.order].filled
          /\ \A i \in OrderIds \ {c.order} : orders'[i] = orders[i]
      BY <1>13, AckOfSubmit
    <2>2. Reserves(orders'[c.order]) = Reserves(orders[c.order]) /\ Reserves(orders[c.order]) \in Int
      BY <1>7, <1>8, <2>1
    <2>3. ReservedSells' = ReservedSells
      BY <1>1, <1>5, <2>1, <2>2
    <2>4. position' = position
      BY <2>1 DEF SubmitEnd
    <2> QED
      BY <2>3, <2>4 DEF Covered
  <1>14. ASSUME NEW a \in acks, DripTick(a)
         PROVE  Covered'
    BY <1>6, <1>14 DEF DripTick, engineVars, memoryVars
  <1>15. CASE Consume
    <2>1. PICK f, id, o, r : /\ f = Head(queue) /\ id = f.order /\ o = orders[id]
                             /\ r = ApplyFill(o, f.qty)
      OBVIOUS
    <2>2. /\ id \in OrderIds /\ o # None /\ o \in Order /\ f.qty \in Nat /\ f \in Fill /\ f \in Queued
          /\ r.order.filled = o.filled + f.qty /\ Soft(o, r.order) /\ r.order.qty = o.qty
          /\ orders' = [orders EXCEPT ![id] = r.order]
          /\ position' = position + Signed(f.side, f.qty)
      BY <1>15, <2>1, ConsumesWhole
    <2>3. orders'[id] = r.order /\ \A i \in OrderIds \ {id} : orders'[i] = orders[i]
      BY <1>4, <2>2
    <2>4. r.order # None /\ r.order.key = o.key
      BY <2>2, NoneAssumption DEF Soft
    <2>5. f.side = SideOf[o.key] /\ f.side \in {"BUY", "SELL"}
      BY <2>1, <2>2 DEF SidesMatch, Fill
    <2>6. /\ Reserves(o) = IF f.side = "SELL" THEN o.qty - o.filled ELSE 0
          /\ Reserves(r.order) = IF f.side = "SELL" THEN o.qty - (o.filled + f.qty) ELSE 0
          /\ o.qty \in Nat /\ o.filled \in Nat
      <3>1. /\ Reserves(orders[id]) = IF SideOf[o.key] = "SELL" THEN o.qty - o.filled ELSE 0
            /\ o.qty \in Nat /\ o.filled \in Nat
        BY <1>7, <2>1, <2>2
      <3>2. Reserves(orders'[id]) = IF SideOf[o.key] = "SELL"
                                      THEN r.order.qty - r.order.filled ELSE 0
        BY <1>8, <2>2, <2>3, <2>4
      <3> QED
        BY <2>1, <2>2, <2>3, <2>5, <3>1, <3>2
    <2>7. ReservedSells' - Reserves(r.order) = ReservedSells - Reserves(o) /\ ReservedSells' \in Nat
      BY <1>5, <2>1, <2>2, <2>3
    <2>8. CASE f.side = "SELL"
      BY <1>1, <2>2, <2>6, <2>7, <2>8 DEF Covered, Signed
    <2>9. CASE f.side = "BUY"
      BY <1>1, <2>2, <2>6, <2>7, <2>9 DEF Covered, Signed
    <2> QED
      BY <2>5, <2>8, <2>9
  <1>16. CASE Dies
    BY <1>16 DEF Dies, Crash, CrashInFill, Restart, DrainInv, BookInv, SessionInv, EngineInv,
                 EngineTypeOK
  <1>17. CASE UNCHANGED vars
    BY <1>6, <1>17 DEF vars, engineVars, memoryVars
  <1> QED
    BY <1>9, <1>10, <1>11, <1>12, <1>13, <1>14, <1>15, <1>16, <1>17 DEF Next

LEMMA SellInitial == Init => SellInv
  <1> SUFFICES ASSUME Init PROVE SellInv
    OBVIOUS
  <1>1. Queued = {} /\ OpenSells = {} /\ position = 0
    BY DEF Init, VenueInit, EngineInit, Queued, OpenSells, Created
  <1>2. Units([id \in {} |-> Remaining(orders[id])]) = {}
    BY DEF Units
  <1>3. ReservedSells = 0
    BY <1>1, <1>2, FS_EmptySet DEF ReservedSells, Total
  <1>4. Uncancelled
    BY DEF Init, VenueInit, EngineInit, Uncancelled
  <1> QED
    BY <1>1, <1>3, <1>4 DEF SellInv, SidesMatch, Covered

\* No interleaving of submits, slices and their consumption sells more than there
\* is, as long as nothing is cancelled or confirmed and the process lives: for
\* every set of intents, of every size, whatever is refused or fails.
THEOREM MockNeverOversold ==
  ASSUME MaxCrashes = 0, "confirm_order" \notin Calls
  PROVE  Spec => UncancelledNeverOversold
  <1>1. DrainInv /\ [Next]_vars => DrainInv'
    BY DrainStep
  <1>2. DrainInv /\ Uncancelled /\ SidesMatch /\ NoCancels' /\ [Next]_vars => Uncancelled' /\ SidesMatch'
    BY StaysUncancelled
  <1>3. DrainInv /\ Uncancelled => Whole
    BY UncancelledIsWhole
  <1>4. DrainInv /\ SellInv /\ Whole /\ Whole' /\ NoCancels' /\ [Next]_vars => Covered'
    BY StaysCovered DEF SellInv
  <1>5. Init => DrainInv /\ Uncancelled /\ SidesMatch /\ Covered
    BY DrainInitial, SellInitial DEF SellInv
  <1>6. DrainInv /\ SellInv => NeverOversold
    <2> SUFFICES ASSUME DrainInv, SellInv PROVE book >= 0
      BY DEF NeverOversold
    <2>1. /\ Executed(OfSide(Queued, "SELL")) <= ReservedSells /\ ReservedSells \in Nat
          /\ ReservedSells <= position
      BY QueuedIsReserved DEF SellInv, Covered
    <2>2. book = position + Net(Queued) /\ position \in Int
      BY DEF DrainInv, AgreeInv, BookAhead, BookInv, SessionInv, EngineInv, EngineTypeOK
    <2>3. \A side : Executed(OfSide(Queued, side)) \in Nat
      BY QueuedTypes, OneSide, ExecutedType DEF DrainInv, BookInv
    <2> QED
      BY <2>1, <2>2, <2>3 DEF Net
  <1>7. SellInv <=> Uncancelled /\ SidesMatch /\ Covered
    BY DEF SellInv
  <1> QED
    BY <1>1, <1>2, <1>3, <1>4, <1>5, <1>6, <1>7, PTL DEF Spec, UncancelledNeverOversold
=============================================================================
