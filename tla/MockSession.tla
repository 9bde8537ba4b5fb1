----------------------------- MODULE MockSession -----------------------------
(***************************************************************************)
(* The engine and the mock venue in one process, as main.lifespan and      *)
(* scenarios.py run them: callers of the engine's API, the fill consumer   *)
(* of main.py and the venue's drip tasks share one event loop.  No method  *)
(* of the mock that the engine awaits suspends, so while one of our calls  *)
(* is under way (~Quiet) nothing but that call can go on; the process may  *)
(* die all the same.                                                       *)
(***************************************************************************)
EXTENDS Engine, MockVenue

CONSTANT Calls      \* the API calls made besides submit

ASSUME SessionAssumption == Calls \subseteq {"cancel", "confirm_order", "reconcile"}

vars == <<engineVars, venueVars>>

TypeOK == EngineTypeOK /\ VenueTypeOK

Init == EngineInit /\ VenueInit

\* Everything of the engine but the wire.
EngineIdle == UNCHANGED <<memoryVars, snapVars, dbVars, crashes, historyVars>>

-----------------------------------------------------------------------------
\* POST /orders, scenarios.py: Engine.submit.
Submit(k) ==
  /\ Quiet
  /\ SubmitOversell(k) \/ SubmitKnown(k) \/ SubmitBegin(k)
  /\ UNCHANGED venueVars

Cancel(id) == Quiet /\ "cancel" \in Calls /\ CancelBegin(id) /\ UNCHANGED venueVars

Confirm(id) ==
  Quiet /\ "confirm_order" \in Calls /\ ConfirmBegin(id) /\ UNCHANGED venueVars

Report == Quiet /\ "reconcile" \in Calls /\ ReportBegin /\ UNCHANGED venueVars

\* MockBroker.submit, cancel, query_order and pnl_snapshot.
VenueSubmit(c) ==
  LET k == orders[c.order].key
  IN  /\ c.op = "submit" /\ c.reply = None
      /\ \/ Refuse(k) /\ CallRaises(c, "rejected")
         \/ FailTransiently(k) /\ CallRaises(c, "failed")
         \/ /\ Accept(k, c.order)
            /\ Answer(c, [bid |-> AckOfKey(acks', k).bid, status |-> AckOfKey(acks', k).status])
            /\ EngineIdle

VenueCancel(c) ==
  /\ c.op = "cancel" /\ c.reply = None
  /\ CancelAtVenue(c.bid)
  /\ Answer(c, [bid |-> c.bid, status |-> StatusOf(c.bid)'])
  /\ EngineIdle

VenueQuery(c) ==
  /\ c.op = "query_order" /\ c.reply = None
  /\ Answer(c, [bid |-> c.bid, status |-> StatusOf(c.bid)])
  /\ EngineIdle /\ UNCHANGED venueVars

VenueSnapshot(reader) == SnapshotAnswered(reader, book) /\ UNCHANGED venueVars

\* The task that made the call goes on.
Resume(c) ==
  /\ SubmitEnd(c) \/ CancelEnd(c) \/ ConfirmEnd(c)
  /\ UNCHANGED venueVars

Reconciles(reader) == Reconcile(reader) /\ UNCHANGED venueVars

\* The drip task of an accepted order.
DripTick(a) == Quiet /\ Drip(a) /\ UNCHANGED engineVars

\* main._consume_fills
Consume ==
  /\ Quiet /\ queue # <<>>
  /\ OnFill(Head(queue))
  /\ queue' = Tail(queue)
  /\ UNCHANGED <<acks, book, seq, transientLeft>>

\* The process dies, the mock with it; lifespan builds both anew.
Dies ==
  /\ \/ Crash
     \/ Quiet /\ queue # <<>> /\ CrashInFill(Head(queue))
  /\ VenueRestart

Next ==
  \/ \E k \in Keys : Submit(k)
  \/ \E id \in OrderIds : Cancel(id) \/ Confirm(id)
  \/ Report
  \/ \E c \in wire : VenueSubmit(c) \/ VenueCancel(c) \/ VenueQuery(c) \/ Resume(c)
  \/ \E r \in Readers : VenueSnapshot(r) \/ Reconciles(r)
  \/ \E a \in acks : DripTick(a)
  \/ Consume
  \/ Dies

Spec == Init /\ [][Next]_vars

\* The event loop: a call that was made returns, a drip task's sleep(tick) ends,
\* a queued fill reaches the consumer.  asyncio runs every ready task on each
\* turn of the loop, whatever the callers do; what looks like being disabled
\* and enabled again is one caller's step, seen at its awaits: hence SF.
Fairness ==
  /\ \A op \in {"submit", "cancel", "query_order"}, id \in OrderIds :
       WF_vars(\E c \in wire : /\ c.op = op /\ c.order = id
                               /\ \/ VenueSubmit(c) \/ VenueCancel(c)
                                  \/ VenueQuery(c) \/ Resume(c))
  /\ \A r \in Readers : WF_vars(VenueSnapshot(r) \/ Reconciles(r))
  /\ \A k \in Keys : SF_vars(\E a \in acks : a.key = k /\ DripTick(a))
  /\ SF_vars(Consume)

FairSpec == Spec /\ Fairness

\* ... and a caller who repeats a submit until it gets through.
RetryingSpec == FairSpec /\ \A k \in Keys : SF_vars(Submit(k))

-----------------------------------------------------------------------------
FillsOf(id) == {f \in dbFills : f.order = id}

\* store.py:4-7, no fill is half applied: of the three transactions of on_fill the
\* ledger's comes first, so whatever a crash cuts off, the saved order never
\* claims an execution that load() would not also count in the position, nor
\* differs from the ledger at all while there has been no crash.
LedgerIsFirst ==
  \A id \in OrderIds : dbOrders[id] # None =>
    /\ dbOrders[id].filled <= Executed(FillsOf(id))
    /\ crashes = 0 => dbOrders[id].filled = Executed(FillsOf(id))

\* Every order has counted exactly the executions the ledger holds for it.
OrderMatchesLedger ==
  \A id \in Created : orders[id].filled = Executed(FillsOf(id))

\* With every published execution consumed, our position is the venue's book
\* and the last reconciliation found no quantity break.
DrainedAgreement ==
  queue = <<>> /\ Quiet => position = book /\ lastResult # "break"

\* README.md:6-7, engine.py:4-7: where our position does not match the venue's
\* book, the reconciliation after the last fill has found a break.
DriftIsDetected ==
  queue = <<>> /\ Quiet /\ position # book => lastResult = "break"

\* The oversell guard: no interleaving of submits, partial fills and their
\* consumption lets the venue's book go short.
NeverOversold == book >= 0

\* No call under way is a cancel.
NoCancels == \A c \in wire : c.op # "cancel"

\* The oversell guard (engine.py:73-84) keeps the book covered through a session in
\* which nothing is cancelled.
UncancelledNeverOversold == []NoCancels => []NeverOversold

\* The broker's verdict on an order stands: no fill, ack, cancel or crash makes
\* a confirmed order open again or moves what it has filled.
ConfirmedStands == [][KeepsConfirmed]_vars

\* Every order the venue has accepted ends up FILLED in our table, with all
\* its executions in the ledger.
EventuallyFilled ==
  \A k \in Keys : KnowsKey(k) ~>
    (idem[k] # None /\ orders[idem[k].order].status = "FILLED"
                    /\ Executed(FillsOf(idem[k].order)) = QtyOf[k])

-----------------------------------------------------------------------------
\* idempotency.py:2-3: a duplicate submit resolves to the same order.
DuplicateGetsItsOrder ==
  [][\A k \in Keys : idem[k] # None /\ answer'[k] # answer[k]
                       => answer'[k] # "oversell"]_vars

\* README.md:17-18, brokers/base.py:16: an order whose dispatch failed
\* transiently is sent again when its caller retries.
TransientRetried == \A k \in Keys : answer[k] = "failed" ~> KnowsKey(k)
=============================================================================
