---------------------------- MODULE RemoteSession ----------------------------
(***************************************************************************)
(* The engine against a venue behind a network.  Every broker call is      *)
(* under way for a while: the other tasks go on meanwhile, the call may be *)
(* lost before or after the venue has acted on it, and fills may overtake  *)
(* the ack of their own order.  When our process dies the venue goes on;   *)
(* what it had not yet received is lost.                                   *)
(***************************************************************************)
EXTENDS Engine, RemoteVenue

CONSTANT Calls      \* the API calls made besides submit

ASSUME SessionAssumption == Calls \subseteq {"cancel", "confirm_order", "reconcile"}

vars == <<engineVars, venueVars>>

TypeOK == EngineTypeOK /\ VenueTypeOK

Init == EngineInit /\ VenueInit

EngineIdle == UNCHANGED <<memoryVars, snapVars, dbVars, crashes, historyVars>>

-----------------------------------------------------------------------------
Submit(k) ==
  /\ SubmitOversell(k) \/ SubmitKnown(k) \/ SubmitBegin(k)
  /\ UNCHANGED venueVars

Cancel(id) == "cancel" \in Calls /\ CancelBegin(id) /\ UNCHANGED venueVars

Confirm(id) == "confirm_order" \in Calls /\ ConfirmBegin(id) /\ UNCHANGED venueVars

Report == "reconcile" \in Calls /\ ReportBegin /\ UNCHANGED venueVars

VenueSubmit(c) ==
  LET k == orders[c.order].key
  IN  /\ c.op = "submit" /\ c.reply = None
      /\ Accept(k, c.order)
      /\ Answer(c, [bid |-> AckOfKey(acks', k).bid, status |-> AckOfKey(acks', k).status])
      /\ EngineIdle

VenueCancel(c) ==
  /\ c.op = "cancel" /\ c.reply = None
  /\ CancelAtVenue(c.bid)
  /\ Answer(c, [bid |-> c.bid, status |-> StatusOf(c.bid)'])
  /\ EngineIdle

VenueQuery(c) ==
  /\ c.op = "query_order" /\ c.reply = None
  /\ Answer(c, [bid |-> c.bid, status |-> StatusOf(c.bid)])
  /\ EngineIdle /\ UNCHANGED venueVars

VenueSnapshot(reader) == SnapshotAnswered(reader, book) /\ UNCHANGED venueVars

Resume(c) ==
  /\ SubmitEnd(c) \/ CancelEnd(c) \/ ConfirmEnd(c)
  /\ UNCHANGED venueVars

\* A timeout, a reset, a refusal: the call raises, whether or not the venue has
\* acted on the request.
Lose(c) == CallRaises(c, "failed") /\ UNCHANGED venueVars

LoseSnapshot(reader) == SnapshotRaises(reader) /\ UNCHANGED venueVars

Reconciles(reader) == Reconcile(reader) /\ UNCHANGED venueVars

Executes(a) == Execute(a) /\ UNCHANGED engineVars

Expires(a) == End(a) /\ UNCHANGED engineVars

NextFill == executions[cursor + 1]

Consume == Deliver /\ OnFill(NextFill)

Reconnect == Replay /\ UNCHANGED engineVars

\* The process dies; the stream may be resumed from any earlier place.
Dies ==
  \/ Crash /\ (Replay \/ UNCHANGED venueVars)
  \/ cursor < Len(executions) /\ CrashInFill(NextFill) /\ (Replay \/ UNCHANGED venueVars)

Next ==
  \/ \E k \in Keys : Submit(k)
  \/ \E id \in OrderIds : Cancel(id) \/ Confirm(id)
  \/ Report
  \/ \E c \in wire :
       VenueSubmit(c) \/ VenueCancel(c) \/ VenueQuery(c) \/ Resume(c) \/ Lose(c)
  \/ \E r \in Readers : VenueSnapshot(r) \/ LoseSnapshot(r) \/ Reconciles(r)
  \/ \E a \in acks : Executes(a) \/ Expires(a)
  \/ Consume
  \/ Reconnect
  \/ Dies

Spec == Init /\ [][Next]_vars

-----------------------------------------------------------------------------
EndedAtVenue(id) == \E a \in acks : a.order = id /\ ~IsOpen(a.status)

\* Our table calls the end of the order broker-confirmed, and the venue has it
\* open or has not received it.
Misjudged(id) == orders[id] # None /\ orders[id].confirmed /\ ~EndedAtVenue(id)

\* confirm_order() is under way without the venue's id of the order: it was
\* called before the ack of its submit (engine.py:114).
AskedWithoutId(id) == \E c \in wire : c.op = "query_order" /\ c.order = id /\ c.bid = None

\* A trusted end is the venue's own, however late the answer, whatever was lost,
\* replayed or restarted.  There is one way to write off an order that the venue
\* has not ended: to take the answer to a question put without its id.
TrustIsTheVenues ==
  [][\A id \in OrderIds : Misjudged(id)' => Misjudged(id) \/ AskedWithoutId(id)]_vars

\* A confirmed end stands against late acks, fills, cancels and restarts.
ConfirmedStands == [][KeepsConfirmed]_vars

\* The order counts more than the ledger holds for it.
Overcounts(id) ==
  orders[id].filled > Executed({f \in dbFills : f.order = id})

\* Late fills are accepted until the end is broker-confirmed (orders.py:83-85).
\* A new execution is refused only by a confirmed order, by one whose ack it has
\* overtaken, or by one that has counted such an execution in spite of refusing
\* it.  Replays, restarts and assumed ends never make it an overfill or an
\* illegal transition.
RefusedOnlyWithReason ==
  [][\A f \in {executions[i] : i \in DOMAIN executions} :
       f.exec \notin seen /\ f.exec \in seen' /\ f \notin dbFills'
         => \/ orders[f.order].confirmed
            \/ orders[f.order].status = "NEW"
            \/ Overcounts(f.order)]_vars
=============================================================================
