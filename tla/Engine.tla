------------------------------- MODULE Engine -------------------------------
(***************************************************************************)
(* app/engine.py over app/idempotency.py and app/store.py: the order       *)
(* table, the idempotency registry, the position book, the set of          *)
(* executions seen, and the three tables of the database.                  *)
(*                                                                         *)
(* The engine is single-threaded asyncio: a handler runs without a break   *)
(* from one await to the next, so it is split exactly at its awaits.  A    *)
(* handler that awaits the broker ends with a call put on the wire, and    *)
(* its second half takes the reply off it.  A process crash is the one     *)
(* event that may come between two statements; it is seen only through     *)
(* what the database holds, so it is placed between two transactions.      *)
(***************************************************************************)
EXTENDS Intents, Orders

CONSTANT MaxCrashes     \* bound: the restarts of the process

ASSUME EngineAssumption == MaxCrashes \in Nat /\ None \notin OrderIds

VARIABLES
  orders,       \* _orders: order id -> order, None when there is none
  idem,         \* IdempotencyRegistry._by_key
  position,     \* _positions.get(symbol).qty
  seen,         \* _seen_execs
  wire,         \* calls to the broker that have not returned
  snap,         \* awaited pnl_snapshot()s: on_fill's and GET /reconcile's
  lastResult,   \* _last_result, of which the quantity leg is kept
  dbOrders, dbFills, dbPosition,    \* the tables of store.py
  crashes,      \* restarts so far
  sends,        \* history: calls of broker.submit per key
  answer        \* history: what the last submit() of a key returned or raised

memoryVars == <<orders, idem, position, seen>>
dbVars == <<dbOrders, dbFills, dbPosition>>
snapVars == <<snap, lastResult>>
historyVars == <<sends, answer>>
engineVars == <<memoryVars, wire, snapVars, dbVars, crashes, historyVars>>

Order == [key : Keys, status : Statuses, qty : Nat \ {0}, filled : Nat,
          confirmed : BOOLEAN, bid : Nat \cup {None}]

Entry == [order : OrderIds, sent : BOOLEAN]

Reply == [bid : Nat \cup {None}, status : Statuses]

Call == [op : {"submit", "cancel", "query_order"}, order : OrderIds,
         bid : Nat \cup {None}, reply : Reply \cup {None}]

\* None is no value of any of these types.
ASSUME NoneAssumption ==
  None \notin Order /\ None \notin Entry /\ None \notin Reply /\ None \notin Nat

Readers == {"on_fill", "report"}

Snapshot == [stage : {"idle", "asked", "answered"}, book : Int]

NoSnapshot == [stage |-> "idle", book |-> 0]

EngineTypeOK ==
  /\ orders \in [OrderIds -> Order \cup {None}]
  /\ idem \in [Keys -> Entry \cup {None}]
  /\ position \in Int
  /\ seen \subseteq Nat
  /\ wire \subseteq Call
  /\ snap \in [Readers -> Snapshot]
  /\ lastResult \in {"none", "clean", "break"}
  /\ dbOrders \in [OrderIds -> Order \cup {None}]
  /\ dbFills \subseteq Fill /\ IsFiniteSet(dbFills)
  /\ dbPosition \in Int
  /\ crashes \in 0 .. MaxCrashes
  /\ sends \in [Keys -> Nat]
  /\ answer \in [Keys -> {"none", "order", "oversell", "rejected", "failed", "illegal"}]

EngineInit ==
  /\ orders = [id \in OrderIds |-> None]
  /\ idem = [k \in Keys |-> None]
  /\ position = 0
  /\ seen = {}
  /\ wire = {}
  /\ snap = [r \in Readers |-> NoSnapshot]
  /\ lastResult = "none"
  /\ dbOrders = [id \in OrderIds |-> None]
  /\ dbFills = {}
  /\ dbPosition = 0
  /\ crashes = 0
  /\ sends = [k \in Keys |-> 0]
  /\ answer = [k \in Keys |-> "none"]

Created == {id \in OrderIds : orders[id] # None}

Remaining(o) == o.qty - o.filled

\* No call of ours is under way: the state an adapter that never suspends in
\* its calls leaves between two steps of the event loop.
Quiet == wire = {} /\ \A r \in Readers : snap[r].stage = "idle"

-----------------------------------------------------------------------------
\* Store.upsert_order: the row of id becomes what the order has become.
SaveOrder(id) ==
  /\ dbOrders' = [dbOrders EXCEPT ![id] = orders'[id]]
  /\ UNCHANGED <<dbFills, dbPosition>>

\* Store.record_fill, which leaves an execution it already holds alone.
Recorded(fills, f) ==
  IF \E g \in fills : g.exec = f.exec THEN fills ELSE fills \cup {f}

Answered(k, what) == answer' = [answer EXCEPT ![k] = what]

Send(op, id, bid) ==
  wire' = wire \cup {[op |-> op, order |-> id, bid |-> bid, reply |-> None]}

Awaiting(op, id) == \E c \in wire : c.op = op /\ c.order = id

\* The broker answers a call: its reply is on the wire until the task resumes.
Answer(c, reply) == wire' = (wire \ {c}) \cup {[c EXCEPT !.reply = reply]}

-----------------------------------------------------------------------------
\* Mutant of OpenSells: a sell that has begun to fill reserves nothing more.
UntouchedSells ==
  {id \in Created : SideOf[orders[id].key] = "SELL"
                    /\ orders[id].status \in {"NEW", "SUBMITTED", "WORKING"}}

\* _reserved_sells: what the open sell orders may still take.
OpenSells ==
  {id \in Created : SideOf[orders[id].key] = "SELL" /\ IsOpen(orders[id].status)}

ReservedSells == Total([id \in OpenSells |-> Remaining(orders[id])])

Oversells(k) == SideOf[k] = "SELL" /\ QtyOf[k] > position - ReservedSells

\* submit: the oversell guard, which comes before the key is looked up.
SubmitOversell(k) ==
  /\ Oversells(k)
  /\ Answered(k, "oversell")
  /\ UNCHANGED <<memoryVars, wire, snapVars, dbVars, crashes, sends>>

\* submit of a key the registry knows: the order it has is returned.
SubmitKnown(k) ==
  /\ ~Oversells(k) /\ idem[k] # None
  /\ Answered(k, "order")
  /\ UNCHANGED <<memoryVars, wire, snapVars, dbVars, crashes, sends>>

\* submit of a new key up to broker.submit(): the key is reserved and the order
\* saved before anything is sent.
SubmitBegin(k) ==
  /\ ~Oversells(k) /\ idem[k] = None /\ OrderIds \ Created # {}
  /\ LET id == CHOOSE new \in OrderIds \ Created : TRUE
     IN  /\ orders' = [orders EXCEPT ![id] =
                         [key |-> k, status |-> "NEW", qty |-> QtyOf[k],
                          filled |-> 0, confirmed |-> FALSE, bid |-> None]]
         /\ idem' = [idem EXCEPT ![k] = [order |-> id, sent |-> FALSE]]
         /\ SaveOrder(id)
         /\ Send("submit", id, None)
  /\ sends' = [sends EXCEPT ![k] = @ + 1]
  /\ UNCHANGED <<position, seen, snapVars, crashes, answer>>

\* _apply_ack
ApplyAck(o, reply) ==
  LET bound     == [o EXCEPT !.bid = IF @ = None THEN reply.bid ELSE @]
      submitted == IF o.status = "NEW"
                     THEN [MarkSubmitted(bound).order EXCEPT !.bid = reply.bid]
                     ELSE bound
  IN  IF reply.status = "CANCELLED" THEN MarkCancelled(submitted, FALSE)
                                    ELSE Returned(submitted)

\* submit from the ack on: mark_sent and the second save.
SubmitEnd(c) ==
  /\ c.op = "submit" /\ c.reply # None
  /\ wire' = wire \ {c}
  /\ LET r == ApplyAck(orders[c.order], c.reply)
         k == orders[c.order].key
     IN  /\ orders' = [orders EXCEPT ![c.order] = r.order]
         /\ IF r.raised = "none"
              THEN /\ idem' = [idem EXCEPT ![k].sent = TRUE]
                   /\ SaveOrder(c.order)
                   /\ Answered(k, "order")
              ELSE /\ Answered(k, "illegal")
                   /\ UNCHANGED <<idem, dbVars>>
  /\ UNCHANGED <<position, seen, snapVars, crashes, sends>>

\* Mutant of CallRaises: a failed submit gives its key back.
CallRaisesReleasing(c, error) ==
  /\ wire' = wire \ {c}
  /\ IF c.op = "submit"
       THEN Answered(orders[c.order].key, error) /\ idem' = [idem EXCEPT ![orders[c.order].key] = None]
       ELSE UNCHANGED <<answer, idem>>
  /\ UNCHANGED <<orders, position, seen, snapVars, dbVars, crashes, sends>>

\* An exception of the broker passes through submit, cancel and confirm_order
\* alike: nothing that follows the await is done.
CallRaises(c, error) ==
  /\ wire' = wire \ {c}
  /\ IF c.op = "submit" THEN Answered(orders[c.order].key, error)
                        ELSE UNCHANGED answer
  /\ UNCHANGED <<memoryVars, snapVars, dbVars, crashes, sends>>

-----------------------------------------------------------------------------
\* cancel and confirm_order up to the broker call.
CancelBegin(id) ==
  /\ id \in Created /\ ~Awaiting("cancel", id)
  /\ Send("cancel", id, orders[id].bid)
  /\ UNCHANGED <<memoryVars, snapVars, dbVars, crashes, historyVars>>

ConfirmBegin(id) ==
  /\ id \in Created /\ ~Awaiting("query_order", id)
  /\ Send("query_order", id, orders[id].bid)
  /\ UNCHANGED <<memoryVars, snapVars, dbVars, crashes, historyVars>>

\* Mutants of CancelOutcome: the ack, or the mere request, is taken for the end.
CancelTrusted(o, reply) ==
  IF reply.status = "CANCELLED" THEN MarkCancelled(o, TRUE) ELSE Returned(o)

CancelAssumed(o, reply) == MarkCancelled(o, TRUE)

\* cancel from the ack on: a CANCELLED ack is only provisionally believed.
CancelOutcome(o, reply) ==
  IF reply.status = "CANCELLED" THEN MarkCancelled(o, FALSE) ELSE Returned(o)

CancelEnd(c) ==
  /\ c.op = "cancel" /\ c.reply # None
  /\ wire' = wire \ {c}
  /\ LET r == CancelOutcome(orders[c.order], c.reply)
     IN  /\ orders' = [orders EXCEPT ![c.order] = r.order]
         /\ IF r.raised = "none" THEN SaveOrder(c.order) ELSE UNCHANGED dbVars
  /\ UNCHANGED <<idem, position, seen, snapVars, crashes, historyVars>>

\* confirm_order from the ack on: the broker's verdict is trusted.
ConfirmEnd(c) ==
  /\ c.op = "query_order" /\ c.reply # None
  /\ wire' = wire \ {c}
  /\ orders' = [orders EXCEPT ![c.order] = ConfirmTerminal(@, c.reply.status)]
  /\ SaveOrder(c.order)
  /\ UNCHANGED <<idem, position, seen, snapVars, crashes, historyVars>>

-----------------------------------------------------------------------------
\* main._consume_fills takes one fill at a time: not before the reconciliation
\* of the last one is over.
ConsumerIdle == snap["on_fill"].stage = "idle"

Ask(reader) == snap' = [snap EXCEPT ![reader] = [stage |-> "asked", book |-> 0]]

\* on_fill of an execution seen before.
FillSeen(f) ==
  /\ ConsumerIdle /\ f.exec \in seen
  /\ UNCHANGED engineVars

\* on_fill of an execution that orders.apply_fill refuses.  It counts as seen,
\* the consumer drops the exception.
FillRefused(f) ==
  LET r == ApplyFill(orders[f.order], f.qty)
  IN  /\ ConsumerIdle /\ f.exec \notin seen /\ r.raised # "none"
      /\ seen' = seen \cup {f.exec}
      /\ orders' = [orders EXCEPT ![f.order] = r.order]
      /\ UNCHANGED <<idem, position, wire, snapVars, dbVars, crashes, historyVars>>

\* Mutant of WriteFill: the order is saved before the fill is recorded.
WriteOrderFirst(f, n) ==
  /\ dbFills' = IF n >= 2 THEN Recorded(dbFills, f) ELSE dbFills
  /\ dbOrders' = [dbOrders EXCEPT ![f.order] = ApplyFill(orders[f.order], f.qty).order]
  /\ dbPosition' = IF n >= 3 THEN position + Signed(f.side, f.qty) ELSE dbPosition

\* The first n of on_fill's transactions: record_fill, upsert_order and
\* upsert_position.
WriteFill(f, n) ==
  /\ dbFills' = IF n >= 1 THEN Recorded(dbFills, f) ELSE dbFills
  /\ dbOrders' = IF n >= 2
                   THEN [dbOrders EXCEPT ![f.order] = ApplyFill(orders[f.order], f.qty).order]
                   ELSE dbOrders
  /\ dbPosition' = IF n >= 3 THEN position + Signed(f.side, f.qty) ELSE dbPosition

\* on_fill of a new execution, up to the await of pnl_snapshot().
FillApplied(f) ==
  LET r == ApplyFill(orders[f.order], f.qty)
  IN  /\ ConsumerIdle /\ f.exec \notin seen /\ r.raised = "none"
      /\ seen' = seen \cup {f.exec}
      /\ orders' = [orders EXCEPT ![f.order] = r.order]
      /\ position' = position + Signed(f.side, f.qty)
      /\ WriteFill(f, 3)
      /\ Ask("on_fill")
      /\ UNCHANGED <<idem, wire, lastResult, crashes, historyVars>>

OnFill(f) == FillSeen(f) \/ FillRefused(f) \/ FillApplied(f)

\* GET /reconcile
ReportBegin ==
  /\ snap["report"].stage = "idle"
  /\ Ask("report")
  /\ UNCHANGED <<memoryVars, wire, lastResult, dbVars, crashes, historyVars>>

SnapshotAnswered(reader, book) ==
  /\ snap[reader].stage = "asked"
  /\ snap' = [snap EXCEPT ![reader] = [stage |-> "answered", book |-> book]]
  /\ UNCHANGED <<memoryVars, wire, lastResult, dbVars, crashes, historyVars>>

\* pnl_snapshot() raises: nothing is compared, what on_fill has done stays.
SnapshotRaises(reader) ==
  /\ snap[reader].stage = "asked"
  /\ snap' = [snap EXCEPT ![reader] = NoSnapshot]
  /\ UNCHANGED <<memoryVars, wire, lastResult, dbVars, crashes, historyVars>>

\* _reconcile: the position of now against the snapshot taken.
Reconcile(reader) ==
  /\ snap[reader].stage = "answered"
  /\ lastResult' = IF snap[reader].book = position THEN "clean" ELSE "break"
  /\ snap' = [snap EXCEPT ![reader] = NoSnapshot]
  /\ UNCHANGED <<memoryVars, wire, dbVars, crashes, historyVars>>

-----------------------------------------------------------------------------
\* Mutant of KeysOf: the registry starts empty.
NoKeys(table) == [k \in Keys |-> None]

\* The registry that load() builds from the orders table: every order in it
\* counts as sent, also one whose dispatch had failed.
KeysOf(table) ==
  LET under(k) == {id \in OrderIds : table[id] # None /\ table[id].key = k}
  IN  [k \in Keys |-> IF under(k) = {} THEN None
                      ELSE [order |-> CHOOSE id \in under(k) : TRUE, sent |-> TRUE]]

\* Mutant of Load: the position is taken from the positions table.
LoadTables ==
  /\ orders' = dbOrders' /\ idem' = KeysOf(dbOrders')
  /\ seen' = {f.exec : f \in dbFills'} /\ position' = dbPosition'

\* Engine.load: memory as the restarted process builds it from the database,
\* the position from the fills.  The positions table is not read.
Load ==
  /\ orders' = dbOrders'
  /\ idem' = KeysOf(dbOrders')
  /\ seen' = {f.exec : f \in dbFills'}
  /\ position' = Net(dbFills')

Restart ==
  /\ crashes < MaxCrashes
  /\ crashes' = crashes + 1
  /\ wire' = {}
  /\ snap' = [r \in Readers |-> NoSnapshot]
  /\ lastResult' = "none"
  /\ Load
  /\ UNCHANGED historyVars

\* The process dies between two handlers, at one of their awaits, or ...
Crash == UNCHANGED dbVars /\ Restart

\* ... within on_fill, when only some of its transactions have been committed.
CrashInFill(f) ==
  /\ ConsumerIdle /\ f.exec \notin seen
  /\ ApplyFill(orders[f.order], f.qty).raised = "none"
  /\ \E n \in 1 .. 2 : WriteFill(f, n)
  /\ Restart

-----------------------------------------------------------------------------
\* What the engine promises whatever its venue does.

\* A key is dispatched to the venue once, whatever is submitted again, is lost,
\* fails, is rejected or is loaded back after a crash (idempotency.py:2-3).
AtMostOnceSend == \A k \in Keys : sends[k] <= 1

\* Two orders never carry one idempotency key, in memory or in the database.
OneOrderPerKey ==
  \A id1, id2 \in OrderIds :
    /\ orders[id1] # None /\ orders[id2] # None /\ id1 # id2
         => orders[id1].key # orders[id2].key
    /\ dbOrders[id1] # None /\ dbOrders[id2] # None /\ id1 # id2
         => dbOrders[id1].key # dbOrders[id2].key

\* The position in memory is always what the recorded fills add up to, through
\* replays, refused fills and crashes between the transactions of a fill, so
\* that load() rebuilds the very same position.
LedgerIsPosition == position = Net(dbFills)

\* A step that leaves every broker-confirmed order confirmed, at a terminal
\* status, with what it had filled.
KeepsConfirmed ==
  \A id \in OrderIds :
    orders[id] # None /\ orders[id].confirmed
      => /\ orders'[id] # None
         /\ orders'[id].confirmed /\ ~IsOpen(orders'[id].status)
         /\ orders'[id].filled = orders[id].filled

-----------------------------------------------------------------------------
\* The engine's tables as Trading sees them: every order created stands for its
\* intent, and the broker-confirmed ones are closed.
Placed == {[key |-> orders[id].key, order |-> id] : id \in Created}

Settled ==
  {[order |-> id, filled |-> orders[id].filled] :
     id \in {i \in Created : orders[i].confirmed}}

Promise == INSTANCE Trading WITH
  ledger <- dbFills, placed <- Placed, settled <- Settled

\* The engine keeps the promise of Trading, through lost replies, replays, refused
\* executions and restarts: these are steps in which nothing happens.
ImplementsTrading == Promise!Spec
=============================================================================
