------------------------------ MODULE Recording ------------------------------
(***************************************************************************)
(* The engine's handlers over the statements of the store: what submit and *)
(* on_fill keep in memory and what they have saved when a statement fails  *)
(* or the process dies under them.  A handler does not await between its   *)
(* store calls, so no other runs meanwhile.  The venue acks at once, lives *)
(* on when we die, and repeats its executions, all buys, as often as it    *)
(* likes.  The store may have another client instead, which makes any call *)
(* (apply_fill has no caller but tests).                                   *)
(***************************************************************************)
EXTENDS Store, Orders, Quantities

CONSTANTS
  Submitted,    \* the order ids that uuid4 may hand out to submit
  QtyOf,        \* their quantities
  Executions,   \* the fills the venue has for them
  OtherCalls,   \* the calls of any other client
  MaxCrashes,   \* bound: the restarts of the process
  MaxErrors,    \* bound: the store calls that fail
  MaxLog        \* bound: the entries of trade_history

ASSUME RecordingAssumption ==
  /\ Submitted \subseteq OrderIds /\ QtyOf \in [Submitted -> Nat \ {0}]
  /\ Executions \subseteq FillRow /\ IsFiniteSet(Executions)
  /\ \A f \in Executions : f.order \in Submitted /\ f.exec # None
  /\ \A f, g \in Executions : f.exec = g.exec \/ f.id = g.id => f = g
  /\ OtherCalls \subseteq Calls
  /\ MaxCrashes \in Nat /\ MaxErrors \in Nat /\ MaxLog \in Nat

VARIABLES
  client,     \* who uses the store: the engine, or anyone
  orders,     \* the engine's _orders
  position,   \* its position
  seen,       \* its _seen_execs
  task,       \* the handler under way and the store call it waits for
  venue,      \* the orders the venue has
  executed,   \* the executions it has reported at least once
  crashes,    \* restarts so far
  errors      \* failed store calls so far

memoryVars == <<orders, position, seen>>
vars == <<storeVars, client, memoryVars, task, venue, executed, crashes, errors>>

Idle == [stage |-> "idle", order |-> None]

Task == [stage : {"idle", "first_save", "ack_save", "record", "order", "position"},
         order : Submitted \cup {None}]

TypeOK ==
  /\ StoreTypeOK
  /\ client \in {"engine", "anyone"}
  /\ orders \in [Submitted -> OrderStates \cup {None}]
  /\ position \in Int
  /\ seen \subseteq Execs
  /\ task \in Task
  /\ venue \subseteq Submitted /\ executed \subseteq Executions
  /\ crashes \in 0 .. MaxCrashes /\ errors \in 0 .. MaxErrors

Counted(fills) == Total([f \in fills |-> f.qty])

ExecsOf(fills) == {f.exec : f \in fills}

Init ==
  /\ StoreInit
  /\ client \in {"engine", "anyone"}
  /\ orders = [id \in Submitted |-> None]
  /\ position = 0 /\ seen = {} /\ task = Idle
  /\ venue = {} /\ executed = {}
  /\ crashes = 0 /\ errors = 0

-----------------------------------------------------------------------------
SaveOf(id, order) ==
  [op |-> "upsert_order", fill |-> None, order |-> [id |-> id, state |-> order],
   position |-> None]

RecordOf(f) == [op |-> "record_fill", fill |-> f, order |-> None, position |-> None]

PositionOf(qty) == [op |-> "upsert_position", fill |-> None, order |-> None, position |-> qty]

\* What submit and on_fill make of an order: they never confirm its end.
OrdersOf(id) ==
  {o \in [status : {"NEW", "SUBMITTED", "PARTIALLY_FILLED", "FILLED"}, qty : {QtyOf[id]},
          filled : 0 .. QtyOf[id], confirmed : BOOLEAN] :
     ~o.confirmed /\ (o.status = "FILLED" => o.filled = o.qty)}

\* The calls that the engine may make.
EngineCalls ==
  {RecordOf(f) : f \in Executions}
    \cup (UNION {{SaveOf(id, order) : order \in OrdersOf(id)} : id \in Submitted})
    \cup {PositionOf(qty) : qty \in 0 .. Counted(Executions)}

\* The rows and the calls there are comprise the engine's.
ASSUME EngineAssumption ==
  EngineCalls \subseteq Calls /\ \A id \in Submitted : OrdersOf(id) \subseteq OrderStates

\* A call of the store is made; its BEGIN may fail.
Ask(c) ==
  \/ Begin(c) /\ UNCHANGED errors
  \/ BeginFails(c) /\ errors < MaxErrors /\ errors' = errors + 1

Stage(stage, id) == task' = [stage |-> stage, order |-> id]

Waits(stage) == client = "engine" /\ task.stage = stage /\ call = None

Returns(stage) == Waits(stage) /\ answer \in {"done", "duplicate"}

-----------------------------------------------------------------------------
NewOrder(id) == [status |-> "NEW", qty |-> QtyOf[id], filled |-> 0, confirmed |-> FALSE]

\* Mutant of KeyIsFree: the registry knows an order's id only.
IdIsFree(id) == orders[id] = None

\* The registry's keys are those of the orders in memory: reserve() precedes the
\* entry of an order, in submit as in load.
KeyIsFree(id) == \A other \in Submitted : ClientOf[other] = ClientOf[id] => orders[other] = None

\* submit of an intent whose key is new, up to its first save.
Submit(id) ==
  /\ Waits("idle") /\ KeyIsFree(id)
  /\ orders' = [orders EXCEPT ![id] = NewOrder(id)]
  /\ Ask(SaveOf(id, NewOrder(id)))
  /\ Stage("first_save", id)
  /\ UNCHANGED <<client, position, seen, venue, executed, crashes>>

\* ... broker.submit, the ack, and the second save.
Acked ==
  LET id == task.order
      acked == MarkSubmitted(orders[id]).order
  IN  /\ Returns("first_save")
      /\ orders' = [orders EXCEPT ![id] = acked]
      /\ venue' = venue \cup {id}
      /\ Ask(SaveOf(id, acked))
      /\ Stage("ack_save", id)
      /\ UNCHANGED <<client, position, seen, executed, crashes>>

\* on_fill of an execution that orders.apply_fill refuses.
FillRefused(f) ==
  LET r == ApplyFill(orders[f.order], f.qty)
  IN  /\ Waits("idle") /\ f.order \in venue /\ f.exec \notin seen /\ r.raised # "none"
      /\ seen' = seen \cup {f.exec} /\ executed' = executed \cup {f}
      /\ orders' = [orders EXCEPT ![f.order] = r.order]
      /\ UNCHANGED <<storeVars, client, position, task, venue, crashes, errors>>

\* Mutant of FillApplied: the position moves when the fill has been recorded.
FillAppliedLate(f) ==
  LET r == ApplyFill(orders[f.order], f.qty)
  IN  /\ Waits("idle") /\ f.order \in venue /\ f.exec \notin seen /\ r.raised = "none"
      /\ seen' = seen \cup {f.exec} /\ executed' = executed \cup {f}
      /\ orders' = [orders EXCEPT ![f.order] = r.order]
      /\ Ask(RecordOf(f))
      /\ Stage("record", f.order)
      /\ UNCHANGED <<client, position, venue, crashes>>

\* on_fill: memory first, then record_fill, ...
FillApplied(f) ==
  LET r == ApplyFill(orders[f.order], f.qty)
  IN  /\ Waits("idle") /\ f.order \in venue /\ f.exec \notin seen /\ r.raised = "none"
      /\ seen' = seen \cup {f.exec} /\ executed' = executed \cup {f}
      /\ orders' = [orders EXCEPT ![f.order] = r.order]
      /\ position' = position + f.qty
      /\ Ask(RecordOf(f))
      /\ Stage("record", f.order)
      /\ UNCHANGED <<client, venue, crashes>>

\* ... upsert_order, whatever record_fill answers, ...
FillRecorded ==
  /\ Returns("record")
  /\ Ask(SaveOf(task.order, orders[task.order]))
  /\ Stage("order", task.order)
  /\ UNCHANGED <<client, memoryVars, venue, executed, crashes>>

\* ... and upsert_position.
OrderSaved ==
  /\ Returns("order")
  /\ Ask(PositionOf(position))
  /\ Stage("position", task.order)
  /\ UNCHANGED <<client, memoryVars, venue, executed, crashes>>

\* The handler returns; or the store's exception passes through it, to the
\* caller of submit or to the consumer, which drops it.
Ended ==
  /\ \/ Returns("ack_save") \/ Returns("position")
     \/ client = "engine" /\ task # Idle /\ call = None /\ answer = "raised"
  /\ task' = Idle
  /\ UNCHANGED <<storeVars, client, memoryVars, venue, executed, crashes, errors>>

-----------------------------------------------------------------------------
\* A statement of the call under way; it may fail.
Works ==
  /\ \/ StoreSteps /\ UNCHANGED errors
     \/ Fail /\ errors < MaxErrors /\ errors' = errors + 1
  /\ UNCHANGED <<client, memoryVars, task, venue, executed, crashes>>

\* Mutants of Load: the executions seen outlive the process on their own; ...
LoadKeepsSeen ==
  /\ orders' = [id \in Submitted |-> disk.orders[id]]
  /\ position' = Counted(disk.fills)
  /\ UNCHANGED seen

\* ... or are not reloaded.
LoadUnseen ==
  /\ orders' = [id \in Submitted |-> disk.orders[id]]
  /\ position' = Counted(disk.fills)
  /\ seen' = {}

\* load() rebuilds the memory from the tables.
Load ==
  /\ orders' = [id \in Submitted |-> disk.orders[id]]
  /\ position' = Counted(disk.fills)
  /\ seen' = ExecsOf(disk.fills) \ {None}

\* The process dies and is started again.
Dies ==
  /\ crashes < MaxCrashes /\ crashes' = crashes + 1
  /\ StoreCrash
  /\ (client = "engine" /\ Load) \/ (client = "anyone" /\ UNCHANGED memoryVars)
  /\ task' = Idle
  /\ UNCHANGED <<client, venue, executed, errors>>

\* Any other client of the store.
Anyone(c) ==
  /\ client = "anyone" /\ Len(disk.log) < MaxLog
  /\ Ask(c)
  /\ UNCHANGED <<client, memoryVars, task, venue, executed, crashes>>

Next ==
  \/ \E id \in Submitted : Submit(id)
  \/ \E f \in Executions : FillRefused(f) \/ FillApplied(f)
  \/ Acked \/ FillRecorded \/ OrderSaved \/ Ended
  \/ Works \/ Dies
  \/ \E c \in OtherCalls : Anyone(c)

Spec == Init /\ [][Next]_vars

Handler == Acked \/ FillRecorded \/ OrderSaved \/ Ended

\* The loop runs the handlers, the database works on, and the venue repeats an
\* execution until the engine has seen it.
FairSpec ==
  /\ Spec
  /\ WF_vars(Handler)
  /\ WF_vars(Works /\ errors' = errors)
  /\ \A f \in Executions : WF_vars(FillApplied(f))

-----------------------------------------------------------------------------
OfOrder(fills, id) == {f \in fills : f.order = id}

\* As long as no database call has failed, crashes leave no trace in memory:
\* between handlers the position is the ledger's, and an execution counts as
\* seen that is in it or that the order refused (engine.py:131-136).
MemoryIsTheLedgers ==
  client = "engine" /\ task = Idle /\ errors = 0 =>
    /\ position = Counted(disk.fills)
    /\ ExecsOf(disk.fills) \subseteq seen
    /\ \A id \in venue : orders[id].status # "NEW" =>
         seen \cap ExecsOf(OfOrder(Executions, id)) = ExecsOf(OfOrder(disk.fills, id))

\* No constraint of the tables ever refuses a statement of the engine's, also after
\* failed calls and restarts: an order is saved before it is sent, so its fills find
\* their row, and the registry keeps its key from being saved twice
\* (engine.py:86-96, 57-60, store.py:23-48).
EngineIsNeverRefused ==
  client = "engine" /\ call # None =>
    \A s \in todo : Turn(s) => ~Violates(s, call, work)

\* Whatever fails and however often the venue repeats itself, no execution is in
\* the position twice.  Nor does an order count more than was executed while calls
\* fail or the process dies; both together can make it: a call that failed leaves
\* the execution out of the ledger, a later fill saves the order that counts it, and
\* after a restart the venue's repeat is taken for new (engine.py:128-138, 61-65).
ExecutionsCountOnce ==
  /\ position <= Counted({f \in executed : f.exec \in seen})
  /\ errors = 0 \/ crashes = 0 =>
       \A id \in Submitted :
         orders[id] # None => orders[id].filled <= Counted(OfOrder(executed, id))

\* What a crash cuts off between memory and ledger comes back with the venue's
\* repeat, unless a database call has failed: a seen execution is then repeated in
\* vain.  An order whose ack was not saved refuses it (engine.py:128-138, 97-99).
ExecutionsAreRecorded ==
  \A f \in Executions :
    f \in executed /\ disk.orders[f.order].status # "NEW" ~> f \in disk.fills \/ errors > 0
=============================================================================
