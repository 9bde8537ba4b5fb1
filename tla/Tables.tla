------------------------------- MODULE Tables -------------------------------
(***************************************************************************)
(* The tables of app/store.py for one symbol, and the five statements from *)
(* which its operations are made, as operators on the tables.  A row keeps *)
(* what the constraints of SCHEMA and load() tell apart; that amounts are  *)
(* stored as text is left out.                                             *)
(***************************************************************************)
EXTENDS Integers, Sequences

CONSTANTS
  OrderIds,     \* orders.order_id
  ClientOf,     \* an order's client_order_id, None if it has none; never updated
  OrderStates,  \* what an upsert overwrites of an order
  FillIds,      \* fills.fill_id
  Execs,        \* fills.broker_exec_id
  None,         \* Python's None, SQL's NULL
  Calls         \* the calls that are made

ASSUME TablesAssumption ==
  /\ DOMAIN ClientOf = OrderIds
  /\ None \notin OrderStates /\ None \notin Execs

FillRow == [id : FillIds, exec : Execs \cup {None}, order : OrderIds, qty : Nat]

OrderArg == [id : OrderIds, state : OrderStates]

Entry == [kind : {"FILL", "ORDER"}, ref : FillIds \cup OrderIds]

Tables == [orders   : [OrderIds -> OrderStates \cup {None}],
           fills    : SUBSET FillRow,
           position : Int \cup {None},
           log      : Seq(Entry)]

Empty == [orders |-> [id \in OrderIds |-> None], fills |-> {}, position |-> None,
          log |-> <<>>]

Operations == {"apply_fill", "upsert_order", "upsert_position", "record_fill"}

\* A call of one of them; an argument it does not take is None.
Call == [op : {"apply_fill"}, fill : FillRow, order : OrderArg, position : Int]
   \cup [op : {"upsert_order"}, fill : {None}, order : OrderArg, position : {None}]
   \cup [op : {"upsert_position"}, fill : {None}, order : {None}, position : Int]
   \cup [op : {"record_fill"}, fill : FillRow, order : {None}, position : {None}]

ASSUME CallsAssumption == Calls \subseteq Call /\ None \notin Call /\ None \notin FillRow

\* What each operation writes.
Writes ==
  [apply_fill      |-> {"fill", "order", "position", "log"},
   upsert_order    |-> {"order", "log"},
   upsert_position |-> {"position"},
   record_fill     |-> {"fill", "log"}]

\* The execution is recorded already; one without an id never counts as such.
Duplicate(c, t) ==
  c.fill # None /\ c.fill.exec # None /\ \E f \in t.fills : f.exec = c.fill.exec

\* _log
EntryOf(c) ==
  IF "fill" \in Writes[c.op] THEN [kind |-> "FILL", ref |-> c.fill.id]
                             ELSE [kind |-> "ORDER", ref |-> c.order.id]

\* The tables with the given part of what a call writes: _insert_fill,
\* _write_order, _write_position, _log.
Partly(c, t, done) ==
  [orders   |-> IF "order" \in done
                  THEN [t.orders EXCEPT ![c.order.id] = c.order.state] ELSE t.orders,
   fills    |-> IF "fill" \in done THEN t.fills \cup {c.fill} ELSE t.fills,
   position |-> IF "position" \in done THEN c.position ELSE t.position,
   log      |-> IF "log" \in done THEN Append(t.log, EntryOf(c)) ELSE t.log]
=============================================================================
