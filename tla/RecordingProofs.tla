--------------------------- MODULE RecordingProofs ---------------------------
(***************************************************************************)
(* The store, statement by statement, implements its all-or-nothing        *)
(* specification and keeps its keys, for every set of calls and rows.  The *)
(* invariant says what the working copy is in the middle of a call: the    *)
(* committed tables with the statements executed so far; and that past the *)
(* look-up the call's execution is not among them.                         *)
(*                                                                         *)
(* Then what the engine's memory and its tables have to do with each       *)
(* other, whatever orders, executions and clients there are.  Where a      *)
(* handler is tells what it holds and which call it waits for (Control),   *)
(* so it is known what a call that lands writes.  An order has its row     *)
(* before the venue has it, hence before any fill of it (Rows); the        *)
(* ledger, with the fill that is on its way, is ahead of what is counted   *)
(* as long as no call has failed (Leads).                                  *)
(***************************************************************************)
EXTENDS Recording, LedgerProofs

-----------------------------------------------------------------------------
(* The store. *)

\* What a call has done.
Done == StatementsOf(call) \ todo

CallInv ==
  /\ call \in Calls \cup {None}
  /\ call = None => work = disk /\ todo = {}
  /\ call # None =>
       /\ todo \subseteq StatementsOf(call)
       /\ work = Partly(call, disk, Done)
       /\ "check" \in todo => todo = StatementsOf(call)
       /\ "check" \notin todo => ~Duplicate(call, disk)

-----------------------------------------------------------------------------
\* Statements add up: one more after some is all of them at once.
LEMMA PartlyAdds ==
  ASSUME NEW c, NEW t, NEW done, NEW s, s \notin done
  PROVE  Partly(c, Partly(c, t, done), {s}) = Partly(c, t, done \cup {s})
BY DEF Partly

\* The look-up writes nothing.
LEMMA PartlyNothing ==
  ASSUME NEW c, NEW t \in Tables, NEW done, done \subseteq {"check"}
  PROVE  Partly(c, t, done) = t
BY DEF Partly, Tables

\* All the statements of a call write what the call writes.
LEMMA PartlyAll ==
  ASSUME NEW c, NEW t
  PROVE  Partly(c, t, StatementsOf(c)) = Partly(c, t, Writes[c.op])
BY DEF Partly, StatementsOf

-----------------------------------------------------------------------------
\* A call has the arguments that its statements need.
LEMMA ArgumentTypes ==
  ASSUME NEW c \in Call
  PROVE  /\ StatementsOf(c) \subseteq Statements
         /\ "fill" \in StatementsOf(c) => c.fill \in FillRow
         /\ "order" \in StatementsOf(c) => c.order \in OrderArg
         /\ "position" \in StatementsOf(c) => c.position \in Int
         /\ "log" \in StatementsOf(c) => EntryOf(c) \in Entry
<1>1. CASE c \in [op : {"apply_fill"}, fill : FillRow, order : OrderArg, position : Int]
  BY <1>1 DEF StatementsOf, Statements, Writes, EntryOf, Entry, FillRow, OrderArg
<1>2. CASE c \in [op : {"upsert_order"}, fill : {None}, order : OrderArg, position : {None}]
  BY <1>2 DEF StatementsOf, Statements, Writes, EntryOf, Entry, FillRow, OrderArg
<1>3. CASE c \in [op : {"upsert_position"}, fill : {None}, order : {None}, position : Int]
  BY <1>3 DEF StatementsOf, Statements, Writes
<1>4. CASE c \in [op : {"record_fill"}, fill : FillRow, order : {None}, position : {None}]
  BY <1>4 DEF StatementsOf, Statements, Writes, EntryOf, Entry, FillRow
<1> QED BY <1>1, <1>2, <1>3, <1>4 DEF Call

\* A statement of a call leaves tables that are tables.
LEMMA PartlyTypes ==
  ASSUME NEW c \in Call, NEW t \in Tables, NEW s \in StatementsOf(c)
  PROVE  Partly(c, t, {s}) \in Tables
<1> DEFINE p == Partly(c, t, {s})
<1>1. p.orders \in [OrderIds -> OrderStates \cup {None}]
  BY ArgumentTypes DEF Partly, Tables, OrderArg
<1>2. p.fills \in SUBSET FillRow
  BY ArgumentTypes DEF Partly, Tables
<1>3. p.position \in Int \cup {None}
  BY ArgumentTypes DEF Partly, Tables
<1>4. p.log \in Seq(Entry)
  BY ArgumentTypes DEF Partly, Tables
<1>5. p = [orders |-> p.orders, fills |-> p.fills, position |-> p.position, log |-> p.log]
  BY DEF Partly
<1> QED BY <1>1, <1>2, <1>3, <1>4, <1>5 DEF Tables

\* A statement that is executed belongs to the call; the look-up comes first.
LEMMA TurnOfCall ==
  ASSUME CallInv, call # None, NEW s \in todo
  PROVE  /\ call \in Call /\ s \in StatementsOf(call)
         /\ Turn(s) /\ s # "check" => "check" \notin todo
BY CallsAssumption, ArgumentTypes DEF CallInv, Turn, Rank, Statements

-----------------------------------------------------------------------------
\* A rollback, for whatever reason, leaves no call and the committed tables.
LEMMA RollBackKeeps ==
  ASSUME CallInv, NEW how, RollBack(how)
  PROVE  CallInv'
BY CallsAssumption DEF RollBack, Ends, CallInv

\* Every step of the store keeps the invariant of the call under way.
LEMMA CallInvStep ==
  ASSUME CallInv, StoreTypeOK, [StoreNext]_storeVars
  PROVE  CallInv'
<1>1. ASSUME NEW c \in Calls, Begin(c) PROVE CallInv'
  <2>1. c # None /\ Done' = {}
    BY <1>1, CallsAssumption DEF Begin, Done
  <2>2. work' = Partly(c, disk', Done')
    BY <1>1, <2>1, PartlyNothing DEF Begin, CallInv, StoreTypeOK
  <2>3. "check" \notin todo' => ~Duplicate(c, disk')
    BY <1>1 DEF Begin, StatementsOf, Duplicate
  <2> QED BY <1>1, <2>1, <2>2, <2>3 DEF Begin, CallInv
<1>2. ASSUME NEW c \in Calls, BeginFails(c) PROVE CallInv'
  BY <1>2, RollBackKeeps DEF BeginFails
<1>3. ASSUME CheckSeen PROVE CallInv'
  BY <1>3, RollBackKeeps DEF CheckSeen
<1>4. ASSUME CheckNew PROVE CallInv'
  <2>1. "check" \in todo /\ todo = StatementsOf(call)
    BY <1>4 DEF CheckNew, Turn, CallInv
  <2>2. Done = {} /\ Done' = {"check"}
    BY <1>4, <2>1 DEF CheckNew, Done
  <2>3. work = disk
    BY <1>4, <2>2, PartlyNothing DEF CheckNew, CallInv, StoreTypeOK
  <2>4. work' = Partly(call', disk', Done')
    BY <1>4, <2>2, <2>3, PartlyNothing DEF CheckNew, StoreTypeOK
  <2>5. ~Duplicate(call', disk')
    BY <1>4, <2>3 DEF CheckNew
  <2> QED BY <1>4, <2>4, <2>5 DEF CheckNew, CallInv
<1>5. ASSUME NEW s \in Statements, Execute(s) PROVE CallInv'
  <2>1. s \in todo /\ s \in StatementsOf(call) /\ "check" \notin todo
    BY <1>5, TurnOfCall DEF Execute, Turn
  <2>2. s \notin Done /\ Done' = Done \cup {s}
    BY <1>5, <2>1 DEF Execute, Done
  <2>3. work' = Partly(call', disk', Done')
    BY <1>5, <2>2, PartlyAdds DEF Execute, CallInv
  <2> QED BY <1>5, <2>1, <2>3 DEF Execute, CallInv
<1>6. ASSUME NEW s \in Statements, Refuse(s) PROVE CallInv'
  BY <1>6, RollBackKeeps DEF Refuse
<1>7. ASSUME Fail PROVE CallInv'
  BY <1>7, RollBackKeeps DEF Fail
<1>8. ASSUME Commit PROVE CallInv'
  BY <1>8 DEF Commit, Ends, CallInv
<1>9. ASSUME StoreCrash PROVE CallInv'
  BY <1>9, RollBackKeeps DEF StoreCrash
<1>10. ASSUME UNCHANGED storeVars PROVE CallInv'
  BY <1>10 DEF storeVars, CallInv, Done
<1> QED BY <1>1, <1>2, <1>3, <1>4, <1>5, <1>6, <1>7, <1>8, <1>9, <1>10
          DEF StoreNext, StoreSteps
-----------------------------------------------------------------------------
\* The store starts with tables.
LEMMA EmptyTypes == Empty \in Tables
BY DEF Empty, Tables

\* Every step of the store keeps the types.
LEMMA TypesStep ==
  ASSUME CallInv, StoreTypeOK, [StoreNext]_storeVars
  PROVE  StoreTypeOK'
<1>1. ASSUME NEW c \in Calls, Begin(c) PROVE StoreTypeOK'
  BY <1>1, CallsAssumption, ArgumentTypes DEF Begin, StoreTypeOK
<1>2. ASSUME NEW how \in {"none", "done", "duplicate", "raised"}, RollBack(how)
      PROVE  StoreTypeOK'
  BY <1>2 DEF RollBack, Ends, StoreTypeOK
<1>3. CASE CheckNew
  BY <1>3 DEF CheckNew, StoreTypeOK
<1>4. ASSUME NEW s \in Statements, Execute(s) PROVE StoreTypeOK'
  <2>1. call \in Call /\ s \in StatementsOf(call)
    BY <1>4, TurnOfCall DEF Execute, Turn
  <2>2. work' \in Tables
    BY <1>4, <2>1, PartlyTypes DEF Execute, StoreTypeOK
  <2> QED BY <1>4, <2>2 DEF Execute, StoreTypeOK
<1>5. CASE Commit
  BY <1>5 DEF Commit, Ends, StoreTypeOK
<1>6. CASE UNCHANGED storeVars
  BY <1>6 DEF storeVars, StoreTypeOK
<1> QED BY <1>1, <1>2, <1>3, <1>4, <1>5, <1>6
          DEF StoreNext, StoreSteps, BeginFails, CheckSeen, Refuse, Fail, StoreCrash

-----------------------------------------------------------------------------
\* A statement that the constraints do not refuse keeps the keys.
LEMMA PartlyKeeps ==
  ASSUME NEW c \in Call, NEW t \in Tables, NEW s \in StatementsOf(c),
         KeysIn(t), ~Violates(s, c, t)
  PROVE  KeysIn(Partly(c, t, {s}))
<1> DEFINE p == Partly(c, t, {s})
<1>1. CASE s = "fill"
  <2>1. p.orders = t.orders /\ p.fills = t.fills \cup {c.fill}
    BY <1>1 DEF Partly
  <2>2. t.orders[c.fill.order] # None
    BY <1>1 DEF Violates
  <2>3. \A f \in t.fills : f.id # c.fill.id /\ (f.exec # c.fill.exec \/ c.fill.exec = None)
    BY <1>1 DEF Violates
  <2> QED BY <2>1, <2>2, <2>3 DEF KeysIn
<1>2. CASE s = "order"
  <2>1. /\ p.fills = t.fills
        /\ p.orders = [t.orders EXCEPT ![c.order.id] = c.order.state]
    BY <1>2 DEF Partly
  <2>2. c.order \in OrderArg /\ t.orders \in [OrderIds -> OrderStates \cup {None}]
    BY <1>2, ArgumentTypes DEF Tables
  <2>3. c.order.id \in OrderIds /\ c.order.state # None
    BY <2>2, TablesAssumption DEF OrderArg
  <2>4. \A id \in OrderIds : p.orders[id] # None <=> t.orders[id] # None \/ id = c.order.id
    BY <2>1, <2>2, <2>3
  <2>5. \A f \in t.fills : f.order \in OrderIds
    BY DEF Tables, FillRow
  <2>6. \/ t.orders[c.order.id] # None \/ ClientOf[c.order.id] = None
        \/ \A id \in OrderIds : t.orders[id] # None => ClientOf[id] # ClientOf[c.order.id]
    BY <1>2 DEF Violates
  <2> QED BY <2>1, <2>3, <2>4, <2>5, <2>6 DEF KeysIn
<1>3. CASE s \notin {"fill", "order"}
  BY <1>3 DEF Partly, KeysIn
<1> QED BY <1>1, <1>2, <1>3

\* Every step of the store keeps the keys, of the working copy and of the disk.
LEMMA KeysStep ==
  ASSUME CallInv, StoreTypeOK, KeysIn(work), KeysIn(disk), [StoreNext]_storeVars
  PROVE  KeysIn(work)' /\ KeysIn(disk)'
<1>1. ASSUME NEW how, RollBack(how) PROVE KeysIn(work)' /\ KeysIn(disk)'
  BY <1>1 DEF RollBack, KeysIn
<1>2. ASSUME NEW s \in Statements, Execute(s) PROVE KeysIn(work)' /\ KeysIn(disk)'
  <2>1. call \in Call /\ s \in StatementsOf(call)
    BY <1>2, TurnOfCall DEF Execute, Turn
  <2>2. KeysIn(Partly(call, work, {s}))
    BY <1>2, <2>1, PartlyKeeps DEF Execute, StoreTypeOK
  <2> QED BY <1>2, <2>2 DEF Execute, KeysIn
<1>3. CASE Commit
  BY <1>3 DEF Commit, KeysIn
<1>4. ASSUME UNCHANGED <<disk, work>> PROVE KeysIn(work)' /\ KeysIn(disk)'
  BY <1>4 DEF KeysIn
<1> QED BY <1>1, <1>2, <1>3, <1>4
          DEF StoreNext, StoreSteps, Begin, BeginFails, CheckSeen, CheckNew, Refuse, Fail,
              StoreCrash, storeVars

-----------------------------------------------------------------------------
StoreInv == StoreTypeOK /\ CallInv /\ KeysIn(work) /\ KeysIn(disk)

\* What holds between any two statements of any client's calls: the types, the state
\* of the working copy, and the keys of both the working and the committed tables.
THEOREM StoreInductive == StoreSpec => []StoreInv
<1>1. StoreInit => StoreInv
  BY EmptyTypes DEF StoreInit, StoreInv, StoreTypeOK, CallInv, KeysIn, Empty
<1>2. StoreInv /\ [StoreNext]_storeVars => StoreInv'
  BY CallInvStep, TypesStep, KeysStep DEF StoreInv
<1> QED BY <1>1, <1>2, PTL DEF StoreSpec

\* No key is in the tables twice and every fill has its order, whoever makes which
\* calls, and whatever fails (the SCHEMA of store.py).
THEOREM StoreKeepsKeys == StoreSpec => []KeysHold
<1>1. StoreInv => KeysHold
  BY DEF StoreInv, KeysHold
<1> QED BY <1>1, StoreInductive, PTL

\* Every step of the store is a step of its all-or-nothing specification or leaves
\* the committed tables and the last answer alone (store.py:3-7).
THEOREM StoreImplementsAtomic == StoreSpec => ImplementsAtomic
<1>1. StoreInit => Atomic!Init
  BY DEF StoreInit, Atomic!Init, Empty, Atomic!Empty
<1>2. ASSUME StoreInv, [StoreNext]_storeVars
      PROVE  [Atomic!Next]_<<disk, answer>>
  <2>1. ASSUME NEW c \in Calls, Begin(c) PROVE Atomic!Forget
    BY <2>1 DEF Begin, Atomic!Forget
  <2>2. ASSUME RollBack("raised") PROVE Atomic!Raises
    BY <2>2 DEF RollBack, Ends, Atomic!Raises
  <2>3. ASSUME RollBack("none") PROVE Atomic!Forget
    BY <2>3 DEF RollBack, Ends, Atomic!Forget
  <2>4. CASE CheckSeen
    <3>1. call \in Calls /\ "check" \in todo /\ todo = StatementsOf(call)
      BY <1>2, <2>4 DEF CheckSeen, Turn, StoreInv, CallInv
    <3>2. Done = {}
      BY <3>1 DEF Done
    <3>3. work = disk
      BY <1>2, <2>4, <3>2, PartlyNothing DEF CheckSeen, StoreInv, CallInv, StoreTypeOK
    <3>4. Atomic!Ignored(call)
      BY <2>4, <3>3 DEF CheckSeen, RollBack, Ends, Atomic!Ignored, Duplicate, Atomic!Duplicate
    <3> QED BY <3>1, <3>4 DEF Atomic!Next
  <2>5. CASE Commit
    <3>1. call \in Calls /\ Done = StatementsOf(call) /\ ~Duplicate(call, disk)
      BY <1>2, <2>5 DEF Commit, Done, StoreInv, CallInv
    <3>2. disk' = Partly(call, disk, Writes[call.op])
      BY <1>2, <2>5, <3>1, PartlyAll DEF Commit, StoreInv, CallInv
    <3>3. Partly(call, disk, Writes[call.op]) = Atomic!Partly(call, disk, Atomic!Writes[call.op])
      BY DEF Partly, Atomic!Partly, Writes, Atomic!Writes, EntryOf, Atomic!EntryOf
    <3>4. Atomic!Lands(call)
      BY <2>5, <3>1, <3>2, <3>3
         DEF Commit, Ends, Atomic!Lands, Duplicate, Atomic!Duplicate
    <3> QED BY <3>1, <3>4 DEF Atomic!Next
  <2>6. ASSUME UNCHANGED <<disk, answer>> PROVE [Atomic!Next]_<<disk, answer>>
    BY <2>6
  <2> QED BY <1>2, <2>1, <2>2, <2>3, <2>4, <2>5, <2>6
            DEF StoreNext, StoreSteps, BeginFails, CheckNew, Execute, Refuse, Fail, StoreCrash,
                storeVars, Atomic!Next
<1> QED BY <1>1, <1>2, StoreInductive, PTL DEF StoreSpec, ImplementsAtomic, Atomic!Spec

-----------------------------------------------------------------------------
(* The engine's handlers over it. *)

\* The fills on disk and the one that is on its way there.
Landing ==
  disk.fills \cup (IF call # None /\ call.op = "record_fill" THEN {call.fill} ELSE {})

\* The executions reported that count as seen.
SeenFills == {f \in executed : f.exec \in seen}

\* Where a handler is tells what it holds and which call it waits for.
Control ==
  /\ task.stage = "idle" => task = Idle /\ call = None
  /\ task.stage # "idle" => task.order \in Submitted /\ orders[task.order] # None
  /\ task.stage = "first_save" =>
       /\ orders[task.order] = NewOrder(task.order) /\ task.order \notin venue
       /\ call = None /\ answer \in {"done", "duplicate"} => disk.orders[task.order] # None
  /\ task.stage = "ack_save" =>
       orders[task.order] = MarkSubmitted(NewOrder(task.order)).order
  /\ task.stage \in {"first_save", "ack_save", "order"} =>
       call \in {None, SaveOf(task.order, orders[task.order])}
  /\ task.stage = "record" => call = None \/ \E f \in Executions : call = RecordOf(f)
  /\ task.stage = "position" => call \in {None, PositionOf(position)}
  /\ task.stage \in {"record", "order", "position"} =>
       orders[task.order].status \in {"PARTIALLY_FILLED", "FILLED"}

\* An order has its row before the venue has it, and its key to itself.
Rows ==
  /\ \A id \in Submitted : /\ orders[id] \in OrdersOf(id) \cup {None}
                           /\ disk.orders[id] \in OrdersOf(id) \cup {None}
                           /\ disk.orders[id] # None => orders[id] # None
  /\ \A id \in OrderIds \ Submitted : disk.orders[id] = None
  /\ \A id \in venue : disk.orders[id] # None
  /\ \A id1, id2 \in Submitted :
       orders[id1] # None /\ orders[id2] # None /\ ClientOf[id1] = ClientOf[id2] => id1 = id2

\* What is recorded has been reported and is seen, and nothing else is seen.
Reported ==
  /\ Landing \subseteq executed
  /\ \A f \in executed : f.order \in venue
  /\ ExecsOf(Landing) \subseteq seen /\ seen \subseteq ExecsOf(executed)
  /\ crashes = 0 => SeenFills = executed

\* What is counted has been reported and is seen.
Counts ==
  /\ position \in Nat /\ position <= Counted(SeenFills)
  /\ errors = 0 \/ crashes = 0 =>
       \A id \in Submitted :
         orders[id] # None => orders[id].filled <= Counted(OfOrder(SeenFills, id))

\* While no call has failed the ledger leads: what is counted is in it or on its way.
Leads ==
  errors = 0 =>
    /\ position = Counted(Landing)
    /\ \A id \in Submitted :
         /\ orders[id] # None /\ orders[id].status # "NEW" =>
              orders[id].filled <= Counted(OfOrder(Landing, id))
         /\ disk.orders[id] # None =>
              disk.orders[id].filled <= Counted(OfOrder(disk.fills, id))

\* The venue executes no more than was ordered.
VenueKeepsToQty == \A id \in Submitted : Counted(OfOrder(Executions, id)) <= QtyOf[id]

\* While no call has failed, what is seen is in the ledger or on its way, unless the
\* order refused it.
Follows ==
  errors = 0 =>
    \A f \in SeenFills : orders[f.order].status # "NEW" => f \in Landing

\* With another client the engine has nothing.
Bystander ==
  /\ task = Idle /\ orders = [id \in Submitted |-> None]
  /\ position = 0 /\ seen = {} /\ venue = {} /\ executed = {}

\* What the variables range over.
Bounds ==
  /\ client \in {"engine", "anyone"}
  /\ orders \in [Submitted -> OrderStates \cup {None}] /\ task \in Task
  /\ executed \subseteq Executions /\ venue \subseteq Submitted
  /\ crashes \in 0 .. MaxCrashes /\ errors \in 0 .. MaxErrors

EngineInv == Control /\ Rows /\ Reported /\ Counts /\ Leads

RecInv ==
  /\ Bounds
  /\ client = "engine" => EngineInv
  /\ client = "anyone" => Bystander

-----------------------------------------------------------------------------
\* The engine's fills are a ledger.
LEMMA CountedType ==
  ASSUME NEW fills \in SUBSET Executions
  PROVE  Counted(fills) \in Nat
<1>1. Ledger(fills)
  BY FS_Subset, RecordingAssumption DEF Ledger, FillRow
<1> QED BY <1>1, SummedType DEF Counted, Summed

\* An execution more adds its quantity.
LEMMA CountedAdd ==
  ASSUME NEW fills \in SUBSET Executions, NEW f \in Executions, f \notin fills
  PROVE  Counted(fills \cup {f}) = Counted(fills) + f.qty
<1>1. Ledger(fills) /\ f.qty \in Nat
  BY FS_Subset, RecordingAssumption DEF Ledger, FillRow
<1> QED BY <1>1, SummedAdd DEF Counted, Summed

\* More executions are not less.
LEMMA CountedMonotone ==
  ASSUME NEW fills \in SUBSET Executions, NEW part \in SUBSET fills
  PROVE  Counted(part) <= Counted(fills)
<1>1. Ledger(fills)
  BY FS_Subset, RecordingAssumption DEF Ledger, FillRow
<1> QED BY <1>1, SummedMonotone DEF Counted, Summed

LEMMA CountedEmpty == Counted({}) = 0
BY SummedEmpty DEF Counted, Summed

-----------------------------------------------------------------------------
LEMMA EngineTypes ==
  ASSUME NEW id \in Submitted
  PROVE  /\ QtyOf[id] \in Nat \ {0}
         /\ id \in OrderIds
         /\ OrdersOf(id) \subseteq OrderStates
         /\ None \notin OrdersOf(id)
BY RecordingAssumption, EngineAssumption, TablesAssumption

\* Any order of the engine's, with whatever it has executed.
Shape == [status : Statuses, qty : Nat, filled : Nat, confirmed : BOOLEAN]

LEMMA OrderFields ==
  ASSUME NEW id \in Submitted, NEW o
  PROVE  o \in OrdersOf(id) <=>
           /\ o \in Shape /\ o.qty = QtyOf[id] /\ o.filled <= QtyOf[id] /\ ~o.confirmed
           /\ o.status \in {"NEW", "SUBMITTED", "PARTIALLY_FILLED", "FILLED"}
           /\ o.status = "FILLED" => o.filled = o.qty
<1>1. QtyOf[id] \in Nat
  BY EngineTypes
<1>2. ASSUME o \in OrdersOf(id)
      PROVE  /\ o \in Shape /\ o.qty = QtyOf[id] /\ o.filled <= QtyOf[id] /\ ~o.confirmed
             /\ o.status \in {"NEW", "SUBMITTED", "PARTIALLY_FILLED", "FILLED"}
             /\ o.status = "FILLED" => o.filled = o.qty
  <2>1. /\ o \in [status : {"NEW", "SUBMITTED", "PARTIALLY_FILLED", "FILLED"},
                  qty : {QtyOf[id]}, filled : 0 .. QtyOf[id], confirmed : BOOLEAN]
        /\ ~o.confirmed
        /\ o.status = "FILLED" => o.filled = o.qty
    BY <1>2 DEF OrdersOf
  <2>2. /\ o.status \in {"NEW", "SUBMITTED", "PARTIALLY_FILLED", "FILLED"}
        /\ o.qty = QtyOf[id] /\ o.filled \in 0 .. QtyOf[id]
    BY <2>1
  <2>3. o \in Shape
    BY <1>1, <2>1 DEF Shape, Statuses
  <2> QED BY <1>1, <2>1, <2>2, <2>3
<1>3. ASSUME o \in Shape, o.qty = QtyOf[id], o.filled <= QtyOf[id], ~o.confirmed,
             o.status \in {"NEW", "SUBMITTED", "PARTIALLY_FILLED", "FILLED"},
             o.status = "FILLED" => o.filled = o.qty
      PROVE  o \in OrdersOf(id)
  <2>1. o.filled \in 0 .. QtyOf[id]
    BY <1>1, <1>3 DEF Shape
  <2>2. o \in [status : {"NEW", "SUBMITTED", "PARTIALLY_FILLED", "FILLED"},
               qty : {QtyOf[id]}, filled : 0 .. QtyOf[id], confirmed : BOOLEAN]
    BY <1>3, <2>1 DEF Shape
  <2> QED BY <1>3, <2>2 DEF OrdersOf
<1> QED BY <1>2, <1>3

LEMMA WithStatus ==
  ASSUME NEW o \in Shape, NEW s \in Statuses
  PROVE  LET p == [o EXCEPT !.status = s]
         IN  /\ p \in Shape /\ p.status = s
             /\ p.qty = o.qty /\ p.filled = o.filled /\ p.confirmed = o.confirmed
BY DEF Shape

LEMMA WithFilled ==
  ASSUME NEW o \in Shape, NEW n \in Nat
  PROVE  LET p == [o EXCEPT !.filled = n]
         IN  /\ p \in Shape /\ p.filled = n
             /\ p.qty = o.qty /\ p.status = o.status /\ p.confirmed = o.confirmed
BY DEF Shape

\* An order is sent as it was made.
LEMMA NewIsAnOrder ==
  ASSUME NEW id \in Submitted
  PROVE  LET sent == MarkSubmitted(NewOrder(id)).order
         IN  /\ NewOrder(id) \in OrdersOf(id)
             /\ NewOrder(id).status = "NEW" /\ NewOrder(id).filled = 0
             /\ sent \in OrdersOf(id)
             /\ sent.status = "SUBMITTED" /\ sent.filled = 0
<1> DEFINE o == NewOrder(id)
<1>1. o \in Shape /\ o.status = "NEW" /\ o.qty = QtyOf[id] /\ o.filled = 0 /\ ~o.confirmed
  BY EngineTypes DEF NewOrder, Shape, Statuses
<1>2. o \in OrdersOf(id)
  BY <1>1, OrderFields, EngineTypes
<1>3. MarkSubmitted(o).order = [o EXCEPT !.status = "SUBMITTED"]
  BY <1>1 DEF MarkSubmitted, Transition, CanTransition, LegalTransitions, Returned
<1>4. PICK p : p = [o EXCEPT !.status = "SUBMITTED"]
  OBVIOUS
<1>5. /\ p \in Shape /\ p.status = "SUBMITTED" /\ p.qty = QtyOf[id] /\ p.filled = 0
      /\ ~p.confirmed
  <2> HIDE DEF o
  <2> QED BY <1>1, <1>4, WithStatus DEF Statuses
<1>6. p \in OrdersOf(id)
  BY <1>5, OrderFields, EngineTypes
<1> HIDE DEF o
<1> QED BY <1>1, <1>2, <1>3, <1>4, <1>5, <1>6 DEF o

\* A fill that the order takes is counted and ends it when it is full; one that it
\* refuses has come too early or is too much.
LEMMA FillDoes ==
  ASSUME NEW id \in Submitted, NEW o \in OrdersOf(id), NEW qty \in Nat
  PROVE  LET r == ApplyFill(o, qty)
         IN  /\ r.order \in OrdersOf(id)
             /\ r.raised = "none" => /\ o.status # "NEW"
                                     /\ r.order.status \in {"PARTIALLY_FILLED", "FILLED"}
                                     /\ r.order.filled = o.filled + qty
             /\ r.raised # "none" =>
                  \/ /\ o.status = "NEW" /\ r.order.status = "NEW"
                     /\ r.order.filled \in {o.filled, o.filled + qty}
                  \/ o.filled + qty > QtyOf[id] /\ r.order = o
<1>1. /\ o \in Shape /\ o.qty = QtyOf[id] /\ o.filled <= QtyOf[id] /\ ~o.confirmed
      /\ o.status \in {"NEW", "SUBMITTED", "PARTIALLY_FILLED", "FILLED"}
      /\ o.status = "FILLED" => o.filled = o.qty
  BY OrderFields
<1>2. o.filled \in Nat /\ QtyOf[id] \in Nat
  BY <1>1, EngineTypes DEF Shape
<1>3. CASE o.filled + qty > o.qty
  BY <1>1, <1>3 DEF ApplyFill, Raised
<1>4. CASE ~(o.filled + qty > o.qty)
  <2>1. PICK b : b = Booked(o, qty)
    OBVIOUS
  <2>2. /\ b \in Shape /\ b.filled = o.filled + qty
        /\ b.qty = o.qty /\ b.status = o.status /\ ~b.confirmed
    BY <1>1, <1>2, <2>1, WithFilled DEF Booked
  <2>3. PICK s : s = FillTarget(b)
    OBVIOUS
  <2>4. /\ s \in {"PARTIALLY_FILLED", "FILLED"}
        /\ s = "FILLED" => b.filled = b.qty
        /\ o.status = "FILLED" => s = "FILLED"
    BY <1>1, <1>2, <1>4, <2>2, <2>3 DEF FillTarget
  <2>5. ApplyFill(o, qty) = Transition(b, s)
    BY <1>1, <1>4, <2>1, <2>2, <2>3 DEF ApplyFill, Land
  <2>6. CASE o.status = "NEW"
    <3>1. ApplyFill(o, qty) = [order |-> b, raised |-> "IllegalTransition"]
      BY <2>2, <2>4, <2>5, <2>6 DEF Transition, CanTransition, LegalTransitions, Raised
    <3>2. b \in OrdersOf(id)
      BY <1>1, <1>2, <1>4, <2>2, <2>6, OrderFields
    <3> QED BY <2>2, <2>6, <3>1, <3>2
  <2>7. CASE o.status # "NEW"
    <3>1. PICK p : p = [b EXCEPT !.status = s]
      OBVIOUS
    <3>2. ApplyFill(o, qty) = [order |-> p, raised |-> "none"]
      BY <1>1, <2>2, <2>4, <2>5, <2>7, <3>1
         DEF Transition, CanTransition, LegalTransitions, Returned
    <3>3. /\ p \in Shape /\ p.status = s
          /\ p.qty = b.qty /\ p.filled = b.filled /\ ~p.confirmed
      <4>1. s \in Statuses
        BY <2>4 DEF Statuses
      <4> QED BY <2>2, <3>1, <4>1, WithStatus
    <3>4. p \in OrdersOf(id)
      BY <1>1, <1>2, <1>4, <2>2, <2>4, <3>3, OrderFields
    <3> QED BY <2>2, <2>4, <2>7, <3>2, <3>3, <3>4
  <2> QED BY <2>6, <2>7
<1> QED BY <1>3, <1>4

-----------------------------------------------------------------------------
LEMMA EngineMakesCalls ==
  /\ \A f \in Executions : RecordOf(f) \in Calls /\ RecordOf(f) # None
  /\ \A id \in Submitted : \A o \in OrdersOf(id) : SaveOf(id, o) \in Calls /\ SaveOf(id, o) # None
  /\ \A qty \in 0 .. Counted(Executions) : PositionOf(qty) \in Calls /\ PositionOf(qty) # None
BY EngineAssumption, CallsAssumption DEF EngineCalls

\* What the engine's calls execute and what they leave in the tables.
LEMMA RecordWrites ==
  ASSUME NEW f \in Executions, NEW t
  PROVE  LET c == RecordOf(f)
             p == Partly(c, t, Writes[c.op])
         IN  /\ c.op = "record_fill" /\ c.fill = f
             /\ StatementsOf(c) = {"check", "fill", "log"}
             /\ p.orders = t.orders /\ p.fills = t.fills \cup {f}
             /\ Duplicate(c, t) <=> \E g \in t.fills : g.exec = f.exec
BY RecordingAssumption, CallsAssumption DEF RecordOf, Partly, Writes, StatementsOf, Duplicate

LEMMA PositionWrites ==
  ASSUME NEW qty, NEW t
  PROVE  LET c == PositionOf(qty)
             p == Partly(c, t, Writes[c.op])
         IN  /\ c.op = "upsert_position"
             /\ StatementsOf(c) = {"position"}
             /\ p.orders = t.orders /\ p.fills = t.fills
             /\ ~Duplicate(c, t)
BY DEF PositionOf, Partly, Writes, StatementsOf, Duplicate

\* A call is made and waits, or it has failed.
LEMMA AskDoes ==
  ASSUME NEW c \in Calls, Ask(c)
  PROVE  /\ call = None /\ disk' = disk
         /\ \/ call' = c /\ answer' = "none" /\ errors' = errors
            \/ call' = None /\ answer' = "raised" /\ errors' = errors + 1
         /\ [StoreNext]_storeVars
BY DEF Ask, Begin, BeginFails, RollBack, Ends, StoreNext

\* A statement is executed, or the call has ended in one of four ways.
LEMMA WorkDoes ==
  ASSUME CallInv, StoreTypeOK, Works
  PROVE  /\ call \in Calls
         /\ \/ /\ disk' = disk /\ call' = call /\ answer' = answer /\ errors' = errors
            \/ /\ Duplicate(call, disk)
               /\ disk' = disk /\ call' = None /\ answer' = "duplicate" /\ errors' = errors
            \/ /\ \E s \in todo : Turn(s) /\ Violates(s, call, work)
               /\ disk' = disk /\ call' = None /\ answer' = "raised" /\ errors' = errors
            \/ /\ disk' = disk /\ call' = None /\ answer' = "raised" /\ errors' = errors + 1
            \/ /\ disk' = Partly(call, disk, Writes[call.op])
               /\ call' = None /\ answer' = "done" /\ errors' = errors
         /\ [StoreNext]_storeVars
<1>1. CASE CheckSeen /\ UNCHANGED errors
  <2>1. call \in Calls /\ "check" \in todo /\ todo = StatementsOf(call)
    BY <1>1 DEF CheckSeen, Turn, CallInv
  <2>2. Done = {}
    BY <2>1 DEF Done
  <2>3. work = disk
    BY <1>1, <2>2, PartlyNothing DEF CheckSeen, CallInv, StoreTypeOK
  <2> QED BY <1>1, <2>1, <2>3 DEF CheckSeen, RollBack, Ends, StoreNext, StoreSteps
<1>2. CASE CheckNew /\ UNCHANGED errors
  BY <1>2 DEF CheckNew, StoreNext, StoreSteps, CallInv
<1>3. CASE Commit /\ UNCHANGED errors
  <2>1. call \in Calls /\ Done = StatementsOf(call)
    BY <1>3 DEF Commit, Done, CallInv
  <2>2. disk' = Partly(call, disk, Writes[call.op])
    BY <1>3, <2>1, PartlyAll DEF Commit, CallInv
  <2> QED BY <1>3, <2>1, <2>2 DEF Commit, Ends, StoreNext, StoreSteps
<1>4. ASSUME NEW s \in Statements, Execute(s), UNCHANGED errors
      PROVE  /\ call \in Calls /\ disk' = disk /\ call' = call /\ answer' = answer
             /\ errors' = errors /\ StoreNext
  BY <1>4 DEF Execute, StoreNext, StoreSteps, CallInv
<1>5. ASSUME NEW s \in Statements, Refuse(s), UNCHANGED errors
      PROVE  /\ call \in Calls /\ \E u \in todo : Turn(u) /\ Violates(u, call, work)
             /\ disk' = disk /\ call' = None /\ answer' = "raised"
             /\ errors' = errors /\ StoreNext
  BY <1>5 DEF Refuse, RollBack, Ends, Turn, StoreNext, StoreSteps, CallInv
<1>6. CASE Fail /\ errors' = errors + 1
  BY <1>6 DEF Fail, RollBack, Ends, StoreNext, CallInv
<1> QED BY <1>1, <1>2, <1>3, <1>4, <1>5, <1>6 DEF Works, StoreSteps

-----------------------------------------------------------------------------
LEMMA LandingTypes ==
  ASSUME Reported, executed \subseteq Executions
  PROVE  /\ Landing \in SUBSET Executions /\ disk.fills \in SUBSET Executions
         /\ disk.fills \subseteq Landing
         /\ \A f \in Landing : disk.fills \subseteq executed /\ f \in executed /\ f.exec \in seen
         /\ SeenFills \in SUBSET Executions
BY DEF Reported, Landing, ExecsOf, SeenFills

\* The position is one that the engine may save.
LEMMA PositionInRange ==
  ASSUME Reported, Counts, executed \subseteq Executions
  PROVE  position \in 0 .. Counted(Executions)
<1>1. PICK fills : fills = SeenFills
  OBVIOUS
<1>2. fills \in SUBSET Executions
  BY <1>1, LandingTypes
<1>3. Counted(fills) \in Nat /\ Counted(Executions) \in Nat
  BY <1>2, CountedType
<1>4. Counted(fills) <= Counted(Executions)
  BY <1>2, CountedMonotone
<1> QED BY <1>1, <1>3, <1>4 DEF Counts

\* Every step of the handlers is one of the store, or leaves it alone.
LEMMA HandlersUseTheStore ==
  ASSUME RecInv, CallInv, StoreTypeOK, [Next]_vars
  PROVE  [StoreNext]_storeVars
<1>1. ASSUME NEW id \in Submitted, Submit(id) PROVE [StoreNext]_storeVars
  BY <1>1, NewIsAnOrder, EngineMakesCalls, AskDoes DEF Submit
<1>2. ASSUME NEW f \in Executions, FillRefused(f) PROVE [StoreNext]_storeVars
  BY <1>2 DEF FillRefused
<1>3. ASSUME NEW f \in Executions, FillApplied(f) PROVE [StoreNext]_storeVars
  BY <1>3, EngineMakesCalls, AskDoes DEF FillApplied
<1>4. CASE Acked
  <2>1. PICK t : t = task.order
    OBVIOUS
  <2>2. t \in Submitted /\ orders[t] = NewOrder(t)
    BY <1>4, <2>1 DEF Acked, Returns, Waits, RecInv, EngineInv, Control
  <2>3. SaveOf(t, MarkSubmitted(orders[t]).order) \in Calls
    BY <2>2, NewIsAnOrder, EngineMakesCalls
  <2> QED BY <1>4, <2>1, <2>3, AskDoes DEF Acked
<1>5. CASE FillRecorded
  <2>1. PICK t : t = task.order
    OBVIOUS
  <2>2. t \in Submitted /\ orders[t] \in OrdersOf(t)
    BY <1>5, <2>1 DEF FillRecorded, Returns, Waits, RecInv, EngineInv, Control, Rows
  <2>3. SaveOf(t, orders[t]) \in Calls
    BY <2>2, EngineMakesCalls
  <2> QED BY <1>5, <2>1, <2>3, AskDoes DEF FillRecorded
<1>6. CASE OrderSaved
  <2>1. PositionOf(position) \in Calls
    BY <1>6, PositionInRange, EngineMakesCalls DEF OrderSaved, Returns, Waits, RecInv,
                                                               EngineInv, Bounds
  <2> QED BY <1>6, <2>1, AskDoes DEF OrderSaved
<1>7. CASE Ended
  BY <1>7 DEF Ended
<1>8. CASE Works
  BY <1>8, WorkDoes
<1>9. CASE Dies
  BY <1>9 DEF Dies, StoreNext
<1>10. ASSUME NEW c \in OtherCalls, Anyone(c) PROVE [StoreNext]_storeVars
  BY <1>10, RecordingAssumption, AskDoes DEF Anyone
<1>11. CASE UNCHANGED vars
  BY <1>11 DEF vars, storeVars
<1> QED BY <1>1, <1>2, <1>3, <1>4, <1>5, <1>6, <1>7, <1>8, <1>9, <1>10, <1>11 DEF Next

-----------------------------------------------------------------------------
\* No constraint refuses a statement of the engine's.
LEMMA NeverRefused ==
  ASSUME Control, Rows, Reported, executed \subseteq Executions, venue \subseteq Submitted,
         task \in Task, CallInv, call # None,
         NEW s \in todo, Turn(s)
  PROVE  ~Violates(s, call, work)
<1> PICK t : t = task.order
  OBVIOUS
<1>1. /\ work = Partly(call, disk, Done) /\ s \in StatementsOf(call) /\ s \notin Done
      /\ "check" \notin todo => ~Duplicate(call, disk)
  BY DEF CallInv, Done
<1>2. CASE task.stage \in {"first_save", "ack_save", "order"}
  <2>1. call = SaveOf(t, orders[t]) /\ t \in Submitted /\ orders[t] # None
    BY <1>2 DEF Control
  <2>2. StatementsOf(call) = {"order", "log"} /\ call.order.id = t
    BY <2>1 DEF SaveOf, StatementsOf, Writes
  <2>3. s = "order" => work.orders = disk.orders
    BY <1>1 DEF Partly
  <2>4. ASSUME s = "order", disk.orders[t] = None,
               NEW id \in OrderIds, disk.orders[id] # None, ClientOf[id] = ClientOf[t]
        PROVE  FALSE
    <3>1. id \in Submitted /\ orders[id] # None
      BY <2>4 DEF Rows
    <3> QED BY <2>1, <2>4, <3>1 DEF Rows
  <2> QED BY <1>1, <2>2, <2>3, <2>4 DEF Violates
<1>3. CASE task.stage = "record"
  <2>1. PICK f \in Executions : call = RecordOf(f)
    BY <1>3 DEF Control
  <2>2. call.fill = f /\ StatementsOf(call) = {"check", "fill", "log"}
    BY <2>1, RecordWrites
  <2>3. f \in executed
    BY <2>1, RecordWrites DEF Reported, Landing
  <2>4. disk.orders[f.order] # None
    BY <2>3 DEF Reported, Rows
  <2>5. ASSUME s = "fill"
        PROVE  work.orders = disk.orders /\ work.fills = disk.fills /\ "check" \notin todo
    <3>1. "order" \notin Done
      BY <2>2 DEF Done
    <3>2. work.orders = disk.orders /\ work.fills = disk.fills
      BY <1>1, <2>5, <3>1 DEF Partly
    <3> QED BY <2>5, <3>2 DEF Turn, Rank
  <2>6. ASSUME s = "fill", NEW g \in disk.fills
        PROVE  g.exec # f.exec /\ g.id # f.id
    <3>1. \A h \in disk.fills : h.exec # f.exec
      BY <1>1, <2>1, <2>5, <2>6, RecordWrites
    <3>2. g \in Executions
      BY LandingTypes
    <3> QED BY <3>1, <3>2, RecordingAssumption
  <2> QED BY <1>1, <2>2, <2>4, <2>5, <2>6 DEF Violates
<1>4. CASE task.stage = "position"
  <2>1. s = "position"
    BY <1>1, <1>4, PositionWrites DEF Control
  <2> QED BY <2>1 DEF Violates
<1>5. CASE task.stage = "idle"
  BY <1>5 DEF Control
<1> QED BY <1>2, <1>3, <1>4, <1>5 DEF Task

-----------------------------------------------------------------------------
\* What the engine's call lands is what it is about: the fill on its way, or the order
\* as it is in memory; a call that is cut off leaves the tables alone.
LEMMA WorkLands ==
  ASSUME Control, Rows, Reported, executed \subseteq Executions, venue \subseteq Submitted,
         task \in Task, CallInv, StoreTypeOK, Works
  PROVE  /\ call # None
         /\ \/ Landing' = Landing /\ errors' = errors
            \/ Landing' = disk.fills /\ errors' = errors + 1
         /\ disk.fills \subseteq disk'.fills /\ disk'.fills \subseteq Landing'
         /\ \/ disk'.orders = disk.orders
            \/ /\ task.stage \in {"first_save", "ack_save", "order"}
               /\ disk'.orders = [disk.orders EXCEPT ![task.order] = orders[task.order]]
               /\ Landing = disk.fills
         /\ call' \in {None, call}
         /\ /\ task.stage = "first_save"
            /\ call' = None
            /\ answer' \in {"done", "duplicate"}
            => disk'.orders[task.order] # None
<1> PICK t : t = task.order
  OBVIOUS
<1> USE WorkDoes, TablesAssumption, CallsAssumption
<1>1. call \in Calls /\ call # None
  OBVIOUS
<1>2. disk.orders \in [OrderIds -> OrderStates \cup {None}]
  BY DEF StoreTypeOK, Tables
<1>3. CASE disk' = disk /\ call' = call /\ answer' = answer /\ errors' = errors
  BY <1>1, <1>3 DEF Landing
<1>4. CASE /\ disk' = disk /\ call' = None /\ answer' = "raised" /\ errors' = errors + 1
  BY <1>1, <1>4 DEF Landing
<1>5. CASE \E s \in todo : Turn(s) /\ Violates(s, call, work)
  BY <1>1, <1>5, NeverRefused
<1>6. CASE task.stage \in {"first_save", "ack_save", "order"}
  <2>1. call = SaveOf(t, orders[t]) /\ t \in Submitted /\ t \in OrderIds /\ orders[t] # None
    BY <1>1, <1>6, EngineTypes DEF Control
  <2>2. /\ call.op = "upsert_order" /\ ~Duplicate(call, disk)
    BY <2>1 DEF SaveOf, Duplicate
  <2>3. CASE /\ disk' = Partly(call, disk, Writes[call.op])
             /\ call' = None /\ answer' = "done" /\ errors' = errors
    <3>1. disk'.orders = [disk.orders EXCEPT ![t] = orders[t]] /\ disk'.fills = disk.fills
      BY <2>1, <2>3 DEF SaveOf, Partly, Writes
    <3>2. disk'.orders[t] # None
      BY <1>2, <2>1, <3>1
    <3>3. Landing = disk.fills /\ Landing' = disk.fills
      BY <2>2, <2>3, <3>1 DEF Landing
    <3> QED BY <1>1, <1>6, <2>3, <3>1, <3>2, <3>3
  <2> QED BY <1>3, <1>4, <1>5, <2>2, <2>3
<1>7. CASE task.stage = "record"
  <2>1. PICK f \in Executions : call = RecordOf(f)
    BY <1>1, <1>7 DEF Control
  <2>2. /\ call.op = "record_fill" /\ call.fill = f /\ Landing = disk.fills \cup {f}
        /\ Duplicate(call, disk) <=> \E g \in disk.fills : g.exec = f.exec
    BY <1>1, <2>1, RecordWrites DEF Landing
  <2>3. CASE /\ disk' = Partly(call, disk, Writes[call.op])
             /\ call' = None /\ answer' = "done" /\ errors' = errors
    <3>1. disk'.orders = disk.orders /\ disk'.fills = disk.fills \cup {f}
      BY <2>1, <2>3, RecordWrites
    <3>2. Landing' = Landing
      BY <2>2, <2>3, <3>1 DEF Landing
    <3> QED BY <1>1, <1>7, <2>2, <2>3, <3>1, <3>2
  <2>4. CASE /\ Duplicate(call, disk)
             /\ disk' = disk /\ call' = None /\ answer' = "duplicate" /\ errors' = errors
    <3>1. f \in disk.fills
      BY <2>2, <2>4, LandingTypes, RecordingAssumption
    <3>2. Landing' = Landing
      BY <2>2, <2>4, <3>1 DEF Landing
    <3> QED BY <1>1, <1>7, <2>2, <2>4, <3>1, <3>2
  <2> QED BY <1>3, <1>4, <1>5, <2>3, <2>4
<1>8. CASE task.stage = "position"
  <2>1. call = PositionOf(position)
    BY <1>1, <1>8 DEF Control
  <2>2. /\ call.op = "upsert_position" /\ ~Duplicate(call, disk)
    BY <2>1 DEF PositionOf, Duplicate
  <2>3. CASE /\ disk' = Partly(call, disk, Writes[call.op])
             /\ call' = None /\ answer' = "done" /\ errors' = errors
    <3>1. disk'.orders = disk.orders /\ disk'.fills = disk.fills
      BY <2>1, <2>3, PositionWrites
    <3>2. Landing = disk.fills /\ Landing' = disk.fills
      BY <2>2, <2>3, <3>1 DEF Landing
    <3> QED BY <1>1, <1>8, <2>3, <3>1, <3>2
  <2> QED BY <1>3, <1>4, <1>5, <2>2, <2>3
<1>9. CASE task.stage = "idle"
  BY <1>1, <1>9 DEF Control
<1> QED BY <1>6, <1>7, <1>8, <1>9 DEF Task

-----------------------------------------------------------------------------
\* The fills of one order are some of the fills.
LEMMA OrdersFills ==
  ASSUME NEW fills \in SUBSET Executions, NEW part \in SUBSET fills, NEW id
  PROVE  /\ OfOrder(fills, id) \in SUBSET Executions
         /\ Counted(OfOrder(fills, id)) \in Nat /\ Counted(OfOrder(part, id)) \in Nat
         /\ Counted(OfOrder(part, id)) <= Counted(OfOrder(fills, id))
<1>1. PICK all : all = OfOrder(fills, id)
  OBVIOUS
<1>2. PICK some : some = OfOrder(part, id)
  OBVIOUS
<1>3. all \in SUBSET Executions /\ some \in SUBSET all /\ some \in SUBSET Executions
  BY <1>1, <1>2 DEF OfOrder
<1> QED BY <1>1, <1>2, <1>3, CountedType, CountedMonotone

\* A step of the store under a handler keeps what the handler relies on.
LEMMA WorksKeep ==
  ASSUME EngineInv, Bounds, CallInv, StoreTypeOK, client = "engine", Works
  PROVE  EngineInv' /\ (Follows => Follows')
<1>1. /\ orders' = orders /\ position' = position /\ seen' = seen /\ task' = task
      /\ venue' = venue /\ executed' = executed /\ crashes' = crashes
      /\ errors' \in {errors, errors + 1} /\ errors \in Nat
  BY RecordingAssumption DEF Works, memoryVars, Bounds
<1>2. SeenFills' = SeenFills
  BY <1>1 DEF SeenFills
<1>3. /\ call # None /\ call' \in {None, call}
      /\ \/ Landing' = Landing /\ errors' = errors
         \/ Landing' = disk.fills /\ errors' = errors + 1
      /\ disk.fills \subseteq disk'.fills /\ disk'.fills \subseteq Landing'
      /\ \/ disk'.orders = disk.orders
         \/ /\ task.stage \in {"first_save", "ack_save", "order"}
            /\ disk'.orders = [disk.orders EXCEPT ![task.order] = orders[task.order]]
            /\ Landing = disk.fills
      /\ (task.stage = "first_save" /\ call' = None /\ answer' \in {"done", "duplicate"}
           => disk'.orders[task.order] # None)
  BY WorkLands DEF EngineInv, Bounds
<1>4. Landing' \subseteq Landing /\ Landing \in SUBSET Executions
  BY <1>3, LandingTypes DEF EngineInv, Bounds
<1>5. Control'
  BY <1>1, <1>3 DEF EngineInv, Control
<1>6. Rows'
  <2> PICK t : t = task.order
    OBVIOUS
  <2>1. ASSUME disk'.orders # disk.orders
        PROVE  /\ t \in Submitted /\ orders[t] \in OrdersOf(t) /\ orders[t] # None
               /\ disk'.orders = [disk.orders EXCEPT ![t] = orders[t]]
    BY <1>3, <2>1 DEF EngineInv, Control, Rows
  <2>2. disk.orders \in [OrderIds -> OrderStates \cup {None}] /\ Submitted \subseteq OrderIds
    BY RecordingAssumption DEF StoreTypeOK, Tables
  <2>3. \A id \in OrderIds : \/ disk'.orders[id] = disk.orders[id]
                             \/ id = t /\ t \in Submitted /\ disk'.orders[id] = orders[t]
                                  /\ orders[t] \in OrdersOf(t) /\ orders[t] # None
    BY <2>1, <2>2
  <2>4. venue \subseteq Submitted
    BY DEF Bounds
  <2> QED BY <1>1, <2>2, <2>3, <2>4 DEF EngineInv, Rows
<1>7. Reported'
  BY <1>1, <1>2, <1>4 DEF EngineInv, Reported, ExecsOf
<1>8. Counts'
  BY <1>1, <1>2 DEF EngineInv, Counts
<1>9. ASSUME errors' = 0 PROVE errors = 0 /\ Landing' = Landing
  BY <1>1, <1>3, <1>9
<1>10. Leads'
  <2> SUFFICES ASSUME errors' = 0, errors = 0, Landing' = Landing
               PROVE  Leads'
    BY <1>9 DEF Leads
  <2> PICK t : t = task.order
    OBVIOUS
  <2> PICK ledger : ledger = disk.fills
    OBVIOUS
  <2> PICK ledger2 : ledger2 = disk'.fills
    OBVIOUS
  <2>1. ASSUME NEW id \in Submitted, disk'.orders[id] # None
        PROVE  disk'.orders[id].filled <= Counted(OfOrder(ledger2, id))
    <3>1. ledger2 \in SUBSET Executions /\ ledger \in SUBSET ledger2
      BY <1>3, <1>4
    <3>2. /\ Counted(OfOrder(ledger, id)) \in Nat /\ Counted(OfOrder(ledger2, id)) \in Nat
          /\ Counted(OfOrder(ledger, id)) <= Counted(OfOrder(ledger2, id))
      BY <3>1, OrdersFills
    <3>3. CASE disk'.orders[id] = disk.orders[id]
      <4>1. disk.orders[id].filled <= Counted(OfOrder(ledger, id))
        BY <2>1, <3>3 DEF EngineInv, Leads
      <4>2. disk.orders[id] \in OrdersOf(id)
        BY <2>1, <3>3 DEF EngineInv, Rows
      <4>3. disk.orders[id].filled \in Nat
        BY <4>2, OrderFields DEF Shape
      <4> QED BY <3>2, <3>3, <4>1, <4>3
    <3>4. CASE disk'.orders[id] # disk.orders[id]
      <4>1. /\ task.stage \in {"first_save", "ack_save", "order"} /\ Landing = ledger
            /\ disk'.orders = [disk.orders EXCEPT ![t] = orders[t]]
        BY <1>3, <3>4
      <4>2. disk.orders \in [OrderIds -> OrderStates \cup {None}] /\ id \in OrderIds
        BY RecordingAssumption DEF StoreTypeOK, Tables
      <4>3. id = t /\ disk'.orders[id] = orders[t]
        BY <3>4, <4>1, <4>2
      <4>4. ledger2 = Landing
        BY <1>3, <4>1
      <4>5. CASE task.stage \in {"first_save", "ack_save"}
        <5>1. orders[t].filled = 0
          BY <4>3, <4>5, NewIsAnOrder DEF EngineInv, Control
        <5> QED BY <3>2, <4>3, <5>1
      <4>6. CASE task.stage = "order"
        <5>1. orders[t] # None /\ orders[t].status # "NEW"
          BY <4>6 DEF EngineInv, Control
        <5>2. orders[t].filled <= Counted(OfOrder(ledger2, t))
          BY <4>3, <4>4, <5>1 DEF EngineInv, Leads
        <5> QED BY <4>3, <5>2
      <4> QED BY <4>1, <4>5, <4>6
    <3> QED BY <3>3, <3>4
  <2> QED BY <1>1, <2>1 DEF EngineInv, Leads
<1>11. Follows => Follows'
  BY <1>1, <1>2, <1>9 DEF Follows
<1> QED BY <1>5, <1>6, <1>7, <1>8, <1>10, <1>11 DEF EngineInv

\* A call that is not a fill's leaves the fills on their way to the ledger alone.
LEMMA AsksOther ==
  ASSUME NEW c \in Calls, c.op # "record_fill", Ask(c), errors \in Nat
  PROVE  /\ call = None /\ disk' = disk /\ Landing = disk.fills /\ Landing' = Landing
         /\ call' \in {None, c}
         /\ call' = None => answer' = "raised"
         /\ errors' \in {errors, errors + 1} /\ (errors' = 0 => errors = 0 /\ call' = c)
BY AskDoes, CallsAssumption DEF Landing

\* An order that is new in memory has neither row nor fills.
LEMMA SubmitKeeps ==
  ASSUME EngineInv, Bounds, StoreTypeOK, NEW id \in Submitted, Submit(id)
  PROVE  EngineInv' /\ (Follows => Follows')
<1>1. /\ client' = client /\ position' = position /\ seen' = seen
      /\ venue' = venue /\ executed' = executed /\ crashes' = crashes
      /\ task' = [stage |-> "first_save", order |-> id]
      /\ orders' = [orders EXCEPT ![id] = NewOrder(id)]
      /\ \A other \in Submitted : ClientOf[other] = ClientOf[id] => orders[other] = None
      /\ Ask(SaveOf(id, NewOrder(id))) /\ errors \in Nat
  BY RecordingAssumption DEF Submit, KeyIsFree, Stage, Bounds
<1>2. PICK o : o = NewOrder(id)
  OBVIOUS
<1>3. o \in OrdersOf(id) /\ o.status = "NEW" /\ o.filled = 0 /\ o # None
  BY <1>2, NewIsAnOrder, EngineTypes
<1>4. SaveOf(id, o) \in Calls /\ SaveOf(id, o).op # "record_fill"
  BY <1>3, EngineMakesCalls DEF SaveOf
<1>5. /\ call = None /\ disk' = disk /\ Landing = disk.fills /\ Landing' = Landing
      /\ call' \in {None, SaveOf(id, o)}
      /\ call' = None => answer' = "raised"
      /\ (errors' = 0 => errors = 0)
  BY <1>1, <1>2, <1>4, AsksOther
<1>6. orders'[id] = o /\ \A other \in Submitted : other # id => orders'[other] = orders[other]
  BY <1>1, <1>2 DEF Bounds
<1>7. orders[id] = None /\ disk.orders[id] = None /\ id \notin venue
  BY <1>1 DEF EngineInv, Rows
<1>8. Control'
  BY <1>1, <1>2, <1>3, <1>5, <1>6, <1>7 DEF EngineInv, Control
<1>9. Rows'
  BY <1>1, <1>3, <1>5, <1>6, <1>7 DEF EngineInv, Rows
<1>10. SeenFills' = SeenFills
  BY <1>1 DEF SeenFills
<1>11. Reported'
  BY <1>1, <1>5, <1>10 DEF EngineInv, Reported
<1>12. Counts'
  <2> PICK fills : fills = SeenFills
    OBVIOUS
  <2>1. Counted(OfOrder(fills, id)) \in Nat
    BY OrdersFills, LandingTypes DEF EngineInv, Bounds
  <2> QED BY <1>1, <1>3, <1>5, <1>6, <1>10, <2>1 DEF EngineInv, Counts
<1>13. Leads'
  BY <1>1, <1>3, <1>5, <1>6 DEF EngineInv, Leads
<1>14. Follows => Follows'
  BY <1>1, <1>3, <1>5, <1>6, <1>10, RecordingAssumption DEF Follows, SeenFills, Bounds
<1> QED BY <1>8, <1>9, <1>11, <1>12, <1>13, <1>14 DEF EngineInv

\* The venue gets an order that has its row and no fills.
LEMMA AckedKeeps ==
  ASSUME EngineInv, Bounds, StoreTypeOK, Acked
  PROVE  EngineInv' /\ (Follows => Follows')
<1>1. PICK id : id = task.order
  OBVIOUS
<1>2. id \in Submitted /\ orders[id] = NewOrder(id) /\ id \notin venue /\ disk.orders[id] # None
  BY <1>1 DEF Acked, Returns, Waits, EngineInv, Control
<1>3. PICK o : o = MarkSubmitted(NewOrder(id)).order
  OBVIOUS
<1>4. o \in OrdersOf(id) /\ o.status = "SUBMITTED" /\ o.filled = 0 /\ o # None
  BY <1>2, <1>3, NewIsAnOrder, EngineTypes
<1>5. /\ client' = client /\ position' = position /\ seen' = seen
      /\ venue' = venue \cup {id} /\ executed' = executed /\ crashes' = crashes
      /\ task' = [stage |-> "ack_save", order |-> id]
      /\ orders' = [orders EXCEPT ![id] = o]
      /\ Ask(SaveOf(id, o)) /\ errors \in Nat
  BY <1>1, <1>2, <1>3, RecordingAssumption DEF Acked, Stage, Bounds
<1>6. SaveOf(id, o) \in Calls /\ SaveOf(id, o).op # "record_fill"
  BY <1>2, <1>4, EngineMakesCalls DEF SaveOf
<1>7. /\ call = None /\ disk' = disk /\ Landing = disk.fills /\ Landing' = Landing
      /\ call' \in {None, SaveOf(id, o)}
      /\ (errors' = 0 => errors = 0)
  BY <1>5, <1>6, AsksOther
<1>8. orders'[id] = o /\ \A other \in Submitted : other # id => orders'[other] = orders[other]
  BY <1>2, <1>5 DEF Bounds
<1>9. Control'
  BY <1>2, <1>3, <1>4, <1>5, <1>7, <1>8 DEF EngineInv, Control
<1>10. orders[id] # None
  BY <1>2, NewIsAnOrder, EngineTypes
<1>11. Rows'
  BY <1>2, <1>4, <1>5, <1>7, <1>8, <1>10 DEF EngineInv, Rows
<1>12. SeenFills' = SeenFills
  BY <1>5 DEF SeenFills
<1>13. Reported'
  BY <1>5, <1>7, <1>12 DEF EngineInv, Reported
<1>14. Counts'
  <2> PICK fills : fills = SeenFills
    OBVIOUS
  <2>1. Counted(OfOrder(fills, id)) \in Nat
    BY OrdersFills, LandingTypes DEF EngineInv, Bounds
  <2> QED BY <1>4, <1>5, <1>7, <1>8, <1>12, <2>1 DEF EngineInv, Counts
<1>15. Leads'
  <2> PICK fills : fills = Landing
    OBVIOUS
  <2>1. Counted(OfOrder(fills, id)) \in Nat
    BY OrdersFills, LandingTypes DEF EngineInv, Bounds
  <2> QED BY <1>4, <1>5, <1>7, <1>8, <2>1 DEF EngineInv, Leads
<1>16. Follows => Follows'
  <2>1. \A f \in SeenFills : f.order # id /\ f.order \in Submitted
    BY <1>2, RecordingAssumption DEF SeenFills, EngineInv, Reported, Bounds
  <2> QED BY <1>5, <1>7, <1>8, <1>12, <2>1 DEF Follows
<1> QED BY <1>9, <1>11, <1>13, <1>14, <1>15, <1>16 DEF EngineInv

\* The handler's memory stays as it is while it goes on to its next call.
LEMMA SavesKeep ==
  ASSUME EngineInv, Bounds, StoreTypeOK, FillRecorded \/ OrderSaved
  PROVE  EngineInv' /\ (Follows => Follows')
<1>1. PICK id : id = task.order
  OBVIOUS
<1>2. id \in Submitted /\ orders[id] \in OrdersOf(id) /\ orders[id] # None
  BY <1>1 DEF FillRecorded, OrderSaved, Returns, Waits, EngineInv, Control, Rows
<1>3. PICK c : \/ FillRecorded /\ c = SaveOf(id, orders[id])
               \/ OrderSaved /\ c = PositionOf(position)
  OBVIOUS
<1>4. c \in Calls /\ c.op # "record_fill"
  BY <1>2, <1>3, EngineMakesCalls, PositionInRange
     DEF SaveOf, PositionOf, EngineInv, Bounds
<1>5. Ask(c) /\ errors \in Nat
  BY <1>1, <1>3, RecordingAssumption DEF FillRecorded, OrderSaved, Bounds
<1>6. /\ orders' = orders /\ position' = position /\ seen' = seen
      /\ venue' = venue /\ executed' = executed /\ crashes' = crashes
      /\ \/ task' = [stage |-> "order", order |-> id] /\ c = SaveOf(id, orders[id])
         \/ task' = [stage |-> "position", order |-> id] /\ c = PositionOf(position)
      /\ task.stage \in {"record", "order"}
  BY <1>1, <1>3 DEF FillRecorded, OrderSaved, Returns, Waits, Stage, memoryVars
<1>7. /\ call = None /\ disk' = disk /\ Landing = disk.fills /\ Landing' = Landing
      /\ call' \in {None, c}
      /\ (errors' = 0 => errors = 0)
  BY <1>4, <1>5, AsksOther
<1>8. orders[id].status \in {"PARTIALLY_FILLED", "FILLED"}
  BY <1>1, <1>6 DEF EngineInv, Control
<1>9. Control'
  BY <1>2, <1>6, <1>7, <1>8 DEF EngineInv, Control
<1>10. Rows'
  BY <1>6, <1>7 DEF EngineInv, Rows
<1>11. SeenFills' = SeenFills
  BY <1>6 DEF SeenFills
<1>12. Reported' /\ Counts' /\ Leads'
  BY <1>6, <1>7, <1>11 DEF EngineInv, Reported, Counts, Leads
<1>13. Follows => Follows'
  BY <1>6, <1>7, <1>11 DEF Follows
<1> QED BY <1>9, <1>10, <1>12, <1>13 DEF EngineInv

\* A handler that returns, or fails, leaves everything behind as it is.
LEMMA EndedKeeps ==
  ASSUME EngineInv, Ended
  PROVE  EngineInv' /\ (Follows => Follows')
<1>1. /\ orders' = orders /\ position' = position /\ seen' = seen /\ errors' = errors
      /\ venue' = venue /\ executed' = executed /\ crashes' = crashes
      /\ task' = Idle /\ call' = call /\ call = None /\ disk' = disk
  BY DEF Ended, Returns, Waits, memoryVars, storeVars
<1>2. SeenFills' = SeenFills /\ Landing' = Landing
  BY <1>1 DEF SeenFills, Landing
<1>3. Control'
  BY <1>1 DEF Control, Idle
<1>4. Rows'
  BY <1>1 DEF EngineInv, Rows
<1>5. Reported' /\ Counts' /\ Leads' /\ (Follows => Follows')
  BY <1>1, <1>2 DEF EngineInv, Reported, Counts, Leads, Follows
<1> QED BY <1>3, <1>4, <1>5 DEF EngineInv

-----------------------------------------------------------------------------
LEMMA OneOrderMore ==
  ASSUME NEW fills \in SUBSET Executions, NEW f \in Executions, f \notin fills
  PROVE  /\ Counted(fills \cup {f}) = Counted(fills) + f.qty
         /\ Counted(OfOrder(fills \cup {f}, f.order)) = Counted(OfOrder(fills, f.order)) + f.qty
         /\ \A id : id # f.order => Counted(OfOrder(fills \cup {f}, id))
                                      = Counted(OfOrder(fills, id))
         /\ Counted(fills) \in Nat /\ \A id : Counted(OfOrder(fills, id)) \in Nat
         /\ f.qty \in Nat
<1>1. OfOrder(fills \cup {f}, f.order) = OfOrder(fills, f.order) \cup {f}
  BY DEF OfOrder
<1>2. \A id : id # f.order => OfOrder(fills \cup {f}, id) = OfOrder(fills, id)
  BY DEF OfOrder
<1>3. f \notin OfOrder(fills, f.order) /\ OfOrder(fills, f.order) \in SUBSET Executions
  BY DEF OfOrder
<1>4. Counted(OfOrder(fills, f.order) \cup {f}) = Counted(OfOrder(fills, f.order)) + f.qty
  BY <1>3, CountedAdd
<1>5. f.qty \in Nat
  BY RecordingAssumption DEF FillRow
<1>6. Counted(fills) \in Nat /\ \A id : Counted(OfOrder(fills, id)) \in Nat
  BY CountedType, OrdersFills
<1> QED BY <1>1, <1>2, <1>4, <1>5, <1>6, CountedAdd

\* An execution that is reported for the first time: the order has a row, and what is
\* seen grows by this one.
LEMMA FillIsNew ==
  ASSUME EngineInv, Bounds, NEW f \in Executions, f.order \in venue, f.exec \notin seen,
         seen' = seen \cup {f.exec}, executed' = executed \cup {f}
  PROVE  /\ f.order \in Submitted /\ orders[f.order] # None
         /\ orders[f.order] \in OrdersOf(f.order) /\ orders[f.order].filled \in Nat
         /\ f \notin SeenFills /\ f \notin Landing
         /\ SeenFills' = SeenFills \cup {f} /\ SeenFills \in SUBSET Executions
         /\ Landing \in SUBSET Executions
<1>1. f.order \in Submitted /\ orders[f.order] # None /\ orders[f.order] \in OrdersOf(f.order)
  BY DEF Bounds, EngineInv, Rows
<1>2. orders[f.order].filled \in Nat
  BY <1>1, OrderFields DEF Shape
<1>3. f \notin SeenFills /\ f \notin Landing
  BY LandingTypes DEF SeenFills, EngineInv, Bounds
<1>4. \A g \in executed : g.exec = f.exec => g = f
  BY RecordingAssumption DEF Bounds
<1>5. SeenFills' = SeenFills \cup {f}
  BY <1>4 DEF SeenFills
<1> QED BY <1>1, <1>2, <1>3, <1>5, LandingTypes DEF EngineInv, Bounds

\* A fill that the order refuses is seen, and counted at most in an order that is NEW.
LEMMA RefusedKeeps ==
  ASSUME EngineInv, Bounds, NEW f \in Executions, FillRefused(f)
  PROVE  EngineInv' /\ (VenueKeepsToQty /\ Follows => Follows')
<1>1. PICK id : id = f.order
  OBVIOUS
<1>2. PICK r : r = ApplyFill(orders[id], f.qty)
  OBVIOUS
<1>3. PICK fills : fills = SeenFills
  OBVIOUS
<1>4. PICK ledger : ledger = Landing
  OBVIOUS
<1>5. /\ task.stage = "idle" /\ id \in venue /\ f.exec \notin seen /\ r.raised # "none"
      /\ seen' = seen \cup {f.exec} /\ executed' = executed \cup {f}
      /\ orders' = [orders EXCEPT ![id] = r.order]
      /\ client' = client /\ position' = position /\ task' = task /\ venue' = venue
      /\ crashes' = crashes /\ errors' = errors
      /\ call' = call /\ answer' = answer /\ disk' = disk
  BY <1>1, <1>2 DEF FillRefused, Waits, storeVars
<1>6. /\ id \in Submitted /\ orders[id] # None /\ orders[id] \in OrdersOf(id)
      /\ orders[id].filled \in Nat /\ f \notin fills /\ f \notin ledger
      /\ SeenFills' = fills \cup {f} /\ fills \in SUBSET Executions
      /\ ledger \in SUBSET Executions
  BY <1>1, <1>3, <1>4, <1>5, FillIsNew
<1>7. f.qty \in Nat
  BY RecordingAssumption DEF FillRow
<1>8. /\ r.order \in OrdersOf(id) /\ r.order # None
      /\ \/ /\ orders[id].status = "NEW" /\ r.order.status = "NEW"
            /\ r.order.filled \in {orders[id].filled, orders[id].filled + f.qty}
         \/ orders[id].filled + f.qty > QtyOf[id] /\ r.order = orders[id]
  BY <1>2, <1>5, <1>6, <1>7, FillDoes, EngineTypes
<1>9. /\ orders'[id] = r.order
      /\ \A other \in Submitted : other # id => orders'[other] = orders[other]
  BY <1>5, <1>6 DEF Bounds
<1>10. Landing' = ledger
  BY <1>4, <1>5 DEF Landing
<1>11. Control'
  BY <1>5 DEF EngineInv, Control, Idle
<1>12. Rows'
  BY <1>5, <1>6, <1>8, <1>9 DEF EngineInv, Rows
<1>13. Reported'
  BY <1>1, <1>3, <1>4, <1>5, <1>6, <1>10 DEF EngineInv, Reported, ExecsOf
<1>14. Counts'
  <2>1. Counted(fills \cup {f}) = Counted(fills) + f.qty /\ Counted(fills) \in Nat
    BY <1>6, OneOrderMore
  <2>2. /\ Counted(OfOrder(fills \cup {f}, id)) = Counted(OfOrder(fills, id)) + f.qty
        /\ Counted(OfOrder(fills, id)) \in Nat
    BY <1>1, <1>6, OneOrderMore
  <2>3. position <= Counted(fills) /\ position \in Nat
    BY <1>3 DEF EngineInv, Counts
  <2>4. position' <= Counted(fills \cup {f}) /\ position' \in Nat
    BY <1>5, <1>7, <2>1, <2>3
  <2>5. ASSUME errors = 0 \/ crashes = 0, NEW other \in Submitted, orders'[other] # None
        PROVE  orders'[other].filled <= Counted(OfOrder(fills \cup {f}, other))
    <3>1. orders[other] # None => orders[other].filled <= Counted(OfOrder(fills, other))
      BY <1>3, <2>5 DEF EngineInv, Counts
    <3>2. CASE other = id
      BY <1>6, <1>7, <1>8, <1>9, <2>2, <3>1, <3>2
    <3>3. CASE other # id
      BY <1>1, <1>6, <1>9, <2>5, <3>1, <3>3, OneOrderMore
    <3> QED BY <3>2, <3>3
  <2> QED BY <1>5, <1>6, <2>4, <2>5 DEF Counts
<1>15. Leads'
  BY <1>4, <1>5, <1>8, <1>9, <1>10 DEF EngineInv, Leads
<1>16. ASSUME VenueKeepsToQty, Follows PROVE Follows'
  <2> SUFFICES ASSUME errors = 0 PROVE Follows'
    BY <1>5 DEF Follows
  <2>1. ASSUME orders[id].status # "NEW" PROVE FALSE
    <3>1. orders[id].filled <= Counted(OfOrder(ledger, id))
      BY <1>4, <1>6, <2>1 DEF EngineInv, Leads
    <3>2. Counted(OfOrder(ledger \cup {f}, id)) = Counted(OfOrder(ledger, id)) + f.qty
      BY <1>1, <1>6, OneOrderMore
    <3>3. ledger \cup {f} \in SUBSET Executions
      BY <1>6
    <3>4. /\ Counted(OfOrder(ledger \cup {f}, id)) <= Counted(OfOrder(Executions, id))
          /\ Counted(OfOrder(Executions, id)) \in Nat
      BY <3>3, OrdersFills
    <3>5. Counted(OfOrder(ledger, id)) \in Nat /\ QtyOf[id] \in Nat
      BY <1>6, OrdersFills, EngineTypes
    <3>6. Counted(OfOrder(Executions, id)) <= QtyOf[id]
      BY <1>6, <1>16 DEF VenueKeepsToQty
    <3>7. orders[id].filled + f.qty > QtyOf[id]
      BY <1>8, <2>1
    <3> QED BY <1>6, <1>7, <3>1, <3>2, <3>4, <3>5, <3>6, <3>7
  <2>2. orders'[id].status = "NEW"
    BY <1>8, <1>9, <2>1
  <2>3. \A g \in fills : g.order \in Submitted
    BY <1>6, RecordingAssumption
  <2> QED BY <1>1, <1>3, <1>4, <1>6, <1>9, <1>10, <1>16, <2>2, <2>3 DEF Follows
<1> QED BY <1>11, <1>12, <1>13, <1>14, <1>15, <1>16 DEF EngineInv

\* A fill that the order takes is counted everywhere and on its way to the ledger.
LEMMA AppliedKeeps ==
  ASSUME EngineInv, Bounds, StoreTypeOK, client = "engine",
         NEW f \in Executions, FillApplied(f)
  PROVE  EngineInv' /\ (Follows => Follows')
<1>1. PICK id : id = f.order
  OBVIOUS
<1>2. PICK r : r = ApplyFill(orders[id], f.qty)
  OBVIOUS
<1>3. PICK fills : fills = SeenFills
  OBVIOUS
<1>4. PICK ledger : ledger = Landing
  OBVIOUS
<1>5. /\ task.stage = "idle" /\ id \in venue /\ f.exec \notin seen /\ r.raised = "none"
      /\ seen' = seen \cup {f.exec} /\ executed' = executed \cup {f}
      /\ orders' = [orders EXCEPT ![id] = r.order]
      /\ position' = position + f.qty
      /\ client' = client /\ task' = [stage |-> "record", order |-> id] /\ venue' = venue
      /\ crashes' = crashes /\ Ask(RecordOf(f)) /\ errors \in Nat
  BY <1>1, <1>2, RecordingAssumption DEF FillApplied, Waits, Stage, Bounds
<1>6. /\ id \in Submitted /\ orders[id] # None /\ orders[id] \in OrdersOf(id)
      /\ orders[id].filled \in Nat /\ f \notin fills /\ f \notin ledger
      /\ SeenFills' = fills \cup {f} /\ fills \in SUBSET Executions
      /\ ledger \in SUBSET Executions
  BY <1>1, <1>3, <1>4, <1>5, FillIsNew
<1>7. f.qty \in Nat
  BY RecordingAssumption DEF FillRow
<1>8. /\ r.order \in OrdersOf(id) /\ r.order # None
      /\ r.order.status \in {"PARTIALLY_FILLED", "FILLED"}
      /\ r.order.filled = orders[id].filled + f.qty
      /\ orders[id].status # "NEW"
  BY <1>2, <1>5, <1>6, <1>7, FillDoes, EngineTypes
<1>9. /\ orders'[id] = r.order
      /\ \A other \in Submitted : other # id => orders'[other] = orders[other]
  BY <1>5, <1>6 DEF Bounds
<1>10. /\ call = None /\ disk' = disk /\ ledger = disk.fills
       /\ \/ call' = RecordOf(f) /\ errors' = errors /\ Landing' = ledger \cup {f}
          \/ call' = None /\ errors' = errors + 1 /\ Landing' = ledger
  <2>1. RecordOf(f) \in Calls /\ RecordOf(f) # None
    BY EngineMakesCalls
  <2>2. RecordOf(f).op = "record_fill" /\ RecordOf(f).fill = f
    BY DEF RecordOf
  <2> QED BY <1>4, <1>5, <2>1, <2>2, AskDoes DEF Landing
<1>11. Control'
  BY <1>5, <1>6, <1>8, <1>9, <1>10 DEF EngineInv, Control
<1>12. Rows'
  BY <1>5, <1>6, <1>8, <1>9, <1>10 DEF EngineInv, Rows
<1>13. Reported'
  BY <1>1, <1>3, <1>4, <1>5, <1>6, <1>10 DEF EngineInv, Reported, ExecsOf
<1>14. Counts'
  <2>1. Counted(fills \cup {f}) = Counted(fills) + f.qty /\ Counted(fills) \in Nat
    BY <1>6, OneOrderMore
  <2>2. /\ Counted(OfOrder(fills \cup {f}, id)) = Counted(OfOrder(fills, id)) + f.qty
        /\ Counted(OfOrder(fills, id)) \in Nat
    BY <1>1, <1>6, OneOrderMore
  <2>3. position <= Counted(fills) /\ position \in Nat
    BY <1>3 DEF EngineInv, Counts
  <2>4. position' <= Counted(fills \cup {f}) /\ position' \in Nat
    BY <1>5, <1>7, <2>1, <2>3
  <2>5. ASSUME errors = 0 \/ crashes = 0, NEW other \in Submitted, orders'[other] # None
        PROVE  orders'[other].filled <= Counted(OfOrder(fills \cup {f}, other))
    <3>1. orders[other] # None => orders[other].filled <= Counted(OfOrder(fills, other))
      BY <1>3, <2>5 DEF EngineInv, Counts
    <3>2. CASE other = id
      BY <1>6, <1>7, <1>8, <1>9, <2>2, <3>1, <3>2
    <3>3. CASE other # id
      BY <1>1, <1>6, <1>9, <2>5, <3>1, <3>3, OneOrderMore
    <3> QED BY <3>2, <3>3
  <2>6. errors' = 0 \/ crashes' = 0 => errors = 0 \/ crashes = 0
    BY <1>5, <1>10
  <2> QED BY <1>6, <2>4, <2>5, <2>6 DEF Counts
<1>15. Leads'
  <2> SUFFICES ASSUME errors' = 0 PROVE Leads'
    BY DEF Leads
  <2>1. errors = 0 /\ Landing' = ledger \cup {f}
    BY <1>5, <1>10
  <2>2. position' = Counted(ledger \cup {f})
    BY <1>4, <1>5, <1>6, <2>1, OneOrderMore DEF EngineInv, Leads
  <2>3. ASSUME NEW other \in Submitted, orders'[other] # None, orders'[other].status # "NEW"
        PROVE  orders'[other].filled <= Counted(OfOrder(ledger \cup {f}, other))
    <3>1. orders[other] # None /\ orders[other].status # "NEW" =>
            orders[other].filled <= Counted(OfOrder(ledger, other))
      BY <1>4, <2>1 DEF EngineInv, Leads
    <3>2. CASE other = id
      <4>1. /\ Counted(OfOrder(ledger \cup {f}, id)) = Counted(OfOrder(ledger, id)) + f.qty
            /\ Counted(OfOrder(ledger, id)) \in Nat
        BY <1>1, <1>6, OneOrderMore
      <4> QED BY <1>6, <1>7, <1>8, <1>9, <3>1, <3>2, <4>1
    <3>3. CASE other # id
      BY <1>1, <1>6, <1>9, <2>3, <3>1, <3>3, OneOrderMore
    <3> QED BY <3>2, <3>3
  <2> QED BY <1>10, <2>1, <2>2, <2>3 DEF EngineInv, Leads
<1>16. ASSUME Follows PROVE Follows'
  <2>1. \A g \in fills : g.order \in Submitted
    BY <1>6, RecordingAssumption
  <2>2. \A g \in fills : orders'[g.order].status # "NEW" =>
          \/ orders[g.order].status # "NEW" \/ g.order = id
    BY <1>9, <2>1
  <2> QED BY <1>3, <1>4, <1>5, <1>6, <1>8, <1>10, <1>16, <2>1, <2>2 DEF Follows
<1> QED BY <1>11, <1>12, <1>13, <1>14, <1>15, <1>16 DEF EngineInv

\* What load() rebuilds is what the tables have; it forgets what was on its way.
LEMMA LoadKeeps ==
  ASSUME EngineInv, Bounds, Dies, client = "engine"
  PROVE  EngineInv' /\ Follows'
<1>1. PICK ledger : ledger = disk.fills
  OBVIOUS
<1>2. /\ disk' = disk /\ call' = None /\ answer' = "none" /\ task' = Idle
      /\ orders' = [id \in Submitted |-> disk.orders[id]]
      /\ position' = Counted(ledger) /\ seen' = ExecsOf(ledger) \ {None}
      /\ venue' = venue /\ executed' = executed /\ errors' = errors
      /\ crashes' = crashes + 1 /\ crashes \in Nat
  BY <1>1, RecordingAssumption DEF Dies, StoreCrash, RollBack, Ends, Load, Bounds
<1>3. ledger \in SUBSET Executions /\ ledger \subseteq executed /\ executed \subseteq Executions
  BY <1>1, LandingTypes DEF EngineInv, Bounds
<1>4. seen' = ExecsOf(ledger)
  BY <1>2, <1>3, RecordingAssumption DEF ExecsOf
<1>5. SeenFills' = ledger
  BY <1>2, <1>3, <1>4, RecordingAssumption DEF SeenFills, ExecsOf
<1>6. Landing' = ledger
  BY <1>1, <1>2 DEF Landing
<1>7. Control'
  BY <1>2 DEF Control, Idle
<1>8. Rows'
  BY <1>2 DEF EngineInv, Rows
<1>9. Reported'
  BY <1>2, <1>3, <1>4, <1>5, <1>6 DEF EngineInv, Reported, ExecsOf
<1>10. errors = 0 => \A id \in Submitted :
         disk.orders[id] # None => disk.orders[id].filled <= Counted(OfOrder(ledger, id))
  BY <1>1 DEF EngineInv, Leads
<1>11. Counted(ledger) \in Nat
  BY <1>3, CountedType
<1>12. Counts'
  BY <1>2, <1>5, <1>10, <1>11 DEF Counts
<1>13. Leads'
  BY <1>1, <1>2, <1>6, <1>10 DEF Leads
<1>14. Follows'
  BY <1>5, <1>6 DEF Follows
<1> QED BY <1>7, <1>8, <1>9, <1>12, <1>13, <1>14 DEF EngineInv

-----------------------------------------------------------------------------
\* The orders in memory are the engine's.
LEMMA EngineStep ==
  ASSUME EngineInv, Bounds, CallInv, StoreTypeOK, client = "engine", [Next]_vars
  PROVE  EngineInv' /\ (VenueKeepsToQty /\ Follows => Follows')
<1>1. ASSUME NEW c \in OtherCalls, Anyone(c) PROVE FALSE
  BY <1>1 DEF Anyone
<1>2. CASE UNCHANGED vars
  <2>1. /\ orders' = orders /\ position' = position /\ seen' = seen /\ errors' = errors
        /\ venue' = venue /\ executed' = executed /\ crashes' = crashes
        /\ task' = task /\ call' = call /\ answer' = answer /\ disk' = disk
    BY <1>2 DEF vars, memoryVars, storeVars
  <2>2. SeenFills' = SeenFills /\ Landing' = Landing
    BY <2>1 DEF SeenFills, Landing
  <2>3. Control' /\ Rows'
    BY <2>1 DEF EngineInv, Control, Rows
  <2>4. Reported' /\ Counts' /\ Leads' /\ (Follows => Follows')
    BY <2>1, <2>2 DEF EngineInv, Reported, Counts, Leads, Follows
  <2> QED BY <2>3, <2>4 DEF EngineInv
<1> QED BY <1>1, <1>2, SubmitKeeps, AckedKeeps, SavesKeep, EndedKeeps, RefusedKeeps,
           AppliedKeeps, WorksKeep, LoadKeeps DEF Next

\* Every step keeps the ranges.
LEMMA BoundsStep ==
  ASSUME RecInv, CallInv, StoreTypeOK, [Next]_vars
  PROVE  Bounds'
<1> USE RecordingAssumption DEF RecInv, Bounds
<1>1. ASSUME NEW c \in Calls, Ask(c)
      PROVE  errors' \in 0 .. MaxErrors
  BY <1>1 DEF Ask
<1>2. ASSUME NEW id \in Submitted, Submit(id) PROVE Bounds'
  <2>1. NewOrder(id) \in OrderStates /\ SaveOf(id, NewOrder(id)) \in Calls
    BY NewIsAnOrder, EngineTypes, EngineMakesCalls
  <2>2. task' \in Task
    BY <1>2 DEF Submit, Stage, Task
  <2> QED BY <1>1, <1>2, <2>1, <2>2 DEF Submit
<1>3. ASSUME NEW f \in Executions, FillRefused(f) \/ FillApplied(f) PROVE Bounds'
  <2>1. PICK o : o = orders[f.order]
    OBVIOUS
  <2>2. f.order \in Submitted /\ o \in OrdersOf(f.order) /\ f.qty \in Nat
    BY <1>3, <2>1 DEF FillRefused, FillApplied, Waits, EngineInv, Rows, FillRow
  <2>3. ApplyFill(o, f.qty).order \in OrderStates
    BY <2>2, FillDoes, EngineTypes
  <2>4. orders' = [orders EXCEPT ![f.order] = ApplyFill(o, f.qty).order]
    BY <1>3, <2>1 DEF FillRefused, FillApplied
  <2>5. orders' \in [Submitted -> OrderStates \cup {None}]
    BY <2>3, <2>4
  <2>6. RecordOf(f) \in Calls
    BY EngineMakesCalls
  <2>7. task' \in Task /\ errors' \in 0 .. MaxErrors
    BY <1>1, <1>3, <2>2, <2>6 DEF FillRefused, FillApplied, Stage, Task
  <2> QED BY <1>3, <2>5, <2>7 DEF FillRefused, FillApplied
<1>4. CASE Acked
  <2>1. PICK id : id = task.order
    OBVIOUS
  <2>2. PICK o : o = MarkSubmitted(orders[id]).order
    OBVIOUS
  <2>3. id \in Submitted /\ o \in OrdersOf(id)
    <3>1. id \in Submitted /\ orders[id] = NewOrder(id)
      BY <1>4, <2>1 DEF Acked, Returns, Waits, EngineInv, Control
    <3> QED BY <2>2, <3>1, NewIsAnOrder
  <2>4. o \in OrderStates /\ SaveOf(id, o) \in Calls
    BY <2>3, EngineTypes, EngineMakesCalls
  <2>5. /\ orders' = [orders EXCEPT ![id] = o] /\ venue' = venue \cup {id}
        /\ Ask(SaveOf(id, o)) /\ task' = [stage |-> "ack_save", order |-> id]
        /\ executed' = executed /\ crashes' = crashes /\ client' = client
    BY <1>4, <2>1, <2>2 DEF Acked, Stage
  <2>6. task' \in Task /\ errors' \in 0 .. MaxErrors
    BY <1>1, <2>3, <2>4, <2>5 DEF Task
  <2> QED BY <2>3, <2>4, <2>5, <2>6
<1>5. CASE FillRecorded \/ OrderSaved
  <2>1. /\ orders' = orders /\ venue' = venue /\ executed' = executed /\ client' = client
        /\ crashes' = crashes
        /\ task' \in {[stage |-> "order", order |-> task.order],
                      [stage |-> "position", order |-> task.order]}
    BY <1>5 DEF FillRecorded, OrderSaved, Stage, memoryVars
  <2>2. errors' \in 0 .. MaxErrors
    BY <1>5 DEF FillRecorded, OrderSaved, Ask
  <2>3. task' \in Task
    BY <2>1 DEF Task
  <2> QED BY <2>1, <2>2, <2>3
<1>6. CASE Ended
  BY <1>6 DEF Ended, Idle, Task, memoryVars
<1>7. CASE Works
  BY <1>7 DEF Works, memoryVars
<1>8. CASE Dies
  <2>1. orders' \in [Submitted -> OrderStates \cup {None}]
    BY <1>8 DEF Dies, Load, memoryVars, StoreTypeOK, Tables
  <2>2. task' \in Task
    BY <1>8 DEF Dies, Idle, Task
  <2> QED BY <1>8, <2>1, <2>2 DEF Dies
<1>9. ASSUME NEW c \in OtherCalls, Anyone(c) PROVE Bounds'
  BY <1>1, <1>9 DEF Anyone, memoryVars
<1>10. CASE UNCHANGED vars
  BY <1>10 DEF vars, memoryVars
<1> QED BY <1>2, <1>3, <1>4, <1>5, <1>6, <1>7, <1>8, <1>9, <1>10 DEF Next

\* A client of its own does not touch the engine's memory.
LEMMA BystanderStep ==
  ASSUME Bystander, client = "anyone", [Next]_vars
  PROVE  Bystander' /\ client' = client
BY DEF Bystander, Next, Submit, FillRefused, FillApplied, Acked, FillRecorded, OrderSaved,
       Ended, Returns, Waits, Works, Dies, Anyone, memoryVars, vars

\* Who uses the store is settled at the start.
LEMMA ClientStays ==
  ASSUME [Next]_vars
  PROVE  client' = client
BY DEF Next, Submit, FillRefused, FillApplied, Acked, FillRecorded, OrderSaved, Ended,
       Works, Dies, Anyone, vars

LEMMA RecordingInitial ==
  ASSUME Init
  PROVE  StoreInv /\ RecInv /\ Follows
<1>1. StoreInv
  BY EmptyTypes DEF Init, StoreInit, StoreInv, StoreTypeOK, CallInv, KeysIn, Empty
<1>2. Bounds
  BY RecordingAssumption DEF Init, Bounds, Idle, Task
<1>3. disk.orders = [id \in OrderIds |-> None] /\ Landing = {} /\ SeenFills = {}
  BY DEF Init, StoreInit, Empty, Landing, SeenFills
<1>4. Control
  BY DEF Init, StoreInit, Control, Idle
<1>5. Rows
  BY <1>3, RecordingAssumption DEF Init, Rows
<1>6. Reported
  BY <1>3 DEF Init, Reported, ExecsOf
<1>7. Counts
  BY <1>3, CountedEmpty DEF Init, Counts
<1>8. Leads /\ Follows
  BY <1>3, CountedEmpty, RecordingAssumption DEF Init, Leads, Follows
<1>9. Bystander
  BY DEF Init, Bystander
<1> QED BY <1>1, <1>2, <1>4, <1>5, <1>6, <1>7, <1>8, <1>9 DEF RecInv, EngineInv

-----------------------------------------------------------------------------
\* The store's invariant and the handlers' hold each other: the store keeps its own as
\* long as the handlers make calls it knows, and these know what a call lands.
LEMMA RecordingStep ==
  ASSUME StoreInv, RecInv, [Next]_vars
  PROVE  /\ StoreInv' /\ RecInv' /\ [StoreNext]_storeVars
         /\ (VenueKeepsToQty /\ (client = "engine" => Follows)
               => (client' = "engine" => Follows'))
<1>1. [StoreNext]_storeVars
  BY HandlersUseTheStore DEF StoreInv
<1>2. StoreInv'
  BY <1>1, CallInvStep, TypesStep, KeysStep DEF StoreInv
<1>3. Bounds'
  BY BoundsStep DEF StoreInv
<1>4. CASE client = "engine"
  BY <1>1, <1>2, <1>3, <1>4, EngineStep, ClientStays DEF RecInv, StoreInv
<1>5. CASE client = "anyone"
  BY <1>1, <1>2, <1>3, <1>5, BystanderStep DEF RecInv
<1> QED BY <1>4, <1>5 DEF RecInv, Bounds

\* The handlers of the engine over the store, statement by statement, with failing
\* calls, crashes and repeated executions: what holds between any two of their steps.
THEOREM RecordingInductive == Spec => [](StoreInv /\ RecInv)
<1>1. Init => StoreInv /\ RecInv
  BY RecordingInitial
<1>2. StoreInv /\ RecInv /\ [Next]_vars => (StoreInv /\ RecInv)'
  BY RecordingStep
<1> QED BY <1>1, <1>2, PTL DEF Spec

\* The engine's steps are steps of the store with clients that make the calls it knows:
\* what is proved of the store holds under the engine (engine.py:85-138, store.py).
THEOREM RecordingUsesStore == Spec => StoreSpec
<1>1. Init => StoreInit
  BY DEF Init
<1>2. StoreInv /\ RecInv /\ [Next]_vars => [StoreNext]_storeVars
  BY RecordingStep
<1> QED BY <1>1, <1>2, RecordingInductive, PTL DEF Spec, StoreSpec

\* No execution, fill id or client order id is recorded twice, and no fill without its
\* order, also under the engine's handlers (store.py:23-51).
THEOREM RecordingKeepsKeys == Spec => []KeysHold
BY RecordingUsesStore, StoreKeepsKeys, PTL

\* A call of the engine's lands as a whole or not at all and is answered accordingly
\* (store.py:3-7).
THEOREM RecordingImplementsAtomic == Spec => ImplementsAtomic
BY RecordingUsesStore, StoreImplementsAtomic, PTL

\* The types: what the engine saves is a row the tables can have, and its handlers are
\* where they can be.
THEOREM RecordingTypeCorrect == Spec => []TypeOK
<1>1. ASSUME StoreInv, RecInv PROVE TypeOK
  <2>1. position \in Int /\ seen \subseteq Execs
    <3>1. CASE client = "engine"
      <4>1. \A f \in executed : f.exec \in Execs
        BY <1>1, RecordingAssumption DEF RecInv, Bounds, FillRow
      <4> QED BY <1>1, <3>1, <4>1 DEF RecInv, EngineInv, Reported, Counts, ExecsOf
    <3>2. CASE client = "anyone"
      BY <1>1, <3>2 DEF RecInv, Bystander
    <3> QED BY <1>1, <3>1, <3>2 DEF RecInv, Bounds
  <2> QED BY <1>1, <2>1 DEF TypeOK, StoreInv, RecInv, Bounds
<1> QED BY <1>1, RecordingInductive, PTL

\* No constraint of SCHEMA ever refuses a statement of the engine's: an order has its
\* row before the venue can fill it, and its key to itself, after failed calls and
\* restarts too (engine.py:86-96, 57-60, store.py:23-48).
THEOREM EngineNeverRefused == Spec => []EngineIsNeverRefused
<1>1. ASSUME StoreInv, RecInv PROVE EngineIsNeverRefused
  BY <1>1, NeverRefused DEF EngineIsNeverRefused, StoreInv, RecInv, EngineInv, Bounds
<1> QED BY <1>1, RecordingInductive, PTL

\* No execution is in the position twice, whatever fails and however often the venue
\* repeats itself; nor in an order, unless calls fail and the process dies
\* (engine.py:128-138, 61-65).
THEOREM CountedOnce == Spec => []ExecutionsCountOnce
<1>1. ASSUME RecInv PROVE ExecutionsCountOnce
  <2>1. CASE client = "engine"
    <3>1. ASSUME NEW id \in Submitted
          PROVE  /\ Counted(OfOrder(SeenFills, id)) <= Counted(OfOrder(executed, id))
                 /\ Counted(OfOrder(SeenFills, id)) \in Nat
                 /\ Counted(OfOrder(executed, id)) \in Nat
      <4>1. executed \in SUBSET Executions /\ SeenFills \in SUBSET executed
        BY <1>1 DEF RecInv, Bounds, SeenFills
      <4>2. PICK all : all = executed
        OBVIOUS
      <4>3. PICK some : some = SeenFills
        OBVIOUS
      <4> QED BY <4>1, <4>2, <4>3, OrdersFills
    <3>2. ASSUME NEW id \in Submitted, orders[id] # None
          PROVE  orders[id].filled \in Nat
      <4>1. orders[id] \in OrdersOf(id)
        BY <1>1, <2>1, <3>2 DEF RecInv, EngineInv, Rows
      <4> QED BY <4>1, OrderFields DEF Shape
    <3>3. position <= Counted(SeenFills)
      BY <1>1, <2>1 DEF RecInv, EngineInv, Counts
    <3>4. errors = 0 \/ crashes = 0 =>
            \A id \in Submitted :
              orders[id] # None => orders[id].filled <= Counted(OfOrder(SeenFills, id))
      BY <1>1, <2>1 DEF RecInv, EngineInv, Counts
    <3>5. errors = 0 \/ crashes = 0 =>
            \A id \in Submitted :
              orders[id] # None => orders[id].filled <= Counted(OfOrder(executed, id))
      BY <3>1, <3>2, <3>4
    <3> QED BY <3>3, <3>5 DEF ExecutionsCountOnce, SeenFills
  <2>2. CASE client = "anyone"
    <3>1. {f \in executed : f.exec \in seen} = {} /\ position = 0
      BY <1>1, <2>2 DEF RecInv, Bystander
    <3>2. \A id \in Submitted : orders[id] = None
      BY <1>1, <2>2 DEF RecInv, Bystander
    <3> QED BY <3>1, <3>2, CountedEmpty DEF ExecutionsCountOnce
  <2> QED BY <1>1, <2>1, <2>2 DEF RecInv, Bounds
<1> QED BY <1>1, RecordingInductive, PTL

\* As long as no call has failed and the venue executes no more than was ordered,
\* crashes leave no trace: between handlers the position is the ledger's and what is
\* seen is in it, or was refused by an order that is NEW again (engine.py:131-136).
THEOREM MemoryFollowsLedger ==
  ASSUME VenueKeepsToQty
  PROVE  Spec => []MemoryIsTheLedgers
<1> DEFINE Inv == StoreInv /\ RecInv /\ (client = "engine" => Follows)
<1>1. Init => Inv
  BY RecordingInitial
<1>2. Inv /\ [Next]_vars => Inv'
  BY RecordingStep
<1>3. ASSUME Inv PROVE MemoryIsTheLedgers
  <2> SUFFICES ASSUME client = "engine", task = Idle, errors = 0
               PROVE  /\ position = Counted(disk.fills)
                      /\ ExecsOf(disk.fills) \subseteq seen
                      /\ \A id \in venue : orders[id].status # "NEW" =>
                           seen \cap ExecsOf(OfOrder(Executions, id))
                             = ExecsOf(OfOrder(disk.fills, id))
    BY DEF MemoryIsTheLedgers
  <2>1. Control /\ Reported /\ Leads /\ Follows /\ executed \subseteq Executions
    BY <1>3 DEF RecInv, EngineInv, Bounds
  <2>2. Landing = disk.fills
    BY <2>1 DEF Control, Idle, Landing
  <2>3. position = Counted(disk.fills)
    BY <2>1, <2>2 DEF Leads
  <2>4. ExecsOf(disk.fills) \subseteq seen
    BY <2>1, <2>2 DEF Reported
  <2>5. ASSUME NEW id \in venue, orders[id].status # "NEW",
               NEW f \in Executions, f.order = id, f.exec \in seen
        PROVE  f \in disk.fills
    <3>1. PICK g \in executed : g.exec = f.exec
      BY <2>1, <2>5 DEF Reported, ExecsOf
    <3>2. g = f
      BY <2>1, <3>1, RecordingAssumption
    <3> QED BY <2>1, <2>2, <2>5, <3>2 DEF Follows, SeenFills
  <2>6. ASSUME NEW id \in venue, orders[id].status # "NEW"
        PROVE  seen \cap ExecsOf(OfOrder(Executions, id)) = ExecsOf(OfOrder(disk.fills, id))
    <3>1. \A f \in OfOrder(disk.fills, id) : f \in OfOrder(Executions, id) /\ f.exec \in seen
      BY <2>1, <2>4, LandingTypes DEF OfOrder, ExecsOf
    <3>2. \A f \in OfOrder(Executions, id) : f.exec \in seen => f \in OfOrder(disk.fills, id)
      BY <2>5, <2>6 DEF OfOrder
    <3> QED BY <3>1, <3>2 DEF ExecsOf
  <2> QED BY <2>3, <2>4, <2>6
<1> QED BY <1>1, <1>2, <1>3, PTL DEF Spec
=============================================================================
