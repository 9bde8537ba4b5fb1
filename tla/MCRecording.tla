----------------------------- MODULE MCRecording -----------------------------
(* Recording with one intent of three units for the engine, which gets one   *)
(* order id or another, with three executions or with one; and a small set   *)
(* of calls for any other client: the engine's own, apply_fill, two orders   *)
(* of one key, fills that repeat an id or an execution or have none.         *)
EXTENDS Recording

MCOrderIds == {"o1", "o2", "o3"}
MCClientOf == [id \in MCOrderIds |-> IF id = "o3" THEN None ELSE "k"]
MCSubmitted == {"o1", "o2"}
MCQtyOf == [id \in MCSubmitted |-> 3]

MCFill(id, exec, order) ==
  [id |-> id, exec |-> exec, order |-> order, qty |-> IF order = "o2" THEN 3 ELSE 1]

MCFillIds == {"f1", "f2", "f3", "f4"}
MCExecs == {"e1", "e2", "e3", "e4"}
MCExecutions ==
  {MCFill("f1", "e1", "o1"), MCFill("f2", "e2", "o1"), MCFill("f3", "e3", "o1"),
   MCFill("f4", "e4", "o2")}

MCOrder(status, filled) ==
  [status |-> status, qty |-> 3, filled |-> filled, confirmed |-> FALSE]

MCOrderStates == UNION {OrdersOf(id) : id \in MCSubmitted}

MCApply(f, id) ==
  [op |-> "apply_fill", fill |-> f, order |-> [id |-> id, state |-> MCOrder("FILLED", 3)],
   position |-> 3]

MCOtherCalls ==
  {SaveOf("o1", MCOrder("NEW", 0)), SaveOf("o1", MCOrder("PARTIALLY_FILLED", 1)),
   SaveOf("o2", MCOrder("NEW", 0)), SaveOf("o3", MCOrder("NEW", 0)),
   RecordOf(MCFill("f1", "e1", "o1")), RecordOf(MCFill("f1", "e2", "o2")),
   RecordOf(MCFill("f2", None, "o2")), PositionOf(2),
   MCApply(MCFill("f1", "e1", "o1"), "o1"), MCApply(MCFill("f2", "e1", "o1"), "o1"),
   MCApply(MCFill("f1", None, "o1"), "o1"), MCApply(MCFill("f3", "e3", "o3"), "o3"),
   MCApply(MCFill("f4", "e4", "o2"), "o1")}

MCCalls == EngineCalls \cup MCOtherCalls
=============================================================================
