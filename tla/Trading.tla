------------------------------- MODULE Trading -------------------------------
(***************************************************************************)
(* What the engine promises of trading whatever its venue, its callers and *)
(* its crashes do (the docstrings of engine.py, idempotency.py, orders.py  *)
(* and store.py): an intent is sent once, for one order; an execution of   *)
(* an order is entered in the ledger once and moves the position with it;  *)
(* the broker's final word on an order closes it, with what it has filled. *)
(* What is on the way, what raises and what a restart loses is no part of  *)
(* it.                                                                     *)
(***************************************************************************)
EXTENDS Intents

VARIABLES
  sends,      \* how often each intent has been sent
  placed,     \* which order stands for which intent
  ledger,     \* the executions entered
  position,   \* the position held
  settled     \* the orders closed, with what each has filled

tradingVars == <<sends, placed, ledger, position, settled>>

Init ==
  /\ sends = [k \in Keys |-> 0]
  /\ placed = {} /\ ledger = {} /\ position = 0 /\ settled = {}

\* Intent k is sent for the first time, as order id.
Dispatch(k, id) ==
  /\ sends[k] = 0 /\ ~ \E p \in placed : p.key = k \/ p.order = id
  /\ sends' = [sends EXCEPT ![k] = 1]
  /\ placed' = placed \cup {[key |-> k, order |-> id]}
  /\ UNCHANGED <<ledger, position, settled>>

\* A new execution of a placed order that is not closed.
Book(f) ==
  /\ \E p \in placed : p.order = f.order
  /\ \A s \in settled : s.order # f.order
  /\ \A g \in ledger : g.exec # f.exec
  /\ ledger' = ledger \cup {f}
  /\ position' = position + Signed(f.side, f.qty)
  /\ UNCHANGED <<sends, placed, settled>>

\* The order of p is closed, with n units of its quantity filled.
Settle(p, n) ==
  /\ \A s \in settled : s.order # p.order
  /\ settled' = settled \cup {[order |-> p.order, filled |-> n]}
  /\ UNCHANGED <<sends, placed, ledger, position>>

Next ==
  \/ \E k \in Keys, id \in OrderIds : Dispatch(k, id)
  \/ \E f \in ledger' : Book(f)
  \/ \E p \in placed : \E n \in 0 .. QtyOf[p.key] : Settle(p, n)

Spec == Init /\ [][Next]_tradingVars
=============================================================================
