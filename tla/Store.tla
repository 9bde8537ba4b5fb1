-------------------------------- MODULE Store --------------------------------
(***************************************************************************)
(* app/store.py, statement by statement.  Every operation is BEGIN         *)
(* IMMEDIATE, its statements on a working copy of the tables, and COMMIT;  *)
(* whatever raises in between is followed by ROLLBACK.  The process may    *)
(* die at any point: what is not committed is then gone.  There is one     *)
(* connection, used by one thread; that another process holds the lock     *)
(* makes BEGIN fail.  The ROLLBACKs succeed.                               *)
(***************************************************************************)
EXTENDS Tables

VARIABLES
  disk,    \* the committed tables
  work,    \* the tables as the transaction sees them
  call,    \* the call under way, None when there is none
  todo,    \* the statements it has not executed
  answer   \* how the last call ended: done, duplicate, raised; none before that

storeVars == <<disk, work, call, todo, answer>>

Statements == {"check", "fill", "order", "position", "log"}

Rank == [check |-> 1, fill |-> 2, order |-> 3, position |-> 4, log |-> 5]

StoreTypeOK ==
  /\ disk \in Tables /\ work \in Tables
  /\ call \in Call \cup {None}
  /\ todo \subseteq Statements
  /\ answer \in {"none", "done", "duplicate", "raised"}

StoreInit ==
  /\ disk = Empty /\ work = Empty
  /\ call = None /\ todo = {} /\ answer = "none"

\* The statements of an operation; the look-up of the execution among them.
StatementsOf(c) ==
  Writes[c.op] \cup (IF c.fill # None /\ c.fill.exec # None THEN {"check"} ELSE {})

\* They come in one order in all the operations: a fill is inserted first.
Turn(s) == s \in todo /\ \A u \in todo : Rank[s] <= Rank[u]

\* Mutant of Violates: foreign keys are off, as they are by default.
ViolatesNoForeignKey(s, c, t) ==
  \/ s = "fill" /\ \E f \in t.fills :
       f.id = c.fill.id \/ (f.exec = c.fill.exec /\ c.fill.exec # None)
  \/ s = "order" /\ t.orders[c.order.id] = None /\ ClientOf[c.order.id] # None
       /\ \E id \in OrderIds : t.orders[id] # None /\ ClientOf[id] = ClientOf[c.order.id]

\* A statement that the constraints of SCHEMA refuse: a fill without its order,
\* a taken fill id, execution or client order id.
Violates(s, c, t) ==
  \/ /\ s = "fill"
     /\ \/ t.orders[c.fill.order] = None
        \/ \E f \in t.fills : f.id = c.fill.id
                              \/ (f.exec = c.fill.exec /\ c.fill.exec # None)
  \/ /\ s = "order" /\ t.orders[c.order.id] = None /\ ClientOf[c.order.id] # None
     /\ \E id \in OrderIds : t.orders[id] # None /\ ClientOf[id] = ClientOf[c.order.id]

Ends(how) == call' = None /\ todo' = {} /\ answer' = how

\* Mutant of RollBack: what the statements have written stays.
RollBackNothing(how) == disk' = work /\ work' = work /\ Ends(how)

RollBack(how) == work' = disk /\ UNCHANGED disk /\ Ends(how)

-----------------------------------------------------------------------------
Begin(c) ==
  /\ call = None
  /\ call' = c /\ todo' = StatementsOf(c) /\ answer' = "none"
  /\ UNCHANGED <<disk, work>>

\* The database is locked: apply_fill's own ROLLBACK then fails, which comes to
\* the same for the caller.
BeginFails(c) == call = None /\ RollBack("raised")

\* The look-up of the execution.
CheckSeen == call # None /\ Turn("check") /\ Duplicate(call, work) /\ RollBack("duplicate")

CheckNew ==
  /\ call # None /\ Turn("check") /\ ~Duplicate(call, work)
  /\ todo' = todo \ {"check"}
  /\ UNCHANGED <<disk, work, call, answer>>

Execute(s) ==
  /\ call # None /\ s # "check" /\ Turn(s) /\ ~Violates(s, call, work)
  /\ work' = Partly(call, work, {s})
  /\ todo' = todo \ {s}
  /\ UNCHANGED <<disk, call, answer>>

Refuse(s) == call # None /\ Turn(s) /\ Violates(s, call, work) /\ RollBack("raised")

\* Any statement, the COMMIT too, may fail: a full disk, an I/O error.
Fail == call # None /\ RollBack("raised")

Commit ==
  /\ call # None /\ todo = {}
  /\ disk' = work /\ Ends("done")
  /\ UNCHANGED work

StoreSteps ==
  CheckSeen \/ CheckNew \/ Commit \/ \E s \in Statements : Execute(s) \/ Refuse(s)

\* The process dies: a transaction that was not committed is gone.
StoreCrash == RollBack("none")

\* The store with clients that make any of the calls.
StoreNext ==
  \/ \E c \in Calls : Begin(c) \/ BeginFails(c)
  \/ StoreSteps \/ Fail \/ StoreCrash

StoreSpec == StoreInit /\ [][StoreNext]_storeVars

-----------------------------------------------------------------------------
Atomic == INSTANCE AtomicStore WITH tables <- disk

\* However its statements are refused, fail or are cut off by a crash, a call
\* lands as a whole or not at all, its entry in trade_history included, and its
\* answer says which (store.py:3-7, 125-131).
ImplementsAtomic == Atomic!Spec

\* No execution, fill id or client order id is there twice, and every fill has
\* its order.
KeysIn(t) ==
  /\ \A f \in t.fills : t.orders[f.order] # None
  /\ \A f, g \in t.fills :
       f # g => f.id # g.id /\ (f.exec # g.exec \/ f.exec = None)
  /\ \A id1, id2 \in OrderIds :
       t.orders[id1] # None /\ t.orders[id2] # None /\ id1 # id2
         => ClientOf[id1] # ClientOf[id2] \/ ClientOf[id1] = None

\* Every recorded fill belongs to a recorded order, which apply_fill does not save
\* first, and no execution, fill id or client order id is recorded twice, whoever
\* calls and whatever fails (store.py:23-51, 143-148; PRAGMA foreign_keys).
KeysHold == KeysIn(disk)
=============================================================================
