----------------------------- MODULE AtomicStore -----------------------------
(***************************************************************************)
(* What app/store.py promises about its writing operations: a call lands   *)
(* as a whole or not at all, its answer tells which, and an execution that *)
(* is recorded already is not recorded again ("no half-applied fill",      *)
(* "stay idempotent").  When a call is under way is no part of it.         *)
(***************************************************************************)
EXTENDS Tables

VARIABLES tables, answer

Init == tables = Empty /\ answer = "none"

\* The call landed.
Lands(c) ==
  /\ ~Duplicate(c, tables)
  /\ tables' = Partly(c, tables, Writes[c.op])
  /\ answer' = "done"

\* Its execution was there already.
Ignored(c) == Duplicate(c, tables) /\ answer' = "duplicate" /\ UNCHANGED tables

\* It raised.
Raises == answer' = "raised" /\ UNCHANGED tables

\* The next call is made, or the process starts anew.
Forget == answer' = "none" /\ UNCHANGED tables

Next == (\E c \in Calls : Lands(c) \/ Ignored(c)) \/ Raises \/ Forget

Spec == Init /\ [][Next]_<<tables, answer>>
=============================================================================
