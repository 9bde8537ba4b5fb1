-------------------------------- MODULE Marks --------------------------------
(***************************************************************************)
(* app/marks.py for the one source that the service configures: a store is *)
(* a function from the symbols it has a mark of to the age of that mark.   *)
(* A mark stays until the next one; an age past max_age is counted as      *)
(* MaxAge + 1.  Prices are left out.                                       *)
(***************************************************************************)
EXTENDS Integers, Quantities

CONSTANT MaxAge   \* max_mark_age_seconds, in one unit of time

ASSUME MarksAssumption == MaxAge \in Nat

NoMarks == [s \in {} |-> 0]

\* MarkStore.update, for each of the symbols.
Update(marks, symbols) ==
  [s \in DOMAIN marks \cup symbols |-> IF s \in symbols THEN 0 ELSE marks[s]]

\* A unit of time passes.
Aged(marks) == [s \in DOMAIN marks |-> Smaller(marks[s] + 1, MaxAge + 1)]

\* MarkStore.is_stale, and the flag of _resolve_mark.
IsStale(marks, s) == s \notin DOMAIN marks \/ marks[s] > MaxAge
=============================================================================
