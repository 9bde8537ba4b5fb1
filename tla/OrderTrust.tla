----------------------------- MODULE OrderTrust -----------------------------
(***************************************************************************)
(* What app/orders.py promises about the end of one order, without saying  *)
(* how (the module docstring, "separate LOCAL intent from BROKER-CONFIRMED *)
(* truth").  An order is                                                   *)
(*   "open"     it may still trade;                                        *)
(*   "assumed"  it looks ended from here, the broker has not said so; a    *)
(*              late fill or a broker that disagrees may open it again;    *)
(*   "trusted"  the broker has reported its end.                           *)
(* An order whose end is trusted never opens again, and filled, the        *)
(* quantity executed on its behalf, no longer moves.                       *)
(***************************************************************************)
EXTENDS Naturals

VARIABLES phase, filled

trustVars == <<phase, filled>>

Init == phase = "open" /\ filled = 0

\* An execution, which may complete an open order or re-open an assumed end.
Execute == /\ phase # "trusted"
           /\ phase' \in {"open", "assumed"}
           /\ filled' \in Nat
           /\ filled' > filled

\* A local event makes the order look ended.
Assume == phase = "open" /\ phase' = "assumed" /\ UNCHANGED filled

\* The broker says that the order is still open.
Disagree == phase = "assumed" /\ phase' = "open" /\ UNCHANGED filled

\* The broker reports the end.
Confirm == phase # "trusted" /\ phase' = "trusted" /\ UNCHANGED filled

Next == Execute \/ Assume \/ Disagree \/ Confirm

Spec == Init /\ [][Next]_trustVars
=============================================================================
