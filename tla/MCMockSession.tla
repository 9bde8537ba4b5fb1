--------------------------- MODULE MCMockSession ---------------------------
(***************************************************************************)
(* MockSession on up to three intents: b1 and b2 buy, s1 and s2 sell.      *)
(* Quantities of two and three units are filled in unequal slices and let  *)
(* one buy cover one sell, not two.  There is an order id to spare for a   *)
(* registry that would create a second order for a key.                    *)
(***************************************************************************)
EXTENDS MockSession

CONSTANTS b1, b2, s1, s2

MCSideOf == [k \in Keys |-> IF k \in {b1, b2} THEN "BUY" ELSE "SELL"]
MCQtyOf == [k \in Keys |-> IF k = b1 THEN 3 ELSE 2]
MCOrderIds == 1 .. Cardinality(Keys) + 1
=============================================================================
