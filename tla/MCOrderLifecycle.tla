-------------------------- MODULE MCOrderLifecycle --------------------------
(* OrderLifecycle on orders of up to three units: long enough for an order  *)
(* that is filled in several parts, cancelled half way and overfilled.      *)
EXTENDS OrderLifecycle

MCSizes == 1 .. 3
=============================================================================
