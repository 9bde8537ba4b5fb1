-------------------------- MODULE MCRemoteSession --------------------------
(* RemoteSession on one or two intents: b1 buys two units, s1 sells one.    *)
EXTENDS RemoteSession

CONSTANTS b1, s1

MCSideOf == [k \in Keys |-> IF k = b1 THEN "BUY" ELSE "SELL"]
MCQtyOf == [k \in Keys |-> IF k = b1 THEN 2 ELSE 1]
MCOrderIds == 1 .. Cardinality(Keys) + 1
=============================================================================
