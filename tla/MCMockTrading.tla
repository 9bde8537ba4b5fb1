--------------------------- MODULE MCMockTrading ---------------------------
(***************************************************************************)
(* MockSession under two scenarios, chosen at the start:                   *)
(*   sells     one buy and two sells, of which it covers one; no cancels   *)
(*   cancels   a buy, a buy that the venue refuses and a sell; any of them *)
(*             is cancelled at any time                                    *)
(***************************************************************************)
EXTENDS MCMockSession

VARIABLE scenario

KeysIn == [sells |-> {b1, s1, s2}, cancels |-> {b1, b2, s1}]

ScenarioInit == Init /\ scenario \in {"sells", "cancels"}

\* A step of the scenario's callers, or of anyone else.
InScenario ==
  /\ \A k \in Keys \ KeysIn[scenario] : sends'[k] = 0 /\ answer'[k] = "none"
  /\ scenario = "sells" => NoCancels'

ScenarioNext == Next /\ InScenario /\ UNCHANGED scenario

ScenarioSpec == ScenarioInit /\ [][ScenarioNext]_<<vars, scenario>> /\ Fairness
=============================================================================
