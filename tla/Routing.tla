-------------------------------- MODULE Routing --------------------------------
(***************************************************************************)
(* The router consulted over and over while the signals of a task change,  *)
(* as evidence is gathered, precedents are found and runs succeed or fail. *)
(***************************************************************************)
EXTENDS UncertaintyRouter

CONSTANTS
  Levels,   \* the values the percentages take, around the thresholds
  Configs   \* the configurations considered

ASSUME RoutingAssumption ==
  /\ Levels \subseteq Percent
  /\ Configs \subseteq RouterConfig

VARIABLES signals, config

routingVars == <<signals, config>>

RoutingInit ==
  /\ signals \in [evidence : Levels, precedent : Levels, risk : RiskLevel,
                  success : Levels, confidence : Levels]
  /\ config \in Configs

\* One signal is measured anew.
Remeasure ==
  /\ \/ \E x \in Levels : signals' = [signals EXCEPT !.evidence = x]
     \/ \E x \in Levels : signals' = [signals EXCEPT !.precedent = x]
     \/ \E r \in RiskLevel : signals' = [signals EXCEPT !.risk = r]
     \/ \E x \in Levels : signals' = [signals EXCEPT !.success = x]
     \/ \E x \in Levels : signals' = [signals EXCEPT !.confidence = x]
  /\ UNCHANGED config

RoutingSpec == RoutingInit /\ [][Remeasure]_routingVars

--------------------------------------------------------------------------------
(***************************************************************************)
(* Good news never costs a task its automatic execution: when a signal     *)
(* improves and the others stay, what was executed automatically still is  *)
(* (UncertaintyRouter.route, for every configuration with ordered risk     *)
(* scores, even one whose thresholds are in the wrong order).              *)
(***************************************************************************)
ImprovementKeepsAuto == [][RouteMonotone(signals', signals, config)]_routingVars

(***************************************************************************)
(* Two poor records block automatic execution: whatever the other signals, *)
(* a task with both a poor history and low self-confidence is not executed *)
(* automatically, the weights leave it at 70 percent at most.              *)
(***************************************************************************)
TwoPoorSignalsBlockAuto ==
  /\ config.combined > 70
  /\ signals.success < config.success_review
  /\ signals.success < config.success_auto
  /\ signals.confidence < config.confidence_review
  /\ signals.confidence < config.confidence_auto
  => Route(signals, config) # "auto_execute"

================================================================================
