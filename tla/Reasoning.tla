------------------------------- MODULE Reasoning -------------------------------
(***************************************************************************)
(* What a caller may reason with: evidence graphs, simulations and a model  *)
(* that is asked for steps and plans.  They share no state, so a session    *)
(* that uses one of them is all there is to see.                            *)
(***************************************************************************)
EXTENDS Evidence, Simulation, ModelPlanning

reasoningVars == <<evidenceVars, simulationVars, modelVars>>

ReasoningInit == EvidenceInit /\ SimulationInit /\ ModelInit

NoGraph == made = 0
NoSimulation == changes = 0 /\ events = <<>>
NoModel == consulted = <<>>

ReasoningNext ==
  \/ NoSimulation /\ NoModel /\ EvidenceNext /\ UNCHANGED <<simulationVars, modelVars>>
  \/ NoGraph /\ NoModel /\ SimulationNext /\ UNCHANGED <<evidenceVars, modelVars>>
  \/ NoGraph /\ NoSimulation /\ ModelNext /\ UNCHANGED <<evidenceVars, simulationVars>>

ReasoningSpec == ReasoningInit /\ [][ReasoningNext]_reasoningVars
================================================================================
