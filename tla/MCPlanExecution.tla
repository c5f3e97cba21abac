---------------------------- MODULE MCPlanExecution ----------------------------
(***************************************************************************)
(* Two plans over one log, with the shapes plan_from_task gives a plan (a  *)
(* goal, a belief, a memory and, for a risky task, a self-model delta) and *)
(* one plan that reaches for a protected section.                          *)
(***************************************************************************)
EXTENDS PlanExecution

goal   == [kind |-> "goal_update", root |-> "goals"]
belief == [kind |-> "entity_update", root |-> "beliefs"]
memory == [kind |-> "entity_update", root |-> "memory"]
self   == [kind |-> "self_update", root |-> "self_model"]
policy == [kind |-> "entity_update", root |-> "policy"]

MCPlans == {<<>>, <<goal, belief, memory>>, <<goal, self, belief, self>>,
            <<policy, goal>>}

MCPacks == {NoPack,
            [denied |-> {"beliefs"}, gated |-> {}],
            [denied |-> {"self_model"}, gated |-> {"goals", "memory"}]}
================================================================================
