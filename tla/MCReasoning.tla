----------------------------- MODULE MCReasoning ------------------------------
(***************************************************************************)
(* Three nodes and three edges, of two steps; one entity and one fact, a    *)
(* statement that repeats the fact, one that denies it and one about        *)
(* something else, and a delta of every kind the policy or the branch       *)
(* treats in its own way.                                                   *)
(***************************************************************************)
EXTENDS Reasoning

MCRepeats == [repeats |-> {"fact"}, resembles |-> {"fact"}, negated |-> FALSE]
MCDenies == [repeats |-> {}, resembles |-> {"fact"}, negated |-> TRUE]
MCOther == [repeats |-> {}, resembles |-> {}, negated |-> FALSE]
MCStatements == {MCRepeats, MCDenies, MCOther}

MCDelta(kind, root, says) == [kind |-> kind, root |-> root, says |-> says]
MCDeltas ==
  {MCDelta("hypothesis_add", "beliefs", MCDenies),
   MCDelta("entity_update", "policy", MCOther),
   MCDelta("goal_update", "goals", MCOther),
   MCDelta("self_update", "self_model", MCOther),
   MCDelta("hypothesis_remove", "beliefs", MCOther)}

\* A task that looks something up if it can; a plan that is one and a plan with
\* a patch that is not.
MCModelTasks == {[kind |-> "analysis", risk |-> "low", docs |-> TRUE, observe |-> TRUE]}

MCPatch(section, key, valid) == [section |-> section, key |-> key, valid |-> valid]
MCModelPlans ==
  {[patches |-> <<MCPatch("policy", "any", TRUE)>>, calls |-> <<TRUE, FALSE>>],
   [patches |-> <<MCPatch("beliefs", "anchored_facts", TRUE),
                  MCPatch("goals", "any", FALSE)>>,
    calls |-> <<>>]}
================================================================================
