------------------------------ MODULE Simulation -------------------------------
(***************************************************************************)
(* What-if exploration (simulation, hypothesis_engine): a caller holds a    *)
(* world state, real or imagined, changes it (world_state), imagines that a *)
(* hypothesis holds or that an action has its effects, and explores         *)
(* scenarios: branches of deltas from one state, judged by the delta policy *)
(* and by the conflicts they end in.  Confidences are hundredths.           *)
(*                                                                         *)
(* A statement is what it says about the facts: those it repeats, those it  *)
(* shares most words with, and whether it holds a word of negation.         *)
(***************************************************************************)
EXTENDS DeltaPolicy, Naturals, Sequences, FiniteSets

CONSTANTS
  Entities, Facts,
  HypothesisIds,
  Statements,    \* the statements that hypotheses and deltas make
  Confidences,   \* the confidences that callers give
  Deltas,        \* the deltas that branches are made of
  MaxBranches,   \* bound on the branches of a scenario
  MaxDeltas,     \* bound on the deltas of a branch
  MaxChanges     \* bound on the changes before the last scenario

ASSUME SimulationAssumption ==
  /\ Statements \subseteq [repeats : SUBSET Facts, resembles : SUBSET Facts,
                           negated : BOOLEAN]
  /\ Confidences \subseteq 0..100
  /\ Deltas \subseteq [kind : RevisionTargetKind, root : RefRoot, says : Statements]
  /\ MaxBranches \in Nat /\ MaxDeltas \in Nat /\ MaxChanges \in Nat

VARIABLES
  state,     \* the WorldState that the caller holds
  scenario,  \* the last SimulationScenario
  events,    \* what the log was told of scenarios
  changes    \* the changes so far

simulationVars == <<state, scenario, events, changes>>

\* WorldHypothesis and WorldEntity.
Hypothesis(id, says, about, confidence, status) ==
  [id |-> id, says |-> says, about |-> about, confidence |-> confidence,
   status |-> status]
Entity(id, confidence) == [id |-> id, confidence |-> confidence]

NoScenario == [from |-> <<>>, branches |-> <<>>, best |-> 0]

SimulationInit ==
  /\ state = [entities |-> <<>>, hypotheses |-> <<>>, anchored |-> {},
              simulated |-> FALSE]
  /\ scenario = NoScenario /\ events = <<>> /\ changes = 0

--------------------------------------------------------------------------------
(***************************************************************************)
(* World states.  An id may be there twice: the first counts when it is     *)
(* looked up, all when it is updated.                                       *)
(***************************************************************************)
Has(entries, id) == \E n \in DOMAIN entries : entries[n].id = id
Find(entries, id) ==
  entries[CHOOSE n \in DOMAIN entries :
            entries[n].id = id /\ \A k \in 1..(n - 1) : entries[k].id # id]

\* The places of the active hypotheses.
Active(world) ==
  {n \in DOMAIN world.hypotheses :
     world.hypotheses[n].status \in {"active", "tentative"}}

AddEntity(world, entity) == [world EXCEPT !.entities = Append(@, entity)]
AddHypothesis(world, hypothesis) ==
  [world EXCEPT !.hypotheses = Append(@, hypothesis)]
RemoveEntity(world, id) ==
  LET kept[n \in 0..Len(world.entities)] ==
        IF n = 0 THEN <<>>
        ELSE IF world.entities[n].id = id THEN kept[n - 1]
        ELSE Append(kept[n - 1], world.entities[n])
  IN  [world EXCEPT !.entities = kept[Len(world.entities)]]
AddAnchorFacts(world, facts) == [world EXCEPT !.anchored = @ \cup facts]

UpdateHypothesisStatus(world, id, status, confidence) ==
  [world EXCEPT !.hypotheses =
     [n \in DOMAIN @ |-> IF @[n].id = id
                         THEN [@[n] EXCEPT !.status = status,
                                           !.confidence = confidence]
                         ELSE @[n]]]

\* Of entities, those given.
UpdateEntities(world, ids, confidence) ==
  [world EXCEPT !.entities =
     [n \in DOMAIN @ |-> IF @[n].id \in ids
                         THEN [@[n] EXCEPT !.confidence = confidence] ELSE @[n]]]

--------------------------------------------------------------------------------
(***************************************************************************)
(* Conflicts, as records of what is in conflict.                           *)
(***************************************************************************)
Contradict(g, h) == g.about \cap h.about # {} /\ g.says # h.says

\* Two active hypotheses that contradict each other, the earlier first.
Contradictions(world) ==
  {p \in Active(world) \X Active(world) :
     /\ p[1] < p[2]
     /\ Contradict(world.hypotheses[p[1]], world.hypotheses[p[2]])}

\* Active hypotheses that negate an anchored fact, or are about an entity of
\* which little is known.
Denials(world) ==
  {p \in Active(world) \X world.anchored :
     /\ p[2] \in world.hypotheses[p[1]].says.resembles
     /\ world.hypotheses[p[1]].says.negated}
Doubts(world) ==
  {p \in Active(world) \X Entities :
     /\ p[2] \in world.hypotheses[p[1]].about
     /\ Has(world.entities, p[2])
     /\ Find(world.entities, p[2]).confidence < 20}

\* Defect: what is tentative is not compared.
DetectConflictsActive(world) ==
  LET Compared(p) == world.hypotheses[p[1]].status = "active"
  IN  {p \in Contradictions(world) : Compared(p)}
        \cup {p \in Denials(world) \cup Doubts(world) : Compared(p)}

DetectConflicts(world) ==
  LET Id(n) == world.hypotheses[n].id
  IN  {<<"hypothesis", Id(p[1]), Id(p[2])>> : p \in Contradictions(world)}
        \cup {<<"anchor", Id(p[1]), p[2]>> : p \in Denials(world)}
        \cup {<<"entity", Id(p[1]), p[2]>> : p \in Doubts(world)}

\* HypothesisEngine.generate_from_conflict: one candidate for every two active
\* hypotheses in conflict, about what they share.
GenerateFromConflict(world) ==
  {[of |-> <<world.hypotheses[p[1]].id, world.hypotheses[p[2]].id>>,
    about |-> world.hypotheses[p[1]].about \cap world.hypotheses[p[2]].about] :
     p \in Contradictions(world)}

--------------------------------------------------------------------------------
(***************************************************************************)
(* Imagining.                                                              *)
(***************************************************************************)
MarkSimulated(world) == [world EXCEPT !.simulated = TRUE]

\* A hypothesis that repeats an anchored fact is taken to contradict it.
ImaginedConfidence(world, hypothesis) ==
  IF hypothesis.says.repeats \cap world.anchored # {} THEN 10
  ELSE hypothesis.confidence

SimulateHypothesis(world, hypothesis) ==
  LET confidence == ImaginedConfidence(world, hypothesis)
      believed ==
        IF Has(world.hypotheses, hypothesis.id)
        THEN UpdateHypothesisStatus(world, hypothesis.id, "active", confidence)
        ELSE AddHypothesis(world, [hypothesis EXCEPT !.status = "active",
                                                     !.confidence = confidence])
  IN  MarkSimulated(UpdateEntities(believed, hypothesis.about, confidence))

\* The expected changes of an action, as hypotheses about nothing.
SimulateAction(world, expected) ==
  MarkSimulated([world EXCEPT !.hypotheses =
    @ \o [n \in DOMAIN expected |->
            Hypothesis("sim_action", expected[n], {}, 50, "tentative")]])

Apply(world, delta) ==
  CASE delta.kind \in {"hypothesis_add", "hypothesis_update"} ->
         AddHypothesis(world, Hypothesis("sim", delta.says, {}, 50, "tentative"))
    [] delta.kind \in {"entity_add", "entity_update"} ->
         AddEntity(world, Entity("sim", 50))
    [] OTHER -> world

Factor(kind) ==
  CASE kind \in {"hypothesis_add", "hypothesis_update"} -> 80
    [] kind \in {"entity_add", "entity_update"} -> 90
    [] kind = "goal_update" -> 95
    [] kind = "self_update" -> 70
    [] OTHER -> 85

\* What is refused blocks a branch, what must be approved does not.
Blocked(delta) == EvaluateDeltaPolicy(delta) = Refuse

SimulatedState(world, deltas) ==
  LET after[n \in 0..Len(deltas)] ==
        IF n = 0 THEN world ELSE Apply(after[n - 1], deltas[n])
  IN  MarkSimulated(after[Len(deltas)])

\* In hundredths to the power of MaxDeltas.
TotalConfidence(deltas) ==
  LET product[n \in 0..MaxDeltas] ==
        IF n = 0 THEN 1
        ELSE product[n - 1] * (IF n <= Len(deltas) THEN Factor(deltas[n].kind) ELSE 100)
  IN  product[MaxDeltas]

SimulateBranch(world, deltas, check_policy) ==
  [deltas |-> deltas,
   conflicts |-> DetectConflicts(SimulatedState(world, deltas)),
   policy_allowed |-> check_policy =>
                        \A n \in DOMAIN deltas : ~Blocked(deltas[n]),
   confidence |-> TotalConfidence(deltas)]

IsViable(branch) ==
  branch.policy_allowed /\ branch.conflicts = {} /\ branch.confidence > 0

\* Defect: the best of all branches, viable or not.
BestBranchOfAll(branches) ==
  IF branches = <<>> THEN 0
  ELSE CHOOSE n \in DOMAIN branches : \A k \in DOMAIN branches :
         branches[k].confidence <= branches[n].confidence

\* The first of the viable branches with the highest confidence.
BestBranch(branches) ==
  LET viable == {n \in DOMAIN branches : IsViable(branches[n])}
      best == {n \in viable : \A k \in viable :
                 branches[k].confidence <= branches[n].confidence}
  IN  IF viable = {} THEN 0 ELSE CHOOSE n \in best : \A k \in best : n <= k

SimulateScenario(branch_deltas, check_policy) ==
  LET branches == [n \in DOMAIN branch_deltas |->
                     SimulateBranch(state, branch_deltas[n], check_policy)]
      viable == {n \in DOMAIN branches : IsViable(branches[n])}
  IN  /\ scenario' = [from |-> <<state>>, branches |-> branches,
                      best |-> BestBranch(branches)]
      /\ events' = events \o
           <<[type |-> "simulation.scenario.started", branches |-> Len(branches)],
             [type |-> "simulation.scenario.completed", branches |-> Len(branches),
              viable |-> Cardinality(viable), best |-> BestBranch(branches),
              all_blocked |-> branches # <<>> /\ viable = {}]>>
      /\ UNCHANGED <<state, changes>>

Change(world) ==
  /\ changes < MaxChanges /\ events = <<>>
  /\ state' = world
  /\ changes' = changes + 1
  /\ UNCHANGED <<scenario, events>>

Hypotheses ==
  {Hypothesis(id, says, about, confidence, "tentative") :
     id \in HypothesisIds, says \in Statements, about \in SUBSET Entities,
     confidence \in Confidences}

BranchDeltas ==
  UNION {[1..n -> UNION {[1..k -> Deltas] : k \in 0..MaxDeltas}] : n \in 0..MaxBranches}

SimulationNext ==
  \/ \E e \in Entities, confidence \in Confidences :
       \/ Change(AddEntity(state, Entity(e, confidence)))
       \/ Change(UpdateEntities(state, {e}, confidence))
       \/ Change(RemoveEntity(state, e))
  \/ \E h \in Hypotheses :
       \/ Change(AddHypothesis(state, h))
       \/ Change(SimulateHypothesis(state, h))
  \/ \E id \in HypothesisIds, status \in {"active", "rejected"},
        confidence \in Confidences :
       Change(UpdateHypothesisStatus(state, id, status, confidence))
  \/ \E facts \in SUBSET Facts : Change(AddAnchorFacts(state, facts))
  \/ \E says \in Statements : Change(SimulateAction(state, <<says>>))
  \/ /\ events = <<>>
     /\ \E branch_deltas \in BranchDeltas, check_policy \in BOOLEAN :
          SimulateScenario(branch_deltas, check_policy)

--------------------------------------------------------------------------------
(***************************************************************************)
(* Properties.                                                             *)
(***************************************************************************)
\* What simulate_scenario recommends: the best branch is one that the policy
\* refuses nothing of and that ends without conflict, no such branch is more
\* credible, and there is none to recommend exactly when all are blocked; the
\* log says the same.
ScenarioHonest ==
  scenario # NoScenario =>
    LET sound == {n \in DOMAIN scenario.branches :
                    /\ scenario.branches[n].policy_allowed
                    /\ scenario.branches[n].conflicts = {}}
        told == events[Len(events)]
    IN  /\ scenario.best = 0 <=> sound = {}
        /\ scenario.best # 0 =>
             /\ scenario.best \in sound
             /\ \A n \in sound : scenario.branches[n].confidence
                                 <= scenario.branches[scenario.best].confidence
        /\ told.best = scenario.best /\ told.viable = Cardinality(sound)
        /\ told.all_blocked <=> scenario.best = 0 /\ scenario.branches # <<>>

\* Conflicts do not go away by imagining.  Where the hypothesis engine sees a
\* conflict to be resolved, every branch of a scenario is blocked: simulate_branch
\* adds what its deltas say and takes nothing back, so that a branch of deltas
\* that would resolve the conflict is blocked as well.  And who imagines a
\* hypothesis that repeats an anchored fact about known entities, in conflict
\* with nothing, ends in a conflict: simulate_hypothesis takes the fact for an
\* objection and the entities down with the hypothesis.
ConflictsStay ==
  /\ (scenario # NoScenario /\ GenerateFromConflict(scenario.from[1]) # {}) =>
       scenario.best = 0
  /\ \A h \in Hypotheses :
       (/\ ~Has(state.hypotheses, h.id)
        /\ h.says.repeats \cap state.anchored # {}
        /\ \E e \in h.about : Has(state.entities, e)) =>
         DetectConflicts(SimulateHypothesis(state, h)) # {}
================================================================================
