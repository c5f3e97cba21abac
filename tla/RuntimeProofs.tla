----------------------------- MODULE RuntimeProofs -----------------------------
(***************************************************************************)
(* The runtime and two of its parts.  First the router, which is monotone  *)
(* for every configuration whose risk scores are ordered and for all       *)
(* signals; then plans on their own, for every set of plans, packs and     *)
(* gates; then the runtime over one log, for all setups, plans, tasks a    *)
(* provider may answer with, verdicts and any number of runs.              *)
(***************************************************************************)
EXTENDS Runtime, Routing, EventLogProofs, SequenceTheorems, FiniteSetTheorems

--------------------------------------------------------------------------------
(***************************************************************************)
(* The router is monotone.                                                 *)
(***************************************************************************)

\* A graded score is one of three, and grows with the value it grades.
LEMMA GradedScore ==
  ASSUME NEW v \in Percent, NEW auto \in Percent, NEW review \in Percent
  PROVE  Graded(v, auto, review) \in {0, 50, 100}
BY DEF Graded

\* Below both thresholds a value scores nothing.
LEMMA GradedBelow ==
  ASSUME NEW v \in Percent, NEW auto \in Percent, NEW review \in Percent,
         v < auto, v < review
  PROVE  Graded(v, auto, review) = 0
BY DEF Graded, Percent

\* A greater value never scores less.
LEMMA GradedGrows ==
  ASSUME NEW v \in Percent, NEW w \in Percent, w >= v,
         NEW auto \in Percent, NEW review \in Percent
  PROVE  Graded(w, auto, review) >= Graded(v, auto, review)
BY DEF Graded, Percent

\* The same of the score of precedents, which never reaches zero.
LEMMA PrecedentScoreGrows ==
  ASSUME NEW v \in Percent, NEW w \in Percent, w >= v, NEW auto \in Percent
  PROVE  /\ PrecedentScore(v, auto) \in {30, 50, 100}
         /\ PrecedentScore(w, auto) \in {30, 50, 100}
         /\ PrecedentScore(w, auto) >= PrecedentScore(v, auto)
BY DEF PrecedentScore, Percent

\* Combined confidence grows with every signal.
LEMMA CombinedGrows ==
  ASSUME NEW s \in RoutingSignals, NEW t \in RoutingSignals,
         NEW config0 \in RouterConfig,
         RiskScoresOrdered(config0), AtLeastAsGood(s, t)
  PROVE  /\ CombinedConfidence(s, config0) \in Int
         /\ CombinedConfidence(t, config0) \in Int
         /\ CombinedConfidence(s, config0) >= CombinedConfidence(t, config0)
<1> DEFINE c == config0
           es == Graded(s.evidence, c.evidence_auto, c.evidence_review)
           et == Graded(t.evidence, c.evidence_auto, c.evidence_review)
           ps == PrecedentScore(s.precedent, c.precedent_auto)
           pt == PrecedentScore(t.precedent, c.precedent_auto)
           rs == c.risk_scores[s.risk]
           rt == c.risk_scores[t.risk]
           us == Graded(s.success, c.success_auto, c.success_review)
           ut == Graded(t.success, c.success_auto, c.success_review)
           fs == Graded(s.confidence, c.confidence_auto, c.confidence_review)
           ft == Graded(t.confidence, c.confidence_auto, c.confidence_review)
<1>1. es \in Int /\ et \in Int /\ es >= et
  BY GradedScore, GradedGrows DEF RoutingSignals, RouterConfig, AtLeastAsGood
<1>2. ps \in Int /\ pt \in Int /\ ps >= pt
  BY PrecedentScoreGrows DEF RoutingSignals, RouterConfig, AtLeastAsGood
<1>3. rs \in Int /\ rt \in Int /\ rs >= rt
  BY DEF RoutingSignals, RouterConfig, AtLeastAsGood, RiskScoresOrdered, Percent
<1>4. us \in Int /\ ut \in Int /\ us >= ut
  BY GradedScore, GradedGrows DEF RoutingSignals, RouterConfig, AtLeastAsGood
<1>5. fs \in Int /\ ft \in Int /\ fs >= ft
  BY GradedScore, GradedGrows DEF RoutingSignals, RouterConfig, AtLeastAsGood
<1>6. /\ CombinedConfidence(s, c) = 25 * es + 15 * ps + 30 * rs + 15 * us + 15 * fs
      /\ CombinedConfidence(t, c) = 25 * et + 15 * pt + 30 * rt + 15 * ut + 15 * ft
  BY DEF CombinedConfidence
<1> HIDE DEF es, et, ps, pt, rs, rt, us, ut, fs, ft
<1> QED
  BY <1>1, <1>2, <1>3, <1>4, <1>5, <1>6

(***************************************************************************)
(* Better signals keep automatic execution, for every configuration with   *)
(* ordered risk scores (UncertaintyRouter.route).                          *)
(***************************************************************************)
THEOREM RouterIsMonotone ==
  ASSUME NEW s \in RoutingSignals, NEW t \in RoutingSignals,
         NEW config0 \in RouterConfig, RiskScoresOrdered(config0)
  PROVE  RouteMonotone(s, t, config0)
<1> SUFFICES ASSUME AtLeastAsGood(s, t), Route(t, config0) = "auto_execute"
             PROVE  Route(s, config0) = "auto_execute"
  BY DEF RouteMonotone
<1>1. /\ t.risk \notin {"critical", "high"}
      /\ ~(t.evidence < config0.evidence_review)
      /\ CombinedConfidence(t, config0) >= 100 * config0.combined
  BY DEF Route
<1>2. s.risk \notin {"critical", "high"}
  BY <1>1 DEF AtLeastAsGood, RiskRank, RoutingSignals, RiskLevel
<1>3. ~(s.evidence < config0.evidence_review)
  BY <1>1 DEF AtLeastAsGood, RoutingSignals, RouterConfig, Percent
<1>4. CombinedConfidence(s, config0) >= 100 * config0.combined
  <2>1. 100 * config0.combined \in Int
    BY DEF RouterConfig, Percent
  <2> QED
    BY <1>1, <2>1, CombinedGrows
<1> QED
  BY <1>2, <1>3, <1>4 DEF Route

\* The signals stay signals, and the configuration stays the one it was.
LEMMA RoutingTyped ==
  RoutingSpec => [](signals \in RoutingSignals /\ config \in Configs)
<1> DEFINE Typed == signals \in RoutingSignals /\ config \in Configs
<1>1. RoutingInit => Typed
  BY RoutingAssumption DEF RoutingInit, RoutingSignals
<1>2. Typed /\ [Remeasure]_routingVars => Typed'
  <2> SUFFICES ASSUME Typed, Remeasure PROVE Typed'
    BY DEF routingVars
  <2> QED
    BY RoutingAssumption DEF Remeasure, RoutingSignals
<1> QED
  BY <1>1, <1>2, PTL DEF RoutingSpec

(***************************************************************************)
(* ImprovementKeepsAuto for all levels and configurations with ordered     *)
(* risk scores.                                                            *)
(***************************************************************************)
THEOREM ImprovementsKeepAuto ==
  ASSUME \A c \in Configs : RiskScoresOrdered(c)
  PROVE  RoutingSpec => ImprovementKeepsAuto
<1>1. /\ signals \in RoutingSignals /\ config \in Configs
      /\ (signals \in RoutingSignals)'
      => RouteMonotone(signals', signals, config)
  BY RouterIsMonotone, RoutingAssumption
<1>2. /\ signals \in RoutingSignals /\ config \in Configs
      /\ (signals \in RoutingSignals /\ config \in Configs)'
      /\ [Remeasure]_routingVars
      => [RouteMonotone(signals', signals, config)]_routingVars
  BY <1>1
<1> QED
  BY <1>2, RoutingTyped, PTL DEF RoutingSpec, ImprovementKeepsAuto

(***************************************************************************)
(* TwoPoorSignalsBlockAuto for all levels and configurations.              *)
(***************************************************************************)
THEOREM TwoPoorSignalsBlock == RoutingSpec => []TwoPoorSignalsBlockAuto
<1>1. signals \in RoutingSignals /\ config \in Configs => TwoPoorSignalsBlockAuto
  <2> SUFFICES ASSUME signals \in RoutingSignals, config \in Configs,
                      config.combined > 70,
                      signals.success < config.success_review,
                      signals.success < config.success_auto,
                      signals.confidence < config.confidence_review,
                      signals.confidence < config.confidence_auto
               PROVE  ~(CombinedConfidence(signals, config) >= 100 * config.combined)
    BY DEF TwoPoorSignalsBlockAuto, Route
  <2>1. config \in RouterConfig
    BY RoutingAssumption
  <2> DEFINE e == Graded(signals.evidence, config.evidence_auto, config.evidence_review)
             p == PrecedentScore(signals.precedent, config.precedent_auto)
             r == config.risk_scores[signals.risk]
             k == config.combined
  <2>2. e \in {0, 50, 100}
    BY <2>1, GradedScore DEF RoutingSignals, RouterConfig
  <2>3. p \in {30, 50, 100}
    BY DEF PrecedentScore
  <2>4. r \in Percent /\ k \in Percent /\ k > 70
    BY <2>1 DEF RouterConfig, RoutingSignals
  <2>5. /\ Graded(signals.success, config.success_auto, config.success_review) = 0
        /\ Graded(signals.confidence, config.confidence_auto,
                  config.confidence_review) = 0
    <3>1. /\ signals.success \in Percent /\ signals.confidence \in Percent
          /\ config.success_auto \in Percent /\ config.success_review \in Percent
          /\ config.confidence_auto \in Percent
          /\ config.confidence_review \in Percent
      BY <2>1 DEF RouterConfig, RoutingSignals
    <3>2. Graded(signals.success, config.success_auto, config.success_review) = 0
      BY <3>1, GradedBelow
    <3> QED
      BY <3>1, <3>2, GradedBelow
  <2>6. CombinedConfidence(signals, config) = 25 * e + 15 * p + 30 * r + 15 * 0 + 15 * 0
    BY <2>5 DEF CombinedConfidence
  <2> HIDE DEF e, p, r, k
  <2>7. ~(25 * e + 15 * p + 30 * r + 15 * 0 + 15 * 0 >= 100 * k)
    BY <2>2, <2>3, <2>4 DEF Percent
  <2> QED
    BY <2>6, <2>7 DEF k
<1> QED
  BY <1>1, RoutingTyped, PTL

--------------------------------------------------------------------------------
(***************************************************************************)
(* Plans.  PlanInvariant is proved in layers: types, then what authorises a *)
(* revision, then what the approval gate may see, then the chain of states; *)
(* each layer uses the ones before it.                                     *)
(***************************************************************************)

(***************************************************************************)
(* An overlay only ever narrows what the base policy allows: a domain pack *)
(* cannot let through a delta that evaluate_delta_policy holds back.       *)
(***************************************************************************)
THEOREM OverlayNeverWidens ==
  ASSUME NEW delta \in RevisionDelta, NEW pack \in PluginPack
  PROVE  Clear(EvaluateDeltaPolicyInDomain(delta, pack))
           => Clear(EvaluateDeltaPolicy(delta))
  BY DEF Clear, EvaluateDeltaPolicyInDomain, ApplyDomainOverlay, Ask, Refuse

\* A policy decision is well formed, and never both allows and asks.
LEMMA PlanDecisionType ==
  ASSUME NEW executed, NEW delta
  PROVE  LET decision == PlanDecision(executed, delta)
         IN  /\ decision \in DeltaPolicyDecision
             /\ ~(decision.allowed /\ decision.requires_approval)
  BY DEF PlanDecision, EvaluateDeltaPolicyInDomain, ApplyDomainOverlay,
         EvaluateDeltaPolicy, DeltaPolicyDecision, Permit, Ask, Refuse

\* A plan starts in one way only, whichever entry point it comes through.
Starts(deltas, entry, pack, gate) ==
  /\ deltas \in Plans /\ entry \in {"domain", "plain"}
  /\ pack \in PluginPack /\ gate \in GateKinds
  /\ ExecutePlan(deltas, entry, pack, gate)

\* A step of the plan machinery starts a plan or carries one on.
LEMMA NextCases ==
  ASSUME PlanNext
  PROVE  \/ \E deltas, entry, pack, gate : Starts(deltas, entry, pack, gate)
         \/ PlanStep
<1>1. NoPack \in PluginPack /\ "none" \in GateKinds
  BY DEF NoPack, PluginPack, GateKinds
<1> QED
  BY <1>1, PlanAssumption DEF PlanNext, Starts

\* The state replayed from a well-typed log is a number.
LEMMA PlanReplayType ==
  ASSUME log \in Seq(PlanEntry)
  PROVE  ReplayedState(log) \in Nat
<1>1. \A m \in 1..Len(log) : IsRevision(log[m]) => log[m].result \in Nat
  <2> TAKE m \in 1..Len(log)
  <2>1. log[m] \in PlanEntry
    OBVIOUS
  <2> QED
    BY <2>1 DEF PlanEntry, PlanCommitmentEntry, PlanRevisionEntry,
       PlanApprovalEntry, IsRevision
<1> QED
  BY <1>1, ReplayType DEF ReplayedState

\* What the gate records is well typed, one entry per answer.
LEMMA PlanAnswersType ==
  ASSUME PlanTypeOK, Len(answers) = Len(asked)
  PROVE  /\ AuditedAnswers \in Seq(PlanApprovalEntry)
         /\ Len(AuditedAnswers) = Len(answers)
<1> USE DEF PlanTypeOK
<1>1. ASSUME NEW n \in 1..Len(answers)
      PROVE  AuditedAnswers[n] \in PlanApprovalEntry
  BY DEF AuditedAnswers, PlanApprovalEntry, CommitmentId, Unlinked
<1> QED
  BY <1>1 DEF AuditedAnswers

(***************************************************************************)
(* Types: every variable stays within its type (PlanTypeOK).               *)
(***************************************************************************)
THEOREM PlanTypeCorrect == PlanSpec => []PlanTypeOK
<1>1. PlanInit => PlanTypeOK
  BY DEF PlanInit, PlanTypeOK
<1>2. PlanTypeOK /\ [PlanNext]_planVars => PlanTypeOK'
  <2> SUFFICES ASSUME PlanTypeOK, [PlanNext]_planVars
               PROVE  PlanTypeOK'
    OBVIOUS
  <2> USE DEF PlanTypeOK
  <2>1. ASSUME NEW deltas, NEW entry, NEW pack, NEW gate,
               Starts(deltas, entry, pack, gate)
        PROVE  PlanTypeOK'
    <3>1. [deltas |-> deltas, entry |-> entry, pack |-> pack, gate |-> gate]
            \in ExecutedPlan
      BY <2>1, PlanAssumption DEF ExecutedPlan, Starts
    <3>2. plans' \in Seq(ExecutedPlan) /\ plans' # <<>>
      BY <3>1, <2>1 DEF ExecutePlan, Starts
    <3>3. prior' \in Nat
      BY <2>1, PlanReplayType DEF ExecutePlan, Starts
    <3> QED
      BY <2>1, <3>2, <3>3 DEF ExecutePlan, Starts
  <2>2. CASE EvaluateDelta
    <3>1. thisId \in CommitmentId
      BY DEF thisId, CommitmentId
    <3>2. PICK decision \in DeltaPolicyDecision :
            /\ log' = Append(log, [type |-> "commitment", id |-> thisId,
                                   success |-> Clear(decision),
                                   requires_approval |-> decision.requires_approval])
            /\ asked' = IF decision.requires_approval
                        THEN Append(asked, index) ELSE asked
            /\ index' \in {index, index + 1}
            /\ ppc' \in {"evaluate", "revise"}
      BY <2>2, PlanDecisionType DEF EvaluateDelta
    <3>3. [type |-> "commitment", id |-> thisId, success |-> Clear(decision),
           requires_approval |-> decision.requires_approval] \in PlanEntry
      BY <3>1, <3>2 DEF PlanEntry, PlanCommitmentEntry, DeltaPolicyDecision, Clear
    <3> QED
      BY <2>2, <3>2, <3>3 DEF EvaluateDelta
  <2>3. CASE ReviseModel
    <3>1. [type |-> "revision", cause |-> thisId, prior |-> prior,
           result |-> index] \in PlanEntry
      BY DEF PlanEntry, PlanRevisionEntry, thisId, CommitmentId
    <3> QED
      BY <2>3, <3>1 DEF ReviseModel
  <2>4. CASE ReturnResult
    BY <2>4 DEF ReturnResult
  <2>5. CASE OpenGate
    BY <2>5 DEF OpenGate, DeltasDone
  <2>6. ASSUME NEW verdict \in Verdicts, Decide(verdict)
        PROVE  PlanTypeOK'
    BY <2>6 DEF Decide
  <2>7. CASE ProviderRaises
    BY <2>7 DEF ProviderRaises
  <2>8. CASE RecordDecisions
    <3>1. AuditedAnswers \in Seq(PlanEntry)
      BY <2>8, PlanAnswersType DEF RecordDecisions, PlanEntry
    <3> QED
      BY <2>8, <3>1 DEF RecordDecisions
  <2>9. CASE UNCHANGED planVars
    BY <2>9 DEF planVars
  <2> QED
    BY <2>1, <2>2, <2>3, <2>4, <2>5, <2>6, <2>7, <2>8, <2>9, NextCases
    DEF PlanStep
<1>3. QED
  BY <1>1, <1>2, PTL DEF PlanSpec

--------------------------------------------------------------------------------
(***************************************************************************)
(* What a step does to the log and to the plans, whichever step it is.     *)
(***************************************************************************)

\* The log is append-only.
LEMMA LogExtends ==
  ASSUME PlanTypeOK, [PlanNext]_planVars
  PROVE  /\ Len(log') \in Nat
         /\ Extends(log', log)
<1> USE DEF PlanTypeOK, Extends
<1>1. CASE UNCHANGED log
  BY <1>1
<1>2. CASE \E entry : log' = Append(log, entry)
  BY <1>2
<1>3. CASE RecordDecisions
  <2>1. AuditedAnswers \in Seq(PlanEntry)
    BY <1>3, PlanAnswersType DEF RecordDecisions, PlanEntry
  <2> QED
    BY <1>3, <2>1 DEF RecordDecisions
<1> QED
  BY <1>1, <1>2, <1>3, NextCases
  DEF Starts, ExecutePlan, PlanStep, EvaluateDelta, ReviseModel, ReturnResult,
      OpenGate, Decide, ProviderRaises, planVars

\* Judging a delta adds its commitment and nothing else.
LEMMA EvaluateAppends ==
  ASSUME EvaluateDelta
  PROVE  \E entry : log' = Append(log, entry) /\ entry.type = "commitment"
<1> DEFINE decision == PlanDecision(plan, plan.deltas[index])
           entry == [type |-> "commitment", id |-> thisId,
                     success |-> Clear(decision),
                     requires_approval |-> decision.requires_approval]
<1>1. log' = Append(log, entry)
  BY DEF EvaluateDelta
<1>2. entry.type = "commitment"
  OBVIOUS
<1> HIDE DEF entry
<1> QED
  BY <1>1, <1>2

\* Only ReviseModel writes a revision, and it writes one entry.
LEMMA NewPlanRevision ==
  ASSUME PlanTypeOK, [PlanNext]_planVars,
         NEW n \in 1..Len(log'), n > Len(log), IsRevision(log'[n])
  PROVE  /\ ReviseModel
         /\ n = Len(log) + 1
         /\ Len(log') = n
         /\ log'[n] = [type |-> "revision", cause |-> thisId,
                       prior |-> prior, result |-> index]
<1> USE DEF PlanTypeOK
<1>1. CASE UNCHANGED log
  BY <1>1
<1>2. CASE EvaluateDelta
  <2>1. PICK entry : log' = Append(log, entry) /\ entry.type = "commitment"
    BY <1>2, EvaluateAppends
  <2> QED
    BY <2>1 DEF IsRevision
<1>3. CASE ReviseModel
  BY <1>3 DEF ReviseModel
<1>4. CASE RecordDecisions
  <2>1. /\ AuditedAnswers \in Seq(PlanApprovalEntry)
        /\ log' = log \o AuditedAnswers
    BY <1>4, PlanAnswersType DEF RecordDecisions
  <2>2. log'[n] \in PlanApprovalEntry
    BY <2>1
  <2> QED
    BY <2>2 DEF PlanApprovalEntry, IsRevision
<1> QED
  BY <1>1, <1>2, <1>3, <1>4, NextCases
  DEF Starts, ExecutePlan, PlanStep, ReturnResult, OpenGate, Decide,
      ProviderRaises, planVars

\* A plan once executed is not changed: what its ids name and how they were
\* decided stays.
LEMMA PlansOfPlanKept ==
  ASSUME PlanTypeOK, [PlanNext]_planVars, NEW id, Names(id)
  PROVE  /\ Names(id)'
         /\ DecisionOn(id)' = DecisionOn(id)
         /\ plans'[id.plan] = plans[id.plan]
<1>1. CASE UNCHANGED plans
  BY <1>1 DEF Names, DecisionOn, PlanDecision
<1>2. CASE \E executed : plans' = Append(plans, executed)
  <2>1. /\ id.plan \in 1..Len(plans')
        /\ plans'[id.plan] = plans[id.plan]
    BY <1>2 DEF Names, PlanTypeOK
  <2> QED
    BY <2>1 DEF Names, DecisionOn, PlanDecision
<1> QED
  BY <1>1, <1>2, NextCases
  DEF Starts, ExecutePlan, PlanStep, EvaluateDelta, ReviseModel, ReturnResult,
      OpenGate, Decide, ProviderRaises, RecordDecisions, planVars

(***************************************************************************)
(* RevisionAuthorised needs ReadyToRevise: when a revision is about to be  *)
(* written, the last entry of the log is the commitment it answers.        *)
(***************************************************************************)
Authorisation == ReadyToRevise /\ RevisionAuthorised

\* Every step keeps revisions behind the commitment that allows them.
LEMMA AuthorisationStep ==
  ASSUME PlanTypeOK, Authorisation, [PlanNext]_planVars
  PROVE  Authorisation'
<1> USE DEF PlanTypeOK
<1>1. ReadyToRevise'
  <2>1. CASE EvaluateDelta
    <3>1. CASE Clear(PlanDecision(plan, plan.deltas[index]))
      <4>1. UNCHANGED <<plans, index>>
        BY <2>1, <3>1 DEF EvaluateDelta
      <4>2. Names(thisId) /\ Clear(DecisionOn(thisId))
        BY <2>1, <3>1 DEF EvaluateDelta, Names, DecisionOn, thisId, plan
      <4>3. thisId' = thisId
        BY <4>1 DEF thisId
      <4> DEFINE decision == PlanDecision(plan, plan.deltas[index])
                 entry == [type |-> "commitment", id |-> thisId,
                           success |-> Clear(decision),
                           requires_approval |-> decision.requires_approval]
      <4>4. /\ log' = Append(log, entry)
            /\ entry.type = "commitment"
            /\ entry.id = thisId
            /\ entry.success
        <5>1. log' = Append(log, entry)
          BY <2>1 DEF EvaluateDelta
        <5>2. entry.success
          BY <3>1
        <5> QED
          BY <5>1, <5>2
      <4> HIDE DEF entry
      <4>5. log'[Len(log')] = entry /\ log' # <<>>
        BY <4>4
      <4>6. Names(thisId') /\ Names(thisId)' /\ DecisionOn(thisId)' = DecisionOn(thisId)
        BY <4>1, <4>2, <4>3 DEF Names, DecisionOn, PlanDecision, thisId
      <4> QED
        BY <4>2, <4>3, <4>4, <4>5, <4>6 DEF ReadyToRevise
    <3>2. CASE ~Clear(PlanDecision(plan, plan.deltas[index]))
      BY <2>1, <3>2 DEF EvaluateDelta, ReadyToRevise
    <3> QED
      BY <3>1, <3>2
  <2>2. CASE UNCHANGED planVars
    BY <2>2 DEF planVars, Authorisation, ReadyToRevise, Names, DecisionOn,
       PlanDecision, thisId
  <2>3. CASE ppc' # "revise"
    BY <2>3 DEF ReadyToRevise
  <2> QED
    BY <2>1, <2>2, <2>3, NextCases
    DEF Starts, ExecutePlan, PlanStep, ReviseModel, ReturnResult, OpenGate,
        Decide, ProviderRaises, RecordDecisions
<1>2. RevisionAuthorised'
  <2> SUFFICES ASSUME NEW n \in 1..Len(log'), IsRevision(log'[n]),
                      NEW id, id = log'[n].cause
               PROVE  /\ Names(id)'
                      /\ Clear(DecisionOn(id))'
                      /\ CommittedBefore(log', n, id)
    BY DEF RevisionAuthorised, Names, DecisionOn, CommittedBefore, IsRevision
  <2>2. Names(id) /\ Clear(DecisionOn(id)) /\ CommittedBefore(log', n, id)
    <3>1. Len(log') \in Nat /\ Extends(log', log)
      BY LogExtends
    <3>2. CASE n <= Len(log)
      <4>1. log'[n] = log[n] /\ n \in 1..Len(log)
        BY <3>1, <3>2 DEF Extends
      <4>2. Names(id) /\ Clear(DecisionOn(id)) /\ CommittedBefore(log, n, id)
        BY <4>1 DEF Authorisation, RevisionAuthorised
      <4> QED
        BY <3>1, <4>1, <4>2 DEF CommittedBefore, Extends
    <3>3. CASE n > Len(log)
      <4>1. ReviseModel /\ n = Len(log) + 1 /\ id = thisId
        BY <3>3, NewPlanRevision
      <4>2. /\ Names(id) /\ Clear(DecisionOn(id))
            /\ log # <<>>
            /\ log[Len(log)].type = "commitment"
            /\ log[Len(log)].id = id
            /\ log[Len(log)].success
        BY <4>1 DEF ReviseModel, Authorisation, ReadyToRevise
      <4>3. Len(log) \in 1..(n - 1) /\ log'[Len(log)] = log[Len(log)]
        BY <3>1, <4>1, <4>2 DEF Extends
      <4> QED
        BY <4>2, <4>3 DEF CommittedBefore
    <3> QED
      BY <3>1, <3>2, <3>3
  <2>3. Names(id)' /\ DecisionOn(id)' = DecisionOn(id)
    BY <2>2, PlansOfPlanKept
  <2> QED
    BY <2>2, <2>3 DEF Clear
<1> QED
  BY <1>1, <1>2 DEF Authorisation

--------------------------------------------------------------------------------
\* A revision on record after a step was there before, or was just written.
LEMMA OldOrNewRevision ==
  ASSUME PlanTypeOK, [PlanNext]_planVars,
         NEW n \in 1..Len(log'), IsRevision(log'[n])
  PROVE  \/ /\ n \in 1..Len(log)
            /\ log'[n] = log[n]
         \/ /\ ReviseModel
            /\ n = Len(log) + 1
            /\ log'[n] = [type |-> "revision", cause |-> thisId,
                          prior |-> prior, result |-> index]
<1>1. Len(log') \in Nat /\ Extends(log', log)
  BY LogExtends
<1>2. CASE n <= Len(log)
  BY <1>1, <1>2 DEF Extends, PlanTypeOK
<1>3. CASE n > Len(log)
  BY <1>3, NewPlanRevision
<1> QED
  BY <1>1, <1>2, <1>3 DEF PlanTypeOK

(***************************************************************************)
(* OneRevisionPerCommitment needs RevisionsBehindIndex: revisions of the   *)
(* running plan stay behind the index, and no earlier plan has its ids.    *)
(***************************************************************************)
SingleRevision == RevisionsBehindIndex /\ OneRevisionPerCommitment

\* Every step keeps a commitment at one revision.
LEMMA SingleRevisionStep ==
  ASSUME PlanTypeOK, RevisionAuthorised, SingleRevision, [PlanNext]_planVars
  PROVE  SingleRevision'
<1> USE DEF PlanTypeOK
<1>1. RevisionsBehindIndex'
  <2> SUFFICES ASSUME ppc' \in {"evaluate", "revise"},
                      NEW n \in 1..Len(log'), IsRevision(log'[n]),
                      log'[n].cause.plan = Len(plans')
               PROVE  log'[n].cause.index < index'
    BY DEF RevisionsBehindIndex, IsRevision
  <2>1. CASE n \in 1..Len(log) /\ log'[n] = log[n]
    <3>1. Names(log[n].cause)
      BY <2>1 DEF RevisionAuthorised
    <3>2. CASE \E executed : plans' = Append(plans, executed)
      BY <2>1, <3>1, <3>2 DEF Names
    <3>3. CASE /\ ppc \in {"evaluate", "revise"}
               /\ plans' = plans
               /\ index' \in {index, index + 1}
      <4>1. log[n].cause.index < index
        BY <2>1, <3>3 DEF SingleRevision, RevisionsBehindIndex
      <4>2. log[n].cause.index \in Int
        BY <3>1 DEF Names
      <4> QED
        BY <2>1, <3>3, <4>1, <4>2
    <3> QED
      BY <3>2, <3>3, NextCases
      DEF Starts, ExecutePlan, PlanStep, EvaluateDelta, ReviseModel,
          ReturnResult, OpenGate, Decide, ProviderRaises, RecordDecisions,
          DeltasDone, planVars
  <2>2. CASE /\ ReviseModel
             /\ log'[n] = [type |-> "revision", cause |-> thisId,
                           prior |-> prior, result |-> index]
    BY <2>2 DEF ReviseModel, thisId
  <2> QED
    BY <2>1, <2>2, OldOrNewRevision
<1>2. OneRevisionPerCommitment'
  <2> SUFFICES ASSUME NEW m \in 1..Len(log'), NEW n \in 1..Len(log'),
                      IsRevision(log'[m]), IsRevision(log'[n]),
                      log'[m].cause = log'[n].cause
               PROVE  m = n
    BY DEF OneRevisionPerCommitment, IsRevision
  <2>1. ASSUME NEW k \in 1..Len(log), IsRevision(log[k]), ReviseModel
        PROVE  log[k].cause # thisId
    <3>1. log[k].cause.plan = Len(plans) => log[k].cause.index < index
      BY <2>1 DEF SingleRevision, RevisionsBehindIndex, ReviseModel
    <3> QED
      BY <3>1 DEF thisId
  <2>2. CASE /\ m \in 1..Len(log) /\ log'[m] = log[m]
             /\ n \in 1..Len(log) /\ log'[n] = log[n]
    BY <2>2 DEF SingleRevision, OneRevisionPerCommitment
  <2> QED
    BY <2>1, <2>2, OldOrNewRevision
<1> QED
  BY <1>1, <1>2 DEF SingleRevision

--------------------------------------------------------------------------------
\* What was held back stays held back.
LEMMA HeldBackKept ==
  ASSUME PlanTypeOK, [PlanNext]_planVars, NEW id, HeldBack(id)
  PROVE  HeldBack(id)'
<1>1. Names(id)' /\ DecisionOn(id)' = DecisionOn(id)
  BY PlansOfPlanKept DEF HeldBack
<1> QED
  BY <1>1 DEF HeldBack, Clear

(***************************************************************************)
(* GateOnlyRecords needs to know that the gate is shown, and its answers   *)
(* name, only deltas that were held back.                                  *)
(***************************************************************************)
GateSeesHeldBack == AskedHeldBack /\ ApprovalsHeldBack

\* Every step keeps what was not held back from the gate.
LEMMA GateSeesHeldBackStep ==
  ASSUME PlanTypeOK, GateSeesHeldBack, [PlanNext]_planVars
  PROVE  GateSeesHeldBack'
<1> USE DEF PlanTypeOK
<1>1. AskedHeldBack'
  <2> SUFFICES ASSUME ppc' # "idle", NEW k \in 1..Len(asked'),
                      NEW id, id = [plan |-> Len(plans'), index |-> asked'[k]]
               PROVE  HeldBack(id)'
    BY DEF AskedHeldBack, HeldBack, Names, DecisionOn
  <2>1. CASE /\ ppc # "idle"
             /\ k \in 1..Len(asked)
             /\ asked'[k] = asked[k]
             /\ plans' = plans
    <3>1. HeldBack(id)
      BY <2>1 DEF GateSeesHeldBack, AskedHeldBack
    <3> QED
      BY <3>1, HeldBackKept
  <2>2. CASE EvaluateDelta
    <3> DEFINE decision == PlanDecision(plan, plan.deltas[index])
    <3>1. plans' = plans /\ ppc = "evaluate"
      BY <2>2 DEF EvaluateDelta
    <3>2. CASE k \in 1..Len(asked) /\ asked'[k] = asked[k]
      BY <2>1, <3>1, <3>2
    <3>3. CASE decision.requires_approval /\ asked'[k] = index
      <4>1. ~Clear(decision)
        BY <3>3, PlanDecisionType DEF Clear
      <4>2. id = [plan |-> Len(plans), index |-> index]
        BY <3>1, <3>3
      <4>3. id.plan = Len(plans) /\ id.index = index
        BY <4>2
      <4>4. Len(plans) \in 1..Len(plans)
        BY <3>1
      <4>5. index \in 1..Len(plan.deltas)
        <5>1. plan \in ExecutedPlan /\ index <= Len(plan.deltas) /\ index \in Nat \ {0}
          BY <2>2, <4>4 DEF EvaluateDelta, plan
        <5>2. Len(plan.deltas) \in Nat
          BY <5>1 DEF ExecutedPlan
        <5> QED
          BY <5>1, <5>2
      <4>6. DecisionOn(id) = decision
        BY <4>3 DEF DecisionOn, plan
      <4>7. HeldBack(id)
        BY <4>1, <4>3, <4>4, <4>5, <4>6, Zenon DEF HeldBack, Names, plan
      <4> QED
        BY <4>7, HeldBackKept
    <3>4. \/ asked' = asked
          \/ decision.requires_approval /\ asked' = Append(asked, index)
      BY <2>2 DEF EvaluateDelta
    <3> HIDE DEF decision
    <3>5. CASE asked' = asked
      BY <3>2, <3>5
    <3>6. CASE decision.requires_approval /\ asked' = Append(asked, index)
      <4>1. \/ k \in 1..Len(asked) /\ asked'[k] = asked[k]
            \/ asked'[k] = index
        BY <3>6
      <4> QED
        BY <3>2, <3>3, <3>6, <4>1
    <3> QED
      BY <3>4, <3>5, <3>6
  <2>3. CASE asked' = <<>>
    BY <2>3
  <2> QED
    BY <2>1, <2>2, <2>3, NextCases
    DEF Starts, ExecutePlan, PlanStep, ReviseModel, ReturnResult, OpenGate,
        Decide, ProviderRaises, RecordDecisions, DeltasDone, planVars
<1>2. ApprovalsHeldBack'
  <2> SUFFICES ASSUME NEW n \in 1..Len(log'), log'[n].type = "approval",
                      NEW id, id = log'[n].trace, id # Unlinked
               PROVE  HeldBack(id)'
    BY DEF ApprovalsHeldBack, HeldBack, Names, DecisionOn
  <2>1. Len(log') \in Nat /\ Extends(log', log)
    BY LogExtends
  <2>2. CASE n \in 1..Len(log)
    <3>1. HeldBack(id)
      BY <2>1, <2>2 DEF Extends, GateSeesHeldBack, ApprovalsHeldBack
    <3> QED
      BY <3>1, HeldBackKept
  <2>3. CASE n > Len(log)
    <3>1. CASE EvaluateDelta
      <4>1. PICK entry : log' = Append(log, entry) /\ entry.type = "commitment"
        BY <3>1, EvaluateAppends
      <4> QED
        BY <2>3, <4>1
    <3>2. CASE ReviseModel
      <4>1. PICK entry : log' = Append(log, entry) /\ entry.type = "revision"
        BY <3>2 DEF ReviseModel
      <4> QED
        BY <2>3, <4>1
    <3>3. CASE RecordDecisions
      <4>1. /\ AuditedAnswers \in Seq(PlanApprovalEntry)
            /\ Len(AuditedAnswers) = Len(answers)
            /\ Len(answers) = Len(asked)
            /\ log' = log \o AuditedAnswers
        BY <3>3, PlanAnswersType DEF RecordDecisions
      <4> DEFINE k == n - Len(log)
      <4>2. k \in 1..Len(answers) /\ log'[n] = AuditedAnswers[k]
        BY <2>3, <4>1
      <4> HIDE DEF k
      <4>3. id = [plan |-> Len(plans), index |-> asked[k]]
        BY <4>2 DEF AuditedAnswers
      <4>4. HeldBack(id)
        BY <3>3, <4>1, <4>2, <4>3
        DEF RecordDecisions, GateSeesHeldBack, AskedHeldBack
      <4> QED
        BY <4>4, HeldBackKept
    <3>4. CASE UNCHANGED log
      BY <2>3, <3>4
    <3> QED
      BY <3>1, <3>2, <3>3, <3>4, NextCases
      DEF Starts, ExecutePlan, PlanStep, ReturnResult, OpenGate, Decide,
          ProviderRaises, planVars
  <2> QED
    BY <2>1, <2>2, <2>3
<1> QED
  BY <1>1, <1>2 DEF GateSeesHeldBack

--------------------------------------------------------------------------------
(***************************************************************************)
(* ContinuesFromReplay needs PriorIsReplayed: the prior id a domain plan   *)
(* carries along is what the log replays to while it is being evaluated.   *)
(***************************************************************************)
Chained == PriorIsReplayed /\ ContinuesFromReplay

\* Every step keeps revisions in one chain with what replay finds.
LEMMA ChainedStep ==
  ASSUME PlanTypeOK, RevisionAuthorised, Chained, [PlanNext]_planVars
  PROVE  Chained'
<1> USE DEF PlanTypeOK
<1>1. Len(log') \in Nat /\ Extends(log', log)
  BY LogExtends
<1>2. PriorIsReplayed'
  <2> SUFFICES ASSUME ppc' \in {"evaluate", "revise"}, plan'.entry = "domain"
               PROVE  prior' = ReplayedState(log')
    BY DEF PriorIsReplayed, ReplayedState
  <2>1. ASSUME NEW deltas, NEW entry, NEW pack, NEW gate,
               Starts(deltas, entry, pack, gate)
        PROVE  prior' = ReplayedState(log')
    <3>1. plan'.entry = entry
      BY <2>1 DEF Starts, ExecutePlan, plan
    <3> QED
      BY <2>1, <3>1 DEF Starts, ExecutePlan
  <2>2. CASE EvaluateDelta
    <3>1. PICK entry : log' = Append(log, entry) /\ entry.type = "commitment"
      BY <2>2, EvaluateAppends
    <3>2. \A m \in (Len(log) + 1)..Len(log') : ~IsRevision(log'[m])
      BY <3>1 DEF IsRevision
    <3>3. ReplayedState(log') = ReplayedAt(log', Len(log))
      <4>1. Len(log) \in Nat /\ Len(log) <= Len(log')
        BY <1>1 DEF Extends
      <4>2. ReplayedAt(log', Len(log')) = ReplayedAt(log', Len(log))
        BY ONLY <1>1, <3>2, <4>1, ReplaySkipsOthers
      <4> QED
        BY <4>2 DEF ReplayedState
    <3>4. ReplayedAt(log', Len(log)) = ReplayedState(log)
      BY <1>1, ReplayReadsPrefix DEF ReplayedState, Extends
    <3>5. prior = ReplayedState(log) /\ prior' = prior
      BY <2>2 DEF EvaluateDelta, plan, Chained, PriorIsReplayed
    <3> QED
      BY <3>3, <3>4, <3>5
  <2>3. CASE ReviseModel
    <3>1. /\ Len(log') = Len(log) + 1
          /\ IsRevision(log'[Len(log')])
          /\ log'[Len(log')].result = index
      BY <2>3 DEF ReviseModel, IsRevision
    <3>2. ReplayedState(log') = index
      BY <1>1, <3>1, ReplayEndsInRevision DEF ReplayedState
    <3> QED
      BY <2>3, <3>2 DEF ReviseModel
  <2>4. CASE UNCHANGED planVars
    BY <2>4 DEF planVars, plan, Chained, PriorIsReplayed
  <2> QED
    BY <2>1, <2>2, <2>3, <2>4, NextCases
    DEF PlanStep, ReturnResult, OpenGate, Decide, ProviderRaises,
        RecordDecisions
<1>3. ContinuesFromReplay'
  <2> SUFFICES ASSUME NEW n \in 1..Len(log'), IsRevision(log'[n]),
                      plans'[log'[n].cause.plan].entry = "domain"
               PROVE  log'[n].prior = ReplayedAt(log', n - 1)
    BY DEF ContinuesFromReplay, IsRevision, ReplayedAt, RevisionsUpTo
  <2>1. CASE n \in 1..Len(log) /\ log'[n] = log[n]
    <3>1. Names(log[n].cause)
      BY <2>1 DEF RevisionAuthorised
    <3>2. plans[log[n].cause.plan].entry = "domain"
      BY <2>1, <3>1, PlansOfPlanKept
    <3>3. log[n].prior = ReplayedAt(log, n - 1)
      BY <2>1, <3>2 DEF Chained, ContinuesFromReplay
    <3>4. ReplayedAt(log', n - 1) = ReplayedAt(log, n - 1)
      BY <1>1, <2>1, ReplayReadsPrefix DEF Extends
    <3> QED
      BY <2>1, <3>3, <3>4
  <2>2. CASE /\ ReviseModel
             /\ n = Len(log) + 1
             /\ log'[n] = [type |-> "revision", cause |-> thisId,
                           prior |-> prior, result |-> index]
    <3>1. plan.entry = "domain" /\ ppc = "revise"
      BY <2>2 DEF ReviseModel, thisId, plan
    <3>2. prior = ReplayedState(log)
      BY <3>1 DEF Chained, PriorIsReplayed
    <3>3. ReplayedAt(log', n - 1) = ReplayedState(log)
      BY <1>1, <2>2, ReplayReadsPrefix DEF ReplayedState, Extends
    <3> QED
      BY <2>2, <3>2, <3>3
  <2> QED
    BY <2>1, <2>2, OldOrNewRevision
<1> QED
  BY <1>2, <1>3 DEF Chained

--------------------------------------------------------------------------------
(***************************************************************************)
(* The inductive invariant holds in every reachable state.                 *)
(***************************************************************************)
THEOREM PlanInvariantHolds == PlanSpec => []PlanInvariant
<1> DEFINE Layers == Authorisation /\ SingleRevision /\ GateSeesHeldBack /\ Chained
<1>1. PlanInit => Layers
  BY DEF PlanInit, Authorisation, ReadyToRevise, RevisionAuthorised,
     SingleRevision, RevisionsBehindIndex, OneRevisionPerCommitment,
     GateSeesHeldBack, AskedHeldBack, ApprovalsHeldBack,
     Chained, PriorIsReplayed, ContinuesFromReplay
<1>2. PlanTypeOK /\ Layers /\ [PlanNext]_planVars => Layers'
  <2> SUFFICES ASSUME PlanTypeOK, Layers, [PlanNext]_planVars
               PROVE  Layers'
    OBVIOUS
  <2>1. RevisionAuthorised
    BY DEF Authorisation
  <2> QED
    BY <2>1, AuthorisationStep, SingleRevisionStep, GateSeesHeldBackStep,
       ChainedStep
<1>3. PlanTypeOK /\ Layers => PlanInvariant
  BY DEF PlanInvariant, Authorisation, SingleRevision, GateSeesHeldBack, Chained
<1> HIDE DEF Layers
<1>4. QED
  BY <1>1, <1>2, <1>3, PlanTypeCorrect, PTL DEF PlanSpec

(***************************************************************************)
(* "Policy decides": every revision on record was let through by the       *)
(* policy of its plan and follows its own successful commitment.           *)
(***************************************************************************)
THEOREM RevisionsAuthorised == PlanSpec => []RevisionAuthorised
<1>1. PlanInvariant => RevisionAuthorised
  BY DEF PlanInvariant
<1>2. QED
  BY <1>1, PlanInvariantHolds, PTL

\* No transition is applied twice, across all plans that share the log.
THEOREM RevisionsUnique == PlanSpec => []OneRevisionPerCommitment
<1>1. PlanInvariant => OneRevisionPerCommitment
  BY DEF PlanInvariant
<1>2. QED
  BY <1>1, PlanInvariantHolds, PTL

(***************************************************************************)
(* The approval gate "only proposes and records": what it answers names    *)
(* only deltas that were held back, and those have no revision.            *)
(***************************************************************************)
THEOREM GateRecordsOnly == PlanSpec => []GateOnlyRecords
<1>1. PlanInvariant => GateOnlyRecords
  <2> SUFFICES ASSUME PlanInvariant,
                      NEW m \in 1..Len(log), NEW n \in 1..Len(log),
                      log[m].type = "approval", IsRevision(log[n])
               PROVE  log[m].trace # log[n].cause
    BY DEF GateOnlyRecords
  <2>1. Names(log[n].cause) /\ Clear(DecisionOn(log[n].cause))
    BY DEF PlanInvariant, RevisionAuthorised
  <2>2. log[m].trace = Unlinked \/ HeldBack(log[m].trace)
    BY DEF PlanInvariant, ApprovalsHeldBack
  <2>3. ~Names(Unlinked)
    BY DEF Names, Unlinked
  <2> QED
    BY <2>1, <2>2, <2>3 DEF HeldBack
<1>2. QED
  BY <1>1, PlanInvariantHolds, PTL

\* Replay never jumps where plans run in a domain, whatever else is logged.
THEOREM DomainPlansContinue == PlanSpec => []ContinuesFromReplay
<1>1. PlanInvariant => ContinuesFromReplay
  BY DEF PlanInvariant
<1>2. QED
  BY <1>1, PlanInvariantHolds, PTL

--------------------------------------------------------------------------------
(***************************************************************************)
(* Plans run in a domain implement AuditedEvolution (ImplementsEvolution): *)
(* an engine that uses no entry point but the runtime's own evolves its    *)
(* world model by one chain of committed steps, each step of the plan      *)
(* machinery being a step of that chain or leaving the log alone.          *)
(***************************************************************************)
AllDomain == \A p \in 1..Len(plans) : plans[p].entry = "domain"

\* Where no plan comes through the plain entry point, every plan has a domain.
LEMMA DomainOnly ==
  ASSUME "plain" \notin Entries
  PROVE  PlanSpec => []AllDomain
<1>1. PlanInit => AllDomain
  BY DEF PlanInit, AllDomain
<1>2. PlanTypeOK /\ AllDomain /\ [PlanNext]_planVars => AllDomain'
  <2> SUFFICES ASSUME PlanTypeOK, AllDomain, [PlanNext]_planVars
               PROVE  AllDomain'
    OBVIOUS
  <2>1. ASSUME NEW deltas, NEW entry, NEW pack, NEW gate,
               Starts(deltas, entry, pack, gate)
        PROVE  AllDomain'
    <3>1. entry = "domain"
      BY <2>1, PlanAssumption DEF Starts, ExecutePlan
    <3> QED
      BY <2>1, <3>1 DEF Starts, ExecutePlan, AllDomain, PlanTypeOK
  <2>2. CASE UNCHANGED plans
    BY <2>2 DEF AllDomain
  <2> QED
    BY <2>1, <2>2, NextCases
    DEF PlanStep, EvaluateDelta, ReviseModel, ReturnResult, OpenGate, Decide,
        ProviderRaises, RecordDecisions, planVars
<1>3. QED
  BY <1>1, <1>2, PlanTypeCorrect, PTL DEF PlanSpec

\* Plans run in a domain implement the audited evolution of one world model
\* (execute_plan_in_domain).
THEOREM DomainPlansImplementEvolution ==
  ASSUME "plain" \notin Entries
  PROVE  PlanSpec => ImplementsEvolution
<1>1. PlanInit => Evolution!Init
  BY DEF PlanInit, Evolution!Init
<1>2. /\ PlanTypeOK /\ [PlanNext]_planVars
      /\ RevisionAuthorised' /\ ContinuesFromReplay' /\ AllDomain'
      => Evolution!Next
  <2> SUFFICES ASSUME PlanTypeOK, [PlanNext]_planVars, RevisionAuthorised',
                      ContinuesFromReplay', AllDomain'
               PROVE  Evolution!Next
    OBVIOUS
  <2>1. Len(log') \in Nat /\ Extends(log', log)
    BY LogExtends
  <2>2. ASSUME NEW n \in 1..Len(log'), IsRevision(log'[n])
        PROVE  /\ CommittedBefore(log', n, log'[n].cause)
               /\ log'[n].prior = ReplayedAt(log', n - 1)
    <3>1. /\ CommittedBefore(log', n, log'[n].cause)
          /\ log'[n].cause.plan \in 1..Len(plans')
      BY <2>2 DEF RevisionAuthorised, Names, CommittedBefore, IsRevision
    <3>2. plans'[log'[n].cause.plan].entry = "domain"
      BY <3>1 DEF AllDomain
    <3> QED
      BY <2>2, <3>1, <3>2
      DEF ContinuesFromReplay, IsRevision, ReplayedAt, RevisionsUpTo
  <2>3. \A n \in (Len(log) + 1)..Len(log') : n \in 1..Len(log')
    BY <2>1 DEF PlanTypeOK
  <2>4. \A n \in (Len(log) + 1)..Len(log') : Evolution!Justified(log', n)
    BY <2>2, <2>3
    DEF Evolution!Justified, Evolution!IsRevision, IsRevision,
        Evolution!CommittedBefore, CommittedBefore, Evolution!ReplayedAt,
        ReplayedAt, Evolution!RevisionsUpTo, RevisionsUpTo
  <2> QED
    BY <2>1, <2>4 DEF Evolution!Next, Evolution!Extends, Extends
<1>3. PlanSpec => []AllDomain
  BY DomainOnly
<1>4. QED
  BY <1>1, <1>2, <1>3, PlanTypeCorrect, RevisionsAuthorised,
     DomainPlansContinue, PTL
  DEF PlanSpec, ImplementsEvolution, Evolution!Spec

--------------------------------------------------------------------------------
(***************************************************************************)
(* The decisions of a plan are recorded together or not at all             *)
(* (DecisionsComplete).  While the plan runs, asked lists what its         *)
(* commitments on record ask for, in their order, and nothing is decided.  *)
(***************************************************************************)

\* The commitments of a plan that require approval, and the decisions on them.
Asking(p) ==
  {n \in 1..Len(log) : /\ log[n].type = "commitment"
                       /\ log[n].id.plan = p
                       /\ log[n].requires_approval}
DecisionsFor(p) ==
  {n \in 1..Len(log) : log[n].type = "approval" /\ log[n].trace.plan = p}

\* What is on record is about the plans so far.
RecordsNamePlans ==
  \A n \in 1..Len(log) :
    /\ log[n].type = "commitment" => log[n].id.plan \in 1..Len(plans)
    /\ log[n].type = "approval" => log[n].trace.plan \in 0..Len(plans)

\* While a plan runs, asked lists what its commitments on record ask for, in
\* their order and all before the delta at work, and nothing is decided yet.
AskedOnRecord ==
  ppc # "idle" =>
    /\ \A m, n \in 1..Len(asked) : m < n => asked[m] < asked[n]
    /\ \A k \in 1..Len(asked) : asked[k] < index
    /\ \A k \in 1..Len(asked) : \E n \in Asking(Len(plans)) :
         log[n].id = [plan |-> Len(plans), index |-> asked[k]]
    /\ \A n \in Asking(Len(plans)) : \E k \in 1..Len(asked) :
         log[n].id = [plan |-> Len(plans), index |-> asked[k]]
    /\ DecisionsFor(Len(plans)) = {}

\* The inductive invariant of DecisionsComplete.
DecisionsInvariant == RecordsNamePlans /\ AskedOnRecord /\ DecisionsComplete

\* What DecisionsComplete says of a plan.
CompleteFor(p) ==
  \/ DecisionsFor(p) = {}
  \/ /\ {log[n].trace : n \in DecisionsFor(p)} = {log[n].id : n \in Asking(p)}
     /\ \A m, n \in DecisionsFor(p) :
          (m < n) <=> (log[m].trace.index < log[n].trace.index)

\* What is on record of a plan stays, if nothing new is about it.
LEMMA RecordsKept ==
  ASSUME log \in Seq(PlanEntry), Len(log') \in Nat, Extends(log', log), NEW p
  PROVE  /\ (\A n \in 1..Len(log') : n > Len(log) =>
               ~(log'[n].type = "commitment" /\ log'[n].id.plan = p
                   /\ log'[n].requires_approval))
              => Asking(p)' = Asking(p)
         /\ (\A n \in 1..Len(log') : n > Len(log) =>
               ~(log'[n].type = "approval" /\ log'[n].trace.plan = p))
              => DecisionsFor(p)' = DecisionsFor(p)
         /\ \A n \in Asking(p) \cup DecisionsFor(p) : log'[n] = log[n]
<1>1. \A n \in 1..Len(log) : n \in 1..Len(log') /\ log'[n] = log[n]
  BY DEF Extends
<1>2. \A n \in 1..Len(log') : n > Len(log) \/ n \in 1..Len(log)
  OBVIOUS
<1>3. (\A n \in 1..Len(log') : n > Len(log) =>
         ~(log'[n].type = "commitment" /\ log'[n].id.plan = p
             /\ log'[n].requires_approval))
        => Asking(p)' = Asking(p)
  BY <1>1, <1>2 DEF Asking
<1>4. (\A n \in 1..Len(log') : n > Len(log) =>
         ~(log'[n].type = "approval" /\ log'[n].trace.plan = p))
        => DecisionsFor(p)' = DecisionsFor(p)
  BY <1>1, <1>2 DEF DecisionsFor
<1>5. \A n \in Asking(p) \cup DecisionsFor(p) : log'[n] = log[n]
  BY <1>1 DEF Asking, DecisionsFor
<1> QED
  BY <1>3, <1>4, <1>5

\* So do its decisions, complete or absent.
LEMMA CompleteKept ==
  ASSUME NEW p, CompleteFor(p), Asking(p)' = Asking(p),
         DecisionsFor(p)' = DecisionsFor(p),
         \A n \in Asking(p) \cup DecisionsFor(p) : log'[n] = log[n]
  PROVE  CompleteFor(p)'
<1>1. CASE DecisionsFor(p) = {}
  BY <1>1 DEF CompleteFor
<1>2. CASE DecisionsFor(p) # {}
  <2>1. {log'[n].trace : n \in DecisionsFor(p)'}
          = {log[n].trace : n \in DecisionsFor(p)}
    OBVIOUS
  <2>2. {log'[n].id : n \in Asking(p)'} = {log[n].id : n \in Asking(p)}
    OBVIOUS
  <2>3. \A m, n \in DecisionsFor(p) :
          (m < n) <=> (log'[m].trace.index < log'[n].trace.index)
    BY <1>2 DEF CompleteFor
  <2>4. {log'[n].trace : n \in DecisionsFor(p)'} = {log'[n].id : n \in Asking(p)'}
    BY <1>2, <2>1, <2>2 DEF CompleteFor
  <2>5. \A m, n \in DecisionsFor(p)' :
          (m < n) <=> (log'[m].trace.index < log'[n].trace.index)
    BY <2>3
  <2> QED
    BY <2>4, <2>5 DEF CompleteFor
<1> QED
  BY <1>1, <1>2

\* A step that adds neither decisions nor what requires one.
LEMMA DecisionsQuiet ==
  ASSUME PlanTypeOK, DecisionsInvariant, [PlanNext]_planVars,
         UNCHANGED <<plans, asked>>, ppc' # "idle" => ppc # "idle",
         index' \in {index, index + 1},
         \A n \in 1..Len(log') : n > Len(log) =>
           /\ log'[n].type # "approval"
           /\ log'[n].type = "commitment" =>
                log'[n].id.plan \in 1..Len(plans) /\ ~log'[n].requires_approval
  PROVE  DecisionsInvariant'
<1>1. log \in Seq(PlanEntry) /\ Len(log') \in Nat /\ Extends(log', log)
  BY LogExtends DEF PlanTypeOK
<1>2. \A p : /\ Asking(p)' = Asking(p) /\ DecisionsFor(p)' = DecisionsFor(p)
             /\ \A n \in Asking(p) \cup DecisionsFor(p) : log'[n] = log[n]
  BY <1>1, RecordsKept
<1>3. RecordsNamePlans'
  BY <1>1 DEF DecisionsInvariant, RecordsNamePlans, Extends
<1>4. AskedOnRecord'
  <2> SUFFICES ASSUME ppc' # "idle"
               PROVE  AskedOnRecord'
    BY DEF AskedOnRecord
  <2>1. AskedOnRecord /\ ppc # "idle"
    BY DEF DecisionsInvariant
  <2>2. /\ \A m, n \in 1..Len(asked) : m < n => asked[m] < asked[n]
        /\ \A k \in 1..Len(asked) : asked[k] < index'
    BY <2>1 DEF AskedOnRecord, PlanTypeOK
  <2>3. /\ \A k \in 1..Len(asked) : \E n \in Asking(Len(plans))' :
             log'[n].id = [plan |-> Len(plans), index |-> asked[k]]
        /\ \A n \in Asking(Len(plans))' : \E k \in 1..Len(asked) :
             log'[n].id = [plan |-> Len(plans), index |-> asked[k]]
        /\ DecisionsFor(Len(plans))' = {}
    BY <1>2, <2>1 DEF AskedOnRecord
  <2> QED
    BY <2>2, <2>3 DEF AskedOnRecord
<1>5. DecisionsComplete'
  <2>1. \A p \in 1..Len(plans) : CompleteFor(p)
    BY DEF DecisionsInvariant, DecisionsComplete, CompleteFor, Asking, DecisionsFor
  <2>2. \A p \in 1..Len(plans') : CompleteFor(p)'
    BY <1>2, <2>1, CompleteKept
  <2> QED
    BY <2>2 DEF DecisionsComplete, CompleteFor, Asking, DecisionsFor
<1> QED
  BY <1>3, <1>4, <1>5 DEF DecisionsInvariant

\* A plan that begins has nothing on record.
LEMMA DecisionsStart ==
  ASSUME PlanTypeOK, DecisionsInvariant, NEW deltas, NEW entry, NEW pack, NEW gate,
         Starts(deltas, entry, pack, gate)
  PROVE  DecisionsInvariant'
<1>1. /\ UNCHANGED log /\ asked' = <<>> /\ index' = 1
      /\ plans \in Seq(ExecutedPlan)
      /\ \E executed : plans' = Append(plans, executed)
  BY DEF Starts, ExecutePlan, PlanTypeOK
<1>2. Len(plans') = Len(plans) + 1 /\ Len(plans) \in Nat
  BY <1>1
<1>3. RecordsNamePlans'
  BY <1>1, <1>2 DEF DecisionsInvariant, RecordsNamePlans
<1>4. \A p : Asking(p)' = Asking(p) /\ DecisionsFor(p)' = DecisionsFor(p)
  BY <1>1 DEF Asking, DecisionsFor
<1>5. PICK p : p = Len(plans) + 1
  OBVIOUS
<1>6. DecisionsFor(p) = {}
  <2>1. \A n \in 1..Len(log) : log[n].type = "approval" => log[n].trace.plan # p
    BY <1>2, <1>5 DEF DecisionsInvariant, RecordsNamePlans
  <2> QED
    BY <2>1 DEF DecisionsFor
<1>7. AskedOnRecord'
  <2>1. /\ \A n \in 1..Len(log') :
             ~(log'[n].type = "approval" /\ log'[n].trace.plan = Len(plans'))
        /\ \A n \in 1..Len(log') : log'[n].type = "commitment" =>
             log'[n].id.plan # Len(plans')
    BY <1>1, <1>2 DEF DecisionsInvariant, RecordsNamePlans
  <2>2. Asking(Len(plans))' = {} /\ DecisionsFor(Len(plans))' = {}
    BY <2>1 DEF Asking, DecisionsFor
  <2> QED
    BY <1>1, <2>2 DEF AskedOnRecord
<1>8. DecisionsComplete'
  <2>1. \A q \in 1..Len(plans) : CompleteFor(q)
    BY DEF DecisionsInvariant, DecisionsComplete, CompleteFor, Asking, DecisionsFor
  <2>2. ASSUME NEW q \in 1..Len(plans')
        PROVE  CompleteFor(q)'
    <3>1. CASE q = p
      BY <1>4, <1>6, <3>1 DEF CompleteFor
    <3>2. CASE q # p
      BY <1>1, <1>2, <1>4, <1>5, <2>1, <3>2, CompleteKept
    <3> QED
      BY <3>1, <3>2
  <2> QED
    BY <2>2 DEF DecisionsComplete, CompleteFor, Asking, DecisionsFor
<1> QED
  BY <1>3, <1>7, <1>8 DEF DecisionsInvariant

\* A delta that requires approval is put down to be asked for.
LEMMA DecisionsAsk ==
  ASSUME PlanTypeOK, DecisionsInvariant, [PlanNext]_planVars, EvaluateDelta,
         PlanDecision(plan, plan.deltas[index]).requires_approval
  PROVE  DecisionsInvariant'
<1> DEFINE new == [type |-> "commitment", id |-> thisId,
                   success |-> Clear(PlanDecision(plan, plan.deltas[index])),
                   requires_approval |->
                     PlanDecision(plan, plan.deltas[index]).requires_approval]
<1>1. /\ log' = Append(log, new) /\ asked' = Append(asked, index)
      /\ index' = index + 1 /\ UNCHANGED <<plans, ppc>> /\ ppc = "evaluate"
      /\ log \in Seq(PlanEntry) /\ asked \in Seq(Nat) /\ index \in Nat
      /\ Len(plans) \in Nat \ {0}
  BY DEF EvaluateDelta, Clear, PlanTypeOK
<1>2. /\ new.type = "commitment" /\ new.id = [plan |-> Len(plans), index |-> index]
      /\ new.id.plan = Len(plans) /\ new.requires_approval
  BY DEF thisId
<1> HIDE DEF new
<1>3. Len(log') \in Nat /\ Extends(log', log)
  BY LogExtends
<1>4. PICK last \in Nat : last = Len(log) + 1
  BY <1>1
<1>5. /\ Len(log') = last /\ log'[last] = new /\ Len(log) \in Nat
      /\ \A n \in 1..Len(log') : n > Len(log) => n = last
  BY <1>1, <1>4
<1>6. \A p : /\ DecisionsFor(p)' = DecisionsFor(p)
             /\ p # Len(plans) => Asking(p)' = Asking(p)
             /\ \A n \in Asking(p) \cup DecisionsFor(p) : log'[n] = log[n]
  BY <1>1, <1>2, <1>3, <1>5, RecordsKept
<1>7. RecordsNamePlans'
  <2> SUFFICES ASSUME NEW n \in 1..Len(log')
               PROVE  /\ log'[n].type = "commitment" =>
                           log'[n].id.plan \in 1..Len(plans)
                      /\ log'[n].type = "approval" =>
                           log'[n].trace.plan \in 0..Len(plans)
    BY <1>1 DEF RecordsNamePlans
  <2>1. CASE n = last
    BY <1>1, <1>2, <1>5, <2>1
  <2>2. CASE n # last
    BY <1>3, <1>4, <1>5, <2>2 DEF DecisionsInvariant, RecordsNamePlans, Extends
  <2> QED
    BY <2>1, <2>2
<1>8. AskedOnRecord'
  <2>1. PICK p : p = Len(plans)
    OBVIOUS
  <2>2. /\ \A m, n \in 1..Len(asked) : m < n => asked[m] < asked[n]
        /\ \A k \in 1..Len(asked) : asked[k] < index
        /\ \A k \in 1..Len(asked) : \E n \in Asking(p) :
             log[n].id = [plan |-> p, index |-> asked[k]]
        /\ \A n \in Asking(p) : \E k \in 1..Len(asked) :
             log[n].id = [plan |-> p, index |-> asked[k]]
        /\ DecisionsFor(p) = {}
    BY <1>1, <2>1 DEF DecisionsInvariant, AskedOnRecord
  <2>3. /\ Len(asked') = Len(asked) + 1 /\ Len(asked) \in Nat
        /\ asked'[Len(asked) + 1] = index
        /\ \A k \in 1..Len(asked) : asked'[k] = asked[k] /\ asked[k] \in Nat
    BY <1>1
  <2>4. Asking(p)' = Asking(p) \cup {last}
    <3>1. \A n \in 1..Len(log) : log'[n] = log[n] /\ n \in 1..Len(log') /\ n # last
      BY <1>3, <1>4, <1>5 DEF Extends
    <3>2. \A n \in 1..Len(log') : n = last \/ n \in 1..Len(log)
      BY <1>4, <1>5
    <3>3. last \in 1..Len(log')
      BY <1>4, <1>5
    <3> QED
      BY <1>2, <1>5, <2>1, <3>1, <3>2, <3>3 DEF Asking
  <2>5. \A k \in 1..Len(asked') : asked'[k] < index'
    <3> TAKE k \in 1..Len(asked')
    <3>1. k \in 1..Len(asked) \/ k = Len(asked) + 1
      BY <2>3
    <3> QED
      BY <1>1, <2>2, <2>3, <3>1
  <2>9. ASSUME NEW m \in 1..Len(asked'), NEW n \in 1..Len(asked'), m < n
        PROVE  asked'[m] < asked'[n]
    <3>1. m \in 1..Len(asked) /\ asked'[m] = asked[m] /\ asked[m] < index
      BY <2>2, <2>3, <2>9
    <3>2. CASE n \in 1..Len(asked)
      BY <2>2, <2>3, <2>9, <3>1, <3>2
    <3>3. CASE n = Len(asked) + 1
      BY <2>3, <3>1, <3>3
    <3> QED
      BY <2>3, <3>2, <3>3
  <2>6. ASSUME NEW k \in 1..Len(asked')
        PROVE  \E n \in Asking(p)' : log'[n].id = [plan |-> p, index |-> asked'[k]]
    <3>1. CASE k \in 1..Len(asked)
      BY <1>6, <2>2, <2>3, <2>4, <3>1
    <3>2. CASE k = Len(asked) + 1
      BY <1>2, <1>5, <2>1, <2>3, <2>4, <3>2
    <3> QED
      BY <2>3, <3>1, <3>2
  <2>7. ASSUME NEW n \in Asking(p)'
        PROVE  \E k \in 1..Len(asked') : log'[n].id = [plan |-> p, index |-> asked'[k]]
    <3>1. CASE n \in Asking(p)
      <4>1. PICK k \in 1..Len(asked) : log[n].id = [plan |-> p, index |-> asked[k]]
        BY <2>2, <3>1
      <4>2. log'[n] = log[n] /\ asked'[k] = asked[k] /\ k \in 1..Len(asked')
        BY <1>6, <2>3, <3>1
      <4> QED
        BY <4>1, <4>2
    <3>2. CASE n = last
      BY <1>2, <1>5, <2>1, <2>3, <3>2
    <3> QED
      BY <2>4, <3>1, <3>2
  <2>8. DecisionsFor(p)' = {}
    BY <1>6, <2>2
  <2> QED
    BY <1>1, <2>1, <2>5, <2>6, <2>7, <2>8, <2>9 DEF AskedOnRecord
<1>9. DecisionsComplete'
  <2>1. \A p \in 1..Len(plans) : CompleteFor(p)
    BY DEF DecisionsInvariant, DecisionsComplete, CompleteFor, Asking, DecisionsFor
  <2>2. ASSUME NEW p \in 1..Len(plans')
        PROVE  CompleteFor(p)'
    <3>1. CASE p = Len(plans)
      BY <1>1, <1>6, <3>1 DEF DecisionsInvariant, AskedOnRecord, CompleteFor
    <3>2. CASE p # Len(plans)
      BY <1>1, <1>6, <2>1, <3>2, CompleteKept
    <3> QED
      BY <3>1, <3>2
  <2> QED
    BY <2>2 DEF DecisionsComplete, CompleteFor, Asking, DecisionsFor
<1> QED
  BY <1>7, <1>8, <1>9 DEF DecisionsInvariant

\* The gate has answered: every question has its decision, in their order.
LEMMA DecisionsRecorded ==
  ASSUME PlanTypeOK, DecisionsInvariant, [PlanNext]_planVars, RecordDecisions
  PROVE  DecisionsInvariant'
<1>1. /\ log \in Seq(PlanEntry) /\ asked \in Seq(Nat) /\ answers \in Seq(Verdicts)
      /\ Len(plans) \in Nat \ {0} /\ Len(asked) \in Nat /\ Len(answers) = Len(asked)
      /\ log' = log \o AuditedAnswers /\ ppc = "gate" /\ ppc' = "idle"
      /\ UNCHANGED <<plans, index, asked>>
  BY DEF PlanTypeOK, RecordDecisions
<1>2. AuditedAnswers \in Seq(PlanEntry) /\ Len(AuditedAnswers) = Len(asked)
  BY <1>1, PlanAnswersType DEF PlanEntry
<1>3. \A k \in 1..Len(asked) :
        /\ AuditedAnswers[k].type = "approval"
        /\ AuditedAnswers[k].trace =
             IF plan.gate = "linked" THEN [plan |-> Len(plans), index |-> asked[k]]
             ELSE Unlinked
  BY <1>1 DEF AuditedAnswers
<1>4. Len(log') \in Nat /\ Extends(log', log)
  BY LogExtends
<1>5. /\ Len(log) \in Nat /\ Len(log') = Len(log) + Len(asked)
      /\ \A k \in 1..Len(asked) : log'[Len(log) + k] = AuditedAnswers[k]
  <2>1. PICK s \in Seq(PlanEntry) : s = AuditedAnswers
    BY <1>2
  <2>2. PICK l \in Seq(PlanEntry) : l = log
    BY <1>1
  <2>3. /\ Len(l) \in Nat /\ Len(s) \in Nat /\ Len(l \o s) = Len(l) + Len(s)
        /\ \A k \in 1..Len(s) : (l \o s)[Len(l) + k] = s[k]
    OBVIOUS
  <2> QED
    BY <1>1, <1>2, <2>1, <2>2, <2>3
<1>6. ASSUME NEW n \in 1..Len(log'), n > Len(log)
      PROVE  /\ n - Len(log) \in 1..Len(asked)
             /\ log'[n].type = "approval"
             /\ log'[n].trace =
                  IF plan.gate = "linked"
                  THEN [plan |-> Len(plans), index |-> asked[n - Len(log)]]
                  ELSE Unlinked
  <2>1. PICK k \in 1..Len(asked) : n = Len(log) + k /\ k = n - Len(log)
    <3>1. n - Len(log) \in 1..Len(asked) /\ n = Len(log) + (n - Len(log))
      BY <1>5, <1>6
    <3> QED
      BY <3>1
  <2> QED
    BY <1>3, <1>5, <2>1
<1>7. \A n \in 1..Len(log') : n > Len(log) =>
        /\ log'[n].type = "approval"
        /\ log'[n].trace.plan = IF plan.gate = "linked" THEN Len(plans) ELSE 0
  <2> TAKE n \in 1..Len(log')
  <2> HAVE n > Len(log)
  <2>1. CASE plan.gate = "linked"
    <3>1. \A i : [plan |-> Len(plans), index |-> i].plan = Len(plans)
      OBVIOUS
    <3> QED
      BY <1>6, <2>1, <3>1
  <2>2. CASE plan.gate # "linked"
    <3>1. Unlinked.plan = 0
      BY DEF Unlinked
    <3> QED
      BY <1>6, <2>2, <3>1
  <2> QED
    BY <2>1, <2>2
<1>8. \A p \in Nat \ {0} :
        /\ Asking(p)' = Asking(p)
        /\ p # Len(plans) \/ plan.gate # "linked" => DecisionsFor(p)' = DecisionsFor(p)
        /\ \A n \in Asking(p) \cup DecisionsFor(p) : log'[n] = log[n]
  BY <1>1, <1>4, <1>6, <1>7, RecordsKept
<1>9. RecordsNamePlans'
  <2> SUFFICES ASSUME NEW n \in 1..Len(log')
               PROVE  /\ log'[n].type = "commitment" =>
                           log'[n].id.plan \in 1..Len(plans)
                      /\ log'[n].type = "approval" =>
                           log'[n].trace.plan \in 0..Len(plans)
    BY <1>1 DEF RecordsNamePlans
  <2>1. CASE n > Len(log)
    <3>1. log'[n].type = "approval" /\ log'[n].trace.plan \in {Len(plans), 0}
      BY <1>7, <2>1
    <3> QED
      BY <1>1, <3>1
  <2>2. CASE ~(n > Len(log))
    BY <1>4, <1>5, <2>2 DEF DecisionsInvariant, RecordsNamePlans, Extends
  <2> QED
    BY <2>1, <2>2
<1>10. AskedOnRecord'
  BY <1>1 DEF AskedOnRecord
<1>11. ASSUME NEW p, p = Len(plans), plan.gate = "linked"
       PROVE  CompleteFor(p)'
  <2>1. /\ \A m, n \in 1..Len(asked) : m < n => asked[m] < asked[n]
        /\ \A k \in 1..Len(asked) : \E n \in Asking(p) :
             log[n].id = [plan |-> p, index |-> asked[k]]
        /\ \A n \in Asking(p) : \E k \in 1..Len(asked) :
             log[n].id = [plan |-> p, index |-> asked[k]]
        /\ DecisionsFor(p) = {}
    BY <1>1, <1>11 DEF DecisionsInvariant, AskedOnRecord
  <2>2. \A n \in DecisionsFor(p)' :
          /\ n \in Nat
          /\ n - Len(log) \in 1..Len(asked)
          /\ log'[n].trace = [plan |-> p, index |-> asked[n - Len(log)]]
    <3> SUFFICES ASSUME NEW n \in DecisionsFor(p)'
                 PROVE  n \in 1..Len(log') /\ n > Len(log)
      BY <1>6, <1>11
    <3>1. n \in 1..Len(log') /\ log'[n].type = "approval" /\ log'[n].trace.plan = p
      BY DEF DecisionsFor
    <3>2. n \in 1..Len(log) => n \in DecisionsFor(p)
      BY <1>4, <3>1 DEF DecisionsFor, Extends
    <3> QED
      BY <1>5, <2>1, <3>1, <3>2
  <2>3. \A k \in 1..Len(asked) :
          /\ Len(log) + k \in DecisionsFor(p)'
          /\ log'[Len(log) + k].trace = [plan |-> p, index |-> asked[k]]
    <3> TAKE k \in 1..Len(asked)
    <3>1. Len(log) + k \in 1..Len(log') /\ (Len(log) + k) - Len(log) = k
          /\ Len(log) + k > Len(log)
      BY <1>1, <1>5
    <3>2. log'[Len(log) + k].trace = [plan |-> p, index |-> asked[k]]
          /\ log'[Len(log) + k].type = "approval"
      BY <1>6, <1>11, <3>1
    <3> QED
      BY <3>1, <3>2 DEF DecisionsFor
  <2>4. {log'[n].trace : n \in DecisionsFor(p)'} = {log'[n].id : n \in Asking(p)'}
    <3>1. Asking(p)' = Asking(p) /\ \A n \in Asking(p) : log'[n] = log[n]
      BY <1>1, <1>8, <1>11
    <3>2. ASSUME NEW n \in DecisionsFor(p)'
          PROVE  \E m \in Asking(p)' : log'[m].id = log'[n].trace
      <4>1. PICK k \in 1..Len(asked) : log'[n].trace = [plan |-> p, index |-> asked[k]]
        BY <2>2
      <4>2. PICK m \in Asking(p) : log[m].id = [plan |-> p, index |-> asked[k]]
        BY <2>1
      <4> QED
        BY <3>1, <4>1, <4>2
    <3>3. ASSUME NEW m \in Asking(p)'
          PROVE  \E n \in DecisionsFor(p)' : log'[m].id = log'[n].trace
      <4>1. PICK k \in 1..Len(asked) : log[m].id = [plan |-> p, index |-> asked[k]]
        BY <2>1, <3>1
      <4> QED
        BY <2>3, <3>1, <4>1
    <3> QED
      BY <3>2, <3>3
  <2>5. \A m, n \in DecisionsFor(p)' :
          (m < n) <=> (log'[m].trace.index < log'[n].trace.index)
    <3> TAKE m, n \in DecisionsFor(p)'
    <3>1. PICK i \in 1..Len(asked) :
            /\ i = m - Len(log) /\ m \in Nat
            /\ log'[m].trace = [plan |-> p, index |-> asked[i]]
      BY <2>2
    <3>2. PICK j \in 1..Len(asked) :
            /\ j = n - Len(log) /\ n \in Nat
            /\ log'[n].trace = [plan |-> p, index |-> asked[j]]
      BY <2>2
    <3>3. log'[m].trace.index = asked[i] /\ log'[n].trace.index = asked[j]
      BY <3>1, <3>2
    <3>4. (m < n) <=> (i < j)
      BY <1>5, <3>1, <3>2
    <3>5. (i < j) <=> (asked[i] < asked[j])
      <4>1. /\ asked[i] \in Nat /\ asked[j] \in Nat /\ i \in Nat /\ j \in Nat
            /\ i < j => asked[i] < asked[j]
            /\ j < i => asked[j] < asked[i]
        BY <1>1, <2>1
      <4> QED
        BY <4>1
    <3> QED
      BY <3>3, <3>4, <3>5
  <2> QED
    BY <2>4, <2>5 DEF CompleteFor
<1>12. DecisionsComplete'
  <2>1. \A p \in 1..Len(plans) : CompleteFor(p)
    BY DEF DecisionsInvariant, DecisionsComplete, CompleteFor, Asking, DecisionsFor
  <2>2. ASSUME NEW p \in 1..Len(plans'), p # Len(plans) \/ plan.gate # "linked"
        PROVE  CompleteFor(p)'
    <3>1. p \in Nat \ {0} /\ p \in 1..Len(plans)
      BY <1>1
    <3>2. /\ Asking(p)' = Asking(p) /\ DecisionsFor(p)' = DecisionsFor(p)
          /\ \A n \in Asking(p) \cup DecisionsFor(p) : log'[n] = log[n]
      BY <1>8, <2>2, <3>1
    <3> QED
      BY <2>1, <3>1, <3>2, CompleteKept
  <2>3. \A p \in 1..Len(plans') : CompleteFor(p)'
    BY <1>11, <2>2
  <2> QED
    BY <2>3 DEF DecisionsComplete, CompleteFor, Asking, DecisionsFor
<1> QED
  BY <1>9, <1>10, <1>12 DEF DecisionsInvariant

(***************************************************************************)
(* The approvals of a plan are on record all together or not at all, one   *)
(* for each of its commitments that requires approval and in their order,  *)
(* even if the provider raises after some answers (approval.py).           *)
(***************************************************************************)
THEOREM DecisionsAlwaysComplete == PlanSpec => []DecisionsComplete
<1>1. PlanInit => DecisionsInvariant
  BY DEF PlanInit, DecisionsInvariant, RecordsNamePlans, AskedOnRecord,
         DecisionsComplete
<1>2. PlanTypeOK /\ DecisionsInvariant /\ [PlanNext]_planVars => DecisionsInvariant'
  <2> SUFFICES ASSUME PlanTypeOK, DecisionsInvariant, [PlanNext]_planVars
               PROVE  DecisionsInvariant'
    OBVIOUS
  <2>1. ASSUME NEW deltas, NEW entry, NEW pack, NEW gate,
               Starts(deltas, entry, pack, gate)
        PROVE  DecisionsInvariant'
    BY <2>1, DecisionsStart
  <2>2. CASE /\ EvaluateDelta
             /\ PlanDecision(plan, plan.deltas[index]).requires_approval
    BY <2>2, DecisionsAsk
  <2>3. CASE /\ EvaluateDelta
             /\ ~PlanDecision(plan, plan.deltas[index]).requires_approval
    <3> DEFINE new == [type |-> "commitment", id |-> thisId,
                       success |-> Clear(PlanDecision(plan, plan.deltas[index])),
                       requires_approval |->
                         PlanDecision(plan, plan.deltas[index]).requires_approval]
    <3>1. /\ log' = Append(log, new) /\ UNCHANGED <<plans, asked>>
          /\ index' \in {index, index + 1} /\ ppc # "idle"
          /\ log \in Seq(PlanEntry) /\ Len(plans) \in Nat \ {0}
      BY <2>3 DEF EvaluateDelta, PlanTypeOK
    <3>2. /\ new.type = "commitment" /\ new.id.plan = Len(plans)
          /\ ~new.requires_approval
      BY <2>3 DEF thisId
    <3> HIDE DEF new
    <3>3. \A n \in 1..Len(log') : n > Len(log) => log'[n] = new
      BY <3>1
    <3> QED
      BY <3>1, <3>2, <3>3, DecisionsQuiet
  <2>4. CASE ReviseModel
    <3>1. \A n \in 1..Len(log') : n > Len(log) => log'[n].type = "revision"
      <4>1. PICK new : /\ log' = Append(log, new) /\ new.type = "revision"
        BY <2>4 DEF ReviseModel
      <4> QED
        BY <4>1 DEF PlanTypeOK
    <3> QED
      BY <2>4, <3>1, DecisionsQuiet DEF ReviseModel
  <2>5. CASE RecordDecisions
    BY <2>5, DecisionsRecorded
  <2>6. CASE /\ UNCHANGED <<log, plans, asked, index>>
             /\ ppc' # "idle" => ppc # "idle"
    BY <2>6, DecisionsQuiet
  <2> QED
    BY <2>1, <2>2, <2>3, <2>4, <2>5, <2>6, NextCases
    DEF PlanStep, ReturnResult, OpenGate, DeltasDone, Decide, ProviderRaises, planVars
<1>3. DecisionsInvariant => DecisionsComplete
  BY DEF DecisionsInvariant
<1> QED
  BY <1>1, <1>2, <1>3, PlanTypeCorrect, PTL DEF PlanSpec

--------------------------------------------------------------------------------
(***************************************************************************)
(* Runs: nothing is done that the deliberation of its run did not call for, *)
(* every revision was let through by the policy of its way, replay does not *)
(* jump where the runtime takes the state from the log, and a compiler is  *)
(* heard of once.                                                          *)
(*                                                                         *)
(* A step is looked at twice: for what it adds to the log (Adds), and for  *)
(* what it does to the runs (Begins, Learns). The parts of RuntimeInvariant*)
(* are preserved by one lemma each, from these two.                        *)
(***************************************************************************)

\* One more action, unless the last one ends the chain.
Prolonged(task, reads, previous) ==
  IF previous # <<>> /\ previous[Len(previous)] \in TerminalActions
  THEN previous
  ELSE Append(previous, DeliberateChainStep(task, reads, previous))

\* f is the chain after each of the first n turns of its loop.
Chains(f, task, reads, n) ==
  f = [k \in 0..n |-> IF k = 0 THEN <<>> ELSE Prolonged(task, reads, f[k - 1])]

LEMMA ProlongedType ==
  ASSUME NEW task, NEW reads, NEW previous \in Seq(NextAction)
  PROVE  /\ Prolonged(task, reads, previous) \in Seq(NextAction)
         /\ Prolonged(task, reads, previous) # <<>>
<1>1. DeliberateChainStep(task, reads, previous) \in NextAction
  BY DEF DeliberateChainStep, DeliberateNextAction, NextAction
<1> QED
  BY <1>1 DEF Prolonged

\* There is such a function for every limit: a least limit without one would
\* not be the least.
LEMMA ChainsExist ==
  ASSUME NEW task, NEW reads, NEW n \in Nat
  PROVE  \E f : Chains(f, task, reads, n)
<1> DEFINE None_(k) == \A f : ~Chains(f, task, reads, k)
           T == {k \in Nat : None_(k)}
<1> SUFFICES ASSUME T # {}
             PROVE  FALSE
  OBVIOUS
<1>1. PICK least \in T : \A m \in T : least <= m
  <2>1. T \subseteq Nat
    OBVIOUS
  <2> HIDE DEF T
  <2> QED
    BY <2>1, LeastNumber
<1>2. CASE least = 0
  <2> DEFINE f == [k \in 0..0 |-> <<>>]
  <2>1. Chains(f, task, reads, 0)
    BY DEF Chains
  <2> QED
    BY <1>1, <1>2, <2>1
<1>3. CASE least # 0
  <2>1. least - 1 \in Nat /\ least - 1 \notin T
    BY <1>1, <1>3
  <2>2. PICK f : Chains(f, task, reads, least - 1)
    BY <2>1
  <2> DEFINE last == Prolonged(task, reads, f[least - 1])
             g == [k \in 0..least |-> IF k = least THEN last ELSE f[k]]
  <2>3. \A k \in 0..(least - 1) :
          f[k] = IF k = 0 THEN <<>> ELSE Prolonged(task, reads, f[k - 1])
    BY <2>2 DEF Chains
  <2>4. \A k \in 0..least :
          g[k] = IF k = 0 THEN <<>> ELSE Prolonged(task, reads, g[k - 1])
    <3> TAKE k \in 0..least
    <3>1. CASE k = least
      <4>1. least - 1 \in 0..least /\ least - 1 # least
        BY <1>3, <2>1
      <4>2. g[least - 1] = f[least - 1]
        BY <4>1
      <4> QED
        BY <1>3, <3>1, <4>2
    <3>2. CASE k # least
      <4>1. k \in 0..(least - 1) /\ g[k] = f[k]
        BY <3>2
      <4>2. k # 0 => k - 1 \in 0..least /\ k - 1 # least
        BY <4>1
      <4>3. k # 0 => g[k - 1] = f[k - 1]
        BY <4>2
      <4> QED
        BY <2>3, <4>1, <4>3
    <3> QED
      BY <3>1, <3>2
  <2>5. Chains(g, task, reads, least)
    <3> DEFINE h == [k \in 0..least |->
                       IF k = 0 THEN <<>> ELSE Prolonged(task, reads, g[k - 1])]
    <3>1. g = h
      BY <2>4
    <3> QED
      BY <3>1 DEF Chains
  <2> QED
    BY <1>1, <2>5
<1> QED
  BY <1>2, <1>3

\* A chain is one of actions, with none only if it may take no steps.
LEMMA DeliberateChainType ==
  ASSUME NEW task, NEW reads, NEW limit \in Nat
  PROVE  /\ DeliberateChain(task, reads, limit) \in Seq(NextAction)
         /\ DeliberateChain(task, reads, limit) = <<>> <=> limit = 0
<1> DEFINE chain == CHOOSE f : Chains(f, task, reads, limit)
<1>1. Chains(chain, task, reads, limit)
  BY ChainsExist
<1>2. DeliberateChain(task, reads, limit) = chain[limit]
  BY DEF DeliberateChain, Chains, Prolonged
<1> HIDE DEF chain
<1>3. /\ chain[0] = <<>>
      /\ \A n \in 1..limit : chain[n] = Prolonged(task, reads, chain[n - 1])
  BY <1>1 DEF Chains
<1>4. \A n \in 0..limit : chain[n] \in Seq(NextAction)
  <2> DEFINE T == {n \in 0..limit : chain[n] \notin Seq(NextAction)}
  <2> SUFFICES ASSUME T # {}
               PROVE  FALSE
    OBVIOUS
  <2>1. PICK least \in T : \A m \in T : least <= m
    <3>1. T \subseteq Nat
      OBVIOUS
    <3> HIDE DEF T
    <3> QED
      BY <3>1, LeastNumber
  <2>2. least # 0
    <3>1. chain[0] \in Seq(NextAction) /\ chain[least] \notin Seq(NextAction)
      BY <1>3, <2>1
    <3> QED
      BY <3>1
  <2>3. least \in 1..limit /\ least - 1 \in 0..limit /\ least - 1 \notin T
    BY <2>1, <2>2
  <2>4. chain[least - 1] \in Seq(NextAction)
    BY <2>3
  <2> QED
    BY <1>3, <2>1, <2>3, <2>4, ProlongedType
<1>5. limit # 0 => chain[limit] # <<>>
  <2>1. limit # 0 => limit \in 1..limit /\ limit - 1 \in 0..limit
    OBVIOUS
  <2> QED
    BY <1>3, <1>4, <2>1, ProlongedType
<1> QED
  BY <1>2, <1>3, <1>4, <1>5

\* The actions chosen: none only in a chain of no steps.  The last one, or one
\* that is not recorded, is the one that is taken.
LEMMA ChosenActionsType ==
  ASSUME run \in Run
  PROVE  /\ ChosenActions \in Seq(NextAction)
         /\ ChosenActions = <<>> <=> run.mode = "chain" /\ run.setup.steps = 0
         /\ FinalAction \in NextAction
<1>1. Reads(run.setup) \in BOOLEAN /\ run.task \in TaskSpec /\ run.setup.steps \in Nat
  BY DEF Reads, Run, Setup
<1>2. DeliberateNextAction(run.task, Reads(run.setup)) \in NextAction
  BY DEF DeliberateNextAction, NextAction
<1>3. /\ ChosenActions \in Seq(NextAction)
      /\ ChosenActions = <<>> <=> run.mode = "chain" /\ run.setup.steps = 0
  BY <1>1, <1>2, DeliberateChainType DEF ChosenActions
<1>4. ChosenActions # <<>> => ChosenActions[Len(ChosenActions)] \in NextAction
  BY <1>3
<1> QED
  BY <1>2, <1>3, <1>4 DEF FinalAction

\* A redirected task gets an empty plan, and any plan is one of deltas.
LEMMA CandidateDeltasType ==
  ASSUME NEW task, NEW action
  PROVE  /\ CandidateDeltas(task, action) \in Seq(RevisionDelta)
         /\ CandidateDeltas(task, action) # <<>> => action # "propose_redirect"
<1>1. /\ GoalDelta \in RevisionDelta /\ BeliefDelta \in RevisionDelta
      /\ MemoryDelta \in RevisionDelta /\ RiskDelta \in RevisionDelta
  BY DEF RevisionDelta, RevisionTargetKind, RefRoot, GoalDelta, BeliefDelta,
         MemoryDelta, RiskDelta
<1> DEFINE four == <<GoalDelta, BeliefDelta, BeliefDelta, MemoryDelta>>
           more == IF task.risk # "low" THEN <<RiskDelta>> ELSE <<>>
<1>2. four \in Seq(RevisionDelta) /\ more \in Seq(RevisionDelta)
  BY <1>1
<1>3. CandidateDeltas(task, action) =
        IF action = "propose_redirect" THEN <<>> ELSE four \o more
  BY DEF CandidateDeltas
<1> HIDE DEF four, more
<1> QED
  BY <1>2, <1>3

\* A call of read_docs is proposed by a step that asks for it.
LEMMA CallFollowsRequest ==
  ASSUME NEW task \in TaskSpec, NEW reads \in BOOLEAN, NEW action
  PROVE  /\ ProposesReadOnlyCall(task, reads, action) \in BOOLEAN
         /\ ProposesReadOnlyCall(task, reads, action) => action = "request_read_tool"
  BY DEF ProposesReadOnlyCall, TaskSpec

\* What entries the runtime writes are entries of its log.
LEMMA EntryTypes ==
  /\ Received \in RuntimeEntry
  /\ Noted \in RuntimeEntry
  /\ \A o \in {"requested", "succeeded", "rejected"} : Compiler(o) \in RuntimeEntry
  /\ \A o \in {"requested", "succeeded", "failed"} : Provider(o) \in RuntimeEntry
  /\ \A action \in NextAction : Deliberation(action) \in RuntimeEntry
  /\ \A id \in GatewayCalls, v \in {"deny", "allow", "requires_approval"} :
       Proposed(id, v) \in RuntimeEntry
  /\ \A id \in GatewayCalls, s, c \in BOOLEAN :
       G!Commitment(id, s, c) \in RuntimeEntry
  /\ \A id \in GatewayCalls, v \in {"approved", "rejected"} :
       G!Approval(id, v) \in RuntimeEntry
  /\ \A id \in GatewayCalls, s \in {"succeeded", "failed"} :
       G!ToolResult(id, s) \in RuntimeEntry
  /\ \A id \in GatewayCalls : G!Observation(id) \in RuntimeEntry
  /\ \A id \in CommitmentId, s, a \in BOOLEAN :
       [type |-> "commitment", id |-> id, success |-> s, requires_approval |-> a]
         \in RuntimeEntry
  /\ \A id \in CommitmentId, p, r \in Nat :
       [type |-> "revision", cause |-> id, prior |-> p, result |-> r] \in RuntimeEntry
<1>1. Received \in RuntimeEntry /\ Noted \in RuntimeEntry
  BY DEF RuntimeEntry, Received, Noted, Deliberation
<1>2. \A o \in {"requested", "succeeded", "rejected"} : Compiler(o) \in RuntimeEntry
  BY DEF RuntimeEntry, Compiler
<1>3. \A o \in {"requested", "succeeded", "failed"} : Provider(o) \in RuntimeEntry
  BY DEF RuntimeEntry, Provider
<1>4. \A action \in NextAction : Deliberation(action) \in RuntimeEntry
  BY DEF RuntimeEntry, Deliberation
<1>6. \A id \in GatewayCalls, v \in {"deny", "allow", "requires_approval"} :
        Proposed(id, v) \in RuntimeEntry
  BY DEF RuntimeEntry, Proposed
<1>7. \A id \in GatewayCalls, s, c \in BOOLEAN :
        G!Commitment(id, s, c) \in RuntimeEntry
  BY DEF RuntimeEntry, G!Commitment, G!CommitmentEntry
<1>8. \A id \in GatewayCalls, v \in {"approved", "rejected"} :
        G!Approval(id, v) \in RuntimeEntry
  BY DEF RuntimeEntry, G!Approval, G!ApprovalEntry
<1>9. \A id \in GatewayCalls, s \in {"succeeded", "failed"} :
        G!ToolResult(id, s) \in RuntimeEntry
  BY DEF RuntimeEntry, G!ToolResult, G!ResultEntry
<1>10. \A id \in GatewayCalls : G!Observation(id) \in RuntimeEntry
  BY DEF RuntimeEntry, G!Observation, G!ObservationEntry
<1>11. \A id \in CommitmentId, s, a \in BOOLEAN :
         [type |-> "commitment", id |-> id, success |-> s, requires_approval |-> a]
           \in RuntimeEntry
  BY DEF RuntimeEntry, PlanEntry, PlanCommitmentEntry
<1>12. \A id \in CommitmentId, p, r \in Nat :
         [type |-> "revision", cause |-> id, prior |-> p, result |-> r] \in RuntimeEntry
  BY DEF RuntimeEntry, PlanEntry, PlanRevisionEntry
<1> QED
  BY <1>1, <1>2, <1>3, <1>4, <1>6, <1>7, <1>8, <1>9, <1>10, <1>11, <1>12

\* The state replayed from a well-typed log is a number, and so is the number
\* of its revisions.
LEMMA ReplayedStateType ==
  ASSUME log \in Seq(RuntimeEntry)
  PROVE  ReplayedState(log) \in Nat /\ Cardinality(RevisionsIn(log)) \in Nat
<1>1. \A m \in 1..Len(log) : IsRevision(log[m]) => log[m].result \in Nat
  <2> TAKE m \in 1..Len(log)
  <2>1. log[m] \in RuntimeEntry
    OBVIOUS
  <2> QED
    BY <2>1 DEF RuntimeEntry, PlanEntry, PlanCommitmentEntry, PlanRevisionEntry,
       PlanApprovalEntry, G!CommitmentEntry, G!ApprovalEntry, G!ResultEntry,
       G!ObservationEntry, IsRevision
<1>2. ReplayedState(log) \in Nat
  BY <1>1, ReplayType DEF ReplayedState
<1>3. RevisionsIn(log) \subseteq 1..Len(log) /\ Len(log) \in Nat
  BY DEF RevisionsIn, RevisionsUpTo
<1>4. IsFiniteSet(1..Len(log))
  BY <1>3, FS_Interval
<1>5. IsFiniteSet(RevisionsIn(log))
  BY <1>3, <1>4, FS_Subset
<1> QED
  BY <1>2, <1>5, FS_CardinalityType

\* A promotion: its commitment, and a revision if it is let through.
LEMMA PromotionShape ==
  LET decision == EvaluateDeltaPolicyInDomain(PromotionDelta, run.setup.pack)
      commitment ==
        [type |-> "commitment", id |-> PromotionId, success |-> Clear(decision),
         requires_approval |-> decision.requires_approval]
      revision ==
        [type |-> "revision", cause |-> PromotionId, prior |-> ReplayedState(log),
         result |-> Cardinality(RevisionsIn(log)) + 1]
  IN  \/ ~Clear(decision) /\ Promotion = <<commitment>>
      \/ Clear(decision) /\ Promotion = <<commitment, revision>>
  BY DEF Promotion

\* What a policy answers, with and without a domain overlay.
LEMMA DecisionType ==
  ASSUME NEW delta, NEW pack
  PROVE  /\ LET decision == EvaluateDeltaPolicyInDomain(delta, pack)
            IN  decision.allowed \in BOOLEAN /\ decision.requires_approval \in BOOLEAN
         /\ LET decision == EvaluateDeltaPolicy(delta)
            IN  decision.allowed \in BOOLEAN /\ decision.requires_approval \in BOOLEAN
  BY DEF EvaluateDeltaPolicyInDomain, ApplyDomainOverlay, EvaluateDeltaPolicy,
         Permit, Ask, Refuse

\* What a promotion writes are entries of the log.
LEMMA PromotionType ==
  ASSUME log \in Seq(RuntimeEntry), plans \in Seq(ExecutedPlan)
  PROVE  Promotion \in Seq(RuntimeEntry)
<1>1. PromotionId \in CommitmentId
  BY DEF PromotionId, CommitmentId
<1> DEFINE decision == EvaluateDeltaPolicyInDomain(PromotionDelta, run.setup.pack)
           commitment ==
             [type |-> "commitment", id |-> PromotionId, success |-> Clear(decision),
              requires_approval |-> decision.requires_approval]
           revision ==
             [type |-> "revision", cause |-> PromotionId, prior |-> ReplayedState(log),
              result |-> Cardinality(RevisionsIn(log)) + 1]
<1>2. Clear(decision) \in BOOLEAN /\ decision.requires_approval \in BOOLEAN
  BY DecisionType DEF Clear
<1>3. Promotion = <<commitment>> \/ Promotion = <<commitment, revision>>
  BY PromotionShape
<1> HIDE DEF decision
<1>4. commitment \in RuntimeEntry /\ revision \in RuntimeEntry
  BY <1>1, <1>2, EntryTypes, ReplayedStateType
<1> HIDE DEF commitment, revision
<1>5. <<commitment>> \in Seq(RuntimeEntry)
      /\ <<commitment, revision>> \in Seq(RuntimeEntry)
  BY <1>4
<1> QED
  BY <1>3, <1>5

--------------------------------------------------------------------------------
(***************************************************************************)
(* What a step adds to the log, by the types of the entries.               *)
(***************************************************************************)
GatewayEntries ==
  G!CommitmentEntry \cup G!ApprovalEntry \cup G!ResultEntry \cup G!ObservationEntry

\* A revision by ReviseModel is all its step writes; a promotion comes last,
\* after the observation and its commitment, from the state of the log.
Grounded(entries, n) ==
  \/ /\ ReviseModel
     /\ rpc = "plan"
     /\ entries = <<[type |-> "revision", cause |-> thisId, prior |-> prior,
                     result |-> index]>>
  \/ /\ rpc = "tool"
     /\ n = 4 /\ Len(entries) = 4
     /\ entries[2].type = "observation"
     /\ entries[3].type = "commitment"
     /\ entries[3].id = PromotionId
     /\ entries[3].success
     /\ entries[4].cause = PromotionId
     /\ entries[4].prior = ReplayedState(log)
     /\ Clear(EvaluateDeltaPolicyInDomain(PromotionDelta, run.setup.pack))

\* What the step that writes an entry has on its side: only the deliberation
\* deliberates, only what was decided is done, only a proposed call is run, and a
\* verdict on the compiler is given while it is waited for.
Justified(entries, n) ==
  LET entry == entries[n]
  IN  /\ Chooses(entry) => rpc = "deliberate"
      /\ entry.type \in Acting =>
           /\ rpc \in {"plan", "tool", "gate", "gateway"}
           /\ run.deltas # <<>> \/ run.call
      /\ entry.type \in ToolActing => run.call
      /\ entry.type = "compiler" =>
           entry.outcome = "requested" \/ rpc = "compiling"
      /\ IsRevision(entry) => Grounded(entries, n)

\* The step appends these entries, each with what justifies it.
Adds(entries) ==
  /\ entries \in Seq(RuntimeEntry)
  /\ log' = log \o entries
  /\ \A n \in 1..Len(entries) : Justified(entries, n)

\* Entries of these types need no justification.
LEMMA QuietAdds ==
  ASSUME log \in Seq(RuntimeEntry), NEW entries \in Seq(RuntimeEntry),
         log' = log \o entries,
         \A n \in 1..Len(entries) :
           /\ entries[n].type \notin Acting /\ ~Chooses(entries[n])
           /\ entries[n].type = "compiler" =>
                entries[n].outcome = "requested" \/ rpc = "compiling"
  PROVE  Adds(entries)
  BY DEF Adds, Justified, Chooses, Acting, ToolActing, IsRevision

\* Sequences of up to four entries, and how they are put together.
LEMMA ShortSequences ==
  ASSUME NEW S, NEW a \in S, NEW b \in S, NEW c \in S
  PROVE  /\ <<a>> \in Seq(S) /\ <<a, b>> \in Seq(S) /\ <<a, b, c>> \in Seq(S)
         /\ <<a, b>> \o <<c>> = <<a, b, c>>
         /\ \A s \in Seq(S) : Append(s, a) = s \o <<a>>
<1>1. <<a>> \in Seq(S) /\ <<a, b>> \in Seq(S)
  OBVIOUS
<1>2. <<a, b, c>> \in Seq(S)
  OBVIOUS
<1>3. <<a, b>> \o <<c>> = <<a, b, c>>
  <2> DEFINE s == <<a, b>> \o <<c>>
  <2>1. s \in Seq(S) /\ Len(s) = 3 /\ s[1] = a /\ s[2] = b /\ s[3] = c
    OBVIOUS
  <2> HIDE DEF s
  <2>2. s = <<a, b, c>>
    BY <1>2, <2>1, SeqEqual
  <2> QED
    BY <2>2 DEF s
<1>4. \A s \in Seq(S) : Append(s, a) = s \o <<a>>
  OBVIOUS
<1> QED
  BY <1>1, <1>2, <1>3, <1>4

\* The sequence with one more at its end.
LEMMA LastAppended ==
  ASSUME NEW S, NEW s \in Seq(S), NEW e
  PROVE  /\ Append(s, e) # <<>>
         /\ Append(s, e)[Len(Append(s, e))] = e
         /\ Len(Append(s, e)) = Len(s) + 1
         /\ \A n \in 1..Len(s) : Append(s, e)[n] = s[n]
  OBVIOUS

\* A promotion follows the two entries of a tool that returned.
LEMMA JoinedSequences ==
  ASSUME NEW S, NEW a \in S, NEW b \in S, NEW c \in S, NEW d \in S
  PROVE  /\ <<a, b, c, d>> \in Seq(S)
         /\ <<a, b>> \o <<c, d>> = <<a, b, c, d>>
<1>1. <<a, b, c, d>> \in Seq(S)
  OBVIOUS
<1>2. <<a, b>> \o <<c, d>> = <<a, b, c, d>>
  <2> DEFINE s == <<a, b>> \o <<c, d>>
  <2>1. /\ s \in Seq(S) /\ Len(s) = 4
        /\ s[1] = a /\ s[2] = b /\ s[3] = c /\ s[4] = d
    OBVIOUS
  <2> HIDE DEF s
  <2>2. s = <<a, b, c, d>>
    BY <1>1, <2>1, SeqEqual
  <2> QED
    BY <2>2 DEF s
<1> QED
  BY <1>1, <1>2

\* Nothing is added.
LEMMA NothingAdded ==
  ASSUME log \in Seq(RuntimeEntry), UNCHANGED log
  PROVE  Adds(<<>>)
  BY DEF Adds

\* One entry is added.
LEMMA EntryAdded ==
  ASSUME log \in Seq(RuntimeEntry), NEW entry \in RuntimeEntry,
         log' = Append(log, entry) \/ log' = log \o <<entry>>,
         Justified(<<entry>>, 1)
  PROVE  Adds(<<entry>>)
<1>1. <<entry>> \in Seq(RuntimeEntry) /\ log' = log \o <<entry>>
  OBVIOUS
<1>2. Len(<<entry>>) = 1
  OBVIOUS
<1> HIDE DEF Justified, Chooses
<1> QED
  BY <1>1, <1>2 DEF Adds

\* The gateway adds commitments, approvals, results and observations; it
\* promotes nothing.
LEMMA GatewayAdds ==
  ASSUME RuntimeTypeOK, Control, RunGateway
  PROVE  \E entries : Adds(entries)
<1> USE DEF RuntimeTypeOK
<1>1. /\ rpc = "gateway" /\ run.call /\ calls = <<thisCall>>
      /\ G!call \in GatewayCalls
  <2>1. Len(runs) \in 1..MaxRuns
    BY RuntimeAssumption DEF RunGateway, Control
  <2>2. thisCall \in GatewayCalls
    BY <2>1 DEF thisCall, GatewayCalls
  <2> QED
    BY <2>2 DEF RunGateway, Control, G!call
<1>2. \E entries \in Seq(GatewayEntries) : log' = log \o entries
  <2>1. /\ \A s, c \in BOOLEAN : G!Commitment(G!call, s, c) \in GatewayEntries
        /\ \A v \in {"approved", "rejected"} : G!Approval(G!call, v) \in GatewayEntries
        /\ \A s \in {"succeeded", "failed"} : G!ToolResult(G!call, s) \in GatewayEntries
        /\ G!Observation(G!call) \in GatewayEntries
    BY <1>1 DEF GatewayEntries, G!Commitment, G!CommitmentEntry, G!Approval,
       G!ApprovalEntry, G!ToolResult, G!ResultEntry, G!Observation,
       G!ObservationEntry
  <2>2. CASE UNCHANGED log
    <3>1. <<>> \in Seq(GatewayEntries) /\ log' = log \o <<>>
      BY <2>2
    <3> QED
      BY <3>1
  <2>0. log \in Seq(RuntimeEntry) /\ GatewayEntries \subseteq RuntimeEntry
    BY DEF GatewayEntries, RuntimeEntry
  <2>3. CASE G!RecordDenied
    <3>1. <<G!ToolResult(G!call, "failed")>> \in Seq(GatewayEntries)
      BY <2>1, ShortSequences
    <3>2. log' = log \o <<G!ToolResult(G!call, "failed")>>
      BY <2>3, <2>1, <2>0, ShortSequences DEF G!RecordDenied
    <3> QED
      BY <3>1, <3>2
  <2>4. CASE G!RecordCommitment
    <3>1. <<G!Commitment(G!call, TRUE, FALSE)>> \in Seq(GatewayEntries)
      BY <2>1, ShortSequences
    <3>2. log' = log \o <<G!Commitment(G!call, TRUE, FALSE)>>
      BY <2>4, <2>1, <2>0, ShortSequences DEF G!RecordCommitment
    <3> QED
      BY <3>1, <3>2
  <2>5. CASE G!HandlerMissing \/ G!HandlerRaises
    <3>1. <<G!ToolResult(G!call, "failed"),
            G!Commitment(G!call, FALSE, TRUE)>> \in Seq(GatewayEntries)
      BY <2>1, ShortSequences
    <3>2. log' = log \o <<G!ToolResult(G!call, "failed"),
            G!Commitment(G!call, FALSE, TRUE)>>
      BY <2>5 DEF G!HandlerMissing, G!HandlerRaises
    <3> QED
      BY <3>1, <3>2
  <2>6. CASE G!CheckApprovalApproved
    <3>1. <<G!Commitment(G!call, TRUE, FALSE),
            G!Approval(G!call, "approved")>> \in Seq(GatewayEntries)
      BY <2>1, ShortSequences
    <3>2. log' = log \o <<G!Commitment(G!call, TRUE, FALSE),
            G!Approval(G!call, "approved")>>
      BY <2>6 DEF G!CheckApprovalApproved
    <3> QED
      BY <3>1, <3>2
  <2>7. CASE G!RecordApprovalDenied
    <3>1. <<G!Approval(G!call, "rejected"),
            G!ToolResult(G!call, "failed")>> \in Seq(GatewayEntries)
      BY <2>1, ShortSequences
    <3>2. log' = log \o <<G!Approval(G!call, "rejected"),
            G!ToolResult(G!call, "failed")>>
      BY <2>7 DEF G!RecordApprovalDenied
    <3> QED
      BY <3>1, <3>2
  <2>8. CASE G!HandlerReturns
    <3>1. <<G!ToolResult(G!call, "succeeded"),
            G!Observation(G!call), G!Commitment(G!call, TRUE, TRUE)>>
            \in Seq(GatewayEntries)
      BY <2>1, ShortSequences
    <3>2. log' = log \o <<G!ToolResult(G!call, "succeeded"),
            G!Observation(G!call), G!Commitment(G!call, TRUE, TRUE)>>
      BY <2>8 DEF G!HandlerReturns
    <3> QED
      BY <3>1, <3>2
  <2> QED
    BY <2>2, <2>3, <2>4, <2>5, <2>6, <2>7, <2>8
    DEF RunGateway, G!GatewayStep, G!ProviderStep, G!HandlerStep, G!EnterHandler,
        G!NoPromotion, G!PromoteObservation, G!CheckApprovalRaises
<1>3. PICK entries \in Seq(GatewayEntries) : log' = log \o entries
  BY <1>2
<1>4. entries \in Seq(RuntimeEntry)
  BY DEF GatewayEntries, RuntimeEntry
<1>5. ASSUME NEW n \in 1..Len(entries)
      PROVE  Justified(entries, n)
  <2>1. entries[n] \in GatewayEntries
    OBVIOUS
  <2>2. entries[n].type \in {"commitment", "approval", "tool_result", "observation"}
    BY <2>1 DEF GatewayEntries, G!CommitmentEntry, G!ApprovalEntry, G!ResultEntry,
       G!ObservationEntry
  <2> QED
    BY <1>1, <2>2 DEF Justified, Chooses, IsRevision
<1> QED
  BY <1>3, <1>4, <1>5 DEF Adds

\* The plan of the run is judged and revised, one entry at a time.
LEMMA DeltasAdd ==
  ASSUME RuntimeTypeOK, Control, PlanOfRun, ReadyToRevise, RunDeltas
  PROVE  \E entries : Adds(entries)
<1> USE DEF RuntimeTypeOK
<1>1. thisId \in CommitmentId
  BY DEF thisId, CommitmentId
<1>2. CASE EvaluateDelta
  <2> DEFINE decision == PlanDecision(plan, plan.deltas[index])
             entry == [type |-> "commitment", id |-> thisId,
                       success |-> Clear(decision),
                       requires_approval |-> decision.requires_approval]
  <2>1. log' = Append(log, entry)
    BY <1>2 DEF EvaluateDelta
  <2>2. decision.allowed \in BOOLEAN /\ decision.requires_approval \in BOOLEAN
    BY DecisionType DEF PlanDecision
  <2>3. run.deltas # <<>> /\ rpc = "plan"
    BY <1>2 DEF EvaluateDelta, RunDeltas, PlanOfRun
  <2> HIDE DEF decision
  <2>4. entry \in RuntimeEntry
    BY <1>1, <2>2, EntryTypes DEF Clear
  <2>5. entry.type = "commitment"
    OBVIOUS
  <2> HIDE DEF entry
  <2>6. Justified(<<entry>>, 1)
    BY <2>3, <2>5 DEF Justified, Chooses, Acting, ToolActing, IsRevision
  <2>7. Adds(<<entry>>)
    BY <2>1, <2>4, <2>6, EntryAdded
  <2> QED
    BY <2>7
<1>3. CASE ReviseModel
  <2> DEFINE entry == [type |-> "revision", cause |-> thisId, prior |-> prior,
                       result |-> index]
  <2>1. log' = Append(log, entry) /\ rpc = "plan"
    BY <1>3 DEF ReviseModel, RunDeltas
  <2>2. entry \in RuntimeEntry
    BY <1>1, EntryTypes
  <2>3. run.deltas # <<>>
    <3>1. index \in 1..Len(plan.deltas) /\ plan.deltas = run.deltas
      BY <1>3 DEF ReviseModel, ReadyToRevise, Names, thisId, plan, PlanOfRun
    <3> QED
      BY <3>1
  <2>4. Grounded(<<entry>>, 1)
    BY <1>3, <2>1 DEF Grounded
  <2>5. entry.type = "revision"
    OBVIOUS
  <2> HIDE DEF entry
  <2>6. Justified(<<entry>>, 1)
    BY <2>1, <2>3, <2>4, <2>5 DEF Justified, Chooses, Acting, ToolActing
  <2>7. Adds(<<entry>>)
    BY <2>1, <2>2, <2>6, EntryAdded
  <2> QED
    BY <2>7
<1> QED
  BY <1>2, <1>3 DEF RunDeltas

\* What the gate records is well typed, one entry per answer.
LEMMA AuditedAnswersType ==
  ASSUME RuntimeTypeOK, Len(answers) = Len(asked)
  PROVE  /\ AuditedAnswers \in Seq(PlanApprovalEntry)
         /\ Len(AuditedAnswers) = Len(answers)
<1> USE DEF RuntimeTypeOK
<1>1. ASSUME NEW n \in 1..Len(answers)
      PROVE  AuditedAnswers[n] \in PlanApprovalEntry
  BY DEF AuditedAnswers, PlanApprovalEntry, CommitmentId, Unlinked
<1> QED
  BY <1>1 DEF AuditedAnswers

\* The decisions of the gate are put on record if there are any.
LEMMA GateAdds ==
  ASSUME RuntimeTypeOK, Control, PlanOfRun, ApplyApprovalGate
  PROVE  \E entries : Adds(entries)
<1> USE DEF RuntimeTypeOK
<1>1. CASE UNCHANGED log
  BY <1>1, NothingAdded
<1>2. CASE RecordDecisions
  <2>1. /\ AuditedAnswers \in Seq(PlanApprovalEntry)
        /\ log' = log \o AuditedAnswers
    BY <1>2, AuditedAnswersType DEF RecordDecisions
  <2>2. AuditedAnswers \in Seq(RuntimeEntry)
    BY <2>1 DEF RuntimeEntry, PlanEntry
  <2>3. rpc = "gate"
    BY <1>2 DEF RecordDecisions, ApplyApprovalGate, Control
  <2>4. ASSUME NEW n \in 1..Len(AuditedAnswers)
        PROVE  Justified(AuditedAnswers, n)
    <3>1. AuditedAnswers[n].type = "approval"
      <4>1. AuditedAnswers[n] \in PlanApprovalEntry
        BY <2>1
      <4> QED
        BY <4>1 DEF PlanApprovalEntry
    <3>2. run.deltas # <<>>
      <4>1. Len(asked) # 0 /\ asked # <<>>
        BY <1>2, AuditedAnswersType DEF RecordDecisions
      <4> QED
        BY <4>1, <1>2 DEF PlanOfRun, RecordDecisions
    <3> QED
      BY <2>3, <3>1, <3>2 DEF Justified, Chooses, Acting, ToolActing, IsRevision
  <2> QED
    BY <2>1, <2>2, <2>4 DEF Adds
<1> QED
  BY <1>1, <1>2
  DEF ApplyApprovalGate, ReturnResult, OpenGate, Decide, ProviderRaises

\* While the runtime is at work there is a run it works on.
LEMMA CurrentRun ==
  ASSUME RuntimeTypeOK, Control, rpc # "idle"
  PROVE  /\ Len(runs) \in 1..Len(runs)
         /\ runs # <<>>
         /\ run \in Run
         /\ run.call => run.setup.runner # "none"
<1>1. runs # <<>> /\ runs \in Seq(Run)
  BY DEF RuntimeTypeOK, Control
<1>2. Len(runs) \in 1..Len(runs)
  BY <1>1
<1> QED
  BY <1>1, <1>2 DEF Control, run

\* The call of the run is a call the gateway may be given.
LEMMA ThisCallType ==
  ASSUME RuntimeTypeOK, Control, rpc # "idle"
  PROVE  thisCall \in GatewayCalls
<1>1. Len(runs) \in 1..MaxRuns
  BY RuntimeAssumption DEF RuntimeTypeOK, Control
<1> QED
  BY <1>1 DEF thisCall, GatewayCalls

\* The call is proposed, and its result follows.
LEMMA ToolAdds ==
  ASSUME RuntimeTypeOK, Control, ProposeToolCall \/ ToolFails
  PROVE  \E entries : Adds(entries)
<1>1. thisCall \in GatewayCalls /\ run.call /\ rpc \in {"plan", "tool"}
  BY ThisCallType DEF ProposeToolCall, ToolFails, Control
<1>2. PICK entry \in RuntimeEntry :
        /\ log' = log \o <<entry>>
        /\ entry.type \in {"tool_call", "tool_result"}
  <2>1. CASE ProposeToolCall
    <3> DEFINE judged == EvaluateToolCallPolicy(run.setup.runner)
    <3>1. judged \in {"deny", "allow", "requires_approval"}
      <4>1. run.setup \in Setup /\ run.setup.runner # "none"
        BY <1>1, CurrentRun DEF Run
      <4>2. run.setup.runner \in ToolRisk
        BY <4>1 DEF Setup
      <4> QED
        BY <4>2 DEF EvaluateToolCallPolicy, ToolRisk
    <3>2. log' = log \o <<Proposed(thisCall, judged)>>
      BY <2>1 DEF ProposeToolCall, Write
    <3>3. Proposed(thisCall, judged).type = "tool_call"
      BY DEF Proposed
    <3> HIDE DEF judged
    <3>4. Proposed(thisCall, judged) \in RuntimeEntry
      BY <1>1, <3>1, EntryTypes
    <3> QED
      BY <3>2, <3>3, <3>4
  <2>2. CASE ToolFails
    <3>1. log' = log \o <<G!ToolResult(thisCall, "failed")>>
      BY <2>2 DEF ToolFails, Write
    <3>2. G!ToolResult(thisCall, "failed").type = "tool_result"
      BY DEF G!ToolResult
    <3>3. G!ToolResult(thisCall, "failed") \in RuntimeEntry
      BY <1>1, EntryTypes
    <3> QED
      BY <3>1, <3>2, <3>3
  <2> QED
    BY <2>1, <2>2
<1>3. Justified(<<entry>>, 1)
  BY <1>1, <1>2 DEF Justified, Chooses, Acting, ToolActing, IsRevision
<1>4. Adds(<<entry>>)
  BY <1>2, <1>3, EntryAdded DEF RuntimeTypeOK
<1> QED
  BY <1>4

\* The handler returns: result and observation, then the promotion if any.
LEMMA ReturnAdds ==
  ASSUME RuntimeTypeOK, Control, ToolReturns
  PROVE  \E entries : Adds(entries)
<1> DEFINE result == G!ToolResult(thisCall, "succeeded")
           seen == G!Observation(thisCall)
<1>1. rpc = "tool" /\ run.call /\ thisCall \in GatewayCalls
  BY ThisCallType DEF ToolReturns, Control
<1>2. result \in RuntimeEntry /\ seen \in RuntimeEntry
  BY <1>1, EntryTypes
<1>3. result.type = "tool_result" /\ seen.type = "observation"
  BY DEF G!ToolResult, G!Observation
<1>4. \/ log' = log \o (<<result, seen>> \o <<>>)
      \/ log' = log \o (<<result, seen>> \o Promotion)
  BY DEF ToolReturns, Write
<1> HIDE DEF result, seen
<1>5. CASE log' = log \o (<<result, seen>> \o <<>>)
  <2>1. <<result, seen>> \in Seq(RuntimeEntry) /\ log' = log \o <<result, seen>>
    BY <1>2, <1>5
  <2>2. ASSUME NEW n \in 1..2
        PROVE  Justified(<<result, seen>>, n)
    BY <1>1, <1>3 DEF Justified, Chooses, Acting, ToolActing, IsRevision
  <2>3. Adds(<<result, seen>>)
    BY <2>1, <2>2 DEF Adds
  <2> QED
    BY <2>3
<1>6. CASE log' = log \o (<<result, seen>> \o Promotion)
  <2> DEFINE decision == EvaluateDeltaPolicyInDomain(PromotionDelta, run.setup.pack)
             commitment ==
               [type |-> "commitment", id |-> PromotionId, success |-> Clear(decision),
                requires_approval |-> decision.requires_approval]
             revision ==
               [type |-> "revision", cause |-> PromotionId,
                prior |-> ReplayedState(log),
                result |-> Cardinality(RevisionsIn(log)) + 1]
  <2>1. \/ Promotion = <<commitment>>
        \/ Clear(decision) /\ Promotion = <<commitment, revision>>
    BY PromotionShape
  <2>2. /\ commitment.type = "commitment" /\ commitment.id = PromotionId
        /\ commitment.success = Clear(decision)
        /\ revision.type = "revision" /\ revision.cause = PromotionId
        /\ revision.prior = ReplayedState(log)
    OBVIOUS
  <2>3. commitment \in RuntimeEntry /\ revision \in RuntimeEntry
    <3>1. PromotionId \in CommitmentId
      BY DEF PromotionId, CommitmentId, RuntimeTypeOK
    <3>2. Clear(decision) \in BOOLEAN /\ decision.requires_approval \in BOOLEAN
      BY DecisionType DEF Clear
    <3>3. ReplayedState(log) \in Nat /\ Cardinality(RevisionsIn(log)) + 1 \in Nat
      BY ReplayedStateType DEF RuntimeTypeOK
    <3> HIDE DEF decision
    <3> QED
      BY <3>1, <3>2, <3>3, EntryTypes
  <2> HIDE DEF commitment, revision
  <2>4. CASE Promotion = <<commitment>>
    <3> DEFINE entries == <<result, seen, commitment>>
    <3>1. /\ entries \in Seq(RuntimeEntry)
          /\ <<result, seen>> \o <<commitment>> = entries
      <4>1. <<result, seen, commitment>> \in Seq(RuntimeEntry)
        BY <1>2, <2>3, ShortSequences
      <4>2. <<result, seen>> \o <<commitment>> = <<result, seen, commitment>>
        BY <1>2, <2>3, ShortSequences
      <4> QED
        BY <4>1, <4>2
    <3>2. ASSUME NEW n \in 1..3
          PROVE  Justified(entries, n)
      <4>1. entries[n].type \in {"tool_result", "observation", "commitment"}
        BY <1>3, <2>2
      <4> QED
        BY <1>1, <4>1 DEF Justified, Chooses, Acting, ToolActing, IsRevision
    <3>3. Adds(entries)
      BY <1>6, <2>4, <3>1, <3>2 DEF Adds
    <3> QED
      BY <3>3
  <2>5. CASE Clear(decision) /\ Promotion = <<commitment, revision>>
    <3> DEFINE entries == <<result, seen, commitment, revision>>
    <3>1. /\ entries \in Seq(RuntimeEntry)
          /\ <<result, seen>> \o <<commitment, revision>> = entries
      <4>1. <<result, seen, commitment, revision>> \in Seq(RuntimeEntry)
        BY <1>2, <2>3, JoinedSequences
      <4>2. <<result, seen>> \o <<commitment, revision>>
              = <<result, seen, commitment, revision>>
        BY <1>2, <2>3, JoinedSequences
      <4> QED
        BY <4>1, <4>2
    <3>2. Grounded(entries, 4)
      BY <1>1, <1>3, <2>2, <2>5 DEF Grounded
    <3>3. ASSUME NEW n \in 1..4
          PROVE  Justified(entries, n)
      <4>1. CASE n # 4
        <5>1. entries[n].type \in {"tool_result", "observation", "commitment"}
          BY <1>3, <2>2, <4>1
        <5> QED
          BY <1>1, <5>1 DEF Justified, Chooses, Acting, ToolActing, IsRevision
      <4>2. CASE n = 4
        <5>1. entries[4].type = "revision"
          BY <2>2
        <5> HIDE DEF entries
        <5> QED
          BY <1>1, <3>2, <4>2, <5>1 DEF Justified, Chooses, Acting, ToolActing
      <4> QED
        BY <4>1, <4>2
    <3>4. Adds(entries)
      BY <1>6, <2>5, <3>1, <3>3 DEF Adds
    <3> QED
      BY <3>4
  <2> QED
    BY <2>1, <2>4, <2>5
<1> QED
  BY <1>4, <1>5, <1>6

\* The chosen actions, after the precedents if there are any.
DeliberationEntries(found) ==
  (IF found THEN <<Noted>> ELSE <<>>)
    \o [n \in 1..Len(ChosenActions) |-> Deliberation(ChosenActions[n])]

\* Every entry is a step of deliberation; if actions are chosen, the last is
\* that of the action taken.
LEMMA DeliberationShape ==
  ASSUME run \in Run, NEW found \in BOOLEAN
  PROVE  /\ DeliberationEntries(found) \in Seq(RuntimeEntry)
         /\ \A n \in 1..Len(DeliberationEntries(found)) :
              DeliberationEntries(found)[n].type = "deliberation"
         /\ ChosenActions # <<>> =>
              /\ DeliberationEntries(found) # <<>>
              /\ DeliberationEntries(found)[Len(DeliberationEntries(found))]
                   = Deliberation(FinalAction)
<1> DEFINE steps == [n \in 1..Len(ChosenActions) |-> Deliberation(ChosenActions[n])]
           first == IF found THEN <<Noted>> ELSE <<>>
<1>1. ChosenActions \in Seq(NextAction)
  BY ChosenActionsType
<1>2. \A action \in NextAction :
        /\ Deliberation(action) \in RuntimeEntry
        /\ Deliberation(action).type = "deliberation"
  BY EntryTypes DEF Deliberation
<1>3. /\ steps \in Seq(RuntimeEntry) /\ Len(steps) = Len(ChosenActions)
      /\ \A n \in 1..Len(steps) : steps[n].type = "deliberation"
      /\ ChosenActions # <<>> => /\ steps # <<>>
                                 /\ steps[Len(steps)] = Deliberation(FinalAction)
  BY <1>1, <1>2 DEF FinalAction
<1>4. /\ first \in Seq(RuntimeEntry)
      /\ \A n \in 1..Len(first) : first[n].type = "deliberation"
  BY EntryTypes DEF Noted, Deliberation
<1>5. DeliberationEntries(found) = first \o steps
  BY DEF DeliberationEntries
<1> HIDE DEF first, steps
<1> QED
  BY <1>3, <1>4, <1>5

\* Deliberation is put on record.
LEMMA DeliberationAdds ==
  ASSUME RuntimeTypeOK, Control, NEW found \in BOOLEAN, Deliberate(found)
  PROVE  Adds(DeliberationEntries(found))
<1>1. rpc = "deliberate" /\ run \in Run
  BY CurrentRun DEF Deliberate
<1>2. log' = log \o DeliberationEntries(found)
  BY DEF Deliberate, DeliberationEntries, Write
<1> DEFINE entries == DeliberationEntries(found)
<1>3. /\ entries \in Seq(RuntimeEntry)
      /\ \A n \in 1..Len(entries) : entries[n].type = "deliberation"
  BY <1>1, DeliberationShape
<1> HIDE DEF entries
<1>4. ASSUME NEW n \in 1..Len(entries)
      PROVE  Justified(entries, n)
  BY <1>1, <1>3 DEF Justified, Chooses, Acting, ToolActing, IsRevision
<1>5. Adds(entries)
  BY <1>2, <1>3, <1>4 DEF Adds, entries
<1> QED
  BY <1>5 DEF entries

\* The router's decision.
LEMMA RoutingAdds ==
  ASSUME RuntimeTypeOK, RouteRun
  PROVE  \E entries : Adds(entries)
<1>1. log' = log \o <<Noted>>
  BY DEF RouteRun, Write
<1>2. Noted \in RuntimeEntry /\ Noted.type = "deliberation" /\ ~Chooses(Noted)
  BY EntryTypes DEF Noted, Deliberation, Chooses
<1>3. Justified(<<Noted>>, 1)
  BY <1>2 DEF Justified, Acting, ToolActing, IsRevision
<1>4. Adds(<<Noted>>)
  BY <1>1, <1>2, <1>3, EntryAdded DEF RuntimeTypeOK
<1> QED
  BY <1>4

\* The entries about the compiler and its provider.
LEMMA CompilerAdds ==
  ASSUME RuntimeTypeOK,
         \/ \E setup \in Setups : RequestCompiler(setup)
         \/ \E task \in LLMTasks : ResponseAccepted(task)
         \/ ResponseRejected \/ ProviderFails \/ ProviderCrashes
  PROVE  \E entries : Adds(entries)
<1>1. PICK c \in {"requested", "succeeded", "rejected"},
           p \in {"requested", "succeeded", "failed"} :
        /\ \/ log' = log \o <<Compiler(c), Provider(p)>>
           \/ log' = log \o <<Provider(p), Compiler(c)>>
           \/ log' = log \o <<Compiler(c)>>
        /\ c = "requested" \/ rpc = "compiling"
  BY DEF RequestCompiler, ResponseAccepted, ResponseRejected, ProviderFails,
         ProviderCrashes, Write
<1>2. Compiler(c) \in RuntimeEntry /\ Provider(p) \in RuntimeEntry
  BY EntryTypes
<1>3. /\ Compiler(c).type = "compiler" /\ Compiler(c).outcome = c
      /\ Provider(p).type = "provider"
  BY DEF Compiler, Provider
<1>4. PICK entries :
        /\ entries \in {<<Compiler(c), Provider(p)>>, <<Provider(p), Compiler(c)>>,
                        <<Compiler(c)>>}
        /\ log' = log \o entries
  BY <1>1
<1>5. entries \in Seq(RuntimeEntry)
  BY <1>2, <1>4, ShortSequences
<1>6. ASSUME NEW n \in 1..Len(entries)
      PROVE  entries[n] \in {Compiler(c), Provider(p)}
  <2>1. CASE entries = <<Compiler(c), Provider(p)>>
    BY <2>1
  <2>2. CASE entries = <<Provider(p), Compiler(c)>>
    BY <2>2
  <2>3. CASE entries = <<Compiler(c)>>
    BY <2>3
  <2> QED
    BY <1>4, <2>1, <2>2, <2>3
<1>7. Adds(entries)
  BY <1>1, <1>3, <1>4, <1>5, <1>6, QuietAdds DEF RuntimeTypeOK, Chooses, Acting, ToolActing
<1> QED
  BY <1>7

\* Whatever the step, what it adds is justified.
LEMMA StepAdds ==
  ASSUME RuntimeTypeOK, Control, PlanOfRun, ReadyToRevise, [RuntimeNext]_runtimeVars
  PROVE  \E entries : Adds(entries)
<1>1. CASE UNCHANGED log
  BY <1>1, NothingAdded DEF RuntimeTypeOK
<1>2. ASSUME NEW mode, NEW setup, NEW task, ReceiveTask(mode, setup, task)
      PROVE  \E entries : Adds(entries)
  <2>1. log' = log \o <<Received>>
    BY <1>2 DEF ReceiveTask, Write
  <2>2. Received \in RuntimeEntry /\ Received.type = "received"
    BY EntryTypes DEF Received
  <2>3. Justified(<<Received>>, 1)
    BY <2>2 DEF Justified, Chooses, Acting, ToolActing, IsRevision
  <2>4. Adds(<<Received>>)
    BY <2>1, <2>2, <2>3, EntryAdded DEF RuntimeTypeOK
  <2> QED
    BY <2>4
<1> QED
  BY <1>1, <1>2, CompilerAdds, DeliberationAdds, RoutingAdds, DeltasAdd, GateAdds,
     GatewayAdds, ToolAdds, ReturnAdds
  DEF RuntimeNext, RunStep, ReceivePlan, ExecutePlanOfRun, ExecutePlan,
      ExecuteBatchOfRun, G!ExecuteBatch, runtimeVars, planVars

--------------------------------------------------------------------------------
(***************************************************************************)
(* What a step does to the runs: one begins, or more of the last one is    *)
(* known; its mode, its setup and where it began stay, and so does its     *)
(* task if no compiler was asked for it.                                   *)
(***************************************************************************)
Begins(new) ==
  /\ rpc = "idle"
  /\ Len(runs) < MaxRuns
  /\ runs' = Append(runs, new)
  /\ new \in Run
  /\ new.from = Len(log)
  /\ new.call => new.setup.runner # "none"
  /\ UNCHANGED gatewayOnly
  /\ PlanUntouched

\* More of the last run is known: its task, its decision or its route.
Learns(known) ==
  /\ rpc \in {"compiling", "deliberate", "route"}
  /\ runs # <<>>
  /\ Determine(known)
  /\ known \in Run
  /\ known.mode = run.mode /\ known.setup = run.setup /\ known.from = run.from
  /\ run.mode # "compiler" => known.task = run.task
  /\ known.call => known.setup.runner # "none"
  /\ UNCHANGED gatewayOnly
  /\ PlanUntouched

\* A run begins with nothing known of it.
LEMMA StartRunType ==
  ASSUME RuntimeTypeOK, NEW mode \in Modes, NEW setup \in Setups
  PROVE  /\ StartRun(mode, setup) \in Run
         /\ StartRun(mode, setup).from = Len(log)
         /\ ~StartRun(mode, setup).call
         /\ StartRun(mode, setup).mode = mode
         /\ StartRun(mode, setup).setup = setup
<1>1. CompileTask(FALSE, FALSE) \in TaskSpec
  BY DEF CompileTask, TaskSpec, TaskKind, TaskRisk
<1>2. setup \in Setup
  BY RuntimeAssumption
<1>3. <<>> \in Seq(RevisionDelta) /\ Len(log) \in Nat
  BY DEF RuntimeTypeOK
<1> QED
  BY <1>1, <1>2, <1>3 DEF StartRun, Run, NextAction, RoutingDecision

\* A run begins with a compiled task: execute_task and its variants ...
LEMMA TaskBegins ==
  ASSUME RuntimeTypeOK, NEW mode, NEW setup \in Setups, NEW updates \in BOOLEAN,
         NEW docs \in BOOLEAN,
         ReceiveTask(mode, setup, CompileTask(updates, docs))
  PROVE  \E new : Begins(new) /\ new.mode = mode
<1>1. mode \in Modes
  BY DEF ReceiveTask, Modes
<1> DEFINE start == StartRun(mode, setup)
           task == CompileTask(updates, docs)
           new == [start EXCEPT !.task = task]
<1>2. start \in Run /\ start.from = Len(log) /\ ~start.call /\ start.mode = mode
  BY <1>1, StartRunType
<1>3. task \in TaskSpec
  BY DEF CompileTask, TaskSpec, TaskKind, TaskRisk
<1> HIDE DEF start, task
<1>4. new \in Run /\ new.from = Len(log) /\ ~new.call /\ new.mode = mode
  BY <1>2, <1>3 DEF Run
<1>5. runs' = Append(runs, new) /\ rpc = "idle" /\ Len(runs) < MaxRuns
  BY DEF ReceiveTask, MayStart, start, task
<1> HIDE DEF new
<1>6. Begins(new)
  BY <1>4, <1>5 DEF Begins, ReceiveTask
<1> QED
  BY <1>4, <1>6

\* ... with a request to the compiler ...
LEMMA CompilerBegins ==
  ASSUME RuntimeTypeOK, NEW setup \in Setups, RequestCompiler(setup)
  PROVE  \E new : Begins(new) /\ new.mode = "compiler"
<1> DEFINE new == StartRun("compiler", setup)
<1>1. new \in Run /\ new.from = Len(log) /\ ~new.call /\ new.mode = "compiler"
  BY StartRunType DEF Modes
<1>2. runs' = Append(runs, new) /\ rpc = "idle" /\ Len(runs) < MaxRuns
  BY DEF RequestCompiler, MayStart
<1> HIDE DEF new
<1>3. Begins(new)
  BY <1>1, <1>2 DEF Begins, RequestCompiler
<1> QED
  BY <1>1, <1>3

\* ... or with a plan that is handed in.
LEMMA PlanBegins ==
  ASSUME RuntimeTypeOK, NEW deltas \in Plans, NEW c \in BOOLEAN,
         NEW setup \in Setups, ReceivePlan(deltas, c, setup)
  PROVE  \E new : Begins(new) /\ new.mode = "plan"
<1> DEFINE start == StartRun("plan", setup)
           new == [start EXCEPT !.deltas = deltas, !.call = c]
<1>1. /\ start \in Run /\ start.from = Len(log)
      /\ start.mode = "plan" /\ start.setup = setup
  BY StartRunType DEF Modes
<1>2. runs' = Append(runs, new) /\ rpc = "idle" /\ Len(runs) < MaxRuns
  BY DEF ReceivePlan, MayStart
<1> HIDE DEF start
<1>3. deltas \in Seq(RevisionDelta)
  BY PlanAssumption
<1>4. /\ new \in Run /\ new.from = Len(log) /\ new.mode = "plan"
      /\ new.setup = setup /\ new.call = c
  BY <1>1, <1>3 DEF Run
<1> HIDE DEF new
<1>5. Begins(new)
  BY <1>2, <1>4 DEF Begins, ReceivePlan
<1> QED
  BY <1>4, <1>5

\* A task accepted by the compiler.
LEMMA AcceptedLearns ==
  ASSUME RuntimeTypeOK, Control, NEW task \in LLMTasks, ResponseAccepted(task)
  PROVE  \E known : Learns(known)
<1> DEFINE known == [run EXCEPT !.task = task]
<1>1. /\ rpc = "compiling" /\ runs # <<>> /\ run \in Run /\ run.mode = "compiler"
      /\ run.call => run.setup.runner # "none"
  BY CurrentRun DEF ResponseAccepted, Control
<1>2. /\ known \in Run /\ known.mode = run.mode /\ known.setup = run.setup
      /\ known.from = run.from /\ known.call = run.call
  BY <1>1, RuntimeAssumption DEF Run
<1>3. Determine(known)
  BY DEF ResponseAccepted
<1> HIDE DEF known
<1>4. Learns(known)
  BY <1>1, <1>2, <1>3 DEF Learns, ResponseAccepted
<1> QED
  BY <1>4

\* What is known after the deliberation.
Deliberated(found) ==
  [run EXCEPT
    !.action = FinalAction,
    !.found = found,
    !.deltas = CandidateDeltas(run.task, FinalAction),
    !.call = ProposesReadOnlyCall(run.task, Reads(run.setup), FinalAction)]

\* The deliberation decides what the run will do, and nothing else does.
LEMMA DeliberationLearns ==
  ASSUME RuntimeTypeOK, Control, NEW found \in BOOLEAN, Deliberate(found)
  PROVE  /\ Learns(Deliberated(found))
         /\ Deliberated(found).action = FinalAction
         /\ Deliberated(found).task = run.task
         /\ Deliberated(found).deltas # <<>>
              => Deliberated(found).action # "propose_redirect"
         /\ Deliberated(found).call
              => Deliberated(found).action = "request_read_tool"
<1> DEFINE action == FinalAction
           known == Deliberated(found)
           reads == Reads(run.setup)
           deltas == CandidateDeltas(run.task, action)
           proposes == ProposesReadOnlyCall(run.task, reads, action)
<1>1. /\ rpc = "deliberate" /\ runs # <<>> /\ run \in Run
      /\ run.task \in TaskSpec /\ reads \in BOOLEAN
      /\ reads => run.setup.runner # "none"
  <2>1. rpc = "deliberate"
    BY DEF Deliberate
  <2> QED
    BY <2>1, CurrentRun DEF Run, Reads
<1>2. action \in NextAction
  BY <1>1, ChosenActionsType
<1>3. deltas \in Seq(RevisionDelta) /\ (deltas # <<>> => action # "propose_redirect")
  BY CandidateDeltasType
<1>4. /\ proposes \in BOOLEAN
      /\ proposes => action = "request_read_tool" /\ reads
  BY <1>1, CallFollowsRequest DEF ProposesReadOnlyCall
<1>5. Determine(known)
  BY DEF Deliberate, Deliberated
<1>6. known = [run EXCEPT !.action = action, !.found = found, !.deltas = deltas,
                          !.call = proposes]
  BY DEF Deliberated
<1> HIDE DEF action, deltas, proposes, known
<1>7. /\ known \in Run /\ known.mode = run.mode /\ known.setup = run.setup
      /\ known.from = run.from /\ known.task = run.task /\ known.call = proposes
      /\ known.action = action /\ known.deltas = deltas
  BY <1>1, <1>2, <1>3, <1>4, <1>6 DEF Run
<1>8. Learns(known)
  BY <1>1, <1>4, <1>5, <1>7 DEF Learns, Deliberate
<1> QED
  BY <1>3, <1>4, <1>7, <1>8 DEF known, action

\* The router changes nothing of what was decided.
LEMMA RoutingLearns ==
  ASSUME RuntimeTypeOK, Control, RouteRun
  PROVE  \E known : /\ Learns(known)
                    /\ known.action = run.action /\ known.deltas = run.deltas
                    /\ known.call = run.call
<1> DEFINE decision == Route(RunSignals, run.setup.config)
           known == [run EXCEPT !.routed = decision]
<1>1. /\ rpc = "route" /\ runs # <<>> /\ run \in Run
      /\ run.call => run.setup.runner # "none"
  BY CurrentRun DEF RouteRun
<1>2. decision \in RoutingDecision
  BY DEF Route, RoutingDecision
<1>3. Determine(known)
  BY DEF RouteRun
<1> HIDE DEF decision
<1>4. /\ known \in Run /\ known.mode = run.mode /\ known.setup = run.setup
      /\ known.from = run.from /\ known.task = run.task /\ known.call = run.call
      /\ known.action = run.action /\ known.deltas = run.deltas
  BY <1>1, <1>2 DEF Run
<1> HIDE DEF known
<1>5. Learns(known)
  BY <1>1, <1>3, <1>4 DEF Learns, RouteRun
<1> QED
  BY <1>4, <1>5

\* Whatever the step, one of the three.
LEMMA RunsStep ==
  ASSUME RuntimeTypeOK, Control, [RuntimeNext]_runtimeVars
  PROVE  (\E new : Begins(new)) \/ (\E known : Learns(known)) \/ UNCHANGED runs
  BY TaskBegins, CompilerBegins, PlanBegins, AcceptedLearns, DeliberationLearns,
     RoutingLearns
  DEF RuntimeNext, RunStep, ResponseRejected, ProviderFails, ProviderCrashes,
      ExecutePlanOfRun, ExecuteBatchOfRun, RunGateway, RunDeltas, ProposeToolCall,
      ToolFails, ToolReturns, ApplyApprovalGate, runtimeVars

--------------------------------------------------------------------------------
(***************************************************************************)
(* Types, and what is at work when (RuntimeTypeOK, Control, PlanOfRun).    *)
(* First the variables of the plan.                                        *)
(***************************************************************************)
PlanVarsOK ==
  /\ plans \in Seq(ExecutedPlan)
  /\ ppc \in {"idle", "evaluate", "revise", "gate"}
  /\ index \in Nat \ {0}
  /\ prior \in Nat
  /\ asked \in Seq(Nat)
  /\ answers \in Seq(Verdicts)

\* The same for the variables of the gateway.
GatewayVarsOK ==
  /\ gpc \in {"idle", "policy", "handler", "running", "promote"}
  /\ calls \in Seq(GatewayCalls)
  /\ state_id \in Nat
  /\ effects \in Seq([call : GatewayCalls, at : Nat])
  /\ batches \in Nat

\* The variables of the plan keep their types.
LEMMA PlanVarsStep ==
  ASSUME RuntimeTypeOK, Control, [RuntimeNext]_runtimeVars
  PROVE  PlanVarsOK'
<1>1. CASE UNCHANGED <<plans, ppc, index, prior, asked, answers>>
  BY <1>1 DEF PlanVarsOK, RuntimeTypeOK
<1>2. CASE ExecutePlanOfRun
  <2> DEFINE entry == IF run.call THEN "plain" ELSE "domain"
             new == [deltas |-> run.deltas, entry |-> entry,
                     pack |-> run.setup.pack, gate |-> run.setup.gate]
  <2>1. run \in Run
    BY <1>2, CurrentRun DEF ExecutePlanOfRun
  <2>2. new \in ExecutedPlan
    BY <2>1 DEF Run, Setup, ExecutedPlan
  <2>3. /\ plans' = Append(plans, new)
        /\ prior' = ReplayedState(log) \/ prior' = 0
        /\ ppc' = "evaluate" /\ index' = 1 /\ asked' = <<>> /\ answers' = <<>>
    BY <1>2 DEF ExecutePlanOfRun, ExecutePlan
  <2> HIDE DEF new
  <2>4. ReplayedState(log) \in Nat
    BY ReplayedStateType DEF RuntimeTypeOK
  <2> QED
    BY <2>2, <2>3, <2>4 DEF PlanVarsOK, RuntimeTypeOK
<1>3. CASE RunDeltas
  <2>1. CASE EvaluateDelta
    <3>1. /\ UNCHANGED <<plans, prior, answers>>
          /\ asked' = asked \/ asked' = Append(asked, index)
          /\ index' \in {index, index + 1}
          /\ ppc' \in {"evaluate", "revise"}
      BY <2>1 DEF EvaluateDelta
    <3>2. asked \in Seq(Nat) /\ index \in Nat \ {0}
      BY DEF RuntimeTypeOK
    <3>3. asked' \in Seq(Nat) /\ index' \in Nat \ {0}
      BY <3>1, <3>2
    <3> QED
      BY <3>1, <3>3 DEF PlanVarsOK, RuntimeTypeOK
  <2>2. CASE ReviseModel
    BY <2>2 DEF ReviseModel, PlanVarsOK, RuntimeTypeOK
  <2> QED
    BY <1>3, <2>1, <2>2 DEF RunDeltas
<1>4. CASE ApplyApprovalGate
  <2>1. /\ UNCHANGED <<plans, index, prior, asked>>
        /\ ppc' \in {"idle", "evaluate", "gate"}
        /\ answers' = answers \/ \E v \in Verdicts : answers' = Append(answers, v)
    BY <1>4 DEF ApplyApprovalGate, ReturnResult, OpenGate, Decide, ProviderRaises,
       RecordDecisions, DeltasDone
  <2>2. answers \in Seq(Verdicts)
    BY DEF RuntimeTypeOK
  <2>3. answers' \in Seq(Verdicts)
    BY <2>1, <2>2
  <2> QED
    BY <2>1, <2>3 DEF PlanVarsOK, RuntimeTypeOK
<1> QED
  BY <1>1, <1>2, <1>3, <1>4
  DEF RuntimeNext, RunStep, ReceiveTask, RequestCompiler, ReceivePlan,
      ResponseAccepted, ResponseRejected, ProviderFails, ProviderCrashes, Deliberate,
      RouteRun, ExecuteBatchOfRun, RunGateway, ProposeToolCall, ToolFails, ToolReturns,
      PlanUntouched, runtimeVars, planVars

\* The gateway has one call at a time, and is idle again when it is done.
LEMMA GatewayVarsStep ==
  ASSUME RuntimeTypeOK, Control, [RuntimeNext]_runtimeVars
  PROVE  /\ GatewayVarsOK'
         /\ RunGateway => gpc' = "idle" \/ (gpc' # "idle" /\ calls' = calls)
<1>1. CASE UNCHANGED gatewayOnly
  <2>1. ~RunGateway \/ calls' = calls
    BY <1>1 DEF gatewayOnly
  <2> QED
    BY <1>1, <2>1 DEF GatewayVarsOK, RuntimeTypeOK, gatewayOnly
<1>2. CASE ExecuteBatchOfRun
  <2>1. thisCall \in GatewayCalls
    BY <1>2, ThisCallType DEF ExecuteBatchOfRun
  <2>2. /\ gpc' = "policy" /\ calls' = <<thisCall>> /\ batches' = batches + 1
        /\ state_id' = G!ReplayedState(log) /\ effects' = effects
        /\ rpc = "execute"
    BY <1>2 DEF ExecuteBatchOfRun, G!ExecuteBatch
  <2>3. G!ReplayedState(log) \in Nat
    <3>1. G!ReplayedState(log) = ReplayedState(log)
      BY DEF G!ReplayedState, ReplayedState, G!ReplayedAt, ReplayedAt,
         G!RevisionsUpTo, RevisionsUpTo, G!IsRevision, IsRevision
    <3> QED
      BY <3>1, ReplayedStateType DEF RuntimeTypeOK
  <2>4. <<thisCall>> \in Seq(GatewayCalls)
    BY <2>1
  <2> QED
    BY <2>2, <2>3, <2>4 DEF GatewayVarsOK, RuntimeTypeOK, RunGateway
<1>3. CASE RunGateway
  <2>1. /\ calls = <<thisCall>> /\ thisCall \in GatewayCalls /\ rpc = "gateway"
    BY <1>3, ThisCallType DEF RunGateway, Control
  <2>2. G!call = thisCall /\ Len(calls) = 1 /\ Tail(calls) = <<>>
    BY <2>1 DEF G!call
  <2>3. G!NextCall => calls' = <<>> /\ gpc' = "idle"
    BY <2>2 DEF G!NextCall
  <2>4. /\ UNCHANGED <<state_id, batches>>
        /\ \/ effects' = effects
           \/ effects' = Append(effects, [call |-> thisCall, at |-> Len(log)])
        /\ \/ calls' = <<>> /\ gpc' = "idle"
           \/ calls' = calls /\ gpc' \in {"handler", "running", "promote"}
    <3>1. CASE G!EnterHandler
      BY <2>2, <3>1 DEF G!EnterHandler
    <3>2. CASE ~G!EnterHandler
      BY <1>3, <2>3, <3>2
      DEF RunGateway, G!GatewayStep, G!ProviderStep, G!HandlerStep, G!NoPromotion,
          G!PromoteObservation, G!CheckApprovalRaises, G!RecordDenied,
          G!RecordCommitment, G!HandlerMissing, G!HandlerRaises, G!HandlerReturns,
          G!CheckApprovalApproved, G!RecordApprovalDenied
    <3> QED
      BY <3>1, <3>2
  <2>5. [call |-> thisCall, at |-> Len(log)] \in [call : GatewayCalls, at : Nat]
    BY <2>1 DEF RuntimeTypeOK
  <2> DEFINE effect == [call |-> thisCall, at |-> Len(log)]
             Effect == [call : GatewayCalls, at : Nat]
  <2>6. effects' \in Seq(Effect)
    <3>1. effects \in Seq(Effect) /\ effect \in Effect
      BY <2>5 DEF RuntimeTypeOK
    <3>2. effects' = effects \/ effects' = Append(effects, effect)
      BY <2>4
    <3> HIDE DEF Effect, effect
    <3> QED
      BY <3>1, <3>2
  <2>7. calls' \in Seq(GatewayCalls)
    <3>1. calls \in Seq(GatewayCalls) /\ <<>> \in Seq(GatewayCalls)
      BY DEF RuntimeTypeOK
    <3>2. calls' = <<>> \/ calls' = calls
      BY <2>4
    <3> QED
      BY <3>1, <3>2
  <2> QED
    BY <2>4, <2>6, <2>7 DEF GatewayVarsOK, RuntimeTypeOK
<1> QED
  BY <1>1, <1>2, <1>3
  DEF RuntimeNext, RunStep, ReceiveTask, RequestCompiler, ReceivePlan,
      ResponseAccepted, ResponseRejected, ProviderFails, ProviderCrashes, Deliberate,
      RouteRun, ExecutePlanOfRun, RunDeltas, ProposeToolCall, ToolFails, ToolReturns,
      ApplyApprovalGate, runtimeVars

\* All variables keep their types.
LEMMA TypeStep ==
  ASSUME RuntimeTypeOK, Control, PlanOfRun, ReadyToRevise, [RuntimeNext]_runtimeVars
  PROVE  RuntimeTypeOK'
<1>1. log' \in Seq(RuntimeEntry)
  <2>1. PICK entries : entries \in Seq(RuntimeEntry) /\ log' = log \o entries
    BY StepAdds DEF Adds
  <2>2. log \in Seq(RuntimeEntry)
    BY DEF RuntimeTypeOK
  <2> QED
    BY <2>1, <2>2
<1>2. runs' \in Seq(Run) /\ Len(runs') <= MaxRuns
  <2>1. CASE \E new : Begins(new)
    BY <2>1, RuntimeAssumption DEF Begins, RuntimeTypeOK
  <2>2. CASE \E known : Learns(known)
    BY <2>2 DEF Learns, Determine, RuntimeTypeOK
  <2> QED
    BY <2>1, <2>2, RunsStep DEF RuntimeTypeOK
<1>3. rpc' \in {"idle", "compiling", "deliberate", "route", "execute", "plan",
                "tool", "gate", "gateway"}
  BY DEF RuntimeTypeOK, RuntimeNext, RunStep, ReceiveTask, RequestCompiler,
     ReceivePlan, ResponseAccepted, ResponseRejected, ProviderFails, ProviderCrashes,
     Deliberate, RouteRun, ExecutePlanOfRun, ExecuteBatchOfRun, RunGateway, RunDeltas,
     ProposeToolCall, ToolFails, ToolReturns, ApplyApprovalGate, runtimeVars
<1>4. PlanVarsOK' /\ GatewayVarsOK'
  BY PlanVarsStep, GatewayVarsStep
<1> QED
  BY <1>1, <1>2, <1>3, <1>4 DEF RuntimeTypeOK, PlanVarsOK, GatewayVarsOK, RuntimeEntry,
     PlanEntry, PlanCommitmentEntry, PlanRevisionEntry, PlanApprovalEntry

\* Which control values a step leads to, for the runs that stay as they are.
LEMMA ControlStep ==
  ASSUME RuntimeTypeOK, Control, [RuntimeNext]_runtimeVars
  PROVE  Control'
<1>1. \A r \in 1..Len(runs') : runs'[r].call => runs'[r].setup.runner # "none"
  <2>1. CASE \E new : Begins(new)
    BY <2>1 DEF Begins, RuntimeTypeOK, Control
  <2>2. CASE \E known : Learns(known)
    BY <2>2 DEF Learns, Determine, RuntimeTypeOK, Control
  <2> QED
    BY <2>1, <2>2, RunsStep DEF Control
<1>2. CASE UNCHANGED runtimeVars
  BY <1>1, <1>2
  DEF Control, runtimeVars, planVars, gatewayOnly, run, thisCall
<1>3. ASSUME NEW new, Begins(new),
             rpc' \notin {"idle", "plan", "tool", "gate", "gateway"},
             rpc' = "compiling" => new.mode = "compiler"
      PROVE  Control'
  <2>1. runs' # <<>> /\ runs'[Len(runs')] = new
    <3>1. runs' = Append(runs, new) /\ runs \in Seq(Run)
      BY <1>3 DEF Begins, RuntimeTypeOK
    <3> QED
      BY <3>1, LastAppended
  <2>2. ppc = "idle" /\ gpc = "idle"
    BY <1>3 DEF Begins, Control
  <2> QED
    BY <1>1, <1>3, <2>1, <2>2 DEF Begins, Control, PlanUntouched, gatewayOnly, run
<1>4. ASSUME NEW known, Learns(known),
             rpc' \in {"idle", "deliberate", "route", "execute"}
      PROVE  Control'
  <2>1. runs' # <<>>
    BY <1>4 DEF Learns, Determine, RuntimeTypeOK
  <2>2. ppc = "idle" /\ gpc = "idle"
    BY <1>4 DEF Learns, Control
  <2> QED
    BY <1>1, <1>4, <2>1, <2>2 DEF Learns, Control, PlanUntouched, gatewayOnly, run
<1>5. ASSUME NEW mode, NEW setup \in Setups, NEW updates \in BOOLEAN,
             NEW docs \in BOOLEAN,
             ReceiveTask(mode, setup, CompileTask(updates, docs))
      PROVE  Control'
  BY <1>3, <1>5, TaskBegins DEF ReceiveTask
<1>6. ASSUME NEW setup \in Setups, RequestCompiler(setup)
      PROVE  Control'
  BY <1>3, <1>6, CompilerBegins DEF RequestCompiler
<1>7. ASSUME NEW deltas \in Plans, NEW c \in BOOLEAN, NEW setup \in Setups,
             ReceivePlan(deltas, c, setup)
      PROVE  Control'
  BY <1>3, <1>7, PlanBegins DEF ReceivePlan
<1>8. ASSUME NEW task \in LLMTasks, ResponseAccepted(task)
      PROVE  Control'
  BY <1>4, <1>8, AcceptedLearns DEF ResponseAccepted
<1>9. CASE ResponseRejected \/ ProviderFails \/ ProviderCrashes
  BY <1>1, <1>9
  DEF ResponseRejected, ProviderFails, ProviderCrashes, Control, PlanUntouched,
      gatewayOnly
<1>10. ASSUME NEW found \in BOOLEAN, Deliberate(found)
       PROVE  Control'
  <2>1. rpc' \in {"route", "execute"}
    BY <1>10 DEF Deliberate
  <2> QED
    BY <1>4, <1>10, <2>1, DeliberationLearns
<1>11. CASE RouteRun
  <2>1. rpc' \in {"idle", "execute"}
    BY <1>11 DEF RouteRun
  <2> QED
    BY <1>4, <1>11, <2>1, RoutingLearns
<1>12. CASE ExecutePlanOfRun
  BY <1>1, <1>12 DEF ExecutePlanOfRun, ExecutePlan, Control, gatewayOnly, run
<1>13. CASE ExecuteBatchOfRun
  <2>1. /\ gpc' = "policy" /\ calls' = <<thisCall>> /\ runs' = runs
        /\ rpc' = "gateway" /\ rpc = "execute" /\ run.call /\ ppc' = ppc
    BY <1>13 DEF ExecuteBatchOfRun, G!ExecuteBatch, PlanUntouched
  <2> QED
    BY <1>1, <2>1 DEF Control, run, thisCall
<1>14. CASE RunGateway
  <2>1. /\ rpc = "gateway" /\ runs' = runs /\ ppc' = ppc
        /\ rpc' = IF gpc' = "idle" THEN "idle" ELSE "gateway"
        /\ gpc' = "idle" \/ (gpc' # "idle" /\ calls' = calls)
    BY <1>14, GatewayVarsStep DEF RunGateway, PlanUntouched
  <2> QED
    BY <1>1, <2>1 DEF Control, run, thisCall
<1>15. CASE RunDeltas
  <2>1. ppc' \in {"evaluate", "revise"}
    BY <1>15 DEF RunDeltas, EvaluateDelta, ReviseModel
  <2> QED
    BY <1>1, <1>15, <2>1 DEF RunDeltas, Control, gatewayOnly, run
<1>16. CASE ProposeToolCall
  <2>1. /\ rpc = "plan" /\ ppc = "evaluate" /\ run.call /\ rpc' \in {"tool", "gate"}
        /\ runs' = runs /\ ppc' = ppc /\ gpc' = gpc
    BY <1>16 DEF ProposeToolCall, DeltasDone, PlanUntouched, gatewayOnly
  <2> QED
    BY <1>1, <2>1 DEF Control, run
<1>17. CASE ToolFails \/ ToolReturns
  <2>1. /\ rpc = "tool" /\ rpc' = "gate" /\ runs' = runs /\ ppc' = ppc /\ gpc' = gpc
    BY <1>17 DEF ToolFails, ToolReturns, PlanUntouched, gatewayOnly
  <2> QED
    BY <1>1, <2>1 DEF Control, run
<1>18. CASE ApplyApprovalGate
  <2>1. /\ rpc \in {"plan", "gate"} /\ runs' = runs /\ gpc' = gpc
        /\ rpc' = IF ppc' = "idle" THEN "idle" ELSE "gate"
        /\ ppc' \in {"idle", "gate"}
    BY <1>18
    DEF ApplyApprovalGate, ReturnResult, OpenGate, Decide, ProviderRaises,
        RecordDecisions, gatewayOnly
  <2> QED
    BY <1>1, <2>1 DEF Control, run
<1> QED
  BY <1>2, <1>5, <1>6, <1>7, <1>8, <1>9, <1>10, <1>11, <1>12, <1>13, <1>14, <1>15,
     <1>16, <1>17, <1>18
  DEF RuntimeNext, RunStep

\* The plan at work stays the plan of the run.
LEMMA PlanOfRunStep ==
  ASSUME RuntimeTypeOK, Control, PlanOfRun, [RuntimeNext]_runtimeVars
  PROVE  PlanOfRun'
<1>1. Control'
  BY ControlStep
<1>2. CASE ppc' = "idle"
  BY <1>2 DEF PlanOfRun
<1>3. CASE ExecutePlanOfRun
  <2> DEFINE new == [deltas |-> run.deltas,
                     entry |-> IF run.call THEN "plain" ELSE "domain",
                     pack |-> run.setup.pack, gate |-> run.setup.gate]
  <2>1. plans' = Append(plans, new) /\ asked' = <<>> /\ runs' = runs
    BY <1>3 DEF ExecutePlanOfRun, ExecutePlan
  <2>2. new.deltas = run.deltas /\ (new.entry = "domain" => ~run.call)
    OBVIOUS
  <2> HIDE DEF new
  <2>3. plans' # <<>> /\ plans'[Len(plans')] = new
    BY <2>1, LastAppended DEF RuntimeTypeOK
  <2> QED
    BY <2>1, <2>2, <2>3 DEF PlanOfRun, plan, run
<1>4. CASE UNCHANGED <<plans, runs>> /\ ppc # "idle"
  <2>1. UNCHANGED <<plan, run>>
    BY <1>4 DEF plan, run
  <2>2. asked' # <<>> => plan.deltas # <<>>
    <3>1. CASE EvaluateDelta
      <4>1. index \in 1..Len(plan.deltas)
        BY <3>1 DEF EvaluateDelta, RuntimeTypeOK
      <4> QED
        BY <4>1
    <3>2. CASE asked' = asked
      BY <1>4, <3>2 DEF PlanOfRun
    <3> QED
      BY <1>2, <1>4, <3>1, <3>2
      DEF RuntimeNext, RunStep, ReceiveTask, RequestCompiler, ReceivePlan,
          ResponseAccepted, ResponseRejected, ProviderFails, ProviderCrashes,
          Deliberate, RouteRun, ExecutePlanOfRun, ExecutePlan, ExecuteBatchOfRun,
          RunGateway, RunDeltas, ReviseModel, ProposeToolCall, ToolFails, ToolReturns,
          ApplyApprovalGate, ReturnResult, OpenGate, Decide, ProviderRaises,
          RecordDecisions, PlanUntouched, runtimeVars, planVars
  <2> QED
    BY <1>4, <2>1, <2>2 DEF PlanOfRun
<1>5. ppc = "idle" => ppc' = "idle" \/ ExecutePlanOfRun
  BY <1>1
  DEF Control, RuntimeNext, RunStep, ReceiveTask, RequestCompiler, ReceivePlan,
      ResponseAccepted, ResponseRejected, ProviderFails, ProviderCrashes, Deliberate,
      RouteRun, ExecuteBatchOfRun, RunGateway, RunDeltas, EvaluateDelta, ReviseModel,
      ProposeToolCall, ToolFails, ToolReturns, ApplyApprovalGate, ReturnResult,
      OpenGate, Decide, ProviderRaises, RecordDecisions, DeltasDone, PlanUntouched,
      runtimeVars, planVars
<1>6. ppc # "idle" => UNCHANGED <<plans, runs>>
  BY DEF Control, RuntimeNext, RunStep, ReceiveTask, RequestCompiler, ReceivePlan,
      MayStart, ResponseAccepted, ResponseRejected, ProviderFails, ProviderCrashes,
      Deliberate, RouteRun, ExecutePlanOfRun, ExecutePlan, ExecuteBatchOfRun,
      RunGateway, RunDeltas, EvaluateDelta, ReviseModel, ProposeToolCall, ToolFails,
      ToolReturns, ApplyApprovalGate, ReturnResult, OpenGate, Decide, ProviderRaises,
      RecordDecisions, PlanUntouched, runtimeVars, planVars
<1> QED
  BY <1>2, <1>3, <1>4, <1>5, <1>6

(***************************************************************************)
(* When a revision is about to be written, the last entry of the log is    *)
(* the commitment it answers (ReadyToRevise).                              *)
(***************************************************************************)
LEMMA ReadyStep ==
  ASSUME RuntimeTypeOK, Control, PlanOfRun, ReadyToRevise, [RuntimeNext]_runtimeVars
  PROVE  ReadyToRevise'
<1>1. CASE EvaluateDelta /\ rpc = "plan"
  <2>1. CASE Clear(PlanDecision(plan, plan.deltas[index]))
    <3>1. UNCHANGED <<plans, index>>
      BY <1>1, <2>1 DEF EvaluateDelta
    <3>2. Names(thisId) /\ Clear(DecisionOn(thisId))
      <4>1. plans # <<>>
        BY <1>1 DEF EvaluateDelta, PlanOfRun
      <4> QED
        BY <1>1, <2>1, <4>1
        DEF RuntimeTypeOK, EvaluateDelta, Names, DecisionOn, thisId, plan
    <3>3. thisId' = thisId
      BY <3>1 DEF thisId
    <3> DEFINE decision == PlanDecision(plan, plan.deltas[index])
               entry == [type |-> "commitment", id |-> thisId,
                         success |-> Clear(decision),
                         requires_approval |-> decision.requires_approval]
    <3>4. /\ log' = Append(log, entry)
          /\ entry.type = "commitment" /\ entry.id = thisId /\ entry.success
      <4>1. log' = Append(log, entry)
        BY <1>1 DEF EvaluateDelta
      <4>2. entry.success
        BY <2>1
      <4> QED
        BY <4>1, <4>2
    <3> HIDE DEF entry
    <3>5. log'[Len(log')] = entry /\ log' # <<>>
      <4>1. log \in Seq(RuntimeEntry) /\ log' = Append(log, entry)
        BY <3>4 DEF RuntimeTypeOK
      <4> QED
        BY <4>1, LastAppended
    <3>6. Names(thisId)' /\ DecisionOn(thisId)' = DecisionOn(thisId)
      BY <3>1, <3>2, <3>3 DEF Names, DecisionOn, PlanDecision, thisId
    <3> QED
      BY <3>2, <3>3, <3>4, <3>5, <3>6 DEF ReadyToRevise
  <2>2. CASE ~Clear(PlanDecision(plan, plan.deltas[index]))
    BY <1>1, <2>2 DEF EvaluateDelta, ReadyToRevise
  <2> QED
    BY <2>1, <2>2
<1>2. CASE UNCHANGED runtimeVars
  BY <1>2 DEF runtimeVars, planVars, ReadyToRevise, Names, DecisionOn, PlanDecision,
     thisId
<1>3. CASE ppc' # "revise"
  BY <1>3 DEF ReadyToRevise
<1>4. ppc' = "revise" => (EvaluateDelta /\ rpc = "plan") \/ UNCHANGED runtimeVars
  <2>1. ppc = "revise" => rpc = "plan"
    BY DEF Control, RuntimeTypeOK
  <2> QED
    BY <2>1
    DEF RuntimeNext, RunStep, ReceiveTask, RequestCompiler, ReceivePlan, MayStart,
        ResponseAccepted, ResponseRejected, ProviderFails, ProviderCrashes, Deliberate,
        RouteRun, ExecutePlanOfRun, ExecutePlan, ExecuteBatchOfRun, RunGateway,
        RunDeltas, ReviseModel, ProposeToolCall, ToolFails, ToolReturns,
        ApplyApprovalGate, ReturnResult, OpenGate, Decide, ProviderRaises,
        RecordDecisions, DeltasDone, PlanUntouched
<1> QED
  BY <1>1, <1>2, <1>3, <1>4

\* What every other part of the invariant rests on.
Basics ==
  /\ RuntimeTypeOK
  /\ Control
  /\ PlanOfRun
  /\ ReadyToRevise

\* They hold after each step ...
LEMMA BasicsStep ==
  ASSUME Basics, [RuntimeNext]_runtimeVars
  PROVE  Basics'
  BY TypeStep, ControlStep, PlanOfRunStep, ReadyStep DEF Basics

\* ... and before the first.
LEMMA BasicsInit ==
  ASSUME RuntimeInit
  PROVE  Basics
<1>1. /\ log = <<>> /\ plans = <<>> /\ ppc = "idle" /\ index = 1 /\ prior = 0
      /\ asked = <<>> /\ answers = <<>> /\ gpc = "idle" /\ calls = <<>>
      /\ state_id = 0 /\ effects = <<>> /\ batches = 0 /\ runs = <<>> /\ rpc = "idle"
  BY DEF RuntimeInit, PlanInit, G!GatewayInit
<1>2. RuntimeTypeOK
  BY <1>1, RuntimeAssumption DEF RuntimeTypeOK
<1>3. Control
  BY <1>1 DEF Control
<1> QED
  BY <1>1, <1>2, <1>3 DEF Basics, PlanOfRun, ReadyToRevise

--------------------------------------------------------------------------------
(***************************************************************************)
(* Positions: what was written stays where it is, and what is new belongs  *)
(* to the last run.                                                        *)
(***************************************************************************)

\* The log is append-only, and what is new in it is justified.
LEMMA LogStep ==
  ASSUME Basics, [RuntimeNext]_runtimeVars
  PROVE  /\ Len(log) \in Nat /\ Len(log') \in Nat /\ Len(log) <= Len(log')
         /\ \A n \in 1..Len(log) : log'[n] = log[n]
         /\ \E entries :
              /\ Adds(entries)
              /\ Len(log') = Len(log) + Len(entries)
              /\ \A n \in 1..Len(log') :
                   n > Len(log) =>
                     /\ n - Len(log) \in 1..Len(entries)
                     /\ log'[n] = entries[n - Len(log)]
<1>1. PICK entries : Adds(entries)
  BY StepAdds DEF Basics
<1>2. /\ entries \in Seq(RuntimeEntry) /\ log \in Seq(RuntimeEntry)
      /\ log' = log \o entries
  BY <1>1 DEF Adds, Basics, RuntimeTypeOK
<1>3. /\ Len(log) \in Nat /\ Len(entries) \in Nat /\ Len(log') = Len(log) + Len(entries)
      /\ \A n \in 1..Len(log) : log'[n] = log[n]
      /\ \A n \in 1..Len(log') :
           n > Len(log) => /\ n - Len(log) \in 1..Len(entries)
                           /\ log'[n] = entries[n - Len(log)]
  BY <1>2
<1> QED
  BY <1>1, <1>3

\* Runs stay in their order, and the ones before the last are over.
LEMMA RunsKept ==
  ASSUME Basics, [RuntimeNext]_runtimeVars
  PROVE  /\ Len(runs) \in Nat /\ Len(runs') \in {Len(runs), Len(runs) + 1}
         /\ \A r \in 1..Len(runs) :
              /\ runs'[r].mode = runs[r].mode
              /\ runs'[r].setup = runs[r].setup
              /\ runs'[r].from = runs[r].from
              /\ runs[r].mode # "compiler" => runs'[r].task = runs[r].task
         /\ \A r \in 1..Len(runs') : runs'[r] \in Run
         /\ Len(runs') # Len(runs) =>
              /\ rpc = "idle"
              /\ runs'[Len(runs')].from = Len(log)
<1>1. runs \in Seq(Run) /\ Len(runs) \in Nat
  BY DEF Basics, RuntimeTypeOK
<1>2. CASE UNCHANGED runs
  BY <1>1, <1>2
<1>3. ASSUME NEW new, Begins(new)
      PROVE  /\ Len(runs') = Len(runs) + 1
             /\ \A r \in 1..Len(runs) : runs'[r] = runs[r]
             /\ rpc = "idle"
             /\ runs'[Len(runs')] = new
             /\ new.from = Len(log)
  <2>1. runs' = Append(runs, new) /\ rpc = "idle" /\ new.from = Len(log)
    BY <1>3 DEF Begins
  <2> QED
    BY <1>1, <2>1, LastAppended
<1>4. ASSUME NEW known, Learns(known)
      PROVE  /\ Len(runs') = Len(runs)
             /\ \A r \in 1..Len(runs) :
                  /\ runs'[r].mode = runs[r].mode
                  /\ runs'[r].setup = runs[r].setup
                  /\ runs'[r].from = runs[r].from
                  /\ runs[r].mode # "compiler" => runs'[r].task = runs[r].task
  <2>1. /\ runs' = [runs EXCEPT ![Len(runs)] = known]
        /\ known.mode = runs[Len(runs)].mode
        /\ known.setup = runs[Len(runs)].setup
        /\ known.from = runs[Len(runs)].from
        /\ runs[Len(runs)].mode # "compiler" => known.task = runs[Len(runs)].task
    BY <1>4 DEF Learns, Determine, run
  <2> QED
    BY <1>1, <2>1
<1>5. \A r \in 1..Len(runs') : runs'[r] \in Run
  <2>1. RuntimeTypeOK'
    BY BasicsStep DEF Basics
  <2> QED
    BY <2>1 DEF RuntimeTypeOK
<1> QED
  BY <1>1, <1>2, <1>3, <1>4, <1>5, RunsStep DEF Basics

\* Whether a run deliberates off the record, and on what, does not change.
LEMMA UnrecordedKept ==
  ASSUME Basics, [RuntimeNext]_runtimeVars, NEW r \in 1..Len(runs)
  PROVE  /\ Unrecorded(r)' <=> Unrecorded(r)
         /\ Unrecorded(r) => OffRecord(r)' = OffRecord(r)
<1>1. /\ runs'[r].mode = runs[r].mode /\ runs'[r].setup = runs[r].setup
      /\ runs[r].mode # "compiler" => runs'[r].task = runs[r].task
  BY RunsKept
<1> QED
  BY <1>1 DEF Unrecorded, OffRecord

\* Each run begins where the one before it ends (RunsInOrder).
LEMMA InOrderStep ==
  ASSUME Basics, RunsInOrder, [RuntimeNext]_runtimeVars
  PROVE  RunsInOrder'
<1>1. /\ Len(log) \in Nat /\ Len(log') \in Nat /\ Len(log) <= Len(log')
  BY LogStep
<1>2. /\ Len(runs) \in Nat /\ Len(runs') \in {Len(runs), Len(runs) + 1}
      /\ \A r \in 1..Len(runs) : runs'[r].from = runs[r].from
      /\ Len(runs') # Len(runs) => runs'[Len(runs')].from = Len(log)
  BY RunsKept
<1>3. \A r \in 1..Len(runs') : runs'[r].from \in Nat /\ runs'[r].from <= Len(log)
  <2>1. \A r \in 1..Len(runs') : runs'[r].from \in Nat
    BY RunsKept DEF Run
  <2> QED
    BY <1>1, <1>2, <2>1 DEF RunsInOrder
<1>4. ASSUME NEW r \in 1..(Len(runs') - 1)
      PROVE  runs'[r].from <= runs'[r + 1].from
  <2>1. r \in 1..Len(runs) /\ runs'[r].from = runs[r].from /\ runs[r].from <= Len(log)
    BY <1>2 DEF RunsInOrder
  <2>2. CASE r + 1 \in 1..Len(runs)
    <3>1. r \in 1..(Len(runs) - 1) /\ runs'[r + 1].from = runs[r + 1].from
      BY <1>2, <2>2
    <3> QED
      BY <2>1, <3>1 DEF RunsInOrder
  <2>3. CASE r + 1 \notin 1..Len(runs)
    <3>1. r + 1 = Len(runs') /\ Len(runs') # Len(runs)
      BY <1>2, <2>1, <2>3
    <3> QED
      BY <1>2, <2>1, <3>1
  <2> QED
    BY <2>2, <2>3
<1>5. \A r \in 1..Len(runs') : runs'[r].from <= Len(log')
  BY <1>1, <1>3
<1> QED
  BY <1>4, <1>5 DEF RunsInOrder

\* What a run has written is on record.
LEMMA WrittenInLog ==
  ASSUME Basics, RunsInOrder, NEW r \in 1..Len(runs), NEW n \in Written(r)
  PROVE  n \in 1..Len(log)
<1>1. Len(runs) \in Nat /\ Len(log) \in Nat
  BY DEF Basics, RuntimeTypeOK
<1>2. \A q \in 1..Len(runs) : runs[q].from \in Nat /\ runs[q].from <= Len(log)
  <2>1. \A q \in 1..Len(runs) : runs[q] \in Run
    BY DEF Basics, RuntimeTypeOK
  <2> QED
    BY <2>1 DEF Run, RunsInOrder
<1>3. n \in (runs[r].from + 1)..(IF r < Len(runs) THEN runs[r + 1].from ELSE Len(log))
  BY DEF Written
<1>4. r < Len(runs) => r + 1 \in 1..Len(runs)
  BY <1>1
<1> QED
  BY <1>1, <1>2, <1>3, <1>4

\* What a run has written: the positions it had, and for the last run the
\* new ones.
LEMMA WrittenStep ==
  ASSUME Basics, RunsInOrder, [RuntimeNext]_runtimeVars, NEW r \in 1..Len(runs')
  PROVE  /\ \A n \in Written(r)' : n \in 1..Len(log')
         /\ r = Len(runs') =>
              \A n \in (Len(log) + 1)..Len(log') : n \in Written(r)'
         /\ r \in 1..Len(runs) =>
              \A n \in 1..Len(log) : n \in Written(r)' <=> n \in Written(r)
         /\ \A n \in Written(r)' :
              n > Len(log) \/ r \notin 1..Len(runs) => r = Len(runs') /\ n > Len(log)
<1>1. /\ Len(log) \in Nat /\ Len(log') \in Nat /\ Len(log) <= Len(log')
  BY LogStep
<1>2. /\ Len(runs) \in Nat /\ Len(runs') \in {Len(runs), Len(runs) + 1}
      /\ \A q \in 1..Len(runs) : runs'[q].from = runs[q].from
      /\ Len(runs') # Len(runs) => runs'[Len(runs')].from = Len(log)
      /\ \A q \in 1..Len(runs') : runs'[q].from \in Nat
  BY RunsKept DEF Run
<1>3. \A q \in 1..Len(runs) : runs[q].from \in Nat /\ runs[q].from <= Len(log)
  BY <1>2 DEF RunsInOrder
<1>4. Written(r)' =
        (runs'[r].from + 1)..(IF r < Len(runs') THEN runs'[r + 1].from ELSE Len(log'))
  BY DEF Written
<1>5. Written(r) =
        (runs[r].from + 1)..(IF r < Len(runs) THEN runs[r + 1].from ELSE Len(log))
  BY DEF Written
<1>6. CASE r \notin 1..Len(runs)
  BY <1>1, <1>2, <1>4, <1>6
<1>7. CASE r \in 1..Len(runs) /\ r < Len(runs)
  <2>1. r + 1 \in 1..Len(runs) /\ r < Len(runs')
    BY <1>2, <1>7
  <2>2. Written(r)' = Written(r)
    BY <1>2, <1>4, <1>5, <1>7, <2>1
  <2>3. \A n \in Written(r) : n \in 1..Len(log)
    BY <1>1, <1>3, <1>5, <1>7, <2>1
  <2> QED
    BY <1>1, <1>7, <2>1, <2>2, <2>3
<1>8. CASE r \in 1..Len(runs) /\ r = Len(runs)
  BY <1>1, <1>2, <1>3, <1>4, <1>5, <1>8
<1> QED
  BY <1>2, <1>6, <1>7, <1>8

--------------------------------------------------------------------------------
(***************************************************************************)
(* Revisions: RevisionsJustified and what it takes.                        *)
(***************************************************************************)

\* A plan once executed is not changed: what its ids name and how they were
\* decided stays.
LEMMA PlansKept ==
  ASSUME Basics, [RuntimeNext]_runtimeVars, NEW id, Names(id)
  PROVE  /\ Names(id)'
         /\ DecisionOn(id)' = DecisionOn(id)
         /\ plans'[id.plan] = plans[id.plan]
<1>1. CASE UNCHANGED plans
  BY <1>1 DEF Names, DecisionOn, PlanDecision
<1>2. CASE \E executed : plans' = Append(plans, executed)
  <2>1. /\ id.plan \in 1..Len(plans')
        /\ plans'[id.plan] = plans[id.plan]
    BY <1>2 DEF Names, Basics, RuntimeTypeOK
  <2> QED
    BY <2>1 DEF Names, DecisionOn, PlanDecision
<1> QED
  BY <1>1, <1>2
  DEF RuntimeNext, RunStep, ReceiveTask, RequestCompiler, ReceivePlan,
      ResponseAccepted, ResponseRejected, ProviderFails, ProviderCrashes, Deliberate,
      RouteRun, ExecutePlanOfRun, ExecutePlan, ExecuteBatchOfRun, RunGateway,
      RunDeltas, EvaluateDelta, ReviseModel, ProposeToolCall, ToolFails, ToolReturns,
      ApplyApprovalGate, ReturnResult, OpenGate, Decide, ProviderRaises,
      RecordDecisions, PlanUntouched, runtimeVars, planVars

\* A revision that is new was written by ReviseModel, or promotes what the
\* run has just observed.
LEMMA NewRevision ==
  ASSUME Basics, [RuntimeNext]_runtimeVars,
         NEW n \in 1..Len(log'), n > Len(log), IsRevision(log'[n])
  PROVE  \/ /\ ReviseModel
            /\ rpc = "plan"
            /\ n = Len(log) + 1 /\ Len(log') = n
            /\ log'[n].cause = thisId
            /\ log'[n].prior = prior
            /\ log'[n].result = index
         \/ /\ rpc = "tool"
            /\ n = Len(log) + 4 /\ Len(log') = n
            /\ log'[n - 2].type = "observation"
            /\ log'[n - 1].type = "commitment"
            /\ log'[n - 1].id = log'[n].cause
            /\ log'[n - 1].success
            /\ log'[n].cause = PromotionId
            /\ log'[n].prior = ReplayedState(log)
            /\ Clear(EvaluateDeltaPolicyInDomain(PromotionDelta, run.setup.pack))
<1>1. PICK entries :
        /\ Adds(entries)
        /\ Len(log') = Len(log) + Len(entries)
        /\ \A m \in 1..Len(log') :
             m > Len(log) => /\ m - Len(log) \in 1..Len(entries)
                             /\ log'[m] = entries[m - Len(log)]
  BY LogStep
<1>2. /\ Len(log) \in Nat /\ Len(log') \in Nat /\ Len(log) <= Len(log')
  BY LogStep
<1> DEFINE k == n - Len(log)
<1>3. k \in 1..Len(entries) /\ log'[n] = entries[k]
  BY <1>1
<1>4. Grounded(entries, k)
  BY <1>1, <1>3 DEF Adds, Justified
<1>5. CASE /\ ReviseModel
           /\ rpc = "plan"
           /\ entries = <<[type |-> "revision", cause |-> thisId, prior |-> prior,
                           result |-> index]>>
  <2>1. Len(entries) = 1 /\ k = 1
    BY <1>3, <1>5
  <2>2. /\ entries[1].cause = thisId /\ entries[1].prior = prior
        /\ entries[1].result = index
    BY <1>5
  <2> QED
    BY <1>1, <1>2, <1>3, <1>5, <2>1, <2>2
<1>6. CASE /\ rpc = "tool"
           /\ k = 4 /\ Len(entries) = 4
           /\ entries[2].type = "observation"
           /\ entries[3].type = "commitment"
           /\ entries[3].id = PromotionId
           /\ entries[3].success
           /\ entries[4].cause = PromotionId
           /\ entries[4].prior = ReplayedState(log)
           /\ Clear(EvaluateDeltaPolicyInDomain(PromotionDelta, run.setup.pack))
  <2>1. n = Len(log) + 4 /\ Len(log') = n
    BY <1>1, <1>2, <1>6
  <2>2. log'[n - 2] = entries[2] /\ log'[n - 1] = entries[3] /\ log'[n] = entries[4]
    <3>1. /\ n - 2 \in 1..Len(log') /\ n - 2 > Len(log) /\ (n - 2) - Len(log) = 2
          /\ n - 1 \in 1..Len(log') /\ n - 1 > Len(log) /\ (n - 1) - Len(log) = 3
      BY <1>2, <2>1
    <3> QED
      BY <1>1, <1>3, <1>6, <3>1
  <2> QED
    BY <1>6, <2>1, <2>2
<1> QED
  BY <1>4, <1>5, <1>6 DEF Grounded

\* A revision names a delta of its plan, or the promotion.
LEMMA RevisionsNamedStep ==
  ASSUME Basics, RevisionsNamed, [RuntimeNext]_runtimeVars
  PROVE  RevisionsNamed'
<1> SUFFICES ASSUME NEW n \in 1..Len(log'), IsRevision(log'[n]),
                    NEW id, id = log'[n].cause, id.index # 0
             PROVE  Names(id)'
  BY DEF RevisionsNamed, IsRevision, Names
<1>1. Names(id)
  <2>1. CASE n <= Len(log)
    <3>1. n \in 1..Len(log) /\ log'[n] = log[n]
      BY <2>1, LogStep
    <3> QED
      BY <3>1 DEF RevisionsNamed
  <2>2. CASE n > Len(log)
    <3>1. CASE rpc = "plan" /\ ReviseModel /\ id = thisId
      BY <3>1 DEF Basics, ReadyToRevise, ReviseModel
    <3>2. CASE id = PromotionId
      BY <3>2 DEF PromotionId
    <3> QED
      BY <2>2, <3>1, <3>2, NewRevision
  <2> QED
    BY <2>1, <2>2, LogStep
<1> QED
  BY <1>1, PlansKept

\* The conditions on one revision, at position n of run r.
LetThrough(r, n, id) ==
  IF id.index # 0
  THEN Names(id) /\ Clear(DecisionOn(id))
  ELSE /\ \E m \in Written(r) : m < n /\ log[m].type = "observation"
       /\ Clear(EvaluateDeltaPolicyInDomain(PromotionDelta, runs[r].setup.pack))

\* What was written stays justified; a new revision is justified by the
\* commitment it follows, a promotion by the observation before it.
LEMMA RevisionsJustifiedStep ==
  ASSUME Basics, RunsInOrder, RevisionsJustified, [RuntimeNext]_runtimeVars
  PROVE  RevisionsJustified'
<1>0. ASSUME \A r \in 1..Len(runs') : \A n \in Written(r)' :
               \A id \in {log'[n].cause} :
                 IsRevision(log'[n]) =>
                   CommittedBefore(log', n, id) /\ LetThrough(r, n, id)'
      PROVE  RevisionsJustified'
  BY <1>0
  DEF RevisionsJustified, LetThrough, Names, DecisionOn, CommittedBefore, IsRevision
<1> SUFFICES ASSUME NEW r \in 1..Len(runs'), NEW n \in Written(r)',
                    IsRevision(log'[n]), NEW id, id = log'[n].cause
             PROVE  /\ CommittedBefore(log', n, id)
                    /\ id.index # 0 => Names(id)' /\ Clear(DecisionOn(id)')
                    /\ id.index = 0 =>
                         /\ \E m \in Written(r)' : m < n /\ log'[m].type = "observation"
                         /\ Clear(EvaluateDeltaPolicyInDomain(PromotionDelta,
                                                             runs'[r].setup.pack))
  BY <1>0 DEF LetThrough
<1>1. /\ Len(log) \in Nat /\ Len(log') \in Nat /\ Len(log) <= Len(log')
      /\ \A m \in 1..Len(log) : log'[m] = log[m]
  BY LogStep
<1>2. n \in 1..Len(log')
  BY WrittenStep
<1>3. CASE n <= Len(log)
  <2>1. /\ n \in 1..Len(log) /\ log'[n] = log[n]
        /\ r \in 1..Len(runs) /\ n \in Written(r)
    BY <1>1, <1>2, <1>3, WrittenStep
  <2>2. /\ CommittedBefore(log, n, id)
        /\ id.index # 0 => Names(id) /\ Clear(DecisionOn(id))
        /\ id.index = 0 =>
             /\ \E m \in Written(r) : m < n /\ log[m].type = "observation"
             /\ Clear(EvaluateDeltaPolicyInDomain(PromotionDelta, runs[r].setup.pack))
    BY <2>1 DEF RevisionsJustified
  <2>3. CommittedBefore(log', n, id)
    BY <1>1, <2>1, <2>2 DEF CommittedBefore
  <2>4. id.index # 0 => Names(id)' /\ Clear(DecisionOn(id)')
    BY <2>2, PlansKept
  <2>5. ASSUME id.index = 0
        PROVE  \E m \in Written(r)' : m < n /\ log'[m].type = "observation"
    <3>1. PICK m \in Written(r) : m < n /\ log[m].type = "observation"
      BY <2>2, <2>5
    <3>2. m \in 1..Len(log)
      BY <2>1, WrittenInLog
    <3>3. m \in Written(r)'
      BY <2>1, <3>1, <3>2, WrittenStep
    <3> QED
      BY <1>1, <3>1, <3>2, <3>3
  <2>6. runs'[r].setup = runs[r].setup
    BY <2>1, RunsKept
  <2> QED
    BY <2>2, <2>3, <2>4, <2>5, <2>6
<1>4. CASE n > Len(log)
  <2>1. r = Len(runs')
    BY <1>4, WrittenStep
  <2>2. CASE /\ ReviseModel
             /\ n = Len(log) + 1
             /\ id = thisId
    <3>1. /\ Names(id) /\ Clear(DecisionOn(id))
          /\ log # <<>>
          /\ log[Len(log)].type = "commitment"
          /\ log[Len(log)].id = id
          /\ log[Len(log)].success
      BY <2>2 DEF ReviseModel, Basics, ReadyToRevise
    <3>2. Len(log) \in 1..(n - 1)
      <4>1. Len(log) # 0
        BY <3>1 DEF Basics, RuntimeTypeOK
      <4> QED
        BY <1>1, <2>2, <4>1
    <3>3. CommittedBefore(log', n, id)
      BY <1>1, <3>1, <3>2 DEF CommittedBefore
    <3>4. id.index # 0
      BY <2>2 DEF thisId, Basics, RuntimeTypeOK
    <3> QED
      BY <3>1, <3>3, <3>4, PlansKept
  <2>3. CASE /\ rpc = "tool"
             /\ n = Len(log) + 4
             /\ log'[n - 2].type = "observation"
             /\ log'[n - 1].type = "commitment"
             /\ log'[n - 1].id = id
             /\ log'[n - 1].success
             /\ id = PromotionId
             /\ Clear(EvaluateDeltaPolicyInDomain(PromotionDelta, run.setup.pack))
    <3>1. n - 1 \in 1..(n - 1) /\ n - 2 \in (Len(log) + 1)..Len(log') /\ n - 2 < n
      BY <1>1, <1>2, <2>3
    <3>2. CommittedBefore(log', n, id)
      BY <2>3, <3>1 DEF CommittedBefore
    <3>3. n - 2 \in Written(r)'
      BY <2>1, <3>1, WrittenStep
    <3>4. runs'[r].setup = run.setup
      <4>1. Len(runs') = Len(runs)
        BY <2>3, RunsKept
      <4> QED
        BY <2>1, <4>1, RunsKept DEF run
    <3>5. id.index = 0
      BY <2>3 DEF PromotionId
    <3> QED
      BY <2>3, <3>1, <3>2, <3>3, <3>4, <3>5
  <2> QED
    BY <1>2, <1>4, <2>2, <2>3, NewRevision
<1> QED
  BY <1>1, <1>2, <1>3, <1>4

--------------------------------------------------------------------------------
(***************************************************************************)
(* The chain of states: ChainWhereThreaded and what it takes.              *)
(***************************************************************************)

\* Replay of what was on record stays what it was, at each position.
LEMMA ReplayKept ==
  ASSUME Basics, [RuntimeNext]_runtimeVars, NEW n \in Nat, n <= Len(log)
  PROVE  ReplayedAt(log', n) = ReplayedAt(log, n)
<1>1. \A m \in 1..n : log'[m] = log[m]
  BY LogStep
<1> QED
  BY <1>1, ReplayReadsPrefix

\* Up to a first new revision, replay stays where it was.
LEMMA ReplayUpToRevision ==
  ASSUME Basics, [RuntimeNext]_runtimeVars, NEW n \in Nat,
         Len(log) <= n, n <= Len(log'),
         \A m \in (Len(log) + 1)..n : ~IsRevision(log'[m])
  PROVE  ReplayedAt(log', n) = ReplayedState(log)
<1>1. Len(log) \in Nat
  BY LogStep
<1>2. ReplayedAt(log', n) = ReplayedAt(log', Len(log))
  BY <1>1, ReplaySkipsOthers
<1> QED
  BY <1>1, <1>2, ReplayKept DEF ReplayedState

\* A domain plan takes its count from the log, and writes nothing but its
\* commitments between two revisions.
LEMMA PriorStep ==
  ASSUME Basics, PriorOfRun, [RuntimeNext]_runtimeVars
  PROVE  PriorOfRun'
<1> SUFFICES ASSUME rpc' = "plan", plan'.entry = "domain"
             PROVE  prior' = ReplayedState(log')
  BY DEF PriorOfRun
<1>1. Len(log) \in Nat /\ Len(log') \in Nat /\ Len(log) <= Len(log')
  BY LogStep
<1>2. CASE ExecutePlanOfRun
  <2> DEFINE entry == IF run.call THEN "plain" ELSE "domain"
             new == [deltas |-> run.deltas, entry |-> entry,
                     pack |-> run.setup.pack, gate |-> run.setup.gate]
  <2>1. /\ plans' = Append(plans, new) /\ log' = log
        /\ prior' = IF entry = "domain" THEN ReplayedState(log) ELSE 0
    BY <1>2 DEF ExecutePlanOfRun, ExecutePlan
  <2>2. new.entry = entry
    OBVIOUS
  <2> HIDE DEF new
  <2>3. plan' = new
    <3>1. plans \in Seq(ExecutedPlan) /\ plans' = Append(plans, new)
      BY <2>1 DEF Basics, RuntimeTypeOK
    <3> QED
      BY <3>1, LastAppended DEF plan
  <2> QED
    BY <2>1, <2>2, <2>3
<1>3. CASE RunDeltas
  <2>1. CASE EvaluateDelta
    <3>1. UNCHANGED <<prior, plan>> /\ rpc = "plan"
      BY <1>3, <2>1 DEF EvaluateDelta, RunDeltas, plan
    <3>2. \A m \in (Len(log) + 1)..Len(log') : ~IsRevision(log'[m])
      <4>1. ~ReviseModel
        BY <2>1 DEF EvaluateDelta, ReviseModel
      <4> QED
        BY <1>1, <3>1, <4>1, NewRevision
    <3>3. ReplayedState(log') = ReplayedState(log)
      BY <1>1, <3>2, ReplayUpToRevision DEF ReplayedState
    <3> QED
      BY <3>1, <3>3 DEF PriorOfRun
  <2>2. CASE ReviseModel
    <3> DEFINE entry == [type |-> "revision", cause |-> thisId, prior |-> prior,
                         result |-> index]
    <3>1. log' = Append(log, entry) /\ prior' = index
      BY <2>2 DEF ReviseModel
    <3>2. entry.type = "revision" /\ entry.result = index
      OBVIOUS
    <3> HIDE DEF entry
    <3>3. /\ log'[Len(log')] = entry /\ Len(log') \in Nat \ {0}
      <4>1. log \in Seq(RuntimeEntry) /\ log' = Append(log, entry)
        BY <3>1 DEF Basics, RuntimeTypeOK
      <4> QED
        BY <4>1, LastAppended
    <3> QED
      BY <3>1, <3>2, <3>3, ReplayEndsInRevision DEF ReplayedState, IsRevision
  <2> QED
    BY <1>3, <2>1, <2>2 DEF RunDeltas
<1>4. CASE UNCHANGED runtimeVars
  BY <1>4 DEF runtimeVars, planVars, PriorOfRun, plan
<1> QED
  BY <1>2, <1>3, <1>4
  DEF RuntimeNext, RunStep, ReceiveTask, RequestCompiler, ReceivePlan,
      ResponseAccepted, ResponseRejected, ProviderFails, ProviderCrashes, Deliberate,
      RouteRun, ExecuteBatchOfRun, RunGateway, ProposeToolCall, ToolFails, ToolReturns,
      ApplyApprovalGate

\* A new revision continues from the state the log replays to.
LEMMA ChainStep ==
  ASSUME Basics, RevisionsNamed, PriorOfRun, ChainWhereThreaded,
         [RuntimeNext]_runtimeVars
  PROVE  ChainWhereThreaded'
<1> SUFFICES ASSUME NEW n \in 1..Len(log'), IsRevision(log'[n]),
                    NEW id, id = log'[n].cause,
                    id.index = 0 \/ plans'[id.plan].entry = "domain"
             PROVE  log'[n].prior = ReplayedAt(log', n - 1)
  BY DEF ChainWhereThreaded, IsRevision
<1>1. /\ Len(log) \in Nat /\ Len(log') \in Nat /\ Len(log) <= Len(log')
      /\ \A m \in 1..Len(log) : log'[m] = log[m]
  BY LogStep
<1>2. CASE n <= Len(log)
  <2>1. n \in 1..Len(log) /\ log'[n] = log[n] /\ n - 1 \in Nat /\ n - 1 <= Len(log)
    BY <1>1, <1>2
  <2>2. id.index = 0 \/ plans[id.plan].entry = "domain"
    <3>1. id.index = 0 \/ Names(id)
      BY <2>1 DEF RevisionsNamed
    <3> QED
      BY <3>1, PlansKept
  <2>3. log[n].prior = ReplayedAt(log, n - 1)
    BY <2>1, <2>2 DEF ChainWhereThreaded
  <2> QED
    BY <2>1, <2>3, ReplayKept
<1>3. CASE n > Len(log)
  <2>1. n - 1 \in Nat /\ Len(log) <= n - 1 /\ n - 1 <= Len(log')
    BY <1>1, <1>3
  <2>2. \A m \in (Len(log) + 1)..(n - 1) : ~IsRevision(log'[m])
    <3>1. \A m \in (Len(log) + 1)..(n - 1) :
            m \in 1..Len(log') /\ m > Len(log) /\ m < n /\ m # Len(log')
      BY <1>1
    <3> QED
      BY <3>1, NewRevision
  <2>3. ReplayedAt(log', n - 1) = ReplayedState(log)
    BY <2>1, <2>2, ReplayUpToRevision
  <2>4. log'[n].prior = ReplayedState(log)
    <3>1. CASE ReviseModel /\ rpc = "plan" /\ id = thisId /\ log'[n].prior = prior
      <4>1. id.index # 0 /\ id.plan = Len(plans) /\ plans' = plans
        BY <3>1 DEF thisId, Basics, RuntimeTypeOK, ReviseModel
      <4>2. plan.entry = "domain"
        BY <4>1 DEF plan
      <4> QED
        BY <3>1, <4>2 DEF PriorOfRun
    <3> QED
      BY <1>3, <3>1, NewRevision
  <2> QED
    BY <2>3, <2>4
<1> QED
  BY <1>1, <1>2, <1>3

--------------------------------------------------------------------------------
(***************************************************************************)
(* Actions follow deliberation: Undecided, Decided and                     *)
(* ActionsFollowDeliberation.                                              *)
(***************************************************************************)

\* An entry that is new is one its step may write.
LEMMA NewEntry ==
  ASSUME Basics, [RuntimeNext]_runtimeVars, NEW n \in 1..Len(log'), n > Len(log)
  PROVE  /\ Chooses(log'[n]) => rpc = "deliberate"
         /\ log'[n].type \in Acting =>
              /\ rpc \in {"plan", "tool", "gate", "gateway"}
              /\ run.deltas # <<>> \/ run.call
         /\ log'[n].type \in ToolActing => run.call
         /\ log'[n].type = "compiler" =>
              log'[n].outcome = "requested" \/ rpc = "compiling"
<1>1. PICK entries :
        /\ Adds(entries)
        /\ n - Len(log) \in 1..Len(entries)
        /\ log'[n] = entries[n - Len(log)]
  BY LogStep
<1>2. Justified(entries, n - Len(log))
  BY <1>1 DEF Adds
<1> QED
  BY <1>1, <1>2 DEF Justified

\* What comes before the deliberation, and what comes after it.
Early == {"compiling", "deliberate"}
Late == {"route", "execute", "plan", "tool", "gate", "gateway"}

\* Only the start of a run, or the compiler, leads up to the deliberation ...
LEMMA EarlySteps ==
  ASSUME Basics, [RuntimeNext]_runtimeVars, rpc' \in Early
  PROVE  \/ rpc = "idle" /\ Len(runs') # Len(runs)
         \/ rpc = "compiling"
         \/ UNCHANGED runtimeVars
<1>1. CASE \E new : Begins(new)
  <2>1. PICK new : Begins(new)
    BY <1>1
  <2>2. rpc = "idle" /\ Len(runs') = Len(runs) + 1 /\ Len(runs) \in Nat
    <3>1. rpc = "idle" /\ runs' = Append(runs, new) /\ runs \in Seq(Run)
      BY <2>1 DEF Begins, Basics, RuntimeTypeOK
    <3> QED
      BY <3>1, LastAppended
  <2> QED
    BY <2>2
<1>2. CASE RunStep
  BY <1>2
  DEF Early, RunStep, ResponseAccepted, ResponseRejected, ProviderFails,
      ProviderCrashes, Deliberate, RouteRun, ExecutePlanOfRun, ExecuteBatchOfRun,
      RunGateway, RunDeltas, ProposeToolCall, ToolFails, ToolReturns,
      ApplyApprovalGate
<1> QED
  BY <1>1, <1>2, TaskBegins, CompilerBegins, PlanBegins DEF Basics, RuntimeNext

\* ... and only the deliberation, or what follows it, leads on.
LEMMA LateSteps ==
  ASSUME Basics, [RuntimeNext]_runtimeVars, rpc' \in Late
  PROVE  \/ \E found \in BOOLEAN : Deliberate(found)
         \/ \E new : Begins(new) /\ new.mode = "plan"
         \/ /\ rpc \in Late
            /\ Len(runs') = Len(runs)
            /\ run'.action = run.action
            /\ run'.deltas = run.deltas
            /\ run'.call = run.call
<1>1. CASE RouteRun
  <2>1. PICK known : /\ Learns(known)
                     /\ known.action = run.action /\ known.deltas = run.deltas
                     /\ known.call = run.call
    BY <1>1, RoutingLearns DEF Basics
  <2>2. /\ runs' = [runs EXCEPT ![Len(runs)] = known] /\ runs # <<>>
        /\ runs \in Seq(Run)
    BY <2>1 DEF Learns, Determine, Basics, RuntimeTypeOK
  <2>3. Len(runs') = Len(runs) /\ runs'[Len(runs)] = known
    BY <2>2
  <2> QED
    BY <1>1, <2>1, <2>3 DEF RouteRun, Late, run
<1>2. CASE UNCHANGED runs /\ rpc \in Late
  BY <1>2 DEF run
<1>3. ASSUME NEW deltas \in Plans, NEW c \in BOOLEAN, NEW setup \in Setups,
             ReceivePlan(deltas, c, setup)
      PROVE  \E new : Begins(new) /\ new.mode = "plan"
  BY <1>3, PlanBegins DEF Basics
<1>4. CASE UNCHANGED runtimeVars
  BY <1>2, <1>4 DEF runtimeVars
<1> QED
  BY <1>1, <1>2, <1>3, <1>4
  DEF Late, RuntimeNext, RunStep, ReceiveTask, RequestCompiler,
      ResponseAccepted, ResponseRejected, ProviderFails, ProviderCrashes,
      ExecutePlanOfRun, ExecuteBatchOfRun, RunGateway, RunDeltas, ProposeToolCall,
      ToolFails, ToolReturns, ApplyApprovalGate

\* No step before the deliberation acts.
LEMMA UndecidedStep ==
  ASSUME Basics, RunsInOrder, Undecided, [RuntimeNext]_runtimeVars
  PROVE  Undecided'
<1> SUFFICES ASSUME rpc' \in Early, NEW r, r = Len(runs'), NEW n \in Written(r)'
             PROVE  log'[n].type \notin Acting /\ ~Chooses(log'[n])
  BY DEF Undecided, Early, Written
<1>1. CASE UNCHANGED runtimeVars
  BY <1>1 DEF runtimeVars, planVars, Undecided, Written, Early
<1>2. CASE rpc = "compiling" \/ (rpc = "idle" /\ Len(runs') # Len(runs))
  <2>1. /\ Len(log) \in Nat /\ \A m \in 1..Len(log) : log'[m] = log[m]
        /\ Len(runs) \in Nat /\ Len(runs') \in {Len(runs), Len(runs) + 1}
    BY LogStep, RunsKept
  <2>2. r \in 1..Len(runs')
    <3>1. Control'
      BY BasicsStep DEF Basics
    <3>2. runs' # <<>>
      BY <3>1 DEF Control, Early
    <3>3. RuntimeTypeOK'
      BY BasicsStep DEF Basics
    <3> QED
      BY <3>2, <3>3 DEF RuntimeTypeOK
  <2>3. n \in 1..Len(log')
    BY <2>2, WrittenStep
  <2>4. CASE n > Len(log)
    BY <1>2, <2>3, <2>4, NewEntry
  <2>5. CASE n <= Len(log)
    <3>1. r \in 1..Len(runs) /\ n \in 1..Len(log)
      BY <2>1, <2>2, <2>3, <2>5, WrittenStep
    <3>2. r = Len(runs) /\ rpc = "compiling"
      BY <1>2, <2>1, <3>1
    <3>3. n \in Written(r)
      BY <2>2, <3>1, WrittenStep
    <3> QED
      BY <2>1, <3>1, <3>2, <3>3 DEF Undecided
  <2> QED
    BY <2>1, <2>3, <2>4, <2>5
<1> QED
  BY <1>1, <1>2, EarlySteps

\* The last choice on record stays the last, until the run deliberates.
LEMMA ChoiceKept ==
  ASSUME Basics, RunsInOrder, [RuntimeNext]_runtimeVars,
         NEW r \in 1..Len(runs), ~(rpc = "deliberate" /\ r = Len(runs)),
         NEW m, LastChoice(r, m)
  PROVE  m \in Written(r)' /\ log'[m] = log[m] /\ LastChoice(r, m)'
<1>1. /\ Len(log) \in Nat /\ Len(log') \in Nat
      /\ \A k \in 1..Len(log) : log'[k] = log[k]
  BY LogStep
<1>2. r \in 1..Len(runs') /\ Len(runs) \in Nat
  BY RunsKept
<1>3. /\ m \in Written(r) /\ Chooses(log[m])
      /\ \A k \in Written(r) : Chooses(log[k]) => k <= m
  BY DEF LastChoice
<1>4. m \in 1..Len(log) /\ m \in Written(r)' /\ log'[m] = log[m]
  BY <1>1, <1>2, <1>3, WrittenInLog, WrittenStep
<1>5. ASSUME NEW k \in Written(r)', Chooses(log'[k])
      PROVE  k <= m
  <2>1. k \in 1..Len(log')
    BY <1>2, WrittenStep
  <2>2. k <= Len(log)
    <3>1. SUFFICES ASSUME k > Len(log)
                   PROVE  FALSE
      BY <1>1, <2>1
    <3>2. rpc = "deliberate" /\ r = Len(runs')
      BY <1>2, <1>5, <2>1, <3>1, NewEntry, WrittenStep
    <3> QED
      BY <3>2, RunsKept
  <2>3. k \in Written(r) /\ log'[k] = log[k]
    BY <1>1, <1>2, <2>1, <2>2, WrittenStep
  <2> QED
    BY <1>3, <1>5, <2>3
<1> QED
  BY <1>3, <1>4, <1>5 DEF LastChoice

\* What run r was found to do: the last choice on record, or one made off it.
Chosen(r) ==
  IF Unrecorded(r) THEN run.action = OffRecord(r)
  ELSE \E m \in Written(r) : LastChoice(r, m) /\ log[m].action = run.action

\* The decision the run works on is the one last made.
LEMMA DecidedStep ==
  ASSUME Basics, RunsInOrder, Decided, [RuntimeNext]_runtimeVars
  PROVE  Decided'
<1> SUFFICES ASSUME rpc' \in Late, run'.mode # "plan", NEW r, r = Len(runs')
             PROVE  /\ Chosen(r)'
                    /\ run'.deltas # <<>> => run'.action # "propose_redirect"
                    /\ run'.call => run'.action = "request_read_tool"
  BY DEF Decided, Chosen, Late
<1>1. /\ Len(log) \in Nat /\ Len(log') \in Nat
      /\ \A m \in 1..Len(log) : log'[m] = log[m]
  BY LogStep
<1>2. runs \in Seq(Run) /\ Len(runs) \in Nat
  BY DEF Basics, RuntimeTypeOK
<1>3. r \in 1..Len(runs')
  <2>1. Control' /\ RuntimeTypeOK'
    BY BasicsStep DEF Basics
  <2>2. runs' # <<>> /\ runs' \in Seq(Run)
    BY <2>1 DEF Control, Late, RuntimeTypeOK
  <2> QED
    BY <2>2
<1>4. ASSUME NEW found \in BOOLEAN, Deliberate(found)
      PROVE  /\ Chosen(r)'
             /\ run'.deltas # <<>> => run'.action # "propose_redirect"
             /\ run'.call => run'.action = "request_read_tool"
  <2> DEFINE known == Deliberated(found)
             entries == DeliberationEntries(found)
  <2>1. /\ Learns(known)
        /\ known.action = FinalAction /\ known.task = run.task
        /\ known.deltas # <<>> => known.action # "propose_redirect"
        /\ known.call => known.action = "request_read_tool"
    BY <1>4, DeliberationLearns DEF Basics
  <2> HIDE DEF known
  <2>2. /\ run' = known /\ runs'[r] = known
        /\ known.mode = run.mode /\ known.setup = run.setup
    <3>1. runs' = [runs EXCEPT ![Len(runs)] = known] /\ runs # <<>>
      BY <2>1 DEF Learns, Determine
    <3>2. Len(runs') = Len(runs) /\ runs'[Len(runs)] = known
      BY <1>2, <3>1
    <3> QED
      BY <2>1, <3>2 DEF Learns, run
  <2>3. run \in Run
    <3>1. rpc = "deliberate"
      BY <1>4 DEF Deliberate
    <3> QED
      BY <3>1, CurrentRun DEF Basics
  <2>4. Unrecorded(r)' <=> ChosenActions = <<>>
    BY <2>2, <2>3, ChosenActionsType DEF Unrecorded
  <2>5. CASE ChosenActions = <<>>
    <3>1. OffRecord(r)' = DeliberateNextAction(run.task, Reads(run.setup))
      BY <2>1, <2>2 DEF OffRecord
    <3> QED
      BY <2>1, <2>2, <2>4, <2>5, <3>1 DEF Chosen, FinalAction
  <2>6. CASE ChosenActions # <<>>
    <3>1. /\ entries \in Seq(RuntimeEntry) /\ entries # <<>>
          /\ log' = log \o entries
          /\ entries[Len(entries)] = Deliberation(FinalAction)
      BY <1>4, <2>3, <2>6, DeliberationAdds, DeliberationShape DEF Basics, Adds
    <3> HIDE DEF entries
    <3>2. Len(log') > Len(log) /\ log'[Len(log')] = Deliberation(FinalAction)
      <4>1. log \in Seq(RuntimeEntry)
        BY DEF Basics, RuntimeTypeOK
      <4> QED
        BY <3>1, <4>1
    <3>3. Len(log') \in Written(r)'
      BY <1>1, <1>3, <3>2, WrittenStep
    <3>4. \A k \in Written(r)' : k <= Len(log')
      BY <1>1, <1>3, WrittenStep
    <3>5. Chooses(log'[Len(log')]) /\ log'[Len(log')].action = run'.action
      <4>1. FinalAction \in NextAction
        BY <2>3, ChosenActionsType
      <4>2. FinalAction # "execute_plan"
        BY <4>1 DEF NextAction
      <4> QED
        BY <2>1, <2>2, <3>2, <4>2 DEF Deliberation, Chooses
    <3>6. PICK m \in Written(r)' :
            /\ Chooses(log'[m])
            /\ \A k \in Written(r)' : Chooses(log'[k]) => k <= m
            /\ log'[m].action = run'.action
      BY <3>3, <3>4, <3>5
    <3>7. LastChoice(r, m)'
      BY <3>6 DEF LastChoice
    <3> QED
      BY <2>1, <2>2, <2>4, <2>6, <3>6, <3>7 DEF Chosen
  <2> QED
    BY <2>5, <2>6
<1>5. ASSUME NEW new, Begins(new), new.mode = "plan"
      PROVE  FALSE
  <2>1. runs' = Append(runs, new)
    BY <1>5 DEF Begins
  <2>2. run' = new
    BY <1>2, <2>1, LastAppended DEF run
  <2> QED
    BY <1>5, <2>2
<1>6. CASE /\ rpc \in Late
           /\ Len(runs') = Len(runs)
           /\ run'.action = run.action
           /\ run'.deltas = run.deltas
           /\ run'.call = run.call
  <2>1. r = Len(runs) /\ r \in 1..Len(runs) /\ run'.mode = run.mode
    BY <1>3, <1>6, RunsKept DEF run
  <2>2. /\ Chosen(r)
        /\ run.deltas # <<>> => run.action # "propose_redirect"
        /\ run.call => run.action = "request_read_tool"
    BY <1>6, <2>1 DEF Decided, Chosen, Late
  <2>3. CASE Unrecorded(r)
    BY <1>6, <2>1, <2>2, <2>3, UnrecordedKept DEF Chosen
  <2>4. CASE ~Unrecorded(r)
    <3>1. PICK m \in Written(r) : LastChoice(r, m) /\ log[m].action = run.action
      BY <2>2, <2>4 DEF Chosen
    <3>2. m \in Written(r)' /\ log'[m] = log[m] /\ LastChoice(r, m)'
      BY <1>6, <2>1, <3>1, ChoiceKept DEF Late
    <3> QED
      BY <1>6, <2>1, <2>2, <2>4, <3>1, <3>2, UnrecordedKept DEF Chosen
  <2> QED
    BY <2>3, <2>4
<1> QED
  BY <1>4, <1>5, <1>6, LateSteps

\* The conditions on what run r wrote at position n.
Follows(r, n) ==
  IF Unrecorded(r) THEN Permits(OffRecord(r), log[n].type)
  ELSE \E m \in Written(r) :
         m < n /\ LastChoice(r, m) /\ Permits(log[m].action, log[n].type)

\* Whatever a step of a decided run does follows that decision.
LEMMA FollowsStep ==
  ASSUME Basics, RunsInOrder, Undecided, Decided, ActionsFollowDeliberation,
         [RuntimeNext]_runtimeVars
  PROVE  ActionsFollowDeliberation'
<1> SUFFICES ASSUME NEW r \in 1..Len(runs'), runs'[r].mode # "plan",
                    NEW n \in Written(r)', log'[n].type \in Acting
             PROVE  Follows(r, n)'
  BY DEF ActionsFollowDeliberation, Follows
<1>1. /\ Len(log) \in Nat /\ Len(log') \in Nat
      /\ \A m \in 1..Len(log) : log'[m] = log[m]
  BY LogStep
<1>2. n \in 1..Len(log')
  BY WrittenStep
<1>3. CASE n <= Len(log)
  <2>1. /\ r \in 1..Len(runs) /\ n \in 1..Len(log) /\ n \in Written(r)
        /\ log'[n] = log[n] /\ runs'[r].mode = runs[r].mode
    BY <1>1, <1>2, <1>3, WrittenStep, RunsKept
  <2>2. Follows(r, n)
    BY <2>1 DEF ActionsFollowDeliberation, Follows
  <2>3. CASE Unrecorded(r)
    BY <2>1, <2>2, <2>3, UnrecordedKept DEF Follows
  <2>4. CASE ~Unrecorded(r)
    <3>1. PICK m \in Written(r) :
            m < n /\ LastChoice(r, m) /\ Permits(log[m].action, log[n].type)
      BY <2>2, <2>4 DEF Follows
    <3>2. ~(rpc = "deliberate" /\ r = Len(runs))
      BY <2>1 DEF Undecided
    <3>3. m \in Written(r)' /\ log'[m] = log[m] /\ LastChoice(r, m)'
      BY <2>1, <3>1, <3>2, ChoiceKept
    <3> QED
      BY <2>1, <2>4, <3>1, <3>3, UnrecordedKept DEF Follows
  <2> QED
    BY <2>3, <2>4
<1>4. CASE n > Len(log)
  <2>1. /\ rpc \in {"plan", "tool", "gate", "gateway"}
        /\ run.deltas # <<>> \/ run.call
        /\ log'[n].type \in ToolActing => run.call
    BY <1>2, <1>4, NewEntry
  <2>2. r = Len(runs) /\ r \in 1..Len(runs) /\ run.mode # "plan"
    <3>1. r = Len(runs') /\ Len(runs') = Len(runs)
      BY <1>4, <2>1, WrittenStep, RunsKept
    <3> QED
      BY <3>1, RunsKept DEF run
  <2>3. Permits(run.action, log'[n].type) /\ Chosen(r)
    <3>1. /\ run.deltas # <<>> => run.action # "propose_redirect"
          /\ run.call => run.action = "request_read_tool"
          /\ Chosen(r)
      BY <2>1, <2>2 DEF Decided, Chosen
    <3> QED
      BY <2>1, <3>1 DEF Permits
  <2>4. CASE Unrecorded(r)
    BY <2>2, <2>3, <2>4, UnrecordedKept DEF Chosen, Follows
  <2>5. CASE ~Unrecorded(r)
    <3>1. PICK m \in Written(r) : LastChoice(r, m) /\ log[m].action = run.action
      BY <2>3, <2>5 DEF Chosen
    <3>2. m \in Written(r)' /\ log'[m] = log[m] /\ LastChoice(r, m)'
      BY <2>1, <2>2, <3>1, ChoiceKept
    <3>3. m < n
      BY <1>1, <1>2, <1>4, <2>2, <3>1, WrittenInLog
    <3> QED
      BY <2>2, <2>3, <2>5, <3>1, <3>2, <3>3, UnrecordedKept DEF Follows
  <2> QED
    BY <2>4, <2>5
<1> QED
  BY <1>1, <1>2, <1>3, <1>4

--------------------------------------------------------------------------------
(***************************************************************************)
(* The compiler: CompilerHeard and DeliberationCompiled.                   *)
(***************************************************************************)

\* The steps that put a verdict on the compiler on record write one.
LEMMA VerdictAdded ==
  ASSUME Basics, [RuntimeNext]_runtimeVars, rpc = "compiling",
         ~ UNCHANGED runtimeVars
  PROVE  /\ rpc' \in {"idle", "deliberate"}
         /\ Len(runs') = Len(runs)
         /\ \E m \in 1..Len(log') :
              /\ m > Len(log)
              /\ log'[m].type = "compiler"
              /\ log'[m].outcome \in {"succeeded", "rejected"}
              /\ rpc' = "deliberate" => log'[m].outcome = "succeeded"
              /\ \A k \in 1..Len(log') :
                   k > Len(log) /\ log'[k].type = "compiler" => k = m
<1>1. /\ log \in Seq(RuntimeEntry) /\ Len(log) \in Nat /\ runs \in Seq(Run)
  BY DEF Basics, RuntimeTypeOK
<1>2. /\ rpc' \in {"idle", "deliberate"}
      /\ \E c \in {"succeeded", "rejected"}, p \in {"succeeded", "failed"} :
           /\ \/ log' = log \o <<Provider(p), Compiler(c)>>
              \/ log' = log \o <<Compiler(c)>>
           /\ rpc' = "deliberate" => c = "succeeded"
      /\ runs' = runs \/ \E known : Determine(known)
  BY DEF Basics, Control, RuntimeNext, RunStep, ReceiveTask, RequestCompiler,
     ReceivePlan, MayStart, ResponseAccepted, ResponseRejected, ProviderFails,
     ProviderCrashes, Write, Deliberate, RouteRun, ExecutePlanOfRun,
     ExecuteBatchOfRun, RunGateway, RunDeltas, ProposeToolCall, ToolFails,
     ToolReturns, ApplyApprovalGate
<1>3. Len(runs') = Len(runs)
  BY <1>1, <1>2 DEF Determine
<1>4. PICK c \in {"succeeded", "rejected"}, p \in {"succeeded", "failed"} :
        /\ \/ log' = log \o <<Provider(p), Compiler(c)>>
           \/ log' = log \o <<Compiler(c)>>
        /\ rpc' = "deliberate" => c = "succeeded"
  BY <1>2
<1> DEFINE heard == Compiler(c)
           answer == Provider(p)
<1>5. /\ heard.type = "compiler" /\ heard.outcome = c /\ answer.type = "provider"
      /\ heard \in RuntimeEntry /\ answer \in RuntimeEntry
  BY EntryTypes DEF Compiler, Provider
<1> HIDE DEF heard, answer
<1>6. CASE log' = log \o <<answer, heard>>
  <2>1. /\ Len(log') = Len(log) + 2
        /\ log'[Len(log) + 1] = answer /\ log'[Len(log) + 2] = heard
    BY <1>1, <1>5, <1>6
  <2> DEFINE m == Len(log) + 2
  <2>2. /\ m \in 1..Len(log') /\ m > Len(log) /\ log'[m] = heard
        /\ \A k \in 1..Len(log') : k > Len(log) /\ log'[k].type = "compiler" => k = m
    BY <1>1, <1>5, <2>1
  <2> HIDE DEF m
  <2> QED
    BY <1>2, <1>3, <1>4, <1>5, <2>2
<1>7. CASE log' = log \o <<heard>>
  <2>1. Len(log') = Len(log) + 1 /\ log'[Len(log) + 1] = heard
    BY <1>1, <1>5, <1>7
  <2> DEFINE m == Len(log) + 1
  <2>2. /\ m \in 1..Len(log') /\ m > Len(log) /\ log'[m] = heard
        /\ \A k \in 1..Len(log') : k > Len(log) /\ log'[k].type = "compiler" => k = m
    BY <1>1, <1>5, <2>1
  <2> HIDE DEF m
  <2> QED
    BY <1>2, <1>3, <1>4, <1>5, <2>2
<1> QED
  BY <1>4, <1>6, <1>7 DEF heard, answer

\* No other step puts one on record.
LEMMA OutcomesStep ==
  ASSUME Basics, RunsInOrder, [RuntimeNext]_runtimeVars, NEW r \in 1..Len(runs')
  PROVE  /\ r \in 1..Len(runs) => \A m \in Outcomes(r) : m \in Outcomes(r)'
         /\ r \in 1..Len(runs) => \A m \in Outcomes(r)' :
              m \in Outcomes(r) \/ (m > Len(log) /\ rpc = "compiling" /\ r = Len(runs'))
         /\ r \notin 1..Len(runs) => Outcomes(r)' = {}
<1>1. /\ Len(log) \in Nat /\ Len(log') \in Nat
      /\ \A m \in 1..Len(log) : log'[m] = log[m]
      /\ Len(runs) \in Nat
  BY LogStep, RunsKept
<1>2. ASSUME NEW m \in Outcomes(r)', m > Len(log)
      PROVE  rpc = "compiling" /\ r = Len(runs')
  <2>1. m \in Written(r)' /\ log'[m].type = "compiler" /\ log'[m].outcome # "requested"
    BY DEF Outcomes
  <2>2. m \in 1..Len(log') /\ r = Len(runs')
    BY <1>2, <2>1, WrittenStep
  <2> QED
    BY <1>2, <2>1, <2>2, NewEntry
<1>3. ASSUME r \in 1..Len(runs), NEW m \in Outcomes(r)
      PROVE  m \in Outcomes(r)'
  <2>1. m \in Written(r) /\ m \in 1..Len(log)
    BY <1>3, WrittenInLog DEF Outcomes
  <2> QED
    BY <1>1, <1>3, <2>1, WrittenStep DEF Outcomes
<1>4. ASSUME r \in 1..Len(runs), NEW m \in Outcomes(r)', ~(m > Len(log))
      PROVE  m \in Outcomes(r)
  <2>1. m \in Written(r)' /\ log'[m].type = "compiler" /\ log'[m].outcome # "requested"
    BY DEF Outcomes
  <2>2. m \in 1..Len(log)
    BY <1>1, <1>4, <2>1, WrittenStep
  <2>3. m \in Written(r) /\ log'[m] = log[m]
    BY <1>1, <1>4, <2>1, <2>2, WrittenStep
  <2> QED
    BY <2>1, <2>3 DEF Outcomes
<1>5. ASSUME r \notin 1..Len(runs)
      PROVE  Outcomes(r)' = {}
  <2> SUFFICES ASSUME NEW m \in Outcomes(r)'
               PROVE  FALSE
    OBVIOUS
  <2>1. m > Len(log)
    BY <1>5, WrittenStep DEF Outcomes
  <2>2. rpc = "compiling" /\ r = Len(runs')
    BY <1>2, <2>1
  <2>3. Len(runs') = Len(runs)
    BY <2>2, RunsKept
  <2> QED
    BY <1>1, <1>5, <2>2, <2>3
<1> QED
  BY <1>2, <1>3, <1>4, <1>5

\* The compiler is heard of once: while the run waits for it, and no more.
LEMMA HeardStep ==
  ASSUME Basics, RunsInOrder, CompilerHeard, [RuntimeNext]_runtimeVars
  PROVE  CompilerHeard'
<1> SUFFICES ASSUME NEW r \in 1..Len(runs'), runs'[r].mode = "compiler"
             PROVE  IF r = Len(runs') /\ rpc' = "compiling"
                    THEN Outcomes(r)' = {}
                    ELSE /\ \E m \in Written(r)' : Outcomes(r)' = {m}
                         /\ r = Len(runs') /\ rpc' = "deliberate" =>
                              \A m \in Outcomes(r)' : log'[m].outcome = "succeeded"
  BY DEF CompilerHeard, Outcomes, Written
<1>1. /\ Len(log) \in Nat /\ Len(log') \in Nat
      /\ \A m \in 1..Len(log) : log'[m] = log[m]
      /\ Len(runs) \in Nat /\ Len(runs') \in {Len(runs), Len(runs) + 1}
  BY LogStep, RunsKept
\* The run has just begun: it waits for the compiler.
<1>2. CASE r \notin 1..Len(runs)
  <2>1. Outcomes(r)' = {}
    BY <1>2, OutcomesStep
  <2>2. r = Len(runs') /\ Len(runs') # Len(runs) /\ runs'[Len(runs')].mode = "compiler"
    BY <1>1, <1>2
  <2>3. rpc' = "compiling"
    <3>1. ASSUME NEW mode, NEW setup \in Setups, NEW updates \in BOOLEAN,
                 NEW docs \in BOOLEAN,
                 ReceiveTask(mode, setup, CompileTask(updates, docs))
          PROVE  FALSE
      <4>1. PICK new : Begins(new) /\ new.mode = mode
        BY <3>1, TaskBegins DEF Basics
      <4>2. runs'[Len(runs')] = new
        <5>1. runs \in Seq(Run) /\ runs' = Append(runs, new)
          BY <4>1 DEF Begins, Basics, RuntimeTypeOK
        <5> QED
          BY <5>1, LastAppended
      <4>3. mode \in {"domain", "chain"}
        BY <3>1 DEF ReceiveTask
      <4> QED
        BY <2>2, <4>1, <4>2, <4>3
    <3>2. ASSUME NEW deltas \in Plans, NEW c \in BOOLEAN, NEW setup \in Setups,
                 ReceivePlan(deltas, c, setup)
          PROVE  FALSE
      <4>1. PICK new : Begins(new) /\ new.mode = "plan"
        BY <3>2, PlanBegins DEF Basics
      <4>2. runs'[Len(runs')] = new
        <5>1. runs \in Seq(Run) /\ runs' = Append(runs, new)
          BY <4>1 DEF Begins, Basics, RuntimeTypeOK
        <5> QED
          BY <5>1, LastAppended
      <4> QED
        BY <2>2, <4>1, <4>2
    <3>3. ~ UNCHANGED runs
      BY <2>2
    <3>4. ~ \E known : Determine(known)
      BY <2>2 DEF Determine, Basics, RuntimeTypeOK
    <3> QED
      BY <3>1, <3>2, <3>3, <3>4
      DEF RuntimeNext, RunStep, RequestCompiler, ResponseAccepted, ResponseRejected,
          ProviderFails, ProviderCrashes, Deliberate, RouteRun, ExecutePlanOfRun,
          ExecuteBatchOfRun, RunGateway, RunDeltas, ProposeToolCall, ToolFails,
          ToolReturns, ApplyApprovalGate, runtimeVars
  <2> QED
    BY <2>1, <2>2, <2>3
\* The compiler's verdict comes in.
<1>3. CASE r \in 1..Len(runs) /\ r = Len(runs') /\ rpc = "compiling"
           /\ ~ UNCHANGED runtimeVars
  <2>1. PICK m \in 1..Len(log') :
          /\ m > Len(log)
          /\ log'[m].type = "compiler"
          /\ log'[m].outcome \in {"succeeded", "rejected"}
          /\ rpc' = "deliberate" => log'[m].outcome = "succeeded"
          /\ \A k \in 1..Len(log') : k > Len(log) /\ log'[k].type = "compiler" => k = m
    BY <1>3, VerdictAdded
  <2>2. r = Len(runs) /\ rpc' # "compiling" /\ runs[r].mode = "compiler"
    BY <1>3, VerdictAdded, RunsKept
  <2>3. Outcomes(r) = {}
    BY <1>3, <2>2 DEF CompilerHeard
  <2>4. m \in Written(r)'
    BY <1>1, <1>3, <2>1, WrittenStep
  <2>5. m \in Outcomes(r)'
    BY <2>1, <2>4 DEF Outcomes
  <2>6. ASSUME NEW k \in Outcomes(r)'
        PROVE  k = m
    <3>1. k > Len(log)
      BY <1>3, <2>3, OutcomesStep
    <3>2. k \in 1..Len(log') /\ log'[k].type = "compiler"
      BY WrittenStep DEF Outcomes
    <3> QED
      BY <2>1, <3>1, <3>2
  <2>7. Outcomes(r)' = {m}
    BY <2>5, <2>6
  <2> QED
    BY <2>1, <2>2, <2>4, <2>7
\* It was in before.
<1>4. CASE r \in 1..Len(runs) /\ ~(r = Len(runs') /\ rpc = "compiling")
  <2>1. Outcomes(r)' = Outcomes(r) /\ runs[r].mode = "compiler"
    BY <1>4, OutcomesStep, RunsKept
  <2>2. ~(r = Len(runs) /\ rpc = "compiling")
    BY <1>4, RunsKept
  <2>3. \E m \in Written(r) : Outcomes(r) = {m}
    BY <1>4, <2>1, <2>2 DEF CompilerHeard
  <2>4. PICK m \in Written(r) : Outcomes(r) = {m}
    BY <2>3
  <2>5. m \in 1..Len(log) /\ m \in Written(r)' /\ log'[m] = log[m]
    BY <1>1, <1>4, <2>4, WrittenInLog, WrittenStep
  <2>6. ~(r = Len(runs') /\ rpc' = "compiling")
    <3>1. SUFFICES ASSUME r = Len(runs'), rpc' = "compiling"
                   PROVE  FALSE
      OBVIOUS
    <3>2. Len(runs') = Len(runs)
      BY <1>1, <1>4, <3>1
    <3>3. UNCHANGED runtimeVars
      BY <1>4, <3>1, <3>2, EarlySteps DEF Early
    <3> QED
      BY <1>4, <3>1, <3>3 DEF runtimeVars
  <2>7. ASSUME r = Len(runs'), rpc' = "deliberate"
        PROVE  log'[m].outcome = "succeeded"
    <3>1. Len(runs') = Len(runs)
      BY <1>1, <1>4, <2>7
    <3>2. UNCHANGED runtimeVars
      BY <1>4, <2>7, <3>1, EarlySteps DEF Early
    <3>3. r = Len(runs) /\ rpc = "deliberate"
      BY <2>7, <3>1, <3>2 DEF runtimeVars
    <3> QED
      BY <1>4, <2>1, <2>4, <2>5, <3>3 DEF CompilerHeard
  <2> QED
    BY <2>1, <2>4, <2>5, <2>6, <2>7
<1>5. CASE r \in 1..Len(runs) /\ UNCHANGED runtimeVars
  <2>1. UNCHANGED <<log, runs, rpc>>
    BY <1>5 DEF runtimeVars, planVars
  <2>2. Outcomes(r)' = Outcomes(r) /\ Written(r)' = Written(r)
    BY <2>1 DEF Outcomes, Written
  <2> QED
    BY <1>5, <2>1, <2>2 DEF CompilerHeard
<1> QED
  BY <1>2, <1>3, <1>4, <1>5

\* A deliberation of a run with a compiler follows the success of it.
LEMMA CompiledStep ==
  ASSUME Basics, RunsInOrder, CompilerHeard, DeliberationCompiled,
         [RuntimeNext]_runtimeVars
  PROVE  DeliberationCompiled'
<1> SUFFICES ASSUME NEW r \in 1..Len(runs'), runs'[r].mode = "compiler",
                    NEW n \in Written(r)', Chooses(log'[n])
             PROVE  \E m \in Outcomes(r)' : m < n /\ log'[m].outcome = "succeeded"
  BY DEF DeliberationCompiled, Outcomes, Written
<1>1. /\ Len(log) \in Nat /\ Len(log') \in Nat
      /\ \A m \in 1..Len(log) : log'[m] = log[m]
      /\ Len(runs) \in Nat
  BY LogStep, RunsKept
<1>2. n \in 1..Len(log')
  BY WrittenStep
<1>3. /\ r \in 1..Len(runs) /\ runs[r].mode = "compiler"
      /\ \E m \in Outcomes(r) : m < n /\ log[m].outcome = "succeeded"
  <2>1. CASE n <= Len(log)
    <3>1. /\ r \in 1..Len(runs) /\ n \in 1..Len(log) /\ n \in Written(r)
          /\ log'[n] = log[n] /\ runs[r].mode = "compiler"
      BY <1>1, <1>2, <2>1, WrittenStep, RunsKept
    <3> QED
      BY <3>1 DEF DeliberationCompiled
  <2>2. CASE n > Len(log)
    <3>1. rpc = "deliberate" /\ r = Len(runs')
      BY <1>2, <2>2, NewEntry, WrittenStep
    <3>2. r = Len(runs) /\ r \in 1..Len(runs) /\ runs[r].mode = "compiler"
      BY <3>1, RunsKept
    <3>3. PICK m \in Written(r) : Outcomes(r) = {m} /\ log[m].outcome = "succeeded"
      BY <3>1, <3>2 DEF CompilerHeard
    <3>4. m \in 1..Len(log)
      BY <3>2, WrittenInLog
    <3> QED
      BY <1>1, <1>2, <2>2, <3>2, <3>3, <3>4
  <2> QED
    BY <1>1, <1>2, <2>1, <2>2
<1>4. PICK m \in Outcomes(r) : m < n /\ log[m].outcome = "succeeded"
  BY <1>3
<1>5. m \in Outcomes(r)'
  BY <1>3, OutcomesStep
<1>6. log'[m] = log[m]
  BY <1>1, <1>3, WrittenInLog DEF Outcomes
<1> QED
  BY <1>4, <1>5, <1>6

--------------------------------------------------------------------------------
(***************************************************************************)
(* The theorems.                                                           *)
(***************************************************************************)

\* Before the first run nothing is on record, and everything holds.
LEMMA InvariantInit ==
  ASSUME RuntimeInit
  PROVE  RuntimeInvariant
<1>1. Basics
  BY BasicsInit
<1>2. log = <<>> /\ runs = <<>> /\ rpc = "idle" /\ Len(log) = 0 /\ Len(runs) = 0
  BY DEF RuntimeInit, PlanInit
<1> QED
  BY <1>1, <1>2
  DEF RuntimeInvariant, Basics, RunsInOrder, RevisionsNamed, RevisionsJustified,
      PriorOfRun, ChainWhereThreaded, Undecided, Decided, ActionsFollowDeliberation,
      CompilerHeard, DeliberationCompiled

\* Each part is kept by the lemma of its own.
LEMMA InvariantStep ==
  ASSUME RuntimeInvariant, [RuntimeNext]_runtimeVars
  PROVE  RuntimeInvariant'
<1>1. Basics
  BY DEF RuntimeInvariant, Basics
<1>2. Basics'
  BY <1>1, BasicsStep
<1>3. RunsInOrder' /\ RevisionsNamed' /\ RevisionsJustified'
  BY <1>1, InOrderStep, RevisionsNamedStep, RevisionsJustifiedStep DEF RuntimeInvariant
<1>4. PriorOfRun' /\ ChainWhereThreaded'
  BY <1>1, PriorStep, ChainStep DEF RuntimeInvariant
<1>5. Undecided' /\ Decided' /\ ActionsFollowDeliberation'
  BY <1>1, UndecidedStep, DecidedStep, FollowsStep DEF RuntimeInvariant
<1>6. CompilerHeard' /\ DeliberationCompiled'
  BY <1>1, HeardStep, CompiledStep DEF RuntimeInvariant
<1> QED
  BY <1>2, <1>3, <1>4, <1>5, <1>6 DEF RuntimeInvariant, Basics

(***************************************************************************)
(* The inductive invariant of the runtime holds of every run over the log, *)
(* whatever the setups, the plans handed in and the tasks a provider may   *)
(* answer with.                                                            *)
(***************************************************************************)
THEOREM RuntimeInvariantHolds == RuntimeSpec => []RuntimeInvariant
<1>1. RuntimeInit => RuntimeInvariant
  BY InvariantInit
<1>2. RuntimeInvariant /\ [RuntimeNext]_runtimeVars => RuntimeInvariant'
  BY InvariantStep
<1> QED
  BY <1>1, <1>2, PTL DEF RuntimeSpec

\* Types: every variable stays within its type (RuntimeTypeOK).
THEOREM RuntimeTypeCorrect == RuntimeSpec => []RuntimeTypeOK
<1>1. RuntimeInvariant => RuntimeTypeOK
  BY DEF RuntimeInvariant
<1> QED
  BY <1>1, RuntimeInvariantHolds, PTL

(***************************************************************************)
(* Whatever a run of execute_task_in_domain, execute_task_with_chain or    *)
(* execute_task_with_compiler_in_domain commits, revises, runs or asks for *)
(* is what the last step of deliberation on its record calls for; only a   *)
(* chain limited to no steps acts with none on record, and then on what    *)
(* deliberate_next_action answers for its task.                            *)
(***************************************************************************)
THEOREM ActionsAlwaysFollow == RuntimeSpec => []ActionsFollowDeliberation
<1>1. RuntimeInvariant => ActionsFollowDeliberation
  BY DEF RuntimeInvariant
<1> QED
  BY <1>1, RuntimeInvariantHolds, PTL

(***************************************************************************)
(* Every revision, of a plan or by promotion of an observation, was let    *)
(* through by the policy of its way and follows its commitment.            *)
(***************************************************************************)
THEOREM RevisionsAlwaysJustified == RuntimeSpec => []RevisionsJustified
<1>1. RuntimeInvariant => RevisionsJustified
  BY DEF RuntimeInvariant
<1> QED
  BY <1>1, RuntimeInvariantHolds, PTL

(***************************************************************************)
(* Where the runtime takes the state from the log, replay never jumps:     *)
(* plans without tool calls and promotions continue from what the log      *)
(* replays to.                                                             *)
(***************************************************************************)
THEOREM ChainAlwaysThreaded == RuntimeSpec => []ChainWhereThreaded
<1>1. RuntimeInvariant => ChainWhereThreaded
  BY DEF RuntimeInvariant
<1> QED
  BY <1>1, RuntimeInvariantHolds, PTL

(***************************************************************************)
(* A compiler that was asked is heard of exactly once, however its         *)
(* provider fails, and only a success leads on to deliberation.            *)
(***************************************************************************)
THEOREM CompilerAlwaysSettled == RuntimeSpec => []CompilerSettled
<1>1. ASSUME RuntimeInvariant
      PROVE  CompilerSettled
  <2> SUFFICES ASSUME NEW r \in 1..Len(runs), runs[r].mode = "compiler"
               PROVE  /\ Cardinality(Outcomes(r))
                           = (IF r = Len(runs) /\ rpc = "compiling" THEN 0 ELSE 1)
                      /\ \A n \in Written(r) :
                           Chooses(log[n]) =>
                             \E m \in Outcomes(r) :
                               m < n /\ log[m].outcome = "succeeded"
    BY DEF CompilerSettled, Outcomes
  <2>1. CompilerHeard /\ DeliberationCompiled
    BY <1>1 DEF RuntimeInvariant
  <2>2. Cardinality(Outcomes(r))
          = (IF r = Len(runs) /\ rpc = "compiling" THEN 0 ELSE 1)
    <3>1. CASE r = Len(runs) /\ rpc = "compiling"
      <4>1. Outcomes(r) = {}
        BY <2>1, <3>1 DEF CompilerHeard
      <4> QED
        BY <3>1, <4>1, FS_EmptySet
    <3>2. CASE ~(r = Len(runs) /\ rpc = "compiling")
      <4>1. PICK m : Outcomes(r) = {m}
        BY <2>1, <3>2 DEF CompilerHeard
      <4> QED
        BY <3>2, <4>1, FS_Singleton
    <3> QED
      BY <3>1, <3>2
  <2> QED
    BY <2>1, <2>2 DEF DeliberationCompiled
<1> QED
  BY <1>1, RuntimeInvariantHolds, PTL

================================================================================
