--------------------------- MODULE UncertaintyRouter ---------------------------
(***************************************************************************)
(* The uncertainty router: from five signals to one of three decisions.    *)
(* Signals, thresholds and scores are fractions in the code and whole      *)
(* percents here; the weights are multiples of 5 percent, so that combined *)
(* confidence is an integer out of 10000 (100 percent of a score of 100).  *)
(***************************************************************************)
EXTENDS Integers

Percent == 0..100
RiskLevel == {"low", "medium", "high", "critical"}
RoutingDecision == {"auto_execute", "needs_more_evidence", "needs_human_review"}

RoutingSignals ==
  [evidence : Percent, precedent : Percent, risk : RiskLevel,
   success : Percent, confidence : Percent]

\* The thresholds of a configuration and the scores of the risk levels.
RouterConfig ==
  [evidence_auto : Percent, evidence_review : Percent, precedent_auto : Percent,
   success_auto : Percent, success_review : Percent,
   confidence_auto : Percent, confidence_review : Percent,
   combined : Percent, risk_scores : [RiskLevel -> Percent]]

DefaultRiskScores ==
  [r \in RiskLevel |-> CASE r = "low"  -> 100 [] r = "medium" -> 70
                         [] r = "high" -> 30  [] r = "critical" -> 0]

DefaultConfig ==
  [evidence_auto |-> 70, evidence_review |-> 40, precedent_auto |-> 60,
   success_auto |-> 80, success_review |-> 50,
   confidence_auto |-> 80, confidence_review |-> 50,
   combined |-> 75, risk_scores |-> DefaultRiskScores]

\* Defect: a score that is only ever full between the two thresholds.
GradedInverted(value, auto, review) ==
  IF value >= auto THEN 50 ELSE IF value >= review THEN 100 ELSE 0

\* The score of evidence, of historical success and of self-confidence.
Graded(value, auto, review) ==
  IF value >= auto THEN 100 ELSE IF value >= review THEN 50 ELSE 0

\* A lack of precedents is no reason against the task: 30, never 0.
PrecedentScore(similarity, auto) ==
  IF similarity >= auto THEN 100 ELSE IF similarity > 30 THEN 50 ELSE 30

CombinedConfidence(s, config) ==
  25 * Graded(s.evidence, config.evidence_auto, config.evidence_review)
  + 15 * PrecedentScore(s.precedent, config.precedent_auto)
  + 30 * config.risk_scores[s.risk]
  + 15 * Graded(s.success, config.success_auto, config.success_review)
  + 15 * Graded(s.confidence, config.confidence_auto, config.confidence_review)

Route(s, config) ==
  IF s.risk = "critical" THEN "needs_human_review"
  ELSE IF s.evidence < config.evidence_review THEN "needs_more_evidence"
  ELSE IF s.risk = "high" THEN "needs_human_review"
  ELSE IF CombinedConfidence(s, config) >= 100 * config.combined THEN "auto_execute"
  ELSE "needs_human_review"

--------------------------------------------------------------------------------
\* s is at least as good as t in every signal.
RiskRank == [r \in RiskLevel |-> CASE r = "low"  -> 0 [] r = "medium" -> 1
                                   [] r = "high" -> 2 [] r = "critical" -> 3]

AtLeastAsGood(s, t) ==
  /\ s.evidence >= t.evidence
  /\ s.precedent >= t.precedent
  /\ RiskRank[s.risk] <= RiskRank[t.risk]
  /\ s.success >= t.success
  /\ s.confidence >= t.confidence

\* Higher risk never scores higher.
RiskScoresOrdered(config) ==
  \A r, q \in RiskLevel :
    RiskRank[r] <= RiskRank[q] => config.risk_scores[r] >= config.risk_scores[q]

\* What is executed automatically on worse signals is so on better ones.
RouteMonotone(s, t, config) ==
  AtLeastAsGood(s, t) /\ Route(t, config) = "auto_execute"
    => Route(s, config) = "auto_execute"

================================================================================
