------------------------------ MODULE DeltaPolicy ------------------------------
(***************************************************************************)
(* The pure policy layer: what the engine answers when asked whether a     *)
(* proposed revision delta, or a proposed tool call, may go ahead.         *)
(*                                                                         *)
(* A delta is abstracted to its target_kind and to the first component of  *)
(* its target_ref ("beliefs.task.7" has the root "beliefs"), which is all  *)
(* the policies look at.                                                   *)
(***************************************************************************)

RevisionTargetKind ==
  {"entity_add", "entity_update", "entity_remove",
   "relation_add", "relation_update", "relation_remove",
   "hypothesis_add", "hypothesis_update", "hypothesis_remove",
   "goal_update", "tension_update", "anchor_add", "self_update"}

RefRoot ==
  {"policy", "meta", "tool_affordances", "goals", "self_model",
   "beliefs", "memory", "domain", "domain_data", "other"}

RevisionDelta == [kind : RevisionTargetKind, root : RefRoot]

Sections == {"goals", "self_model", "memory", "domain_data", "beliefs"}

DeltaPolicyDecision == [allowed : BOOLEAN, requires_approval : BOOLEAN]

Permit == [allowed |-> TRUE,  requires_approval |-> FALSE]
Ask    == [allowed |-> FALSE, requires_approval |-> TRUE]
Refuse == [allowed |-> FALSE, requires_approval |-> FALSE]

\* A revision is built for a delta only under this condition.
Clear(decision) == decision.allowed /\ ~decision.requires_approval

EvaluateDeltaPolicy(delta) ==
  IF delta.root \in {"policy", "meta"} THEN Refuse
  ELSE IF delta.root = "tool_affordances" \/ delta.kind = "self_update" THEN Ask
  ELSE Permit

InferSection(delta) ==
  IF delta.kind = "goal_update" THEN "goals"
  ELSE IF delta.kind = "self_update" THEN "self_model"
  ELSE IF delta.root = "memory" THEN "memory"
  ELSE IF delta.root = "domain" THEN "domain_data"
  ELSE "beliefs"

(***************************************************************************)
(* A domain plugin pack as far as policy is concerned: the sections it     *)
(* denies and the sections it puts behind approval.  A context without a   *)
(* pack is NoPack, whose overlay changes nothing.                          *)
(***************************************************************************)
PluginPack == [denied : SUBSET Sections, gated : SUBSET Sections]
NoPack == [denied |-> {}, gated |-> {}]

ApplyDomainOverlay(delta, base, pack) ==
  LET section == InferSection(delta)
  IN  IF section \in pack.denied THEN Refuse
      ELSE IF section \in pack.gated /\ base.allowed THEN Ask
      ELSE base

EvaluateDeltaPolicyInDomain(delta, pack) ==
  ApplyDomainOverlay(delta, EvaluateDeltaPolicy(delta), pack)

(***************************************************************************)
(* Tool calls are judged by the declared risk of the tool they name; a     *)
(* name that is not in the registry has the risk "unknown".                *)
(***************************************************************************)
ToolRisk == {"read", "write", "external_side_effect", "unknown"}

EvaluateToolCallPolicy(risk) ==
  CASE risk = "unknown" -> "deny"
    [] risk = "read"    -> "allow"
    [] risk \in {"write", "external_side_effect"} -> "requires_approval"

\* The delta by which a tool observation becomes a belief.
PromotionDelta == [kind |-> "entity_update", root |-> "beliefs"]

================================================================================
