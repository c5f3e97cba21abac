----------------------------- MODULE PlanExecution -----------------------------
(***************************************************************************)
(* Plan execution over one shared, append-only event log: every candidate  *)
(* delta of a plan is judged by policy, recorded as a commitment, and, only*)
(* if policy lets it through, recorded as a revision of the world model.   *)
(* Deltas that need approval are then shown to the approval gate, whose    *)
(* decisions are recorded and nothing more.                                *)
(*                                                                         *)
(* Two entry points execute plans:                                         *)
(*   "domain"  runtime._execute_plan_in_domain without tool calls: the     *)
(*             domain overlay applies, and the revisions continue from the *)
(*             state the log replays to;                                   *)
(*   "plain"   planner.execute_plan: no overlay, and the revisions are     *)
(*             numbered from ws_0 whatever the log already holds.          *)
(***************************************************************************)
EXTENDS EventLog, DeltaPolicy

CONSTANTS
  Plans,      \* the candidate deltas a plan may carry (sequences)
  Packs,      \* the domain plugin packs runs may be given
  Entries,    \* the entry points used: "domain", "plain"
  Gates,      \* the approval gates runs may be given, a subset of GateKinds
  MaxPlans    \* bound on the plans executed over the log

(***************************************************************************)
(* "none": no gate.  "linked": the provider answers with the commitment's  *)
(* id as trace id (static, callback) and may raise (callback).             *)
(* "unlinked": the interactive provider, whose decision carries the id of  *)
(* its own request instead.                                                *)
(***************************************************************************)
GateKinds == {"none", "linked", "unlinked"}
Verdicts == {"approved", "rejected"}

ASSUME PlanAssumption ==
  /\ Plans \subseteq Seq(RevisionDelta)
  /\ Packs \subseteq PluginPack
  /\ Entries \subseteq {"domain", "plain"}
  /\ Gates \subseteq GateKinds
  /\ MaxPlans \in Nat

VARIABLES
  log,      \* the event log, oldest entry first
  plans,    \* the plans executed so far, each with its entry and context
  ppc,      \* where the execution of the last plan stands
  index,    \* the candidate delta under consideration
  prior,    \* n of the prior_state_id "ws_n" of the next revision
  asked,    \* indices of the deltas of this plan that require approval
  answers   \* the provider's verdicts on them, so far

planVars == <<log, plans, ppc, index, prior, asked, answers>>

ExecutedPlan ==
  [deltas : Seq(RevisionDelta), entry : {"domain", "plain"},
   pack : PluginPack, gate : GateKinds]

\* Commitment ids are ce-pl-<plan>-<index>; revisions are named after them.
CommitmentId == [plan : Nat, index : Nat]
Unlinked == [plan |-> 0, index |-> 0]

PlanCommitmentEntry ==
  [type : {"commitment"}, id : CommitmentId, success : BOOLEAN,
   requires_approval : BOOLEAN]
PlanRevisionEntry ==
  [type : {"revision"}, cause : CommitmentId, prior : Nat, result : Nat]
PlanApprovalEntry ==
  [type : {"approval"}, trace : CommitmentId, verdict : Verdicts]
PlanEntry == PlanCommitmentEntry \cup PlanRevisionEntry \cup PlanApprovalEntry

plan == plans[Len(plans)]
thisId == [plan |-> Len(plans), index |-> index]

PlanDecision(executed, delta) ==
  IF executed.entry = "domain"
  THEN EvaluateDeltaPolicyInDomain(delta, executed.pack)
  ELSE EvaluateDeltaPolicy(delta)

PlanInit ==
  /\ log = <<>>
  /\ plans = <<>>
  /\ ppc = "idle"
  /\ index = 1
  /\ prior = 0
  /\ asked = <<>>
  /\ answers = <<>>

ExecutePlan(deltas, entry, pack, gate) ==
  /\ ppc = "idle"
  /\ entry \in Entries
  /\ Len(plans) < MaxPlans
  /\ plans' = Append(plans, [deltas |-> deltas, entry |-> entry,
                             pack |-> pack, gate |-> gate])
  /\ prior' = IF entry = "domain" THEN ReplayedState(log) ELSE 0
  /\ ppc' = "evaluate"
  /\ index' = 1
  /\ asked' = <<>>
  /\ answers' = <<>>
  /\ UNCHANGED log

\* Defect: what requires approval is revised before anyone was asked.
EvaluateDeltaIgnoresApproval ==
  /\ ppc = "evaluate"
  /\ index <= Len(plan.deltas)
  /\ LET decision == PlanDecision(plan, plan.deltas[index])
     IN  /\ log' = Append(log, [type |-> "commitment", id |-> thisId,
                                success |-> Clear(decision),
                                requires_approval |-> decision.requires_approval])
         /\ asked' = IF decision.requires_approval
                     THEN Append(asked, index) ELSE asked
         /\ IF decision # Refuse
            THEN ppc' = "revise" /\ UNCHANGED index
            ELSE index' = index + 1 /\ UNCHANGED ppc
  /\ UNCHANGED <<plans, prior, answers>>

\* The next delta is judged and its commitment recorded, whatever the verdict.
EvaluateDelta ==
  /\ ppc = "evaluate"
  /\ index <= Len(plan.deltas)
  /\ LET decision == PlanDecision(plan, plan.deltas[index])
     IN  /\ log' = Append(log, [type |-> "commitment", id |-> thisId,
                                success |-> Clear(decision),
                                requires_approval |-> decision.requires_approval])
         /\ asked' = IF decision.requires_approval
                     THEN Append(asked, index) ELSE asked
         /\ IF Clear(decision)
            THEN ppc' = "revise" /\ UNCHANGED index
            ELSE index' = index + 1 /\ UNCHANGED ppc
  /\ UNCHANGED <<plans, prior, answers>>

\* Defect: the next revision does not continue from this one.
ReviseModelForgetsPrior ==
  /\ ppc = "revise"
  /\ log' = Append(log, [type |-> "revision", cause |-> thisId,
                         prior |-> prior, result |-> index])
  /\ index' = index + 1
  /\ ppc' = "evaluate"
  /\ UNCHANGED <<plans, prior, asked, answers>>

\* The delta went through: its revision leads from prior to ws_<index>.
ReviseModel ==
  /\ ppc = "revise"
  /\ log' = Append(log, [type |-> "revision", cause |-> thisId,
                         prior |-> prior, result |-> index])
  /\ prior' = index
  /\ index' = index + 1
  /\ ppc' = "evaluate"
  /\ UNCHANGED <<plans, asked, answers>>

DeltasDone == ppc = "evaluate" /\ index > Len(plan.deltas)
GateNeeded == plan.gate # "none" /\ asked # <<>>

\* No gate, or nothing to ask: the call returns.
ReturnResult ==
  /\ DeltasDone
  /\ ~GateNeeded
  /\ ppc' = "idle"
  /\ UNCHANGED <<log, plans, index, prior, asked, answers>>

OpenGate ==
  /\ DeltasDone
  /\ GateNeeded
  /\ ppc' = "gate"
  /\ UNCHANGED <<log, plans, index, prior, asked, answers>>

\* ApprovalGate.resolve puts the commitments to the provider one by one ...
Decide(verdict) ==
  /\ ppc = "gate"
  /\ Len(answers) < Len(asked)
  /\ answers' = Append(answers, verdict)
  /\ UNCHANGED <<log, plans, ppc, index, prior, asked>>

AuditedAnswers ==
  [n \in 1..Len(answers) |->
     [type |-> "approval", verdict |-> answers[n],
      trace |-> IF plan.gate = "linked"
                THEN [plan |-> Len(plans), index |-> asked[n]]
                ELSE Unlinked]]

\* Defect: the answers given before the exception are recorded alone.
ProviderRaisesAfterPartialRecord ==
  /\ ppc = "gate"
  /\ plan.gate = "linked"
  /\ Len(answers) < Len(asked)
  /\ log' = log \o AuditedAnswers
  /\ ppc' = "idle"
  /\ UNCHANGED <<plans, index, prior, asked, answers>>

\* ... and an exception of the provider leaves the run there and then.
ProviderRaises ==
  /\ ppc = "gate"
  /\ plan.gate = "linked"
  /\ Len(answers) < Len(asked)
  /\ ppc' = "idle"
  /\ UNCHANGED <<log, plans, index, prior, asked, answers>>

\* Defect: a run of which nothing was approved is not brought to its end.
RecordDecisionsIfApproved ==
  /\ ppc = "gate"
  /\ Len(answers) = Len(asked)
  /\ \E n \in DOMAIN answers : answers[n] = "approved"
  /\ log' = log \o AuditedAnswers
  /\ ppc' = "idle"
  /\ UNCHANGED <<plans, index, prior, asked, answers>>

\* All decisions are in: they are recorded together and the call returns.
RecordDecisions ==
  /\ ppc = "gate"
  /\ Len(answers) = Len(asked)
  /\ log' = log \o AuditedAnswers
  /\ ppc' = "idle"
  /\ UNCHANGED <<plans, index, prior, asked, answers>>

PlanStep ==
  \/ EvaluateDelta
  \/ ReviseModel
  \/ ReturnResult
  \/ OpenGate
  \/ \E verdict \in Verdicts : Decide(verdict)
  \/ ProviderRaises
  \/ RecordDecisions

PlanNext ==
  \/ \E deltas \in Plans, pack \in Packs, gate \in Gates :
       ExecutePlan(deltas, "domain", pack, gate)
  \/ \E deltas \in Plans : ExecutePlan(deltas, "plain", NoPack, "none")
  \/ PlanStep

PlanSpec == PlanInit /\ [][PlanNext]_planVars /\ WF_planVars(PlanStep)

--------------------------------------------------------------------------------
PlanTypeOK ==
  /\ log \in Seq(PlanEntry)
  /\ plans \in Seq(ExecutedPlan)
  /\ ppc \in {"idle", "evaluate", "revise", "gate"}
  /\ plans = <<>> => ppc = "idle"
  /\ index \in Nat \ {0}
  /\ prior \in Nat
  /\ asked \in Seq(Nat)
  /\ answers \in Seq(Verdicts)

\* An id names a delta of a plan that was executed, which was decided so.
Names(id) ==
  /\ id.plan \in 1..Len(plans)
  /\ id.index \in 1..Len(plans[id.plan].deltas)
DecisionOn(id) == PlanDecision(plans[id.plan], plans[id.plan].deltas[id.index])

(***************************************************************************)
(* "Policy decides": whatever is in the log as a revision was let through  *)
(* by the policy in force for its plan, domain overlay included, and its   *)
(* commitment was on record as successful before it.                       *)
(***************************************************************************)
RevisionAuthorised ==
  \A n \in 1..Len(log) :
    IsRevision(log[n]) =>
      /\ Names(log[n].cause)
      /\ Clear(DecisionOn(log[n].cause))
      /\ CommittedBefore(log, n, log[n].cause)

\* A commitment causes one revision at most, across all plans of the log.
OneRevisionPerCommitment ==
  \A m, n \in 1..Len(log) :
    /\ IsRevision(log[m])
    /\ IsRevision(log[n])
    /\ log[m].cause = log[n].cause
    => m = n

(***************************************************************************)
(* Replay of the log never jumps where plans run in a domain: a revision   *)
(* of such a plan starts from the state the log replays to at that point,  *)
(* also when earlier plans shared the log.                                 *)
(***************************************************************************)
ContinuesFromReplay ==
  \A n \in 1..Len(log) :
    /\ IsRevision(log[n])
    /\ plans[log[n].cause.plan].entry = "domain"
    => log[n].prior = ReplayedAt(log, n - 1)

(***************************************************************************)
(* The approval gate "only proposes and records": a transition that was    *)
(* put to it is never applied, not even when the verdict is approved.      *)
(***************************************************************************)
GateOnlyRecords ==
  \A m, n \in 1..Len(log) :
    /\ log[m].type = "approval"
    /\ IsRevision(log[n])
    => log[m].trace # log[n].cause

(***************************************************************************)
(* The decisions of one plan are recorded all together or not at all, one  *)
(* per delta that requires approval, in the order of the plan.             *)
(***************************************************************************)
DecisionsComplete ==
  \A p \in 1..Len(plans) :
    LET asking == {n \in 1..Len(log) :
                     /\ log[n].type = "commitment"
                     /\ log[n].id.plan = p
                     /\ log[n].requires_approval}
        decided == {n \in 1..Len(log) :
                      log[n].type = "approval" /\ log[n].trace.plan = p}
    IN  \/ decided = {}
        \/ /\ {log[n].trace : n \in decided} = {log[n].id : n \in asking}
           /\ \A m, n \in decided : (m < n) <=> (log[m].trace.index < log[n].trace.index)

\* Every plan that is started returns to its caller or raises.
PlanEnds == (ppc # "idle") ~> (ppc = "idle")

(***************************************************************************)
(* Plans run in a domain implement AuditedEvolution: across all the plans  *)
(* that share the log, its revisions form one chain of authorised steps.   *)
(***************************************************************************)
Evolution == INSTANCE AuditedEvolution WITH record <- log
ImplementsEvolution == Evolution!Spec

--------------------------------------------------------------------------------
(***************************************************************************)
(* The inductive invariant: what makes the properties above hold from one  *)
(* step to the next.                                                       *)
(***************************************************************************)

\* Between a commitment and its revision nothing else gets into the log.
ReadyToRevise ==
  ppc = "revise" =>
    /\ Names(thisId)
    /\ Clear(DecisionOn(thisId))
    /\ log # <<>>
    /\ log[Len(log)].type = "commitment"
    /\ log[Len(log)].id = thisId
    /\ log[Len(log)].success

\* The running plan has no revision yet for the delta under consideration.
RevisionsBehindIndex ==
  ppc \in {"evaluate", "revise"} =>
    \A n \in 1..Len(log) :
      /\ IsRevision(log[n])
      /\ log[n].cause.plan = Len(plans)
      => log[n].cause.index < index

\* What is put to the gate, and what the gate has answered, was held back.
HeldBack(id) == Names(id) /\ ~Clear(DecisionOn(id))

AskedHeldBack ==
  ppc # "idle" =>
    \A k \in 1..Len(asked) : HeldBack([plan |-> Len(plans), index |-> asked[k]])

ApprovalsHeldBack ==
  \A n \in 1..Len(log) :
    log[n].type = "approval" => log[n].trace = Unlinked \/ HeldBack(log[n].trace)

\* The running count of a domain plan is in step with replay.
PriorIsReplayed ==
  ppc \in {"evaluate", "revise"} /\ plan.entry = "domain"
    => prior = ReplayedState(log)

PlanInvariant ==
  /\ PlanTypeOK
  /\ ReadyToRevise
  /\ RevisionAuthorised
  /\ RevisionsBehindIndex
  /\ OneRevisionPerCommitment
  /\ AskedHeldBack
  /\ ApprovalsHeldBack
  /\ PriorIsReplayed
  /\ ContinuesFromReplay

================================================================================
