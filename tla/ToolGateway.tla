------------------------------ MODULE ToolGateway ------------------------------
(***************************************************************************)
(* The tool gateway: the single entry point for tool execution.  A batch   *)
(* of calls is run one after the other; each goes through the tool policy, *)
(* the approval provider when the policy asks for it, the registered       *)
(* handler, the audit trail and, if the caller wants the result promoted,  *)
(* a belief revision.                                                      *)
(*                                                                         *)
(* One action is one stretch of ToolGateway.execute between two points     *)
(* where it hands control to foreign code (the approval provider, the      *)
(* tool handler) or can be observed between two log entries that matter.   *)
(***************************************************************************)
EXTENDS EventLog, FiniteSets, DeltaPolicy

CONSTANTS
  CallIds,      \* call ids; the caller may submit the same call again
  RiskOf,       \* the declared risk of the tool a call names
  Handled,      \* the calls whose tool has a registered handler
  Promoted,     \* the calls that have a key in promote_to_belief_keys
  Answers,      \* what the configured approval provider may answer
  MaxBatch,     \* bound on the calls of one batch
  MaxBatches    \* bound on the batches submitted

ASSUME GatewayAssumption ==
  /\ RiskOf \in [CallIds -> ToolRisk]
  /\ Handled \subseteq CallIds
  /\ Promoted \subseteq CallIds
  /\ Answers \subseteq {"approved", "rejected", "raises"}
  /\ MaxBatch \in Nat
  /\ MaxBatches \in Nat

VARIABLES
  log,          \* the event log, oldest entry first
  gpc,          \* where ToolGateway.execute stands
  calls,        \* the calls of the batch still to run; the first is current
  state_id,     \* n for the current_state_id "ws_n" handed to execute
  effects,      \* handlers entered: the call and the length of the log then
  batches       \* number of batches submitted

gatewayVars == <<log, gpc, calls, state_id, effects, batches>>

(***************************************************************************)
(* Entries of the event log written by the gateway.  The commitment of a   *)
(* call is written twice under one id: when the call is taken on (success  *)
(* is true by default, completed is false) and once its outcome is known.  *)
(***************************************************************************)
CommitmentEntry ==
  [type : {"commitment"}, id : CallIds, success : BOOLEAN, completed : BOOLEAN]
ApprovalEntry ==
  [type : {"approval"}, trace : CallIds, verdict : {"approved", "rejected"}]
ResultEntry == [type : {"tool_result"}, id : CallIds, status : {"succeeded", "failed"}]
ObservationEntry == [type : {"observation"}, id : CallIds]
RevisionEntry == [type : {"revision"}, cause : CallIds, prior : Nat, result : Nat]

GatewayEntry ==
  CommitmentEntry \cup ApprovalEntry \cup ResultEntry \cup ObservationEntry
    \cup RevisionEntry

Commitment(id, success, completed) ==
  [type |-> "commitment", id |-> id, success |-> success, completed |-> completed]
Approval(id, verdict) ==
  [type |-> "approval", trace |-> id, verdict |-> verdict]
ToolResult(id, status) == [type |-> "tool_result", id |-> id, status |-> status]
Observation(id) == [type |-> "observation", id |-> id]
Revision(cause, prior, result) ==
  [type |-> "revision", cause |-> cause, prior |-> prior, result |-> result]

call == Head(calls)
verdict == EvaluateToolCallPolicy(RiskOf[call])

GatewayInit ==
  /\ log = <<>>
  /\ gpc = "idle"
  /\ calls = <<>>
  /\ state_id = 0
  /\ effects = <<>>
  /\ batches = 0

\* The batch goes on with its next call, or returns to the caller.
NextCall ==
  /\ calls' = Tail(calls)
  /\ gpc' = IF Len(calls) > 1 THEN "policy" ELSE "idle"

\* Defect: the state id is not taken from the log but starts at ws_0.
ExecuteBatchFromZero(batch) ==
  /\ gpc = "idle"
  /\ batches < MaxBatches
  /\ batch # <<>>
  /\ calls' = batch
  /\ state_id' = 0
  /\ gpc' = "policy"
  /\ batches' = batches + 1
  /\ UNCHANGED <<log, effects>>

(***************************************************************************)
(* execute_batch is called with the id of the replayed world state.        *)
(***************************************************************************)
ExecuteBatch(batch) ==
  /\ gpc = "idle"
  /\ batches < MaxBatches
  /\ batch # <<>>
  /\ calls' = batch
  /\ state_id' = ReplayedState(log)
  /\ gpc' = "policy"
  /\ batches' = batches + 1
  /\ UNCHANGED <<log, effects>>

\* The policy denies the call: a failed result is the only trace of it.
RecordDenied ==
  /\ gpc = "policy"
  /\ verdict = "deny"
  /\ log' = Append(log, ToolResult(call, "failed"))
  /\ NextCall
  /\ UNCHANGED <<state_id, effects, batches>>

\* The policy allows the call outright: the commitment goes on record.
RecordCommitment ==
  /\ gpc = "policy"
  /\ verdict = "allow"
  /\ log' = Append(log, Commitment(call, TRUE, FALSE))
  /\ gpc' = "handler"
  /\ UNCHANGED <<calls, state_id, effects, batches>>

\* The provider approves: commitment first, then the approval decision.
CheckApprovalApproved ==
  /\ gpc = "policy"
  /\ verdict = "requires_approval"
  /\ "approved" \in Answers
  /\ log' = log \o <<Commitment(call, TRUE, FALSE),
                     Approval(call, "approved")>>
  /\ gpc' = "handler"
  /\ UNCHANGED <<calls, state_id, effects, batches>>

\* Defect: the rejection is recorded and the call goes on all the same.
RecordApprovalDeniedGoesOn ==
  /\ gpc = "policy"
  /\ verdict = "requires_approval"
  /\ "rejected" \in Answers
  /\ log' = log \o <<Commitment(call, TRUE, FALSE),
                     Approval(call, "rejected")>>
  /\ gpc' = "handler"
  /\ UNCHANGED <<calls, state_id, effects, batches>>

\* The provider rejects, or there is none, which counts as a rejection.
RecordApprovalDenied ==
  /\ gpc = "policy"
  /\ verdict = "requires_approval"
  /\ "rejected" \in Answers
  /\ log' = log \o <<Approval(call, "rejected"),
                     ToolResult(call, "failed")>>
  /\ NextCall
  /\ UNCHANGED <<state_id, effects, batches>>

\* The provider raises (a callback provider has no decide_request): the
\* exception leaves execute_batch and the rest of the batch is abandoned.
CheckApprovalRaises ==
  /\ gpc = "policy"
  /\ verdict = "requires_approval"
  /\ "raises" \in Answers
  /\ calls' = <<>>
  /\ gpc' = "idle"
  /\ UNCHANGED <<log, state_id, effects, batches>>

\* Entering the registered handler: from here on the tool acts.
EnterHandler ==
  /\ gpc = "handler"
  /\ call \in Handled
  /\ effects' = Append(effects, [call |-> call, at |-> Len(log)])
  /\ gpc' = "running"
  /\ UNCHANGED <<log, calls, state_id, batches>>

\* No handler for the tool: a failed result, and the commitment is closed.
HandlerMissing ==
  /\ gpc = "handler"
  /\ call \notin Handled
  /\ log' = log \o <<ToolResult(call, "failed"),
                     Commitment(call, FALSE, TRUE)>>
  /\ NextCall
  /\ UNCHANGED <<state_id, effects, batches>>

\* Defect: a failed execution is promoted like a successful one.
HandlerRaisesGoesOn ==
  /\ gpc = "running"
  /\ log' = log \o <<ToolResult(call, "failed"),
                     Commitment(call, FALSE, TRUE)>>
  /\ gpc' = "promote"
  /\ UNCHANGED <<calls, state_id, effects, batches>>

\* The handler raises: a failed result, and the commitment is closed.
HandlerRaises ==
  /\ gpc = "running"
  /\ log' = log \o <<ToolResult(call, "failed"),
                     Commitment(call, FALSE, TRUE)>>
  /\ NextCall
  /\ UNCHANGED <<state_id, effects, batches>>

\* The handler returns: result, observation and the completed commitment.
HandlerReturns ==
  /\ gpc = "running"
  /\ log' = log \o <<ToolResult(call, "succeeded"),
                     Observation(call),
                     Commitment(call, TRUE, TRUE)>>
  /\ gpc' = "promote"
  /\ UNCHANGED <<calls, state_id, effects, batches>>

\* The caller did not ask for promotion, or the delta policy withholds it.
NoPromotion ==
  /\ gpc = "promote"
  /\ ~ (call \in Promoted /\ Clear(EvaluateDeltaPolicy(PromotionDelta)))
  /\ NextCall
  /\ UNCHANGED <<log, state_id, effects, batches>>

\* The observation becomes a belief; the next call starts from its state.
PromoteObservation ==
  /\ gpc = "promote"
  /\ call \in Promoted
  /\ Clear(EvaluateDeltaPolicy(PromotionDelta))
  /\ LET result == Cardinality(RevisionsIn(log)) + 1
     IN  /\ log' = Append(log, Revision(call, state_id, result))
         /\ state_id' = result
  /\ NextCall
  /\ UNCHANGED <<effects, batches>>

Batch == UNION {[1..n -> CallIds] : n \in 1..MaxBatch}

GatewayStep ==
  \/ RecordDenied
  \/ RecordCommitment
  \/ EnterHandler
  \/ HandlerMissing
  \/ NoPromotion
  \/ PromoteObservation

ProviderStep ==
  \/ CheckApprovalApproved
  \/ RecordApprovalDenied
  \/ CheckApprovalRaises

HandlerStep == HandlerRaises \/ HandlerReturns

GatewayNext ==
  \/ \E batch \in Batch : ExecuteBatch(batch)
  \/ GatewayStep
  \/ ProviderStep
  \/ HandlerStep

GatewaySpec == GatewayInit /\ [][GatewayNext]_gatewayVars

--------------------------------------------------------------------------------
OpensCommitment(entry, id) ==
  entry.type = "commitment" /\ entry.id = id /\ ~entry.completed

(***************************************************************************)
(* Whenever a handler was entered, the log already held the commitment of  *)
(* that very execution, and for a write or external tool also its          *)
(* approval: nothing touches the world before its authorisation is on      *)
(* record (ToolGateway.execute, policy check to handler).                  *)
(***************************************************************************)
EffectAuthorised ==
  \A n \in 1..Len(effects) :
    LET id == effects[n].call
        at == effects[n].at
    IN  CASE EvaluateToolCallPolicy(RiskOf[id]) = "allow" ->
               at >= 1 /\ OpensCommitment(log[at], id)
          [] EvaluateToolCallPolicy(RiskOf[id]) = "requires_approval" ->
               /\ at >= 2
               /\ OpensCommitment(log[at - 1], id)
               /\ log[at] = Approval(id, "approved")
          [] OTHER -> FALSE

(***************************************************************************)
(* A promotion is grounded in an execution of its own: between two         *)
(* revisions caused by the same call, and before the first, that call's    *)
(* handler succeeded and its commitment was completed as successful.       *)
(***************************************************************************)
RevisionGrounded ==
  \A n \in 1..Len(log) :
    IsRevision(log[n]) =>
      \E m \in 1..(n - 1) :
        /\ log[m] = Commitment(log[n].cause, TRUE, TRUE)
        /\ \E k \in 1..(m - 1) : log[k] = ToolResult(log[n].cause, "succeeded")
        /\ \A k \in m..(n - 1) :
             ~(IsRevision(log[k]) /\ log[k].cause = log[n].cause)

(***************************************************************************)
(* The gateway implements AuditedEvolution: a promotion is one authorised  *)
(* step of the world model, and promotions form one chain of them.         *)
(***************************************************************************)
Evolution == INSTANCE AuditedEvolution WITH record <- log
ImplementsEvolution == Evolution!Spec

================================================================================
