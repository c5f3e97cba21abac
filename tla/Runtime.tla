-------------------------------- MODULE Runtime --------------------------------
(***************************************************************************)
(* The runtime: one task after the other over a shared event log, each     *)
(* compiled, deliberated on, planned, routed and executed.  The execution  *)
(* of the plan's deltas is module PlanExecution, the tool gateway is       *)
(* module ToolGateway, both on the same log; this module adds what the     *)
(* entry points of the runtime do around them.                             *)
(*                                                                         *)
(*   "domain"    execute_task_in_domain                                    *)
(*   "chain"     execute_task_with_chain                                   *)
(*   "compiler"  execute_task_with_compiler_in_domain, with a provider-    *)
(*               backed compiler                                           *)
(*   "plan"      _execute_plan_in_domain, given a plan instead of a task   *)
(*                                                                         *)
(* If the plan proposes a tool call it takes another way than a plan       *)
(* without: through the gateway if the run has one, else through           *)
(* execute_plan_with_read_only_tools.                                      *)
(***************************************************************************)
EXTENDS FiniteSets, PlanExecution, TaskPlanning, UncertaintyRouter

CONSTANTS
  Setups,           \* the environments a run may be given
  LLMTasks,         \* the tasks a provider may answer with
  GatewayRisk,      \* the declared risk of read_docs in the gateway's registry
  GatewayHandled,   \* whether the gateway has a handler for it
  GatewayAnswers,   \* what the gateway's approval provider may answer
  MaxRuns           \* bound on the runs over the log

Modes == {"domain", "chain", "compiler", "plan"}

(***************************************************************************)
(* runner: the risk of read_docs in the registry of the read-only tool     *)
(* runner, "unknown" if it is not registered there, "none" if the run has  *)
(* no runner.  promote: the caller asks for the observation as a belief.   *)
(* steps: the limit on the steps of a reasoning chain, which may be 0.     *)
(***************************************************************************)
Setup ==
  [runner : ToolRisk \cup {"none"}, handler : BOOLEAN, promote : BOOLEAN,
   gateway : BOOLEAN, pack : PluginPack, gate : GateKinds,
   router : BOOLEAN, config : RouterConfig, steps : Nat]

ASSUME RuntimeAssumption ==
  /\ Setups \subseteq Setup
  /\ \A setup \in Setups : setup.handler => setup.runner = "read"
  /\ LLMTasks \subseteq TaskSpec
  /\ GatewayRisk \in ToolRisk
  /\ GatewayHandled \in BOOLEAN
  /\ GatewayAnswers \subseteq {"approved", "rejected", "raises"}
  /\ MaxRuns \in Nat

VARIABLES
  runs,      \* the runs so far; the last one is the current one
  rpc,       \* where it stands
  gpc, calls, state_id, effects, batches    \* the gateway, see ToolGateway

gatewayOnly == <<gpc, calls, state_id, effects, batches>>
runtimeVars == <<planVars, runs, rpc, gatewayOnly>>

\* Call ids are fresh: the call of run r.  Plans begin at 1, so these are
\* the ids of no plan's deltas.
CallId(r) == [plan |-> 0, index |-> r]
GatewayCalls == {CallId(r) : r \in 1..MaxRuns}

G == INSTANCE ToolGateway WITH
       CallIds <- GatewayCalls,
       RiskOf <- [id \in GatewayCalls |-> GatewayRisk],
       Handled <- IF GatewayHandled THEN GatewayCalls ELSE {},
       Promoted <- {},
       Answers <- GatewayAnswers,
       MaxBatch <- 1,
       MaxBatches <- MaxRuns

(***************************************************************************)
(* What is known of a run; task, action, found and routed have the values  *)
(* given here until they are determined, and are not looked at before.     *)
(***************************************************************************)
Run ==
  [mode : Modes, setup : Setup, from : Nat,
   task : TaskSpec, action : NextAction, found : BOOLEAN,
   routed : RoutingDecision, deltas : Seq(RevisionDelta), call : BOOLEAN]

StartRun(mode, setup) ==
  [mode |-> mode, setup |-> setup, from |-> Len(log),
   task |-> CompileTask(FALSE, FALSE), action |-> "propose_plan",
   found |-> FALSE, routed |-> "auto_execute", deltas |-> <<>>, call |-> FALSE]

run == runs[Len(runs)]
thisCall == CallId(Len(runs))
Reads(setup) == setup.runner \notin {"none", "unknown"}

RuntimeInit ==
  /\ PlanInit
  /\ G!GatewayInit
  /\ runs = <<>>
  /\ rpc = "idle"

--------------------------------------------------------------------------------
(* Entries of the log written by the runtime around plans and tools.       *)

Received == [type |-> "received"]
Compiler(outcome) == [type |-> "compiler", outcome |-> outcome]
Provider(outcome) == [type |-> "provider", outcome |-> outcome]
Deliberation(action) == [type |-> "deliberation", action |-> action]
Proposed(id, judged) == [type |-> "tool_call", id |-> id, verdict |-> judged]

\* What the runtime notes as steps of deliberation of its own, precedents that
\* were found and how a task was routed, with an action no deliberation chooses.
Noted == Deliberation("execute_plan")
Chooses(entry) == entry.type = "deliberation" /\ entry.action # "execute_plan"

Write(entries) == log' = log \o entries
PlanUntouched == UNCHANGED <<plans, ppc, index, prior, asked, answers>>
Determine(known) == runs' = [runs EXCEPT ![Len(runs)] = known]

--------------------------------------------------------------------------------
(* From the raw input to a task.                                           *)

MayStart(mode, setup) ==
  /\ rpc = "idle"
  /\ Len(runs) < MaxRuns
  /\ setup.router => mode = "domain"
  /\ setup.gateway => mode \in {"domain", "chain"}
  /\ setup.promote <=> mode = "plan"
  /\ mode = "plan" => setup.gate = "none"

\* execute_task_in_domain and execute_task_with_chain compile in process.
ReceiveTask(mode, setup, task) ==
  /\ mode \in {"domain", "chain"}
  /\ MayStart(mode, setup)
  /\ runs' = Append(runs, [StartRun(mode, setup) EXCEPT !.task = task])
  /\ Write(<<Received>>)
  /\ rpc' = "deliberate"
  /\ UNCHANGED gatewayOnly
  /\ PlanUntouched

\* The compiler is asked, and asks its provider.
RequestCompiler(setup) ==
  /\ MayStart("compiler", setup)
  /\ runs' = Append(runs, StartRun("compiler", setup))
  /\ Write(<<Compiler("requested"), Provider("requested")>>)
  /\ rpc' = "compiling"
  /\ UNCHANGED gatewayOnly
  /\ PlanUntouched

\* Defect: the outcome of a response that does not parse is not recorded.
ResponseRejectedSilently ==
  /\ rpc = "compiling"
  /\ Write(<<Provider("succeeded")>>)
  /\ rpc' = "idle"
  /\ UNCHANGED <<runs, gatewayOnly>>
  /\ PlanUntouched

\* The provider answers with a response that is no task: the run raises.
ResponseRejected ==
  /\ rpc = "compiling"
  /\ Write(<<Provider("succeeded"), Compiler("rejected")>>)
  /\ rpc' = "idle"
  /\ UNCHANGED <<runs, gatewayOnly>>
  /\ PlanUntouched

ResponseAccepted(task) ==
  /\ rpc = "compiling"
  /\ Write(<<Provider("succeeded"), Compiler("succeeded")>>)
  /\ Determine([run EXCEPT !.task = task])
  /\ rpc' = "deliberate"
  /\ UNCHANGED gatewayOnly
  /\ PlanUntouched

\* The provider raises a RuntimeError: recorded, and raised again.
ProviderFails ==
  /\ rpc = "compiling"
  /\ Write(<<Provider("failed"), Compiler("rejected")>>)
  /\ rpc' = "idle"
  /\ UNCHANGED <<runs, gatewayOnly>>
  /\ PlanUntouched

\* The provider raises anything else, a socket timeout say.
ProviderCrashes ==
  /\ rpc = "compiling"
  /\ Write(<<Compiler("rejected")>>)
  /\ rpc' = "idle"
  /\ UNCHANGED <<runs, gatewayOnly>>
  /\ PlanUntouched

--------------------------------------------------------------------------------
(* From the task to a plan.                                                *)

\* The chosen actions, in the order they are recorded.
ChosenActions ==
  IF run.mode = "chain"
  THEN DeliberateChain(run.task, Reads(run.setup), run.setup.steps)
  ELSE <<DeliberateNextAction(run.task, Reads(run.setup))>>

\* Defect: the chain is recorded, and its first action is taken.
FirstAction ==
  IF ChosenActions = <<>> THEN DeliberateNextAction(run.task, Reads(run.setup))
  ELSE ChosenActions[1]

\* The last one is taken; for a chain of no steps one is chosen off the record.
FinalAction ==
  IF ChosenActions = <<>> THEN DeliberateNextAction(run.task, Reads(run.setup))
  ELSE ChosenActions[Len(ChosenActions)]

\* found: the memory store of a "domain" run has precedents, put on record
\* before the deliberation.
Deliberate(found) ==
  /\ rpc = "deliberate"
  /\ found => run.mode = "domain"
  /\ Write((IF found THEN <<Noted>> ELSE <<>>)
             \o [n \in 1..Len(ChosenActions) |-> Deliberation(ChosenActions[n])])
  /\ Determine([run EXCEPT
       !.action = FinalAction,
       !.found = found,
       !.deltas = CandidateDeltas(run.task, FinalAction),
       !.call = ProposesReadOnlyCall(run.task, Reads(run.setup), FinalAction)])
  /\ rpc' = IF run.setup.router THEN "route" ELSE "execute"
  /\ UNCHANGED gatewayOnly
  /\ PlanUntouched

RunSignals ==
  [evidence |-> IF run.found THEN 90 ELSE 70, precedent |-> 50,
   risk |-> run.task.risk, success |-> 80, confidence |-> 75]

(***************************************************************************)
(* The routing decision is recorded.  Review by a human calls for a gate:  *)
(* a run without one builds ApprovalGate() with no provider, which raises. *)
(* Nothing follows from a decision to gather more evidence.                *)
(***************************************************************************)
RouteRun ==
  /\ rpc = "route"
  /\ LET decision == Route(RunSignals, run.setup.config)
     IN  /\ Write(<<Noted>>)
         /\ Determine([run EXCEPT !.routed = decision])
         /\ rpc' = IF decision = "needs_human_review" /\ run.setup.gate = "none"
                   THEN "idle" ELSE "execute"
  /\ UNCHANGED gatewayOnly
  /\ PlanUntouched

--------------------------------------------------------------------------------
(* The execution of the plan.                                              *)

\* _execute_plan_in_domain, called with a plan.
ReceivePlan(deltas, call, setup) ==
  /\ MayStart("plan", setup)
  /\ call => setup.runner # "none"
  /\ runs' = Append(runs, [StartRun("plan", setup) EXCEPT
                              !.deltas = deltas, !.call = call])
  /\ rpc' = "execute"
  /\ UNCHANGED <<log, gatewayOnly>>
  /\ PlanUntouched

\* A plan that proposes no call, and one whose call is left to the runner.
ExecutePlanOfRun ==
  /\ rpc = "execute"
  /\ ~(run.call /\ run.setup.gateway)
  /\ ExecutePlan(run.deltas, IF run.call THEN "plain" ELSE "domain",
                 run.setup.pack, run.setup.gate)
  /\ rpc' = "plan"
  /\ UNCHANGED <<runs, gatewayOnly>>

\* A proposed call goes to the gateway, and the deltas nowhere.
ExecuteBatchOfRun ==
  /\ rpc = "execute"
  /\ run.call /\ run.setup.gateway
  /\ G!ExecuteBatch(<<thisCall>>)
  /\ rpc' = "gateway"
  /\ UNCHANGED runs
  /\ PlanUntouched

(***************************************************************************)
(* When the batch returns, the result is built from arguments its class    *)
(* does not have, which raises; when it raises, so does the run.           *)
(***************************************************************************)
RunGateway ==
  /\ rpc = "gateway"
  /\ G!GatewayStep \/ G!ProviderStep \/ G!HandlerStep
  /\ rpc' = IF gpc' = "idle" THEN "idle" ELSE "gateway"
  /\ UNCHANGED runs
  /\ PlanUntouched

RunDeltas ==
  /\ rpc = "plan"
  /\ EvaluateDelta \/ ReviseModel
  /\ UNCHANGED <<runs, rpc, gatewayOnly>>

\* The call is judged and put on record after the deltas.
ProposeToolCall ==
  /\ rpc = "plan"
  /\ DeltasDone
  /\ run.call
  /\ LET judged == EvaluateToolCallPolicy(run.setup.runner)
     IN  /\ Write(<<Proposed(thisCall, judged)>>)
         /\ rpc' = IF judged = "allow" THEN "tool" ELSE "gate"
  /\ UNCHANGED <<runs, gatewayOnly>>
  /\ PlanUntouched

\* No handler, or one that raises.
ToolFails ==
  /\ rpc = "tool"
  /\ Write(<<G!ToolResult(thisCall, "failed")>>)
  /\ rpc' = "gate"
  /\ UNCHANGED <<runs, gatewayOnly>>
  /\ PlanUntouched

\* The commitment of a promotion is that of a plan of its own; it is given
\* the index 0 of the plan it belongs to here.
PromotionId == [plan |-> Len(plans), index |-> 0]

\* Defect: promotions are judged without the overlay of the domain.
PromotionWithoutOverlay ==
  <<[type |-> "commitment", id |-> PromotionId, success |-> TRUE,
     requires_approval |-> FALSE],
    [type |-> "revision", cause |-> PromotionId, prior |-> ReplayedState(log),
     result |-> Cardinality(RevisionsIn(log)) + 1]>>

\* Defect: a promotion starts from the state before the plan.
PromotionFromZero ==
  LET decision == EvaluateDeltaPolicyInDomain(PromotionDelta, run.setup.pack)
      commitment ==
        [type |-> "commitment", id |-> PromotionId, success |-> Clear(decision),
         requires_approval |-> decision.requires_approval]
      revision ==
        [type |-> "revision", cause |-> PromotionId, prior |-> 0,
         result |-> Cardinality(RevisionsIn(log)) + 1]
  IN  IF Clear(decision) THEN <<commitment, revision>> ELSE <<commitment>>

Promotion ==
  LET decision == EvaluateDeltaPolicyInDomain(PromotionDelta, run.setup.pack)
      commitment ==
        [type |-> "commitment", id |-> PromotionId, success |-> Clear(decision),
         requires_approval |-> decision.requires_approval]
      revision ==
        [type |-> "revision", cause |-> PromotionId,
         prior |-> ReplayedState(log),
         result |-> Cardinality(RevisionsIn(log)) + 1]
  IN  IF Clear(decision) THEN <<commitment, revision>> ELSE <<commitment>>

\* The handler returns: result, observation and, if asked for, promotion.
ToolReturns ==
  /\ rpc = "tool"
  /\ run.setup.handler
  /\ Write(<<G!ToolResult(thisCall, "succeeded"), G!Observation(thisCall)>>
             \o (IF run.setup.promote THEN Promotion ELSE <<>>))
  /\ rpc' = "gate"
  /\ UNCHANGED <<runs, gatewayOnly>>
  /\ PlanUntouched

\* The gate is applied to the deltas of the plan, and the run ends with it.
ApplyApprovalGate ==
  /\ rpc = "gate" \/ (rpc = "plan" /\ ~run.call)
  /\ \/ ReturnResult
     \/ OpenGate
     \/ \E verdict \in Verdicts : Decide(verdict)
     \/ ProviderRaises
     \/ RecordDecisions
  /\ rpc' = IF ppc' = "idle" THEN "idle" ELSE "gate"
  /\ UNCHANGED <<runs, gatewayOnly>>

RunStep ==
  \/ \E task \in LLMTasks : ResponseAccepted(task)
  \/ ResponseRejected
  \/ ProviderFails
  \/ ProviderCrashes
  \/ \E found \in BOOLEAN : Deliberate(found)
  \/ RouteRun
  \/ ExecutePlanOfRun
  \/ ExecuteBatchOfRun
  \/ RunGateway
  \/ RunDeltas
  \/ ProposeToolCall
  \/ ToolFails
  \/ ToolReturns
  \/ ApplyApprovalGate

RuntimeNext ==
  \/ \E mode \in {"domain", "chain"}, setup \in Setups, updates, docs \in BOOLEAN :
       ReceiveTask(mode, setup, CompileTask(updates, docs))
  \/ \E setup \in Setups : RequestCompiler(setup)
  \/ \E deltas \in Plans, call \in BOOLEAN, setup \in Setups :
       ReceivePlan(deltas, call, setup)
  \/ RunStep

RuntimeSpec == RuntimeInit /\ [][RuntimeNext]_runtimeVars

--------------------------------------------------------------------------------
\* What run r wrote, by position.
Written(r) ==
  (runs[r].from + 1)..(IF r < Len(runs) THEN runs[r + 1].from ELSE Len(log))

ToolActing == {"tool_call", "tool_result", "observation"}
Acting == {"commitment", "revision", "approval"} \cup ToolActing

LastChoice(r, m) ==
  /\ m \in Written(r)
  /\ Chooses(log[m])
  /\ \A k \in Written(r) : Chooses(log[k]) => k <= m

\* A chain that may take no steps records none, and acts nevertheless.
Unrecorded(r) == runs[r].mode = "chain" /\ runs[r].setup.steps = 0

OffRecord(r) == DeliberateNextAction(runs[r].task, Reads(runs[r].setup))

Permits(action, type) ==
  /\ action # "propose_redirect"
  /\ type \in ToolActing => action = "request_read_tool"

(***************************************************************************)
(* Deliberation comes first and binds the run: nothing is committed,       *)
(* revised, run or asked for before a step of deliberation is on record;   *)
(* after a redirect, nothing at all is; and a tool runs only if the last   *)
(* step on record asked for it (the chain's does not).  The exception is a *)
(* chain limited to no steps (max_chain_steps=0): it acts with no step on  *)
(* record, and only as a deliberation of its task, made now, would permit. *)
(***************************************************************************)
ActionsFollowDeliberation ==
  \A r \in 1..Len(runs) :
    runs[r].mode # "plan" =>
      \A n \in Written(r) :
        log[n].type \in Acting =>
          IF Unrecorded(r) THEN Permits(OffRecord(r), log[n].type)
          ELSE \E m \in Written(r) :
                 m < n /\ LastChoice(r, m) /\ Permits(log[m].action, log[n].type)

(***************************************************************************)
(* Every revision, whichever way the run took, was let through by the      *)
(* policy of that way and follows its commitment; a promotion also follows *)
(* an observation of its run, and the overlay of the domain let it through.*)
(***************************************************************************)
RevisionsJustified ==
  \A r \in 1..Len(runs) :
    \A n \in Written(r) :
      IsRevision(log[n]) =>
        LET cause == log[n].cause
        IN  /\ CommittedBefore(log, n, cause)
            /\ IF cause.index # 0
               THEN Names(cause) /\ Clear(DecisionOn(cause))
               ELSE /\ \E m \in Written(r) : m < n /\ log[m].type = "observation"
                    /\ Clear(EvaluateDeltaPolicyInDomain(PromotionDelta,
                                                        runs[r].setup.pack))

(***************************************************************************)
(* Replay does not jump where the state is taken from the log: at the      *)
(* first revision of a plan without tool calls and at every promotion,     *)
(* also after plans that were numbered from ws_0 on their own.             *)
(***************************************************************************)
ChainWhereThreaded ==
  \A n \in 1..Len(log) :
    /\ IsRevision(log[n])
    /\ log[n].cause.index = 0 \/ plans[log[n].cause.plan].entry = "domain"
    => log[n].prior = ReplayedAt(log, n - 1)

(***************************************************************************)
(* A compiler that was asked is heard of exactly once, and the run goes on *)
(* to deliberate only if it succeeded.                                     *)
(***************************************************************************)
CompilerSettled ==
  \A r \in 1..Len(runs) :
    LET outcomes == {n \in Written(r) : log[n].type = "compiler"
                                        /\ log[n].outcome # "requested"}
        current == r = Len(runs) /\ rpc = "compiling"
    IN  runs[r].mode = "compiler" =>
          /\ Cardinality(outcomes) = (IF current THEN 0 ELSE 1)
          /\ \A n \in Written(r) :
               Chooses(log[n]) =>
                 \E m \in outcomes : m < n /\ log[m].outcome = "succeeded"

--------------------------------------------------------------------------------
(***************************************************************************)
(* The inductive invariant: what makes the properties above hold from one  *)
(* step to the next.                                                       *)
(***************************************************************************)
RuntimeEntry ==
  PlanEntry
    \cup G!CommitmentEntry \cup G!ApprovalEntry \cup G!ResultEntry
    \cup G!ObservationEntry
    \cup [type : {"received"}]
    \cup [type : {"compiler"}, outcome : {"requested", "succeeded", "rejected"}]
    \cup [type : {"provider"}, outcome : {"requested", "succeeded", "failed"}]
    \cup [type : {"deliberation"}, action : NextAction \cup {"execute_plan"}]
    \cup [type : {"tool_call"}, id : GatewayCalls,
          verdict : {"deny", "allow", "requires_approval"}]

RuntimeTypeOK ==
  /\ log \in Seq(RuntimeEntry)
  /\ plans \in Seq(ExecutedPlan)
  /\ ppc \in {"idle", "evaluate", "revise", "gate"}
  /\ index \in Nat \ {0}
  /\ prior \in Nat
  /\ asked \in Seq(Nat)
  /\ answers \in Seq(Verdicts)
  /\ runs \in Seq(Run)
  /\ Len(runs) <= MaxRuns
  /\ rpc \in {"idle", "compiling", "deliberate", "route", "execute", "plan",
              "tool", "gate", "gateway"}
  /\ gpc \in {"idle", "policy", "handler", "running", "promote"}
  /\ calls \in Seq(GatewayCalls)
  /\ state_id \in Nat
  /\ effects \in Seq([call : GatewayCalls, at : Nat])
  /\ batches \in Nat

\* The plan, or the gateway, is at work exactly when the run waits for it, and
\* a call is proposed where there is a registry to name its tool.
Control ==
  /\ rpc # "idle" => runs # <<>>
  /\ ppc = "idle" <=> rpc \notin {"plan", "tool", "gate"}
  /\ rpc = "plan" => ppc \in {"evaluate", "revise"}
  /\ rpc = "tool" => ppc = "evaluate"
  /\ rpc = "gate" => ppc \in {"evaluate", "gate"}
  /\ gpc = "idle" <=> rpc # "gateway"
  /\ rpc = "gateway" => calls = <<thisCall>>
  /\ rpc \in {"tool", "gateway"} => run.call
  /\ rpc = "compiling" => run.mode = "compiler"
  /\ \A r \in 1..Len(runs) : runs[r].call => runs[r].setup.runner # "none"

\* What the plan at work is.
PlanOfRun ==
  ppc # "idle" =>
    /\ plans # <<>>
    /\ plan.deltas = run.deltas
    /\ plan.entry = "domain" => ~run.call
    /\ asked # <<>> => plan.deltas # <<>>

\* Each run begins where the one before it ends.
RunsInOrder ==
  /\ \A r \in 1..Len(runs) : runs[r].from <= Len(log)
  /\ \A r \in 1..(Len(runs) - 1) : runs[r].from <= runs[r + 1].from

\* A revision is of a delta, or of a promotion.
RevisionsNamed ==
  \A n \in 1..Len(log) :
    IsRevision(log[n]) => log[n].cause.index = 0 \/ Names(log[n].cause)

\* The count of a domain plan is in step with replay while it is evaluated.
PriorOfRun ==
  rpc = "plan" /\ plan.entry = "domain" => prior = ReplayedState(log)

\* Before it is decided what to do, nothing is done ...
Undecided ==
  rpc \in {"compiling", "deliberate"} =>
    \A n \in Written(Len(runs)) :
      log[n].type \notin Acting /\ ~Chooses(log[n])

\* ... and what is done follows the last decision.
Decided ==
  rpc \in {"route", "execute", "plan", "tool", "gate", "gateway"}
      /\ run.mode # "plan" =>
    /\ IF Unrecorded(Len(runs)) THEN run.action = OffRecord(Len(runs))
       ELSE \E m \in Written(Len(runs)) :
              LastChoice(Len(runs), m) /\ log[m].action = run.action
    /\ run.deltas # <<>> => run.action # "propose_redirect"
    /\ run.call => run.action = "request_read_tool"

\* The verdicts on the compiler of run r, by position.
Outcomes(r) ==
  {n \in Written(r) : log[n].type = "compiler" /\ log[n].outcome # "requested"}

CompilerHeard ==
  \A r \in 1..Len(runs) :
    runs[r].mode = "compiler" =>
      IF r = Len(runs) /\ rpc = "compiling"
      THEN Outcomes(r) = {}
      ELSE /\ \E m \in Written(r) : Outcomes(r) = {m}
           /\ r = Len(runs) /\ rpc = "deliberate" =>
                \A m \in Outcomes(r) : log[m].outcome = "succeeded"

DeliberationCompiled ==
  \A r \in 1..Len(runs) :
    runs[r].mode = "compiler" =>
      \A n \in Written(r) :
        Chooses(log[n]) =>
          \E m \in Outcomes(r) : m < n /\ log[m].outcome = "succeeded"

RuntimeInvariant ==
  /\ RuntimeTypeOK
  /\ Control
  /\ PlanOfRun
  /\ RunsInOrder
  /\ ReadyToRevise
  /\ RevisionsNamed
  /\ RevisionsJustified
  /\ PriorOfRun
  /\ ChainWhereThreaded
  /\ Undecided
  /\ Decided
  /\ ActionsFollowDeliberation
  /\ CompilerHeard
  /\ DeliberationCompiled

================================================================================
