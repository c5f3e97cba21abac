------------------------------- MODULE Workflow --------------------------------
(***************************************************************************)
(* The workflow runner: the steps of a workflow in order, each skipped     *)
(* unless its condition is met, else run by the one step executor of the   *)
(* runner, which is either the sandboxed tool executor or deliberation by  *)
(* a language model.  What a step yields becomes variables that later      *)
(* conditions and tool arguments read.  Runs share one event log.          *)
(***************************************************************************)
EXTENDS Conditions, DeltaPolicy

CONSTANTS
  Workflows,  \* the workflows in use, as sequences of steps
  Initials,   \* the variables a caller may pass
  Runners,    \* the configurations of a runner
  Risk,       \* the risk of every tool in use ("unknown": not registered)
  Handlers,   \* the tools that have a handler
  Results,    \* the values a handler may give
  Choices,    \* the actions a model may choose
  Oversized,  \* those of them beyond max_output_size
  Truncated,  \* the text that is left of one of those
  MaxRuns     \* bound on the runs over the log

(***************************************************************************)
(* An input is a literal, or a template "${name}", which is the literal    *)
(* itself as long as there is no such variable.                            *)
(***************************************************************************)
Literal(value) == [template |-> FALSE, name |-> NoName, value |-> value]
Template(name, text) == [template |-> TRUE, name |-> name, value |-> text]

WorkflowStep(id, action, condition, inputs) ==
  [id |-> id, action |-> action, condition |-> condition, inputs |-> inputs]

\* audited: the compiler of the model has the event log, too.
Runner(executor, stop_on_error, fallback, audited) ==
  [executor |-> executor, stop_on_error |-> stop_on_error,
   fallback |-> fallback, audited |-> audited]

\* What a response has to choose from in order to parse.
AllowedActions ==
  {"propose_plan", "request_read_tool", "request_approval", "propose_redirect", "stop"}

ASSUME WorkflowAssumption ==
  /\ \A steps \in Workflows :
       Len(steps) \in Nat /\ DOMAIN steps = 1..Len(steps)
  /\ \A steps \in Workflows : \A n \in DOMAIN steps :
       steps[n].action \in DOMAIN Risk /\ steps[n].condition \in Expressions
  /\ \A tool \in DOMAIN Risk : Risk[tool] \in ToolRisk
  /\ Handlers \subseteq {tool \in DOMAIN Risk : Risk[tool] # "unknown"}
  /\ Oversized \subseteq Results
  /\ Choices \subseteq AllowedActions
  /\ MaxRuns \in Nat

VARIABLES
  log,        \* the event log, oldest entry first
  runs,       \* the runs so far, the current one last
  wpc,        \* where the runner stands
  variables,  \* WorkflowRunner.run: variables
  results,    \* WorkflowRunner.run: step_results
  arguments   \* the arguments the handler was called with

workflowVars == <<log, runs, wpc, variables, results, arguments>>

\* Entries carry the run and the position of the step they are about where the
\* code writes ids, which may repeat.
Event(type, run, step, verdict) ==
  [type |-> type, run |-> run, step |-> step, verdict |-> verdict]

StepResult(id, status, outputs) ==
  [id |-> id, status |-> status, variables |-> outputs]

NoVariables == [name \in {} |-> None]

\* dict.update
Updated(old, new) ==
  [name \in DOMAIN old \cup DOMAIN new |->
     IF name \in DOMAIN new THEN new[name] ELSE old[name]]

This == Len(runs)
Current == runs[This]
Index == Len(results) + 1        \* the loop of run, by position
Step == Current.steps[Index]

\* Append entries about the current step to the log.
Logged(events) ==
  log \o [n \in DOMAIN events |-> Event(events[n][1], This, Index, events[n][2])]

--------------------------------------------------------------------------------
WorkflowInit ==
  /\ log = <<>>
  /\ runs = <<>>
  /\ wpc = "idle"
  /\ variables = NoVariables
  /\ results = <<>>
  /\ arguments = <<>>

\* Defect: the variables are those the runner still has from its last run.
StartRunShares(steps, initial, runner) ==
  /\ wpc = "idle" /\ Len(runs) < MaxRuns
  /\ runs' = Append(runs, [steps |-> steps, initial |-> initial, runner |-> runner,
                           status |-> "running", results |-> <<>>])
  /\ log' = Append(log, Event("workflow.started", This + 1, 0, "none"))
  /\ wpc' = "step"
  /\ variables' = Updated(variables, initial)
  /\ results' = <<>>
  /\ UNCHANGED arguments

\* run, up to its loop.  The variables are a copy of the caller's.
StartRun(steps, initial, runner) ==
  /\ wpc = "idle" /\ Len(runs) < MaxRuns
  /\ runs' = Append(runs, [steps |-> steps, initial |-> initial, runner |-> runner,
                           status |-> "running", results |-> <<>>])
  /\ log' = Append(log, Event("workflow.started", This + 1, 0, "none"))
  /\ wpc' = "step"
  /\ variables' = initial
  /\ results' = <<>>
  /\ UNCHANGED arguments

AtStep == wpc = "step" /\ Index <= Len(Current.steps)

ConditionMet ==
  Step.condition = Absent \/ EvaluateCondition(Step.condition, variables)

SkipStep ==
  /\ AtStep
  /\ ~ConditionMet
  /\ log' = Logged(<<<<"workflow.step.skipped", "condition_not_met">>>>)
  /\ results' = Append(results, StepResult(Step.id, "skipped", NoVariables))
  /\ UNCHANGED <<runs, wpc, variables, arguments>>

Close(status, allResults) ==
  runs' = [runs EXCEPT ![This].status = status, ![This].results = allResults]

\* Defect: the error of a step stops a runner that is not to stop, and the
\* other way round.
SettleStepSwapped(result) ==
  /\ results' = Append(results, result)
  /\ variables' = IF result.status = "succeeded"
                  THEN Updated(variables, result.variables) ELSE variables
  /\ IF result.status = "failed" /\ ~Current.runner.stop_on_error
     THEN wpc' = "idle" /\ Close("failed", results')
     ELSE wpc' = "step" /\ UNCHANGED runs

(***************************************************************************)
(* What run does with the result of an executor.  A runner that stops on   *)
(* errors returns at once, with no event of its own.                       *)
(***************************************************************************)
SettleStep(result) ==
  /\ results' = Append(results, result)
  /\ variables' = IF result.status = "succeeded"
                  THEN Updated(variables, result.variables) ELSE variables
  /\ IF result.status = "failed" /\ Current.runner.stop_on_error
     THEN wpc' = "idle" /\ Close("failed", results')
     ELSE wpc' = "step" /\ UNCHANGED runs

Failed == StepResult(Step.id, "failed", NoVariables)

--------------------------------------------------------------------------------
(***************************************************************************)
(* ToolExecutionStepExecutor over SandboxedToolExecutor.                   *)
(***************************************************************************)
Verdict == EvaluateToolCallPolicy(Risk[Step.action])

AtTool == AtStep /\ ConditionMet /\ Current.runner.executor = "tool"

Evaluated == <<"tool.execution.policy_evaluated", Verdict>>
ToolResult(status) == <<"tool.result", status>>

ToolBlocked ==
  /\ AtTool
  /\ Verdict # "allow"
  /\ log' = Logged(<<Evaluated, ToolResult("failed")>>)
  /\ SettleStep(Failed)
  /\ UNCHANGED arguments

HandlerMissing ==
  /\ AtTool
  /\ Verdict = "allow"
  /\ Step.action \notin Handlers
  /\ log' = Logged(<<Evaluated, ToolResult("failed")>>)
  /\ SettleStep(Failed)
  /\ UNCHANGED arguments

Argument(input) ==
  IF input.template /\ input.name \in DOMAIN variables
  THEN variables[input.name] ELSE input.value

\* Defect: a call that waits for approval goes ahead.
ToolStartsUnapproved ==
  /\ AtTool
  /\ Verdict # "deny"
  /\ Step.action \in Handlers
  /\ log' = Logged(<<Evaluated, <<"tool.execution.started", "none">>>>)
  /\ arguments' = [n \in DOMAIN Step.inputs |-> Argument(Step.inputs[n])]
  /\ wpc' = "handler"
  /\ UNCHANGED <<runs, variables, results>>

ToolStarts ==
  /\ AtTool
  /\ Verdict = "allow"
  /\ Step.action \in Handlers
  /\ log' = Logged(<<Evaluated, <<"tool.execution.started", "none">>>>)
  /\ arguments' = [n \in DOMAIN Step.inputs |-> Argument(Step.inputs[n])]
  /\ wpc' = "handler"
  /\ UNCHANGED <<runs, variables, results>>

Kept(value) == IF value \in Oversized THEN Truncated ELSE value

HandlerSucceeds(value) ==
  /\ wpc = "handler"
  /\ log' = Logged(<<<<"tool.execution.completed", "succeeded">>,
                     ToolResult("succeeded")>>)
  /\ SettleStep(StepResult(Step.id, "succeeded",
                           [name \in {<<Step.id, "result">>} |-> Kept(value)]))
  /\ UNCHANGED arguments

\* The handler raises, which the sandbox catches, or reports a failure.
HandlerFails ==
  /\ wpc = "handler"
  /\ log' = Logged(<<<<"tool.execution.completed", "failed">>, ToolResult("failed")>>)
  /\ SettleStep(Failed)
  /\ UNCHANGED arguments

--------------------------------------------------------------------------------
(***************************************************************************)
(* LLMDeliberationStepExecutor over deliberate_with_llm.  The objective of *)
(* a step is its action, of which the deterministic deliberation makes     *)
(* "propose_plan" (it is low risk and asks for no documentation).          *)
(***************************************************************************)
Place == [propose_plan |-> 1, request_read_tool |-> 2, request_approval |-> 3,
          propose_redirect |-> 4, stop |-> 5]

AskModel ==
  /\ AtStep /\ ConditionMet /\ Current.runner.executor = "llm"
  /\ log' = IF Current.runner.audited
            THEN Logged(<<<<"llm.deliberation.requested", "none">>>>) ELSE log
  /\ wpc' = "asking"
  /\ UNCHANGED <<runs, variables, results, arguments>>

ProviderEvent(outcome) ==
  CASE ~Current.runner.audited \/ outcome = "error" -> <<>>
    [] Current.runner.audited /\ outcome = "RuntimeError" ->
         <<<<"llm.deliberation.failed", "none">>>>
    [] Current.runner.audited /\ outcome = "response" ->
         <<<<"llm.deliberation.succeeded", "none">>>>

\* The three variables a reasoning step yields; it says something (1).
Reasoned(action) ==
  StepResult(Step.id, "succeeded",
             [name \in {<<Step.id, what>> : what \in {"summary", "rationale",
                                                      "chosen_action"}} |->
                IF name[2] = "chosen_action" THEN Text(Place[action]) ELSE Text(1)])

StepSucceeds(outcome, action) ==
  /\ log' = Logged(ProviderEvent(outcome)
                     \o <<<<"workflow.step.completed", "succeeded">>>>)
  /\ SettleStep(Reasoned(action))
  /\ UNCHANGED arguments

ModelAnswers(action) == wpc = "asking" /\ StepSucceeds("response", action)

\* No response, or one that does not parse: a RuntimeError of the provider is
\* recorded, any other is not.  With the fallback, the step succeeds anyway.
ModelFallsBack(outcome) ==
  /\ wpc = "asking" /\ Current.runner.fallback
  /\ StepSucceeds(outcome, "propose_plan")

ModelFails(outcome) ==
  /\ wpc = "asking" /\ ~Current.runner.fallback
  /\ log' = Logged(ProviderEvent(outcome) \o <<<<"workflow.step.failed", "none">>>>)
  /\ SettleStep(Failed)
  /\ UNCHANGED arguments

--------------------------------------------------------------------------------
\* Defect: a run that went on after an error does not complete.
CompleteIfClean ==
  /\ wpc = "step"
  /\ Index > Len(Current.steps)
  /\ \A n \in DOMAIN results : results[n].status # "failed"
  /\ log' = Logged(<<<<"workflow.completed", "succeeded">>>>)
  /\ wpc' = "idle"
  /\ Close("succeeded", results)
  /\ UNCHANGED <<variables, results, arguments>>

Complete ==
  /\ wpc = "step"
  /\ Index > Len(Current.steps)
  /\ log' = Logged(<<<<"workflow.completed", "succeeded">>>>)
  /\ wpc' = "idle"
  /\ Close("succeeded", results)
  /\ UNCHANGED <<variables, results, arguments>>

\* The steps of the runner, and the answers of what it waits for.
WorkflowStepNext ==
  \/ SkipStep
  \/ ToolBlocked
  \/ HandlerMissing
  \/ ToolStarts
  \/ \E value \in Results : HandlerSucceeds(value)
  \/ HandlerFails
  \/ AskModel
  \/ \E action \in Choices : ModelAnswers(action)
  \/ \E outcome \in {"response", "RuntimeError", "error"} :
       ModelFallsBack(outcome) \/ ModelFails(outcome)
  \/ Complete

WorkflowNext ==
  \/ \E steps \in Workflows, initial \in Initials, runner \in Runners :
       StartRun(steps, initial, runner)
  \/ WorkflowStepNext

\* The runner goes on, handlers return and models answer or fail.
WorkflowSpec ==
  /\ WorkflowInit
  /\ [][WorkflowNext]_workflowVars
  /\ WF_workflowVars(WorkflowStepNext)

--------------------------------------------------------------------------------
\* The variables after the first n results of a run, from what it returned.
VariablesAfter(initial, stepResults, n) ==
  LET after[k \in 0..n] ==
        IF k = 0 THEN initial
        ELSE IF stepResults[k].status = "succeeded"
             THEN Updated(after[k - 1], stepResults[k].variables)
             ELSE after[k - 1]
  IN  after[n]

Reproduces(run, stepResults) ==
  \A n \in DOMAIN stepResults :
    LET step == run.steps[n]
    IN  /\ stepResults[n].id = step.id
        /\ stepResults[n].status = "skipped" <=>
             /\ step.condition # Absent
             /\ ~EvaluateCondition(step.condition,
                                   VariablesAfter(run.initial, stepResults, n - 1))

(***************************************************************************)
(* A run depends on nothing but its workflow, the variables it was given   *)
(* and what its own steps yielded: from these and the results it returns,  *)
(* every branch it took, its variables and the arguments of the tool it    *)
(* calls can be found again.  Earlier runs of the runner, and steps that   *)
(* failed or were skipped, leave no trace in them (WorkflowRunner.run).    *)
(***************************************************************************)
BranchesReproducible ==
  /\ \A r \in DOMAIN runs :
       runs[r].status # "running" => Reproduces(runs[r], runs[r].results)
  /\ wpc # "idle" =>
       /\ Reproduces(Current, results)
       /\ variables = VariablesAfter(Current.initial, results, Len(results))
  /\ wpc = "handler" =>
       \A n \in DOMAIN Step.inputs :
         LET input == Step.inputs[n]
             given == VariablesAfter(Current.initial, results, Len(results))
         IN  arguments[n] = IF input.template /\ input.name \in DOMAIN given
                            THEN given[input.name] ELSE input.value

\* The positions of the entries on the n-th step of run r of one of these types.
About(r, n, types) ==
  {k \in DOMAIN log : log[k].run = r /\ log[k].step = n /\ log[k].type \in types}

ToolTypes == {"tool.execution.policy_evaluated", "tool.execution.started",
              "tool.execution.completed", "tool.result"}

\* The results of a run as far as they are known.
ResultsOf(r) == IF r = Len(runs) THEN results ELSE runs[r].results

(***************************************************************************)
(* A step of a workflow is a call like any other: its handler runs only    *)
(* after the policy allowed it on record, for this step of this run (call  *)
(* ids repeat from run to run), and what came of it is on record, together *)
(* with it, before the next step (SandboxedToolExecutor.execute).          *)
(***************************************************************************)
ToolRunsAuthorised ==
  \A r \in DOMAIN runs : \A n \in DOMAIN runs[r].steps :
    LET at == About(r, n, ToolTypes)
        current == r = Len(runs) /\ wpc = "handler" /\ n = Index
    IN  at # {} \/ current =>
          \E k \in at :
            /\ log[k].type = "tool.execution.policy_evaluated"
            /\ IF log[k + 1].type = "tool.execution.started"
               THEN /\ log[k].verdict = "allow"
                    /\ Risk[runs[r].steps[n].action] = "read"
                    /\ IF current THEN at = k..(k + 1)
                       ELSE /\ at = k..(k + 3)
                            /\ log[k + 2].type = "tool.execution.completed"
                            /\ log[k + 3] = [log[k + 2] EXCEPT !.type = "tool.result"]
                            /\ ResultsOf(r)[n].status = log[k + 3].verdict
               ELSE /\ at = k..(k + 1) /\ ~current
                    /\ log[k + 1].type = "tool.result"
                    /\ ResultsOf(r)[n].status = log[k + 1].verdict

Outcomes == {"workflow.step.skipped", "workflow.step.completed",
             "workflow.step.failed", "tool.result"}

(***************************************************************************)
(* What is returned and what is on record agree: a run that stops on errors*)
(* fails exactly if a step failed, which then is its last one; any other   *)
(* returns success, whatever failed, with a result for each step; completed*)
(* is recorded for those only; and every result has its one entry.         *)
(***************************************************************************)
HonestOutcome ==
  \A r \in DOMAIN runs :
    runs[r].status # "running" =>
      LET of == runs[r].results
          failures == {n \in DOMAIN of : of[n].status = "failed"}
          closing == \E n \in DOMAIN log : /\ log[n].run = r
                                           /\ log[n].type = "workflow.completed"
      IN  /\ IF runs[r].runner.stop_on_error /\ failures # {}
             THEN runs[r].status = "failed" /\ failures = {Len(of)}
             ELSE runs[r].status = "succeeded" /\ Len(of) = Len(runs[r].steps)
          /\ closing <=> runs[r].status = "succeeded"
          /\ \A n \in DOMAIN of : \E k \in DOMAIN log : About(r, n, Outcomes) = {k}

\* Every run of a workflow returns.
RunReturns == (wpc # "idle") ~> (wpc = "idle")

================================================================================
