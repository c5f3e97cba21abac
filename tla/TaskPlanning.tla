----------------------------- MODULE TaskPlanning ------------------------------
(***************************************************************************)
(* From a compiled task to a plan: the deterministic task compiler, one    *)
(* step of deliberation, the deliberation chain, and the planner.          *)
(*                                                                         *)
(* A task is abstracted to what these look at: its kind and risk, whether  *)
(* its objective asks for documentation ("read docs", ...), and whether    *)
(* "observe" is among its requested primitives.                            *)
(***************************************************************************)
EXTENDS Naturals, Sequences, DeltaPolicy

TaskKind == {"analysis", "state_update"}
TaskRisk == {"low", "medium", "high"}
TaskSpec == [kind : TaskKind, risk : TaskRisk, docs : BOOLEAN, observe : BOOLEAN]

\* compile_task: an update token in the input makes a state update of medium
\* risk; the default primitives of both kinds begin with "observe".
CompileTask(updates, docs) ==
  [kind |-> IF updates THEN "state_update" ELSE "analysis",
   risk |-> IF updates THEN "medium" ELSE "low",
   docs |-> docs, observe |-> TRUE]

NextAction ==
  {"propose_plan", "request_read_tool", "request_approval", "propose_redirect", "stop"}
TerminalActions == {"propose_plan", "propose_redirect", "stop"}

NeedsDocsLookup(task) == task.kind = "analysis" /\ task.docs

\* reads: the registry of the run knows the tool "read_docs".
DeliberateNextAction(task, reads) ==
  IF NeedsDocsLookup(task) /\ reads THEN "request_read_tool"
  ELSE IF task.kind = "analysis" /\ task.risk # "low" THEN "propose_redirect"
  ELSE "propose_plan"

MaxChainLength == 5

DeliberateChainStep(task, reads, previous) ==
  LET base == DeliberateNextAction(task, reads)
      repeats == \E n \in 1..Len(previous) : previous[n] = "request_read_tool"
  IN  IF \/ base = "request_read_tool" /\ repeats
         \/ Len(previous) + 1 >= MaxChainLength
      THEN "propose_plan"
      ELSE base

\* The chosen actions, up to the first terminal one or the limit on steps.
DeliberateChain(task, reads, maxSteps) ==
  LET chain[n \in 0..maxSteps] ==
        IF n = 0 THEN <<>>
        ELSE LET previous == chain[n - 1]
             IN  IF previous # <<>> /\ previous[Len(previous)] \in TerminalActions
                 THEN previous
                 ELSE Append(previous, DeliberateChainStep(task, reads, previous))
  IN  chain[maxSteps]

GoalDelta   == [kind |-> "goal_update",   root |-> "goals"]
BeliefDelta == [kind |-> "entity_update", root |-> "beliefs"]
MemoryDelta == [kind |-> "entity_update", root |-> "memory"]
RiskDelta   == [kind |-> "self_update",   root |-> "self_model"]

\* plan_from_task: the objective and the domain of the task are two beliefs.
CandidateDeltas(task, action) ==
  IF action = "propose_redirect" THEN <<>>
  ELSE <<GoalDelta, BeliefDelta, BeliefDelta, MemoryDelta>>
         \o (IF task.risk # "low" THEN <<RiskDelta>> ELSE <<>>)

\* One call of read_docs is proposed, or none.
ProposesReadOnlyCall(task, reads, action) ==
  /\ reads
  /\ action = "request_read_tool"
  /\ task.kind = "analysis"
  /\ task.observe
  /\ task.docs

================================================================================
