---------------------------- MODULE FrontEndProofs -----------------------------
(***************************************************************************)
(* The two front ends that run tasks.                                      *)
(*                                                                         *)
(* The workflow runner, for all workflows, variables, runners, results of  *)
(* tools and any number of runs over one log: tools run only after they    *)
(* were allowed on record, what a run returns is what the log says of it,  *)
(* and a run can be found again from what it returns.                      *)
(*                                                                         *)
(* The web API, for any clients, requests, commitments, writes that fail   *)
(* and stops of the server: its files are whole and tell one story, and    *)
(* every subscriber hears of the events of a task in order.                *)
(***************************************************************************)
EXTENDS Workflow, WebApi, WellFoundedInduction, SequenceTheorems, FiniteSetTheorems,
        TLAPS

\* The types and verdicts of entries.
EventType ==
  {"workflow.started", "workflow.step.skipped", "workflow.step.completed",
   "workflow.step.failed", "workflow.completed", "tool.execution.policy_evaluated",
   "tool.execution.started", "tool.execution.completed", "tool.result",
   "llm.deliberation.requested", "llm.deliberation.succeeded",
   "llm.deliberation.failed"}

EventVerdict ==
  {"none", "condition_not_met", "deny", "allow", "requires_approval", "succeeded",
   "failed"}

Entry == [type : EventType, run : Nat, step : Nat, verdict : EventVerdict]

\* The ids of steps.
StepIds == UNION {{steps[n].id : n \in DOMAIN steps} : steps \in Workflows}

\* The variables a step yields: none, a tool's or a model's.
Yields ==
  {NoVariables}
    \cup (UNION {[{<<id, "result">>} -> Results \cup {Truncated}] : id \in StepIds})
    \cup (UNION {[{<<id, what>> : what \in {"summary", "rationale", "chosen_action"}}
                    -> {Text(n) : n \in 1..5}] : id \in StepIds})

\* The results of steps, and the records of runs.
StepResults ==
  [id : StepIds, status : {"skipped", "succeeded", "failed"}, variables : Yields]

WorkflowRun ==
  [steps : Workflows, initial : Initials, runner : Runners,
   status : {"running", "succeeded", "failed"}, results : Seq(StepResults)]

\* Types.
WorkflowTypeOK ==
  /\ log \in Seq(Entry)
  /\ runs \in Seq(WorkflowRun)
  /\ wpc \in {"idle", "step", "handler", "asking"}
  /\ results \in Seq(StepResults)

\* What the program counter knows of the current run and its step.
Control ==
  /\ wpc # "idle" => runs # <<>>
  /\ \A r \in DOMAIN runs : runs[r].status = "running" <=> r = This /\ wpc # "idle"
  /\ wpc # "idle" => Len(results) <= Len(Current.steps)
  /\ wpc = "idle" /\ runs # <<>> => results = Current.results
  /\ wpc \in {"handler", "asking"} => Index <= Len(Current.steps) /\ ConditionMet
  /\ wpc = "handler" => Verdict = "allow"

\* The log is about the runs so far; of the current one, about the steps so far.
Placed ==
  \A k \in DOMAIN log :
    /\ log[k].run \in DOMAIN runs
    /\ log[k].run = This /\ wpc # "idle" =>
         /\ log[k].type # "workflow.completed"
         /\ log[k].step <= Index
         /\ log[k].step = Index =>
              \/ wpc = "handler" /\ log[k].type \notin Outcomes
              \/ wpc = "asking" /\ log[k].type \notin Outcomes \cup ToolTypes

\* While a handler runs, the last entry is that it was entered.
HandlerEntered ==
  wpc = "handler" =>
    /\ log # <<>>
    /\ log[Len(log)] = Event("tool.execution.started", This, Index, "none")

\* The current run is as honest so far as it will be when it returns.
HonestSoFar ==
  wpc # "idle" =>
    /\ Current.runner.stop_on_error =>
         \A n \in DOMAIN results : results[n].status # "failed"
    /\ \A n \in DOMAIN results : \E k \in DOMAIN log : About(This, n, Outcomes) = {k}

\* The inductive invariant.
WorkflowInvariant ==
  /\ WorkflowTypeOK
  /\ Control
  /\ Placed
  /\ HandlerEntered
  /\ ToolRunsAuthorised
  /\ HonestSoFar
  /\ HonestOutcome
  /\ BranchesReproducible

--------------------------------------------------------------------------------
(***************************************************************************)
(* What VariablesAfter computes: a recursive function over the results, by *)
(* induction on their number (a least counterexample).                     *)
(***************************************************************************)

\* A set of numbers has a least one.
LEMMA LeastNumber ==
  ASSUME NEW T, T \subseteq Nat, T # {}
  PROVE  \E least \in T : \A m \in T : least <= m
<1>1. PICK x \in T : \A y \in T : ~(<<y, x>> \in OpToRel(<, Nat))
  BY NatLessThanWellFounded, WFMin
<1>2. \A y \in T : ~(y < x)
  BY <1>1 DEF OpToRel
<1>3. \A m \in T : x <= m
  BY <1>2
<1> QED
  BY <1>3

\* The variables after one more result.
After(before, result) ==
  IF result.status = "succeeded" THEN Updated(before, result.variables) ELSE before

\* f is that function for n results.
Follows(f, initial, stepResults, n) ==
  f = [k \in 0..n |-> IF k = 0 THEN initial ELSE After(f[k - 1], stepResults[k])]

\* There is such a function for any number of results.
LEMMA FollowsExists ==
  ASSUME NEW initial, NEW stepResults, NEW n \in Nat
  PROVE  \E f : Follows(f, initial, stepResults, n)
<1> DEFINE None_(k) == \A f : ~Follows(f, initial, stepResults, k)
           T == {k \in Nat : None_(k)}
<1> SUFFICES ASSUME T # {}
             PROVE  FALSE
  OBVIOUS
<1>1. PICK least \in T : \A m \in T : least <= m
  <2> HIDE DEF None_
  <2> QED
    BY LeastNumber
<1>2. CASE least = 0
  <2> DEFINE f == [k \in 0..0 |-> initial]
  <2>1. Follows(f, initial, stepResults, 0)
    BY DEF Follows
  <2> QED
    BY <1>2, <2>1
<1>3. CASE least # 0
  <2>1. least - 1 \in Nat /\ least - 1 \notin T
    BY <1>1, <1>3
  <2>2. PICK f : Follows(f, initial, stepResults, least - 1)
    BY <2>1
  <2> DEFINE last == After(f[least - 1], stepResults[least])
             g == [k \in 0..least |-> IF k = least THEN last ELSE f[k]]
  <2>3. \A k \in 0..(least - 1) :
          f[k] = IF k = 0 THEN initial ELSE After(f[k - 1], stepResults[k])
    BY <2>2 DEF Follows
  <2>4. \A k \in 0..least :
          g[k] = IF k = 0 THEN initial ELSE After(g[k - 1], stepResults[k])
    <3> TAKE k \in 0..least
    <3>1. CASE k = least
      <4>1. least - 1 \in 0..least /\ least - 1 # least
        BY <1>3, <2>1
      <4>2. g[least - 1] = f[least - 1]
        BY <4>1
      <4> QED
        BY <1>3, <3>1, <4>2
    <3>2. CASE k # least
      <4>1. k \in 0..(least - 1) /\ g[k] = f[k]
        BY <3>2
      <4>2. k # 0 => k - 1 \in 0..least /\ k - 1 # least
        BY <4>1
      <4>3. k # 0 => g[k - 1] = f[k - 1]
        BY <4>2
      <4> QED
        BY <2>3, <4>1, <4>3
    <3> QED
      BY <3>1, <3>2
  <2>5. Follows(g, initial, stepResults, least)
    <3> DEFINE h == [k \in 0..least |->
                      IF k = 0 THEN initial ELSE After(g[k - 1], stepResults[k])]
    <3>1. g = h
      BY <2>4
    <3> QED
      BY <3>1 DEF Follows
  <2> QED
    BY <1>1, <2>5
<1> QED
  BY <1>2, <1>3

\* It is determined by the results it is about.
LEMMA FollowsAgree ==
  ASSUME NEW initial, NEW some, NEW others, NEW n \in Nat, NEW m \in Nat, n <= m,
         \A k \in 1..n : some[k] = others[k],
         NEW f, Follows(f, initial, some, n),
         NEW g, Follows(g, initial, others, m)
  PROVE  \A k \in 0..n : f[k] = g[k]
<1> DEFINE T == {k \in 0..n : f[k] # g[k]}
<1> SUFFICES ASSUME T # {}
             PROVE  FALSE
  OBVIOUS
<1>1. PICK least \in T : \A k \in T : least <= k
  <2>1. T \subseteq Nat
    OBVIOUS
  <2> HIDE DEF T
  <2> QED
    BY <2>1, LeastNumber
<1>2. /\ f[least] = IF least = 0 THEN initial ELSE After(f[least - 1], some[least])
      /\ g[least] = IF least = 0 THEN initial ELSE After(g[least - 1], others[least])
  BY <1>1 DEF Follows
<1>3. least # 0 /\ least - 1 \in 0..n
  BY <1>1, <1>2
<1>4. f[least - 1] = g[least - 1] /\ some[least] = others[least]
  BY <1>1, <1>3
<1> QED
  BY <1>1, <1>2, <1>3, <1>4

\* The recursive definition has a value, and that is the one.
LEMMA VariablesAfterFollows ==
  ASSUME NEW initial, NEW stepResults, NEW n \in Nat
  PROVE  \E f : /\ Follows(f, initial, stepResults, n)
                /\ VariablesAfter(initial, stepResults, n) = f[n]
<1> DEFINE c == CHOOSE f : Follows(f, initial, stepResults, n)
<1>1. Follows(c, initial, stepResults, n)
  BY FollowsExists
<1>2. VariablesAfter(initial, stepResults, n) = c[n]
  BY DEF VariablesAfter, Follows, After
<1> QED
  BY <1>1, <1>2

\* Before the first result the variables are those the run was given.
LEMMA VariablesAtFirst ==
  ASSUME NEW initial, NEW stepResults
  PROVE  VariablesAfter(initial, stepResults, 0) = initial
<1>1. PICK f : /\ Follows(f, initial, stepResults, 0)
               /\ VariablesAfter(initial, stepResults, 0) = f[0]
  BY VariablesAfterFollows
<1> QED
  BY <1>1 DEF Follows

\* The variables after n results do not depend on later ones.
LEMMA VariablesOfPrefix ==
  ASSUME NEW initial, NEW some, NEW others, NEW n \in Nat,
         \A k \in 1..n : some[k] = others[k]
  PROVE  VariablesAfter(initial, some, n) = VariablesAfter(initial, others, n)
<1>1. PICK f : /\ Follows(f, initial, some, n)
               /\ VariablesAfter(initial, some, n) = f[n]
  BY VariablesAfterFollows
<1>2. PICK g : /\ Follows(g, initial, others, n)
               /\ VariablesAfter(initial, others, n) = g[n]
  BY VariablesAfterFollows
<1>3. \A k \in 0..n : f[k] = g[k]
  BY <1>1, <1>2, FollowsAgree
<1> QED
  BY <1>1, <1>2, <1>3

\* A result changes the variables if its step succeeded.
LEMMA VariablesAfterNext ==
  ASSUME NEW initial, NEW stepResults, NEW n \in Nat \ {0}
  PROVE  VariablesAfter(initial, stepResults, n)
           = After(VariablesAfter(initial, stepResults, n - 1), stepResults[n])
<1>1. PICK f : /\ Follows(f, initial, stepResults, n)
               /\ VariablesAfter(initial, stepResults, n) = f[n]
  BY VariablesAfterFollows
<1>2. PICK g : /\ Follows(g, initial, stepResults, n - 1)
               /\ VariablesAfter(initial, stepResults, n - 1) = g[n - 1]
  BY VariablesAfterFollows
<1>3. g[n - 1] = f[n - 1]
  BY <1>1, <1>2, FollowsAgree
<1>4. f[n] = After(f[n - 1], stepResults[n])
  BY <1>1 DEF Follows
<1> QED
  BY <1>1, <1>2, <1>3, <1>4

--------------------------------------------------------------------------------
(***************************************************************************)
(* What a step does: it settles with a result, it enters a handler or asks *)
(* a model, or the run completes; each with what it records.               *)
(***************************************************************************)

\* The step records these entries, all about itself.
Records(entries) ==
  /\ entries \in Seq(Entry)
  /\ log' = log \o entries
  /\ \A m \in DOMAIN entries : entries[m].run = This /\ entries[m].step = Index

\* What is on record of a tool whose step settles with this result.
Reports(entries, result) ==
  \/ /\ wpc = "handler"
     /\ Len(entries) = 2
     /\ entries[1].type = "tool.execution.completed"
     /\ entries[2] = [entries[1] EXCEPT !.type = "tool.result"]
     /\ result.status = entries[2].verdict
  \/ /\ wpc = "step"
     /\ Len(entries) = 2
     /\ entries[1].type = "tool.execution.policy_evaluated"
     /\ entries[2].type = "tool.result"
     /\ result.status = entries[2].verdict
  \/ /\ wpc \in {"step", "asking"}
     /\ \A m \in DOMAIN entries : entries[m].type \notin ToolTypes

\* The step is over, with this result.
Settles(entries, result) ==
  /\ wpc # "idle"
  /\ Index <= Len(Current.steps)
  /\ Records(entries)
  /\ \A m \in DOMAIN entries : entries[m].type # "workflow.completed"
  /\ \E one \in DOMAIN entries : \A m \in DOMAIN entries :
       entries[m].type \in Outcomes <=> m = one
  /\ Reports(entries, result)
  /\ result \in StepResults
  /\ result.id = Step.id
  /\ result.status = "skipped" <=> ~ConditionMet
  /\ results' = Append(results, result)
  /\ variables' = After(variables, result)
  /\ IF result.status = "failed" /\ Current.runner.stop_on_error
     THEN wpc' = "idle" /\ Close("failed", results')
     ELSE wpc' = "step" /\ UNCHANGED runs

\* The runner waits, for a handler or for a model.
Enters(entries) ==
  /\ wpc = "step"
  /\ Index <= Len(Current.steps)
  /\ ConditionMet
  /\ Records(entries)
  /\ UNCHANGED <<runs, variables, results>>
  /\ \/ /\ wpc' = "handler"
        /\ Verdict = "allow"
        /\ Len(entries) = 2
        /\ entries[1] = Event("tool.execution.policy_evaluated", This, Index, "allow")
        /\ entries[2] = Event("tool.execution.started", This, Index, "none")
        /\ arguments' = [n \in DOMAIN Step.inputs |-> Argument(Step.inputs[n])]
     \/ /\ wpc' = "asking"
        /\ \A m \in DOMAIN entries : entries[m].type = "llm.deliberation.requested"

\* The run is over.
Completes(entries) ==
  /\ wpc = "step"
  /\ Index > Len(Current.steps)
  /\ Records(entries)
  /\ Len(entries) = 1
  /\ entries[1].type = "workflow.completed"
  /\ wpc' = "idle"
  /\ Close("succeeded", results)
  /\ UNCHANGED <<variables, results>>

\* The entries of a step, as a sequence.
LEMMA LoggedEntries ==
  ASSUME WorkflowTypeOK, Control, wpc # "idle",
         NEW a \in EventType, NEW v \in EventVerdict,
         NEW b \in EventType, NEW w \in EventVerdict
  PROVE  /\ Logged(<<>>) = log \o <<>>
         /\ Logged(<<<<a, v>>>>) = log \o <<Event(a, This, Index, v)>>
         /\ Logged(<<<<a, v>>, <<b, w>>>>)
              = log \o <<Event(a, This, Index, v), Event(b, This, Index, w)>>
         /\ <<>> \in Seq(Entry)
         /\ <<Event(a, This, Index, v)>> \in Seq(Entry)
         /\ <<Event(a, This, Index, v), Event(b, This, Index, w)>> \in Seq(Entry)
<1>1. This \in Nat /\ Index \in Nat
  BY DEF WorkflowTypeOK, This, Index
<1>2. \A t \in EventType, u \in EventVerdict : Event(t, This, Index, u) \in Entry
  BY <1>1 DEF Event, Entry
<1>3. Logged(<<>>) = log \o <<>>
  <2> DEFINE d == [n \in DOMAIN <<>> |-> Event(<<>>[n][1], This, Index, <<>>[n][2])]
  <2>1. d = <<>>
    OBVIOUS
  <2> QED
    BY <2>1 DEF Logged
<1>4. Logged(<<<<a, v>>>>) = log \o <<Event(a, This, Index, v)>>
  <2> DEFINE t == <<<<a, v>>>>
             d == [n \in DOMAIN t |-> Event(t[n][1], This, Index, t[n][2])]
             e == <<Event(a, This, Index, v)>>
  <2>1. DOMAIN t = 1..1 /\ t[1][1] = a /\ t[1][2] = v
    OBVIOUS
  <2>2. d \in Seq(Entry) /\ Len(d) = 1 /\ d[1] = Event(a, This, Index, v)
    BY <1>2, <2>1
  <2>3. e \in Seq(Entry) /\ Len(e) = 1 /\ e[1] = Event(a, This, Index, v)
    BY <1>2
  <2>4. d = e
    <3> HIDE DEF d, e
    <3> QED
      BY <2>2, <2>3, SeqEqual
  <2> QED
    BY <2>4 DEF Logged
<1>5. Logged(<<<<a, v>>, <<b, w>>>>)
        = log \o <<Event(a, This, Index, v), Event(b, This, Index, w)>>
  <2> DEFINE t == <<<<a, v>>, <<b, w>>>>
             d == [n \in DOMAIN t |-> Event(t[n][1], This, Index, t[n][2])]
             e == <<Event(a, This, Index, v), Event(b, This, Index, w)>>
  <2>1. DOMAIN t = 1..2 /\ t[1][1] = a /\ t[1][2] = v /\ t[2][1] = b /\ t[2][2] = w
    OBVIOUS
  <2>2. /\ d \in Seq(Entry) /\ Len(d) = 2
        /\ d[1] = Event(a, This, Index, v) /\ d[2] = Event(b, This, Index, w)
    BY <1>2, <2>1
  <2>3. /\ e \in Seq(Entry) /\ Len(e) = 2
        /\ e[1] = Event(a, This, Index, v) /\ e[2] = Event(b, This, Index, w)
    BY <1>2
  <2>4. d = e
    <3> HIDE DEF d, e
    <3> QED
      BY <2>2, <2>3, SeqEqual
  <2> QED
    BY <2>4 DEF Logged
<1>6. /\ <<>> \in Seq(Entry)
      /\ <<Event(a, This, Index, v)>> \in Seq(Entry)
      /\ <<Event(a, This, Index, v), Event(b, This, Index, w)>> \in Seq(Entry)
  <2>1. Event(a, This, Index, v) \in Entry /\ Event(b, This, Index, w) \in Entry
    BY <1>2
  <2> QED
    BY <2>1
<1> QED
  BY <1>3, <1>4, <1>5, <1>6

\* The one entry of a step, as a sequence.
LEMMA LoggedOne ==
  ASSUME WorkflowTypeOK, Control, wpc # "idle",
         NEW a \in EventType, NEW v \in EventVerdict
  PROVE  /\ Logged(<<<<a, v>>>>) = log \o <<Event(a, This, Index, v)>>
         /\ <<Event(a, This, Index, v)>> \in Seq(Entry)
  BY LoggedEntries

\* The current run and its step are what their types say.
LEMMA CurrentStep ==
  ASSUME WorkflowTypeOK, Control, wpc # "idle"
  PROVE  /\ This \in DOMAIN runs
         /\ Current \in WorkflowRun
         /\ Len(Current.steps) \in Nat /\ DOMAIN Current.steps = 1..Len(Current.steps)
         /\ Index \in Nat \ {0} /\ Len(results) \in Nat
         /\ Index <= Len(Current.steps) =>
              Index \in DOMAIN Current.steps /\ Step.id \in StepIds
<1>1. This \in DOMAIN runs /\ Current \in WorkflowRun
  BY DEF WorkflowTypeOK, Control, This, Current
<1>2. Current.steps \in Workflows
  BY <1>1 DEF WorkflowRun
<1>3. Len(Current.steps) \in Nat /\ DOMAIN Current.steps = 1..Len(Current.steps)
  BY <1>2, WorkflowAssumption
<1>4. Index \in Nat \ {0} /\ Len(results) \in Nat
  BY DEF WorkflowTypeOK, Index
<1>5. Index <= Len(Current.steps) => Index \in DOMAIN Current.steps
  BY <1>3, <1>4
<1> QED
  BY <1>1, <1>2, <1>3, <1>4, <1>5 DEF StepIds, Step

\* The results a step may have.
LEMMA ResultTypes ==
  ASSUME WorkflowTypeOK, Control, wpc # "idle", Index <= Len(Current.steps)
  PROVE  /\ \A status \in {"skipped", "failed"} :
              StepResult(Step.id, status, NoVariables) \in StepResults
         /\ \A value \in Results :
              StepResult(Step.id, "succeeded",
                         [name \in {<<Step.id, "result">>} |-> Kept(value)])
                \in StepResults
         /\ \A action \in AllowedActions : Reasoned(action) \in StepResults
         /\ Verdict \in {"deny", "allow", "requires_approval"}
<1>1. /\ Step.id \in StepIds
      /\ Index \in DOMAIN Current.steps /\ Current.steps \in Workflows
  BY CurrentStep DEF WorkflowRun
<1>2. \A status \in {"skipped", "failed"} :
        StepResult(Step.id, status, NoVariables) \in StepResults
  BY <1>1 DEF StepResult, StepResults, Yields
<1>3. ASSUME NEW value \in Results
      PROVE  StepResult(Step.id, "succeeded",
                        [name \in {<<Step.id, "result">>} |-> Kept(value)])
               \in StepResults
  <2> DEFINE y == [name \in {<<Step.id, "result">>} |-> Kept(value)]
  <2>1. Kept(value) \in Results \cup {Truncated}
    BY DEF Kept
  <2>2. y \in [{<<Step.id, "result">>} -> Results \cup {Truncated}]
    BY <2>1
  <2> HIDE DEF y
  <2>3. y \in Yields
    BY <1>1, <2>2 DEF Yields
  <2>4. StepResult(Step.id, "succeeded", y) \in StepResults
    BY <1>1, <2>3 DEF StepResult, StepResults
  <2> QED
    BY <2>4 DEF y
<1>4. ASSUME NEW action \in AllowedActions
      PROVE  Reasoned(action) \in StepResults
  <2> DEFINE names == {<<Step.id, what>> : what \in {"summary", "rationale",
                                                     "chosen_action"}}
             y == [name \in names |-> IF name[2] = "chosen_action"
                                      THEN Text(Place[action]) ELSE Text(1)]
  <2>1. Place[action] \in 1..5
    BY DEF Place, AllowedActions
  <2>2. \A name \in names :
          (IF name[2] = "chosen_action" THEN Text(Place[action]) ELSE Text(1))
            \in {Text(n) : n \in 1..5}
    BY <2>1
  <2>3. y \in [names -> {Text(n) : n \in 1..5}]
    BY <2>2
  <2> HIDE DEF y
  <2>4. y \in Yields
    <3>1. [names -> {Text(n) : n \in 1..5}]
            \in {[{<<id, what>> : what \in {"summary", "rationale", "chosen_action"}}
                    -> {Text(n) : n \in 1..5}] : id \in StepIds}
      BY <1>1
    <3> QED
      BY <2>3, <3>1 DEF Yields
  <2>5. StepResult(Step.id, "succeeded", y) \in StepResults
    BY <1>1, <2>4 DEF StepResult, StepResults
  <2> QED
    BY <2>5 DEF y, Reasoned
<1>5. Verdict \in {"deny", "allow", "requires_approval"}
  <2>1. Step.action \in DOMAIN Risk
    BY <1>1, WorkflowAssumption DEF Step
  <2>2. Risk[Step.action] \in ToolRisk
    BY <2>1, WorkflowAssumption
  <2> QED
    BY <2>2 DEF Verdict, EvaluateToolCallPolicy, ToolRisk
<1> QED
  BY <1>2, <1>3, <1>4, <1>5

\* A step whose condition is not met is skipped.
LEMMA SkipSettles ==
  ASSUME WorkflowTypeOK, Control, SkipStep
  PROVE  \E entries, result : Settles(entries, result)
<1> DEFINE e == Event("workflow.step.skipped", This, Index, "condition_not_met")
           entries == <<e>>
           result == StepResult(Step.id, "skipped", NoVariables)
<1>1. wpc = "step" /\ Index <= Len(Current.steps)
  BY DEF SkipStep, AtStep
<1>2. entries \in Seq(Entry) /\ log' = log \o entries
  <2>1. /\ Logged(<<<<"workflow.step.skipped", "condition_not_met">>>>) = log \o entries
        /\ entries \in Seq(Entry)
    BY <1>1, LoggedOne DEF EventType, EventVerdict
  <2> QED
    BY <2>1 DEF SkipStep
<1>3. /\ Len(entries) = 1 /\ DOMAIN entries = 1..1 /\ entries[1] = e
      /\ e.type = "workflow.step.skipped" /\ e.run = This /\ e.step = Index
  BY DEF Event
<1>4. /\ result \in StepResults /\ result.id = Step.id /\ result.status = "skipped"
  BY <1>1, ResultTypes DEF StepResult
<1> HIDE DEF entries, e
<1>5. \E one \in DOMAIN entries : \A m \in DOMAIN entries :
        entries[m].type \in Outcomes <=> m = one
  BY <1>3 DEF Outcomes
<1>6. Records(entries) /\ Reports(entries, result)
  BY <1>1, <1>2, <1>3 DEF Records, Reports, ToolTypes
<1>7. results' = Append(results, result)
  BY DEF SkipStep
<1> HIDE DEF result
<1>8. variables' = After(variables, result) /\ wpc' = "step" /\ UNCHANGED runs
  BY <1>1, <1>4 DEF SkipStep, After
<1>9. ~ConditionMet /\ \A m \in DOMAIN entries : entries[m].type # "workflow.completed"
  BY <1>3 DEF SkipStep
<1>10. Settles(entries, result)
  BY <1>1, <1>4, <1>5, <1>6, <1>7, <1>8, <1>9 DEF Settles
<1> QED
  BY <1>10

\* What SettleStep does with a result is what Settles says of it.
LEMMA SettleStepSettles ==
  ASSUME WorkflowTypeOK, Control, wpc # "idle", Index <= Len(Current.steps),
         ConditionMet, NEW entries, NEW result,
         result \in StepResults, result.id = Step.id, result.status # "skipped",
         SettleStep(result), Records(entries), Reports(entries, result),
         \A m \in DOMAIN entries : entries[m].type # "workflow.completed",
         \E one \in DOMAIN entries : \A m \in DOMAIN entries :
           entries[m].type \in Outcomes <=> m = one
  PROVE  Settles(entries, result)
<1>1. variables' = After(variables, result) /\ results' = Append(results, result)
  BY DEF SettleStep, After
<1>2. IF result.status = "failed" /\ Current.runner.stop_on_error
      THEN wpc' = "idle" /\ Close("failed", results')
      ELSE wpc' = "step" /\ UNCHANGED runs
  BY DEF SettleStep
<1> QED
  BY <1>1, <1>2 DEF Settles

\* A step that records two entries, the second of them its outcome.
LEMMA PairSettles ==
  ASSUME WorkflowTypeOK, Control, wpc # "idle", Index <= Len(Current.steps),
         ConditionMet, NEW result \in StepResults,
         result.id = Step.id, result.status # "skipped", SettleStep(result),
         NEW a \in EventType, NEW v \in EventVerdict,
         NEW b \in EventType, NEW w \in EventVerdict,
         log' = Logged(<<<<a, v>>, <<b, w>>>>),
         a \notin Outcomes, b \in Outcomes, a # "workflow.completed",
         \/ /\ wpc = "handler"
            /\ a = "tool.execution.completed" /\ b = "tool.result"
            /\ v = w /\ result.status = w
         \/ /\ wpc = "step"
            /\ a = "tool.execution.policy_evaluated" /\ b = "tool.result"
            /\ result.status = w
         \/ wpc = "asking" /\ a \notin ToolTypes /\ b \notin ToolTypes
  PROVE  \E entries : Settles(entries, result)
<1> DEFINE e == Event(a, This, Index, v)
           f == Event(b, This, Index, w)
           entries == <<e, f>>
<1>1. entries \in Seq(Entry) /\ log' = log \o entries
  BY LoggedEntries
<1>2. /\ Len(entries) = 2 /\ DOMAIN entries = 1..2 /\ entries[1] = e /\ entries[2] = f
      /\ e.type = a /\ e.run = This /\ e.step = Index /\ e.verdict = v
      /\ f.type = b /\ f.run = This /\ f.step = Index /\ f.verdict = w
  BY DEF Event
<1>3. v = w => f = [e EXCEPT !.type = b]
  BY DEF Event
<1> HIDE DEF entries, e, f
<1>4. \A m \in DOMAIN entries : m = 1 \/ m = 2
  BY <1>2
<1>5. Records(entries)
  BY <1>1, <1>2, <1>4 DEF Records
<1>6. Reports(entries, result)
  BY <1>2, <1>3, <1>4 DEF Reports
<1>7. \E one \in DOMAIN entries : \A m \in DOMAIN entries :
        entries[m].type \in Outcomes <=> m = one
  BY <1>2, <1>4
<1>8. \A m \in DOMAIN entries : entries[m].type # "workflow.completed"
  BY <1>2, <1>4 DEF Outcomes
<1> QED
  BY <1>5, <1>6, <1>7, <1>8, SettleStepSettles

\* A model's step that records its outcome only.
LEMMA SingleSettles ==
  ASSUME WorkflowTypeOK, Control, wpc = "asking", Index <= Len(Current.steps),
         ConditionMet, NEW result \in StepResults,
         result.id = Step.id, result.status # "skipped", SettleStep(result),
         NEW a \in EventType, NEW v \in EventVerdict, log' = Logged(<<<<a, v>>>>),
         a \in Outcomes \ ToolTypes
  PROVE  \E entries : Settles(entries, result)
<1> DEFINE e == Event(a, This, Index, v)
           entries == <<e>>
<1>1. entries \in Seq(Entry) /\ log' = log \o entries
  BY LoggedOne
<1>2. /\ Len(entries) = 1 /\ DOMAIN entries = 1..1 /\ entries[1] = e
      /\ e.type = a /\ e.run = This /\ e.step = Index
  BY DEF Event
<1> HIDE DEF entries, e
<1> \A m \in DOMAIN entries : m = 1
  BY <1>2
<1>3. Records(entries) /\ Reports(entries, result)
  BY <1>1, <1>2 DEF Records, Reports
<1>4. \E one \in DOMAIN entries : \A m \in DOMAIN entries :
        entries[m].type \in Outcomes <=> m = one
  BY <1>2
<1>5. \A m \in DOMAIN entries : entries[m].type # "workflow.completed"
  BY <1>2 DEF Outcomes
<1> QED
  BY <1>3, <1>4, <1>5, SettleStepSettles

\* The entries of tools, by type.
LEMMA ToolEvents ==
  /\ \A a \in ToolTypes : a \in EventType /\ a # "workflow.completed"
  /\ "tool.result" \in Outcomes \cap ToolTypes
  /\ "tool.execution.completed" \in ToolTypes \ Outcomes
  /\ "tool.execution.policy_evaluated" \in ToolTypes \ Outcomes
  /\ "tool.execution.started" \in ToolTypes \ Outcomes
  /\ {"none", "failed", "succeeded"} \subseteq EventVerdict
  BY DEF EventType, EventVerdict, Outcomes, ToolTypes

\* The tool executor: blocked, without a handler, or by what the handler says.
LEMMA ToolSettles ==
  ASSUME WorkflowTypeOK, Control,
         \/ ToolBlocked \/ HandlerMissing
         \/ (\E value \in Results : HandlerSucceeds(value)) \/ HandlerFails
  PROVE  \E entries, result : Settles(entries, result)
<1>1. wpc # "idle" /\ Index <= Len(Current.steps) /\ ConditionMet
  BY DEF ToolBlocked, HandlerMissing, HandlerSucceeds, HandlerFails, AtTool, AtStep,
         Control
<1>2. /\ Failed \in StepResults /\ Failed.id = Step.id /\ Failed.status = "failed"
      /\ Verdict \in EventVerdict
  BY <1>1, ResultTypes DEF Failed, StepResult, EventVerdict
<1>3. CASE ToolBlocked \/ HandlerMissing
  <2>1. /\ wpc = "step" /\ SettleStep(Failed)
        /\ log' = Logged(<<<<"tool.execution.policy_evaluated", Verdict>>,
                           <<"tool.result", "failed">>>>)
    BY <1>3 DEF ToolBlocked, HandlerMissing, AtTool, AtStep, Evaluated, ToolResult
  <2>2. \E entries : Settles(entries, Failed)
    BY <1>1, <1>2, <2>1, PairSettles, ToolEvents
  <2> QED
    BY <2>2
<1>4. CASE HandlerFails
  <2>1. /\ wpc = "handler" /\ SettleStep(Failed)
        /\ log' = Logged(<<<<"tool.execution.completed", "failed">>,
                           <<"tool.result", "failed">>>>)
    BY <1>4 DEF HandlerFails, ToolResult
  <2>2. \E entries : Settles(entries, Failed)
    BY <1>1, <1>2, <2>1, PairSettles, ToolEvents
  <2> QED
    BY <2>2
<1>5. CASE \E value \in Results : HandlerSucceeds(value)
  <2>1. PICK value \in Results : HandlerSucceeds(value)
    BY <1>5
  <2> DEFINE y == [name \in {<<Step.id, "result">>} |-> Kept(value)]
             result == StepResult(Step.id, "succeeded", y)
  <2>2. /\ wpc = "handler" /\ SettleStep(result)
        /\ log' = Logged(<<<<"tool.execution.completed", "succeeded">>,
                           <<"tool.result", "succeeded">>>>)
    BY <2>1 DEF HandlerSucceeds, ToolResult
  <2>3. result \in StepResults /\ result.id = Step.id /\ result.status = "succeeded"
    BY <1>1, ResultTypes DEF StepResult
  <2> HIDE DEF result
  <2>4. \E entries : Settles(entries, result)
    BY <1>1, <2>2, <2>3, PairSettles, ToolEvents
  <2> QED
    BY <2>4
<1> QED
  BY <1>3, <1>4, <1>5

\* Two sequences of one element.
LEMMA JoinedPair ==
  ASSUME NEW x, NEW y
  PROVE  <<x>> \o <<y>> = <<x, y>>
<1> DEFINE s == <<x>> \o <<y>>
           p == <<x, y>>
<1>1. /\ s \in Seq({x, y}) /\ Len(s) = 2 /\ s[1] = x /\ s[2] = y
      /\ p \in Seq({x, y}) /\ Len(p) = 2 /\ p[1] = x /\ p[2] = y
  OBVIOUS
<1>2. \A m \in 1..Len(s) : s[m] = p[m]
  BY <1>1
<1> HIDE DEF s, p
<1>3. s = p
  BY <1>1, <1>2, SeqEqual
<1> QED
  BY <1>3 DEF s, p

\* A model's step: what is recorded of the request, if it is, and the outcome.
LEMMA ProviderSettles ==
  ASSUME WorkflowTypeOK, Control, wpc = "asking",
         NEW outcome \in {"response", "RuntimeError", "error"},
         NEW a \in EventType, NEW v \in EventVerdict, a \in Outcomes \ ToolTypes,
         log' = Logged(ProviderEvent(outcome) \o <<<<a, v>>>>),
         NEW result \in StepResults, result.id = Step.id, result.status # "skipped",
         SettleStep(result)
  PROVE  \E entries : Settles(entries, result)
<1>1. Index <= Len(Current.steps) /\ ConditionMet
  BY DEF Control
<1> DEFINE t == <<a, v>>
<1>2. ProviderEvent(outcome) \in
        {<<>>, <<<<"llm.deliberation.failed", "none">>>>,
         <<<<"llm.deliberation.succeeded", "none">>>>}
  <2>1. Current.runner.audited \/ ~Current.runner.audited
    OBVIOUS
  <2> QED
    BY <2>1 DEF ProviderEvent
<1>3. CASE ProviderEvent(outcome) = <<>>
  <2>1. <<>> \o <<t>> = <<t>>
    OBVIOUS
  <2>2. log' = Logged(<<t>>)
    BY <1>3, <2>1
  <2> QED
    BY <1>1, <2>2, SingleSettles
<1>4. ASSUME NEW p \in {"llm.deliberation.failed", "llm.deliberation.succeeded"},
             ProviderEvent(outcome) = <<<<p, "none">>>>
      PROVE  \E entries : Settles(entries, result)
  <2> DEFINE r == <<p, "none">>
  <2>1. <<r>> \o <<t>> = <<r, t>>
    BY JoinedPair
  <2>2. log' = Logged(<<r, t>>)
    BY <1>4, <2>1
  <2>3. p \in EventType /\ p \notin Outcomes /\ p # "workflow.completed"
        /\ p \notin ToolTypes /\ "none" \in EventVerdict
    BY <1>4 DEF EventType, EventVerdict, Outcomes, ToolTypes
  <2> QED
    BY <1>1, <2>2, <2>3, PairSettles
<1> QED
  BY <1>2, <1>3, <1>4

\* The executor by a model: an answer, the fallback, or a failure.
LEMMA ModelSettles ==
  ASSUME WorkflowTypeOK, Control,
         \/ \E action \in Choices : ModelAnswers(action)
         \/ \E outcome \in {"response", "RuntimeError", "error"} :
              ModelFallsBack(outcome) \/ ModelFails(outcome)
  PROVE  \E entries, result : Settles(entries, result)
<1>1. wpc = "asking" /\ Index <= Len(Current.steps)
  BY DEF ModelAnswers, ModelFallsBack, ModelFails, Control
<1>2. ASSUME NEW outcome \in {"response", "RuntimeError", "error"},
             NEW action \in AllowedActions, StepSucceeds(outcome, action)
      PROVE  \E entries : Settles(entries, Reasoned(action))
  <2>1. /\ Reasoned(action) \in StepResults /\ Reasoned(action).id = Step.id
        /\ Reasoned(action).status = "succeeded"
    BY <1>1, ResultTypes DEF Reasoned, StepResult
  <2>2. /\ SettleStep(Reasoned(action))
        /\ log' = Logged(ProviderEvent(outcome)
                           \o <<<<"workflow.step.completed", "succeeded">>>>)
    BY <1>2 DEF StepSucceeds
  <2> QED
    BY <1>1, <2>1, <2>2, ProviderSettles
       DEF EventType, EventVerdict, Outcomes, ToolTypes
<1>3. ASSUME NEW outcome \in {"response", "RuntimeError", "error"}, ModelFails(outcome)
      PROVE  \E entries : Settles(entries, Failed)
  <2>1. Failed \in StepResults /\ Failed.id = Step.id /\ Failed.status = "failed"
    BY <1>1, ResultTypes DEF Failed, StepResult
  <2>2. /\ SettleStep(Failed)
        /\ log' = Logged(ProviderEvent(outcome)
                           \o <<<<"workflow.step.failed", "none">>>>)
    BY <1>3 DEF ModelFails
  <2> QED
    BY <1>1, <2>1, <2>2, ProviderSettles
       DEF EventType, EventVerdict, Outcomes, ToolTypes
<1>4. Choices \subseteq AllowedActions /\ "propose_plan" \in AllowedActions
  BY WorkflowAssumption DEF AllowedActions
<1> QED
  BY <1>2, <1>3, <1>4 DEF ModelAnswers, ModelFallsBack

\* A handler is entered, or a model asked.
LEMMA StepEnters ==
  ASSUME WorkflowTypeOK, Control, ToolStarts \/ AskModel
  PROVE  \E entries : Enters(entries)
<1>1. wpc = "step" /\ Index <= Len(Current.steps) /\ ConditionMet
  BY DEF ToolStarts, AskModel, AtTool, AtStep
<1>2. CASE ToolStarts
  <2> DEFINE e == Event("tool.execution.policy_evaluated", This, Index, "allow")
             f == Event("tool.execution.started", This, Index, "none")
             entries == <<e, f>>
  <2>1. log' = Logged(<<<<"tool.execution.policy_evaluated", "allow">>,
                        <<"tool.execution.started", "none">>>>)
    BY <1>2 DEF ToolStarts, Evaluated
  <2>2. /\ entries \in Seq(Entry)
        /\ Logged(<<<<"tool.execution.policy_evaluated", "allow">>,
                    <<"tool.execution.started", "none">>>>) = log \o entries
    BY <1>1, LoggedEntries DEF EventType, EventVerdict
  <2>3. Len(entries) = 2 /\ DOMAIN entries = 1..2 /\ entries[1] = e /\ entries[2] = f
    OBVIOUS
  <2>4. e.run = This /\ e.step = Index /\ f.run = This /\ f.step = Index
    BY DEF Event
  <2>5. /\ wpc' = "handler" /\ Verdict = "allow"
        /\ UNCHANGED <<runs, variables, results>>
        /\ arguments' = [n \in DOMAIN Step.inputs |-> Argument(Step.inputs[n])]
    BY <1>2 DEF ToolStarts
  <2>6. \A m \in DOMAIN entries : m = 1 \/ m = 2
    <3>1. DOMAIN entries = 1..2
      BY <2>3
    <3> HIDE DEF entries
    <3> QED
      BY <3>1
  <2> HIDE DEF entries
  <2>7. Records(entries)
    <3> HIDE DEF e, f
    <3> QED
      BY <2>1, <2>2, <2>3, <2>4, <2>6 DEF Records
  <2>8. Enters(entries)
    BY <1>1, <2>3, <2>5, <2>7 DEF Enters
  <2> QED
    BY <2>8
<1>3. CASE AskModel
  <2>1. wpc' = "asking" /\ UNCHANGED <<runs, variables, results>>
    BY <1>3 DEF AskModel
  <2>2. CASE ~Current.runner.audited
    <3>1. Records(<<>>)
      <4>1. log \o <<>> = log /\ <<>> \in Seq(Entry) /\ DOMAIN <<>> = {}
        BY DEF WorkflowTypeOK
      <4> QED
        BY <1>3, <2>2, <4>1 DEF Records, AskModel
    <3>2. Enters(<<>>)
      BY <1>1, <2>1, <3>1 DEF Enters
    <3> QED
      BY <3>2
  <2>3. CASE Current.runner.audited
    <3> DEFINE e == Event("llm.deliberation.requested", This, Index, "none")
               entries == <<e>>
    <3>1. log' = Logged(<<<<"llm.deliberation.requested", "none">>>>)
      BY <1>3, <2>3 DEF AskModel
    <3>2. /\ entries \in Seq(Entry)
          /\ Logged(<<<<"llm.deliberation.requested", "none">>>>) = log \o entries
      BY <1>1, LoggedOne DEF EventType, EventVerdict
    <3>3. DOMAIN entries = 1..1 /\ entries[1] = e
      OBVIOUS
    <3>4. e.type = "llm.deliberation.requested" /\ e.run = This /\ e.step = Index
      BY DEF Event
    <3> HIDE DEF entries, e
    <3>5. \A m \in DOMAIN entries : entries[m] = e
      BY <3>3
    <3>6. Records(entries)
      BY <3>1, <3>2, <3>4, <3>5 DEF Records
    <3>7. Enters(entries)
      BY <1>1, <2>1, <3>4, <3>5, <3>6 DEF Enters
    <3> QED
      BY <3>7
  <2> QED
    BY <2>2, <2>3
<1> QED
  BY <1>2, <1>3

\* The last step is done.
LEMMA RunCompletes ==
  ASSUME WorkflowTypeOK, Control, Complete
  PROVE  \E entries : Completes(entries)
<1> DEFINE e == Event("workflow.completed", This, Index, "succeeded")
           entries == <<e>>
<1>1. wpc = "step" /\ Index > Len(Current.steps)
  BY DEF Complete
<1>2. log' = Logged(<<<<"workflow.completed", "succeeded">>>>)
  BY DEF Complete
<1>3. /\ entries \in Seq(Entry)
      /\ Logged(<<<<"workflow.completed", "succeeded">>>>) = log \o entries
  BY <1>1, LoggedOne DEF EventType, EventVerdict
<1>4. Len(entries) = 1 /\ DOMAIN entries = 1..1 /\ entries[1] = e
  OBVIOUS
<1>5. e.type = "workflow.completed" /\ e.run = This /\ e.step = Index
  BY DEF Event
<1> HIDE DEF entries, e
<1>6. \A m \in DOMAIN entries : entries[m] = e
  BY <1>4
<1>7. Records(entries)
  BY <1>2, <1>3, <1>5, <1>6 DEF Records
<1>8. wpc' = "idle" /\ Close("succeeded", results) /\ UNCHANGED <<variables, results>>
  BY DEF Complete
<1>9. Completes(entries)
  BY <1>1, <1>4, <1>5, <1>7, <1>8 DEF Completes
<1> QED
  BY <1>9

\* A step of the runner is one of the three.
LEMMA StepKinds ==
  ASSUME WorkflowTypeOK, Control, WorkflowStepNext
  PROVE  \/ \E entries, result : Settles(entries, result)
         \/ \E entries : Enters(entries)
         \/ \E entries : Completes(entries)
<1>1. CASE SkipStep
  BY <1>1, SkipSettles
<1>2. CASE \/ ToolBlocked \/ HandlerMissing
           \/ (\E value \in Results : HandlerSucceeds(value)) \/ HandlerFails
  BY <1>2, ToolSettles
<1>3. CASE \/ \E action \in Choices : ModelAnswers(action)
           \/ \E outcome \in {"response", "RuntimeError", "error"} :
                ModelFallsBack(outcome) \/ ModelFails(outcome)
  BY <1>3, ModelSettles
<1>4. CASE ToolStarts \/ AskModel
  BY <1>4, StepEnters
<1>5. CASE Complete
  BY <1>5, RunCompletes
<1> QED
  BY <1>1, <1>2, <1>3, <1>4, <1>5 DEF WorkflowStepNext

\* What a step records is behind what was recorded before.
LEMMA RecordsPlaces ==
  ASSUME WorkflowTypeOK, NEW entries, Records(entries)
  PROVE  /\ log' \in Seq(Entry)
         /\ Len(log) \in Nat /\ Len(entries) \in Nat
         /\ DOMAIN log = 1..Len(log) /\ DOMAIN entries = 1..Len(entries)
         /\ Len(log') = Len(log) + Len(entries)
         /\ DOMAIN log' = 1..(Len(log) + Len(entries))
         /\ \A k \in DOMAIN log : log'[k] = log[k]
         /\ \A m \in DOMAIN entries :
              Len(log) + m \in DOMAIN log' /\ log'[Len(log) + m] = entries[m]
         /\ \A k \in DOMAIN log' \ DOMAIN log :
              k - Len(log) \in DOMAIN entries /\ log'[k] = entries[k - Len(log)]
<1>1. log \in Seq(Entry) /\ entries \in Seq(Entry) /\ log' = log \o entries
  BY DEF WorkflowTypeOK, Records
<1>2. /\ log' \in Seq(Entry) /\ Len(log') = Len(log) + Len(entries)
      /\ \A k \in DOMAIN log : log'[k] = log[k]
  BY <1>1
<1>3. \A m \in 1..Len(entries) : log'[Len(log) + m] = entries[m]
  BY <1>1
<1>4. /\ Len(log) \in Nat /\ Len(entries) \in Nat /\ DOMAIN log = 1..Len(log)
      /\ DOMAIN entries = 1..Len(entries) /\ DOMAIN log' = 1..(Len(log) + Len(entries))
  BY <1>1, <1>2
<1> QED
  BY <1>2, <1>3, <1>4

--------------------------------------------------------------------------------
(***************************************************************************)
(* Types, and what the program counter knows (WorkflowTypeOK, Control).    *)
(***************************************************************************)

\* A run that returns gets its status and its results, and keeps the rest.
LEMMA CloseKeeps ==
  ASSUME WorkflowTypeOK, Control, wpc # "idle",
         NEW status \in {"succeeded", "failed"}, NEW all \in Seq(StepResults),
         Close(status, all)
  PROVE  /\ runs' \in Seq(WorkflowRun) /\ DOMAIN runs' = DOMAIN runs /\ This' = This
         /\ \A r \in DOMAIN runs : r # This => runs'[r] = runs[r]
         /\ Current'.status = status /\ Current'.results = all
         /\ Current'.steps = Current.steps /\ Current'.initial = Current.initial
         /\ Current'.runner = Current.runner
<1>1. runs \in Seq(WorkflowRun) /\ This \in DOMAIN runs /\ Current \in WorkflowRun
  BY CurrentStep DEF WorkflowTypeOK
<1> DEFINE closed == [Current EXCEPT !.status = status, !.results = all]
<1>2. runs' = [runs EXCEPT ![This] = closed]
  BY DEF Close, Current
<1>3. closed \in WorkflowRun
  BY <1>1 DEF WorkflowRun
<1>4. /\ closed.status = status /\ closed.results = all /\ closed.steps = Current.steps
      /\ closed.initial = Current.initial /\ closed.runner = Current.runner
  BY <1>1 DEF WorkflowRun
<1> HIDE DEF closed
<1>5. runs' \in Seq(WorkflowRun) /\ Len(runs') = Len(runs) /\ DOMAIN runs' = DOMAIN runs
  BY <1>1, <1>2, <1>3
<1>6. /\ runs'[This] = closed
      /\ \A r \in DOMAIN runs : r # This => runs'[r] = runs[r]
  BY <1>1, <1>2
<1>7. This' = This
  BY <1>5 DEF This
<1>8. Current' = closed
  BY <1>6, <1>7 DEF Current
<1> QED
  BY <1>4, <1>5, <1>6, <1>7, <1>8

\* What the runs are after a step that settles.
LEMMA SettlesRuns ==
  ASSUME WorkflowTypeOK, Control, NEW entries, NEW result, Settles(entries, result)
  PROVE  /\ runs' \in Seq(WorkflowRun) /\ DOMAIN runs' = DOMAIN runs /\ This' = This
         /\ \A r \in DOMAIN runs : r # This => runs'[r] = runs[r]
         /\ Current'.steps = Current.steps /\ Current'.initial = Current.initial
         /\ Current'.runner = Current.runner
         /\ results' \in Seq(StepResults) /\ Len(results') = Index /\ Index' = Index + 1
         /\ results'[Index] = result
         /\ \A n \in DOMAIN results : results'[n] = results[n]
         /\ DOMAIN results' = 1..Index
         /\ wpc' = "idle" =>
              Current'.status = "failed" /\ Current'.results = results'
         /\ wpc' # "idle" => Current' = Current
<1>1. results \in Seq(StepResults) /\ result \in StepResults
      /\ results' = Append(results, result)
  BY DEF WorkflowTypeOK, Settles
<1>2. /\ results' \in Seq(StepResults) /\ Len(results') = Len(results) + 1
      /\ results'[Len(results) + 1] = result /\ Len(results) \in Nat
      /\ \A n \in DOMAIN results : results'[n] = results[n]
  BY <1>1
<1>3. /\ Len(results') = Index /\ Index' = Index + 1 /\ results'[Index] = result
      /\ DOMAIN results' = 1..Index
  BY <1>2 DEF Index
<1>4. CASE UNCHANGED runs /\ wpc' = "step"
  BY <1>2, <1>3, <1>4 DEF WorkflowTypeOK, This, Current
<1>5. CASE Close("failed", results') /\ wpc' = "idle"
  BY <1>2, <1>3, <1>5, CloseKeeps DEF Settles
<1> QED
  BY <1>4, <1>5 DEF Settles

\* A step that settles leaves the types and the program counter in order.
LEMMA SettlesKeeps ==
  ASSUME WorkflowTypeOK, Control, NEW entries, NEW result, Settles(entries, result)
  PROVE  WorkflowTypeOK' /\ Control'
<1>1. log' \in Seq(Entry)
  BY RecordsPlaces DEF Settles
<1>2. WorkflowTypeOK'
  BY <1>1, SettlesRuns DEF WorkflowTypeOK, Settles
<1>3. wpc # "idle" /\ wpc' \in {"idle", "step"} /\ Index <= Len(Current.steps)
  BY DEF Settles
<1>4. This \in DOMAIN runs /\ This' = This /\ DOMAIN runs' = DOMAIN runs
  BY <1>3, CurrentStep, SettlesRuns
<1>5. runs' # <<>>
  BY <1>4
<1>6. ASSUME NEW r \in DOMAIN runs'
      PROVE  runs'[r].status = "running" <=> r = This' /\ wpc' # "idle"
  <2>1. CASE r # This
    BY <1>4, <2>1, SettlesRuns DEF Control
  <2>2. CASE r = This /\ wpc' = "idle"
    BY <1>4, <2>2, SettlesRuns DEF Current
  <2>3. CASE r = This /\ wpc' # "idle"
    <3>1. Current' = Current
      BY <2>3, SettlesRuns
    <3>2. Current.status = "running"
      BY <1>3, <1>4 DEF Control, Current
    <3> QED
      BY <1>4, <2>3, <3>1, <3>2 DEF Current
  <2> QED
    BY <2>1, <2>2, <2>3
<1>7. wpc' # "idle" => Len(results') <= Len(Current'.steps)
  BY <1>3, SettlesRuns
<1>8. wpc' = "idle" => results' = Current'.results
  BY SettlesRuns
<1> QED
  BY <1>2, <1>3, <1>5, <1>6, <1>7, <1>8 DEF Control

\* So does entering a handler, or asking a model ...
LEMMA EntersKeeps ==
  ASSUME WorkflowTypeOK, Control, NEW entries, Enters(entries)
  PROVE  /\ WorkflowTypeOK' /\ Control'
         /\ This' = This /\ Index' = Index /\ Current' = Current /\ Step' = Step
<1>1. /\ wpc = "step" /\ wpc' \in {"handler", "asking"}
      /\ UNCHANGED <<runs, variables, results>>
      /\ Index <= Len(Current.steps) /\ ConditionMet
      /\ wpc' = "handler" => Verdict = "allow"
  BY DEF Enters
<1>2. /\ This' = This /\ Index' = Index /\ Current' = Current /\ Step' = Step
      /\ ConditionMet' = ConditionMet /\ Verdict' = Verdict
  BY <1>1 DEF This, Index, Current, Step, ConditionMet, Verdict
<1>3. log' \in Seq(Entry)
  BY RecordsPlaces DEF Enters
<1>4. WorkflowTypeOK'
  BY <1>1, <1>3 DEF WorkflowTypeOK
<1>5. Control'
  BY <1>1, <1>2 DEF Control
<1> QED
  BY <1>2, <1>4, <1>5

\* ... and the end of a run.
LEMMA CompletesKeeps ==
  ASSUME WorkflowTypeOK, Control, NEW entries, Completes(entries)
  PROVE  WorkflowTypeOK' /\ Control'
<1>1. /\ wpc = "step" /\ wpc' = "idle" /\ UNCHANGED results
      /\ Close("succeeded", results) /\ results \in Seq(StepResults)
  BY DEF Completes, WorkflowTypeOK
<1>2. log' \in Seq(Entry)
  BY RecordsPlaces DEF Completes
<1>3. WorkflowTypeOK'
  BY <1>1, <1>2, CloseKeeps DEF WorkflowTypeOK
<1>4. ASSUME NEW r \in DOMAIN runs'
      PROVE  runs'[r].status # "running"
  <2>1. CASE r # This
    BY <1>1, <2>1, CloseKeeps DEF Control
  <2>2. CASE r = This
    BY <1>1, <2>2, CloseKeeps DEF Current
  <2> QED
    BY <2>1, <2>2
<1>5. results' = Current'.results
  BY <1>1, CloseKeeps
<1> QED
  BY <1>1, <1>3, <1>4, <1>5 DEF Control

\* The sequence with one more at its end.
LEMMA LastAppended ==
  ASSUME NEW S, NEW s \in Seq(S), NEW e \in S
  PROVE  /\ Append(s, e) \in Seq(S) /\ Len(Append(s, e)) = Len(s) + 1
         /\ DOMAIN Append(s, e) = 1..(Len(s) + 1) /\ Append(s, e)[Len(s) + 1] = e
         /\ \A n \in DOMAIN s : Append(s, e)[n] = s[n] /\ n # Len(s) + 1
  OBVIOUS

\* A run that begins is the last one.
LEMMA StartRunBegins ==
  ASSUME WorkflowTypeOK, Control, NEW steps \in Workflows, NEW initial \in Initials,
         NEW runner \in Runners, StartRun(steps, initial, runner)
  PROVE  /\ WorkflowTypeOK' /\ Control'
         /\ wpc = "idle" /\ wpc' = "step" /\ variables' = initial /\ results' = <<>>
         /\ Len(runs) \in Nat /\ This' = Len(runs) + 1 /\ DOMAIN runs' = 1..This'
         /\ \A r \in DOMAIN runs : runs'[r] = runs[r] /\ r # This'
         /\ Current'.steps = steps /\ Current'.initial = initial
         /\ Len(log) \in Nat /\ Len(log') = Len(log) + 1
         /\ DOMAIN log' = 1..(Len(log) + 1)
         /\ \A k \in DOMAIN log : log'[k] = log[k]
         /\ log'[Len(log) + 1] = Event("workflow.started", This', 0, "none")
<1> DEFINE new == [steps |-> steps, initial |-> initial, runner |-> runner,
                   status |-> "running", results |-> <<>>]
           e == Event("workflow.started", This + 1, 0, "none")
<1>1. /\ wpc = "idle" /\ wpc' = "step" /\ variables' = initial /\ results' = <<>>
      /\ runs' = Append(runs, new) /\ log' = Append(log, e)
  BY DEF StartRun
<1>2. /\ new \in WorkflowRun /\ new.steps = steps /\ new.initial = initial
      /\ new.status = "running"
  <2>1. <<>> \in Seq(StepResults)
    OBVIOUS
  <2> QED
    BY <2>1 DEF WorkflowRun
<1>3. /\ This \in Nat /\ This = Len(runs)
      /\ runs \in Seq(WorkflowRun) /\ log \in Seq(Entry)
  BY DEF WorkflowTypeOK, This
<1>4. e \in Entry
  <2>1. This + 1 \in Nat
    BY <1>3
  <2> QED
    BY <2>1 DEF Event, Entry, EventType, EventVerdict
<1> HIDE DEF new, e
<1>5. /\ runs' \in Seq(WorkflowRun) /\ Len(runs') = Len(runs) + 1
      /\ DOMAIN runs' = 1..(Len(runs) + 1) /\ runs'[Len(runs) + 1] = new
      /\ \A r \in DOMAIN runs : runs'[r] = runs[r] /\ r # Len(runs) + 1
  BY <1>1, <1>2, <1>3, LastAppended
<1>6. This' = Len(runs) + 1
  BY <1>5 DEF This
<1>7. Current' = new
  BY <1>5, <1>6 DEF Current
<1>8. e = Event("workflow.started", This', 0, "none")
  BY <1>3, <1>6 DEF e
<1>9. /\ log' \in Seq(Entry) /\ Len(log) \in Nat /\ Len(log') = Len(log) + 1
      /\ DOMAIN log' = 1..(Len(log) + 1) /\ log'[Len(log) + 1] = e
      /\ \A k \in DOMAIN log : log'[k] = log[k]
  BY <1>1, <1>3, <1>4, LastAppended
<1>10. results' \in Seq(StepResults) /\ Len(results') = 0
  BY <1>1
<1>11. WorkflowTypeOK'
  BY <1>1, <1>5, <1>9, <1>10 DEF WorkflowTypeOK
<1>12. ASSUME NEW r \in DOMAIN runs'
       PROVE  runs'[r].status = "running" <=> r = This'
  <2>1. CASE r = This'
    BY <1>2, <1>5, <1>6, <2>1
  <2>2. CASE r # This'
    <3>1. r \in DOMAIN runs
      BY <1>3, <1>5, <1>6, <2>2
    <3> QED
      BY <1>1, <1>5, <2>2, <3>1 DEF Control
  <2> QED
    BY <2>1, <2>2
<1>13. runs' # <<>> /\ Len(steps) \in Nat
  BY <1>5, WorkflowAssumption
<1>14. Control'
  BY <1>1, <1>2, <1>7, <1>10, <1>12, <1>13 DEF Control
<1> QED
  BY <1>1, <1>2, <1>3, <1>5, <1>6, <1>7, <1>8, <1>9, <1>11, <1>14

--------------------------------------------------------------------------------
(***************************************************************************)
(* Positions: what was recorded stays where it is, and what is new is about*)
(* the current step (Placed, HandlerEntered).                              *)
(***************************************************************************)

\* The entries about a step are those it had, and those of the step itself.
LEMMA AboutGrows ==
  ASSUME WorkflowTypeOK, NEW entries, Records(entries), NEW r, NEW n, NEW types
  PROVE  About(r, n, types)'
           = About(r, n, types)
               \cup {Len(log) + m : m \in {m \in DOMAIN entries :
                                             /\ r = This /\ n = Index
                                             /\ entries[m].type \in types}}
<1> DEFINE new == {m \in DOMAIN entries : /\ r = This /\ n = Index
                                          /\ entries[m].type \in types}
<1>1. /\ \A k \in DOMAIN log : k \in DOMAIN log' /\ log'[k] = log[k]
      /\ \A m \in DOMAIN entries :
           Len(log) + m \in DOMAIN log' /\ log'[Len(log) + m] = entries[m]
      /\ \A k \in DOMAIN log' \ DOMAIN log :
           k - Len(log) \in DOMAIN entries /\ log'[k] = entries[k - Len(log)]
      /\ \A k \in DOMAIN log' : k \in Nat
      /\ Len(log) \in Nat
  BY RecordsPlaces
<1>2. \A m \in DOMAIN entries : entries[m].run = This /\ entries[m].step = Index
  BY DEF Records
<1>3. ASSUME NEW k \in About(r, n, types)'
      PROVE  k \in About(r, n, types) \cup {Len(log) + m : m \in new}
  <2>1. /\ k \in DOMAIN log'
        /\ log'[k].run = r /\ log'[k].step = n /\ log'[k].type \in types
    BY <1>3 DEF About
  <2>2. CASE k \in DOMAIN log
    BY <1>1, <2>1, <2>2 DEF About
  <2>3. CASE k \notin DOMAIN log
    <3>1. k - Len(log) \in DOMAIN entries /\ log'[k] = entries[k - Len(log)]
      BY <1>1, <2>1, <2>3
    <3>2. k - Len(log) \in new
      BY <1>2, <2>1, <3>1
    <3>3. k = Len(log) + (k - Len(log))
      BY <1>1, <2>1
    <3> QED
      BY <3>2, <3>3
  <2> QED
    BY <2>2, <2>3
<1>4. ASSUME NEW k \in About(r, n, types)
      PROVE  k \in About(r, n, types)'
  BY <1>1, <1>4 DEF About
<1>5. ASSUME NEW m \in new
      PROVE  Len(log) + m \in About(r, n, types)'
  BY <1>1, <1>2, <1>5 DEF About
<1> QED
  BY <1>3, <1>4, <1>5

\* Nothing is on record of a step before it is entered.
LEMMA NothingAbout ==
  ASSUME Placed, wpc \in {"step", "asking"}, NEW r, r = This, NEW n, n = Index,
         NEW types, types \subseteq Outcomes \cup ToolTypes
  PROVE  About(r, n, types) = {}
  BY DEF Placed, About

\* What a step records is about the current run, which is one of the runs.
LEMMA PlacedStep ==
  ASSUME WorkflowTypeOK, Control, Placed, WorkflowStepNext
  PROVE  Placed'
<1>1. ASSUME NEW entries, Records(entries), This \in DOMAIN runs,
             DOMAIN runs' = DOMAIN runs, This' = This,
             wpc' # "idle" =>
               /\ wpc # "idle"
               /\ \A m \in DOMAIN entries : entries[m].type # "workflow.completed"
               /\ \/ wpc' = "step" /\ Index' = Index + 1 /\ Index \in Nat
                  \/ /\ wpc = "step" /\ Index' = Index /\ Index \in Nat
                     /\ \A m \in DOMAIN entries :
                          \/ wpc' = "handler" /\ entries[m].type \notin Outcomes
                          \/ /\ wpc' = "asking"
                             /\ entries[m].type \notin Outcomes \cup ToolTypes
      PROVE  Placed'
  <2> SUFFICES ASSUME NEW k \in DOMAIN log'
               PROVE  /\ log'[k].run \in DOMAIN runs
                      /\ log'[k].run = This /\ wpc' # "idle" =>
                           /\ log'[k].type # "workflow.completed"
                           /\ log'[k].step <= Index'
                           /\ log'[k].step = Index' =>
                                \/ wpc' = "handler" /\ log'[k].type \notin Outcomes
                                \/ /\ wpc' = "asking"
                                   /\ log'[k].type \notin Outcomes \cup ToolTypes
    BY <1>1 DEF Placed, Outcomes, ToolTypes
  <2>1. CASE k \in DOMAIN log
    <3>1. log'[k] = log[k]
      BY <1>1, <2>1, RecordsPlaces
    <3>2. log[k] \in Entry
      BY <2>1 DEF WorkflowTypeOK
    <3>3. log[k].step \in Nat
      BY <3>2 DEF Entry
    <3> QED
      BY <1>1, <2>1, <3>1, <3>3 DEF Placed
  <2>2. CASE k \notin DOMAIN log
    <3>1. PICK m \in DOMAIN entries : log'[k] = entries[m]
      BY <1>1, <2>2, RecordsPlaces
    <3>2. entries[m].run = This /\ entries[m].step = Index
      BY <1>1 DEF Records
    <3> QED
      BY <1>1, <3>1, <3>2
  <2> QED
    BY <2>1, <2>2
<1>2. ASSUME NEW entries, NEW result, Settles(entries, result)
      PROVE  Placed'
  <2>1. wpc # "idle" /\ Records(entries) /\ wpc' \in {"idle", "step"}
    BY <1>2 DEF Settles
  <2>2. \A m \in DOMAIN entries : entries[m].type # "workflow.completed"
    BY <1>2 DEF Settles
  <2>3. DOMAIN runs' = DOMAIN runs /\ This' = This /\ Index' = Index + 1
    BY <1>2, SettlesRuns
  <2>4. This \in DOMAIN runs /\ Index \in Nat
    BY <2>1, CurrentStep
  <2> QED
    BY <1>1, <2>1, <2>2, <2>3, <2>4
<1>3. ASSUME NEW entries, Enters(entries)
      PROVE  Placed'
  <2>1. wpc = "step" /\ Records(entries) /\ UNCHANGED runs
    BY <1>3 DEF Enters
  <2>2. This' = This /\ Index' = Index
    BY <1>3, EntersKeeps
  <2>3. This \in DOMAIN runs /\ Index \in Nat
    BY <2>1, CurrentStep
  <2>4. CASE wpc' = "handler"
    <3>1. \A m \in DOMAIN entries :
            entries[m].type \in {"tool.execution.policy_evaluated",
                                 "tool.execution.started"}
      <4>1. /\ Len(entries) = 2 /\ entries \in Seq(Entry)
            /\ entries[1] =
                 Event("tool.execution.policy_evaluated", This, Index, "allow")
            /\ entries[2] = Event("tool.execution.started", This, Index, "none")
        BY <1>3, <2>4 DEF Enters, Records
      <4>2. /\ entries[1].type = "tool.execution.policy_evaluated"
            /\ entries[2].type = "tool.execution.started"
        BY <4>1 DEF Event
      <4>3. \A m \in DOMAIN entries : m = 1 \/ m = 2
        BY <4>1
      <4> QED
        BY <4>2, <4>3
    <3> QED
      BY <1>1, <2>1, <2>2, <2>3, <2>4, <3>1 DEF Outcomes
  <2>5. CASE wpc' = "asking"
    <3>1. \A m \in DOMAIN entries : entries[m].type = "llm.deliberation.requested"
      BY <1>3, <2>5 DEF Enters
    <3> QED
      BY <1>1, <2>1, <2>2, <2>3, <2>5, <3>1 DEF Outcomes, ToolTypes
  <2> QED
    BY <1>3, <2>4, <2>5 DEF Enters
<1>4. ASSUME NEW entries, Completes(entries)
      PROVE  Placed'
  <2>1. /\ wpc # "idle" /\ wpc' = "idle" /\ Records(entries)
        /\ Close("succeeded", results) /\ results \in Seq(StepResults)
    BY <1>4 DEF Completes, WorkflowTypeOK
  <2>2. DOMAIN runs' = DOMAIN runs /\ This' = This /\ This \in DOMAIN runs
    BY <2>1, CloseKeeps, CurrentStep
  <2> QED
    BY <1>1, <2>1, <2>2
<1> QED
  BY <1>2, <1>3, <1>4, StepKinds

\* A run that begins has one entry, which is about no step.
LEMMA PlacedStart ==
  ASSUME WorkflowTypeOK, Control, Placed, NEW steps \in Workflows,
         NEW initial \in Initials, NEW runner \in Runners,
         StartRun(steps, initial, runner)
  PROVE  Placed'
<1>1. /\ wpc' = "step" /\ results' = <<>> /\ Len(log) \in Nat /\ Len(runs) \in Nat
      /\ This' = Len(runs) + 1 /\ DOMAIN runs' = 1..This'
      /\ DOMAIN log' = 1..(Len(log) + 1)
      /\ \A k \in DOMAIN log : log'[k] = log[k]
      /\ log'[Len(log) + 1] = Event("workflow.started", This', 0, "none")
  BY StartRunBegins
<1>2. Index' = 1
  BY <1>1 DEF Index
<1>3. DOMAIN log = 1..Len(log) /\ DOMAIN runs = 1..Len(runs)
  BY DEF WorkflowTypeOK
<1>4. ASSUME NEW k \in DOMAIN log'
      PROVE  /\ log'[k].run \in DOMAIN runs'
             /\ log'[k].run = This' =>
                  log'[k].type = "workflow.started" /\ log'[k].step = 0
  <2>1. CASE k \in DOMAIN log
    BY <1>1, <1>3, <2>1 DEF Placed
  <2>2. CASE k = Len(log) + 1
    BY <1>1, <2>2 DEF Event
  <2> QED
    BY <1>1, <1>3, <2>1, <2>2
<1> QED
  BY <1>1, <1>2, <1>4 DEF Placed

\* A handler is entered with its entry as the last one.
LEMMA HandlerEnteredStep ==
  ASSUME WorkflowTypeOK, Control, WorkflowStepNext
  PROVE  HandlerEntered'
<1> SUFFICES ASSUME wpc' = "handler"
             PROVE  /\ log' # <<>>
                    /\ log'[Len(log')] =
                         Event("tool.execution.started", This', Index', "none")
  BY DEF HandlerEntered
<1>1. PICK entries : Enters(entries)
  BY StepKinds DEF Settles, Completes
<1>2. /\ Records(entries) /\ Len(entries) = 2
      /\ entries[2] = Event("tool.execution.started", This, Index, "none")
  BY <1>1 DEF Enters
<1>3. 2 \in DOMAIN entries
  BY <1>2, RecordsPlaces
<1>4. /\ Len(log') = Len(log) + 2 /\ log'[Len(log) + 2] = entries[2]
      /\ log' \in Seq(Entry) /\ Len(log) \in Nat
  BY <1>2, <1>3, RecordsPlaces
<1> QED
  BY <1>1, <1>2, <1>4, EntersKeeps

--------------------------------------------------------------------------------
(***************************************************************************)
(* Tools run only after they were allowed (ToolRunsAuthorised).            *)
(***************************************************************************)

\* The handler of this step runs.
Handling(r, n) == r = Len(runs) /\ wpc = "handler" /\ n = Index

\* What is on record from position k of a tool whose handler ran.
RanFrom(r, n, k) ==
  /\ log[k + 1].type = "tool.execution.started"
  /\ log[k].verdict = "allow"
  /\ Risk[runs[r].steps[n].action] = "read"
  /\ IF Handling(r, n) THEN About(r, n, ToolTypes) = k..(k + 1)
     ELSE /\ About(r, n, ToolTypes) = k..(k + 3)
          /\ log[k + 2].type = "tool.execution.completed"
          /\ log[k + 3] = [log[k + 2] EXCEPT !.type = "tool.result"]
          /\ ResultsOf(r)[n].status = log[k + 3].verdict

\* The same, of a handler that did not run.
RefusedFrom(r, n, k) ==
  /\ ~Handling(r, n)
  /\ About(r, n, ToolTypes) = k..(k + 1)
  /\ log[k + 1].type = "tool.result"
  /\ ResultsOf(r)[n].status = log[k + 1].verdict

\* What ToolRunsAuthorised says of a step.
Authorised(r, n) ==
  About(r, n, ToolTypes) # {} \/ Handling(r, n) =>
    \E k \in About(r, n, ToolTypes) :
      /\ log[k].type = "tool.execution.policy_evaluated"
      /\ RanFrom(r, n, k) \/ RefusedFrom(r, n, k)

\* The property, step by step.
LEMMA AuthorisedSteps ==
  ToolRunsAuthorised
    <=> \A r \in DOMAIN runs : \A n \in DOMAIN runs[r].steps : Authorised(r, n)
<1>1. ASSUME NEW r \in DOMAIN runs, NEW n \in DOMAIN runs[r].steps, NEW k
      PROVE  (log[k + 1].type = "tool.execution.started" \/
              log[k + 1].type # "tool.execution.started")
  OBVIOUS
<1> QED
  BY DEF ToolRunsAuthorised, Authorised, Handling, RanFrom, RefusedFrom

\* What is on record of a step is not touched by another step.
LEMMA AuthorisedKept ==
  ASSUME WorkflowTypeOK, NEW r, NEW n, Authorised(r, n),
         About(r, n, ToolTypes)' = About(r, n, ToolTypes),
         \A k \in DOMAIN log : log'[k] = log[k],
         runs'[r].steps = runs[r].steps,
         About(r, n, ToolTypes) # {} => ResultsOf(r)'[n] = ResultsOf(r)[n],
         ~Handling(r, n), ~Handling(r, n)'
  PROVE  Authorised(r, n)'
<1> SUFFICES ASSUME About(r, n, ToolTypes) # {}
             PROVE  \E k \in About(r, n, ToolTypes)' :
                      /\ log'[k].type = "tool.execution.policy_evaluated"
                      /\ RanFrom(r, n, k)' \/ RefusedFrom(r, n, k)'
  BY DEF Authorised
<1>1. PICK k \in About(r, n, ToolTypes) :
        /\ log[k].type = "tool.execution.policy_evaluated"
        /\ RanFrom(r, n, k) \/ RefusedFrom(r, n, k)
  BY DEF Authorised
<1>2. About(r, n, ToolTypes) \subseteq DOMAIN log /\ DOMAIN log \subseteq Nat
  BY DEF About, WorkflowTypeOK
<1>3. k \in Nat
  BY <1>1, <1>2
<1>4. CASE RanFrom(r, n, k)
  <2>1. About(r, n, ToolTypes) = k..(k + 3)
    BY <1>4 DEF RanFrom
  <2>2. \A m \in {k, k + 1, k + 2, k + 3} : m \in k..(k + 3)
    BY <1>3
  <2>3. \A m \in {k, k + 1, k + 2, k + 3} : log'[m] = log[m]
    BY <1>2, <2>1, <2>2
  <2>4. RanFrom(r, n, k)'
    BY <1>4, <2>3 DEF RanFrom
  <2> QED
    BY <1>1, <2>3, <2>4
<1>5. CASE RefusedFrom(r, n, k)
  <2>1. About(r, n, ToolTypes) = k..(k + 1)
    BY <1>5 DEF RefusedFrom
  <2>2. \A m \in {k, k + 1} : m \in k..(k + 1)
    BY <1>3
  <2>3. \A m \in {k, k + 1} : log'[m] = log[m]
    BY <1>2, <2>1, <2>2
  <2>4. RefusedFrom(r, n, k)'
    BY <1>5, <2>3 DEF RefusedFrom
  <2> QED
    BY <1>1, <2>3, <2>4
<1> QED
  BY <1>1, <1>4, <1>5

\* The positions of two entries, among themselves ...
LEMMA BothEntries ==
  ASSUME NEW entries, Len(entries) = 2, DOMAIN entries = 1..Len(entries)
  PROVE  /\ 1 \in DOMAIN entries /\ 2 \in DOMAIN entries
         /\ \A m \in DOMAIN entries : m = 1 \/ m = 2
  OBVIOUS

\* ... and behind the log.
LEMMA PairPlaces ==
  ASSUME NEW x \in Nat, NEW T, T = {1, 2}
  PROVE  {x + m : m \in T} = (x + 1)..(x + 2)
<1>1. {x + m : m \in T} = {x + 1, x + 2}
  OBVIOUS
<1>2. (x + 1)..(x + 2) = {x + 1, x + 2}
  OBVIOUS
<1> QED
  BY <1>1, <1>2

\* A step that settles: the handler that ran is heard of, or was never entered.
LEMMA AuthorisedWhenSettled ==
  ASSUME WorkflowTypeOK, Control, Placed, HandlerEntered,
         NEW entries, NEW result, Settles(entries, result),
         NEW r, r = This, NEW n, n = Index, Authorised(r, n)
  PROVE  Authorised(r, n)'
<1>1. /\ ~Handling(r, n)' /\ ResultsOf(r)'[n] = result
      /\ runs'[r].steps = runs[r].steps
  <2>1. wpc' # "handler"
    BY DEF Settles
  <2>2. This' = This /\ results'[Index] = result /\ Current'.steps = Current.steps
    BY SettlesRuns
  <2> QED
    BY <2>1, <2>2 DEF Handling, ResultsOf, This, Current
<1>2. /\ Records(entries) /\ Reports(entries, result) /\ Len(log) \in Nat
      /\ \A k \in DOMAIN log : log'[k] = log[k]
      /\ \A m \in DOMAIN entries : log'[Len(log) + m] = entries[m]
      /\ DOMAIN entries = 1..Len(entries)
  BY RecordsPlaces DEF Settles
<1> DEFINE said == {m \in DOMAIN entries : entries[m].type \in ToolTypes}
<1>3. About(r, n, ToolTypes)'
        = About(r, n, ToolTypes) \cup {Len(log) + m : m \in said}
  <2>1. said = {m \in DOMAIN entries : /\ r = This /\ n = Index
                                       /\ entries[m].type \in ToolTypes}
    OBVIOUS
  <2> QED
    BY <1>2, <2>1, AboutGrows
<1>4. CASE wpc \in {"step", "asking"} /\ \A m \in DOMAIN entries :
                                           entries[m].type \notin ToolTypes
  <2>1. About(r, n, ToolTypes)' = {}
    BY <1>3, <1>4, NothingAbout
  <2> QED
    BY <1>1, <2>1 DEF Authorised
<1>5. CASE /\ wpc = "step"
           /\ Len(entries) = 2
           /\ entries[1].type = "tool.execution.policy_evaluated"
           /\ entries[2].type = "tool.result"
           /\ result.status = entries[2].verdict
  <2>k. PICK k \in Nat : k = Len(log) + 1
    BY <1>2
  <2>1. About(r, n, ToolTypes) = {}
    BY <1>5, NothingAbout
  <2>2. said = {1, 2}
    BY <1>2, <1>5 DEF ToolTypes
  <2>3. {Len(log) + m : m \in said} = k..(k + 1)
    <3> HIDE DEF said
    <3>1. {Len(log) + m : m \in said} = (Len(log) + 1)..(Len(log) + 2)
      BY <1>2, <2>2, PairPlaces
    <3>2. Len(log) + 1 = k /\ Len(log) + 2 = k + 1
      BY <1>2, <2>k
    <3> QED
      BY <3>1, <3>2
  <2>4. About(r, n, ToolTypes)' = k..(k + 1)
    BY <1>3, <2>1, <2>3
  <2>5. log'[k] = entries[1] /\ log'[k + 1] = entries[2] /\ k \in k..(k + 1)
    <3>1. 1 \in DOMAIN entries /\ 2 \in DOMAIN entries
      BY <1>2, <1>5
    <3>2. k + 1 = Len(log) + 2
      BY <1>2, <2>k
    <3> QED
      BY <1>2, <2>k, <3>1, <3>2
  <2>6. RefusedFrom(r, n, k)'
    BY <1>1, <1>5, <2>4, <2>5 DEF RefusedFrom
  <2> QED
    BY <1>5, <2>4, <2>5, <2>6 DEF Authorised
<1>6. CASE /\ wpc = "handler"
           /\ Len(entries) = 2
           /\ entries[1].type = "tool.execution.completed"
           /\ entries[2] = [entries[1] EXCEPT !.type = "tool.result"]
           /\ result.status = entries[2].verdict
  <2>1. Handling(r, n)
    BY <1>6 DEF Handling, This
  <2>2. PICK k \in About(r, n, ToolTypes) :
          log[k].type = "tool.execution.policy_evaluated" /\ RanFrom(r, n, k)
    BY <2>1 DEF Authorised, RefusedFrom
  <2>3. About(r, n, ToolTypes) = k..(k + 1) /\ k \in DOMAIN log /\ k \in Nat
    BY <2>1, <2>2 DEF RanFrom, About, WorkflowTypeOK
  <2>4. Len(log) \in About(r, n, ToolTypes) /\ Len(log) # k
    <3>1. /\ log # <<>> /\ log[Len(log)].type = "tool.execution.started"
          /\ log[Len(log)].run = r /\ log[Len(log)].step = n
      BY <1>6 DEF HandlerEntered, Event
    <3>2. Len(log) \in DOMAIN log
      BY <3>1 DEF WorkflowTypeOK
    <3> QED
      BY <2>2, <3>1, <3>2 DEF About, ToolTypes
  <2>5. k + 1 = Len(log)
    BY <1>2, <2>3, <2>4
  <2>6. entries[2].type = "tool.result"
    <3>1. entries \in Seq(Entry) /\ 1 \in DOMAIN entries
      BY <1>2, <1>6, BothEntries DEF Records
    <3>2. entries[1] \in Entry
      BY <3>1
    <3> QED
      BY <1>6, <3>2 DEF Entry
  <2>7. said = {1, 2}
    <3>1. entries[1].type \in ToolTypes /\ entries[2].type \in ToolTypes
      BY <1>6, <2>6 DEF ToolTypes
    <3>2. /\ 1 \in DOMAIN entries /\ 2 \in DOMAIN entries
          /\ \A m \in DOMAIN entries : m = 1 \/ m = 2
      BY <1>2, <1>6, BothEntries
    <3> QED
      BY <3>1, <3>2
  <2>8. {Len(log) + m : m \in said} = (k + 2)..(k + 3)
    <3> HIDE DEF said
    <3>1. {Len(log) + m : m \in said} = (Len(log) + 1)..(Len(log) + 2)
      BY <1>2, <2>7, PairPlaces
    <3>2. Len(log) + 1 = k + 2 /\ Len(log) + 2 = k + 3
      BY <1>2, <2>3, <2>5
    <3> QED
      BY <3>1, <3>2
  <2>9. About(r, n, ToolTypes)' = k..(k + 3)
    <3>1. k..(k + 3) = (k..(k + 1)) \cup ((k + 2)..(k + 3))
      BY <2>3
    <3> QED
      BY <1>3, <2>3, <2>8, <3>1
  <2>10. /\ log'[k + 2] = entries[1] /\ log'[k + 3] = entries[2]
         /\ log'[k] = log[k] /\ log'[k + 1] = log[k + 1]
    <3>1. k + 2 = Len(log) + 1 /\ k + 3 = Len(log) + 2
      BY <1>2, <2>3, <2>5
    <3>3. k + 1 \in DOMAIN log
      BY <2>4, <2>5 DEF About
    <3>2. 1 \in DOMAIN entries /\ 2 \in DOMAIN entries
      BY <1>2, <1>6
    <3> QED
      BY <1>2, <2>3, <3>1, <3>2, <3>3
  <2>11. RanFrom(r, n, k)'
    BY <1>1, <1>6, <2>2, <2>9, <2>10 DEF RanFrom
  <2>12. k \in About(r, n, ToolTypes)'
    BY <1>3, <2>2
  <2> QED
    BY <2>2, <2>10, <2>11, <2>12 DEF Authorised
<1> QED
  BY <1>2, <1>4, <1>5, <1>6 DEF Reports

\* A handler is entered: the two entries before it are its authorisation.
LEMMA AuthorisedWhenEntered ==
  ASSUME WorkflowTypeOK, Control, Placed, NEW entries, Enters(entries),
         NEW r, r = This, NEW n, n = Index
  PROVE  Authorised(r, n)'
<1>1. /\ Records(entries) /\ Len(log) \in Nat /\ UNCHANGED runs /\ wpc = "step"
      /\ \A m \in DOMAIN entries : log'[Len(log) + m] = entries[m]
      /\ DOMAIN entries = 1..Len(entries)
  BY RecordsPlaces DEF Enters
<1> DEFINE said == {m \in DOMAIN entries : entries[m].type \in ToolTypes}
<1>2. About(r, n, ToolTypes)'
        = About(r, n, ToolTypes) \cup {Len(log) + m : m \in said}
  <2>1. said = {m \in DOMAIN entries : /\ r = This /\ n = Index
                                       /\ entries[m].type \in ToolTypes}
    OBVIOUS
  <2> QED
    BY <1>1, <2>1, AboutGrows
<1>3. About(r, n, ToolTypes) = {}
  BY <1>1, NothingAbout
<1>4. CASE wpc' = "asking"
  <2>1. said = {}
    BY <1>4 DEF Enters, ToolTypes
  <2>2. About(r, n, ToolTypes)' = {}
    BY <1>2, <1>3, <2>1
  <2> QED
    BY <1>4, <2>2 DEF Authorised, Handling
<1>5. CASE wpc' = "handler"
  <2>k. PICK k \in Nat : k = Len(log) + 1
    BY <1>1
  <2>1. /\ Len(entries) = 2
        /\ entries[1].type = "tool.execution.policy_evaluated"
        /\ entries[1].verdict = "allow"
        /\ entries[2].type = "tool.execution.started"
        /\ Verdict = "allow"
    BY <1>5 DEF Enters, Event
  <2>2. said = {1, 2}
    BY <1>1, <2>1 DEF ToolTypes
  <2>3. {Len(log) + m : m \in said} = k..(k + 1)
    <3> HIDE DEF said
    <3>1. {Len(log) + m : m \in said} = (Len(log) + 1)..(Len(log) + 2)
      BY <1>1, <2>2, PairPlaces
    <3>2. Len(log) + 1 = k /\ Len(log) + 2 = k + 1
      BY <1>1, <2>k
    <3> QED
      BY <3>1, <3>2
  <2>4. About(r, n, ToolTypes)' = k..(k + 1)
    BY <1>2, <1>3, <2>3
  <2>5. log'[k] = entries[1] /\ log'[k + 1] = entries[2] /\ k \in k..(k + 1)
    <3>1. 1 \in DOMAIN entries /\ 2 \in DOMAIN entries
      BY <1>1, <2>1
    <3>2. k + 1 = Len(log) + 2
      BY <1>1, <2>k
    <3> QED
      BY <1>1, <2>k, <3>1, <3>2
  <2>6. Handling(r, n)'
    BY <1>5, EntersKeeps DEF Handling, This
  <2>7. Risk[runs'[r].steps[n].action] = "read"
    <3>1. Index \in DOMAIN Current.steps /\ Current.steps \in Workflows
      BY <1>1, CurrentStep DEF Enters, WorkflowRun
    <3>2. Risk[Step.action] \in ToolRisk
      BY <3>1, WorkflowAssumption DEF Step
    <3>3. Risk[Step.action] = "read"
      BY <2>1, <3>2 DEF Verdict, EvaluateToolCallPolicy, ToolRisk
    <3> QED
      BY <1>1, <3>3 DEF Step, Current
  <2>8. RanFrom(r, n, k)'
    BY <2>1, <2>4, <2>5, <2>6, <2>7 DEF RanFrom
  <2> QED
    BY <2>1, <2>4, <2>5, <2>8 DEF Authorised
<1> QED
  BY <1>4, <1>5 DEF Enters

\* Nothing new is on record of any other step.
LEMMA OthersKept ==
  ASSUME WorkflowTypeOK, NEW entries, Records(entries),
         NEW r, NEW n, r # This \/ n # Index, NEW types
  PROVE  About(r, n, types)' = About(r, n, types)
<1> DEFINE new == {m \in DOMAIN entries : /\ r = This /\ n = Index
                                          /\ entries[m].type \in types}
<1>1. About(r, n, types)' = About(r, n, types) \cup {Len(log) + m : m \in new}
  BY AboutGrows
<1>2. new = {}
  OBVIOUS
<1> HIDE DEF new
<1> QED
  BY <1>1, <1>2

\* Nor of any step of a run, when a run begins.
LEMMA StartKept ==
  ASSUME WorkflowTypeOK, Control, Placed, NEW steps \in Workflows,
         NEW initial \in Initials, NEW runner \in Runners,
         StartRun(steps, initial, runner),
         NEW r, NEW n, NEW types, "workflow.started" \notin types
  PROVE  /\ About(r, n, types)' = About(r, n, types)
         /\ r = This' => About(r, n, types)' = {}
<1>1. /\ Len(log) \in Nat /\ DOMAIN log' = 1..(Len(log) + 1)
      /\ \A k \in DOMAIN log : log'[k] = log[k]
      /\ log'[Len(log) + 1] = Event("workflow.started", This', 0, "none")
      /\ This' \notin DOMAIN runs
  BY StartRunBegins
<1>2. DOMAIN log = 1..Len(log)
  BY DEF WorkflowTypeOK
<1>3. log'[Len(log) + 1].type = "workflow.started"
  BY <1>1 DEF Event
<1>4. About(r, n, types)' = About(r, n, types)
  BY <1>1, <1>2, <1>3 DEF About
<1>5. r = This' => About(r, n, types) = {}
  BY <1>1 DEF Placed, About
<1> QED
  BY <1>4, <1>5

\* Whatever the runner does, tools run only after they were allowed.
LEMMA AuthorisedStep ==
  ASSUME WorkflowTypeOK, Control, Placed, HandlerEntered, ToolRunsAuthorised,
         WorkflowStepNext
  PROVE  ToolRunsAuthorised'
<1> SUFFICES ASSUME NEW r \in DOMAIN runs', NEW n \in DOMAIN runs'[r].steps
             PROVE  Authorised(r, n)'
  BY DEF ToolRunsAuthorised, Authorised, Handling, RanFrom, RefusedFrom
<1>1. \A q \in DOMAIN runs : \A m \in DOMAIN runs[q].steps : Authorised(q, m)
  BY AuthorisedSteps
<1>2. ASSUME r \in DOMAIN runs, runs'[r].steps = runs[r].steps
      PROVE  /\ Authorised(r, n)
             /\ n \in Nat \ {0}
  <2>1. runs[r].steps \in Workflows
    <3>1. runs[r] \in WorkflowRun
      BY <1>2 DEF WorkflowTypeOK
    <3> QED
      BY <3>1 DEF WorkflowRun
  <2>2. n \in 1..Len(runs[r].steps) /\ Len(runs[r].steps) \in Nat
    BY <1>2, <2>1, WorkflowAssumption
  <2> QED
    BY <1>1, <1>2, <2>2
<1>3. ASSUME NEW entries, NEW result, Settles(entries, result)
      PROVE  Authorised(r, n)'
  <2>1. Records(entries) /\ wpc' # "handler"
    BY <1>3 DEF Settles
  <2>2. /\ DOMAIN runs' = DOMAIN runs /\ This' = This
        /\ \A q \in DOMAIN runs : q # This => runs'[q] = runs[q]
        /\ Current'.steps = Current.steps
        /\ \A m \in DOMAIN results : results'[m] = results[m]
        /\ DOMAIN results = 1..Len(results) /\ Len(results) \in Nat
    BY <1>3, SettlesRuns DEF WorkflowTypeOK
  <2>3. runs'[r].steps = runs[r].steps /\ r \in DOMAIN runs
    BY <2>2 DEF Current
  <2>4. CASE r = This /\ n = Index
    BY <1>2, <1>3, <2>3, <2>4, AuthorisedWhenSettled
  <2>5. CASE r # This \/ n # Index
    <3>1. About(r, n, ToolTypes)' = About(r, n, ToolTypes)
      BY <2>1, <2>5, OthersKept
    <3>2. ~Handling(r, n) /\ ~Handling(r, n)'
      BY <2>1, <2>5 DEF Handling, This
    <3>3. ASSUME About(r, n, ToolTypes) # {}
          PROVE  ResultsOf(r)'[n] = ResultsOf(r)[n]
      <4>1. CASE r # This
        BY <2>2, <2>3, <4>1 DEF ResultsOf, This
      <4>2. CASE r = This
        <5>1. n <= Index
          BY <1>3, <3>3, <4>2 DEF Placed, About, Settles
        <5>2. n \in DOMAIN results
          BY <1>2, <2>2, <2>3, <2>5, <4>2, <5>1 DEF Index
        <5> QED
          BY <2>2, <4>2, <5>2 DEF ResultsOf, This
      <4> QED
        BY <4>1, <4>2
    <3> QED
      BY <1>2, <2>1, <2>3, <3>1, <3>2, <3>3, AuthorisedKept, RecordsPlaces
  <2> QED
    BY <2>4, <2>5
<1>4. ASSUME NEW entries, Enters(entries)
      PROVE  Authorised(r, n)'
  <2>1. Records(entries) /\ UNCHANGED <<runs, results>> /\ wpc = "step"
    BY <1>4 DEF Enters
  <2>2. This' = This /\ Index' = Index
    BY <1>4, EntersKeeps
  <2>3. CASE r = This /\ n = Index
    BY <1>4, <2>3, AuthorisedWhenEntered
  <2>4. CASE r # This \/ n # Index
    <3>1. About(r, n, ToolTypes)' = About(r, n, ToolTypes)
      BY <2>1, <2>4, OthersKept
    <3>2. ~Handling(r, n) /\ ~Handling(r, n)'
      BY <2>1, <2>2, <2>4 DEF Handling, This
    <3>3. ResultsOf(r)' = ResultsOf(r)
      BY <2>1 DEF ResultsOf
    <3> QED
      BY <1>2, <2>1, <3>1, <3>2, <3>3, AuthorisedKept, RecordsPlaces
  <2> QED
    BY <2>3, <2>4
<1>5. ASSUME NEW entries, Completes(entries)
      PROVE  Authorised(r, n)'
  <2>1. /\ Records(entries) /\ wpc = "step" /\ wpc' = "idle" /\ UNCHANGED results
        /\ Close("succeeded", results) /\ results \in Seq(StepResults)
    BY <1>5 DEF Completes, WorkflowTypeOK
  <2>2. /\ DOMAIN runs' = DOMAIN runs /\ This' = This
        /\ \A q \in DOMAIN runs : q # This => runs'[q] = runs[q]
        /\ Current'.steps = Current.steps
    BY <2>1, CloseKeeps
  <2>3. runs'[r].steps = runs[r].steps /\ r \in DOMAIN runs
    BY <2>2 DEF Current
  <2>4. About(r, n, ToolTypes)' = About(r, n, ToolTypes)
    <3>1. \A m \in DOMAIN entries : entries[m].type = "workflow.completed"
      <4>1. Len(entries) = 1 /\ entries[1].type = "workflow.completed"
            /\ DOMAIN entries = 1..Len(entries)
        BY <1>5, <2>1, RecordsPlaces DEF Completes
      <4> QED
        BY <4>1
    <3> DEFINE new == {m \in DOMAIN entries : /\ r = This /\ n = Index
                                              /\ entries[m].type \in ToolTypes}
    <3>2. About(r, n, ToolTypes)'
            = About(r, n, ToolTypes) \cup {Len(log) + m : m \in new}
      BY <2>1, AboutGrows
    <3>3. new = {}
      BY <3>1 DEF ToolTypes
    <3> HIDE DEF new
    <3> QED
      BY <3>2, <3>3
  <2>5. ~Handling(r, n) /\ ~Handling(r, n)'
    BY <2>1 DEF Handling
  <2>6. ResultsOf(r)' = ResultsOf(r)
    BY <2>1, <2>2, <2>3 DEF ResultsOf, This
  <2> QED
    BY <1>2, <2>1, <2>3, <2>4, <2>5, <2>6, AuthorisedKept, RecordsPlaces
<1> QED
  BY <1>3, <1>4, <1>5, StepKinds

\* A run that begins has run no tool, and the others are what they were.
LEMMA AuthorisedStart ==
  ASSUME WorkflowTypeOK, Control, Placed, ToolRunsAuthorised, NEW steps \in Workflows,
         NEW initial \in Initials, NEW runner \in Runners,
         StartRun(steps, initial, runner)
  PROVE  ToolRunsAuthorised'
<1> SUFFICES ASSUME NEW r \in DOMAIN runs', NEW n \in DOMAIN runs'[r].steps
             PROVE  Authorised(r, n)'
  BY DEF ToolRunsAuthorised, Authorised, Handling, RanFrom, RefusedFrom
<1>1. /\ wpc = "idle" /\ wpc' = "step" /\ Len(runs) \in Nat
      /\ This' = Len(runs) + 1 /\ DOMAIN runs' = 1..This'
      /\ \A q \in DOMAIN runs : runs'[q] = runs[q] /\ q # This'
      /\ \A k \in DOMAIN log : log'[k] = log[k]
  BY StartRunBegins
<1>2. /\ About(r, n, ToolTypes)' = About(r, n, ToolTypes)
      /\ r = This' => About(r, n, ToolTypes)' = {}
  <2>1. "workflow.started" \notin ToolTypes
    BY DEF ToolTypes
  <2> QED
    BY <2>1, StartKept
<1>3. ~Handling(r, n) /\ ~Handling(r, n)'
  BY <1>1 DEF Handling
<1>4. CASE r = This'
  BY <1>2, <1>3, <1>4 DEF Authorised
<1>5. CASE r # This'
  <2>1. r \in DOMAIN runs
    BY <1>1, <1>5 DEF WorkflowTypeOK
  <2>2. ResultsOf(r) = runs[r].results
    BY <1>1, <2>1 DEF ResultsOf, Control, This, Current, WorkflowTypeOK
  <2>3. ResultsOf(r)' = runs'[r].results
    BY <1>5 DEF ResultsOf, This
  <2>4. Authorised(r, n)
    BY <1>1, <2>1, AuthorisedSteps
  <2> QED
    BY <1>1, <1>2, <1>3, <2>1, <2>2, <2>3, <2>4, AuthorisedKept
<1> QED
  BY <1>4, <1>5

--------------------------------------------------------------------------------
(***************************************************************************)
(* What is returned and what is on record agree (HonestOutcome).           *)
(***************************************************************************)

\* The log says of a run that it completed.
Closed(r) == \E n \in DOMAIN log : log[n].run = r /\ log[n].type = "workflow.completed"

\* Each of these results has its one entry.
Recorded(r, of) ==
  \A n \in DOMAIN of : \E k \in DOMAIN log : About(r, n, Outcomes) = {k}

\* What HonestOutcome says of a run.
Honest(r) ==
  LET of == runs[r].results
      failures == {n \in DOMAIN of : of[n].status = "failed"}
  IN  /\ IF runs[r].runner.stop_on_error /\ failures # {}
         THEN runs[r].status = "failed" /\ failures = {Len(of)}
         ELSE runs[r].status = "succeeded" /\ Len(of) = Len(runs[r].steps)
      /\ Closed(r) <=> runs[r].status = "succeeded"
      /\ Recorded(r, of)

\* The property, run by run.
LEMMA HonestRuns ==
  /\ HonestOutcome <=> \A r \in DOMAIN runs : runs[r].status # "running" => Honest(r)
  /\ HonestOutcome'
       <=> \A r \in DOMAIN runs' : runs'[r].status # "running" => Honest(r)'
  BY DEF HonestOutcome, Honest, Closed, Recorded

\* What was honest of a run stays so if neither the run nor its entries change.
LEMMA HonestKept ==
  ASSUME NEW r, runs'[r] = runs[r], Honest(r), Closed(r)' <=> Closed(r),
         DOMAIN log \subseteq DOMAIN log',
         \A n \in DOMAIN runs[r].results :
           About(r, n, Outcomes)' = About(r, n, Outcomes)
  PROVE  Honest(r)'
<1>1. Recorded(r, runs[r].results)'
  BY DEF Honest, Recorded
<1> QED
  BY <1>1 DEF Honest

\* A step that settles records its one outcome, behind those of the others.
LEMMA SettlesRecorded ==
  ASSUME WorkflowTypeOK, Control, Placed, HonestSoFar,
         NEW entries, NEW result, Settles(entries, result), NEW r, r = This
  PROVE  Recorded(r, results)'
<1> SUFFICES ASSUME NEW n \in DOMAIN results'
             PROVE  \E k \in DOMAIN log' : About(r, n, Outcomes)' = {k}
  BY DEF Recorded
<1>1. /\ Records(entries) /\ Len(log) \in Nat /\ Len(results) \in Nat
      /\ DOMAIN results = 1..Len(results)
      /\ DOMAIN results' = 1..Index /\ Index = Len(results) + 1
      /\ \A k \in DOMAIN log : k \in DOMAIN log'
      /\ \A m \in DOMAIN entries : Len(log) + m \in DOMAIN log'
  BY RecordsPlaces, SettlesRuns DEF Settles, WorkflowTypeOK, Index
<1>2. CASE n = Index
  <2>1. PICK one \in DOMAIN entries : \A m \in DOMAIN entries :
          entries[m].type \in Outcomes <=> m = one
    BY DEF Settles
  <2> DEFINE new == {m \in DOMAIN entries : /\ r = This /\ n = Index
                                            /\ entries[m].type \in Outcomes}
  <2>2. About(r, n, Outcomes)'
          = About(r, n, Outcomes) \cup {Len(log) + m : m \in new}
    BY <1>1, AboutGrows
  <2>3. new = {one}
    BY <1>2, <2>1
  <2>4. About(r, n, Outcomes) = {}
    BY <1>2 DEF Placed, About, Settles
  <2> HIDE DEF new
  <2>5. About(r, n, Outcomes)' = {Len(log) + one}
    BY <2>2, <2>3, <2>4
  <2> QED
    BY <1>1, <2>1, <2>5
<1>3. CASE n # Index
  <2>1. n \in DOMAIN results
    BY <1>1, <1>3
  <2>2. \E k \in DOMAIN log : About(r, n, Outcomes) = {k}
    BY <2>1 DEF HonestSoFar, Settles
  <2>3. About(r, n, Outcomes)' = About(r, n, Outcomes)
    BY <1>1, <1>3, OthersKept
  <2> QED
    BY <1>1, <2>2, <2>3
<1> QED
  BY <1>2, <1>3

\* No other run is said to have completed.
LEMMA ClosedKept ==
  ASSUME WorkflowTypeOK, NEW entries, Records(entries), NEW r,
         \/ r # This
         \/ \A m \in DOMAIN entries : entries[m].type # "workflow.completed"
  PROVE  Closed(r)' <=> Closed(r)
<1>1. /\ \A k \in DOMAIN log : k \in DOMAIN log' /\ log'[k] = log[k]
      /\ \A k \in DOMAIN log' \ DOMAIN log :
           k - Len(log) \in DOMAIN entries /\ log'[k] = entries[k - Len(log)]
  BY RecordsPlaces
<1>2. \A m \in DOMAIN entries : entries[m].run = This
  BY DEF Records
<1>3. \A k \in DOMAIN log' \ DOMAIN log :
        ~(log'[k].run = r /\ log'[k].type = "workflow.completed")
  BY <1>1, <1>2
<1> QED
  BY <1>1, <1>3 DEF Closed

\* A step leaves the other runs as honest as they were.
LEMMA OthersHonest ==
  ASSUME WorkflowTypeOK, Control, HonestOutcome, NEW entries, Records(entries),
         wpc # "idle", NEW r \in DOMAIN runs, r # This, runs'[r] = runs[r]
  PROVE  Honest(r)'
<1>1. Honest(r)
  BY HonestRuns DEF Control
<1>2. \A n \in DOMAIN runs[r].results :
        About(r, n, Outcomes)' = About(r, n, Outcomes)
  BY OthersKept
<1>3. DOMAIN log \subseteq DOMAIN log'
  BY RecordsPlaces
<1> QED
  BY <1>1, <1>2, <1>3, ClosedKept, HonestKept

\* Every step keeps what is returned and what is on record together.
LEMMA HonestStep ==
  ASSUME WorkflowTypeOK, Control, Placed, HonestSoFar, HonestOutcome, WorkflowStepNext
  PROVE  HonestSoFar' /\ HonestOutcome'
<1>1. ASSUME NEW entries, NEW result, Settles(entries, result)
      PROVE  HonestSoFar' /\ HonestOutcome'
  <2>1. /\ wpc # "idle" /\ Records(entries)
        /\ result.status \in {"skipped", "succeeded", "failed"}
        /\ \A m \in DOMAIN entries : entries[m].type # "workflow.completed"
        /\ wpc' = "idle" => result.status = "failed" /\ Current.runner.stop_on_error
        /\ wpc' # "idle" => ~(result.status = "failed" /\ Current.runner.stop_on_error)
    BY <1>1 DEF Settles, StepResults
  <2>2. /\ DOMAIN runs' = DOMAIN runs /\ This' = This
        /\ \A q \in DOMAIN runs : q # This => runs'[q] = runs[q]
        /\ Current'.runner = Current.runner
        /\ \A m \in DOMAIN results : results'[m] = results[m]
        /\ results'[Index] = result /\ Len(results') = Index
        /\ DOMAIN results' = 1..Index
        /\ wpc' = "idle" => Current'.status = "failed" /\ Current'.results = results'
        /\ wpc' # "idle" => Current' = Current
    BY <1>1, SettlesRuns
  <2>3. This \in DOMAIN runs /\ Index \in Nat /\ Index = Len(results) + 1
        /\ Len(results) \in Nat /\ DOMAIN results = 1..Len(results)
    BY <2>1, CurrentStep DEF Index, WorkflowTypeOK
  <2>4. Recorded(This, results)'
    <3>1. \A r : r = This => Recorded(r, results)'
      BY <1>1, SettlesRecorded
    <3> QED
      BY <2>2, <3>1
  <2>5. Current.runner.stop_on_error =>
          \A m \in DOMAIN results' : m # Index => results'[m].status # "failed"
    BY <2>1, <2>2, <2>3 DEF HonestSoFar
  <2>6. HonestSoFar'
    BY <2>1, <2>2, <2>4, <2>5 DEF HonestSoFar, Recorded
  <2>7. ASSUME NEW r \in DOMAIN runs', runs'[r].status # "running"
        PROVE  Honest(r)'
    <3>1. CASE r # This
      BY <2>1, <2>2, <3>1, OthersHonest
    <3>2. CASE r = This
      <4>1. wpc' = "idle"
        <5>1. Current.status = "running"
          BY <2>1, <2>3 DEF Control, Current
        <5> QED
          BY <2>2, <2>7, <3>2, <5>1 DEF Current
      <4>2. /\ runs'[r].status = "failed" /\ runs'[r].results = results'
            /\ runs'[r].runner.stop_on_error
        BY <2>1, <2>2, <3>2, <4>1 DEF Current
      <4>3. {n \in DOMAIN results' : results'[n].status = "failed"} = {Index}
        BY <2>1, <2>2, <2>3, <2>5, <4>1
      <4>4. ~Closed(r)'
        <5>1. ~Closed(r)
          BY <2>1, <3>2 DEF Placed, Closed
        <5> QED
          BY <2>1, <5>1, ClosedKept
      <4>5. Recorded(r, runs[r].results)'
        BY <2>2, <2>4, <3>2, <4>2 DEF Recorded
      <4> QED
        BY <2>2, <4>2, <4>3, <4>4, <4>5 DEF Honest
    <3> QED
      BY <3>1, <3>2
  <2> QED
    BY <2>6, <2>7, HonestRuns
<1>2. ASSUME NEW entries, Enters(entries)
      PROVE  HonestSoFar' /\ HonestOutcome'
  <2>1. wpc = "step" /\ wpc' # "idle" /\ Records(entries) /\ UNCHANGED <<runs, results>>
    BY <1>2 DEF Enters
  <2>2. This' = This /\ Index' = Index /\ Current' = Current
    BY <1>2, EntersKeeps
  <2>3. \A n \in DOMAIN results : n # Index
    BY DEF Index, WorkflowTypeOK
  <2>4. \A n \in DOMAIN results : \E k \in DOMAIN log' : About(This, n, Outcomes)' = {k}
    <3> SUFFICES ASSUME NEW n \in DOMAIN results, NEW r, r = This
                 PROVE  \E k \in DOMAIN log' : About(r, n, Outcomes)' = {k}
      BY <2>2
    <3>1. About(r, n, Outcomes)' = About(r, n, Outcomes)
      BY <2>1, <2>3, OthersKept
    <3> QED
      BY <2>1, <3>1, RecordsPlaces DEF HonestSoFar
  <2>5. HonestSoFar'
    BY <2>1, <2>2, <2>4 DEF HonestSoFar
  <2>6. ASSUME NEW r \in DOMAIN runs', runs'[r].status # "running"
        PROVE  Honest(r)'
    BY <2>1, <2>6, OthersHonest DEF Control
  <2> QED
    BY <2>5, <2>6, HonestRuns
<1>3. ASSUME NEW entries, Completes(entries)
      PROVE  HonestSoFar' /\ HonestOutcome'
  <2>1. /\ wpc = "step" /\ wpc' = "idle" /\ Records(entries) /\ Len(entries) = 1
        /\ entries[1].type = "workflow.completed" /\ Index > Len(Current.steps)
        /\ Close("succeeded", results) /\ UNCHANGED results
        /\ results \in Seq(StepResults)
    BY <1>3 DEF Completes, WorkflowTypeOK
  <2>2. /\ DOMAIN runs' = DOMAIN runs /\ This' = This
        /\ \A q \in DOMAIN runs : q # This => runs'[q] = runs[q]
        /\ Current'.status = "succeeded" /\ Current'.results = results
        /\ Current'.steps = Current.steps /\ Current'.runner = Current.runner
    BY <2>1, CloseKeeps
  <2>3. ASSUME NEW r \in DOMAIN runs'
        PROVE  Honest(r)'
    <3>1. CASE r # This
      BY <2>1, <2>2, <3>1, OthersHonest
    <3>2. CASE r = This
      <4>1. /\ runs'[r].status = "succeeded" /\ runs'[r].results = results
            /\ runs'[r].steps = Current.steps /\ runs'[r].runner = Current.runner
        BY <2>2, <3>2 DEF Current
      <4>2. Len(results) = Len(Current.steps)
        BY <2>1, CurrentStep DEF Control, Index
      <4>3. Current.runner.stop_on_error =>
              {n \in DOMAIN results : results[n].status = "failed"} = {}
        BY <2>1 DEF HonestSoFar
      <4>4. Closed(r)'
        <5>1. 1 \in DOMAIN entries
          BY <2>1, RecordsPlaces
        <5>2. entries[1].run = r
          BY <2>1, <3>2, <5>1 DEF Records
        <5>3. Len(log) + 1 \in DOMAIN log' /\ log'[Len(log) + 1] = entries[1]
          BY <2>1, <5>1, RecordsPlaces
        <5> QED
          BY <2>1, <5>2, <5>3 DEF Closed
      <4>5. \A n \in DOMAIN results :
              \E k \in DOMAIN log' : About(r, n, Outcomes)' = {k}
        <5>1. \A n \in DOMAIN results : n # Index
          BY DEF Index, WorkflowTypeOK
        <5>2. \A n \in DOMAIN results : About(r, n, Outcomes)' = About(r, n, Outcomes)
          BY <2>1, <5>1, OthersKept
        <5> QED
          BY <2>1, <3>2, <5>2, RecordsPlaces DEF HonestSoFar
      <4>6. Recorded(r, runs[r].results)'
        BY <4>1, <4>5 DEF Recorded
      <4> QED
        BY <4>1, <4>2, <4>3, <4>4, <4>6 DEF Honest
    <3> QED
      BY <3>1, <3>2
  <2> QED
    BY <2>1, <2>3, HonestRuns DEF HonestSoFar
<1> QED
  BY <1>1, <1>2, <1>3, StepKinds

\* A run that begins has no results yet.
LEMMA HonestStart ==
  ASSUME WorkflowTypeOK, Control, Placed, HonestOutcome, NEW steps \in Workflows,
         NEW initial \in Initials, NEW runner \in Runners,
         StartRun(steps, initial, runner)
  PROVE  HonestSoFar' /\ HonestOutcome'
<1>1. /\ wpc = "idle" /\ wpc' = "step" /\ results' = <<>> /\ Len(runs) \in Nat
      /\ This' = Len(runs) + 1 /\ DOMAIN runs' = 1..This' /\ Control'
      /\ \A q \in DOMAIN runs : runs'[q] = runs[q]
      /\ Len(log) \in Nat /\ DOMAIN log' = 1..(Len(log) + 1)
      /\ \A k \in DOMAIN log : log'[k] = log[k]
      /\ log'[Len(log) + 1] = Event("workflow.started", This', 0, "none")
  BY StartRunBegins
<1>2. DOMAIN log = 1..Len(log) /\ DOMAIN runs = 1..Len(runs)
  BY DEF WorkflowTypeOK
<1>3. HonestSoFar'
  BY <1>1 DEF HonestSoFar
<1>4. ASSUME NEW r \in DOMAIN runs', runs'[r].status # "running"
      PROVE  Honest(r)'
  <2>1. r # This'
    BY <1>1, <1>4 DEF Control
  <2>2. r \in DOMAIN runs /\ runs'[r] = runs[r]
    BY <1>1, <1>2, <2>1
  <2>3. Honest(r)
    BY <1>4, <2>2, HonestRuns
  <2>4. \A n \in DOMAIN runs[r].results :
          About(r, n, Outcomes)' = About(r, n, Outcomes)
    <3>1. "workflow.started" \notin Outcomes
      BY DEF Outcomes
    <3> QED
      BY <3>1, StartKept
  <2>5. Closed(r)' <=> Closed(r)
    <3>1. log'[Len(log) + 1].type = "workflow.started"
      BY <1>1 DEF Event
    <3> QED
      BY <1>1, <1>2, <3>1 DEF Closed
  <2>6. DOMAIN log \subseteq DOMAIN log'
    BY <1>1, <1>2
  <2> QED
    BY <2>2, <2>3, <2>4, <2>5, <2>6, HonestKept
<1> QED
  BY <1>3, <1>4, HonestRuns

--------------------------------------------------------------------------------
(***************************************************************************)
(* A run can be found again from its results (BranchesReproducible).       *)
(***************************************************************************)

\* The result is one of this step, with these variables.
Yielded(step, result, given) ==
  /\ result.id = step.id
  /\ result.status = "skipped" <=>
       step.condition # Absent /\ ~EvaluateCondition(step.condition, given)

\* One more result that follows from those before.
LEMMA ReproducesMore ==
  ASSUME NEW run, NEW some \in Seq(StepResults), NEW result \in StepResults,
         Reproduces(run, some),
         Yielded(run.steps[Len(some) + 1], result,
                 VariablesAfter(run.initial, some, Len(some)))
  PROVE  /\ Reproduces(run, Append(some, result))
         /\ VariablesAfter(run.initial, Append(some, result),
                           Len(Append(some, result)))
              = After(VariablesAfter(run.initial, some, Len(some)), result)
<1> DEFINE n == Len(some) + 1
           given == VariablesAfter(run.initial, some, Len(some))
           more == Append(some, result)
<1>y. /\ result.id = run.steps[n].id
      /\ result.status = "skipped" <=>
           /\ run.steps[n].condition # Absent
           /\ ~EvaluateCondition(run.steps[n].condition, given)
  BY DEF Yielded
<1>1. /\ more \in Seq(StepResults) /\ Len(more) = n /\ DOMAIN more = 1..n
      /\ more[n] = result /\ Len(some) \in Nat /\ n \in Nat \ {0} /\ n - 1 = Len(some)
      /\ \A m \in 1..Len(some) : more[m] = some[m]
      /\ DOMAIN some = 1..Len(some)
  OBVIOUS
<1> HIDE DEF n, given, more
<1>2. \A m \in 0..Len(some) :
        VariablesAfter(run.initial, more, m) = VariablesAfter(run.initial, some, m)
  <2> TAKE m \in 0..Len(some)
  <2>1. \A k \in 1..m : more[k] = some[k]
    BY <1>1
  <2>2. m \in Nat
    BY <1>1
  <2> QED
    BY <2>1, <2>2, VariablesOfPrefix
<1>3. VariablesAfter(run.initial, more, Len(more)) = After(given, result)
  <2>1. Len(some) \in 0..Len(some)
    BY <1>1
  <2>2. VariablesAfter(run.initial, more, n - 1) = given
    BY <1>1, <1>2, <2>1 DEF given
  <2>3. VariablesAfter(run.initial, more, n)
          = After(VariablesAfter(run.initial, more, n - 1), more[n])
    BY <1>1, VariablesAfterNext
  <2> QED
    BY <1>1, <2>2, <2>3
<1>4. ASSUME NEW m \in DOMAIN more
      PROVE  /\ more[m].id = run.steps[m].id
             /\ more[m].status = "skipped" <=>
                  /\ run.steps[m].condition # Absent
                  /\ ~EvaluateCondition(run.steps[m].condition,
                                        VariablesAfter(run.initial, more, m - 1))
  <2>1. CASE m = n
    <3>1. Len(some) \in 0..Len(some)
      BY <1>1
    <3>2. VariablesAfter(run.initial, more, m - 1) = given
      BY <1>1, <1>2, <2>1, <3>1 DEF given
    <3> QED
      BY <1>y, <1>1, <2>1, <3>2
  <2>2. CASE m # n
    <3>1. m \in DOMAIN some /\ m - 1 \in 0..Len(some) /\ more[m] = some[m]
      BY <1>1, <2>2
    <3>2. VariablesAfter(run.initial, more, m - 1)
            = VariablesAfter(run.initial, some, m - 1)
      BY <1>2, <3>1
    <3> QED
      BY <3>1, <3>2 DEF Reproduces
  <2> QED
    BY <2>1, <2>2
<1>5. Reproduces(run, more)
  BY <1>4 DEF Reproduces
<1> QED
  BY <1>3, <1>5 DEF more, given

\* Only the steps of a run and the variables it was given matter.
LEMMA ReproducesSame ==
  ASSUME NEW some, NEW other, some.steps = other.steps, some.initial = other.initial,
         NEW of, Reproduces(some, of)
  PROVE  Reproduces(other, of)
  BY DEF Reproduces

\* A step branches, and calls its tool, on what the results so far yield.
LEMMA ReproducibleStep ==
  ASSUME WorkflowTypeOK, Control, BranchesReproducible, WorkflowStepNext
  PROVE  BranchesReproducible'
<1>1. ASSUME NEW entries, NEW result, Settles(entries, result)
      PROVE  BranchesReproducible'
  <2>1. /\ wpc # "idle" /\ wpc' \in {"idle", "step"} /\ result \in StepResults
        /\ result.id = Step.id
        /\ result.status = "skipped" <=> ~ConditionMet
        /\ results' = Append(results, result) /\ variables' = After(variables, result)
        /\ results \in Seq(StepResults)
    BY <1>1 DEF Settles, WorkflowTypeOK
  <2>2. /\ DOMAIN runs' = DOMAIN runs /\ This' = This
        /\ \A q \in DOMAIN runs : q # This => runs'[q] = runs[q]
        /\ Current'.steps = Current.steps /\ Current'.initial = Current.initial
        /\ wpc' = "idle" => Current'.results = results'
        /\ wpc' # "idle" => Current' = Current
    BY <1>1, SettlesRuns
  <2>3. /\ Reproduces(Current, results)
        /\ variables = VariablesAfter(Current.initial, results, Len(results))
    BY <2>1 DEF BranchesReproducible
  <2>4. This \in DOMAIN runs /\ Current.status = "running"
    BY <2>1, CurrentStep DEF Control, Current
  <2>5. /\ Reproduces(Current, results')
        /\ VariablesAfter(Current.initial, results', Len(results'))
             = After(variables, result)
    <3>1. Yielded(Step, result, variables)
      BY <2>1 DEF ConditionMet, Yielded
    <3>2. Step = Current.steps[Len(results) + 1]
      BY DEF Step, Index
    <3>3. Yielded(Current.steps[Len(results) + 1], result,
                  VariablesAfter(Current.initial, results, Len(results)))
      BY <2>3, <3>1, <3>2
    <3> QED
      BY <2>1, <2>3, <3>3, ReproducesMore
  <2>6. ASSUME NEW r \in DOMAIN runs', runs'[r].status # "running"
        PROVE  Reproduces(runs'[r], runs'[r].results)
    <3>1. CASE r # This
      BY <2>2, <2>6, <3>1 DEF BranchesReproducible
    <3>2. CASE r = This
      <4>1. wpc' = "idle"
        BY <2>2, <2>4, <2>6, <3>2 DEF Current
      <4>2. /\ runs'[r].results = results' /\ runs'[r].steps = Current.steps
            /\ runs'[r].initial = Current.initial
        BY <2>2, <3>2, <4>1 DEF Current
      <4> QED
        BY <2>5, <4>2, ReproducesSame
    <3> QED
      BY <3>1, <3>2
  <2>7. wpc' # "idle" =>
          /\ Reproduces(Current', results')
          /\ variables' = VariablesAfter(Current'.initial, results', Len(results'))
    BY <2>1, <2>2, <2>5
  <2> QED
    BY <2>1, <2>6, <2>7 DEF BranchesReproducible
<1>2. ASSUME NEW entries, Enters(entries)
      PROVE  BranchesReproducible'
  <2>1. /\ wpc = "step" /\ UNCHANGED <<runs, variables, results>>
        /\ wpc' = "handler" =>
             arguments' = [n \in DOMAIN Step.inputs |-> Argument(Step.inputs[n])]
    BY <1>2 DEF Enters
  <2>2. This' = This /\ Index' = Index /\ Current' = Current /\ Step' = Step
    BY <1>2, EntersKeeps
  <2>3. /\ Reproduces(Current, results)
        /\ variables = VariablesAfter(Current.initial, results, Len(results))
    BY <2>1 DEF BranchesReproducible
  <2>4. \A r \in DOMAIN runs' : runs'[r].status # "running" =>
          Reproduces(runs'[r], runs'[r].results)
    BY <2>1 DEF BranchesReproducible
  <2>5. ASSUME wpc' = "handler", NEW n \in DOMAIN Step.inputs,
               NEW given, given = VariablesAfter(Current.initial, results, Len(results))
        PROVE  arguments'[n] = IF /\ Step.inputs[n].template
                                  /\ Step.inputs[n].name \in DOMAIN given
                               THEN given[Step.inputs[n].name]
                               ELSE Step.inputs[n].value
    BY <2>1, <2>3, <2>5 DEF Argument
  <2> QED
    BY <2>1, <2>2, <2>3, <2>4, <2>5 DEF BranchesReproducible
<1>3. ASSUME NEW entries, Completes(entries)
      PROVE  BranchesReproducible'
  <2>1. /\ wpc = "step" /\ wpc' = "idle" /\ Close("succeeded", results)
        /\ results \in Seq(StepResults)
    BY <1>3 DEF Completes, WorkflowTypeOK
  <2>2. /\ DOMAIN runs' = DOMAIN runs /\ This' = This
        /\ \A q \in DOMAIN runs : q # This => runs'[q] = runs[q]
        /\ Current'.results = results
        /\ Current'.steps = Current.steps /\ Current'.initial = Current.initial
    BY <2>1, CloseKeeps
  <2>3. Reproduces(Current, results)
    BY <2>1 DEF BranchesReproducible
  <2>4. ASSUME NEW r \in DOMAIN runs'
        PROVE  Reproduces(runs'[r], runs'[r].results)
    <3>1. CASE r # This
      BY <2>1, <2>2, <3>1 DEF BranchesReproducible, Control
    <3>2. CASE r = This
      <4>1. /\ runs'[r].results = results /\ runs'[r].steps = Current.steps
            /\ runs'[r].initial = Current.initial
        BY <2>2, <3>2 DEF Current
      <4> QED
        BY <2>3, <4>1, ReproducesSame
    <3> QED
      BY <3>1, <3>2
  <2> QED
    BY <2>1, <2>4 DEF BranchesReproducible
<1> QED
  BY <1>1, <1>2, <1>3, StepKinds

\* A run that begins has the variables it was given, and nothing else.
LEMMA ReproducibleStart ==
  ASSUME WorkflowTypeOK, Control, BranchesReproducible, NEW steps \in Workflows,
         NEW initial \in Initials, NEW runner \in Runners,
         StartRun(steps, initial, runner)
  PROVE  BranchesReproducible'
<1>1. /\ wpc = "idle" /\ wpc' = "step" /\ results' = <<>> /\ variables' = initial
      /\ This' = Len(runs) + 1 /\ DOMAIN runs' = 1..This' /\ Len(runs) \in Nat
      /\ \A q \in DOMAIN runs : runs'[q] = runs[q]
      /\ Current'.initial = initial /\ Control'
  BY StartRunBegins
<1>2. ASSUME NEW r \in DOMAIN runs', runs'[r].status # "running"
      PROVE  Reproduces(runs'[r], runs'[r].results)
  <2>1. r # This'
    BY <1>1, <1>2 DEF Control
  <2>2. r \in DOMAIN runs
    BY <1>1, <2>1 DEF WorkflowTypeOK
  <2> QED
    BY <1>1, <1>2, <2>2 DEF BranchesReproducible
<1>3. Reproduces(Current', results')
  BY <1>1 DEF Reproduces
<1>4. variables' = VariablesAfter(Current'.initial, results', Len(results'))
  <2>1. Len(results') = 0
    BY <1>1
  <2> QED
    BY <1>1, <2>1, VariablesAtFirst
<1> QED
  BY <1>1, <1>2, <1>3, <1>4 DEF BranchesReproducible

--------------------------------------------------------------------------------
(***************************************************************************)
(* The invariant, and what follows from it.                                *)
(***************************************************************************)

\* The invariant holds at first ...
LEMMA InvariantInit ==
  ASSUME WorkflowInit
  PROVE  WorkflowInvariant
<1>1. /\ log = <<>> /\ runs = <<>> /\ wpc = "idle" /\ results = <<>>
      /\ DOMAIN log = {} /\ DOMAIN runs = {}
  BY DEF WorkflowInit
<1>2. WorkflowTypeOK
  <2>1. log \in Seq(Entry) /\ runs \in Seq(WorkflowRun) /\ results \in Seq(StepResults)
    BY <1>1
  <2> QED
    BY <1>1, <2>1 DEF WorkflowTypeOK
<1>3. Control /\ Placed /\ HandlerEntered /\ HonestSoFar
  BY <1>1 DEF Control, Placed, HandlerEntered, HonestSoFar
<1>4. ToolRunsAuthorised /\ HonestOutcome /\ BranchesReproducible
  BY <1>1 DEF ToolRunsAuthorised, HonestOutcome, BranchesReproducible
<1> QED
  BY <1>2, <1>3, <1>4 DEF WorkflowInvariant

\* ... when a run begins ...
LEMMA InvariantStart ==
  ASSUME WorkflowInvariant, NEW steps \in Workflows, NEW initial \in Initials,
         NEW runner \in Runners, StartRun(steps, initial, runner)
  PROVE  WorkflowInvariant'
<1>1. /\ WorkflowTypeOK /\ Control /\ Placed /\ HonestOutcome
      /\ ToolRunsAuthorised /\ BranchesReproducible
  BY DEF WorkflowInvariant
<1>2. WorkflowTypeOK' /\ Control' /\ HandlerEntered'
  BY <1>1, StartRunBegins DEF HandlerEntered
<1>3. Placed' /\ HonestSoFar' /\ HonestOutcome'
  BY <1>1, PlacedStart, HonestStart
<1>4. ToolRunsAuthorised' /\ BranchesReproducible'
  BY <1>1, AuthorisedStart, ReproducibleStart
<1> QED
  BY <1>2, <1>3, <1>4 DEF WorkflowInvariant

\* ... whatever the runner does ...
LEMMA InvariantStep ==
  ASSUME WorkflowInvariant, WorkflowStepNext
  PROVE  WorkflowInvariant'
<1>1. /\ WorkflowTypeOK /\ Control /\ Placed /\ HandlerEntered /\ HonestSoFar
      /\ HonestOutcome /\ ToolRunsAuthorised /\ BranchesReproducible
  BY DEF WorkflowInvariant
<1>2. WorkflowTypeOK' /\ Control'
  BY <1>1, StepKinds, SettlesKeeps, EntersKeeps, CompletesKeeps
<1>3. Placed' /\ HandlerEntered'
  BY <1>1, PlacedStep, HandlerEnteredStep
<1>4. HonestSoFar' /\ HonestOutcome'
  BY <1>1, HonestStep
<1>5. ToolRunsAuthorised' /\ BranchesReproducible'
  BY <1>1, AuthorisedStep, ReproducibleStep
<1> QED
  BY <1>2, <1>3, <1>4, <1>5 DEF WorkflowInvariant

\* ... and when nothing changes.
LEMMA InvariantStutter ==
  ASSUME WorkflowInvariant, UNCHANGED workflowVars
  PROVE  WorkflowInvariant'
<1>1. /\ log' = log /\ runs' = runs /\ wpc' = wpc /\ variables' = variables
      /\ results' = results /\ arguments' = arguments
  BY DEF workflowVars
<1>2. This' = This /\ Current' = Current /\ Index' = Index /\ Step' = Step
  BY <1>1 DEF This, Current, Index, Step
<1>3. WorkflowTypeOK' /\ Control' /\ Placed' /\ HandlerEntered' /\ HonestSoFar'
  BY <1>1, <1>2 DEF WorkflowInvariant, WorkflowTypeOK, Control, Placed, HandlerEntered,
                    HonestSoFar, ConditionMet, Verdict, About
<1>4. ToolRunsAuthorised'
  BY <1>1, <1>2 DEF WorkflowInvariant, ToolRunsAuthorised, About, ResultsOf
<1>5. HonestOutcome'
  BY <1>1 DEF WorkflowInvariant, HonestOutcome, About
<1>6. BranchesReproducible'
  BY <1>1, <1>2 DEF WorkflowInvariant, BranchesReproducible
<1> QED
  BY <1>3, <1>4, <1>5, <1>6 DEF WorkflowInvariant

\* In every state of every run of the program, the conjuncts above hold, among
\* them the three properties of the runner (WorkflowRunner.run and its two
\* executors).
THEOREM WorkflowInvariantHolds == WorkflowSpec => []WorkflowInvariant
<1>1. WorkflowInit => WorkflowInvariant
  BY InvariantInit
<1>2. WorkflowInvariant /\ [WorkflowNext]_workflowVars => WorkflowInvariant'
  BY InvariantStart, InvariantStep, InvariantStutter DEF WorkflowNext
<1> QED
  BY <1>1, <1>2, PTL DEF WorkflowSpec

\* The handler of a step runs only after the policy allowed it on record, for
\* this step of this run, and what came of it is recorded and returned as one
\* (SandboxedToolExecutor.execute).
THEOREM ToolRunsAlwaysAuthorised == WorkflowSpec => []ToolRunsAuthorised
<1>1. WorkflowInvariant => ToolRunsAuthorised
  BY DEF WorkflowInvariant
<1> QED
  BY <1>1, WorkflowInvariantHolds, PTL

\* What a run returns and what is on record of it agree (WorkflowRunner.run).
THEOREM OutcomesAlwaysHonest == WorkflowSpec => []HonestOutcome
<1>1. WorkflowInvariant => HonestOutcome
  BY DEF WorkflowInvariant
<1> QED
  BY <1>1, WorkflowInvariantHolds, PTL

\* Every branch a run takes, its variables and the arguments of its tools follow
\* from its workflow, the variables it was given and the results it returns,
\* however many runs the runner had before (WorkflowRunner.run).
THEOREM BranchesAlwaysReproducible == WorkflowSpec => []BranchesReproducible
<1>1. WorkflowInvariant => BranchesReproducible
  BY DEF WorkflowInvariant
<1> QED
  BY <1>1, WorkflowInvariantHolds, PTL

--------------------------------------------------------------------------------
(***************************************************************************)
(* The web API.  First what Only computes: a recursive function over the   *)
(* list, by induction on its length (a least counterexample).              *)
(***************************************************************************)

\* What is kept after one more of the list.
KeptNext(before, item, wanted) ==
  IF item \in wanted THEN Append(before, item) ELSE before

\* f is that function for n of the list.
Keeping(f, list, wanted, n) ==
  f = [k \in 0..n |-> IF k = 0 THEN <<>> ELSE KeptNext(f[k - 1], list[k], wanted)]

\* There is such a function for any number.
LEMMA KeepingExists ==
  ASSUME NEW list, NEW wanted, NEW n \in Nat
  PROVE  \E f : Keeping(f, list, wanted, n)
<1> DEFINE None_(k) == \A f : ~Keeping(f, list, wanted, k)
           T == {k \in Nat : None_(k)}
<1> SUFFICES ASSUME T # {}
             PROVE  FALSE
  OBVIOUS
<1>1. PICK least \in T : \A m \in T : least <= m
  <2> HIDE DEF None_
  <2> QED
    BY LeastNumber
<1>2. CASE least = 0
  <2> DEFINE f == [k \in 0..0 |-> <<>>]
  <2>1. Keeping(f, list, wanted, 0)
    BY DEF Keeping
  <2> QED
    BY <1>2, <2>1
<1>3. CASE least # 0
  <2>1. least - 1 \in Nat /\ least - 1 \notin T
    BY <1>1, <1>3
  <2>2. PICK f : Keeping(f, list, wanted, least - 1)
    BY <2>1
  <2> DEFINE last == KeptNext(f[least - 1], list[least], wanted)
             g == [k \in 0..least |-> IF k = least THEN last ELSE f[k]]
  <2>3. \A k \in 0..(least - 1) :
          f[k] = IF k = 0 THEN <<>> ELSE KeptNext(f[k - 1], list[k], wanted)
    BY <2>2 DEF Keeping
  <2>4. \A k \in 0..least :
          g[k] = IF k = 0 THEN <<>> ELSE KeptNext(g[k - 1], list[k], wanted)
    <3> TAKE k \in 0..least
    <3>1. CASE k = least
      <4>1. least - 1 \in 0..least /\ least - 1 # least
        BY <1>3, <2>1
      <4>2. g[least - 1] = f[least - 1]
        BY <4>1
      <4> QED
        BY <1>3, <3>1, <4>2
    <3>2. CASE k # least
      <4>1. k \in 0..(least - 1) /\ g[k] = f[k]
        BY <3>2
      <4>2. k # 0 => k - 1 \in 0..least /\ k - 1 # least
        BY <4>1
      <4>3. k # 0 => g[k - 1] = f[k - 1]
        BY <4>2
      <4> QED
        BY <2>3, <4>1, <4>3
    <3> QED
      BY <3>1, <3>2
  <2>5. Keeping(g, list, wanted, least)
    <3> DEFINE h == [k \in 0..least |->
                      IF k = 0 THEN <<>> ELSE KeptNext(g[k - 1], list[k], wanted)]
    <3>1. g = h
      BY <2>4
    <3> QED
      BY <3>1 DEF Keeping
  <2> QED
    BY <1>1, <2>5
<1> QED
  BY <1>2, <1>3

\* It is determined by the list and by which of it is wanted.
LEMMA KeepingAgrees ==
  ASSUME NEW some, NEW others, NEW wanted, NEW asWell,
         NEW n \in Nat, NEW m \in Nat, n <= m,
         \A k \in 1..n : some[k] = others[k],
         \A k \in 1..n : some[k] \in wanted <=> some[k] \in asWell,
         NEW f, Keeping(f, some, wanted, n),
         NEW g, Keeping(g, others, asWell, m)
  PROVE  \A k \in 0..n : f[k] = g[k]
<1> DEFINE T == {k \in 0..n : f[k] # g[k]}
<1> SUFFICES ASSUME T # {}
             PROVE  FALSE
  OBVIOUS
<1>1. PICK least \in T : \A k \in T : least <= k
  <2>1. T \subseteq Nat
    OBVIOUS
  <2> HIDE DEF T
  <2> QED
    BY <2>1, LeastNumber
<1>2. /\ f[least] = IF least = 0 THEN <<>>
                    ELSE KeptNext(f[least - 1], some[least], wanted)
      /\ g[least] = IF least = 0 THEN <<>>
                    ELSE KeptNext(g[least - 1], others[least], asWell)
  BY <1>1 DEF Keeping
<1>3. least # 0 /\ least - 1 \in 0..n /\ least \in 1..n
  BY <1>1, <1>2
<1>4. f[least - 1] = g[least - 1] /\ some[least] = others[least]
  BY <1>1, <1>3
<1>5. some[least] \in wanted <=> others[least] \in asWell
  BY <1>3, <1>4
<1> QED
  BY <1>1, <1>2, <1>3, <1>4, <1>5 DEF KeptNext

\* The recursive definition has a value, and that is the one.
LEMMA OnlyKeeps ==
  ASSUME NEW list, NEW wanted, Len(list) \in Nat
  PROVE  \E f : /\ Keeping(f, list, wanted, Len(list))
                /\ Only(list, wanted) = f[Len(list)]
<1> DEFINE c == CHOOSE f : Keeping(f, list, wanted, Len(list))
<1>1. Keeping(c, list, wanted, Len(list))
  BY KeepingExists
<1>2. Only(list, wanted) = c[Len(list)]
  BY DEF Only, Keeping, KeptNext
<1> QED
  BY <1>1, <1>2

\* Of an empty list nothing is kept.
LEMMA OnlyOfEmpty ==
  ASSUME NEW wanted
  PROVE  Only(<<>>, wanted) = <<>>
<1>1. PICK f : /\ Keeping(f, <<>>, wanted, Len(<<>>))
               /\ Only(<<>>, wanted) = f[Len(<<>>)]
  BY OnlyKeeps
<1> QED
  BY <1>1 DEF Keeping

\* Of a list the same is kept if the same of it is wanted.
LEMMA OnlyAgrees ==
  ASSUME NEW S, NEW list \in Seq(S), NEW wanted, NEW asWell,
         \A k \in DOMAIN list : list[k] \in wanted <=> list[k] \in asWell
  PROVE  Only(list, wanted) = Only(list, asWell)
<1>1. Len(list) \in Nat /\ DOMAIN list = 1..Len(list)
  OBVIOUS
<1>2. PICK f : /\ Keeping(f, list, wanted, Len(list))
               /\ Only(list, wanted) = f[Len(list)]
  BY <1>1, OnlyKeeps
<1>3. PICK g : /\ Keeping(g, list, asWell, Len(list))
               /\ Only(list, asWell) = g[Len(list)]
  BY <1>1, OnlyKeeps
<1>4. \A k \in 0..Len(list) : f[k] = g[k]
  <2> DEFINE n == Len(list)
  <2>1. n \in Nat /\ n <= n
    BY <1>1
  <2>2. \A k \in 1..n : list[k] = list[k] /\ (list[k] \in wanted <=> list[k] \in asWell)
    BY <1>1
  <2>3. Keeping(f, list, wanted, n) /\ Keeping(g, list, asWell, n)
    BY <1>2, <1>3
  <2> HIDE DEF n
  <2>4. \A k \in 0..n : f[k] = g[k]
    BY <2>1, <2>2, <2>3, KeepingAgrees
  <2> QED
    BY <2>4 DEF n
<1> QED
  BY <1>1, <1>2, <1>3, <1>4

\* What is appended is kept if it is wanted.
LEMMA OnlyOfAppended ==
  ASSUME NEW S, NEW list \in Seq(S), NEW item \in S, NEW wanted
  PROVE  Only(Append(list, item), wanted) = KeptNext(Only(list, wanted), item, wanted)
<1> DEFINE more == Append(list, item)
           n == Len(list)
<1>1. /\ n \in Nat /\ Len(more) = n + 1 /\ more[n + 1] = item
      /\ \A k \in 1..n : more[k] = list[k]
  OBVIOUS
<1>2. PICK f : /\ Keeping(f, list, wanted, n)
               /\ Only(list, wanted) = f[n]
  BY <1>1, OnlyKeeps
<1>3. PICK g : /\ Keeping(g, more, wanted, n + 1)
               /\ Only(more, wanted) = g[n + 1]
  <2>1. Len(more) \in Nat
    BY <1>1
  <2>2. PICK g : /\ Keeping(g, more, wanted, Len(more))
                 /\ Only(more, wanted) = g[Len(more)]
    <3> HIDE DEF more
    <3> QED
      BY <2>1, OnlyKeeps
  <2> QED
    BY <1>1, <2>2
<1> HIDE DEF n, more
<1>4. \A k \in 0..n : f[k] = g[k]
  <2>1. \A k \in 1..n : list[k] = more[k]
    BY <1>1
  <2>2. n <= n + 1 /\ n + 1 \in Nat
    BY <1>1
  <2>3. PICK asWell : asWell = wanted
    OBVIOUS
  <2>4. \A k \in 1..n : list[k] \in wanted <=> list[k] \in asWell
    BY <2>3
  <2>5. Keeping(f, list, wanted, n) /\ Keeping(g, more, asWell, n + 1)
    BY <1>2, <1>3, <2>3
  <2> HIDE <2>3
  <2> QED
    BY <1>1, <2>1, <2>2, <2>4, <2>5, KeepingAgrees
<1>5. g[n + 1] = KeptNext(g[n], more[n + 1], wanted)
  <2>1. n + 1 \in 0..(n + 1) /\ n + 1 # 0 /\ (n + 1) - 1 = n
    BY <1>1
  <2>2. \A k \in 0..(n + 1) :
          g[k] = IF k = 0 THEN <<>> ELSE KeptNext(g[k - 1], more[k], wanted)
    BY <1>3 DEF Keeping
  <2>3. g[n + 1] = KeptNext(g[(n + 1) - 1], more[n + 1], wanted)
    BY <2>1, <2>2
  <2> QED
    BY <2>1, <2>3
<1>6. f[n] = g[n]
  BY <1>1, <1>4
<1> QED
  BY <1>1, <1>2, <1>3, <1>5, <1>6 DEF more

\* r holds of the first n of the list, at places not after their own there and
\* in their order.
KeptOf(r, list, wanted, S, n) ==
  /\ r \in Seq(S)
  /\ \A k \in DOMAIN r : \E j \in 1..n : k <= j /\ r[k] = list[j] /\ list[j] \in wanted
  /\ \A k, l \in DOMAIN r : k < l =>
       \E i, j \in 1..n : i < j /\ r[k] = list[i] /\ r[l] = list[j]

\* With no more kept, it holds of a longer part of the list.
LEMMA KeptNoMore ==
  ASSUME NEW list, NEW wanted, NEW S, NEW n \in Nat \ {0}, NEW r,
         KeptOf(r, list, wanted, S, n - 1), Len(r) <= n - 1
  PROVE  KeptOf(r, list, wanted, S, n) /\ Len(r) <= n
<1>1. 1..(n - 1) \subseteq 1..n
  OBVIOUS
<1>2. r \in Seq(S) /\ Len(r) \in Nat
  BY DEF KeptOf
<1>3. \A k \in DOMAIN r : \E j \in 1..n : k <= j /\ r[k] = list[j] /\ list[j] \in wanted
  <2> TAKE k \in DOMAIN r
  <2>1. PICK j \in 1..(n - 1) : k <= j /\ r[k] = list[j] /\ list[j] \in wanted
    BY DEF KeptOf
  <2> QED
    BY <1>1, <2>1
<1>4. ASSUME NEW k \in DOMAIN r, NEW l \in DOMAIN r, k < l
      PROVE  \E i, j \in 1..n : i < j /\ r[k] = list[i] /\ r[l] = list[j]
  <2>1. PICK i \in 1..(n - 1), j \in 1..(n - 1) :
          i < j /\ r[k] = list[i] /\ r[l] = list[j]
    BY <1>4 DEF KeptOf
  <2> QED
    BY <1>1, <2>1
<1> QED
  BY <1>2, <1>3, <1>4 DEF KeptOf

\* With one more kept, the next of the list.
LEMMA KeptOneMore ==
  ASSUME NEW list, NEW wanted, NEW S, NEW n \in Nat \ {0}, NEW r, NEW item \in S,
         KeptOf(r, list, wanted, S, n - 1), Len(r) <= n - 1,
         list[n] = item, item \in wanted,
         NEW more, more = Append(r, item)
  PROVE  KeptOf(more, list, wanted, S, n) /\ Len(more) <= n
<1>1. r \in Seq(S)
  BY DEF KeptOf
<1>2. PICK size \in Nat : size = Len(r)
  BY <1>1
<1>3. /\ more \in Seq(S) /\ Len(more) = size + 1 /\ DOMAIN more = 1..(size + 1)
      /\ more[size + 1] = item /\ \A k \in 1..size : more[k] = r[k]
      /\ DOMAIN r = 1..size /\ size <= n - 1
  BY <1>1, <1>2
<1>4. /\ n \in 1..n /\ Len(more) <= n /\ size + 1 <= n
      /\ \A k \in DOMAIN more : k \in DOMAIN r \/ k = size + 1
      /\ \A k \in DOMAIN r : more[k] = r[k]
      /\ \A k \in DOMAIN more, l \in DOMAIN more : k < l => k \in DOMAIN r
  BY <1>3
<1>5. KeptOf(r, list, wanted, S, n)
  BY KeptNoMore
<1>6. ASSUME NEW k \in DOMAIN more
      PROVE  \E j \in 1..n : k <= j /\ more[k] = list[j] /\ list[j] \in wanted
  <2>1. CASE k \in DOMAIN r
    BY <1>4, <1>5, <2>1 DEF KeptOf
  <2>2. CASE k = size + 1
    BY <1>3, <1>4, <2>2
  <2> QED
    BY <1>4, <2>1, <2>2
<1>7. ASSUME NEW k \in DOMAIN more, NEW l \in DOMAIN more, k < l
      PROVE  \E i, j \in 1..n : i < j /\ more[k] = list[i] /\ more[l] = list[j]
  <2>1. k \in DOMAIN r /\ more[k] = r[k]
    BY <1>4, <1>7
  <2>2. CASE l \in DOMAIN r
    <3>1. more[l] = r[l]
      BY <1>4, <2>2
    <3>2. PICK i \in 1..n, j \in 1..n : i < j /\ r[k] = list[i] /\ r[l] = list[j]
      BY <1>5, <1>7, <2>1, <2>2 DEF KeptOf
    <3> QED
      BY <2>1, <3>1, <3>2
  <2>3. CASE l = size + 1
    <3>1. PICK i \in 1..(n - 1) : r[k] = list[i]
      BY <2>1 DEF KeptOf
    <3>2. i \in 1..n /\ i < n /\ n \in 1..n
      OBVIOUS
    <3>3. more[l] = list[n]
      BY <1>3, <2>3
    <3> QED
      BY <2>1, <3>1, <3>2, <3>3
  <2> QED
    BY <1>4, <2>2, <2>3
<1> QED
  BY <1>3, <1>4, <1>6, <1>7 DEF KeptOf

\* What is kept is of the list, wanted, and not after its place there.
LEMMA OnlyPlaces ==
  ASSUME NEW S, NEW list \in Seq(S), NEW wanted
  PROVE  KeptOf(Only(list, wanted), list, wanted, S, Len(list))
<1> DEFINE n == Len(list)
<1>1. n \in Nat /\ \A k \in 1..n : list[k] \in S
  OBVIOUS
<1>2. PICK f : /\ Keeping(f, list, wanted, n)
               /\ Only(list, wanted) = f[n]
  BY <1>1, OnlyKeeps
<1> DEFINE T == {k \in 0..n : ~(KeptOf(f[k], list, wanted, S, k) /\ Len(f[k]) <= k)}
<1> SUFFICES T = {}
  BY <1>1, <1>2
<1> SUFFICES ASSUME T # {}
             PROVE  FALSE
  OBVIOUS
<1> HIDE DEF n
<1>3. PICK least \in T : \A k \in T : least <= k
  <2>1. T \subseteq Nat
    BY <1>1
  <2> HIDE DEF T
  <2> QED
    BY <2>1, LeastNumber
<1>4. /\ least \in 0..n
      /\ f[least] = IF least = 0 THEN <<>>
                    ELSE KeptNext(f[least - 1], list[least], wanted)
  BY <1>1, <1>3, <1>2 DEF Keeping
<1>5. CASE least = 0
  <2>1. f[least] = <<>>
    BY <1>4, <1>5
  <2>2. <<>> \in Seq(S) /\ DOMAIN <<>> = {} /\ Len(<<>>) = 0
    OBVIOUS
  <2> QED
    BY <1>3, <1>5, <2>1, <2>2 DEF KeptOf
<1>6. CASE least # 0
  <2>1. least - 1 \in 0..n /\ least \in 1..n /\ least - 1 \notin T
    BY <1>1, <1>3, <1>4, <1>6
  <2> DEFINE r == f[least - 1]
             item == list[least]
  <2>2. KeptOf(r, list, wanted, S, least - 1) /\ Len(r) <= least - 1
    BY <2>1
  <2>3. f[least] = KeptNext(r, item, wanted) /\ item \in S
    BY <1>1, <1>4, <1>6, <2>1
  <2>5. CASE item \in wanted
    <3>1. f[least] = Append(r, item)
      BY <2>3, <2>5 DEF KeptNext
    <3>2. list[least] = item /\ least \in Nat \ {0}
      BY <2>1
    <3> HIDE DEF r, item
    <3>3. KeptOf(f[least], list, wanted, S, least) /\ Len(f[least]) <= least
      BY <2>2, <2>3, <2>5, <3>1, <3>2, KeptOneMore
    <3> QED
      BY <1>3, <3>3
  <2>6. CASE item \notin wanted
    <3>1. f[least] = r
      BY <2>3, <2>6 DEF KeptNext
    <3>2. least \in Nat \ {0}
      BY <2>1
    <3> HIDE DEF r
    <3>3. KeptOf(r, list, wanted, S, least) /\ Len(r) <= least
      BY <2>2, <3>2, KeptNoMore
    <3> QED
      BY <1>3, <3>1, <3>3
  <2> QED
    BY <2>5, <2>6
<1> QED
  BY <1>5, <1>6

--------------------------------------------------------------------------------
(***************************************************************************)
(* Files of records.                                                       *)
(***************************************************************************)

Record(S) == [index : Nat, what : S]

\* A line that was not ended is there.
FileOf(S) ==
  {file \in [lines : Seq(Seq(Record(S))), open : BOOLEAN] :
     file.open => Len(file.lines) > 0}

\* What a file of records can be once more is appended to it, or was tried to.
Appended(f, g, what) ==
  \/ g.lines = f.lines
  \/ g.lines = Append(f.lines, <<Line(f, what)>>)

\* What a sequence one longer is.
LEMMA AppendedFacts ==
  ASSUME NEW T, NEW s \in Seq(T), NEW e \in T
  PROVE  /\ Append(s, e) \in Seq(T) /\ Len(s) \in Nat
         /\ Len(Append(s, e)) = Len(s) + 1
         /\ DOMAIN Append(s, e) = 1..(Len(s) + 1)
         /\ Append(s, e)[Len(s) + 1] = e
         /\ \A n \in 1..Len(s) : Append(s, e)[n] = s[n]
OBVIOUS

\* A file with no lines is one.
LEMMA NoLinesFile ==
  ASSUME NEW S
  PROVE  NoLines \in FileOf(S)
BY DEF NoLines, FileOf

\* A file whose last line was spoilt cannot be loaded.
LEMMA SpoiltFile ==
  ASSUME NEW S, NEW f \in FileOf(S), f.open, NEW open \in BOOLEAN,
         NEW g, g = [lines |-> LastSpoilt(f), open |-> open]
  PROVE  g \in FileOf(S) /\ ~CanBeLoaded(g)
<1> DEFINE lines == f.lines
           last == Len(lines)
<1>1. lines \in Seq(Seq(Record(S))) /\ last \in Nat /\ last > 0
  BY DEF FileOf
<1> HIDE DEF lines
<1>2. last \in 1..last /\ <<>> \in Seq(Record(S)) /\ DOMAIN lines = 1..last
  BY <1>1
<1>3. /\ [lines EXCEPT ![last] = <<>>] \in Seq(Seq(Record(S)))
      /\ Len([lines EXCEPT ![last] = <<>>]) = last
      /\ last \in DOMAIN [lines EXCEPT ![last] = <<>>]
      /\ [lines EXCEPT ![last] = <<>>][last] = <<>>
  BY <1>1, <1>2, ExceptSeq
<1>4. g.lines = [lines EXCEPT ![last] = <<>>] /\ g.open = open
  BY DEF LastSpoilt, lines
<1>5. g \in FileOf(S)
  BY <1>1, <1>3, <1>4 DEF FileOf
<1> QED
  BY <1>3, <1>4, <1>5 DEF CanBeLoaded

\* A file one line longer.
LEMMA LongerFile ==
  ASSUME NEW S, NEW f \in FileOf(S), NEW line \in Seq(Record(S)), NEW open \in BOOLEAN,
         NEW g, g = [lines |-> Append(f.lines, line), open |-> open]
  PROVE  /\ g \in FileOf(S)
         /\ CanBeLoaded(g) <=> CanBeLoaded(f) /\ line # <<>>
<1> DEFINE lines == f.lines
           more == Append(lines, line)
<1>1. lines \in Seq(Seq(Record(S)))
  BY DEF FileOf
<1> HIDE DEF lines
<1>2. /\ Len(lines) \in Nat /\ DOMAIN lines = 1..Len(lines)
      /\ more \in Seq(Seq(Record(S))) /\ Len(more) = Len(lines) + 1
      /\ DOMAIN more = 1..(Len(lines) + 1) /\ more[Len(lines) + 1] = line
      /\ \A n \in 1..Len(lines) : more[n] = lines[n]
  BY <1>1
<1> HIDE DEF more
<1>3. g.lines = more /\ g.open = open
  BY DEF lines, more
<1>4. g \in FileOf(S)
  BY <1>2, <1>3 DEF FileOf, more, lines
<1>5. CanBeLoaded(g) <=> \A n \in DOMAIN more : more[n] # <<>>
  BY <1>3 DEF CanBeLoaded
<1>6. CanBeLoaded(f) <=> \A n \in DOMAIN lines : lines[n] # <<>>
  BY DEF CanBeLoaded, lines
<1>7. (\A n \in DOMAIN more : more[n] # <<>>)
        <=> (\A n \in DOMAIN lines : lines[n] # <<>>) /\ line # <<>>
  <2> DEFINE size == Len(lines)
  <2>1. /\ size \in Nat /\ DOMAIN more = 1..(size + 1) /\ DOMAIN lines = 1..size
        /\ more[size + 1] = line /\ \A n \in 1..size : more[n] = lines[n]
    BY <1>2
  <2> HIDE DEF size
  <2>2. \A n : n \in 1..(size + 1) <=> n \in 1..size \/ n = size + 1
    BY <2>1
  <2> QED
    BY <2>1, <2>2
<1> QED
  BY <1>4, <1>5, <1>6, <1>7

\* What an append leaves, done or not: a file that cannot be loaded, or one with
\* the record or without it; with it if it was done.
LEMMA AppendLeaves ==
  ASSUME NEW S, NEW f \in FileOf(S), NEW what \in S, NEW g,
         g \in AppendFails(f, Line(f, what)) \/ g = AppendLine(f, Line(f, what))
  PROVE  /\ g \in FileOf(S)
         /\ CanBeLoaded(g) => CanBeLoaded(f) /\ Appended(f, g, what)
         /\ CanBeLoaded(g) /\ g = AppendLine(f, Line(f, what)) =>
              g.lines = Append(f.lines, <<Line(f, what)>>)
<1> DEFINE record == Line(f, what)
<1>1. /\ f.lines \in Seq(Seq(Record(S))) /\ f.open \in BOOLEAN
      /\ f = [lines |-> f.lines, open |-> f.open]
  BY DEF FileOf
<1>2. Line(f, what) \in Record(S)
  BY <1>1 DEF Line, CountLines, Record
<1>3. <<record>> \in Seq(Record(S)) /\ <<record>> # <<>> /\ <<>> \in Seq(Record(S))
  BY <1>2
<1> HIDE DEF record
<1>4. CASE f.open
  <2>1. AppendFails(f, record) = {f, [lines |-> LastSpoilt(f), open |-> f.open]}
    <3>1. \A other : [f EXCEPT !.lines = other] = [lines |-> other, open |-> f.open]
      BY DEF FileOf
    <3> DEFINE spoilt == LastSpoilt(f)
    <3> HIDE DEF spoilt
    <3>2. [f EXCEPT !.lines = spoilt] = [lines |-> spoilt, open |-> f.open]
      BY <3>1
    <3>3. AppendFails(f, record) = {f} \cup {[f EXCEPT !.lines = spoilt]}
      BY <1>4 DEF AppendFails, spoilt
    <3> QED
      BY <3>2, <3>3 DEF spoilt
  <2>2. AppendLine(f, record) = [lines |-> LastSpoilt(f), open |-> FALSE]
    BY <1>4 DEF AppendLine
  <2>3. CASE g = f
    <3>1. g # AppendLine(f, record)
      BY <1>4, <2>2, <2>3
    <3> QED
      BY <2>3, <3>1 DEF Appended, record
  <2>4. CASE g # f
    <3>1. \E open \in BOOLEAN : g = [lines |-> LastSpoilt(f), open |-> open]
      BY <1>1, <2>1, <2>2, <2>4 DEF record
    <3>2. g \in FileOf(S) /\ ~CanBeLoaded(g)
      BY <1>4, <3>1, SpoiltFile
    <3> QED
      BY <3>2
  <2> QED
    BY <2>3, <2>4
<1>5. CASE ~f.open
  <2>1. AppendFails(f, record) =
          {f} \cup {[lines |-> Append(f.lines, line), open |-> TRUE] :
                      line \in {<<>>, <<record>>}}
    BY <1>5 DEF AppendFails
  <2>2. AppendLine(f, record) = [lines |-> Append(f.lines, <<record>>), open |-> FALSE]
    BY <1>5 DEF AppendLine
  <2>3. Len(f.lines) \in Nat /\ Len(Append(f.lines, <<record>>)) = Len(f.lines) + 1
    BY <1>1, <1>3
  <2>4. f # AppendLine(f, record)
    BY <2>2, <2>3
  <2>5. CASE g = f
    BY <2>4, <2>5 DEF Appended, record
  <2>6. CASE g = [lines |-> Append(f.lines, <<>>), open |-> TRUE]
    <3>1. g \in FileOf(S) /\ ~CanBeLoaded(g)
      <4>1. \A line \in Seq(Record(S)), open \in BOOLEAN :
              g = [lines |-> Append(f.lines, line), open |-> open] =>
                /\ g \in FileOf(S)
                /\ CanBeLoaded(g) <=> CanBeLoaded(f) /\ line # <<>>
        BY LongerFile
      <4> QED
        BY <1>3, <2>6, <4>1
    <3> QED
      BY <3>1
  <2>7. CASE \E open \in BOOLEAN : g = [lines |-> Append(f.lines, <<record>>), open |-> open]
    <3>1. PICK open \in BOOLEAN : g = [lines |-> Append(f.lines, <<record>>), open |-> open]
      BY <2>7
    <3>2. g \in FileOf(S) /\ (CanBeLoaded(g) => CanBeLoaded(f))
      <4>1. \A line \in Seq(Record(S)), ended \in BOOLEAN :
              g = [lines |-> Append(f.lines, line), open |-> ended] =>
                /\ g \in FileOf(S)
                /\ CanBeLoaded(g) <=> CanBeLoaded(f) /\ line # <<>>
        BY LongerFile
      <4> QED
        BY <1>3, <3>1, <4>1
    <3>3. g.lines = Append(f.lines, <<record>>)
      BY <3>1
    <3> QED
      BY <3>2, <3>3 DEF Appended, record
  <2>8. \/ g = f
        \/ g = [lines |-> Append(f.lines, <<>>), open |-> TRUE]
        \/ \E open \in BOOLEAN : g = [lines |-> Append(f.lines, <<record>>), open |-> open]
    BY <2>1, <2>2 DEF record
  <2> QED
    BY <2>5, <2>6, <2>7, <2>8
<1> QED
  BY <1>1, <1>4, <1>5

\* A line that can be read after an append could be before, or is that record.
LEMMA ReadableLeft ==
  ASSUME NEW S, NEW f \in FileOf(S), NEW what \in S, NEW g,
         g \in AppendFails(f, Line(f, what)) \/ g = AppendLine(f, Line(f, what))
  PROVE  \A n \in Readable(g) :
           \/ n \in Readable(f) /\ g.lines[n] = f.lines[n]
           \/ g.lines[n] = <<Line(f, what)>>
<1> DEFINE record == Line(f, what)
           lines == f.lines
           last == Len(lines)
<1>1. lines \in Seq(Seq(Record(S))) /\ last \in Nat /\ DOMAIN lines = 1..last
  BY DEF FileOf
<1>2. record \in Record(S)
  BY <1>1 DEF Line, CountLines, Record
<1>3. \/ g.lines = lines
      \/ g.lines = [lines EXCEPT ![last] = <<>>]
      \/ \E line \in {<<>>, <<record>>} : g.lines = Append(lines, line)
  <2> DEFINE spoilt == LastSpoilt(f)
  <2>1. spoilt = [lines EXCEPT ![last] = <<>>]
    BY DEF LastSpoilt
  <2>2. \A other : [f EXCEPT !.lines = other].lines = other
    BY DEF FileOf
  <2> HIDE DEF spoilt, lines, last, record
  <2>3. CASE g = AppendLine(f, Line(f, what))
    BY <2>1, <2>3 DEF AppendLine, spoilt, record, lines
  <2>4. CASE g \in AppendFails(f, Line(f, what)) /\ f.open
    <3>1. g = f \/ g = [f EXCEPT !.lines = spoilt]
      BY <2>4 DEF AppendFails, spoilt
    <3>2. [f EXCEPT !.lines = spoilt].lines = spoilt
      BY <2>2
    <3> QED
      BY <2>1, <3>1, <3>2 DEF lines
  <2>5. CASE g \in AppendFails(f, Line(f, what)) /\ ~f.open
    BY <2>5 DEF AppendFails, record, lines
  <2> QED
    BY <2>3, <2>4, <2>5
<1> HIDE DEF record
<1>4. <<record>> \in Seq(Record(S)) /\ <<>> \in Seq(Record(S))
  BY <1>2
<1>5. CASE g.lines = lines
  BY <1>5 DEF Readable
<1>6. CASE g.lines = [lines EXCEPT ![last] = <<>>]
  <2>1. /\ DOMAIN g.lines = DOMAIN lines
        /\ \A n \in DOMAIN lines : g.lines[n] = <<>> \/ g.lines[n] = lines[n]
    BY <1>1, <1>6
  <2> QED
    BY <2>1 DEF Readable
<1>7. ASSUME NEW line \in {<<>>, <<record>>}, g.lines = Append(lines, line)
      PROVE  \A n \in Readable(g) :
               (n \in Readable(f) /\ g.lines[n] = lines[n]) \/ g.lines[n] = <<record>>
  <2>1. line \in Seq(Record(S))
    BY <1>4
  <2> DEFINE more == Append(lines, line)
  <2> HIDE DEF lines, last
  <2>2. /\ Len(lines) \in Nat /\ DOMAIN lines = 1..Len(lines)
        /\ DOMAIN more = 1..(Len(lines) + 1) /\ more[Len(lines) + 1] = line
        /\ \A n \in 1..Len(lines) : more[n] = lines[n]
    BY <1>1, <2>1, AppendedFacts
  <2> HIDE DEF more
  <2>3. \A n \in DOMAIN more : n = Len(lines) + 1 \/ n \in DOMAIN lines
    BY <2>2
  <2>4. g.lines = more
    BY <1>7 DEF more
  <2>5. \A n \in DOMAIN g.lines : g.lines[n] = line \/ (n \in DOMAIN lines /\ g.lines[n] = lines[n])
    BY <2>2, <2>3, <2>4
  <2> QED
    BY <2>5 DEF Readable, lines
<1> QED
  BY <1>3, <1>5, <1>6, <1>7 DEF record

\* What a file that can be loaded holds.
LEMMA ContentsType ==
  ASSUME NEW S, NEW f \in FileOf(S), CanBeLoaded(f)
  PROVE  /\ Contents(f) \in Seq(S)
         /\ Len(Contents(f)) = Len(f.lines) /\ Len(f.lines) \in Nat
         /\ DOMAIN f.lines = 1..Len(f.lines)
         /\ DOMAIN Contents(f) = 1..Len(f.lines)
         /\ DOMAIN Loaded(f) = 1..Len(f.lines)
         /\ \A n \in 1..Len(f.lines) :
              /\ Contents(f)[n] = f.lines[n][1].what /\ Contents(f)[n] \in S
              /\ Loaded(f)[n] = f.lines[n][1]
<1> DEFINE lines == f.lines
           size == Len(lines)
<1>1. lines \in Seq(Seq(Record(S))) /\ size \in Nat /\ DOMAIN lines = 1..size
  BY DEF FileOf
<1>0. \A n \in DOMAIN lines : lines[n] # <<>>
  BY DEF CanBeLoaded
<1> HIDE DEF lines
<1>2. \A n \in 1..size : lines[n] \in Seq(Record(S)) /\ lines[n] # <<>>
  <2>1. \A n \in 1..Len(lines) : lines[n] \in Seq(Record(S))
    BY <1>1, ElementOfSeq
  <2> QED
    BY <1>0, <1>1, <2>1
<1>3. \A n \in 1..size : lines[n][1] \in Record(S)
  BY <1>2
<1>4. \A n \in 1..size : lines[n][1].what \in S
  BY <1>3 DEF Record
<1>5. Loaded(f) = [n \in 1..size |-> lines[n][1]]
  BY <1>1 DEF Loaded, lines
<1>6. Contents(f) = [n \in 1..size |-> lines[n][1].what]
  BY <1>5 DEF Contents
<1> HIDE DEF size
<1>7. [n \in 1..size |-> lines[n][1].what] \in Seq(S)
  BY <1>1, <1>4 DEF size
<1>8. Len([n \in 1..size |-> lines[n][1].what]) = size
  BY <1>1 DEF size
<1> QED
  BY <1>1, <1>4, <1>5, <1>6, <1>7, <1>8 DEF lines, size

\* One more record.
LEMMA ContentsAppended ==
  ASSUME NEW S, NEW f \in FileOf(S), NEW g \in FileOf(S), NEW what \in S,
         CanBeLoaded(f), CanBeLoaded(g),
         g.lines = Append(f.lines, <<Line(f, what)>>)
  PROVE  /\ Contents(g) = Append(Contents(f), what)
         /\ DOMAIN g.lines = 1..(Len(f.lines) + 1)
         /\ \A n \in 1..Len(f.lines) : Loaded(g)[n] = Loaded(f)[n]
         /\ Loaded(g)[Len(f.lines) + 1].index = Len(f.lines)
<1> DEFINE lines == f.lines
           size == Len(lines)
           record == Line(f, what)
<1>1. lines \in Seq(Seq(Record(S))) /\ size \in Nat
  BY DEF FileOf
<1>2. record.what = what /\ record.index = size /\ record \in Record(S)
  BY <1>1 DEF Line, CountLines, Record
<1>3. g.lines = Append(lines, <<record>>)
  OBVIOUS
<1> HIDE DEF lines, record
<1>4. /\ Len(g.lines) = size + 1 /\ DOMAIN g.lines = 1..(size + 1)
      /\ g.lines[size + 1] = <<record>>
      /\ \A n \in 1..size : g.lines[n] = lines[n]
  <2> DEFINE line == <<record>>
  <2>1. line \in Seq(Record(S))
    BY <1>2
  <2> HIDE DEF line
  <2>2. g.lines = Append(lines, line)
    BY <1>3 DEF line
  <2>3. /\ Len(g.lines) = size + 1 /\ DOMAIN g.lines = 1..(size + 1)
        /\ g.lines[size + 1] = line
        /\ \A n \in 1..size : g.lines[n] = lines[n]
    <3> DEFINE more == Append(lines, line)
    <3>1. /\ Len(more) = size + 1 /\ DOMAIN more = 1..(size + 1)
          /\ more[size + 1] = line /\ \A n \in 1..size : more[n] = lines[n]
      BY <1>1, <2>1, AppendedFacts
    <3> HIDE DEF more
    <3>2. g.lines = more
      BY <2>2 DEF more
    <3> QED
      BY <3>1, <3>2
  <2> QED
    BY <2>3 DEF line
<1>5. /\ Contents(f) \in Seq(S) /\ Len(Contents(f)) = size
      /\ \A n \in 1..size : /\ Contents(f)[n] = lines[n][1].what
                            /\ Contents(f)[n] \in S /\ Loaded(f)[n] = lines[n][1]
  BY ContentsType DEF lines
<1>6. /\ Contents(g) \in Seq(S) /\ Len(Contents(g)) = size + 1
      /\ \A n \in 1..(size + 1) : /\ Contents(g)[n] = g.lines[n][1].what
                                  /\ Loaded(g)[n] = g.lines[n][1]
  <2>1. /\ Contents(g) \in Seq(S) /\ Len(Contents(g)) = Len(g.lines)
        /\ \A n \in 1..Len(g.lines) : /\ Contents(g)[n] = g.lines[n][1].what
                                      /\ Loaded(g)[n] = g.lines[n][1]
    BY ContentsType
  <2> HIDE DEF size
  <2> QED
    BY <1>4, <2>1
<1> HIDE DEF size
<1>7. Contents(g)[size + 1] = what /\ Loaded(g)[size + 1].index = size
  BY <1>1, <1>2, <1>4, <1>6
<1>8. \A n \in 1..size : Contents(g)[n] = Contents(f)[n] /\ Loaded(g)[n] = Loaded(f)[n]
  <2> TAKE n \in 1..size
  <2>1. n \in 1..(size + 1)
    BY <1>1 DEF size
  <2>2. /\ Contents(g)[n] = g.lines[n][1].what /\ Loaded(g)[n] = g.lines[n][1]
    BY <1>6, <2>1
  <2>3. g.lines[n] = lines[n]
    BY <1>4
  <2>4. Contents(f)[n] = lines[n][1].what /\ Loaded(f)[n] = lines[n][1]
    BY <1>5
  <2> QED
    BY <2>2, <2>3, <2>4
<1>9. Contents(g) = Append(Contents(f), what)
  <2> DEFINE some == Contents(f)
             more == Contents(g)
  <2>1. /\ some \in Seq(S) /\ Len(some) = size /\ more \in Seq(S) /\ Len(more) = size + 1
        /\ more[size + 1] = what /\ \A n \in 1..size : more[n] = some[n]
    BY <1>5, <1>6, <1>7, <1>8
  <2> HIDE DEF some, more
  <2>2. /\ Append(some, what) \in Seq(S) /\ Len(Append(some, what)) = size + 1
        /\ \A n \in 1..(size + 1) : Append(some, what)[n] = more[n]
    BY <1>1, <2>1
  <2>3. more = Append(some, what)
    BY <2>1, <2>2, SeqEqual
  <2> QED
    BY <2>3 DEF some, more
<1> QED
  BY <1>4, <1>7, <1>8, <1>9 DEF size, lines

\* After an append every record is the one appended or was there.
LEMMA ContentsLeft ==
  ASSUME NEW S, NEW f \in FileOf(S), NEW g \in FileOf(S), NEW what \in S,
         CanBeLoaded(f), CanBeLoaded(g), Appended(f, g, what)
  PROVE  /\ \A n \in DOMAIN f.lines :
              n \in DOMAIN g.lines /\ Contents(g)[n] = Contents(f)[n]
         /\ \A n \in DOMAIN g.lines \ DOMAIN f.lines :
              Contents(g)[n] = what /\ \A m \in DOMAIN f.lines : m < n
<1>1. /\ Contents(f) \in Seq(S) /\ Len(Contents(f)) = Len(f.lines)
      /\ Len(f.lines) \in Nat /\ DOMAIN f.lines = 1..Len(f.lines)
  BY ContentsType
<1>2. CASE g.lines = f.lines
  BY <1>2 DEF Contents, Loaded
<1>3. CASE g.lines = Append(f.lines, <<Line(f, what)>>)
  <2>1. /\ Contents(g) = Append(Contents(f), what)
        /\ DOMAIN g.lines = 1..(Len(f.lines) + 1)
    BY <1>3, ContentsAppended
  <2> DEFINE some == Contents(f)
             size == Len(f.lines)
  <2> HIDE DEF some, size
  <2>2. /\ some \in Seq(S) /\ Len(some) = size /\ size \in Nat
        /\ Contents(g) = Append(some, what)
    BY <1>1, <2>1 DEF some, size
  <2>3. \A n \in 1..size : Contents(g)[n] = some[n]
    BY <2>2
  <2>4. Contents(g)[size + 1] = what
    BY <2>2
  <2> QED
    BY <1>1, <2>1, <2>2, <2>3, <2>4 DEF some, size
<1> QED
  BY <1>2, <1>3 DEF Appended

\* The records whose append returned are on a file that is whole.
LEMMA ReturnedOnFile ==
  ASSUME NEW S, NEW f \in FileOf(S), NEW returned \in Seq(S),
         Whole(f, returned), CanBeLoaded(f)
  PROVE  \A k \in DOMAIN returned :
           \E n \in DOMAIN f.lines : Contents(f)[n] = returned[k]
<1>1. /\ Contents(f) \in Seq(S) /\ Len(Contents(f)) = Len(f.lines)
      /\ DOMAIN f.lines = 1..Len(f.lines)
  BY ContentsType
<1>2. Only(Contents(f), Range(returned)) = returned
  BY DEF Whole
<1>3. KeptOf(returned, Contents(f), Range(returned), S, Len(f.lines))
  BY <1>1, <1>2, OnlyPlaces
<1> QED
  BY <1>1, <1>3 DEF KeptOf

\* A whole file stays whole when a record is appended that is not on it, whether
\* the append returns or not.
LEMMA WholeKept ==
  ASSUME NEW S, NEW f \in FileOf(S), NEW what \in S, NEW returned \in Seq(S),
         Whole(f, returned),
         CanBeLoaded(f) => \A n \in DOMAIN f.lines : Contents(f)[n] # what,
         NEW g
  PROVE  /\ g \in AppendFails(f, Line(f, what)) => Whole(g, returned)
         /\ g = AppendLine(f, Line(f, what)) => Whole(g, Append(returned, what))
<1> SUFFICES ASSUME CanBeLoaded(g),
                    g \in AppendFails(f, Line(f, what)) \/ g = AppendLine(f, Line(f, what))
             PROVE  /\ g \in AppendFails(f, Line(f, what)) => Whole(g, returned)
                    /\ g = AppendLine(f, Line(f, what)) => Whole(g, Append(returned, what))
  BY DEF Whole
<1>1. /\ g \in FileOf(S) /\ CanBeLoaded(f) /\ Appended(f, g, what)
      /\ g = AppendLine(f, Line(f, what)) =>
           g.lines = Append(f.lines, <<Line(f, what)>>)
  BY AppendLeaves
<1>2. what \notin Range(returned)
  <2>1. \A k \in DOMAIN returned :
          \E n \in DOMAIN f.lines : Contents(f)[n] = returned[k]
    BY <1>1, ReturnedOnFile
  <2> QED
    BY <1>1, <2>1 DEF Range
<1>3. /\ Only(Contents(f), Range(returned)) = returned
      /\ \A n \in DOMAIN Loaded(f) : Loaded(f)[n].index = n - 1
  BY <1>1 DEF Whole
<1>4. /\ Contents(f) \in Seq(S) /\ DOMAIN Contents(f) = 1..Len(f.lines)
      /\ DOMAIN f.lines = 1..Len(f.lines)
      /\ DOMAIN Loaded(f) = 1..Len(f.lines) /\ Len(f.lines) \in Nat
  BY <1>1, ContentsType
<1>5. CASE g.lines = f.lines
  <2>1. Contents(g) = Contents(f) /\ Loaded(g) = Loaded(f)
    BY <1>5 DEF Contents, Loaded
  <2>2. g # AppendLine(f, Line(f, what))
    <3>1. f.lines # Append(f.lines, <<Line(f, what)>>)
      <4>1. f.lines \in Seq(Seq(Record(S))) /\ Len(f.lines) \in Nat
        BY DEF FileOf
      <4> QED
        BY <4>1
    <3> QED
      BY <1>1, <1>5, <3>1
  <2> QED
    BY <1>3, <2>1, <2>2 DEF Whole
<1>6. CASE g.lines = Append(f.lines, <<Line(f, what)>>)
  <2>1. /\ Contents(g) = Append(Contents(f), what)
        /\ DOMAIN g.lines = 1..(Len(f.lines) + 1)
        /\ \A n \in 1..Len(f.lines) : Loaded(g)[n] = Loaded(f)[n]
        /\ Loaded(g)[Len(f.lines) + 1].index = Len(f.lines)
    BY <1>1, <1>6, ContentsAppended
  <2>2. \A n \in DOMAIN Loaded(g) : Loaded(g)[n].index = n - 1
    <3> DEFINE size == Len(f.lines)
    <3>1. DOMAIN Loaded(g) = 1..(size + 1)
      BY <2>1 DEF Loaded
    <3>2. /\ size \in Nat /\ Loaded(g)[size + 1].index = size
          /\ \A n \in 1..size : Loaded(g)[n] = Loaded(f)[n] /\ Loaded(f)[n].index = n - 1
      BY <1>3, <1>4, <2>1
    <3> HIDE DEF size
    <3>3. \A n \in 1..(size + 1) : n \in 1..size \/ (n = size + 1 /\ n - 1 = size)
      BY <3>2
    <3> QED
      BY <3>1, <3>2, <3>3
  <2>3. Only(Contents(g), Range(returned)) = returned
    BY <1>2, <1>3, <1>4, <2>1, OnlyOfAppended DEF KeptNext
  <2>4. Only(Contents(g), Range(Append(returned, what))) = Append(returned, what)
    <3> DEFINE wider == Range(Append(returned, what))
    <3>1. wider = Range(returned) \cup {what}
      BY DEF Range
    <3> HIDE DEF wider
    <3>2. \A n \in DOMAIN Contents(f) :
            Contents(f)[n] \in wider <=> Contents(f)[n] \in Range(returned)
      BY <1>1, <1>4, <3>1
    <3>3. Only(Contents(f), wider) = returned
      BY <1>3, <1>4, <3>2, OnlyAgrees
    <3>4. Only(Contents(g), wider) = Append(returned, what)
      <4>1. Only(Append(Contents(f), what), wider)
              = KeptNext(Only(Contents(f), wider), what, wider)
        BY <1>4, OnlyOfAppended
      <4>2. what \in wider
        BY <3>1
      <4> QED
        BY <2>1, <3>3, <4>1, <4>2 DEF KeptNext
    <3> QED
      BY <3>4 DEF wider
  <2> QED
    BY <2>2, <2>3, <2>4 DEF Whole
<1> QED
  BY <1>1, <1>5, <1>6 DEF Appended

--------------------------------------------------------------------------------
(***************************************************************************)
(* What a step does to the requests, to each file and to the world state.  *)
(***************************************************************************)

RequestSet ==
  [pc : {"idle", "events", "sending", "world", "records", "artifact", "ended"},
   event : Nat \ {0}, position : Nat \ {0},
   to : SUBSET Clients, disconnected : SUBSET Clients]
EventId == [task : Tasks, event : Nat]
Id == [by : Nat, n : Nat]

WebTypes ==
  /\ running \in Tasks \cup {NoTask}
  /\ requests \in [Tasks -> RequestSet]
  /\ \A t \in Tasks : requests[t].pc = "records" =>
       requests[t].position <= Len(RecordsOf(t))
  /\ subscribers \in Seq(Clients)
  /\ connection \in [Clients -> {"new", "open", "gone", "closed"}]
  /\ received \in [Clients -> Seq(EventId)]
  /\ events \in FileOf(EventId)
  /\ commitments \in FileOf(Id) /\ revisions \in FileOf(Id)
  /\ world \in [torn : BOOLEAN, value : Seq(Id)]
  /\ stored \in [events : Seq(EventId), commitments : Seq(Id), revisions : Seq(Id)]
  /\ asked \in Nat

\* A request is answered or cut off before its records are stored.
Early == {"idle", "events", "sending", "world"}

InBroadcast(t) == requests[t].pc \in {"events", "sending"}

\* How far a request can have come since.
Later(old, new) ==
  /\ new.pc = "idle" => old.pc = "idle"
  /\ new.pc \in {"events", "sending"} =>
       /\ old.pc \in {"idle", "events", "sending"}
       /\ old.pc # "idle" => old.event <= new.event
  /\ new.pc \in Early => old.pc \in Early
  /\ new.pc = "records" =>
       old.pc \in Early \/ (old.pc = "records" /\ old.position <= new.position)

\* What is on file of the events, commitments and revisions of a request lies
\* behind it; of a commitment request, behind the number of those taken.
EventBehind(e) ==
  /\ requests[e.task].pc # "idle"
  /\ InBroadcast(e.task) => e.event < requests[e.task].event

CommitmentBehind(id) ==
  IF id.by = 0 THEN id.n <= asked
  ELSE /\ id.by \in Tasks
       /\ requests[id.by].pc \notin Early
       /\ requests[id.by].pc = "records" => id.n < requests[id.by].position

RevisionBehind(id) ==
  IF id.by = 0 THEN id.n <= asked
  ELSE /\ id.by \in Tasks
       /\ requests[id.by].pc \notin Early
       /\ requests[id.by].pc = "records" =>
            \A k \in DOMAIN Runs[id.by].revised :
              Runs[id.by].revised[k] = id.n =>
                Runs[id.by].commitments + k < requests[id.by].position

\* A record is written to a file, or was tried to.
FileStep(f, g, returned, after, what) ==
  \/ g \in AppendFails(f, Line(f, what)) /\ after = returned
  \/ g = AppendLine(f, Line(f, what)) /\ after = Append(returned, what)

\* Request t stores what comes next in a file of its records.
StoresNext(t, file) ==
  requests[t].pc = "records" /\ NextRecord(t).file = file

ThisId == [by |-> 0, n |-> asked + 1]

EventsStep ==
  \/ events' = events /\ stored'.events = stored.events
  \/ \E t \in Tasks, e \in EventId :
       /\ requests[t].pc = "events" /\ e = EventOf(t) /\ EventBehind(e)'
       /\ FileStep(events, events', stored.events, stored'.events, e)

CommitmentsStep ==
  \/ commitments' = commitments /\ stored'.commitments = stored.commitments
  \/ \E t \in Tasks, id \in Id :
       /\ StoresNext(t, "commitments") /\ id = NextRecord(t).id
       /\ CommitmentBehind(id)'
       /\ FileStep(commitments, commitments', stored.commitments, stored'.commitments, id)
  \/ /\ asked' = asked + 1
     /\ FileStep(commitments, commitments', stored.commitments, stored'.commitments,
                 ThisId)

RevisionsStep ==
  \/ revisions' = revisions /\ stored'.revisions = stored.revisions
  \/ \E t \in Tasks, id \in Id :
       /\ StoresNext(t, "revisions") /\ id = NextRecord(t).id
       /\ RevisionBehind(id)'
       /\ FileStep(revisions, revisions', stored.revisions, stored'.revisions, id)
  \/ /\ asked' = asked + 1
     /\ stored'.commitments = Append(stored.commitments, ThisId)
     /\ FileStep(revisions, revisions', stored.revisions, stored'.revisions, ThisId)

WorldStep ==
  \/ world' = world
  \/ world'.value = <<>>
  \/ \E t \in Tasks : world'.value = RunState(t)
  \/ /\ asked' = asked + 1
     /\ world'.value = Append(world.value, ThisId)
     /\ stored'.revisions = Append(stored.revisions, ThisId)

\* A request that gets on with its records has its commitment stored.
CommittedStep ==
  \A t \in Tasks : requests'[t].pc = "records" =>
    \/ requests'[t] = requests[t]
    \/ requests'[t].position = 1
    \/ /\ requests[t].pc = "records"
       /\ requests'[t].position = requests[t].position + 1
       /\ NextRecord(t).file = "commitments" =>
            stored'.commitments = Append(stored.commitments, NextRecord(t).id)

StoreStep ==
  /\ asked' \in Nat /\ asked <= asked'
  /\ \A t \in Tasks : Later(requests[t], requests'[t])
  /\ EventsStep /\ CommitmentsStep /\ RevisionsStep /\ WorldStep /\ CommittedStep

\* What is assumed of the runs, one at a time.
LEMMA TasksAre ==
  /\ NoTask \notin Tasks
  /\ \A t \in Tasks :
       /\ t \in Nat \ {0}
       /\ Runs[t].events \in Nat \ {0}
       /\ Runs[t].commitments \in Nat
       /\ Runs[t].revised \in Seq(1..Runs[t].commitments)
       /\ IsInjective(Runs[t].revised)
<1> DEFINE R == [events : Nat \ {0}, commitments : Nat, revised : Seq(Nat),
                 world : BOOLEAN]
<1>1. Runs \in Seq(R)
  BY RunAssumption
<1>2. \A r \in R : r.events \in Nat \ {0} /\ r.commitments \in Nat
  OBVIOUS
<1> HIDE DEF R
<1>3. Len(Runs) \in Nat /\ \A t \in 1..Len(Runs) : Runs[t] \in R
  BY <1>1
<1> QED
  BY <1>2, <1>3, RunAssumption DEF Tasks, NoTask

\* The records of a run: its commitments in order, then its revisions in order.
LEMMA RecordsAre ==
  ASSUME NEW t \in Tasks
  PROVE  /\ Runs[t].commitments \in Nat /\ Len(Runs[t].revised) \in Nat
         /\ Len(RecordsOf(t)) = Runs[t].commitments + Len(Runs[t].revised)
         /\ \A p \in 1..Runs[t].commitments :
              RecordsOf(t)[p] = [file |-> "commitments", id |-> [by |-> t, n |-> p]]
         /\ \A k \in 1..Len(Runs[t].revised) :
              /\ Runs[t].revised[k] \in 1..Runs[t].commitments
              /\ RecordsOf(t)[Runs[t].commitments + k]
                   = [file |-> "revisions", id |-> [by |-> t, n |-> Runs[t].revised[k]]]
<1> DEFINE count == Runs[t].commitments
           revised == Runs[t].revised
           R == [file : {"commitments", "revisions"}, id : [by : Tasks, n : Nat]]
           first == [n \in 1..count |->
                       [file |-> "commitments", id |-> [by |-> t, n |-> n]]]
           second == [n \in DOMAIN revised |->
                        [file |-> "revisions", id |-> [by |-> t, n |-> revised[n]]]]
<1>1. count \in Nat /\ revised \in Seq(1..count)
  BY TasksAre
<1> HIDE DEF count, revised
<1>2. /\ Len(revised) \in Nat /\ DOMAIN revised = 1..Len(revised)
      /\ \A k \in 1..Len(revised) : revised[k] \in 1..count
  BY <1>1
<1>3. first \in Seq(R) /\ Len(first) = count
  BY <1>1
<1>4. second \in Seq(R) /\ Len(second) = Len(revised)
  BY <1>1, <1>2
<1>5. RecordsOf(t) = first \o second
  BY DEF RecordsOf, count, revised
<1> HIDE DEF R
<1>6. /\ Len(first \o second) = count + Len(revised)
      /\ \A i \in 1..(count + Len(revised)) :
           (first \o second)[i] = IF i <= count THEN first[i] ELSE second[i - count]
  <2> HIDE DEF first, second
  <2> DEFINE both == first \o second
  <2>1. /\ Len(both) = Len(first) + Len(second)
        /\ \A i \in 1..(Len(first) + Len(second)) :
             both[i] = IF i <= Len(first) THEN first[i] ELSE second[i - Len(first)]
    BY <1>3, <1>4, ConcatProperties
  <2> HIDE DEF both
  <2>2. /\ Len(both) = count + Len(revised)
        /\ \A i \in 1..(count + Len(revised)) :
             both[i] = IF i <= count THEN first[i] ELSE second[i - count]
    BY <1>3, <1>4, <2>1
  <2> QED
    BY <2>2 DEF both
<1>7. \A p \in 1..count :
        RecordsOf(t)[p] = [file |-> "commitments", id |-> [by |-> t, n |-> p]]
  <2> TAKE p \in 1..count
  <2>1. p \in 1..(count + Len(revised)) /\ p <= count
    BY <1>1, <1>2
  <2>2. RecordsOf(t)[p] = first[p]
    BY <1>5, <1>6, <2>1
  <2> QED
    BY <2>2
<1>8. \A k \in 1..Len(revised) :
        RecordsOf(t)[count + k]
          = [file |-> "revisions", id |-> [by |-> t, n |-> revised[k]]]
  <2> TAKE k \in 1..Len(revised)
  <2>1. /\ count + k \in 1..(count + Len(revised)) /\ ~(count + k <= count)
        /\ (count + k) - count = k
    BY <1>1, <1>2
  <2>2. RecordsOf(t)[count + k] = second[(count + k) - count]
    BY <1>5, <1>6, <2>1
  <2>3. RecordsOf(t)[count + k] = second[k]
    BY <2>1, <2>2
  <2> QED
    BY <1>2, <2>3
<1> QED
  BY <1>1, <1>2, <1>5, <1>6, <1>7, <1>8 DEF count, revised

\* The next record is a commitment of its place or the revision at it.
LEMMA NextRecordIs ==
  ASSUME WebTypes, NEW t \in Tasks, requests[t].pc = "records",
         NEW p, p = requests[t].position
  PROVE  /\ NextRecord(t).id \in Id /\ NextRecord(t).id.by = t
         /\ NextRecord(t).file \in {"commitments", "revisions"}
         /\ p \in Nat \ {0} /\ Runs[t].commitments \in Nat
         /\ NextRecord(t).file = "commitments" =>
              p <= Runs[t].commitments /\ NextRecord(t).id = [by |-> t, n |-> p]
         /\ NextRecord(t).file = "revisions" =>
              \E k \in DOMAIN Runs[t].revised :
                /\ p = Runs[t].commitments + k
                /\ Runs[t].revised[k] \in 1..Runs[t].commitments
                /\ NextRecord(t).id = [by |-> t, n |-> Runs[t].revised[k]]
<1> DEFINE count == Runs[t].commitments
           revised == Runs[t].revised
<1>1. requests[t] \in RequestSet /\ p <= Len(RecordsOf(t)) /\ t \in Nat
  BY TasksAre DEF WebTypes
<1>2. p \in Nat \ {0}
  BY <1>1 DEF RequestSet
<1>3. /\ count \in Nat /\ Len(revised) \in Nat
      /\ Len(RecordsOf(t)) = count + Len(revised)
      /\ DOMAIN revised = 1..Len(revised)
  <2>1. revised \in Seq(1..count)
    BY TasksAre
  <2> HIDE DEF count, revised
  <2>2. DOMAIN revised = 1..Len(revised)
    BY <2>1
  <2> QED
    BY <2>2, RecordsAre DEF count, revised
<1>4. NextRecord(t) = RecordsOf(t)[p]
  BY DEF NextRecord
<1>5. CASE p <= count
  <2>1. p \in 1..count
    BY <1>2, <1>3, <1>5
  <2>2. NextRecord(t) = [file |-> "commitments", id |-> [by |-> t, n |-> p]]
    BY <1>4, <2>1, RecordsAre
  <2> QED
    BY <1>1, <1>2, <1>3, <1>5, <2>2 DEF Id
<1>6. CASE ~(p <= count)
  <2> DEFINE k == p - count
  <2>1. k \in 1..Len(revised) /\ p = count + k
    <3> DEFINE size == Len(revised)
               all == Len(RecordsOf(t))
    <3>1. /\ count \in Nat /\ size \in Nat /\ p \in Nat \ {0} /\ p <= all
          /\ all = count + size /\ ~(p <= count)
      BY <1>1, <1>2, <1>3, <1>6
    <3> HIDE DEF count, size, all
    <3>2. p - count \in 1..size /\ p = count + (p - count)
      BY <3>1
    <3> QED
      BY <3>2 DEF size
  <2> HIDE DEF k
  <2>2. /\ NextRecord(t) = [file |-> "revisions", id |-> [by |-> t, n |-> revised[k]]]
        /\ revised[k] \in 1..count
    BY <1>4, <2>1, RecordsAre
  <2>3. revised[k] \in Nat
    BY <1>3, <2>2
  <2>4. NextRecord(t).id \in Id /\ NextRecord(t).id.by = t
    BY <1>1, <2>2, <2>3 DEF Id
  <2>5. NextRecord(t).file = "revisions" /\ NextRecord(t).id = [by |-> t, n |-> revised[k]]
    BY <2>2
  <2>6. k \in DOMAIN revised
    BY <1>3, <2>1
  <2> QED
    BY <1>2, <1>3, <2>1, <2>2, <2>4, <2>5, <2>6
<1> QED
  BY <1>5, <1>6

\* The same, of an id, a file and a position that have names.
LEMMA NextRecordAt ==
  ASSUME WebTypes, NEW t \in Tasks, requests[t].pc = "records"
  PROVE  \E id \in Id, to \in {"commitments", "revisions"}, p \in Nat \ {0} :
           /\ id = NextRecord(t).id /\ to = NextRecord(t).file
           /\ p = requests[t].position /\ id.by = t /\ t # 0
           /\ to = "commitments" =>
                p \in 1..Runs[t].commitments /\ id = [by |-> t, n |-> p]
           /\ to = "revisions" =>
                \E k \in DOMAIN Runs[t].revised :
                  /\ p = Runs[t].commitments + k /\ k \in Nat \ {0}
                  /\ Runs[t].revised[k] \in 1..Runs[t].commitments
                  /\ id = [by |-> t, n |-> Runs[t].revised[k]]
<1>1. PICK p \in Nat \ {0} : p = requests[t].position
  BY DEF WebTypes, RequestSet
<1> DEFINE this == NextRecord(t).id
           file == NextRecord(t).file
<1>2. /\ this \in Id /\ file \in {"commitments", "revisions"} /\ this.by = t
      /\ Runs[t].commitments \in Nat
      /\ file = "commitments" =>
           p <= Runs[t].commitments /\ this = [by |-> t, n |-> p]
      /\ file = "revisions" =>
           \E k \in DOMAIN Runs[t].revised :
             /\ p = Runs[t].commitments + k
             /\ Runs[t].revised[k] \in 1..Runs[t].commitments
             /\ this = [by |-> t, n |-> Runs[t].revised[k]]
  BY <1>1, NextRecordIs
<1>3. \E id \in Id, to \in {"commitments", "revisions"} : id = this /\ to = file
  BY <1>2
<1> HIDE DEF this, file
<1>4. PICK id \in Id, to \in {"commitments", "revisions"} : id = this /\ to = file
  BY <1>3
<1>5. id = NextRecord(t).id /\ to = NextRecord(t).file
  BY <1>4 DEF this, file
<1>6. t # 0
  BY TasksAre
<1>7. \A k \in DOMAIN Runs[t].revised : k \in Nat \ {0}
  <2> DEFINE count == Runs[t].commitments
             revised == Runs[t].revised
  <2>1. revised \in Seq(1..count)
    BY TasksAre
  <2> HIDE DEF revised, count
  <2>2. \A k \in DOMAIN revised : k \in Nat \ {0}
    BY <2>1
  <2> QED
    BY <2>2 DEF revised
<1>8. to = "commitments" => p \in 1..Runs[t].commitments /\ id = [by |-> t, n |-> p]
  <2> DEFINE count == Runs[t].commitments
  <2>1. /\ count \in Nat
        /\ file = "commitments" => p <= count /\ this = [by |-> t, n |-> p]
    BY <1>2
  <2> HIDE DEF count
  <2>2. file = "commitments" => p \in 1..count /\ this = [by |-> t, n |-> p]
    BY <2>1
  <2> QED
    BY <1>4, <2>2 DEF count
<1>9. to = "revisions" =>
        \E k \in DOMAIN Runs[t].revised :
          /\ p = Runs[t].commitments + k /\ k \in Nat \ {0}
          /\ Runs[t].revised[k] \in 1..Runs[t].commitments
          /\ id = [by |-> t, n |-> Runs[t].revised[k]]
  BY <1>2, <1>4, <1>7
<1> QED
  BY <1>1, <1>2, <1>4, <1>5, <1>6, <1>8, <1>9

\* A request that stays where it is.
LEMMA LaterSelf ==
  ASSUME NEW q \in RequestSet
  PROVE  Later(q, q)
BY DEF Later, RequestSet, Early

\* One request moves.
LEMMA RequestMoves ==
  ASSUME WebTypes, NEW t \in Tasks, NEW q \in RequestSet,
         requests' = [requests EXCEPT ![t] = q],
         Later(requests[t], q),
         q.pc = "records" => q.position <= Len(RecordsOf(t))
  PROVE  /\ requests' \in [Tasks -> RequestSet]
         /\ \A u \in Tasks : requests'[u].pc = "records" =>
              requests'[u].position <= Len(RecordsOf(u))
         /\ \A u \in Tasks : Later(requests[u], requests'[u])
         /\ requests'[t] = q
         /\ \A u \in Tasks : u # t => requests'[u] = requests[u]
<1>1. /\ requests \in [Tasks -> RequestSet]
      /\ \A u \in Tasks : requests[u].pc = "records" =>
           requests[u].position <= Len(RecordsOf(u))
  BY DEF WebTypes
<1>2. requests'[t] = q /\ \A u \in Tasks : u # t => requests'[u] = requests[u]
  BY <1>1
<1>3. requests' \in [Tasks -> RequestSet]
  BY <1>1
<1>4. \A u \in Tasks : Later(requests[u], requests'[u])
  BY <1>1, <1>2, LaterSelf
<1> QED
  BY <1>1, <1>2, <1>3, <1>4

\* What a request is when it is at a stage.
LEMMA RequestIs ==
  ASSUME NEW pc \in {"idle", "events", "sending", "world", "records", "artifact", "ended"}
  PROVE  /\ Request(pc) \in RequestSet
         /\ Request(pc).pc = pc /\ Request(pc).to = {} /\ Request(pc).position = 1
BY DEF Request, RequestSet

\* After an event comes the next one, or the world state.
LEMMA NextEventIs ==
  ASSUME WebTypes, NEW t \in Tasks, requests[t].pc = "events"
  PROVE  /\ NextEvent(t) \in RequestSet
         /\ Later(requests[t], NextEvent(t))
         /\ NextEvent(t).to = {} /\ NextEvent(t).position = 1
         /\ \/ NextEvent(t).pc = "world"
            \/ NextEvent(t).pc = "events" /\ NextEvent(t).event = requests[t].event + 1
<1>1. requests[t] \in RequestSet
  BY DEF WebTypes
<1>2. requests[t].event \in Nat \ {0}
  BY <1>1 DEF RequestSet
<1>3. CASE requests[t].event = Runs[t].events
  <2>1. NextEvent(t) = Request("world")
    BY <1>3 DEF NextEvent
  <2> QED
    BY <2>1 DEF Request, RequestSet, Later, Early
<1>4. CASE requests[t].event # Runs[t].events
  <2>1. NextEvent(t) = [pc |-> "events", event |-> requests[t].event + 1,
                        position |-> 1, to |-> {}, disconnected |-> {}]
    BY <1>4 DEF NextEvent, Request
  <2>2. requests[t].event + 1 \in Nat \ {0} /\ requests[t].event <= requests[t].event + 1
    BY <1>2
  <2> QED
    BY <2>1, <2>2 DEF RequestSet, Later, Early
<1> QED
  BY <1>3, <1>4

\* After a record comes the next one, or the artifact.
LEMMA AfterRecordsIs ==
  ASSUME NEW t \in Tasks, NEW n \in Nat \ {0}
  PROVE  /\ AfterRecords(t, n) \in RequestSet
         /\ AfterRecords(t, n).to = {}
         /\ \/ AfterRecords(t, n).pc = "artifact"
            \/ /\ AfterRecords(t, n).pc = "records" /\ AfterRecords(t, n).position = n
               /\ n <= Len(RecordsOf(t))
<1>1. Len(RecordsOf(t)) \in Nat
  BY RecordsAre
<1>2. CASE n > Len(RecordsOf(t))
  <2>1. AfterRecords(t, n) = Request("artifact")
    BY <1>2 DEF AfterRecords
  <2> QED
    BY <2>1 DEF Request, RequestSet
<1>3. CASE ~(n > Len(RecordsOf(t)))
  <2>1. AfterRecords(t, n) = [pc |-> "records", event |-> 1, position |-> n,
                              to |-> {}, disconnected |-> {}]
    BY <1>3 DEF AfterRecords, Request
  <2> QED
    BY <1>1, <1>3, <2>1 DEF RequestSet
<1> QED
  BY <1>2, <1>3

\* A step that stores nothing.
LEMMA NothingStored ==
  ASSUME UNCHANGED <<files, asked>>, asked \in Nat,
         \A u \in Tasks : Later(requests[u], requests'[u]),
         CommittedStep
  PROVE  StoreStep
BY DEF StoreStep, files, EventsStep, CommitmentsStep, RevisionsStep, WorldStep

\* A step that only moves a request, and not within its records.
LEMMA RequestOnly ==
  ASSUME WebTypes, UNCHANGED <<files, asked>>, NEW t \in Tasks, NEW q \in RequestSet,
         requests' = [requests EXCEPT ![t] = q],
         Later(requests[t], q), q.pc # "records"
  PROVE  /\ StoreStep
         /\ requests' \in [Tasks -> RequestSet]
         /\ \A u \in Tasks : requests'[u].pc = "records" =>
              requests'[u].position <= Len(RecordsOf(u))
<1>1. /\ requests' \in [Tasks -> RequestSet]
      /\ \A u \in Tasks : requests'[u].pc = "records" =>
           requests'[u].position <= Len(RecordsOf(u))
      /\ \A u \in Tasks : Later(requests[u], requests'[u])
      /\ requests'[t] = q
      /\ \A u \in Tasks : u # t => requests'[u] = requests[u]
  BY RequestMoves
<1>2. CommittedStep
  BY <1>1 DEF CommittedStep
<1>3. asked \in Nat
  BY DEF WebTypes
<1> QED
  BY <1>1, <1>2, <1>3, NothingStored

\* A step that leaves requests and files alone.
LEMMA NeitherStep ==
  ASSUME WebTypes, UNCHANGED <<files, asked, requests>>
  PROVE  StoreStep
<1>1. requests \in [Tasks -> RequestSet] /\ asked \in Nat
  BY DEF WebTypes
<1>2. \A u \in Tasks : Later(requests[u], requests'[u])
  BY <1>1, LaterSelf
<1>3. CommittedStep
  BY DEF CommittedStep
<1> QED
  BY <1>1, <1>2, <1>3, NothingStored

\* Clients come and go: nothing is stored and no request gets on.
LEMMA ClientStep ==
  ASSUME WebTypes, NEW c \in Clients, Subscribe(c) \/ GoAway(c) \/ NoticeGone(c)
  PROVE  WebTypes' /\ StoreStep
<1>1. UNCHANGED <<running, requests, files, asked>>
  BY DEF Subscribe, GoAway, NoticeGone
<1>2. StoreStep
  BY <1>1, NeitherStep
<1>3. subscribers' \in Seq(Clients)
  <2>1. subscribers \in Seq(Clients)
    BY DEF WebTypes
  <2>2. Append(subscribers, c) \in Seq(Clients)
    BY <2>1
  <2>3. Only(subscribers, Clients \ {c}) \in Seq(Clients)
    BY <2>1, OnlyPlaces DEF KeptOf
  <2> QED
    BY <2>1, <2>2, <2>3 DEF Subscribe, GoAway, NoticeGone
<1>4. connection' \in [Clients -> {"new", "open", "gone", "closed"}]
  BY DEF WebTypes, Subscribe, GoAway, NoticeGone
<1>5. received' \in [Clients -> Seq(EventId)]
  <2>1. received \in [Clients -> Seq(EventId)] /\ <<>> \in Seq(EventId)
    BY DEF WebTypes
  <2> QED
    BY <2>1 DEF Subscribe, GoAway, NoticeGone
<1> QED
  BY <1>1, <1>2, <1>3, <1>4, <1>5 DEF WebTypes, files

\* A task request begins, or fails at once.
LEMMA BeginStep ==
  ASSUME WebTypes, NEW t \in Tasks, ExecuteTask(t) \/ TaskRaises(t)
  PROVE  WebTypes' /\ StoreStep
<1>1. requests \in [Tasks -> RequestSet] /\ requests[t].pc = "idle"
  BY DEF WebTypes, ExecuteTask, TaskRaises
<1>2. PICK pc \in {"events", "ended"} :
        requests' = [requests EXCEPT ![t] = [requests[t] EXCEPT !.pc = pc]]
  BY DEF ExecuteTask, TaskRaises
<1> DEFINE q == [requests[t] EXCEPT !.pc = pc]
<1>3. q \in RequestSet /\ Later(requests[t], q) /\ q.pc # "records"
  BY <1>1 DEF RequestSet, Later, Early
<1> HIDE DEF q
<1>4. requests' = [requests EXCEPT ![t] = q]
  BY <1>2 DEF q
<1>5. UNCHANGED <<subscribers, connection, received, files, asked>>
  BY DEF ExecuteTask, TaskRaises
<1>6. /\ StoreStep /\ requests' \in [Tasks -> RequestSet]
      /\ \A u \in Tasks : requests'[u].pc = "records" =>
           requests'[u].position <= Len(RecordsOf(u))
  BY <1>3, <1>4, <1>5, RequestOnly
<1>7. running' \in Tasks \cup {NoTask}
  BY DEF WebTypes, ExecuteTask, TaskRaises
<1> QED
  BY <1>5, <1>6, <1>7 DEF WebTypes, files

\* A request that sends.
LEMMA RequestSends ==
  ASSUME NEW q \in RequestSet, q.pc \in {"events", "sending"}, NEW c \in Clients,
         NEW after,
         after = [q EXCEPT !.pc = "sending", !.to = {c}, !.position = @ + 1]
  PROVE  /\ after \in RequestSet /\ Later(q, after) /\ after.pc = "sending"
         /\ after.event = q.event /\ after.to = {c}
         /\ after.position = q.position + 1
<1>1. /\ q.event \in Nat \ {0} /\ q.position + 1 \in Nat \ {0} /\ {c} \in SUBSET Clients
      /\ q.disconnected \in SUBSET Clients
  BY DEF RequestSet
<1>2. after = [pc |-> "sending", event |-> q.event, position |-> q.position + 1,
               to |-> {c}, disconnected |-> q.disconnected]
  BY DEF RequestSet
<1>3. after \in RequestSet
  BY <1>1, <1>2 DEF RequestSet
<1> QED
  BY <1>1, <1>2, <1>3 DEF Later, Early

\* A request that sent.
LEMMA RequestSent ==
  ASSUME NEW q \in RequestSet, q.pc \in {"events", "sending"},
         NEW more \in SUBSET Clients,
         NEW after,
         after = [q EXCEPT !.pc = "events", !.to = {}, !.disconnected = more]
  PROVE  /\ after \in RequestSet /\ Later(q, after) /\ after.pc = "events"
         /\ after.event = q.event /\ after.to = {}
         /\ after.position = q.position
<1>1. q.event \in Nat \ {0} /\ q.position \in Nat \ {0}
  BY DEF RequestSet
<1>2. after = [pc |-> "events", event |-> q.event, position |-> q.position,
               to |-> {}, disconnected |-> more]
  BY DEF RequestSet
<1>3. after \in RequestSet
  BY <1>1, <1>2 DEF RequestSet
<1> QED
  BY <1>1, <1>2, <1>3 DEF Later, Early

\* An event is sent to a subscriber, and sending it returns.
LEMMA SendStep ==
  ASSUME WebTypes, NEW t \in Tasks, BeginSend(t) \/ SendReturns(t)
  PROVE  WebTypes' /\ StoreStep
<1>1. /\ requests \in [Tasks -> RequestSet] /\ requests[t] \in RequestSet
      /\ requests[t].pc \in {"events", "sending"}
  BY DEF WebTypes, BeginSend, SendReturns
<1>2. \E q \in RequestSet :
        /\ requests' = [requests EXCEPT ![t] = q]
        /\ Later(requests[t], q) /\ q.pc # "records"
  <2>1. CASE BeginSend(t)
    <3> DEFINE c == subscribers[requests[t].position]
               q == [requests[t] EXCEPT !.pc = "sending", !.to = {c}, !.position = @ + 1]
    <3>1. c \in Clients
      <4>1. /\ subscribers \in Seq(Clients) /\ requests[t].position \in Nat \ {0}
            /\ requests[t].position <= Len(subscribers)
        BY <1>1, <2>1 DEF WebTypes, BeginSend, RequestSet
      <4> QED
        BY <4>1
    <3> HIDE DEF c
    <3>2. q \in RequestSet /\ Later(requests[t], q) /\ q.pc # "records"
      BY <1>1, <3>1, RequestSends
    <3>3. requests' = [requests EXCEPT ![t] = q]
      BY <1>1, <2>1 DEF BeginSend, c
    <3> QED
      BY <3>2, <3>3
  <2>2. CASE SendReturns(t)
    <3>1. PICK c \in requests[t].to, failed \in BOOLEAN :
            requests' = [requests EXCEPT
              ![t].pc = "events", ![t].to = {},
              ![t].disconnected = IF failed THEN @ \cup {c} ELSE @]
      BY <2>2 DEF SendReturns
    <3>2. c \in Clients
      BY <1>1 DEF RequestSet
    <3> DEFINE q == [requests[t] EXCEPT
                       !.pc = "events", !.to = {},
                       !.disconnected = IF failed THEN @ \cup {c} ELSE @]
    <3>3. q \in RequestSet /\ Later(requests[t], q) /\ q.pc # "records"
      <4>1. PICK more \in SUBSET Clients :
              more = IF failed THEN requests[t].disconnected \cup {c}
                     ELSE requests[t].disconnected
        BY <1>1, <3>2 DEF RequestSet
      <4>2. q = [requests[t] EXCEPT !.pc = "events", !.to = {}, !.disconnected = more]
        BY <4>1
      <4> HIDE DEF q
      <4> QED
        BY <1>1, <4>2, RequestSent
    <3>4. requests' = [requests EXCEPT ![t] = q]
      BY <1>1, <3>1
    <3> QED
      BY <3>3, <3>4
  <2> QED
    BY <2>1, <2>2
<1>3. UNCHANGED <<subscribers, connection, files, asked>>
  BY DEF BeginSend, SendReturns
<1>4. /\ StoreStep /\ requests' \in [Tasks -> RequestSet]
      /\ \A u \in Tasks : requests'[u].pc = "records" =>
           requests'[u].position <= Len(RecordsOf(u))
  BY <1>2, <1>3, RequestOnly
<1>5. running' \in Tasks \cup {NoTask}
  BY DEF BeginSend, SendReturns
<1>6. received' \in [Clients -> Seq(EventId)]
  <2> DEFINE e == [task |-> t, event |-> requests[t].event]
  <2>1. e \in EventId /\ received \in [Clients -> Seq(EventId)]
    BY <1>1 DEF EventId, WebTypes, RequestSet
  <2> HIDE DEF e
  <2>2. received' = received \/ \E c \in requests[t].to :
          received' = [received EXCEPT ![c] = Append(@, e)]
    BY DEF BeginSend, SendReturns, e
  <2>3. \A c \in requests[t].to : c \in Clients /\ Append(received[c], e) \in Seq(EventId)
    BY <1>1, <2>1 DEF RequestSet
  <2> QED
    BY <2>1, <2>2, <2>3
<1> QED
  BY <1>3, <1>4, <1>5, <1>6 DEF WebTypes, files

\* What an append leaves is a file, and what was stored stays so.
LEMMA FileStepLeaves ==
  ASSUME NEW S, NEW f \in FileOf(S), NEW what \in S, NEW returned \in Seq(S),
         NEW g, NEW after, FileStep(f, g, returned, after, what)
  PROVE  /\ g \in FileOf(S) /\ after \in Seq(S)
         /\ CanBeLoaded(g) => CanBeLoaded(f) /\ Appended(f, g, what)
         /\ after = returned \/ after = Append(returned, what)
<1>1. /\ g \in FileOf(S)
      /\ CanBeLoaded(g) => CanBeLoaded(f) /\ Appended(f, g, what)
  BY AppendLeaves DEF FileStep
<1>2. returned \in Seq(S) /\ Append(returned, what) \in Seq(S)
  OBVIOUS
<1> QED
  BY <1>1, <1>2 DEF FileStep

\* The files stay files.
LEMMA FilesLeft ==
  ASSUME WebTypes, EventsStep, CommitmentsStep, RevisionsStep,
         \E some \in Seq(EventId), ids \in Seq(Id), more \in Seq(Id) :
           stored' = [events |-> some, commitments |-> ids, revisions |-> more]
  PROVE  /\ events' \in FileOf(EventId)
         /\ commitments' \in FileOf(Id) /\ revisions' \in FileOf(Id)
         /\ stored' \in [events : Seq(EventId), commitments : Seq(Id), revisions : Seq(Id)]
<1>1. /\ events \in FileOf(EventId)
      /\ commitments \in FileOf(Id) /\ revisions \in FileOf(Id)
      /\ stored.events \in Seq(EventId) /\ stored.commitments \in Seq(Id)
      /\ stored.revisions \in Seq(Id) /\ asked \in Nat
  BY DEF WebTypes
<1>2. ThisId \in Id
  BY <1>1 DEF ThisId, Id
<1>3. events' \in FileOf(EventId)
  BY <1>1, FileStepLeaves DEF EventsStep
<1>4. commitments' \in FileOf(Id)
  BY <1>1, <1>2, FileStepLeaves DEF CommitmentsStep
<1>5. revisions' \in FileOf(Id)
  BY <1>1, <1>2, FileStepLeaves DEF RevisionsStep
<1> QED
  BY <1>3, <1>4, <1>5

\* The event a request is at.
LEMMA EventIs ==
  ASSUME WebTypes, NEW t \in Tasks
  PROVE  \E e \in EventId :
           e = EventOf(t) /\ e.task = t /\ e.event = requests[t].event
<1>1. requests[t].event \in Nat
  BY DEF WebTypes, RequestSet
<1>2. /\ EventOf(t) \in EventId /\ EventOf(t).task = t
      /\ EventOf(t).event = requests[t].event
  BY <1>1 DEF EventOf, EventId
<1> QED
  BY <1>2

\* A step of a request that writes, or tries to.
LEMMA WriteStep ==
  ASSUME WebTypes, NEW t \in Tasks, NEW q \in RequestSet,
         requests' = [requests EXCEPT ![t] = q],
         Later(requests[t], q),
         q.pc = "records" => q.position <= Len(RecordsOf(t)),
         running' \in {NoTask, t}, subscribers' \in Seq(Clients),
         UNCHANGED <<connection, received, asked>>,
         EventsStep, CommitmentsStep, RevisionsStep, WorldStep, CommittedStep,
         world' \in [torn : BOOLEAN, value : Seq(Id)],
         \E some \in Seq(EventId), ids \in Seq(Id), more \in Seq(Id) :
           stored' = [events |-> some, commitments |-> ids, revisions |-> more]
  PROVE  WebTypes' /\ StoreStep
<1>1. /\ requests' \in [Tasks -> RequestSet]
      /\ \A u \in Tasks : requests'[u].pc = "records" =>
           requests'[u].position <= Len(RecordsOf(u))
      /\ \A u \in Tasks : Later(requests[u], requests'[u])
  BY RequestMoves
<1>2. /\ asked \in Nat /\ connection \in [Clients -> {"new", "open", "gone", "closed"}]
      /\ received \in [Clients -> Seq(EventId)]
  BY DEF WebTypes
<1>3. StoreStep
  BY <1>1, <1>2 DEF StoreStep
<1>4. /\ events' \in FileOf(EventId)
      /\ commitments' \in FileOf(Id) /\ revisions' \in FileOf(Id)
      /\ stored' \in [events : Seq(EventId), commitments : Seq(Id), revisions : Seq(Id)]
  BY FilesLeft
<1> QED
  BY <1>1, <1>2, <1>3, <1>4 DEF WebTypes

\* The list is through; the event is stored.
LEMMA EndBroadcastStep ==
  ASSUME WebTypes, NEW t \in Tasks, EndBroadcast(t)
  PROVE  WebTypes' /\ StoreStep
<1>1. /\ requests \in [Tasks -> RequestSet] /\ requests[t] \in RequestSet
      /\ requests[t].pc = "events" /\ requests[t].event \in Nat \ {0}
  BY DEF WebTypes, EndBroadcast, RequestSet
<1>2. PICK e \in EventId : e = EventOf(t) /\ e.task = t /\ e.event = requests[t].event
  BY <1>1, EventIs
<1>3. /\ requests' = [requests EXCEPT ![t] = NextEvent(t)]
      /\ running' \in {NoTask, t}
      /\ subscribers' = Only(subscribers, Clients \ requests[t].disconnected)
      /\ events' = AppendLine(events, Line(events, e))
      /\ stored' = [stored EXCEPT !.events = Append(@, e)]
      /\ UNCHANGED <<connection, received, commitments, revisions, world, artifacts, asked>>
  BY <1>2 DEF EndBroadcast, ContinueWith, Pruned
<1>4. /\ NextEvent(t) \in RequestSet /\ Later(requests[t], NextEvent(t))
      /\ \/ NextEvent(t).pc = "world"
         \/ NextEvent(t).pc = "events" /\ NextEvent(t).event = requests[t].event + 1
  BY <1>1, NextEventIs
<1>5. /\ requests' \in [Tasks -> RequestSet]
      /\ \A u \in Tasks : requests'[u].pc = "records" =>
           requests'[u].position <= Len(RecordsOf(u))
      /\ \A u \in Tasks : Later(requests[u], requests'[u])
      /\ requests'[t] = NextEvent(t)
      /\ \A u \in Tasks : u # t => requests'[u] = requests[u]
  BY <1>3, <1>4, RequestMoves
<1>6. PICK some \in Seq(EventId), ids \in Seq(Id), more \in Seq(Id) :
        stored = [events |-> some, commitments |-> ids, revisions |-> more]
  BY DEF WebTypes
<1>7. Append(some, e) \in Seq(EventId)
  BY <1>2
<1>8. stored' = [events |-> Append(some, e), commitments |-> ids, revisions |-> more]
  BY <1>3, <1>6
<1>9. EventBehind(e)'
  BY <1>1, <1>2, <1>4, <1>5 DEF EventBehind, InBroadcast
<1>10. EventsStep
  <2>1. FileStep(events, events', stored.events, stored'.events, e)
    BY <1>3, <1>6, <1>8 DEF FileStep
  <2> QED
    BY <1>1, <1>2, <1>9, <2>1 DEF EventsStep
<1>11. CommitmentsStep /\ RevisionsStep /\ WorldStep
  BY <1>3, <1>6, <1>8 DEF CommitmentsStep, RevisionsStep, WorldStep
<1>12. CommittedStep
  BY <1>4, <1>5 DEF CommittedStep
<1>13. subscribers' \in Seq(Clients)
  <2>1. subscribers \in Seq(Clients)
    BY DEF WebTypes
  <2> QED
    BY <1>3, <2>1, OnlyPlaces DEF KeptOf
<1>14. world' \in [torn : BOOLEAN, value : Seq(Id)]
  BY <1>3 DEF WebTypes
<1> QED
  BY <1>3, <1>4, <1>7, <1>8, <1>10, <1>11, <1>12, <1>13, <1>14, WriteStep

\* The world state of a run.
LEMMA RunStateType ==
  ASSUME NEW t \in Tasks
  PROVE  /\ RunState(t) \in Seq(Id)
         /\ \A m \in DOMAIN RunState(t) : RunState(t)[m].by = t
<1> DEFINE revised == Runs[t].revised
           count == Runs[t].commitments
<1>1. revised \in Seq(1..count) /\ t \in Nat /\ count \in Nat
  BY TasksAre
<1> HIDE DEF revised, count
<1>2. /\ Len(revised) \in Nat /\ DOMAIN revised = 1..Len(revised)
      /\ \A n \in 1..Len(revised) : revised[n] \in Nat
  BY <1>1
<1>3. RunState(t) = [n \in 1..Len(revised) |-> [by |-> t, n |-> revised[n]]]
  BY <1>2 DEF RunState, revised
<1>4. \A n \in 1..Len(revised) : [by |-> t, n |-> revised[n]] \in Id
  BY <1>1, <1>2 DEF Id
<1> QED
  BY <1>2, <1>3, <1>4

\* The run's own world state replaces the stored one.
LEMMA SaveRunStateStep ==
  ASSUME WebTypes, NEW t \in Tasks, SaveRunState(t)
  PROVE  WebTypes' /\ StoreStep
<1> DEFINE q == AfterRecords(t, 1)
<1>1. /\ requests \in [Tasks -> RequestSet] /\ requests[t] \in RequestSet
      /\ requests[t].pc = "world"
  BY DEF WebTypes, SaveRunState
<1>2. /\ q \in RequestSet
      /\ q.pc = "artifact" \/ (q.pc = "records" /\ q.position = 1
                                 /\ 1 <= Len(RecordsOf(t)))
  BY AfterRecordsIs
<1>3. /\ requests' = [requests EXCEPT ![t] = q] /\ running' \in {NoTask, t}
      /\ world' = world \/ world' = Saved(RunState(t))
      /\ UNCHANGED <<subscribers, connection, received, asked>>
      /\ UNCHANGED <<events, commitments, revisions, stored>>
  BY DEF SaveRunState, ContinueWith
<1> HIDE DEF q
<1>4. Later(requests[t], q)
  BY <1>1, <1>2 DEF Later, Early
<1>5. EventsStep /\ CommitmentsStep /\ RevisionsStep /\ WorldStep
  BY <1>3 DEF EventsStep, CommitmentsStep, RevisionsStep, WorldStep, Saved
<1>6. CommittedStep
  BY <1>1, <1>2, <1>3 DEF CommittedStep
<1>7. world' \in [torn : BOOLEAN, value : Seq(Id)]
  <2>1. PICK made \in Seq(Id) : made = RunState(t)
    BY RunStateType
  <2>2. world' = world \/ world' = [torn |-> FALSE, value |-> made]
    BY <1>3, <2>1 DEF Saved
  <2>3. [torn |-> FALSE, value |-> made] \in [torn : BOOLEAN, value : Seq(Id)]
    OBVIOUS
  <2>4. world \in [torn : BOOLEAN, value : Seq(Id)]
    BY DEF WebTypes
  <2> QED
    BY <2>2, <2>3, <2>4
<1>8. \E some \in Seq(EventId), ids \in Seq(Id), more \in Seq(Id) :
        stored' = [events |-> some, commitments |-> ids, revisions |-> more]
  BY <1>3 DEF WebTypes
<1>9. subscribers' \in Seq(Clients)
  BY <1>3 DEF WebTypes
<1> QED
  BY <1>2, <1>3, <1>4, <1>5, <1>6, <1>7, <1>8, <1>9, WriteStep

\* The artifact of a run is stored, and the request answered.
LEMMA SaveArtifactStep ==
  ASSUME WebTypes, NEW t \in Tasks, SaveArtifact(t)
  PROVE  WebTypes' /\ StoreStep
<1> DEFINE q == Request("ended")
<1>1. /\ requests \in [Tasks -> RequestSet] /\ requests[t] \in RequestSet
      /\ requests[t].pc = "artifact"
  BY DEF WebTypes, SaveArtifact
<1>2. q \in RequestSet /\ q.pc = "ended"
  BY RequestIs
<1>3. /\ requests' = [requests EXCEPT ![t] = q] /\ running' \in {NoTask, t}
      /\ UNCHANGED <<subscribers, connection, received, asked>>
      /\ UNCHANGED <<events, commitments, revisions, world, stored>>
  BY DEF SaveArtifact, ContinueWith
<1> HIDE DEF q
<1>4. Later(requests[t], q)
  BY <1>1, <1>2 DEF Later, Early
<1>5. EventsStep /\ CommitmentsStep /\ RevisionsStep /\ WorldStep
  BY <1>3 DEF EventsStep, CommitmentsStep, RevisionsStep, WorldStep
<1>6. CommittedStep
  BY <1>1, <1>2, <1>3 DEF CommittedStep
<1>7. /\ world' \in [torn : BOOLEAN, value : Seq(Id)] /\ subscribers' \in Seq(Clients)
  BY <1>3 DEF WebTypes
<1>8. \E some \in Seq(EventId), ids \in Seq(Id), more \in Seq(Id) :
        stored' = [events |-> some, commitments |-> ids, revisions |-> more]
  BY <1>3 DEF WebTypes
<1> QED
  BY <1>2, <1>3, <1>4, <1>5, <1>6, <1>7, <1>8, WriteStep

\* A record of a run is stored.
LEMMA StoreRecordStep ==
  ASSUME WebTypes, NEW t \in Tasks, StoreRecord(t)
  PROVE  WebTypes' /\ StoreStep
<1> DEFINE q == AfterRecords(t, requests[t].position + 1)
<1>1. /\ requests \in [Tasks -> RequestSet] /\ requests[t] \in RequestSet
      /\ requests[t].pc = "records" /\ requests[t].position \in Nat \ {0}
  BY DEF WebTypes, StoreRecord, RequestSet
<1>2. PICK p \in Nat \ {0} : p = requests[t].position
  BY <1>1
<1>3. /\ q \in RequestSet
      /\ q.pc = "artifact" \/ (q.pc = "records" /\ q.position = p + 1
                                 /\ p + 1 <= Len(RecordsOf(t)))
  <2>1. p + 1 \in Nat \ {0} /\ q = AfterRecords(t, p + 1)
    BY <1>2
  <2> HIDE DEF q
  <2> QED
    BY <2>1, AfterRecordsIs
<1>4. PICK id \in Id, to \in {"commitments", "revisions"} :
        /\ id = NextRecord(t).id /\ to = NextRecord(t).file /\ id.by = t
        /\ to = "commitments" => id = [by |-> t, n |-> p]
        /\ to = "revisions" =>
             \E k \in DOMAIN Runs[t].revised :
               /\ p = Runs[t].commitments + k
               /\ id = [by |-> t, n |-> Runs[t].revised[k]]
  BY <1>1, <1>2, NextRecordAt
<1>5. /\ requests' = [requests EXCEPT ![t] = q] /\ running' \in {NoTask, t}
      /\ commitments' = IF to = "commitments"
                        THEN AppendLine(commitments, Line(commitments, id))
                        ELSE commitments
      /\ revisions' = IF to = "revisions"
                      THEN AppendLine(revisions, Line(revisions, id)) ELSE revisions
      /\ stored' = [stored EXCEPT ![to] = Append(@, id)]
      /\ UNCHANGED <<subscribers, connection, received, events, world, asked>>
  BY <1>4 DEF StoreRecord, ContinueWith
<1> HIDE DEF q
<1>6. Later(requests[t], q)
  BY <1>1, <1>2, <1>3 DEF Later, Early
<1>7. q.pc = "records" => q.position <= Len(RecordsOf(t))
  BY <1>3
<1>8. /\ requests'[t] = q /\ \A u \in Tasks : u # t => requests'[u] = requests[u]
  BY <1>1, <1>5
<1>9. PICK some \in Seq(EventId), ids \in Seq(Id), more \in Seq(Id) :
        stored = [events |-> some, commitments |-> ids, revisions |-> more]
  BY DEF WebTypes
<1>10. Append(ids, id) \in Seq(Id) /\ Append(more, id) \in Seq(Id)
  BY <1>4
<1>11. stored' = [events |-> some,
                  commitments |-> IF to = "commitments" THEN Append(ids, id) ELSE ids,
                  revisions |-> IF to = "revisions" THEN Append(more, id) ELSE more]
  <2>1. CASE to = "commitments"
    BY <1>5, <1>9, <2>1
  <2>2. CASE to = "revisions"
    BY <1>5, <1>9, <2>2
  <2> QED
    BY <1>4, <2>1, <2>2
<1>12. \E others \in Seq(EventId), left \in Seq(Id), right \in Seq(Id) :
         stored' = [events |-> others, commitments |-> left, revisions |-> right]
  BY <1>10, <1>11
<1>13. EventsStep /\ WorldStep
  BY <1>5, <1>9, <1>11 DEF EventsStep, WorldStep
<1>14. t # 0
  BY TasksAre
<1>15. CommitmentsStep
  <2>1. CASE to = "commitments"
    <3>1. FileStep(commitments, commitments', stored.commitments,
                   stored'.commitments, id)
      BY <1>5, <1>9, <1>11, <2>1 DEF FileStep
    <3>2. CommitmentBehind(id)'
      BY <1>2, <1>3, <1>4, <1>8, <1>14, <2>1 DEF CommitmentBehind, Early
    <3> QED
      BY <1>1, <1>4, <2>1, <3>1, <3>2 DEF CommitmentsStep, StoresNext
  <2>2. CASE to # "commitments"
    BY <1>5, <1>9, <1>11, <2>2 DEF CommitmentsStep
  <2> QED
    BY <2>1, <2>2
<1>16. RevisionsStep
  <2>1. CASE to = "revisions"
    <3>1. FileStep(revisions, revisions', stored.revisions, stored'.revisions, id)
      BY <1>5, <1>9, <1>11, <2>1 DEF FileStep
    <3>2. RevisionBehind(id)'
      <4>1. PICK k \in DOMAIN Runs[t].revised :
              p = Runs[t].commitments + k /\ id = [by |-> t, n |-> Runs[t].revised[k]]
        BY <1>4, <2>1
      <4>2. \A j \in DOMAIN Runs[t].revised :
              Runs[t].revised[j] = id.n => j = k
        BY <4>1, TasksAre DEF IsInjective
      <4>3. \A j \in DOMAIN Runs[t].revised :
              Runs[t].revised[j] = id.n => Runs[t].commitments + j < p + 1
        BY <1>2, <4>1, <4>2
      <4>4. requests'[t].pc \notin Early
              /\ (requests'[t].pc = "records" => requests'[t].position = p + 1)
        BY <1>3, <1>8 DEF Early
      <4> QED
        BY <1>4, <1>14, <4>3, <4>4 DEF RevisionBehind
    <3> QED
      BY <1>1, <1>4, <2>1, <3>1, <3>2 DEF RevisionsStep, StoresNext
  <2>2. CASE to # "revisions"
    BY <1>5, <1>9, <1>11, <2>2 DEF RevisionsStep
  <2> QED
    BY <2>1, <2>2
<1>17. CommittedStep
  <2>1. to = "commitments" => stored'.commitments = Append(stored.commitments, id)
    BY <1>9, <1>11
  <2> QED
    BY <1>1, <1>2, <1>3, <1>4, <1>8, <2>1 DEF CommittedStep
<1>18. world' \in [torn : BOOLEAN, value : Seq(Id)] /\ subscribers' \in Seq(Clients)
  BY <1>5 DEF WebTypes
<1> QED
  BY <1>3, <1>5, <1>6, <1>7, <1>12, <1>13, <1>15, <1>16, <1>17, <1>18, WriteStep

\* A write of a request that is cut off, when the request does not come back to it.
LEMMA CutOff ==
  ASSUME WebTypes, NEW t \in Tasks, WriteCutOff(t), UNCHANGED asked,
         requests[t].pc = "events" =>
           /\ requests'[t].pc # "idle"
           /\ InBroadcast(t)' => requests[t].event < requests'[t].event,
         requests[t].pc = "records" => requests'[t].pc \in {"artifact", "ended"}
  PROVE  /\ EventsStep /\ CommitmentsStep /\ RevisionsStep /\ WorldStep
         /\ world' \in [torn : BOOLEAN, value : Seq(Id)]
         /\ stored' = stored
<1>1. /\ stored' = stored /\ requests[t] \in RequestSet
      /\ world \in [torn : BOOLEAN, value : Seq(Id)]
  BY DEF WebTypes, WriteCutOff
<1>2. CASE /\ requests[t].pc = "events"
           /\ events' \in AppendFails(events, Line(events, EventOf(t)))
           /\ UNCHANGED <<commitments, revisions, world, artifacts>>
  <2>1. PICK e \in EventId : e = EventOf(t) /\ e.task = t /\ e.event = requests[t].event
    BY EventIs
  <2>2. FileStep(events, events', stored.events, stored'.events, e)
    BY <1>1, <1>2, <2>1 DEF FileStep
  <2>3. EventBehind(e)'
    BY <1>2, <2>1 DEF EventBehind, InBroadcast
  <2>4. EventsStep
    BY <1>2, <2>1, <2>2, <2>3 DEF EventsStep
  <2> QED
    BY <1>1, <1>2, <2>4 DEF CommitmentsStep, RevisionsStep, WorldStep
<1>3. CASE /\ world' \in SaveFails(world)
           /\ UNCHANGED <<events, commitments, revisions, artifacts>>
  <2>1. world' = world \/ world' = [torn |-> TRUE, value |-> <<>>]
    BY <1>3 DEF SaveFails, Torn
  <2>2. WorldStep
    BY <2>1 DEF WorldStep
  <2>3. world' \in [torn : BOOLEAN, value : Seq(Id)]
    <3>1. [torn |-> TRUE, value |-> <<>>] \in [torn : BOOLEAN, value : Seq(Id)]
      OBVIOUS
    <3> QED
      BY <1>1, <2>1, <3>1
  <2> QED
    BY <1>1, <1>3, <2>2, <2>3 DEF EventsStep, CommitmentsStep, RevisionsStep
<1>4. CASE /\ requests[t].pc = "records" /\ NextRecord(t).file = "commitments"
           /\ commitments' \in
                AppendFails(commitments, Line(commitments, NextRecord(t).id))
           /\ UNCHANGED <<events, revisions, world, artifacts>>
  <2>1. PICK id \in Id : id = NextRecord(t).id /\ id.by = t
    BY <1>4, NextRecordIs
  <2>2. FileStep(commitments, commitments', stored.commitments,
                 stored'.commitments, id)
    BY <1>1, <1>4, <2>1 DEF FileStep
  <2>3. CommitmentBehind(id)'
    BY <1>4, <2>1, TasksAre DEF CommitmentBehind, Early, NoTask
  <2>4. CommitmentsStep
    BY <1>4, <2>1, <2>2, <2>3 DEF CommitmentsStep, StoresNext
  <2> QED
    BY <1>1, <1>4, <2>4 DEF EventsStep, RevisionsStep, WorldStep
<1>5. CASE /\ requests[t].pc = "records" /\ NextRecord(t).file = "revisions"
           /\ revisions' \in AppendFails(revisions, Line(revisions, NextRecord(t).id))
           /\ UNCHANGED <<events, commitments, world, artifacts>>
  <2>1. PICK id \in Id : id = NextRecord(t).id /\ id.by = t
    BY <1>5, NextRecordIs
  <2>2. FileStep(revisions, revisions', stored.revisions, stored'.revisions, id)
    BY <1>1, <1>5, <2>1 DEF FileStep
  <2>3. RevisionBehind(id)'
    BY <1>5, <2>1, TasksAre DEF RevisionBehind, Early, NoTask
  <2>4. RevisionsStep
    BY <1>5, <2>1, <2>2, <2>3 DEF RevisionsStep, StoresNext
  <2> QED
    BY <1>1, <1>5, <2>4 DEF EventsStep, CommitmentsStep, WorldStep
<1>6. CASE UNCHANGED <<events, commitments, revisions, world>>
  BY <1>1, <1>6 DEF EventsStep, CommitmentsStep, RevisionsStep, WorldStep
<1> QED
  BY <1>2, <1>3, <1>4, <1>5, <1>6 DEF WriteCutOff

\* A write raises, and the request goes on.
LEMMA WriteRaisesStep ==
  ASSUME WebTypes, NEW t \in Tasks, WriteRaises(t)
  PROVE  WebTypes' /\ StoreStep
<1> DEFINE q == CASE requests[t].pc = "events"   -> NextEvent(t)
                  [] requests[t].pc = "world"    -> AfterRecords(t, 1)
                  [] requests[t].pc = "records"  -> Request("artifact")
                  [] requests[t].pc = "artifact" -> Request("ended")
<1>1. /\ requests \in [Tasks -> RequestSet] /\ requests[t] \in RequestSet
      /\ requests[t].pc \in {"events", "world", "records", "artifact"}
  BY DEF WebTypes, WriteRaises, WriteCutOff
<1>2. /\ requests' = [requests EXCEPT ![t] = q] /\ running' \in {NoTask, t}
      /\ WriteCutOff(t)
      /\ subscribers' = subscribers
         \/ subscribers' = Only(subscribers, Clients \ requests[t].disconnected)
      /\ UNCHANGED <<connection, received, asked>>
  BY DEF WriteRaises, ContinueWith, Pruned
<1>3. /\ q \in RequestSet /\ Later(requests[t], q)
      /\ q.pc = "records" => /\ q.position = 1 /\ q.position <= Len(RecordsOf(t))
      /\ requests[t].pc = "events" =>
           /\ q.pc # "idle"
           /\ q.pc \in {"events", "sending"} => requests[t].event < q.event
      /\ requests[t].pc = "records" => q.pc = "artifact"
  <2>1. CASE requests[t].pc = "events"
    <3>1. q = NextEvent(t)
      BY <2>1
    <3>2. requests[t].event \in Nat
      BY <1>1 DEF RequestSet
    <3> HIDE DEF q
    <3> QED
      BY <2>1, <3>1, <3>2, NextEventIs
  <2>2. CASE requests[t].pc = "world"
    <3>1. q = AfterRecords(t, 1)
      BY <2>2
    <3> HIDE DEF q
    <3>2. /\ q \in RequestSet
          /\ q.pc = "artifact" \/ (q.pc = "records" /\ q.position = 1
                                     /\ 1 <= Len(RecordsOf(t)))
      BY <3>1, AfterRecordsIs
    <3> QED
      BY <2>2, <3>2 DEF Later, Early
  <2>3. CASE requests[t].pc = "records"
    <3>1. q = Request("artifact")
      BY <2>3
    <3> HIDE DEF q
    <3>2. q \in RequestSet /\ q.pc = "artifact"
      BY <3>1, RequestIs
    <3> QED
      BY <2>3, <3>2 DEF Later, Early
  <2>4. CASE requests[t].pc = "artifact"
    <3>1. q = Request("ended")
      BY <2>4
    <3> HIDE DEF q
    <3>2. q \in RequestSet /\ q.pc = "ended"
      BY <3>1, RequestIs
    <3> QED
      BY <2>4, <3>2 DEF Later, Early
  <2> QED
    BY <1>1, <2>1, <2>2, <2>3, <2>4
<1> HIDE DEF q
<1>4. requests'[t] = q /\ \A u \in Tasks : u # t => requests'[u] = requests[u]
  BY <1>1, <1>2
<1>5. /\ EventsStep /\ CommitmentsStep /\ RevisionsStep /\ WorldStep
      /\ world' \in [torn : BOOLEAN, value : Seq(Id)]
      /\ stored' = stored
  <2>1. /\ requests[t].pc = "events" =>
             /\ requests'[t].pc # "idle"
             /\ InBroadcast(t)' => requests[t].event < requests'[t].event
        /\ requests[t].pc = "records" => requests'[t].pc \in {"artifact", "ended"}
    BY <1>3, <1>4 DEF InBroadcast
  <2> QED
    BY <1>2, <2>1, CutOff
<1>6. CommittedStep
  BY <1>3, <1>4 DEF CommittedStep
<1>7. \E some \in Seq(EventId), ids \in Seq(Id), more \in Seq(Id) :
        stored' = [events |-> some, commitments |-> ids, revisions |-> more]
  BY <1>5 DEF WebTypes
<1>8. subscribers' \in Seq(Clients)
  <2>1. subscribers \in Seq(Clients)
    BY DEF WebTypes
  <2> QED
    BY <1>2, <2>1, OnlyPlaces DEF KeptOf
<1> QED
  BY <1>2, <1>3, <1>5, <1>6, <1>7, <1>8, WriteStep

\* The server is stopped and started: no request is between two steps any more.
LEMMA CrashStep ==
  ASSUME WebTypes, Crash
  PROVE  WebTypes' /\ StoreStep
<1>1. /\ requests \in [Tasks -> RequestSet] /\ asked \in Nat
      /\ connection \in [Clients -> {"new", "open", "gone", "closed"}]
  BY DEF WebTypes
<1>2. /\ UNCHANGED files \/ \E t \in Tasks : WriteCutOff(t)
      /\ running' = NoTask
      /\ requests' = [t \in Tasks |->
           Request(IF requests[t].pc = "idle" THEN "idle" ELSE "ended")]
      /\ subscribers' = <<>>
      /\ connection' = [c \in Clients |->
           IF connection[c] = "new" THEN "new" ELSE "closed"]
      /\ received' = [c \in Clients |-> <<>>]
      /\ asked' = asked
  BY DEF Crash
<1>3. \A t \in Tasks :
        /\ requests'[t] \in RequestSet
        /\ requests'[t].pc = IF requests[t].pc = "idle" THEN "idle" ELSE "ended"
  <2> TAKE t \in Tasks
  <2>1. PICK pc \in {"idle", "ended"} :
          pc = IF requests[t].pc = "idle" THEN "idle" ELSE "ended"
    OBVIOUS
  <2>2. requests'[t] = Request(pc)
    BY <1>2, <2>1
  <2> QED
    BY <2>1, <2>2, RequestIs
<1>4. requests' \in [Tasks -> RequestSet]
  BY <1>2, <1>3
<1>5. /\ \A t \in Tasks : Later(requests[t], requests'[t])
      /\ \A t \in Tasks : requests'[t].pc # "records"
  BY <1>1, <1>3 DEF Later, Early
<1>6. CommittedStep
  BY <1>5 DEF CommittedStep
<1>7. /\ EventsStep /\ CommitmentsStep /\ RevisionsStep /\ WorldStep
      /\ world' \in [torn : BOOLEAN, value : Seq(Id)]
      /\ stored' = stored
  <2>1. CASE UNCHANGED files
    BY <2>1 DEF files, EventsStep, CommitmentsStep, RevisionsStep, WorldStep, WebTypes
  <2>2. CASE \E t \in Tasks : WriteCutOff(t)
    <3>1. PICK t \in Tasks : WriteCutOff(t)
      BY <2>2
    <3>2. /\ requests[t].pc = "events" =>
               /\ requests'[t].pc # "idle"
               /\ InBroadcast(t)' => requests[t].event < requests'[t].event
          /\ requests[t].pc = "records" => requests'[t].pc \in {"artifact", "ended"}
      BY <1>3 DEF InBroadcast
    <3> QED
      BY <1>2, <3>1, <3>2, CutOff
  <2> QED
    BY <1>2, <2>1, <2>2
<1>8. StoreStep
  BY <1>1, <1>2, <1>5, <1>6, <1>7 DEF StoreStep
<1>9. /\ events' \in FileOf(EventId)
      /\ commitments' \in FileOf(Id) /\ revisions' \in FileOf(Id)
      /\ stored' \in [events : Seq(EventId), commitments : Seq(Id), revisions : Seq(Id)]
  <2>1. \E some \in Seq(EventId), ids \in Seq(Id), more \in Seq(Id) :
          stored' = [events |-> some, commitments |-> ids, revisions |-> more]
    BY <1>7 DEF WebTypes
  <2> QED
    BY <1>7, <2>1, FilesLeft
<1>10. /\ subscribers' \in Seq(Clients) /\ received' \in [Clients -> Seq(EventId)]
       /\ connection' \in [Clients -> {"new", "open", "gone", "closed"}]
  <2>1. <<>> \in Seq(Clients) /\ <<>> \in Seq(EventId)
    OBVIOUS
  <2> QED
    BY <1>1, <1>2, <2>1
<1> QED
  BY <1>1, <1>2, <1>4, <1>5, <1>7, <1>8, <1>9, <1>10 DEF WebTypes

\* A commitment request: the first write that fails ends it.
LEMMA ExecuteCommitmentStep ==
  ASSUME WebTypes, NEW kind \in CommitmentKind, NEW revises \in BOOLEAN,
         ExecuteCommitment(kind, revises)
  PROVE  WebTypes' /\ StoreStep
<1>1. /\ asked \in Nat /\ requests \in [Tasks -> RequestSet]
      /\ world \in [torn : BOOLEAN, value : Seq(Id)]
      /\ stored \in [events : Seq(EventId), commitments : Seq(Id), revisions : Seq(Id)]
  BY DEF WebTypes
<1>2. PICK id \in Id : id = ThisId
  <2>1. ThisId \in Id
    BY <1>1 DEF ThisId, Id
  <2> QED
    BY <2>1
<1>3. PICK made \in Seq(Id) : made = Append(world.value, id)
  <2>1. world.value \in Seq(Id)
    BY <1>1
  <2>2. Append(world.value, id) \in Seq(Id)
    BY <2>1
  <2> QED
    BY <2>2
<1>4. /\ asked' = asked + 1
      /\ Commit(id, made) \/ CommitOnly(id)
      /\ UNCHANGED <<running, requests, subscribers, connection, received, events>>
  BY <1>2, <1>3 DEF ExecuteCommitment, ThisId, volatile
<1>5. PICK some \in Seq(EventId), ids \in Seq(Id), more \in Seq(Id) :
        stored = [events |-> some, commitments |-> ids, revisions |-> more]
  BY <1>1
<1>6. Append(ids, id) \in Seq(Id) /\ Append(more, id) \in Seq(Id)
  OBVIOUS
<1>7. \/ stored' = stored
      \/ stored' = [events |-> some, commitments |-> Append(ids, id),
                    revisions |-> more]
      \/ stored' = [events |-> some, commitments |-> Append(ids, id),
                    revisions |-> Append(more, id)]
  BY <1>4, <1>5 DEF Commit, CommitOnly
<1>8. \E others \in Seq(EventId), left \in Seq(Id), right \in Seq(Id) :
        stored' = [events |-> others, commitments |-> left, revisions |-> right]
  BY <1>5, <1>6, <1>7
<1>9. EventsStep
  BY <1>4, <1>5, <1>7 DEF EventsStep
<1>10. CommitmentsStep
  <2>1. FileStep(commitments, commitments', stored.commitments,
                 stored'.commitments, id)
    <3>1. CASE commitments' \in AppendFails(commitments, Line(commitments, id))
               /\ stored' = stored
      BY <3>1 DEF FileStep
    <3>2. CASE /\ commitments' = AppendLine(commitments, Line(commitments, id))
               /\ \/ stored' = [stored EXCEPT !.commitments = Append(@, id)]
                  \/ stored' = [stored EXCEPT !.commitments = Append(@, id),
                                              !.revisions = Append(@, id)]
      <4>1. stored'.commitments = Append(stored.commitments, id)
        BY <1>5, <3>2
      <4> QED
        BY <3>2, <4>1 DEF FileStep
    <3> QED
      BY <1>4, <3>1, <3>2 DEF Commit, CommitOnly
  <2> QED
    BY <1>2, <1>4, <2>1 DEF CommitmentsStep
<1>11. RevisionsStep
  <2>1. CASE revisions' = revisions /\ stored'.revisions = stored.revisions
    BY <2>1 DEF RevisionsStep
  <2>2. CASE /\ stored' = [events |-> some, commitments |-> Append(ids, id),
                           revisions |-> more]
             /\ revisions' \in AppendFails(revisions, Line(revisions, id))
    <3>1. /\ stored'.commitments = Append(stored.commitments, id)
          /\ stored'.revisions = stored.revisions
      BY <1>5, <2>2
    <3>2. FileStep(revisions, revisions', stored.revisions, stored'.revisions, id)
      BY <2>2, <3>1 DEF FileStep
    <3> QED
      BY <1>2, <1>4, <3>1, <3>2 DEF RevisionsStep
  <2>3. CASE /\ stored' = [events |-> some, commitments |-> Append(ids, id),
                           revisions |-> Append(more, id)]
             /\ revisions' = AppendLine(revisions, Line(revisions, id))
    <3>1. /\ stored'.commitments = Append(stored.commitments, id)
          /\ stored'.revisions = Append(stored.revisions, id)
      BY <1>5, <2>3
    <3>2. FileStep(revisions, revisions', stored.revisions, stored'.revisions, id)
      BY <2>3, <3>1 DEF FileStep
    <3> QED
      BY <1>2, <1>4, <3>1, <3>2 DEF RevisionsStep
  <2>4. \/ revisions' = revisions /\ stored'.revisions = stored.revisions
        \/ /\ stored' = [events |-> some, commitments |-> Append(ids, id),
                         revisions |-> more]
           /\ revisions' \in AppendFails(revisions, Line(revisions, id))
        \/ /\ stored' = [events |-> some, commitments |-> Append(ids, id),
                         revisions |-> Append(more, id)]
           /\ revisions' = AppendLine(revisions, Line(revisions, id))
    BY <1>4, <1>5 DEF Commit, CommitOnly
  <2> QED
    BY <2>1, <2>2, <2>3, <2>4
<1>12. \/ world' \in SaveFails(world)
       \/ /\ world' = Saved(made)
          /\ stored' = [events |-> some, commitments |-> Append(ids, id),
                        revisions |-> Append(more, id)]
  BY <1>4, <1>5 DEF Commit, CommitOnly, SaveFails
<1>13. \/ world' = world
       \/ world' = [torn |-> TRUE, value |-> <<>>]
       \/ /\ world' = [torn |-> FALSE, value |-> made]
          /\ stored'.revisions = Append(stored.revisions, id)
  BY <1>5, <1>12 DEF SaveFails, Torn, Saved
<1>14. WorldStep
  BY <1>2, <1>3, <1>4, <1>13 DEF WorldStep
<1>15. world' \in [torn : BOOLEAN, value : Seq(Id)]
  <2>1. /\ [torn |-> TRUE, value |-> <<>>] \in [torn : BOOLEAN, value : Seq(Id)]
        /\ [torn |-> FALSE, value |-> made] \in [torn : BOOLEAN, value : Seq(Id)]
    OBVIOUS
  <2> QED
    BY <1>1, <1>13, <2>1
<1>16. (\A u \in Tasks : Later(requests[u], requests'[u])) /\ CommittedStep
  BY <1>1, <1>4, LaterSelf DEF CommittedStep
<1>17. StoreStep
  BY <1>1, <1>4, <1>9, <1>10, <1>11, <1>14, <1>16 DEF StoreStep
<1>18. /\ events' \in FileOf(EventId)
       /\ commitments' \in FileOf(Id) /\ revisions' \in FileOf(Id)
       /\ stored' \in [events : Seq(EventId), commitments : Seq(Id), revisions : Seq(Id)]
  BY <1>8, <1>9, <1>10, <1>11, FilesLeft
<1> QED
  BY <1>1, <1>4, <1>15, <1>17, <1>18 DEF WebTypes

\* Every step: the types are kept, and it stores as StoreStep says or nothing.
LEMMA TypesNext ==
  ASSUME WebTypes, [WebNext]_webVars
  PROVE  WebTypes' /\ StoreStep
<1>1. CASE UNCHANGED webVars
  <2>1. UNCHANGED <<files, asked, requests>>
    BY <1>1 DEF webVars, volatile
  <2>2. StoreStep
    BY <2>1, NeitherStep
  <2> QED
    BY <1>1, <2>2 DEF WebTypes, webVars, volatile, files
<1>2. CASE \E c \in Clients : Subscribe(c) \/ GoAway(c) \/ NoticeGone(c)
  BY <1>2, ClientStep
<1>3. CASE \E t \in Tasks : ExecuteTask(t) \/ TaskRaises(t) \/ TaskStep(t)
  <2>1. PICK t \in Tasks : ExecuteTask(t) \/ TaskRaises(t) \/ TaskStep(t)
    BY <1>3
  <2>2. CASE ExecuteTask(t) \/ TaskRaises(t)
    BY <2>2, BeginStep
  <2>3. CASE BeginSend(t) \/ SendReturns(t)
    BY <2>3, SendStep
  <2>4. CASE EndBroadcast(t)
    BY <2>4, EndBroadcastStep
  <2>5. CASE SaveRunState(t)
    BY <2>5, SaveRunStateStep
  <2>6. CASE StoreRecord(t)
    BY <2>6, StoreRecordStep
  <2>7. CASE SaveArtifact(t)
    BY <2>7, SaveArtifactStep
  <2>8. CASE WriteRaises(t)
    BY <2>8, WriteRaisesStep
  <2> QED
    BY <2>1, <2>2, <2>3, <2>4, <2>5, <2>6, <2>7, <2>8 DEF TaskStep
<1>4. CASE \E kind \in CommitmentKind, revises \in BOOLEAN :
             ExecuteCommitment(kind, revises)
  BY <1>4, ExecuteCommitmentStep
<1>5. CASE Crash
  BY <1>5, CrashStep
<1> QED
  BY <1>1, <1>2, <1>3, <1>4, <1>5 DEF WebNext

\* The server starts over files that hold nothing.
LEMMA TypesInit ==
  ASSUME WebInit
  PROVE  WebTypes
<1>1. /\ requests \in [Tasks -> RequestSet]
      /\ \A t \in Tasks : requests[t].pc # "records"
  <2>1. Request("idle") \in RequestSet /\ Request("idle").pc = "idle"
    BY RequestIs
  <2> QED
    BY <2>1 DEF WebInit
<1>2. /\ <<>> \in Seq(Clients) /\ <<>> \in Seq(EventId) /\ <<>> \in Seq(Id)
  OBVIOUS
<1>3. /\ events \in FileOf(EventId)
      /\ commitments \in FileOf(Id) /\ revisions \in FileOf(Id)
  BY NoLinesFile DEF WebInit
<1>4. /\ world \in [torn : BOOLEAN, value : Seq(Id)]
      /\ stored \in [events : Seq(EventId), commitments : Seq(Id), revisions : Seq(Id)]
  BY <1>2 DEF WebInit, Saved
<1> QED
  BY <1>1, <1>2, <1>3, <1>4 DEF WebInit, WebTypes, NoTask

--------------------------------------------------------------------------------
(***************************************************************************)
(* What is on file, and what of it was stored: all behind the requests.    *)
(***************************************************************************)

EventsBehind ==
  CanBeLoaded(events) =>
    \A n \in DOMAIN events.lines, e \in EventId :
      Contents(events)[n] = e => EventBehind(e)

CommitmentsBehind ==
  CanBeLoaded(commitments) =>
    \A n \in DOMAIN commitments.lines, id \in Id :
      Contents(commitments)[n] = id => CommitmentBehind(id)

RevisionsBehind ==
  CanBeLoaded(revisions) =>
    \A n \in DOMAIN revisions.lines, id \in Id :
      Contents(revisions)[n] = id => RevisionBehind(id)

\* A revision is on a line only after the append of its commitment returned.
RevisionsCommitted ==
  \A n \in Readable(revisions) :
    revisions.lines[n][1].what \in Range(stored.commitments)

\* Those of commitment requests are on file in the order of these.
RevisionsOrdered ==
  CanBeLoaded(revisions) =>
    \A m, n \in DOMAIN revisions.lines, one \in Id, other \in Id :
      /\ m < n /\ Contents(revisions)[m] = one /\ Contents(revisions)[n] = other
      /\ one.by = 0 /\ other.by = 0
      => one.n < other.n

\* A request is past a commitment only if the append of it returned.
CommittedFirst ==
  \A t \in Tasks : requests[t].pc = "records" =>
    \A n \in 1..Runs[t].commitments :
      n < requests[t].position => [by |-> t, n |-> n] \in Range(stored.commitments)

\* What commitment requests changed in the world state they did in turn, and
\* after the append of the revision returned.
WorldRecorded ==
  /\ \A m \in DOMAIN world.value, id \in Id :
       world.value[m] = id /\ id.by = 0 =>
         id \in Range(stored.revisions) /\ id.n <= asked
  /\ \A m, n \in DOMAIN world.value, one \in Id, other \in Id :
       /\ m < n /\ world.value[m] = one /\ world.value[n] = other
       /\ one.by = 0 /\ other.by = 0
       => one.n < other.n

FilesInv ==
  /\ WebTypes /\ LogsWhole
  /\ EventsBehind /\ CommitmentsBehind /\ RevisionsBehind
  /\ RevisionsCommitted /\ RevisionsOrdered
  /\ CommittedFirst /\ WorldRecorded

\* What lies behind a request stays so.
LEMMA BehindStays ==
  ASSUME WebTypes, WebTypes', StoreStep
  PROVE  /\ \A e \in EventId : EventBehind(e) => EventBehind(e)'
         /\ \A id \in Id : CommitmentBehind(id) => CommitmentBehind(id)'
         /\ \A id \in Id : RevisionBehind(id) => RevisionBehind(id)'
<1>1. /\ asked \in Nat /\ asked' \in Nat /\ asked <= asked'
      /\ \A t \in Tasks : Later(requests[t], requests'[t])
      /\ \A t \in Tasks : requests[t] \in RequestSet /\ requests'[t] \in RequestSet
  BY DEF WebTypes, StoreStep
<1>2. \A t \in Tasks :
        /\ requests[t].event \in Nat /\ requests'[t].event \in Nat
        /\ requests[t].position \in Nat /\ requests'[t].position \in Nat
  BY <1>1 DEF RequestSet
<1>3. ASSUME NEW e \in EventId, EventBehind(e)
      PROVE  EventBehind(e)'
  <2>1. e.task \in Tasks /\ e.event \in Nat
    BY DEF EventId
  <2>2. Later(requests[e.task], requests'[e.task])
    BY <1>1, <2>1
  <2> QED
    BY <1>2, <1>3, <2>1, <2>2 DEF EventBehind, InBroadcast, Later
<1>4. ASSUME NEW id \in Id, CommitmentBehind(id)
      PROVE  CommitmentBehind(id)'
  <2>1. id.by \in Nat /\ id.n \in Nat
    BY DEF Id
  <2>2. CASE id.by = 0
    BY <1>1, <1>4, <2>1, <2>2 DEF CommitmentBehind
  <2>3. CASE id.by # 0
    <3>1. id.by \in Tasks
      BY <1>4, <2>3 DEF CommitmentBehind
    <3>2. Later(requests[id.by], requests'[id.by])
      BY <1>1, <3>1
    <3> QED
      BY <1>2, <1>4, <2>1, <2>3, <3>1, <3>2 DEF CommitmentBehind, Later
  <2> QED
    BY <2>2, <2>3
<1>5. ASSUME NEW id \in Id, RevisionBehind(id)
      PROVE  RevisionBehind(id)'
  <2>1. id.by \in Nat /\ id.n \in Nat
    BY DEF Id
  <2>2. CASE id.by = 0
    BY <1>1, <1>5, <2>1, <2>2 DEF RevisionBehind
  <2>3. CASE id.by # 0
    <3>1. id.by \in Tasks
      BY <1>5, <2>3 DEF RevisionBehind
    <3> DEFINE t == id.by
               count == Runs[t].commitments
               revised == Runs[t].revised
    <3>2. Later(requests[t], requests'[t])
      BY <1>1, <3>1
    <3>3. count \in Nat /\ DOMAIN revised \subseteq Nat
      <4>1. revised \in Seq(1..count) /\ count \in Nat
        BY <3>1, TasksAre
      <4> HIDE DEF revised, count
      <4> QED
        BY <4>1
    <3>4. /\ requests[t].pc \notin Early
          /\ requests[t].pc = "records" =>
               \A k \in DOMAIN revised :
                 revised[k] = id.n => count + k < requests[t].position
      BY <1>5, <2>3 DEF RevisionBehind
    <3>5. requests[t].position \in Nat /\ requests'[t].position \in Nat
      BY <1>2, <3>1
    <3>6. requests'[t].pc \notin Early
      BY <3>2, <3>4 DEF Later
    <3>7. ASSUME requests'[t].pc = "records"
          PROVE  \A k \in DOMAIN revised :
                   revised[k] = id.n => count + k < requests'[t].position
      <4>1. requests[t].pc = "records" /\ requests[t].position <= requests'[t].position
        BY <3>2, <3>4, <3>7 DEF Later
      <4> HIDE DEF t, count, revised
      <4> QED
        BY <3>3, <3>4, <3>5, <4>1
    <3> QED
      BY <2>3, <3>1, <3>6, <3>7 DEF RevisionBehind
  <2> QED
    BY <2>2, <2>3
<1> QED
  BY <1>3, <1>4, <1>5

\* What was stored stays stored.
LEMMA StoredStays ==
  ASSUME WebTypes, StoreStep
  PROVE  /\ Range(stored.commitments) \subseteq Range(stored'.commitments)
         /\ Range(stored.revisions) \subseteq Range(stored'.revisions)
<1>1. \A s \in Seq(Id), id \in Id : Range(s) \subseteq Range(Append(s, id))
  BY DEF Range
<1>2. stored.commitments \in Seq(Id) /\ stored.revisions \in Seq(Id) /\ ThisId \in Id
  BY DEF WebTypes, ThisId, Id
<1>3. \/ stored'.commitments = stored.commitments
      \/ \E id \in Id : stored'.commitments = Append(stored.commitments, id)
  BY <1>2 DEF StoreStep, CommitmentsStep, FileStep
<1>4. \/ stored'.revisions = stored.revisions
      \/ \E id \in Id : stored'.revisions = Append(stored.revisions, id)
  BY <1>2 DEF StoreStep, RevisionsStep, FileStep
<1> QED
  BY <1>1, <1>2, <1>3, <1>4

\* The event a request is at is not on file.
LEMMA EventFresh ==
  ASSUME FilesInv, NEW t \in Tasks, NEW e \in EventId,
         requests[t].pc = "events", e = EventOf(t), CanBeLoaded(events)
  PROVE  \A n \in DOMAIN events.lines : Contents(events)[n] # e
<1>1. e.task = t /\ e.event = requests[t].event /\ requests[t].event \in Nat
  BY DEF EventOf, FilesInv, WebTypes, RequestSet
<1>2. ~EventBehind(e)
  BY <1>1 DEF EventBehind, InBroadcast
<1> QED
  BY <1>2 DEF FilesInv, EventsBehind

\* The commitment a request stores next is not on file.
LEMMA CommitmentFresh ==
  ASSUME FilesInv, NEW t \in Tasks, NEW id \in Id,
         StoresNext(t, "commitments"), id = NextRecord(t).id, CanBeLoaded(commitments)
  PROVE  \A n \in DOMAIN commitments.lines : Contents(commitments)[n] # id
<1>1. WebTypes /\ requests[t].pc = "records" /\ NextRecord(t).file = "commitments"
  BY DEF FilesInv, StoresNext
<1>2. /\ id = [by |-> t, n |-> requests[t].position] /\ requests[t].position \in Nat
      /\ t # 0
  BY <1>1, NextRecordIs, TasksAre
<1>3. ~CommitmentBehind(id)
  BY <1>1, <1>2 DEF CommitmentBehind
<1> QED
  BY <1>3 DEF FilesInv, CommitmentsBehind

\* The revision a request stores next is not on file.
LEMMA RevisionFresh ==
  ASSUME FilesInv, NEW t \in Tasks, NEW id \in Id,
         StoresNext(t, "revisions"), id = NextRecord(t).id, CanBeLoaded(revisions)
  PROVE  \A n \in DOMAIN revisions.lines : Contents(revisions)[n] # id
<1>1. WebTypes /\ requests[t].pc = "records" /\ NextRecord(t).file = "revisions"
  BY DEF FilesInv, StoresNext
<1>2. PICK k \in DOMAIN Runs[t].revised :
        /\ requests[t].position = Runs[t].commitments + k
        /\ id = [by |-> t, n |-> Runs[t].revised[k]]
  BY <1>1, NextRecordAt
<1>3. requests[t].position \in Nat /\ t # 0
  BY <1>1, TasksAre DEF WebTypes, RequestSet
<1>4. ~RevisionBehind(id)
  BY <1>1, <1>2, <1>3 DEF RevisionBehind
<1> QED
  BY <1>4 DEF FilesInv, RevisionsBehind

\* The id of a commitment request is on neither file.
LEMMA ThisFresh ==
  ASSUME FilesInv
  PROVE  /\ ThisId \in Id /\ ThisId.by = 0 /\ ThisId.n = asked + 1 /\ asked \in Nat
         /\ CanBeLoaded(commitments) =>
              \A n \in DOMAIN commitments.lines : Contents(commitments)[n] # ThisId
         /\ CanBeLoaded(revisions) =>
              \A n \in DOMAIN revisions.lines : Contents(revisions)[n] # ThisId
<1>1. asked \in Nat
  BY DEF FilesInv, WebTypes
<1>2. PICK id \in Id : id = ThisId /\ id.by = 0 /\ id.n = asked + 1
  <2>1. ThisId \in Id /\ ThisId.by = 0 /\ ThisId.n = asked + 1
    BY <1>1 DEF ThisId, Id
  <2> QED
    BY <2>1
<1>3. ~CommitmentBehind(id) /\ ~RevisionBehind(id)
  BY <1>1, <1>2 DEF CommitmentBehind, RevisionBehind
<1>4. /\ CanBeLoaded(commitments) =>
           \A n \in DOMAIN commitments.lines : Contents(commitments)[n] # id
      /\ CanBeLoaded(revisions) =>
           \A n \in DOMAIN revisions.lines : Contents(revisions)[n] # id
  BY <1>3 DEF FilesInv, CommitmentsBehind, RevisionsBehind
<1> QED
  BY <1>1, <1>2, <1>4

\* What a record on file after an append is: one that was, or the one appended.
LEMMA OnFile ==
  ASSUME NEW S, NEW f \in FileOf(S), NEW what \in S, NEW returned \in Seq(S),
         NEW g, NEW after, FileStep(f, g, returned, after, what), CanBeLoaded(g)
  PROVE  /\ CanBeLoaded(f)
         /\ \A n \in DOMAIN g.lines :
              \/ n \in DOMAIN f.lines /\ Contents(g)[n] = Contents(f)[n]
              \/ Contents(g)[n] = what /\ \A m \in DOMAIN f.lines : m < n
         /\ \A m, n \in DOMAIN g.lines : m \notin DOMAIN f.lines /\ m < n => FALSE
<1>1. /\ g \in FileOf(S) /\ CanBeLoaded(f) /\ Appended(f, g, what)
  BY FileStepLeaves
<1>2. /\ \A n \in DOMAIN f.lines :
           n \in DOMAIN g.lines /\ Contents(g)[n] = Contents(f)[n]
      /\ \A n \in DOMAIN g.lines \ DOMAIN f.lines :
           Contents(g)[n] = what /\ \A m \in DOMAIN f.lines : m < n
  BY <1>1, ContentsLeft
<1>3. /\ DOMAIN f.lines = 1..Len(f.lines) /\ Len(f.lines) \in Nat
  BY <1>1, ContentsType
<1>4. DOMAIN g.lines = 1..Len(f.lines) \/ DOMAIN g.lines = 1..(Len(f.lines) + 1)
  <2>1. CASE g.lines = f.lines
    BY <1>3, <2>1
  <2>2. CASE g.lines = Append(f.lines, <<Line(f, what)>>)
    BY <1>1, <2>2, ContentsAppended
  <2> QED
    BY <1>1, <2>1, <2>2 DEF Appended
<1>5. \A m, n \in DOMAIN g.lines : m \notin DOMAIN f.lines /\ m < n => FALSE
  <2> DEFINE size == Len(f.lines)
  <2>1. /\ size \in Nat /\ DOMAIN f.lines = 1..size
        /\ DOMAIN g.lines = 1..size \/ DOMAIN g.lines = 1..(size + 1)
    BY <1>3, <1>4
  <2> HIDE DEF size
  <2> QED
    BY <2>1
<1> QED
  BY <1>1, <1>2, <1>5

\* The logs stay whole.
LEMMA LogsWholeNext ==
  ASSUME FilesInv, StoreStep
  PROVE  LogsWhole'
<1>1. /\ events \in FileOf(EventId)
      /\ commitments \in FileOf(Id) /\ revisions \in FileOf(Id)
      /\ stored.events \in Seq(EventId) /\ stored.commitments \in Seq(Id)
      /\ stored.revisions \in Seq(Id)
  BY DEF FilesInv, WebTypes
<1>2. /\ Whole(events, stored.events) /\ Whole(commitments, stored.commitments)
      /\ Whole(revisions, stored.revisions)
  BY DEF FilesInv, LogsWhole
<1>3. Whole(events', stored'.events)
  <2>1. CASE events' = events /\ stored'.events = stored.events
    BY <1>2, <2>1
  <2>2. ASSUME NEW t \in Tasks, NEW e \in EventId,
               requests[t].pc = "events", e = EventOf(t),
               FileStep(events, events', stored.events, stored'.events, e)
        PROVE  Whole(events', stored'.events)
    <3>1. CanBeLoaded(events) => \A n \in DOMAIN events.lines : Contents(events)[n] # e
      BY <2>2, EventFresh
    <3> QED
      BY <1>1, <1>2, <2>2, <3>1, WholeKept DEF FileStep
  <2> QED
    BY <2>1, <2>2 DEF StoreStep, EventsStep
<1>4. Whole(commitments', stored'.commitments)
  <2>1. CASE commitments' = commitments /\ stored'.commitments = stored.commitments
    BY <1>2, <2>1
  <2>2. ASSUME NEW id \in Id,
               CanBeLoaded(commitments) =>
                 \A n \in DOMAIN commitments.lines : Contents(commitments)[n] # id,
               FileStep(commitments, commitments', stored.commitments,
                        stored'.commitments, id)
        PROVE  Whole(commitments', stored'.commitments)
    BY <1>1, <1>2, <2>2, WholeKept DEF FileStep
  <2>3. ASSUME NEW t \in Tasks, NEW id \in Id,
               StoresNext(t, "commitments"), id = NextRecord(t).id
        PROVE  CanBeLoaded(commitments) =>
                 \A n \in DOMAIN commitments.lines : Contents(commitments)[n] # id
    BY <2>3, CommitmentFresh
  <2>4. /\ ThisId \in Id
        /\ CanBeLoaded(commitments) =>
             \A n \in DOMAIN commitments.lines : Contents(commitments)[n] # ThisId
    BY ThisFresh
  <2> QED
    BY <2>1, <2>2, <2>3, <2>4 DEF StoreStep, CommitmentsStep
<1>5. Whole(revisions', stored'.revisions)
  <2>1. CASE revisions' = revisions /\ stored'.revisions = stored.revisions
    BY <1>2, <2>1
  <2>2. ASSUME NEW id \in Id,
               CanBeLoaded(revisions) =>
                 \A n \in DOMAIN revisions.lines : Contents(revisions)[n] # id,
               FileStep(revisions, revisions', stored.revisions, stored'.revisions, id)
        PROVE  Whole(revisions', stored'.revisions)
    BY <1>1, <1>2, <2>2, WholeKept DEF FileStep
  <2>3. ASSUME NEW t \in Tasks, NEW id \in Id,
               StoresNext(t, "revisions"), id = NextRecord(t).id
        PROVE  CanBeLoaded(revisions) =>
                 \A n \in DOMAIN revisions.lines : Contents(revisions)[n] # id
    BY <2>3, RevisionFresh
  <2>4. /\ ThisId \in Id
        /\ CanBeLoaded(revisions) =>
             \A n \in DOMAIN revisions.lines : Contents(revisions)[n] # ThisId
    BY ThisFresh
  <2> QED
    BY <2>1, <2>2, <2>3, <2>4 DEF StoreStep, RevisionsStep
<1> QED
  BY <1>3, <1>4, <1>5 DEF LogsWhole

\* What is on file stays behind.
LEMMA BehindNext ==
  ASSUME FilesInv, WebTypes', StoreStep
  PROVE  EventsBehind' /\ CommitmentsBehind' /\ RevisionsBehind'
<1>1. /\ events \in FileOf(EventId)
      /\ commitments \in FileOf(Id) /\ revisions \in FileOf(Id)
      /\ stored.events \in Seq(EventId) /\ stored.commitments \in Seq(Id)
      /\ stored.revisions \in Seq(Id)
  BY DEF FilesInv, WebTypes
<1>2. /\ \A e \in EventId : EventBehind(e) => EventBehind(e)'
      /\ \A id \in Id : CommitmentBehind(id) => CommitmentBehind(id)'
      /\ \A id \in Id : RevisionBehind(id) => RevisionBehind(id)'
  BY BehindStays DEF FilesInv
<1>3. /\ ThisId \in Id /\ ThisId.by = 0 /\ ThisId.n = asked + 1 /\ asked \in Nat
  BY ThisFresh
<1>4. PICK this \in Id : this = ThisId /\ this.by = 0 /\ this.n = asked + 1
  BY <1>3
<1>5. asked' = asked + 1 => CommitmentBehind(this)' /\ RevisionBehind(this)'
  BY <1>3, <1>4 DEF CommitmentBehind, RevisionBehind
<1>6. EventsBehind'
  <2>1. CASE events' = events
    BY <1>2, <2>1 DEF FilesInv, EventsBehind
  <2>2. ASSUME NEW t \in Tasks, NEW e \in EventId, EventBehind(e)',
               FileStep(events, events', stored.events, stored'.events, e),
               CanBeLoaded(events'),
               NEW n \in DOMAIN events'.lines, NEW other \in EventId,
               Contents(events')[n] = other
        PROVE  EventBehind(other)'
    <3>1. /\ CanBeLoaded(events)
          /\ \/ n \in DOMAIN events.lines /\ Contents(events')[n] = Contents(events)[n]
             \/ Contents(events')[n] = e
      BY <1>1, <2>2, OnFile
    <3> QED
      BY <1>2, <2>2, <3>1 DEF FilesInv, EventsBehind
  <2> QED
    BY <2>1, <2>2 DEF StoreStep, EventsStep, EventsBehind
<1>7. CommitmentsBehind'
  <2>1. CASE commitments' = commitments
    BY <1>2, <2>1 DEF FilesInv, CommitmentsBehind
  <2>2. ASSUME NEW id \in Id, CommitmentBehind(id)',
               FileStep(commitments, commitments', stored.commitments,
                        stored'.commitments, id),
               CanBeLoaded(commitments'),
               NEW n \in DOMAIN commitments'.lines, NEW other \in Id,
               Contents(commitments')[n] = other
        PROVE  CommitmentBehind(other)'
    <3>1. /\ CanBeLoaded(commitments)
          /\ \/ /\ n \in DOMAIN commitments.lines
                /\ Contents(commitments')[n] = Contents(commitments)[n]
             \/ Contents(commitments')[n] = id
      BY <1>1, <2>2, OnFile
    <3> QED
      BY <1>2, <2>2, <3>1 DEF FilesInv, CommitmentsBehind
  <2> QED
    BY <1>4, <1>5, <2>1, <2>2 DEF StoreStep, CommitmentsStep, CommitmentsBehind
<1>8. RevisionsBehind'
  <2>1. CASE revisions' = revisions
    BY <1>2, <2>1 DEF FilesInv, RevisionsBehind
  <2>2. ASSUME NEW id \in Id, RevisionBehind(id)',
               FileStep(revisions, revisions', stored.revisions, stored'.revisions, id),
               CanBeLoaded(revisions'),
               NEW n \in DOMAIN revisions'.lines, NEW other \in Id,
               Contents(revisions')[n] = other
        PROVE  RevisionBehind(other)'
    <3>1. /\ CanBeLoaded(revisions)
          /\ \/ /\ n \in DOMAIN revisions.lines
                /\ Contents(revisions')[n] = Contents(revisions)[n]
             \/ Contents(revisions')[n] = id
      BY <1>1, <2>2, OnFile
    <3> QED
      BY <1>2, <2>2, <3>1 DEF FilesInv, RevisionsBehind
  <2> QED
    BY <1>4, <1>5, <2>1, <2>2 DEF StoreStep, RevisionsStep, RevisionsBehind
<1> QED
  BY <1>6, <1>7, <1>8

\* What a step puts on the file of revisions: one of a run, which is past its
\* commitment, or that of the commitment request.
LEMMA RevisionsNext ==
  ASSUME FilesInv, WebTypes', StoreStep
  PROVE  RevisionsCommitted' /\ RevisionsOrdered'
<1>1. /\ revisions \in FileOf(Id) /\ stored.revisions \in Seq(Id) /\ WebTypes
      /\ stored.commitments \in Seq(Id)
  BY DEF FilesInv, WebTypes
<1>2. Range(stored.commitments) \subseteq Range(stored'.commitments)
  BY <1>1, StoredStays
<1>3. /\ ThisId \in Id /\ ThisId.by = 0 /\ ThisId.n = asked + 1 /\ asked \in Nat
  BY ThisFresh
<1>4. CASE revisions' = revisions
  <2>1. RevisionsCommitted'
    BY <1>2, <1>4 DEF FilesInv, RevisionsCommitted
  <2>2. RevisionsOrdered'
    BY <1>4 DEF FilesInv, RevisionsOrdered
  <2> QED
    BY <2>1, <2>2
<1>5. ASSUME NEW this \in Id,
             FileStep(revisions, revisions', stored.revisions, stored'.revisions, this),
             this \in Range(stored'.commitments),
             this.by = 0 => this.n = asked + 1
      PROVE  RevisionsCommitted' /\ RevisionsOrdered'
  <2>0. RevisionsCommitted'
    <3>1. \A n \in Readable(revisions') :
            \/ n \in Readable(revisions) /\ revisions'.lines[n] = revisions.lines[n]
            \/ revisions'.lines[n] = <<Line(revisions, this)>>
      BY <1>1, <1>5, ReadableLeft DEF FileStep
    <3>2. <<Line(revisions, this)>>[1].what = this
      BY DEF Line
    <3>3. \A n \in Readable(revisions) :
            revisions.lines[n][1].what \in Range(stored.commitments)
      BY DEF FilesInv, RevisionsCommitted
    <3> QED
      BY <1>2, <1>5, <3>1, <3>2, <3>3 DEF RevisionsCommitted
  <2>1. CASE ~CanBeLoaded(revisions')
    BY <2>0, <2>1 DEF RevisionsOrdered
  <2>2. CASE CanBeLoaded(revisions')
    <3>1. /\ CanBeLoaded(revisions)
          /\ \A n \in DOMAIN revisions'.lines :
               \/ /\ n \in DOMAIN revisions.lines
                  /\ Contents(revisions')[n] = Contents(revisions)[n]
               \/ /\ Contents(revisions')[n] = this
                  /\ \A m \in DOMAIN revisions.lines : m < n
          /\ \A m, n \in DOMAIN revisions'.lines :
               m \notin DOMAIN revisions.lines /\ m < n => FALSE
      BY <1>1, <1>5, <2>2, OnFile
    <3>3. ASSUME NEW m \in DOMAIN revisions'.lines, NEW n \in DOMAIN revisions'.lines,
                 NEW one \in Id, NEW other \in Id,
                 m < n, Contents(revisions')[m] = one, Contents(revisions')[n] = other,
                 one.by = 0, other.by = 0
          PROVE  one.n < other.n
      <4>1. m \in DOMAIN revisions.lines
        BY <3>1, <3>3
      <4>2. Contents(revisions)[m] = one \/ \A k \in DOMAIN revisions.lines : k < m
        BY <3>1, <3>3
      <4>3. DOMAIN revisions.lines \subseteq Nat
        BY <1>1, <3>1, ContentsType
      <4>4. Contents(revisions)[m] = one
        BY <4>1, <4>2, <4>3
      <4>5. CASE n \in DOMAIN revisions.lines /\ Contents(revisions)[n] = other
        BY <3>1, <3>3, <4>1, <4>4, <4>5 DEF FilesInv, RevisionsOrdered
      <4>6. CASE other = this
        <5>1. one.n <= asked /\ one.n \in Nat
          BY <3>1, <3>3, <4>1, <4>4 DEF FilesInv, RevisionsBehind, RevisionBehind, Id
        <5> QED
          BY <1>3, <1>5, <3>3, <4>6, <5>1
      <4> QED
        BY <3>1, <3>3, <4>5, <4>6
    <3>4. RevisionsOrdered'
      BY <3>3 DEF RevisionsOrdered
    <3> QED
      BY <2>0, <3>4
  <2> QED
    BY <2>1, <2>2
<1>6. ASSUME NEW t \in Tasks, NEW id \in Id,
             StoresNext(t, "revisions"), id = NextRecord(t).id
      PROVE  id \in Range(stored.commitments) /\ id.by # 0
  <2>1. requests[t].pc = "records" /\ NextRecord(t).file = "revisions"
    BY <1>6 DEF StoresNext
  <2> DEFINE count == Runs[t].commitments
  <2>2. PICK p \in Nat \ {0}, k \in DOMAIN Runs[t].revised :
          /\ p = requests[t].position /\ p = count + k /\ k \in Nat \ {0}
          /\ Runs[t].revised[k] \in 1..count
          /\ id = [by |-> t, n |-> Runs[t].revised[k]]
    BY <1>1, <1>6, <2>1, NextRecordAt
  <2>3. count \in Nat
    BY TasksAre
  <2>6. Runs[t].revised[k] < requests[t].position
    <3> DEFINE n == Runs[t].revised[k]
    <3>1. n \in 1..count /\ p = count + k /\ k \in Nat \ {0}
      BY <2>2
    <3> HIDE DEF n, count
    <3>2. n < p
      BY <2>3, <3>1
    <3> QED
      BY <2>2, <3>2 DEF n
  <2>7. [by |-> t, n |-> Runs[t].revised[k]] \in Range(stored.commitments)
    BY <2>1, <2>2, <2>6 DEF FilesInv, CommittedFirst
  <2> QED
    BY <2>2, <2>7, TasksAre
<1>7. ASSUME stored'.commitments = Append(stored.commitments, ThisId)
      PROVE  ThisId \in Range(stored'.commitments)
  BY <1>1, <1>3, <1>7 DEF Range
<1> QED
  BY <1>2, <1>3, <1>4, <1>5, <1>6, <1>7 DEF StoreStep, RevisionsStep

\* Who is past a commitment has it stored.
LEMMA CommittedNext ==
  ASSUME FilesInv, WebTypes', StoreStep
  PROVE  CommittedFirst'
<1>1. /\ WebTypes /\ stored.commitments \in Seq(Id)
      /\ requests \in [Tasks -> RequestSet]
  BY DEF FilesInv, WebTypes
<1>2. Range(stored.commitments) \subseteq Range(stored'.commitments)
  BY <1>1, StoredStays
<1> SUFFICES ASSUME NEW t \in Tasks, requests'[t].pc = "records",
                    NEW n \in 1..Runs[t].commitments, n < requests'[t].position
             PROVE  [by |-> t, n |-> n] \in Range(stored'.commitments)
  BY DEF CommittedFirst
<1>3. ASSUME requests[t].pc = "records", n < requests[t].position
      PROVE  [by |-> t, n |-> n] \in Range(stored'.commitments)
  BY <1>2, <1>3 DEF FilesInv, CommittedFirst
<1>4. CASE requests'[t] = requests[t]
  BY <1>3, <1>4
<1>5. CASE requests'[t].position = 1
  BY <1>5
<1>6. CASE /\ requests[t].pc = "records"
           /\ requests'[t].position = requests[t].position + 1
           /\ NextRecord(t).file = "commitments" =>
                stored'.commitments = Append(stored.commitments, NextRecord(t).id)
  <2>1. PICK p \in Nat : p = requests[t].position
    BY <1>1 DEF RequestSet
  <2>2. CASE n < p
    BY <1>3, <1>6, <2>1, <2>2
  <2>3. CASE n = p
    <3>1. PICK id \in Id, to \in {"commitments", "revisions"} :
            /\ id = NextRecord(t).id /\ to = NextRecord(t).file
            /\ to = "commitments" => id = [by |-> t, n |-> p]
            /\ to = "revisions" => \E k \in Nat \ {0} : p = Runs[t].commitments + k
      BY <1>1, <1>6, <2>1, NextRecordAt
    <3>2. to = "commitments"
      <4> DEFINE count == Runs[t].commitments
      <4>1. /\ count \in Nat /\ n \in 1..count
            /\ to = "revisions" => \E k \in Nat \ {0} : p = count + k
        BY <3>1, TasksAre
      <4> HIDE DEF count
      <4> QED
        BY <2>3, <4>1
    <3>3. stored'.commitments = Append(stored.commitments, id)
      BY <1>6, <3>1, <3>2
    <3>4. id \in Range(stored'.commitments)
      BY <1>1, <3>3 DEF Range
    <3> QED
      BY <2>3, <3>1, <3>2, <3>4
  <2> QED
    BY <1>6, <2>1, <2>2, <2>3
<1> QED
  BY <1>4, <1>5, <1>6 DEF StoreStep, CommittedStep

\* What commitment requests changed in the world state is stored.
LEMMA WorldNext ==
  ASSUME FilesInv, WebTypes', StoreStep
  PROVE  WorldRecorded'
<1>1. /\ WebTypes /\ stored.revisions \in Seq(Id) /\ world.value \in Seq(Id)
      /\ asked \in Nat /\ asked' \in Nat /\ asked <= asked'
  BY DEF FilesInv, WebTypes, StoreStep
<1>2. Range(stored.revisions) \subseteq Range(stored'.revisions)
  BY <1>1, StoredStays
<1>3. /\ ThisId \in Id /\ ThisId.by = 0 /\ ThisId.n = asked + 1
  BY ThisFresh
<1>4. /\ \A m \in DOMAIN world.value, id \in Id :
           world.value[m] = id /\ id.by = 0 =>
             id \in Range(stored.revisions) /\ id.n <= asked
      /\ \A m, n \in DOMAIN world.value, one \in Id, other \in Id :
           /\ m < n /\ world.value[m] = one /\ world.value[n] = other
           /\ one.by = 0 /\ other.by = 0
           => one.n < other.n
  BY DEF FilesInv, WorldRecorded
<1>5. \A id \in Id : id.n \in Nat
  BY DEF Id
<1>6. CASE world' = world
  <2>1. \A m \in DOMAIN world'.value, id \in Id :
          world'.value[m] = id /\ id.by = 0 =>
            id \in Range(stored'.revisions) /\ id.n <= asked'
    BY <1>1, <1>2, <1>4, <1>5, <1>6
  <2> QED
    BY <1>4, <1>6, <2>1 DEF WorldRecorded
<1>7. CASE world'.value = <<>>
  BY <1>7 DEF WorldRecorded
<1>8. CASE \E t \in Tasks : world'.value = RunState(t)
  BY <1>8, RunStateType, TasksAre DEF WorldRecorded
<1>9. CASE /\ asked' = asked + 1
           /\ world'.value = Append(world.value, ThisId)
           /\ stored'.revisions = Append(stored.revisions, ThisId)
  <2> DEFINE old == world.value
             new == world'.value
             this == ThisId
             size == Len(old)
  <2>1. /\ size \in Nat /\ DOMAIN old = 1..size /\ DOMAIN new = 1..(size + 1)
        /\ new[size + 1] = this /\ \A m \in 1..size : new[m] = old[m]
    <3>1. old \in Seq(Id) /\ this \in Id /\ new = Append(old, this)
      BY <1>1, <1>3, <1>9
    <3> HIDE DEF old, this, new
    <3> QED
      BY <3>1
  <2>2. this \in Range(stored'.revisions)
    BY <1>1, <1>3, <1>9 DEF Range
  <2> HIDE DEF old, new, this, size
  <2>3. \A m \in DOMAIN new, id \in Id :
          new[m] = id /\ id.by = 0 =>
            id \in Range(stored'.revisions) /\ id.n <= asked'
    <3> TAKE m \in DOMAIN new, id \in Id
    <3>1. CASE m \in 1..size
      <4>1. new[m] = old[m] /\ m \in DOMAIN old
        BY <2>1, <3>1
      <4> QED
        <5> SUFFICES ASSUME new[m] = id, id.by = 0
                     PROVE  id \in Range(stored'.revisions) /\ id.n <= asked'
          OBVIOUS
        <5>1. world.value[m] = id /\ m \in DOMAIN world.value
          BY <4>1 DEF old
        <5>2. id \in Range(stored.revisions) /\ id.n <= asked
          BY <1>4, <5>1
        <5> QED
          BY <1>1, <1>2, <1>5, <5>2
    <3>2. CASE m = size + 1
      BY <1>1, <1>3, <1>9, <2>1, <2>2, <3>2 DEF this
    <3> QED
      BY <2>1, <3>1, <3>2
  <2>4. \A m, n \in DOMAIN new, one \in Id, other \in Id :
          /\ m < n /\ new[m] = one /\ new[n] = other /\ one.by = 0 /\ other.by = 0
          => one.n < other.n
    <3> SUFFICES ASSUME NEW m \in DOMAIN new, NEW n \in DOMAIN new,
                        NEW one \in Id, NEW other \in Id,
                        m < n, new[m] = one, new[n] = other, one.by = 0, other.by = 0
                 PROVE  one.n < other.n
      OBVIOUS
    <3>1. m \in DOMAIN old /\ old[m] = one
      BY <2>1
    <3>2. CASE n \in 1..size
      <4>1. n \in DOMAIN old /\ old[n] = other
        BY <2>1, <3>2
      <4> QED
        BY <1>4, <3>1, <4>1 DEF old
    <3>3. CASE n = size + 1
      <4>1. other = this
        BY <2>1, <3>3
      <4>2. one.n <= asked
        BY <1>4, <3>1 DEF old
      <4> QED
        BY <1>1, <1>3, <1>5, <4>1, <4>2 DEF this
    <3> QED
      BY <2>1, <3>2, <3>3
  <2> QED
    BY <2>3, <2>4 DEF WorldRecorded, new
<1> QED
  BY <1>6, <1>7, <1>8, <1>9 DEF StoreStep, WorldStep

\* At the start nothing is on file and no request has begun.
LEMMA FilesInvInit ==
  ASSUME WebInit
  PROVE  FilesInv
<1>1. WebTypes
  BY TypesInit
<1>2. DOMAIN NoLines.lines = {}
  BY DEF NoLines
<1>3. EventsBehind /\ CommitmentsBehind /\ RevisionsBehind
  BY <1>2 DEF WebInit, EventsBehind, CommitmentsBehind, RevisionsBehind
<1>4. RevisionsCommitted /\ RevisionsOrdered
  BY <1>2 DEF WebInit, Readable, RevisionsCommitted, RevisionsOrdered
<1>5. CommittedFirst
  BY DEF WebInit, CommittedFirst, Request
<1>6. WorldRecorded
  BY DEF WebInit, WorldRecorded, Saved
<1>7. LogsWhole
  <2>1. /\ Loaded(NoLines) = <<>> /\ Contents(NoLines) = <<>>
        /\ DOMAIN Loaded(NoLines) = {}
    BY DEF NoLines, Loaded, Contents
  <2>2. Whole(NoLines, <<>>)
    BY <2>1, OnlyOfEmpty DEF Whole
  <2> QED
    BY <2>2 DEF WebInit, LogsWhole
<1> QED
  BY <1>1, <1>3, <1>4, <1>5, <1>6, <1>7 DEF FilesInv

\* Every step keeps what holds of the files.
LEMMA FilesInvNext ==
  ASSUME FilesInv, [WebNext]_webVars
  PROVE  FilesInv'
<1>1. WebTypes' /\ StoreStep
  BY TypesNext DEF FilesInv
<1>2. LogsWhole'
  BY <1>1, LogsWholeNext
<1>3. EventsBehind' /\ CommitmentsBehind' /\ RevisionsBehind'
  BY <1>1, BehindNext
<1>4. RevisionsCommitted' /\ RevisionsOrdered'
  BY <1>1, RevisionsNext
<1>5. CommittedFirst' /\ WorldRecorded'
  BY <1>1, CommittedNext, WorldNext
<1> QED
  BY <1>1, <1>2, <1>3, <1>4, <1>5 DEF FilesInv

\* The inductive invariant of the files.
THEOREM FilesAlways == WebSpec => []FilesInv
<1>1. WebInit => FilesInv
  BY FilesInvInit
<1>2. FilesInv /\ [WebNext]_webVars => FilesInv'
  BY FilesInvNext
<1> QED
  BY <1>1, <1>2, PTL DEF WebSpec

(***************************************************************************)
(* A file that can be loaded is whole, whatever was cut off before it.     *)
(***************************************************************************)
THEOREM LogsAlwaysWhole == WebSpec => []LogsWhole
<1>1. FilesInv => LogsWhole
  BY DEF FilesInv
<1> QED
  BY <1>1, FilesAlways, PTL

\* Revisions of commitment requests were stored in the order of these.
StoredOrdered ==
  /\ \A k \in DOMAIN stored.revisions :
       stored.revisions[k].by = 0 => stored.revisions[k].n <= asked
  /\ \A j, k \in DOMAIN stored.revisions :
       /\ j < k /\ stored.revisions[j].by = 0 /\ stored.revisions[k].by = 0
       => stored.revisions[j].n < stored.revisions[k].n

\* A task request has yet to store this revision.
Pending(id) ==
  /\ id.by \in Tasks /\ requests[id.by].pc = "records"
  /\ \E k \in 1..Len(RecordsOf(id.by)) :
       /\ requests[id.by].position <= k
       /\ RecordsOf(id.by)[k] = [file |-> "revisions", id |-> id]

\* If nothing was cut off, what a task did to the world state is stored or will be.
TaskRecorded ==
  /\ faults \in Nat
  /\ faults = 0 =>
       \A m \in DOMAIN world.value :
         world.value[m].by # 0 =>
           world.value[m] \in Range(stored.revisions) \/ Pending(world.value[m])

AheadInv == FilesInv /\ StoredOrdered /\ TaskRecorded

\* The order of what is stored stays.
LEMMA StoredOrderedNext ==
  ASSUME FilesInv, StoredOrdered, WebTypes', StoreStep
  PROVE  StoredOrdered'
<1> DEFINE old == stored.revisions
           new == stored'.revisions
<1>1. /\ WebTypes /\ old \in Seq(Id) /\ asked \in Nat /\ asked' \in Nat /\ asked <= asked'
  BY DEF FilesInv, WebTypes, StoreStep
<1>2. \A k \in DOMAIN old : old[k] \in Id /\ old[k].n \in Nat
  <2>1. \A s \in Seq(Id) : \A k \in DOMAIN s : s[k] \in Id
    OBVIOUS
  <2>2. \A id \in Id : id.n \in Nat
    BY DEF Id
  <2> QED
    BY <1>1, <2>1, <2>2
<1>3. CASE new = old
  <2>1. \A k \in DOMAIN old : old[k].by = 0 => old[k].n <= asked'
    BY <1>1, <1>2 DEF StoredOrdered
  <2> QED
    BY <1>3, <2>1 DEF StoredOrdered
<1>4. ASSUME NEW this \in Id, new = Append(old, this),
             this.by = 0 => this.n = asked + 1 /\ asked' = asked + 1
      PROVE  StoredOrdered'
  <2> DEFINE size == Len(old)
  <2> HIDE DEF old, new
  <2>1. /\ size \in Nat /\ DOMAIN old = 1..size /\ DOMAIN new = 1..(size + 1)
        /\ new[size + 1] = this /\ \A k \in 1..size : new[k] = old[k]
    BY <1>1, <1>4
  <2> HIDE DEF size
  <2>2. \A k \in DOMAIN new : (k \in DOMAIN old /\ new[k] = old[k]) \/ (k = size + 1 /\ new[k] = this)
    BY <2>1
  <2>3. \A k \in DOMAIN old : old[k].by = 0 => old[k].n <= asked
    BY DEF StoredOrdered, old
  <2>4. \A k \in DOMAIN new : new[k].by = 0 => new[k].n <= asked'
    BY <1>1, <1>2, <1>4, <2>2, <2>3
  <2>5. ASSUME NEW j \in DOMAIN new, NEW k \in DOMAIN new, j < k,
               new[j].by = 0, new[k].by = 0
        PROVE  new[j].n < new[k].n
    <3>1. j \in DOMAIN old /\ new[j] = old[j]
      BY <2>1, <2>5
    <3>2. CASE k \in DOMAIN old /\ new[k] = old[k]
      BY <2>5, <3>1, <3>2 DEF StoredOrdered, old
    <3>3. CASE new[k] = this
      <4>1. old[j].n <= asked /\ old[j].n \in Nat /\ this.n = asked + 1
        BY <1>2, <1>4, <2>3, <2>5, <3>1, <3>3
      <4> QED
        BY <1>1, <3>1, <3>3, <4>1
    <3> QED
      BY <2>2, <3>2, <3>3
  <2> QED
    BY <2>4, <2>5 DEF StoredOrdered, new
<1>5. ASSUME NEW t \in Tasks, NEW id \in Id,
             StoresNext(t, "revisions"), id = NextRecord(t).id
      PROVE  id.by # 0
  <2>1. requests[t].pc = "records"
    BY <1>5 DEF StoresNext
  <2> QED
    BY <1>1, <1>5, <2>1, NextRecordAt
<1>6. ThisId \in Id /\ ThisId.by = 0 /\ ThisId.n = asked + 1
  BY ThisFresh
<1> QED
  BY <1>3, <1>4, <1>5, <1>6 DEF StoreStep, RevisionsStep, FileStep

\* A step that leaves the requests that store their records where they are.
LEMMA TaskRecordedRests ==
  ASSUME WebTypes, TaskRecorded, faults' \in Nat, faults' = 0 => faults = 0,
         Range(stored.revisions) \subseteq Range(stored'.revisions),
         \A t \in Tasks : requests[t].pc = "records" => requests'[t] = requests[t],
         \A m \in DOMAIN world'.value :
           \/ world'.value[m].by = 0
           \/ m \in DOMAIN world.value /\ world'.value[m] = world.value[m]
  PROVE  TaskRecorded'
<1>1. ASSUME NEW id, Pending(id)
      PROVE  Pending(id)'
  BY <1>1 DEF Pending
<1> QED
  BY <1>1 DEF TaskRecorded

\* Once the world state of a run is saved, its revisions are to be stored.
LEMMA RunStatePending ==
  ASSUME WebTypes, TaskRecorded, NEW t \in Tasks, SaveRunState(t)
  PROVE  TaskRecorded'
<1>1. /\ requests \in [Tasks -> RequestSet] /\ requests[t].pc = "world"
      /\ requests' = [requests EXCEPT ![t] = AfterRecords(t, 1)]
      /\ faults' = faults /\ stored' = stored /\ faults \in Nat
  BY DEF WebTypes, SaveRunState, ContinueWith, TaskRecorded
<1>2. CASE world' = world
  BY <1>1, <1>2, TaskRecordedRests
<1>3. CASE world' = Saved(RunState(t))
  <2> DEFINE count == Runs[t].commitments
             revised == Runs[t].revised
  <2>1. /\ count \in Nat /\ Len(revised) \in Nat /\ DOMAIN revised = 1..Len(revised)
        /\ Len(RecordsOf(t)) = count + Len(revised)
        /\ \A k \in 1..Len(revised) :
             RecordsOf(t)[count + k]
               = [file |-> "revisions", id |-> [by |-> t, n |-> revised[k]]]
    <3>1. revised \in Seq(1..count) /\ count \in Nat
      BY TasksAre
    <3>2. /\ Len(RecordsOf(t)) = count + Len(revised)
          /\ \A k \in 1..Len(revised) :
               RecordsOf(t)[count + k]
                 = [file |-> "revisions", id |-> [by |-> t, n |-> revised[k]]]
      BY RecordsAre
    <3> HIDE DEF count, revised
    <3>3. Len(revised) \in Nat /\ DOMAIN revised = 1..Len(revised)
      BY <3>1
    <3> QED
      BY <3>1, <3>2, <3>3
  <2>2. world'.value = [k \in DOMAIN revised |-> [by |-> t, n |-> revised[k]]]
    BY <1>3 DEF Saved, RunState
  <2> HIDE DEF count, revised
  <2>3. ASSUME NEW m \in DOMAIN world'.value, NEW one, one = world'.value[m]
        PROVE  Pending(one)'
    <3>1. m \in 1..Len(revised) /\ one = [by |-> t, n |-> revised[m]]
      BY <2>1, <2>2, <2>3
    <3> DEFINE k == count + m
               size == Len(revised)
               all == Len(RecordsOf(t))
    <3>2. /\ k \in 1..all /\ 1 <= k /\ ~(1 > all)
          /\ RecordsOf(t)[k] = [file |-> "revisions", id |-> one]
      <4>1. RecordsOf(t)[k] = [file |-> "revisions", id |-> one]
        BY <2>1, <3>1
      <4>2. m \in 1..size /\ size \in Nat /\ count \in Nat /\ all = count + size
        BY <2>1, <3>1
      <4> HIDE DEF size, all
      <4>3. k \in 1..all /\ 1 <= k /\ ~(1 > all)
        BY <4>2
      <4> QED
        BY <4>1, <4>3
    <3> HIDE DEF k
    <3>3. AfterRecords(t, 1) = [Request("records") EXCEPT !.position = 1]
      BY <3>2 DEF AfterRecords
    <3>4. requests'[t].pc = "records" /\ requests'[t].position = 1
      BY <1>1, <3>3 DEF Request
    <3>5. one.by = t
      BY <3>1
    <3> HIDE DEF all
    <3>6. RecordsOf(t)' = RecordsOf(t)
      BY DEF RecordsOf
    <3> QED
      BY <3>2, <3>4, <3>5, <3>6 DEF Pending, all
  <2>4. \A m \in DOMAIN world'.value : \E one : one = world'.value[m] /\ Pending(one)'
    BY <2>3
  <2>5. \A m \in DOMAIN world'.value : Pending(world.value[m])'
    BY <2>4 DEF Pending
  <2> QED
    BY <1>1, <2>5 DEF TaskRecorded
<1> QED
  BY <1>2, <1>3 DEF SaveRunState

\* A revision that was to be stored is, or is still to be.
LEMMA PendingStored ==
  ASSUME WebTypes, TaskRecorded, NEW t \in Tasks, StoreRecord(t)
  PROVE  TaskRecorded'
<1> DEFINE p == requests[t].position
           to == NextRecord(t).file
           id == NextRecord(t).id
<1>1. /\ requests \in [Tasks -> RequestSet] /\ requests[t].pc = "records"
      /\ requests' = [requests EXCEPT ![t] = AfterRecords(t, p + 1)]
      /\ faults' = faults /\ world' = world
      /\ stored' = [stored EXCEPT ![to] = Append(@, id)]
      /\ stored.revisions \in Seq(Id)
      /\ stored \in [events : Seq(EventId), commitments : Seq(Id), revisions : Seq(Id)]
  BY DEF WebTypes, StoreRecord, ContinueWith
<1>2. id \in Id /\ to \in {"commitments", "revisions"} /\ p \in Nat \ {0}
  BY <1>1, NextRecordIs
<1>3. NextRecord(t) = RecordsOf(t)[p]
  BY DEF NextRecord
<1> HIDE DEF p, to, id
<1>4. /\ Range(stored.revisions) \subseteq Range(stored'.revisions)
      /\ to = "revisions" => id \in Range(stored'.revisions)
  <2>1. CASE to = "commitments"
    <3>1. stored'.revisions = stored.revisions
      BY <1>1, <2>1
    <3> QED
      BY <2>1, <3>1
  <2>2. CASE to = "revisions"
    <3>1. stored'.revisions = Append(stored.revisions, id)
      BY <1>1, <2>2
    <3>2. \A seq \in Seq(Id), one \in Id :
            /\ Range(seq) \subseteq Range(Append(seq, one))
            /\ one \in Range(Append(seq, one))
      BY DEF Range
    <3> QED
      BY <1>1, <1>2, <3>1, <3>2
  <2> QED
    BY <1>2, <2>1, <2>2
<1>5. ASSUME NEW one, Pending(one), one \notin Range(stored'.revisions)
      PROVE  Pending(one)'
  <2>1. CASE one.by # t
    <3>1. one.by \in Tasks /\ requests'[one.by] = requests[one.by]
      BY <1>1, <1>5, <2>1 DEF Pending
    <3> QED
      BY <1>5, <3>1 DEF Pending
  <2>2. CASE one.by = t
    <3>1. PICK k \in 1..Len(RecordsOf(t)) :
            p <= k /\ RecordsOf(t)[k] = [file |-> "revisions", id |-> one]
      BY <1>5, <2>2 DEF Pending, p
    <3>2. k # p
      <4>1. SUFFICES ASSUME k = p
                     PROVE  FALSE
        OBVIOUS
      <4>2. to = "revisions" /\ id = one
        BY <1>3, <3>1, <4>1 DEF to, id
      <4> QED
        BY <1>4, <1>5, <4>2
    <3>3. Len(RecordsOf(t)) \in Nat
      BY RecordsAre
    <3>4. p + 1 <= k /\ ~(p + 1 > Len(RecordsOf(t)))
      BY <1>2, <3>1, <3>2, <3>3
    <3>5. AfterRecords(t, p + 1) = [Request("records") EXCEPT !.position = p + 1]
      BY <3>4 DEF AfterRecords
    <3>6. requests'[t].pc = "records" /\ requests'[t].position = p + 1
      BY <1>1, <3>5 DEF Request
    <3> QED
      BY <2>2, <3>1, <3>4, <3>6 DEF Pending, RecordsOf
  <2> QED
    BY <2>1, <2>2
<1> QED
  BY <1>1, <1>4, <1>5 DEF TaskRecorded

\* A step that something is cut off in.
LEMMA FaultsCount ==
  ASSUME faults \in Nat
  PROVE  /\ Faults(0) => faults' = faults
         /\ Faults(1) => faults' \in Nat /\ faults' # 0
BY DEF Faults

\* Every step keeps what holds of the tasks' revisions.
LEMMA TaskRecordedNext ==
  ASSUME FilesInv, TaskRecorded, WebTypes', StoreStep, [WebNext]_webVars
  PROVE  TaskRecorded'
<1>1. /\ WebTypes /\ faults \in Nat /\ requests \in [Tasks -> RequestSet]
      /\ Range(stored.revisions) \subseteq Range(stored'.revisions)
      /\ world.value \in Seq(Id)
  BY StoredStays DEF FilesInv, TaskRecorded, WebTypes
<1>2. CASE faults' \in Nat /\ faults' # 0
  BY <1>2 DEF TaskRecorded
<1>3. CASE UNCHANGED webVars
  BY <1>1, <1>3, TaskRecordedRests DEF webVars, volatile, files
<1>4. ASSUME NEW c \in Clients, Subscribe(c) \/ GoAway(c) \/ NoticeGone(c)
      PROVE  TaskRecorded'
  BY <1>1, <1>4, TaskRecordedRests DEF Subscribe, GoAway, NoticeGone, files
<1>5. ASSUME NEW t \in Tasks,
             \/ ExecuteTask(t) \/ TaskRaises(t) \/ BeginSend(t) \/ SendReturns(t)
             \/ EndBroadcast(t) \/ SaveArtifact(t)
      PROVE  TaskRecorded'
  <2>1. /\ requests[t].pc # "records" /\ world' = world /\ faults' = faults
        /\ \E q : requests' = [requests EXCEPT ![t] = q]
    <3>1. CASE ExecuteTask(t) \/ TaskRaises(t)
      BY <1>1, <3>1 DEF ExecuteTask, TaskRaises, files
    <3>2. CASE BeginSend(t) \/ SendReturns(t)
      BY <1>1, <3>2 DEF BeginSend, SendReturns, files
    <3>3. CASE EndBroadcast(t) \/ SaveArtifact(t)
      BY <3>3 DEF EndBroadcast, SaveArtifact, ContinueWith
    <3> QED
      BY <1>5, <3>1, <3>2, <3>3
  <2>2. \A u \in Tasks : requests[u].pc = "records" => requests'[u] = requests[u]
    BY <1>1, <2>1
  <2> QED
    BY <1>1, <2>1, <2>2, TaskRecordedRests
<1>6. ASSUME NEW kind, NEW revises, ExecuteCommitment(kind, revises)
      PROVE  TaskRecorded'
  <2>1. /\ requests' = requests
        /\ Faults(1) \/ (Faults(0) /\ (world' = world
             \/ world' = Saved(Append(world.value, ThisId))))
    BY <1>6 DEF ExecuteCommitment, Commit, CommitOnly, ThisId, volatile
  <2>2. CASE Faults(1)
    BY <1>1, <1>2, <2>2, FaultsCount
  <2>3. CASE faults' = faults /\ world' = world
    BY <1>1, <2>1, <2>3, TaskRecordedRests
  <2>4. CASE faults' = faults /\ world' = Saved(Append(world.value, ThisId))
    <3> DEFINE old == world.value
               new == world'.value
               this == ThisId
    <3>1. this \in Id /\ this.by = 0
      BY ThisFresh
    <3>2. new = Append(old, this) /\ old \in Seq(Id)
      BY <1>1, <2>4 DEF Saved
    <3> HIDE DEF old, new, this
    <3>3. \A m \in DOMAIN new : new[m] = this \/ (m \in DOMAIN old /\ new[m] = old[m])
      BY <3>1, <3>2
    <3>4. \A m \in DOMAIN world'.value :
            \/ world'.value[m].by = 0
            \/ m \in DOMAIN world.value /\ world'.value[m] = world.value[m]
      BY <3>1, <3>3 DEF old, new
    <3> QED
      BY <1>1, <2>1, <2>4, <3>4, TaskRecordedRests
  <2> QED
    BY <1>1, <2>1, <2>2, <2>3, <2>4, FaultsCount
<1>7. ASSUME NEW t \in Tasks, WriteRaises(t)
      PROVE  TaskRecorded'
  BY <1>1, <1>2, <1>7, FaultsCount DEF WriteRaises
<1>8. CASE Crash
  BY <1>1, <1>2, <1>8, FaultsCount DEF Crash
<1> QED
  BY <1>1, <1>3, <1>4, <1>5, <1>6, <1>7, <1>8, RunStatePending, PendingStored
  DEF WebNext, TaskStep

\* The inductive invariant of what is written ahead of what.
THEOREM AheadAlways == WebSpec => []AheadInv
<1>1. WebInit => AheadInv
  <2> SUFFICES ASSUME WebInit
               PROVE  AheadInv
    OBVIOUS
  <2>1. FilesInv
    BY FilesInvInit
  <2>2. /\ DOMAIN stored.revisions = {} /\ DOMAIN world.value = {} /\ faults = 0
    BY DEF WebInit, Saved
  <2> QED
    BY <2>1, <2>2 DEF AheadInv, StoredOrdered, TaskRecorded
<1>2. AheadInv /\ [WebNext]_webVars => AheadInv'
  <2> SUFFICES ASSUME AheadInv, [WebNext]_webVars
               PROVE  AheadInv'
    OBVIOUS
  <2>1. FilesInv /\ StoredOrdered /\ TaskRecorded
    BY DEF AheadInv
  <2>2. WebTypes' /\ StoreStep
    BY <2>1, TypesNext DEF FilesInv
  <2>3. FilesInv'
    BY <2>1, FilesInvNext
  <2>4. StoredOrdered' /\ TaskRecorded'
    BY <2>1, <2>2, StoredOrderedNext, TaskRecordedNext
  <2> QED
    BY <2>3, <2>4 DEF AheadInv
<1> QED
  BY <1>1, <1>2, PTL DEF WebSpec

\* Writes are ahead when each file is whole and lies behind.
LEMMA AheadFollows ==
  ASSUME AheadInv
  PROVE  WriteAhead
<1> DEFINE recorded == Contents(revisions)
           committed == Contents(commitments)
           kept == stored.revisions
<1>1. /\ commitments \in FileOf(Id) /\ revisions \in FileOf(Id)
      /\ stored.commitments \in Seq(Id) /\ kept \in Seq(Id)
      /\ world.value \in Seq(Id) /\ Whole(commitments, stored.commitments)
      /\ FilesInv
  BY DEF AheadInv, FilesInv, WebTypes, LogsWhole
<1>2. \A n \in Readable(revisions) :
        revisions.lines[n][1].what \in Range(stored.commitments)
  BY <1>1 DEF FilesInv, RevisionsCommitted
<1>3. ASSUME CanBeLoaded(commitments), CanBeLoaded(revisions)
      PROVE  Range(recorded) \subseteq Range(committed)
  <2>1. DOMAIN committed = DOMAIN commitments.lines
    BY <1>1, <1>3, ContentsType
  <2>2. \A k \in DOMAIN stored.commitments :
          \E n \in DOMAIN committed : committed[n] = stored.commitments[k]
    BY <1>1, <1>3, <2>1, ReturnedOnFile
  <2>3. \A n \in DOMAIN recorded :
          n \in Readable(revisions) /\ recorded[n] = revisions.lines[n][1].what
    BY <1>3 DEF Contents, Loaded, CanBeLoaded, Readable
  <2>4. \A n \in DOMAIN recorded : recorded[n] \in Range(stored.commitments)
    BY <1>2, <2>3
  <2> HIDE DEF recorded, committed
  <2> QED
    BY <2>2, <2>4 DEF Range
<1>4. \A m \in MadeByCommitments :
        /\ world.value[m] \in Id /\ world.value[m].by = 0 /\ m \in DOMAIN world.value
        /\ world.value[m] \in Range(kept)
  <2> TAKE m \in MadeByCommitments
  <2>1. m \in DOMAIN world.value /\ world.value[m].by = 0
    BY DEF MadeByCommitments
  <2>2. world.value[m] \in Id
    BY <1>1, <2>1
  <2> QED
    BY <1>1, <2>1, <2>2 DEF FilesInv, WorldRecorded
<1>5. ASSUME NEW m \in MadeByCommitments, NEW n \in MadeByCommitments, m < n
      PROVE  Before(kept, world.value[m], world.value[n])
  <2>1. PICK one \in Id, other \in Id :
          /\ world.value[m] = one /\ world.value[n] = other
          /\ one.by = 0 /\ other.by = 0
    BY <1>4
  <2>2. one.n < other.n /\ one.n \in Nat /\ other.n \in Nat
    BY <1>1, <1>4, <1>5, <2>1 DEF FilesInv, WorldRecorded, Id
  <2>3. PICK i \in DOMAIN kept, j \in DOMAIN kept : kept[i] = one /\ kept[j] = other
    BY <1>4, <2>1 DEF Range
  <2>4. j < i => other.n < one.n
    BY <2>1, <2>3 DEF AheadInv, StoredOrdered
  <2>5. i \in Nat /\ j \in Nat
    <3>1. DOMAIN kept = 1..Len(kept)
      BY <1>1
    <3> HIDE DEF kept
    <3> QED
      BY <2>3, <3>1
  <2> HIDE DEF kept
  <2>6. i < j
    BY <2>2, <2>3, <2>4, <2>5
  <2> QED
    BY <2>1, <2>3, <2>6 DEF Before
<1>6. ASSUME faults = 0, NEW m \in DOMAIN world.value \ MadeByCommitments
      PROVE  \/ world.value[m] \in Range(kept)
             \/ requests[world.value[m].by].pc = "records"
  <2>1. world.value[m].by # 0
    BY DEF MadeByCommitments
  <2> QED
    BY <1>6, <2>1 DEF AheadInv, TaskRecorded, Pending
<1> QED
  BY <1>2, <1>3, <1>4, <1>5, <1>6 DEF WriteAhead

(***************************************************************************)
(* What is written ahead of what, wherever writes were cut off: the append *)
(* of a commitment before its revision is on a line that can be read, that *)
(* of a revision before the world state a commitment request makes of it;  *)
(* a task request's revisions follow its world state, if nothing was cut   *)
(* off.                                                                    *)
(***************************************************************************)
THEOREM WritesAlwaysAhead == WebSpec => []WriteAhead
<1>1. AheadInv => WriteAhead
  BY AheadFollows
<1> QED
  BY <1>1, AheadAlways, PTL

--------------------------------------------------------------------------------
(***************************************************************************)
(* The sending of events: by position in a list that changes meanwhile.    *)
(***************************************************************************)

\* Whoever is on the list is on it once, and joined.
SubscribersOnce ==
  /\ \A m, n \in DOMAIN subscribers, c \in Clients :
       subscribers[m] = c /\ subscribers[n] = c => m = n
  /\ \A m \in DOMAIN subscribers, c \in Clients :
       subscribers[m] = c => connection[c] # "new"

\* Who has not joined heard nothing, and nothing is being sent there.
NewHeardNothing ==
  \A c \in Clients : connection[c] = "new" =>
    received[c] = <<>> /\ \A t \in Tasks : c \notin requests[t].to

\* Nothing is being sent between two sends.
AtRest == \A t \in Tasks : requests[t].pc # "sending" => requests[t].to = {}

\* Nobody heard of a task that was not begun.
UnbegunUnheard ==
  \A t \in Tasks : requests[t].pc = "idle" =>
    \A c \in Clients : \A m \in DOMAIN received[c] : received[c][m].task # t

\* The loop of a request is past a client.
Past(c, t) ==
  \A k \in DOMAIN subscribers : subscribers[k] = c => k < requests[t].position

\* Who was sent the event a request is at, or is being sent it, is not sent it
\* again: the loop is past it.
HeardSoFar(c, t) ==
  /\ \A m \in DOMAIN received[c] : received[c][m].task = t =>
       /\ received[c][m].event <= requests[t].event
       /\ received[c][m].event = requests[t].event =>
            c \notin requests[t].to /\ Past(c, t)
  /\ c \in requests[t].to => Past(c, t)

SentOnce == \A t \in Tasks, c \in Clients : InBroadcast(t) => HeardSoFar(c, t)

DeliveryInv ==
  /\ WebTypes /\ SubscribersOnce /\ NewHeardNothing /\ AtRest /\ UnbegunUnheard
  /\ SentOnce /\ DeliveredInOrder

\* The list with some taken off it: nobody comes later on it, or twice.
LEMMA ListShorter ==
  ASSUME WebTypes, SubscribersOnce, NEW wanted,
         subscribers' = Only(subscribers, wanted) \/ subscribers' = subscribers
  PROVE  /\ \A k \in DOMAIN subscribers', c \in Clients : subscribers'[k] = c =>
              /\ k \in Nat
              /\ \E j \in DOMAIN subscribers :
                   j \in Nat /\ k <= j /\ subscribers[j] = c
         /\ \A m, n \in DOMAIN subscribers', c \in Clients :
              subscribers'[m] = c /\ subscribers'[n] = c => m = n
         /\ subscribers' = Only(subscribers, wanted) =>
              \A k \in DOMAIN subscribers' : subscribers'[k] \in wanted
<1>1. /\ subscribers \in Seq(Clients) /\ DOMAIN subscribers = 1..Len(subscribers)
      /\ Len(subscribers) \in Nat
  BY DEF WebTypes
<1>2. CASE subscribers' = subscribers /\ subscribers' # Only(subscribers, wanted)
  BY <1>1, <1>2 DEF SubscribersOnce
<1>3. CASE subscribers' = Only(subscribers, wanted)
  <2> DEFINE r == Only(subscribers, wanted)
  <2>1. /\ r \in Seq(Clients)
        /\ \A k \in DOMAIN r : \E j \in 1..Len(subscribers) :
             k <= j /\ r[k] = subscribers[j] /\ subscribers[j] \in wanted
        /\ \A k, l \in DOMAIN r : k < l =>
             \E i, j \in 1..Len(subscribers) :
               i < j /\ r[k] = subscribers[i] /\ r[l] = subscribers[j]
    BY <1>1, OnlyPlaces DEF KeptOf
  <2> HIDE DEF r
  <2>2. DOMAIN r \subseteq Nat
    BY <2>1
  <2>3. ASSUME NEW m \in DOMAIN r, NEW n \in DOMAIN r, NEW c \in Clients,
               r[m] = c, r[n] = c, m < n
        PROVE  FALSE
    <3>1. PICK i \in 1..Len(subscribers), j \in 1..Len(subscribers) :
            i < j /\ r[m] = subscribers[i] /\ r[n] = subscribers[j]
      BY <2>1, <2>3
    <3>2. i = j
      BY <1>1, <2>3, <3>1 DEF SubscribersOnce
    <3> QED
      BY <3>1, <3>2
  <2>4. \A m, n \in DOMAIN r, c \in Clients : r[m] = c /\ r[n] = c => m = n
    BY <2>2, <2>3
  <2>5. \A k \in DOMAIN r, c \in Clients : r[k] = c =>
          /\ k \in Nat
          /\ \E j \in DOMAIN subscribers : j \in Nat /\ k <= j /\ subscribers[j] = c
    BY <1>1, <2>1, <2>2
  <2>6. subscribers' = r
    BY <1>3 DEF r
  <2>7. \A k \in DOMAIN r : r[k] \in wanted
    BY <2>1
  <2> QED
    BY <2>4, <2>5, <2>6, <2>7
<1> QED
  BY <1>2, <1>3

\* A loop that is past a client stays so when others are taken off the list.
LEMMA PastStays ==
  ASSUME WebTypes, SubscribersOnce, NEW wanted,
         subscribers' = Only(subscribers, wanted) \/ subscribers' = subscribers,
         NEW t \in Tasks, requests'[t].position = requests[t].position,
         NEW c \in Clients, Past(c, t)
  PROVE  Past(c, t)'
<1>1. requests[t].position \in Nat
  BY DEF WebTypes, RequestSet
<1>2. \A k \in DOMAIN subscribers' : subscribers'[k] = c =>
        /\ k \in Nat
        /\ \E j \in DOMAIN subscribers :
             j \in Nat /\ k <= j /\ subscribers[j] = c
  BY ListShorter
<1> QED
  BY <1>1, <1>2 DEF Past

\* How a request moves where nothing is sent: not, past its events, to the next
\* of them, or to the first.
MovesOn(t) ==
  \/ requests'[t] = requests[t]
  \/ /\ requests'[t].to = {}
     /\ \/ requests'[t].pc \notin {"idle", "events", "sending"}
        \/ /\ requests'[t].pc = "events" /\ requests[t].pc = "events"
           /\ requests'[t].event = requests[t].event + 1
        \/ requests'[t].pc = "events" /\ requests[t].pc = "idle"

\* What a client heard of are events, with numbers.
LEMMA HeardEvents ==
  ASSUME WebTypes, NEW c \in Clients
  PROVE  \A m \in DOMAIN received[c] :
           received[c][m] \in EventId /\ received[c][m].event \in Nat
<1>1. received[c] \in Seq(EventId)
  BY DEF WebTypes
<1>2. \A m \in DOMAIN received[c] : received[c][m] \in EventId
  BY <1>1
<1>3. \A e \in EventId : e.event \in Nat
  BY DEF EventId
<1> QED
  BY <1>2, <1>3

\* Steps that send nothing, while some leave the list and some go away.
LEMMA QuietStep ==
  ASSUME DeliveryInv, WebTypes',
         NEW wanted,
         subscribers' = Only(subscribers, wanted) \/ subscribers' = subscribers,
         \A c \in Clients : connection'[c] = "new" => connection[c] = "new",
         \A c \in Clients : received'[c] = received[c] \/ received'[c] = <<>>,
         \A t \in Tasks : MovesOn(t)
  PROVE  DeliveryInv'
<1>1. /\ WebTypes /\ SubscribersOnce /\ NewHeardNothing /\ AtRest /\ UnbegunUnheard
      /\ SentOnce /\ DeliveredInOrder
  BY DEF DeliveryInv
<1>2. /\ received \in [Clients -> Seq(EventId)] /\ requests \in [Tasks -> RequestSet]
      /\ requests' \in [Tasks -> RequestSet]
  BY <1>1 DEF WebTypes
<1>3. /\ \A k \in DOMAIN subscribers', c \in Clients : subscribers'[k] = c =>
           /\ k \in Nat
           /\ \E j \in DOMAIN subscribers :
                j \in Nat /\ k <= j /\ subscribers[j] = c
      /\ \A m, n \in DOMAIN subscribers', c \in Clients :
           subscribers'[m] = c /\ subscribers'[n] = c => m = n
  BY <1>1, ListShorter
<1>4. SubscribersOnce'
  BY <1>1, <1>3 DEF SubscribersOnce
<1>5. AtRest'
  BY <1>1 DEF AtRest, MovesOn
<1>6. NewHeardNothing'
  <2> SUFFICES ASSUME NEW c \in Clients, connection'[c] = "new"
               PROVE  received'[c] = <<>> /\ \A t \in Tasks : c \notin requests'[t].to
    BY DEF NewHeardNothing
  <2> QED
    BY <1>1 DEF NewHeardNothing, MovesOn
<1>7. \A c \in Clients : \A m \in DOMAIN received'[c] :
        m \in DOMAIN received[c] /\ received'[c][m] = received[c][m]
  BY <1>2
<1>8. UnbegunUnheard'
  <2> SUFFICES ASSUME NEW t \in Tasks, requests'[t].pc = "idle",
                      NEW c \in Clients, NEW m \in DOMAIN received'[c]
               PROVE  received'[c][m].task # t
    BY DEF UnbegunUnheard
  <2>1. requests[t].pc = "idle"
    BY DEF MovesOn
  <2> QED
    BY <1>1, <1>7, <2>1 DEF UnbegunUnheard
<1>9. DeliveredInOrder'
  <2> SUFFICES ASSUME NEW c \in Clients
               PROVE  \A m, n \in DOMAIN received'[c] :
                        /\ m < n /\ received'[c][m].task = received'[c][n].task
                        => received'[c][m].event < received'[c][n].event
    BY DEF DeliveredInOrder
  <2> QED
    BY <1>1, <1>7 DEF DeliveredInOrder
<1>10. SentOnce'
  <2> SUFFICES ASSUME NEW t \in Tasks, NEW c \in Clients, InBroadcast(t)'
               PROVE  HeardSoFar(c, t)'
    BY DEF SentOnce
  <2>1. CASE requests'[t] = requests[t]
    <3>1. HeardSoFar(c, t)
      BY <1>1, <2>1 DEF SentOnce, InBroadcast
    <3>2. Past(c, t) => Past(c, t)'
      BY <1>1, <2>1, PastStays
    <3> QED
      BY <1>7, <2>1, <3>1, <3>2 DEF HeardSoFar
  <2>2. CASE /\ requests'[t].to = {} /\ requests[t].pc = "events"
             /\ requests'[t].event = requests[t].event + 1
    <3>1. HeardSoFar(c, t)
      BY <1>1, <2>2 DEF SentOnce, InBroadcast
    <3>2. requests[t].event \in Nat
      BY <1>2 DEF RequestSet
    <3>3. \A m \in DOMAIN received[c] : received[c][m].event \in Nat
      BY <1>1, HeardEvents
    <3> QED
      BY <1>7, <2>2, <3>1, <3>2, <3>3 DEF HeardSoFar
  <2>3. CASE requests'[t].to = {} /\ requests[t].pc = "idle"
    BY <1>1, <1>7, <2>3 DEF HeardSoFar, UnbegunUnheard
  <2> QED
    BY <2>1, <2>2, <2>3 DEF MovesOn, InBroadcast
<1> QED
  BY <1>4, <1>5, <1>6, <1>8, <1>9, <1>10 DEF DeliveryInv

\* A client joins, at the end of the list.
LEMMA JoinStep ==
  ASSUME DeliveryInv, WebTypes', NEW c \in Clients, Subscribe(c)
  PROVE  DeliveryInv'
<1>1. /\ WebTypes /\ SubscribersOnce /\ NewHeardNothing /\ AtRest /\ UnbegunUnheard
      /\ SentOnce /\ DeliveredInOrder
  BY DEF DeliveryInv
<1>2. /\ connection[c] = "new" /\ connection' = [connection EXCEPT ![c] = "open"]
      /\ connection \in [Clients -> {"new", "open", "gone", "closed"}]
      /\ subscribers' = Append(subscribers, c) /\ subscribers \in Seq(Clients)
      /\ requests' = requests /\ received' = received
  BY <1>1 DEF Subscribe, WebTypes
<1>3. PICK size \in Nat : size = Len(subscribers)
  BY <1>2
<1>4. /\ DOMAIN subscribers = 1..size /\ DOMAIN subscribers' = 1..(size + 1)
      /\ subscribers'[size + 1] = c
      /\ \A k \in 1..size : subscribers'[k] = subscribers[k]
      /\ \A k \in 1..(size + 1) : k \in 1..size \/ k = size + 1
  BY <1>2, <1>3
<1>5. \A k \in 1..size : subscribers[k] # c
  BY <1>1, <1>2, <1>4 DEF SubscribersOnce
<1>6. SubscribersOnce'
  <2>1. \A m, n \in DOMAIN subscribers', d \in Clients :
          subscribers'[m] = d /\ subscribers'[n] = d => m = n
    BY <1>1, <1>4, <1>5 DEF SubscribersOnce
  <2>2. \A m \in DOMAIN subscribers', d \in Clients :
          subscribers'[m] = d => connection'[d] # "new"
    BY <1>1, <1>2, <1>4 DEF SubscribersOnce
  <2> QED
    BY <2>1, <2>2 DEF SubscribersOnce
<1>7. NewHeardNothing'
  BY <1>1, <1>2 DEF NewHeardNothing
<1>8. AtRest' /\ UnbegunUnheard' /\ DeliveredInOrder'
  BY <1>1, <1>2 DEF AtRest, UnbegunUnheard, DeliveredInOrder
<1>9. SentOnce'
  <2> SUFFICES ASSUME NEW t \in Tasks, NEW d \in Clients, InBroadcast(t)'
               PROVE  HeardSoFar(d, t)'
    BY DEF SentOnce
  <2>1. HeardSoFar(d, t)
    BY <1>1, <1>2 DEF SentOnce, InBroadcast
  <2>2. CASE d = c
    <3>1. received'[d] = <<>> /\ d \notin requests'[t].to
      BY <1>1, <1>2, <2>2 DEF NewHeardNothing
    <3> QED
      BY <3>1 DEF HeardSoFar
  <2>3. CASE d # c
    <3>1. Past(d, t) => Past(d, t)'
      BY <1>2, <1>4, <2>3 DEF Past
    <3> QED
      BY <1>2, <2>1, <3>1 DEF HeardSoFar
  <2> QED
    BY <2>2, <2>3
<1> QED
  BY <1>6, <1>7, <1>8, <1>9 DEF DeliveryInv

\* The server is stopped and started: nobody is connected, nothing being sent.
LEMMA StopStep ==
  ASSUME DeliveryInv, WebTypes', Crash
  PROVE  DeliveryInv'
<1>1. /\ requests' = [t \in Tasks |->
           Request(IF requests[t].pc = "idle" THEN "idle" ELSE "ended")]
      /\ subscribers' = <<>>
      /\ received' = [c \in Clients |-> <<>>]
  BY DEF Crash
<1>2. \A t \in Tasks :
        requests'[t].to = {} /\ requests'[t].pc \notin {"events", "sending"}
  BY <1>1 DEF Request
<1>3. SubscribersOnce'
  BY <1>1 DEF SubscribersOnce
<1>4. \A c \in Clients : received'[c] = <<>> /\ DOMAIN received'[c] = {}
  BY <1>1
<1>6. NewHeardNothing'
  BY <1>2, <1>4 DEF NewHeardNothing
<1>7. AtRest' /\ UnbegunUnheard' /\ DeliveredInOrder'
  BY <1>2, <1>4 DEF AtRest, UnbegunUnheard, DeliveredInOrder
<1>5. SentOnce'
  BY <1>2 DEF SentOnce, InBroadcast
<1> QED
  BY <1>3, <1>5, <1>6, <1>7 DEF DeliveryInv

\* The loop goes on to the next on the list.
LEMMA GoesOnStep ==
  ASSUME DeliveryInv, WebTypes', NEW t \in Tasks, BeginSend(t)
  PROVE  DeliveryInv'
<1>1. /\ WebTypes /\ SubscribersOnce /\ NewHeardNothing /\ AtRest /\ UnbegunUnheard
      /\ SentOnce /\ DeliveredInOrder
  BY DEF DeliveryInv
<1>2. /\ requests \in [Tasks -> RequestSet] /\ requests[t] \in RequestSet
      /\ requests[t].pc = "events" /\ subscribers \in Seq(Clients)
      /\ DOMAIN subscribers = 1..Len(subscribers) /\ Len(subscribers) \in Nat
      /\ received \in [Clients -> Seq(EventId)]
  BY <1>1 DEF WebTypes, BeginSend
<1>3. PICK p \in Nat \ {0} : p = requests[t].position /\ p \in DOMAIN subscribers
  <2>1. requests[t].position \in Nat \ {0} /\ requests[t].position <= Len(subscribers)
    BY <1>2 DEF RequestSet, BeginSend
  <2>2. requests[t].position \in DOMAIN subscribers
    BY <1>2, <2>1
  <2> QED
    BY <2>1, <2>2
<1>4. PICK c \in Clients : c = subscribers[p]
  BY <1>2, <1>3
<1>5. PICK q \in RequestSet :
        /\ requests' = [requests EXCEPT ![t] = q]
        /\ q.pc = "sending" /\ q.to = {c} /\ q.position = p + 1
        /\ q.event = requests[t].event
  <2> DEFINE q == [requests[t] EXCEPT !.pc = "sending", !.to = {c}, !.position = @ + 1]
  <2>1. requests' = [requests EXCEPT ![t] = q]
    BY <1>2, <1>3, <1>4 DEF BeginSend
  <2>2. /\ q \in RequestSet /\ q.pc = "sending" /\ q.to = {c}
        /\ q.event = requests[t].event /\ q.position = requests[t].position + 1
    <3>1. PICK old \in RequestSet : old = requests[t]
      BY <1>2
    <3>2. PICK after : after = q
      OBVIOUS
    <3>3. /\ old.pc \in {"events", "sending"}
          /\ after = [old EXCEPT !.pc = "sending", !.to = {c}, !.position = @ + 1]
      BY <1>2, <3>1, <3>2
    <3> HIDE DEF q
    <3>4. /\ after \in RequestSet /\ after.pc = "sending" /\ after.to = {c}
          /\ after.event = old.event
          /\ after.position = old.position + 1
      BY <3>3, RequestSends
    <3> QED
      BY <3>1, <3>2, <3>4
  <2> HIDE DEF q
  <2> QED
    BY <1>3, <2>1, <2>2
<1>6. /\ requests'[t] = q /\ \A u \in Tasks : u # t => requests'[u] = requests[u]
      /\ UNCHANGED <<subscribers, connection, received>>
  BY <1>2, <1>5 DEF BeginSend
<1>7. SubscribersOnce' /\ DeliveredInOrder'
  BY <1>1, <1>6 DEF SubscribersOnce, DeliveredInOrder
<1>8. NewHeardNothing'
  <2>1. connection[c] # "new"
    BY <1>1, <1>3, <1>4 DEF SubscribersOnce
  <2> QED
    BY <1>1, <1>5, <1>6, <2>1 DEF NewHeardNothing
<1>9. AtRest'
  BY <1>1, <1>5, <1>6 DEF AtRest
<1>10. UnbegunUnheard'
  BY <1>1, <1>2, <1>5, <1>6 DEF UnbegunUnheard
<1>11. SentOnce'
  <2> SUFFICES ASSUME NEW u \in Tasks, NEW d \in Clients, InBroadcast(u)'
               PROVE  HeardSoFar(d, u)'
    BY DEF SentOnce
  <2>1. CASE u # t
    BY <1>1, <1>6, <2>1 DEF SentOnce, InBroadcast, HeardSoFar, Past
  <2>2. CASE u = t
    <3>1. HeardSoFar(d, t)
      BY <1>1, <1>2 DEF SentOnce, InBroadcast
    <3>2. \A k \in DOMAIN subscribers : k \in Nat
      BY <1>2
    <3>3. Past(d, t) => Past(d, t)' /\ d # c
      BY <1>3, <1>4, <1>5, <1>6, <3>2 DEF Past
    <3>4. d = c => Past(d, t)'
      <4>1. \A k \in DOMAIN subscribers : subscribers[k] = c => k = p
        BY <1>1, <1>3, <1>4 DEF SubscribersOnce
      <4> QED
        BY <1>5, <1>6, <4>1 DEF Past
    <3> QED
      BY <1>5, <1>6, <2>2, <3>1, <3>3, <3>4 DEF HeardSoFar
  <2> QED
    BY <2>1, <2>2
<1> QED
  BY <1>7, <1>8, <1>9, <1>10, <1>11 DEF DeliveryInv

\* Sending returns: the client heard of the event or went away.
LEMMA HeardStep ==
  ASSUME DeliveryInv, WebTypes', NEW t \in Tasks, SendReturns(t)
  PROVE  DeliveryInv'
<1>1. /\ WebTypes /\ SubscribersOnce /\ NewHeardNothing /\ AtRest /\ UnbegunUnheard
      /\ SentOnce /\ DeliveredInOrder
  BY DEF DeliveryInv
<1>2. /\ requests \in [Tasks -> RequestSet] /\ requests[t] \in RequestSet
      /\ requests[t].pc = "sending"
      /\ received \in [Clients -> Seq(EventId)]
  BY <1>1 DEF WebTypes, SendReturns
<1>3. PICK c \in requests[t].to, failed \in BOOLEAN :
        /\ received' = IF connection[c] = "open" /\ ~failed
                       THEN [received EXCEPT ![c] =
                               Append(@, [task |-> t, event |-> requests[t].event])]
                       ELSE received
        /\ requests' = [requests EXCEPT
             ![t].pc = "events", ![t].to = {},
             ![t].disconnected = IF failed THEN @ \cup {c} ELSE @]
  BY DEF SendReturns
<1>4. c \in Clients /\ UNCHANGED <<subscribers, connection>>
  BY <1>2 DEF RequestSet, SendReturns
<1>5. PICK e \in EventId : e = [task |-> t, event |-> requests[t].event]
                         /\ e.task = t /\ e.event = requests[t].event
  <2>1. [task |-> t, event |-> requests[t].event] \in EventId
    BY <1>2 DEF EventId, RequestSet
  <2> QED
    BY <2>1
<1>6. PICK q \in RequestSet :
        /\ requests' = [requests EXCEPT ![t] = q]
        /\ q.pc = "events" /\ q.to = {} /\ q.position = requests[t].position
        /\ q.event = requests[t].event
  <2> DEFINE q == [requests[t] EXCEPT !.pc = "events", !.to = {},
                     !.disconnected = IF failed THEN @ \cup {c} ELSE @]
  <2>1. requests' = [requests EXCEPT ![t] = q]
    BY <1>2, <1>3
  <2>2. PICK more \in SUBSET Clients :
          more = IF failed THEN requests[t].disconnected \cup {c}
                 ELSE requests[t].disconnected
    BY <1>2, <1>4 DEF RequestSet
  <2>3. q = [requests[t] EXCEPT !.pc = "events", !.to = {}, !.disconnected = more]
    BY <2>2
  <2> HIDE DEF q
  <2>4. /\ q \in RequestSet /\ q.pc = "events" /\ q.to = {}
        /\ q.event = requests[t].event /\ q.position = requests[t].position
    <3>1. PICK old \in RequestSet : old = requests[t]
      BY <1>2
    <3>2. PICK after : after = q
      OBVIOUS
    <3>3. /\ old.pc \in {"events", "sending"}
          /\ after = [old EXCEPT !.pc = "events", !.to = {}, !.disconnected = more]
      BY <1>2, <2>3, <3>1, <3>2
    <3>4. /\ after \in RequestSet /\ after.pc = "events" /\ after.to = {}
          /\ after.event = old.event /\ after.position = old.position
      <4>1. more \in SUBSET Clients /\ old \in RequestSet
        BY <2>2, <3>1
      <4>2. after = [pc |-> "events", event |-> old.event, position |-> old.position,
                     to |-> {}, disconnected |-> more]
        BY <3>3, <4>1 DEF RequestSet
      <4>3. old.event \in Nat \ {0} /\ old.position \in Nat \ {0}
        BY <4>1 DEF RequestSet
      <4> QED
        BY <4>1, <4>2, <4>3 DEF RequestSet
    <3> QED
      BY <3>1, <3>2, <3>4
  <2> QED
    BY <2>1, <2>4
<1>7. requests'[t] = q /\ \A u \in Tasks : u # t => requests'[u] = requests[u]
  BY <1>2, <1>6
<1>8. /\ \A d \in Clients : d # c => received'[d] = received[d]
      /\ \/ received'[c] = received[c]
         \/ connection[c] = "open" /\ received'[c] = Append(received[c], e)
  BY <1>2, <1>3, <1>4, <1>5
<1>9. PICK size \in Nat : size = Len(received[c]) /\ DOMAIN received[c] = 1..size
  <2>1. received[c] \in Seq(EventId)
    BY <1>2, <1>4
  <2> QED
    BY <2>1
<1>10. /\ DOMAIN received'[c] = 1..size \/ DOMAIN received'[c] = 1..(size + 1)
       /\ \A m \in DOMAIN received'[c] :
            \/ m \in DOMAIN received[c] /\ received'[c][m] = received[c][m]
            \/ m = size + 1 /\ received'[c][m] = e
  <2>1. received[c] \in Seq(EventId)
    BY <1>2, <1>4
  <2>2. CASE received'[c] = received[c]
    BY <1>9, <2>2
  <2>3. CASE received'[c] = Append(received[c], e)
    <3> DEFINE old == received[c]
               new == received'[c]
    <3>1. old \in Seq(EventId) /\ new = Append(old, e) /\ size = Len(old)
      BY <1>9, <2>1, <2>3
    <3> HIDE DEF old, new
    <3>2. /\ DOMAIN old = 1..size /\ DOMAIN new = 1..(size + 1)
          /\ \A m \in 1..(size + 1) : m \in 1..size \/ m = size + 1
          /\ \A m \in 1..size : new[m] = old[m]
          /\ new[size + 1] = e
      BY <3>1
    <3>3. \A m \in DOMAIN new : \/ m \in DOMAIN old /\ new[m] = old[m]
                                \/ m = size + 1 /\ new[m] = e
      BY <3>2
    <3> QED
      BY <3>2, <3>3 DEF old, new
  <2> QED
    BY <1>8, <2>2, <2>3
<1>11. HeardSoFar(c, t)
  BY <1>1, <1>2, <1>4 DEF SentOnce, InBroadcast
<1>12. /\ Past(c, t)
       /\ \A m \in DOMAIN received[c] : received[c][m].task = t =>
            received[c][m].event < requests[t].event
  <2>1. requests[t].event \in Nat
    BY <1>2 DEF RequestSet
  <2>2. \A m \in DOMAIN received[c] : received[c][m].event \in Nat
    BY <1>1, <1>4, HeardEvents
  <2> QED
    BY <1>3, <1>11, <2>1, <2>2 DEF HeardSoFar
<1>13. SubscribersOnce'
  BY <1>1, <1>4 DEF SubscribersOnce
<1>14. NewHeardNothing'
  <2>1. connection[c] # "new"
    BY <1>1, <1>3, <1>4 DEF NewHeardNothing
  <2> QED
    BY <1>1, <1>4, <1>6, <1>7, <1>8, <2>1 DEF NewHeardNothing
<1>15. AtRest'
  BY <1>1, <1>6, <1>7 DEF AtRest
<1>16. UnbegunUnheard'
  <2> SUFFICES ASSUME NEW u \in Tasks, requests'[u].pc = "idle",
                      NEW d \in Clients, NEW m \in DOMAIN received'[d]
               PROVE  received'[d][m].task # u
    BY DEF UnbegunUnheard
  <2>1. u # t /\ requests[u].pc = "idle"
    BY <1>6, <1>7
  <2>2. CASE d # c
    BY <1>1, <1>8, <2>1, <2>2 DEF UnbegunUnheard
  <2>3. CASE d = c
    BY <1>1, <1>5, <1>10, <2>1, <2>3 DEF UnbegunUnheard
  <2> QED
    BY <2>2, <2>3
<1>17. DeliveredInOrder'
  <2> SUFFICES ASSUME NEW d \in Clients,
                      NEW m \in DOMAIN received'[d], NEW n \in DOMAIN received'[d],
                      m < n, received'[d][m].task = received'[d][n].task
               PROVE  received'[d][m].event < received'[d][n].event
    BY DEF DeliveredInOrder
  <2>1. CASE d # c
    BY <1>1, <1>8, <2>1 DEF DeliveredInOrder
  <2>2. CASE d = c
    <3>1. m \in DOMAIN received[c] /\ received'[c][m] = received[c][m]
      <4>1. n \in 1..(size + 1) /\ m \in 1..(size + 1)
        BY <1>10, <2>2
      <4>2. m # size + 1
        BY <4>1
      <4> QED
        BY <1>10, <2>2, <4>2
    <3>2. CASE n \in DOMAIN received[c] /\ received'[c][n] = received[c][n]
      BY <1>1, <1>4, <2>2, <3>1, <3>2 DEF DeliveredInOrder
    <3>3. CASE received'[c][n] = e
      BY <1>5, <1>12, <2>2, <3>1, <3>3
    <3> QED
      BY <1>10, <2>2, <3>2, <3>3
  <2> QED
    BY <2>1, <2>2
<1>18. SentOnce'
  <2> SUFFICES ASSUME NEW u \in Tasks, NEW d \in Clients, InBroadcast(u)'
               PROVE  HeardSoFar(d, u)'
    BY DEF SentOnce
  <2>1. HeardSoFar(d, u)
    BY <1>1, <1>2, <1>7 DEF SentOnce, InBroadcast
  <2>2. Past(d, u) => Past(d, u)'
    BY <1>4, <1>6, <1>7 DEF Past
  <2>3. requests'[u].event = requests[u].event
          /\ (requests'[u].to = requests[u].to \/ requests'[u].to = {})
    BY <1>6, <1>7
  <2>4. CASE d # c
    BY <1>8, <2>1, <2>2, <2>3, <2>4 DEF HeardSoFar
  <2>5. CASE d = c /\ u # t
    <3>1. \A m \in DOMAIN received'[c] : received'[c][m].task = u =>
            m \in DOMAIN received[c] /\ received'[c][m] = received[c][m]
      BY <1>5, <1>10, <2>5
    <3> QED
      BY <2>1, <2>2, <2>3, <2>5, <3>1 DEF HeardSoFar
  <2>6. CASE d = c /\ u = t
    <3>1. Past(c, t)'
      BY <1>12, <2>2, <2>6
    <3>2. requests[t].event \in Nat
      BY <1>2 DEF RequestSet
    <3>3. \A m \in DOMAIN received[c] : received[c][m].task = t =>
            received[c][m].event <= requests[t].event
      BY <1>11 DEF HeardSoFar
    <3>4. \A m \in DOMAIN received'[c] : received'[c][m].task = t =>
            received'[c][m].event <= requests'[t].event
      BY <1>5, <1>10, <2>3, <2>6, <3>2, <3>3
    <3>5. requests'[t].to = {}
      BY <1>6, <1>7
    <3> QED
      BY <2>6, <3>1, <3>4, <3>5 DEF HeardSoFar
  <2> QED
    BY <2>4, <2>5, <2>6
<1> QED
  BY <1>13, <1>14, <1>15, <1>16, <1>17, <1>18 DEF DeliveryInv

\* A request that writes sends nothing.
LEMMA WritesQuietly ==
  ASSUME DeliveryInv, WebTypes', NEW t \in Tasks,
         \/ EndBroadcast(t) \/ SaveRunState(t) \/ StoreRecord(t) \/ SaveArtifact(t)
         \/ WriteRaises(t)
  PROVE  DeliveryInv'
<1>1. /\ WebTypes /\ requests \in [Tasks -> RequestSet] /\ requests[t] \in RequestSet
  BY DEF DeliveryInv, WebTypes
<1>2. /\ UNCHANGED <<connection, received>>
      /\ subscribers' = Only(subscribers, Clients \ requests[t].disconnected)
         \/ subscribers' = subscribers
  BY DEF EndBroadcast, SaveRunState, StoreRecord, SaveArtifact, WriteRaises, Pruned
<1>3. \E q : /\ requests' = [requests EXCEPT ![t] = q] /\ q.to = {}
             /\ \/ q.pc \notin {"idle", "events", "sending"}
                \/ /\ q.pc = "events" /\ requests[t].pc = "events"
                   /\ q.event = requests[t].event + 1
  <2>1. CASE EndBroadcast(t) \/ (WriteRaises(t) /\ requests[t].pc = "events")
    <3>1. requests[t].pc = "events"
      BY <2>1 DEF EndBroadcast
    <3>2. requests' = [requests EXCEPT ![t] = NextEvent(t)]
      BY <2>1, <3>1 DEF EndBroadcast, WriteRaises, ContinueWith
    <3> QED
      BY <1>1, <3>1, <3>2, NextEventIs
  <2>2. CASE SaveRunState(t) \/ (WriteRaises(t) /\ requests[t].pc = "world")
    <3>1. requests' = [requests EXCEPT ![t] = AfterRecords(t, 1)]
      BY <2>2 DEF SaveRunState, WriteRaises, ContinueWith
    <3>2. 1 \in Nat \ {0}
      OBVIOUS
    <3> QED
      BY <3>1, <3>2, AfterRecordsIs
  <2>3. CASE StoreRecord(t)
    <3>1. PICK n \in Nat \ {0} : n = requests[t].position + 1
      BY <1>1 DEF RequestSet
    <3>2. requests' = [requests EXCEPT ![t] = AfterRecords(t, n)]
      BY <2>3, <3>1 DEF StoreRecord, ContinueWith
    <3> QED
      BY <3>2, AfterRecordsIs
  <2>4. CASE WriteRaises(t) /\ requests[t].pc = "records"
    <3>1. requests' = [requests EXCEPT ![t] = Request("artifact")]
      BY <2>4 DEF WriteRaises, ContinueWith
    <3> QED
      BY <3>1, RequestIs
  <2>5. CASE SaveArtifact(t) \/ (WriteRaises(t) /\ requests[t].pc = "artifact")
    <3>1. requests' = [requests EXCEPT ![t] = Request("ended")]
      BY <2>5 DEF SaveArtifact, WriteRaises, ContinueWith
    <3> QED
      BY <3>1, RequestIs
  <2>6. WriteRaises(t) => requests[t].pc \in {"events", "world", "records", "artifact"}
    BY DEF WriteRaises, WriteCutOff
  <2> QED
    BY <2>1, <2>2, <2>3, <2>4, <2>5, <2>6
<1>4. \A u \in Tasks : MovesOn(u)
  BY <1>1, <1>3 DEF MovesOn
<1>5. PICK wanted : \/ subscribers' = Only(subscribers, wanted)
                    \/ subscribers' = subscribers
  BY <1>2
<1> QED
  BY <1>2, <1>4, <1>5, QuietStep

\* Requests begin, commitments are made, clients go: nothing is sent.
LEMMA RestQuietly ==
  ASSUME DeliveryInv, WebTypes',
         \/ UNCHANGED webVars
         \/ \E c \in Clients : GoAway(c) \/ NoticeGone(c)
         \/ \E t \in Tasks : ExecuteTask(t) \/ TaskRaises(t)
         \/ \E kind \in CommitmentKind, revises \in BOOLEAN :
              ExecuteCommitment(kind, revises)
  PROVE  DeliveryInv'
<1>1. /\ WebTypes /\ requests \in [Tasks -> RequestSet]
      /\ connection \in [Clients -> {"new", "open", "gone", "closed"}]
      /\ received \in [Clients -> Seq(EventId)]
  BY DEF DeliveryInv, WebTypes
<1>2. AtRest
  BY DEF DeliveryInv
<1>3. CASE UNCHANGED <<requests, subscribers, connection, received>>
  <2>1. \A t \in Tasks : MovesOn(t)
    BY <1>3 DEF MovesOn
  <2> QED
    BY <1>3, <2>1, QuietStep
<1>4. CASE \E c \in Clients : GoAway(c) \/ NoticeGone(c)
  <2>1. PICK c \in Clients : GoAway(c) \/ NoticeGone(c)
    BY <1>4
  <2>2. \A t \in Tasks : MovesOn(t)
    BY <2>1 DEF MovesOn, GoAway, NoticeGone
  <2>3. /\ subscribers' = Only(subscribers, Clients \ {c}) \/ subscribers' = subscribers
        /\ \A d \in Clients : connection'[d] = "new" => connection[d] = "new"
        /\ \A d \in Clients : received'[d] = received[d] \/ received'[d] = <<>>
    BY <1>1, <2>1 DEF GoAway, NoticeGone
  <2>4. PICK wanted : \/ subscribers' = Only(subscribers, wanted)
                      \/ subscribers' = subscribers
    BY <2>3
  <2> QED
    BY <2>2, <2>3, <2>4, QuietStep
<1>5. CASE \E t \in Tasks : ExecuteTask(t) \/ TaskRaises(t)
  <2>1. PICK t \in Tasks : ExecuteTask(t) \/ TaskRaises(t)
    BY <1>5
  <2>2. /\ requests[t].pc = "idle" /\ requests[t].to = {}
        /\ \E pc \in {"events", "ended"} :
             requests' = [requests EXCEPT ![t].pc = pc]
        /\ UNCHANGED <<subscribers, connection, received>>
    BY <1>2, <2>1 DEF ExecuteTask, TaskRaises, AtRest
  <2>3. \A u \in Tasks : MovesOn(u)
    BY <1>1, <2>2 DEF MovesOn, RequestSet
  <2> QED
    BY <2>2, <2>3, QuietStep
<1> QED
  BY <1>3, <1>4, <1>5 DEF webVars, volatile, ExecuteCommitment

\* Every step keeps the order of what was sent.
LEMMA DeliveryNext ==
  ASSUME DeliveryInv, [WebNext]_webVars
  PROVE  DeliveryInv'
<1>1. WebTypes'
  BY TypesNext DEF DeliveryInv
<1>2. CASE UNCHANGED webVars
  BY <1>1, <1>2, RestQuietly
<1>3. CASE \E c \in Clients : Subscribe(c) \/ GoAway(c) \/ NoticeGone(c)
  BY <1>1, <1>3, RestQuietly, JoinStep
<1>4. CASE \E t \in Tasks : ExecuteTask(t) \/ TaskRaises(t) \/ TaskStep(t)
  <2>1. PICK t \in Tasks : ExecuteTask(t) \/ TaskRaises(t) \/ TaskStep(t)
    BY <1>4
  <2>2. CASE ExecuteTask(t) \/ TaskRaises(t)
    BY <1>1, <2>2, RestQuietly
  <2>3. CASE BeginSend(t)
    BY <1>1, <2>3, GoesOnStep
  <2>4. CASE SendReturns(t)
    BY <1>1, <2>4, HeardStep
  <2>5. CASE \/ EndBroadcast(t) \/ SaveRunState(t) \/ StoreRecord(t) \/ SaveArtifact(t)
             \/ WriteRaises(t)
    BY <1>1, <2>5, WritesQuietly
  <2> QED
    BY <2>1, <2>2, <2>3, <2>4, <2>5 DEF TaskStep
<1>5. CASE \E kind \in CommitmentKind, revises \in BOOLEAN :
             ExecuteCommitment(kind, revises)
  BY <1>1, <1>5, RestQuietly
<1>6. CASE Crash
  BY <1>1, <1>6, StopStep
<1> QED
  BY <1>2, <1>3, <1>4, <1>5, <1>6 DEF WebNext

\* At the start there is nobody to send to.
LEMMA DeliveryInit ==
  ASSUME WebInit
  PROVE  DeliveryInv
<1>1. WebTypes
  BY TypesInit
<1>2. /\ subscribers = <<>> /\ \A c \in Clients : received[c] = <<>>
      /\ \A t \in Tasks : requests[t].to = {} /\ requests[t].pc = "idle"
  BY DEF WebInit, Request
<1>3. DOMAIN <<>> = {}
  OBVIOUS
<1>4. SubscribersOnce
  BY <1>2, <1>3 DEF SubscribersOnce
<1>5. NewHeardNothing
  BY <1>2 DEF NewHeardNothing
<1>6. AtRest /\ UnbegunUnheard /\ SentOnce /\ DeliveredInOrder
  BY <1>2, <1>3 DEF AtRest, UnbegunUnheard, SentOnce, InBroadcast, DeliveredInOrder
<1> QED
  BY <1>1, <1>4, <1>5, <1>6 DEF DeliveryInv

(***************************************************************************)
(* A subscriber hears of the events of a task in order and of each at most *)
(* once, though the list is gone through by position while others join and *)
(* leave it.                                                               *)
(***************************************************************************)
THEOREM EventsAlwaysInOrder == WebSpec => []DeliveredInOrder
<1>1. WebInit => DeliveryInv
  BY DeliveryInit
<1>2. DeliveryInv /\ [WebNext]_webVars => DeliveryInv'
  BY DeliveryNext
<1>3. DeliveryInv => DeliveredInOrder
  BY DEF DeliveryInv
<1> QED
  BY <1>1, <1>2, <1>3, PTL DEF WebSpec
================================================================================
