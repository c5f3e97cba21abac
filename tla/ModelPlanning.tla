----------------------------- MODULE ModelPlanning -----------------------------
(***************************************************************************)
(* A model that is asked for one reasoning step or a chain of them          *)
(* (llm_deliberation) and for a plan (llm_plan_adapter): what it answers is used if it parses, *)
(* else the deterministic engine steps in, if the caller wants it to.  A    *)
(* compiler that has a log records every request and how it was answered.   *)
(*                                                                         *)
(* An answer to a request is the action chosen or "plan", or else why there *)
(* is none: "response" (it does not parse), "RuntimeError" (of the provider,*)
(* which is recorded) or "error" (any other exception, which is not).       *)
(***************************************************************************)
EXTENDS TaskPlanning, FiniteSets, SequencesExt

CONSTANTS
  ModelTasks,       \* the tasks the model is asked about
  ModelPlans,       \* the plans it may answer with, as JSON
  ChainLimits,      \* the limits on the steps of a chain (max_steps)
  MaxConsultations  \* bound on the chains and plans asked for

Failures == {"response", "RuntimeError", "error"}

(***************************************************************************)
(* A patch is valid if it has a section, a key and a known op.  A call that *)
(* does not name a tool and its arguments (FALSE) is passed over.           *)
(***************************************************************************)
ASSUME ModelPlanningAssumption ==
  /\ ModelTasks \subseteq TaskSpec
  /\ \A p \in ModelPlans :
       /\ DOMAIN p = {"patches", "calls"}
       /\ p.calls \in Seq(BOOLEAN)
       /\ \A n \in DOMAIN p.patches :
            p.patches[n].section \in RefRoot /\ p.patches[n].valid \in BOOLEAN
  /\ ChainLimits \subseteq Nat /\ MaxConsultations \in Nat

VARIABLES
  consulted,  \* the chains and plans asked for, the current one last
  asking,     \* whether a request is with the model
  audit       \* the event log, as far as requests to the model go

modelVars == <<consulted, asking, audit>>

ModelInit == consulted = <<>> /\ asking = FALSE /\ audit = <<>>

Consulting == consulted[Len(consulted)]

\* Entries about the n-th consultation, if its compiler has a log.
Told(n, given, types) ==
  IF given.audited THEN [k \in DOMAIN types |-> [type |-> types[k], of |-> n]] ELSE <<>>

\* How complete returns is recorded before anybody looks at the response.
Settled(answer) ==
  CASE answer = "error" -> <<>>
    [] answer = "RuntimeError" -> <<"failed">>
    [] OTHER -> <<"succeeded">>

\* given: what the caller passes; after: the action of the reasoning step it
\* passes for a plan, "none" without one.
Begin(given, asks) ==
  /\ ~asking
  /\ Len(consulted) < MaxConsultations
  /\ consulted' = Append(consulted, given)
  /\ asking' = asks
  /\ audit' = audit \o Told(Len(consulted) + 1, given,
                            IF asks THEN <<"requested">> ELSE <<>>)

\* The model answers, the result so far is known, and maybe it is asked again.
Answered(answer, result, again) ==
  /\ consulted' = [consulted EXCEPT
       ![Len(consulted)].answers = Append(@, answer),
       ![Len(consulted)].result = result]
  /\ asking' = again
  /\ audit' = audit \o Told(Len(consulted), Consulting,
       Settled(answer) \o IF again THEN <<"requested">> ELSE <<>>)

--------------------------------------------------------------------------------
(* A chain of reasoning steps.                                             *)

DeliberateChainWithLLM(task, reads, limit, fallback, audited) ==
  Begin([by |-> "deliberation", task |-> task, reads |-> reads, limit |-> limit,
         after |-> "none", fallback |-> fallback, audited |-> audited,
         answers |-> <<>>, result |-> <<>>],
        limit > 0)

\* Defect: the limit forces a plan though the last step has ended the chain.
StepAnswersForced(action) ==
  /\ asking /\ Consulting.by = "deliberation"
  /\ LET steps == Append(Consulting.result, action)
         full == Len(steps) = Consulting.limit
     IN  Answered(action, IF full THEN Append(steps, "propose_plan") ELSE steps,
                  ~full /\ action \notin TerminalActions)

\* The next step of the chain; one too many of those that end nothing is
\* followed by a plan.
StepAnswers(action) ==
  /\ asking /\ Consulting.by = "deliberation"
  /\ LET steps == Append(Consulting.result, action)
         full == Len(steps) = Consulting.limit
     IN  IF action \in TerminalActions THEN Answered(action, steps, FALSE)
         ELSE Answered(action, IF full THEN Append(steps, "propose_plan") ELSE steps,
                       ~full)

\* Without an answer the chain ends where it is.  Nothing is raised, not even
\* for a first step for which the caller wants no fallback.
StepFails(failure) ==
  /\ asking /\ Consulting.by = "deliberation"
  /\ Answered(failure,
              IF Consulting.fallback /\ Consulting.result = <<>>
              THEN <<DeliberateNextAction(Consulting.task, Consulting.reads)>>
              ELSE Consulting.result,
              FALSE)

--------------------------------------------------------------------------------
(* One reasoning step, or a plan.                                          *)

DeliberateWithLLM(task, reads, fallback, audited) ==
  Begin([by |-> "step", task |-> task, reads |-> reads, limit |-> 1,
         after |-> "none", fallback |-> fallback, audited |-> audited,
         answers |-> <<>>, result |-> <<>>],
        TRUE)

OneStepAnswers(action) ==
  /\ asking /\ Consulting.by = "step"
  /\ Answered(action, <<action>>, FALSE)

\* The caller may pass a step it had for the task, of a chain the last one.
StepsFor(task) ==
  {"none"} \cup {consulted[n].result[Len(consulted[n].result)] :
                   n \in {m \in DOMAIN consulted :
                            /\ consulted[m].by # "plan_compiler"
                            /\ consulted[m].task = task
                            /\ consulted[m].result # <<>>}}

PlanWithLLM(task, reads, after, fallback, audited) ==
  /\ after \in StepsFor(task)
  /\ Begin([by |-> "plan_compiler", task |-> task, reads |-> reads, limit |-> 1,
            after |-> after, fallback |-> fallback, audited |-> audited,
            answers |-> <<>>, result |-> <<>>],
           TRUE)

SectionTargetKind(section, key) ==
  CASE section = "goals" -> "goal_update"
    [] section = "self_model" -> "self_update"
    [] section = "beliefs" /\ key = "hypotheses" -> "hypothesis_update"
    [] section = "beliefs" /\ key = "anchored_facts" -> "anchor_add"
    [] OTHER -> "entity_update"

\* A plan is its deltas and the number of its tool calls.
ParsePlan(p) ==
  [deltas |-> [n \in DOMAIN p.patches |->
                 [kind |-> SectionTargetKind(p.patches[n].section, p.patches[n].key),
                  root |-> p.patches[n].section]],
   calls |-> Cardinality({n \in DOMAIN p.calls : p.calls[n]})]

\* plan_from_task takes a missing step for none that speaks against a tool call.
EnginePlan(task, reads, after) ==
  LET action == IF after = "none" THEN "request_read_tool" ELSE after
  IN  [deltas |-> CandidateDeltas(task, action),
       calls |-> IF ProposesReadOnlyCall(task, reads, action) THEN 1 ELSE 0]

PlanAnswers(p) ==
  /\ asking /\ Consulting.by = "plan_compiler"
  /\ \A n \in DOMAIN p.patches : p.patches[n].valid
  /\ Answered("plan", <<ParsePlan(p)>>, FALSE)

\* One patch that is not valid, and there is no plan.  Without the fallback the
\* call raises, for a plan as for one step.
CallFails(failure) ==
  /\ asking /\ Consulting.by # "deliberation"
  /\ LET c == Consulting
         engine == IF c.by = "step" THEN DeliberateNextAction(c.task, c.reads)
                   ELSE EnginePlan(c.task, c.reads, c.after)
     IN  Answered(failure, IF c.fallback THEN <<engine>> ELSE <<>>, FALSE)

ModelNext ==
  \/ \E task \in ModelTasks, reads, fallback, audited \in BOOLEAN :
       \/ \E limit \in ChainLimits :
            DeliberateChainWithLLM(task, reads, limit, fallback, audited)
       \/ DeliberateWithLLM(task, reads, fallback, audited)
       \/ \E after \in NextAction \cup {"none"} :
            PlanWithLLM(task, reads, after, fallback, audited)
  \/ \E action \in NextAction : StepAnswers(action) \/ OneStepAnswers(action)
  \/ \E p \in ModelPlans : PlanAnswers(p)
  \/ \E failure \in Failures : StepFails(failure) \/ CallFails(failure)

--------------------------------------------------------------------------------
(***************************************************************************)
(* Properties.                                                             *)
(***************************************************************************)
Done == {n \in DOMAIN consulted : n < Len(consulted) \/ ~asking}

Failed(c) == c.answers # <<>> /\ Last(c.answers) \in Failures

\* Only the last step of a chain is terminal, and it is, unless the model gave no
\* answer to the last request.  The engine's word in it is a forced plan after the
\* model was asked as often as the caller allows, or one step instead of all.
ChainAccounted(c) ==
  LET said == IF Failed(c) THEN Front(c.answers) ELSE c.answers
  IN  /\ Len(c.answers) <= c.limit
      /\ \A n \in DOMAIN said : said[n] \in NextAction
      /\ \A n \in DOMAIN c.result : c.result[n] \in TerminalActions => n = Len(c.result)
      /\ \/ c.result # <<>> /\ Last(c.result) \in TerminalActions
         \/ c.limit = 0
         \/ Failed(c)
      /\ \/ c.result = said
         \/ Len(said) = c.limit /\ c.result = Append(said, "propose_plan")
         \/ said = <<>> /\ c.fallback /\ Len(c.result) = 1

\* The record of an audited consultation: a request for every answer, told before
\* the next one is made, and left open exactly where something else than a
\* RuntimeError was raised.
RequestsAccounted(n) ==
  LET c == consulted[n]
      told == {k \in DOMAIN audit : audit[k].of = n}
      requests == {k \in told : audit[k].type = "requested"}
      open == {k \in requests : k + 1 \in told => k + 1 \in requests}
      raised == c.answers # <<>> /\ Last(c.answers) = "error"
  IN  IF c.audited
      THEN /\ Cardinality(requests) = Len(c.answers)
           /\ \A k \in open : raised /\ \A other \in told : other <= k
           /\ raised => open # {}
      ELSE told = {}

\* Of a model that is never there, callers who want the fallback notice nothing:
\* the plan made after a step or chain is the one the runtime makes by itself.
Unreachable(c) == c.fallback /\ \A k \in DOMAIN c.answers : c.answers[k] \in Failures

FallbackIsEngine(n) ==
  \A m \in 1..(n - 1) :
    LET chain == consulted[m]
        plan == consulted[n]
        action == DeliberateNextAction(plan.task, plan.reads)
    IN  (/\ chain.by # "plan_compiler" /\ plan.by = "plan_compiler"
         /\ chain.task = plan.task /\ chain.reads = plan.reads /\ chain.limit > 0
         /\ Unreachable(chain) /\ Unreachable(plan)
         /\ plan.after = Last(chain.result)) =>
          plan.result =
            <<[deltas |-> CandidateDeltas(plan.task, action),
               calls |-> IF ProposesReadOnlyCall(plan.task, plan.reads, action)
                         THEN 1 ELSE 0]>>

(***************************************************************************)
(* However a model answers or fails to: its chains end as they are said to *)
(* end, its requests are settled on record, and the fallback is the engine *)
(* itself (deliberate_chain_with_llm, plan_with_llm).                      *)
(***************************************************************************)
ConsultationsAccounted ==
  \A n \in Done :
    /\ consulted[n].by = "deliberation" => ChainAccounted(consulted[n])
    /\ RequestsAccounted(n)
    /\ FallbackIsEngine(n)
================================================================================
