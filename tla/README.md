# A verification of the Cognitive Execution Engine in TLA+

The engine (`src/src/cee_core`, Python) turns a task into a plan of *candidate deltas*, lets policy
judge each of them, records a commitment for every one and a revision for those that pass, and
rebuilds its world state by replaying the revisions. Its README states the core as: "Policy
decides. EventLog audits. Replay applies only allowed transitions." Around that core are tool
execution, workflows, long-term memory, what-if reasoning, slow self-calibration, a web API and
the ways out to other services. The modules here say what is promised of each, over all
interleavings of the parts that can act, and check that the code keeps it.

Paths below are relative to `src/src/cee_core/`.

## 1. Inventory

| part | state | operations | talks to | what makes it correct |
|---|---|---|---|---|
| Delta policy, domain overlay (`planner.py`, `domain_context.py`, `domain_plugins.py`) | none | judge a delta, judge it in a domain | called by every writer of revisions | an overlay only narrows |
| Tool policy (`tools.py`) | the registry | judge a tool call | gateway, runner, planner, workflow | only read tools run unasked |
| Event log (`event_log.py`) | a list of typed events | append, filter, replay | shared by all parts | append only; replay depends on revisions only |
| Plan execution (`planner.py`, `runtime.py`) | index, prior state id | one commitment per delta, then maybe a revision | policy, log | authorised, once, in one chain |
| Approval gate (`approval.py`) | verdicts so far | ask a provider about each held-back delta, record | foreign provider, log | records, never applies; all or nothing |
| Tool gateway (`tool_gateway.py`, `observations.py`, `belief_update.py`) | handlers, the batch | policy, approval, handler, audit, promotion | foreign provider and handler, log | no effect before its authorisation is on record; promotions grounded |
| Reality interface (`reality_interface.py`) | none | contacts through the gateway, direct contacts | gateway, log | a contact reports its own outcome |
| HTTP gateway, webhooks (`external_gateway.py`) | call times, counters | request with retries, dispatch | foreign services, log | rate kept; effects and deliveries accounted for |
| Read-only runner (`tool_runner.py`, `tool_observation_flow.py`) | handlers | run an allowed read call, observe, promote | foreign handler, log | only read tools, audited |
| Tasks, deliberation, planner (`tasks.py`, `deliberation.py`, `planner.py`) | none | compile, choose the next action, chain, plan | runtime | the plan follows the last recorded choice |
| LLM task compiler (`llm_task_adapter.py`, providers) | none | request, parse, reject | foreign provider, log | every request settled once on record |
| Uncertainty router (`uncertainty_router.py`) | a configuration | signals to decision | runtime | monotone |
| Runtime (`runtime.py`) | none of its own | four entry points | all of the above | all of the above, in every combination, over one log |
| World state, revisions (`world_state.py`, `event_log.py`, `revision.py`) | entities, relations, hypotheses, goals, tensions, anchors | revise, replay | log | replay succeeds and keeps what was learned |
| LLM proposal (`llm_proposal.py`, `revision_policy.py`) | none | parse, judge twice, commit, revise | two policies, log | settled once; one chain of states |
| Model steps and plans (`llm_deliberation.py`, `llm_plan_adapter.py`) | none | ask for a step, a chain, a plan; fall back | foreign provider, engine, log | chains end as said; requests settled; the fallback is the engine |
| Workflow (`workflow.py`, `tool_executor.py`) | variables, step results | steps under conditions, by tools or a model | tools, model, log | reproducible branches, honest outcome |
| Calibration (`calibration.py`, `self_observation.py`) | the self model | observe, propose, judge, revise, apply | log, provider, caller's state | authorised in its own cycle; applying and replaying agree |
| Memory (`memory_store.py`, `memory_index.py`, `memory_promotion.py`) | memories, files, vectors | promote, store, index, delete, restart | policy, files, logs | through policy only; store and files agree |
| Documents (`contextualizer.py`, `retriever.py`) | chunks, index | cut, index, delete | memory | no text lost |
| Evidence graph (`evidence_graph.py`) | nodes, edges, map of steps | add, clear, confidence, coverage | none | edges resolve; evidence counts once |
| Hypotheses, simulation (`hypothesis_engine.py`, `simulation.py`, `world_state.py`) | copies of a state | imagine, explore branches | delta policy, log | the best branch was allowed and consistent |
| Store and web API (`persistence.py`, `web_api.py`, `commitment_policy.py`) | files, the live state, subscribers | tasks, commitments, broadcast, restart | all requests, crashes | logs whole; what is written ahead of what |

The rest of the package (reports, quality metrics, handoff checks, experiments, counters, narration,
domain packs, network clients, command line) computes from finished runs or declares constants.

Hard behaviour: the log is shared by plans that end normally, raise half way, or take another way
through the code; foreign code (model, approval provider, tool handler, service, webhook receiver)
raises, answers late or acts without answering; state ids are threaded by hand; ids repeat from run to
run; files are written one by one and can be cut off. `PROJECT.json` lists the hazards line by line.

## 2. Plan and order

The core first: `DeltaPolicy`, `EventLog`, `AuditedEvolution` (the abstract promise), `PlanExecution`,
`ToolGateway`, then what composes them (`Runtime`) and what feeds them (`TaskPlanning`,
`UncertaintyRouter`, `LLMProposal` over `WorldReplay`), then the parts around (`RealityContact`,
`Workflow`, `Calibration`, `Memory` and `Documents` in `Retrieval`, `ExternalGateway`, `Evidence`,
`Simulation` and `ModelPlanning` in `Reasoning`, `Storage` under `WebApi`). All of these are written.

What would come next: the live revision of a world state (`revise_from_commitment`) beside
`WorldReplay`, whose rules differ (section 8).

## 3. Modules and the code they stand for

| module | stands for | kind |
|---|---|---|
| `DeltaPolicy` | `planner.evaluate_delta_policy*`, `domain_context`, `tools.evaluate_tool_call_policy` | pure operators |
| `EventLog` | `event_log.EventLog` and replay, as far as state ids go | pure operators |
| `AuditedEvolution` | what the engine promises of the world model | abstract specification |
| `PlanExecution` | `planner.execute_plan`, `runtime._execute_plan_in_domain` without calls, `approval.py` | state machine |
| `ToolGateway`, `RealityContact` | `tool_gateway.py`; `reality_interface.py` over it | state machines; the second extends the first |
| `TaskPlanning` | `tasks.py`, `deliberation.py`, `planner.plan_from_task` | pure operators |
| `UncertaintyRouter`, `Routing` | `uncertainty_router.py`; the router under changing signals | pure operators; state machine |
| `Runtime` | `runtime.py`, `planner.execute_plan_with_read_only_tools`, `tool_runner.py`, `tool_observation_flow.py`, `llm_task_adapter.py` | composition of `PlanExecution` and `ToolGateway` over one log |
| `WorldReplay` | `event_log._apply_revision_to_world_state` with the helpers of `world_state.py` it calls | pure operators |
| `LLMProposal` | `llm_proposal.py`, `revision_policy.py` | state machine over `WorldReplay` and `DeltaPolicy` |
| `Conditions`, `Workflow` | the expression interpreter of `workflow.py`; the runner, `tool_executor.py` | recursive function; state machine |
| `Calibration` | `calibration.py`, `self_observation.py` | state machine over `WorldReplay` and `DeltaPolicy` |
| `Memory`, `Documents`, `Retrieval` | `memory_*.py`; `contextualizer.py`, `retriever.py`; both behind the retriever | state machines with failed writes and restarts; their composition |
| `ExternalGateway` | `external_gateway.py` against a service that may act without answering | state machine with a clock |
| `Evidence`, `Simulation`, `ModelPlanning`, `Reasoning` | `evidence_graph.py`; `simulation.py`, `hypothesis_engine.py`, `world_state.py`; `llm_deliberation.py`, `llm_plan_adapter.py`; side by side | state machines; their composition |
| `Storage`, `CommitmentPolicy`, `WebApi` | `persistence.py`; `commitment_policy.py`; `web_api.py` (tasks, commitments, event subscribers) | operators; state machine with crashes |

A definition marked `Defect` is a plausible bug of the one that follows it; nothing uses it.

**Data.** A delta is its kind and the first component of its target; what it would write is not
looked at by policy. A world state is the number of its id `ws_n`; a log entry keeps its type and
the fields that link it to others (ids, success, prior and resulting state). Ids made from plan ids
and indices stay structured (`[plan, index]`), because whether two of them are equal matters.
`LLMProposal` and `Calibration` give deltas values, so that the log can be replayed to contents.

**PlanExecution.** The loop over deltas is `EvaluateDelta` (policy and commitment) and
`ReviseModel` (revision); between them the log is in a state a crash or a reader could see.
`prior` is the local `prior_state_id`; `asked` and `answers` are what the approval gate has put to
its provider and heard. A `linked` provider answers with the commitment's id as trace id (static
and callback), an `unlinked` one with its own request id (interactive). An exception of the
provider leaves the run (`ProviderRaises`).

**ToolGateway, RealityContact.** `execute` is cut where foreign code is called: the verdict of the
provider, the handler. `effects` is not in the code: it notes that a handler was entered and how
long the log was, so that "authorised before it acts" can be stated. A call id may be submitted
again. The gateway serves one caller at a time, a batch or a contact. Promoting callers are taken to
pass the id of the replayed state. The commitment of a contact is not in the log, only its id; a
direct contact leaves nothing there, nor does one whose approval provider raises.

**Runtime.** `rpc` is where the current run stands; `ppc` and `gpc` are where `PlanExecution` and
the gateway stand when the run is inside them. The actions of those modules are used as they are.
Modes are the entry points `domain`, `chain`, `compiler`, and `plan` for a plan handed to
`_execute_plan_in_domain` directly. Observations are promoted only in mode `plan`: the keys a caller
gives for promotion are call ids, which for a task are generated inside `plan_from_task` where no
caller can know them. Promotion through the gateway is left to `ToolGateway` (here `Promoted` is
empty). The compiler is the provider-backed one bound to the run's log. The
precedents and the verdict of the router are put on record as deliberations, too (`Noted`); they choose
nothing (`Chooses`). A chain limited to no steps records none and takes its action off the record
(`FinalAction`).

**LLMProposal.** A proposal is what `parse_llm_proposal` makes of an output, and `ReceiveProposal` is
given any; the loop over deltas stops where the provider is asked or a policy may raise, and before
a revision. `lpc` is where `propose_from_llm` stands. The revision policy is judged against the empty
`WorldState` the code gives it.

**Conditions, Workflow.** A value is its kind and its place among the values of that kind (0 counts as
false). A chain of comparisons is the conjunction of its links, as operands have no effects; the keys
of `in` and `.get` are literals looked up in the variables, and `in` on texts is left out. A step is
its condition, its action and its inputs, literal or `${name}`. The event log is always given; the fallback
of a model step is always `propose_plan`; an observer's metrics are left out. `timeout_seconds` and
`retry_count` of a step do not appear because no code reads them.

**Calibration.** One action per proposal and stage; what the rest of the engine records between cycles
is a step of the environment, as is a caller that applies the revisions it was handed. A target is the
first word of an action summary, the only part the cycle looks at.

**Memory, Documents.** Operations on memories are lists of steps, and the process can fail between any
two: `Torn` is a file opened and not finished (of the file of the index, `saved` is what it would be
loaded as: nothing, when it is torn). Ids are the order of creation; the order in which several memories
are indexed is newest first, that in which they are deleted any. Searching ranks and changes nothing,
and is left out; so are disks that fail while reading and an embedding provider that raises. A text is
its sentences, a sentence the lengths of its words.

**ExternalGateway.** `received` is what reached the service, which the code cannot see: an attempt may
end with an effect and no readable answer. `now` is the monotonic clock; delays between attempts are
ticks. A request may be admitted and yet send nothing, if the library for it is missing. Only the first
attempt of a request goes through the limiter, as in the code; the times it keeps are those of the
requests it let through and has not forgotten.

**Evidence, Simulation.** Weights are tenths, confidences hundredths, rounded where the code rounds. A
statement is which facts it repeats or resembles and whether it holds a word of negation.

**ModelPlanning.** A consultation is a step, a chain or a plan that was asked for, with what the caller
passed and every answer; a compiler with a log records its requests in `audit`. `TaskPlanning` is the
engine behind the fallback. A response is what it parses to, or that it does not.

**Storage, WebApi.** Handlers are coroutines of one event loop: `running` is the task request that has
control, and all other handlers act only when nobody has. `BeginSend` gives control up, `SendReturns`
takes it back. A commitment request awaits nowhere and is one action. A file is its lines; a write may
fail, leave a line cut off or be the last thing the server did (`Crash` keeps the files and nothing
else). An id made from the millisecond clock is taken to be new.

## 4. Runs

| run | states | what it shows |
|---|---|---|
| `plan_execution` | 20,333 | two plans over one log, domain or plain, all overlays and gates: authorised, chained where the code threads the state, verdicts all or none, every plan ends |
| `tool_gateway` | 1,521,538 | three batches or contacts of up to two calls, every verdict and outcome, calls that come again: no effect before its authorisation, contacts honest; implements `AuditedEvolution` |
| `runtime` | 277,445 | two runs over one log through all entry points, chains of several steps, one and none |
| `routing` | 10,368 | the router over six levels per signal, two configurations |
| `proposal` | 6,091 | two proposals over one log, every provider, answer and starting state |
| `web_api` | 1,962,449 | two tasks, two subscribers, two commitments and one fault anywhere: logs that load are whole, commitments are recorded before their revisions, events in order |
| `workflow` | 55,595 | two runs of two workflows over one log, every runner, result and choice |
| `calibration` | 144,644 | two cycles over three histories, with every provider, and updates of others in between: only what was let through, approved and committed to in its own cycle is revised |
| `memory` | 759,648 | two memories, a document indexed twice, a failure or restart anywhere |
| `external` | 360,485 | three requests with two attempts, and a dispatch to two webhooks |
| `reasoning` | 492,561 | evidence graphs of three nodes and edges; two branches after up to two changes of the state; two consultations of a model with every answer and failure |
| `replay_fails` | 30 | the finding of section 8: TLC finds the violation |

**Bounds.** Every interaction between plans is through the log they share, and a plan reads of it only
what it replays to: two plans cover a first and a second after any first. Plans have up to four deltas,
so that each of the verdicts comes first, last and next to any other, and two deltas can be asked about
(partial answers). The gateway's batches have two calls and there are three of them: state is threaded
within and across batches, and a call can fail, succeed and fail again. Two runs of the runtime put
every way through it after every other. `Levels` of `routing` lie on and next to each threshold. The
second proposal, cycle or workflow run meets what the first left, which is where repeated ids bite; a
third would meet nothing new, as each reads only the latest entry under an id, or the sum of all. The
conditions of the workflows use every operator of the language. Two subscribers are enough for one to
leave under the other's broadcast, two tasks for their events to be mixed; one fault is a failed or
partial write anywhere, or a stop. Two memories are one that is touched and one that must not be; the
two texts of a document are one whose chunks overlap and one with a sentence longer than a chunk. A
clock of two ticks and a window of two has a call time expire, two attempts a retry after an effect.
Confidences of 1 take the confidence of a conclusion to both of its limits. Three nodes are the least
with a node reached on two ways. Of two consultations the second can be the plan made from the first; a
chain of two steps has one that continues and one at the limit (0 is the limit that asks for nothing).

**Deadlock** is not checked (`CHECK_DEADLOCK FALSE`) where the bound on plans, batches or runs is
used up: the system then has nothing left to do. `Routing` and `Retrieval` never stop and are checked.

## 5. Fairness

The engine is sequential Python without waiting of its own: once inside a call, its steps are taken.
`PlanSpec` states it for `PlanExecution` (`WF` on `PlanStep`, the verdicts of an approval provider
included: it answers or raises), `WorkflowSpec` for a run under way (`WF` on `WorkflowStepNext`, with
tool handlers and models that return or raise). `PlanEnds` and `RunReturns` say that under these
assumptions no call gets stuck, raising included. Callers are never fair: nobody has to submit
anything. That handlers return is an assumption: the engine has no limit on their time (section 8).
No other module states fairness; what they check is safety, in which a party that never answers is a
behaviour like any other.

## 6. Proofs

`EventLogProofs` holds the lemmas on the log and its replay: what appending an entry or a suffix does to
`RevisionsUpTo` and to what the log replays to, the state id (`ReplayedAt`) or the whole world. The
latter is a recursive function over the log (`ReplayWorld`): that it exists, that it reads the revisions
and nothing else (`ReplaySame`) and takes the last one last (`ReplayOneMore`) is shown by a least
counterexample. `RuntimeProofs` holds the theorems of `PlanExecution`, `Routing` and `Runtime`,
`FrontEndProofs` those of `Workflow` and `WebApi`, the others those of the module they are named for
(`KnowledgeProofs` those of `Memory` and `Reasoning`). Assumptions are those named in the modules
(`PlanAssumption`, `GatewayAssumption`, ...) and no others.

**Plans (`RuntimeProofs`).** The properties of `PlanExecution` are not inductive. That a revision is
authorised depends on the program counter: at `ReviseModel` nothing in the log says that policy was
asked, so `ReadyToRevise` keeps the link between the last commitment and the delta at hand. That a
commitment has one revision needs `RevisionsBehindIndex`; that the gate applies nothing needs to know
that what it was asked was held back (`AskedHeldBack`, `ApprovalsHeldBack`), and a commitment that was
held back has no revision because a revision is `Clear`. That revisions continue from the replayed
state needs `PriorIsReplayed`: the hand-kept `prior` is what the log replays to, while the plan runs.
`PlanInvariant` is the conjunction, proved by one lemma per action; the theorems follow:

- `PlanTypeCorrect`, `PlanInvariantHolds`, `RevisionsAuthorised`, `RevisionsUnique`,
  `GateRecordsOnly`, `DomainPlansContinue`: for all plans, packs, entries, gates and any number of plans.
- `DecisionsAlwaysComplete`: in between, half of the decisions may exist in memory and none on record.
  While a plan runs, what was asked is what its commitments on record ask for, in their order, and
  nothing is decided (`AskedOnRecord`); the gate writes all answers at once or, if the provider raises,
  none; and later plans never write about earlier ones (`RecordsNamePlans`).
- `DomainPlansImplementEvolution`: without the plain entry, `PlanSpec` implements
  `AuditedEvolution`. With it, it does not: such plans are numbered from `ws_0`.
- `OverlayNeverWidens`: what a domain lets through, the base policy lets through.

**`RealityContactProofs`.** That a handler is entered under its authorisation needs to know that at
the handler the log *ends* with it (`Authorised`), that a promotion is grounded that at the promotion
it ends with a success of the call (`Executed`), and that promotions continue each other that the
hand-kept state id is the replayed one until the batch returns (`Threaded`); the notes of earlier
effects stay true because they lie in the past of a log that only grows (`EffectsPast`).
`ContactInvariant` is the conjunction with types. Steps that add no revision share the lemma
`QuietStep`; `PromoteObservation` is on its own. From it: `EffectsAuthorised`, `RevisionsGrounded`, and
`GatewayImplementsEvolution`, for all calls, risks, answers, promotions and batches of any length,
whether the gateway is called directly or by contacts. What a contact tells its caller (`ContactsHonest`)
needs to know what the gateway does on its behalf (`UnderWay`): it runs the one call of the contact and no
other, records at most one result, at the end, and no contact in between. That the n-th contact on
record is the n-th that returned is kept by counting: both grow by a last position in one step
(`BeforeLast`). `ContactRecord` is the conjunction; from it `ContactsAlwaysHonest`.

**`LLMProposalProofs`.** Again the program counter hides what was decided: at `ReviseModel` the log ends
with the commitment and, if policy asked, with the approval before it (`ReadyToRevise`), which is what
`JudgedTwice` says of the revision once it is written; and the state id of a caller that passed the
replayed state stays the replayed one until the proposal is left (`Threaded`). `ProposalInvariant` is
the conjunction with types. From it, for all outputs of a model, providers and starts:
`ProposalsJudgedTwice`, `ProposalsReviseOnce`, and `ReplayedProposalsImplementEvolution`, which needs
that no caller leaves the state id at its default: with it, proposals are numbered from `ws_0`, as
plain plans are. What a proposal leaves on record as a whole is about entries that do not name their
proposal, so they are found by counting where proposals begin (`Begun`, `Written`); that the count never
falls behind (`Counted`) makes the entries of earlier proposals theirs for good. While one is under way,
the deltas with a commitment are those up to the index and nothing says it was processed
(`OpenOnRecord`), and the state at hand is the replayed one from its first revision on (`StateAtHand`).
`RecordInvariant` adds these to `ProposalInvariant`; from it: `ProposalsAlwaysSettled` and
`StateAlwaysChained`. `KnowledgeAlwaysKept` is about the contents that replay derives: of every kind of
delta it is shown what it leaves of anchors and memories (`OtherDeltas`, `EntityDeltas`,
`RevisionKeeps`). For that the world before must be `Sound`: nothing anchored twice, memories lists; a
list that is proposed has to be one, which the validation of proposals guarantees.

**The runtime (`RuntimeProofs`).** The runtime composes plans, gateway, runner, router and compiler over
one log, so its proof looks at every step twice, whoever takes it: what it adds to the log, with what
justifies each entry (`Adds`, `StepAdds`), and what it does to the runs (`RunsStep`: one begins, or more
of the last one is known). What was written by earlier runs stays theirs (`RunsInOrder`, `WrittenStep`).
On top of that, `ActionsFollowDeliberation` needs to know what the log hides while a run is under way:
before the deliberation nothing was done (`Undecided`), after it the last deliberation on record is the
decision the run works on, or in a chain limited to no steps the one made off the record (`Decided`).
`RevisionsJustified` needs `ReadyToRevise` of the plan at work and that at most one of plan and gateway
is at work (`Control`, `PlanOfRun`); `ChainWhereThreaded` needs that the count of a domain plan is the
replayed state (`PriorOfRun`), which holds because such a plan never has a call; `CompilerSettled` needs
that while a run waits for its compiler nothing was heard of it, and exactly one verdict later
(`CompilerHeard`, `DeliberationCompiled`). `RuntimeInvariant` is the conjunction. From it:
`ActionsAlwaysFollow`, `RevisionsAlwaysJustified`, `ChainAlwaysThreaded`, `CompilerAlwaysSettled`, for
all setups, tasks, plans, verdicts and any number of runs. Chains are a recursive function of at most
`MaxChainLength` links, which is unfolded (`DeliberateChainType`).

**The workflow (`FrontEndProofs`).** Every step of the runner is one of three things: it settles with a
result, it enters a handler or asks a model, or the run completes (`Settles`, `Enters`, `Completes`;
`StepKinds`), each with what it records. The log is about the runs so far, of the current one about the
steps so far (`Placed`), so that what is on record of earlier steps and runs stays what it is. That a
handler was allowed to run needs to know that while it runs the log ends with its entry
(`HandlerEntered`) and that nothing else is on record of the step; that a run that stops on errors fails
with its last step needs that no earlier one failed (`HonestSoFar`). That a run can be found again from
its results is about `VariablesAfter`, a recursive function of their number: that it has a value,
depends on no later result (`VariablesOfPrefix`) and is extended by one (`VariablesAfterNext`) is proved
from the well-foundedness of the numbers, by a least counterexample. `WorkflowInvariant` is the
conjunction. From it: `ToolRunsAlwaysAuthorised`, `OutcomesAlwaysHonest`, `BranchesAlwaysReproducible`,
for all workflows, conditions, runners, results of tools, choices of models and any number of runs. What
a condition evaluates to (`EvaluateCondition`) stays unopened: the theorem holds for every evaluation
that is a function of the condition and the variables.

**The web API (`FrontEndProofs`).** The three log files and the stored world state change by steps of
few kinds, whoever takes them: a log grows by one whole record, is left with a spoilt last line, or gets
its next record glued to that line and can never be loaded again (`FileStep`); the other files stay or
the world state is replaced or extended (`StoreStep`). That no log lies about what it holds
(`LogsWhole`) is nearly inductive by itself, from lemmas on what an append does to the contents of a file
(`AppendLeaves`, `ContentsAppended`, `WholeKept`). `WriteAhead` is not: it compares files that are
written one after the other, so `FilesInv` says of each what it may be behind (`EventsBehind`,
`CommitmentsBehind`, `RevisionsBehind`), that a commitment returned before its revision was put on a
line, whatever became of the file of either (`RevisionsCommitted`, `CommittedFirst`), that revisions of
commitment requests are stored in the order they were made in (`RevisionsOrdered`) and the world state
holds no other (`WorldRecorded`). `AheadInv` adds that the appends returned in that order, too
(`StoredOrdered`), and that if nothing was cut off a revision of a task that the world state holds is
stored or still on the list of its request (`TaskRecorded`, `Pending`). For the
events, `DeliveryInv` says where a subscriber that is on the list stands while the loop goes through it by
position: on the list once (`SubscribersOnce`), having heard nothing before it came (`NewHeardNothing`),
nothing of a task not begun (`UnbegunUnheard`), and of the event being sent only if it is before the
position of the loop (`AtRest`, `SentOnce`). `Only`, the part of a sequence that is wanted, is a
recursive function: that it exists, and what it is of a longer sequence, is again shown by a least
counterexample (`KeepingExists`, `OnlyOfAppended`, `OnlyPlaces`). From it: `LogsAlwaysWhole`,
`WritesAlwaysAhead`, `EventsAlwaysInOrder`, for any number of tasks, commitments, subscribers, failed and
torn writes and restarts.

**`CalibrationProofs`.** `CalibrationInv` adds to the two properties what they rest on: only the last
cycle can be under way (`OnlyLastRuns`, `UnderWay`), so that what is recorded now is its own; revisions
carry the number of a cycle there is (`RevisionsNumbered`) and what is counted of a completed cycle lies
in the past of the log (`EndsOnRecord`), so that later ones change nothing about it; and the state id
handed on by hand is what the log replays to, once the cycle has recorded a revision or if its caller
passed that state (`StateHandedOn`). The proposals of a cycle never change, so that a revision stays
that of one which the calibration policy let through (`LetThrough`). From it: `CalibrationNeverBypasses`
and `CalibrationAlwaysChained`, for all histories, providers and numbers of cycles.
`CalibrationNeverBlamesItself` is an action property: what a cycle writes is none of the entries that
patterns are made of. `AlwaysAppliedAsReplayed` compares the caller's state with the replay of what is
`Settled`, returned and applied, at all times: between cycles results may wait, and a cycle may raise
with revisions on record that never return. `AppliedInv` says that all that is settled precedes all that
still waits or belongs to the cycle under way (`Awaited`), so that applying what waits continues the
replay where it stands; the two sets of rules agree on one update at a time (`UpdatesAgree`), and so on
any number of them (`AppliedAgree`).

**`ExternalGatewayProofs`.** Requests and dispatches share nothing but the log, so each property has its
invariant. `RateInv`: the times kept are those of the requests that were let through in the last window
(`CallsKept`), which is why counting them decides as counting all of them would. `EffectsInv`: an
attempt under way belongs to an admitted request (`Underway`, `OfAdmitted`), and effects, records and
errors are counted with it until it is settled. Each way an attempt can end adds to one side of
`EffectsCounted` what it adds to the other (`CountedAttempt`), the numbers being those of places in the
log. `DispatchesInv`: the same for the webhook being told (`DispatchUnderway`) and the sets that are
counted are finite. From them: `RateAlwaysKept`, `EffectsAlwaysAccounted`, `DispatchesAlwaysAccounted`,
for any window, limit, number of attempts, requests, webhooks and dispatches.

**Memory (`KnowledgeProofs`).** Every property of `Memory` is about moments between the steps of an
operation, so the invariant is about the list of steps that are left, `todo`: what is begun is finished
next, a promotion and a deletion are on their own (`InOrder`). Every memory at hand, in the list too,
was allowed by the policy and has its approval on record, unless it is the one that the last step on the
list is to approve (`AllKnown`); store and file agree but for the memory that is being written or
deleted (`Matches`, `Held`); and while the index is completed, a memory that lacks its vector or its
place in the index is still to be indexed (`Completing`). That a rejected id is never used again needs
ids to be numbered in order (`Numbered`), for which the requests on record are counted. Steps that only
change the index share the lemma `Undisturbed`. `MemoryInvariant` is the conjunction;
`MemoriesAlwaysPromoted`, `StoreAlwaysMatches` and `IndexAlwaysBuilt` follow, for any number of
memories, failures and restarts and beside any use of documents.

**Reasoning (`KnowledgeProofs`).** The evidence graph, the simulated branches and the consultations of a
model share no variable, so each has its invariant. `EvidenceInv`: ids are numbers given out, edges join
nodes of the graph, and every step on record has its node; `EdgesAlwaysResolve` follows. That coverage is
the least set that holds the conclusion and what supports its members, with nothing in it twice
(`CoverageAlwaysCountsOnce`), is about a walk over the edges, a recursive function of the number of its
steps. `Walked` says of every moment of it what it has visited and has yet to visit, and that the
supporting edges not followed, plus what is to do, plus the steps taken never exceed the edges by more than
one, so that it ends. `ContradictionsNeverHelp` is an action property: it needs the range of every weight,
and what one more contradiction does to the rounded product. `SimulationInv` is about the last scenario,
`ConflictBlocks` the part that lasts: a branch only adds to the world it was forked from, so what
contradicts there still contradicts in the branch (`StillContradict`). From it `ScenariosAlwaysHonest` and
`ConflictsAlwaysStay`. `ConsultationsAlwaysAccounted` compares the log with what a caller got back:
`ModelInv` says what the log tells of one consultation while a request is with the model (`InProgress`,
`AskedOnLog`: one request of it is open) and once it returned (`Finished`, `DoneOnLog`), and that entries
name the consultation they belong to, so that the later ones change nothing of it.

**The router (`RuntimeProofs`).** The router is monotone for every configuration whose risk scores do
not increase with risk, with no condition on the order of its thresholds (`RouterIsMonotone`,
`ImprovementsKeepAuto`), and two poor signals block it (`TwoPoorSignalsBlock`), for all percentages.

## 7. Only model-checked, and not modelled

Left to TLC: all liveness (`PlanEnds`, `RunReturns`), and what folds compute of all data, which is out of
the proof system's reach: that documents are cut without loss (`ChunksCoverText`), and `Conditions`.

Not modelled, because they compute from what is there and change nothing anybody depends on: wording and
layout of reports, prompts, tables and narration; context restoration; quality metrics, handoff
validation, run artifacts and approval packets; experiments and counters; ranking and scores of searches
and hypotheses; read-only requests of the web API. Not modelled, because they are foreign: LLM clients
and their transports, embedding providers (their answers are choices). Not modelled, though they change
state: `revise_from_commitment` except for its use in the web API (without contents), import of exported
logs, calibration over the web API (it runs over an empty log, `web_api.py:452`), the verification cycle
of hypotheses and the change test. `src/experiments` holds scripts, not parts of the engine.
`PROJECT.json` names every component with its reason.

## 8. Findings and observations

**Finding** (`replay_fails`): a hypothesis that is updated without a confidence, or removed, makes every
later replay of the log raise (`event_log.py:134`, `150`), although replay is promised.

What the models show besides; where a property says less than a reader expects, this is why.

*Runtime and gateway.* With `max_chain_steps=0` a chain has no steps and the run acts all the same, on a
deliberation that is not put on record (`runtime.py:292`). A plan with a tool call left to the read-only
runner is judged without the domain overlay (`runtime.py:211`). With a gateway, the deltas of such a
plan are never judged, and the run raises after the tool has acted (`runtime.py:199`). The gateway's
timeout is stored and never used (`tool_gateway.py:274`). A run routed to `needs_more_evidence` goes on
as if it was not: only `needs_human_review` has a consequence (`runtime.py:409`). The ids of resulting
states are not increasing where plain plans and gateway batches share a log. A chain never runs the tool
its earlier steps requested (`deliberation.py:238`).

*World state.* A discarded hypothesis becomes a `hypothesis_remove` in the log (`revision.py:84`), which
replay cannot apply; strengthening one is not replayed at all.

*Workflow.* A failed run leaves no terminal event, and one that does not stop on errors reports
success. The sandbox says it enforces timeouts (`tool_executor.py:74`) and does not.

*Calibration.* Proposals a cycle generates by itself never change the self model. A forbidden word in
the first word of an action summary vetoes the calibration that mentions it. Ids start again in every
cycle. If a provider raises, revisions made before stay on record and the caller never applies them.
Replay does not clip reliability. Earlier calibration commitments are counted by the second version.

*Memory.* A `state_diff` that json cannot write passes the policy (`memory_promotion.py:167` writes it
with `default=str`), is stored, and leaves a torn file; building the index then raises until the
process restarts. A crash while a memory is rewritten with its vector loses it, though its approval is on
record. An object indexed after its memory was deleted brings it back. Indexing a document again leaves its
old chunks findable, even after the document is deleted; an indexing that raises leaves chunks no
document names. The overlap counts its spaces by hand (`contextualizer.py:45` and `:165`), so that with
long sentences chunks grow without bound: sentences of 182 characters give chunks of 363, 545, ...,
2183. `chunk_overlap` is stored and never read; the context of a chunk is made of the first
sentences, not the nearest; the last resort for splitting a sentence is never reached.

*External.* A request whose answer was lost or unreadable is sent again, also if it was no read. Retries
are not rate limited; lost attempts are not in the log. A 2xx with an unreadable body is logged as 200,
counted as an error and tried again; after the last attempt the request is reported as failed, though
its last answer on record is good (`external_gateway.py:186`, `195`). So a success has a good answer on
record, and a good answer need not mean a success; `EffectsAccounted` counts the exceptions. A request
for which the HTTP library is missing counts as a call. Deliveries before a sender raised are counted
and not logged. The error rate can exceed 1.

*Reasoning.* Steps that name themselves make self-loops; edges to unknown or later steps are dropped
silently. Contradictions of a conclusion without support are ignored (`evidence_graph.py:258`). Coverage
counts the conclusion itself and so never reaches 1. Weak support lowers confidence. A branch
ignores removals, anchors and relations, so a state in conflict blocks every branch; a delta that
requires approval counts as allowed. A hypothesis that repeats an anchored fact is taken to contradict it
(`simulation.py:139`). Simulating a rejected hypothesis revives it.

*Model steps and plans.* A request that fails after the first step leaves a chain that ends with no
terminal step, although `ReasoningChain` says it "terminates" with one; with the fallback off, a first
request that fails gives an empty chain and no exception (`llm_deliberation.py:265`). The chain of the
fallback is one step of the engine, not its chain, and may stop at a request for a tool. A plan is made
even if the model chose to stop, and one that the model makes ignores the step passed. An exception that
is no `RuntimeError` leaves its request open on record.

*Storage and web API.* A torn line makes the whole file unloadable, and the next record is glued to it
although its append reports success. If that happens to the file of commitments, loading them raises
while the revisions, recorded after them, may still load: what holds is that the append of the
commitment had returned, not that it can be read. A task saves its world state before its commitments
and revisions (`web_api.py:353`, `361`), and errors of either are only logged, so that after a failed
write or a stop the world state on file may hold what no revision accounts for. A request for a
commitment cannot say how far its act is reversible, so that every `act` is refused (`web_api.py:594`).
A task replaces the world state that commitments built (`web_api.py:353`), so the stored state is not
what the stored revisions replay to; `WriteAhead` is what holds. A subscriber taken off the list during
a broadcast makes the loop skip the next one (`web_api.py:108`). `_rebuild_event_log_from_artifact`
names an undefined `Event` (`web_api.py:159`). The command line's import has no store and restores
nothing (`cli.py:390`).
