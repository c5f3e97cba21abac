------------------------------ MODULE Calibration ------------------------------
(***************************************************************************)
(* The slow beat of the engine: a calibration cycle looks at the whole     *)
(* record, derives proposals about the self model from it, judges each by  *)
(* the calibration policy, the delta policy and an approval provider, and  *)
(* records what it decided in the same record.  The caller applies the     *)
(* revisions of a cycle to the state it holds.  Cycles and the work of the *)
(* rest of the engine share one event log.                                 *)
(***************************************************************************)
EXTENDS FiniteSets, DeltaPolicy, WorldReplay

CONSTANTS
  Targets,      \* the first words of the action summaries of commitments
  Forbidden,    \* those of them in which a forbidden pattern occurs
  Providers,    \* the approval providers a caller may pass
  Starts,       \* the state ids a caller may pass: "default", "replayed"
  Given,        \* self updates that callers apply on their own
  Histories,    \* what the rest of the engine may have recorded at first
  Entries,      \* what it may record later
  MaxWork,      \* bound on how often it does
  MaxGiven,     \* bound on the updates of callers
  MaxCycles     \* bound on the cycles over the log

\* "gate": the legacy cycle (run_calibration_cycle), else the cycle proper.
CalibrationProviders == {"none", "answers", "raises", "gate"}
Verdicts == {"approved", "rejected"}

Commitment(target, success, requires_approval) ==
  [target |-> target, success |-> success, requires_approval |-> requires_approval,
   type |-> "commitment"]
Approval(verdict) == [type |-> "approval", verdict |-> verdict]
Redirect == [type |-> "redirect"]
Revision(cycle, prior, delta) ==
  [type |-> "revision", cycle |-> cycle, prior |-> prior, result |-> prior + 1,
   deltas |-> <<delta>>]
Started == [type |-> "started"]
Rejected == [type |-> "rejected"]
Completed(count) == [type |-> "completed", approved |-> count]

\* What the rest of the engine records: commitments, approvals and redirects.
Recorded ==
  [type : {"commitment"}, target : Targets, success : BOOLEAN,
   requires_approval : BOOLEAN]
  \cup [type : {"approval"}, verdict : Verdicts]
  \cup {Redirect}

ASSUME CalibrationAssumption ==
  /\ "self_update" \in Targets
  /\ Forbidden \subseteq Targets
  /\ Providers \subseteq CalibrationProviders
  /\ Histories \subseteq Seq(Recorded) /\ Entries \subseteq Recorded
  /\ Starts \subseteq {"default", "replayed"}
  /\ \A delta \in Given : delta.kind = "self_update"
  /\ MaxWork \in Nat /\ MaxGiven \in Nat /\ MaxCycles \in Nat

VARIABLES
  log,      \* the event log, oldest entry first
  work,     \* the entries of others since the history
  cycles,   \* the cycles so far, the current one last
  kpc,      \* where run_calibration_cycle_v2 stands
  index,    \* the proposal under consideration
  state_id, \* n for the state id "ws_n" the next revision starts from
  pending,  \* the revisions returned to the caller and not applied yet, by
            \* their positions in the log
  world     \* the state the caller holds

calibrationVars == <<log, work, cycles, kpc, index, state_id, pending, world>>

--------------------------------------------------------------------------------
(***************************************************************************)
(* Observation (self_observation).  No event carries the confidence of a   *)
(* belief, so that what depends on it never shows.                         *)
(***************************************************************************)
Count(entries, P(_)) == Cardinality({n \in DOMAIN entries : P(entries[n])})

IsDenied(e) == e.type = "commitment" /\ ~e.success /\ ~e.requires_approval
IsAllowed(e) == e.type = "commitment" /\ e.success /\ ~e.requires_approval
IsEscalated(e) == e.type = "commitment" /\ e.requires_approval

SectionOutcomes(entries, target) ==
  [allow |-> Count(entries, LAMBDA e : IsAllowed(e) /\ e.target = target),
   deny |-> Count(entries, LAMBDA e : IsDenied(e) /\ e.target = target),
   requires_approval |->
     Count(entries, LAMBDA e : IsEscalated(e) /\ e.target = target)]

ExtractBehavioralSnapshot(entries) ==
  [total |-> Count(entries, LAMBDA e : e.type = "commitment"),
   denied |-> Count(entries, IsDenied),
   decided |-> Count(entries, LAMBDA e : e.type = "approval"),
   redirects |-> Count(entries, LAMBDA e : e.type = "redirect"),
   outcomes |-> [target \in Targets |-> SectionOutcomes(entries, target)]]

\* count / total is more than tenths / 10; false if there is nothing.
RateAbove(count, total, tenths) == 10 * count > tenths * total

SectionsDenied(snapshot) ==
  {t \in Targets : LET of == snapshot.outcomes[t]
                   IN  RateAbove(of.deny, of.allow + of.deny + of.requires_approval, 5)}

SectionsAtRisk(snapshot) ==
  {t \in Targets : snapshot.outcomes[t].deny + snapshot.outcomes[t].requires_approval > 0}

\* The failure patterns, each by what it is about.
ExtractFailurePatterns(snapshot) ==
  (IF RateAbove(snapshot.denied, snapshot.total, 3) THEN {"denials"} ELSE {})
  \cup (IF snapshot.redirects > 2 THEN {"redirects"} ELSE {})
  \cup SectionsDenied(snapshot)

\* reflect_and_redirect, by the signals it rests on.
RedirectSignals(snapshot) ==
  (IF RateAbove(snapshot.denied, snapshot.total, 4) THEN {"denials"} ELSE {})
  \cup (IF snapshot.redirects >= 3 THEN {"redirects"} ELSE {})

(***************************************************************************)
(* A proposal, by its key and by the targets its value mentions.  All are  *)
(* about "self_model" and carry evidence.                                  *)
(***************************************************************************)
Proposal(key, mentions) == [key |-> key, mentions |-> mentions]

ProposeSelfModelCalibration(snapshot) ==
  (IF ExtractFailurePatterns(snapshot) # {}
   THEN <<Proposal("observed_failure_patterns", SectionsDenied(snapshot))>> ELSE <<>>)
  \o (IF snapshot.total + snapshot.decided > 0
      THEN <<Proposal("observed_success_metrics", {})>> ELSE <<>>)
  \o (IF SectionsAtRisk(snapshot) # {}
      THEN <<Proposal("section_risk_profile", SectionsAtRisk(snapshot))>> ELSE <<>>)

\* CalibrationPolicy of the caller, else DefaultCalibrationPolicy, whose other
\* rules (forbidden keys, missing evidence, reliability bounds) no proposal of
\* the above can violate.
CalibrationAllowed(proposal) == proposal.mentions \cap Forbidden = {}

\* calibration_proposal_to_delta.  The value is a dictionary of observations.
ProposalDelta(proposal) ==
  Delta("self_update", "self_model", proposal.key, "observed",
        [tag |-> "observations"])

DeltaDecision == EvaluateDeltaPolicy([kind |-> "self_update", root |-> "self_model"])

--------------------------------------------------------------------------------
InitialWorld == [EmptyWorld EXCEPT !.reliability = 50]  \* in percent, here

CalibrationInit ==
  /\ log \in Histories
  /\ cycles = <<>>
  /\ work = 0
  /\ kpc = "idle"
  /\ index = 1
  /\ state_id = 0
  /\ pending = {}
  /\ world = InitialWorld

\* The rest of the engine commits, is asked for approval, redirects a task.
Work(entry) ==
  /\ kpc = "idle"
  /\ work < MaxWork
  /\ work' = work + 1
  /\ log' = Append(log, entry)
  /\ UNCHANGED <<cycles, kpc, index, state_id, pending, world>>

Current == cycles[Len(cycles)]
ThisProposal == Current.proposals[index]

Cycle(provider, replayed, proposals, from, upto, status) ==
  [provider |-> provider, replayed |-> replayed, proposals |-> proposals,
   from |-> from, upto |-> upto, status |-> status]

EndCycle(status) ==
  /\ kpc' = "idle"
  /\ cycles' = [cycles EXCEPT ![Len(cycles)].status = status,
                              ![Len(cycles)].upto = Len(log')]

\* run_calibration_cycle_v2, up to its loop.
StartCycle(provider, replayed) ==
  LET proposals == ProposeSelfModelCalibration(ExtractBehavioralSnapshot(log))
      empty == proposals = <<>>
  IN  /\ kpc = "idle" /\ Len(cycles) < MaxCycles
      /\ provider # "gate"
      /\ state_id' = IF replayed THEN ReplayedState(log) ELSE 0
      /\ log' = log \o (IF empty THEN <<Started, Completed(0)>> ELSE <<Started>>)
      /\ cycles' = Append(cycles, Cycle(provider, replayed, proposals, Len(log) + 1,
                                        Len(log'), IF empty THEN "completed" ELSE "running"))
      /\ kpc' = IF empty THEN "idle" ELSE "proposal"
      /\ index' = 1
      /\ UNCHANGED <<work, pending, world>>

AtProposal == kpc = "proposal" /\ index <= Len(Current.proposals)

RejectProposal ==
  /\ AtProposal
  /\ ~CalibrationAllowed(ThisProposal)
  /\ log' = Append(log, Rejected)
  /\ index' = index + 1
  /\ UNCHANGED <<work, cycles, kpc, state_id, pending, world>>

\* Defect: a proposal that is turned down counts as denied, not as escalated.
RecordDecisionAsDenial(verdict) ==
  LET allowed == verdict = "approved"
      revision == Revision(Len(cycles), state_id, ProposalDelta(ThisProposal))
  IN  /\ log' = log \o <<Approval(verdict), Commitment("self_update", allowed, allowed)>>
                     \o (IF allowed THEN <<revision>> ELSE <<>>)
      /\ state_id' = IF allowed THEN state_id + 1 ELSE state_id

\* Defect: a decision taken before stands in for one that is not there.
RecordDecisionRegardless(verdict) ==
  LET revision == Revision(Len(cycles), state_id, ProposalDelta(ThisProposal))
  IN  /\ log' = log \o <<Approval(verdict), Commitment("self_update", TRUE, TRUE), revision>>
      /\ state_id' = state_id + 1

\* Defect: the state id is not handed on.
RecordDecisionKeepsState(verdict) ==
  LET allowed == verdict = "approved"
      revision == Revision(Len(cycles), state_id, ProposalDelta(ThisProposal))
  IN  /\ log' = log \o <<Approval(verdict), Commitment("self_update", allowed, TRUE)>>
                     \o (IF allowed THEN <<revision>> ELSE <<>>)
      /\ UNCHANGED state_id

\* The decision, the commitment and, if approved, the revision of a proposal.
RecordDecision(verdict) ==
  LET allowed == verdict = "approved"
      revision == Revision(Len(cycles), state_id, ProposalDelta(ThisProposal))
  IN  /\ log' = log \o <<Approval(verdict), Commitment("self_update", allowed, TRUE)>>
                     \o (IF allowed THEN <<revision>> ELSE <<>>)
      /\ state_id' = IF allowed THEN state_id + 1 ELSE state_id

\* Defect: the decision is asked for whatever the calibration policy said.
DecideProposalUnchecked(verdict) ==
  /\ AtProposal
  /\ DeltaDecision.requires_approval
  /\ Current.provider \in {"none", "answers"}
  /\ Current.provider = "none" => verdict = "rejected"
  /\ RecordDecision(verdict)
  /\ index' = index + 1
  /\ UNCHANGED <<work, cycles, kpc, pending, world>>

\* Without a provider, a request is turned down by the cycle itself.
DecideProposal(verdict) ==
  /\ AtProposal
  /\ CalibrationAllowed(ThisProposal)
  /\ DeltaDecision.requires_approval
  /\ Current.provider \in {"none", "answers"}
  /\ Current.provider = "none" => verdict = "rejected"
  /\ RecordDecision(verdict)
  /\ index' = index + 1
  /\ UNCHANGED <<work, cycles, kpc, pending, world>>

\* The provider raises, now or after it has answered: the cycle is left with
\* no result, and what it has recorded stays.
AskRaises ==
  /\ AtProposal
  /\ CalibrationAllowed(ThisProposal)
  /\ Current.provider = "raises"
  /\ UNCHANGED <<work, log, index, state_id, pending, world>>
  /\ EndCycle("raised")

AskAnswers(verdict) ==
  /\ AtProposal
  /\ CalibrationAllowed(ThisProposal)
  /\ Current.provider = "raises"
  /\ RecordDecision(verdict)
  /\ index' = index + 1
  /\ UNCHANGED <<work, cycles, kpc, pending, world>>

RevisionsOf(c) == {n \in RevisionsIn(log) : log[n].cycle = c}

RevisionCount(c) == Cardinality(RevisionsOf(c))

FinishCycle ==
  /\ kpc = "proposal"
  /\ index > Len(Current.proposals)
  /\ log' = Append(log, Completed(RevisionCount(Len(cycles))))
  /\ EndCycle("completed")
  /\ pending' = pending \cup RevisionsOf(Len(cycles))
  /\ UNCHANGED <<work, index, state_id, world>>

(***************************************************************************)
(* The legacy cycle commits to every proposal without success, puts them to*)
(* the gate, if there is one, and leaves the rest to its caller.  The gate  *)
(* of its callers approves everything.                                     *)
(***************************************************************************)
RunLegacyCycle(verdicts) ==
  LET proposals == ProposeSelfModelCalibration(ExtractBehavioralSnapshot(log))
  IN  /\ kpc = "idle" /\ Len(cycles) < MaxCycles
      /\ "gate" \in Providers
      /\ log' = log \o [n \in DOMAIN proposals |-> Commitment("self_update", FALSE, TRUE)]
                     \o [n \in 1..(Len(proposals) * Cardinality(verdicts)) |->
                          Approval(CHOOSE verdict \in verdicts : TRUE)]
      /\ cycles' = Append(cycles, Cycle("gate", FALSE, proposals, Len(log) + 1,
                                        Len(log'), "completed"))
      /\ UNCHANGED <<work, kpc, index, state_id, pending, world>>

--------------------------------------------------------------------------------
(***************************************************************************)
(* apply_calibration_to_world_state: rules of its own, not those of replay.*)
(* A description ("model") may carry capabilities and limits.              *)
(***************************************************************************)
Model(capabilities, limits) ==
  [tag |-> "model", capabilities |-> capabilities, limits |-> limits]

MinReliability == 10
MaxReliability == 95
Bounded(n) ==
  IF n < MinReliability THEN MinReliability
  ELSE IF n > MaxReliability THEN MaxReliability ELSE n

ApplySelfUpdate(w, delta) ==
  LET raw == delta.raw
  IN  CASE delta.key = "capabilities" /\ raw.tag = "list" ->
             [w EXCEPT !.capabilities = raw.of]
        [] delta.key = "limits" /\ raw.tag = "list" -> [w EXCEPT !.limits = raw.of]
        [] delta.key = "reliability" /\ raw.tag = "number" ->
             [w EXCEPT !.reliability = Bounded(raw.of)]
        [] raw.tag = "model" ->
             [w EXCEPT !.capabilities = Or(raw.capabilities, @),
                       !.limits = Or(raw.limits, @)]
        [] OTHER -> w

\* Defect: a revision is applied only if the state is the one it starts from.
ApplyRevisionInSequence(w, revision) ==
  LET deltas == revision.deltas
      applied[n \in 0..Len(deltas)] ==
        IF n = 0 THEN w ELSE ApplySelfUpdate(applied[n - 1], deltas[n])
  IN  IF w.id # revision.prior THEN w
      ELSE [applied[Len(deltas)] EXCEPT !.id = revision.result]

ApplyRevision(w, revision) ==
  LET deltas == revision.deltas
      applied[n \in 0..Len(deltas)] ==
        IF n = 0 THEN w ELSE ApplySelfUpdate(applied[n - 1], deltas[n])
  IN  [applied[Len(deltas)] EXCEPT !.id = revision.result]

\* The revisions of a result are applied one after the other.
ApplyRevisions(initial, entries, revisions) ==
  LET applied[n \in 0..Len(entries)] ==
        IF n = 0 THEN initial
        ELSE IF n \in revisions THEN ApplyRevision(applied[n - 1], entries[n])
        ELSE applied[n - 1]
  IN  applied[Len(entries)]

ApplyResult ==
  /\ kpc = "idle"
  /\ pending # {}
  /\ world' = ApplyRevisions(world, log, pending)
  /\ pending' = {}
  /\ UNCHANGED <<work, log, cycles, kpc, index, state_id>>

\* A caller records and applies a self update that no cycle proposed.
ApplyGiven(delta) ==
  LET revision == Revision(0, ReplayedState(log), delta)
  IN  /\ kpc = "idle" /\ pending = {}
      /\ RevisionCount(0) < MaxGiven
      /\ log' = Append(log, revision)
      /\ world' = ApplyRevision(world, revision)
      /\ UNCHANGED <<work, cycles, kpc, index, state_id, pending>>

CycleStep ==
  \/ RejectProposal
  \/ \E verdict \in Verdicts : DecideProposal(verdict) \/ AskAnswers(verdict)
  \/ AskRaises
  \/ FinishCycle

CycleStart ==
  \/ \E provider \in Providers, start \in Starts :
       StartCycle(provider, start = "replayed")
  \/ \E verdicts \in {{}, {"approved"}} : RunLegacyCycle(verdicts)

CalibrationNext ==
  \/ \E entry \in Entries : Work(entry)
  \/ CycleStart
  \/ CycleStep
  \/ ApplyResult
  \/ \E delta \in Given : ApplyGiven(delta)

CalibrationSpec == CalibrationInit /\ [][CalibrationNext]_calibrationVars

--------------------------------------------------------------------------------
\* These deltas are what the calibration policy let through of the cycle.
LetThrough(cycle, deltas) ==
  \E k \in DOMAIN cycle.proposals :
    /\ CalibrationAllowed(cycle.proposals[k])
    /\ deltas = <<ProposalDelta(cycle.proposals[k])>>

(***************************************************************************)
(* "Calibration never bypasses the policy pipeline": a revision of a cycle *)
(* is that of one of its proposals which the calibration policy let        *)
(* through; it directly follows an approval and a successful commitment of *)
(* this cycle (their ids repeat from cycle to cycle, so that an earlier    *)
(* approval is easily taken for it), in a cycle whose provider could give  *)
(* it, and the completion reports as many.                                 *)
(***************************************************************************)
CalibrationAuthorised ==
  /\ \A n \in RevisionsIn(log) :
       log[n].cycle # 0 =>
         /\ n > 2
         /\ log[n - 1] = Commitment("self_update", TRUE, TRUE)
         /\ log[n - 2] = Approval("approved")
         /\ cycles[log[n].cycle].from < n - 2
         /\ cycles[log[n].cycle].provider \in {"answers", "raises"}
         /\ LetThrough(cycles[log[n].cycle], log[n].deltas)
  /\ \A c \in DOMAIN cycles :
       cycles[c].status = "completed" /\ cycles[c].provider # "gate" =>
         log[cycles[c].upto] = Completed(RevisionCount(c))

\* Revisions of a cycle do not jump, nor does its first if the caller passed
\* the replayed state, whatever was rejected or turned down in between.
CalibrationChain ==
  \A n \in RevisionsIn(log) :
    log[n].cycle # 0 =>
      LET cycle == cycles[log[n].cycle]
          first == \A m \in RevisionsIn(log) : m < n => log[m].cycle # log[n].cycle
      IN  log[n].prior = IF first /\ ~cycle.replayed THEN 0 ELSE ReplayedAt(log, n - 1)

Returned ==
  {n \in RevisionsIn(log) :
     log[n].cycle # 0 => cycles[log[n].cycle].status = "completed"}

(***************************************************************************)
(* The caller's state is what replay makes of the revisions of the cycles  *)
(* that returned, although it is computed by other rules: the self model   *)
(* differs at most by the bounds on reliability, which replay does not     *)
(* know, and by updates given as a description, which replay skips.        *)
(***************************************************************************)
AppliedAsReplayed ==
  kpc = "idle" /\ pending = {} =>
    LET replayed == ReplayWorld(InitialWorld, log, Returned)
        described == \E n \in Returned : log[n].deltas[1].raw.tag = "model"
        live == IF described
                THEN [world EXCEPT !.capabilities = replayed.capabilities,
                                   !.limits = replayed.limits]
                ELSE world
    IN  live = [replayed EXCEPT !.reliability = Bounded(@)]

Patterns(entries) == ExtractFailurePatterns(ExtractBehavioralSnapshot(entries))

(***************************************************************************)
(* What a cycle records becomes evidence for the next one, but never makes *)
(* a failure of the engine out of proposals that were turned down: only    *)
(* other work adds a failure pattern.  And where reflection would give up  *)
(* on a direction, the pattern it sees is one calibration would record.    *)
(***************************************************************************)
NoSelfBlame ==
  [][/\ ~(\E entry \in Entries : Work(entry)) => Patterns(log') \subseteq Patterns(log)
     /\ RedirectSignals(ExtractBehavioralSnapshot(log')) \subseteq Patterns(log')
    ]_calibrationVars

================================================================================
