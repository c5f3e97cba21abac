------------------------------ MODULE LLMProposal ------------------------------
(***************************************************************************)
(* Proposals of a language model: parsed and validated as a whole, judged  *)
(* delta by delta by the delta policy, the approval provider and the       *)
(* revision policy, and recorded in the event log.  Nothing is applied: the*)
(* world is what replay makes of the record.                               *)
(***************************************************************************)
EXTENDS FiniteSets, DeltaPolicy, WorldReplay

CONSTANTS
  Proposals,     \* the outputs a model may give, as parsed
  Providers,     \* the approval providers a caller may pass
  Starts,        \* the state ids a caller may pass: "default", "replayed"
  MaxProposals   \* bound on the proposals processed over the log

(***************************************************************************)
(* "none": no provider, which counts as a rejection.  "answers": static or *)
(* interactive.  "raises": a callback provider, which cannot be asked about*)
(* deltas.                                                                 *)
(***************************************************************************)
ProviderKinds == {"none", "answers", "raises"}
Verdicts == {"approved", "rejected"}

\* A patch the model proposes.  Its rationale may be left out ("stated": a
\* default takes its place), be blank, or be no text at all ("null").
Patch(section, key, op, value, rationale) ==
  [section |-> section, key |-> key, op |-> op, value |-> value,
   rationale |-> rationale]

(***************************************************************************)
(* clean: the output is a JSON object without forbidden fields.  calls: the*)
(* risks the registry given to propose_from_llm knows the tools called by  *)
(* (all "unknown", and so denied, if it is given none).  checked: parsing  *)
(* had the registry.                                                       *)
(***************************************************************************)
ASSUME ProposalAssumption ==
  /\ \A p \in Proposals :
       /\ DOMAIN p = {"clean", "patches", "calls", "checked"}
       /\ p.clean \in BOOLEAN /\ p.checked \in BOOLEAN
       /\ p.calls \in Seq(ToolRisk)
       /\ p.patches \in Seq({p.patches[n] : n \in DOMAIN p.patches})
       /\ \A n \in DOMAIN p.patches :
            /\ p.patches[n].section \in RefRoot \cup {""}
            /\ p.patches[n].rationale \in {"stated", "blank", "null"}
            /\ p.patches[n].value.tag = "list" =>
                 LET items == p.patches[n].value.of
                 IN  items \in Seq({items[m] : m \in DOMAIN items})
  /\ Providers \subseteq ProviderKinds
  /\ Starts \subseteq {"default", "replayed"}
  /\ MaxProposals \in Nat

VARIABLES
  log,        \* the event log, oldest entry first
  proposals,  \* the proposals received so far, each with provider and start
  lpc,        \* where propose_from_llm stands
  index,      \* the delta, later the tool call, under consideration
  state_id    \* n for the state_id "ws_n" the next revision starts from

proposalVars == <<log, proposals, lpc, index, state_id>>

ValidPatchOps == {"set", "append", "merge", "delete"}

WellFormed(patch) ==
  /\ patch.section # ""
  /\ patch.key # ""
  /\ patch.op \in ValidPatchOps

\* One malformed patch, one unknown tool, and the whole proposal is invalid.
IsValid(proposal) ==
  /\ proposal.clean
  /\ \A n \in DOMAIN proposal.patches : WellFormed(proposal.patches[n])
  /\ proposal.checked =>
       \A n \in DOMAIN proposal.calls : proposal.calls[n] # "unknown"

SectionKeyToTargetKind(section, key) ==
  CASE section = "goals" -> "goal_update"
    [] section = "self_model" -> "self_update"
    [] section = "beliefs" /\ key = "hypotheses" -> "hypothesis_update"
    [] section = "beliefs" /\ key = "anchored_facts" -> "anchor_add"
    [] OTHER -> "entity_update"

\* The op is validated and then forgotten: every patch is a value to set.
CandidateDelta(patch) ==
  Delta(SectionKeyToTargetKind(patch.section, patch.key), patch.section, patch.key,
        IF patch.value.tag = "text" THEN patch.value.of
        ELSE IF patch.value = NoValue THEN "null" ELSE "value",
        patch.value)

current == proposals[Len(proposals)]
patches == current.proposal.patches
delta == CandidateDelta(patches[index])
thisId == [proposal |-> Len(proposals), index |-> index]

ReplayedWorld(entries) ==
  ReplayWorld(EmptyWorld, entries, RevisionsIn(entries))

ProposalInit ==
  /\ log = <<>>
  /\ proposals = <<>>
  /\ lpc = "idle"
  /\ index = 1
  /\ state_id = 0

\* Defect: proposals are taken on whether they are valid or not.
ReceiveProposalUnchecked(proposal, provider, start) ==
  /\ lpc = "idle"
  /\ Len(proposals) < MaxProposals
  /\ start = "replayed" => ReplayedWorld(log).ok
  /\ proposals' = Append(proposals,
       [proposal |-> proposal, provider |-> provider,
        replayed |-> start = "replayed"])
  /\ state_id' = IF start = "replayed" THEN ReplayedState(log) ELSE 0
  /\ index' = 1
  /\ log' = Append(log, [type |-> "received"])
  /\ lpc' = "delta"

(***************************************************************************)
(* propose_from_llm is called with the parsed proposal: an invalid one is  *)
(* rejected as a whole.                                                    *)
(***************************************************************************)
ReceiveProposal(proposal, provider, start) ==
  /\ lpc = "idle"
  /\ Len(proposals) < MaxProposals
  /\ start = "replayed" => ReplayedWorld(log).ok
  /\ proposals' = Append(proposals,
       [proposal |-> proposal, provider |-> provider,
        replayed |-> start = "replayed"])
  /\ state_id' = IF start = "replayed" THEN ReplayedState(log) ELSE 0
  /\ index' = 1
  /\ IF IsValid(proposal)
     THEN log' = Append(log, [type |-> "received"]) /\ lpc' = "delta"
     ELSE /\ log' = log \o <<[type |-> "received"], [type |-> "rejected"]>>
          /\ lpc' = "idle"

Commitment(success) == [type |-> "commitment", id |-> thisId, success |-> success]
Decision(verdict) == [type |-> "approval", verdict |-> verdict]

\* The commitment goes on record; what is allowed goes on to its revision.
Commit(entries, allowed) ==
  /\ log' = log \o entries \o <<Commitment(allowed)>>
  /\ IF allowed THEN lpc' = "revise" /\ UNCHANGED index
     ELSE index' = index + 1 /\ UNCHANGED lpc
  /\ UNCHANGED <<proposals, state_id>>

AtDelta == lpc = "delta" /\ index <= Len(patches)
Asks == EvaluateDeltaPolicy(delta).requires_approval

JudgeDelta ==
  /\ AtDelta
  /\ ~Asks
  /\ Commit(<<>>, EvaluateDeltaPolicy(delta).allowed)

\* The provider decides about the delta; the decision is recorded first.
DecideDelta(verdict) ==
  /\ AtDelta
  /\ Asks
  /\ current.provider # "raises"
  /\ current.provider = "none" => verdict = "rejected"
  /\ Commit(<<Decision(verdict)>>, verdict = "approved")

\* Asking raises, and the exception leaves the proposal half processed.
AskRaises ==
  /\ \/ AtDelta /\ Asks
     \/ /\ lpc = "calls"
        /\ index <= Len(current.proposal.calls)
        /\ EvaluateToolCallPolicy(current.proposal.calls[index]) = "requires_approval"
  /\ current.provider = "raises"
  /\ lpc' = "idle"
  /\ UNCHANGED <<log, proposals, index, state_id>>

(***************************************************************************)
(* The revision policy is given an empty state: of its rules, that a fact  *)
(* may not be anchored twice never applies, and one needs a justification. *)
(***************************************************************************)
RevisionAllowed(justification, anchored) ==
  justification # "blank"
  /\ ~(delta.kind = "anchor_add" /\ \E n \in DOMAIN anchored : anchored[n] = delta.after)

Revision ==
  [type |-> "revision", cause |-> thisId, prior |-> state_id,
   result |-> state_id + 1, deltas |-> <<delta>>]

\* Defect: the next revision of the proposal starts where this one did.
ReviseModelKeepsState ==
  /\ lpc = "revise"
  /\ patches[index].rationale # "null"
  /\ RevisionAllowed(patches[index].rationale, EmptyWorld.anchors)
  /\ log' = Append(log, Revision)
  /\ index' = index + 1
  /\ lpc' = "delta"
  /\ UNCHANGED <<proposals, state_id>>

ReviseModel ==
  /\ lpc = "revise"
  /\ patches[index].rationale # "null"
  /\ RevisionAllowed(patches[index].rationale, EmptyWorld.anchors)
  /\ log' = Append(log, Revision)
  /\ state_id' = state_id + 1
  /\ index' = index + 1
  /\ lpc' = "delta"
  /\ UNCHANGED proposals

\* The commitment on record keeps its success, the returned copy does not.
RevisionRejected ==
  /\ lpc = "revise"
  /\ patches[index].rationale # "null"
  /\ ~RevisionAllowed(patches[index].rationale, EmptyWorld.anchors)
  /\ log' = Append(log, [type |-> "revision_rejected", id |-> thisId])
  /\ index' = index + 1
  /\ lpc' = "delta"
  /\ UNCHANGED <<proposals, state_id>>

\* A rationale that is no text cannot be stripped: the call raises.
RevisionPolicyRaises ==
  /\ lpc = "revise"
  /\ patches[index].rationale = "null"
  /\ lpc' = "idle"
  /\ UNCHANGED <<log, proposals, index, state_id>>

DeltasDone ==
  /\ lpc = "delta"
  /\ index > Len(patches)
  /\ index' = 1
  /\ lpc' = "calls"
  /\ UNCHANGED <<log, proposals, state_id>>

\* Tool calls are judged and recorded, never run.
EvaluateCall(verdict) ==
  /\ lpc = "calls"
  /\ index <= Len(current.proposal.calls)
  /\ LET judged == EvaluateToolCallPolicy(current.proposal.calls[index])
         evaluated(allowed) ==
           [type |-> "tool_call", id |-> thisId, verdict |-> judged,
            allowed |-> allowed]
     IN  IF judged = "requires_approval"
         THEN /\ current.provider # "raises"
              /\ current.provider = "none" => verdict = "rejected"
              /\ log' = log \o <<Decision(verdict), evaluated(verdict = "approved")>>
         ELSE log' = Append(log, evaluated(judged = "allow"))
  /\ index' = index + 1
  /\ UNCHANGED <<proposals, lpc, state_id>>

Finish ==
  /\ lpc = "calls"
  /\ index > Len(current.proposal.calls)
  /\ log' = Append(log, [type |-> "processed"])
  /\ lpc' = "idle"
  /\ UNCHANGED <<proposals, index, state_id>>

ProposalStep ==
  \/ JudgeDelta
  \/ \E verdict \in Verdicts : DecideDelta(verdict)
  \/ AskRaises
  \/ ReviseModel
  \/ RevisionRejected
  \/ RevisionPolicyRaises
  \/ DeltasDone
  \/ \E verdict \in Verdicts : EvaluateCall(verdict)
  \/ Finish

ProposalNext ==
  \/ \E proposal \in Proposals, provider \in Providers, start \in Starts :
       ReceiveProposal(proposal, provider, start)
  \/ ProposalStep

ProposalSpec == ProposalInit /\ [][ProposalNext]_proposalVars

--------------------------------------------------------------------------------
\* How many proposals the first n entries begin.
Begun(entries, n) == Cardinality({m \in 1..n : entries[m].type = "received"})

\* The entries of the p-th proposal, by position.
Written(p) == {n \in 1..Len(log) : Begun(log, n) = p}

\* The deltas, or calls, that a proposal has entries of a type about.
Indexes(p, type) ==
  {log[n].id.index : n \in {m \in Written(p) : log[m].type = type}}

MayRaise(p) ==
  \/ proposals[p].provider = "raises"
  \/ \E n \in DOMAIN proposals[p].proposal.patches :
       proposals[p].proposal.patches[n].rationale = "null"

Settled(p) ==
  \E last \in Written(p) :
    /\ \A n \in Written(p) : n <= last
    /\ IF IsValid(proposals[p].proposal)
       THEN \/ MayRaise(p) /\ \A n \in Written(p) : log[n].type # "processed"
            \/ /\ \A n \in Written(p) : log[n].type = "processed" <=> n = last
               /\ Indexes(p, "commitment") = DOMAIN proposals[p].proposal.patches
               /\ Indexes(p, "tool_call") = DOMAIN proposals[p].proposal.calls
       ELSE /\ \A n \in Written(p) : log[n].type = "rejected" <=> n = last
            /\ \A n \in Written(p) : n >= last - 1

(***************************************************************************)
(* Every proposal is settled on record once: an invalid one is rejected and*)
(* leaves nothing else, a valid one is processed after a commitment for    *)
(* each of its deltas, unless it was left by an exception.                 *)
(***************************************************************************)
ProposalsSettled ==
  \A p \in 1..Len(proposals) :
    p < Len(proposals) \/ lpc = "idle" => Settled(p)

(***************************************************************************)
(* Replay does not jump within a proposal, rejected and refused deltas in  *)
(* between notwithstanding, nor at its beginning if the caller passed the  *)
(* replayed state; else it begins at ws_0.                                 *)
(***************************************************************************)
StateChain ==
  \A n \in 1..Len(log) :
    IsRevision(log[n]) =>
      LET p == log[n].cause.proposal
          first == \A m \in Written(p) : m < n => ~IsRevision(log[m])
      IN  log[n].prior = IF first /\ ~proposals[p].replayed THEN 0
                         ELSE ReplayedAt(log, n - 1)

(***************************************************************************)
(* What was anchored stays anchored, once and in order, and memories are   *)
(* only added to, whatever is proposed later (as long as replay works).    *)
(***************************************************************************)
KnowledgeKept ==
  [][ReplayedWorld(log').ok => Keeps(ReplayedWorld(log), ReplayedWorld(log'))]_proposalVars

(***************************************************************************)
(* PROJECT_CHARTER: "state replay success rate: 100%".  A status proposed  *)
(* for a hypothesis the record already has, without a confidence, makes    *)
(* replay of the whole record raise, from then on.                         *)
(***************************************************************************)
ReplaySucceeds == ReplayedWorld(log).ok

================================================================================
