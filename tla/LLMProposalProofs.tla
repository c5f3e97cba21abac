--------------------------- MODULE LLMProposalProofs ---------------------------
(***************************************************************************)
(* Proposals of a language model, for any outputs, providers and number of *)
(* proposals: what is revised passed both policies and, where it had to,   *)
(* the approval provider, once, and continues from the replayed state where*)
(* the caller started from it.  What replay finds anchored or remembered   *)
(* stays so, whatever is proposed.                                         *)
(***************************************************************************)
EXTENDS LLMProposal, EventLogProofs, SequenceTheorems, FiniteSetTheorems

Ids == [proposal : Nat, index : Nat]

\* The deltas that the patches of the proposals are translated to.
Deltas ==
  UNION {{CandidateDelta(p.patches[n]) : n \in DOMAIN p.patches} : p \in Proposals}

RevisionEntry ==
  [type : {"revision"}, cause : Ids, prior : Nat, result : Nat, deltas : Seq(Deltas)]

Entry ==
  RevisionEntry
    \cup [type : {"received", "rejected", "processed"}]
    \cup [type : {"commitment"}, id : Ids, success : BOOLEAN]
    \cup [type : {"approval"}, verdict : Verdicts]
    \cup [type : {"revision_rejected"}, id : Ids]
    \cup [type : {"tool_call"}, id : Ids, allowed : BOOLEAN,
          verdict : {"allow", "deny", "requires_approval"}]

Received == [proposal : Proposals, provider : Providers, replayed : BOOLEAN]

ProposalTypeOK ==
  /\ log \in Seq(Entry)
  /\ proposals \in Seq(Received)
  /\ lpc \in {"idle", "delta", "revise", "calls"}
  /\ index \in Nat \ {0}
  /\ state_id \in Nat
  /\ lpc # "idle" => proposals # <<>> /\ IsValid(current.proposal)

\* The patch a revision on record was made for, and the proposal it is of.
ProposalOf(n) == proposals[log[n].cause.proposal]
PatchOf(n) == ProposalOf(n).proposal.patches[log[n].cause.index]

(***************************************************************************)
(* The revision at position n: for a patch of a valid proposal that has a  *)
(* justification, after its commitment, and either let through by the delta*)
(* policy or asked about and approved by a provider that can.              *)
(***************************************************************************)
JudgedTwice(n) ==
  /\ log[n].cause.proposal \in 1..Len(proposals)
  /\ log[n].cause.index \in 1..Len(ProposalOf(n).proposal.patches)
  /\ IsValid(ProposalOf(n).proposal)
  /\ log[n].deltas = <<CandidateDelta(PatchOf(n))>>
  /\ PatchOf(n).rationale = "stated"
  /\ n > 1
  /\ log[n - 1] = [type |-> "commitment", id |-> log[n].cause, success |-> TRUE]
  /\ \/ Clear(EvaluateDeltaPolicy(CandidateDelta(PatchOf(n))))
     \/ /\ n > 2
        /\ log[n - 2] = Decision("approved")
        /\ ProposalOf(n).provider = "answers"
        /\ EvaluateDeltaPolicy(CandidateDelta(PatchOf(n))).requires_approval

RevisionsJudged == \A n \in 1..Len(log) : IsRevision(log[n]) => JudgedTwice(n)

\* At a revision the log ends with the commitment and what it rests on.
ReadyToRevise ==
  lpc = "revise" =>
    /\ index \in 1..Len(patches)
    /\ Len(log) >= 1
    /\ log[Len(log)] = Commitment(TRUE)
    /\ \/ Clear(EvaluateDeltaPolicy(delta))
       \/ /\ Len(log) >= 2
          /\ log[Len(log) - 1] = Decision("approved")
          /\ current.provider = "answers"
          /\ Asks

Threaded ==
  lpc # "idle" /\ current.replayed => state_id = ReplayedState(log)

ReplayedContinue ==
  \A n \in 1..Len(log) :
    IsRevision(log[n]) /\ ProposalOf(n).replayed =>
      log[n].prior = ReplayedAt(log, n - 1)

\* What is revised of the current proposal lies behind the index.
RevisionsBehind ==
  \A n \in 1..Len(log) :
    IsRevision(log[n]) /\ log[n].cause.proposal = Len(proposals)
      /\ lpc \in {"delta", "revise"} => log[n].cause.index < index

RevisionsOnce ==
  \A m, n \in 1..Len(log) :
    IsRevision(log[m]) /\ IsRevision(log[n]) /\ log[m].cause = log[n].cause => m = n

ProposalInvariant ==
  /\ ProposalTypeOK
  /\ RevisionsJudged
  /\ ReadyToRevise
  /\ Threaded
  /\ ReplayedContinue
  /\ RevisionsBehind
  /\ RevisionsOnce

--------------------------------------------------------------------------------
(* Steps that add entries other than revisions.                            *)

LEMMA Grown ==
  ASSUME ProposalTypeOK, NEW s \in Seq(Entry), log' = log \o s
  PROVE  /\ log' \in Seq(Entry)
         /\ Len(log) \in Nat /\ Len(s) \in Nat
         /\ Len(log') = Len(log) + Len(s)
         /\ \A n \in 1..Len(log) : log'[n] = log[n]
         /\ \A n \in (Len(log) + 1)..Len(log') : log'[n] = s[n - Len(log)]
<1>1. log \in Seq(Entry)
  BY DEF ProposalTypeOK
<1>2. /\ log' \in Seq(Entry) /\ Len(log') = Len(log) + Len(s)
      /\ \A n \in 1..(Len(log) + Len(s)) :
           log'[n] = IF n <= Len(log) THEN log[n] ELSE s[n - Len(log)]
  BY <1>1, ConcatProperties
<1>3. Len(log) \in Nat /\ Len(s) \in Nat
  BY <1>1, LenProperties
<1> QED
  BY <1>2, <1>3

\* A revision is an entry with a cause and a result.
LEMMA RevisionTypes ==
  ASSUME NEW entry \in Entry, IsRevision(entry)
  PROVE  entry.cause \in Ids /\ entry.result \in Nat
  BY DEF Entry, RevisionEntry, IsRevision

LEMMA ReplayedIsNat ==
  ASSUME NEW entries \in Seq(Entry), NEW n \in 0..Len(entries)
  PROVE  ReplayedAt(entries, n) \in Nat
<1>1. \A m \in 1..n : IsRevision(entries[m]) => entries[m].result \in Nat
  <2> TAKE m \in 1..n
  <2>1. entries[m] \in Entry
    OBVIOUS
  <2> QED
    BY <2>1, RevisionTypes
<1> QED
  BY <1>1, ReplayType

\* Proposals that were received stay as they are.
ProposalsStay ==
  /\ proposals' \in Seq(Received)
  /\ Len(proposals) <= Len(proposals')
  /\ \A p \in 1..Len(proposals) : proposals'[p] = proposals[p]

\* So what is on record stays justified.
LEMMA JudgedStays ==
  ASSUME ProposalTypeOK, ProposalsStay, NEW s \in Seq(Entry), log' = log \o s,
         NEW n \in 1..Len(log), JudgedTwice(n)
  PROVE  JudgedTwice(n)' /\ ProposalOf(n)' = ProposalOf(n)
<1>1. /\ Len(log) \in Nat /\ \A m \in 1..Len(log) : log'[m] = log[m]
  BY Grown
<1>2. n \in Nat /\ log'[n] = log[n]
  BY <1>1
<1>3. /\ n > 1 /\ n - 1 \in 1..Len(log)
      /\ (n > 2 => n - 2 \in 1..Len(log))
  BY <1>1, <1>2 DEF JudgedTwice
<1>4. /\ log'[n - 1] = log[n - 1]
      /\ (n > 2 => log'[n - 2] = log[n - 2])
  BY <1>1, <1>3
<1>5. /\ Len(proposals) \in Nat /\ Len(proposals') \in Nat
      /\ log[n].cause.proposal \in 1..Len(proposals)
      /\ log[n].cause.proposal \in 1..Len(proposals')
  BY DEF ProposalTypeOK, ProposalsStay, JudgedTwice
<1>6. ProposalOf(n)' = ProposalOf(n)
  BY <1>2, <1>5 DEF ProposalOf, ProposalsStay
<1>7. PatchOf(n)' = PatchOf(n)
  BY <1>2, <1>6 DEF PatchOf
<1> QED
  BY <1>2, <1>3, <1>4, <1>5, <1>6, <1>7 DEF JudgedTwice, Decision

LEMMA KeptOnRecord ==
  ASSUME ProposalInvariant, ProposalsStay, NEW s \in Seq(Entry), log' = log \o s
  PROVE  /\ \A n \in 1..Len(log) : IsRevision(log'[n]) =>
              /\ JudgedTwice(n)'
              /\ ProposalOf(n)'.replayed =>
                   log'[n].prior = ReplayedAt(log', n - 1)
         /\ \A m, n \in 1..Len(log) :
              IsRevision(log'[m]) /\ IsRevision(log'[n])
                /\ log'[m].cause = log'[n].cause => m = n
         /\ ReplayedAt(log', Len(log)) = ReplayedState(log)
<1>1. ProposalTypeOK
  BY DEF ProposalInvariant
<1>2. Len(log) \in Nat /\ \A n \in 1..Len(log) : log'[n] = log[n]
  BY <1>1, Grown
<1>3. ASSUME NEW n \in 1..Len(log), IsRevision(log'[n])
      PROVE  /\ JudgedTwice(n)'
             /\ ProposalOf(n)'.replayed => log'[n].prior = ReplayedAt(log', n - 1)
  <2>1. log'[n] = log[n] /\ IsRevision(log[n])
    BY <1>2, <1>3
  <2>2. JudgedTwice(n)
    BY <2>1 DEF ProposalInvariant, RevisionsJudged
  <2>3. JudgedTwice(n)' /\ ProposalOf(n)' = ProposalOf(n)
    BY <1>1, <2>2, JudgedStays
  <2>4. ReplayedAt(log', n - 1) = ReplayedAt(log, n - 1)
    <3>1. n - 1 \in Nat /\ \A m \in 1..(n - 1) : log'[m] = log[m]
      BY <1>2
    <3> QED
      BY <3>1, ReplayReadsPrefix
  <2> QED
    BY <2>1, <2>3, <2>4 DEF ProposalInvariant, ReplayedContinue
<1>4. \A m, n \in 1..Len(log) :
        IsRevision(log'[m]) /\ IsRevision(log'[n])
          /\ log'[m].cause = log'[n].cause => m = n
  <2> SUFFICES ASSUME NEW m \in 1..Len(log), NEW n \in 1..Len(log),
                      IsRevision(log'[m]), IsRevision(log'[n]),
                      log'[m].cause = log'[n].cause
               PROVE  m = n
    OBVIOUS
  <2>1. log'[m] = log[m] /\ log'[n] = log[n]
    BY <1>2
  <2>2. IsRevision(log[m]) /\ IsRevision(log[n]) /\ log[m].cause = log[n].cause
    BY <2>1
  <2> QED
    BY <2>2 DEF ProposalInvariant, RevisionsOnce
<1>5. ReplayedAt(log', Len(log)) = ReplayedState(log)
  BY <1>2, ReplayReadsPrefix DEF ReplayedState
<1> QED
  BY <1>3, <1>4, <1>5

\* A step that adds no revision keeps all that is said of revisions.
LEMMA Quiet ==
  ASSUME ProposalInvariant, ProposalsStay, NEW s \in Seq(Entry), log' = log \o s,
         \A n \in 1..Len(s) : ~IsRevision(s[n])
  PROVE  /\ log' \in Seq(Entry)
         /\ RevisionsJudged' /\ ReplayedContinue' /\ RevisionsOnce'
         /\ ReplayedState(log') = ReplayedState(log)
         /\ \A n \in 1..Len(log') : IsRevision(log'[n]) =>
              n \in 1..Len(log) /\ log'[n] = log[n]
<1>1. ProposalTypeOK
  BY DEF ProposalInvariant
<1>2. /\ log' \in Seq(Entry)
      /\ Len(log) \in Nat /\ Len(s) \in Nat
      /\ Len(log') = Len(log) + Len(s)
      /\ \A n \in 1..Len(log) : log'[n] = log[n]
      /\ \A n \in (Len(log) + 1)..Len(log') : log'[n] = s[n - Len(log)]
  BY <1>1, Grown
<1>3. \A n \in (Len(log) + 1)..Len(log') : ~IsRevision(log'[n])
  <2> TAKE n \in (Len(log) + 1)..Len(log')
  <2>1. n - Len(log) \in 1..Len(s)
    BY <1>2
  <2> QED
    BY <1>2, <2>1
<1>4. \A n \in 1..Len(log') : IsRevision(log'[n]) =>
        n \in 1..Len(log) /\ log'[n] = log[n]
  BY <1>2, <1>3
<1>5. ReplayedState(log') = ReplayedAt(log', Len(log))
  <2>1. Len(log) \in Nat /\ Len(log') \in Nat /\ Len(log) <= Len(log')
    BY <1>2
  <2> QED
    BY <1>3, <2>1, ReplaySkipsOthers DEF ReplayedState
<1>6. RevisionsJudged'
  BY <1>4, KeptOnRecord DEF RevisionsJudged
<1>7. ReplayedContinue'
  BY <1>4, KeptOnRecord DEF ReplayedContinue
<1>8. RevisionsOnce'
  BY <1>4, KeptOnRecord DEF RevisionsOnce
<1>9. ReplayedState(log') = ReplayedState(log)
  BY <1>5, KeptOnRecord
<1> QED
  BY <1>2, <1>4, <1>6, <1>7, <1>8, <1>9

--------------------------------------------------------------------------------
(* What the steps of a proposal look at, and what they write.              *)

LEMMA CurrentProposal ==
  ASSUME ProposalTypeOK, lpc # "idle"
  PROVE  /\ Len(proposals) \in Nat \ {0}
         /\ current \in Received /\ IsValid(current.proposal)
         /\ patches \in Seq({patches[n] : n \in DOMAIN patches})
         /\ Len(patches) \in Nat
         /\ thisId \in Ids
<1>1. proposals \in Seq(Received) /\ proposals # <<>>
  BY DEF ProposalTypeOK
<1>2. Len(proposals) \in Nat \ {0} /\ Len(proposals) \in 1..Len(proposals)
  BY <1>1, EmptySeq, LenProperties
<1>3. current \in Received
  BY <1>1, <1>2, ElementOfSeq DEF current
<1>4. current.proposal \in Proposals
  BY <1>3 DEF Received
<1>5. patches \in Seq({patches[n] : n \in DOMAIN patches})
  BY <1>4, ProposalAssumption DEF patches
<1>6. Len(patches) \in Nat
  BY <1>5, LenProperties
<1> QED
  BY <1>2, <1>3, <1>5, <1>6 DEF ProposalTypeOK, thisId, Ids

LEMMA CurrentDelta ==
  ASSUME ProposalTypeOK, lpc # "idle", index \in 1..Len(patches)
  PROVE  /\ delta \in Deltas
         /\ patches[index].rationale \in {"stated", "blank", "null"}
<1>1. current.proposal \in Proposals
  BY CurrentProposal DEF Received
<1>2. index \in DOMAIN patches
  BY CurrentProposal
<1>3. delta = CandidateDelta(current.proposal.patches[index])
      /\ index \in DOMAIN current.proposal.patches
  BY <1>2 DEF delta, patches
<1>4. delta \in Deltas
  BY <1>1, <1>3 DEF Deltas
<1>5. patches[index].rationale \in {"stated", "blank", "null"}
  BY <1>1, <1>2, ProposalAssumption DEF patches
<1> QED
  BY <1>4, <1>5

LEMMA PolicyAnswers ==
  ASSUME NEW d
  PROVE  EvaluateDeltaPolicy(d) \in {Permit, Ask, Refuse}
  BY DEF EvaluateDeltaPolicy

LEMMA WrittenTypes ==
  ASSUME ProposalTypeOK, lpc # "idle"
  PROVE  /\ Commitment(TRUE) \in Entry /\ ~IsRevision(Commitment(TRUE))
         /\ Commitment(FALSE) \in Entry /\ ~IsRevision(Commitment(FALSE))
  BY CurrentProposal DEF Commitment, Entry, IsRevision

LEMMA DecisionTypes ==
  ASSUME NEW verdict \in Verdicts
  PROVE  Decision(verdict) \in Entry /\ ~IsRevision(Decision(verdict))
  BY DEF Decision, Entry, IsRevision

LEMMA OneEntry ==
  ASSUME NEW a \in Entry, ~IsRevision(a)
  PROVE  <<a>> \in Seq(Entry) /\ \A n \in 1..Len(<<a>>) : ~IsRevision(<<a>>[n])
  OBVIOUS

LEMMA TwoEntries ==
  ASSUME NEW a \in Entry, NEW b \in Entry, ~IsRevision(a), ~IsRevision(b)
  PROVE  /\ <<a, b>> \in Seq(Entry)
         /\ \A n \in 1..Len(<<a, b>>) : ~IsRevision(<<a, b>>[n])
  OBVIOUS

(***************************************************************************)
(* A step of a proposal that adds no revision keeps the invariant, if it   *)
(* moves the index forward only and prepares a revision only as it should. *)
(***************************************************************************)
LEMMA QuietStep ==
  ASSUME ProposalInvariant, lpc # "idle",
         NEW s \in Seq(Entry), log' = log \o s,
         \A n \in 1..Len(s) : ~IsRevision(s[n]),
         UNCHANGED <<proposals, state_id>>,
         lpc' \in {"idle", "delta", "revise", "calls"},
         index' \in Nat \ {0},
         lpc' \in {"delta", "revise"} => lpc \in {"delta", "revise"} /\ index <= index',
         ReadyToRevise'
  PROVE  ProposalInvariant'
<1>1. ProposalTypeOK
  BY DEF ProposalInvariant
<1>2. ProposalsStay
  BY <1>1, CurrentProposal DEF ProposalsStay, ProposalTypeOK
<1>3. /\ log' \in Seq(Entry)
      /\ RevisionsJudged' /\ ReplayedContinue' /\ RevisionsOnce'
      /\ ReplayedState(log') = ReplayedState(log)
      /\ \A n \in 1..Len(log') : IsRevision(log'[n]) =>
           n \in 1..Len(log) /\ log'[n] = log[n]
  BY <1>2, Quiet
<1>4. ProposalTypeOK'
  BY <1>1, <1>3 DEF ProposalTypeOK, current
<1>5. Threaded'
  BY <1>3 DEF ProposalInvariant, Threaded, current
<1>6. RevisionsBehind'
  <2> SUFFICES ASSUME NEW n \in 1..Len(log'), IsRevision(log'[n]),
                      log'[n].cause.proposal = Len(proposals'),
                      lpc' \in {"delta", "revise"}
               PROVE  log'[n].cause.index < index'
    BY DEF RevisionsBehind
  <2>1. n \in 1..Len(log) /\ log'[n] = log[n] /\ IsRevision(log[n])
    BY <1>3
  <2>2. log[n].cause.index < index
    BY <2>1 DEF ProposalInvariant, RevisionsBehind
  <2>3. log[n].cause.index \in Nat
    <3>1. log[n] \in Entry
      BY <1>1, <2>1 DEF ProposalTypeOK
    <3> QED
      BY <2>1, <3>1, RevisionTypes DEF Ids
  <2>4. index \in Nat /\ index' \in Nat /\ index <= index'
    BY <1>1 DEF ProposalTypeOK
  <2> QED
    BY <2>1, <2>2, <2>3, <2>4
<1> QED
  BY <1>3, <1>4, <1>5, <1>6 DEF ProposalInvariant

\* So does one that adds nothing at all.
LEMMA SilentStep ==
  ASSUME ProposalInvariant, lpc # "idle",
         UNCHANGED <<log, proposals, state_id>>,
         lpc' \in {"idle", "calls"},
         index' \in Nat \ {0}
  PROVE  ProposalInvariant'
<1>1. log \in Seq(Entry)
  BY DEF ProposalInvariant, ProposalTypeOK
<1>2. <<>> \in Seq(Entry) /\ \A n \in 1..Len(<<>>) : ~IsRevision(<<>>[n])
  OBVIOUS
<1>3. log' = log \o <<>>
  BY <1>1, ConcatEmptySeq
<1>4. ReadyToRevise'
  BY DEF ReadyToRevise
<1> QED
  BY <1>2, <1>3, <1>4, QuietStep

--------------------------------------------------------------------------------
(* One lemma for each action.                                              *)

\* A proposal comes in, and is taken on or rejected as a whole.
LEMMA ReceiveProposalSafe ==
  ASSUME ProposalInvariant, NEW proposal \in Proposals, NEW provider \in Providers,
         NEW start \in Starts, ReceiveProposal(proposal, provider, start)
  PROVE  ProposalInvariant'
<1> DEFINE received == [proposal |-> proposal, provider |-> provider,
                        replayed |-> start = "replayed"]
           taken == <<[type |-> "received"]>>
           refused == <<[type |-> "received"], [type |-> "rejected"]>>
           s == IF IsValid(proposal) THEN taken ELSE refused
<1>1. ProposalTypeOK /\ lpc = "idle"
  BY DEF ProposalInvariant, ReceiveProposal
<1>2. /\ proposals' = Append(proposals, received)
      /\ state_id' = (IF start = "replayed" THEN ReplayedState(log) ELSE 0)
      /\ index' = 1
      /\ lpc' = IF IsValid(proposal) THEN "delta" ELSE "idle"
  BY DEF ReceiveProposal
<1>3. received \in Received
  <2>1. (start = "replayed") \in BOOLEAN
    OBVIOUS
  <2> QED
    BY <2>1 DEF Received
<1> HIDE DEF received
<1>4. /\ proposals \in Seq(Received) /\ proposals' \in Seq(Received)
      /\ Len(proposals) \in Nat /\ Len(proposals') = Len(proposals) + 1
      /\ \A p \in 1..Len(proposals) : proposals'[p] = proposals[p]
      /\ proposals'[Len(proposals) + 1] = received
  BY <1>1, <1>2, <1>3, AppendProperties DEF ProposalTypeOK
<1>5. ProposalsStay
  BY <1>4 DEF ProposalsStay
<1>6. /\ [type |-> "received"] \in Entry /\ ~IsRevision([type |-> "received"])
      /\ [type |-> "rejected"] \in Entry /\ ~IsRevision([type |-> "rejected"])
  BY DEF Entry, IsRevision
<1>7. s \in Seq(Entry) /\ \A n \in 1..Len(s) : ~IsRevision(s[n])
  BY <1>6, OneEntry, TwoEntries
<1>8. log' = log \o s
  <2>1. Append(log, [type |-> "received"]) = log \o taken
    BY <1>1, <1>6, AppendIsConcat DEF ProposalTypeOK
  <2> QED
    BY <2>1 DEF ReceiveProposal
<1> HIDE DEF s
<1>9. /\ log' \in Seq(Entry)
      /\ RevisionsJudged' /\ ReplayedContinue' /\ RevisionsOnce'
      /\ ReplayedState(log') = ReplayedState(log)
      /\ \A n \in 1..Len(log') : IsRevision(log'[n]) =>
           n \in 1..Len(log) /\ log'[n] = log[n]
  BY <1>5, <1>7, <1>8, Quiet
<1>10. current' = received
  BY <1>4 DEF current
<1>11. ProposalTypeOK'
  <2>1. state_id' \in Nat
    <3>1. Len(log) \in 0..Len(log) /\ log \in Seq(Entry)
      BY <1>1 DEF ProposalTypeOK
    <3>2. ReplayedState(log) \in Nat
      BY <3>1, ReplayedIsNat DEF ReplayedState
    <3> QED
      BY <1>2, <3>2
  <2>2. lpc' # "idle" => proposals' # <<>> /\ IsValid(current'.proposal)
    BY <1>2, <1>4, <1>10, EmptySeq DEF received
  <2>3. lpc' \in {"idle", "delta", "revise", "calls"} /\ index' \in Nat \ {0}
    BY <1>2
  <2> QED
    BY <1>4, <1>9, <2>1, <2>2, <2>3 DEF ProposalTypeOK
<1>12. ReadyToRevise'
  BY <1>2 DEF ReadyToRevise
<1>13. Threaded'
  BY <1>2, <1>9, <1>10 DEF Threaded, received
<1>14. RevisionsBehind'
  <2> SUFFICES ASSUME NEW n \in 1..Len(log'), IsRevision(log'[n])
               PROVE  log'[n].cause.proposal # Len(proposals')
    BY DEF RevisionsBehind
  <2>1. n \in 1..Len(log) /\ log'[n] = log[n] /\ IsRevision(log[n])
    BY <1>9
  <2>2. log[n].cause.proposal \in 1..Len(proposals)
    BY <2>1 DEF ProposalInvariant, RevisionsJudged, JudgedTwice
  <2> QED
    BY <1>4, <2>1, <2>2
<1> QED
  BY <1>9, <1>11, <1>12, <1>13, <1>14 DEF ProposalInvariant

\* The commitment goes on record, after a decision if there was one.
LEMMA CommitSafe ==
  ASSUME ProposalInvariant, lpc = "delta", index \in 1..Len(patches),
         NEW entries \in Seq(Entry), \A n \in 1..Len(entries) : ~IsRevision(entries[n]),
         NEW allowed \in BOOLEAN, Commit(entries, allowed),
         allowed => \/ Clear(EvaluateDeltaPolicy(delta))
                    \/ /\ entries = <<Decision("approved")>>
                       /\ current.provider = "answers" /\ Asks
  PROVE  ProposalInvariant'
<1> DEFINE commitment == Commitment(allowed)
           s == entries \o <<commitment>>
<1>1. ProposalTypeOK /\ lpc # "idle"
  BY DEF ProposalInvariant
<1>2. commitment \in Entry /\ ~IsRevision(commitment)
  <2>1. CASE allowed = TRUE
    BY <1>1, <2>1, WrittenTypes
  <2>2. CASE allowed = FALSE
    BY <1>1, <2>2, WrittenTypes
  <2> QED
    BY <2>1, <2>2
<1>3. log' = (log \o entries) \o <<commitment>>
  BY DEF Commit
<1>4. /\ UNCHANGED <<proposals, state_id>>
      /\ allowed => lpc' = "revise" /\ index' = index
      /\ ~allowed => lpc' = lpc /\ index' = index + 1
  BY DEF Commit
<1>5. allowed => commitment = Commitment(TRUE)
  OBVIOUS
<1> HIDE DEF commitment
<1>6. <<commitment>> \in Seq(Entry) /\ Len(<<commitment>>) = 1
  BY <1>2
<1>7. log \in Seq(Entry) /\ Len(log) \in Nat /\ Len(entries) \in Nat
  BY <1>1, LenProperties DEF ProposalTypeOK
<1>8. log' = log \o s
  BY <1>3, <1>6, <1>7, ConcatAssociative
<1>9. /\ s \in Seq(Entry) /\ Len(s) = Len(entries) + 1
      /\ \A n \in 1..(Len(entries) + 1) :
           s[n] = IF n <= Len(entries) THEN entries[n]
                  ELSE <<commitment>>[n - Len(entries)]
  BY <1>6, ConcatProperties
<1>10. s[Len(entries) + 1] = commitment
  <2>1. Len(entries) + 1 \in 1..(Len(entries) + 1)
        /\ ~(Len(entries) + 1 <= Len(entries))
        /\ (Len(entries) + 1) - Len(entries) = 1
    BY <1>7
  <2> QED
    BY <1>9, <2>1
<1>11. \A n \in 1..Len(s) : ~IsRevision(s[n])
  <2> TAKE n \in 1..Len(s)
  <2>1. n \in 1..Len(entries) \/ n = Len(entries) + 1
    BY <1>7, <1>9
  <2>2. CASE n \in 1..Len(entries)
    BY <1>7, <1>9, <2>2
  <2> QED
    BY <1>2, <1>10, <2>1, <2>2
<1> HIDE DEF s
<1>12. /\ Len(log') = Len(log) + Len(s)
       /\ \A n \in (Len(log) + 1)..Len(log') : log'[n] = s[n - Len(log)]
  BY <1>1, <1>8, <1>9, Grown
<1>13. ReadyToRevise'
  <2> SUFFICES ASSUME lpc' = "revise" PROVE ReadyToRevise'
    BY DEF ReadyToRevise
  <2>1. allowed
    BY <1>4
  <2>2. /\ index' = index /\ patches' = patches /\ delta' = delta
        /\ current' = current /\ Asks' = Asks
        /\ Commitment(TRUE)' = Commitment(TRUE)
    BY <1>4, <2>1 DEF patches, delta, current, Asks, Commitment, thisId
  <2>3. Len(log') >= 1 /\ log'[Len(log')] = Commitment(TRUE)
    <3>1. /\ Len(log') \in (Len(log) + 1)..Len(log') /\ Len(log') >= 1
          /\ Len(log') - Len(log) = Len(entries) + 1
      BY <1>7, <1>9, <1>12
    <3> QED
      BY <1>5, <1>10, <1>12, <2>1, <3>1
  <2>4. CASE Clear(EvaluateDeltaPolicy(delta))
    BY <2>2, <2>3, <2>4 DEF ReadyToRevise
  <2>5. CASE /\ entries = <<Decision("approved")>>
             /\ current.provider = "answers" /\ Asks
    <3>1. Len(entries) = 1 /\ entries[1] = Decision("approved")
      BY <2>5
    <3>2. s[1] = Decision("approved") /\ Len(s) = 2
      BY <1>9, <3>1
    <3>3. /\ Len(log') >= 2 /\ Len(log') - 1 \in (Len(log) + 1)..Len(log')
          /\ (Len(log') - 1) - Len(log) = 1
      BY <1>7, <1>12, <3>2
    <3>4. log'[Len(log') - 1] = Decision("approved")
      BY <1>12, <3>2, <3>3
    <3>5. Decision("approved")' = Decision("approved")
      BY DEF Decision
    <3> QED
      BY <2>2, <2>3, <2>5, <3>3, <3>4, <3>5 DEF ReadyToRevise
  <2> QED
    BY <2>1, <2>4, <2>5
<1>14. index' \in Nat \ {0} /\ index <= index'
       /\ lpc' \in {"idle", "delta", "revise", "calls"}
  BY <1>1, <1>4 DEF ProposalTypeOK
<1> QED
  BY <1>1, <1>4, <1>8, <1>9, <1>11, <1>13, <1>14, QuietStep

LEMMA JudgeDeltaSafe ==
  ASSUME ProposalInvariant, JudgeDelta
  PROVE  ProposalInvariant'
<1>1. /\ lpc = "delta" /\ index <= Len(patches) /\ ~Asks
      /\ Commit(<<>>, EvaluateDeltaPolicy(delta).allowed)
  BY DEF JudgeDelta, AtDelta
<1>2. index \in 1..Len(patches)
  BY <1>1, CurrentProposal DEF ProposalInvariant, ProposalTypeOK
<1>3. <<>> \in Seq(Entry) /\ \A n \in 1..Len(<<>>) : ~IsRevision(<<>>[n])
  OBVIOUS
<1>4. EvaluateDeltaPolicy(delta) \in {Permit, Refuse}
  BY <1>1, PolicyAnswers DEF Asks, Permit, Ask, Refuse
<1>5. CASE EvaluateDeltaPolicy(delta) = Permit
  <2>1. EvaluateDeltaPolicy(delta).allowed = TRUE
        /\ Clear(EvaluateDeltaPolicy(delta))
    BY <1>5 DEF Permit, Clear
  <2>2. Commit(<<>>, TRUE)
    BY <1>1, <2>1
  <2> QED
    BY <1>1, <1>2, <1>3, <2>1, <2>2, CommitSafe
<1>6. CASE EvaluateDeltaPolicy(delta) = Refuse
  <2>1. EvaluateDeltaPolicy(delta).allowed = FALSE
    BY <1>6 DEF Refuse
  <2>2. Commit(<<>>, FALSE)
    BY <1>1, <2>1
  <2> QED
    BY <1>1, <1>2, <1>3, <2>2, CommitSafe
<1> QED
  BY <1>4, <1>5, <1>6

LEMMA DecideDeltaSafe ==
  ASSUME ProposalInvariant, NEW verdict \in Verdicts, DecideDelta(verdict)
  PROVE  ProposalInvariant'
<1>1. /\ lpc = "delta" /\ index <= Len(patches) /\ Asks
      /\ current.provider # "raises"
      /\ current.provider = "none" => verdict = "rejected"
      /\ Commit(<<Decision(verdict)>>, verdict = "approved")
  BY DEF DecideDelta, AtDelta
<1>2. index \in 1..Len(patches)
  BY <1>1, CurrentProposal DEF ProposalInvariant, ProposalTypeOK
<1>3. current.provider \in {"none", "answers", "raises"}
  BY <1>1, CurrentProposal, ProposalAssumption
  DEF ProposalInvariant, Received, ProviderKinds
<1>4. /\ <<Decision(verdict)>> \in Seq(Entry)
      /\ \A n \in 1..Len(<<Decision(verdict)>>) :
           ~IsRevision(<<Decision(verdict)>>[n])
  BY DecisionTypes, OneEntry
<1>5. CASE verdict = "approved"
  <2>1. current.provider = "answers" /\ Commit(<<Decision("approved")>>, TRUE)
    BY <1>1, <1>3, <1>5
  <2> QED
    BY <1>1, <1>2, <1>4, <1>5, <2>1, CommitSafe
<1>6. CASE verdict = "rejected"
  <2>1. Commit(<<Decision("rejected")>>, FALSE)
    BY <1>1, <1>6
  <2> QED
    BY <1>1, <1>2, <1>4, <1>6, <2>1, CommitSafe
<1> QED
  BY <1>5, <1>6 DEF Verdicts

\* What passed both policies is revised: once, with what was judged, and from
\* where the record stands if the caller started there.
LEMMA ReviseModelSafe ==
  ASSUME ProposalInvariant, ReviseModel
  PROVE  ProposalInvariant'
<1>0. PICK k : k = Len(log) + 1
  OBVIOUS
<1> DEFINE revision == Revision
           s == <<revision>>
<1>1. ProposalTypeOK /\ lpc = "revise" /\ lpc # "idle"
  BY DEF ProposalInvariant, ReviseModel
<1>2. /\ index \in 1..Len(patches) /\ Len(log) >= 1
      /\ log[Len(log)] = Commitment(TRUE)
      /\ \/ Clear(EvaluateDeltaPolicy(delta))
         \/ /\ Len(log) >= 2
            /\ log[Len(log) - 1] = Decision("approved")
            /\ current.provider = "answers"
            /\ Asks
  BY <1>1 DEF ProposalInvariant, ReadyToRevise
<1>3. /\ log' = Append(log, revision) /\ state_id' = state_id + 1
      /\ index' = index + 1 /\ lpc' = "delta" /\ proposals' = proposals
  BY DEF ReviseModel
<1>4. patches[index].rationale = "stated"
  <2>1. patches[index].rationale # "null" /\ patches[index].rationale # "blank"
    BY DEF ReviseModel, RevisionAllowed
  <2> QED
    BY <1>1, <1>2, <2>1, CurrentDelta
<1>5. /\ delta \in Deltas /\ thisId \in Ids /\ state_id \in Nat
      /\ index \in Nat \ {0}
  BY <1>1, <1>2, CurrentDelta, CurrentProposal DEF ProposalTypeOK
<1>6. /\ revision \in Entry /\ IsRevision(revision)
      /\ revision.cause = thisId /\ revision.prior = state_id
      /\ revision.result = state_id + 1 /\ revision.deltas = <<delta>>
  <2>1. <<delta>> \in Seq(Deltas)
    BY <1>5
  <2> QED
    BY <1>5, <2>1 DEF Revision, Entry, RevisionEntry, IsRevision
<1> HIDE DEF revision
<1>7. s \in Seq(Entry) /\ log' = log \o s
  BY <1>1, <1>3, <1>6, AppendIsConcat DEF ProposalTypeOK
<1> HIDE DEF s
<1>8. /\ log \in Seq(Entry) /\ log' \in Seq(Entry) /\ Len(log) \in Nat
      /\ k \in Nat /\ Len(log') = k
      /\ \A n \in 1..Len(log) : log'[n] = log[n]
      /\ log'[k] = revision
  BY <1>0, <1>1, <1>3, <1>6, AppendProperties DEF ProposalTypeOK
<1>9. ProposalsStay
  BY <1>1, <1>3, CurrentProposal DEF ProposalsStay, ProposalTypeOK
<1>10. /\ \A n \in 1..Len(log) : IsRevision(log'[n]) =>
            /\ JudgedTwice(n)'
            /\ ProposalOf(n)'.replayed =>
                 log'[n].prior = ReplayedAt(log', n - 1)
       /\ \A m, n \in 1..Len(log) :
            IsRevision(log'[m]) /\ IsRevision(log'[n])
              /\ log'[m].cause = log'[n].cause => m = n
       /\ ReplayedAt(log', Len(log)) = ReplayedState(log)
  BY <1>7, <1>9, KeptOnRecord
<1>11. /\ Len(proposals) \in Nat \ {0}
       /\ thisId.proposal = Len(proposals) /\ thisId.index = index
  BY <1>1, CurrentProposal DEF thisId
<1>12. ProposalOf(k)' = current /\ PatchOf(k)' = patches[index]
  <2>1. ProposalOf(k)' = proposals'[log'[k].cause.proposal]
    BY DEF ProposalOf
  <2>2. ProposalOf(k)' = current
    BY <1>3, <1>6, <1>8, <1>11, <2>1 DEF current
  <2>3. PatchOf(k)' = ProposalOf(k)'.proposal.patches[log'[k].cause.index]
    BY DEF PatchOf
  <2> QED
    BY <1>6, <1>8, <1>11, <2>2, <2>3 DEF patches
<1>13. JudgedTwice(k)'
  <2>1. /\ log'[k].cause.proposal \in 1..Len(proposals')
        /\ log'[k].cause.index \in 1..Len(ProposalOf(k)'.proposal.patches)
        /\ IsValid(ProposalOf(k)'.proposal)
        /\ log'[k].deltas = <<CandidateDelta(PatchOf(k)')>>
        /\ PatchOf(k)'.rationale = "stated"
    <3>1. IsValid(current.proposal)
      BY <1>1, CurrentProposal
    <3>2. delta = CandidateDelta(PatchOf(k)')
      BY <1>12 DEF delta
    <3> QED
      BY <1>2, <1>3, <1>4, <1>6, <1>8, <1>11, <1>12, <3>1, <3>2 DEF patches
  <2>2. k > 1 /\ k - 1 = Len(log) /\ log'[k - 1] = Commitment(TRUE)
    <3>1. k > 1 /\ k - 1 = Len(log) /\ k - 1 \in 1..Len(log)
      BY <1>0, <1>2, <1>8
    <3> QED
      BY <1>2, <1>8, <3>1
  <2>3. log'[k - 1] = [type |-> "commitment", id |-> log'[k].cause, success |-> TRUE]
    BY <1>6, <1>8, <2>2 DEF Commitment
  <2>4. \/ Clear(EvaluateDeltaPolicy(CandidateDelta(PatchOf(k)')))
        \/ /\ k > 2
           /\ log'[k - 2] = Decision("approved")
           /\ ProposalOf(k)'.provider = "answers"
           /\ EvaluateDeltaPolicy(CandidateDelta(PatchOf(k)')).requires_approval
    <3>1. CASE Clear(EvaluateDeltaPolicy(delta))
      BY <1>12, <3>1 DEF delta
    <3>2. CASE /\ Len(log) >= 2
               /\ log[Len(log) - 1] = Decision("approved")
               /\ current.provider = "answers"
               /\ Asks
      <4>1. k > 2 /\ k - 2 = Len(log) - 1 /\ Len(log) - 1 \in 1..Len(log)
        BY <1>0, <1>8, <3>2
      <4>2. log'[k - 2] = Decision("approved")
        BY <1>8, <3>2, <4>1
      <4> QED
        BY <1>12, <3>2, <4>1, <4>2 DEF Asks, delta
    <3> QED
      BY <1>2, <3>1, <3>2
  <2> QED
    BY <2>1, <2>2, <2>3, <2>4 DEF JudgedTwice, Decision
<1>14. \A n \in 1..Len(log') : n \in 1..Len(log) \/ n = k
  BY <1>0, <1>8
<1>15. RevisionsJudged'
  BY <1>10, <1>13, <1>14 DEF RevisionsJudged
<1>16. ReplayedContinue'
  <2>1. ProposalOf(k)'.replayed => log'[k].prior = ReplayedAt(log', k - 1)
    <3>1. k - 1 = Len(log)
      BY <1>0, <1>8
    <3>2. current.replayed => state_id = ReplayedState(log)
      BY <1>1 DEF ProposalInvariant, Threaded
    <3> QED
      BY <1>6, <1>8, <1>10, <1>12, <3>1, <3>2
  <2> QED
    BY <1>10, <1>14, <2>1 DEF ReplayedContinue
<1>17. \A n \in 1..Len(log) : IsRevision(log'[n]) =>
         /\ log'[n].cause \in Ids
         /\ log'[n].cause.proposal = Len(proposals) => log'[n].cause.index < index
  <2> SUFFICES ASSUME NEW n \in 1..Len(log), IsRevision(log'[n])
               PROVE  /\ log'[n].cause \in Ids
                      /\ log'[n].cause.proposal = Len(proposals)
                           => log'[n].cause.index < index
    OBVIOUS
  <2>1. log'[n] = log[n] /\ IsRevision(log[n]) /\ log[n] \in Entry
    BY <1>8
  <2>2. log[n].cause \in Ids
    BY <2>1, RevisionTypes
  <2> QED
    BY <1>1, <2>1, <2>2 DEF ProposalInvariant, RevisionsBehind
<1>18. RevisionsOnce'
  <2>1. \A n \in 1..Len(log) : IsRevision(log'[n]) => log'[n].cause # log'[k].cause
    <3> SUFFICES ASSUME NEW n \in 1..Len(log), IsRevision(log'[n]),
                        log'[n].cause = thisId
                 PROVE  FALSE
      BY <1>6, <1>8
    <3>1. index < index
      BY <1>11, <1>17
    <3> QED
      BY <1>5, <3>1
  <2> QED
    BY <1>10, <1>14, <2>1 DEF RevisionsOnce
<1>19. RevisionsBehind'
  <2> SUFFICES ASSUME NEW n \in 1..Len(log'), IsRevision(log'[n]),
                      log'[n].cause.proposal = Len(proposals')
               PROVE  log'[n].cause.index < index'
    BY DEF RevisionsBehind
  <2>1. CASE n \in 1..Len(log)
    <3>1. log'[n].cause \in Ids /\ log'[n].cause.index < index
      BY <1>3, <1>17, <2>1
    <3> QED
      BY <1>3, <1>5, <3>1 DEF Ids
  <2>2. CASE n = k
    BY <1>3, <1>5, <1>6, <1>8, <1>11, <2>2
  <2> QED
    BY <1>14, <2>1, <2>2
<1>20. Threaded'
  <2>1. k \in Nat \ {0} /\ IsRevision(log'[k])
    <3>1. k \in Nat \ {0}
      BY <1>0, <1>8
    <3> QED
      BY <1>6, <1>8, <3>1
  <2>2. ReplayedState(log') = state_id + 1
    BY <1>6, <1>8, <2>1, ReplayEndsInRevision DEF ReplayedState
  <2> QED
    BY <1>3, <2>2 DEF Threaded
<1>21. ReadyToRevise'
  BY <1>3 DEF ReadyToRevise
<1>22. ProposalTypeOK'
  BY <1>1, <1>3, <1>5, <1>8 DEF ProposalTypeOK, current
<1> QED
  BY <1>15, <1>16, <1>18, <1>19, <1>20, <1>21, <1>22 DEF ProposalInvariant

LEMMA RevisionRejectedSafe ==
  ASSUME ProposalInvariant, RevisionRejected
  PROVE  ProposalInvariant'
<1> DEFINE refused == [type |-> "revision_rejected", id |-> thisId]
           s == <<refused>>
<1>1. ProposalTypeOK /\ lpc = "revise" /\ lpc # "idle"
  BY DEF ProposalInvariant, RevisionRejected
<1>2. refused \in Entry /\ ~IsRevision(refused)
  BY <1>1, CurrentProposal DEF Entry, IsRevision
<1>3. /\ log' = Append(log, refused) /\ index' = index + 1 /\ lpc' = "delta"
      /\ UNCHANGED <<proposals, state_id>>
  BY DEF RevisionRejected
<1> HIDE DEF refused
<1>4. s \in Seq(Entry) /\ \A n \in 1..Len(s) : ~IsRevision(s[n])
  BY <1>2, OneEntry
<1>5. log' = log \o s
  BY <1>1, <1>2, <1>3, AppendIsConcat DEF ProposalTypeOK
<1>6. index' \in Nat \ {0} /\ index <= index'
  BY <1>1, <1>3 DEF ProposalTypeOK
<1>7. ReadyToRevise'
  BY <1>3 DEF ReadyToRevise
<1> HIDE DEF s
<1> QED
  BY <1>1, <1>3, <1>4, <1>5, <1>6, <1>7, QuietStep

\* A tool call is judged, or asked about, and recorded.
LEMMA EvaluateCallSafe ==
  ASSUME ProposalInvariant, NEW verdict \in Verdicts, EvaluateCall(verdict)
  PROVE  ProposalInvariant'
<1> DEFINE judged == EvaluateToolCallPolicy(current.proposal.calls[index])
           evaluated(allowed) == [type |-> "tool_call", id |-> thisId,
                                  verdict |-> judged, allowed |-> allowed]
<1>1. ProposalTypeOK /\ lpc = "calls" /\ lpc # "idle"
      /\ index <= Len(current.proposal.calls)
  BY DEF ProposalInvariant, EvaluateCall
<1>2. judged \in {"allow", "deny", "requires_approval"}
  <2>1. current.proposal \in Proposals
    BY <1>1, CurrentProposal DEF Received
  <2>2. current.proposal.calls \in Seq(ToolRisk)
    BY <2>1, ProposalAssumption
  <2>3. index \in 1..Len(current.proposal.calls)
    BY <1>1, <2>2 DEF ProposalTypeOK
  <2>4. current.proposal.calls[index] \in ToolRisk
    BY <2>2, <2>3, ElementOfSeq
  <2> QED
    BY <2>4 DEF EvaluateToolCallPolicy, ToolRisk
<1>3. /\ IF judged = "requires_approval"
         THEN log' = log \o <<Decision(verdict), evaluated(verdict = "approved")>>
         ELSE log' = Append(log, evaluated(judged = "allow"))
      /\ index' = index + 1
      /\ UNCHANGED <<proposals, lpc, state_id>>
  BY DEF EvaluateCall
<1>4. ASSUME NEW allowed \in BOOLEAN
      PROVE  evaluated(allowed) \in Entry /\ ~IsRevision(evaluated(allowed))
  <2> HIDE DEF judged
  <2> QED
    BY <1>1, <1>2, CurrentProposal DEF Entry, IsRevision
<1>5. \E s \in Seq(Entry) : log' = log \o s /\ \A n \in 1..Len(s) : ~IsRevision(s[n])
  <2>1. CASE judged = "requires_approval"
    <3> DEFINE outcome == evaluated(verdict = "approved")
    <3>1. (verdict = "approved") \in BOOLEAN
      OBVIOUS
    <3>2. outcome \in Entry /\ ~IsRevision(outcome)
      BY <1>4, <3>1
    <3>3. log' = log \o <<Decision(verdict), outcome>>
      BY <1>3, <2>1
    <3> HIDE DEF outcome
    <3> QED
      BY <3>2, <3>3, DecisionTypes, TwoEntries
  <2>2. CASE judged # "requires_approval"
    <3> DEFINE outcome == evaluated(judged = "allow")
    <3>1. (judged = "allow") \in BOOLEAN
      OBVIOUS
    <3>2. outcome \in Entry /\ ~IsRevision(outcome)
      BY <1>4, <3>1
    <3>3. log' = Append(log, outcome)
      BY <1>3, <2>2
    <3> HIDE DEF outcome
    <3>4. log' = log \o <<outcome>>
      BY <1>1, <3>2, <3>3, AppendIsConcat DEF ProposalTypeOK
    <3> QED
      BY <3>2, <3>4, OneEntry
  <2> QED
    BY <2>1, <2>2
<1>6. index' \in Nat \ {0} /\ lpc' = "calls"
  BY <1>1, <1>3 DEF ProposalTypeOK
<1>7. ReadyToRevise'
  BY <1>6 DEF ReadyToRevise
<1> HIDE DEF judged
<1> QED
  BY <1>1, <1>3, <1>5, <1>6, <1>7, QuietStep

LEMMA FinishSafe ==
  ASSUME ProposalInvariant, Finish
  PROVE  ProposalInvariant'
<1> DEFINE processed == [type |-> "processed"]
           s == <<processed>>
<1>1. ProposalTypeOK /\ lpc # "idle"
  BY DEF ProposalInvariant, Finish
<1>2. processed \in Entry /\ ~IsRevision(processed)
  BY DEF Entry, IsRevision
<1>3. /\ log' = Append(log, processed) /\ lpc' = "idle"
      /\ UNCHANGED <<proposals, index, state_id>>
  BY DEF Finish
<1> HIDE DEF processed
<1>4. s \in Seq(Entry) /\ \A n \in 1..Len(s) : ~IsRevision(s[n])
  BY <1>2, OneEntry
<1>5. log' = log \o s
  BY <1>1, <1>2, <1>3, AppendIsConcat DEF ProposalTypeOK
<1>6. index' \in Nat \ {0} /\ ReadyToRevise'
  BY <1>1, <1>3 DEF ProposalTypeOK, ReadyToRevise
<1> HIDE DEF s
<1> QED
  BY <1>1, <1>3, <1>4, <1>5, <1>6, QuietStep

\* The steps that record nothing: the end of the deltas, and exceptions.
LEMMA SilentSafe ==
  ASSUME ProposalInvariant, DeltasDone \/ AskRaises \/ RevisionPolicyRaises
  PROVE  ProposalInvariant'
<1>1. /\ UNCHANGED <<log, proposals, state_id>>
      /\ lpc' \in {"idle", "calls"} /\ index' \in Nat \ {0}
  BY DEF DeltasDone, AskRaises, RevisionPolicyRaises, ProposalInvariant,
         ProposalTypeOK
<1>2. lpc # "idle"
  BY DEF DeltasDone, AskRaises, RevisionPolicyRaises, AtDelta
<1> QED
  BY <1>1, <1>2, SilentStep

LEMMA UnchangedSafe ==
  ASSUME ProposalInvariant, UNCHANGED proposalVars
  PROVE  ProposalInvariant'
<1>1. /\ log' = log /\ proposals' = proposals /\ lpc' = lpc /\ index' = index
      /\ state_id' = state_id
  BY DEF proposalVars
<1> QED
  BY <1>1
  DEF ProposalInvariant, ProposalTypeOK, RevisionsJudged, ReadyToRevise, Threaded,
      ReplayedContinue, RevisionsBehind, RevisionsOnce, JudgedTwice, ProposalOf,
      PatchOf, current, patches, delta, Asks, Commitment, thisId, Decision

--------------------------------------------------------------------------------
LEMMA ProposalStepSafe ==
  ASSUME ProposalInvariant, [ProposalNext]_proposalVars
  PROVE  ProposalInvariant'
<1>1. CASE UNCHANGED proposalVars
  BY <1>1, UnchangedSafe
<1>2. CASE \E proposal \in Proposals, provider \in Providers, start \in Starts :
             ReceiveProposal(proposal, provider, start)
  BY <1>2, ReceiveProposalSafe
<1>3. CASE ProposalStep
  BY <1>3, JudgeDeltaSafe, DecideDeltaSafe, ReviseModelSafe, RevisionRejectedSafe,
     EvaluateCallSafe, FinishSafe, SilentSafe
  DEF ProposalStep
<1> QED
  BY <1>1, <1>2, <1>3 DEF ProposalNext

\* The inductive invariant, for all outputs of a model, providers and starts.
THEOREM ProposalInvariantHolds == ProposalSpec => []ProposalInvariant
<1>1. ProposalInit => ProposalInvariant
  <2> SUFFICES ASSUME ProposalInit PROVE ProposalInvariant
    OBVIOUS
  <2>1. /\ log = <<>> /\ proposals = <<>> /\ lpc = "idle" /\ index = 1
        /\ state_id = 0
    BY DEF ProposalInit
  <2>2. ProposalTypeOK
    BY <2>1 DEF ProposalTypeOK
  <2>3. Len(log) = 0
    BY <2>1
  <2>4. RevisionsJudged /\ ReplayedContinue /\ RevisionsBehind /\ RevisionsOnce
    BY <2>3 DEF RevisionsJudged, ReplayedContinue, RevisionsBehind, RevisionsOnce
  <2>5. ReadyToRevise /\ Threaded
    BY <2>1 DEF ReadyToRevise, Threaded
  <2> QED
    BY <2>2, <2>4, <2>5 DEF ProposalInvariant
<1>2. ProposalInvariant /\ [ProposalNext]_proposalVars => ProposalInvariant'
  BY ProposalStepSafe
<1> QED
  BY <1>1, <1>2, PTL DEF ProposalSpec

\* Nothing a model proposes reaches the record as a revision unless it was
\* valid, passed the delta policy or was approved by a provider, has a
\* justification, and follows its own successful commitment (propose_from_llm).
THEOREM ProposalsJudgedTwice == ProposalSpec => []RevisionsJudged
<1>1. ProposalInvariant => RevisionsJudged
  BY DEF ProposalInvariant
<1> QED
  BY <1>1, ProposalInvariantHolds, PTL

\* No patch is revised twice, however many proposals share the log.
THEOREM ProposalsReviseOnce == ProposalSpec => []RevisionsOnce
<1>1. ProposalInvariant => RevisionsOnce
  BY DEF ProposalInvariant
<1> QED
  BY <1>1, ProposalInvariantHolds, PTL

--------------------------------------------------------------------------------
(* The record only grows, and so the proposals implement AuditedEvolution. *)

Evolution == INSTANCE AuditedEvolution WITH record <- log
ImplementsEvolution == Evolution!Spec

LEMMA ConcatExtends ==
  ASSUME NEW S, NEW T, NEW a \in Seq(S), NEW b \in Seq(T)
  PROVE  Len(a \o b) \in Nat /\ Extends(a \o b, a)
<1>1. a \in Seq(S \cup T) /\ b \in Seq(S \cup T)
  OBVIOUS
<1>2. /\ Len(a) \in Nat /\ Len(b) \in Nat
      /\ Len(a \o b) = Len(a) + Len(b)
      /\ \A n \in 1..(Len(a) + Len(b)) :
           (a \o b)[n] = IF n <= Len(a) THEN a[n] ELSE b[n - Len(a)]
  BY <1>1, LenProperties, ConcatProperties
<1> QED
  BY <1>2 DEF Extends

LEMMA AppendExtends ==
  ASSUME NEW S, NEW a \in Seq(S), NEW x
  PROVE  Len(Append(a, x)) \in Nat /\ Extends(Append(a, x), a)
<1>1. a \in Seq(S \cup {x}) /\ x \in S \cup {x}
  OBVIOUS
<1>2. /\ Len(a) \in Nat
      /\ Len(Append(a, x)) = Len(a) + 1
      /\ \A n \in 1..Len(a) : Append(a, x)[n] = a[n]
  BY <1>1, LenProperties, AppendProperties
<1> QED
  BY <1>2 DEF Extends

\* A commitment with what was decided before it, as Commit records them.
LEMMA CommitExtends ==
  ASSUME ProposalTypeOK, NEW entries, NEW allowed, Commit(entries, allowed),
         \/ entries = <<>>
         \/ \E verdict \in Verdicts : entries = <<Decision(verdict)>>
  PROVE  Len(log') \in Nat /\ Extends(log', log)
<1> DEFINE c == Commitment(allowed)
<1>1. log' = (log \o entries) \o <<c>>
  BY DEF Commit
<1>2. PICK T : entries \in Seq(T)
  <2>1. CASE entries = <<>>
    <3>1. entries \in Seq({})
      BY <2>1
    <3> QED
      BY <3>1
  <2>2. CASE \E verdict \in Verdicts : entries = <<Decision(verdict)>>
    <3>1. PICK verdict \in Verdicts : entries = <<Decision(verdict)>>
      BY <2>2
    <3>2. entries \in Seq({Decision(verdict)})
      BY <3>1
    <3> QED
      BY <3>2
  <2> QED
    BY <2>1, <2>2
<1>3. log \in Seq(Entry)
  BY DEF ProposalTypeOK
<1> HIDE DEF c
<1>4. <<c>> \in Seq({c})
  OBVIOUS
<1>5. log \o entries \in Seq(Entry \cup T)
  <2>1. log \in Seq(Entry \cup T) /\ entries \in Seq(Entry \cup T)
    BY <1>2, <1>3
  <2> QED
    BY <2>1, ConcatProperties
<1>6. /\ Len(log \o entries) \in Nat /\ Extends(log \o entries, log)
      /\ Len(log') \in Nat /\ Extends(log', log \o entries)
  BY <1>1, <1>2, <1>3, <1>4, <1>5, ConcatExtends
<1>7. Len(log) \in Nat
  BY <1>3, LenProperties
<1> QED
  BY <1>6, <1>7 DEF Extends

LEMMA ProposalGrows ==
  ASSUME ProposalTypeOK, [ProposalNext]_proposalVars
  PROVE  Len(log') \in Nat /\ Extends(log', log)
<1>1. log \in Seq(Entry) /\ Len(log) \in Nat
  BY LenProperties DEF ProposalTypeOK
<1>2. CASE log' = log
  BY <1>1, <1>2 DEF Extends
<1>3. ASSUME NEW x, log' = Append(log, x)
      PROVE  Len(log') \in Nat /\ Extends(log', log)
  BY <1>1, <1>3, AppendExtends
<1>4. ASSUME NEW x, NEW y, log' = log \o <<x, y>>
      PROVE  Len(log') \in Nat /\ Extends(log', log)
  <2>1. <<x, y>> \in Seq({x, y})
    OBVIOUS
  <2> QED
    BY <1>1, <1>4, <2>1, ConcatExtends
<1>5. CASE \E proposal \in Proposals, provider \in Providers, start \in Starts :
             ReceiveProposal(proposal, provider, start)
  BY <1>3, <1>4, <1>5 DEF ReceiveProposal
<1>6. CASE JudgeDelta
  BY <1>6, CommitExtends DEF JudgeDelta
<1>7. CASE \E verdict \in Verdicts : DecideDelta(verdict)
  BY <1>7, CommitExtends DEF DecideDelta
<1>8. CASE \E verdict \in Verdicts : EvaluateCall(verdict)
  BY <1>3, <1>4, <1>8 DEF EvaluateCall
<1>9. CASE ReviseModel \/ RevisionRejected \/ Finish
  BY <1>3, <1>9 DEF ReviseModel, RevisionRejected, Finish
<1>10. CASE AskRaises \/ RevisionPolicyRaises \/ DeltasDone \/ UNCHANGED proposalVars
  BY <1>2, <1>10 DEF AskRaises, RevisionPolicyRaises, DeltasDone, proposalVars
<1> QED
  BY <1>5, <1>6, <1>7, <1>8, <1>9, <1>10 DEF ProposalNext, ProposalStep

AllReplayed == \A p \in 1..Len(proposals) : proposals[p].replayed

LEMMA StartsStayReplayed ==
  ASSUME "default" \notin Starts, ProposalTypeOK, AllReplayed,
         [ProposalNext]_proposalVars
  PROVE  AllReplayed'
<1>1. CASE proposals' = proposals
  BY <1>1 DEF AllReplayed
<1>2. CASE \E proposal \in Proposals, provider \in Providers, start \in Starts :
             ReceiveProposal(proposal, provider, start)
  <2>1. PICK proposal \in Proposals, provider \in Providers, start \in Starts :
          ReceiveProposal(proposal, provider, start)
    BY <1>2
  <2>2. start = "replayed"
    BY ProposalAssumption
  <2> DEFINE r == [proposal |-> proposal, provider |-> provider, replayed |-> TRUE]
  <2>3. proposals' = Append(proposals, r)
    BY <2>1, <2>2 DEF ReceiveProposal
  <2>4. r \in Received /\ r.replayed
    BY DEF Received
  <2> HIDE DEF r
  <2>5. /\ Len(proposals) \in Nat /\ Len(proposals') = Len(proposals) + 1
        /\ \A p \in 1..Len(proposals) : proposals'[p] = proposals[p]
        /\ proposals'[Len(proposals) + 1] = r
    BY <2>3, <2>4, LenProperties, AppendProperties DEF ProposalTypeOK
  <2>6. \A p \in 1..Len(proposals') : p \in 1..Len(proposals) \/ p = Len(proposals) + 1
    BY <2>5
  <2> QED
    BY <2>4, <2>5, <2>6 DEF AllReplayed
<1>3. CASE ProposalStep \/ UNCHANGED proposalVars
  <2>1. proposals' = proposals
    BY <1>3
    DEF ProposalStep, proposalVars, JudgeDelta, DecideDelta, Commit, AskRaises,
        ReviseModel, RevisionRejected, RevisionPolicyRaises, DeltasDone,
        EvaluateCall, Finish
  <2> QED
    BY <1>1, <2>1
<1> QED
  BY <1>2, <1>3 DEF ProposalNext

\* Where every caller passes propose_from_llm the state the record replays to,
\* whatever a model proposes changes the world only by revisions that follow
\* their commitment and continue the replayed state.
THEOREM ReplayedProposalsImplementEvolution ==
  ASSUME "default" \notin Starts
  PROVE  ProposalSpec => ImplementsEvolution
<1>1. ProposalInit => Evolution!Init /\ AllReplayed
  BY DEF ProposalInit, Evolution!Init, AllReplayed
<1>2. ProposalInvariant /\ AllReplayed /\ [ProposalNext]_proposalVars => AllReplayed'
  BY StartsStayReplayed DEF ProposalInvariant
<1>3. /\ ProposalInvariant /\ ProposalInvariant' /\ AllReplayed'
      /\ [ProposalNext]_proposalVars
      => Evolution!Next
  <2> SUFFICES ASSUME ProposalInvariant, ProposalInvariant', AllReplayed',
                      [ProposalNext]_proposalVars
               PROVE  Evolution!Next
    OBVIOUS
  <2>1. ProposalTypeOK /\ RevisionsJudged' /\ ReplayedContinue'
    BY DEF ProposalInvariant
  <2>2. Len(log') \in Nat /\ Extends(log', log)
    BY <2>1, ProposalGrows
  <2>3. ASSUME NEW n \in 1..Len(log'), IsRevision(log'[n])
        PROVE  /\ CommittedBefore(log', n, log'[n].cause)
               /\ log'[n].prior = ReplayedAt(log', n - 1)
    <3>1. JudgedTwice(n)'
      BY <2>1, <2>3 DEF RevisionsJudged
    <3>2. /\ log'[n - 1]
               = [type |-> "commitment", id |-> log'[n].cause, success |-> TRUE]
          /\ n - 1 \in 1..(n - 1)
          /\ log'[n].cause.proposal \in 1..Len(proposals')
      BY <2>2, <3>1 DEF JudgedTwice
    <3>3. CommittedBefore(log', n, log'[n].cause)
      BY <3>2 DEF CommittedBefore
    <3>4. ProposalOf(n)'.replayed
      BY <3>2 DEF AllReplayed, ProposalOf
    <3> QED
      BY <2>1, <2>3, <3>3, <3>4 DEF ReplayedContinue
  <2>4. \A n \in (Len(log) + 1)..Len(log') : n \in 1..Len(log')
    <3>1. Len(log) \in Nat
      BY <2>1, LenProperties DEF ProposalTypeOK
    <3> QED
      BY <2>2, <3>1
  <2>5. \A n \in (Len(log) + 1)..Len(log') : Evolution!Justified(log', n)
    BY <2>3, <2>4
    DEF Evolution!Justified, Evolution!IsRevision, IsRevision,
        Evolution!CommittedBefore, CommittedBefore, Evolution!ReplayedAt,
        ReplayedAt, Evolution!RevisionsUpTo, RevisionsUpTo
  <2> QED
    BY <2>2, <2>5 DEF Evolution!Next, Evolution!Extends, Extends
<1> QED
  BY <1>1, <1>2, <1>3, ProposalInvariantHolds, PTL
  DEF ProposalSpec, ImplementsEvolution, Evolution!Spec

--------------------------------------------------------------------------------
(***************************************************************************)
(* What each proposal leaves on record, found by counting where proposals  *)
(* begin: everything it had to (ProposalsSettled), its revisions in one    *)
(* chain (StateChain).                                                     *)
(***************************************************************************)

\* A count of finitely many entries is a number.
LEMMA BegunType ==
  ASSUME NEW entries, NEW n \in Nat
  PROVE  /\ IsFiniteSet({m \in 1..n : entries[m].type = "received"})
         /\ Begun(entries, n) \in Nat
<1> DEFINE S == {m \in 1..n : entries[m].type = "received"}
<1>1. IsFiniteSet(1..n) /\ S \in SUBSET (1..n)
  BY FS_Interval
<1> HIDE DEF S
<1>2. IsFiniteSet(S)
  BY <1>1, FS_Subset
<1>3. Cardinality(S) \in Nat
  BY <1>2, FS_CardinalityType
<1> QED
  BY <1>2, <1>3 DEF Begun, S

\* An entry that begins a proposal is counted from its position on.
LEMMA BegunNext ==
  ASSUME NEW entries, NEW n \in Nat, entries[n + 1].type = "received"
  PROVE  Begun(entries, n + 1) = Begun(entries, n) + 1
<1> DEFINE S == {m \in 1..n : entries[m].type = "received"}
           T == {m \in 1..(n + 1) : entries[m].type = "received"}
<1>1. IsFiniteSet(S)
  BY BegunType
<1>2. n + 1 \notin S /\ T = S \cup {n + 1}
  OBVIOUS
<1>3. Begun(entries, n) = Cardinality(S) /\ Begun(entries, n + 1) = Cardinality(T)
  BY DEF Begun
<1> HIDE DEF S, T
<1>4. Cardinality(S \cup {n + 1}) = Cardinality(S) + 1
  BY <1>1, <1>2, FS_AddElement
<1> QED
  BY <1>2, <1>3, <1>4

\* Other entries are not.
LEMMA BegunOthers ==
  ASSUME NEW entries, NEW k \in Nat, NEW n \in Nat, k <= n,
         \A m \in (k + 1)..n : entries[m].type # "received"
  PROVE  Begun(entries, n) = Begun(entries, k)
<1>1. {m \in 1..n : entries[m].type = "received"}
        = {m \in 1..k : entries[m].type = "received"}
  OBVIOUS
<1> QED
  BY <1>1 DEF Begun

\* The count is about the entries counted and no others.
LEMMA BegunReadsPrefix ==
  ASSUME NEW entries, NEW others, NEW n \in Nat,
         \A m \in 1..n : entries[m] = others[m]
  PROVE  Begun(entries, n) = Begun(others, n)
<1>1. {m \in 1..n : entries[m].type = "received"}
        = {m \in 1..n : others[m].type = "received"}
  OBVIOUS
<1> QED
  BY <1>1 DEF Begun

\* The more entries, the more proposals they begin.
LEMMA BegunGrows ==
  ASSUME NEW entries, NEW k \in Nat, NEW n \in Nat, k <= n
  PROVE  Begun(entries, k) <= Begun(entries, n)
<1> DEFINE S == {m \in 1..k : entries[m].type = "received"}
           T == {m \in 1..n : entries[m].type = "received"}
<1>1. IsFiniteSet(T)
  BY BegunType
<1>2. S \in SUBSET T
  OBVIOUS
<1>3. Begun(entries, k) = Cardinality(S) /\ Begun(entries, n) = Cardinality(T)
  BY DEF Begun
<1> HIDE DEF S, T
<1> QED
  BY <1>1, <1>2, <1>3, FS_Subset

\* The log has begun as many proposals as were received.
Counted == Begun(log, Len(log)) = Len(proposals)

\* A revision stands among the entries of the proposal it is for.
RevisionsInPlace ==
  \A n \in 1..Len(log) :
    IsRevision(log[n]) => Begun(log, n) = log[n].cause.proposal

\* The state the next revision starts from, with or without a replayed start.
StateAtHand ==
  lpc # "idle" =>
    state_id = IF \/ current.replayed
                  \/ \E n \in Written(Len(proposals)) : IsRevision(log[n])
               THEN ReplayedState(log) ELSE 0

\* The deltas of the current proposal that have their commitment, and the calls
\* that were evaluated.
Judged == IF lpc = "calls" THEN Len(patches)
          ELSE IF lpc = "revise" THEN index ELSE index - 1
Evaluated == IF lpc = "calls" THEN index - 1 ELSE 0

\* What is on record of a proposal that is under way.
OpenOnRecord ==
  lpc # "idle" =>
    /\ \A n \in Written(Len(proposals)) : log[n].type # "processed"
    /\ Indexes(Len(proposals), "commitment") = 1..Judged
    /\ Indexes(Len(proposals), "tool_call") = 1..Evaluated
    /\ lpc = "delta" => index <= Len(patches) + 1
    /\ lpc = "calls" => index <= Len(current.proposal.calls) + 1

\* What holds of the record whenever propose_from_llm is at rest or under way.
RecordInvariant ==
  /\ Counted
  /\ RevisionsInPlace
  /\ StateAtHand
  /\ StateChain
  /\ OpenOnRecord
  /\ ProposalsSettled

\* A step writes an entry, and at most a decision before it.
Adds(entry) ==
  \/ log' = Append(log, entry)
  \/ \E verdict \in Verdicts : log' = log \o <<Decision(verdict), entry>>

\* The positions of the entries of a step.
LEMMA AddsShape ==
  ASSUME log \in Seq(Entry), NEW entry \in Entry, Adds(entry)
  PROVE  /\ Len(log) \in Nat /\ Len(log') \in Nat /\ Len(log) < Len(log')
         /\ \A n \in 1..Len(log) : log'[n] = log[n]
         /\ \A n \in (Len(log) + 1)..Len(log') :
              n = Len(log') \/ log'[n].type = "approval"
         /\ log'[Len(log')] = entry
<1>1. CASE log' = Append(log, entry)
  <2>1. /\ Len(log) \in Nat /\ Len(log') = Len(log) + 1
        /\ \A n \in 1..Len(log) : log'[n] = log[n]
        /\ log'[Len(log) + 1] = entry
    BY <1>1, LenProperties, AppendProperties
  <2> QED
    BY <2>1
<1>2. CASE \E verdict \in Verdicts : log' = log \o <<Decision(verdict), entry>>
  <2>1. PICK verdict \in Verdicts : log' = log \o <<Decision(verdict), entry>>
    BY <1>2
  <2>2. PICK decision \in Entry :
          decision = Decision(verdict) /\ decision.type = "approval"
    BY DecisionTypes DEF Decision
  <2>3. PICK s \in Seq(Entry) : s = <<decision, entry>>
    <3>1. <<decision, entry>> \in Seq(Entry)
      OBVIOUS
    <3> QED
      BY <3>1
  <2>4. Len(s) = 2 /\ s[1] = decision /\ s[2] = entry
    BY <2>3
  <2>5. /\ Len(log) \in Nat /\ Len(log') = Len(log) + 2
        /\ \A n \in 1..(Len(log) + 2) :
             log'[n] = IF n <= Len(log) THEN log[n] ELSE s[n - Len(log)]
    BY <2>1, <2>2, <2>3, <2>4, LenProperties, ConcatProperties
  <2>6. log'[Len(log) + 1] = decision /\ log'[Len(log) + 2] = entry
    <3>1. (Len(log) + 1) - Len(log) = 1 /\ (Len(log) + 2) - Len(log) = 2
      BY <2>5
    <3> QED
      BY <2>4, <2>5, <3>1
  <2>7. \A n \in (Len(log) + 1)..Len(log') : n = Len(log') \/ n = Len(log) + 1
    BY <2>5
  <2> QED
    BY <2>2, <2>5, <2>6, <2>7
<1> QED
  BY <1>1, <1>2 DEF Adds

\* The entries of a step belong to the proposal under way.
LEMMA AddsWritten ==
  ASSUME ProposalTypeOK, Counted, NEW entry \in Entry, Adds(entry),
         entry.type # "received", proposals' = proposals
  PROVE  /\ Counted'
         /\ \A n \in 1..Len(log) : Begun(log', n) = Begun(log, n)
         /\ \A n \in (Len(log) + 1)..Len(log') : Begun(log', n) = Len(proposals)
         /\ Written(Len(proposals))'
              = Written(Len(proposals)) \cup ((Len(log) + 1)..Len(log'))
         /\ \A p : p # Len(proposals) => Written(p)' = Written(p)
<1>1. /\ Len(log) \in Nat /\ Len(log') \in Nat /\ Len(log) < Len(log')
      /\ \A n \in 1..Len(log) : log'[n] = log[n]
      /\ \A n \in (Len(log) + 1)..Len(log') :
           n = Len(log') \/ log'[n].type = "approval"
      /\ log'[Len(log')] = entry
  BY AddsShape DEF ProposalTypeOK
<1>2. ASSUME NEW n \in 0..Len(log)
      PROVE  Begun(log', n) = Begun(log, n)
  <2>1. n \in Nat /\ \A m \in 1..n : log'[m] = log[m]
    BY <1>1
  <2> QED
    BY <2>1, BegunReadsPrefix
<1>3. ASSUME NEW n \in (Len(log) + 1)..Len(log')
      PROVE  Begun(log', n) = Len(proposals)
  <2>1. n \in Nat /\ Len(log) <= n
        /\ \A m \in (Len(log) + 1)..n : log'[m].type # "received"
    BY <1>1
  <2>2. Begun(log', n) = Begun(log', Len(log))
    BY <1>1, <2>1, BegunOthers
  <2> QED
    BY <1>1, <1>2, <2>2 DEF Counted
<1>4. Counted'
  BY <1>1, <1>3 DEF Counted
<1>5. /\ \A n \in 1..Len(log') :
           n \in 1..Len(log) \/ n \in (Len(log) + 1)..Len(log')
      /\ \A n \in 1..Len(log) : n \in 1..Len(log')
      /\ \A n \in (Len(log) + 1)..Len(log') : n \in 1..Len(log')
  BY <1>1
<1>6. \A p : Written(p)' = {n \in 1..Len(log') : Begun(log', n) = p}
  BY DEF Written
<1>7. \A p : Written(p) = {n \in 1..Len(log) : Begun(log, n) = p}
  BY DEF Written
<1>8. Written(Len(proposals))'
        = Written(Len(proposals)) \cup ((Len(log) + 1)..Len(log'))
  BY <1>1, <1>2, <1>3, <1>5, <1>6, <1>7
<1>9. ASSUME NEW p, p # Len(proposals)
      PROVE  Written(p)' = Written(p)
  <2>1. \A n \in Written(p)' : n \in Written(p)
    BY <1>1, <1>2, <1>3, <1>5, <1>6, <1>7, <1>9
  <2>2. \A n \in Written(p) : n \in Written(p)'
    BY <1>1, <1>2, <1>5, <1>6, <1>7
  <2> QED
    BY <2>1, <2>2
<1> QED
  BY <1>1, <1>2, <1>3, <1>4, <1>8, <1>9

\* What a proposal under way has entries about grows with the entry added.
LEMMA AddsIndexes ==
  ASSUME ProposalTypeOK, Counted, NEW entry \in Entry, Adds(entry),
         entry.type # "received", proposals' = proposals,
         NEW type, type # "approval"
  PROVE  Indexes(Len(proposals), type)' =
           Indexes(Len(proposals), type)
             \cup {i \in {entry.id.index} : entry.type = type}
<1> DEFINE S == {n \in Written(Len(proposals)) : log[n].type = type}
           T == {n \in Written(Len(proposals))' : log'[n].type = type}
<1>1. /\ Len(log) \in Nat /\ Len(log') \in Nat /\ Len(log) < Len(log')
      /\ \A n \in 1..Len(log) : log'[n] = log[n]
      /\ \A n \in (Len(log) + 1)..Len(log') :
           n = Len(log') \/ log'[n].type = "approval"
      /\ log'[Len(log')] = entry
  BY AddsShape DEF ProposalTypeOK
<1>2. Written(Len(proposals))'
        = Written(Len(proposals)) \cup ((Len(log) + 1)..Len(log'))
  BY AddsWritten
<1>3. \A n \in Written(Len(proposals)) : n \in 1..Len(log)
  BY DEF Written
<1>4. T = S \cup {n \in {Len(log')} : entry.type = type}
  <2>1. \A n \in S : n \in T
    BY <1>1, <1>2, <1>3
  <2>2. entry.type = type => Len(log') \in T
    BY <1>1, <1>2
  <2>3. \A n \in T : n \in S \/ (n = Len(log') /\ entry.type = type)
    BY <1>1, <1>2, <1>3
  <2> HIDE DEF S, T
  <2> QED
    BY <2>1, <2>2, <2>3
<1>5. \A n \in S : log'[n] = log[n]
  BY <1>1, <1>3
<1>6. /\ Indexes(Len(proposals), type) = {log[n].id.index : n \in S}
      /\ Indexes(Len(proposals), type)' = {log'[n].id.index : n \in T}
  BY DEF Indexes
<1> HIDE DEF S, T
<1> QED
  BY <1>1, <1>4, <1>5, <1>6

--------------------------------------------------------------------------------
(* What earlier proposals left stays as it is.                             *)

\* A proposal stays settled whatever is recorded of others.
LEMMA SettledStays ==
  ASSUME NEW p, Written(p)' = Written(p), proposals'[p] = proposals[p],
         \A n \in Written(p) : log'[n] = log[n], Settled(p)
  PROVE  Settled(p)'
<1>1. \A type : Indexes(p, type)' = Indexes(p, type)
  BY DEF Indexes
<1>2. MayRaise(p)' = MayRaise(p)
  BY DEF MayRaise
<1> QED
  BY <1>1, <1>2 DEF Settled

\* What StateChain says of one revision.
Chained(n) ==
  log[n].prior = IF /\ \A m \in Written(log[n].cause.proposal) :
                         m < n => ~IsRevision(log[m])
                    /\ ~ProposalOf(n).replayed
                 THEN 0 ELSE ReplayedAt(log, n - 1)

\* A revision keeps its place in the chain of its proposal.
LEMMA ChainStays ==
  ASSUME ProposalInvariant, ProposalsStay, RevisionsInPlace, StateChain,
         Len(log) \in Nat, Len(log') \in Nat, Len(log) <= Len(log'),
         \A n \in 1..Len(log) : log'[n] = log[n]
  PROVE  \A n \in 1..Len(log) : IsRevision(log'[n]) =>
           /\ Chained(n)'
           /\ Begun(log', n) = log'[n].cause.proposal
<1> SUFFICES ASSUME NEW n \in 1..Len(log), IsRevision(log'[n])
             PROVE  /\ Chained(n)'
                    /\ Begun(log', n) = log'[n].cause.proposal
  OBVIOUS
<1>1. log'[n] = log[n] /\ IsRevision(log[n])
  OBVIOUS
<1>2. Chained(n) /\ Begun(log, n) = log[n].cause.proposal
  BY <1>1 DEF StateChain, Chained, ProposalOf, RevisionsInPlace
<1>3. \A m \in 0..Len(log) : Begun(log', m) = Begun(log, m)
  <2> TAKE m \in 0..Len(log)
  <2>1. m \in Nat /\ \A i \in 1..m : log'[i] = log[i]
    OBVIOUS
  <2> QED
    BY <2>1, BegunReadsPrefix
<1>4. ProposalOf(n)' = ProposalOf(n)
  <2>1. log[n].cause.proposal \in 1..Len(proposals)
    BY <1>1 DEF ProposalInvariant, RevisionsJudged, JudgedTwice
  <2> QED
    BY <1>1, <2>1 DEF ProposalOf, ProposalsStay
<1>5. ReplayedAt(log', n - 1) = ReplayedAt(log, n - 1)
  <2>1. n - 1 \in Nat /\ \A m \in 1..(n - 1) : log'[m] = log[m]
    OBVIOUS
  <2> QED
    BY <2>1, ReplayReadsPrefix
<1>6. \A p, m : m < n => (m \in Written(p)' <=> m \in Written(p))
  <2> TAKE p, m
  <2> HAVE m < n
  <2>1. m \in 1..Len(log') /\ m < n => m \in 1..Len(log)
    OBVIOUS
  <2>2. m \in 1..Len(log) => m \in 1..Len(log')
    OBVIOUS
  <2> QED
    BY <1>3, <2>1, <2>2 DEF Written
<1>7. PICK p : p = log[n].cause.proposal
  OBVIOUS
<1>8. (\A m \in Written(p)' : m < n => ~IsRevision(log'[m]))
        <=> (\A m \in Written(p) : m < n => ~IsRevision(log[m]))
  <2>1. \A m \in Written(p) : log'[m] = log[m]
    BY DEF Written
  <2>2. \A m \in Written(p)' : m < n => log'[m] = log[m]
    BY <1>6, <2>1
  <2> QED
    BY <1>6, <2>1, <2>2
<1>9. log[n].prior = IF /\ \A m \in Written(p) : m < n => ~IsRevision(log[m])
                        /\ ~ProposalOf(n).replayed
                     THEN 0 ELSE ReplayedAt(log, n - 1)
  BY <1>2, <1>7 DEF Chained
<1>10. log'[n].prior = IF /\ \A m \in Written(p)' : m < n => ~IsRevision(log'[m])
                          /\ ~ProposalOf(n)'.replayed
                       THEN 0 ELSE ReplayedAt(log', n - 1)
  BY <1>1, <1>4, <1>5, <1>8, <1>9
<1>11. Chained(n)'
  BY <1>1, <1>7, <1>10 DEF Chained
<1> QED
  BY <1>1, <1>2, <1>3, <1>11

--------------------------------------------------------------------------------
(* Steps of the proposal under way.                                        *)

\* What the record replays to before and after the entry of a step.
LEMMA AddsReplay ==
  ASSUME ProposalTypeOK, NEW entry \in Entry, Adds(entry)
  PROVE  /\ \A n \in (Len(log) + 1)..Len(log') :
              n = Len(log') \/ ~IsRevision(log'[n])
         /\ ReplayedAt(log', Len(log') - 1) = ReplayedState(log)
         /\ ReplayedState(log') =
              IF IsRevision(entry) THEN entry.result ELSE ReplayedState(log)
<1>1. /\ Len(log) \in Nat /\ Len(log') \in Nat /\ Len(log) < Len(log')
      /\ \A n \in 1..Len(log) : log'[n] = log[n]
      /\ \A n \in (Len(log) + 1)..Len(log') :
           n = Len(log') \/ log'[n].type = "approval"
      /\ log'[Len(log')] = entry
  BY AddsShape DEF ProposalTypeOK
<1>2. \A n \in (Len(log) + 1)..Len(log') : n = Len(log') \/ ~IsRevision(log'[n])
  BY <1>1 DEF IsRevision
<1>3. ReplayedAt(log', Len(log)) = ReplayedState(log)
  BY <1>1, ReplayReadsPrefix DEF ReplayedState
<1>4. PICK k \in Nat : k = Len(log') - 1
  BY <1>1
<1>5. ReplayedAt(log', k) = ReplayedAt(log', Len(log))
  <2>1. Len(log) <= k /\ \A n \in (Len(log) + 1)..k : ~IsRevision(log'[n])
    BY <1>1, <1>2, <1>4
  <2> QED
    BY <1>1, <2>1, ReplaySkipsOthers
<1>6. CASE IsRevision(entry)
  <2>1. ReplayedAt(log', Len(log')) = log'[Len(log')].result
    BY <1>1, <1>6, ReplayEndsInRevision
  <2> QED
    BY <1>1, <1>2, <1>3, <1>4, <1>5, <1>6, <2>1 DEF ReplayedState
<1>7. CASE ~IsRevision(entry)
  <2>1. \A n \in (Len(log) + 1)..Len(log') : ~IsRevision(log'[n])
    BY <1>1, <1>2, <1>7
  <2>2. ReplayedAt(log', Len(log')) = ReplayedAt(log', Len(log))
    BY <1>1, <2>1, ReplaySkipsOthers
  <2> QED
    BY <1>2, <1>3, <1>4, <1>5, <1>7, <2>2 DEF ReplayedState
<1> QED
  BY <1>6, <1>7

\* What is on record of earlier proposals, and of the revisions made.
LEMMA AddsKeep ==
  ASSUME ProposalInvariant, RecordInvariant, lpc # "idle",
         NEW entry \in Entry, Adds(entry), entry.type # "received",
         proposals' = proposals
  PROVE  /\ Counted'
         /\ \A n \in 1..Len(log) : IsRevision(log'[n]) =>
              /\ Chained(n)'
              /\ Begun(log', n) = log'[n].cause.proposal
         /\ \A p \in 1..Len(proposals) : p < Len(proposals) => Settled(p)'
<1>1. ProposalTypeOK /\ Counted
  BY DEF ProposalInvariant, RecordInvariant
<1>2. /\ Len(log) \in Nat /\ Len(log') \in Nat /\ Len(log) < Len(log')
      /\ \A n \in 1..Len(log) : log'[n] = log[n]
  BY <1>1, AddsShape DEF ProposalTypeOK
<1>3. ProposalsStay /\ Len(proposals) \in Nat
  BY <1>1, CurrentProposal DEF ProposalsStay, ProposalTypeOK
<1>4. \A n \in 1..Len(log) : IsRevision(log'[n]) =>
        /\ Chained(n)'
        /\ Begun(log', n) = log'[n].cause.proposal
  BY <1>2, <1>3, ChainStays DEF RecordInvariant
<1>5. ASSUME NEW p \in 1..Len(proposals), p < Len(proposals)
      PROVE  Settled(p)'
  <2>1. Written(p)' = Written(p)
    BY <1>1, <1>3, <1>5, AddsWritten
  <2>2. Settled(p)
    BY <1>5 DEF RecordInvariant, ProposalsSettled
  <2>3. \A n \in Written(p) : log'[n] = log[n]
    BY <1>2 DEF Written
  <2> QED
    BY <2>1, <2>2, <2>3, SettledStays
<1> QED
  BY <1>1, <1>4, <1>5, AddsWritten

\* A step that adds an entry that is no revision leaves the chain as it is.
LEMMA AddsQuiet ==
  ASSUME ProposalInvariant, RecordInvariant, lpc # "idle",
         NEW entry \in Entry, Adds(entry), entry.type # "received",
         ~IsRevision(entry), UNCHANGED <<proposals, state_id>>
  PROVE  /\ Counted' /\ RevisionsInPlace' /\ StateAtHand' /\ StateChain'
         /\ \A p \in 1..Len(proposals) : p < Len(proposals) => Settled(p)'
<1>1. ProposalTypeOK /\ Counted /\ StateAtHand
  BY DEF ProposalInvariant, RecordInvariant
<1>2. /\ Len(log) \in Nat /\ Len(log') \in Nat /\ Len(log) < Len(log')
      /\ \A n \in 1..Len(log) : log'[n] = log[n]
      /\ log'[Len(log')] = entry
  BY <1>1, AddsShape DEF ProposalTypeOK
<1>3. /\ \A n \in (Len(log) + 1)..Len(log') : ~IsRevision(log'[n])
      /\ ReplayedState(log') = ReplayedState(log)
  BY <1>1, <1>2, AddsReplay
<1>4. \A n \in 1..Len(log') : IsRevision(log'[n]) =>
        n \in 1..Len(log) /\ Chained(n)' /\ Begun(log', n) = log'[n].cause.proposal
  BY <1>2, <1>3, AddsKeep
<1>5. RevisionsInPlace'
  BY <1>4 DEF RevisionsInPlace
<1>6. StateChain'
  BY <1>4 DEF StateChain, Chained, ProposalOf
<1>7. (\E n \in Written(Len(proposals))' : IsRevision(log'[n]))
        <=> (\E n \in Written(Len(proposals)) : IsRevision(log[n]))
  <2>1. Written(Len(proposals))'
          = Written(Len(proposals)) \cup ((Len(log) + 1)..Len(log'))
    BY <1>1, AddsWritten
  <2>2. \A n \in Written(Len(proposals)) : log'[n] = log[n]
    BY <1>2 DEF Written
  <2> QED
    BY <1>3, <2>1, <2>2
<1>8. StateAtHand'
  <2>1. current' = current
    BY DEF current
  <2>2. state_id = IF \/ current.replayed
                      \/ \E n \in Written(Len(proposals)) : IsRevision(log[n])
                   THEN ReplayedState(log) ELSE 0
    BY <1>1 DEF StateAtHand
  <2> QED
    BY <1>3, <1>7, <2>1, <2>2 DEF StateAtHand
<1> QED
  BY <1>5, <1>6, <1>8, AddsKeep

\* A step that adds nothing leaves everything as it is but the control.
LEMMA SilentRecord ==
  ASSUME ProposalInvariant, RecordInvariant, lpc # "idle",
         UNCHANGED <<log, proposals, state_id>>
  PROVE  /\ Counted' /\ RevisionsInPlace' /\ StateAtHand' /\ StateChain'
         /\ \A p \in 1..Len(proposals) : p < Len(proposals) => Settled(p)'
         /\ \A p : Written(p)' = Written(p)
         /\ \A p, type : Indexes(p, type)' = Indexes(p, type)
<1>1. \A p : Written(p)' = Written(p)
  BY DEF Written
<1>2. \A p, type : Indexes(p, type)' = Indexes(p, type)
  BY <1>1 DEF Indexes
<1>3. ASSUME NEW p \in 1..Len(proposals), p < Len(proposals)
      PROVE  Settled(p)'
  BY <1>1, <1>3, SettledStays DEF RecordInvariant, ProposalsSettled
<1>4. Counted' /\ RevisionsInPlace'
  BY DEF RecordInvariant, Counted, RevisionsInPlace
<1>5. StateAtHand'
  BY <1>1 DEF RecordInvariant, StateAtHand, current
<1>6. StateChain'
  BY <1>1 DEF RecordInvariant, StateChain
<1> QED
  BY <1>1, <1>2, <1>3, <1>4, <1>5, <1>6

\* What is left to show of a step of the proposal under way.
LEMMA RecordSuffices ==
  ASSUME ProposalTypeOK, lpc # "idle", proposals' = proposals,
         Counted' /\ RevisionsInPlace' /\ StateAtHand' /\ StateChain',
         \A p \in 1..Len(proposals) : p < Len(proposals) => Settled(p)',
         OpenOnRecord', lpc' = "idle" => Settled(Len(proposals))'
  PROVE  RecordInvariant'
<1>1. ProposalsSettled'
  <2> SUFFICES ASSUME NEW p \in 1..Len(proposals'),
                      p < Len(proposals') \/ lpc' = "idle"
               PROVE  Settled(p)'
    BY DEF ProposalsSettled
  <2>1. Len(proposals) \in Nat \ {0} /\ (p = Len(proposals) \/ p < Len(proposals))
    BY CurrentProposal
  <2>2. CASE p < Len(proposals)
    BY <2>2
  <2>3. CASE p = Len(proposals) /\ ~(p < Len(proposals))
    <3>1. Settled(Len(proposals))'
      BY <2>3
    <3>2. p = Len(proposals)'
      BY <2>3
    <3> QED
      BY <3>1, <3>2
  <2> QED
    BY <2>1, <2>2, <2>3
<1> QED
  BY <1>1 DEF RecordInvariant

\* A proposal is processed with its last entry and none before.
LEMMA AddsUnprocessed ==
  ASSUME ProposalTypeOK, Counted, NEW entry \in Entry, Adds(entry),
         entry.type # "received", proposals' = proposals,
         \A n \in Written(Len(proposals)) : log[n].type # "processed"
  PROVE  /\ \A n \in Written(Len(proposals))' : n <= Len(log')
         /\ Len(log') \in Written(Len(proposals))'
         /\ \A n \in Written(Len(proposals))' :
              log'[n].type = "processed" <=> n = Len(log') /\ entry.type = "processed"
<1>1. /\ Len(log) \in Nat /\ Len(log') \in Nat /\ Len(log) < Len(log')
      /\ \A n \in 1..Len(log) : log'[n] = log[n]
      /\ \A n \in (Len(log) + 1)..Len(log') :
           n = Len(log') \/ log'[n].type = "approval"
      /\ log'[Len(log')] = entry
  BY AddsShape DEF ProposalTypeOK
<1>2. Written(Len(proposals))'
        = Written(Len(proposals)) \cup ((Len(log) + 1)..Len(log'))
  BY AddsWritten
<1>3. \A n \in Written(Len(proposals)) : n \in 1..Len(log) /\ log'[n] = log[n]
  BY <1>1 DEF Written
<1> QED
  BY <1>1, <1>2, <1>3

\* A pair is made of two sequences of one element.
LEMMA PairOfSingles ==
  ASSUME NEW S, NEW a \in S, NEW b \in S
  PROVE  <<a>> \o <<b>> = <<a, b>>
<1>1. <<a>> \in Seq(S) /\ <<b>> \in Seq(S) /\ <<a, b>> \in Seq(S)
  OBVIOUS
<1>2. Len(<<a>>) = 1 /\ Len(<<b>>) = 1 /\ Len(<<a, b>>) = 2
  OBVIOUS
<1>3. /\ <<a>> \o <<b>> \in Seq(S) /\ Len(<<a>> \o <<b>>) = 2
      /\ (<<a>> \o <<b>>)[1] = a /\ (<<a>> \o <<b>>)[2] = b
  BY <1>1, <1>2, ConcatProperties
<1>4. \A n \in 1..2 : n = 1 \/ n = 2
  OBVIOUS
<1>5. \A n \in 1..2 : (<<a>> \o <<b>>)[n] = <<a, b>>[n]
  BY <1>3, <1>4
<1> QED
  BY <1>1, <1>2, <1>3, <1>5, SeqEqual

\* A commitment: one more delta of the proposal has its own.
LEMMA CommitRecord ==
  ASSUME ProposalInvariant, RecordInvariant, lpc = "delta", index \in 1..Len(patches),
         NEW entries, NEW allowed \in BOOLEAN, Commit(entries, allowed),
         entries = <<>> \/ \E verdict \in Verdicts : entries = <<Decision(verdict)>>
  PROVE  RecordInvariant'
<1>1. ProposalTypeOK /\ lpc # "idle" /\ log \in Seq(Entry)
  BY DEF ProposalInvariant, ProposalTypeOK
<1>2. PICK c \in Entry :
        /\ c = Commitment(allowed) /\ ~IsRevision(c)
        /\ c.type = "commitment" /\ c.id.index = index
  <2>1. Commitment(allowed) \in Entry /\ ~IsRevision(Commitment(allowed))
    BY <1>1, WrittenTypes
  <2> QED
    BY <2>1 DEF Commitment, thisId
<1>3. /\ log' = (log \o entries) \o <<c>>
      /\ UNCHANGED <<proposals, state_id>>
      /\ lpc' = IF allowed THEN "revise" ELSE "delta"
      /\ index' = IF allowed THEN index ELSE index + 1
  BY <1>2 DEF Commit
<1>4. Adds(c)
  <2>1. <<c>> \in Seq(Entry)
    OBVIOUS
  <2>2. CASE entries = <<>>
    <3>1. log \o entries = log
      BY <1>1, <2>2, ConcatEmptySeq
    <3>2. log \o <<c>> = Append(log, c)
      BY <1>1, AppendIsConcat
    <3> QED
      BY <1>3, <3>1, <3>2 DEF Adds
  <2>3. CASE \E verdict \in Verdicts : entries = <<Decision(verdict)>>
    <3>1. PICK verdict \in Verdicts : entries = <<Decision(verdict)>>
      BY <2>3
    <3>2. PICK d \in Entry : d = Decision(verdict)
      BY DecisionTypes
    <3>3. <<d>> \in Seq(Entry) /\ <<d>> \o <<c>> = <<d, c>>
      <4>1. <<d>> \in Seq(Entry)
        OBVIOUS
      <4> QED
        BY <4>1, PairOfSingles
    <3>4. (log \o <<d>>) \o <<c>> = log \o (<<d>> \o <<c>>)
      BY <1>1, <2>1, <3>3, ConcatAssociative
    <3> QED
      BY <1>3, <3>1, <3>2, <3>3, <3>4 DEF Adds
  <2> QED
    BY <2>2, <2>3
<1>5. /\ Counted' /\ RevisionsInPlace' /\ StateAtHand' /\ StateChain'
      /\ \A p \in 1..Len(proposals) : p < Len(proposals) => Settled(p)'
  BY <1>1, <1>2, <1>3, <1>4, AddsQuiet
<1>6. /\ Indexes(Len(proposals), "commitment")'
           = Indexes(Len(proposals), "commitment") \cup {index}
      /\ Indexes(Len(proposals), "tool_call")' = Indexes(Len(proposals), "tool_call")
  <2>1. Counted
    BY DEF RecordInvariant
  <2>2. {i \in {c.id.index} : c.type = "commitment"} = {index}
        /\ {i \in {c.id.index} : c.type = "tool_call"} = {}
    BY <1>2
  <2>3. \A type : type # "approval" =>
          Indexes(Len(proposals), type)' =
            Indexes(Len(proposals), type) \cup {i \in {c.id.index} : c.type = type}
    BY <1>1, <1>2, <1>3, <1>4, <2>1, AddsIndexes
  <2> QED
    BY <2>2, <2>3
<1>7. OpenOnRecord'
  <2>1. /\ \A n \in Written(Len(proposals)) : log[n].type # "processed"
        /\ Indexes(Len(proposals), "commitment") = 1..(index - 1)
        /\ Indexes(Len(proposals), "tool_call") = 1..0
    BY <1>1 DEF RecordInvariant, OpenOnRecord, Judged, Evaluated
  <2>2. current' = current /\ Len(patches)' = Len(patches)
    BY <1>3 DEF current, patches
  <2>3. \A n \in Written(Len(proposals))' : log'[n].type # "processed"
    BY <1>1, <1>2, <1>3, <1>4, <2>1, AddsUnprocessed DEF RecordInvariant
  <2>4. index \in Nat \ {0} /\ Len(patches) \in Nat
    BY <1>1, CurrentProposal DEF ProposalTypeOK
  <2>5. 1..(index - 1) \cup {index} = 1..index
    BY <2>4
  <2>6. Judged' = index /\ Evaluated' = 0
    BY <1>3, <2>4 DEF Judged, Evaluated
  <2>7. Indexes(Len(proposals), "commitment")' = 1..Judged'
        /\ Indexes(Len(proposals), "tool_call")' = 1..Evaluated'
    BY <1>6, <2>1, <2>5, <2>6
  <2>8. lpc' = "delta" => index' <= Len(patches) + 1
    BY <1>3, <2>4
  <2>9. lpc' # "calls" /\ Len(proposals)' = Len(proposals)
    BY <1>3
  <2> QED
    BY <2>2, <2>3, <2>7, <2>8, <2>9 DEF OpenOnRecord
<1>8. lpc' # "idle"
  BY <1>3
<1> QED
  BY <1>1, <1>3, <1>5, <1>7, <1>8, RecordSuffices

\* A revision continues the chain of its proposal.
LEMMA ReviseRecord ==
  ASSUME ProposalInvariant, RecordInvariant, ReviseModel
  PROVE  RecordInvariant'
<1>1. /\ ProposalTypeOK /\ lpc = "revise" /\ lpc # "idle"
      /\ log \in Seq(Entry) /\ Counted
  BY DEF ProposalInvariant, ProposalTypeOK, RecordInvariant, ReviseModel
<1>2. index \in 1..Len(patches)
  BY <1>1 DEF ProposalInvariant, ReadyToRevise
<1>3. PICK r \in Entry :
        /\ r = Revision /\ IsRevision(r) /\ r.type = "revision"
        /\ r.cause.proposal = Len(proposals)
        /\ r.prior = state_id /\ r.result = state_id + 1
  <2>1. <<delta>> \in Seq(Deltas) /\ thisId \in Ids /\ state_id \in Nat
    <3>1. delta \in Deltas
      BY <1>1, <1>2, CurrentDelta
    <3> QED
      BY <1>1, <3>1, CurrentProposal DEF ProposalTypeOK
  <2>2. Revision \in Entry
    BY <2>1 DEF Revision, Entry, RevisionEntry
  <2> QED
    BY <2>2 DEF Revision, IsRevision, thisId
<1>4. /\ log' = Append(log, r) /\ state_id' = state_id + 1
      /\ index' = index + 1 /\ lpc' = "delta" /\ proposals' = proposals
  BY <1>3 DEF ReviseModel
<1>5. Adds(r)
  BY <1>4 DEF Adds
<1>6. /\ Len(log) \in Nat /\ Len(log') = Len(log) + 1
      /\ \A n \in 1..Len(log) : log'[n] = log[n]
      /\ log'[Len(log')] = r
  BY <1>1, <1>4, AppendProperties, LenProperties
<1>7. /\ ReplayedAt(log', Len(log') - 1) = ReplayedState(log)
      /\ ReplayedState(log') = state_id + 1
  BY <1>1, <1>3, <1>5, AddsReplay
<1>8. /\ Counted'
      /\ \A n \in 1..Len(log) : IsRevision(log'[n]) =>
           /\ Chained(n)'
           /\ Begun(log', n) = log'[n].cause.proposal
      /\ \A p \in 1..Len(proposals) : p < Len(proposals) => Settled(p)'
  BY <1>1, <1>3, <1>4, <1>5, AddsKeep
<1>9. PICK k \in Nat : k = Len(log')
  BY <1>6
<1>10. /\ Written(Len(proposals))' = Written(Len(proposals)) \cup {k}
       /\ Begun(log', k) = Len(proposals)
  <2>1. (Len(log) + 1)..Len(log') = {k}
    BY <1>6, <1>9
  <2>2. k \in (Len(log) + 1)..Len(log')
    BY <2>1
  <2> QED
    BY <1>1, <1>3, <1>4, <1>5, <2>1, <2>2, AddsWritten
<1>11. \A n \in Written(Len(proposals)) : n < k /\ log'[n] = log[n]
  BY <1>6, <1>9 DEF Written
<1>12. Chained(k)'
  <2>1. state_id = IF \/ current.replayed
                      \/ \E n \in Written(Len(proposals)) : IsRevision(log[n])
                   THEN ReplayedState(log) ELSE 0
    BY <1>1 DEF RecordInvariant, StateAtHand
  <2>2. log'[k] = r /\ log'[k].cause.proposal = Len(proposals)
    BY <1>3, <1>6, <1>9
  <2>3. ProposalOf(k)' = current
    BY <1>4, <2>2 DEF ProposalOf, current
  <2>4. (\A m \in Written(Len(proposals))' : m < k => ~IsRevision(log'[m]))
          <=> ~\E n \in Written(Len(proposals)) : IsRevision(log[n])
    BY <1>9, <1>10, <1>11
  <2>5. log'[k].prior = IF /\ \A m \in Written(Len(proposals))' :
                                m < k => ~IsRevision(log'[m])
                           /\ ~ProposalOf(k)'.replayed
                        THEN 0 ELSE ReplayedAt(log', k - 1)
    BY <1>3, <1>7, <1>9, <2>1, <2>2, <2>3, <2>4
  <2> QED
    BY <1>4, <2>2, <2>5 DEF Chained
<1>13. \A n \in 1..Len(log') : n \in 1..Len(log) \/ n = k
  BY <1>6, <1>9
<1>14. RevisionsInPlace'
  <2>1. Begun(log', k) = log'[k].cause.proposal
    BY <1>3, <1>6, <1>9, <1>10
  <2> QED
    BY <1>8, <1>13, <2>1 DEF RevisionsInPlace
<1>15. StateChain'
  <2>1. \A n \in 1..Len(log') : IsRevision(log'[n]) => Chained(n)'
    BY <1>8, <1>12, <1>13
  <2> QED
    BY <2>1 DEF StateChain, Chained, ProposalOf
<1>16. StateAtHand'
  <2>1. IsRevision(log'[k]) /\ k \in Written(Len(proposals))'
    BY <1>3, <1>6, <1>9, <1>10
  <2> QED
    BY <1>4, <1>7, <2>1 DEF StateAtHand
<1>17. OpenOnRecord'
  <2>1. /\ \A n \in Written(Len(proposals)) : log[n].type # "processed"
        /\ Indexes(Len(proposals), "commitment") = 1..index
        /\ Indexes(Len(proposals), "tool_call") = 1..0
    BY <1>1 DEF RecordInvariant, OpenOnRecord, Judged, Evaluated
  <2>2. \A n \in Written(Len(proposals))' : log'[n].type # "processed"
    BY <1>1, <1>3, <1>4, <1>5, <2>1, AddsUnprocessed
  <2>3. \A type : type # "approval" =>
          Indexes(Len(proposals), type)' =
            Indexes(Len(proposals), type) \cup {i \in {r.id.index} : r.type = type}
    BY <1>1, <1>3, <1>4, <1>5, AddsIndexes
  <2>4. /\ Indexes(Len(proposals), "commitment")' = 1..index
        /\ Indexes(Len(proposals), "tool_call")' = 1..0
    <3>1. /\ {i \in {r.id.index} : r.type = "commitment"} = {}
          /\ {i \in {r.id.index} : r.type = "tool_call"} = {}
      BY <1>3
    <3> QED
      BY <2>1, <2>3, <3>1
  <2>5. index \in Nat /\ Judged' = index /\ Evaluated' = 0
    BY <1>1, <1>4 DEF Judged, Evaluated, ProposalTypeOK
  <2>6. Len(patches)' = Len(patches) /\ Len(patches) \in Nat
    BY <1>1, <1>4, CurrentProposal DEF current, patches
  <2>7. /\ lpc' # "calls" /\ Len(proposals)' = Len(proposals)
        /\ index' <= Len(patches) + 1
    BY <1>2, <1>4, <2>5, <2>6
  <2> QED
    BY <2>2, <2>4, <2>5, <2>6, <2>7 DEF OpenOnRecord
<1> QED
  BY <1>1, <1>4, <1>8, <1>14, <1>15, <1>16, <1>17, RecordSuffices

\* A revision policy that says no: the delta keeps its commitment only.
LEMMA RevisionRejectedRecord ==
  ASSUME ProposalInvariant, RecordInvariant, RevisionRejected
  PROVE  RecordInvariant'
<1>1. /\ ProposalTypeOK /\ lpc = "revise" /\ lpc # "idle" /\ Counted
  BY DEF ProposalInvariant, ProposalTypeOK, RecordInvariant, RevisionRejected
<1>2. index \in 1..Len(patches)
  BY <1>1 DEF ProposalInvariant, ReadyToRevise
<1>3. PICK r \in Entry :
        /\ r = [type |-> "revision_rejected", id |-> thisId]
        /\ r.type = "revision_rejected" /\ ~IsRevision(r)
  <2>1. [type |-> "revision_rejected", id |-> thisId] \in Entry
    BY <1>1, CurrentProposal DEF Entry
  <2> QED
    BY <2>1 DEF IsRevision
<1>4. /\ Adds(r) /\ index' = index + 1 /\ lpc' = "delta"
      /\ UNCHANGED <<proposals, state_id>>
  BY <1>3 DEF RevisionRejected, Adds
<1>5. /\ Counted' /\ RevisionsInPlace' /\ StateAtHand' /\ StateChain'
      /\ \A p \in 1..Len(proposals) : p < Len(proposals) => Settled(p)'
  BY <1>1, <1>3, <1>4, AddsQuiet
<1>6. OpenOnRecord'
  <2>1. /\ \A n \in Written(Len(proposals)) : log[n].type # "processed"
        /\ Indexes(Len(proposals), "commitment") = 1..index
        /\ Indexes(Len(proposals), "tool_call") = 1..0
    BY <1>1 DEF RecordInvariant, OpenOnRecord, Judged, Evaluated
  <2>2. \A n \in Written(Len(proposals))' : log'[n].type # "processed"
    BY <1>1, <1>3, <1>4, <2>1, AddsUnprocessed
  <2>3. \A type : type # "approval" =>
          Indexes(Len(proposals), type)' =
            Indexes(Len(proposals), type) \cup {i \in {r.id.index} : r.type = type}
    BY <1>1, <1>3, <1>4, AddsIndexes
  <2>4. /\ Indexes(Len(proposals), "commitment")' = 1..index
        /\ Indexes(Len(proposals), "tool_call")' = 1..0
    <3>1. /\ {i \in {r.id.index} : r.type = "commitment"} = {}
          /\ {i \in {r.id.index} : r.type = "tool_call"} = {}
      BY <1>3
    <3> QED
      BY <2>1, <2>3, <3>1
  <2>5. index \in Nat /\ Judged' = index /\ Evaluated' = 0
    BY <1>1, <1>4 DEF Judged, Evaluated, ProposalTypeOK
  <2>6. Len(patches)' = Len(patches) /\ Len(patches) \in Nat
    BY <1>1, <1>4, CurrentProposal DEF current, patches
  <2>7. /\ lpc' # "calls" /\ Len(proposals)' = Len(proposals)
        /\ index' <= Len(patches) + 1
    BY <1>2, <1>4, <2>5, <2>6
  <2> QED
    BY <2>2, <2>4, <2>5, <2>6, <2>7 DEF OpenOnRecord
<1> QED
  BY <1>1, <1>4, <1>5, <1>6, RecordSuffices

\* A tool call that was evaluated, after a decision if there was one.
LEMMA EvaluateCallRecord ==
  ASSUME ProposalInvariant, RecordInvariant,
         NEW verdict \in Verdicts, EvaluateCall(verdict)
  PROVE  RecordInvariant'
<1>1. /\ ProposalTypeOK /\ lpc = "calls" /\ lpc # "idle" /\ Counted
      /\ index <= Len(current.proposal.calls)
  BY DEF ProposalInvariant, ProposalTypeOK, RecordInvariant, EvaluateCall
<1> DEFINE judged == EvaluateToolCallPolicy(current.proposal.calls[index])
           evaluated(allowed) ==
             [type |-> "tool_call", id |-> thisId, verdict |-> judged,
              allowed |-> allowed]
<1>2. /\ index \in Nat \ {0} /\ Len(current.proposal.calls) \in Nat
      /\ judged \in {"allow", "deny", "requires_approval"}
  <2>1. current.proposal.calls \in Seq(ToolRisk)
    BY <1>1, CurrentProposal, ProposalAssumption DEF Received
  <2>2. index \in Nat \ {0} /\ Len(current.proposal.calls) \in Nat
    BY <1>1, <2>1, LenProperties DEF ProposalTypeOK
  <2>3. current.proposal.calls[index] \in ToolRisk
    BY <1>1, <2>1, <2>2
  <2> QED
    BY <2>2, <2>3 DEF EvaluateToolCallPolicy, ToolRisk
<1>3. \A allowed \in BOOLEAN :
        /\ evaluated(allowed) \in Entry /\ ~IsRevision(evaluated(allowed))
        /\ evaluated(allowed).type = "tool_call"
        /\ evaluated(allowed).id.index = index
  <2>1. \A allowed \in BOOLEAN : evaluated(allowed) \in Entry
    BY <1>1, <1>2, CurrentProposal DEF Entry
  <2> QED
    BY <2>1 DEF IsRevision, thisId
<1>4. /\ index' = index + 1 /\ lpc' = "calls"
      /\ UNCHANGED <<proposals, state_id>>
      /\ \E allowed \in BOOLEAN : Adds(evaluated(allowed))
  <2>1. /\ (verdict = "approved") \in BOOLEAN /\ (judged = "allow") \in BOOLEAN
    OBVIOUS
  <2>2. \/ log' = log \o <<Decision(verdict), evaluated(verdict = "approved")>>
        \/ log' = Append(log, evaluated(judged = "allow"))
    BY DEF EvaluateCall
  <2>3. UNCHANGED <<proposals, state_id, lpc>> /\ index' = index + 1
    BY DEF EvaluateCall
  <2> HIDE DEF evaluated, judged
  <2>4. CASE log' = log \o <<Decision(verdict), evaluated(verdict = "approved")>>
    BY <1>1, <2>1, <2>3, <2>4 DEF Adds
  <2>5. CASE log' = Append(log, evaluated(judged = "allow"))
    BY <1>1, <2>1, <2>3, <2>5 DEF Adds
  <2> QED
    BY <2>2, <2>4, <2>5
<1> HIDE DEF evaluated, judged
<1>5. PICK r \in Entry :
        /\ Adds(r) /\ r.type = "tool_call" /\ r.id.index = index /\ ~IsRevision(r)
  BY <1>3, <1>4
<1>6. /\ Counted' /\ RevisionsInPlace' /\ StateAtHand' /\ StateChain'
      /\ \A p \in 1..Len(proposals) : p < Len(proposals) => Settled(p)'
  BY <1>1, <1>4, <1>5, AddsQuiet
<1>7. OpenOnRecord'
  <2>1. /\ \A n \in Written(Len(proposals)) : log[n].type # "processed"
        /\ Indexes(Len(proposals), "commitment") = 1..Len(patches)
        /\ Indexes(Len(proposals), "tool_call") = 1..(index - 1)
    BY <1>1 DEF RecordInvariant, OpenOnRecord, Judged, Evaluated
  <2>2. \A n \in Written(Len(proposals))' : log'[n].type # "processed"
    BY <1>1, <1>4, <1>5, <2>1, AddsUnprocessed
  <2>3. \A type : type # "approval" =>
          Indexes(Len(proposals), type)' =
            Indexes(Len(proposals), type) \cup {i \in {r.id.index} : r.type = type}
    BY <1>1, <1>4, <1>5, AddsIndexes
  <2>4. 1..(index - 1) \cup {index} = 1..index
    BY <1>2
  <2>5. /\ Indexes(Len(proposals), "commitment")' = 1..Len(patches)
        /\ Indexes(Len(proposals), "tool_call")' = 1..index
    BY <1>5, <2>1, <2>3, <2>4
  <2>6. current' = current /\ Len(patches)' = Len(patches)
    BY <1>4 DEF current, patches
  <2>7. Judged' = Len(patches) /\ Evaluated' = index
    BY <1>2, <1>4, <2>6 DEF Judged, Evaluated
  <2> QED
    BY <1>1, <1>2, <1>4, <2>2, <2>5, <2>6, <2>7 DEF OpenOnRecord
<1> QED
  BY <1>1, <1>4, <1>6, <1>7, RecordSuffices

\* The proposal is left with everything it had to record.
LEMMA FinishRecord ==
  ASSUME ProposalInvariant, RecordInvariant, Finish
  PROVE  RecordInvariant'
<1>1. /\ ProposalTypeOK /\ lpc = "calls" /\ lpc # "idle" /\ Counted
      /\ index > Len(current.proposal.calls)
  BY DEF ProposalInvariant, RecordInvariant, Finish
<1>2. PICK r \in Entry :
        r = [type |-> "processed"] /\ r.type = "processed" /\ ~IsRevision(r)
  <2>1. [type |-> "processed"] \in Entry
    BY DEF Entry
  <2> QED
    BY <2>1 DEF IsRevision
<1>3. Adds(r) /\ lpc' = "idle" /\ UNCHANGED <<proposals, index, state_id>>
  BY <1>2 DEF Finish, Adds
<1>4. /\ Counted' /\ RevisionsInPlace' /\ StateAtHand' /\ StateChain'
      /\ \A p \in 1..Len(proposals) : p < Len(proposals) => Settled(p)'
  BY <1>1, <1>2, <1>3, AddsQuiet
<1>5. OpenOnRecord'
  BY <1>3 DEF OpenOnRecord
<1>6. Settled(Len(proposals))'
  <2>1. /\ \A n \in Written(Len(proposals)) : log[n].type # "processed"
        /\ Indexes(Len(proposals), "commitment") = 1..Len(patches)
        /\ Indexes(Len(proposals), "tool_call") = 1..(index - 1)
        /\ index <= Len(current.proposal.calls) + 1
    BY <1>1 DEF RecordInvariant, OpenOnRecord, Judged, Evaluated
  <2>2. /\ \A n \in Written(Len(proposals))' : n <= Len(log')
        /\ Len(log') \in Written(Len(proposals))'
        /\ \A n \in Written(Len(proposals))' :
             log'[n].type = "processed" <=> n = Len(log')
    BY <1>1, <1>2, <1>3, <2>1, AddsUnprocessed
  <2>3. \A type : type # "approval" =>
          Indexes(Len(proposals), type)' =
            Indexes(Len(proposals), type) \cup {i \in {r.id.index} : r.type = type}
    BY <1>1, <1>2, <1>3, AddsIndexes
  <2>4. current.proposal.calls \in Seq(ToolRisk)
    BY <1>1, CurrentProposal, ProposalAssumption DEF Received
  <2>5. /\ DOMAIN current.proposal.patches = 1..Len(patches)
        /\ DOMAIN current.proposal.calls = 1..(index - 1)
    <3>1. patches \in Seq({patches[n] : n \in DOMAIN patches})
      BY <1>1, CurrentProposal
    <3>2. DOMAIN patches = 1..Len(patches)
      BY <3>1, LenProperties
    <3>3. DOMAIN current.proposal.calls = 1..Len(current.proposal.calls)
          /\ Len(current.proposal.calls) \in Nat
      BY <2>4, LenProperties
    <3>4. index - 1 = Len(current.proposal.calls)
      BY <1>1, <2>1, <3>3 DEF ProposalTypeOK
    <3> QED
      BY <3>2, <3>3, <3>4 DEF patches
  <2>6. /\ Indexes(Len(proposals), "commitment")' = DOMAIN current.proposal.patches
        /\ Indexes(Len(proposals), "tool_call")' = DOMAIN current.proposal.calls
    <3>1. /\ {i \in {r.id.index} : r.type = "commitment"} = {}
          /\ {i \in {r.id.index} : r.type = "tool_call"} = {}
      BY <1>2
    <3> QED
      BY <2>1, <2>3, <2>5, <3>1
  <2>7. IsValid(current.proposal) /\ proposals[Len(proposals)] = current
    BY <1>1, CurrentProposal DEF current
  <2> QED
    BY <1>3, <2>2, <2>6, <2>7 DEF Settled
<1> QED
  BY <1>1, <1>3, <1>4, <1>5, <1>6, RecordSuffices

\* The end of the deltas: all of them have their commitment.
LEMMA DeltasDoneRecord ==
  ASSUME ProposalInvariant, RecordInvariant, DeltasDone
  PROVE  RecordInvariant'
<1>1. /\ ProposalTypeOK /\ lpc = "delta" /\ lpc # "idle" /\ index > Len(patches)
      /\ UNCHANGED <<log, proposals, state_id>> /\ lpc' = "calls" /\ index' = 1
  BY DEF ProposalInvariant, DeltasDone
<1>2. /\ Counted' /\ RevisionsInPlace' /\ StateAtHand' /\ StateChain'
      /\ \A p \in 1..Len(proposals) : p < Len(proposals) => Settled(p)'
      /\ \A p : Written(p)' = Written(p)
      /\ \A p, type : Indexes(p, type)' = Indexes(p, type)
  BY <1>1, SilentRecord
<1>3. OpenOnRecord'
  <2>1. /\ \A n \in Written(Len(proposals)) : log[n].type # "processed"
        /\ Indexes(Len(proposals), "commitment") = 1..(index - 1)
        /\ Indexes(Len(proposals), "tool_call") = 1..0
        /\ index <= Len(patches) + 1
    BY <1>1 DEF RecordInvariant, OpenOnRecord, Judged, Evaluated
  <2>2. index - 1 = Len(patches) /\ Len(patches)' = Len(patches)
    <3>1. Len(patches)' = Len(patches)
      BY <1>1 DEF current, patches
    <3>2. Len(patches) \in Nat /\ index \in Nat
      BY <1>1, CurrentProposal DEF ProposalTypeOK
    <3> QED
      BY <1>1, <2>1, <3>1, <3>2
  <2>3. Judged' = Len(patches) /\ Evaluated' = 0
    BY <1>1, <2>2 DEF Judged, Evaluated
  <2>4. current' = current /\ Len(current.proposal.calls) \in Nat
    <3>1. current.proposal.calls \in Seq(ToolRisk)
      BY <1>1, CurrentProposal, ProposalAssumption DEF Received
    <3> QED
      BY <1>1, <3>1, LenProperties DEF current
  <2>5. \A n \in Written(Len(proposals))' : log'[n].type # "processed"
    BY <1>1, <1>2, <2>1
  <2>6. /\ Indexes(Len(proposals), "commitment")' = 1..Len(patches)
        /\ Indexes(Len(proposals), "tool_call")' = 1..0
    <3>1. /\ Indexes(Len(proposals), "commitment")'
               = Indexes(Len(proposals), "commitment")
          /\ Indexes(Len(proposals), "tool_call")'
               = Indexes(Len(proposals), "tool_call")
      BY <1>1, <1>2
    <3> QED
      BY <2>1, <2>2, <3>1
  <2>7. index' <= Len(current.proposal.calls) + 1 /\ Len(proposals)' = Len(proposals)
    BY <1>1, <2>4
  <2> QED
    BY <1>1, <2>3, <2>4, <2>5, <2>6, <2>7 DEF OpenOnRecord
<1>4. lpc' # "idle"
  BY <1>1
<1> QED
  BY <1>1, <1>2, <1>3, <1>4, RecordSuffices

\* An exception: a proposal that may raise is left without being processed.
LEMMA RaisesRecord ==
  ASSUME ProposalInvariant, RecordInvariant, AskRaises \/ RevisionPolicyRaises
  PROVE  RecordInvariant'
<1>1. /\ ProposalTypeOK /\ lpc # "idle" /\ Counted
      /\ UNCHANGED <<log, proposals, state_id>> /\ lpc' = "idle"
  BY DEF ProposalInvariant, RecordInvariant, AskRaises, AtDelta, RevisionPolicyRaises
<1>2. /\ Counted' /\ RevisionsInPlace' /\ StateAtHand' /\ StateChain'
      /\ \A p \in 1..Len(proposals) : p < Len(proposals) => Settled(p)'
      /\ \A p : Written(p)' = Written(p)
      /\ \A p, type : Indexes(p, type)' = Indexes(p, type)
  BY <1>1, SilentRecord
<1>3. OpenOnRecord'
  BY <1>1 DEF OpenOnRecord
<1>4. MayRaise(Len(proposals))
  <2>1. CASE AskRaises
    BY <2>1 DEF AskRaises, MayRaise, current
  <2>2. CASE RevisionPolicyRaises
    <3>1. lpc = "revise" /\ patches[index].rationale = "null"
      BY <2>2 DEF RevisionPolicyRaises
    <3>2. index \in 1..Len(patches)
      BY <3>1 DEF ProposalInvariant, ReadyToRevise
    <3>3. index \in DOMAIN patches
      BY <1>1, <3>2, CurrentProposal
    <3> QED
      BY <3>1, <3>3 DEF MayRaise, patches, current
  <2> QED
    BY <2>1, <2>2
<1>5. Settled(Len(proposals))
  <2>1. Len(proposals) \in Nat \ {0} /\ log \in Seq(Entry) /\ Len(log) \in Nat
    BY <1>1, CurrentProposal, LenProperties DEF ProposalTypeOK
  <2>2. Len(log) # 0
    <3> SUFFICES ASSUME Len(log) = 0 PROVE FALSE
      OBVIOUS
    <3>1. Begun(log, 0) = 0
      <4>1. {m \in 1..0 : log[m].type = "received"} = {}
        OBVIOUS
      <4> QED
        BY <4>1, FS_EmptySet DEF Begun
    <3> QED
      BY <1>1, <2>1, <3>1 DEF Counted
  <2>3. Len(log) \in Written(Len(proposals))
    BY <1>1, <2>1, <2>2 DEF Written, Counted
  <2>4. \A n \in Written(Len(proposals)) : n <= Len(log)
    BY <2>1 DEF Written
  <2>5. \A n \in Written(Len(proposals)) : log[n].type # "processed"
    BY <1>1 DEF RecordInvariant, OpenOnRecord
  <2>6. IsValid(proposals[Len(proposals)].proposal)
    BY <1>1, CurrentProposal DEF current
  <2> QED
    BY <1>4, <2>3, <2>4, <2>5, <2>6 DEF Settled
<1>6. Settled(Len(proposals))'
  BY <1>1, <1>2, <1>5, SettledStays
<1> QED
  BY <1>1, <1>2, <1>3, <1>6, RecordSuffices

\* A proposal comes in: it is taken on with nothing on record yet, or rejected
\* with its second entry.
LEMMA ReceiveRecord ==
  ASSUME ProposalInvariant, ProposalInvariant', RecordInvariant,
         NEW proposal \in Proposals, NEW provider \in Providers,
         NEW start \in Starts, ReceiveProposal(proposal, provider, start)
  PROVE  RecordInvariant'
<1>1. /\ lpc = "idle" /\ Counted
      /\ log \in Seq(Entry) /\ proposals \in Seq(Received)
      /\ log' \in Seq(Entry) /\ proposals' \in Seq(Received)
  BY DEF ProposalInvariant, ProposalTypeOK, RecordInvariant, ReceiveProposal
<1>2. PICK received :
        /\ received = [proposal |-> proposal, provider |-> provider,
                       replayed |-> start = "replayed"]
        /\ received.proposal = proposal
        /\ received.replayed = (start = "replayed")
  <2> DEFINE r == [proposal |-> proposal, provider |-> provider,
                   replayed |-> start = "replayed"]
  <2>1. r.proposal = proposal /\ r.replayed = (start = "replayed")
    OBVIOUS
  <2> HIDE DEF r
  <2>2. \E x : x = r /\ x.proposal = proposal /\ x.replayed = (start = "replayed")
    BY <2>1
  <2> QED
    BY <2>2 DEF r
<1>3. /\ proposals' = Append(proposals, received)
      /\ state_id' = (IF start = "replayed" THEN ReplayedState(log) ELSE 0)
      /\ index' = 1
      /\ lpc' = IF IsValid(proposal) THEN "delta" ELSE "idle"
  BY <1>2 DEF ReceiveProposal
<1>4. PICK p \in Nat \ {0} :
        /\ p = Len(proposals) + 1 /\ Len(proposals') = p /\ proposals'[p] = received
        /\ \A i \in 1..Len(proposals) : proposals'[i] = proposals[i]
  <2>1. received \in Received
    <3>1. (start = "replayed") \in BOOLEAN
      OBVIOUS
    <3> QED
      BY <1>2, <3>1 DEF Received
  <2>2. /\ Len(proposals) \in Nat /\ Len(proposals') = Len(proposals) + 1
        /\ \A i \in 1..Len(proposals) : proposals'[i] = proposals[i]
        /\ proposals'[Len(proposals) + 1] = received
    BY <1>1, <1>3, <2>1, AppendProperties, LenProperties
  <2> QED
    BY <2>2
<1>5. PICK k \in Nat : k = Len(log)
  BY <1>1, LenProperties
<1>6. /\ Len(log') = IF IsValid(proposal) THEN k + 1 ELSE k + 2
      /\ \A n \in 1..k : log'[n] = log[n]
      /\ log'[k + 1].type = "received"
      /\ ~IsValid(proposal) => log'[k + 2].type = "rejected"
  <2>1. PICK a \in Entry : a = [type |-> "received"] /\ a.type = "received"
    <3>1. [type |-> "received"] \in Entry
      BY DEF Entry
    <3> QED
      BY <3>1
  <2>2. PICK b \in Entry : b = [type |-> "rejected"] /\ b.type = "rejected"
    <3>1. [type |-> "rejected"] \in Entry
      BY DEF Entry
    <3> QED
      BY <3>1
  <2>3. CASE IsValid(proposal)
    <3>1. log' = Append(log, a)
      BY <2>1, <2>3 DEF ReceiveProposal
    <3> QED
      BY <1>1, <1>5, <2>1, <2>3, <3>1, AppendProperties
  <2>4. CASE ~IsValid(proposal)
    <3>1. log' = log \o <<a, b>>
      BY <2>1, <2>2, <2>4 DEF ReceiveProposal
    <3>2. PICK s \in Seq(Entry) : s = <<a, b>>
      <4>1. <<a, b>> \in Seq(Entry)
        OBVIOUS
      <4> QED
        BY <4>1
    <3>3. Len(s) = 2 /\ s[1] = a /\ s[2] = b
      BY <3>2
    <3>4. /\ Len(log') = k + 2
          /\ \A n \in 1..(k + 2) : log'[n] = IF n <= k THEN log[n] ELSE s[n - k]
      BY <1>1, <1>5, <3>1, <3>2, <3>3, ConcatProperties
    <3>5. (k + 1) - k = 1 /\ (k + 2) - k = 2
      OBVIOUS
    <3>6. log'[k + 1] = a /\ log'[k + 2] = b
      BY <3>3, <3>4, <3>5
    <3> QED
      BY <2>1, <2>2, <2>4, <3>4, <3>6
  <2> QED
    BY <2>3, <2>4
<1>7. /\ \A n \in 0..k : Begun(log', n) = Begun(log, n) /\ Begun(log', n) < p
      /\ Begun(log', k + 1) = p
      /\ ~IsValid(proposal) => Begun(log', k + 2) = p
  <2>1. ASSUME NEW n \in 0..k
        PROVE  Begun(log', n) = Begun(log, n) /\ Begun(log', n) < p
    <3>1. n \in Nat /\ n <= k /\ \A m \in 1..n : log'[m] = log[m]
      BY <1>6
    <3>2. Begun(log', n) = Begun(log, n)
      BY <3>1, BegunReadsPrefix
    <3>3. /\ Begun(log, n) \in Nat /\ Begun(log, k) \in Nat
          /\ Begun(log, n) <= Begun(log, k)
      BY <3>1, BegunType, BegunGrows
    <3>4. Begun(log, k) = p - 1
      BY <1>1, <1>4, <1>5, LenProperties DEF Counted
    <3> QED
      BY <3>2, <3>3, <3>4
  <2>2. Begun(log', k) = p - 1
    BY <1>1, <1>4, <1>5, <2>1, LenProperties DEF Counted
  <2>3. Begun(log', k + 1) = p
    BY <1>6, <2>2, BegunNext
  <2>4. ASSUME ~IsValid(proposal)
        PROVE  Begun(log', k + 2) = p
    <3>1. /\ k + 1 \in Nat /\ k + 2 \in Nat /\ k + 1 <= k + 2
          /\ \A m \in ((k + 1) + 1)..(k + 2) : m = k + 2
      OBVIOUS
    <3>2. Begun(log', k + 2) = Begun(log', k + 1)
      BY <1>6, <2>4, <3>1, BegunOthers
    <3> QED
      BY <2>3, <3>2
  <2> QED
    BY <2>1, <2>3, <2>4
<1>8. Written(p)' = IF IsValid(proposal) THEN {k + 1} ELSE {k + 1, k + 2}
  <2>1. Written(p)' = {n \in 1..Len(log') : Begun(log', n) = p}
    BY DEF Written
  <2>2. \A n \in 1..k : ~(Begun(log', n) = p)
    <3> TAKE n \in 1..k
    <3>1. n \in Nat /\ n \in 0..k
      OBVIOUS
    <3>2. Begun(log', n) \in Nat
      BY <3>1, BegunType
    <3>3. Begun(log', n) < p
      BY <1>7, <3>1
    <3> QED
      BY <3>2, <3>3
  <2>3. CASE IsValid(proposal)
    <3>1. \A n \in 1..Len(log') : n \in 1..k \/ n = k + 1
      BY <1>6, <2>3
    <3>2. k + 1 \in 1..Len(log')
      BY <1>6, <2>3
    <3> QED
      BY <1>7, <2>1, <2>2, <2>3, <3>1, <3>2
  <2>4. CASE ~IsValid(proposal)
    <3>1. \A n \in 1..Len(log') : n \in 1..k \/ n = k + 1 \/ n = k + 2
      BY <1>6, <2>4
    <3>2. k + 1 \in 1..Len(log') /\ k + 2 \in 1..Len(log')
      BY <1>6, <2>4
    <3> QED
      BY <1>7, <2>1, <2>2, <2>4, <3>1, <3>2
  <2> QED
    BY <2>3, <2>4
<1>9. ASSUME NEW i \in 1..Len(proposals)
      PROVE  Settled(i)'
  <2>1. i \in Nat /\ i < p
    BY <1>1, <1>4, LenProperties
  <2>2. Written(i)' = {n \in 1..Len(log') : Begun(log', n) = i}
        /\ Written(i) = {n \in 1..k : Begun(log, n) = i}
    BY <1>5 DEF Written
  <2>3. \A n \in 1..Len(log') : n \in 1..k \/ Begun(log', n) = p
    <3>1. \A n \in 1..Len(log') : \/ n \in 1..k \/ n = k + 1
                                  \/ n = k + 2 /\ ~IsValid(proposal)
      BY <1>6
    <3> QED
      BY <1>7, <3>1
  <2>4. \A n \in 1..k : n \in 1..Len(log') /\ Begun(log', n) = Begun(log, n)
    BY <1>6, <1>7
  <2>5. Written(i)' = Written(i)
    <3>1. \A n \in Written(i)' : n \in Written(i)
      BY <2>1, <2>2, <2>3, <2>4
    <3>2. \A n \in Written(i) : n \in Written(i)'
      BY <2>2, <2>4
    <3> QED
      BY <3>1, <3>2
  <2>6. Settled(i)
    BY <1>1 DEF RecordInvariant, ProposalsSettled
  <2>7. \A n \in Written(i) : log'[n] = log[n]
    BY <1>6, <2>2
  <2> QED
    BY <1>4, <2>5, <2>6, <2>7, SettledStays
<1>10. Counted'
  BY <1>4, <1>6, <1>7 DEF Counted
<1>11. ProposalsStay
  BY <1>1, <1>4, LenProperties DEF ProposalsStay
<1>12. \A n \in 1..Len(log') : IsRevision(log'[n]) => n \in 1..k
  BY <1>6 DEF IsRevision
<1>13. \A n \in 1..Len(log) : IsRevision(log'[n]) =>
         /\ Chained(n)'
         /\ Begun(log', n) = log'[n].cause.proposal
  <2>1. Len(log) \in Nat /\ Len(log') \in Nat /\ Len(log) <= Len(log')
    BY <1>5, <1>6
  <2> QED
    BY <1>5, <1>6, <1>11, <2>1, ChainStays DEF RecordInvariant
<1>14. RevisionsInPlace' /\ StateChain'
  <2>1. \A n \in 1..Len(log') : IsRevision(log'[n]) =>
          Chained(n)' /\ Begun(log', n) = log'[n].cause.proposal
    BY <1>5, <1>12, <1>13
  <2>2. StateChain'
    BY <2>1 DEF StateChain, Chained, ProposalOf
  <2> QED
    BY <2>1, <2>2 DEF RevisionsInPlace
<1>15. ReplayedState(log') = ReplayedState(log)
  <2>1. /\ Len(log') \in Nat /\ k <= Len(log')
        /\ \A n \in (k + 1)..Len(log') : ~IsRevision(log'[n])
    BY <1>6, <1>12
  <2>2. ReplayedAt(log', Len(log')) = ReplayedAt(log', k)
    BY <2>1, ReplaySkipsOthers
  <2>3. ReplayedAt(log', k) = ReplayedAt(log, k)
    BY <1>6, ReplayReadsPrefix
  <2> QED
    BY <1>5, <2>2, <2>3 DEF ReplayedState
<1>16. StateAtHand'
  <2> SUFFICES ASSUME lpc' # "idle" PROVE StateAtHand'
    BY DEF StateAtHand
  <2>1. IsValid(proposal) /\ Written(p)' = {k + 1}
    BY <1>3, <1>8
  <2>2. ~\E n \in Written(Len(proposals))' : IsRevision(log'[n])
    <3>1. p = Len(proposals')
      BY <1>4
    <3>2. ~\E n \in Written(p)' : IsRevision(log'[n])
      BY <1>6, <2>1 DEF IsRevision
    <3>3. Len(proposals)' = p
      BY <3>1
    <3> QED
      BY <1>4, <3>2, <3>3
  <2>3. current' = received
    BY <1>4 DEF current
  <2>4. state_id' = IF current'.replayed THEN ReplayedState(log') ELSE 0
    BY <1>2, <1>3, <1>15, <2>3
  <2> QED
    BY <1>4, <2>2, <2>4 DEF StateAtHand
<1>17. OpenOnRecord'
  <2> SUFFICES ASSUME lpc' # "idle" PROVE OpenOnRecord'
    BY DEF OpenOnRecord
  <2>1. IsValid(proposal) /\ Written(p)' = {k + 1} /\ lpc' = "delta"
    BY <1>3, <1>8
  <2>2. \A n \in Written(p)' : log'[n].type = "received"
    BY <1>6, <2>1
  <2>3. Indexes(p, "commitment")' = {} /\ Indexes(p, "tool_call")' = {}
    <3>1. {m \in Written(p)' : log'[m].type = "commitment"} = {}
          /\ {m \in Written(p)' : log'[m].type = "tool_call"} = {}
      BY <2>2
    <3> QED
      BY <3>1 DEF Indexes
  <2>4. Judged' = 0 /\ Evaluated' = 0
    BY <1>3, <2>1 DEF Judged, Evaluated
  <2>5. Len(patches)' \in Nat
    <3>1. ProposalTypeOK' /\ lpc' # "idle"
      BY DEF ProposalInvariant
    <3>2. patches' = proposal.patches
      BY <1>2, <1>4 DEF patches, current
    <3>3. proposal.patches
            \in Seq({proposal.patches[n] : n \in DOMAIN proposal.patches})
      BY ProposalAssumption
    <3> QED
      BY <3>2, <3>3, LenProperties
  <2>6. 1..0 = {} /\ 1 <= Len(patches)' + 1
    BY <2>5
  <2>7. p = Len(proposals)'
    BY <1>4
  <2> QED
    BY <1>3, <2>1, <2>2, <2>3, <2>4, <2>6, <2>7 DEF OpenOnRecord
<1>18. ~IsValid(proposal) => Settled(p)'
  <2> SUFFICES ASSUME ~IsValid(proposal) PROVE Settled(p)'
    OBVIOUS
  <2>1. Written(p)' = {k + 1, k + 2}
    BY <1>8
  <2>2. /\ log'[k + 1].type = "received" /\ log'[k + 2].type = "rejected"
        /\ k + 1 <= k + 2 /\ k + 1 >= (k + 2) - 1 /\ k + 2 >= (k + 2) - 1
        /\ k + 1 # k + 2
    BY <1>6
  <2>3. ~IsValid(proposals'[p].proposal)
    BY <1>2, <1>4
  <2> QED
    BY <2>1, <2>2, <2>3 DEF Settled
<1>19. ProposalsSettled'
  <2> SUFFICES ASSUME NEW i \in 1..Len(proposals'),
                      i < Len(proposals') \/ lpc' = "idle"
               PROVE  Settled(i)'
    BY DEF ProposalsSettled
  <2>1. i \in 1..Len(proposals) \/ (i = p /\ ~IsValid(proposal))
    BY <1>1, <1>3, <1>4, LenProperties
  <2> QED
    BY <1>9, <1>18, <2>1
<1> QED
  BY <1>10, <1>14, <1>16, <1>17, <1>19 DEF RecordInvariant

--------------------------------------------------------------------------------
\* Every step preserves what is said of the record.
LEMMA RecordStepSafe ==
  ASSUME ProposalInvariant, ProposalInvariant', RecordInvariant,
         [ProposalNext]_proposalVars
  PROVE  RecordInvariant'
<1>1. CASE UNCHANGED proposalVars
  <2>1. /\ log' = log /\ proposals' = proposals /\ lpc' = lpc /\ index' = index
        /\ state_id' = state_id
    BY <1>1 DEF proposalVars
  <2>2. \A p : Written(p)' = Written(p)
    BY <2>1 DEF Written
  <2>3. \A p, type : Indexes(p, type)' = Indexes(p, type)
    BY <2>1, <2>2 DEF Indexes
  <2>4. Counted' /\ RevisionsInPlace' /\ StateChain'
    BY <2>1, <2>2 DEF RecordInvariant, Counted, RevisionsInPlace, StateChain
  <2>5. StateAtHand'
    BY <2>1, <2>2 DEF RecordInvariant, StateAtHand, current
  <2>6. Judged' = Judged /\ Evaluated' = Evaluated /\ current' = current
        /\ patches' = patches
    BY <2>1 DEF Judged, Evaluated, patches, current
  <2>7. OpenOnRecord'
    BY <2>1, <2>2, <2>3, <2>6 DEF RecordInvariant, OpenOnRecord
  <2>8. ProposalsSettled'
    <3> SUFFICES ASSUME NEW p \in 1..Len(proposals'),
                        p < Len(proposals') \/ lpc' = "idle"
                 PROVE  Settled(p)'
      BY DEF ProposalsSettled
    <3>1. Settled(p)
      BY <2>1 DEF RecordInvariant, ProposalsSettled
    <3> QED
      BY <2>1, <2>2, <3>1, SettledStays
  <2> QED
    BY <2>4, <2>5, <2>7, <2>8 DEF RecordInvariant
<1>2. CASE \E proposal \in Proposals, provider \in Providers, start \in Starts :
             ReceiveProposal(proposal, provider, start)
  BY <1>2, ReceiveRecord
<1>3. CASE JudgeDelta \/ \E verdict \in Verdicts : DecideDelta(verdict)
  <2>1. lpc = "delta" /\ index \in 1..Len(patches)
    <3>1. lpc = "delta" /\ index <= Len(patches)
      BY <1>3 DEF JudgeDelta, DecideDelta, AtDelta
    <3> QED
      BY <3>1, CurrentProposal DEF ProposalInvariant, ProposalTypeOK
  <2>2. CASE JudgeDelta
    <3>1. Commit(<<>>, EvaluateDeltaPolicy(delta).allowed)
      BY <2>2 DEF JudgeDelta
    <3>2. EvaluateDeltaPolicy(delta).allowed \in BOOLEAN
      <4>1. EvaluateDeltaPolicy(delta) \in {Permit, Ask, Refuse}
        BY PolicyAnswers
      <4>2. /\ Permit.allowed \in BOOLEAN /\ Ask.allowed \in BOOLEAN
            /\ Refuse.allowed \in BOOLEAN
        BY DEF Permit, Ask, Refuse
      <4> QED
        BY <4>1, <4>2
    <3> QED
      BY <2>1, <3>1, <3>2, CommitRecord
  <2>3. CASE \E verdict \in Verdicts : DecideDelta(verdict)
    <3>1. PICK verdict \in Verdicts :
            Commit(<<Decision(verdict)>>, verdict = "approved")
      BY <2>3 DEF DecideDelta
    <3>2. (verdict = "approved") \in BOOLEAN
      OBVIOUS
    <3> QED
      BY <2>1, <3>1, <3>2, CommitRecord
  <2> QED
    BY <1>3, <2>2, <2>3
<1>4. CASE \E verdict \in Verdicts : EvaluateCall(verdict)
  BY <1>4, EvaluateCallRecord
<1>5. CASE ReviseModel \/ RevisionRejected \/ Finish \/ DeltasDone
  BY <1>5, ReviseRecord, RevisionRejectedRecord, FinishRecord, DeltasDoneRecord
<1>6. CASE AskRaises \/ RevisionPolicyRaises
  BY <1>6, RaisesRecord
<1> QED
  BY <1>1, <1>2, <1>3, <1>4, <1>5, <1>6 DEF ProposalNext, ProposalStep

\* The inductive invariant of the record, on top of ProposalInvariant.
LEMMA RecordInvariantHolds == ProposalSpec => []RecordInvariant
<1>1. ProposalInit => RecordInvariant
  <2> SUFFICES ASSUME ProposalInit PROVE RecordInvariant
    OBVIOUS
  <2>1. log = <<>> /\ proposals = <<>> /\ lpc = "idle"
    BY DEF ProposalInit
  <2>2. Len(log) = 0 /\ Len(proposals) = 0
    BY <2>1
  <2>3. Begun(log, 0) = 0
    <3>1. {m \in 1..0 : log[m].type = "received"} = {}
      OBVIOUS
    <3> QED
      BY <3>1, FS_EmptySet DEF Begun
  <2> QED
    BY <2>1, <2>2, <2>3
    DEF RecordInvariant, Counted, RevisionsInPlace, StateAtHand, StateChain,
        OpenOnRecord, ProposalsSettled
<1>2. /\ ProposalInvariant /\ ProposalInvariant' /\ RecordInvariant
      /\ [ProposalNext]_proposalVars
      => RecordInvariant'
  BY RecordStepSafe
<1> QED
  BY <1>1, <1>2, ProposalInvariantHolds, PTL DEF ProposalSpec

(***************************************************************************)
(* Every proposal that was left is settled on record: a rejected one leaves*)
(* nothing else, a processed one a commitment for each of its deltas and a *)
(* verdict on each of its calls, and one that does neither was left by an  *)
(* exception (propose_from_llm), for all proposals and providers.          *)
(***************************************************************************)
THEOREM ProposalsAlwaysSettled == ProposalSpec => []ProposalsSettled
<1>1. RecordInvariant => ProposalsSettled
  BY DEF RecordInvariant
<1> QED
  BY <1>1, RecordInvariantHolds, PTL

\* The revisions of a proposal continue each other, refused deltas in between or
\* not, whether its caller passed the replayed state or left the default.
THEOREM StateAlwaysChained == ProposalSpec => []StateChain
<1>1. RecordInvariant => StateChain
  BY DEF RecordInvariant
<1> QED
  BY <1>1, RecordInvariantHolds, PTL

--------------------------------------------------------------------------------
(***************************************************************************)
(* What replay makes of the record keeps what was learnt.                  *)
(***************************************************************************)

Sequence(s) == s \in Seq({s[n] : n \in DOMAIN s})

\* A world that replay can go on from: what is anchored is there once, and
\* memories are lists.
Sound(w) ==
  /\ w = [f \in Fields |-> w[f]]
  /\ Sequence(w.anchors) /\ Distinct(w.anchors)
  /\ \A ref \in DOMAIN w.entities : ref[1] = "memory" => Sequence(w.entities[ref])

\* What nothing but a revision of its own changes.
Untouched(w, r) ==
  /\ r = [f \in Fields |-> r[f]]
  /\ r.anchors = w.anchors
  /\ r.entities = w.entities

\* A longer list begins with the shorter one.
LEMMA SequenceGrows ==
  ASSUME NEW s, Sequence(s), NEW x
  PROVE  /\ Sequence(Append(s, x)) /\ Extends(Append(s, x), s)
         /\ Extends(s, s)
<1> DEFINE S == {s[n] : n \in DOMAIN s}
           T == S \cup {x}
           t == Append(s, x)
<1>1. s \in Seq(S)
  BY DEF Sequence
<1>2. s \in Seq(T) /\ x \in T
  <2>1. S \subseteq T
    OBVIOUS
  <2> HIDE DEF S, T
  <2>2. s \in Seq(T)
    BY <1>1, <2>1
  <2> QED
    BY <2>2 DEF T
<1> HIDE DEF S, T
<1>3. /\ t \in Seq(T) /\ Len(s) \in Nat /\ Len(t) = Len(s) + 1
      /\ \A n \in 1..Len(s) : t[n] = s[n]
  BY <1>2, LenProperties, AppendProperties
<1> HIDE DEF t
<1>4. Extends(t, s) /\ Extends(s, s)
  BY <1>3 DEF Extends
<1>5. t \in Seq({t[n] : n \in DOMAIN t})
  <2>1. Len(t) \in Nat /\ DOMAIN t = 1..Len(t) /\ t = [n \in 1..Len(t) |-> t[n]]
    BY <1>3
  <2>2. \A n \in 1..Len(t) : t[n] \in {t[m] : m \in DOMAIN t}
    BY <2>1
  <2> QED
    BY <2>1, <2>2
<1> QED
  BY <1>4, <1>5 DEF Sequence, t

\* One item is a list.
LEMMA SingleIsSequence ==
  ASSUME NEW x
  PROVE  Sequence(<<x>>)
<1>1. DOMAIN <<x>> = {1} /\ <<x>>[1] = x
  OBVIOUS
<1>2. {<<x>>[n] : n \in DOMAIN <<x>>} = {x}
  BY <1>1
<1>3. <<x>> \in Seq({x})
  OBVIOUS
<1> QED
  BY <1>2, <1>3 DEF Sequence

\* The fields that may change at any time.
LEMMA OtherFields ==
  ASSUME NEW w, Sound(w), NEW v
  PROVE  /\ Untouched(w, w)
         /\ Untouched(w, [w EXCEPT !.ok = v])
         /\ Untouched(w, [w EXCEPT !.goals = v])
         /\ Untouched(w, [w EXCEPT !.hypotheses = v])
         /\ Untouched(w, [w EXCEPT !.capabilities = v])
         /\ Untouched(w, [w EXCEPT !.limits = v])
         /\ Untouched(w, [w EXCEPT !.reliability = v])
BY DEF Sound, Untouched, Fields

\* A delta about anything but an entity.
LEMMA OtherDeltas ==
  ASSUME NEW w, Sound(w), NEW d,
         ~(d.kind \in {"entity_add", "entity_update"} /\ d.raw # NoValue)
  PROVE  Untouched(w, ReplayDelta(w, d))
<1> DEFINE r == ReplayDelta(w, d)
<1>1. Untouched(w, w)
  BY OtherFields
<1>2. \A v : /\ Untouched(w, [w EXCEPT !.ok = v])
             /\ Untouched(w, [w EXCEPT !.goals = v])
             /\ Untouched(w, [w EXCEPT !.hypotheses = v])
             /\ Untouched(w, [w EXCEPT !.capabilities = v])
             /\ Untouched(w, [w EXCEPT !.limits = v])
             /\ Untouched(w, [w EXCEPT !.reliability = v])
  BY OtherFields
<1>3. Untouched(w, Raised(w))
  BY <1>2 DEF Raised
<1>4. \A id, status, confidence :
        /\ Untouched(w, AddHypothesis(w, id, status, confidence))
        /\ Untouched(w, UpdateHypothesisStatus(w, id, status, confidence))
  BY <1>2 DEF AddHypothesis, UpdateHypothesisStatus
<1>5. Untouched(w, ReplayHypothesisUpdate(w, d))
  BY <1>1, <1>3, <1>4, Zenon DEF ReplayHypothesisUpdate
<1>6. Untouched(w, ReplayHypothesisRemove(w, d))
  BY <1>1, <1>3, Zenon DEF ReplayHypothesisRemove
<1>7. Untouched(w, ReplayHypothesisAdd(w, d))
  BY <1>1, <1>3, <1>4, Zenon DEF ReplayHypothesisAdd
<1>8. Untouched(w, ReplaySelfUpdate(w, d))
  BY <1>1, <1>2 DEF ReplaySelfUpdate
<1> QED
  BY <1>1, <1>2, <1>5, <1>6, <1>7, <1>8 DEF ReplayDelta

\* A delta about an entity adds to a memory, and leaves the others.
LEMMA EntityDeltas ==
  ASSUME NEW w, Sound(w), NEW d, d.raw.tag = "list" => Sequence(d.raw.of)
  PROVE  LET r == ReplayEntity(w, d)
         IN  /\ Sound(r) /\ r.anchors = w.anchors
             /\ \A ref \in DOMAIN w.entities :
                  ref[1] = "memory" =>
                    ref \in DOMAIN r.entities
                    /\ Extends(r.entities[ref], w.entities[ref])
<1> DEFINE about == <<d.root, d.key>>
           Kept(r) == /\ Sound(r) /\ r.anchors = w.anchors
                      /\ \A ref \in DOMAIN w.entities :
                           ref[1] = "memory" =>
                             ref \in DOMAIN r.entities
                             /\ Extends(r.entities[ref], w.entities[ref])
<1>1. \A ref \in DOMAIN w.entities :
        ref[1] = "memory" => Extends(w.entities[ref], w.entities[ref])
  BY SequenceGrows DEF Sound
<1>2. ASSUME NEW content, about[1] = "memory" => Sequence(content),
             about \in DOMAIN w.entities /\ about[1] = "memory" =>
               Extends(content, w.entities[about])
      PROVE  Kept(SetEntity(w, about, content))
  <2>1. PICK entities : entities = [ref \in DOMAIN w.entities \cup {about} |->
                                      IF ref = about THEN content ELSE w.entities[ref]]
    OBVIOUS
  <2>2. PICK r : r = [w EXCEPT !.entities = entities]
    OBVIOUS
  <2>3. r = SetEntity(w, about, content)
    BY <2>1, <2>2 DEF SetEntity
  <2>4. /\ r = [f \in Fields |-> r[f]] /\ r.anchors = w.anchors /\ r.entities = entities
    BY <2>2 DEF Sound, Fields
  <2>5. DOMAIN entities = DOMAIN w.entities \cup {about} /\ entities[about] = content
        /\ \A ref \in DOMAIN w.entities : ref # about => entities[ref] = w.entities[ref]
    BY <2>1
  <2> HIDE DEF about
  <2>6. \A ref \in DOMAIN entities : ref[1] = "memory" => Sequence(entities[ref])
    BY <1>2, <2>5 DEF Sound
  <2>7. Sound(r)
    BY <2>4, <2>6 DEF Sound
  <2>8. \A ref \in DOMAIN w.entities :
          ref[1] = "memory" =>
            ref \in DOMAIN r.entities /\ Extends(r.entities[ref], w.entities[ref])
    BY <1>1, <1>2, <2>4, <2>5
  <2> QED
    BY <2>3, <2>4, <2>7, <2>8
<1>3. Kept(w)
  BY <1>1
<1>4. about[1] = d.root
  OBVIOUS
<1>5. \A x : Sequence(<<x>>)
  BY SingleIsSequence
<1>6. about \in DOMAIN w.entities /\ about[1] = "memory" =>
        \A x : /\ Sequence(Append(w.entities[about], x))
               /\ Extends(Append(w.entities[about], x), w.entities[about])
  BY SequenceGrows DEF Sound
<1> HIDE DEF Kept, about
<1>7. Kept(ReplayEntity(w, d))
  <2>1. CASE d.root \in {"beliefs", "domain_data"}
    <3>1. ReplayEntity(w, d) = SetEntity(w, about, <<d.raw>>)
      BY <2>1 DEF ReplayEntity, about
    <3>2. about[1] # "memory"
      BY <1>4, <2>1
    <3> QED
      BY <1>2, <3>1, <3>2
  <2>2. CASE d.root \notin {"beliefs", "domain_data", "memory"}
    <3>1. ReplayEntity(w, d) = w
      BY <2>2 DEF ReplayEntity
    <3> QED
      BY <1>3, <3>1
  <2>3. CASE d.root = "memory" /\ about \in DOMAIN w.entities
    <3>1. ReplayEntity(w, d) = SetEntity(w, about, Append(w.entities[about], d.raw))
      BY <2>3 DEF ReplayEntity, about
    <3> QED
      BY <1>2, <1>4, <1>6, <2>3, <3>1
  <2>4. CASE d.root = "memory" /\ about \notin DOMAIN w.entities
    <3>1. ReplayEntity(w, d) = IF d.raw.tag = "list" THEN SetEntity(w, about, d.raw.of)
                               ELSE SetEntity(w, about, <<d.raw>>)
      BY <2>4 DEF ReplayEntity, about
    <3> QED
      BY <1>2, <1>5, <2>4, <3>1
  <2> QED
    BY <2>1, <2>2, <2>3, <2>4
<1> QED
  BY <1>7 DEF Kept

\* A delta about an entity has a value to set it to.
LEMMA EntityReplayed ==
  ASSUME NEW w, NEW d, d.kind \in {"entity_add", "entity_update"}, d.raw # NoValue
  PROVE  ReplayDelta(w, d) = IF ~w.ok THEN w ELSE ReplayEntity(w, d)
<1>1. CASE ~w.ok
  BY <1>1 DEF ReplayDelta
<1>2. CASE w.ok
  <2>1. /\ d.kind # "hypothesis_update" /\ d.kind # "hypothesis_remove"
        /\ d.kind # "hypothesis_add" /\ d.kind # "goal_update"
        /\ d.kind # "self_update"
    OBVIOUS
  <2> QED
    BY <1>2, <2>1, Zenon DEF ReplayDelta
<1> QED
  BY <1>1, <1>2

\* A revision of one delta.
LEMMA RevisionKeeps ==
  ASSUME NEW w, Sound(w), NEW d, d.raw.tag = "list" => Sequence(d.raw.of),
         NEW revision, revision.deltas = <<d>>
  PROVE  Sound(ReplayRevision(w, revision)) /\ Keeps(w, ReplayRevision(w, revision))
<1> DEFINE deltas == revision.deltas
           after == ReplayDelta(w, d)
           anchors == Anchored(after.anchors, deltas)
<1>2. /\ ~after.ok => ReplayRevision(w, revision) = after
      /\ after.ok => ReplayRevision(w, revision) = Concluded(after, revision)
  BY ReplayOneDelta, Zenon
<1>3. \A a : Anchored(a, deltas) = a
            \/ \E fact : /\ \A m \in DOMAIN a : a[m] # fact
                        /\ Anchored(a, deltas) = Append(a, fact)
  <2>1. \A a : Anchored(a, deltas)
                 = IF /\ d.kind = "anchor_add" /\ d.after # ""
                      /\ \A m \in DOMAIN a : a[m] # d.after
                   THEN Append(a, d.after) ELSE a
    BY ReplayOneDelta, Zenon
  <2> QED
    BY <2>1
<1>5. /\ Sound(after) /\ after.anchors = w.anchors
      /\ \A ref \in DOMAIN w.entities :
           ref[1] = "memory" =>
             ref \in DOMAIN after.entities /\ Extends(after.entities[ref], w.entities[ref])
  <2>1. CASE d.kind \in {"entity_add", "entity_update"} /\ d.raw # NoValue
    <3>1. after = IF ~w.ok THEN w ELSE ReplayEntity(w, d)
      BY <2>1, EntityReplayed
    <3>2. \A ref \in DOMAIN w.entities :
            ref[1] = "memory" => Extends(w.entities[ref], w.entities[ref])
      BY SequenceGrows DEF Sound
    <3> HIDE DEF after
    <3>3. CASE ~w.ok
      <4>1. after = w
        BY <3>1, <3>3
      <4> QED
        BY <3>2, <4>1
    <3>4. CASE w.ok
      <4>1. after = ReplayEntity(w, d)
        BY <3>1, <3>4
      <4> QED
        BY <4>1, EntityDeltas
    <3> QED
      BY <3>3, <3>4
  <2>2. CASE ~(d.kind \in {"entity_add", "entity_update"} /\ d.raw # NoValue)
    <3>1. Untouched(w, after)
      BY <2>2, OtherDeltas
    <3>2. \A ref \in DOMAIN w.entities :
            ref[1] = "memory" => Extends(w.entities[ref], w.entities[ref])
      BY SequenceGrows DEF Sound
    <3> QED
      BY <3>1, <3>2 DEF Untouched, Sound
  <2> QED
    BY <2>1, <2>2
<1> HIDE DEF after, deltas
<1>6. Sequence(anchors) /\ Distinct(anchors) /\ Extends(anchors, w.anchors)
  <2>1. PICK before : before = w.anchors
    OBVIOUS
  <2>2. Sequence(before) /\ Distinct(before)
    BY <2>1 DEF Sound
  <2>3. Extends(before, before)
    BY <2>2, SequenceGrows
  <2>4. ASSUME NEW fact, \A m \in DOMAIN before : before[m] # fact
        PROVE  /\ Sequence(Append(before, fact)) /\ Extends(Append(before, fact), before)
               /\ Distinct(Append(before, fact))
    <3>1. Sequence(Append(before, fact)) /\ Extends(Append(before, fact), before)
      BY <2>2, SequenceGrows
    <3>2. Distinct(Append(before, fact))
      BY <2>2, <2>4 DEF Sequence, Distinct
    <3> QED
      BY <3>1, <3>2
  <2>5. anchors = before
        \/ \E fact : (\A m \in DOMAIN before : before[m] # fact) /\ anchors = Append(before, fact)
    BY <1>3, <1>5, <2>1
  <2> HIDE DEF anchors
  <2> QED
    BY <2>1, <2>2, <2>3, <2>4, <2>5
<1> HIDE DEF anchors
<1>7. CASE ~after.ok
  <2>1. ReplayRevision(w, revision) = after
    BY <1>2, <1>7
  <2>2. Extends(w.anchors, w.anchors)
    BY SequenceGrows DEF Sound
  <2> QED
    BY <1>5, <2>1, <2>2 DEF Keeps, Sound
<1>8. CASE after.ok
  <2>1. PICK r : r = [after EXCEPT !.anchors = anchors, !.id = revision.result]
    OBVIOUS
  <2>2. /\ r = [f \in Fields |-> r[f]] /\ r.anchors = anchors
        /\ r.entities = after.entities
    BY <1>5, <2>1 DEF Sound, Fields
  <2>3. ReplayRevision(w, revision) = r
    BY <1>2, <1>8, <2>1 DEF Concluded, anchors, deltas
  <2>4. Sound(r)
    BY <1>5, <1>6, <2>2 DEF Sound
  <2>5. Keeps(w, r)
    BY <1>5, <1>6, <2>2 DEF Keeps
  <2> QED
    BY <2>3, <2>4, <2>5
<1> QED
  BY <1>7, <1>8

--------------------------------------------------------------------------------
(* The record, step by step, as replay sees it.                            *)

\* Nothing that a step adds is a revision.
NoneRevised ==
  \A n \in (Len(log) + 1)..Len(log') : ~IsRevision(log'[n])

LEMMA NoneInSuffix ==
  ASSUME ProposalTypeOK, NEW s \in Seq(Entry), log' = log \o s,
         \A n \in 1..Len(s) : ~IsRevision(s[n])
  PROVE  NoneRevised
<1>1. /\ Len(log) \in Nat /\ Len(s) \in Nat /\ Len(log') = Len(log) + Len(s)
      /\ \A n \in (Len(log) + 1)..Len(log') : log'[n] = s[n - Len(log)]
  BY Grown
<1>2. \A n \in (Len(log) + 1)..Len(log') : n - Len(log) \in 1..Len(s)
  BY <1>1
<1> QED
  BY <1>1, <1>2, Zenon DEF NoneRevised, IsRevision

\* Only ReviseModel revises, and once.
LEMMA OthersReviseNothing ==
  ASSUME ProposalTypeOK, [ProposalNext]_proposalVars, ~ReviseModel
  PROVE  NoneRevised
<1>1. log \in Seq(Entry) /\ Len(log) \in Nat
  BY LenProperties DEF ProposalTypeOK
<1>2. CASE log' = log
  BY <1>1, <1>2 DEF NoneRevised
<1>3. ASSUME NEW a \in Entry, ~IsRevision(a), log' = Append(log, a)
      PROVE  NoneRevised
  <2>1. log' = log \o <<a>>
    BY <1>1, <1>3, AppendIsConcat
  <2> QED
    BY <1>3, <2>1, OneEntry, NoneInSuffix
<1>4. ASSUME NEW a \in Entry, NEW b \in Entry, ~IsRevision(a), ~IsRevision(b),
             log' = log \o <<a, b>>
      PROVE  NoneRevised
  BY <1>4, TwoEntries, NoneInSuffix
<1>5. ASSUME NEW allowed \in BOOLEAN, lpc # "idle",
             \/ Commit(<<>>, allowed)
             \/ \E verdict \in Verdicts : Commit(<<Decision(verdict)>>, allowed)
      PROVE  NoneRevised
  <2>1. Commitment(allowed) \in Entry /\ ~IsRevision(Commitment(allowed))
    BY <1>5, WrittenTypes
  <2>2. PICK c \in Entry : c = Commitment(allowed) /\ ~IsRevision(c)
    BY <2>1
  <2>3. CASE Commit(<<>>, allowed)
    <3>1. log' = log \o <<>> \o <<c>>
      BY <2>2, <2>3 DEF Commit
    <3>2. log \o <<>> = log
      BY <1>1
    <3>3. log' = log \o <<c>>
      BY <3>1, <3>2
    <3> QED
      BY <2>2, <3>3, OneEntry, NoneInSuffix
  <2>4. ASSUME NEW verdict \in Verdicts, Commit(<<Decision(verdict)>>, allowed)
        PROVE  NoneRevised
    <3>1. PICK d \in Entry : d = Decision(verdict) /\ ~IsRevision(d)
      BY DecisionTypes
    <3>2. log' = log \o <<d>> \o <<c>>
      BY <2>2, <2>4, <3>1 DEF Commit
    <3>3. log \o <<d>> \o <<c>> = log \o <<d, c>>
      BY <1>1
    <3> QED
      BY <1>4, <2>2, <3>1, <3>2, <3>3
  <2> QED
    BY <1>5, <2>3, <2>4
<1>6. CASE \E proposal \in Proposals, provider \in Providers, start \in Starts :
             ReceiveProposal(proposal, provider, start)
  <2>1. PICK a \in Entry, b \in Entry :
          a = [type |-> "received"] /\ b = [type |-> "rejected"]
    BY DEF Entry
  <2>2. ~IsRevision(a) /\ ~IsRevision(b)
    BY <2>1 DEF IsRevision
  <2>3. log' = Append(log, a) \/ log' = log \o <<a, b>>
    BY <1>6, <2>1 DEF ReceiveProposal
  <2> QED
    BY <1>3, <1>4, <2>2, <2>3
<1>7. CASE JudgeDelta
  <2>1. EvaluateDeltaPolicy(delta).allowed \in BOOLEAN
    <3>1. EvaluateDeltaPolicy(delta) \in {Permit, Ask, Refuse}
      BY PolicyAnswers
    <3>2. /\ Permit.allowed \in BOOLEAN /\ Ask.allowed \in BOOLEAN
          /\ Refuse.allowed \in BOOLEAN
      BY DEF Permit, Ask, Refuse
    <3> QED
      BY <3>1, <3>2
  <2> QED
    BY <1>5, <1>7, <2>1 DEF JudgeDelta, AtDelta
<1>8. CASE \E verdict \in Verdicts : DecideDelta(verdict)
  <2>1. PICK verdict \in Verdicts : DecideDelta(verdict)
    BY <1>8
  <2>2. Commit(<<Decision(verdict)>>, verdict = "approved") /\ lpc # "idle"
    BY <2>1 DEF DecideDelta, AtDelta
  <2>3. (verdict = "approved") \in BOOLEAN
    OBVIOUS
  <2> QED
    BY <1>5, <2>2, <2>3
<1>9. CASE \E verdict \in Verdicts : EvaluateCall(verdict)
  <2>1. PICK verdict \in Verdicts : EvaluateCall(verdict)
    BY <1>9
  <2> DEFINE judged == EvaluateToolCallPolicy(current.proposal.calls[index])
             evaluated(allowed) == [type |-> "tool_call", id |-> thisId,
                                    verdict |-> judged, allowed |-> allowed]
  <2>2. lpc = "calls" /\ index <= Len(current.proposal.calls)
    BY <2>1 DEF EvaluateCall
  <2>3. judged \in {"allow", "deny", "requires_approval"}
    <3>1. current.proposal \in Proposals
      BY <2>2, CurrentProposal DEF Received
    <3>2. current.proposal.calls \in Seq(ToolRisk)
      BY <3>1, ProposalAssumption
    <3>3. index \in 1..Len(current.proposal.calls)
      BY <2>2, <3>2, LenProperties DEF ProposalTypeOK
    <3>4. current.proposal.calls[index] \in ToolRisk
      BY <3>2, <3>3, ElementOfSeq
    <3> QED
      BY <3>4 DEF EvaluateToolCallPolicy, ToolRisk
  <2>4. \A allowed \in BOOLEAN : evaluated(allowed) \in Entry /\ ~IsRevision(evaluated(allowed))
    BY <2>2, <2>3, CurrentProposal DEF Entry, IsRevision
  <2>5. \/ log' = log \o <<Decision(verdict), evaluated(verdict = "approved")>>
        \/ log' = Append(log, evaluated(judged = "allow"))
    BY <2>1 DEF EvaluateCall
  <2>6. (verdict = "approved") \in BOOLEAN /\ (judged = "allow") \in BOOLEAN
    OBVIOUS
  <2> HIDE DEF evaluated, judged
  <2> QED
    BY <1>3, <1>4, <2>4, <2>5, <2>6, DecisionTypes
<1>10. CASE RevisionRejected
  <2>1. lpc # "idle" /\ log' = Append(log, [type |-> "revision_rejected", id |-> thisId])
    BY <1>10 DEF RevisionRejected
  <2>2. PICK a \in Entry : a = [type |-> "revision_rejected", id |-> thisId]
    BY <2>1, CurrentProposal DEF Entry
  <2>3. ~IsRevision(a)
    BY <2>2 DEF IsRevision
  <2> QED
    BY <1>3, <2>1, <2>2, <2>3
<1>11. CASE Finish
  <2>1. PICK a \in Entry : a = [type |-> "processed"]
    BY DEF Entry
  <2>2. ~IsRevision(a)
    BY <2>1 DEF IsRevision
  <2> QED
    BY <1>3, <1>11, <2>1, <2>2 DEF Finish
<1>12. CASE AskRaises \/ RevisionPolicyRaises \/ DeltasDone \/ UNCHANGED proposalVars
  BY <1>2, <1>12 DEF AskRaises, RevisionPolicyRaises, DeltasDone, proposalVars
<1> QED
  BY <1>6, <1>7, <1>8, <1>9, <1>10, <1>11, <1>12 DEF ProposalNext, ProposalStep

\* Without a revision the world stays as it is.
LEMMA WorldStays ==
  ASSUME ProposalTypeOK, [ProposalNext]_proposalVars, NoneRevised
  PROVE  ReplayedWorld(log') = ReplayedWorld(log)
<1>1. /\ Len(log) \in Nat /\ Len(log') \in Nat /\ Len(log) <= Len(log')
      /\ \A n \in 1..Len(log) : log'[n] = log[n]
  BY ProposalGrows, LenProperties DEF ProposalTypeOK, Extends
<1>2. \A k \in 1..Len(log) : k \in RevisionsIn(log) <=> k \in RevisionsIn(log')
  BY <1>1 DEF RevisionsIn, RevisionsUpTo, IsRevision
<1>3. \A k \in (Len(log) + 1)..Len(log') : k \notin RevisionsIn(log')
  BY DEF NoneRevised, RevisionsIn, RevisionsUpTo
<1>4. ReplayWorld(EmptyWorld, log, RevisionsIn(log))
        = ReplayWorld(EmptyWorld, log', RevisionsIn(log'))
  BY <1>1, <1>2, <1>3, ReplaySame
<1> QED
  BY <1>4 DEF ReplayedWorld

\* A revision is replayed onto it.
LEMMA WorldRevised ==
  ASSUME ProposalTypeOK, ReviseModel
  PROVE  ReplayedWorld(log') = ReplayRevision(ReplayedWorld(log), Revision)
<1> DEFINE r == Revision
<1>1. log \in Seq(Entry) /\ log' = Append(log, r) /\ r.type = "revision"
  BY DEF ReviseModel, ProposalTypeOK, Revision
<1> HIDE DEF r
<1>2. PICK size, last, after :
        size = Len(log) /\ last = Len(log) + 1 /\ after = log'
  OBVIOUS
<1>3. /\ size \in Nat /\ Len(after) = last /\ last = size + 1
      /\ \A n \in 1..size : after[n] = log[n]
      /\ after[last] = r
  <2>1. log \in Seq(Entry \cup {r}) /\ r \in Entry \cup {r}
    BY <1>1
  <2> QED
    BY <1>1, <1>2, <2>1, LenProperties, AppendProperties
<1>4. /\ last \in RevisionsIn(after) /\ last \in 1..Len(after) /\ Len(after) \in Nat
      /\ \A k \in RevisionsIn(after) : k <= last
  BY <1>1, <1>3 DEF RevisionsIn, RevisionsUpTo, IsRevision
<1>5. ReplayWorld(EmptyWorld, after, RevisionsIn(after))
        = ReplayRevision(ReplayWorld(EmptyWorld, after, RevisionsIn(after) \ {last}), r)
  <2>1. ReplayWorld(EmptyWorld, after, RevisionsIn(after))
          = ReplayRevision(ReplayWorld(EmptyWorld, after, RevisionsIn(after) \ {last}),
                           after[last])
    <3>1. PICK all, empty : all = RevisionsIn(after) /\ empty = EmptyWorld
      OBVIOUS
    <3>2. Latest(last, all)
      BY <1>4, <3>1 DEF Latest
    <3>3. ReplayWorld(empty, after, all)
            = ReplayRevision(ReplayWorld(empty, after, all \ {last}), after[last])
      BY <1>4, <3>2, ReplayOneMore
    <3> QED
      BY <3>1, <3>3
  <2> QED
    BY <1>3, <2>1
<1>6. \A k \in 1..size : k \in RevisionsIn(log) <=> k \in RevisionsIn(after) \ {last}
  BY <1>2, <1>3 DEF RevisionsIn, RevisionsUpTo, IsRevision
<1>7. \A k \in (size + 1)..last : k \notin RevisionsIn(after) \ {last}
  BY <1>3
<1>8. ReplayWorld(EmptyWorld, log, RevisionsIn(log))
        = ReplayWorld(EmptyWorld, after, RevisionsIn(after) \ {last})
  BY <1>2, <1>3, <1>6, <1>7, ReplaySame
<1> QED
  BY <1>2, <1>5, <1>8 DEF ReplayedWorld, r

\* What is proposed as a list is one.
LEMMA DeltaValue ==
  ASSUME ProposalTypeOK, ReadyToRevise, lpc = "revise"
  PROVE  delta.raw.tag = "list" => Sequence(delta.raw.of)
<1>1. index \in DOMAIN patches /\ current.proposal \in Proposals
  BY CurrentProposal DEF ReadyToRevise, Received
<1>2. delta.raw = patches[index].value
  BY DEF delta, CandidateDelta, Delta
<1>3. patches[index].value.tag = "list" =>
        LET items == patches[index].value.of
        IN  items \in Seq({items[m] : m \in DOMAIN items})
  BY <1>1, ProposalAssumption DEF patches
<1> QED
  BY <1>2, <1>3 DEF Sequence

LEMMA KnowledgeStep ==
  ASSUME ProposalTypeOK, ReadyToRevise, [ProposalNext]_proposalVars,
         Sound(ReplayedWorld(log))
  PROVE  /\ Sound(ReplayedWorld(log'))
         /\ Keeps(ReplayedWorld(log), ReplayedWorld(log'))
<1>1. PICK before, after : before = ReplayedWorld(log) /\ after = ReplayedWorld(log')
  OBVIOUS
<1>2. Sound(before)
  BY <1>1
<1>3. CASE ReviseModel
  <2>1. after = ReplayRevision(before, Revision)
    BY <1>1, <1>3, WorldRevised
  <2>2. delta.raw.tag = "list" => Sequence(delta.raw.of)
    BY <1>3, DeltaValue DEF ReviseModel
  <2>3. Revision.deltas = <<delta>>
    BY DEF Revision
  <2> QED
    BY <1>1, <1>2, <2>1, <2>2, <2>3, RevisionKeeps
<1>4. CASE ~ReviseModel
  <2>1. after = before
    BY <1>1, <1>4, OthersReviseNothing, WorldStays
  <2>2. /\ Extends(before.anchors, before.anchors) /\ Distinct(before.anchors)
        /\ \A ref \in DOMAIN before.entities : ref[1] = "memory" =>
             Extends(before.entities[ref], before.entities[ref])
    BY <1>2, SequenceGrows DEF Sound
  <2>3. Keeps(before, before)
    BY <2>2 DEF Keeps
  <2> QED
    BY <1>1, <1>2, <2>1, <2>3
<1> QED
  BY <1>3, <1>4

(***************************************************************************)
(* Whatever a model proposes, and in however many proposals: what replay   *)
(* (event_log) finds anchored stays anchored, once and in order, and what  *)
(* it finds in a memory stays there, with what is added after it.          *)
(***************************************************************************)
THEOREM KnowledgeAlwaysKept == ProposalSpec => KnowledgeKept
<1>1. ProposalInit => Sound(ReplayedWorld(log))
  <2> SUFFICES ASSUME ProposalInit
               PROVE  Sound(ReplayedWorld(log))
    OBVIOUS
  <2>1. log = <<>>
    BY DEF ProposalInit
  <2>2. Len(log) = 0
    BY <2>1
  <2>3. PICK f : /\ Replays(f, EmptyWorld, log, RevisionsIn(log), Len(log))
                 /\ ReplayedWorld(log) = f[Len(log)]
    BY <2>2, ReplayWorldReplays DEF ReplayedWorld
  <2>4. ReplayedWorld(log) = EmptyWorld
    BY <2>2, <2>3 DEF Replays
  <2>5. Sequence(<<>>) /\ Distinct(<<>>)
    <3>1. <<>> \in Seq({}) /\ {<<>>[n] : n \in DOMAIN <<>>} = {}
      OBVIOUS
    <3> QED
      BY <3>1 DEF Sequence, Distinct
  <2>6. /\ EmptyWorld = [field \in Fields |-> EmptyWorld[field]]
        /\ EmptyWorld.anchors = <<>> /\ DOMAIN EmptyWorld.entities = {}
    BY DEF EmptyWorld, Fields
  <2> QED
    BY <2>4, <2>5, <2>6 DEF Sound
<1>2. /\ ProposalInvariant /\ Sound(ReplayedWorld(log)) /\ [ProposalNext]_proposalVars
      => /\ Sound(ReplayedWorld(log))'
         /\ Keeps(ReplayedWorld(log), ReplayedWorld(log'))
  BY KnowledgeStep DEF ProposalInvariant
<1>3. /\ ProposalInvariant /\ Sound(ReplayedWorld(log)) /\ [ProposalNext]_proposalVars
      => [ReplayedWorld(log').ok => Keeps(ReplayedWorld(log), ReplayedWorld(log'))]_proposalVars
  BY <1>2
<1> QED
  BY <1>1, <1>2, <1>3, ProposalInvariantHolds, PTL DEF ProposalSpec, KnowledgeKept

================================================================================
