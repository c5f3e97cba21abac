--------------------------- MODULE CalibrationProofs ----------------------------
(***************************************************************************)
(* Calibration, for every history, every work of the rest of the engine    *)
(* and any number of cycles: no cycle goes around the policy, its          *)
(* revisions continue one another, no cycle makes a failure of the engine  *)
(* out of what it recorded itself, and what callers apply is what the      *)
(* record replays to.                                                      *)
(*                                                                         *)
(* The invariant adds to the two that TLC checks what they rest on: only   *)
(* the last cycle can be under way, revisions carry the number of a cycle  *)
(* there is, and the state id a running cycle hands on is the state the    *)
(* log replays to, once it has recorded a revision or if its caller passed *)
(* that state.                                                             *)
(***************************************************************************)
EXTENDS Calibration, EventLogProofs, SequenceTheorems, FiniteSetTheorems

--------------------------------------------------------------------------------
(* The inductive invariant.                                                *)

ProposalSet ==
  [key : {"observed_failure_patterns", "observed_success_metrics",
          "section_risk_profile"},
   mentions : SUBSET Targets]

DeltaSet == Given \cup {ProposalDelta(proposal) : proposal \in ProposalSet}

RevisionSet ==
  [type : {"revision"}, cycle : Nat, prior : Nat, result : Nat,
   deltas : {<<delta>> : delta \in DeltaSet}]

Logged ==
  Recorded \cup {Started, Rejected} \cup [type : {"completed"}, approved : Nat]
           \cup RevisionSet

CycleSet ==
  [provider : CalibrationProviders, replayed : BOOLEAN,
   proposals : Seq(ProposalSet), from : Nat, upto : Nat,
   status : {"running", "completed", "raised"}]

Types ==
  /\ log \in Seq(Logged)
  /\ cycles \in Seq(CycleSet)
  /\ kpc \in {"idle", "proposal"}
  /\ index \in Nat \ {0}
  /\ state_id \in Nat

OnlyLastRuns ==
  \A c \in DOMAIN cycles :
    cycles[c].status = "running" <=> kpc = "proposal" /\ c = Len(cycles)

UnderWay ==
  kpc = "proposal" =>
    /\ Len(cycles) > 0
    /\ Current.provider # "gate"
    /\ Current.from <= Len(log)

RevisionsNumbered ==
  \A n \in RevisionsIn(log) : log[n].cycle \in 0..Len(cycles)

EndsOnRecord ==
  \A c \in DOMAIN cycles :
    cycles[c].status = "completed" /\ cycles[c].provider # "gate" =>
      cycles[c].upto \in 1..Len(log)

Fresh(c) == \A n \in RevisionsIn(log) : log[n].cycle # c

StateHandedOn ==
  kpc = "proposal" =>
    state_id = IF Fresh(Len(cycles)) /\ ~Current.replayed THEN 0
               ELSE ReplayedState(log)

CalibrationInv ==
  /\ Types
  /\ OnlyLastRuns
  /\ UnderWay
  /\ RevisionsNumbered
  /\ EndsOnRecord
  /\ StateHandedOn
  /\ CalibrationAuthorised
  /\ CalibrationChain

--------------------------------------------------------------------------------
(* What steps do to the record.                                            *)

\* What is appended to a log follows what it held.
LEMMA Appended ==
  ASSUME NEW S, NEW s \in Seq(S), NEW t \in Seq(S)
  PROVE  /\ s \o t \in Seq(S)
         /\ Len(s \o t) = Len(s) + Len(t)
         /\ \A n \in 1..Len(s) : (s \o t)[n] = s[n]
         /\ \A n \in (Len(s) + 1)..Len(s \o t) : (s \o t)[n] = t[n - Len(s)]
         /\ Extends(s \o t, s)
BY DEF Extends

\* Entries that speak against no direction of the engine: neither a denial nor
\* a redirect; and those of them that are no revisions either.
Blameless(entry) == ~IsDenied(entry) /\ entry.type # "redirect"
Harmless(entry) == ~IsRevision(entry) /\ Blameless(entry)

\* Two sequences of harmless entries, appended.
LEMMA AppendedBoth ==
  ASSUME NEW S, NEW s \in Seq(S), NEW t \in Seq(S), NEW u \in Seq(S),
         NEW l, l = (s \o t) \o u,
         \A k \in DOMAIN t : Harmless(t[k]),
         \A k \in DOMAIN u : Harmless(u[k])
  PROVE  /\ l \in Seq(S)
         /\ Extends(l, s)
         /\ \A n \in (Len(s) + 1)..Len(l) : Harmless(l[n])
<1>1. /\ l \in Seq(S) /\ Len(l) = Len(s) + Len(t) + Len(u)
      /\ Len(s) \in Nat /\ Len(t) \in Nat /\ Len(u) \in Nat
  OBVIOUS
<1>2. \A n \in 1..Len(s) : l[n] = s[n]
  OBVIOUS
<1>3. ASSUME NEW n \in (Len(s) + 1)..(Len(s) + Len(t))
      PROVE  l[n] = t[n - Len(s)] /\ n - Len(s) \in DOMAIN t
  OBVIOUS
<1>4. ASSUME NEW n \in (Len(s) + Len(t) + 1)..(Len(s) + Len(t) + Len(u))
      PROVE  /\ l[n] = u[n - (Len(s) + Len(t))]
             /\ n - (Len(s) + Len(t)) \in DOMAIN u
  OBVIOUS
<1>5. ASSUME NEW n \in (Len(s) + 1)..Len(l)
      PROVE  \/ n \in (Len(s) + 1)..(Len(s) + Len(t))
             \/ n \in (Len(s) + Len(t) + 1)..(Len(s) + Len(t) + Len(u))
  BY <1>1
<1>6. ASSUME NEW n \in (Len(s) + 1)..Len(l)
      PROVE  Harmless(l[n])
  BY <1>3, <1>4, <1>5, <1>6
<1> QED
  BY <1>1, <1>2, <1>6 DEF Extends

\* Two entries at the end ...
LEMMA AppendedTwo ==
  ASSUME NEW S, NEW s \in Seq(S), NEW a \in S, NEW b \in S
  PROVE  /\ s \o <<a, b>> \o <<>> \in Seq(S)
         /\ Len(s \o <<a, b>> \o <<>>) = Len(s) + 2
         /\ (s \o <<a, b>> \o <<>>)[Len(s) + 1] = a
         /\ (s \o <<a, b>> \o <<>>)[Len(s) + 2] = b
         /\ Extends(s \o <<a, b>> \o <<>>, s)
<1> DEFINE l == Append(s, a)
<1>1. l \in Seq(S) /\ Len(l) = Len(s) + 1 /\ l[Len(s) + 1] = a /\ Len(s) \in Nat
  OBVIOUS
<1>2. \A n \in 1..Len(s) : l[n] = s[n]
  OBVIOUS
<1>3. s \o <<a, b>> \o <<>> = Append(l, b)
  OBVIOUS
<1> HIDE DEF l
<1>4. /\ Append(l, b) \in Seq(S) /\ Len(Append(l, b)) = Len(s) + 2
      /\ Append(l, b)[Len(s) + 2] = b
  BY <1>1
<1>5. Append(l, b)[Len(s) + 1] = a /\ Extends(Append(l, b), s)
  BY <1>1, <1>2 DEF Extends
<1> QED
  BY <1>3, <1>4, <1>5

\* ... and three.
LEMMA AppendedThree ==
  ASSUME NEW S, NEW s \in Seq(S), NEW a \in S, NEW b \in S, NEW c \in S
  PROVE  /\ s \o <<a, b>> \o <<c>> \in Seq(S)
         /\ Len(s \o <<a, b>> \o <<c>>) = Len(s) + 3
         /\ (s \o <<a, b>> \o <<c>>)[Len(s) + 1] = a
         /\ (s \o <<a, b>> \o <<c>>)[Len(s) + 2] = b
         /\ (s \o <<a, b>> \o <<c>>)[Len(s) + 3] = c
         /\ Extends(s \o <<a, b>> \o <<c>>, s)
<1> DEFINE l == s \o <<a, b>> \o <<>>
           m == s \o <<a, b>> \o <<c>>
<1>1. /\ l \in Seq(S) /\ Len(l) = Len(s) + 2 /\ Extends(l, s)
      /\ l[Len(s) + 1] = a /\ l[Len(s) + 2] = b
  BY AppendedTwo
<1>2. m = l \o <<c>>
  <2>1. <<a, b>> \in Seq(S) /\ <<>> \in Seq(S)
    OBVIOUS
  <2>2. s \o <<a, b>> \o <<>> = s \o <<a, b>>
    BY <2>1
  <2> QED
    BY <2>2
<1>3. <<c>> \in Seq(S) /\ Len(<<c>>) = 1
  OBVIOUS
<1>4. Len(s) \in Nat
  OBVIOUS
<1> HIDE DEF l, m
<1>5. /\ m \in Seq(S) /\ Len(m) = Len(s) + 3
      /\ \A n \in 1..(Len(s) + 2) : m[n] = l[n]
      /\ m[Len(s) + 3] = c
  BY <1>1, <1>2, <1>3, <1>4
<1>6. m[Len(s) + 1] = a /\ m[Len(s) + 2] = b /\ Extends(m, s)
  BY <1>1, <1>4, <1>5 DEF Extends
<1> QED
  BY <1>5, <1>6 DEF m

\* Every proposal of a cycle is one of three, about targets.
LEMMA ProposalsType ==
  ASSUME NEW entries
  PROVE  ProposeSelfModelCalibration(ExtractBehavioralSnapshot(entries))
           \in Seq(ProposalSet)
<1> DEFINE snapshot == ExtractBehavioralSnapshot(entries)
           denied == SectionsDenied(snapshot)
           risky == SectionsAtRisk(snapshot)
           a == IF ExtractFailurePatterns(snapshot) # {}
                THEN <<Proposal("observed_failure_patterns", denied)>> ELSE <<>>
           b == IF snapshot.total + snapshot.decided > 0
                THEN <<Proposal("observed_success_metrics", {})>> ELSE <<>>
           c == IF risky # {} THEN <<Proposal("section_risk_profile", risky)>> ELSE <<>>
<1>1. /\ Proposal("observed_failure_patterns", denied) \in ProposalSet
      /\ Proposal("observed_success_metrics", {}) \in ProposalSet
      /\ Proposal("section_risk_profile", risky) \in ProposalSet
  BY DEF Proposal, ProposalSet, SectionsDenied, SectionsAtRisk
<1>2. a \in Seq(ProposalSet) /\ b \in Seq(ProposalSet) /\ c \in Seq(ProposalSet)
  BY <1>1
<1>3. ProposeSelfModelCalibration(snapshot) = a \o b \o c
  BY DEF ProposeSelfModelCalibration
<1> HIDE DEF a, b, c
<1> QED
  BY <1>2, <1>3

\* The count of a cycle's revisions is a number.
LEMMA RevisionCountType ==
  ASSUME log \in Seq(Logged), NEW c
  PROVE  RevisionCount(c) \in Nat
<1> DEFINE R == {n \in RevisionsIn(log) : log[n].cycle = c}
<1>1. R \subseteq 1..Len(log) /\ Len(log) \in Nat
  BY DEF RevisionsIn, RevisionsUpTo
<1>2. IsFiniteSet(1..Len(log))
  BY <1>1, FS_Interval
<1>3. IsFiniteSet(R)
  BY <1>1, <1>2, FS_Subset
<1>4. Cardinality(R) \in Nat
  BY <1>3, FS_CardinalityType
<1> QED
  BY <1>4 DEF RevisionCount, RevisionsOf

\* Everything a cycle or a caller records is an entry.
LEMMA EntriesLogged ==
  /\ \A verdict \in Verdicts : Approval(verdict) \in Logged
  /\ \A success \in BOOLEAN : Commitment("self_update", success, TRUE) \in Logged
  /\ Started \in Logged /\ Rejected \in Logged
  /\ \A count \in Nat : Completed(count) \in Logged
  /\ \A c, prior \in Nat, delta \in DeltaSet : Revision(c, prior, delta) \in Logged
<1>1. \A verdict \in Verdicts : Approval(verdict) \in Logged
  BY DEF Logged, Recorded, Approval
<1>2. \A success \in BOOLEAN : Commitment("self_update", success, TRUE) \in Logged
  BY CalibrationAssumption DEF Logged, Recorded, Commitment
<1>3. Started \in Logged /\ Rejected \in Logged
  BY DEF Logged
<1>4. \A count \in Nat : Completed(count) \in Logged
  BY DEF Logged, Completed
<1>5. \A c, prior \in Nat, delta \in DeltaSet : Revision(c, prior, delta) \in Logged
  BY DEF Logged, RevisionSet, Revision
<1> QED
  BY <1>1, <1>2, <1>3, <1>4, <1>5

\* Only revisions are revisions, and what the rest records never is one.
LEMMA RevisionsAre ==
  /\ \A verdict : ~IsRevision(Approval(verdict))
  /\ \A target, success, asks : ~IsRevision(Commitment(target, success, asks))
  /\ ~IsRevision(Started) /\ ~IsRevision(Rejected)
  /\ \A count : ~IsRevision(Completed(count))
  /\ \A c, prior, delta : IsRevision(Revision(c, prior, delta))
  /\ \A entry \in Recorded : ~IsRevision(entry)
  /\ \A entry \in Logged : IsRevision(entry) => entry \in RevisionSet
BY DEF IsRevision, Approval, Commitment, Started, Rejected, Completed, Revision,
       Recorded, Redirect, Logged

\* What cycles and callers record is blameless.
LEMMA OwnEntriesBlameless ==
  /\ \A verdict : Harmless(Approval(verdict))
  /\ \A success : Harmless(Commitment("self_update", success, TRUE))
  /\ Harmless(Started) /\ Harmless(Rejected)
  /\ \A count : Harmless(Completed(count))
  /\ \A c, prior, delta : Blameless(Revision(c, prior, delta))
BY DEF Harmless, Blameless, IsRevision, IsDenied, Approval, Commitment, Started,
       Rejected, Completed, Revision

\* What the log replays to is a state id.
LEMMA ReplayedType ==
  ASSUME log \in Seq(Logged)
  PROVE  /\ ReplayedState(log) \in Nat
         /\ \A n \in 0..Len(log) : ReplayedAt(log, n) \in Nat
<1>1. \A m \in 1..Len(log) : IsRevision(log[m]) => log[m].result \in Nat
  BY RevisionsAre DEF RevisionSet
<1> QED
  BY <1>1, ReplayType DEF ReplayedState


--------------------------------------------------------------------------------
(* The types.                                                              *)

\* Closing the cycle under way changes its state and where it ends.
LEMMA EndsCycle ==
  ASSUME cycles \in Seq(CycleSet), Len(cycles) > 0, log' \in Seq(Logged),
         NEW status \in {"running", "completed", "raised"}, EndCycle(status)
  PROVE  /\ cycles' \in Seq(CycleSet)
         /\ Len(cycles') = Len(cycles)
         /\ \A c \in 1..Len(cycles) :
              /\ cycles'[c].provider = cycles[c].provider
              /\ cycles'[c].replayed = cycles[c].replayed
              /\ cycles'[c].from = cycles[c].from
              /\ cycles'[c].proposals = cycles[c].proposals
              /\ c # Len(cycles) => cycles'[c] = cycles[c]
         /\ cycles'[Len(cycles)].status = status
         /\ cycles'[Len(cycles)].upto = Len(log')
<1> DEFINE last == Len(cycles)
           closed == [cycles[last] EXCEPT !.status = status, !.upto = Len(log')]
<1>1. last \in Nat /\ last \in 1..Len(cycles) /\ cycles[last] \in CycleSet
  OBVIOUS
<1>2. Len(log') \in Nat
  OBVIOUS
<1>3. closed \in CycleSet
  BY <1>1, <1>2 DEF CycleSet
<1>4. /\ closed.provider = cycles[last].provider
      /\ closed.replayed = cycles[last].replayed
      /\ closed.from = cycles[last].from
      /\ closed.proposals = cycles[last].proposals
      /\ closed.status = status /\ closed.upto = Len(log')
  BY <1>1 DEF CycleSet
<1>5. cycles' = [cycles EXCEPT ![last] = closed]
  BY <1>1 DEF EndCycle
<1> HIDE DEF closed
<1> QED
  BY <1>1, <1>3, <1>4, <1>5

\* A cycle's record.
LEMMA CycleType ==
  ASSUME NEW provider \in CalibrationProviders, NEW replayed \in BOOLEAN,
         NEW proposals \in Seq(ProposalSet), NEW from \in Nat, NEW upto \in Nat,
         NEW status \in {"running", "completed", "raised"}
  PROVE  Cycle(provider, replayed, proposals, from, upto, status) \in CycleSet
BY DEF Cycle, CycleSet

\* The proposal under consideration is one.
LEMMA ThisProposalType ==
  ASSUME Types, UnderWay, AtProposal
  PROVE  /\ Len(cycles) \in Nat \ {0}
         /\ Current \in CycleSet
         /\ ThisProposal \in ProposalSet
         /\ ProposalDelta(ThisProposal) \in DeltaSet
<1>1. Len(cycles) \in Nat \ {0} /\ Len(cycles) \in 1..Len(cycles)
  BY DEF Types, UnderWay, AtProposal
<1>2. Current \in CycleSet
  BY <1>1 DEF Types, Current
<1>3. Current.proposals \in Seq(ProposalSet)
  BY <1>2 DEF CycleSet
<1>4. ThisProposal \in ProposalSet
  BY <1>3 DEF ThisProposal, AtProposal, Types
<1> QED
  BY <1>1, <1>2, <1>4 DEF DeltaSet

(***************************************************************************)
(* A decision on a proposal: approval, commitment and, if it was approved, *)
(* the revision, at the end of the record.                                 *)
(***************************************************************************)
LEMMA Decides ==
  ASSUME Types, UnderWay, AtProposal, NEW verdict \in Verdicts,
         RecordDecision(verdict)
  PROVE  /\ log' \in Seq(Logged)
         /\ state_id' \in Nat
         /\ Extends(log', log)
         /\ log'[Len(log) + 1] = Approval(verdict)
         /\ log'[Len(log) + 2] = Commitment("self_update", verdict = "approved", TRUE)
         /\ verdict # "approved" =>
              Len(log') = Len(log) + 2 /\ state_id' = state_id
         /\ verdict = "approved" =>
              /\ Len(log') = Len(log) + 3
              /\ state_id' = state_id + 1
              /\ log'[Len(log) + 3] =
                   Revision(Len(cycles), state_id, ProposalDelta(ThisProposal))
<1> DEFINE a == Approval(verdict)
           c == Commitment("self_update", verdict = "approved", TRUE)
           r == Revision(Len(cycles), state_id, ProposalDelta(ThisProposal))
<1>1. a \in Logged /\ c \in Logged /\ r \in Logged
  BY EntriesLogged, ThisProposalType DEF Types
<1>2. log \in Seq(Logged) /\ state_id \in Nat
  BY DEF Types
<1>3. CASE verdict = "approved"
  <2>1. log' = log \o <<a, c>> \o <<r>> /\ state_id' = state_id + 1
    BY <1>3 DEF RecordDecision
  <2> HIDE DEF a, c, r
  <2>2. /\ log' \in Seq(Logged) /\ Extends(log', log) /\ Len(log') = Len(log) + 3
        /\ log'[Len(log) + 1] = a /\ log'[Len(log) + 2] = c /\ log'[Len(log) + 3] = r
    BY <1>1, <1>2, <2>1, AppendedThree
  <2>3. state_id' \in Nat
    BY <1>2, <2>1
  <2> QED
    BY <1>3, <2>1, <2>2, <2>3 DEF a, c, r
<1>4. CASE verdict # "approved"
  <2>1. log' = log \o <<a, c>> \o <<>> /\ state_id' = state_id
    BY <1>4 DEF RecordDecision
  <2> HIDE DEF a, c, r
  <2>2. /\ log' \in Seq(Logged) /\ Extends(log', log) /\ Len(log') = Len(log) + 2
        /\ log'[Len(log) + 1] = a /\ log'[Len(log) + 2] = c
    BY <1>1, <1>2, <2>1, AppendedTwo
  <2> QED
    BY <1>2, <1>4, <2>1, <2>2 DEF a, c
<1> QED
  BY <1>3, <1>4


\* The types hold at first ...
LEMMA TypesInit == CalibrationInit => Types
<1>1. ASSUME CalibrationInit
      PROVE  log \in Seq(Logged)
  <2>1. log \in Seq(Recorded)
    BY <1>1, CalibrationAssumption DEF CalibrationInit
  <2>2. Recorded \subseteq Logged
    BY DEF Logged
  <2> QED
    BY <2>1, <2>2
<1>2. ASSUME CalibrationInit
      PROVE  /\ cycles \in Seq(CycleSet) /\ kpc \in {"idle", "proposal"}
             /\ index \in Nat \ {0} /\ state_id \in Nat
  BY <1>2 DEF CalibrationInit
<1> QED
  BY <1>1, <1>2 DEF Types

\* ... and every step keeps them.
LEMMA StartTypes ==
  ASSUME Types, NEW provider \in Providers, NEW replayed \in BOOLEAN,
         StartCycle(provider, replayed)
  PROVE  /\ Types'
         /\ Extends(log', log)
         /\ \A n \in (Len(log) + 1)..Len(log') : Harmless(log'[n])
         /\ Len(log') > Len(log)
         /\ Len(cycles') = Len(cycles) + 1
         /\ \A c \in 1..Len(cycles) : cycles'[c] = cycles[c]
         /\ cycles'[Len(cycles')].provider = provider
         /\ cycles'[Len(cycles')].replayed = replayed
         /\ cycles'[Len(cycles')].from = Len(log) + 1
         /\ \/ /\ kpc' = "proposal"
               /\ cycles'[Len(cycles')].status = "running"
            \/ /\ kpc' = "idle"
               /\ cycles'[Len(cycles')].status = "completed"
               /\ cycles'[Len(cycles')].upto = Len(log')
               /\ log'[Len(log')] = Completed(0)
<1> DEFINE proposals == ProposeSelfModelCalibration(ExtractBehavioralSnapshot(log))
           empty == proposals = <<>>
           status == IF empty THEN "completed" ELSE "running"
           new == Cycle(provider, replayed, proposals, Len(log) + 1, Len(log'), status)
<1>1. log \in Seq(Logged) /\ cycles \in Seq(CycleSet) /\ Len(log) \in Nat
  BY DEF Types
<1>2. Started \in Logged /\ Completed(0) \in Logged
  BY EntriesLogged
<1>3. /\ log' \in Seq(Logged)
      /\ Extends(log', log)
      /\ Len(log') \in Nat
      /\ Len(log') > Len(log)
      /\ \A n \in (Len(log) + 1)..Len(log') : Harmless(log'[n])
      /\ empty => log'[Len(log')] = Completed(0)
  <2>1. CASE empty
    <3>1. log' = log \o <<Started, Completed(0)>>
      BY <2>1 DEF StartCycle
    <3>2. log' = log \o <<Started, Completed(0)>> \o <<>>
      BY <1>1, <1>2, <3>1
    <3>3. /\ log' \in Seq(Logged) /\ Len(log') = Len(log) + 2
          /\ log'[Len(log) + 1] = Started /\ log'[Len(log) + 2] = Completed(0)
          /\ Extends(log', log)
      BY <1>1, <1>2, <3>2, AppendedTwo
    <3> QED
      BY <1>1, <3>3, OwnEntriesBlameless
  <2>2. CASE ~empty
    <3>1. log' = log \o <<Started>>
      BY <2>2 DEF StartCycle
    <3>2. /\ log' \in Seq(Logged) /\ Len(log') = Len(log) + 1
          /\ log'[Len(log) + 1] = Started /\ Extends(log', log)
      BY <1>1, <1>2, <3>1 DEF Extends
    <3> QED
      BY <1>1, <2>2, <3>2, OwnEntriesBlameless
  <2> QED
    BY <2>1, <2>2
<1>4. new \in CycleSet
  <2>1. proposals \in Seq(ProposalSet)
    BY ProposalsType
  <2>2. provider \in CalibrationProviders
    BY CalibrationAssumption
  <2> HIDE DEF proposals
  <2> QED
    BY <1>1, <1>3, <2>1, <2>2, CycleType
<1>5. /\ new.provider = provider /\ new.replayed = replayed
      /\ new.from = Len(log) + 1 /\ new.upto = Len(log') /\ new.status = status
  BY DEF Cycle
<1>6. cycles' = Append(cycles, new) /\ kpc' = (IF empty THEN "idle" ELSE "proposal")
  BY DEF StartCycle
<1>7. index' = 1 /\ state_id' = (IF replayed THEN ReplayedState(log) ELSE 0)
  BY DEF StartCycle
<1>8. state_id' \in Nat
  BY <1>1, <1>7, ReplayedType
<1> HIDE DEF new
<1>9. /\ cycles' \in Seq(CycleSet)
      /\ Len(cycles') = Len(cycles) + 1
      /\ cycles'[Len(cycles')] = new
      /\ \A c \in 1..Len(cycles) : cycles'[c] = cycles[c]
  BY <1>1, <1>4, <1>6
<1>10. Types'
  BY <1>3, <1>6, <1>7, <1>8, <1>9 DEF Types
<1>11. \/ kpc' = "proposal" /\ new.status = "running"
       \/ /\ kpc' = "idle" /\ new.status = "completed"
          /\ new.upto = Len(log') /\ log'[Len(log')] = Completed(0)
  BY <1>3, <1>5, <1>6
<1> HIDE DEF empty, status
<1> QED
  BY <1>3, <1>5, <1>9, <1>10, <1>11

\* The legacy cycle appends its commitments and the answers of the gate.
LEMMA LegacyTypes ==
  ASSUME Types, NEW verdicts, verdicts = {} \/ verdicts = {"approved"},
         RunLegacyCycle(verdicts)
  PROVE  /\ Types'
         /\ Extends(log', log)
         /\ \A n \in (Len(log) + 1)..Len(log') : Harmless(log'[n])
         /\ kpc = "idle" /\ kpc' = "idle"
         /\ Len(cycles') = Len(cycles) + 1
         /\ \A c \in 1..Len(cycles) : cycles'[c] = cycles[c]
         /\ cycles'[Len(cycles')].provider = "gate"
         /\ cycles'[Len(cycles')].status = "completed"
<1> DEFINE proposals == ProposeSelfModelCalibration(ExtractBehavioralSnapshot(log))
           commitments == [n \in DOMAIN proposals |->
                             Commitment("self_update", FALSE, TRUE)]
           count == Len(proposals) * Cardinality(verdicts)
           decision == Approval(CHOOSE verdict \in verdicts : TRUE)
           decisions == [n \in 1..count |-> decision]
           new == Cycle("gate", FALSE, proposals, Len(log) + 1, Len(log'), "completed")
<1>1. log \in Seq(Logged) /\ cycles \in Seq(CycleSet) /\ Len(log) \in Nat
  BY DEF Types
<1>2. proposals \in Seq(ProposalSet)
  BY ProposalsType
<1>3. commitments \in Seq(Logged)
  <2> DEFINE commitment == Commitment("self_update", FALSE, TRUE)
  <2>1. commitment \in Logged
    BY EntriesLogged
  <2>2. commitments = [n \in 1..Len(proposals) |-> commitment]
    BY <1>2
  <2>3. Len(proposals) \in Nat
    BY <1>2
  <2> HIDE DEF commitment, proposals, commitments
  <2> QED
    BY <2>1, <2>2, <2>3
<1>4. count \in Nat /\ (count > 0 => decision \in Logged)
  <2>1. CASE verdicts = {}
    <3>1. Cardinality(verdicts) = 0
      BY <2>1, FS_EmptySet
    <3> HIDE DEF proposals
    <3> QED
      BY <1>2, <3>1
  <2>2. CASE verdicts = {"approved"}
    <3>1. Cardinality(verdicts) = 1
      BY <2>2, FS_Singleton
    <3>2. (CHOOSE verdict \in verdicts : TRUE) \in Verdicts
      BY <2>2 DEF Verdicts
    <3>3. decision \in Logged
      BY <3>2, EntriesLogged
    <3> HIDE DEF proposals, decision
    <3> QED
      BY <1>2, <3>1, <3>3
  <2> QED
    BY <2>1, <2>2
<1>5. decisions \in Seq(Logged)
  <2> HIDE DEF decision, count
  <2> QED
    BY <1>4
<1>6. /\ \A n \in DOMAIN commitments : Harmless(commitments[n])
      /\ \A n \in DOMAIN decisions : Harmless(decisions[n])
  BY OwnEntriesBlameless
<1>7. log' = (log \o commitments) \o decisions
  BY DEF RunLegacyCycle
<1>8. /\ cycles' = Append(cycles, new) /\ kpc = "idle"
      /\ UNCHANGED <<kpc, index, state_id>>
  BY DEF RunLegacyCycle
<1> HIDE DEF commitments, decisions
<1>9. /\ log' \in Seq(Logged) /\ Extends(log', log) /\ Len(log') \in Nat
      /\ \A n \in (Len(log) + 1)..Len(log') : Harmless(log'[n])
  <2>1. log' \in Seq(Logged) /\ Extends(log', log)
    BY <1>1, <1>3, <1>5, <1>6, <1>7, AppendedBoth
  <2>2. \A n \in (Len(log) + 1)..Len(log') : Harmless(log'[n])
    BY <1>1, <1>3, <1>5, <1>6, <1>7, AppendedBoth
  <2> QED
    BY <2>1, <2>2
<1>10. new \in CycleSet
  <2>1. "gate" \in CalibrationProviders /\ FALSE \in BOOLEAN /\ Len(log) + 1 \in Nat
    BY <1>1 DEF CalibrationProviders
  <2> HIDE DEF proposals
  <2> QED
    BY <1>2, <1>9, <2>1, CycleType
<1>11. new.provider = "gate" /\ new.status = "completed"
  BY DEF Cycle
<1> HIDE DEF new
<1>12. /\ cycles' \in Seq(CycleSet)
       /\ Len(cycles') = Len(cycles) + 1
       /\ cycles'[Len(cycles')] = new
       /\ \A c \in 1..Len(cycles) : cycles'[c] = cycles[c]
  BY <1>1, <1>8, <1>10
<1>13. Types'
  BY <1>8, <1>9, <1>12 DEF Types
<1> QED
  BY <1>8, <1>9, <1>11, <1>12, <1>13


--------------------------------------------------------------------------------
(* What a step leaves of the record and of the cycles.                     *)

\* The step records no revision.
Quiet ==
  /\ Extends(log', log)
  /\ \A n \in (Len(log) + 1)..Len(log') : ~IsRevision(log'[n])

\* The step records one revision, at the end.
Revises ==
  /\ Extends(log', log)
  /\ Len(log') > Len(log)
  /\ IsRevision(log'[Len(log')])
  /\ \A n \in (Len(log) + 1)..(Len(log') - 1) : ~IsRevision(log'[n])

\* A cycle keeps who ran it and from where, and once it has ended it stays.
CyclesKept ==
  /\ Len(cycles') >= Len(cycles)
  /\ \A c \in 1..Len(cycles) :
       /\ cycles'[c].provider = cycles[c].provider
       /\ cycles'[c].replayed = cycles[c].replayed
       /\ cycles'[c].from = cycles[c].from
       /\ cycles'[c].proposals = cycles[c].proposals
       /\ cycles[c].status # "running" => cycles'[c] = cycles[c]

\* A step that leaves the cycles alone keeps them.
LEMMA CyclesUnchanged == cycles' = cycles /\ cycles \in Seq(CycleSet) => CyclesKept
BY DEF CyclesKept

\* Without a new revision, all that is read off the revisions stays.
LEMMA QuietRecord ==
  ASSUME log \in Seq(Logged), log' \in Seq(Logged), Quiet
  PROVE  /\ RevisionsIn(log') = RevisionsIn(log)
         /\ ReplayedState(log') = ReplayedState(log)
         /\ \A c : RevisionCount(c)' = RevisionCount(c)
         /\ \A c : Fresh(c)' = Fresh(c)
<1>1. /\ Len(log) \in Nat /\ Len(log') \in Nat /\ Len(log') >= Len(log)
      /\ \A n \in 1..Len(log) : log'[n] = log[n]
  BY DEF Quiet, Extends
<1>2. RevisionsIn(log') = RevisionsIn(log)
  <2>1. ASSUME NEW n \in 1..Len(log')
        PROVE  n \in RevisionsIn(log') <=> n \in RevisionsIn(log)
    <3>1. CASE n \in 1..Len(log)
      BY <1>1, <3>1 DEF RevisionsIn, RevisionsUpTo
    <3>2. CASE n \in (Len(log) + 1)..Len(log')
      BY <1>1, <3>2 DEF RevisionsIn, RevisionsUpTo, Quiet
    <3> QED
      BY <1>1, <3>1, <3>2
  <2>2. /\ RevisionsIn(log) \subseteq 1..Len(log')
        /\ RevisionsIn(log') \subseteq 1..Len(log')
    BY <1>1 DEF RevisionsIn, RevisionsUpTo
  <2> QED
    BY <2>1, <2>2
<1>3. ReplayedState(log') = ReplayedState(log)
  <2>1. ReplayedAt(log', Len(log')) = ReplayedAt(log', Len(log))
    BY <1>1, ReplaySkipsOthers DEF Quiet
  <2>2. ReplayedAt(log', Len(log)) = ReplayedAt(log, Len(log))
    BY <1>1, ReplayReadsPrefix
  <2> QED
    BY <2>1, <2>2 DEF ReplayedState
<1>4. \A n \in RevisionsIn(log) : log'[n] = log[n]
  BY <1>1 DEF RevisionsIn, RevisionsUpTo
<1>5. ASSUME NEW c
      PROVE  RevisionCount(c)' = RevisionCount(c) /\ Fresh(c)' = Fresh(c)
  <2>1. {n \in RevisionsIn(log') : log'[n].cycle = c}
          = {n \in RevisionsIn(log) : log[n].cycle = c}
    BY <1>2, <1>4
  <2>2. RevisionCount(c)' = RevisionCount(c)
    BY <2>1 DEF RevisionCount, RevisionsOf
  <2>3. Fresh(c)' = Fresh(c)
    BY <1>2, <1>4 DEF Fresh
  <2> QED
    BY <2>2, <2>3
<1> QED
  BY <1>2, <1>3, <1>5

\* With a new revision at the end, the log replays to its result.
LEMMA RevisedRecord ==
  ASSUME log \in Seq(Logged), log' \in Seq(Logged), Revises
  PROVE  /\ RevisionsIn(log') = RevisionsIn(log) \cup {Len(log')}
         /\ Len(log') \notin RevisionsIn(log)
         /\ ReplayedState(log') = log'[Len(log')].result
         /\ ReplayedAt(log', Len(log') - 1) = ReplayedState(log)
         /\ \A c : c # log'[Len(log')].cycle => RevisionCount(c)' = RevisionCount(c)
<1>1. /\ Len(log) \in Nat /\ Len(log') \in Nat /\ Len(log') > Len(log)
      /\ \A n \in 1..Len(log) : log'[n] = log[n]
  BY DEF Revises, Extends
<1>2. RevisionsIn(log') = RevisionsIn(log) \cup {Len(log')}
  <2>1. ASSUME NEW n \in 1..Len(log')
        PROVE  n \in RevisionsIn(log') <=> n \in RevisionsIn(log) \/ n = Len(log')
    <3>1. CASE n \in 1..Len(log)
      BY <1>1, <3>1 DEF RevisionsIn, RevisionsUpTo
    <3>2. CASE n \in (Len(log) + 1)..(Len(log') - 1)
      BY <1>1, <3>2 DEF RevisionsIn, RevisionsUpTo, Revises
    <3>3. CASE n = Len(log')
      BY <1>1, <3>3 DEF RevisionsIn, RevisionsUpTo, Revises
    <3> QED
      BY <1>1, <3>1, <3>2, <3>3
  <2>2. /\ RevisionsIn(log) \subseteq 1..Len(log')
        /\ RevisionsIn(log') \subseteq 1..Len(log')
        /\ Len(log') \in 1..Len(log')
    BY <1>1 DEF RevisionsIn, RevisionsUpTo
  <2> QED
    BY <2>1, <2>2
<1>3. Len(log') \notin RevisionsIn(log)
  BY <1>1 DEF RevisionsIn, RevisionsUpTo
<1>4. ReplayedState(log') = log'[Len(log')].result
  <2>1. Len(log') \in Nat \ {0}
    BY <1>1
  <2> QED
    BY <2>1, ReplayEndsInRevision DEF Revises, ReplayedState
<1>5. ReplayedAt(log', Len(log') - 1) = ReplayedState(log)
  <2>1. Len(log') - 1 \in Nat /\ Len(log) <= Len(log') - 1
    BY <1>1
  <2>2. ReplayedAt(log', Len(log') - 1) = ReplayedAt(log', Len(log))
    BY <1>1, <2>1, ReplaySkipsOthers DEF Revises
  <2>3. ReplayedAt(log', Len(log)) = ReplayedAt(log, Len(log))
    BY <1>1, ReplayReadsPrefix
  <2> QED
    BY <2>2, <2>3 DEF ReplayedState
<1>6. \A n \in RevisionsIn(log) : log'[n] = log[n]
  BY <1>1 DEF RevisionsIn, RevisionsUpTo
<1>7. ASSUME NEW c, c # log'[Len(log')].cycle
      PROVE  RevisionCount(c)' = RevisionCount(c)
  <2>1. {n \in RevisionsIn(log') : log'[n].cycle = c}
          = {n \in RevisionsIn(log) : log[n].cycle = c}
    BY <1>2, <1>6, <1>7
  <2> QED
    BY <2>1 DEF RevisionCount, RevisionsOf
<1> QED
  BY <1>2, <1>3, <1>4, <1>5, <1>7


\* The two properties, for one revision and for one cycle.
AuthorisedAt(n) ==
  log[n].cycle # 0 =>
    /\ n > 2
    /\ log[n - 1] = Commitment("self_update", TRUE, TRUE)
    /\ log[n - 2] = Approval("approved")
    /\ cycles[log[n].cycle].from < n - 2
    /\ cycles[log[n].cycle].provider \in {"answers", "raises"}
    /\ LetThrough(cycles[log[n].cycle], log[n].deltas)

CompletedAt(c) ==
  cycles[c].status = "completed" /\ cycles[c].provider # "gate" =>
    log[cycles[c].upto] = Completed(RevisionCount(c))

FirstOf(n) ==
  \A m \in RevisionsIn(log) : m < n => log[m].cycle # log[n].cycle

ChainAt(n) ==
  log[n].cycle # 0 =>
    log[n].prior = IF FirstOf(n) /\ ~cycles[log[n].cycle].replayed THEN 0
                   ELSE ReplayedAt(log, n - 1)

\* The two properties say this of every revision and every cycle.
LEMMA PropertiesByEntry ==
  /\ CalibrationAuthorised <=>
       /\ \A n \in RevisionsIn(log) : AuthorisedAt(n)
       /\ \A c \in DOMAIN cycles : CompletedAt(c)
  /\ CalibrationChain <=> \A n \in RevisionsIn(log) : ChainAt(n)
BY DEF CalibrationAuthorised, CalibrationChain, AuthorisedAt, CompletedAt, ChainAt,
       FirstOf

\* Revisions on record keep their cycle, their authorisation and their prior.
LEMMA OldRevisionsHold ==
  ASSUME CalibrationInv, Types', Extends(log', log), CyclesKept
  PROVE  \A n \in RevisionsIn(log) :
           /\ log'[n].cycle \in 0..Len(cycles')
           /\ AuthorisedAt(n)'
           /\ ChainAt(n)'
<1>1. /\ log \in Seq(Logged) /\ log' \in Seq(Logged)
      /\ cycles \in Seq(CycleSet) /\ cycles' \in Seq(CycleSet)
      /\ Len(log) \in Nat /\ Len(log') \in Nat
      /\ Len(cycles) \in Nat /\ Len(cycles') \in Nat
  BY DEF CalibrationInv, Types
<1>2. /\ Len(log') >= Len(log)
      /\ \A n \in 1..Len(log) : log'[n] = log[n]
  BY DEF Extends
<1>3. /\ Len(cycles') >= Len(cycles)
      /\ \A c \in 1..Len(cycles) :
           /\ cycles'[c].provider = cycles[c].provider
           /\ cycles'[c].replayed = cycles[c].replayed
           /\ cycles'[c].from = cycles[c].from
           /\ cycles'[c].proposals = cycles[c].proposals
  BY DEF CyclesKept
<1>4. TAKE n \in RevisionsIn(log)
<1>5. n \in 1..Len(log) /\ log'[n] = log[n]
  BY <1>2 DEF RevisionsIn, RevisionsUpTo
<1>6. log[n].cycle \in 0..Len(cycles)
  BY DEF CalibrationInv, RevisionsNumbered
<1>7. AuthorisedAt(n) /\ ChainAt(n)
  BY PropertiesByEntry DEF CalibrationInv
<1>8. CASE log[n].cycle = 0
  <2>1. AuthorisedAt(n)' /\ ChainAt(n)'
    BY <1>5, <1>8 DEF AuthorisedAt, ChainAt
  <2> QED
    BY <1>1, <1>5, <1>8, <2>1
<1>9. CASE log[n].cycle # 0
  <2>1. log[n].cycle \in 1..Len(cycles)
    BY <1>1, <1>6, <1>9
  <2>2. AuthorisedAt(n)'
    <3>0. n > 2
      BY <1>7, <1>9 DEF AuthorisedAt
    <3>1. n - 1 \in 1..Len(log) /\ n - 2 \in 1..Len(log)
      BY <1>1, <1>5, <3>0
    <3>2. log'[n - 1] = log[n - 1] /\ log'[n - 2] = log[n - 2]
      BY <1>2, <3>1
    <3> QED
      BY <1>3, <1>5, <1>7, <1>9, <2>1, <3>2 DEF AuthorisedAt, LetThrough
  <2>3. FirstOf(n)' <=> FirstOf(n)
    <3>1. \A m \in 1..Len(log) : m \in RevisionsIn(log') <=> m \in RevisionsIn(log)
      BY <1>1, <1>2 DEF RevisionsIn, RevisionsUpTo
    <3>2. \A m \in RevisionsIn(log') : m < n => m \in 1..Len(log)
      BY <1>1, <1>5 DEF RevisionsIn, RevisionsUpTo
    <3>3. \A m \in RevisionsIn(log) : m \in 1..Len(log)
      BY DEF RevisionsIn, RevisionsUpTo
    <3> QED
      BY <1>2, <1>5, <3>1, <3>2, <3>3 DEF FirstOf
  <2>4. ReplayedAt(log', n - 1) = ReplayedAt(log, n - 1)
    <3>1. n - 1 \in Nat /\ \A m \in 1..(n - 1) : log'[m] = log[m]
      BY <1>1, <1>2, <1>5
    <3> QED
      BY <3>1, ReplayReadsPrefix
  <2>5. ChainAt(n)'
    BY <1>3, <1>5, <1>7, <1>9, <2>1, <2>3, <2>4 DEF ChainAt
  <2> QED
    BY <1>1, <1>3, <1>5, <1>6, <2>2, <2>5
<1> QED
  BY <1>8, <1>9

(***************************************************************************)
(* A step that records no revision keeps the properties, if a cycle it     *)
(* completes reports the revisions it has on record.                       *)
(***************************************************************************)
EndsWell ==
  \A c \in 1..Len(cycles') :
    cycles'[c].status = "completed" /\ cycles'[c].provider # "gate" =>
      \/ c <= Len(cycles) /\ cycles[c].status = "completed"
      \/ /\ Len(log') > 0
         /\ cycles'[c].upto = Len(log')
         /\ log'[Len(log')] = Completed(RevisionCount(c)')

Held ==
  /\ RevisionsNumbered
  /\ EndsOnRecord
  /\ CalibrationAuthorised
  /\ CalibrationChain

\* A cycle that had completed still reports what it has on record.
LEMMA OldCyclesHold ==
  ASSUME CalibrationInv, Types', Extends(log', log), CyclesKept,
         NEW c \in 1..Len(cycles), cycles[c].status = "completed",
         cycles[c].provider # "gate",
         RevisionCount(c)' = RevisionCount(c)
  PROVE  cycles'[c].upto \in 1..Len(log') /\ CompletedAt(c)'
<1>1. /\ cycles \in Seq(CycleSet) /\ Len(log) \in Nat /\ Len(log') \in Nat
      /\ c \in DOMAIN cycles
  BY DEF CalibrationInv, Types
<1>2. cycles'[c] = cycles[c]
  BY DEF CyclesKept
<1>3. cycles[c].upto \in 1..Len(log)
  BY <1>1 DEF CalibrationInv, EndsOnRecord
<1>4. log'[cycles[c].upto] = log[cycles[c].upto] /\ Len(log') >= Len(log)
  BY <1>3 DEF Extends
<1>5. log[cycles[c].upto] = Completed(RevisionCount(c))
  BY <1>1, PropertiesByEntry DEF CalibrationInv, CompletedAt
<1> QED
  BY <1>1, <1>2, <1>3, <1>4, <1>5 DEF CompletedAt

\* Revisions on record, and cycles that have ended, stay as they were.
LEMMA QuietHolds ==
  ASSUME CalibrationInv, Types', Quiet, CyclesKept, EndsWell
  PROVE  Held'
<1>1. /\ log \in Seq(Logged) /\ log' \in Seq(Logged)
      /\ cycles \in Seq(CycleSet) /\ cycles' \in Seq(CycleSet)
      /\ Len(cycles) \in Nat /\ Len(log') \in Nat
      /\ DOMAIN cycles' = 1..Len(cycles')
  BY DEF CalibrationInv, Types
<1>2. Extends(log', log)
  BY DEF Quiet
<1>3. /\ RevisionsIn(log') = RevisionsIn(log)
      /\ \A c : RevisionCount(c)' = RevisionCount(c)
  BY <1>1, QuietRecord
<1>4. \A n \in RevisionsIn(log') :
        log'[n].cycle \in 0..Len(cycles') /\ AuthorisedAt(n)' /\ ChainAt(n)'
  BY <1>2, <1>3, OldRevisionsHold
<1>5. ASSUME NEW c \in 1..Len(cycles'),
             cycles'[c].status = "completed", cycles'[c].provider # "gate"
      PROVE  cycles'[c].upto \in 1..Len(log') /\ CompletedAt(c)'
  <2>1. CASE c <= Len(cycles) /\ cycles[c].status = "completed"
    <3>1. c \in 1..Len(cycles)
      BY <1>1, <2>1
    <3>2. cycles[c].provider # "gate"
      BY <1>5, <3>1 DEF CyclesKept
    <3> QED
      BY <1>2, <1>3, <2>1, <3>1, <3>2, OldCyclesHold
  <2>2. CASE /\ Len(log') > 0
             /\ cycles'[c].upto = Len(log')
             /\ log'[Len(log')] = Completed(RevisionCount(c)')
    BY <1>1, <2>2 DEF CompletedAt
  <2> QED
    BY <1>5, <2>1, <2>2 DEF EndsWell
<1>6. \A c \in DOMAIN cycles' : CompletedAt(c)'
  BY <1>1, <1>5 DEF CompletedAt
<1>7. EndsOnRecord'
  BY <1>1, <1>5 DEF EndsOnRecord
<1>8. RevisionsNumbered'
  BY <1>4 DEF RevisionsNumbered
<1>9. CalibrationAuthorised' /\ CalibrationChain'
  BY <1>4, <1>6 DEF CalibrationAuthorised, CalibrationChain, AuthorisedAt,
    CompletedAt, ChainAt, FirstOf
<1> QED
  BY <1>7, <1>8, <1>9 DEF Held

\* A step that records one keeps them if that one is well founded.
LEMMA RevisesHolds ==
  ASSUME CalibrationInv, Types', Revises, cycles' = cycles,
         NEW k, k = Len(log'), AuthorisedAt(k)', ChainAt(k)',
         log'[k].cycle \in 0..Len(cycles),
         \A c \in 1..Len(cycles) : c = log'[k].cycle => cycles[c].status # "completed"
  PROVE  Held'
<1>1. /\ log \in Seq(Logged) /\ log' \in Seq(Logged)
      /\ cycles \in Seq(CycleSet) /\ cycles' \in Seq(CycleSet)
      /\ Len(cycles) \in Nat /\ Len(log') \in Nat
      /\ DOMAIN cycles' = 1..Len(cycles')
  BY DEF CalibrationInv, Types
<1>2. Extends(log', log) /\ CyclesKept
  BY <1>1, CyclesUnchanged DEF Revises
<1>3. /\ RevisionsIn(log') = RevisionsIn(log) \cup {k}
      /\ \A c : c # log'[k].cycle => RevisionCount(c)' = RevisionCount(c)
  BY <1>1, RevisedRecord
<1>4. \A n \in RevisionsIn(log) :
        log'[n].cycle \in 0..Len(cycles') /\ AuthorisedAt(n)' /\ ChainAt(n)'
  BY <1>2, OldRevisionsHold
<1>5. \A n \in RevisionsIn(log') :
        log'[n].cycle \in 0..Len(cycles') /\ AuthorisedAt(n)' /\ ChainAt(n)'
  BY <1>3, <1>4
<1>6. ASSUME NEW c \in 1..Len(cycles'),
             cycles'[c].status = "completed", cycles'[c].provider # "gate"
      PROVE  cycles'[c].upto \in 1..Len(log') /\ CompletedAt(c)'
  <2>1. c \in 1..Len(cycles) /\ cycles[c] = cycles'[c] /\ c # log'[k].cycle
    BY <1>6
  <2> QED
    BY <1>2, <1>3, <1>6, <2>1, OldCyclesHold
<1>7. \A c \in DOMAIN cycles' : CompletedAt(c)'
  BY <1>1, <1>6 DEF CompletedAt
<1>8. EndsOnRecord'
  BY <1>1, <1>6 DEF EndsOnRecord
<1>9. RevisionsNumbered'
  BY <1>5 DEF RevisionsNumbered
<1>10. CalibrationAuthorised' /\ CalibrationChain'
  BY <1>5, <1>7 DEF CalibrationAuthorised, CalibrationChain, AuthorisedAt,
    CompletedAt, ChainAt, FirstOf
<1> QED
  BY <1>8, <1>9, <1>10 DEF Held


--------------------------------------------------------------------------------
(* Every action keeps the invariant.                                       *)

\* The parts of the invariant.
LEMMA InvFrom ==
  ASSUME Types', OnlyLastRuns', UnderWay', StateHandedOn', Held'
  PROVE  CalibrationInv'
BY DEF CalibrationInv, Held

\* At first nothing has been revised and no cycle has run.
LEMMA InvInit == CalibrationInit => CalibrationInv
<1> SUFFICES ASSUME CalibrationInit PROVE CalibrationInv
  OBVIOUS
<1>1. Types
  BY TypesInit
<1>2. kpc = "idle" /\ cycles = <<>> /\ DOMAIN cycles = {}
  BY DEF CalibrationInit
<1>3. \A n \in 1..Len(log) : ~IsRevision(log[n])
  <2>1. log \in Seq(Recorded)
    BY CalibrationAssumption DEF CalibrationInit
  <2>2. \A n \in 1..Len(log) : log[n] \in Recorded
    BY <2>1
  <2> QED
    BY <2>2, RevisionsAre
<1>4. RevisionsIn(log) = {}
  BY <1>3 DEF RevisionsIn, RevisionsUpTo
<1>5. OnlyLastRuns /\ UnderWay /\ StateHandedOn /\ EndsOnRecord
  BY <1>2 DEF OnlyLastRuns, UnderWay, StateHandedOn, EndsOnRecord
<1>6. RevisionsNumbered /\ CalibrationAuthorised /\ CalibrationChain
  BY <1>2, <1>4 DEF RevisionsNumbered, CalibrationAuthorised, CalibrationChain
<1> QED
  BY <1>1, <1>5, <1>6 DEF CalibrationInv

\* Entries of others come between cycles only.
LEMMA WorkKeeps ==
  ASSUME CalibrationInv, NEW entry \in Entries, Work(entry)
  PROVE  CalibrationInv'
<1>1. /\ log \in Seq(Logged) /\ cycles \in Seq(CycleSet) /\ Len(log) \in Nat
      /\ DOMAIN cycles = 1..Len(cycles)
  BY DEF CalibrationInv, Types
<1>2. entry \in Logged /\ ~IsRevision(entry)
  BY CalibrationAssumption, RevisionsAre DEF Logged
<1>3. /\ log' = Append(log, entry) /\ kpc = "idle" /\ kpc' = kpc
      /\ cycles' = cycles /\ index' = index /\ state_id' = state_id
  BY DEF Work
<1>4. log' \in Seq(Logged) /\ Quiet
  BY <1>1, <1>2, <1>3 DEF Quiet, Extends
<1>5. Types'
  BY <1>3, <1>4 DEF CalibrationInv, Types
<1>6. OnlyLastRuns' /\ UnderWay' /\ StateHandedOn'
  BY <1>3 DEF CalibrationInv, OnlyLastRuns, UnderWay, StateHandedOn
<1>7. CyclesKept /\ EndsWell
  BY <1>1, <1>3 DEF CyclesKept, EndsWell
<1> QED
  BY <1>4, <1>5, <1>6, <1>7, QuietHolds, InvFrom

\* A cycle starts from state 0, or from what the log replays to.
LEMMA StartKeeps ==
  ASSUME CalibrationInv, NEW provider \in Providers, NEW replayed \in BOOLEAN,
         StartCycle(provider, replayed)
  PROVE  CalibrationInv'
<1>1. /\ Types /\ log \in Seq(Logged) /\ cycles \in Seq(CycleSet) /\ Len(log) \in Nat
      /\ Len(cycles) \in Nat /\ DOMAIN cycles = 1..Len(cycles)
  BY DEF CalibrationInv, Types
<1>0. PICK last : last = Len(cycles')
  OBVIOUS
<1>2. /\ last = Len(cycles') /\ Types' /\ Extends(log', log) /\ Len(log') > Len(log)
      /\ \A n \in (Len(log) + 1)..Len(log') : Harmless(log'[n])
      /\ Len(cycles') = Len(cycles) + 1
      /\ \A c \in 1..Len(cycles) : cycles'[c] = cycles[c]
      /\ cycles'[last].provider = provider
      /\ cycles'[last].replayed = replayed
      /\ cycles'[last].from = Len(log) + 1
  BY <1>0, <1>1, StartTypes
<1>3. \/ kpc' = "proposal" /\ cycles'[last].status = "running"
      \/ /\ kpc' = "idle" /\ cycles'[last].status = "completed"
         /\ cycles'[last].upto = Len(log') /\ log'[Len(log')] = Completed(0)
  BY <1>0, <1>1, StartTypes
<1>4. /\ log' \in Seq(Logged) /\ cycles' \in Seq(CycleSet) /\ Len(log') \in Nat
      /\ DOMAIN cycles' = 1..last
  BY <1>2 DEF Types
<1>5. /\ kpc = "idle" /\ provider # "gate"
      /\ state_id' = IF replayed THEN ReplayedState(log) ELSE 0
  BY DEF StartCycle
<1>6. Quiet /\ CyclesKept
  BY <1>1, <1>2 DEF Quiet, CyclesKept, Harmless
<1>7. /\ RevisionsIn(log') = RevisionsIn(log)
      /\ ReplayedState(log') = ReplayedState(log)
      /\ RevisionCount(last)' = RevisionCount(last)
      /\ Fresh(last)' = Fresh(last)
  BY <1>1, <1>4, <1>6, QuietRecord
<1>8. Fresh(last) /\ RevisionCount(last) = 0
  <2>1. \A n \in RevisionsIn(log) : log[n].cycle # last
    BY <1>1, <1>2 DEF CalibrationInv, RevisionsNumbered
  <2>2. {n \in RevisionsIn(log) : log[n].cycle = last} = {}
    BY <2>1
  <2> QED
    BY <2>1, <2>2, FS_EmptySet DEF Fresh, RevisionCount, RevisionsOf
<1>9. OnlyLastRuns'
  <2>1. \A c \in 1..Len(cycles) : cycles'[c].status # "running"
    BY <1>1, <1>2, <1>5 DEF CalibrationInv, OnlyLastRuns
  <2>2. cycles'[last].status = "running" <=> kpc' = "proposal"
    BY <1>3
  <2>3. \A c \in 1..last : c = last \/ c \in 1..Len(cycles)
    BY <1>1, <1>2
  <2>4. \A c \in 1..Len(cycles) : c # last
    BY <1>1, <1>2
  <2> QED
    BY <1>2, <1>4, <2>1, <2>2, <2>3, <2>4 DEF OnlyLastRuns
<1>10. UnderWay'
  BY <1>1, <1>2, <1>4, <1>5 DEF UnderWay, Current
<1>11. StateHandedOn'
  <2>1. Fresh(last)'
    BY <1>7, <1>8
  <2>2. Fresh(Len(cycles))'
    BY <1>2, <2>1 DEF Fresh
  <2>3. Current'.replayed = replayed
    BY <1>2 DEF Current
  <2> QED
    BY <1>5, <1>7, <2>2, <2>3 DEF StateHandedOn
<1>12. EndsWell
  <2>1. ASSUME NEW c \in 1..Len(cycles'), cycles'[c].status = "completed"
        PROVE  \/ c <= Len(cycles) /\ cycles[c].status = "completed"
               \/ /\ Len(log') > 0 /\ cycles'[c].upto = Len(log')
                  /\ log'[Len(log')] = Completed(RevisionCount(c)')
    <3>1. CASE c \in 1..Len(cycles)
      BY <1>2, <2>1, <3>1
    <3>2. CASE c = last
      <4>1. RevisionCount(c)' = 0
        BY <1>7, <1>8, <3>2
      <4>2. Len(log') > 0
        BY <1>1, <1>2, <1>4
      <4>3. cycles'[c].upto = Len(log') /\ log'[Len(log')] = Completed(0)
        BY <1>3, <2>1, <3>2
      <4> QED
        BY <4>1, <4>2, <4>3
    <3> QED
      BY <1>1, <1>2, <3>1, <3>2
  <2> QED
    BY <2>1 DEF EndsWell
<1> QED
  BY <1>2, <1>6, <1>9, <1>10, <1>11, <1>12, QuietHolds, InvFrom

\* The legacy cycle is over when it returns and counts as no cycle proper.
LEMMA LegacyKeeps ==
  ASSUME CalibrationInv, NEW verdicts, verdicts = {} \/ verdicts = {"approved"},
         RunLegacyCycle(verdicts)
  PROVE  CalibrationInv'
<1>1. /\ Types /\ log \in Seq(Logged) /\ cycles \in Seq(CycleSet) /\ Len(log) \in Nat
      /\ Len(cycles) \in Nat /\ DOMAIN cycles = 1..Len(cycles)
  BY DEF CalibrationInv, Types
<1> DEFINE last == Len(cycles')
<1>2. /\ Types' /\ Extends(log', log)
      /\ \A n \in (Len(log) + 1)..Len(log') : Harmless(log'[n])
      /\ kpc = "idle" /\ kpc' = "idle"
      /\ Len(cycles') = Len(cycles) + 1
      /\ \A c \in 1..Len(cycles) : cycles'[c] = cycles[c]
      /\ cycles'[last].provider = "gate"
      /\ cycles'[last].status = "completed"
  BY <1>1, LegacyTypes
<1>3. log' \in Seq(Logged) /\ cycles' \in Seq(CycleSet) /\ DOMAIN cycles' = 1..last
  BY <1>2 DEF Types
<1>4. Quiet /\ CyclesKept
  BY <1>1, <1>2 DEF Quiet, CyclesKept, Harmless
<1>5. \A c \in 1..last : c = last \/ c \in 1..Len(cycles)
  BY <1>1, <1>2
<1>6. OnlyLastRuns'
  <2>1. \A c \in 1..Len(cycles) : cycles'[c].status # "running"
    BY <1>1, <1>2 DEF CalibrationInv, OnlyLastRuns
  <2> QED
    BY <1>2, <1>3, <1>5, <2>1 DEF OnlyLastRuns
<1>7. UnderWay' /\ StateHandedOn'
  BY <1>2 DEF UnderWay, StateHandedOn
<1>8. EndsWell
  BY <1>1, <1>2, <1>5 DEF EndsWell
<1> QED
  BY <1>2, <1>4, <1>6, <1>7, <1>8, QuietHolds, InvFrom

\* A step within a cycle that records no revision and leaves it under way.
LEMMA CycleQuietKeeps ==
  ASSUME CalibrationInv, kpc = "proposal", kpc' = kpc, cycles' = cycles,
         state_id' = state_id, index' \in Nat \ {0}, log' \in Seq(Logged), Quiet
  PROVE  CalibrationInv'
<1>1. /\ Types /\ log \in Seq(Logged) /\ cycles \in Seq(CycleSet) /\ Len(log) \in Nat
      /\ Len(cycles) \in Nat /\ DOMAIN cycles = 1..Len(cycles)
  BY DEF CalibrationInv, Types
<1>2. Types'
  BY <1>1 DEF Types
<1>3. /\ ReplayedState(log') = ReplayedState(log)
      /\ Fresh(Len(cycles))' = Fresh(Len(cycles))
  <2>1. \A c : Fresh(c)' = Fresh(c)
    BY <1>1, QuietRecord
  <2>2. Fresh(Len(cycles))' = Fresh(Len(cycles))
    BY <1>1, QuietRecord DEF Fresh, Quiet, Extends, RevisionsIn, RevisionsUpTo
  <2> QED
    BY <1>1, <2>2, QuietRecord
<1>4. OnlyLastRuns'
  BY DEF CalibrationInv, OnlyLastRuns
<1>5. UnderWay'
  <2>1. Len(log') >= Len(log) /\ Len(log') \in Nat
    BY DEF Quiet, Extends
  <2>2. Current' = Current
    BY DEF Current
  <2>3. Len(cycles) \in 1..Len(cycles)
    BY <1>1 DEF CalibrationInv, UnderWay
  <2>4. Current \in CycleSet
    BY <1>1, <2>3 DEF Current
  <2>5. Current.from \in Nat
    BY <2>4 DEF CycleSet
  <2> QED
    BY <1>1, <2>1, <2>2, <2>5 DEF CalibrationInv, UnderWay
<1>6. StateHandedOn'
  BY <1>3 DEF CalibrationInv, StateHandedOn, Current
<1>7. CyclesKept /\ EndsWell
  BY <1>1 DEF CyclesKept, EndsWell
<1> QED
  BY <1>2, <1>4, <1>5, <1>6, <1>7, QuietHolds, InvFrom

\* A proposal the calibration policy turns down is recorded as rejected.
LEMMA RejectKeeps ==
  ASSUME CalibrationInv, RejectProposal
  PROVE  CalibrationInv'
<1>1. log \in Seq(Logged) /\ index \in Nat \ {0}
  BY DEF CalibrationInv, Types
<1>2. log' = Append(log, Rejected) /\ Rejected \in Logged /\ ~IsRevision(Rejected)
  BY EntriesLogged, RevisionsAre DEF RejectProposal
<1>3. log' \in Seq(Logged) /\ Quiet
  BY <1>1, <1>2 DEF Quiet, Extends
<1>4. /\ kpc = "proposal" /\ kpc' = kpc /\ cycles' = cycles /\ state_id' = state_id
      /\ index' \in Nat \ {0}
  BY <1>1 DEF RejectProposal, AtProposal
<1> QED
  BY <1>3, <1>4, CycleQuietKeeps

(***************************************************************************)
(* A decision, by whoever takes it: the revision it may lead to follows    *)
(* the approval and the commitment, and continues what is on record.       *)
(***************************************************************************)
LEMMA DecisionKeeps ==
  ASSUME CalibrationInv, AtProposal, NEW verdict \in Verdicts,
         RecordDecision(verdict), index' = index + 1,
         UNCHANGED <<cycles, kpc>>, CalibrationAllowed(ThisProposal),
         verdict = "approved" => Current.provider \in {"answers", "raises"}
  PROVE  CalibrationInv'
<1>1. /\ Types /\ UnderWay /\ log \in Seq(Logged) /\ cycles \in Seq(CycleSet)
      /\ Len(log) \in Nat /\ Len(cycles) \in Nat \ {0}
      /\ DOMAIN cycles = 1..Len(cycles)
      /\ kpc = "proposal" /\ index \in Nat \ {0} /\ state_id \in Nat
  BY DEF CalibrationInv, Types, AtProposal, UnderWay
<1>2. /\ log' \in Seq(Logged) /\ state_id' \in Nat /\ Extends(log', log)
      /\ log'[Len(log) + 1] = Approval(verdict)
      /\ log'[Len(log) + 2] = Commitment("self_update", verdict = "approved", TRUE)
  BY <1>1, Decides
<1>3. /\ Extends(log', log)
      /\ ~IsRevision(log'[Len(log) + 1]) /\ ~IsRevision(log'[Len(log) + 2])
  <2>1. ~IsRevision(Commitment("self_update", verdict = "approved", TRUE))
    BY DEF IsRevision, Commitment
  <2>2. ~IsRevision(Approval(verdict))
    BY DEF IsRevision, Approval
  <2> QED
    BY <1>2, <2>1, <2>2
<1>4. CASE verdict # "approved"
  <2>1. Len(log') = Len(log) + 2 /\ state_id' = state_id
    BY <1>1, <1>4, Decides
  <2>2. Quiet
    BY <1>1, <1>3, <2>1 DEF Quiet
  <2> QED
    BY <1>1, <1>2, <2>1, <2>2, CycleQuietKeeps
<1>5. CASE verdict = "approved"
  <2>0. PICK k : k = Len(log')
    OBVIOUS
  <2> DEFINE revision == Revision(Len(cycles), state_id, ProposalDelta(ThisProposal))
  <2>1. /\ k = Len(log) + 3 /\ state_id' = state_id + 1
        /\ log'[k] = revision
    BY <1>1, <1>5, <2>0, Decides
  <2>2. /\ revision.cycle = Len(cycles) /\ revision.prior = state_id
        /\ revision.result = state_id + 1 /\ IsRevision(revision)
    BY RevisionsAre DEF Revision
  <2> HIDE DEF revision
  <2>3. Revises
    BY <1>1, <1>3, <2>0, <2>1, <2>2 DEF Revises
  <2>4. /\ RevisionsIn(log') = RevisionsIn(log) \cup {k}
        /\ k \notin RevisionsIn(log)
        /\ ReplayedState(log') = state_id + 1
        /\ ReplayedAt(log', k - 1) = ReplayedState(log)
    BY <1>1, <1>2, <2>0, <2>1, <2>2, <2>3, RevisedRecord
  <2>5. Types'
    BY <1>1, <1>2 DEF Types
  <2>6. AuthorisedAt(k)'
    <3>1. /\ k - 1 = Len(log) + 2 /\ k - 2 = Len(log) + 1 /\ k > 2
      BY <1>1, <2>1
    <3>2. /\ log'[k - 1] = Commitment("self_update", TRUE, TRUE)
          /\ log'[k - 2] = Approval("approved")
      BY <1>2, <1>5, <3>1
    <3>3. cycles[Len(cycles)].from < k - 2
      <4>1. cycles[Len(cycles)] \in CycleSet
        BY <1>1
      <4>2. cycles[Len(cycles)].from \in Nat
        BY <4>1 DEF CycleSet
      <4>3. cycles[Len(cycles)].from <= Len(log)
        BY <1>1 DEF UnderWay, Current
      <4> QED
        BY <1>1, <3>1, <4>2, <4>3
    <3>4. cycles[Len(cycles)].provider \in {"answers", "raises"}
      BY <1>5 DEF Current
    <3>5. LetThrough(cycles[Len(cycles)], <<ProposalDelta(ThisProposal)>>)
      <4>1. index \in DOMAIN cycles[Len(cycles)].proposals
        <5>1. Current \in CycleSet
          BY <1>1 DEF Current
        <5>2. Current.proposals \in Seq(ProposalSet)
          BY <5>1 DEF CycleSet
        <5> QED
          BY <1>1, <5>2 DEF AtProposal, Current
      <4> QED
        BY <4>1 DEF LetThrough, ThisProposal, Current
    <3>6. log'[k].deltas = <<ProposalDelta(ThisProposal)>> /\ log'[k].cycle = Len(cycles)
      BY <2>1, <2>2 DEF revision, Revision
    <3>7. LetThrough(cycles'[log'[k].cycle], log'[k].deltas)
      BY <3>5, <3>6
    <3> QED
      BY <2>1, <2>2, <3>1, <3>2, <3>3, <3>4, <3>7 DEF AuthorisedAt
  <2>7. FirstOf(k)' <=> Fresh(Len(cycles))
    <3>1. \A m \in RevisionsIn(log) : log'[m] = log[m] /\ m < k
      BY <1>1, <1>2, <2>1 DEF Extends, RevisionsIn, RevisionsUpTo
    <3>2. ~(k < k)
      BY <1>1, <2>1
    <3> QED
      BY <2>1, <2>2, <2>4, <3>1, <3>2 DEF FirstOf, Fresh
  <2>8. ChainAt(k)'
    <3>1. state_id = IF Fresh(Len(cycles)) /\ ~cycles[Len(cycles)].replayed THEN 0
                     ELSE ReplayedState(log)
      BY <1>1 DEF CalibrationInv, StateHandedOn, Current
    <3> QED
      BY <2>1, <2>2, <2>4, <2>7, <3>1 DEF ChainAt
  <2>9. ~Fresh(Len(cycles))'
    BY <2>1, <2>2, <2>4 DEF Fresh
  <2>10. StateHandedOn'
    BY <2>1, <2>4, <2>9 DEF StateHandedOn
  <2>11. OnlyLastRuns'
    BY DEF CalibrationInv, OnlyLastRuns
  <2>12. UnderWay'
    <3>1. cycles[Len(cycles)] \in CycleSet
      BY <1>1
    <3>2. cycles[Len(cycles)].from \in Nat
      BY <3>1 DEF CycleSet
    <3>3. Len(log') \in Nat /\ Len(log') >= Len(log)
      BY <1>1, <2>0, <2>1
    <3> QED
      BY <1>1, <3>2, <3>3 DEF UnderWay, Current
  <2>13. cycles[Len(cycles)].status = "running"
    BY <1>1 DEF CalibrationInv, OnlyLastRuns
  <2>14. log'[k].cycle \in 0..Len(cycles)
    BY <1>1, <2>1, <2>2
  <2>15. \A c \in 1..Len(cycles) : c = log'[k].cycle => cycles[c].status # "completed"
    BY <2>1, <2>2, <2>13
  <2>16. Held'
    BY <2>0, <2>3, <2>5, <2>6, <2>8, <2>14, <2>15, RevisesHolds
  <2> QED
    BY <2>5, <2>10, <2>11, <2>12, <2>16, InvFrom
<1> QED
  BY <1>4, <1>5

\* The cycle decides itself, or asks a provider that always answers ...
LEMMA DecideKeeps ==
  ASSUME CalibrationInv, NEW verdict \in Verdicts, DecideProposal(verdict)
  PROVE  CalibrationInv'
<1>1. verdict = "approved" => Current.provider \in {"answers", "raises"}
  BY DEF DecideProposal
<1> QED
  BY <1>1, DecisionKeeps DEF DecideProposal

\* ... or one that may raise,
LEMMA AnswersKeeps ==
  ASSUME CalibrationInv, NEW verdict \in Verdicts, AskAnswers(verdict)
  PROVE  CalibrationInv'
BY DecisionKeeps DEF AskAnswers

(***************************************************************************)
(* A cycle ends: it raised, or it reports the revisions it has on record.  *)
(***************************************************************************)
LEMMA EndKeeps ==
  ASSUME CalibrationInv, kpc = "proposal", NEW status \in {"completed", "raised"},
         EndCycle(status), UNCHANGED <<index, state_id>>,
         log' \in Seq(Logged), Quiet,
         status = "completed" =>
           Len(log') > 0 /\ log'[Len(log')] = Completed(RevisionCount(Len(cycles)))
  PROVE  CalibrationInv'
<1>1. /\ Types /\ UnderWay /\ log \in Seq(Logged) /\ cycles \in Seq(CycleSet)
      /\ Len(log) \in Nat /\ Len(cycles) \in Nat \ {0}
      /\ DOMAIN cycles = 1..Len(cycles)
  BY DEF CalibrationInv, Types, UnderWay
<1>0. PICK last : last = Len(cycles)
  OBVIOUS
<1>2. /\ cycles' \in Seq(CycleSet) /\ Len(cycles') = last
      /\ \A c \in 1..last :
           /\ cycles'[c].provider = cycles[c].provider
           /\ cycles'[c].replayed = cycles[c].replayed
           /\ cycles'[c].from = cycles[c].from
           /\ cycles'[c].proposals = cycles[c].proposals
           /\ c # last => cycles'[c] = cycles[c]
      /\ cycles'[last].status = status
      /\ cycles'[last].upto = Len(log')
  BY <1>0, <1>1, EndsCycle
<1>3. kpc' = "idle" /\ DOMAIN cycles' = 1..last
  BY <1>2 DEF EndCycle
<1>4. Types'
  BY <1>2, <1>3 DEF CalibrationInv, Types
<1>5. cycles[last].status = "running"
  BY <1>0, <1>1 DEF CalibrationInv, OnlyLastRuns
<1>6. \A c \in 1..last : c # last => cycles[c].status # "running"
  BY <1>0, <1>1 DEF CalibrationInv, OnlyLastRuns
<1>7. CyclesKept
  BY <1>0, <1>1, <1>2, <1>5 DEF CyclesKept
<1>8. OnlyLastRuns' /\ UnderWay' /\ StateHandedOn'
  BY <1>2, <1>3, <1>6 DEF OnlyLastRuns, UnderWay, StateHandedOn
<1>9. RevisionCount(last)' = RevisionCount(last)
  BY <1>1, QuietRecord
<1>10. EndsWell
  <2>1. ASSUME NEW c \in 1..Len(cycles'), cycles'[c].status = "completed"
        PROVE  \/ c <= Len(cycles) /\ cycles[c].status = "completed"
               \/ /\ Len(log') > 0 /\ cycles'[c].upto = Len(log')
                  /\ log'[Len(log')] = Completed(RevisionCount(c)')
    <3>1. CASE c # last
      BY <1>0, <1>1, <1>2, <2>1, <3>1
    <3>2. CASE c = last
      <4>1. status = "completed"
        BY <1>2, <2>1, <3>2
      <4>2. Len(log') > 0 /\ log'[Len(log')] = Completed(RevisionCount(last))
        BY <1>0, <4>1
      <4>3. RevisionCount(c)' = RevisionCount(last)
        BY <1>9, <3>2
      <4> QED
        BY <1>2, <3>2, <4>2, <4>3
    <3> QED
      BY <3>1, <3>2
  <2> QED
    BY <2>1 DEF EndsWell
<1> QED
  BY <1>4, <1>7, <1>8, <1>10, QuietHolds, InvFrom

\* or does raise: the cycle is left where it stands.
LEMMA RaisesKeeps ==
  ASSUME CalibrationInv, AskRaises
  PROVE  CalibrationInv'
<1>1. log \in Seq(Logged) /\ Len(log) \in Nat
  BY DEF CalibrationInv, Types
<1>2. log' = log /\ kpc = "proposal" /\ UNCHANGED <<index, state_id>>
  BY DEF AskRaises, AtProposal
<1>3. log' \in Seq(Logged) /\ Quiet
  BY <1>1, <1>2 DEF Quiet, Extends
<1> QED
  BY <1>2, <1>3, EndKeeps DEF AskRaises

\* A cycle that went through its proposals reports its revisions.
LEMMA FinishKeeps ==
  ASSUME CalibrationInv, FinishCycle
  PROVE  CalibrationInv'
<1>0. PICK count : count = RevisionCount(Len(cycles))
  OBVIOUS
<1>1. log \in Seq(Logged) /\ Len(log) \in Nat /\ count \in Nat
  BY <1>0, RevisionCountType DEF CalibrationInv, Types
<1>2. /\ log' = Append(log, Completed(count)) /\ kpc = "proposal"
      /\ UNCHANGED <<index, state_id>>
  BY <1>0 DEF FinishCycle
<1>3. Completed(count) \in Logged /\ ~IsRevision(Completed(count))
  BY <1>1, EntriesLogged, RevisionsAre
<1>4. /\ log' \in Seq(Logged) /\ Quiet
      /\ Len(log') > 0 /\ log'[Len(log')] = Completed(count)
  BY <1>1, <1>2, <1>3 DEF Quiet, Extends
<1> QED
  BY <1>0, <1>2, <1>4, EndKeeps DEF FinishCycle

\* What a caller does comes between cycles and belongs to none.
LEMMA ResultKeeps ==
  ASSUME CalibrationInv, ApplyResult
  PROVE  CalibrationInv'
<1>1. UNCHANGED <<log, cycles, kpc, index, state_id>>
  BY DEF ApplyResult
<1> QED
  BY <1>1 DEF CalibrationInv, Types, OnlyLastRuns, UnderWay, RevisionsNumbered,
    EndsOnRecord, StateHandedOn, CalibrationAuthorised, CalibrationChain,
    Current, Fresh, RevisionCount, RevisionsOf

\* An update of a caller starts from what the log replays to.
LEMMA GivenKeeps ==
  ASSUME CalibrationInv, NEW delta \in Given, ApplyGiven(delta)
  PROVE  CalibrationInv'
<1>1. /\ log \in Seq(Logged) /\ Len(log) \in Nat /\ cycles \in Seq(CycleSet)
      /\ Len(cycles) \in Nat
  BY DEF CalibrationInv, Types
<1>0. PICK revision : revision = Revision(0, ReplayedState(log), delta)
  OBVIOUS
<1>2. revision \in Logged /\ IsRevision(revision) /\ revision.cycle = 0
  <2>1. ReplayedState(log) \in Nat /\ delta \in DeltaSet
    BY <1>1, ReplayedType DEF DeltaSet
  <2>2. revision \in Logged
    BY <1>0, <2>1, EntriesLogged
  <2> QED
    BY <1>0, <2>2, RevisionsAre DEF Revision
<1>3. /\ log' = Append(log, revision) /\ kpc = "idle" /\ cycles' = cycles
      /\ UNCHANGED <<kpc, index, state_id>>
  BY <1>0 DEF ApplyGiven
<1>4. PICK k : k = Len(log')
  OBVIOUS
<1>5. /\ log' \in Seq(Logged) /\ k = Len(log) + 1 /\ log'[k] = revision
      /\ Revises
  BY <1>1, <1>2, <1>3, <1>4 DEF Revises, Extends
<1>6. Types'
  BY <1>3, <1>5 DEF CalibrationInv, Types
<1>7. AuthorisedAt(k)' /\ ChainAt(k)' /\ log'[k].cycle \in 0..Len(cycles)
  <2>1. log'[k].cycle = 0
    BY <1>2, <1>5
  <2> QED
    BY <1>1, <2>1 DEF AuthorisedAt, ChainAt
<1>8. \A c \in 1..Len(cycles) : c = log'[k].cycle => cycles[c].status # "completed"
  BY <1>1, <1>2, <1>5
<1>9. Held'
  BY <1>3, <1>4, <1>5, <1>6, <1>7, <1>8, RevisesHolds
<1>10. OnlyLastRuns' /\ UnderWay' /\ StateHandedOn'
  BY <1>3 DEF CalibrationInv, OnlyLastRuns, UnderWay, StateHandedOn
<1> QED
  BY <1>6, <1>9, <1>10, InvFrom

\* Every step keeps the invariant.
LEMMA InvNext ==
  ASSUME CalibrationInv, [CalibrationNext]_calibrationVars
  PROVE  CalibrationInv'
<1>1. ASSUME NEW entry \in Entries, Work(entry) PROVE CalibrationInv'
  BY <1>1, WorkKeeps
<1>2. CASE CycleStart
  <2>1. ASSUME NEW provider \in Providers, NEW start \in Starts,
               StartCycle(provider, start = "replayed")
        PROVE  CalibrationInv'
    <3>1. PICK replayed \in BOOLEAN : replayed = (start = "replayed")
      OBVIOUS
    <3> QED
      BY <2>1, <3>1, StartKeeps
  <2>2. ASSUME NEW verdicts \in {{}, {"approved"}}, RunLegacyCycle(verdicts)
        PROVE  CalibrationInv'
    <3>1. verdicts = {} \/ verdicts = {"approved"}
      OBVIOUS
    <3> QED
      BY <2>2, <3>1, LegacyKeeps
  <2> QED
    BY <1>2, <2>1, <2>2 DEF CycleStart
<1>3. CASE CycleStep
  BY <1>3, RejectKeeps, DecideKeeps, AnswersKeeps, RaisesKeeps, FinishKeeps
  DEF CycleStep
<1>4. CASE ApplyResult
  BY <1>4, ResultKeeps
<1>5. ASSUME NEW delta \in Given, ApplyGiven(delta) PROVE CalibrationInv'
  BY <1>5, GivenKeeps
<1>6. CASE UNCHANGED calibrationVars
  BY <1>6 DEF CalibrationInv, Types, OnlyLastRuns, UnderWay, RevisionsNumbered,
    EndsOnRecord, StateHandedOn, CalibrationAuthorised, CalibrationChain,
    Current, Fresh, RevisionCount, RevisionsOf, calibrationVars
<1> QED
  BY <1>1, <1>2, <1>3, <1>4, <1>5, <1>6 DEF CalibrationNext

(***************************************************************************)
(* The theorems about the record of cycles.                                *)
(***************************************************************************)
LEMMA InvAlways == CalibrationSpec => []CalibrationInv
BY InvInit, InvNext, PTL DEF CalibrationSpec

\* No revision of a cycle but of a proposal its policy let through, and right
\* after the approval of that proposal (run_calibration_cycle_v2), whatever the
\* rest of the engine recorded.
THEOREM CalibrationNeverBypasses == CalibrationSpec => []CalibrationAuthorised
<1>1. CalibrationInv => CalibrationAuthorised
  BY DEF CalibrationInv
<1> QED
  BY <1>1, InvAlways, PTL

\* The state ids a cycle hands from revision to revision do not jump.
THEOREM CalibrationAlwaysChained == CalibrationSpec => []CalibrationChain
<1>1. CalibrationInv => CalibrationChain
  BY DEF CalibrationInv
<1> QED
  BY <1>1, InvAlways, PTL

--------------------------------------------------------------------------------
(* What observation makes of the record.                                   *)

\* The observations that patterns rest on.
CommitmentsIn(entries) == {n \in DOMAIN entries : entries[n].type = "commitment"}
DeniedIn(entries) == {n \in DOMAIN entries : IsDenied(entries[n])}
RedirectsIn(entries) == {n \in DOMAIN entries : entries[n].type = "redirect"}
AllowedOf(entries, target) ==
  {n \in DOMAIN entries : IsAllowed(entries[n]) /\ entries[n].target = target}
DeniedOf(entries, target) ==
  {n \in DOMAIN entries : IsDenied(entries[n]) /\ entries[n].target = target}
EscalatedOf(entries, target) ==
  {n \in DOMAIN entries : IsEscalated(entries[n]) /\ entries[n].target = target}

\* A snapshot holds the numbers of such entries.
LEMMA SnapshotCounts ==
  ASSUME NEW entries
  PROVE  /\ ExtractBehavioralSnapshot(entries).total
              = Cardinality(CommitmentsIn(entries))
         /\ ExtractBehavioralSnapshot(entries).denied = Cardinality(DeniedIn(entries))
         /\ ExtractBehavioralSnapshot(entries).redirects
              = Cardinality(RedirectsIn(entries))
         /\ \A target \in Targets :
              LET of == ExtractBehavioralSnapshot(entries).outcomes[target]
              IN  /\ of.allow = Cardinality(AllowedOf(entries, target))
                  /\ of.deny = Cardinality(DeniedOf(entries, target))
                  /\ of.requires_approval = Cardinality(EscalatedOf(entries, target))
BY DEF ExtractBehavioralSnapshot, SectionOutcomes, Count, CommitmentsIn, DeniedIn,
       RedirectsIn, AllowedOf, DeniedOf, EscalatedOf

\* What is observed of a log is finite.
LEMMA ObservedFinite ==
  ASSUME NEW entries \in Seq(Logged), NEW S, S \subseteq DOMAIN entries
  PROVE  IsFiniteSet(S) /\ Cardinality(S) \in Nat
<1>1. DOMAIN entries = 1..Len(entries) /\ Len(entries) \in Nat
  OBVIOUS
<1>2. IsFiniteSet(DOMAIN entries)
  BY <1>1, FS_Interval
<1>3. S \in SUBSET DOMAIN entries
  OBVIOUS
<1> QED
  BY <1>2, <1>3, FS_Subset, FS_CardinalityType

\* More entries count for more.
LEMMA ObservedGrows ==
  ASSUME NEW entries \in Seq(Logged), NEW S, NEW T, S \subseteq DOMAIN entries,
         T \subseteq S
  PROVE  /\ Cardinality(T) \in Nat /\ Cardinality(S) \in Nat
         /\ Cardinality(T) <= Cardinality(S)
<1>1. IsFiniteSet(S) /\ Cardinality(S) \in Nat
  BY ObservedFinite
<1>2. T \in SUBSET S
  OBVIOUS
<1>3. IsFiniteSet(T) /\ Cardinality(T) <= Cardinality(S)
  BY <1>1, <1>2, FS_Subset
<1>4. Cardinality(T) \in Nat
  BY <1>3, FS_CardinalityType
<1> QED
  BY <1>1, <1>3, <1>4

\* Where the share of the denied passes a bound, it passes it as well with
\* fewer entries in all.
LEMMA ShareFalls ==
  ASSUME NEW count \in Nat, NEW total \in Nat, NEW more \in Nat, total <= more,
         NEW tenths \in Nat, RateAbove(count, more, tenths)
  PROVE  RateAbove(count, total, tenths)
<1>1. tenths * total <= tenths * more
  BY SMTT(30)
<1> QED
  BY <1>1 DEF RateAbove

(***************************************************************************)
(* Entries that speak against nothing add no failure pattern: they only    *)
(* make the record longer that denials are a share of.                     *)
(***************************************************************************)
LEMMA BlamelessAddNoPattern ==
  ASSUME NEW entries \in Seq(Logged), NEW longer \in Seq(Logged),
         Extends(longer, entries),
         \A n \in (Len(entries) + 1)..Len(longer) : Blameless(longer[n])
  PROVE  Patterns(longer) \subseteq Patterns(entries)
<1>1. /\ Len(entries) \in Nat /\ Len(longer) \in Nat /\ Len(longer) >= Len(entries)
      /\ DOMAIN entries = 1..Len(entries) /\ DOMAIN longer = 1..Len(longer)
      /\ \A n \in 1..Len(entries) : longer[n] = entries[n]
  BY DEF Extends
<1>2. \A n \in DOMAIN longer : n \notin DOMAIN entries => Blameless(longer[n])
  BY <1>1
<1>3. DOMAIN entries \subseteq DOMAIN longer
  BY <1>1
<1>4. DeniedIn(longer) = DeniedIn(entries)
  BY <1>1, <1>2, <1>3 DEF DeniedIn, Blameless
<1>5. RedirectsIn(longer) = RedirectsIn(entries)
  BY <1>1, <1>2, <1>3 DEF RedirectsIn, Blameless
<1>6. \A target : DeniedOf(longer, target) = DeniedOf(entries, target)
  BY <1>1, <1>2, <1>3 DEF DeniedOf, Blameless
<1>7. CommitmentsIn(entries) \subseteq CommitmentsIn(longer)
  BY <1>1, <1>3 DEF CommitmentsIn
<1>8. \A target : /\ AllowedOf(entries, target) \subseteq AllowedOf(longer, target)
                  /\ EscalatedOf(entries, target) \subseteq EscalatedOf(longer, target)
  BY <1>1, <1>3 DEF AllowedOf, EscalatedOf
<1> DEFINE before == ExtractBehavioralSnapshot(entries)
           after == ExtractBehavioralSnapshot(longer)
<1>9. /\ after.denied = before.denied /\ after.redirects = before.redirects
      /\ before.denied \in Nat
      /\ before.total \in Nat /\ after.total \in Nat /\ before.total <= after.total
  <2>1. Cardinality(DeniedIn(entries)) \in Nat
    BY ObservedFinite DEF DeniedIn
  <2>2. /\ Cardinality(CommitmentsIn(entries)) \in Nat
        /\ Cardinality(CommitmentsIn(longer)) \in Nat
        /\ Cardinality(CommitmentsIn(entries)) <= Cardinality(CommitmentsIn(longer))
    <3>1. CommitmentsIn(longer) \subseteq DOMAIN longer
      BY DEF CommitmentsIn
    <3> QED
      BY <1>7, <3>1, ObservedGrows
  <2> QED
    BY <1>4, <1>5, <2>1, <2>2, SnapshotCounts
<1>10. ASSUME NEW target \in Targets, target \in SectionsDenied(after)
       PROVE  target \in SectionsDenied(before)
  <2> DEFINE a == Cardinality(AllowedOf(entries, target))
             d == Cardinality(DeniedOf(entries, target))
             r == Cardinality(EscalatedOf(entries, target))
             x == Cardinality(AllowedOf(longer, target))
             y == Cardinality(EscalatedOf(longer, target))
  <2>1. a \in Nat /\ x \in Nat /\ a <= x
    <3>1. AllowedOf(longer, target) \subseteq DOMAIN longer
      BY DEF AllowedOf
    <3> QED
      BY <1>8, <3>1, ObservedGrows
  <2>2. r \in Nat /\ y \in Nat /\ r <= y
    <3>1. EscalatedOf(longer, target) \subseteq DOMAIN longer
      BY DEF EscalatedOf
    <3> QED
      BY <1>8, <3>1, ObservedGrows
  <2>3. d \in Nat
    BY ObservedFinite DEF DeniedOf
  <2>4. /\ after.outcomes[target].allow = x
        /\ after.outcomes[target].deny = d
        /\ after.outcomes[target].requires_approval = y
        /\ before.outcomes[target].allow = a
        /\ before.outcomes[target].deny = d
        /\ before.outcomes[target].requires_approval = r
    BY <1>6, SnapshotCounts
  <2> HIDE DEF a, d, r, x, y, before, after
  <2>5. RateAbove(d, x + d + y, 5)
    BY <1>10, <2>4 DEF SectionsDenied
  <2>6. RateAbove(d, a + d + r, 5)
    <3>1. a + d + r \in Nat /\ x + d + y \in Nat /\ a + d + r <= x + d + y
      BY <2>1, <2>2, <2>3
    <3> QED
      BY <2>3, <2>5, <3>1, ShareFalls
  <2> QED
    BY <2>4, <2>6 DEF SectionsDenied
<1> HIDE DEF before, after
<1>11. RateAbove(after.denied, after.total, 3)
         => RateAbove(before.denied, before.total, 3)
  BY <1>9, ShareFalls
<1>12. SectionsDenied(after) \subseteq SectionsDenied(before)
  BY <1>10 DEF SectionsDenied
<1>13. ExtractFailurePatterns(after) \subseteq ExtractFailurePatterns(before)
  BY <1>9, <1>11, <1>12 DEF ExtractFailurePatterns
<1> QED
  BY <1>13 DEF Patterns, before, after

\* Reflection turns back only where calibration would record a failure.
LEMMA SignalsArePatterns ==
  ASSUME NEW entries \in Seq(Logged)
  PROVE  RedirectSignals(ExtractBehavioralSnapshot(entries)) \subseteq Patterns(entries)
<1> DEFINE snapshot == ExtractBehavioralSnapshot(entries)
<1>1. /\ snapshot.denied = Cardinality(DeniedIn(entries))
      /\ snapshot.total = Cardinality(CommitmentsIn(entries))
      /\ snapshot.redirects = Cardinality(RedirectsIn(entries))
  BY SnapshotCounts
<1>2. /\ Cardinality(DeniedIn(entries)) \in Nat
      /\ Cardinality(CommitmentsIn(entries)) \in Nat
      /\ Cardinality(RedirectsIn(entries)) \in Nat
  BY ObservedFinite DEF DeniedIn, CommitmentsIn, RedirectsIn
<1> HIDE DEF snapshot
<1>3. snapshot.denied \in Nat /\ snapshot.total \in Nat /\ snapshot.redirects \in Nat
  BY <1>1, <1>2
<1>4. RateAbove(snapshot.denied, snapshot.total, 4)
        => RateAbove(snapshot.denied, snapshot.total, 3)
  BY <1>3 DEF RateAbove
<1>5. snapshot.redirects >= 3 => snapshot.redirects > 2
  BY <1>3
<1>6. RedirectSignals(snapshot) \subseteq ExtractFailurePatterns(snapshot)
  BY <1>4, <1>5 DEF RedirectSignals, ExtractFailurePatterns
<1> QED
  BY <1>6 DEF snapshot, Patterns

\* What the step adds to the record speaks against nothing.
AddsNoBlame ==
  /\ Extends(log', log)
  /\ \A n \in (Len(log) + 1)..Len(log') : Blameless(log'[n])

\* A step that records nothing speaks against nothing ...
LEMMA NothingAdded ==
  ASSUME log \in Seq(Logged), log' = log
  PROVE  AddsNoBlame
BY DEF AddsNoBlame, Extends

\* ... nor does one that records one blameless entry.
LEMMA OneAdded ==
  ASSUME log \in Seq(Logged), NEW entry \in Logged, Blameless(entry),
         log' = Append(log, entry)
  PROVE  AddsNoBlame
BY DEF AddsNoBlame, Extends

\* A decision is recorded as escalated, whatever it is.
LEMMA DecisionAdds ==
  ASSUME CalibrationInv, AtProposal, NEW verdict \in Verdicts, RecordDecision(verdict)
  PROVE  AddsNoBlame
<1>1. Types /\ UnderWay /\ Len(log) \in Nat
  BY DEF CalibrationInv, Types
<1>2. /\ Extends(log', log)
      /\ log'[Len(log) + 1] = Approval(verdict)
      /\ log'[Len(log) + 2] = Commitment("self_update", verdict = "approved", TRUE)
  BY <1>1, Decides
<1>3. Blameless(log'[Len(log) + 1]) /\ Blameless(log'[Len(log) + 2])
  <2>1. Blameless(Approval(verdict))
    BY OwnEntriesBlameless DEF Harmless
  <2>2. Blameless(Commitment("self_update", verdict = "approved", TRUE))
    BY DEF Blameless, IsDenied, Commitment
  <2> QED
    BY <1>2, <2>1, <2>2
<1>4. CASE verdict # "approved"
  <2>1. Len(log') = Len(log) + 2
    BY <1>1, <1>4, Decides
  <2>2. \A n \in (Len(log) + 1)..Len(log') : n = Len(log) + 1 \/ n = Len(log) + 2
    BY <1>1, <2>1
  <2> QED
    BY <1>2, <1>3, <2>2 DEF AddsNoBlame
<1>5. CASE verdict = "approved"
  <2>1. /\ Len(log') = Len(log) + 3
        /\ log'[Len(log) + 3] =
             Revision(Len(cycles), state_id, ProposalDelta(ThisProposal))
    BY <1>1, <1>5, Decides
  <2>2. Blameless(log'[Len(log) + 3])
    BY <2>1, OwnEntriesBlameless
  <2>3. \A n \in (Len(log) + 1)..Len(log') :
          n = Len(log) + 1 \/ n = Len(log) + 2 \/ n = Len(log) + 3
    BY <1>1, <2>1
  <2> QED
    BY <1>2, <1>3, <2>2, <2>3 DEF AddsNoBlame
<1> QED
  BY <1>4, <1>5

\* Cycles and callers record nothing that speaks against the engine.
LEMMA OwnStepsAddNoBlame ==
  ASSUME CalibrationInv, [CalibrationNext]_calibrationVars,
         ~(\E entry \in Entries : Work(entry))
  PROVE  AddsNoBlame
<1>1. Types /\ log \in Seq(Logged)
  BY DEF CalibrationInv, Types
<1>2. CASE CycleStart
  <2>1. ASSUME NEW provider \in Providers, NEW start \in Starts,
               StartCycle(provider, start = "replayed")
        PROVE  AddsNoBlame
    <3>1. PICK replayed \in BOOLEAN : replayed = (start = "replayed")
      OBVIOUS
    <3> QED
      BY <1>1, <2>1, <3>1, StartTypes DEF AddsNoBlame, Harmless
  <2>2. ASSUME NEW verdicts \in {{}, {"approved"}}, RunLegacyCycle(verdicts)
        PROVE  AddsNoBlame
    <3>1. verdicts = {} \/ verdicts = {"approved"}
      OBVIOUS
    <3> QED
      BY <1>1, <2>2, <3>1, LegacyTypes DEF AddsNoBlame, Harmless
  <2> QED
    BY <1>2, <2>1, <2>2 DEF CycleStart
<1>3. CASE RejectProposal
  <2>1. Rejected \in Logged /\ Blameless(Rejected)
    BY EntriesLogged, OwnEntriesBlameless DEF Harmless
  <2> QED
    BY <1>1, <1>3, <2>1, OneAdded DEF RejectProposal
<1>4. ASSUME NEW verdict \in Verdicts, DecideProposal(verdict) \/ AskAnswers(verdict)
      PROVE  AddsNoBlame
  BY <1>4, DecisionAdds DEF DecideProposal, AskAnswers
<1>5. CASE AskRaises
  BY <1>1, <1>5, NothingAdded DEF AskRaises
<1>6. CASE FinishCycle
  <2>0. PICK count : count = RevisionCount(Len(cycles))
    OBVIOUS
  <2>1. Completed(count) \in Logged /\ Blameless(Completed(count))
    BY <1>1, <2>0, RevisionCountType, EntriesLogged, OwnEntriesBlameless DEF Harmless
  <2>2. log' = Append(log, Completed(count))
    BY <1>6, <2>0 DEF FinishCycle
  <2> QED
    BY <1>1, <2>1, <2>2, OneAdded
<1>7. CASE ApplyResult
  BY <1>1, <1>7, NothingAdded DEF ApplyResult
<1>8. ASSUME NEW delta \in Given, ApplyGiven(delta) PROVE AddsNoBlame
  <2>0. PICK revision : revision = Revision(0, ReplayedState(log), delta)
    OBVIOUS
  <2>1. ReplayedState(log) \in Nat /\ delta \in DeltaSet
    BY <1>1, ReplayedType DEF DeltaSet
  <2>2. revision \in Logged /\ Blameless(revision)
    BY <2>0, <2>1, EntriesLogged, OwnEntriesBlameless
  <2>3. log' = Append(log, revision)
    BY <1>8, <2>0 DEF ApplyGiven
  <2> QED
    BY <1>1, <2>2, <2>3, OneAdded
<1>9. CASE UNCHANGED calibrationVars
  BY <1>1, <1>9, NothingAdded DEF calibrationVars
<1>10. CASE CycleStep
  BY <1>3, <1>4, <1>5, <1>6, <1>10 DEF CycleStep
<1> QED
  BY <1>2, <1>7, <1>8, <1>9, <1>10 DEF CalibrationNext

(***************************************************************************)
(* No cycle makes a failure of the engine out of the proposals that were   *)
(* turned down in it, or in any cycle before: only other work adds a       *)
(* failure pattern.                                                        *)
(***************************************************************************)
THEOREM CalibrationNeverBlamesItself == CalibrationSpec => NoSelfBlame
<1> DEFINE Step ==
      /\ ~(\E entry \in Entries : Work(entry)) => Patterns(log') \subseteq Patterns(log)
      /\ RedirectSignals(ExtractBehavioralSnapshot(log')) \subseteq Patterns(log')
<1>1. ASSUME CalibrationInv, CalibrationInv', [CalibrationNext]_calibrationVars
      PROVE  Step
  <2>1. log \in Seq(Logged) /\ log' \in Seq(Logged)
    BY <1>1 DEF CalibrationInv, Types
  <2>2. ASSUME ~(\E entry \in Entries : Work(entry))
        PROVE  Patterns(log') \subseteq Patterns(log)
    <3>1. AddsNoBlame
      BY <1>1, <2>2, OwnStepsAddNoBlame
    <3> QED
      BY <2>1, <3>1, BlamelessAddNoPattern DEF AddsNoBlame
  <2>3. RedirectSignals(ExtractBehavioralSnapshot(log')) \subseteq Patterns(log')
    BY <2>1, SignalsArePatterns
  <2> QED
    BY <2>2, <2>3
<1>2. CalibrationInv /\ CalibrationInv' /\ [CalibrationNext]_calibrationVars
        => [Step]_calibrationVars
  BY <1>1
<1> QED
  BY <1>2, InvAlways, PTL DEF CalibrationSpec, NoSelfBlame

--------------------------------------------------------------------------------
(***************************************************************************)
(* What the caller holds, and what replay makes of the record.             *)
(***************************************************************************)

\* The two agree, but for what was learnt about the self ...
Agree(w, r) ==
  /\ w = [f \in Fields |-> w[f]] /\ r = [f \in Fields |-> r[f]]
  /\ r.ok = TRUE /\ w.ok = r.ok
  /\ w.id = r.id /\ w.goals = r.goals /\ w.entities = r.entities
  /\ w.hypotheses = r.hypotheses /\ w.anchors = r.anchors
  /\ w.reliability = Bounded(r.reliability)

\* ... on which they agree as well if nobody described a model.
SameSelf(w, r) == w.capabilities = r.capabilities /\ w.limits = r.limits

Describes(revision) == revision.deltas[1].raw.tag = "model"
SelfRevision(revision) ==
  \E d : revision.deltas = <<d>> /\ d.kind = "self_update"

\* The rules of the caller and those of replay, for one update.
LEMMA UpdatesAgree ==
  ASSUME NEW w, NEW r, Agree(w, r), NEW d
  PROVE  /\ Agree(ApplySelfUpdate(w, d), ReplaySelfUpdate(r, d))
         /\ SameSelf(w, r) /\ d.raw.tag # "model" =>
              SameSelf(ApplySelfUpdate(w, d), ReplaySelfUpdate(r, d))
         /\ ReplaySelfUpdate(r, d).anchors = r.anchors
<1> DEFINE a == ApplySelfUpdate(w, d)
           b == ReplaySelfUpdate(r, d)
<1>1. CASE d.raw.tag = "list"
  <2>1. CASE d.key = "capabilities"
    <3>1. a = [w EXCEPT !.capabilities = d.raw.of] /\ b = [r EXCEPT !.capabilities = d.raw.of]
      BY <1>1, <2>1 DEF ApplySelfUpdate, ReplaySelfUpdate
    <3> HIDE DEF a, b
    <3> QED
      BY <3>1 DEF Agree, SameSelf, Fields, a, b
  <2>2. CASE d.key = "limits"
    <3>1. a = [w EXCEPT !.limits = d.raw.of] /\ b = [r EXCEPT !.limits = d.raw.of]
      BY <1>1, <2>2 DEF ApplySelfUpdate, ReplaySelfUpdate
    <3> HIDE DEF a, b
    <3> QED
      BY <3>1 DEF Agree, SameSelf, Fields, a, b
  <2>3. CASE d.key # "capabilities" /\ d.key # "limits"
    <3>1. a = w /\ b = r
      BY <1>1, <2>3 DEF ApplySelfUpdate, ReplaySelfUpdate
    <3> QED
      BY <3>1
  <2> QED
    BY <2>1, <2>2, <2>3
<1>2. CASE d.raw.tag = "number"
  <2>1. CASE d.key = "reliability"
    <3>1. a = [w EXCEPT !.reliability = Bounded(d.raw.of)]
          /\ b = [r EXCEPT !.reliability = d.raw.of]
      BY <1>2, <2>1 DEF ApplySelfUpdate, ReplaySelfUpdate
    <3> HIDE DEF a, b
    <3> QED
      BY <3>1 DEF Agree, SameSelf, Fields, a, b
  <2>2. CASE d.key # "reliability"
    <3>1. a = w /\ b = r
      BY <1>2, <2>2 DEF ApplySelfUpdate, ReplaySelfUpdate
    <3> QED
      BY <3>1
  <2> QED
    BY <2>1, <2>2
<1>3. CASE d.raw.tag = "model"
  <2>1. b = r
    BY <1>3 DEF ReplaySelfUpdate
  <2>2. PICK capabilities, limits :
          a = [w EXCEPT !.capabilities = capabilities, !.limits = limits]
    BY <1>3 DEF ApplySelfUpdate
  <2> HIDE DEF a, b
  <2> QED
    BY <1>3, <2>1, <2>2 DEF Agree, Fields, a, b
<1>4. CASE d.raw.tag \notin {"list", "number", "model"}
  <2>1. a = w /\ b = r
    BY <1>4 DEF ApplySelfUpdate, ReplaySelfUpdate
  <2> QED
    BY <2>1
<1> QED
  BY <1>1, <1>2, <1>3, <1>4

AppliedTo(after, revision) == [after EXCEPT !.id = revision.result]

\* Applying a revision of one delta ...
LEMMA ApplyOneDelta ==
  ASSUME NEW w, NEW d, NEW revision, revision.deltas = <<d>>
  PROVE  ApplyRevision(w, revision)
           = AppliedTo(ApplySelfUpdate(w, d), revision)
<1> DEFINE deltas == revision.deltas
           Applies(f) == f = [n \in 0..Len(deltas) |->
                                IF n = 0 THEN w ELSE ApplySelfUpdate(f[n - 1], deltas[n])]
           applied == CHOOSE f : Applies(f)
           after == applied[Len(deltas)]
           f == [n \in 0..1 |-> IF n = 0 THEN w ELSE ApplySelfUpdate(w, d)]
<1>1. Len(deltas) = 1 /\ deltas[1] = d
  OBVIOUS
<1>2. f[0] = w /\ f[1] = ApplySelfUpdate(w, d)
  OBVIOUS
<1>3. f = [n \in 0..1 |-> IF n = 0 THEN w ELSE ApplySelfUpdate(f[n - 1], deltas[n])]
  <2>1. \A n \in 0..1 : f[n] = IF n = 0 THEN w ELSE ApplySelfUpdate(f[n - 1], deltas[n])
    <3> TAKE n \in 0..1
    <3>1. n = 0 \/ n = 1
      OBVIOUS
    <3> QED
      BY <1>1, <1>2, <3>1
  <2> QED
    BY <2>1
<1>4. ApplyRevision(w, revision) = [after EXCEPT !.id = revision.result]
  BY DEF ApplyRevision
<1> HIDE DEF f, deltas
<1>5. Applies(f)
  BY <1>1, <1>3
<1>6. Applies(applied)
  BY <1>5
<1> HIDE DEF applied
<1>7. applied[0] = w /\ applied[1] = ApplySelfUpdate(applied[0], deltas[1])
  BY <1>1, <1>6
<1>8. after = ApplySelfUpdate(w, d)
  BY <1>1, <1>7
<1> QED
  BY <1>4, <1>8 DEF AppliedTo

\* ... and replaying it keep what agrees.
LEMMA RevisionsAgree ==
  ASSUME NEW w, NEW r, Agree(w, r), NEW revision, SelfRevision(revision)
  PROVE  /\ Agree(ApplyRevision(w, revision), ReplayRevision(r, revision))
         /\ SameSelf(w, r) /\ ~Describes(revision) =>
              SameSelf(ApplyRevision(w, revision), ReplayRevision(r, revision))
<1>1. PICK d : revision.deltas = <<d>> /\ d.kind = "self_update"
  BY DEF SelfRevision
<1>2. PICK a, b : a = ApplySelfUpdate(w, d) /\ b = ReplaySelfUpdate(r, d)
  OBVIOUS
<1>3. /\ Agree(a, b) /\ b.anchors = r.anchors
      /\ SameSelf(w, r) /\ d.raw.tag # "model" => SameSelf(a, b)
  BY <1>2, UpdatesAgree
<1>4. ApplyRevision(w, revision) = [a EXCEPT !.id = revision.result]
  <2>1. ApplyRevision(w, revision) = AppliedTo(ApplySelfUpdate(w, d), revision)
    BY <1>1, ApplyOneDelta, Zenon
  <2> QED
    BY <1>2, <2>1 DEF AppliedTo
<1>5. ReplayDelta(r, d) = b
  <2>1. r.ok
    BY DEF Agree
  <2>2. /\ d.kind # "hypothesis_update" /\ d.kind # "hypothesis_remove"
        /\ d.kind # "hypothesis_add" /\ d.kind # "goal_update"
    BY <1>1
  <2> QED
    BY <1>1, <1>2, <2>1, <2>2, Zenon DEF ReplayDelta
<1>6. b.ok
  BY <1>3 DEF Agree
<1>7. ReplayRevision(r, revision) = Concluded(b, revision)
  BY <1>1, <1>5, <1>6, ReplayOneDelta, Zenon
<1>8. Anchored(b.anchors, revision.deltas) = b.anchors
  <2>1. d.kind # "anchor_add"
    BY <1>1
  <2>2. \A x : Anchored(x, revision.deltas)
                 = IF /\ d.kind = "anchor_add" /\ d.after # ""
                      /\ \A m \in DOMAIN x : x[m] # d.after
                   THEN Append(x, d.after) ELSE x
    BY <1>1, ReplayOneDelta, Zenon
  <2> QED
    BY <2>1, <2>2
<1>9. ReplayRevision(r, revision) = [b EXCEPT !.id = revision.result]
  <2>1. b = [f \in Fields |-> b[f]]
    BY <1>3 DEF Agree
  <2>2. PICK same : same = Anchored(b.anchors, revision.deltas)
    OBVIOUS
  <2>3. Concluded(b, revision) = [b EXCEPT !.anchors = same, !.id = revision.result]
    BY <2>2 DEF Concluded
  <2>4. same = b.anchors
    BY <1>8, <2>2
  <2> QED
    BY <1>7, <2>1, <2>3, <2>4 DEF Fields
<1>10. PICK x, y : /\ x = [a EXCEPT !.id = revision.result]
                   /\ y = [b EXCEPT !.id = revision.result]
  OBVIOUS
<1>11. Agree(x, y)
  BY <1>3, <1>10 DEF Agree, Fields
<1>12. SameSelf(a, b) => SameSelf(x, y)
  BY <1>3, <1>10 DEF Agree, SameSelf, Fields
<1>13. ~Describes(revision) => d.raw.tag # "model"
  BY <1>1 DEF Describes
<1> QED
  BY <1>3, <1>4, <1>9, <1>10, <1>11, <1>12, <1>13

\* What is applied, position by position, as replay does it.
Applying(before, entries, revisions, k) ==
  IF k \in revisions THEN ApplyRevision(before, entries[k]) ELSE before

Applies(f, initial, entries, revisions, n) ==
  f = [k \in 0..n |-> IF k = 0 THEN initial
                      ELSE Applying(f[k - 1], entries, revisions, k)]

LEMMA AppliesExist ==
  ASSUME NEW initial, NEW entries, NEW revisions, NEW n \in Nat
  PROVE  \E f : Applies(f, initial, entries, revisions, n)
<1> DEFINE None_(k) == \A f : ~Applies(f, initial, entries, revisions, k)
           T == {k \in Nat : None_(k)}
<1> SUFFICES ASSUME T # {}
             PROVE  FALSE
  OBVIOUS
<1>1. PICK least \in T : \A m \in T : least <= m
  <2> HIDE DEF None_
  <2> QED
    BY LeastNumber
<1>2. CASE least = 0
  <2> DEFINE f == [k \in 0..0 |-> initial]
  <2>1. Applies(f, initial, entries, revisions, 0)
    BY DEF Applies
  <2> QED
    BY <1>2, <2>1
<1>3. CASE least # 0
  <2>1. least - 1 \in Nat /\ least - 1 \notin T
    BY <1>1, <1>3
  <2>2. PICK f : Applies(f, initial, entries, revisions, least - 1)
    BY <2>1
  <2> DEFINE last == Applying(f[least - 1], entries, revisions, least)
             g == [k \in 0..least |-> IF k = least THEN last ELSE f[k]]
  <2>3. \A k \in 0..(least - 1) :
          f[k] = IF k = 0 THEN initial ELSE Applying(f[k - 1], entries, revisions, k)
    BY <2>2 DEF Applies
  <2>4. \A k \in 0..least :
          g[k] = IF k = 0 THEN initial ELSE Applying(g[k - 1], entries, revisions, k)
    <3> TAKE k \in 0..least
    <3>1. CASE k = least
      <4>1. least - 1 \in 0..least /\ least - 1 # least
        BY <1>3, <2>1
      <4>2. g[least - 1] = f[least - 1]
        BY <4>1
      <4> QED
        BY <1>3, <3>1, <4>2
    <3>2. CASE k # least
      <4>1. k \in 0..(least - 1) /\ g[k] = f[k]
        BY <3>2
      <4>2. k # 0 => k - 1 \in 0..least /\ k - 1 # least
        BY <4>1
      <4>3. k # 0 => g[k - 1] = f[k - 1]
        BY <4>2
      <4> QED
        BY <2>3, <4>1, <4>3
    <3> QED
      BY <3>1, <3>2
  <2>5. Applies(g, initial, entries, revisions, least)
    <3> DEFINE h == [k \in 0..least |->
                      IF k = 0 THEN initial
                      ELSE Applying(g[k - 1], entries, revisions, k)]
    <3>1. g = h
      BY <2>4
    <3> QED
      BY <3>1 DEF Applies
  <2> QED
    BY <1>1, <2>5
<1> QED
  BY <1>2, <1>3

LEMMA ApplyRevisionsApplies ==
  ASSUME NEW initial, NEW entries, NEW revisions, Len(entries) \in Nat
  PROVE  \E f : /\ Applies(f, initial, entries, revisions, Len(entries))
                /\ ApplyRevisions(initial, entries, revisions) = f[Len(entries)]
<1> DEFINE c == CHOOSE f : Applies(f, initial, entries, revisions, Len(entries))
<1>1. Applies(c, initial, entries, revisions, Len(entries))
  BY AppliesExist
<1>2. ApplyRevisions(initial, entries, revisions) = c[Len(entries)]
  BY DEF ApplyRevisions, Applies, Applying
<1> QED
  BY <1>1, <1>2

\* All of some positions come before all of others.
Precede(old, new) == \A m \in old, n \in new : m < n

(***************************************************************************)
(* A state that agrees with the replay of some revisions agrees, once      *)
(* later ones are applied to it, with the replay of them all.              *)
(***************************************************************************)
LEMMA AppliedAgree ==
  ASSUME NEW initial, NEW w, NEW entries, NEW old, NEW new, NEW size \in Nat,
         Len(entries) = size, old \subseteq 1..size, new \subseteq 1..size,
         Precede(old, new), \A n \in new : SelfRevision(entries[n]),
         Agree(w, ReplayWorld(initial, entries, old)),
         NEW plain \in BOOLEAN,
         plain => SameSelf(w, ReplayWorld(initial, entries, old)),
         plain => \A n \in new : ~Describes(entries[n])
  PROVE  LET a == ApplyRevisions(w, entries, new)
             b == ReplayWorld(initial, entries, old \cup new)
         IN  Agree(a, b) /\ (plain => SameSelf(a, b))
<1>1. PICK f : /\ Applies(f, w, entries, new, size)
               /\ ApplyRevisions(w, entries, new) = f[size]
  BY ApplyRevisionsApplies
<1> DEFINE UpTo(k) == old \cup {n \in new : n <= k}
           Right(k) == /\ Agree(f[k], ReplayWorld(initial, entries, UpTo(k)))
                       /\ plain => SameSelf(f[k], ReplayWorld(initial, entries, UpTo(k)))
           T == {k \in 0..size : ~Right(k)}
<1>0. \A n \in new : n \in Nat /\ n # 0 /\ n <= size
  OBVIOUS
<1>2. T = {}
  <2> SUFFICES ASSUME T # {}
               PROVE  FALSE
    OBVIOUS
  <2>1. PICK least \in T : \A k \in T : least <= k
    <3>1. T \subseteq Nat
      OBVIOUS
    <3> HIDE DEF T
    <3> QED
      BY <3>1, LeastNumber
  <2>2. least \in 0..size /\ ~Right(least)
    OBVIOUS
  <2>3. CASE least = 0
    <3>1. \A n \in new : ~(n <= 0)
      BY <1>0
    <3>2. UpTo(0) = old
      BY <3>1
    <3>3. f[0] = w
      BY <1>1 DEF Applies
    <3> HIDE DEF UpTo
    <3> QED
      BY <2>2, <2>3, <3>2, <3>3
  <2>4. CASE least # 0
    <3>1. PICK k : k = least - 1
      OBVIOUS
    <3>2. k \in 0..size /\ k \notin T /\ least = k + 1
      <4>1. k \in 0..size /\ least = k + 1 /\ ~(least <= k)
        BY <2>2, <2>4, <3>1
      <4> HIDE DEF T
      <4> QED
        BY <2>1, <4>1
    <3>3. Right(k)
      BY <3>2
    <3>4. f[least] = Applying(f[k], entries, new, least)
      BY <1>1, <2>2, <2>4, <3>1 DEF Applies
    <3>5. CASE least \notin new
      <4>1. {n \in new : n <= least} = {n \in new : n <= k}
        <5>1. \A n \in new : n <= least <=> n <= k
          BY <1>0, <2>2, <3>2, <3>5
        <5> QED
          BY <5>1
      <4>2. UpTo(least) = UpTo(k)
        BY <4>1
      <4>3. f[least] = f[k]
        BY <3>4, <3>5 DEF Applying
      <4> HIDE DEF UpTo
      <4> QED
        BY <2>2, <3>3, <4>2, <4>3
    <3>6. CASE least \in new
      <4>1. UpTo(least) \ {least} = UpTo(k)
        <5>1. least \notin old
          BY <3>6 DEF Precede
        <5>2. \A n \in new : n # least => (n <= least <=> n <= k)
          BY <3>2
        <5>3. ~(least <= k)
          BY <3>2
        <5> QED
          BY <5>1, <5>2, <5>3
      <4>2. Latest(least, UpTo(least))
        BY <3>6, <2>2 DEF Latest, Precede
      <4>3. least \in 1..Len(entries) /\ Len(entries) \in Nat
        BY <3>6
      <4>4. PICK all, before : all = UpTo(least) /\ before = UpTo(k)
        OBVIOUS
      <4> HIDE DEF UpTo
      <4>5. ReplayWorld(initial, entries, all)
              = ReplayRevision(ReplayWorld(initial, entries, all \ {least}), entries[least])
        BY <4>2, <4>3, <4>4, ReplayOneMore
      <4>6. PICK r, entry : r = ReplayWorld(initial, entries, before) /\ entry = entries[least]
        OBVIOUS
      <4>7. ReplayWorld(initial, entries, all) = ReplayRevision(r, entry)
        BY <4>1, <4>4, <4>5, <4>6
      <4>8. f[least] = ApplyRevision(f[k], entry)
        BY <3>4, <3>6, <4>6 DEF Applying
      <4>9. Agree(f[k], r) /\ (plain => SameSelf(f[k], r))
        BY <3>3, <4>4, <4>6
      <4>10. SelfRevision(entry) /\ (plain => ~Describes(entry))
        BY <3>6, <4>6
      <4>11. /\ Agree(f[least], ReplayRevision(r, entry))
             /\ plain => SameSelf(f[least], ReplayRevision(r, entry))
        BY <4>8, <4>9, <4>10, RevisionsAgree
      <4> QED
        BY <2>2, <4>4, <4>7, <4>11
    <3> QED
      BY <3>5, <3>6
  <2> QED
    BY <2>3, <2>4
<1>3. Right(size)
  BY <1>2
<1>4. UpTo(size) = old \cup new
  BY <1>0
<1> HIDE DEF UpTo
<1> QED
  BY <1>1, <1>3, <1>4

\* What is applied, and what is yet to be: returned, or on record for a cycle
\* that is still under way.
Settled == Returned \ pending
Awaited == pending \cup (IF kpc = "proposal" THEN RevisionsOf(Len(cycles)) ELSE {})

Plain(entries, positions) == \A n \in positions : ~Describes(entries[n])

AppliedInv ==
  /\ pending \subseteq Returned
  /\ Precede(Settled, Awaited)
  /\ Agree(world, ReplayWorld(InitialWorld, log, Settled))
  /\ Plain(log, Settled) => SameSelf(world, ReplayWorld(InitialWorld, log, Settled))

\* A state of the caller that is settled stays so while the record grows.
LEMMA SettledStays ==
  ASSUME CalibrationInv, AppliedInv, log' \in Seq(Logged), Extends(log', log),
         world' = world, Settled' = Settled, pending' \subseteq Returned',
         Precede(Settled, Awaited')
  PROVE  AppliedInv'
<1>1. /\ Len(log) \in Nat /\ Len(log') \in Nat /\ Len(log) <= Len(log')
      /\ \A n \in 1..Len(log) : log'[n] = log[n]
  BY DEF Extends, CalibrationInv, Types
<1>2. Settled \subseteq 1..Len(log)
  BY DEF Settled, Returned, RevisionsIn, RevisionsUpTo
<1>3. PICK some, others, set, initial :
        some = log /\ others = log' /\ set = Settled /\ initial = InitialWorld
  OBVIOUS
<1>4. ReplayWorld(initial, some, set) = ReplayWorld(initial, others, set)
  <2>1. /\ \A k \in (Len(some) + 1)..Len(others) : k \notin set
        /\ \A k \in 1..Len(some) : k \in set => some[k] = others[k]
    BY <1>1, <1>2, <1>3
  <2> QED
    BY <1>1, <1>3, <2>1, ReplaySame
<1>5. Plain(some, set) <=> Plain(others, set)
  BY <1>1, <1>2, <1>3 DEF Plain
<1>6. InitialWorld' = InitialWorld
  OBVIOUS
<1>7. /\ Agree(world, ReplayWorld(initial, others, set))
      /\ Plain(others, set) => SameSelf(world, ReplayWorld(initial, others, set))
  BY <1>3, <1>4, <1>5 DEF AppliedInv
<1>8. Precede(Settled', Awaited')
  OBVIOUS
<1> QED
  BY <1>3, <1>7, <1>8 DEF AppliedInv

\* What has returned, revision by revision.
LEMMA ReturnedOnes ==
  /\ Returned \subseteq RevisionsIn(log)
  /\ \A n \in RevisionsIn(log) :
       n \in Returned <=> log[n].cycle = 0 \/ cycles[log[n].cycle].status = "completed"
BY DEF Returned

\* A step that records no revision: only by the end of a cycle more returns.
LEMMA QuietReturns ==
  ASSUME CalibrationInv, log' \in Seq(Logged), Quiet, CyclesKept
  PROVE  /\ Returned' \subseteq RevisionsIn(log)
         /\ RevisionsIn(log') = RevisionsIn(log)
         /\ \A n \in RevisionsIn(log) :
              n \in Returned' <=>
                \/ n \in Returned
                \/ /\ log[n].cycle \in 1..Len(cycles)
                   /\ cycles[log[n].cycle].status = "running"
                   /\ cycles'[log[n].cycle].status = "completed"
         /\ \A c : RevisionsOf(c)' = RevisionsOf(c)
<1>1. /\ Len(log) \in Nat /\ Len(cycles) \in Nat
      /\ \A n \in 1..Len(log) : log'[n] = log[n]
  <2>1. log \in Seq(Logged) /\ cycles \in Seq(CycleSet)
    BY DEF CalibrationInv, Types
  <2>2. \A n \in 1..Len(log) : log'[n] = log[n]
    BY DEF Quiet, Extends
  <2> QED
    BY <2>1, <2>2, LenProperties
<1>2. RevisionsIn(log') = RevisionsIn(log)
  BY QuietRecord DEF CalibrationInv, Types
<1>3. \A n \in RevisionsIn(log) : log'[n] = log[n]
  BY <1>1 DEF RevisionsIn, RevisionsUpTo
<1>4. \A c : RevisionsOf(c)' = RevisionsOf(c)
  BY <1>2, <1>3 DEF RevisionsOf
<1>5. Returned' \subseteq RevisionsIn(log)
  BY <1>2 DEF Returned
<1>6. ASSUME NEW n \in RevisionsIn(log)
      PROVE  n \in Returned' <=>
               \/ n \in Returned
               \/ /\ log[n].cycle \in 1..Len(cycles)
                  /\ cycles[log[n].cycle].status = "running"
                  /\ cycles'[log[n].cycle].status = "completed"
  <2>1. PICK c : c = log[n].cycle
    OBVIOUS
  <2>2. c \in 0..Len(cycles) /\ log'[n].cycle = c
    BY <1>3, <2>1 DEF CalibrationInv, RevisionsNumbered
  <2>3. n \in Returned' <=> c = 0 \/ cycles'[c].status = "completed"
    BY <1>2, <2>2 DEF Returned
  <2>4. n \in Returned <=> c = 0 \/ cycles[c].status = "completed"
    BY <2>1, ReturnedOnes
  <2>5. CASE c = 0
    BY <2>3, <2>4, <2>5
  <2>6. CASE c # 0
    <3>1. c \in 1..Len(cycles)
      BY <1>1, <2>2, <2>6
    <3>2. cycles[c].status # "running" => cycles'[c] = cycles[c]
      BY <3>1 DEF CyclesKept
    <3> QED
      BY <2>1, <2>3, <2>4, <2>6, <3>1, <3>2
  <2> QED
    BY <2>5, <2>6
<1> QED
  BY <1>2, <1>4, <1>5, <1>6

\* Every revision on record is one update of the self model.
LEMMA AllSelfRevisions ==
  ASSUME log \in Seq(Logged)
  PROVE  \A n \in RevisionsIn(log) : SelfRevision(log[n])
<1>1. \A n \in RevisionsIn(log) : log[n] \in Logged /\ IsRevision(log[n])
  BY DEF RevisionsIn, RevisionsUpTo
<1>2. \A n \in RevisionsIn(log) : log[n] \in RevisionSet
  BY <1>1, RevisionsAre
<1>3. \A d \in DeltaSet : d.kind = "self_update"
  BY CalibrationAssumption DEF DeltaSet, ProposalDelta, Delta
<1> QED
  BY <1>2, <1>3 DEF RevisionSet, SelfRevision

\* Nothing returns by a step that records no revision and ends no cycle.
LEMMA QuietSettles ==
  ASSUME CalibrationInv, AppliedInv, log' \in Seq(Logged), Quiet,
         UNCHANGED <<cycles, kpc, pending, world>>
  PROVE  AppliedInv'
<1>1. CyclesKept /\ cycles' = cycles
  BY CyclesUnchanged DEF CalibrationInv, Types
<1>2. /\ Returned' \subseteq RevisionsIn(log)
      /\ \A n \in RevisionsIn(log) : n \in Returned' <=> n \in Returned
      /\ \A c : RevisionsOf(c)' = RevisionsOf(c)
  BY <1>1, QuietReturns
<1>3. Returned' = Returned
  BY <1>2, ReturnedOnes
<1>4. RevisionsIn(log') = RevisionsIn(log)
      /\ \A n \in RevisionsIn(log) : log'[n] = log[n]
  BY QuietRecord DEF CalibrationInv, Types, Quiet, Extends, RevisionsIn, RevisionsUpTo
<1>5. Awaited' = Awaited
  BY <1>4 DEF Awaited, RevisionsOf
<1>6. Settled' = Settled
  BY <1>3 DEF Settled
<1> QED
  BY <1>3, <1>5, <1>6, SettledStays DEF AppliedInv, Quiet

\* A cycle that starts has nothing on record yet.
LEMMA NewCycleSettles ==
  ASSUME CalibrationInv, AppliedInv, log' \in Seq(Logged), Quiet, CyclesKept,
         UNCHANGED <<pending, world>>, kpc = "idle", Len(cycles') = Len(cycles) + 1,
         \A c \in 1..Len(cycles) : cycles'[c] = cycles[c]
  PROVE  AppliedInv'
<1>1. /\ Returned' \subseteq RevisionsIn(log)
      /\ \A n \in RevisionsIn(log) : n \in Returned' <=> n \in Returned
  BY QuietReturns
<1>2. Returned' = Returned
  BY <1>1, ReturnedOnes
<1>3. RevisionsIn(log') = RevisionsIn(log)
      /\ \A n \in RevisionsIn(log) : log'[n] = log[n]
  BY QuietRecord DEF CalibrationInv, Types, Quiet, Extends, RevisionsIn, RevisionsUpTo
<1>4. \A n \in RevisionsIn(log) : log[n].cycle # Len(cycles')
  <2>1. Len(cycles) \in Nat
    BY DEF CalibrationInv, Types
  <2> QED
    BY <2>1 DEF CalibrationInv, RevisionsNumbered
<1>5. Awaited' = Awaited
  <2>1. {n \in RevisionsIn(log') : log'[n].cycle = Len(cycles')} = {}
    BY <1>3, <1>4
  <2> QED
    BY <2>1 DEF Awaited, RevisionsOf
<1>6. Settled' = Settled
  BY <1>2 DEF Settled
<1> QED
  BY <1>2, <1>5, <1>6, SettledStays DEF AppliedInv, Quiet

\* A cycle that ends returns its revisions to be applied, or loses them.
LEMMA EndSettles ==
  ASSUME CalibrationInv, AppliedInv, kpc = "proposal",
         NEW status \in {"completed", "raised"}, EndCycle(status),
         log' \in Seq(Logged), Quiet, world' = world,
         pending' = IF status = "completed" THEN pending \cup RevisionsOf(Len(cycles))
                    ELSE pending
  PROVE  AppliedInv'
<1>0. PICK last : last = Len(cycles)
  OBVIOUS
<1>1. /\ log \in Seq(Logged) /\ cycles \in Seq(CycleSet) /\ last \in Nat \ {0}
      /\ DOMAIN cycles = 1..last
  BY <1>0 DEF CalibrationInv, Types, UnderWay
<1>2. /\ Len(cycles') = last
      /\ \A c \in 1..last :
           /\ cycles'[c].provider = cycles[c].provider
           /\ cycles'[c].replayed = cycles[c].replayed
           /\ cycles'[c].from = cycles[c].from
           /\ cycles'[c].proposals = cycles[c].proposals
           /\ c # last => cycles'[c] = cycles[c]
      /\ cycles'[last].status = status
  BY <1>0, <1>1, EndsCycle
<1>3. cycles[last].status = "running" /\ kpc' = "idle"
  BY <1>0, <1>1 DEF CalibrationInv, OnlyLastRuns, EndCycle
<1>4. CyclesKept
  BY <1>0, <1>1, <1>2, <1>3 DEF CyclesKept
<1>5. /\ Returned' \subseteq RevisionsIn(log)
      /\ \A n \in RevisionsIn(log) :
           n \in Returned' <=>
             \/ n \in Returned
             \/ /\ log[n].cycle \in 1..Len(cycles)
                /\ cycles[log[n].cycle].status = "running"
                /\ cycles'[log[n].cycle].status = "completed"
  BY <1>4, QuietReturns
<1>6. \A n \in RevisionsIn(log) :
        n \in Returned' <=> n \in Returned \/ (status = "completed" /\ log[n].cycle = last)
  <2> TAKE n \in RevisionsIn(log)
  <2>1. PICK c : c = log[n].cycle
    OBVIOUS
  <2>2. CASE c = last
    <3>1. c \in 1..Len(cycles)
      BY <1>0, <1>1, <2>2
    <3> QED
      BY <1>2, <1>3, <1>5, <2>1, <2>2, <3>1
  <2>3. CASE c # last
    <3>1. c \in 1..Len(cycles) => cycles'[c] = cycles[c]
      BY <1>0, <1>2, <2>3
    <3> QED
      BY <1>5, <2>1, <2>3, <3>1
  <2> QED
    BY <2>2, <2>3
<1>7. \A n \in RevisionsOf(last) : n \in RevisionsIn(log) /\ n \notin Returned
  BY <1>1, <1>3, ReturnedOnes DEF RevisionsOf
<1>8. Returned' = IF status = "completed" THEN Returned \cup RevisionsOf(last) ELSE Returned
  BY <1>5, <1>6, ReturnedOnes DEF RevisionsOf
<1>9. pending \subseteq Returned /\ Precede(Settled, Awaited)
  BY DEF AppliedInv
<1>10. Awaited' = pending' /\ Awaited = pending \cup RevisionsOf(last)
  BY <1>0, <1>3 DEF Awaited
<1>11. Settled' = Settled /\ pending' \subseteq Returned'
  BY <1>0, <1>7, <1>8, <1>9 DEF Settled
<1>12. Precede(Settled, Awaited')
  BY <1>0, <1>9, <1>10 DEF Precede
<1> QED
  BY <1>11, <1>12, SettledStays DEF Quiet

\* A revision of the cycle under way waits for its end.
LEMMA DecisionSettles ==
  ASSUME CalibrationInv, AppliedInv, AtProposal, NEW verdict \in Verdicts,
         RecordDecision(verdict), UNCHANGED <<cycles, kpc, pending, world>>
  PROVE  AppliedInv'
<1>1. /\ Types /\ UnderWay /\ log \in Seq(Logged) /\ cycles \in Seq(CycleSet)
      /\ Len(log) \in Nat /\ Len(cycles) \in Nat \ {0} /\ kpc = "proposal"
      /\ DOMAIN cycles = 1..Len(cycles)
  BY DEF CalibrationInv, Types, AtProposal, UnderWay
<1>2. /\ log' \in Seq(Logged) /\ Extends(log', log)
      /\ ~IsRevision(log'[Len(log) + 1]) /\ ~IsRevision(log'[Len(log) + 2])
  <2>1. /\ log' \in Seq(Logged) /\ Extends(log', log)
        /\ log'[Len(log) + 1] = Approval(verdict)
        /\ log'[Len(log) + 2] = Commitment("self_update", verdict = "approved", TRUE)
    BY <1>1, Decides
  <2>2. ~IsRevision(Commitment("self_update", verdict = "approved", TRUE))
        /\ ~IsRevision(Approval(verdict))
    BY DEF IsRevision, Commitment, Approval
  <2> QED
    BY <2>1, <2>2
<1>3. CASE verdict # "approved"
  <2>1. Len(log') = Len(log) + 2
    BY <1>1, <1>3, Decides
  <2>2. Quiet
    BY <1>1, <1>2, <2>1 DEF Quiet
  <2> QED
    BY <1>2, <2>2, QuietSettles
<1>4. CASE verdict = "approved"
  <2>1. PICK k, last : k = Len(log') /\ last = Len(cycles)
    OBVIOUS
  <2>2. k = Len(log) + 3
        /\ log'[k] = Revision(last, state_id, ProposalDelta(ThisProposal))
    BY <1>1, <1>4, <2>1, Decides
  <2>3. IsRevision(log'[k]) /\ log'[k].cycle = last
    BY <2>2, RevisionsAre DEF Revision
  <2>4. Revises
    BY <1>1, <1>2, <2>1, <2>2, <2>3 DEF Revises
  <2>5. RevisionsIn(log') = RevisionsIn(log) \cup {k} /\ k \notin RevisionsIn(log)
    BY <1>1, <1>2, <2>1, <2>4, RevisedRecord
  <2>6. \A n \in RevisionsIn(log) : log'[n] = log[n] /\ n < k
    BY <1>1, <1>2, <2>2 DEF Extends, RevisionsIn, RevisionsUpTo
  <2>7. last # 0 /\ cycles[last].status # "completed"
    BY <1>1, <2>1 DEF CalibrationInv, OnlyLastRuns
  <2>8. Returned' = Returned
    <3>1. \A n \in RevisionsIn(log') :
            n \in Returned' <=> log'[n].cycle = 0 \/ cycles[log'[n].cycle].status = "completed"
      BY DEF Returned
    <3>2. Returned' \subseteq RevisionsIn(log')
      BY DEF Returned
    <3>3. k \notin Returned'
      BY <2>3, <2>5, <2>7, <3>1
    <3>4. \A n \in RevisionsIn(log) : n \in Returned' <=> n \in Returned
      <4> TAKE n \in RevisionsIn(log)
      <4>1. n \in Returned' <=>
              log[n].cycle = 0 \/ cycles[log[n].cycle].status = "completed"
        BY <2>5, <2>6, <3>1
      <4> QED
        BY <4>1, ReturnedOnes
    <3> QED
      BY <2>5, <3>2, <3>3, <3>4, ReturnedOnes
  <2>9. Awaited' = Awaited \cup {k}
    <3>1. {n \in RevisionsIn(log') : log'[n].cycle = last}
            = {n \in RevisionsIn(log) : log[n].cycle = last} \cup {k}
      BY <2>3, <2>5, <2>6
    <3> QED
      BY <1>1, <2>1, <3>1 DEF Awaited, RevisionsOf
  <2>10. Settled' = Settled
    BY <2>8 DEF Settled
  <2>11. Precede(Settled, Awaited')
    BY <2>6, <2>9, ReturnedOnes DEF AppliedInv, Precede, Settled
  <2> QED
    BY <1>2, <2>8, <2>10, <2>11, SettledStays DEF AppliedInv
<1> QED
  BY <1>3, <1>4

\* What has returned is applied, after all that was applied before.
LEMMA ResultSettles ==
  ASSUME CalibrationInv, AppliedInv, ApplyResult
  PROVE  AppliedInv'
<1>1. /\ log \in Seq(Logged) /\ log' = log /\ cycles' = cycles /\ kpc = "idle"
      /\ kpc' = kpc /\ pending' = {} /\ world' = ApplyRevisions(world, log, pending)
  BY DEF ApplyResult, CalibrationInv, Types
<1>2. Returned' = Returned
  BY <1>1 DEF Returned
<1>3. pending \subseteq Returned /\ Precede(Settled, pending)
  BY <1>1 DEF AppliedInv, Awaited
<1>4. Settled' = Settled \cup pending
  BY <1>1, <1>2, <1>3 DEF Settled
<1>5. Awaited' = {}
  BY <1>1 DEF Awaited
<1>6. PICK size, plain : size = Len(log) /\ plain = Plain(log, Settled \cup pending)
  OBVIOUS
<1>7. size \in Nat /\ Returned \subseteq 1..size
  BY <1>1, <1>6, ReturnedOnes DEF RevisionsIn, RevisionsUpTo
<1>8. /\ Settled \subseteq 1..size /\ pending \subseteq 1..size
      /\ \A n \in pending : SelfRevision(log[n])
  BY <1>1, <1>3, <1>7, AllSelfRevisions, ReturnedOnes DEF Settled
<1>9. PICK entries, old, new, w, initial :
        /\ entries = log /\ old = Settled /\ new = pending /\ w = world
        /\ initial = InitialWorld
  OBVIOUS
<1>10. /\ plain \in BOOLEAN
       /\ plain => Plain(entries, old) /\ \A n \in new : ~Describes(entries[n])
  BY <1>6, <1>9 DEF Plain
<1>11. /\ Agree(w, ReplayWorld(initial, entries, old))
       /\ plain => SameSelf(w, ReplayWorld(initial, entries, old))
  BY <1>9, <1>10 DEF AppliedInv
<1>12. /\ Len(entries) = size /\ old \subseteq 1..size /\ new \subseteq 1..size
       /\ Precede(old, new) /\ \A n \in new : SelfRevision(entries[n])
  BY <1>3, <1>6, <1>8, <1>9
<1>13. PICK a, b : /\ a = ApplyRevisions(w, entries, new)
                   /\ b = ReplayWorld(initial, entries, old \cup new)
  OBVIOUS
<1>14. Agree(a, b) /\ (plain => SameSelf(a, b))
  BY <1>7, <1>10, <1>11, <1>12, <1>13, AppliedAgree
<1>15. /\ world' = a /\ b = ReplayWorld(InitialWorld, log', Settled')
       /\ plain <=> Plain(log', Settled')
  BY <1>1, <1>4, <1>6, <1>9, <1>13
<1>16. pending' \subseteq Returned' /\ Precede(Settled', Awaited')
  BY <1>1, <1>5 DEF Precede
<1> QED
  BY <1>14, <1>15, <1>16 DEF AppliedInv

\* An update of the caller's own is applied as it is recorded, when nothing waits.
LEMMA GivenSettles ==
  ASSUME CalibrationInv, AppliedInv, NEW delta \in Given, ApplyGiven(delta)
  PROVE  AppliedInv'
<1>1. log \in Seq(Logged) /\ Len(log) \in Nat
  BY DEF CalibrationInv, Types
<1>2. PICK revision, k : revision = Revision(0, ReplayedState(log), delta) /\ k = Len(log')
  OBVIOUS
<1>3. revision \in Logged /\ IsRevision(revision) /\ revision.cycle = 0
      /\ SelfRevision(revision)
  <2>1. ReplayedState(log) \in Nat /\ delta \in DeltaSet
    BY <1>1, ReplayedType DEF DeltaSet
  <2>2. revision \in Logged
    BY <1>2, <2>1, EntriesLogged
  <2>3. revision.deltas = <<delta>> /\ delta.kind = "self_update"
    BY <1>2, CalibrationAssumption DEF Revision
  <2> QED
    BY <1>2, <2>2, <2>3, RevisionsAre DEF Revision, SelfRevision
<1>4. /\ log' = Append(log, revision) /\ cycles' = cycles /\ kpc = "idle" /\ kpc' = kpc
      /\ pending = {} /\ pending' = {} /\ world' = ApplyRevision(world, revision)
  BY <1>2 DEF ApplyGiven
<1>5. /\ log' \in Seq(Logged) /\ k = Len(log) + 1 /\ log'[k] = revision /\ Revises
      /\ \A n \in 1..Len(log) : log'[n] = log[n]
  BY <1>1, <1>2, <1>3, <1>4 DEF Revises, Extends
<1>6. RevisionsIn(log') = RevisionsIn(log) \cup {k} /\ k \notin RevisionsIn(log)
  BY <1>1, <1>2, <1>5, RevisedRecord
<1>7. \A n \in RevisionsIn(log) : log'[n] = log[n] /\ n \in 1..Len(log) /\ n < k
  BY <1>1, <1>5 DEF RevisionsIn, RevisionsUpTo
<1>8. Returned' = Returned \cup {k}
  <2>1. \A n \in RevisionsIn(log') :
          n \in Returned' <=> log'[n].cycle = 0 \/ cycles[log'[n].cycle].status = "completed"
    BY <1>4 DEF Returned
  <2>2. Returned' \subseteq RevisionsIn(log')
    BY DEF Returned
  <2>3. k \in Returned'
    BY <1>3, <1>5, <1>6, <2>1
  <2>4. \A n \in RevisionsIn(log) : n \in Returned' <=> n \in Returned
    <3> TAKE n \in RevisionsIn(log)
    <3>1. n \in Returned' <=>
            log[n].cycle = 0 \/ cycles[log[n].cycle].status = "completed"
      BY <1>6, <1>7, <2>1
    <3> QED
      BY <3>1, ReturnedOnes
  <2> QED
    BY <1>6, <2>2, <2>3, <2>4, ReturnedOnes
<1>9. Settled = Returned /\ Settled' = Returned \cup {k} /\ Awaited' = {}
  BY <1>4, <1>8 DEF Settled, Awaited
<1>10. PICK old, entries, before, all, initial, w :
         /\ old = log /\ entries = log' /\ before = Returned /\ initial = InitialWorld
         /\ all = Returned \cup {k} /\ w = world
  OBVIOUS
<1>11. /\ Len(old) \in Nat /\ Len(entries) = k /\ k = Len(old) + 1 /\ entries[k] = revision
       /\ \A n \in 1..Len(old) : entries[n] = old[n]
       /\ before \subseteq 1..Len(old) /\ all = before \cup {k} /\ k \notin before
  BY <1>1, <1>2, <1>5, <1>6, <1>7, <1>10, ReturnedOnes
<1>12. ReplayWorld(initial, entries, all)
         = ReplayRevision(ReplayWorld(initial, old, before), revision)
  <2>1. Latest(k, all) /\ all \ {k} = before
    BY <1>11 DEF Latest
  <2>2. ReplayWorld(initial, entries, all)
          = ReplayRevision(ReplayWorld(initial, entries, all \ {k}), entries[k])
    BY <1>11, <2>1, ReplayOneMore
  <2>3. ReplayWorld(initial, old, before) = ReplayWorld(initial, entries, before)
    <3>1. /\ \A n \in (Len(old) + 1)..Len(entries) : n \notin before
          /\ \A n \in 1..Len(old) : n \in before => old[n] = entries[n]
          /\ Len(entries) \in Nat /\ Len(old) <= Len(entries)
      BY <1>11
    <3> QED
      BY <1>11, <3>1, ReplaySame
  <2> QED
    BY <1>11, <2>1, <2>2, <2>3
<1>13. PICK r : r = ReplayWorld(initial, old, before)
  OBVIOUS
<1>14. Agree(w, r) /\ (Plain(old, before) => SameSelf(w, r))
  BY <1>9, <1>10, <1>13 DEF AppliedInv
<1>15. /\ Agree(ApplyRevision(w, revision), ReplayRevision(r, revision))
       /\ SameSelf(w, r) /\ ~Describes(revision) =>
            SameSelf(ApplyRevision(w, revision), ReplayRevision(r, revision))
  BY <1>3, <1>14, RevisionsAgree
<1>16. Plain(entries, all) => Plain(old, before) /\ ~Describes(revision)
  BY <1>11 DEF Plain
<1>17. /\ world' = ApplyRevision(w, revision)
       /\ ReplayWorld(InitialWorld, log', Settled') = ReplayRevision(r, revision)
       /\ Plain(log', Settled') <=> Plain(entries, all)
  BY <1>4, <1>9, <1>10, <1>12, <1>13
<1>18. pending' \subseteq Returned' /\ Precede(Settled', Awaited')
  BY <1>4, <1>9 DEF Precede
<1> QED
  BY <1>14, <1>15, <1>16, <1>17, <1>18 DEF AppliedInv

\* At first there is nothing to apply.
LEMMA AppliedInit == CalibrationInit => AppliedInv
<1> SUFFICES ASSUME CalibrationInit PROVE AppliedInv
  OBVIOUS
<1>1. /\ log \in Seq(Recorded) /\ pending = {} /\ kpc = "idle" /\ world = InitialWorld
  BY CalibrationAssumption DEF CalibrationInit
<1>2. RevisionsIn(log) = {}
  BY <1>1, RevisionsAre DEF RevisionsIn, RevisionsUpTo
<1>3. Returned = {} /\ Settled = {} /\ Awaited = {}
  BY <1>1, <1>2 DEF Returned, Settled, Awaited
<1>4. ReplayWorld(InitialWorld, log, {}) = InitialWorld
  <2>1. Len(log) \in Nat
    BY <1>1
  <2> QED
    BY <2>1, ReplayNothing
<1>5. Agree(InitialWorld, InitialWorld) /\ SameSelf(InitialWorld, InitialWorld)
  BY DEF Agree, SameSelf, InitialWorld, EmptyWorld, Fields, Bounded,
    MinReliability, MaxReliability
<1> QED
  BY <1>1, <1>3, <1>4, <1>5 DEF AppliedInv, Precede

\* Every step keeps what the caller holds in agreement with the record.
LEMMA AppliedNext ==
  ASSUME CalibrationInv, CalibrationInv', AppliedInv, [CalibrationNext]_calibrationVars
  PROVE  AppliedInv'
<1>1. /\ log \in Seq(Logged) /\ log' \in Seq(Logged) /\ cycles \in Seq(CycleSet)
      /\ Len(log) \in Nat
  BY DEF CalibrationInv, Types
<1>2. ASSUME NEW entry \in Logged, ~IsRevision(entry), log' = Append(log, entry)
      PROVE  Quiet
  BY <1>1, <1>2 DEF Quiet, Extends
<1>3. log' = log => Quiet
  BY <1>1 DEF Quiet, Extends
<1>4. CASE \E entry \in Entries : Work(entry)
  <2>1. PICK entry \in Entries : Work(entry)
    BY <1>4
  <2>2. entry \in Logged /\ ~IsRevision(entry)
    BY CalibrationAssumption, RevisionsAre DEF Logged
  <2> QED
    BY <1>1, <1>2, <2>1, <2>2, QuietSettles DEF Work
<1>5. ASSUME NEW provider \in Providers, NEW replayed \in BOOLEAN,
             StartCycle(provider, replayed)
      PROVE  AppliedInv'
  <2>1. /\ Extends(log', log) /\ \A n \in (Len(log) + 1)..Len(log') : Harmless(log'[n])
        /\ Len(cycles') = Len(cycles) + 1
        /\ \A c \in 1..Len(cycles) : cycles'[c] = cycles[c]
    BY <1>5, StartTypes DEF CalibrationInv
  <2>2. Len(cycles) \in Nat
    BY <1>1
  <2>3. Quiet /\ CyclesKept
    BY <2>1, <2>2 DEF Quiet, CyclesKept, Harmless
  <2> QED
    BY <1>1, <1>5, <2>1, <2>3, NewCycleSettles DEF StartCycle
<1>6. ASSUME NEW verdicts, verdicts = {} \/ verdicts = {"approved"}, RunLegacyCycle(verdicts)
      PROVE  AppliedInv'
  <2>1. /\ Extends(log', log) /\ \A n \in (Len(log) + 1)..Len(log') : Harmless(log'[n])
        /\ Len(cycles') = Len(cycles) + 1
        /\ \A c \in 1..Len(cycles) : cycles'[c] = cycles[c]
    BY <1>6, LegacyTypes DEF CalibrationInv
  <2>2. Len(cycles) \in Nat
    BY <1>1
  <2>3. Quiet /\ CyclesKept
    BY <2>1, <2>2 DEF Quiet, CyclesKept, Harmless
  <2> QED
    BY <1>1, <1>6, <2>1, <2>3, NewCycleSettles DEF RunLegacyCycle
<1>7. CASE CycleStart
  <2>1. ASSUME NEW provider \in Providers, NEW start \in Starts,
               StartCycle(provider, start = "replayed")
        PROVE  AppliedInv'
    <3>1. PICK replayed \in BOOLEAN : replayed = (start = "replayed")
      OBVIOUS
    <3> QED
      BY <1>5, <2>1, <3>1
  <2>2. ASSUME NEW verdicts \in {{}, {"approved"}}, RunLegacyCycle(verdicts)
        PROVE  AppliedInv'
    <3>1. verdicts = {} \/ verdicts = {"approved"}
      OBVIOUS
    <3> QED
      BY <1>6, <2>2, <3>1
  <2> QED
    BY <1>7, <2>1, <2>2 DEF CycleStart
<1>8. CASE RejectProposal
  <2>1. Quiet
    BY <1>2, <1>8, EntriesLogged, RevisionsAre DEF RejectProposal
  <2> QED
    BY <1>1, <1>8, <2>1, QuietSettles DEF RejectProposal
<1>9. ASSUME NEW verdict \in Verdicts, DecideProposal(verdict) \/ AskAnswers(verdict)
      PROVE  AppliedInv'
  BY <1>9, DecisionSettles DEF DecideProposal, AskAnswers
<1>10. CASE AskRaises
  <2>1. kpc = "proposal" /\ EndCycle("raised") /\ Quiet /\ world' = world
        /\ pending' = pending
    BY <1>3, <1>10 DEF AskRaises, AtProposal
  <2>2. "raised" # "completed"
    OBVIOUS
  <2> QED
    BY <1>1, <2>1, <2>2, EndSettles
<1>11. CASE FinishCycle
  <2>1. PICK count : count = RevisionCount(Len(cycles))
    OBVIOUS
  <2>2. /\ kpc = "proposal" /\ EndCycle("completed") /\ world' = world
        /\ pending' = pending \cup RevisionsOf(Len(cycles))
        /\ log' = Append(log, Completed(count))
    BY <1>11, <2>1 DEF FinishCycle
  <2>3. count \in Nat
    BY <1>1, <2>1, RevisionCountType
  <2>4. Quiet
    BY <1>2, <2>2, <2>3, EntriesLogged, RevisionsAre
  <2> QED
    BY <1>1, <2>2, <2>4, EndSettles
<1>12. CASE ApplyResult
  BY <1>12, ResultSettles
<1>13. ASSUME NEW delta \in Given, ApplyGiven(delta) PROVE AppliedInv'
  BY <1>13, GivenSettles
<1>14. CASE UNCHANGED calibrationVars
  BY <1>1, <1>3, <1>14, QuietSettles DEF calibrationVars
<1> QED
  BY <1>4, <1>7, <1>8, <1>9, <1>10, <1>11, <1>12, <1>13, <1>14
  DEF CalibrationNext, CycleStep

\* When nothing waits to be applied, this is what the property says.
LEMMA AppliedSuffices ==
  ASSUME AppliedInv
  PROVE  AppliedAsReplayed
<1> SUFFICES ASSUME kpc = "idle", pending = {}
             PROVE  AppliedAsReplayed
  BY DEF AppliedAsReplayed
<1>1. PICK r, described :
        /\ r = ReplayWorld(InitialWorld, log, Returned)
        /\ described = \E n \in Returned : log[n].deltas[1].raw.tag = "model"
  OBVIOUS
<1>2. Settled = Returned
  BY DEF Settled
<1>3. Agree(world, r) /\ (~described => SameSelf(world, r))
  BY <1>1, <1>2 DEF AppliedInv, Plain, Describes
<1>4. CASE described
  <2>1. [world EXCEPT !.capabilities = r.capabilities, !.limits = r.limits]
          = [r EXCEPT !.reliability = Bounded(@)]
    BY <1>3 DEF Agree, Fields
  <2> QED
    BY <1>1, <1>4, <2>1 DEF AppliedAsReplayed
<1>5. CASE ~described
  <2>1. world = [r EXCEPT !.reliability = Bounded(@)]
    BY <1>3, <1>5 DEF Agree, SameSelf, Fields
  <2> QED
    BY <1>1, <1>5, <2>1 DEF AppliedAsReplayed
<1> QED
  BY <1>4, <1>5

(***************************************************************************)
(* Applying what cycles return (apply_calibration_to_world_state) and      *)
(* replaying the record (event_log) come to the same state, but for the    *)
(* bounds on reliability and for models given as a description, however    *)
(* cycles that raise, updates of callers and other work come in between.   *)
(***************************************************************************)
THEOREM AlwaysAppliedAsReplayed == CalibrationSpec => []AppliedAsReplayed
<1>1. CalibrationInit => AppliedInv
  BY AppliedInit
<1>2. CalibrationInv /\ CalibrationInv' /\ AppliedInv /\ [CalibrationNext]_calibrationVars
      => AppliedInv'
  BY AppliedNext
<1>3. AppliedInv => AppliedAsReplayed
  BY AppliedSuffices
<1> QED
  BY <1>1, <1>2, <1>3, InvAlways, PTL DEF CalibrationSpec

================================================================================
