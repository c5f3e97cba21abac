-------------------------- MODULE RealityContactProofs --------------------------
(***************************************************************************)
(* The tool gateway, whether it is called directly or by a contact with    *)
(* reality, for all calls, verdicts, answers and any number of batches: no *)
(* tool acts before its authorisation is on record, promotions are grounded*)
(* in an execution of their own, contacts return what the gateway recorded *)
(* of them, and together they implement AuditedEvolution.                  *)
(***************************************************************************)
EXTENDS RealityContact, EventLogProofs, SequenceTheorems, FiniteSetTheorems

Entry ==
  GatewayEntry
    \cup [type : {"contact"}, call : CallIds, succeeded : BOOLEAN,
          verdict : {"allow", "deny", "requires_approval"}]

ContactTypeOK ==
  /\ log \in Seq(Entry)
  /\ gpc \in {"idle", "policy", "handler", "running", "promote"}
  /\ calls \in Seq(CallIds)
  /\ gpc # "idle" => calls # <<>>
  /\ state_id \in Nat
  /\ effects \in Seq([call : CallIds, at : Nat])
  /\ batches \in Nat
  /\ contact \in Seq([call : CallIds, at : Nat])

(***************************************************************************)
(* What the program counter knows: at the handler the end of the log is the*)
(* authorisation of the call, at the promotion it is its success, and until*)
(* the batch returns the state id is the one the log replays to.           *)
(***************************************************************************)
Authorised ==
  gpc = "handler" =>
    \/ /\ verdict = "allow"
       /\ Len(log) >= 1
       /\ OpensCommitment(log[Len(log)], call)
    \/ /\ verdict = "requires_approval"
       /\ Len(log) >= 2
       /\ OpensCommitment(log[Len(log) - 1], call)
       /\ log[Len(log)] = Approval(call, "approved")

Executed ==
  gpc = "promote" =>
    /\ Len(log) >= 3
    /\ log[Len(log) - 2] = ToolResult(call, "succeeded")
    /\ log[Len(log)] = Commitment(call, TRUE, TRUE)

Threaded == gpc # "idle" => state_id = ReplayedState(log)

\* What is noted of a handler lies in the past.
EffectsPast == \A n \in 1..Len(effects) : effects[n].at <= Len(log)

RevisionsContinue ==
  \A n \in 1..Len(log) :
    IsRevision(log[n]) => log[n].prior = ReplayedAt(log, n - 1)

ContactInvariant ==
  /\ ContactTypeOK
  /\ Authorised
  /\ Executed
  /\ Threaded
  /\ EffectsPast
  /\ EffectAuthorised
  /\ RevisionGrounded
  /\ RevisionsContinue

--------------------------------------------------------------------------------
(* What the code records is an entry, and of the entries only promotions   *)
(* are revisions.                                                          *)

LEMMA EntryTypes ==
  ASSUME NEW id \in CallIds, NEW b \in BOOLEAN, NEW c \in BOOLEAN
  PROVE  /\ Commitment(id, b, c) \in Entry
         /\ ~IsRevision(Commitment(id, b, c))
         /\ \A v \in {"approved", "rejected"} :
              Approval(id, v) \in Entry /\ ~IsRevision(Approval(id, v))
         /\ \A s \in {"succeeded", "failed"} :
              ToolResult(id, s) \in Entry /\ ~IsRevision(ToolResult(id, s))
         /\ Observation(id) \in Entry /\ ~IsRevision(Observation(id))
         /\ \A v \in {"allow", "deny", "requires_approval"} :
              /\ ContactEntry(id, b, v) \in Entry
              /\ ~IsRevision(ContactEntry(id, b, v))
  BY DEF Entry, GatewayEntry, CommitmentEntry, ApprovalEntry, ResultEntry,
         ObservationEntry, Commitment, Approval, ToolResult, Observation,
         ContactEntry, IsRevision

LEMMA QuietOne ==
  ASSUME NEW a \in Entry, ~IsRevision(a)
  PROVE  <<a>> \in Seq(Entry) /\ \A n \in 1..Len(<<a>>) : ~IsRevision(<<a>>[n])
  OBVIOUS

LEMMA QuietTwo ==
  ASSUME NEW a \in Entry, NEW b \in Entry, ~IsRevision(a), ~IsRevision(b)
  PROVE  /\ <<a, b>> \in Seq(Entry)
         /\ \A n \in 1..Len(<<a, b>>) : ~IsRevision(<<a, b>>[n])
  OBVIOUS

LEMMA QuietThree ==
  ASSUME NEW a \in Entry, NEW b \in Entry, NEW c \in Entry,
         ~IsRevision(a), ~IsRevision(b), ~IsRevision(c)
  PROVE  /\ <<a, b, c>> \in Seq(Entry)
         /\ \A n \in 1..Len(<<a, b, c>>) : ~IsRevision(<<a, b, c>>[n])
  OBVIOUS

LEMMA VerdictTypes ==
  ASSUME NEW id \in CallIds
  PROVE  EvaluateToolCallPolicy(RiskOf[id])
           \in {"allow", "deny", "requires_approval"}
  BY GatewayAssumption DEF EvaluateToolCallPolicy, ToolRisk

\* The call the batch stands at, and what remains after it.
LEMMA CurrentCall ==
  ASSUME ContactTypeOK, gpc # "idle"
  PROVE  call \in CallIds /\ Tail(calls) \in Seq(CallIds)
         /\ (Len(calls) > 1 => Tail(calls) # <<>>)
<1>1. calls \in Seq(CallIds) /\ calls # <<>>
  BY DEF ContactTypeOK
<1>2. /\ Head(calls) \in CallIds /\ Tail(calls) \in Seq(CallIds)
      /\ Len(Tail(calls)) = Len(calls) - 1
  BY <1>1, HeadTailProperties
<1>3. Len(calls) > 1 => Tail(calls) # <<>>
  <2> SUFFICES ASSUME Len(calls) > 1, Tail(calls) = <<>> PROVE FALSE
    OBVIOUS
  <2>1. Len(Tail(calls)) = 0
    BY EmptySeq
  <2>2. Len(calls) \in Nat
    BY <1>1, LenProperties
  <2> DEFINE longer == Len(calls)  shorter == Len(Tail(calls))
  <2>3. longer \in Nat /\ longer > 1 /\ shorter = longer - 1 /\ shorter = 0
    BY <1>2, <2>1, <2>2
  <2> QED
    <3> HIDE DEF longer, shorter
    <3> QED
      BY <2>3
<1> QED
  BY <1>2, <1>3 DEF call

\* The state replayed from a well-typed log is a number.
LEMMA ReplayedIsNat ==
  ASSUME NEW entries \in Seq(Entry), NEW n \in 0..Len(entries)
  PROVE  ReplayedAt(entries, n) \in Nat
<1>1. \A m \in 1..n : IsRevision(entries[m]) => entries[m].result \in Nat
  <2> TAKE m \in 1..n
  <2>1. entries[m] \in Entry
    OBVIOUS
  <2> QED
    BY <2>1 DEF Entry, GatewayEntry, CommitmentEntry, ApprovalEntry, ResultEntry,
       ObservationEntry, RevisionEntry, IsRevision
<1> QED
  BY <1>1, ReplayType

--------------------------------------------------------------------------------
(* Steps that add entries other than revisions, or none.                   *)

LEMMA Appended ==
  ASSUME ContactTypeOK, NEW s \in Seq(Entry), log' = log \o s
  PROVE  /\ log' \in Seq(Entry)
         /\ Len(log) \in Nat /\ Len(s) \in Nat
         /\ Len(log') = Len(log) + Len(s)
         /\ \A n \in 1..Len(log) : log'[n] = log[n]
         /\ \A n \in (Len(log) + 1)..Len(log') : log'[n] = s[n - Len(log)]
         /\ Extends(log', log)
<1>1. log \in Seq(Entry)
  BY DEF ContactTypeOK
<1>2. Len(log) \in Nat /\ Len(s) \in Nat
  BY <1>1, LenProperties
<1>3. /\ log' \in Seq(Entry)
      /\ Len(log') = Len(log) + Len(s)
      /\ \A i \in 1..(Len(log) + Len(s)) :
           log'[i] = IF i <= Len(log) THEN log[i] ELSE s[i - Len(log)]
  BY <1>1, ConcatProperties
<1> QED
  BY <1>2, <1>3 DEF Extends

\* What is true of the record so far stays true of it, whatever is added.
GroundedAt(entries, n) ==
  \E m \in 1..(n - 1) :
    /\ entries[m] = Commitment(entries[n].cause, TRUE, TRUE)
    /\ \E k \in 1..(m - 1) : entries[k] = ToolResult(entries[n].cause, "succeeded")
    /\ \A k \in m..(n - 1) :
         ~(IsRevision(entries[k]) /\ entries[k].cause = entries[n].cause)

LEMMA Kept ==
  ASSUME ContactInvariant, NEW s \in Seq(Entry), log' = log \o s,
         effects' = effects
  PROVE  /\ EffectsPast'
         /\ EffectAuthorised'
         /\ \A n \in 1..Len(log) :
              IsRevision(log'[n]) =>
                /\ GroundedAt(log', n)
                /\ log'[n].prior = ReplayedAt(log', n - 1)
         /\ ReplayedAt(log', Len(log)) = ReplayedState(log)
<1> USE DEF ContactInvariant
<1>1. /\ log' \in Seq(Entry)
      /\ Len(log) \in Nat /\ Len(s) \in Nat
      /\ Len(log') = Len(log) + Len(s)
      /\ \A n \in 1..Len(log) : log'[n] = log[n]
  BY Appended
<1>2. \A n \in 1..Len(effects) : effects[n].at \in Nat /\ effects[n].at <= Len(log)
  <2> TAKE n \in 1..Len(effects)
  <2>1. effects \in Seq([call : CallIds, at : Nat])
    BY DEF ContactTypeOK
  <2>2. effects[n] \in [call : CallIds, at : Nat]
    BY <2>1, ElementOfSeq
  <2> QED
    BY <2>2 DEF EffectsPast
<1>3. EffectsPast'
  BY <1>1, <1>2 DEF EffectsPast
<1>4. EffectAuthorised'
  BY <1>1, <1>2 DEF EffectAuthorised
<1>5. ASSUME NEW n \in 1..Len(log), IsRevision(log'[n])
      PROVE  /\ GroundedAt(log', n)
             /\ log'[n].prior = ReplayedAt(log', n - 1)
  <2>1. n \in Nat /\ \A k \in 1..n : log'[k] = log[k]
    BY <1>1
  <2>2. PICK m \in 1..(n - 1) :
          /\ log[m] = Commitment(log[n].cause, TRUE, TRUE)
          /\ \E k \in 1..(m - 1) : log[k] = ToolResult(log[n].cause, "succeeded")
          /\ \A k \in m..(n - 1) :
               ~(IsRevision(log[k]) /\ log[k].cause = log[n].cause)
    <3>1. n \in 1..Len(log) /\ IsRevision(log[n])
      <4>1. log'[n] = log[n]
        BY <2>1
      <4> QED
        BY <1>5, <4>1
    <3> QED
      BY <3>1 DEF RevisionGrounded
  <2>3. log'[m] = Commitment(log'[n].cause, TRUE, TRUE)
    <3>1. log'[m] = log[m] /\ log'[n] = log[n]
      BY <2>1
    <3> QED
      BY <2>2, <3>1
  <2>4. \E k \in 1..(m - 1) : log'[k] = ToolResult(log'[n].cause, "succeeded")
    <3>1. PICK k \in 1..(m - 1) : log[k] = ToolResult(log[n].cause, "succeeded")
      BY <2>2
    <3> QED
      BY <2>1, <3>1
  <2>5. \A k \in m..(n - 1) :
          ~(IsRevision(log'[k]) /\ log'[k].cause = log'[n].cause)
    BY <2>1, <2>2
  <2>6. GroundedAt(log', n)
    BY <2>3, <2>4, <2>5 DEF GroundedAt
  <2>7. ReplayedAt(log', n - 1) = ReplayedAt(log, n - 1)
    <3>1. n - 1 \in Nat /\ \A m_1 \in 1..(n - 1) : log'[m_1] = log[m_1]
      BY <2>1
    <3> QED
      BY <3>1, ReplayReadsPrefix
  <2> QED
    BY <1>5, <2>1, <2>6, <2>7 DEF RevisionsContinue
<1>6. ReplayedAt(log', Len(log)) = ReplayedState(log)
  BY <1>1, ReplayReadsPrefix DEF ReplayedState
<1> QED
  BY <1>3, <1>4, <1>5, <1>6

LEMMA Quiet ==
  ASSUME ContactInvariant, NEW s \in Seq(Entry), log' = log \o s,
         \A n \in 1..Len(s) : ~IsRevision(s[n]),
         effects' = effects
  PROVE  /\ EffectsPast'
         /\ EffectAuthorised'
         /\ RevisionGrounded'
         /\ RevisionsContinue'
         /\ ReplayedState(log') = ReplayedState(log)
<1>1. /\ Len(log) \in Nat /\ Len(s) \in Nat
      /\ Len(log') = Len(log) + Len(s)
      /\ \A n \in (Len(log) + 1)..Len(log') : log'[n] = s[n - Len(log)]
  BY Appended DEF ContactInvariant
<1>2. \A n \in (Len(log) + 1)..Len(log') : ~IsRevision(log'[n])
  <2> TAKE n \in (Len(log) + 1)..Len(log')
  <2>1. n - Len(log) \in 1..Len(s)
    BY <1>1
  <2> QED
    BY <1>1, <2>1
<1>3. \A n \in 1..Len(log') : IsRevision(log'[n]) => n \in 1..Len(log)
  BY <1>1, <1>2
<1>4. ReplayedState(log') = ReplayedAt(log', Len(log))
  <2>1. Len(log) \in Nat /\ Len(log') \in Nat /\ Len(log) <= Len(log')
    BY <1>1
  <2> QED
    BY <1>2, <2>1, ReplaySkipsOthers DEF ReplayedState
<1> QED
  BY <1>3, <1>4, Kept DEF RevisionGrounded, RevisionsContinue, GroundedAt

\* So a step that starts no batch keeps the invariant if it keeps what the
\* program counter knows.
LEMMA QuietStep ==
  ASSUME ContactInvariant, NEW s \in Seq(Entry), log' = log \o s,
         \A n \in 1..Len(s) : ~IsRevision(s[n]),
         effects' = effects, state_id' = state_id,
         batches' \in Nat, contact' \in Seq([call : CallIds, at : Nat]),
         calls' \in Seq(CallIds),
         gpc' \in {"idle", "policy", "handler", "running", "promote"},
         gpc' # "idle" => gpc # "idle" /\ calls' # <<>>,
         Authorised', Executed'
  PROVE  ContactInvariant'
<1>1. ContactTypeOK
  BY DEF ContactInvariant
<1>2. log' \in Seq(Entry)
  BY <1>1, Appended
<1>3. ContactTypeOK'
  BY <1>1, <1>2 DEF ContactTypeOK
<1>4. /\ EffectsPast' /\ EffectAuthorised' /\ RevisionGrounded'
      /\ RevisionsContinue' /\ ReplayedState(log') = ReplayedState(log)
  BY Quiet
<1>5. Threaded'
  BY <1>4 DEF ContactInvariant, Threaded
<1> QED
  BY <1>3, <1>4, <1>5 DEF ContactInvariant

LEMMA SilentStep ==
  ASSUME ContactInvariant, log' = log,
         effects' = effects, state_id' = state_id,
         batches' \in Nat, contact' \in Seq([call : CallIds, at : Nat]),
         calls' \in Seq(CallIds),
         gpc' \in {"idle", "policy", "handler", "running", "promote"},
         gpc' # "idle" => gpc # "idle" /\ calls' # <<>>,
         Authorised', Executed'
  PROVE  ContactInvariant'
<1>1. log \in Seq(Entry)
  BY DEF ContactInvariant, ContactTypeOK
<1>2. <<>> \in Seq(Entry) /\ \A n \in 1..Len(<<>>) : ~IsRevision(<<>>[n])
  OBVIOUS
<1>3. log' = log \o <<>>
  BY <1>1, ConcatEmptySeq
<1> QED
  BY <1>2, <1>3, QuietStep

\* The batch goes on with its next call or returns.
LEMMA NextCallReady ==
  ASSUME ContactTypeOK, gpc # "idle", NextCall
  PROVE  /\ calls' \in Seq(CallIds)
         /\ gpc' \in {"idle", "policy"}
         /\ gpc' # "idle" => calls' # <<>>
         /\ Authorised' /\ Executed'
<1>1. gpc' \in {"idle", "policy"} /\ (gpc' # "idle" => Len(calls) > 1)
  BY DEF NextCall
<1> QED
  BY <1>1, CurrentCall DEF NextCall, Authorised, Executed

--------------------------------------------------------------------------------
(* One lemma for each action.                                              *)

LEMMA RecordDeniedSafe ==
  ASSUME ContactInvariant, RecordDenied, UNCHANGED contact
  PROVE  ContactInvariant'
<1> DEFINE s == <<ToolResult(call, "failed")>>
<1>1. ContactTypeOK /\ gpc # "idle"
  BY DEF ContactInvariant, RecordDenied
<1>2. call \in CallIds
  BY <1>1, CurrentCall
<1>3. ToolResult(call, "failed") \in Entry /\ ~IsRevision(ToolResult(call, "failed"))
  BY <1>2, EntryTypes
<1>4. s \in Seq(Entry) /\ \A n \in 1..Len(s) : ~IsRevision(s[n])
  BY <1>3
<1>5. log' = log \o s
  BY <1>1, <1>3, AppendIsConcat DEF RecordDenied, ContactTypeOK
<1>6. NextCall /\ UNCHANGED <<state_id, effects, batches, contact>>
  BY DEF RecordDenied
<1>7. batches' \in Nat /\ contact' \in Seq([call : CallIds, at : Nat])
  BY <1>1, <1>6 DEF ContactTypeOK
<1> HIDE DEF s
<1> QED
  BY <1>1, <1>4, <1>5, <1>6, <1>7, NextCallReady, QuietStep

LEMMA RecordCommitmentSafe ==
  ASSUME ContactInvariant, RecordCommitment, UNCHANGED contact
  PROVE  ContactInvariant'
<1> DEFINE s == <<Commitment(call, TRUE, FALSE)>>
<1>1. ContactTypeOK /\ gpc # "idle"
  BY DEF ContactInvariant, RecordCommitment
<1>2. call \in CallIds
  BY <1>1, CurrentCall
<1>3. /\ Commitment(call, TRUE, FALSE) \in Entry
      /\ ~IsRevision(Commitment(call, TRUE, FALSE))
  BY <1>2, EntryTypes
<1>4. s \in Seq(Entry) /\ \A n \in 1..Len(s) : ~IsRevision(s[n])
  BY <1>3, QuietOne
<1>5. log' = log \o s
  BY <1>1, <1>3, AppendIsConcat DEF RecordCommitment, ContactTypeOK
<1>6. gpc' = "handler" /\ UNCHANGED <<calls, state_id, effects, batches, contact>>
  BY DEF RecordCommitment
<1>7. calls' \in Seq(CallIds) /\ calls' # <<>> /\ batches' \in Nat
      /\ contact' \in Seq([call : CallIds, at : Nat])
  BY <1>1, <1>6 DEF ContactTypeOK
<1>8. Len(s) = 1 /\ s[1] = Commitment(call, TRUE, FALSE)
  OBVIOUS
<1> HIDE DEF s
<1>9. /\ Len(log) \in Nat /\ Len(log') = Len(log) + 1
      /\ log'[Len(log) + 1] = s[1]
  <2>1. Len(log) \in Nat /\ Len(log') = Len(log) + 1
    BY <1>1, <1>4, <1>5, <1>8, Appended
  <2>2. log'[Len(log) + 1] = s[1]
    <3>1. /\ Len(log) + 1 \in (Len(log) + 1)..Len(log')
          /\ (Len(log) + 1) - Len(log) = 1
      BY <2>1
    <3> QED
      BY <1>1, <1>4, <1>5, <3>1, Appended
  <2> QED
    BY <2>1, <2>2
<1>10. Authorised' /\ Executed'
  <2>1. verdict' = "allow" /\ call' = call
    BY <1>6 DEF RecordCommitment, verdict, call
  <2>2. log'[Len(log')] = Commitment(call, TRUE, FALSE) /\ Len(log') >= 1
    BY <1>8, <1>9
  <2>3. OpensCommitment(log'[Len(log')], call)
    BY <2>2 DEF OpensCommitment, Commitment
  <2> QED
    BY <1>6, <2>1, <2>2, <2>3 DEF Authorised, Executed
<1> QED
  BY <1>1, <1>4, <1>5, <1>6, <1>7, <1>10, QuietStep

LEMMA CheckApprovalApprovedSafe ==
  ASSUME ContactInvariant, CheckApprovalApproved, UNCHANGED contact
  PROVE  ContactInvariant'
<1> DEFINE s == <<Commitment(call, TRUE, FALSE),
                  Approval(call, "approved")>>
<1>1. ContactTypeOK /\ gpc # "idle"
  BY DEF ContactInvariant, CheckApprovalApproved
<1>2. call \in CallIds
  BY <1>1, CurrentCall
<1>3. /\ Commitment(call, TRUE, FALSE) \in Entry
      /\ ~IsRevision(Commitment(call, TRUE, FALSE))
      /\ Approval(call, "approved") \in Entry
      /\ ~IsRevision(Approval(call, "approved"))
  BY <1>2, EntryTypes
<1>4. s \in Seq(Entry) /\ \A n \in 1..Len(s) : ~IsRevision(s[n])
  BY <1>3, QuietTwo
<1>5. log' = log \o s
  BY DEF CheckApprovalApproved
<1>6. gpc' = "handler" /\ UNCHANGED <<calls, state_id, effects, batches, contact>>
  BY DEF CheckApprovalApproved
<1>7. calls' \in Seq(CallIds) /\ calls' # <<>> /\ batches' \in Nat
      /\ contact' \in Seq([call : CallIds, at : Nat])
  BY <1>1, <1>6 DEF ContactTypeOK
<1>8. Len(s) = 2 /\ s[1] = Commitment(call, TRUE, FALSE)
      /\ s[2] = Approval(call, "approved")
  OBVIOUS
<1> HIDE DEF s
<1>9. /\ Len(log) \in Nat /\ Len(log') = Len(log) + 2
      /\ log'[Len(log) + 1] = s[1]
      /\ log'[Len(log) + 2] = s[2]
  <2>1. Len(log) \in Nat /\ Len(log') = Len(log) + 2
    BY <1>1, <1>4, <1>5, <1>8, Appended
  <2>2. log'[Len(log) + 1] = s[1]
    <3>1. /\ Len(log) + 1 \in (Len(log) + 1)..Len(log')
          /\ (Len(log) + 1) - Len(log) = 1
      BY <2>1
    <3> QED
      BY <1>1, <1>4, <1>5, <3>1, Appended
  <2>3. log'[Len(log) + 2] = s[2]
    <3>1. /\ Len(log) + 2 \in (Len(log) + 1)..Len(log')
          /\ (Len(log) + 2) - Len(log) = 2
      BY <2>1
    <3> QED
      BY <1>1, <1>4, <1>5, <3>1, Appended
  <2> QED
    BY <2>1, <2>2, <2>3
<1>10. Authorised' /\ Executed'
  <2>1. verdict' = "requires_approval" /\ call' = call
    BY <1>6 DEF CheckApprovalApproved, verdict, call
  <2>2. /\ log'[Len(log')] = Approval(call, "approved") /\ Len(log') >= 2
        /\ log'[Len(log') - 1] = Commitment(call, TRUE, FALSE)
    <3>1. Len(log') - 1 = Len(log) + 1 /\ Len(log') >= 2
      BY <1>9
    <3> QED
      BY <1>8, <1>9, <3>1
  <2>3. OpensCommitment(log'[Len(log') - 1], call)
    BY <2>2 DEF OpensCommitment, Commitment
  <2> QED
    BY <1>6, <2>1, <2>2, <2>3 DEF Authorised, Executed
<1> QED
  BY <1>1, <1>4, <1>5, <1>6, <1>7, <1>10, QuietStep

LEMMA RecordApprovalDeniedSafe ==
  ASSUME ContactInvariant, RecordApprovalDenied, UNCHANGED contact
  PROVE  ContactInvariant'
<1> DEFINE s == <<Approval(call, "rejected"),
                  ToolResult(call, "failed")>>
<1>1. ContactTypeOK /\ gpc # "idle"
  BY DEF ContactInvariant, RecordApprovalDenied
<1>2. call \in CallIds
  BY <1>1, CurrentCall
<1>3. /\ Approval(call, "rejected") \in Entry
      /\ ~IsRevision(Approval(call, "rejected"))
      /\ ToolResult(call, "failed") \in Entry
      /\ ~IsRevision(ToolResult(call, "failed"))
  BY <1>2, EntryTypes
<1>4. s \in Seq(Entry) /\ \A n \in 1..Len(s) : ~IsRevision(s[n])
  BY <1>3, QuietTwo
<1>5. log' = log \o s
  BY DEF RecordApprovalDenied
<1>6. NextCall /\ UNCHANGED <<state_id, effects, batches, contact>>
  BY DEF RecordApprovalDenied
<1>7. batches' \in Nat /\ contact' \in Seq([call : CallIds, at : Nat])
  BY <1>1, <1>6 DEF ContactTypeOK
<1> HIDE DEF s
<1> QED
  BY <1>1, <1>4, <1>5, <1>6, <1>7, NextCallReady, QuietStep

LEMMA HandlerMissingSafe ==
  ASSUME ContactInvariant, HandlerMissing, UNCHANGED contact
  PROVE  ContactInvariant'
<1> DEFINE s == <<ToolResult(call, "failed"),
                  Commitment(call, FALSE, TRUE)>>
<1>1. ContactTypeOK /\ gpc # "idle"
  BY DEF ContactInvariant, HandlerMissing
<1>2. call \in CallIds
  BY <1>1, CurrentCall
<1>3. /\ ToolResult(call, "failed") \in Entry
      /\ ~IsRevision(ToolResult(call, "failed"))
      /\ Commitment(call, FALSE, TRUE) \in Entry
      /\ ~IsRevision(Commitment(call, FALSE, TRUE))
  BY <1>2, EntryTypes
<1>4. s \in Seq(Entry) /\ \A n \in 1..Len(s) : ~IsRevision(s[n])
  BY <1>3, QuietTwo
<1>5. log' = log \o s
  BY DEF HandlerMissing
<1>6. NextCall /\ UNCHANGED <<state_id, effects, batches, contact>>
  BY DEF HandlerMissing
<1>7. batches' \in Nat /\ contact' \in Seq([call : CallIds, at : Nat])
  BY <1>1, <1>6 DEF ContactTypeOK
<1> HIDE DEF s
<1> QED
  BY <1>1, <1>4, <1>5, <1>6, <1>7, NextCallReady, QuietStep

LEMMA HandlerRaisesSafe ==
  ASSUME ContactInvariant, HandlerRaises, UNCHANGED contact
  PROVE  ContactInvariant'
<1> DEFINE s == <<ToolResult(call, "failed"),
                  Commitment(call, FALSE, TRUE)>>
<1>1. ContactTypeOK /\ gpc # "idle"
  BY DEF ContactInvariant, HandlerRaises
<1>2. call \in CallIds
  BY <1>1, CurrentCall
<1>3. /\ ToolResult(call, "failed") \in Entry
      /\ ~IsRevision(ToolResult(call, "failed"))
      /\ Commitment(call, FALSE, TRUE) \in Entry
      /\ ~IsRevision(Commitment(call, FALSE, TRUE))
  BY <1>2, EntryTypes
<1>4. s \in Seq(Entry) /\ \A n \in 1..Len(s) : ~IsRevision(s[n])
  BY <1>3, QuietTwo
<1>5. log' = log \o s
  BY DEF HandlerRaises
<1>6. NextCall /\ UNCHANGED <<state_id, effects, batches, contact>>
  BY DEF HandlerRaises
<1>7. batches' \in Nat /\ contact' \in Seq([call : CallIds, at : Nat])
  BY <1>1, <1>6 DEF ContactTypeOK
<1> HIDE DEF s
<1> QED
  BY <1>1, <1>4, <1>5, <1>6, <1>7, NextCallReady, QuietStep

LEMMA HandlerReturnsSafe ==
  ASSUME ContactInvariant, HandlerReturns, UNCHANGED contact
  PROVE  ContactInvariant'
<1> DEFINE s == <<ToolResult(call, "succeeded"),
                  Observation(call),
                  Commitment(call, TRUE, TRUE)>>
<1>1. ContactTypeOK /\ gpc # "idle"
  BY DEF ContactInvariant, HandlerReturns
<1>2. call \in CallIds
  BY <1>1, CurrentCall
<1>3. /\ ToolResult(call, "succeeded") \in Entry
      /\ ~IsRevision(ToolResult(call, "succeeded"))
      /\ Observation(call) \in Entry
      /\ ~IsRevision(Observation(call))
      /\ Commitment(call, TRUE, TRUE) \in Entry
      /\ ~IsRevision(Commitment(call, TRUE, TRUE))
  BY <1>2, EntryTypes
<1>4. s \in Seq(Entry) /\ \A n \in 1..Len(s) : ~IsRevision(s[n])
  BY <1>3, QuietThree
<1>5. log' = log \o s
  BY DEF HandlerReturns
<1>6. gpc' = "promote" /\ UNCHANGED <<calls, state_id, effects, batches, contact>>
  BY DEF HandlerReturns
<1>7. calls' \in Seq(CallIds) /\ calls' # <<>> /\ batches' \in Nat
      /\ contact' \in Seq([call : CallIds, at : Nat])
  BY <1>1, <1>6 DEF ContactTypeOK
<1>8. Len(s) = 3 /\ s[1] = ToolResult(call, "succeeded")
      /\ s[2] = Observation(call)
      /\ s[3] = Commitment(call, TRUE, TRUE)
  OBVIOUS
<1> HIDE DEF s
<1>9. /\ Len(log) \in Nat /\ Len(log') = Len(log) + 3
      /\ log'[Len(log) + 1] = s[1]
      /\ log'[Len(log) + 2] = s[2]
      /\ log'[Len(log) + 3] = s[3]
  <2>1. Len(log) \in Nat /\ Len(log') = Len(log) + 3
    BY <1>1, <1>4, <1>5, <1>8, Appended
  <2>2. log'[Len(log) + 1] = s[1]
    <3>1. /\ Len(log) + 1 \in (Len(log) + 1)..Len(log')
          /\ (Len(log) + 1) - Len(log) = 1
      BY <2>1
    <3> QED
      BY <1>1, <1>4, <1>5, <3>1, Appended
  <2>3. log'[Len(log) + 2] = s[2]
    <3>1. /\ Len(log) + 2 \in (Len(log) + 1)..Len(log')
          /\ (Len(log) + 2) - Len(log) = 2
      BY <2>1
    <3> QED
      BY <1>1, <1>4, <1>5, <3>1, Appended
  <2>4. log'[Len(log) + 3] = s[3]
    <3>1. /\ Len(log) + 3 \in (Len(log) + 1)..Len(log')
          /\ (Len(log) + 3) - Len(log) = 3
      BY <2>1
    <3> QED
      BY <1>1, <1>4, <1>5, <3>1, Appended
  <2> QED
    BY <2>1, <2>2, <2>3, <2>4
<1>10. Authorised' /\ Executed'
  <2>1. call' = call
    BY <1>6 DEF call
  <2>2. /\ log'[Len(log')] = Commitment(call, TRUE, TRUE) /\ Len(log') >= 3
        /\ log'[Len(log') - 2] = ToolResult(call, "succeeded")
    <3>1. Len(log') - 2 = Len(log) + 1 /\ Len(log') >= 3
      BY <1>9
    <3> QED
      BY <1>8, <1>9, <3>1
  <2> QED
    BY <1>6, <2>1, <2>2 DEF Authorised, Executed
<1> QED
  BY <1>1, <1>4, <1>5, <1>6, <1>7, <1>10, QuietStep

LEMMA CheckApprovalRaisesSafe ==
  ASSUME ContactInvariant, CheckApprovalRaises, UNCHANGED contact
  PROVE  ContactInvariant'
<1>1. /\ gpc' = "idle" /\ calls' = <<>>
      /\ UNCHANGED <<log, state_id, effects, batches, contact>>
  BY DEF CheckApprovalRaises
<1>2. /\ calls' \in Seq(CallIds) /\ batches' \in Nat
      /\ contact' \in Seq([call : CallIds, at : Nat])
  BY <1>1 DEF ContactInvariant, ContactTypeOK
<1>3. Authorised' /\ Executed'
  BY <1>1 DEF Authorised, Executed
<1> QED
  BY <1>1, <1>2, <1>3, SilentStep

LEMMA NoPromotionSafe ==
  ASSUME ContactInvariant, NoPromotion, UNCHANGED contact
  PROVE  ContactInvariant'
<1>1. ContactTypeOK /\ gpc # "idle"
  BY DEF ContactInvariant, NoPromotion
<1>2. NextCall /\ UNCHANGED <<log, state_id, effects, batches, contact>>
  BY DEF NoPromotion
<1>3. batches' \in Nat /\ contact' \in Seq([call : CallIds, at : Nat])
  BY <1>1, <1>2 DEF ContactTypeOK
<1> QED
  BY <1>1, <1>2, <1>3, NextCallReady, SilentStep

LEMMA EnterHandlerSafe ==
  ASSUME ContactInvariant, EnterHandler, UNCHANGED contact
  PROVE  ContactInvariant'
<1> USE DEF ContactInvariant
<1> DEFINE entered == [call |-> call, at |-> Len(log)]
<1>1. ContactTypeOK /\ gpc = "handler" /\ gpc # "idle"
  BY DEF EnterHandler
<1>2. call \in CallIds /\ Len(log) \in Nat
  BY <1>1, CurrentCall DEF ContactTypeOK
<1>3. /\ effects' = Append(effects, entered) /\ gpc' = "running"
      /\ UNCHANGED <<log, calls, state_id, batches, contact>>
  BY DEF EnterHandler
<1>4. effects \in Seq([call : CallIds, at : Nat])
      /\ entered \in [call : CallIds, at : Nat]
  BY <1>2 DEF ContactTypeOK
<1>5. /\ effects' \in Seq([call : CallIds, at : Nat])
      /\ Len(effects) \in Nat
      /\ Len(effects') = Len(effects) + 1
      /\ \A n \in 1..Len(effects) : effects'[n] = effects[n]
      /\ effects'[Len(effects) + 1] = entered
  BY <1>3, <1>4, AppendProperties, LenProperties
<1>6. ContactTypeOK'
  BY <1>1, <1>3, <1>5 DEF ContactTypeOK
<1>7. EffectsPast'
  <2> SUFFICES ASSUME NEW n \in 1..Len(effects')
               PROVE  effects'[n].at <= Len(log)
    BY <1>3 DEF EffectsPast
  <2>1. CASE n \in 1..Len(effects)
    BY <1>5, <2>1 DEF EffectsPast
  <2>2. CASE n = Len(effects) + 1
    BY <1>2, <1>5, <2>2
  <2> QED
    BY <1>5, <2>1, <2>2
<1>8. EffectAuthorised'
  <2>1. ASSUME NEW n \in 1..Len(effects)
        PROVE  effects'[n] = effects[n]
    BY <1>5
  <2>2. effects'[Len(effects) + 1].call = call
        /\ effects'[Len(effects) + 1].at = Len(log)
    BY <1>5
  <2>3. 1..Len(effects') = (1..Len(effects)) \cup {Len(effects) + 1}
    BY <1>5
  <2> QED
    BY <1>1, <1>3, <2>1, <2>2, <2>3 DEF EffectAuthorised, Authorised, verdict
<1>9. Authorised' /\ Executed' /\ Threaded'
  BY <1>1, <1>3 DEF Authorised, Executed, Threaded
<1>10. RevisionGrounded' /\ RevisionsContinue'
  BY <1>3 DEF RevisionGrounded, RevisionsContinue
<1> QED
  BY <1>6, <1>7, <1>8, <1>9, <1>10

\* The revisions of a well-typed log are finitely many.
LEMMA RevisionsCounted ==
  ASSUME ContactTypeOK
  PROVE  Cardinality(RevisionsIn(log)) \in Nat
<1>1. Len(log) \in Nat
  BY DEF ContactTypeOK
<1>2. IsFiniteSet(1..Len(log)) /\ RevisionsIn(log) \subseteq 1..Len(log)
  BY <1>1, FS_Interval DEF RevisionsIn, RevisionsUpTo
<1> QED
  BY <1>2, FS_Subset, FS_CardinalityType

LEMMA PromoteObservationSafe ==
  ASSUME ContactInvariant, PromoteObservation, UNCHANGED contact
  PROVE  ContactInvariant'
<1> DEFINE result == Cardinality(RevisionsIn(log)) + 1
           revision == Revision(call, state_id, result)
           s == <<revision>>
<1>1. ContactTypeOK /\ gpc = "promote" /\ gpc # "idle"
  BY DEF ContactInvariant, PromoteObservation
<1>2. call \in CallIds /\ state_id \in Nat
  BY <1>1, CurrentCall DEF ContactTypeOK
<1>3. result \in Nat
  BY <1>1, RevisionsCounted
<1>4. /\ log' = Append(log, revision) /\ state_id' = result /\ NextCall
      /\ UNCHANGED <<effects, batches, contact>>
  BY DEF PromoteObservation
<1> HIDE DEF result
<1>5. revision \in Entry /\ IsRevision(revision)
      /\ revision.cause = call /\ revision.prior = state_id
      /\ revision.result = result
  BY <1>2, <1>3 DEF Entry, GatewayEntry, RevisionEntry, Revision, IsRevision
<1> HIDE DEF revision
<1>6. s \in Seq(Entry) /\ Len(s) = 1 /\ s[1] = revision
  BY <1>5
<1>7. log' = log \o s
  BY <1>1, <1>4, <1>5, AppendIsConcat DEF ContactTypeOK
<1> HIDE DEF s
<1>8. /\ Len(log) \in Nat /\ Len(log') = Len(log) + 1
      /\ \A n \in 1..Len(log) : log'[n] = log[n]
      /\ log' \in Seq(Entry)
  BY <1>1, <1>6, <1>7, Appended
<1>9. log'[Len(log) + 1] = revision
  BY <1>1, <1>4, <1>5, AppendProperties DEF ContactTypeOK
<1>10. /\ EffectsPast' /\ EffectAuthorised'
       /\ \A n \in 1..Len(log) :
            IsRevision(log'[n]) =>
              /\ GroundedAt(log', n)
              /\ log'[n].prior = ReplayedAt(log', n - 1)
       /\ ReplayedAt(log', Len(log)) = ReplayedState(log)
  BY <1>4, <1>6, <1>7, Kept
<1>11. GroundedAt(log', Len(log) + 1)
  <2> DEFINE m == Len(log)
  <2>1. /\ m >= 3 /\ log[m - 2] = ToolResult(call, "succeeded")
        /\ log[m] = Commitment(call, TRUE, TRUE)
    BY <1>1 DEF ContactInvariant, Executed
  <2>2. m \in 1..((m + 1) - 1) /\ m - 2 \in 1..(m - 1)
        /\ log'[m] = log[m] /\ log'[m - 2] = log[m - 2]
    <3>1. m \in Nat /\ m >= 3
      BY <1>8, <2>1
    <3>2. m \in 1..Len(log) /\ m - 2 \in 1..Len(log)
      BY <1>8, <2>1
    <3>3. log'[m] = log[m] /\ log'[m - 2] = log[m - 2]
      BY <1>8, <3>2
    <3> HIDE DEF m
    <3>4. m \in 1..((m + 1) - 1) /\ m - 2 \in 1..(m - 1)
      BY <3>1
    <3> QED
      BY <3>3, <3>4
  <2>3. log'[m] = Commitment(call, TRUE, TRUE)
        /\ log'[m - 2] = ToolResult(call, "succeeded")
    BY <2>1, <2>2
  <2>4. ~IsRevision(log'[m])
    BY <2>3 DEF Commitment, IsRevision
  <2>5. \A k \in m..((m + 1) - 1) : k = m
    BY <1>8
  <2>6. log'[m + 1].cause = call
    BY <1>5, <1>9
  <2> HIDE DEF m
  <2>7. GroundedAt(log', m + 1)
    BY <2>2, <2>3, <2>4, <2>5, <2>6 DEF GroundedAt
  <2> QED
    BY <2>7 DEF m
<1>12. log'[Len(log) + 1].prior = ReplayedAt(log', (Len(log) + 1) - 1)
  <2>1. (Len(log) + 1) - 1 = Len(log)
    BY <1>8
  <2> QED
    BY <1>1, <1>5, <1>9, <1>10, <2>1 DEF ContactInvariant, Threaded
<1>13. \A n \in 1..Len(log') : n \in 1..Len(log) \/ n = Len(log) + 1
  BY <1>8
<1>14. RevisionGrounded' /\ RevisionsContinue'
  <2>1. ASSUME NEW n \in 1..Len(log'), IsRevision(log'[n])
        PROVE  GroundedAt(log', n) /\ log'[n].prior = ReplayedAt(log', n - 1)
    <3>1. CASE n \in 1..Len(log)
      BY <1>10, <2>1, <3>1
    <3>2. CASE n = Len(log) + 1
      BY <1>11, <1>12, <3>2
    <3> QED
      BY <1>13, <3>1, <3>2
  <2>2. RevisionGrounded'
    BY <2>1 DEF RevisionGrounded, GroundedAt
  <2>3. RevisionsContinue'
    BY <2>1 DEF RevisionsContinue
  <2> QED
    BY <2>2, <2>3
<1>15. ReplayedState(log') = result
  <2>1. Len(log') \in Nat \ {0} /\ IsRevision(log'[Len(log')])
        /\ log'[Len(log')].result = result
    BY <1>5, <1>8, <1>9
  <2> QED
    BY <2>1, ReplayEndsInRevision DEF ReplayedState
<1>16. Threaded'
  BY <1>4, <1>15 DEF Threaded
<1>17. /\ calls' \in Seq(CallIds) /\ gpc' \in {"idle", "policy"}
       /\ (gpc' # "idle" => calls' # <<>>) /\ Authorised' /\ Executed'
  BY <1>1, <1>4, NextCallReady
<1>18. ContactTypeOK'
  BY <1>1, <1>3, <1>4, <1>8, <1>17 DEF ContactTypeOK
<1> QED
  BY <1>10, <1>14, <1>16, <1>17, <1>18 DEF ContactInvariant

LEMMA ExecuteBatchSafe ==
  ASSUME ContactInvariant, NEW batch \in Seq(CallIds), ExecuteBatch(batch),
         contact' \in Seq([call : CallIds, at : Nat])
  PROVE  ContactInvariant'
<1> USE DEF ContactInvariant
<1>1. /\ calls' = batch /\ batch # <<>> /\ state_id' = ReplayedState(log)
      /\ gpc' = "policy" /\ batches' = batches + 1
      /\ UNCHANGED <<log, effects>>
  BY DEF ExecuteBatch
<1>3. ReplayedState(log) \in Nat
  <2>1. log \in Seq(Entry) /\ Len(log) \in 0..Len(log)
    BY DEF ContactTypeOK
  <2> QED
    BY <2>1, ReplayedIsNat DEF ReplayedState
<1>4. ContactTypeOK'
  BY <1>1, <1>3 DEF ContactTypeOK
<1>5. Authorised' /\ Executed' /\ Threaded'
  BY <1>1 DEF Authorised, Executed, Threaded
<1>6. EffectsPast' /\ EffectAuthorised' /\ RevisionGrounded' /\ RevisionsContinue'
  BY <1>1 DEF EffectsPast, EffectAuthorised, RevisionGrounded, RevisionsContinue
<1> QED
  BY <1>4, <1>5, <1>6

\* A contact waits for a gateway that is idle; all it adds is its outcome.
LEMMA RecordContactSafe ==
  ASSUME ContactInvariant, RecordContact
  PROVE  ContactInvariant'
<1>0. PICK result \in ContactResults : Report(log[result].status = "succeeded")
  BY DEF RecordContact
<1> DEFINE id == Head(contact).call
           succeeded == log[result].status = "succeeded"
           outcome == ContactEntry(id, succeeded, EvaluateToolCallPolicy(RiskOf[id]))
           s == <<outcome>>
<1>1. ContactTypeOK
  BY DEF ContactInvariant
<1>2. /\ gpc = "idle" /\ contact # <<>> /\ contact' = <<>>
      /\ log' = Append(log, outcome)
      /\ UNCHANGED <<gpc, calls, state_id, effects, batches>>
  BY <1>0 DEF RecordContact, Report, NoContact
<1>3. id \in CallIds
  <2>1. contact \in Seq([call : CallIds, at : Nat])
    BY <1>1 DEF ContactTypeOK
  <2>2. Head(contact) \in [call : CallIds, at : Nat]
    BY <1>2, <2>1, HeadTailProperties
  <2> QED
    BY <2>2
<1>4. EvaluateToolCallPolicy(RiskOf[id]) \in {"allow", "deny", "requires_approval"}
  BY <1>3, VerdictTypes
<1>5. outcome \in Entry /\ ~IsRevision(outcome)
  <2>1. succeeded \in BOOLEAN
    OBVIOUS
  <2> HIDE DEF id, succeeded
  <2> QED
    BY <1>3, <1>4, <2>1, EntryTypes
<1> HIDE DEF outcome
<1>6. s \in Seq(Entry) /\ \A n \in 1..Len(s) : ~IsRevision(s[n])
  BY <1>5, QuietOne
<1>7. log' = log \o s
  BY <1>1, <1>2, <1>5, AppendIsConcat DEF ContactTypeOK
<1> HIDE DEF s
<1>8. /\ calls' \in Seq(CallIds) /\ batches' \in Nat
      /\ contact' \in Seq([call : CallIds, at : Nat])
      /\ gpc' = "idle"
  BY <1>1, <1>2 DEF ContactTypeOK
<1>9. Authorised' /\ Executed'
  BY <1>8 DEF Authorised, Executed
<1> QED
  BY <1>2, <1>6, <1>7, <1>8, <1>9, QuietStep

\* Contacts that put nothing on record, and steps that change nothing here.
LEMMA OffTheRecord ==
  ASSUME ContactInvariant,
         UNCHANGED <<log, gpc, calls, state_id, effects>>,
         batches' \in Nat, contact' \in Seq([call : CallIds, at : Nat])
  PROVE  ContactInvariant'
<1>1. /\ calls' \in Seq(CallIds)
      /\ gpc' \in {"idle", "policy", "handler", "running", "promote"}
      /\ (gpc' # "idle" => gpc # "idle" /\ calls' # <<>>)
  BY DEF ContactInvariant, ContactTypeOK
<1>2. Authorised' /\ Executed'
  BY DEF ContactInvariant, Authorised, Executed, verdict, call
<1> QED
  BY <1>1, <1>2, SilentStep

--------------------------------------------------------------------------------
(* Every step, and what follows for every behaviour.                       *)

\* The ways a step goes.
LEMMA ContactCases ==
  ASSUME [ContactNext]_contactVars, ContactTypeOK
  PROVE  \/ /\ GatewayStep \/ ProviderStep \/ HandlerStep
            /\ UNCHANGED contact
         \/ \E batch \in Seq(CallIds) :
              ExecuteBatch(batch) /\ contact' \in Seq([call : CallIds, at : Nat])
         \/ RecordContact
         \/ /\ UNCHANGED <<log, gpc, calls, state_id, effects>>
            /\ batches' \in Nat
            /\ contact' \in Seq([call : CallIds, at : Nat])
<1>1. batches \in Nat /\ contact \in Seq([call : CallIds, at : Nat])
      /\ log \in Seq(Entry)
  BY DEF ContactTypeOK
<1>2. ASSUME NEW batch \in Batch, ExecuteBatch(batch),
             UNCHANGED <<contact, contacts>>
      PROVE  /\ batch \in Seq(CallIds) /\ ExecuteBatch(batch)
             /\ contact' \in Seq([call : CallIds, at : Nat])
  <2>1. PICK n \in 1..MaxBatch : batch \in [1..n -> CallIds]
    BY DEF Batch
  <2>2. n \in Nat
    BY GatewayAssumption
  <2>3. batch \in Seq(CallIds)
    BY <2>1, <2>2, SeqDef
  <2>4. contact' \in Seq([call : CallIds, at : Nat])
    BY <1>1, <1>2
  <2> QED
    BY <1>2, <2>3, <2>4
<1>3. CASE /\ GatewayStep \/ ProviderStep \/ HandlerStep
           /\ UNCHANGED <<contact, contacts>>
  BY <1>3
<1>4. ASSUME NEW id \in CallIds, ContactViaGateway(id)
      PROVE  \E batch \in Seq(CallIds) :
               ExecuteBatch(batch) /\ contact' \in Seq([call : CallIds, at : Nat])
  <2>1. /\ ExecuteBatch(<<id>>) /\ contact' = <<[call |-> id, at |-> Len(log)]>>
    BY <1>4 DEF ContactViaGateway
  <2>2. Len(log) \in Nat
    BY <1>1
  <2>3. contact' \in Seq([call : CallIds, at : Nat])
    BY <2>1, <2>2
  <2>4. <<id>> \in Seq(CallIds)
    OBVIOUS
  <2> QED
    BY <2>1, <2>3, <2>4
<1>5. ASSUME ContactWithoutTool
      PROVE  /\ UNCHANGED <<log, gpc, calls, state_id, effects>>
             /\ batches' \in Nat
             /\ contact' \in Seq([call : CallIds, at : Nat])
  <2>1. /\ batches' = batches + 1
        /\ UNCHANGED <<log, gpc, calls, state_id, effects>>
        /\ contact' = contact
    BY <1>5 DEF ContactWithoutTool
  <2>2. batches' \in Nat /\ contact' \in Seq([call : CallIds, at : Nat])
    BY <1>1, <2>1
  <2> QED
    BY <2>1, <2>2
<1>6. ASSUME ContactRaises
      PROVE  /\ UNCHANGED <<log, gpc, calls, state_id, effects>>
             /\ batches' \in Nat
             /\ contact' \in Seq([call : CallIds, at : Nat])
  BY <1>1, <1>6 DEF ContactRaises, gatewayVars, NoContact
<1>7. ASSUME NEW kind, NEW registered, NEW returns,
             DirectContact(kind, registered, returns)
      PROVE  /\ UNCHANGED <<log, gpc, calls, state_id, effects>>
             /\ batches' \in Nat
             /\ contact' \in Seq([call : CallIds, at : Nat])
  BY <1>1, <1>7 DEF DirectContact
<1>8. CASE UNCHANGED contactVars
  BY <1>1, <1>8 DEF contactVars, gatewayVars
<1> QED
  BY <1>2, <1>3, <1>4, <1>5, <1>6, <1>7, <1>8 DEF ContactNext

LEMMA ContactStepSafe ==
  ASSUME ContactInvariant, [ContactNext]_contactVars
  PROVE  ContactInvariant'
<1>1. ContactTypeOK
  BY DEF ContactInvariant
<1>2. CASE GatewayStep /\ UNCHANGED contact
  BY <1>2, RecordDeniedSafe, RecordCommitmentSafe, EnterHandlerSafe,
     HandlerMissingSafe, NoPromotionSafe, PromoteObservationSafe
  DEF GatewayStep
<1>3. CASE ProviderStep /\ UNCHANGED contact
  BY <1>3, CheckApprovalApprovedSafe, RecordApprovalDeniedSafe,
     CheckApprovalRaisesSafe
  DEF ProviderStep
<1>4. CASE HandlerStep /\ UNCHANGED contact
  BY <1>4, HandlerRaisesSafe, HandlerReturnsSafe DEF HandlerStep
<1>5. CASE \E batch \in Seq(CallIds) :
             ExecuteBatch(batch) /\ contact' \in Seq([call : CallIds, at : Nat])
  BY <1>5, ExecuteBatchSafe
<1>6. CASE RecordContact
  BY <1>6, RecordContactSafe
<1>7. CASE /\ UNCHANGED <<log, gpc, calls, state_id, effects>>
           /\ batches' \in Nat
           /\ contact' \in Seq([call : CallIds, at : Nat])
  BY <1>7, OffTheRecord
<1> QED
  BY <1>1, <1>2, <1>3, <1>4, <1>5, <1>6, <1>7, ContactCases

\* The inductive invariant, for all calls, verdicts, answers and bounds.
THEOREM ContactInvariantHolds == ContactSpec => []ContactInvariant
<1>1. ContactInit => ContactInvariant
  <2> SUFFICES ASSUME ContactInit PROVE ContactInvariant
    OBVIOUS
  <2>1. /\ log = <<>> /\ gpc = "idle" /\ calls = <<>> /\ state_id = 0
        /\ effects = <<>> /\ batches = 0 /\ contact = <<>>
    BY DEF ContactInit, GatewayInit, NoContact
  <2>2. ContactTypeOK
    BY <2>1 DEF ContactTypeOK
  <2>3. Len(log) = 0 /\ Len(effects) = 0
    BY <2>1
  <2>4. Authorised /\ Executed /\ Threaded
    BY <2>1 DEF Authorised, Executed, Threaded
  <2>5. EffectsPast /\ EffectAuthorised
    BY <2>3 DEF EffectsPast, EffectAuthorised
  <2>6. RevisionGrounded /\ RevisionsContinue
    BY <2>3 DEF RevisionGrounded, RevisionsContinue
  <2> QED
    BY <2>2, <2>4, <2>5, <2>6 DEF ContactInvariant
<1>2. ContactInvariant /\ [ContactNext]_contactVars => ContactInvariant'
  BY ContactStepSafe
<1> QED
  BY <1>1, <1>2, PTL DEF ContactSpec

\* No tool acts on the world before its commitment and, where the policy asks
\* for one, its approval are on record (ToolGateway.execute).
THEOREM EffectsAuthorised == ContactSpec => []EffectAuthorised
<1>1. ContactInvariant => EffectAuthorised
  BY DEF ContactInvariant
<1> QED
  BY <1>1, ContactInvariantHolds, PTL

\* Each promotion rests on an execution of its own that succeeded, however
\* often the same call is submitted (ToolGateway.execute, from result to
\* promotion).
THEOREM RevisionsGrounded == ContactSpec => []RevisionGrounded
<1>1. ContactInvariant => RevisionGrounded
  BY DEF ContactInvariant
<1> QED
  BY <1>1, ContactInvariantHolds, PTL

--------------------------------------------------------------------------------
(* The gateway implements AuditedEvolution.                                *)

\* What is appended together.
LEMMA TwoEntries ==
  ASSUME NEW a \in Entry, NEW b \in Entry
  PROVE  <<a, b>> \in Seq(Entry)
  OBVIOUS

LEMMA ThreeEntries ==
  ASSUME NEW a \in Entry, NEW b \in Entry, NEW c \in Entry
  PROVE  <<a, b, c>> \in Seq(Entry)
  OBVIOUS

\* Every step appends to the record, if it touches it.
LEMMA RecordAppends ==
  ASSUME ContactTypeOK, [ContactNext]_contactVars
  PROVE  log' = log \/ \E s \in Seq(Entry) : log' = log \o s
<1>1. ASSUME NEW entry \in Entry, log' = Append(log, entry)
      PROVE  \E s \in Seq(Entry) : log' = log \o s
  <2>1. <<entry>> \in Seq(Entry) /\ log' = log \o <<entry>>
    BY <1>1, AppendIsConcat DEF ContactTypeOK
  <2> QED
    BY <2>1
<1>2. ASSUME gpc # "idle"
      PROVE  /\ call \in CallIds
             /\ Commitment(call, TRUE, FALSE) \in Entry
             /\ Commitment(call, FALSE, TRUE) \in Entry
             /\ Commitment(call, TRUE, TRUE) \in Entry
             /\ Approval(call, "approved") \in Entry
             /\ Approval(call, "rejected") \in Entry
             /\ ToolResult(call, "succeeded") \in Entry
             /\ ToolResult(call, "failed") \in Entry
             /\ Observation(call) \in Entry
  <2>1. call \in CallIds
    BY <1>2, CurrentCall
  <2>2. /\ Commitment(call, TRUE, FALSE) \in Entry
        /\ Commitment(call, FALSE, TRUE) \in Entry
        /\ Commitment(call, TRUE, TRUE) \in Entry
    BY <2>1, EntryTypes
  <2>3. /\ Approval(call, "approved") \in Entry
        /\ Approval(call, "rejected") \in Entry
        /\ ToolResult(call, "succeeded") \in Entry
        /\ ToolResult(call, "failed") \in Entry
        /\ Observation(call) \in Entry
    BY <2>1, EntryTypes
  <2> QED
    BY <2>1, <2>2, <2>3
<1>3. CASE GatewayStep /\ UNCHANGED contact
  <2>1. CASE RecordDenied
    BY <1>1, <1>2, <2>1 DEF RecordDenied
  <2>2. CASE RecordCommitment
    BY <1>1, <1>2, <2>2 DEF RecordCommitment
  <2>3. CASE HandlerMissing
    <3> DEFINE t == <<ToolResult(call, "failed"), Commitment(call, FALSE, TRUE)>>
    <3>1. gpc # "idle" /\ log' = log \o t
      BY <2>3 DEF HandlerMissing
    <3>2. t \in Seq(Entry)
      BY <1>2, <3>1, TwoEntries
    <3> QED
      BY <3>1, <3>2
  <2>4. CASE PromoteObservation
    <3> DEFINE result == Cardinality(RevisionsIn(log)) + 1
    <3>1. log' = Append(log, Revision(call, state_id, result))
      BY <2>4 DEF PromoteObservation
    <3>2. call \in CallIds /\ state_id \in Nat
      BY <1>2, <2>4 DEF PromoteObservation, ContactTypeOK
    <3>3. result \in Nat
      BY RevisionsCounted DEF ContactTypeOK
    <3>4. Revision(call, state_id, result) \in Entry
      BY <3>2, <3>3 DEF Revision, Entry, GatewayEntry, RevisionEntry
    <3> QED
      BY <1>1, <3>1, <3>4
  <2>5. CASE EnterHandler \/ NoPromotion
    BY <2>5 DEF EnterHandler, NoPromotion
  <2> QED
    BY <1>3, <2>1, <2>2, <2>3, <2>4, <2>5 DEF GatewayStep
<1>4. CASE ProviderStep /\ UNCHANGED contact
  <2>1. CASE CheckApprovalApproved
    <3> DEFINE t == <<Commitment(call, TRUE, FALSE), Approval(call, "approved")>>
    <3>1. gpc # "idle" /\ log' = log \o t
      BY <2>1 DEF CheckApprovalApproved
    <3>2. t \in Seq(Entry)
      BY <1>2, <3>1, TwoEntries
    <3> QED
      BY <3>1, <3>2
  <2>2. CASE RecordApprovalDenied
    <3> DEFINE t == <<Approval(call, "rejected"), ToolResult(call, "failed")>>
    <3>1. gpc # "idle" /\ log' = log \o t
      BY <2>2 DEF RecordApprovalDenied
    <3>2. t \in Seq(Entry)
      BY <1>2, <3>1, TwoEntries
    <3> QED
      BY <3>1, <3>2
  <2>3. CASE CheckApprovalRaises
    BY <2>3 DEF CheckApprovalRaises
  <2> QED
    BY <1>4, <2>1, <2>2, <2>3 DEF ProviderStep
<1>5. CASE HandlerStep /\ UNCHANGED contact
  <2>1. CASE HandlerRaises
    <3> DEFINE t == <<ToolResult(call, "failed"), Commitment(call, FALSE, TRUE)>>
    <3>1. gpc # "idle" /\ log' = log \o t
      BY <2>1 DEF HandlerRaises
    <3>2. t \in Seq(Entry)
      BY <1>2, <3>1, TwoEntries
    <3> QED
      BY <3>1, <3>2
  <2>2. CASE HandlerReturns
    <3> DEFINE t == <<ToolResult(call, "succeeded"), Observation(call),
                      Commitment(call, TRUE, TRUE)>>
    <3>1. gpc # "idle" /\ log' = log \o t
      BY <2>2 DEF HandlerReturns
    <3>2. t \in Seq(Entry)
      BY <1>2, <3>1, ThreeEntries
    <3> QED
      BY <3>1, <3>2
  <2> QED
    BY <1>5, <2>1, <2>2 DEF HandlerStep
<1>6. CASE \E batch \in Seq(CallIds) :
             ExecuteBatch(batch) /\ contact' \in Seq([call : CallIds, at : Nat])
  BY <1>6 DEF ExecuteBatch
<1>7. CASE RecordContact
  <2>0. PICK result \in ContactResults : Report(log[result].status = "succeeded")
    BY <1>7 DEF RecordContact
  <2> DEFINE id == Head(contact).call
             succeeded == log[result].status = "succeeded"
             entry == ContactEntry(id, succeeded,
                                   EvaluateToolCallPolicy(RiskOf[id]))
  <2>1. log' = Append(log, entry)
    BY <2>0 DEF Report
  <2>2. id \in CallIds
    <3>1. contact \in Seq([call : CallIds, at : Nat]) /\ contact # <<>>
      BY <1>7 DEF RecordContact, NoContact, ContactTypeOK
    <3>2. Head(contact) \in [call : CallIds, at : Nat]
      BY <3>1, HeadTailProperties
    <3> QED
      BY <3>2
  <2>3. succeeded \in BOOLEAN
    OBVIOUS
  <2>4. entry \in Entry
    BY <2>2, <2>3, VerdictTypes DEF ContactEntry, Entry
  <2> QED
    BY <1>1, <2>1, <2>4
<1> QED
  BY <1>3, <1>4, <1>5, <1>6, <1>7, ContactCases

LEMMA RecordGrows ==
  ASSUME ContactTypeOK, [ContactNext]_contactVars
  PROVE  Len(log') \in Nat /\ Extends(log', log)
<1>1. Len(log) \in Nat
  BY DEF ContactTypeOK
<1>2. CASE log' = log
  BY <1>1, <1>2 DEF Extends
<1>3. ASSUME NEW s \in Seq(Entry), log' = log \o s
      PROVE  Len(log') \in Nat /\ Extends(log', log)
  BY <1>3, Appended DEF Extends
<1> QED
  BY <1>2, <1>3, RecordAppends

\* Whether calls come in batches or one by one from contacts, the world state
\* only changes by a promotion on record that follows the successful
\* commitment of its call and continues the replayed state (ToolGateway).
THEOREM GatewayImplementsEvolution == ContactSpec => ImplementsEvolution
<1>1. ContactInit => Evolution!Init
  BY DEF ContactInit, GatewayInit, Evolution!Init
<1>2. /\ ContactInvariant /\ ContactInvariant' /\ [ContactNext]_contactVars
      => Evolution!Next
  <2> SUFFICES ASSUME ContactInvariant, ContactInvariant',
                      [ContactNext]_contactVars
               PROVE  Evolution!Next
    OBVIOUS
  <2>1. /\ ContactTypeOK /\ Len(log) \in Nat
        /\ RevisionGrounded' /\ RevisionsContinue'
    BY DEF ContactInvariant, ContactTypeOK
  <2>2. Len(log') \in Nat /\ Extends(log', log)
    BY <2>1, RecordGrows
  <2>3. ASSUME NEW n \in 1..Len(log'), IsRevision(log'[n])
        PROVE  /\ CommittedBefore(log', n, log'[n].cause)
               /\ log'[n].prior = ReplayedAt(log', n - 1)
    <3>1. PICK m \in 1..(n - 1) : log'[m] = Commitment(log'[n].cause, TRUE, TRUE)
      BY <2>1, <2>3 DEF RevisionGrounded
    <3>2. CommittedBefore(log', n, log'[n].cause)
      BY <3>1 DEF CommittedBefore, Commitment
    <3> QED
      BY <2>1, <2>3, <3>2 DEF RevisionsContinue
  <2>4. \A n \in (Len(log) + 1)..Len(log') : n \in 1..Len(log')
    BY <2>1
  <2>5. \A n \in (Len(log) + 1)..Len(log') : Evolution!Justified(log', n)
    BY <2>3, <2>4
    DEF Evolution!Justified, Evolution!IsRevision, IsRevision,
        Evolution!CommittedBefore, CommittedBefore, Evolution!ReplayedAt,
        ReplayedAt, Evolution!RevisionsUpTo, RevisionsUpTo
  <2> QED
    BY <2>2, <2>5 DEF Evolution!Next, Evolution!Extends, Extends
<1> QED
  BY <1>1, <1>2, ContactInvariantHolds, PTL
  DEF ContactSpec, ImplementsEvolution, Evolution!Spec

--------------------------------------------------------------------------------
(***************************************************************************)
(* What contacts tell their callers (ContactsHonest).  While the gateway   *)
(* serves a contact it runs that call and no other, and leaves at most one *)
(* result of it on record, at the end of its run; contacts are recorded and*)
(* returned in one step, so that the n-th on record is the n-th returned.  *)
(***************************************************************************)

CompletedContact ==
  [way : ContactKind \cup {"gateway", "no tool"},
   by : {NoCall} \cup {<<id>> : id \in CallIds}, success : BOOLEAN]

\* What is known of the contact under way.
UnderWay ==
  contact # NoContact =>
    /\ Head(contact).at <= Len(log)
    /\ gpc # "idle" => call = Head(contact).call /\ Len(calls) = 1
    /\ \A n \in (Head(contact).at + 1)..Len(log) : log[n].type # "contact"
    /\ \A m, n \in ContactResults : m = n
    /\ \A n \in ContactResults :
         log[n] = ToolResult(Head(contact).call, log[n].status)
    /\ gpc \in {"policy", "handler", "running"} => ContactResults = {}

ContactRecord ==
  /\ contacts \in Seq(CompletedContact)
  /\ UnderWay
  /\ ContactsHonest

\* A contact on record agrees with the result recorded last before it.
HonestAt(entries, n) ==
  \E m \in 1..(n - 1) :
    /\ entries[m] = ToolResult(entries[n].call,
                      IF entries[n].succeeded THEN "succeeded" ELSE "failed")
    /\ \A k \in (m + 1)..(n - 1) :
         entries[k].type \notin {"tool_result", "contact"}

--------------------------------------------------------------------------------
(* Counting positions.                                                     *)

LEMMA BeforeType ==
  ASSUME NEW S, IsFiniteSet(S), NEW n
  PROVE  IsFiniteSet({m \in S : m < n}) /\ Before(S, n) \in Nat
<1> DEFINE T == {m \in S : m < n}
<1>1. T \in SUBSET S
  OBVIOUS
<1> HIDE DEF T
<1>2. IsFiniteSet(T)
  BY <1>1, FS_Subset
<1>3. Cardinality(T) \in Nat
  BY <1>2, FS_CardinalityType
<1> QED
  BY <1>2, <1>3 DEF Before, T

\* A position after all others has all of them before it, an earlier one fewer.
LEMMA BeforeLast ==
  ASSUME NEW S \in SUBSET Nat, IsFiniteSet(S), NEW last \in Nat,
         \A n \in S : n < last
  PROVE  /\ Before(S \cup {last}, last) = Cardinality(S)
         /\ Cardinality(S \cup {last}) = Cardinality(S) + 1
         /\ Cardinality(S) \in Nat
         /\ \A n \in S : /\ Before(S \cup {last}, n) = Before(S, n)
                         /\ Before(S, n) \in Nat
                         /\ Before(S, n) < Cardinality(S)
<1>0. last \notin S /\ ~ (last < last)
  OBVIOUS
<1>1. Before(S \cup {last}, last) = Cardinality(S)
  <2> DEFINE T == {m \in S \cup {last} : m < last}
  <2>1. \A m \in T : m \in S
    BY <1>0
  <2>2. \A m \in S : m \in T
    OBVIOUS
  <2>3. T = S
    BY <2>1, <2>2, Zenon
  <2> QED
    BY <2>3 DEF Before
<1>2. Cardinality(S \cup {last}) = Cardinality(S) + 1 /\ Cardinality(S) \in Nat
  BY <1>0, FS_AddElement, FS_CardinalityType
<1>3. ASSUME NEW n \in S
      PROVE  /\ Before(S \cup {last}, n) = Before(S, n)
             /\ Before(S, n) \in Nat
             /\ Before(S, n) < Cardinality(S)
  <2> DEFINE T == {m \in S : m < n}
  <2>1. {m \in S \cup {last} : m < n} = T
    OBVIOUS
  <2>2. T \in SUBSET S /\ n \notin T
    OBVIOUS
  <2>3. Before(S, n) = Cardinality(T) /\ Before(S \cup {last}, n) = Cardinality(T)
    BY <2>1 DEF Before
  <2>4. IsFiniteSet(T) /\ Cardinality(T) \in Nat
    BY BeforeType DEF Before
  <2> HIDE DEF T
  <2>5. T # S
    BY <2>2
  <2>6. Cardinality(T) <= Cardinality(S) /\ Cardinality(T) # Cardinality(S)
    BY <2>2, <2>5, FS_Subset
  <2> QED
    BY <1>2, <2>3, <2>4, <2>6
<1> QED
  BY <1>1, <1>2, <1>3

LEMMA RecordedFinite ==
  ASSUME Len(log) \in Nat, Len(contacts) \in Nat
  PROVE  /\ Recorded \in SUBSET Nat /\ IsFiniteSet(Recorded)
         /\ Returned \in SUBSET Nat /\ IsFiniteSet(Returned)
<1>1. IsFiniteSet(1..Len(log)) /\ IsFiniteSet(1..Len(contacts))
  BY FS_Interval
<1>2. Recorded \in SUBSET (1..Len(log)) /\ Returned \in SUBSET (1..Len(contacts))
  BY DEF Recorded, Returned
<1>3. 1..Len(log) \in SUBSET Nat /\ 1..Len(contacts) \in SUBSET Nat
  OBVIOUS
<1>4. Recorded \in SUBSET Nat /\ Returned \in SUBSET Nat
  BY <1>2, <1>3
<1>5. IsFiniteSet(Recorded)
  BY <1>1, <1>2, FS_Subset
<1>6. IsFiniteSet(Returned)
  BY <1>1, <1>2, FS_Subset
<1> QED
  BY <1>4, <1>5, <1>6

--------------------------------------------------------------------------------
(* Steps that leave the contacts on record and the returned ones alone.    *)

LEMMA HonestStays ==
  ASSUME NEW entries, NEW others, NEW n \in Nat, HonestAt(entries, n),
         \A m \in 1..n : others[m] = entries[m], n # 0
  PROVE  HonestAt(others, n)
<1>1. PICK m \in 1..(n - 1) :
        /\ entries[m] = ToolResult(entries[n].call,
                          IF entries[n].succeeded THEN "succeeded" ELSE "failed")
        /\ \A k \in (m + 1)..(n - 1) :
             entries[k].type \notin {"tool_result", "contact"}
  BY DEF HonestAt
<1>2. others[m] = entries[m] /\ others[n] = entries[n]
  OBVIOUS
<1>3. \A k \in (m + 1)..(n - 1) : others[k] = entries[k]
  OBVIOUS
<1> QED
  BY <1>1, <1>2, <1>3 DEF HonestAt

\* Entries that are no contacts leave those on record as they are.
LEMMA ContactsStay ==
  ASSUME ContactTypeOK, NEW s \in Seq(Entry), log' = log \o s,
         \A n \in 1..Len(s) : s[n].type # "contact"
  PROVE  /\ Recorded' = Recorded
         /\ \A n \in Recorded : log'[n] = log[n]
         /\ \A n \in Recorded : HonestAt(log, n) => HonestAt(log', n)
<1>1. /\ Len(log) \in Nat /\ Len(s) \in Nat /\ Len(log') = Len(log) + Len(s)
      /\ \A n \in 1..Len(log) : log'[n] = log[n]
      /\ \A n \in (Len(log) + 1)..Len(log') : log'[n] = s[n - Len(log)]
  BY Appended
<1>2. \A n \in 1..Len(log') : n \in 1..Len(log) \/ log'[n].type # "contact"
  <2> TAKE n \in 1..Len(log')
  <2>1. CASE n \in (Len(log) + 1)..Len(log')
    <3>1. n - Len(log) \in 1..Len(s)
      BY <1>1, <2>1
    <3> QED
      BY <1>1, <2>1, <3>1
  <2>2. CASE n \notin (Len(log) + 1)..Len(log')
    BY <1>1, <2>2
  <2> QED
    BY <2>1, <2>2
<1>3. \A n \in 1..Len(log) : n \in 1..Len(log')
  BY <1>1
<1>4. Recorded' = Recorded
  BY <1>1, <1>2, <1>3 DEF Recorded
<1>5. ASSUME NEW n \in Recorded, HonestAt(log, n)
      PROVE  HonestAt(log', n)
  <2>1. n \in Nat /\ n # 0 /\ \A m \in 1..n : log'[m] = log[m]
    BY <1>1 DEF Recorded
  <2> QED
    BY <1>5, <2>1, HonestStays
<1> QED
  BY <1>1, <1>4, <1>5 DEF Recorded

\* So they keep ContactsHonest, if no contact by way of the gateway returns.
LEMMA HonestKept ==
  ASSUME ContactTypeOK, ContactsHonest, NEW s \in Seq(Entry), log' = log \o s,
         \A n \in 1..Len(s) : s[n].type # "contact",
         Returned' = Returned, \A k \in Returned : contacts'[k] = contacts[k]
  PROVE  ContactsHonest'
<1>1. /\ Recorded' = Recorded
      /\ \A n \in Recorded : log'[n] = log[n]
      /\ \A n \in Recorded : HonestAt(log, n) => HonestAt(log', n)
  BY ContactsStay
<1>2. /\ Cardinality(Recorded)' = Cardinality(Recorded)
      /\ Cardinality(Returned)' = Cardinality(Returned)
      /\ \A n : Before(Recorded, n)' = Before(Recorded, n)
                /\ Before(Returned, n)' = Before(Returned, n)
  BY <1>1 DEF Before
<1>3. \A n \in Recorded : HonestAt(log', n)
  BY <1>1 DEF ContactsHonest, HonestAt
<1>4. \A n \in Recorded, k \in Returned :
        Before(Recorded, n) = Before(Returned, k) =>
          contacts'[k] = Completed("gateway", <<log'[n].call>>, log'[n].succeeded)
  BY <1>1 DEF ContactsHonest
<1> QED
  BY <1>1, <1>2, <1>3, <1>4 DEF ContactsHonest, HonestAt

--------------------------------------------------------------------------------
(* What a step of the gateway writes: one result of its call, or none.     *)

WritesNoResult(s) ==
  \A n \in 1..Len(s) : s[n].type \notin {"tool_result", "contact"}

WritesResult(s, id) ==
  /\ \A n \in 1..Len(s) :
       /\ s[n].type # "contact"
       /\ s[n].type = "tool_result" => s[n] = ToolResult(id, s[n].status)
  /\ \A m, n \in 1..Len(s) :
       s[m].type = "tool_result" /\ s[n].type = "tool_result" => m = n

LEMMA OneEntryWritten ==
  ASSUME NEW a \in Entry, a.type \notin {"tool_result", "contact"}
  PROVE  <<a>> \in Seq(Entry) /\ WritesNoResult(<<a>>)
  BY DEF WritesNoResult

LEMMA TwoEntriesWritten ==
  ASSUME NEW a \in Entry, a.type \notin {"tool_result", "contact"},
         NEW b \in Entry, b.type \notin {"tool_result", "contact"}
  PROVE  <<a, b>> \in Seq(Entry) /\ WritesNoResult(<<a, b>>)
  BY DEF WritesNoResult

LEMMA ResultAlone ==
  ASSUME NEW id, NEW a \in Entry, a = ToolResult(id, a.status)
  PROVE  <<a>> \in Seq(Entry) /\ WritesResult(<<a>>, id)
<1>1. a.type # "contact"
  BY DEF ToolResult
<1> QED
  BY <1>1 DEF WritesResult

LEMMA ResultFirst ==
  ASSUME NEW id, NEW a \in Entry, a = ToolResult(id, a.status),
         NEW b \in Entry, b.type \notin {"tool_result", "contact"}
  PROVE  <<a, b>> \in Seq(Entry) /\ WritesResult(<<a, b>>, id)
<1>1. a.type # "contact"
  BY DEF ToolResult
<1> QED
  BY <1>1 DEF WritesResult

LEMMA ResultLast ==
  ASSUME NEW id, NEW a \in Entry, a = ToolResult(id, a.status),
         NEW b \in Entry, b.type \notin {"tool_result", "contact"}
  PROVE  <<b, a>> \in Seq(Entry) /\ WritesResult(<<b, a>>, id)
<1>1. a.type # "contact"
  BY DEF ToolResult
<1> QED
  BY <1>1 DEF WritesResult

LEMMA ResultOfThree ==
  ASSUME NEW id, NEW a \in Entry, a = ToolResult(id, a.status),
         NEW b \in Entry, b.type \notin {"tool_result", "contact"},
         NEW c \in Entry, c.type \notin {"tool_result", "contact"}
  PROVE  <<a, b, c>> \in Seq(Entry) /\ WritesResult(<<a, b, c>>, id)
<1>1. a.type # "contact"
  BY DEF ToolResult
<1> QED
  BY <1>1 DEF WritesResult

\* The call goes on without a result, having none before its promotion.
GoesOn ==
  \E s \in Seq(Entry) :
    /\ log' = log \o s /\ WritesNoResult(s)
    /\ gpc' # "idle" => Len(calls) > 1 \/ calls' = calls
    /\ gpc' \in {"policy", "handler", "running"} =>
         Len(calls) > 1 \/ gpc # "promote"

\* The result of the call is written, after which there are only its promotion
\* and the next call of the batch.
Concludes ==
  \E s \in Seq(Entry) :
    /\ log' = log \o s /\ WritesResult(s, call)
    /\ gpc # "promote"
    /\ gpc' # "idle" => Len(calls) > 1 \/ calls' = calls
    /\ gpc' \in {"policy", "handler", "running"} => Len(calls) > 1

LEMMA StepWrites ==
  ASSUME ContactTypeOK, GatewayStep \/ ProviderStep \/ HandlerStep
  PROVE  gpc # "idle" /\ (GoesOn \/ Concludes)
<1>1. gpc # "idle" /\ log \in Seq(Entry)
  BY DEF GatewayStep, ProviderStep, HandlerStep, RecordDenied, RecordCommitment,
     EnterHandler, HandlerMissing, NoPromotion, PromoteObservation,
     CheckApprovalApproved, RecordApprovalDenied, CheckApprovalRaises,
     HandlerRaises, HandlerReturns, ContactTypeOK
<1>2. call \in CallIds
  BY <1>1, CurrentCall
<1>3. /\ Commitment(call, TRUE, FALSE) \in Entry
      /\ Commitment(call, TRUE, FALSE).type = "commitment"
      /\ Commitment(call, FALSE, TRUE) \in Entry
      /\ Commitment(call, FALSE, TRUE).type = "commitment"
      /\ Commitment(call, TRUE, TRUE) \in Entry
      /\ Commitment(call, TRUE, TRUE).type = "commitment"
  BY <1>2, EntryTypes DEF Commitment
<1>4. /\ Approval(call, "approved") \in Entry
      /\ Approval(call, "approved").type = "approval"
      /\ Approval(call, "rejected") \in Entry
      /\ Approval(call, "rejected").type = "approval"
      /\ Observation(call) \in Entry /\ Observation(call).type = "observation"
  BY <1>2, EntryTypes DEF Approval, Observation
<1>5. /\ ToolResult(call, "failed") \in Entry
      /\ ToolResult(call, "succeeded") \in Entry
      /\ ToolResult(call, "failed")
           = ToolResult(call, ToolResult(call, "failed").status)
      /\ ToolResult(call, "succeeded")
           = ToolResult(call, ToolResult(call, "succeeded").status)
  BY <1>2, EntryTypes DEF ToolResult
<1>6. NextCall => gpc' \in {"idle", "policy"} /\ (gpc' # "idle" => Len(calls) > 1)
  BY DEF NextCall
<1>7. ASSUME UNCHANGED log
      PROVE  \E s \in Seq(Entry) : log' = log \o s /\ WritesNoResult(s)
  <2>1. <<>> \in Seq(Entry) /\ Len(<<>>) = 0
    OBVIOUS
  <2>2. log' = log \o <<>>
    BY <1>1, <1>7, ConcatEmptySeq
  <2>3. WritesNoResult(<<>>)
    BY <2>1 DEF WritesNoResult
  <2> QED
    BY <2>1, <2>2, <2>3
<1>8. CASE RecordDenied
  <2>1. log' = log \o <<ToolResult(call, "failed")>>
    BY <1>1, <1>5, <1>8, AppendIsConcat DEF RecordDenied
  <2>2. /\ <<ToolResult(call, "failed")>> \in Seq(Entry)
        /\ WritesResult(<<ToolResult(call, "failed")>>, call)
    BY <1>5, ResultAlone
  <2>3. gpc = "policy" /\ NextCall
    BY <1>8 DEF RecordDenied
  <2> QED
    BY <1>1, <1>6, <2>1, <2>2, <2>3 DEF Concludes
<1>9. CASE RecordCommitment
  <2>1. log' = log \o <<Commitment(call, TRUE, FALSE)>>
    BY <1>1, <1>3, <1>9, AppendIsConcat DEF RecordCommitment
  <2>2. /\ <<Commitment(call, TRUE, FALSE)>> \in Seq(Entry)
        /\ WritesNoResult(<<Commitment(call, TRUE, FALSE)>>)
    BY <1>3, OneEntryWritten
  <2>3. gpc = "policy" /\ calls' = calls
    BY <1>9 DEF RecordCommitment
  <2> QED
    BY <1>1, <2>1, <2>2, <2>3 DEF GoesOn
<1>10. CASE CheckApprovalApproved
  <2> DEFINE s == <<Commitment(call, TRUE, FALSE), Approval(call, "approved")>>
  <2>1. log' = log \o s /\ gpc = "policy" /\ calls' = calls
    BY <1>10 DEF CheckApprovalApproved
  <2>2. s \in Seq(Entry) /\ WritesNoResult(s)
    BY <1>3, <1>4, TwoEntriesWritten
  <2> HIDE DEF s
  <2> QED
    BY <1>1, <2>1, <2>2 DEF GoesOn
<1>11. CASE RecordApprovalDenied
  <2> DEFINE s == <<Approval(call, "rejected"), ToolResult(call, "failed")>>
  <2>1. log' = log \o s /\ gpc = "policy" /\ NextCall
    BY <1>11 DEF RecordApprovalDenied
  <2>2. s \in Seq(Entry) /\ WritesResult(s, call)
    BY <1>4, <1>5, ResultLast
  <2> HIDE DEF s
  <2> QED
    BY <1>1, <1>6, <2>1, <2>2 DEF Concludes
<1>12. CASE HandlerMissing \/ HandlerRaises
  <2> DEFINE s == <<ToolResult(call, "failed"), Commitment(call, FALSE, TRUE)>>
  <2>1. log' = log \o s /\ gpc \in {"handler", "running"} /\ NextCall
    BY <1>12 DEF HandlerMissing, HandlerRaises
  <2>2. s \in Seq(Entry) /\ WritesResult(s, call)
    BY <1>3, <1>5, ResultFirst
  <2> HIDE DEF s
  <2> QED
    BY <1>1, <1>6, <2>1, <2>2 DEF Concludes
<1>13. CASE HandlerReturns
  <2> DEFINE s == <<ToolResult(call, "succeeded"), Observation(call),
                    Commitment(call, TRUE, TRUE)>>
  <2>1. log' = log \o s /\ gpc = "running" /\ gpc' = "promote" /\ calls' = calls
    BY <1>13 DEF HandlerReturns
  <2>2. s \in Seq(Entry) /\ WritesResult(s, call)
    BY <1>3, <1>4, <1>5, ResultOfThree
  <2> HIDE DEF s
  <2> QED
    BY <1>1, <2>1, <2>2 DEF Concludes
<1>14. CASE PromoteObservation
  <2> DEFINE result == Cardinality(RevisionsIn(log)) + 1
             revision == Revision(call, state_id, result)
  <2>1. log' = Append(log, revision) /\ NextCall
    BY <1>14 DEF PromoteObservation
  <2>2. result \in Nat /\ state_id \in Nat
    BY RevisionsCounted DEF ContactTypeOK
  <2> HIDE DEF result
  <2>3. revision \in Entry /\ revision.type = "revision"
    BY <1>2, <2>2 DEF Revision, Entry, GatewayEntry, RevisionEntry
  <2> HIDE DEF revision
  <2>4. log' = log \o <<revision>>
    BY <1>1, <2>1, <2>3, AppendIsConcat
  <2>5. <<revision>> \in Seq(Entry) /\ WritesNoResult(<<revision>>)
    BY <2>3, OneEntryWritten
  <2> QED
    BY <1>1, <1>6, <2>1, <2>4, <2>5 DEF GoesOn
<1>15. CASE EnterHandler
  BY <1>1, <1>7, <1>15 DEF EnterHandler, GoesOn
<1>16. CASE NoPromotion
  BY <1>1, <1>6, <1>7, <1>16 DEF NoPromotion, GoesOn
<1>17. CASE CheckApprovalRaises
  BY <1>1, <1>7, <1>17 DEF CheckApprovalRaises, GoesOn
<1> QED
  BY <1>8, <1>9, <1>10, <1>11, <1>12, <1>13, <1>14, <1>15, <1>16, <1>17
  DEF GatewayStep, ProviderStep, HandlerStep

\* The step leaves the contacts as they are and the one under way in order.
LEMMA ServesContact ==
  ASSUME ContactTypeOK, UnderWay, gpc # "idle", GoesOn \/ Concludes,
         UNCHANGED contact
  PROVE  UnderWay'
<1>1. PICK s \in Seq(Entry) :
        /\ log' = log \o s
        /\ \/ WritesNoResult(s)
           \/ WritesResult(s, call) /\ gpc # "promote"
        /\ gpc' # "idle" => Len(calls) > 1 \/ calls' = calls
        /\ gpc' \in {"policy", "handler", "running"} =>
             Len(calls) > 1 \/ (gpc # "promote" /\ WritesNoResult(s))
  BY DEF GoesOn, Concludes
<1>2. /\ Len(log) \in Nat /\ Len(s) \in Nat /\ Len(log') = Len(log) + Len(s)
      /\ \A n \in 1..Len(log) : log'[n] = log[n]
      /\ \A n \in (Len(log) + 1)..Len(log') : log'[n] = s[n - Len(log)]
  BY <1>1, Appended
<1> SUFFICES ASSUME contact # NoContact
             PROVE  UnderWay'
  BY DEF UnderWay
<1>3. PICK c \in [call : CallIds, at : Nat] : c = Head(contact)
  <2>1. contact \in Seq([call : CallIds, at : Nat]) /\ contact # <<>>
    BY DEF NoContact, ContactTypeOK
  <2> QED
    BY <2>1, HeadTailProperties
<1>4. /\ Head(contact') = c /\ c.at \in Nat /\ c.at <= Len(log)
      /\ call = c.call /\ Len(calls) = 1
      /\ \A n \in (c.at + 1)..Len(log) : log[n].type # "contact"
      /\ \A m, n \in ContactResults : m = n
      /\ \A n \in ContactResults : log[n] = ToolResult(c.call, log[n].status)
      /\ gpc \in {"policy", "handler", "running"} => ContactResults = {}
  BY <1>3 DEF UnderWay
<1>5. \A n \in (c.at + 1)..Len(log') :
        \/ n \in (c.at + 1)..Len(log) /\ n \in 1..Len(log) /\ log'[n] = log[n]
        \/ n - Len(log) \in 1..Len(s) /\ log'[n] = s[n - Len(log)]
  <2> TAKE n \in (c.at + 1)..Len(log')
  <2>1. n \in Nat /\ n >= 1 /\ n <= Len(log) + Len(s) /\ n >= c.at + 1
    BY <1>2, <1>4
  <2>2. CASE n <= Len(log)
    BY <1>2, <1>4, <2>1, <2>2
  <2>3. CASE n > Len(log)
    <3>1. n \in (Len(log) + 1)..Len(log') /\ n - Len(log) \in 1..Len(s)
      BY <1>2, <2>1, <2>3
    <3> QED
      BY <1>2, <3>1
  <2> QED
    BY <1>2, <2>1, <2>2, <2>3
<1>6. \A n \in (c.at + 1)..Len(log') : log'[n].type # "contact"
  BY <1>1, <1>4, <1>5 DEF WritesNoResult, WritesResult
<1>7. \A n \in ContactResults' :
        \/ n \in ContactResults /\ log'[n] = log[n]
        \/ /\ n - Len(log) \in 1..Len(s) /\ log'[n] = s[n - Len(log)]
           /\ s[n - Len(log)].type = "tool_result"
  BY <1>3, <1>4, <1>5 DEF ContactResults
<1>8. \A n \in ContactResults' : n \in Int
  BY <1>4, <1>2 DEF ContactResults
<1>9. \A m, n \in ContactResults' : m = n
  <2>1. CASE WritesNoResult(s)
    BY <1>4, <1>7, <2>1 DEF WritesNoResult
  <2>2. CASE WritesResult(s, call) /\ gpc # "promote"
    <3>1. ContactResults = {}
      BY <1>4, <2>2 DEF ContactTypeOK
    <3>2. ASSUME NEW m \in ContactResults', NEW n \in ContactResults' PROVE m = n
      <4>1. m - Len(log) = n - Len(log)
        BY <1>7, <2>2, <3>1, <3>2 DEF WritesResult
      <4> QED
        BY <1>2, <1>8, <4>1
    <3> QED
      BY <3>2
  <2> QED
    BY <1>1, <2>1, <2>2
<1>10. ASSUME NEW n \in ContactResults'
       PROVE  log'[n] = ToolResult(c.call, log'[n].status)
  <2>1. CASE n \in ContactResults /\ log'[n] = log[n]
    BY <1>4, <2>1
  <2>2. ASSUME n - Len(log) \in 1..Len(s), log'[n] = s[n - Len(log)],
               s[n - Len(log)].type = "tool_result"
        PROVE  s[n - Len(log)] = ToolResult(call, s[n - Len(log)].status)
    BY <1>1, <2>2 DEF WritesNoResult, WritesResult
  <2> QED
    BY <1>4, <1>7, <2>1, <2>2
<1>11. gpc' # "idle" => call' = c.call /\ Len(calls') = 1
  <2> SUFFICES ASSUME gpc' # "idle" PROVE call' = c.call /\ Len(calls') = 1
    OBVIOUS
  <2>1. calls' = calls
    BY <1>1, <1>4
  <2> QED
    BY <1>4, <2>1 DEF call
<1>12. ASSUME gpc' \in {"policy", "handler", "running"}
       PROVE  ContactResults' = {}
  <2>1. gpc # "promote" /\ WritesNoResult(s)
    BY <1>1, <1>4, <1>12
  <2>2. ContactResults = {}
    BY <1>4, <2>1 DEF ContactTypeOK
  <2> QED
    BY <1>7, <2>1, <2>2 DEF WritesNoResult
<1>13. c.at <= Len(log')
  BY <1>2, <1>4
<1> QED
  BY <1>4, <1>6, <1>9, <1>10, <1>11, <1>12, <1>13 DEF UnderWay

--------------------------------------------------------------------------------
(* Every step keeps the contacts honest.                                   *)

LEMMA NothingRecorded ==
  ASSUME ContactTypeOK, ContactsHonest, log' = log,
         Returned' = Returned, \A k \in Returned : contacts'[k] = contacts[k]
  PROVE  ContactsHonest'
<1>1. <<>> \in Seq(Entry) /\ \A n \in 1..Len(<<>>) : <<>>[n].type # "contact"
  OBVIOUS
<1>2. log' = log \o <<>>
  BY ConcatEmptySeq DEF ContactTypeOK
<1> QED
  BY <1>1, <1>2, HonestKept

LEMMA ServeSafe ==
  ASSUME ContactTypeOK, ContactRecord, UNCHANGED <<contact, contacts>>,
         GatewayStep \/ ProviderStep \/ HandlerStep
  PROVE  ContactRecord'
<1>1. gpc # "idle" /\ (GoesOn \/ Concludes)
  BY StepWrites
<1>2. UnderWay'
  BY <1>1, ServesContact DEF ContactRecord
<1>3. PICK s \in Seq(Entry) : /\ log' = log \o s
                              /\ WritesNoResult(s) \/ WritesResult(s, call)
  BY <1>1 DEF GoesOn, Concludes
<1>4. \A n \in 1..Len(s) : s[n].type # "contact"
  BY <1>3 DEF WritesNoResult, WritesResult
<1>5. Returned' = Returned /\ \A k \in Returned : contacts'[k] = contacts[k]
  BY DEF Returned
<1>6. ContactsHonest'
  BY <1>3, <1>4, <1>5, HonestKept DEF ContactRecord
<1> QED
  BY <1>2, <1>6 DEF ContactRecord

LEMMA ExecuteBatchHonest ==
  ASSUME ContactTypeOK, ContactRecord, NEW batch, ExecuteBatch(batch),
         contact = NoContact, UNCHANGED <<contact, contacts>>
  PROVE  ContactRecord'
<1>1. log' = log /\ contacts' = contacts /\ contact' = NoContact
  BY DEF ExecuteBatch
<1>2. Returned' = Returned /\ \A k \in Returned : contacts'[k] = contacts[k]
  BY <1>1 DEF Returned
<1>3. ContactsHonest'
  BY <1>1, <1>2, NothingRecorded DEF ContactRecord
<1>4. UnderWay'
  BY <1>1 DEF UnderWay, NoContact
<1> QED
  BY <1>1, <1>3, <1>4 DEF ContactRecord

LEMMA ContactViaGatewayHonest ==
  ASSUME ContactTypeOK, ContactRecord, NEW id \in CallIds, ContactViaGateway(id)
  PROVE  ContactRecord'
<1>1. /\ log' = log /\ contacts' = contacts /\ calls' = <<id>>
      /\ contact' = <<[call |-> id, at |-> Len(log)]>>
  BY DEF ContactViaGateway, ExecuteBatch
<1>2. Returned' = Returned /\ \A k \in Returned : contacts'[k] = contacts[k]
  BY <1>1 DEF Returned
<1>3. ContactsHonest'
  BY <1>1, <1>2, NothingRecorded DEF ContactRecord
<1>4. Len(log) \in Nat
  BY DEF ContactTypeOK
<1>5. /\ Head(contact').call = id /\ Head(contact').at = Len(log)
      /\ call' = id /\ Len(calls') = 1
  BY <1>1 DEF call
<1>6. (Len(log) + 1)..Len(log) = {}
  BY <1>4
<1>7. ContactResults' = {}
  BY <1>1, <1>5, <1>6 DEF ContactResults
<1>8. UnderWay'
  BY <1>1, <1>4, <1>5, <1>6, <1>7 DEF UnderWay
<1> QED
  BY <1>1, <1>3, <1>8 DEF ContactRecord

\* A contact that returns without the gateway.
LEMMA CompletedOffRecord ==
  ASSUME NEW way \in ContactKind \cup {"no tool"}, NEW success \in BOOLEAN
  PROVE  /\ Completed(way, NoCall, success) \in CompletedContact
         /\ Completed(way, NoCall, success).way # "gateway"
<1>1. Completed(way, NoCall, success) \in CompletedContact
  BY DEF Completed, CompletedContact
<1>2. Completed(way, NoCall, success).way # "gateway"
  BY DEF Completed, ContactKind
<1> QED
  BY <1>1, <1>2

\* It leaves the contacts on record alone.
LEMMA UnrecordedHonest ==
  ASSUME ContactTypeOK, ContactRecord, contact = NoContact,
         NEW c \in CompletedContact, c.way # "gateway",
         contacts' = Append(contacts, c), UNCHANGED <<log, contact>>
  PROVE  ContactRecord'
<1>1. contacts \in Seq(CompletedContact)
  BY DEF ContactRecord
<1>2. /\ contacts' \in Seq(CompletedContact) /\ Len(contacts) \in Nat
      /\ Len(contacts') = Len(contacts) + 1
      /\ \A k \in 1..Len(contacts) : contacts'[k] = contacts[k]
      /\ contacts'[Len(contacts) + 1] = c
  BY <1>1, AppendProperties
<1>3. Returned' = Returned
  <2>1. \A k \in 1..Len(contacts') :
          k \in 1..Len(contacts) \/ k = Len(contacts) + 1
    BY <1>2
  <2>2. \A k \in Returned' : k \in Returned
    BY <1>2, <2>1 DEF Returned
  <2>3. \A k \in Returned : k \in Returned'
    BY <1>2 DEF Returned
  <2> QED
    BY <2>2, <2>3
<1>4. \A k \in Returned : contacts'[k] = contacts[k]
  BY <1>2 DEF Returned
<1>5. ContactsHonest'
  BY <1>3, <1>4, NothingRecorded DEF ContactRecord
<1>6. UnderWay'
  BY DEF UnderWay, NoContact
<1> QED
  BY <1>2, <1>5, <1>6 DEF ContactRecord

\* The outcome of a contact goes on record and to the caller.
LEMMA RecordContactHonest ==
  ASSUME ContactTypeOK, ContactRecord, RecordContact
  PROVE  ContactRecord'
<1>1. PICK r \in ContactResults : Report(log[r].status = "succeeded")
  BY DEF RecordContact
<1>2. PICK d \in [call : CallIds, at : Nat] : d = Head(contact)
  <2>1. contact \in Seq([call : CallIds, at : Nat]) /\ contact # <<>>
    BY DEF RecordContact, NoContact, ContactTypeOK
  <2> QED
    BY <2>1, HeadTailProperties
<1>3. PICK ok \in BOOLEAN : ok = (log[r].status = "succeeded")
  OBVIOUS
<1>4. PICK e \in Entry :
        e = ContactEntry(d.call, ok, EvaluateToolCallPolicy(RiskOf[d.call]))
  BY EntryTypes, VerdictTypes
<1>5. PICK c \in CompletedContact : c = Completed("gateway", <<d.call>>, ok)
  BY DEF Completed, CompletedContact
<1>6. log' = Append(log, e) /\ contacts' = Append(contacts, c)
  BY <1>1, <1>2, <1>3, <1>4, <1>5 DEF Report
<1>7. e.type = "contact" /\ e.call = d.call /\ e.succeeded = ok
      /\ c.way = "gateway"
  BY <1>4, <1>5 DEF ContactEntry, Completed
<1>8. log \in Seq(Entry) /\ contacts \in Seq(CompletedContact)
  BY DEF ContactTypeOK, ContactRecord
<1>9. /\ Len(log) \in Nat /\ Len(log') = Len(log) + 1
      /\ \A n \in 1..Len(log) : log'[n] = log[n]
      /\ log'[Len(log) + 1] = e
  BY <1>6, <1>8, AppendProperties
<1>10. /\ contacts' \in Seq(CompletedContact) /\ Len(contacts) \in Nat
       /\ Len(contacts') = Len(contacts) + 1
       /\ \A k \in 1..Len(contacts) : contacts'[k] = contacts[k]
       /\ contacts'[Len(contacts) + 1] = c
  BY <1>6, <1>8, AppendProperties
<1>11. PICK last \in Nat : last = Len(log) + 1
  BY <1>9
<1>12. PICK final \in Nat : final = Len(contacts) + 1
  BY <1>10
<1>13. Recorded' = Recorded \cup {last} /\ \A n \in Recorded : n < last
  <2>1. \A n : n \in 1..Len(log') <=> n \in 1..Len(log) \/ n = last
    BY <1>9, <1>11
  <2>2. \A n \in Recorded' : n \in Recorded \cup {last}
    BY <1>9, <1>11, <2>1 DEF Recorded
  <2>3. \A n \in Recorded \cup {last} : n \in Recorded'
    BY <1>7, <1>9, <1>11, <2>1 DEF Recorded
  <2>4. \A n \in Recorded : n < last
    BY <1>9, <1>11 DEF Recorded
  <2> QED
    BY <2>2, <2>3, <2>4
<1>14. Returned' = Returned \cup {final} /\ \A k \in Returned : k < final
  <2>1. \A k : k \in 1..Len(contacts') <=> k \in 1..Len(contacts) \/ k = final
    BY <1>10, <1>12
  <2>2. \A k \in Returned' : k \in Returned \cup {final}
    BY <1>10, <1>12, <2>1 DEF Returned
  <2>3. \A k \in Returned \cup {final} : k \in Returned'
    BY <1>7, <1>10, <1>12, <2>1 DEF Returned
  <2>4. \A k \in Returned : k < final
    BY <1>10, <1>12 DEF Returned
  <2> QED
    BY <2>2, <2>3, <2>4
<1>15. /\ Recorded \in SUBSET Nat /\ IsFiniteSet(Recorded)
       /\ Returned \in SUBSET Nat /\ IsFiniteSet(Returned)
  BY <1>9, <1>10, RecordedFinite
<1>16. /\ Before(Recorded', last) = Cardinality(Recorded)
       /\ Cardinality(Recorded') = Cardinality(Recorded) + 1
       /\ Cardinality(Recorded) \in Nat
       /\ \A n \in Recorded : /\ Before(Recorded', n) = Before(Recorded, n)
                              /\ Before(Recorded, n) \in Nat
                              /\ Before(Recorded, n) < Cardinality(Recorded)
  BY <1>13, <1>15, BeforeLast
<1>17. /\ Before(Returned', final) = Cardinality(Returned)
       /\ Cardinality(Returned') = Cardinality(Returned) + 1
       /\ Cardinality(Returned) \in Nat
       /\ \A k \in Returned : /\ Before(Returned', k) = Before(Returned, k)
                              /\ Before(Returned, k) \in Nat
                              /\ Before(Returned, k) < Cardinality(Returned)
  BY <1>14, <1>15, BeforeLast
<1>18. /\ Cardinality(Recorded) = Cardinality(Returned)
       /\ \A n \in Recorded, k \in Returned :
            Before(Recorded, n) = Before(Returned, k) =>
              contacts[k] = Completed("gateway", <<log[n].call>>, log[n].succeeded)
       /\ \A n \in Recorded : HonestAt(log, n)
  BY DEF ContactRecord, ContactsHonest, HonestAt
<1>19. Cardinality(Recorded') = Cardinality(Returned')
  BY <1>16, <1>17, <1>18
<1>20. ASSUME NEW n \in Recorded', NEW k \in Returned',
              Before(Recorded', n) = Before(Returned', k)
       PROVE  contacts'[k]
                = Completed("gateway", <<log'[n].call>>, log'[n].succeeded)
  <2>1. CASE n = last /\ k = final
    BY <1>5, <1>7, <1>9, <1>10, <1>11, <1>12, <2>1
  <2>2. CASE n \in Recorded /\ k \in Returned
    <3>1. log'[n] = log[n] /\ contacts'[k] = contacts[k]
      BY <1>9, <1>10, <2>2 DEF Recorded, Returned
    <3>2. Before(Recorded, n) = Before(Returned, k)
      BY <1>16, <1>17, <1>20, <2>2
    <3> QED
      BY <1>18, <2>2, <3>1, <3>2
  <2>3. CASE n = last /\ k \in Returned
    BY <1>16, <1>17, <1>18, <1>20, <2>3
  <2>4. CASE n \in Recorded /\ k = final
    BY <1>16, <1>17, <1>18, <1>20, <2>4
  <2> QED
    BY <1>13, <1>14, <2>1, <2>2, <2>3, <2>4
<1>21. HonestAt(log', last)
  <2>1. /\ r \in (d.at + 1)..Len(log) /\ d.at \in Nat
        /\ log[r] = ToolResult(d.call, log[r].status)
        /\ \A k \in (d.at + 1)..Len(log) : log[k].type # "contact"
        /\ \A k \in ContactResults : k = r
    BY <1>1, <1>2 DEF ContactResults, ContactRecord, UnderWay, RecordContact
  <2>2. r \in 1..(last - 1) /\ r \in 1..Len(log)
    BY <1>9, <1>11, <2>1
  <2>3. log[r].status \in {"succeeded", "failed"}
    <3>1. log[r] \in Entry /\ log[r].type = "tool_result"
      BY <1>1, <1>8, <2>2 DEF ContactResults
    <3> QED
      BY <3>1 DEF Entry, GatewayEntry, CommitmentEntry, ApprovalEntry,
         ResultEntry, ObservationEntry, RevisionEntry
  <2>4. log'[r] = ToolResult(log'[last].call,
                    IF log'[last].succeeded THEN "succeeded" ELSE "failed")
    <3>1. log[r].status = IF ok THEN "succeeded" ELSE "failed"
      BY <1>3, <2>3
    <3>2. log'[r] = log[r] /\ log'[last].call = d.call /\ log'[last].succeeded = ok
      BY <1>7, <1>9, <1>11, <2>2
    <3> QED
      BY <2>1, <3>1, <3>2
  <2>5. ASSUME NEW k \in (r + 1)..(last - 1)
        PROVE  log'[k].type \notin {"tool_result", "contact"}
    <3>1. k \in (d.at + 1)..Len(log) /\ k \in 1..Len(log) /\ k # r
      BY <1>9, <1>11, <2>1
    <3>2. log[k].type # "tool_result"
      BY <1>2, <2>1, <3>1 DEF ContactResults
    <3>3. log'[k] = log[k] /\ log[k].type # "contact"
      BY <1>9, <2>1, <3>1
    <3> QED
      BY <3>2, <3>3
  <2> QED
    BY <2>2, <2>4, <2>5 DEF HonestAt
<1>22. ASSUME NEW n \in Recorded
       PROVE  HonestAt(log', n)
  <2>1. n \in Nat /\ n # 0 /\ \A m \in 1..n : log'[m] = log[m]
    BY <1>9 DEF Recorded
  <2> QED
    BY <1>18, <2>1, HonestStays
<1>23. ContactsHonest'
  <2>1. \A n \in Recorded' : HonestAt(log', n)
    BY <1>13, <1>21, <1>22
  <2> QED
    BY <1>19, <1>20, <2>1 DEF ContactsHonest, HonestAt
<1>24. UnderWay'
  BY DEF RecordContact, UnderWay, NoContact
<1> QED
  BY <1>10, <1>23, <1>24 DEF ContactRecord

LEMMA ContactRaisesHonest ==
  ASSUME ContactTypeOK, ContactRecord, ContactRaises
  PROVE  ContactRecord'
<1>1. log' = log /\ contacts' = contacts /\ contact' = NoContact
  BY DEF ContactRaises, gatewayVars
<1>2. Returned' = Returned /\ \A k \in Returned : contacts'[k] = contacts[k]
  BY <1>1 DEF Returned
<1>3. ContactsHonest'
  BY <1>1, <1>2, NothingRecorded DEF ContactRecord
<1>4. UnderWay'
  BY <1>1 DEF UnderWay, NoContact
<1> QED
  BY <1>1, <1>3, <1>4 DEF ContactRecord

LEMMA ContactRecordSafe ==
  ASSUME ContactTypeOK, ContactRecord, [ContactNext]_contactVars
  PROVE  ContactRecord'
<1>1. CASE contact = NoContact /\ \E batch \in Batch : ExecuteBatch(batch)
           /\ UNCHANGED <<contact, contacts>>
  BY <1>1, ExecuteBatchHonest
<1>2. CASE /\ GatewayStep \/ ProviderStep \/ HandlerStep
           /\ UNCHANGED <<contact, contacts>>
  BY <1>2, ServeSafe
<1>3. CASE \E id \in CallIds : ContactViaGateway(id)
  BY <1>3, ContactViaGatewayHonest
<1>4. CASE ContactWithoutTool
  BY <1>4, CompletedOffRecord, UnrecordedHonest DEF ContactWithoutTool
<1>5. CASE RecordContact
  BY <1>5, RecordContactHonest
<1>6. CASE ContactRaises
  BY <1>6, ContactRaisesHonest
<1>7. ASSUME NEW kind \in ContactKind, NEW registered \in BOOLEAN,
             NEW returns \in BOOLEAN, DirectContact(kind, registered, returns)
      PROVE  ContactRecord'
  <2>1. PICK success \in BOOLEAN :
          contacts' = Append(contacts, Completed(kind, NoCall, success))
    BY <1>7 DEF DirectContact
  <2>2. contact = NoContact /\ UNCHANGED <<log, contact>>
    BY <1>7 DEF DirectContact
  <2> QED
    BY <2>1, <2>2, CompletedOffRecord, UnrecordedHonest
<1>8. CASE UNCHANGED contactVars
  <2>1. /\ log' = log /\ contacts' = contacts /\ contact' = contact
        /\ gpc' = gpc /\ calls' = calls
    BY <1>8 DEF contactVars, gatewayVars
  <2>2. UnderWay'
    BY <2>1 DEF ContactRecord, UnderWay, ContactResults, call
  <2>3. ContactsHonest'
    BY <2>1, NothingRecorded DEF ContactRecord, Returned
  <2> QED
    BY <2>1, <2>2, <2>3 DEF ContactRecord
<1> QED
  BY <1>1, <1>2, <1>3, <1>4, <1>5, <1>6, <1>7, <1>8 DEF ContactNext

\* A contact tells its caller what the gateway recorded of that very
\* execution, whatever ran before it (execute_commitment_via_gateway).
THEOREM ContactsAlwaysHonest == ContactSpec => []ContactsHonest
<1>1. ContactInit => ContactRecord
  <2> SUFFICES ASSUME ContactInit PROVE ContactRecord
    OBVIOUS
  <2>1. log = <<>> /\ contact = NoContact /\ contacts = <<>>
    BY DEF ContactInit, GatewayInit
  <2>2. Recorded = {} /\ Returned = {}
    BY <2>1 DEF Recorded, Returned
  <2>3. ContactsHonest
    BY <2>2 DEF ContactsHonest
  <2>4. UnderWay
    BY <2>1 DEF UnderWay
  <2> QED
    BY <2>1, <2>3, <2>4 DEF ContactRecord
<1>2. ContactTypeOK /\ ContactRecord /\ [ContactNext]_contactVars
      => ContactRecord'
  BY ContactRecordSafe
<1>3. ContactRecord => ContactsHonest
  BY DEF ContactRecord
<1>4. ContactInvariant => ContactTypeOK
  BY DEF ContactInvariant
<1> QED
  BY <1>1, <1>2, <1>3, <1>4, ContactInvariantHolds, PTL DEF ContactSpec

================================================================================
