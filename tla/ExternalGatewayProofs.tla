------------------------- MODULE ExternalGatewayProofs -------------------------
(***************************************************************************)
(* The ways out of the engine, for every configuration and any number of   *)
(* requests and dispatches: the rate limiter turns away what the window    *)
(* asks for and nothing else, what a service did is accounted for however  *)
(* attempts end, and every dispatch and its counters agree.                *)
(*                                                                         *)
(* Requests and dispatches share the log and nothing else, so that each    *)
(* property has an inductive invariant of its own.                         *)
(***************************************************************************)
EXTENDS ExternalGateway, WellFoundedInduction, SequenceTheorems, FiniteSetTheorems,
        TLAPS

--------------------------------------------------------------------------------
(* Positions in sequences.                                                 *)

\* Where a sequence has one of these values.
Positions(s, X) == {k \in DOMAIN s : s[k] \in X}

\* They are as many as a number says.
LEMMA PositionsFinite ==
  ASSUME NEW S, NEW s \in Seq(S), NEW X
  PROVE  IsFiniteSet(Positions(s, X)) /\ Cardinality(Positions(s, X)) \in Nat
<1>1. DOMAIN s = 1..Len(s) /\ Len(s) \in Nat
  OBVIOUS
<1>2. IsFiniteSet(DOMAIN s)
  BY <1>1, FS_Interval
<1>3. Positions(s, X) \in SUBSET DOMAIN s
  BY DEF Positions
<1> QED
  BY <1>2, <1>3, FS_Subset, FS_CardinalityType

\* One more at the end, if what is appended is such a value.
LEMMA PositionsAppended ==
  ASSUME NEW S, NEW s \in Seq(S), NEW e \in S, NEW X
  PROVE  /\ e \in X =>
              /\ Positions(Append(s, e), X) = Positions(s, X) \cup {Len(s) + 1}
              /\ Cardinality(Positions(Append(s, e), X))
                   = Cardinality(Positions(s, X)) + 1
         /\ e \notin X => Positions(Append(s, e), X) = Positions(s, X)
<1> DEFINE l == Append(s, e)
<1>1. /\ Len(s) \in Nat /\ DOMAIN s = 1..Len(s) /\ DOMAIN l = 1..(Len(s) + 1)
      /\ \A k \in 1..Len(s) : l[k] = s[k]
      /\ l[Len(s) + 1] = e
  OBVIOUS
<1>2. \A k \in 1..(Len(s) + 1) : k \in 1..Len(s) \/ k = Len(s) + 1
  BY <1>1
<1>3. e \in X => Positions(l, X) = Positions(s, X) \cup {Len(s) + 1}
  BY <1>1, <1>2 DEF Positions
<1>4. e \notin X => Positions(l, X) = Positions(s, X)
  BY <1>1, <1>2 DEF Positions
<1> HIDE DEF l
<1>5. Len(s) + 1 \notin Positions(s, X)
  BY <1>1 DEF Positions
<1>6. Cardinality(Positions(s, X) \cup {Len(s) + 1}) = Cardinality(Positions(s, X)) + 1
  BY <1>5, PositionsFinite, FS_AddElement
<1> QED
  BY <1>3, <1>4, <1>6 DEF l

--------------------------------------------------------------------------------
(* The rate limiter.                                                       *)

RequestSet ==
  [at : Nat, status : {"refused", "limited", "running", "failed", "succeeded"}]

HttpEvents ==
  [type : {"gateway.http.request"}, request : Nat, attempt : Nat,
   status : {"ok", "error"}]

HookEvents == [type : {"webhook.dispatched"}, count : Nat, successes : Nat]

Events == HttpEvents \cup HookEvents

\* The types of what requests read and write.
RequestTypes ==
  /\ now \in Nat
  /\ requests \in Seq(RequestSet)
  /\ attempt \in Nat
  /\ errors \in Nat
  /\ received \in Seq(Nat)

\* The limiter may have forgotten only calls that no window to come holds.
CallsKept ==
  /\ \A i \in DOMAIN requests : requests[i].at <= now
  /\ \A i \in call_times : i \in DOMAIN requests /\ Admitted(i)
  /\ \A i \in DOMAIN requests :
       Admitted(i) /\ now - requests[i].at < Window => i \in call_times

RateInv == RequestTypes /\ CallsKept /\ RateKept

\* A request that is asked for is the last; those before stay as they were.
LEMMA Asked ==
  ASSUME RequestTypes,
         NEW status \in {"refused", "limited", "running", "failed", "succeeded"},
         requests' = Append(requests, Request(now, status))
  PROVE  /\ requests' \in Seq(RequestSet)
         /\ Len(requests) \in Nat
         /\ DOMAIN requests = 1..Len(requests)
         /\ DOMAIN requests' = 1..(Len(requests) + 1)
         /\ \A i \in DOMAIN requests : requests'[i] = requests[i]
         /\ requests'[Len(requests) + 1].at = now
         /\ requests'[Len(requests) + 1].status = status
<1>1. requests \in Seq(RequestSet) /\ now \in Nat
  BY DEF RequestTypes
<1> DEFINE new == Request(now, status)
<1>2. new \in RequestSet /\ new.at = now /\ new.status = status
  BY <1>1 DEF Request, RequestSet
<1>3. requests' = Append(requests, new)
  OBVIOUS
<1> HIDE DEF new
<1> QED
  BY <1>1, <1>2, <1>3

\* A request under way that is settled keeps its time; the others stay.
LEMMA Settles ==
  ASSUME RequestTypes, Requesting, NEW status \in {"failed", "succeeded"},
         requests' = Settled(status)
  PROVE  /\ requests' \in Seq(RequestSet)
         /\ DOMAIN requests' = DOMAIN requests
         /\ \A i \in DOMAIN requests :
              /\ requests'[i].at = requests[i].at
              /\ i # Len(requests) => requests'[i] = requests[i]
         /\ requests'[Len(requests)].status = status
<1> DEFINE last == Len(requests)
           settled == [requests[last] EXCEPT !.status = status]
<1>1. requests \in Seq(RequestSet) /\ last \in Nat /\ last \in DOMAIN requests
  BY DEF RequestTypes, Requesting
<1>2. requests[last] \in RequestSet
  BY <1>1
<1>3. settled \in RequestSet /\ settled.at = requests[last].at /\ settled.status = status
  BY <1>2 DEF RequestSet
<1>4. requests' = [requests EXCEPT ![last] = settled]
  BY <1>1 DEF Settled
<1> HIDE DEF settled
<1> QED
  BY <1>1, <1>3, <1>4

\* However an attempt ends, the request under way was admitted and stays so.
LEMMA AttemptsSettle ==
  ASSUME RequestTypes, AttemptEnds
  PROVE  /\ Requesting
         /\ \/ requests' = requests
            \/ requests' = Settled("failed")
            \/ requests' = Settled("succeeded")
         /\ now' = now /\ call_times' = call_times
BY DEF AttemptEnds, AttemptSucceeds, AttemptUnreadable, AttemptDeclined, AttemptLost,
       NextAttempt

\* However an attempt ends, no request changes its time or becomes another's.
LEMMA AttemptsKeepRequests ==
  ASSUME RequestTypes, AttemptEnds
  PROVE  /\ requests' \in Seq(RequestSet)
         /\ DOMAIN requests' = DOMAIN requests
         /\ \A i \in DOMAIN requests :
              /\ requests'[i].at = requests[i].at
              /\ i # Len(requests) => requests'[i] = requests[i]
              /\ requests'[i].status = "refused" <=> requests[i].status = "refused"
              /\ Admitted(i)' <=> Admitted(i)
<1>1. requests \in Seq(RequestSet) /\ Requesting
  BY AttemptsSettle DEF RequestTypes
<1>2. CASE requests' = requests
  BY <1>1, <1>2 DEF Admitted
<1>3. ASSUME NEW status \in {"failed", "succeeded"}, requests' = Settled(status)
      PROVE  /\ requests' \in Seq(RequestSet)
             /\ DOMAIN requests' = DOMAIN requests
             /\ \A i \in DOMAIN requests :
                  /\ requests'[i].at = requests[i].at
                  /\ i # Len(requests) => requests'[i] = requests[i]
                  /\ requests'[i].status = "refused" <=> requests[i].status = "refused"
                  /\ Admitted(i)' <=> Admitted(i)
  <2>1. /\ requests' \in Seq(RequestSet)
        /\ DOMAIN requests' = DOMAIN requests
        /\ \A i \in DOMAIN requests :
             /\ requests'[i].at = requests[i].at
             /\ i # Len(requests) => requests'[i] = requests[i]
        /\ requests'[Len(requests)].status = status
    BY <1>1, <1>3, Settles
  <2>2. requests[Len(requests)].status = "running"
    BY DEF Requesting, AttemptEnds, AttemptSucceeds, AttemptUnreadable,
           AttemptDeclined, AttemptLost
  <2>3. \A i \in DOMAIN requests :
          /\ requests'[i].status = "refused" <=> requests[i].status = "refused"
          /\ Admitted(i)' <=> Admitted(i)
    BY <2>1, <2>2 DEF Admitted
  <2> QED
    BY <2>1, <2>3
<1> QED
  BY <1>2, <1>3, AttemptsSettle

\* Nothing has been asked for at first.
LEMMA RequestTypesInit == ExternalInit => RequestTypes
BY DEF ExternalInit, RequestTypes

\* Every step of the two ways out keeps the types of what requests use.
LEMMA RequestTypesNext ==
  ASSUME RequestTypes, [ExternalNext]_externalVars
  PROVE  RequestTypes'
<1>1. CASE Tick
  BY <1>1 DEF Tick, RequestTypes, httpVars
<1>2. ASSUME NEW host \in Hosts,
             RequestRefused(host) \/ RequestLimited(host) \/ RequestAdmitted(host)
      PROVE  RequestTypes'
  <2>1. PICK status \in {"refused", "limited", "running", "failed", "succeeded"} :
          requests' = Append(requests, Request(now, status))
    BY <1>2 DEF RequestRefused, RequestLimited, RequestAdmitted
  <2>2. requests' \in Seq(RequestSet)
    BY <2>1, Asked
  <2>3. /\ now' = now /\ errors' = errors /\ received' = received
        /\ attempt' = attempt \/ attempt' \in {0, 1}
    BY <1>2 DEF RequestRefused, RequestLimited, RequestAdmitted
  <2> QED
    BY <2>2, <2>3 DEF RequestTypes
<1>3. CASE AttemptEnds
  <2>1. requests' \in Seq(RequestSet) /\ now' = now
    BY <1>3, AttemptsKeepRequests, AttemptsSettle
  <2>2. Len(requests) \in Nat
    BY DEF RequestTypes
  <2>3. received' = received \/ received' = Append(received, Len(requests))
    BY <1>3 DEF AttemptEnds, AttemptSucceeds, AttemptUnreadable, AttemptDeclined,
                AttemptLost
  <2>4. received' \in Seq(Nat)
    BY <2>2, <2>3 DEF RequestTypes
  <2>5. /\ errors' = errors \/ errors' = errors + 1
        /\ attempt' = 0 \/ attempt' = attempt + 1
    BY <1>3 DEF AttemptEnds, AttemptSucceeds, AttemptUnreadable, AttemptDeclined,
                AttemptLost, NextAttempt
  <2> QED
    BY <2>1, <2>4, <2>5 DEF RequestTypes
<1>4. CASE UNCHANGED <<now, httpVars>>
  BY <1>4 DEF RequestTypes, httpVars
<1>5. ASSUME NEW type \in EventTypes, DispatchStarts(type)
      PROVE  UNCHANGED <<now, httpVars>>
  BY <1>5 DEF DispatchStarts
<1>6. CASE HookStep
  BY <1>4, <1>6 DEF HookStep, HookDelivered, HookFails, HookRaises, DispatchReturns
<1>7. CASE UNCHANGED externalVars
  BY <1>4, <1>7 DEF externalVars
<1> QED
  BY <1>1, <1>2, <1>3, <1>4, <1>5, <1>6, <1>7 DEF ExternalNext

\* With the same requests, or the same but for how they ended, the window of a
\* request is what it was (RateLimiter counts calls, not answers).
LEMMA WindowStays ==
  ASSUME RequestTypes, NEW i \in DOMAIN requests,
         \A j \in 1..i :
           requests'[j].at = requests[j].at /\ (Admitted(j)' <=> Admitted(j)),
         requests'[i].status = "refused" <=> requests[i].status = "refused"
  PROVE  AdmittedBefore(i)' = AdmittedBefore(i)
<1>1. i \in Nat
  BY DEF RequestTypes
<1>2. \A j \in 1..(i - 1) : j \in 1..i
  BY <1>1
<1>3. i \in 1..i
  BY DEF RequestTypes
<1> QED
  BY <1>2, <1>3 DEF AdmittedBefore

\* The calls the limiter holds on to are those of the window that ends now.
LEMMA WindowOfNow ==
  ASSUME RequestTypes, CallsKept
  PROVE  /\ RecentCalls = {j \in DOMAIN requests :
                            Admitted(j) /\ now - requests[j].at < Window}
         /\ Cardinality(RecentCalls) \in Nat
<1>1. RecentCalls = {j \in DOMAIN requests :
                      Admitted(j) /\ now - requests[j].at < Window}
  BY DEF RecentCalls, CallsKept
<1>2. RecentCalls \in SUBSET (1..Len(requests)) /\ Len(requests) \in Nat
  BY <1>1 DEF RequestTypes
<1>3. IsFiniteSet(1..Len(requests))
  BY <1>2, FS_Interval
<1> QED
  BY <1>1, <1>2, <1>3, FS_Subset, FS_CardinalityType

\* Nothing has been asked for at first, so that nothing was turned away.
LEMMA RateInit == ExternalInit => RateInv
BY DEF ExternalInit, RateInv, RequestTypes, CallsKept, RateKept

\* A request that is asked for is turned away for its window or let through.
LEMMA RateAsked ==
  ASSUME ExternalAssumption, RateInv, NEW host \in Hosts,
         RequestRefused(host) \/ RequestLimited(host) \/ RequestAdmitted(host)
  PROVE  CallsKept' /\ RateKept'
<1>1. RequestTypes /\ CallsKept /\ RateKept /\ MaxCalls \in Nat
  BY DEF RateInv, ExternalAssumption
<1>2. PICK status \in {"refused", "limited", "running", "failed", "succeeded"} :
        /\ requests' = Append(requests, Request(now, status))
        /\ \/ status = "refused" /\ call_times' = call_times
           \/ /\ status = "limited" /\ call_times' = RecentCalls
              /\ Cardinality(RecentCalls) >= MaxCalls
           \/ /\ status \in {"running", "failed"}
              /\ call_times' = RecentCalls \cup {Len(requests) + 1}
              /\ Cardinality(RecentCalls) < MaxCalls
  BY DEF RequestRefused, RequestLimited, RequestAdmitted
<1>3. now' = now /\ now \in Nat
  BY <1>1 DEF RequestRefused, RequestLimited, RequestAdmitted, RequestTypes
<1>4. PICK n : n = Len(requests) + 1
  OBVIOUS
<1>5. /\ n \in Nat /\ n \notin DOMAIN requests /\ n \in DOMAIN requests'
      /\ DOMAIN requests = 1..(n - 1) /\ DOMAIN requests' = 1..n
      /\ \A i \in DOMAIN requests : requests'[i] = requests[i]
      /\ requests'[n].at = now /\ requests'[n].status = status
  BY <1>1, <1>2, <1>4, Asked
<1>6. /\ \A i \in DOMAIN requests : Admitted(i)' <=> Admitted(i)
      /\ Admitted(n)' <=> status \in {"running", "failed", "succeeded"}
  BY <1>5 DEF Admitted
<1>7. \A i \in DOMAIN requests' : i \in DOMAIN requests \/ i = n
  BY <1>5
<1>8. /\ RecentCalls = {j \in DOMAIN requests :
                         Admitted(j) /\ now - requests[j].at < Window}
      /\ Cardinality(RecentCalls) \in Nat
  BY <1>1, WindowOfNow
<1>9. CallsKept'
  <2>1. \A i \in DOMAIN requests' : requests'[i].at <= now'
    BY <1>1, <1>3, <1>5, <1>7 DEF CallsKept
  <2>2. call_times' \subseteq call_times \cup {n}
    BY <1>2, <1>4 DEF RecentCalls
  <2>3. n \in call_times' => status \in {"running", "failed"}
    BY <1>1, <1>2, <1>5 DEF RecentCalls, CallsKept
  <2>4. ASSUME NEW i \in call_times' PROVE i \in DOMAIN requests' /\ Admitted(i)'
    <3>1. CASE i = n
      BY <1>5, <1>6, <2>3, <3>1 DEF Admitted
    <3>2. CASE i \in call_times
      <4>1. i \in DOMAIN requests /\ Admitted(i)
        BY <1>1, <3>2 DEF CallsKept
      <4> QED
        BY <1>5, <1>6, <4>1
    <3> QED
      BY <2>2, <3>1, <3>2
  <2>5. ASSUME NEW i \in DOMAIN requests', Admitted(i)',
               now' - requests'[i].at < Window
        PROVE  i \in call_times'
    <3>1. CASE i = n
      BY <1>2, <1>4, <1>6, <2>5, <3>1
    <3>2. CASE i \in DOMAIN requests
      <4>1. i \in RecentCalls
        BY <1>3, <1>5, <1>6, <1>8, <2>5, <3>2
      <4> QED
        BY <1>2, <4>1 DEF RecentCalls
    <3> QED
      BY <1>7, <3>1, <3>2
  <2> QED
    BY <2>1, <2>4, <2>5 DEF CallsKept
<1>10. AdmittedBefore(n)' = RecentCalls
  BY <1>5, <1>6, <1>8 DEF AdmittedBefore
<1>11. requests'[n].status # "refused" =>
         (Admitted(n)' <=> Cardinality(AdmittedBefore(n)') < MaxCalls)
  BY <1>1, <1>2, <1>5, <1>6, <1>8, <1>10
<1>12. ASSUME NEW i \in DOMAIN requests
       PROVE  requests'[i].status # "refused" =>
                (Admitted(i)' <=> Cardinality(AdmittedBefore(i)') < MaxCalls)
  <2>1. \A j \in 1..i : j \in DOMAIN requests
    BY <1>5
  <2>2. AdmittedBefore(i)' = AdmittedBefore(i)
    BY <1>1, <1>5, <1>6, <2>1, WindowStays
  <2> QED
    BY <1>1, <1>5, <1>6, <2>2 DEF RateKept
<1>13. RateKept'
  BY <1>7, <1>11, <1>12 DEF RateKept
<1> QED
  BY <1>9, <1>13

\* Every step keeps what the limiter knows and what it did.
LEMMA RateNext ==
  ASSUME ExternalAssumption, RateInv, [ExternalNext]_externalVars
  PROVE  RateInv'
<1>1. RequestTypes' /\ RequestTypes /\ CallsKept /\ RateKept
  BY RequestTypesNext DEF RateInv
<1>2. ASSUME now' = now \/ now' = now + 1, call_times' = call_times,
             DOMAIN requests' = DOMAIN requests,
             \A i \in DOMAIN requests :
               /\ requests'[i].at = requests[i].at
               /\ requests'[i].status = "refused" <=> requests[i].status = "refused"
               /\ Admitted(i)' <=> Admitted(i)
      PROVE  CallsKept' /\ RateKept'
  <2>1. now \in Nat /\ \A i \in DOMAIN requests : requests[i] \in RequestSet
    BY <1>1 DEF RequestTypes
  <2>2. Window \in Nat /\ \A i \in DOMAIN requests : requests[i].at \in Nat
    BY <2>1 DEF RequestSet, ExternalAssumption
  <2>3. CallsKept'
    BY <1>1, <1>2, <2>1, <2>2 DEF CallsKept
  <2>4. ASSUME NEW i \in DOMAIN requests
        PROVE  AdmittedBefore(i)' = AdmittedBefore(i)
    <3>1. \A j \in 1..i : j \in DOMAIN requests
      BY <1>1 DEF RequestTypes
    <3> QED
      BY <1>1, <1>2, <3>1, WindowStays
  <2>5. RateKept'
    BY <1>1, <1>2, <2>4 DEF RateKept
  <2> QED
    BY <2>3, <2>5
<1> SUFFICES CallsKept' /\ RateKept'
  BY <1>1 DEF RateInv
<1>3. CASE Tick
  BY <1>2, <1>3 DEF Tick, httpVars, Admitted
<1>4. CASE UNCHANGED <<now, httpVars>>
  BY <1>2, <1>4 DEF httpVars, Admitted
<1>5. ASSUME NEW host \in Hosts,
             RequestRefused(host) \/ RequestLimited(host) \/ RequestAdmitted(host)
      PROVE  CallsKept' /\ RateKept'
  BY <1>5, RateAsked
<1>6. CASE AttemptEnds
  BY <1>1, <1>2, <1>6, AttemptsSettle, AttemptsKeepRequests
<1>7. ASSUME NEW type \in EventTypes, DispatchStarts(type)
      PROVE  UNCHANGED <<now, httpVars>>
  BY <1>7 DEF DispatchStarts
<1>8. CASE HookStep
  BY <1>4, <1>8 DEF HookStep, HookDelivered, HookFails, HookRaises, DispatchReturns
<1>9. CASE UNCHANGED externalVars
  BY <1>4, <1>9 DEF externalVars
<1> QED
  BY <1>3, <1>4, <1>5, <1>6, <1>7, <1>8, <1>9 DEF ExternalNext

\* Whatever the configuration and however requests arrive, the limiter turns a
\* request away exactly when its window is full (RateLimiter.is_allowed).
THEOREM RateAlwaysKept == ExternalSpec => []RateKept
<1>1. ExternalInit => RateInv
  BY RateInit
<1>2. RateInv /\ [ExternalNext]_externalVars => RateInv'
  BY ExternalAssumption, RateNext
<1>3. RateInv => RateKept
  BY DEF RateInv
<1> QED
  BY <1>1, <1>2, <1>3, PTL DEF ExternalSpec

--------------------------------------------------------------------------------
(* Types of dispatches.                                                    *)

OutcomeSet == [hook : Nat, success : BOOLEAN]

DispatchSet ==
  [type : EventTypes, status : {"raised", "returned"}, results : Seq(OutcomeSet)]

\* The types of what dispatches read and write, and of the log.
HookTypes ==
  /\ dispatch \in [type : EventTypes \cup {"none"}, hook : Nat, tries : Nat,
                   results : Seq(OutcomeSet)]
  /\ dispatch.hook <= Len(Hooks) + 1
  /\ Dispatching => dispatch.type \in EventTypes /\ dispatch.hook > 0
  /\ dispatches \in Seq(DispatchSet)
  /\ counts \in [dispatched : Nat, succeeded : Nat, failed : Nat]
  /\ log \in Seq(Events)

\* A set of numbers that is not empty has a least.
LEMMA LeastOf ==
  ASSUME NEW T, T \subseteq Nat, T # {}
  PROVE  \E h \in T : \A k \in T : h <= k
<1>1. PICK h \in T : \A k \in T : ~(<<k, h>> \in OpToRel(<, Nat))
  BY NatLessThanWellFounded, WFMin
<1>2. \A k \in T : ~(k < h)
  BY <1>1 DEF OpToRel
<1> QED
  BY <1>2

\* The next hook listens, unless there is none; those passed over do not.
LEMMA NextHookListens ==
  ASSUME ExternalAssumption, NEW type, NEW hook \in 0..Len(Hooks),
         NEW n, n = NextHook(type, hook)
  PROVE  /\ Len(Hooks) \in Nat
         /\ n \in (hook + 1)..(Len(Hooks) + 1)
         /\ n <= Len(Hooks) => Matches(type, n)
         /\ \A h \in (hook + 1)..(n - 1) : ~Matches(type, h)
<1> DEFINE later == {h \in (hook + 1)..Len(Hooks) : Matches(type, h)}
<1>1. Len(Hooks) \in Nat
  BY DEF ExternalAssumption
<1>2. n = IF later = {} THEN Len(Hooks) + 1
          ELSE CHOOSE h \in later : \A k \in later : h <= k
  BY DEF NextHook
<1>3. later \subseteq (hook + 1)..Len(Hooks)
  OBVIOUS
<1>4. CASE later = {}
  BY <1>1, <1>2, <1>4
<1>5. CASE later # {}
  <2>1. later \subseteq Nat
    BY <1>1
  <2>2. \E h \in later : \A k \in later : h <= k
    <3> HIDE DEF later
    <3> QED
      BY <1>5, <2>1, LeastOf
  <2>3. n \in later /\ \A k \in later : n <= k
    <3> HIDE DEF later
    <3> QED
      BY <1>2, <1>5, <2>2
  <2>4. ASSUME NEW h \in (hook + 1)..(n - 1), Matches(type, h) PROVE FALSE
    <3>1. h \in later
      BY <1>1, <2>3, <2>4
    <3> QED
      BY <1>1, <2>3, <3>1
  <2> QED
    BY <1>1, <2>3, <2>4
<1> QED
  BY <1>4, <1>5

\* Nothing has been dispatched at first.
LEMMA HookTypesInit == ExternalInit => HookTypes
<1> SUFFICES ASSUME ExternalInit PROVE HookTypes
  OBVIOUS
<1>1. dispatch = NoDispatch /\ dispatches = <<>> /\ log = <<>>
      /\ counts = [dispatched |-> 0, succeeded |-> 0, failed |-> 0]
  BY DEF ExternalInit
<1>2. NoDispatch \in [type : EventTypes \cup {"none"}, hook : Nat, tries : Nat,
                     results : Seq(OutcomeSet)]
      /\ NoDispatch.hook = 0
  BY DEF NoDispatch
<1>3. Len(Hooks) \in Nat
  BY ExternalAssumption DEF ExternalAssumption
<1> QED
  BY <1>1, <1>2, <1>3 DEF HookTypes, Dispatching

\* A dispatch that moves on stays one.
LEMMA DispatchMoves ==
  ASSUME NEW T, NEW R, NEW d \in [type : T, hook : Nat, tries : Nat, results : R],
         NEW hook \in Nat, NEW tries \in Nat, NEW results \in R,
         NEW moved,
         moved = [d EXCEPT !.hook = hook, !.tries = tries, !.results = results]
  PROVE  /\ moved \in [type : T, hook : Nat, tries : Nat, results : R]
         /\ moved.type = d.type /\ moved.hook = hook
         /\ moved.results = results
OBVIOUS

\* Counters that are counted up stay counters.
LEMMA CountsMove ==
  ASSUME NEW c \in [dispatched : Nat, succeeded : Nat, failed : Nat],
         NEW i \in Nat, NEW j \in Nat, NEW k \in Nat,
         NEW moved,
         moved = [c EXCEPT !.dispatched = i, !.succeeded = j, !.failed = k]
  PROVE  /\ moved \in [dispatched : Nat, succeeded : Nat, failed : Nat]
         /\ moved.dispatched = i /\ moved.succeeded = j /\ moved.failed = k
OBVIOUS

\* Telling a hook, as HookSettled does it, keeps the types of dispatches.
LEMMA SettlingKeepsTypes ==
  ASSUME ExternalAssumption, HookTypes, Sending, NEW success \in BOOLEAN,
         HookSettled(success)
  PROVE  /\ dispatch' \in [type : EventTypes \cup {"none"}, hook : Nat, tries : Nat,
                          results : Seq(OutcomeSet)]
         /\ dispatch.hook \in 1..Len(Hooks)
         /\ dispatch'.type = dispatch.type
         /\ dispatch'.hook = NextHook(dispatch.type, dispatch.hook)
         /\ dispatch'.hook \in (dispatch.hook + 1)..(Len(Hooks) + 1)
         /\ dispatch'.results
              = Append(dispatch.results, [hook |-> dispatch.hook, success |-> success])
         /\ counts' \in [dispatched : Nat, succeeded : Nat, failed : Nat]
         /\ counts'.dispatched = counts.dispatched + 1
         /\ counts'.succeeded = counts.succeeded + (IF success THEN 1 ELSE 0)
         /\ counts'.failed = counts.failed + (IF success THEN 0 ELSE 1)
<1>1. /\ dispatch \in [type : EventTypes \cup {"none"}, hook : Nat, tries : Nat,
                      results : Seq(OutcomeSet)]
      /\ counts \in [dispatched : Nat, succeeded : Nat, failed : Nat]
      /\ dispatch.hook \in 1..Len(Hooks)
      /\ Len(Hooks) \in Nat
  BY DEF HookTypes, Sending, ExternalAssumption
<1>2. PICK n : n = NextHook(dispatch.type, dispatch.hook)
  OBVIOUS
<1>3. n \in (dispatch.hook + 1)..(Len(Hooks) + 1)
  <2>1. dispatch.hook \in 0..Len(Hooks)
    BY <1>1
  <2> QED
    BY <1>2, <2>1, NextHookListens
<1> DEFINE outcome == [hook |-> dispatch.hook, success |-> success]
<1>4. outcome \in OutcomeSet
  BY <1>1 DEF OutcomeSet
<1>5. dispatch' = [dispatch EXCEPT !.hook = n, !.tries = 0,
                                  !.results = Append(dispatch.results, outcome)]
  BY <1>1, <1>2 DEF HookSettled
<1>6. Append(dispatch.results, outcome) \in Seq(OutcomeSet)
  <2>1. dispatch.results \in Seq(OutcomeSet)
    BY <1>1
  <2> HIDE DEF outcome
  <2> QED
    BY <1>4, <2>1
<1>7. counts' = [counts EXCEPT !.dispatched = counts.dispatched + 1,
        !.succeeded = IF success THEN counts.succeeded + 1 ELSE counts.succeeded,
        !.failed = IF success THEN counts.failed ELSE counts.failed + 1]
  BY <1>1 DEF HookSettled
<1>8. /\ dispatch' \in [type : EventTypes \cup {"none"}, hook : Nat, tries : Nat,
                       results : Seq(OutcomeSet)]
      /\ dispatch'.type = dispatch.type /\ dispatch'.hook = n
      /\ dispatch'.results = Append(dispatch.results, outcome)
  <2>1. n \in Nat
    BY <1>1, <1>3
  <2> HIDE DEF outcome
  <2> QED
    BY <1>1, <1>5, <1>6, <2>1, DispatchMoves
<1>9. /\ counts' \in [dispatched : Nat, succeeded : Nat, failed : Nat]
      /\ counts'.dispatched = counts.dispatched + 1
      /\ counts'.succeeded = counts.succeeded + (IF success THEN 1 ELSE 0)
      /\ counts'.failed = counts.failed + (IF success THEN 0 ELSE 1)
  <2>1. counts.dispatched \in Nat /\ counts.succeeded \in Nat /\ counts.failed \in Nat
    BY <1>1
  <2>2. PICK j : j = IF success THEN counts.succeeded + 1 ELSE counts.succeeded
    OBVIOUS
  <2>3. PICK k : k = IF success THEN counts.failed ELSE counts.failed + 1
    OBVIOUS
  <2>4. /\ j \in Nat /\ j = counts.succeeded + (IF success THEN 1 ELSE 0)
        /\ k \in Nat /\ k = counts.failed + (IF success THEN 0 ELSE 1)
        /\ counts.dispatched + 1 \in Nat
    BY <2>1, <2>2, <2>3
  <2>5. counts' = [counts EXCEPT !.dispatched = counts.dispatched + 1,
                                !.succeeded = j, !.failed = k]
    BY <1>7, <2>2, <2>3
  <2> QED
    BY <1>1, <2>4, <2>5, CountsMove
<1> QED
  BY <1>1, <1>2, <1>3, <1>8, <1>9

\* What an attempt leaves in the log, if anything, is an answer to its request.
LEMMA HttpEventTyped ==
  ASSUME RequestTypes, NEW status \in {"ok", "error"}
  PROVE  /\ HttpEvent(status) \in HttpEvents
         /\ HttpEvent(status) \in Events
         /\ HttpEvent(status).request = Len(requests)
         /\ HttpEvent(status).attempt = attempt
         /\ HttpEvent(status).status = status
<1>1. Len(requests) \in Nat /\ attempt \in Nat
  BY DEF RequestTypes
<1> QED
  BY <1>1 DEF HttpEvent, HttpEvents, Events

\* What a dispatch that returns leaves in the log is no such answer.
LEMMA HookEventTyped ==
  ASSUME HookTypes
  PROVE  [type |-> "webhook.dispatched", count |-> Len(dispatch.results),
          successes |-> Cardinality(Succeeded)] \in HookEvents
<1>1. dispatch.results \in Seq(OutcomeSet)
  BY DEF HookTypes
<1>2. Len(dispatch.results) \in Nat /\ DOMAIN dispatch.results = 1..Len(dispatch.results)
  BY <1>1
<1>3. Succeeded \in SUBSET DOMAIN dispatch.results
  BY DEF Succeeded
<1>4. IsFiniteSet(DOMAIN dispatch.results)
  BY <1>2, FS_Interval
<1>5. Cardinality(Succeeded) \in Nat
  BY <1>3, <1>4, FS_Subset, FS_CardinalityType
<1> QED
  BY <1>2, <1>5 DEF HookEvents

\* Every step keeps the types of dispatches and of the log.
LEMMA HookTypesNext ==
  ASSUME ExternalAssumption, RequestTypes, HookTypes, [ExternalNext]_externalVars
  PROVE  HookTypes'
<1>1. Len(Hooks) \in Nat
  BY DEF ExternalAssumption
<1>2. CASE UNCHANGED <<log, hookVars>>
  BY <1>2 DEF HookTypes, hookVars, Dispatching
<1>3. CASE Tick
  BY <1>2, <1>3 DEF Tick
<1>4. ASSUME NEW host \in Hosts,
             RequestRefused(host) \/ RequestLimited(host) \/ RequestAdmitted(host)
      PROVE  HookTypes'
  BY <1>2, <1>4 DEF RequestRefused, RequestLimited, RequestAdmitted
<1>5. CASE AttemptEnds
  <2>1. UNCHANGED hookVars
    BY <1>5 DEF AttemptEnds, AttemptSucceeds, AttemptUnreadable, AttemptDeclined,
                AttemptLost
  <2>2. log' = log \/ log' = Append(log, HttpEvent("ok"))
                 \/ log' = Append(log, HttpEvent("error"))
    BY <1>5 DEF AttemptEnds, AttemptSucceeds, AttemptUnreadable, AttemptDeclined,
                AttemptLost
  <2>3. log \in Seq(Events)
    BY DEF HookTypes
  <2>4. HttpEvent("ok") \in Events /\ HttpEvent("error") \in Events
    BY HttpEventTyped
  <2>5. ASSUME NEW e \in Events, log' = Append(log, e) PROVE log' \in Seq(Events)
    BY <2>3, <2>5
  <2>6. log' \in Seq(Events)
    BY <2>2, <2>3, <2>4, <2>5
  <2> QED
    BY <2>1, <2>6 DEF HookTypes, hookVars, Dispatching
<1>6. ASSUME NEW type \in EventTypes, DispatchStarts(type)
      PROVE  HookTypes'
  <2>1. PICK n : n = NextHook(type, 0)
    OBVIOUS
  <2>2. n \in 1..(Len(Hooks) + 1)
    <3>1. 0 \in 0..Len(Hooks)
      BY <1>1
    <3> QED
      BY <2>1, <3>1, NextHookListens
  <2>3. dispatch' = [type |-> type, hook |-> n, tries |-> 0, results |-> <<>>]
    BY <1>6, <2>1 DEF DispatchStarts
  <2>4. /\ dispatch' \in [type : EventTypes \cup {"none"}, hook : Nat, tries : Nat,
                         results : Seq(OutcomeSet)]
        /\ dispatch'.hook = n /\ dispatch'.type = type
    BY <2>2, <2>3
  <2>5. log' = log /\ dispatches' = dispatches /\ counts' = counts
    BY <1>6 DEF DispatchStarts
  <2> QED
    BY <1>1, <2>2, <2>4, <2>5 DEF HookTypes
<1>7. ASSUME NEW success \in BOOLEAN, Sending, HookSettled(success),
             UNCHANGED <<log, dispatches>>
      PROVE  HookTypes'
  <2>1. /\ dispatch' \in [type : EventTypes \cup {"none"}, hook : Nat, tries : Nat,
                         results : Seq(OutcomeSet)]
        /\ dispatch'.type = dispatch.type
        /\ dispatch.hook \in 1..Len(Hooks)
        /\ dispatch'.hook \in (dispatch.hook + 1)..(Len(Hooks) + 1)
        /\ counts' \in [dispatched : Nat, succeeded : Nat, failed : Nat]
    BY <1>7, SettlingKeepsTypes
  <2>2. dispatch'.hook <= Len(Hooks) + 1 /\ dispatch'.hook > 0
    BY <1>1, <2>1
  <2>3. dispatch.type \in EventTypes
    BY <1>7 DEF HookTypes, Sending
  <2> QED
    BY <1>7, <2>1, <2>2, <2>3 DEF HookTypes
<1>8. CASE HookDelivered
  BY <1>7, <1>8 DEF HookDelivered
<1>9. CASE HookFails
  <2>1. CASE HookSettled(FALSE)
    BY <1>7, <1>9, <2>1 DEF HookFails
  <2>2. CASE dispatch' = [dispatch EXCEPT !.tries = @ + 1] /\ UNCHANGED counts
    <3>1. /\ dispatch' \in [type : EventTypes \cup {"none"}, hook : Nat, tries : Nat,
                           results : Seq(OutcomeSet)]
          /\ dispatch'.type = dispatch.type /\ dispatch'.hook = dispatch.hook
      <4>1. /\ dispatch \in [type : EventTypes \cup {"none"}, hook : Nat, tries : Nat,
                            results : Seq(OutcomeSet)]
            /\ dispatch.tries + 1 \in Nat
        BY DEF HookTypes
      <4>2. dispatch' = [dispatch EXCEPT !.hook = dispatch.hook,
                                          !.results = dispatch.results,
                                        !.tries = dispatch.tries + 1]
        BY <2>2, <4>1
      <4> QED
        BY <4>1, <4>2, DispatchMoves
    <3>2. Dispatching /\ log' = log /\ dispatches' = dispatches
      BY <1>9 DEF HookFails, Sending
    <3> QED
      BY <2>2, <3>1, <3>2 DEF HookTypes
  <2> QED
    BY <1>9, <2>1, <2>2 DEF HookFails
<1>10. ASSUME NEW status \in {"raised", "returned"}, Dispatching,
              dispatch' = NoDispatch,
              dispatches' = Append(dispatches, [type |-> dispatch.type,
                              status |-> status, results |-> dispatch.results]),
              counts' = counts, log' \in Seq(Events)
       PROVE  HookTypes'
  <2>1. [type |-> dispatch.type, status |-> status, results |-> dispatch.results]
          \in DispatchSet
    BY <1>10 DEF HookTypes, DispatchSet
  <2>2. dispatches' \in Seq(DispatchSet)
    BY <1>10, <2>1 DEF HookTypes
  <2>3. NoDispatch \in [type : EventTypes \cup {"none"}, hook : Nat, tries : Nat,
                       results : Seq(OutcomeSet)]
        /\ NoDispatch.hook = 0
    BY DEF NoDispatch
  <2> QED
    BY <1>1, <1>10, <2>2, <2>3 DEF HookTypes, Dispatching
<1>11. CASE HookRaises
  <2>1. log' \in Seq(Events)
    BY <1>11 DEF HookRaises, HookTypes
  <2> QED
    BY <1>10, <1>11, <2>1 DEF HookRaises, Sending
<1>12. CASE DispatchReturns
  <2>1. log' \in Seq(Events)
    <3> DEFINE event == [type |-> "webhook.dispatched", count |-> Len(dispatch.results),
                         successes |-> Cardinality(Succeeded)]
    <3>1. event \in Events
      BY HookEventTyped DEF Events
    <3>2. log' = log \/ log' = Append(log, event)
      BY <1>12 DEF DispatchReturns
    <3>3. log \in Seq(Events)
      BY DEF HookTypes
    <3> HIDE DEF event
    <3> QED
      BY <3>1, <3>2, <3>3
  <2> QED
    BY <1>10, <1>12, <2>1 DEF DispatchReturns
<1>13. CASE UNCHANGED externalVars
  BY <1>2, <1>13 DEF externalVars
<1> QED
  BY <1>3, <1>4, <1>5, <1>6, <1>8, <1>9, <1>11, <1>12, <1>13 DEF ExternalNext, HookStep

--------------------------------------------------------------------------------
(* Effects and answers.                                                    *)

\* Only the last request can be under way, within its attempts; what it caused
\* and what was answered so far belongs to the attempts before.
Underway ==
  \A i \in DOMAIN requests : requests[i].status = "running" =>
    /\ i = Len(requests)
    /\ attempt \in 1..MaxRetries
    /\ Effects(i) < attempt
    /\ \A k \in AnswersTo(i) : log[k].attempt < attempt

\* What reached the service and what was answered are of requests let through.
OfAdmitted ==
  /\ \A k \in DOMAIN received :
       \E i \in DOMAIN requests : received[k] = i /\ Admitted(i)
  /\ \A k \in Answers :
       \E i \in DOMAIN requests : log[k].request = i /\ Admitted(i)

EffectsInv == RequestTypes /\ HookTypes /\ Underway /\ OfAdmitted /\ EffectsAccounted

\* Answers are told apart by their type.
LEMMA AnswersPositions ==
  ASSUME log \in Seq(Events)
  PROVE  Answers = Positions(log, HttpEvents)
<1>1. \A k \in DOMAIN log : log[k] \in Events
  OBVIOUS
<1>2. \A e \in Events : e.type = "gateway.http.request" <=> e \in HttpEvents
  BY DEF Events, HttpEvents, HookEvents
<1> QED
  BY <1>1, <1>2 DEF Answers, Positions

\* An answer adds itself to the answers, and to those to its request.
LEMMA AnswerAppended ==
  ASSUME log \in Seq(Events), NEW e \in HttpEvents, log' = Append(log, e)
  PROVE  /\ Cardinality(Answers)' = Cardinality(Answers) + 1
         /\ Cardinality(Answers) \in Nat
         /\ Answers' = Answers \cup {Len(log) + 1}
         /\ AnswersTo(e.request)' = AnswersTo(e.request) \cup {Len(log) + 1}
         /\ \A i : i # e.request => AnswersTo(i)' = AnswersTo(i)
         /\ \A k \in Answers : k \in 1..Len(log) /\ log'[k] = log[k]
         /\ log'[Len(log) + 1] = e
         /\ Len(log) \in Nat
<1>1. e \in Events
  BY DEF Events
<1>2. /\ Len(log) \in Nat /\ DOMAIN log = 1..Len(log)
      /\ \A k \in 1..Len(log) : log'[k] = log[k]
      /\ log'[Len(log) + 1] = e
      /\ log' \in Seq(Events)
  BY <1>1
<1>3. Answers = Positions(log, HttpEvents)
  BY AnswersPositions
<1>4. Answers' = Positions(log', HttpEvents)
  <2>1. \A k \in DOMAIN log' : log'[k] \in Events
    BY <1>2
  <2>2. \A d \in Events : d.type = "gateway.http.request" <=> d \in HttpEvents
    BY DEF Events, HttpEvents, HookEvents
  <2> QED
    BY <2>1, <2>2 DEF Answers, Positions
<1>5. PICK l : l = log'
  OBVIOUS
<1>6. /\ Positions(l, HttpEvents) = Positions(log, HttpEvents) \cup {Len(log) + 1}
      /\ Cardinality(Positions(l, HttpEvents))
           = Cardinality(Positions(log, HttpEvents)) + 1
  <2>1. l = Append(log, e) /\ log \in Seq(Events) /\ e \in Events /\ e \in HttpEvents
    BY <1>1, <1>5
  <2> QED
    BY <2>1, PositionsAppended
<1>7. /\ Answers' = Answers \cup {Len(log) + 1}
      /\ Cardinality(Answers') = Cardinality(Answers) + 1
      /\ Cardinality(Answers) \in Nat
  BY <1>3, <1>4, <1>5, <1>6, PositionsFinite
<1>8. Answers \subseteq 1..Len(log)
  BY <1>2 DEF Answers
<1>9. AnswersTo(e.request)' = AnswersTo(e.request) \cup {Len(log) + 1}
  BY <1>2, <1>7, <1>8 DEF AnswersTo
<1>10. ASSUME NEW i, i # e.request PROVE AnswersTo(i)' = AnswersTo(i)
  BY <1>2, <1>7, <1>8, <1>10 DEF AnswersTo
<1> QED
  BY <1>2, <1>7, <1>8, <1>9, <1>10

\* A dispatch that is logged answers no request.
LEMMA AnswersStay ==
  ASSUME log \in Seq(Events), log' = log \/ \E e \in HookEvents : log' = Append(log, e)
  PROVE  /\ Answers' = Answers
         /\ \A i : AnswersTo(i)' = AnswersTo(i)
         /\ \A k \in Answers : log'[k] = log[k]
<1>1. CASE log' = log
  BY <1>1 DEF Answers, AnswersTo
<1>2. ASSUME NEW e \in HookEvents, log' = Append(log, e)
      PROVE  Answers' = Answers /\ \A k \in Answers : log'[k] = log[k]
  <2>1. e.type # "gateway.http.request"
    BY DEF HookEvents
  <2>2. /\ Len(log) \in Nat /\ DOMAIN log = 1..Len(log)
        /\ DOMAIN log' = 1..(Len(log) + 1)
        /\ \A k \in 1..Len(log) : log'[k] = log[k]
        /\ log'[Len(log) + 1] = e
    BY <1>2
  <2>3. \A k \in DOMAIN log' : k \in DOMAIN log \/ k = Len(log) + 1
    BY <2>2
  <2>4. DOMAIN log \subseteq DOMAIN log'
    BY <2>2
  <2> QED
    BY <2>1, <2>2, <2>3, <2>4 DEF Answers
<1>3. Answers' = Answers /\ \A k \in Answers : log'[k] = log[k]
  BY <1>1, <1>2
<1> QED
  BY <1>3 DEF AnswersTo

\* An effect adds to those of its request.
LEMMA EffectAppended ==
  ASSUME RequestTypes
  PROVE  /\ \A i : Effects(i) \in Nat
         /\ received' = received => \A i : Effects(i)' = Effects(i)
         /\ \A n \in Nat : received' = Append(received, n) =>
              /\ Effects(n)' = Effects(n) + 1
              /\ \A i : i # n => Effects(i)' = Effects(i)
              /\ Len(received') = Len(received) + 1
<1>1. received \in Seq(Nat)
  BY DEF RequestTypes
<1>2. \A i : Effects(i) = Cardinality(Positions(received, {i}))
  BY DEF Effects, Positions
<1>3. \A i : Effects(i)' = Cardinality(Positions(received', {i}))
  BY DEF Effects, Positions
<1>4. \A i : Effects(i) \in Nat
  BY <1>1, <1>2, PositionsFinite
<1>5. received' = received => \A i : Effects(i)' = Effects(i)
  BY <1>2, <1>3
<1>6. ASSUME NEW n \in Nat, received' = Append(received, n)
      PROVE  /\ Effects(n)' = Effects(n) + 1
             /\ \A i : i # n => Effects(i)' = Effects(i)
             /\ Len(received') = Len(received) + 1
  <2>1. PICK l : l = received'
    OBVIOUS
  <2>2. ASSUME NEW i
        PROVE  /\ i = n => Cardinality(Positions(l, {i}))
                             = Cardinality(Positions(received, {i})) + 1
               /\ i # n => Positions(l, {i}) = Positions(received, {i})
    <3>1. n \in {i} <=> i = n
      OBVIOUS
    <3>2. l = Append(received, n) /\ received \in Seq(Nat) /\ n \in Nat
      BY <1>1, <1>6, <2>1
    <3>3. /\ n \in {i} => Cardinality(Positions(l, {i}))
                           = Cardinality(Positions(received, {i})) + 1
          /\ n \notin {i} => Positions(l, {i}) = Positions(received, {i})
      BY <3>2, PositionsAppended
    <3> QED
      BY <3>1, <3>3
  <2>3. Len(received') = Len(received) + 1
    BY <1>1, <1>6
  <2> QED
    BY <1>2, <1>3, <2>1, <2>2, <2>3
<1> QED
  BY <1>4, <1>5, <1>6

\* The answers of one status are counted by their places in the log.
LEMMA AnswersThatCounted ==
  ASSUME log \in Seq(Events), NEW status
  PROVE  /\ Cardinality(AnswersThat(status)) \in Nat
         /\ \A e \in HttpEvents : log' = Append(log, e) =>
              Cardinality(AnswersThat(status)')
                = IF e.status = status THEN Cardinality(AnswersThat(status)) + 1
                                       ELSE Cardinality(AnswersThat(status))
         /\ log' = log \/ (\E e \in HookEvents : log' = Append(log, e)) =>
              AnswersThat(status)' = AnswersThat(status)
<1> DEFINE Wanted == {e \in HttpEvents : e.status = status}
<1>1. AnswersThat(status) = Positions(log, Wanted)
  BY AnswersPositions DEF AnswersThat, Positions
<1>2. ASSUME NEW e \in HttpEvents, log' = Append(log, e)
      PROVE  Cardinality(AnswersThat(status)')
               = IF e.status = status THEN Cardinality(AnswersThat(status)) + 1
                                      ELSE Cardinality(AnswersThat(status))
  <2>1. PICK l : l = log'
    OBVIOUS
  <2>2. e \in Events /\ l = Append(log, e) /\ (e \in Wanted <=> e.status = status)
    BY <1>2, <2>1 DEF Events
  <2>3. l \in Seq(Events)
    BY <2>2
  <2>4. AnswersThat(status)' = Positions(l, Wanted)
    <3>1. \A k \in DOMAIN l : l[k] \in Events
      BY <2>3
    <3>2. \A d \in Events : d.type = "gateway.http.request" <=> d \in HttpEvents
      BY DEF Events, HttpEvents, HookEvents
    <3> QED
      BY <2>1, <3>1, <3>2 DEF AnswersThat, Answers, Positions
  <2>5. /\ e \in Wanted => Cardinality(Positions(l, Wanted))
                            = Cardinality(Positions(log, Wanted)) + 1
        /\ e \notin Wanted => Positions(l, Wanted) = Positions(log, Wanted)
    <3> HIDE DEF Wanted
    <3> QED
      BY <2>2, PositionsAppended
  <2> QED
    BY <1>1, <2>2, <2>4, <2>5
<1>3. ASSUME log' = log \/ \E e \in HookEvents : log' = Append(log, e)
      PROVE  AnswersThat(status)' = AnswersThat(status)
  BY <1>3, AnswersStay DEF AnswersThat
<1>4. Cardinality(Positions(log, Wanted)) \in Nat
  BY PositionsFinite
<1> QED
  BY <1>1, <1>2, <1>3, <1>4

\* The requests that succeeded are counted by their places.
LEMMA RequestsThatCounted ==
  ASSUME RequestTypes
  PROVE  /\ IsFiniteSet(RequestsThat("succeeded"))
         /\ Cardinality(RequestsThat("succeeded")) \in Nat
<1>1. RequestsThat("succeeded") \in SUBSET (1..Len(requests)) /\ Len(requests) \in Nat
  BY DEF RequestsThat, RequestTypes
<1>2. IsFiniteSet(1..Len(requests))
  BY <1>1, FS_Interval
<1> QED
  BY <1>1, <1>2, FS_Subset, FS_CardinalityType

\* However an attempt ends, it is counted: as the success of its request, as an
\* answer with an error status or as an error.
LEMMA CountedAttempt ==
  ASSUME EffectsInv, AttemptEnds
  PROVE  EffectsCounted'
<1>1. /\ RequestTypes /\ log \in Seq(Events) /\ errors \in Nat
      /\ received \in Seq(Nat) /\ EffectsCounted
  BY DEF EffectsInv, HookTypes, RequestTypes, EffectsAccounted
<1>2. PICK last : last = Len(requests)
  OBVIOUS
<1>3. /\ Requesting /\ last \in DOMAIN requests /\ last \in Nat
      /\ requests[last].status = "running"
  <2>1. requests \in Seq(RequestSet) /\ Requesting
    BY <1>1, AttemptsSettle DEF RequestTypes
  <2> QED
    BY <1>2, <2>1 DEF Requesting
<1> DEFINE ok == Cardinality(AnswersThat("ok"))
           error == Cardinality(AnswersThat("error"))
           success == Cardinality(RequestsThat("succeeded"))
<1>4. /\ ok \in Nat /\ error \in Nat /\ success \in Nat /\ Len(received) \in Nat
      /\ Len(received) <= error + success + errors
      /\ ok <= success + errors
  BY <1>1, AnswersThatCounted, RequestsThatCounted DEF EffectsCounted
<1>5. log' = log => ok' = ok /\ error' = error
  BY <1>1, AnswersThatCounted
<1>6. ASSUME NEW status \in {"ok", "error"}, log' = Append(log, HttpEvent(status))
      PROVE  /\ status = "ok" => ok' = ok + 1 /\ error' = error
             /\ status = "error" => ok' = ok /\ error' = error + 1
  <2>1. PICK e \in HttpEvents : log' = Append(log, e) /\ e.status = status
    BY <1>1, <1>6, HttpEventTyped
  <2> QED
    BY <1>1, <2>1, AnswersThatCounted
<1>7. received' = Append(received, last) => Len(received') = Len(received) + 1
  BY <1>1, <1>3
<1>8. NextAttempt => success' = success
  <2>1. CASE requests' = requests
    BY <2>1 DEF RequestsThat
  <2>2. CASE requests' = Settled("failed")
    <3>1. /\ DOMAIN requests' = DOMAIN requests
          /\ \A i \in DOMAIN requests : i # last => requests'[i] = requests[i]
          /\ requests'[last].status = "failed"
      BY <1>1, <1>2, <1>3, <2>2, Settles
    <3>2. RequestsThat("succeeded")' = RequestsThat("succeeded")
      BY <1>3, <3>1 DEF RequestsThat
    <3> QED
      BY <3>2
  <2> QED
    BY <2>1, <2>2 DEF NextAttempt
<1>9. requests' = Settled("succeeded") => success' = success + 1
  <2>1. SUFFICES ASSUME requests' = Settled("succeeded") PROVE success' = success + 1
    OBVIOUS
  <2>2. /\ DOMAIN requests' = DOMAIN requests
        /\ \A i \in DOMAIN requests : i # last => requests'[i] = requests[i]
        /\ requests'[last].status = "succeeded"
    BY <1>1, <1>2, <1>3, <2>1, Settles
  <2>3. /\ RequestsThat("succeeded")' = RequestsThat("succeeded") \cup {last}
        /\ last \notin RequestsThat("succeeded")
    BY <1>3, <2>2 DEF RequestsThat
  <2> QED
    BY <1>1, <2>3, RequestsThatCounted, FS_AddElement
<1> HIDE DEF ok, error, success
<1>10. /\ Len(received') <= error' + success' + errors'
       /\ ok' <= success' + errors'
  <2>1. CASE AttemptSucceeds
    <3>1. /\ received' = Append(received, last) /\ errors' = errors
          /\ log' = Append(log, HttpEvent("ok")) /\ requests' = Settled("succeeded")
      BY <1>2, <2>1 DEF AttemptSucceeds
    <3> QED
      BY <1>1, <1>4, <1>6, <1>7, <1>9, <3>1
  <2>2. CASE AttemptUnreadable
    <3>1. /\ received' = Append(received, last) /\ errors' = errors + 1
          /\ log' = Append(log, HttpEvent("ok")) /\ NextAttempt
      BY <1>2, <2>2 DEF AttemptUnreadable
    <3> QED
      BY <1>1, <1>4, <1>6, <1>7, <1>8, <3>1
  <2>3. CASE AttemptDeclined
    <3>1. /\ received' = received \/ received' = Append(received, last)
          /\ errors' = errors
          /\ log' = Append(log, HttpEvent("error")) /\ NextAttempt
      BY <1>2, <2>3 DEF AttemptDeclined
    <3> QED
      BY <1>1, <1>4, <1>6, <1>7, <1>8, <3>1
  <2>4. CASE AttemptLost
    <3>1. /\ received' = received \/ received' = Append(received, last)
          /\ errors' = errors + 1 /\ log' = log /\ NextAttempt
      BY <1>2, <2>4 DEF AttemptLost
    <3> QED
      BY <1>1, <1>4, <1>5, <1>7, <1>8, <3>1
  <2> QED
    BY <2>1, <2>2, <2>3, <2>4 DEF AttemptEnds
<1> QED
  BY <1>10 DEF EffectsCounted, ok, error, success

\* Nothing was sent at first.
LEMMA EffectsInit == ExternalInit => EffectsInv
<1> SUFFICES ASSUME ExternalInit PROVE EffectsInv
  OBVIOUS
<1>1. requests = <<>> /\ received = <<>> /\ log = <<>> /\ errors = 0
  BY DEF ExternalInit
<1>2. Answers = {} /\ Cardinality(Answers) = 0
  BY <1>1, FS_EmptySet DEF Answers
<1>3. EffectsAccounted
  <2>1. \A status : AnswersThat(status) = {} /\ RequestsThat(status) = {}
    BY <1>1, <1>2 DEF AnswersThat, RequestsThat
  <2>2. EffectsCounted
    BY <1>1, <2>1, FS_EmptySet DEF EffectsCounted
  <2> QED
    BY <1>1, <2>2 DEF EffectsAccounted
<1>4. Underway /\ OfAdmitted
  BY <1>1, <1>2 DEF Underway, OfAdmitted
<1> QED
  BY <1>3, <1>4, RequestTypesInit, HookTypesInit DEF EffectsInv

\* A request that is asked for has no effects and no answers yet.
LEMMA NothingYet ==
  ASSUME EffectsInv, NEW n, n \notin DOMAIN requests
  PROVE  Effects(n) = 0 /\ AnswersTo(n) = {}
<1>1. {k \in DOMAIN received : received[k] = n} = {}
  BY DEF EffectsInv, OfAdmitted
<1>2. AnswersTo(n) = {}
  BY DEF EffectsInv, OfAdmitted, AnswersTo
<1> QED
  BY <1>1, <1>2, FS_EmptySet DEF Effects

\* Asking keeps the account (HTTPGateway.execute_request up to its first attempt).
LEMMA EffectsAsked ==
  ASSUME ExternalAssumption, EffectsInv, NEW host \in Hosts,
         RequestRefused(host) \/ RequestLimited(host) \/ RequestAdmitted(host)
  PROVE  Underway' /\ OfAdmitted' /\ EffectsAccounted'
<1>1. RequestTypes /\ Underway /\ OfAdmitted /\ EffectsAccounted /\ MaxRetries \in Nat
  BY DEF EffectsInv, ExternalAssumption
<1>2. PICK status \in {"refused", "limited", "running", "failed", "succeeded"} :
        /\ requests' = Append(requests, Request(now, status))
        /\ status # "succeeded"
        /\ status = "running" => MaxRetries # 0 /\ attempt' = 1
  BY DEF RequestRefused, RequestLimited, RequestAdmitted
<1>3. UNCHANGED <<errors, received, log>> /\ ~Requesting
  BY DEF RequestRefused, RequestLimited, RequestAdmitted, Calm
<1>4. PICK n : n = Len(requests) + 1
  OBVIOUS
<1>5. /\ n \in Nat /\ n \notin DOMAIN requests /\ n = Len(requests')
      /\ DOMAIN requests' = DOMAIN requests \cup {n}
      /\ \A i \in DOMAIN requests : requests'[i] = requests[i]
      /\ requests'[n].status = status
  <2>1. /\ requests' \in Seq(RequestSet)
        /\ Len(requests) \in Nat
        /\ DOMAIN requests = 1..Len(requests)
        /\ DOMAIN requests' = 1..(Len(requests) + 1)
        /\ \A i \in DOMAIN requests : requests'[i] = requests[i]
        /\ requests'[Len(requests) + 1].status = status
    BY <1>1, <1>2, Asked
  <2>2. 1..n = (1..(n - 1)) \cup {n} /\ n \in Nat
    BY <1>4, <2>1
  <2> QED
    BY <1>4, <2>1, <2>2
<1>6. \A i \in DOMAIN requests : requests[i].status # "running"
  <2>1. requests \in Seq(RequestSet)
    BY <1>1 DEF RequestTypes
  <2> QED
    BY <1>1, <1>3, <2>1 DEF Underway, Requesting
<1>7. /\ Effects(n) = 0 /\ AnswersTo(n) = {}
      /\ Answers' = Answers
      /\ \A i : Effects(i)' = Effects(i) /\ AnswersTo(i)' = AnswersTo(i)
  <2>1. Effects(n) = 0 /\ AnswersTo(n) = {}
    BY <1>5, NothingYet
  <2>2. Answers' = Answers
    BY <1>3 DEF Answers
  <2>3. \A i : AnswersTo(i)' = AnswersTo(i)
    BY <1>3, <2>2 DEF AnswersTo
  <2>4. \A i : Effects(i)' = Effects(i)
    BY <1>3 DEF Effects
  <2> QED
    BY <2>1, <2>2, <2>3, <2>4
<1>8. Underway'
  <2>1. ASSUME NEW i \in DOMAIN requests', requests'[i].status = "running"
        PROVE  /\ i = Len(requests')
               /\ attempt' \in 1..MaxRetries
               /\ Effects(i)' < attempt'
               /\ \A k \in AnswersTo(i)' : log'[k].attempt < attempt'
    <3>1. i = n /\ status = "running"
      BY <1>5, <1>6, <2>1
    <3> QED
      BY <1>1, <1>2, <1>5, <1>7, <3>1
  <2> QED
    BY <2>1 DEF Underway
<1>9. \A i \in DOMAIN requests : Admitted(i)' <=> Admitted(i)
  BY <1>5 DEF Admitted
<1>10. OfAdmitted'
  BY <1>1, <1>3, <1>5, <1>7, <1>9 DEF OfAdmitted
<1>11. ASSUME NEW i \in DOMAIN requests' PROVE RequestAccounted(i)'
  <2>1. CASE i = n
    BY <1>1, <1>2, <1>5, <1>7, <2>1 DEF RequestAccounted
  <2>2. CASE i \in DOMAIN requests
    <3>1. RequestAccounted(i)
      BY <1>1, <2>2 DEF EffectsAccounted
    <3> QED
      BY <1>3, <1>5, <1>7, <1>9, <2>2, <3>1 DEF RequestAccounted
  <2> QED
    BY <1>5, <2>1, <2>2
<1>12. EffectsCounted'
  <2>1. RequestsThat("succeeded")' = RequestsThat("succeeded")
    BY <1>2, <1>5 DEF RequestsThat
  <2>2. \A s : AnswersThat(s)' = AnswersThat(s)
    BY <1>3, <1>7 DEF AnswersThat
  <2> QED
    BY <1>1, <1>3, <2>1, <2>2 DEF EffectsAccounted, EffectsCounted
<1>13. EffectsAccounted'
  BY <1>11, <1>12 DEF EffectsAccounted
<1> QED
  BY <1>8, <1>10, <1>13

\* What an attempt leaves behind, however it ends: at most one more effect and
\* one more answer, both of the request under way.
LEMMA AttemptLeaves ==
  ASSUME EffectsInv, AttemptEnds, NEW last, last = Len(requests)
  PROVE  /\ last \in DOMAIN requests /\ requests[last].status = "running"
         /\ \A i : Effects(i) \in Nat
         /\ \A i : i # last => Effects(i)' = Effects(i) /\ AnswersTo(i)' = AnswersTo(i)
         /\ Effects(last)' = Effects(last) \/ Effects(last)' = Effects(last) + 1
         /\ \A k \in DOMAIN received' :
              \/ k \in DOMAIN received /\ received'[k] = received[k]
              \/ received'[k] = last
         /\ Len(log) \in Nat
         /\ \A k \in Answers : k \in 1..Len(log) /\ log'[k] = log[k]
         /\ \/ Answers' = Answers /\ AnswersTo(last)' = AnswersTo(last)
            \/ /\ Answers' = Answers \cup {Len(log) + 1}
               /\ AnswersTo(last)' = AnswersTo(last) \cup {Len(log) + 1}
               /\ log'[Len(log) + 1].request = last
               /\ log'[Len(log) + 1].attempt = attempt
         /\ \/ NextAttempt
            \/ /\ requests' = Settled("succeeded")
               /\ Effects(last)' = Effects(last) + 1
               /\ Len(log) + 1 \in AnswersTo(last)'
               /\ log'[Len(log) + 1].status = "ok"
<1>1. RequestTypes /\ HookTypes /\ log \in Seq(Events) /\ errors \in Nat
  BY DEF EffectsInv, HookTypes, RequestTypes
<1>2. last \in DOMAIN requests /\ requests[last].status = "running" /\ last \in Nat
  <2>1. requests \in Seq(RequestSet) /\ Requesting
    BY <1>1, AttemptsSettle DEF RequestTypes
  <2> QED
    BY <2>1 DEF Requesting
<1>3. \/ received' = Append(received, last)
      \/ received' = received
  BY DEF AttemptEnds, AttemptSucceeds, AttemptUnreadable, AttemptDeclined, AttemptLost
<1>4. \/ log' = log
      \/ \E status \in {"ok", "error"} : log' = Append(log, HttpEvent(status))
  BY DEF AttemptEnds, AttemptSucceeds, AttemptUnreadable, AttemptDeclined, AttemptLost
<1>5. /\ \A i : Effects(i) \in Nat
      /\ \A i : i # last => Effects(i)' = Effects(i)
      /\ received' = received => Effects(last)' = Effects(last)
      /\ received' = Append(received, last) =>
           Effects(last)' = Effects(last) + 1 /\ Len(received') = Len(received) + 1
  BY <1>1, <1>2, <1>3, EffectAppended
<1>6. \A k \in DOMAIN received' :
        \/ k \in DOMAIN received /\ received'[k] = received[k]
        \/ received'[k] = last
  <2>1. received \in Seq(Nat)
    BY <1>1 DEF RequestTypes
  <2> QED
    BY <1>2, <1>3, <2>1
<1>7. ASSUME NEW status \in {"ok", "error"}, log' = Append(log, HttpEvent(status))
      PROVE  /\ Cardinality(Answers)' = Cardinality(Answers) + 1
             /\ Answers' = Answers \cup {Len(log) + 1}
             /\ AnswersTo(last)' = AnswersTo(last) \cup {Len(log) + 1}
             /\ \A i : i # last => AnswersTo(i)' = AnswersTo(i)
             /\ \A k \in Answers : log'[k] = log[k]
             /\ log'[Len(log) + 1].request = last
             /\ log'[Len(log) + 1].attempt = attempt
             /\ log'[Len(log) + 1].status = status
  <2>1. PICK e \in HttpEvents : /\ log' = Append(log, e) /\ e.request = last
                                /\ e.attempt = attempt /\ e.status = status
    BY <1>1, <1>7, HttpEventTyped
  <2> QED
    BY <1>1, <2>1, AnswerAppended
<1>8. log' = log => /\ Answers' = Answers
                    /\ \A i : AnswersTo(i)' = AnswersTo(i)
                    /\ \A k \in Answers : log'[k] = log[k]
  BY DEF Answers, AnswersTo
<1>9. Len(log) \in Nat /\ \A k \in Answers : k \in 1..Len(log)
  BY <1>1 DEF Answers
<1>10. \/ NextAttempt
       \/ /\ requests' = Settled("succeeded")
          /\ received' = Append(received, last)
          /\ log' = Append(log, HttpEvent("ok"))
  BY DEF AttemptEnds, AttemptSucceeds, AttemptUnreadable, AttemptDeclined, AttemptLost
<1>11. \/ NextAttempt
       \/ /\ requests' = Settled("succeeded")
          /\ Effects(last)' = Effects(last) + 1
          /\ Len(log) + 1 \in AnswersTo(last)'
          /\ log'[Len(log) + 1].status = "ok"
  BY <1>5, <1>7, <1>10
<1>12. \/ Answers' = Answers /\ AnswersTo(last)' = AnswersTo(last)
       \/ /\ Answers' = Answers \cup {Len(log) + 1}
          /\ AnswersTo(last)' = AnswersTo(last) \cup {Len(log) + 1}
          /\ log'[Len(log) + 1].request = last
          /\ log'[Len(log) + 1].attempt = attempt
  BY <1>4, <1>7, <1>8
<1>13. /\ \A i : i # last => AnswersTo(i)' = AnswersTo(i)
       /\ \A k \in Answers : log'[k] = log[k]
  BY <1>4, <1>7, <1>8
<1> QED
  BY <1>2, <1>3, <1>5, <1>6, <1>9, <1>11, <1>12, <1>13

\* However an attempt ends, the account is kept (HTTPGateway.execute_request).
LEMMA EffectsAttempt ==
  ASSUME ExternalAssumption, EffectsInv, AttemptEnds
  PROVE  Underway' /\ OfAdmitted' /\ EffectsAccounted'
<1>1. PICK last : last = Len(requests)
  OBVIOUS
<1>2. PICK end : end = Len(log) + 1
  OBVIOUS
<1>3. /\ RequestTypes /\ Underway /\ OfAdmitted /\ EffectsAccounted
      /\ MaxRetries \in Nat /\ attempt \in Nat /\ log \in Seq(Events)
  BY DEF EffectsInv, ExternalAssumption, RequestTypes, HookTypes
<1>4. /\ last \in DOMAIN requests /\ requests[last].status = "running"
      /\ \A i : Effects(i) \in Nat
      /\ \A i : i # last => Effects(i)' = Effects(i) /\ AnswersTo(i)' = AnswersTo(i)
      /\ Effects(last)' = Effects(last) \/ Effects(last)' = Effects(last) + 1
      /\ \A k \in DOMAIN received' :
           \/ k \in DOMAIN received /\ received'[k] = received[k]
           \/ received'[k] = last
      /\ end \in Nat
      /\ \A k \in Answers : k \in 1..(end - 1) /\ log'[k] = log[k]
      /\ \/ Answers' = Answers /\ AnswersTo(last)' = AnswersTo(last)
         \/ /\ Answers' = Answers \cup {end}
            /\ AnswersTo(last)' = AnswersTo(last) \cup {end}
            /\ log'[end].request = last
            /\ log'[end].attempt = attempt
      /\ \/ NextAttempt
         \/ /\ requests' = Settled("succeeded")
            /\ Effects(last)' = Effects(last) + 1
            /\ end \in AnswersTo(last)'
            /\ log'[end].status = "ok"
  BY <1>1, <1>2, AttemptLeaves
<1>5. /\ attempt \in 1..MaxRetries /\ Effects(last) < attempt
      /\ \A k \in AnswersTo(last) : log[k].attempt < attempt
  BY <1>3, <1>4 DEF Underway
<1>6. /\ DOMAIN requests' = DOMAIN requests
      /\ \A i \in DOMAIN requests :
           /\ i # last => requests'[i] = requests[i]
           /\ Admitted(i)' <=> Admitted(i)
  BY <1>1, <1>3, AttemptsKeepRequests
<1>7. Admitted(last)
  BY <1>4 DEF Admitted
<1>8. Effects(last)' \in Nat /\ Effects(last)' <= attempt
  BY <1>3, <1>4, <1>5
<1>9. /\ \A k \in AnswersTo(last)' : log'[k].attempt <= attempt
      /\ \A k, l \in AnswersTo(last)' : k < l => log'[k].attempt < log'[l].attempt
      /\ \A k \in AnswersTo(last)' : k <= end
  <2>1. \A k, l \in AnswersTo(last) : k < l => log[k].attempt < log[l].attempt
    BY <1>3, <1>4 DEF EffectsAccounted, RequestAccounted
  <2>2. \A k \in AnswersTo(last) :
          /\ k \in 1..(end - 1) /\ log'[k] = log[k]
          /\ log[k].attempt \in Nat
    <3>1. \A k \in AnswersTo(last) : k \in Answers
      BY DEF AnswersTo
    <3>2. \A k \in Answers : log[k] \in HttpEvents
      BY <1>3, AnswersPositions DEF Positions
    <3>3. \A e \in HttpEvents : e.attempt \in Nat
      BY DEF HttpEvents
    <3> QED
      BY <1>4, <3>1, <3>2, <3>3
  <2>3. CASE AnswersTo(last)' = AnswersTo(last)
    <3>1. \A k \in AnswersTo(last) : log'[k].attempt < attempt
      BY <1>5, <2>2
    <3>2. \A k, l \in AnswersTo(last) : k < l => log'[k].attempt < log'[l].attempt
      BY <2>1, <2>2
    <3>3. \A k \in AnswersTo(last) : k <= end
      BY <1>4, <2>2
    <3>4. \A k \in AnswersTo(last) : log'[k].attempt \in Nat
      BY <2>2
    <3> QED
      BY <1>3, <2>3, <3>1, <3>2, <3>3, <3>4
  <2>4. CASE /\ AnswersTo(last)' = AnswersTo(last) \cup {end}
             /\ log'[end].attempt = attempt
    <3>1. \A k \in AnswersTo(last)' :
            \/ k \in AnswersTo(last) /\ log'[k].attempt < attempt
            \/ k = end
      BY <1>5, <2>2, <2>4
    <3>2. \A k, l \in AnswersTo(last) : k < l => log'[k].attempt < log'[l].attempt
      BY <2>1, <2>2
    <3>3. \A k \in AnswersTo(last) : k < end /\ k \in Nat
      BY <1>4, <2>2
    <3>4. \A k \in AnswersTo(last) : log'[k].attempt \in Nat
      BY <2>2
    <3>5. \A k \in AnswersTo(last)' : log'[k].attempt <= attempt /\ k <= end
      BY <1>3, <1>4, <2>4, <3>1, <3>3, <3>4
    <3>6. ASSUME NEW k \in AnswersTo(last)', NEW l \in AnswersTo(last)', k < l
          PROVE  log'[k].attempt < log'[l].attempt
      <4>1. k # end
        BY <1>4, <3>1, <3>3, <3>6
      <4>2. k \in AnswersTo(last) /\ log'[k].attempt < attempt
        BY <3>1, <4>1
      <4> QED
        BY <2>4, <3>1, <3>2, <3>6, <4>2
    <3> QED
      BY <3>5, <3>6
  <2> QED
    BY <1>4, <2>3, <2>4
<1>10. \/ /\ requests' = requests /\ attempt < MaxRetries
           /\ attempt' = attempt + 1
       \/ requests' = Settled("failed")
       \/ /\ requests' = Settled("succeeded")
          /\ Effects(last)' > 0
          /\ end \in AnswersTo(last)' /\ log'[end].status = "ok"
  BY <1>4 DEF NextAttempt
<1>11. /\ requests' = Settled("failed") => requests'[last].status = "failed"
       /\ requests' = Settled("succeeded") => requests'[last].status = "succeeded"
  BY <1>1, <1>3, AttemptsSettle, Settles
<1>12. Underway'
  <2>1. ASSUME NEW i \in DOMAIN requests', requests'[i].status = "running"
        PROVE  /\ i = Len(requests')
               /\ attempt' \in 1..MaxRetries
               /\ Effects(i)' < attempt'
               /\ \A k \in AnswersTo(i)' : log'[k].attempt < attempt'
    <3>1. i = last
      BY <1>1, <1>3, <1>6, <2>1 DEF Underway
    <3>2. requests' = requests /\ attempt < MaxRetries /\ attempt' = attempt + 1
      BY <1>10, <1>11, <2>1, <3>1
    <3>3. \A k \in AnswersTo(last)' : log'[k].attempt < attempt + 1
      <4>1. \A k \in AnswersTo(last)' : log'[k].attempt \in Int
        <5>1. \A k \in AnswersTo(last) : k \in Answers
          BY DEF AnswersTo
        <5>2. \A k \in Answers : log[k] \in HttpEvents
          BY <1>3, AnswersPositions DEF Positions
        <5>3. \A e \in HttpEvents : e.attempt \in Nat
          BY DEF HttpEvents
        <5> QED
          BY <1>3, <1>4, <5>1, <5>2, <5>3
      <4> QED
        BY <1>3, <1>9, <4>1
    <3> QED
      BY <1>1, <1>3, <1>5, <1>8, <3>1, <3>2, <3>3
  <2> QED
    BY <2>1 DEF Underway
<1>13. OfAdmitted'
  <2>1. \A k \in DOMAIN received' :
          \E i \in DOMAIN requests' : received'[k] = i /\ Admitted(i)'
    BY <1>3, <1>4, <1>6, <1>7 DEF OfAdmitted
  <2>2. \A k \in Answers' :
          \E i \in DOMAIN requests' : log'[k].request = i /\ Admitted(i)'
    <3>1. ASSUME NEW k \in Answers
          PROVE  \E i \in DOMAIN requests' : log'[k].request = i /\ Admitted(i)'
      <4>1. PICK i \in DOMAIN requests : log[k].request = i /\ Admitted(i)
        BY <1>3 DEF OfAdmitted
      <4> QED
        BY <1>4, <1>6, <4>1
    <3>2. Admitted(last)' /\ last \in DOMAIN requests'
      BY <1>4, <1>6, <1>7
    <3>3. \A k \in Answers' : k \in Answers \/ (k = end /\ log'[k].request = last)
      BY <1>4
    <3> QED
      BY <3>1, <3>2, <3>3
  <2> QED
    BY <2>1, <2>2 DEF OfAdmitted
<1>14. ASSUME NEW i \in DOMAIN requests' PROVE RequestAccounted(i)'
  <2>1. CASE i = last
    <3>1. Admitted(last)'
      BY <1>4, <1>6, <1>7
    <3>2. Effects(last)' <= MaxRetries
      BY <1>3, <1>5, <1>8
    <3>3. requests'[last].status = "succeeded" =>
            /\ Effects(last)' > 0
            /\ end \in AnswersTo(last)' /\ log'[end].status = "ok"
      BY <1>4, <1>10, <1>11
    <3> QED
      BY <1>9, <2>1, <3>1, <3>2, <3>3 DEF RequestAccounted
  <2>2. CASE i # last
    <3>1. RequestAccounted(i) /\ i \in DOMAIN requests
      BY <1>3, <1>6 DEF EffectsAccounted
    <3>2. Effects(i)' = Effects(i) /\ AnswersTo(i)' = AnswersTo(i)
          /\ requests'[i] = requests[i] /\ (Admitted(i)' <=> Admitted(i))
      BY <1>4, <1>6, <2>2, <3>1
    <3>3. \A k \in AnswersTo(i) : log'[k] = log[k]
      BY <1>4 DEF AnswersTo
    <3> QED
      BY <3>1, <3>2, <3>3 DEF RequestAccounted
  <2> QED
    BY <2>1, <2>2
<1>15. EffectsAccounted'
  BY <1>14, CountedAttempt DEF EffectsAccounted
<1> QED
  BY <1>12, <1>13, <1>15

\* Every step keeps the account.
LEMMA EffectsNext ==
  ASSUME ExternalAssumption, EffectsInv, [ExternalNext]_externalVars
  PROVE  EffectsInv'
<1>1. /\ RequestTypes /\ HookTypes /\ Underway /\ OfAdmitted /\ EffectsAccounted
      /\ RequestTypes' /\ HookTypes'
  BY RequestTypesNext, HookTypesNext DEF EffectsInv
<1> SUFFICES Underway' /\ OfAdmitted' /\ EffectsAccounted'
  BY <1>1 DEF EffectsInv
<1>2. ASSUME UNCHANGED httpVars,
             log' = log \/ \E e \in HookEvents : log' = Append(log, e)
      PROVE  Underway' /\ OfAdmitted' /\ EffectsAccounted'
  <2>1. UNCHANGED <<requests, attempt, errors, received>>
    BY <1>2 DEF httpVars
  <2>2. /\ Answers' = Answers
        /\ \A i : AnswersTo(i)' = AnswersTo(i)
        /\ \A k \in Answers : log'[k] = log[k]
    BY <1>1, <1>2, AnswersStay DEF HookTypes
  <2>3. \A i : Effects(i)' = Effects(i)
    BY <2>1 DEF Effects
  <2>4. \A i : Admitted(i)' <=> Admitted(i)
    BY <2>1 DEF Admitted
  <2>5. \A i : \A k \in AnswersTo(i) : log'[k] = log[k]
    BY <2>2 DEF AnswersTo
  <2>6. Underway'
    BY <1>1, <2>1, <2>2, <2>3, <2>5 DEF Underway
  <2>7. OfAdmitted'
    BY <1>1, <2>1, <2>2, <2>4 DEF OfAdmitted
  <2>8. \A i \in DOMAIN requests : RequestAccounted(i)'
    BY <1>1, <2>1, <2>2, <2>3, <2>4, <2>5 DEF EffectsAccounted, RequestAccounted
  <2>9. EffectsAccounted'
    <3>1. /\ RequestsThat("succeeded")' = RequestsThat("succeeded")
          /\ \A status : AnswersThat(status)' = AnswersThat(status)
      BY <1>1, <1>2, <2>1, AnswersThatCounted DEF RequestsThat, HookTypes
    <3>2. EffectsCounted'
      BY <1>1, <2>1, <3>1 DEF EffectsAccounted, EffectsCounted
    <3> QED
      BY <2>1, <2>8, <3>2 DEF EffectsAccounted
  <2> QED
    BY <2>6, <2>7, <2>9
<1>3. CASE Tick
  BY <1>2, <1>3 DEF Tick
<1>4. ASSUME NEW host \in Hosts,
             RequestRefused(host) \/ RequestLimited(host) \/ RequestAdmitted(host)
      PROVE  Underway' /\ OfAdmitted' /\ EffectsAccounted'
  BY <1>4, EffectsAsked
<1>5. CASE AttemptEnds
  BY <1>5, EffectsAttempt
<1>6. ASSUME NEW type \in EventTypes, DispatchStarts(type)
      PROVE  Underway' /\ OfAdmitted' /\ EffectsAccounted'
  BY <1>2, <1>6 DEF DispatchStarts
<1>7. CASE HookDelivered \/ HookFails \/ HookRaises
  BY <1>2, <1>7 DEF HookDelivered, HookFails, HookRaises
<1>8. CASE DispatchReturns
  <2>1. UNCHANGED httpVars
    BY <1>8 DEF DispatchReturns
  <2>2. log' = log \/ \E e \in HookEvents : log' = Append(log, e)
    BY <1>1, <1>8, HookEventTyped DEF DispatchReturns
  <2> QED
    BY <1>2, <2>1, <2>2
<1>9. CASE UNCHANGED externalVars
  BY <1>2, <1>9 DEF externalVars
<1> QED
  BY <1>3, <1>4, <1>5, <1>6, <1>7, <1>8, <1>9 DEF ExternalNext, HookStep

\* Whatever the service does with the attempts, and whether it answers or not,
\* what it did is accounted for (HTTPGateway.execute_request).
THEOREM EffectsAlwaysAccounted == ExternalSpec => []EffectsAccounted
<1>1. ExternalInit => EffectsInv
  BY EffectsInit
<1>2. EffectsInv /\ [ExternalNext]_externalVars => EffectsInv'
  BY ExternalAssumption, EffectsNext
<1>3. EffectsInv => EffectsAccounted
  BY DEF EffectsInv
<1> QED
  BY <1>1, <1>2, <1>3, PTL DEF ExternalSpec

--------------------------------------------------------------------------------
(* Dispatches.                                                             *)

\* A dispatch under way has told the hooks that listen, up to the one it is at.
DispatchUnderway ==
  Dispatching =>
    /\ ToldInOrder(dispatch.type, dispatch.results)
    /\ \A k \in DOMAIN dispatch.results : dispatch.results[k].hook < dispatch.hook
    /\ \A h \in DOMAIN Hooks : Matches(dispatch.type, h) /\ h < dispatch.hook =>
         \E k \in DOMAIN dispatch.results : dispatch.results[k].hook = h
    /\ dispatch.hook <= Len(Hooks) => Matches(dispatch.type, dispatch.hook)

DispatchesInv ==
  /\ RequestTypes /\ HookTypes
  /\ DispatchUnderway
  /\ IsFiniteSet(Outcomes)
  /\ DispatchesAccounted

\* An outcome is one of a dispatch, that under way included.
LEMMA OutcomesAre ==
  /\ \A outcome \in Outcomes :
       \E d \in 1..(Len(dispatches) + 1) : \E k \in DOMAIN ResultsOf(d) :
         outcome = <<d, k>>
  /\ \A d \in 1..(Len(dispatches) + 1) : \A k \in DOMAIN ResultsOf(d) :
       <<d, k>> \in Outcomes
BY DEF Outcomes

\* The outcomes stay if every dispatch has those it had.
LEMMA OutcomesStay ==
  ASSUME \A d \in 1..(Len(dispatches) + 1) : \A k \in DOMAIN ResultsOf(d) :
           /\ d \in 1..(Len(dispatches') + 1) /\ k \in DOMAIN ResultsOf(d)'
           /\ ResultsOf(d)'[k] = ResultsOf(d)[k],
         \A d \in 1..(Len(dispatches') + 1) : \A k \in DOMAIN ResultsOf(d)' :
           d \in 1..(Len(dispatches) + 1) /\ k \in DOMAIN ResultsOf(d)
  PROVE  /\ Outcomes' = Outcomes
         /\ \A success : OutcomesThat(success)' = OutcomesThat(success)
<1>1. Outcomes' = Outcomes
  <2>1. \A outcome \in Outcomes : outcome \in Outcomes'
    BY DEF Outcomes
  <2>2. \A outcome \in Outcomes' : outcome \in Outcomes
    BY DEF Outcomes
  <2> QED
    BY <2>1, <2>2
<1>2. \A outcome \in Outcomes :
        ResultsOf(outcome[1])'[outcome[2]] = ResultsOf(outcome[1])[outcome[2]]
  BY OutcomesAre
<1> QED
  BY <1>1, <1>2 DEF OutcomesThat

\* Telling a hook adds one outcome.
LEMMA OutcomeAppended ==
  ASSUME dispatches \in Seq(DispatchSet), dispatch.results \in Seq(OutcomeSet),
         NEW o \in OutcomeSet, dispatches' = dispatches,
         dispatch'.results = Append(dispatch.results, o),
         IsFiniteSet(Outcomes)
  PROVE  /\ IsFiniteSet(Outcomes)'
         /\ Cardinality(Outcomes)' = Cardinality(Outcomes) + 1
         /\ \A success \in BOOLEAN :
              Cardinality(OutcomesThat(success))'
                = Cardinality(OutcomesThat(success))
                    + (IF o.success = success THEN 1 ELSE 0)
<1>1. PICK d : d = Len(dispatches) + 1
  OBVIOUS
<1>2. PICK n : n = Len(dispatch.results) + 1
  OBVIOUS
<1>3. /\ d \in Nat /\ d \in 1..d /\ d \notin DOMAIN dispatches
      /\ \A i \in 1..d : i # d => i \in DOMAIN dispatches
      /\ n \in Nat /\ DOMAIN dispatch.results = 1..(n - 1)
      /\ DOMAIN dispatch'.results = 1..n
      /\ \A k \in 1..(n - 1) : dispatch'.results[k] = dispatch.results[k]
      /\ dispatch'.results[n] = o
  BY <1>1, <1>2
<1>4. /\ ResultsOf(d) = dispatch.results /\ ResultsOf(d)' = dispatch'.results
      /\ \A i \in 1..d : i # d => ResultsOf(i)' = ResultsOf(i)
  BY <1>3 DEF ResultsOf
<1>5. PICK new : new = <<d, n>>
  OBVIOUS
<1>6. new \notin Outcomes
  <2>1. ASSUME new \in Outcomes PROVE FALSE
    <3>1. PICK i \in 1..d : \E k \in DOMAIN ResultsOf(i) : new = <<i, k>>
      BY <1>1, <2>1, OutcomesAre
    <3>2. i = d /\ n \in DOMAIN ResultsOf(d)
      BY <1>5, <3>1
    <3> QED
      BY <1>3, <1>4, <3>2
  <2> QED
    BY <2>1
<1>7. Outcomes' = Outcomes \cup {new}
  <2>1. \A outcome \in Outcomes' :
          \E i \in 1..d : \E k \in DOMAIN ResultsOf(i)' : outcome = <<i, k>>
    BY <1>1 DEF Outcomes
  <2>2. \A i \in 1..d : \A k \in DOMAIN ResultsOf(i)' : <<i, k>> \in Outcomes'
    BY <1>1 DEF Outcomes
  <2>3. new \in Outcomes'
    BY <1>3, <1>4, <1>5, <2>2
  <2>4. ASSUME NEW outcome \in Outcomes PROVE outcome \in Outcomes'
    <3>1. PICK i \in 1..d : \E k \in DOMAIN ResultsOf(i) : outcome = <<i, k>>
      BY <1>1, OutcomesAre
    <3>2. PICK k \in DOMAIN ResultsOf(i) : outcome = <<i, k>>
      BY <3>1
    <3>3. k \in DOMAIN ResultsOf(i)'
      BY <1>3, <1>4
    <3> QED
      BY <2>2, <3>2, <3>3
  <2>5. ASSUME NEW outcome \in Outcomes' PROVE outcome \in Outcomes \/ outcome = new
    <3>1. PICK i \in 1..d : \E k \in DOMAIN ResultsOf(i)' : outcome = <<i, k>>
      BY <2>1
    <3>2. PICK k \in DOMAIN ResultsOf(i)' : outcome = <<i, k>>
      BY <3>1
    <3>3. k \in DOMAIN ResultsOf(i) \/ (i = d /\ k = n)
      BY <1>3, <1>4
    <3> QED
      BY <1>1, <1>5, <3>2, <3>3, OutcomesAre
  <2> QED
    BY <2>3, <2>4, <2>5
<1>8. ASSUME NEW success \in BOOLEAN
      PROVE  OutcomesThat(success)'
               = IF o.success = success THEN OutcomesThat(success) \cup {new}
                 ELSE OutcomesThat(success)
  <2>1. ResultsOf(new[1])'[new[2]] = o
    BY <1>3, <1>4, <1>5
  <2>2. ASSUME NEW outcome \in Outcomes
        PROVE  ResultsOf(outcome[1])'[outcome[2]] = ResultsOf(outcome[1])[outcome[2]]
    <3>1. PICK i \in 1..d : \E k \in DOMAIN ResultsOf(i) : outcome = <<i, k>>
      BY <1>1, OutcomesAre
    <3>2. PICK k \in DOMAIN ResultsOf(i) : outcome = <<i, k>>
      BY <3>1
    <3>3. ResultsOf(i)'[k] = ResultsOf(i)[k]
      BY <1>3, <1>4
    <3> QED
      BY <3>2, <3>3
  <2> QED
    BY <1>7, <2>1, <2>2 DEF OutcomesThat
<1>9. \A success : OutcomesThat(success) \in SUBSET Outcomes
  BY DEF OutcomesThat
<1>10. \A success : /\ IsFiniteSet(OutcomesThat(success))
                    /\ new \notin OutcomesThat(success)
                    /\ Cardinality(OutcomesThat(success)) \in Nat
  BY <1>6, <1>9, FS_Subset, FS_CardinalityType
<1>11. /\ IsFiniteSet(Outcomes \cup {new})
       /\ Cardinality(Outcomes \cup {new}) = Cardinality(Outcomes) + 1
  BY <1>6, FS_AddElement
<1>12. \A success : Cardinality(OutcomesThat(success) \cup {new})
                      = Cardinality(OutcomesThat(success)) + 1
  BY <1>10, FS_AddElement
<1>13. ASSUME NEW success \in BOOLEAN
       PROVE  Cardinality(OutcomesThat(success))'
                = Cardinality(OutcomesThat(success))
                    + (IF o.success = success THEN 1 ELSE 0)
  BY <1>8, <1>10, <1>12
<1> QED
  BY <1>7, <1>11, <1>13

\* A dispatch that returned and had anybody to tell.
Told == {e \in DispatchSet : e.status = "returned" /\ e.results # <<>>}

\* What the log holds and what was told, by their positions.
LEMMA DispatchPositions ==
  ASSUME log \in Seq(Events), dispatches \in Seq(DispatchSet)
  PROVE  /\ LoggedDispatches = Positions(log, HookEvents)
         /\ ToldDispatches = Positions(dispatches, Told)
<1>1. \A k \in DOMAIN log : log[k] \in Events
  OBVIOUS
<1>2. \A e \in Events : e.type = "webhook.dispatched" <=> e \in HookEvents
  BY DEF Events, HttpEvents, HookEvents
<1>3. \A d \in DOMAIN dispatches : dispatches[d] \in DispatchSet
  OBVIOUS
<1> QED
  BY <1>1, <1>2, <1>3 DEF LoggedDispatches, ToldDispatches, Told, Positions

\* An answer to a request logs no dispatch.
LEMMA LoggedStay ==
  ASSUME log \in Seq(Events), log' = log \/ \E e \in HttpEvents : log' = Append(log, e)
  PROVE  LoggedDispatches' = LoggedDispatches
<1>1. CASE log' = log
  BY <1>1 DEF LoggedDispatches
<1>2. ASSUME NEW e \in HttpEvents, log' = Append(log, e)
      PROVE  LoggedDispatches' = LoggedDispatches
  <2>1. e.type # "webhook.dispatched"
    BY DEF HttpEvents
  <2>2. /\ Len(log) \in Nat /\ DOMAIN log = 1..Len(log)
        /\ DOMAIN log' = 1..(Len(log) + 1)
        /\ \A k \in 1..Len(log) : log'[k] = log[k]
        /\ log'[Len(log) + 1] = e
    BY <1>2
  <2>3. \A k \in DOMAIN log' : k \in DOMAIN log \/ k = Len(log) + 1
    BY <2>2
  <2>4. DOMAIN log \subseteq DOMAIN log'
    BY <2>2
  <2> QED
    BY <2>1, <2>2, <2>3, <2>4 DEF LoggedDispatches
<1> QED
  BY <1>1, <1>2

\* With what dispatches use unchanged, all about them stays.
LEMMA DispatchesStay ==
  ASSUME DispatchesInv, UNCHANGED hookVars,
         log' = log \/ \E e \in HttpEvents : log' = Append(log, e)
  PROVE  /\ DispatchUnderway' /\ IsFiniteSet(Outcomes)'
         /\ DispatchesAccounted'
<1>1. UNCHANGED <<dispatch, dispatches, counts>>
  BY DEF hookVars
<1>2. LoggedDispatches' = LoggedDispatches
  BY LoggedStay DEF DispatchesInv, HookTypes
<1>3. ToldDispatches' = ToldDispatches
  BY <1>1 DEF ToldDispatches
<1>4. /\ Outcomes' = Outcomes
      /\ \A success : OutcomesThat(success)' = OutcomesThat(success)
  <2>1. \A d : ResultsOf(d)' = ResultsOf(d)
    BY <1>1 DEF ResultsOf
  <2>2. Outcomes' = Outcomes
    BY <1>1, <2>1 DEF Outcomes
  <2> QED
    BY <2>1, <2>2 DEF OutcomesThat
<1>5. DispatchUnderway'
  BY <1>1 DEF DispatchesInv, DispatchUnderway, Dispatching
<1>6. \A d \in DOMAIN dispatches : DispatchAccounted(d)'
  BY <1>1 DEF DispatchesInv, DispatchesAccounted, DispatchAccounted
<1> QED
  BY <1>1, <1>2, <1>3, <1>4, <1>5, <1>6 DEF DispatchesInv, DispatchesAccounted

\* Nothing was dispatched at first.
LEMMA DispatchesInit == ExternalInit => DispatchesInv
<1> SUFFICES ASSUME ExternalInit PROVE DispatchesInv
  OBVIOUS
<1>1. /\ log = <<>> /\ dispatch = NoDispatch /\ dispatches = <<>>
      /\ counts.dispatched = 0 /\ counts.succeeded = 0 /\ counts.failed = 0
  BY DEF ExternalInit
<1>2. NoDispatch.results = <<>>
  BY DEF NoDispatch
<1>3. Outcomes = {}
  <2>1. \A d : ResultsOf(d) = <<>>
    BY <1>1, <1>2 DEF ResultsOf
  <2> QED
    BY <2>1, OutcomesAre
<1>4. \A success : OutcomesThat(success) = {}
  BY <1>3 DEF OutcomesThat
<1>5. LoggedDispatches = {} /\ ToldDispatches = {}
  BY <1>1 DEF LoggedDispatches, ToldDispatches
<1>6. DispatchUnderway
  BY <1>1 DEF DispatchUnderway, Dispatching
<1>7. \A d \in DOMAIN dispatches : DispatchAccounted(d)
  BY <1>1
<1>8. IsFiniteSet({}) /\ Cardinality({}) = 0
  BY FS_EmptySet
<1> QED
  BY <1>1, <1>3, <1>4, <1>5, <1>6, <1>7, <1>8, RequestTypesInit, HookTypesInit
     DEF DispatchesInv, DispatchesAccounted

\* A dispatch starts at the first hook that listens.
LEMMA DispatchesStart ==
  ASSUME ExternalAssumption, DispatchesInv, NEW type \in EventTypes,
         DispatchStarts(type)
  PROVE  /\ DispatchUnderway' /\ IsFiniteSet(Outcomes)'
         /\ DispatchesAccounted'
<1>1. PICK n : n = NextHook(type, 0)
  OBVIOUS
<1>2. /\ dispatch' = [type |-> type, hook |-> n, tries |-> 0, results |-> <<>>]
      /\ UNCHANGED <<log, dispatches, counts>>
      /\ dispatch = NoDispatch
  BY <1>1 DEF DispatchStarts, Calm, Dispatching
<1>3. /\ Len(Hooks) \in Nat
      /\ n \in 1..(Len(Hooks) + 1)
      /\ n <= Len(Hooks) => Matches(type, n)
      /\ \A h \in 1..(n - 1) : ~Matches(type, h)
  <2>1. 0 \in 0..Len(Hooks)
    BY DEF ExternalAssumption
  <2> QED
    BY <1>1, <2>1, NextHookListens
<1>4. dispatch'.type = type /\ dispatch'.hook = n /\ dispatch'.results = <<>>
      /\ dispatch.results = <<>>
  BY <1>2 DEF NoDispatch
<1>5. DispatchUnderway'
  <2>1. \A h \in DOMAIN Hooks : h < n => h \in 1..(n - 1)
    BY <1>3 DEF ExternalAssumption
  <2> QED
    BY <1>3, <1>4, <2>1 DEF DispatchUnderway, ToldInOrder
<1>6. /\ Outcomes' = Outcomes
      /\ \A success : OutcomesThat(success)' = OutcomesThat(success)
  <2>1. \A d : ResultsOf(d)' = ResultsOf(d)
    BY <1>2, <1>4 DEF ResultsOf
  <2>2. Outcomes' = Outcomes
    BY <1>2, <2>1 DEF Outcomes
  <2> QED
    BY <2>1, <2>2 DEF OutcomesThat
<1>7. \A d \in DOMAIN dispatches : DispatchAccounted(d)'
  BY <1>2 DEF DispatchesInv, DispatchesAccounted, DispatchAccounted
<1>8. LoggedDispatches' = LoggedDispatches /\ ToldDispatches' = ToldDispatches
  BY <1>2 DEF LoggedDispatches, ToldDispatches
<1> QED
  BY <1>2, <1>5, <1>6, <1>7, <1>8 DEF DispatchesInv, DispatchesAccounted

\* A hook that is told, or cannot be, is entered and the next one is sought
\* (WebhookDispatcher._deliver).
LEMMA DispatchesSettle ==
  ASSUME ExternalAssumption, DispatchesInv, NEW success \in BOOLEAN, Sending,
         HookSettled(success), UNCHANGED <<log, dispatches>>
  PROVE  /\ DispatchUnderway' /\ IsFiniteSet(Outcomes)'
         /\ DispatchesAccounted'
<1>1. /\ HookTypes /\ DispatchUnderway /\ IsFiniteSet(Outcomes) /\ DispatchesAccounted
      /\ Dispatching
      /\ dispatches \in Seq(DispatchSet)
      /\ dispatch.results \in Seq(OutcomeSet)
  BY DEF DispatchesInv, HookTypes, Sending
<1> DEFINE told == [hook |-> dispatch.hook, success |-> success]
<1>2. /\ dispatch.hook \in 1..Len(Hooks)
      /\ dispatch'.type = dispatch.type
      /\ dispatch'.hook = NextHook(dispatch.type, dispatch.hook)
      /\ dispatch'.results = Append(dispatch.results, told)
      /\ counts'.dispatched = counts.dispatched + 1
      /\ counts'.succeeded = counts.succeeded + (IF success THEN 1 ELSE 0)
      /\ counts'.failed = counts.failed + (IF success THEN 0 ELSE 1)
  BY <1>1, SettlingKeepsTypes
<1>3. PICK hook : hook = dispatch.hook
  OBVIOUS
<1>4. PICK type : type = dispatch.type
  OBVIOUS
<1>5. PICK next : next = NextHook(type, hook)
  OBVIOUS
<1>6. PICK n : n = Len(dispatch.results) + 1
  OBVIOUS
<1>7. /\ Len(Hooks) \in Nat /\ hook \in 1..Len(Hooks)
      /\ next \in (hook + 1)..(Len(Hooks) + 1)
      /\ next <= Len(Hooks) => Matches(type, next)
      /\ \A h \in (hook + 1)..(next - 1) : ~Matches(type, h)
      /\ DOMAIN Hooks = 1..Len(Hooks)
  <2>1. Len(Hooks) \in Nat /\ DOMAIN Hooks = 1..Len(Hooks)
    BY DEF ExternalAssumption
  <2>2. hook \in 0..Len(Hooks) /\ hook \in 1..Len(Hooks)
    BY <1>2, <1>3, <2>1
  <2> QED
    BY <1>5, <2>1, <2>2, NextHookListens
<1>8. told \in OutcomeSet /\ told.hook = hook /\ told.success = success
  BY <1>3, <1>7 DEF OutcomeSet
<1> HIDE DEF told
<1>9. /\ n \in Nat /\ DOMAIN dispatch.results = 1..(n - 1)
      /\ DOMAIN dispatch'.results = 1..n /\ n \in 1..n
      /\ \A k \in 1..(n - 1) : k \in 1..n /\ dispatch'.results[k] = dispatch.results[k]
      /\ dispatch'.results[n] = told
      /\ \A k \in 1..n : k \in 1..(n - 1) \/ k = n
      /\ \A k \in 1..(n - 1) : dispatch.results[k] \in OutcomeSet
  BY <1>1, <1>2, <1>6, <1>8
<1>10. /\ dispatch'.type = type /\ dispatch'.hook = next
  BY <1>2, <1>3, <1>4, <1>5
<1>11. /\ ToldInOrder(type, dispatch.results)
       /\ \A k \in 1..(n - 1) : dispatch.results[k].hook < hook
       /\ \A h \in DOMAIN Hooks : Matches(type, h) /\ h < hook =>
            \E k \in 1..(n - 1) : dispatch.results[k].hook = h
       /\ Matches(type, hook)
  <2>1. /\ ToldInOrder(dispatch.type, dispatch.results)
        /\ \A k \in DOMAIN dispatch.results : dispatch.results[k].hook < dispatch.hook
        /\ \A h \in DOMAIN Hooks : Matches(dispatch.type, h) /\ h < dispatch.hook =>
             \E k \in DOMAIN dispatch.results : dispatch.results[k].hook = h
        /\ dispatch.hook <= Len(Hooks) => Matches(dispatch.type, dispatch.hook)
    BY <1>1 DEF DispatchUnderway
  <2>2. hook <= Len(Hooks)
    BY <1>7
  <2> QED
    BY <1>3, <1>4, <1>9, <2>1, <2>2
<1>12. ToldInOrder(type, dispatch'.results)
  <2>1. \A k \in 1..n : Matches(type, dispatch'.results[k].hook)
    BY <1>8, <1>9, <1>11 DEF ToldInOrder
  <2>2. \A k, l \in 1..n : k < l => dispatch'.results[k].hook < dispatch'.results[l].hook
    <3>1. ASSUME NEW k \in 1..n, NEW l \in 1..n, k < l
          PROVE  dispatch'.results[k].hook < dispatch'.results[l].hook
      <4>1. k \in 1..(n - 1)
        BY <1>9, <3>1
      <4>2. CASE l = n
        BY <1>8, <1>9, <1>11, <4>1, <4>2
      <4>3. CASE l \in 1..(n - 1)
        BY <1>9, <1>11, <3>1, <4>1, <4>3 DEF ToldInOrder
      <4> QED
        BY <1>9, <4>2, <4>3
    <3> QED
      BY <3>1
  <2>3. ASSUME NEW h \in DOMAIN Hooks, NEW k \in 1..n,
               Matches(type, h), h < dispatch'.results[k].hook
        PROVE  \E j \in 1..n : dispatch'.results[j].hook = h
    <3>1. h < hook
      <4>1. CASE k = n
        BY <1>8, <1>9, <2>3, <4>1
      <4>2. CASE k \in 1..(n - 1)
        <5>1. dispatch.results[k].hook \in Nat
          BY <1>9, <4>2 DEF OutcomeSet
        <5>2. dispatch.results[k].hook < hook /\ h < dispatch.results[k].hook
          BY <1>9, <1>11, <2>3, <4>2
        <5> QED
          BY <1>7, <5>1, <5>2
      <4> QED
        BY <1>9, <4>1, <4>2
    <3>2. PICK j \in 1..(n - 1) : dispatch.results[j].hook = h
      BY <1>11, <2>3, <3>1
    <3> QED
      BY <1>9, <3>2
  <2> QED
    BY <1>9, <2>1, <2>2, <2>3 DEF ToldInOrder
<1>13. \A k \in 1..n : dispatch'.results[k].hook < next
  <2>1. ASSUME NEW k \in 1..n PROVE dispatch'.results[k].hook < next
    <3>1. CASE k = n
      BY <1>7, <1>8, <1>9, <3>1
    <3>2. CASE k \in 1..(n - 1)
      <4>1. dispatch.results[k].hook \in Nat /\ dispatch.results[k].hook < hook
        BY <1>9, <1>11, <3>2 DEF OutcomeSet
      <4> QED
        BY <1>7, <1>9, <3>2, <4>1
    <3> QED
      BY <1>9, <3>1, <3>2
  <2> QED
    BY <2>1
<1>14. \A h \in DOMAIN Hooks : Matches(type, h) /\ h < next =>
         \E k \in 1..n : dispatch'.results[k].hook = h
  <2>1. ASSUME NEW h \in DOMAIN Hooks, Matches(type, h), h < next
        PROVE  \E k \in 1..n : dispatch'.results[k].hook = h
    <3>1. h \notin (hook + 1)..(next - 1)
      BY <1>7, <2>1
    <3>2. h = hook \/ h < hook
      BY <1>7, <2>1, <3>1
    <3>3. CASE h = hook
      BY <1>8, <1>9, <3>3
    <3>4. CASE h < hook
      <4>1. PICK j \in 1..(n - 1) : dispatch.results[j].hook = h
        BY <1>11, <2>1, <3>4
      <4> QED
        BY <1>9, <4>1
    <3> QED
      BY <3>2, <3>3, <3>4
  <2> QED
    BY <2>1
<1>15. DispatchUnderway'
  BY <1>7, <1>9, <1>10, <1>12, <1>13, <1>14 DEF DispatchUnderway
<1>16. /\ IsFiniteSet(Outcomes)'
       /\ Cardinality(Outcomes)' = Cardinality(Outcomes) + 1
       /\ \A b \in BOOLEAN : Cardinality(OutcomesThat(b))'
            = Cardinality(OutcomesThat(b)) + (IF success = b THEN 1 ELSE 0)
  BY <1>1, <1>2, <1>8, OutcomeAppended
<1>17. /\ counts'.dispatched = Cardinality(Outcomes)'
       /\ counts'.succeeded = Cardinality(OutcomesThat(TRUE))'
       /\ counts'.failed = Cardinality(OutcomesThat(FALSE))'
  <2>1. /\ counts.dispatched = Cardinality(Outcomes)
        /\ counts.succeeded = Cardinality(OutcomesThat(TRUE))
        /\ counts.failed = Cardinality(OutcomesThat(FALSE))
    BY <1>1 DEF DispatchesAccounted
  <2>2. counts'.dispatched = Cardinality(Outcomes)'
    BY <1>2, <1>16, <2>1
  <2>3. /\ Cardinality(OutcomesThat(TRUE))'
             = Cardinality(OutcomesThat(TRUE)) + (IF success = TRUE THEN 1 ELSE 0)
        /\ Cardinality(OutcomesThat(FALSE))'
             = Cardinality(OutcomesThat(FALSE)) + (IF success = FALSE THEN 1 ELSE 0)
    BY <1>16
  <2>4. CASE success = TRUE
    BY <1>2, <2>1, <2>2, <2>3, <2>4
  <2>5. CASE success = FALSE
    BY <1>2, <2>1, <2>2, <2>3, <2>5
  <2> QED
    BY <2>4, <2>5
<1>18. \A d \in DOMAIN dispatches : DispatchAccounted(d)'
  BY <1>1 DEF DispatchesAccounted, DispatchAccounted
<1>19. LoggedDispatches' = LoggedDispatches /\ ToldDispatches' = ToldDispatches
  BY DEF LoggedDispatches, ToldDispatches
<1>20. DispatchesAccounted'
  BY <1>1, <1>17, <1>18, <1>19 DEF DispatchesAccounted
<1> QED
  BY <1>15, <1>16, <1>20

\* Another try changes nothing on record.
LEMMA DispatchesTry ==
  ASSUME DispatchesInv, Sending, dispatch' = [dispatch EXCEPT !.tries = @ + 1],
         UNCHANGED <<log, dispatches, counts>>
  PROVE  /\ DispatchUnderway' /\ IsFiniteSet(Outcomes)'
         /\ DispatchesAccounted'
<1>1. /\ dispatch'.type = dispatch.type /\ dispatch'.hook = dispatch.hook
      /\ dispatch'.results = dispatch.results
  <2>1. /\ dispatch \in [type : EventTypes \cup {"none"}, hook : Nat, tries : Nat,
                        results : Seq(OutcomeSet)]
        /\ dispatch.tries + 1 \in Nat
    BY DEF DispatchesInv, HookTypes
  <2>2. dispatch' = [dispatch EXCEPT !.hook = dispatch.hook,
                                          !.results = dispatch.results,
                                    !.tries = dispatch.tries + 1]
    BY <2>1
  <2> QED
    BY <2>1, <2>2, DispatchMoves
<1>2. /\ Outcomes' = Outcomes
      /\ \A success : OutcomesThat(success)' = OutcomesThat(success)
  <2>1. \A d : ResultsOf(d)' = ResultsOf(d)
    BY <1>1 DEF ResultsOf
  <2>2. Outcomes' = Outcomes
    BY <2>1 DEF Outcomes
  <2> QED
    BY <2>1, <2>2 DEF OutcomesThat
<1>3. DispatchUnderway'
  BY <1>1 DEF DispatchesInv, DispatchUnderway, Sending
<1>4. \A d \in DOMAIN dispatches : DispatchAccounted(d)'
  BY DEF DispatchesInv, DispatchesAccounted, DispatchAccounted
<1>5. LoggedDispatches' = LoggedDispatches /\ ToldDispatches' = ToldDispatches
  BY DEF LoggedDispatches, ToldDispatches
<1> QED
  BY <1>2, <1>3, <1>4, <1>5 DEF DispatchesInv, DispatchesAccounted

\* A dispatch that ends, in whichever way, is entered with what was told.
LEMMA DispatchesEnd ==
  ASSUME ExternalAssumption, DispatchesInv, Dispatching,
         NEW status \in {"raised", "returned"},
         dispatch' = NoDispatch, counts' = counts,
         dispatches' = Append(dispatches, [type |-> dispatch.type, status |-> status,
                                           results |-> dispatch.results]),
         status = "raised" => log' = log,
         status = "returned" =>
           /\ ~Sending
           /\ dispatch.results = <<>> => log' = log
           /\ dispatch.results # <<>> => \E e \in HookEvents : log' = Append(log, e)
  PROVE  /\ DispatchUnderway' /\ IsFiniteSet(Outcomes)'
         /\ DispatchesAccounted'
<1>1. /\ HookTypes /\ DispatchUnderway /\ IsFiniteSet(Outcomes) /\ DispatchesAccounted
      /\ dispatches \in Seq(DispatchSet) /\ log \in Seq(Events)
      /\ dispatch.results \in Seq(OutcomeSet)
      /\ dispatch.type \in EventTypes
      /\ dispatch.hook <= Len(Hooks) + 1 /\ dispatch.hook \in Nat
      /\ Len(Hooks) \in Nat
  BY DEF DispatchesInv, HookTypes, ExternalAssumption
<1> DEFINE ended == [type |-> dispatch.type, status |-> status,
                     results |-> dispatch.results]
<1>2. /\ ended \in DispatchSet /\ ended.type = dispatch.type
      /\ ended.status = status /\ ended.results = dispatch.results
      /\ dispatches' = Append(dispatches, ended)
  BY <1>1 DEF DispatchSet
<1> HIDE DEF ended
<1>3. PICK d : d = Len(dispatches) + 1
  OBVIOUS
<1>4. /\ d \in Nat /\ d \in 1..d /\ d \notin DOMAIN dispatches
      /\ DOMAIN dispatches = 1..(d - 1) /\ DOMAIN dispatches' = 1..d
      /\ Len(dispatches') = d
      /\ \A i \in 1..(d - 1) : dispatches'[i] = dispatches[i]
      /\ dispatches'[d] = ended
  BY <1>1, <1>2, <1>3
<1>5. DispatchUnderway'
  BY DEF DispatchUnderway, Dispatching
<1>6. dispatch'.results = <<>>
  BY DEF NoDispatch
<1>7. /\ \A i \in 1..(d - 1) : ResultsOf(i) = dispatches[i].results
                               /\ ResultsOf(i)' = dispatches[i].results
      /\ ResultsOf(d) = dispatch.results /\ ResultsOf(d)' = dispatch.results
      /\ ResultsOf(d + 1)' = <<>>
  <2>1. \A i \in 1..(d - 1) : i \in 1..d
    BY <1>4
  <2>2. d + 1 \notin 1..d
    BY <1>4
  <2> QED
    BY <1>2, <1>4, <1>6, <2>1, <2>2 DEF ResultsOf
<1>8. /\ Outcomes' = Outcomes
      /\ \A success : OutcomesThat(success)' = OutcomesThat(success)
  <2>1. ASSUME NEW i \in 1..(Len(dispatches) + 1), NEW k \in DOMAIN ResultsOf(i)
        PROVE  /\ i \in 1..(Len(dispatches') + 1) /\ k \in DOMAIN ResultsOf(i)'
               /\ ResultsOf(i)'[k] = ResultsOf(i)[k]
    <3>1. i \in 1..(d - 1) \/ i = d
      BY <1>3, <1>4
    <3>2. i \in 1..(d + 1)
      BY <1>4, <3>1
    <3> QED
      BY <1>4, <1>7, <3>1, <3>2
  <2>2. ASSUME NEW i \in 1..(Len(dispatches') + 1), NEW k \in DOMAIN ResultsOf(i)'
        PROVE  i \in 1..(Len(dispatches) + 1) /\ k \in DOMAIN ResultsOf(i)
    <3>1. i \in 1..(d - 1) \/ i = d \/ i = d + 1
      BY <1>4
    <3>2. i # d + 1
      BY <1>7
    <3>3. i \in 1..d
      BY <1>4, <3>1, <3>2
    <3> QED
      BY <1>3, <1>7, <3>1, <3>2, <3>3
  <2> QED
    BY <2>1, <2>2, OutcomesStay
<1>9. ASSUME NEW i \in DOMAIN dispatches' PROVE DispatchAccounted(i)'
  <2>1. CASE i \in 1..(d - 1)
    <3>1. DispatchAccounted(i)
      BY <1>1, <1>4, <2>1 DEF DispatchesAccounted
    <3> QED
      BY <1>4, <2>1, <3>1 DEF DispatchAccounted
  <2>2. CASE i = d
    <3>1. ToldInOrder(dispatch.type, dispatch.results)
      BY <1>1 DEF DispatchUnderway
    <3>2. status = "returned" => ToldAll(dispatch.type, dispatch.results)
      <4>1. ASSUME status = "returned" PROVE ToldAll(dispatch.type, dispatch.results)
        <5>1. dispatch.hook = Len(Hooks) + 1
          BY <1>1, <4>1 DEF Sending
        <5>2. \A h \in DOMAIN Hooks : h < dispatch.hook
          BY <1>1, <5>1 DEF ExternalAssumption
        <5> QED
          BY <1>1, <5>2 DEF DispatchUnderway, ToldAll
      <4> QED
        BY <4>1
    <3>3. /\ dispatches'[i].type = dispatch.type /\ dispatches'[i].status = status
          /\ dispatches'[i].results = dispatch.results
      BY <1>2, <1>4, <2>2
    <3> QED
      BY <3>1, <3>2, <3>3 DEF DispatchAccounted
  <2> QED
    BY <1>4, <2>1, <2>2
<1>10. Cardinality(LoggedDispatches)' = Cardinality(ToldDispatches)'
  <2>1. PICK l : l = log'
    OBVIOUS
  <2>2. PICK ds : ds = dispatches'
    OBVIOUS
  <2>3. /\ LoggedDispatches = Positions(log, HookEvents)
        /\ ToldDispatches = Positions(dispatches, Told)
        /\ Cardinality(Positions(log, HookEvents))
             = Cardinality(Positions(dispatches, Told))
    BY <1>1, DispatchPositions DEF DispatchesAccounted
  <2>4. ds = Append(dispatches, ended) /\ ds \in Seq(DispatchSet)
    BY <1>1, <1>2, <2>2
  <2>5. l \in Seq(Events)
    <3>1. l = log \/ \E e \in HookEvents : l = Append(log, e)
      BY <2>1
    <3>2. \A e \in HookEvents : e \in Events
      BY DEF Events
    <3>3. ASSUME NEW e \in Events, l = Append(log, e) PROVE l \in Seq(Events)
      BY <1>1, <3>3
    <3> QED
      BY <1>1, <3>1, <3>2, <3>3
  <2>6. /\ LoggedDispatches' = Positions(l, HookEvents)
        /\ ToldDispatches' = Positions(ds, Told)
    <3>1. \A k \in DOMAIN l : l[k] \in Events
      BY <2>5
    <3>2. \A e \in Events : e.type = "webhook.dispatched" <=> e \in HookEvents
      BY DEF Events, HttpEvents, HookEvents
    <3>3. \A i \in DOMAIN ds : ds[i] \in DispatchSet
      BY <2>4
    <3> QED
      BY <2>1, <2>2, <3>1, <3>2, <3>3 DEF LoggedDispatches, ToldDispatches, Told, Positions
  <2>7. ended \in Told <=> status = "returned" /\ dispatch.results # <<>>
    BY <1>2 DEF Told
  <2>8. CASE status = "returned" /\ dispatch.results # <<>>
    <3>1. PICK e \in HookEvents : l = Append(log, e)
      BY <2>1, <2>8
    <3>2. e \in Events
      BY DEF Events
    <3>3. Cardinality(Positions(Append(log, e), HookEvents))
            = Cardinality(Positions(log, HookEvents)) + 1
      BY <1>1, <3>2, PositionsAppended
    <3>4. Cardinality(Positions(Append(dispatches, ended), Told))
            = Cardinality(Positions(dispatches, Told)) + 1
      BY <1>1, <1>2, <2>7, <2>8, PositionsAppended
    <3> QED
      BY <2>3, <2>4, <2>6, <3>1, <3>3, <3>4
  <2>9. CASE ~(status = "returned" /\ dispatch.results # <<>>)
    <3>1. l = log
      BY <2>1, <2>9
    <3>2. Positions(Append(dispatches, ended), Told) = Positions(dispatches, Told)
      BY <1>1, <1>2, <2>7, <2>9, PositionsAppended
    <3> QED
      BY <2>3, <2>4, <2>6, <3>1, <3>2
  <2> QED
    BY <2>8, <2>9
<1>11. DispatchesAccounted'
  BY <1>1, <1>8, <1>9, <1>10 DEF DispatchesAccounted
<1> QED
  BY <1>1, <1>5, <1>8, <1>11

\* Every step keeps dispatches and counters in agreement.
LEMMA DispatchesNext ==
  ASSUME ExternalAssumption, DispatchesInv, [ExternalNext]_externalVars
  PROVE  DispatchesInv'
<1>1. RequestTypes /\ HookTypes /\ RequestTypes' /\ HookTypes'
  BY RequestTypesNext, HookTypesNext DEF DispatchesInv
<1> SUFFICES DispatchUnderway' /\ IsFiniteSet(Outcomes)' /\ DispatchesAccounted'
  BY <1>1 DEF DispatchesInv
<1>2. CASE Tick
  BY <1>2, DispatchesStay DEF Tick
<1>3. ASSUME NEW host \in Hosts,
             RequestRefused(host) \/ RequestLimited(host) \/ RequestAdmitted(host)
      PROVE  DispatchUnderway' /\ IsFiniteSet(Outcomes)' /\ DispatchesAccounted'
  BY <1>3, DispatchesStay DEF RequestRefused, RequestLimited, RequestAdmitted
<1>4. CASE AttemptEnds
  <2>1. UNCHANGED hookVars
    BY <1>4 DEF AttemptEnds, AttemptSucceeds, AttemptUnreadable, AttemptDeclined,
                AttemptLost
  <2>2. \/ log' = log
        \/ \E status \in {"ok", "error"} : log' = Append(log, HttpEvent(status))
    BY <1>4 DEF AttemptEnds, AttemptSucceeds, AttemptUnreadable, AttemptDeclined,
                AttemptLost
  <2>3. log' = log \/ \E e \in HttpEvents : log' = Append(log, e)
    BY <1>1, <2>2, HttpEventTyped
  <2> QED
    BY <2>1, <2>3, DispatchesStay
<1>5. ASSUME NEW type \in EventTypes, DispatchStarts(type)
      PROVE  DispatchUnderway' /\ IsFiniteSet(Outcomes)' /\ DispatchesAccounted'
  BY <1>5, DispatchesStart
<1>6. CASE HookDelivered
  BY <1>6, DispatchesSettle DEF HookDelivered
<1>7. CASE HookFails
  <2>1. CASE HookSettled(FALSE)
    BY <1>7, <2>1, DispatchesSettle DEF HookFails
  <2>2. CASE dispatch' = [dispatch EXCEPT !.tries = @ + 1] /\ UNCHANGED counts
    BY <1>7, <2>2, DispatchesTry DEF HookFails
  <2> QED
    BY <1>7, <2>1, <2>2 DEF HookFails
<1>8. CASE HookRaises
  BY <1>8, DispatchesEnd DEF HookRaises, Sending
<1>9. CASE DispatchReturns
  <2>1. /\ dispatch.results = <<>> => log' = log
        /\ dispatch.results # <<>> => \E e \in HookEvents : log' = Append(log, e)
    BY <1>1, <1>9, HookEventTyped DEF DispatchReturns
  <2> QED
    BY <1>9, <2>1, DispatchesEnd DEF DispatchReturns
<1>10. CASE UNCHANGED externalVars
  BY <1>10, DispatchesStay DEF externalVars
<1> QED
  BY <1>2, <1>3, <1>4, <1>5, <1>6, <1>7, <1>8, <1>9, <1>10 DEF ExternalNext, HookStep

\* Whatever the receivers do, and whichever sender raises, dispatches, their log
\* and the counters agree (WebhookDispatcher.dispatch).
THEOREM DispatchesAlwaysAccounted == ExternalSpec => []DispatchesAccounted
<1>1. ExternalInit => DispatchesInv
  BY DispatchesInit
<1>2. DispatchesInv /\ [ExternalNext]_externalVars => DispatchesInv'
  BY ExternalAssumption, DispatchesNext
<1>3. DispatchesInv => DispatchesAccounted
  BY DEF DispatchesInv
<1> QED
  BY <1>1, <1>2, <1>3, PTL DEF ExternalSpec

================================================================================
