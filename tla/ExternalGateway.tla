---------------------------- MODULE ExternalGateway ----------------------------
(***************************************************************************)
(* The two ways out of the engine that are not tools: requests to a service *)
(* over HTTP, behind a list of domains and a rate limiter and with retries  *)
(* (HTTPGateway), and notifications of events (WebhookDispatcher).  Both    *)
(* write to one event log; the service and the receivers are foreign.       *)
(***************************************************************************)
EXTENDS FiniteSets, Integers, Sequences

CONSTANTS
  Hosts,          \* the hosts that base_url and path may lead to
  AllowedDomains, \* those that the configuration allows, or subdomains of them
  MaxCalls,       \* rate_limit_per_minute
  Window,         \* window_seconds
  MaxRetries,     \* max_retries: the attempts of a request
  Hooks,          \* the webhooks: what each listens to, how often it is retried
  EventTypes,     \* the types of events that are dispatched
  MaxRequests,    \* bound on the requests
  MaxDispatches,  \* bound on the dispatches
  MaxTime         \* bound on the clock

ASSUME ExternalAssumption ==
  /\ AllowedDomains \subseteq Hosts
  /\ MaxCalls \in Nat /\ Window \in Nat /\ MaxRetries \in Nat
  /\ Hooks \in Seq([events : SUBSET (EventTypes \cup {"*"}), retries : Nat])
  /\ MaxRequests \in Nat /\ MaxDispatches \in Nat /\ MaxTime \in Nat

VARIABLES
  now,         \* time.monotonic()
  call_times,  \* RateLimiter._call_times, each by the request that left it
  requests,    \* the requests so far, the current one last
  attempt,     \* the attempts of the current one, 0 when none is under way
  errors,      \* HTTPGateway._error_count
  received,    \* what reached the service: the request of each effect
  log,         \* the event log
  dispatch,    \* the dispatch under way, or that nothing is
  dispatches,  \* what the dispatches returned
  counts       \* the counters of WebhookDispatcher

httpVars == <<call_times, requests, attempt, errors, received>>
hookVars == <<dispatch, dispatches, counts>>
externalVars == <<now, httpVars, log, hookVars>>

NoDispatch == [type |-> "none", hook |-> 0, tries |-> 0, results |-> <<>>]

ExternalInit ==
  /\ now = 0 /\ call_times = {}
  /\ requests = <<>> /\ attempt = 0 /\ errors = 0 /\ received = <<>>
  /\ log = <<>>
  /\ dispatch = NoDispatch /\ dispatches = <<>>
  /\ counts = [dispatched |-> 0, succeeded |-> 0, failed |-> 0]

Requesting == requests # <<>> /\ requests[Len(requests)].status = "running"
Dispatching == dispatch # NoDispatch
Calm == ~Requesting /\ ~Dispatching

Tick ==
  /\ now < MaxTime
  /\ now' = now + 1
  /\ UNCHANGED <<httpVars, log, hookVars>>

--------------------------------------------------------------------------------
(***************************************************************************)
(* Requests.                                                               *)
(***************************************************************************)
RecentCalls == {i \in call_times : now - requests[i].at < Window}

Request(at, status) == [at |-> at, status |-> status]
Settled(status) == [requests EXCEPT ![Len(requests)].status = status]

RequestRefused(host) ==
  /\ Calm /\ Len(requests) < MaxRequests
  /\ host \notin AllowedDomains
  /\ requests' = Append(requests, Request(now, "refused"))
  /\ UNCHANGED <<now, call_times, attempt, errors, received, log, hookVars>>

\* Defect: a request that was turned away counts as a call.
RequestLimitedCounted(host) ==
  /\ Calm /\ Len(requests) < MaxRequests
  /\ host \in AllowedDomains
  /\ Cardinality(RecentCalls) >= MaxCalls
  /\ call_times' = RecentCalls \cup {Len(requests) + 1}
  /\ requests' = Append(requests, Request(now, "limited"))
  /\ UNCHANGED <<now, attempt, errors, received, log, hookVars>>

RequestLimited(host) ==
  /\ Calm /\ Len(requests) < MaxRequests
  /\ host \in AllowedDomains
  /\ Cardinality(RecentCalls) >= MaxCalls
  /\ call_times' = RecentCalls
  /\ requests' = Append(requests, Request(now, "limited"))
  /\ UNCHANGED <<now, attempt, errors, received, log, hookVars>>

\* The call counts, whether anything is sent or not: nothing is if the library
\* that would send it is not installed, or if no attempt is configured.
RequestAdmitted(host) ==
  /\ Calm /\ Len(requests) < MaxRequests
  /\ host \in AllowedDomains
  /\ Cardinality(RecentCalls) < MaxCalls
  /\ call_times' = RecentCalls \cup {Len(requests) + 1}
  /\ \/ /\ requests' = Append(requests, Request(now, "failed"))
        /\ UNCHANGED attempt
     \/ /\ MaxRetries > 0
        /\ requests' = Append(requests, Request(now, "running"))
        /\ attempt' = 1
  /\ UNCHANGED <<now, errors, received, log, hookVars>>

HttpEvent(status) ==
  [type |-> "gateway.http.request", request |-> Len(requests), attempt |-> attempt,
   status |-> status]

\* Defect: the last attempt is counted wrongly, and another follows it.
NextAttemptOnceMore ==
  IF attempt <= MaxRetries
  THEN attempt' = attempt + 1 /\ UNCHANGED requests
  ELSE attempt' = 0 /\ requests' = Settled("failed")

\* Every attempt but the last is followed by another, after a delay.
NextAttempt ==
  IF attempt < MaxRetries
  THEN attempt' = attempt + 1 /\ UNCHANGED requests
  ELSE attempt' = 0 /\ requests' = Settled("failed")

\* The service acted and its answer can be read.
AttemptSucceeds ==
  /\ Requesting
  /\ received' = Append(received, Len(requests))
  /\ log' = Append(log, HttpEvent("ok"))
  /\ requests' = Settled("succeeded")
  /\ attempt' = 0
  /\ UNCHANGED <<now, call_times, errors, hookVars>>

\* The service acted; the answer says so, and its body cannot be read.
AttemptUnreadable ==
  /\ Requesting
  /\ received' = Append(received, Len(requests))
  /\ log' = Append(log, HttpEvent("ok"))
  /\ errors' = errors + 1
  /\ NextAttempt
  /\ UNCHANGED <<now, call_times, hookVars>>

\* The service answers with an error, having acted or not.
AttemptDeclined ==
  /\ Requesting
  /\ \/ received' = Append(received, Len(requests))
     \/ UNCHANGED received
  /\ log' = Append(log, HttpEvent("error"))
  /\ NextAttempt
  /\ UNCHANGED <<now, call_times, errors, hookVars>>

\* No answer in time: the service may have acted or not.
AttemptLost ==
  /\ Requesting
  /\ \/ received' = Append(received, Len(requests))
     \/ UNCHANGED received
  /\ errors' = errors + 1
  /\ NextAttempt
  /\ UNCHANGED <<now, call_times, log, hookVars>>

AttemptEnds ==
  AttemptSucceeds \/ AttemptUnreadable \/ AttemptDeclined \/ AttemptLost

--------------------------------------------------------------------------------
(***************************************************************************)
(* Notifications.                                                          *)
(***************************************************************************)
Matches(type, hook) == "*" \in Hooks[hook].events \/ type \in Hooks[hook].events

\* The next hook after this one that listens, or one past the last.
NextHook(type, hook) ==
  LET later == {h \in (hook + 1)..Len(Hooks) : Matches(type, h)}
  IN  IF later = {} THEN Len(Hooks) + 1
      ELSE CHOOSE h \in later : \A k \in later : h <= k

DispatchStarts(type) ==
  /\ Calm /\ Len(dispatches) < MaxDispatches
  /\ dispatch' = [type |-> type, hook |-> NextHook(type, 0), tries |-> 0,
                  results |-> <<>>]
  /\ UNCHANGED <<now, httpVars, log, dispatches, counts>>

Sending == Dispatching /\ dispatch.hook <= Len(Hooks)

\* Defect: the outcome is not entered in the results.
HookSettledAtOnce(success) ==
  /\ dispatch' = [dispatch EXCEPT !.hook = NextHook(dispatch.type, @), !.tries = 0]
  /\ counts' = [counts EXCEPT !.dispatched = @ + 1,
                              !.succeeded = IF success THEN @ + 1 ELSE @,
                              !.failed = IF success THEN @ ELSE @ + 1]

HookSettled(success) ==
  /\ dispatch' = [dispatch EXCEPT
       !.hook = NextHook(dispatch.type, @), !.tries = 0,
       !.results = Append(@, [hook |-> dispatch.hook, success |-> success])]
  /\ counts' = [counts EXCEPT !.dispatched = @ + 1,
                              !.succeeded = IF success THEN @ + 1 ELSE @,
                              !.failed = IF success THEN @ ELSE @ + 1]

HookDelivered ==
  /\ Sending
  /\ HookSettled(TRUE)
  /\ UNCHANGED <<now, httpVars, log, dispatches>>

HookFails ==
  /\ Sending
  /\ IF dispatch.tries < Hooks[dispatch.hook].retries
     THEN /\ dispatch' = [dispatch EXCEPT !.tries = @ + 1]
          /\ UNCHANGED counts
     ELSE HookSettled(FALSE)
  /\ UNCHANGED <<now, httpVars, log, dispatches>>

\* A sender of the caller raises: the dispatch is given up where it stands.
HookRaises ==
  /\ Sending
  /\ dispatch' = NoDispatch
  /\ dispatches' = Append(dispatches, [type |-> dispatch.type, status |-> "raised",
                                       results |-> dispatch.results])
  /\ UNCHANGED <<now, httpVars, log, counts>>

Succeeded == {k \in DOMAIN dispatch.results : dispatch.results[k].success}

DispatchReturns ==
  /\ Dispatching /\ ~Sending
  /\ log' = IF dispatch.results = <<>> THEN log
            ELSE Append(log, [type |-> "webhook.dispatched",
                              count |-> Len(dispatch.results),
                              successes |-> Cardinality(Succeeded)])
  /\ dispatches' = Append(dispatches, [type |-> dispatch.type, status |-> "returned",
                                       results |-> dispatch.results])
  /\ dispatch' = NoDispatch
  /\ UNCHANGED <<now, httpVars, counts>>

HookStep == HookDelivered \/ HookFails \/ HookRaises \/ DispatchReturns

ExternalNext ==
  \/ Tick
  \/ \E host \in Hosts :
       RequestRefused(host) \/ RequestLimited(host) \/ RequestAdmitted(host)
  \/ AttemptEnds
  \/ \E type \in EventTypes : DispatchStarts(type)
  \/ HookStep

ExternalSpec == ExternalInit /\ [][ExternalNext]_externalVars

--------------------------------------------------------------------------------
(***************************************************************************)
(* Properties.                                                             *)
(***************************************************************************)
Admitted(i) == requests[i].status \notin {"refused", "limited"}

AdmittedBefore(i) ==
  {j \in 1..(i - 1) : Admitted(j) /\ requests[i].at - requests[j].at < Window}

\* The limiter (RateLimiter.is_allowed) forgets call times as it goes and may
\* forget only what no longer counts: a request to an allowed domain is turned
\* away exactly when the window that ends with it already holds max_calls
\* admitted requests.
RateKept ==
  \A i \in DOMAIN requests : requests[i].status # "refused" =>
    (Admitted(i) <=> Cardinality(AdmittedBefore(i)) < MaxCalls)

Effects(i) == Cardinality({k \in DOMAIN received : received[k] = i})
Answers == {k \in DOMAIN log : log[k].type = "gateway.http.request"}
AnswersTo(i) == {k \in Answers : log[k].request = i}
AnswersThat(status) == {k \in Answers : log[k].status = status}
RequestsThat(status) == {i \in DOMAIN requests : requests[i].status = status}

\* What is on record about one request.
RequestAccounted(i) ==
  /\ ~Admitted(i) => Effects(i) = 0 /\ AnswersTo(i) = {}
  /\ Effects(i) <= MaxRetries
  /\ \A k, l \in AnswersTo(i) : k < l => log[k].attempt < log[l].attempt
  /\ requests[i].status = "succeeded" =>
       /\ Effects(i) > 0
       /\ \E last \in AnswersTo(i) :
            log[last].status = "ok" /\ \A k \in AnswersTo(i) : k <= last

\* What is on record about all of them.
EffectsCounted ==
  /\ Len(received) <= Cardinality(AnswersThat("error"))
                      + Cardinality(RequestsThat("succeeded")) + errors
  /\ Cardinality(AnswersThat("ok")) <= Cardinality(RequestsThat("succeeded")) + errors

\* What HTTPGateway.execute_request reports about a service it can only hear
\* from.  A request that was turned away had no effect, none has more effects
\* than max_retries, and one that is reported as succeeded had its last answer on
\* record good and nothing after it.  Every effect is a request that succeeded,
\* an answer with an error status or an error counted.  The converse of a success
\* has one exception: a good answer on record is that of a request that succeeded,
\* unless its body could not be read, and then it is counted as an error too
\* (after the last attempt such a request is reported as failed).
EffectsAccounted ==
  /\ EffectsCounted
  /\ \A i \in DOMAIN requests : RequestAccounted(i)

\* The hooks told of an event are those that listen to it, in their order, up
\* to the last one told.
ToldInOrder(type, results) ==
  /\ \A k \in DOMAIN results : Matches(type, results[k].hook)
  /\ \A k, l \in DOMAIN results : k < l => results[k].hook < results[l].hook
  /\ \A h \in DOMAIN Hooks, k \in DOMAIN results :
       Matches(type, h) /\ h < results[k].hook =>
         \E j \in DOMAIN results : results[j].hook = h

ToldAll(type, results) ==
  \A h \in DOMAIN Hooks :
    Matches(type, h) => \E k \in DOMAIN results : results[k].hook = h

\* The outcomes of all dispatches, that under way included: <<d, k>> stands for
\* the k-th of the d-th.
ResultsOf(d) ==
  IF d \in DOMAIN dispatches THEN dispatches[d].results ELSE dispatch.results
Outcomes == UNION {{d} \X DOMAIN ResultsOf(d) : d \in 1..(Len(dispatches) + 1)}
OutcomesThat(success) ==
  {outcome \in Outcomes : ResultsOf(outcome[1])[outcome[2]].success = success}

\* The dispatches on record in the log, and those that had anybody to tell.
LoggedDispatches == {k \in DOMAIN log : log[k].type = "webhook.dispatched"}
ToldDispatches ==
  {d \in DOMAIN dispatches :
    dispatches[d].status = "returned" /\ dispatches[d].results # <<>>}

DispatchAccounted(d) ==
  /\ ToldInOrder(dispatches[d].type, dispatches[d].results)
  /\ dispatches[d].status = "returned" =>
       ToldAll(dispatches[d].type, dispatches[d].results)

\* WebhookDispatcher.dispatch: a dispatch that returned has an outcome for every
\* webhook that listens, in their order, and one that a sender broke off for the
\* first few; the counters agree with the outcomes, those of the dispatches
\* broken off included, which the log does not mention.
DispatchesAccounted ==
  /\ \A d \in DOMAIN dispatches : DispatchAccounted(d)
  /\ counts.dispatched = Cardinality(Outcomes)
  /\ counts.succeeded = Cardinality(OutcomesThat(TRUE))
  /\ counts.failed = Cardinality(OutcomesThat(FALSE))
  /\ Cardinality(LoggedDispatches) = Cardinality(ToldDispatches)
================================================================================
