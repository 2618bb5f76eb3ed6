--------------------------- MODULE CircuitBreaker ---------------------------
(***************************************************************************)
(* The circuit breaker every CMS request goes through                      *)
(* (common/clients/circuit_breaker.py; CMSClient owns three of them, each  *)
(* an independent instance of this module).                                *)
(*                                                                         *)
(* CircuitBreaker.execute has two sections under the breaker's lock: the   *)
(* admission before `await func(...)` and the outcome after it.  Neither   *)
(* section awaits anything while it holds the lock, so each runs           *)
(* atomically on the event loop and is one action here; between the two    *)
(* any number of other requests may be admitted or may finish.             *)
(*                                                                         *)
(* Time is the age of the last counted failure, in ticks, saturating at    *)
(* ResetTimeout: the code only compares the age with that threshold.       *)
(***************************************************************************)
EXTENDS Integers, FiniteSets

CONSTANTS
  Requests,          \* request slots of the client (a slot is reused)
  FailureThreshold,  \* failure_threshold
  ResetTimeout,      \* reset_timeout_sec, in ticks
  HalfOpenRequests,  \* half_open_requests
  MaxGeneration      \* bound: no new half-open episode past this generation
                     \* while the dependency is unsettled

ASSUME BreakerAssumption ==
  /\ IsFiniteSet(Requests)
  /\ FailureThreshold \in Nat \ {0}
  /\ ResetTimeout \in Nat
  /\ HalfOpenRequests \in Nat \ {0}
  /\ MaxGeneration \in Nat

VARIABLES
  state,               \* _state
  failure_count,       \* _failure_count
  success_count,       \* _success_count
  last_failure_age,    \* time.monotonic() - _last_failure_time, saturated
  generation,          \* _generation
  half_open_in_flight, \* _half_open_in_flight
  call,                \* call[r]: what slot r is doing
  call_generation,     \* the local `generation` of the execute() in slot r
  settled              \* the dependency answers and callers no longer cancel

breaker == <<state, failure_count, success_count, last_failure_age,
             generation, half_open_in_flight>>
vars == <<breaker, call, call_generation, settled>>

CircuitState == {"CLOSED", "OPEN", "HALF_OPEN"}
CallState == {"idle", "calling", "refused", "succeeded", "failed"}

TypeOK ==
  /\ state \in CircuitState
  /\ failure_count \in Nat
  /\ success_count \in Nat
  /\ last_failure_age \in 0..ResetTimeout
  /\ generation \in Nat
  /\ half_open_in_flight \in Nat
  /\ call \in [Requests -> CallState]
  /\ call_generation \in [Requests -> Nat]
  /\ settled \in BOOLEAN

Init ==
  /\ state = "CLOSED"
  /\ failure_count = 0
  /\ success_count = 0
  /\ last_failure_age = ResetTimeout
  /\ generation = 0
  /\ half_open_in_flight = 0
  /\ call = [r \in Requests |-> "idle"]
  /\ call_generation = [r \in Requests |-> 0]
  /\ settled = FALSE

-----------------------------------------------------------------------------
(***************************************************************************)
(* Admission.                                                              *)
(***************************************************************************)

\* _check_state_transition would move the breaker to HALF_OPEN now.
ResetDue == state = "OPEN" /\ last_failure_age >= ResetTimeout

\* The call is let through and remembers the generation it was admitted in.
Begin(r, gen) ==
  /\ call' = [call EXCEPT ![r] = "calling"]
  /\ call_generation' = [call_generation EXCEPT ![r] = gen]
  /\ UNCHANGED settled

ExecuteClosed(r) ==
  /\ call[r] # "calling"
  /\ state = "CLOSED"
  /\ Begin(r, generation)
  /\ UNCHANGED breaker

\* Mutant of ExecuteFirstProbe: a new episode inherits the successes of the
\* one before it.
ExecuteFirstProbeKeepingWins(r) ==
  /\ call[r] # "calling"
  /\ ResetDue
  /\ settled \/ generation < MaxGeneration
  /\ state' = "HALF_OPEN"
  /\ half_open_in_flight' = 1
  /\ generation' = generation + 1
  /\ Begin(r, generation + 1)
  /\ UNCHANGED <<failure_count, success_count, last_failure_age>>

\* The first call after the reset timeout opens a probing episode.
ExecuteFirstProbe(r) ==
  /\ call[r] # "calling"
  /\ ResetDue
  /\ settled \/ generation < MaxGeneration
  /\ state' = "HALF_OPEN"
  /\ success_count' = 0
  /\ half_open_in_flight' = 1
  /\ generation' = generation + 1
  /\ Begin(r, generation + 1)
  /\ UNCHANGED <<failure_count, last_failure_age>>

\* Mutant of ExecuteProbe: off by one in the comparison with the limit.
ExecuteProbeOneTooMany(r) ==
  /\ call[r] # "calling"
  /\ state = "HALF_OPEN"
  /\ half_open_in_flight <= HalfOpenRequests
  /\ half_open_in_flight' = half_open_in_flight + 1
  /\ Begin(r, generation)
  /\ UNCHANGED <<state, failure_count, success_count, last_failure_age,
                 generation>>

ExecuteProbe(r) ==
  /\ call[r] # "calling"
  /\ state = "HALF_OPEN"
  /\ half_open_in_flight < HalfOpenRequests
  /\ half_open_in_flight' = half_open_in_flight + 1
  /\ Begin(r, generation)
  /\ UNCHANGED <<state, failure_count, success_count, last_failure_age,
                 generation>>

\* CircuitOpenError, with no side effect on the breaker.
ExecuteRefused(r) ==
  /\ call[r] # "calling"
  /\ \/ state = "OPEN" /\ ~ResetDue
     \/ state = "HALF_OPEN" /\ half_open_in_flight >= HalfOpenRequests
  /\ call' = [call EXCEPT ![r] = "refused"]
  /\ UNCHANGED <<breaker, call_generation, settled>>

-----------------------------------------------------------------------------
(***************************************************************************)
(* Outcomes.                                                               *)
(***************************************************************************)

Finish(r, outcome) ==
  /\ call[r] = "calling"
  /\ call' = [call EXCEPT ![r] = outcome]
  /\ UNCHANGED <<call_generation, settled>>

\* Mutant of Stale: outcomes are not matched with the generation.
NeverStale(r) == r \notin Requests

\* generation != self._generation: the outcome belongs to an earlier phase.
Stale(r) == call_generation[r] # generation

\* Does this success complete the half-open episode?
LastSuccess == success_count + 1 >= HalfOpenRequests

\* Does this failure open the circuit?
Trips == state = "HALF_OPEN" \/ failure_count + 1 >= FailureThreshold

OnSuccess(r) ==
  \/ /\ Stale(r)
     /\ UNCHANGED breaker
  \/ /\ ~Stale(r)
     /\ state = "HALF_OPEN"
     /\ half_open_in_flight' = half_open_in_flight - 1
     /\ success_count' = success_count + 1
     /\ IF LastSuccess
        THEN state' = "CLOSED" /\ failure_count' = 0
        ELSE UNCHANGED <<state, failure_count>>
     /\ UNCHANGED <<last_failure_age, generation>>
  \/ /\ ~Stale(r)
     /\ state # "HALF_OPEN"
     /\ failure_count' = 0
     /\ UNCHANGED <<state, success_count, last_failure_age, generation,
                    half_open_in_flight>>

OnFailure(r) ==
  \/ /\ Stale(r)
     /\ UNCHANGED breaker
  \/ /\ ~Stale(r)
     /\ half_open_in_flight' = IF state = "HALF_OPEN"
                               THEN half_open_in_flight - 1
                               ELSE half_open_in_flight
     /\ failure_count' = failure_count + 1
     /\ last_failure_age' = 0
     /\ IF Trips
        THEN state' = "OPEN" /\ generation' = generation + 1
        ELSE UNCHANGED <<state, generation>>
     /\ UNCHANGED success_count

\* Mutant of ReleaseProbe: a cancelled probe keeps its permit.
ReleaseProbeNever(r) == r \in Requests /\ UNCHANGED breaker

ReleaseProbe(r) ==
  /\ half_open_in_flight' = IF ~Stale(r) /\ state = "HALF_OPEN"
                            THEN half_open_in_flight - 1
                            ELSE half_open_in_flight
  /\ UNCHANGED <<state, failure_count, success_count, last_failure_age,
                 generation>>

Succeed(r) == Finish(r, "succeeded") /\ OnSuccess(r)

\* A countable failure: 429, a 5xx status or a transport error.
FailCounted(r) == ~settled /\ Finish(r, "failed") /\ OnFailure(r)

\* Cancelled by its caller, or an answer that says nothing about the health
\* of the dependency (another 4xx, a body that is not JSON).
FailUncounted(r) == ~settled /\ Finish(r, "failed") /\ ReleaseProbe(r)

-----------------------------------------------------------------------------
(***************************************************************************)
(* The environment: time passes, and the dependency may recover for good.  *)
(***************************************************************************)

Tick ==
  /\ last_failure_age < ResetTimeout
  /\ last_failure_age' = last_failure_age + 1
  /\ UNCHANGED <<state, failure_count, success_count, generation,
                 half_open_in_flight, call, call_generation, settled>>

Settle ==
  /\ ~settled
  /\ settled' = TRUE
  /\ UNCHANGED <<breaker, call, call_generation>>

Execute(r) == \/ ExecuteClosed(r)
              \/ ExecuteFirstProbe(r)
              \/ ExecuteProbe(r)
              \/ ExecuteRefused(r)

Next ==
  \/ \E r \in Requests :
       \/ Execute(r)
       \/ Succeed(r)
       \/ FailCounted(r)
       \/ FailUncounted(r)
  \/ Tick
  \/ Settle

Spec == Init /\ [][Next]_vars

\* Time passes, an admitted call is answered in the end, and traffic never
\* dries up.  Failures, cancellations and Settle are never forced.
Fairness ==
  /\ WF_vars(Tick)
  /\ \A r \in Requests : WF_vars(Succeed(r))
  /\ WF_vars(\E r \in Requests : ExecuteFirstProbe(r))
  /\ WF_vars(\E r \in Requests : ExecuteProbe(r))

FairSpec == Spec /\ Fairness

-----------------------------------------------------------------------------
(***************************************************************************)
(* Properties.                                                             *)
(***************************************************************************)

\* The calls that hold one of the half-open permits.
Probes == {r \in Requests : call[r] = "calling" /\ ~Stale(r)}

\* While the circuit is half-open, the permits counted as taken are exactly
\* the calls that are really running in this episode, at most
\* HalfOpenRequests of them: no permit leaks through cancellation, a stale
\* outcome or a re-opening, and none is given back twice.
ProbePermits ==
  state = "HALF_OPEN" =>
    /\ half_open_in_flight = Cardinality(Probes)
    /\ half_open_in_flight <= HalfOpenRequests

\* An open circuit has no running call of its own generation, so no answer
\* to an earlier request can touch it before the reset timeout admits a
\* probe.
OpenIsSealed == state = "OPEN" => Probes = {}

\* execute() refuses a call only while the circuit cools down or while the
\* half-open permits are all held by calls that are still running.
RefusedOnlyForCause ==
  [][\A r \in Requests :
       call[r] # "refused" /\ call'[r] = "refused" =>
         \/ state = "OPEN" /\ last_failure_age < ResetTimeout
         \/ state = "HALF_OPEN" /\ Cardinality(Probes) = HalfOpenRequests]_vars

\* Failures of requests issued before the circuit opened never push the
\* reset of an open circuit further away.
OutageNeverExtended ==
  [][state = "OPEN" /\ state' = "OPEN" =>
       last_failure_age' >= last_failure_age]_vars

\* Once the dependency answers again and callers stop cancelling, the
\* circuit closes: no interleaving of late answers leaves it open or stuck
\* half-open with its permits lost.
Recovery == settled ~> state = "CLOSED"

-----------------------------------------------------------------------------
(***************************************************************************)
(* The breaker implements the promise: a probe is a running call of the    *)
(* current generation, and the circuit has cooled once the reset timeout   *)
(* has passed.                                                             *)
(***************************************************************************)

Promise == INSTANCE BreakerPromise
  WITH Callers <- Requests,
       Permits <- HalfOpenRequests,
       mode    <- state,
       cooled  <- ResetDue,
       probing <- IF state = "HALF_OPEN" THEN Probes ELSE {},
       lucky   <- IF state = "HALF_OPEN" THEN success_count ELSE 0

\* Every step of the breaker is a step the promise allows, or invisible to
\* it: in particular calls from before a trip, whatever they report, never
\* open, close or delay anything.
KeepsPromise == Promise!Spec

=============================================================================
