---------------------------- MODULE LlmAdmission ----------------------------
(***************************************************************************)
(* The "llm_sync" workload: the semaphore of WorkloadAdmission.acquire     *)
(* (common/workload_admission.py), taken by the summarize route for the    *)
(* whole request (llm/routes/summarize.py) and again by LLMClient for each *)
(* provider attempt (llm/clients/llm.py), and how an expired wait is       *)
(* answered in each place (common/middleware/error_handler.py).            *)
(*                                                                         *)
(* asyncio.Semaphore hands a released slot to its first waiter, so a slot  *)
(* is never free while a request waits.  The cache, validation and the     *)
(* deadline of a request are in LlmRequest.                                *)
(***************************************************************************)
EXTENDS Integers, SequencesExt

CONSTANTS
  Prompts,      \* request slots (a slot is reused)
  Summaries,    \* those that come through the summarize route
  Capacity,     \* WORKLOAD_CAPACITY["llm_sync"]
  Providers,    \* length of the provider chain
  Attempts      \* MAX_ATTEMPTS

ASSUME LlmAdmissionAssumption ==
  /\ IsFiniteSet(Prompts)
  /\ Summaries \subseteq Prompts
  /\ Capacity \in Nat \ {0}
  /\ Providers \in Nat \ {0}
  /\ Attempts \in Nat \ {0}

VARIABLES
  free,      \* the semaphore's _value
  waiters,   \* its waiters
  phase,     \* phase[r]: how far request r has come
  provider,  \* provider[r]: the provider it tries
  try,       \* try[r]: the attempt at that provider
  error,     \* error[r]: why the last provider was given up
  answer     \* answer[r]: the status its slot was last answered with

lvars == <<free, waiters, phase, provider, try, error, answer>>

\* entering: waits at the route; between: in the client, without a call slot;
\* queued: waits for a call slot; leaving: about to leave the route.
Phases == {"outside", "entering", "between", "queued", "calling", "backoff",
           "leaving"}

LlmTypeOK ==
  /\ free \in 0 .. Capacity
  /\ waiters \in Seq(Prompts)
  /\ phase \in [Prompts -> Phases]
  /\ provider \in [Prompts -> 1 .. Providers]
  /\ try \in [Prompts -> 1 .. Attempts]
  /\ error \in [Prompts -> {"none", "provider", "overload"}]
  /\ answer \in [Prompts -> {"none", "200", "429", "502"}]

LlmInit ==
  /\ free = Capacity
  /\ waiters = <<>>
  /\ phase = [r \in Prompts |-> "outside"]
  /\ provider = [r \in Prompts |-> 1]
  /\ try = [r \in Prompts |-> 1]
  /\ error = [r \in Prompts |-> "none"]
  /\ answer = [r \in Prompts |-> "none"]

-----------------------------------------------------------------------------
(***************************************************************************)
(* The semaphore.                                                          *)
(***************************************************************************)

\* Take a slot, or wait in line.
TakeOrWait(r, taken, waits) ==
  \/ /\ free > 0
     /\ free' = free - 1
     /\ phase' = [phase EXCEPT ![r] = taken]
     /\ UNCHANGED waiters
  \/ /\ free = 0
     /\ waiters' = Append(waiters, r)
     /\ phase' = [phase EXCEPT ![r] = waits]
     /\ UNCHANGED free

Granted == [entering |-> "between", queued |-> "calling"]

\* Request r goes on to phase `to` and gives a slot to the first waiter.
Release(r, to) ==
  \/ /\ waiters = <<>>
     /\ free' = free + 1
     /\ phase' = [phase EXCEPT ![r] = to]
     /\ UNCHANGED waiters
  \/ /\ waiters # <<>>
     /\ waiters' = Tail(waiters)
     /\ phase' = [phase EXCEPT ![r] = to,
                               ![Head(waiters)] = Granted[phase[Head(waiters)]]]
     /\ UNCHANGED free

\* ADMISSION_WAIT_SEC passes, or the waiting request is cancelled.
StopWaiting(r, to) ==
  /\ \E i \in DOMAIN waiters : waiters[i] = r /\ waiters' = RemoveAt(waiters, i)
  /\ phase' = [phase EXCEPT ![r] = to]
  /\ UNCHANGED free

-----------------------------------------------------------------------------
(***************************************************************************)
(* A request.                                                              *)
(***************************************************************************)

\* Only the summarize route takes a slot of its own.
Arrive(r) ==
  /\ phase[r] = "outside"
  /\ IF r \in Summaries
     THEN TakeOrWait(r, "between", "entering")
     ELSE phase' = [phase EXCEPT ![r] = "between"] /\ UNCHANGED <<free, waiters>>
  /\ provider' = [provider EXCEPT ![r] = 1]
  /\ try' = [try EXCEPT ![r] = 1]
  /\ error' = [error EXCEPT ![r] = "none"]
  /\ answer' = [answer EXCEPT ![r] = "none"]

\* WorkloadOverloadedError reaches the error handler.
EntryTimesOut(r) ==
  /\ phase[r] = "entering"
  /\ StopWaiting(r, "outside")
  /\ answer' = [answer EXCEPT ![r] = "429"]
  /\ UNCHANGED <<provider, try, error>>

StartAttempt(r) ==
  /\ phase[r] = "between"
  /\ TakeOrWait(r, "calling", "queued")
  /\ UNCHANGED <<provider, try, error, answer>>

\* The provider is given up for reason `why`: the next one is tried, and after
\* the last one the LLMError is raised.
Exhausted(r) == provider[r] = Providers
AfterProvider(r) == IF Exhausted(r) THEN "leaving" ELSE "between"
GiveUpProvider(r, why) ==
  /\ error' = [error EXCEPT ![r] = why]
  /\ IF Exhausted(r)
     THEN answer' = [answer EXCEPT ![r] = "502"] /\ UNCHANGED <<provider, try>>
     ELSE /\ provider' = [provider EXCEPT ![r] = @ + 1]
          /\ try' = [try EXCEPT ![r] = 1]
          /\ UNCHANGED answer

\* Mutant of AttemptTimesOut: the semaphore is awaited without a timeout.
AttemptNeverTimesOut(r) == FALSE /\ UNCHANGED lvars

\* The admission error of an attempt is an exception like any other: it is not
\* classified as retryable and becomes the provider's failure.
AttemptTimesOut(r) ==
  /\ phase[r] = "queued"
  /\ StopWaiting(r, AfterProvider(r))
  /\ GiveUpProvider(r, "overload")

CallSucceeds(r) ==
  /\ phase[r] = "calling"
  /\ Release(r, "leaving")
  /\ answer' = [answer EXCEPT ![r] = "200"]
  /\ UNCHANGED <<provider, try, error>>

\* A retryable failure: the slot is released before the backoff.
RetryCall(r) ==
  /\ phase[r] = "calling"
  /\ try[r] < Attempts
  /\ Release(r, "backoff")
  /\ try' = [try EXCEPT ![r] = @ + 1]
  /\ UNCHANGED <<provider, error, answer>>

\* Mutant of CallFails: the slot is released on success only.
CallFailsHolding(r) ==
  /\ phase[r] = "calling"
  /\ phase' = [phase EXCEPT ![r] = AfterProvider(r)]
  /\ GiveUpProvider(r, "provider")
  /\ UNCHANGED <<free, waiters>>

\* A failure that is not retryable, or of the last attempt.
CallFails(r) ==
  /\ phase[r] = "calling"
  /\ Release(r, AfterProvider(r))
  /\ GiveUpProvider(r, "provider")

PauseEnds(r) ==
  /\ phase[r] = "backoff"
  /\ phase' = [phase EXCEPT ![r] = "between"]
  /\ UNCHANGED <<free, waiters, provider, try, error, answer>>

\* The task of a request is cancelled while it waits or calls.
CancelRequest(r) ==
  /\ \/ phase[r] = "entering" /\ StopWaiting(r, "outside")
     \/ phase[r] = "queued" /\ StopWaiting(r, "leaving")
     \/ phase[r] = "calling" /\ Release(r, "leaving")
     \/ /\ phase[r] = "backoff"
        /\ phase' = [phase EXCEPT ![r] = "leaving"]
        /\ UNCHANGED <<free, waiters>>
  /\ UNCHANGED <<provider, try, error, answer>>

\* The response is sent; the summarize route gives its slot back.
LeaveRoute(r) ==
  /\ phase[r] = "leaving"
  /\ IF r \in Summaries
     THEN Release(r, "outside")
     ELSE phase' = [phase EXCEPT ![r] = "outside"] /\ UNCHANGED <<free, waiters>>
  /\ UNCHANGED <<provider, try, error, answer>>

Proceed(r) == \/ EntryTimesOut(r)
              \/ StartAttempt(r)
              \/ AttemptTimesOut(r)
              \/ CallSucceeds(r)
              \/ RetryCall(r)
              \/ CallFails(r)
              \/ PauseEnds(r)
              \/ LeaveRoute(r)

LlmNext == \E r \in Prompts : Arrive(r) \/ Proceed(r) \/ CancelRequest(r)

LlmSpec == LlmInit /\ [][LlmNext]_lvars

\* Waits and provider calls are bounded by timeouts, and the event loop runs
\* what is ready.
LlmFairSpec == LlmSpec /\ \A r \in Prompts : WF_lvars(Proceed(r))

-----------------------------------------------------------------------------
(***************************************************************************)
(* Properties.                                                             *)
(***************************************************************************)

AtRoute(r) == r \in Summaries /\ phase[r] \notin {"outside", "entering"}
RouteHolders == {r \in Prompts : AtRoute(r)}
CallHolders == {r \in Prompts : phase[r] = "calling"}

\* Each slot is free or held exactly once, by a request at the route or by a
\* provider call, whatever times out, fails or is cancelled; so the calls
\* under way never exceed the capacity, and no slot leaks.
SlotsExact == free + Cardinality(RouteHolders) + Cardinality(CallHolders) = Capacity

\* Every request ends, also when all the slots are held by requests that wait
\* for a second one.
EveryRequestEnds ==
  \A r \in Prompts : phase[r] # "outside" ~> phase[r] = "outside"

\* "A short admission wait returns retryable 429 WORKLOAD_OVERLOADED": an
\* expired wait is never answered as a provider's failure.
OverloadIs429 ==
  \A r \in Prompts : answer[r] = "502" => error[r] # "overload"

=============================================================================
