------------------------ MODULE CircuitBreakerProofs ------------------------
(***************************************************************************)
(* Safety of the circuit breaker for every number of request slots, every  *)
(* threshold and every timeout, and its refinement of BreakerPromise.      *)
(*                                                                         *)
(* ProbePermits is not inductive alone.  That the half-open counter starts *)
(* a new episode with no call of the new generation needs the running      *)
(* calls' generations to be bounded by the breaker's (GenerationBound);    *)
(* and the refinement needs success_count to stay below the number that    *)
(* closes the circuit (EpisodeUnfinished).  That only fresh successes      *)
(* close it needs what the counters share with the history of              *)
(* ProbeHistory (EpisodeRemembered).                                       *)
(***************************************************************************)
EXTENDS ProbeHistory, FiniteSetTheorems, TLAPS

GenerationBound == \A r \in Requests : call_generation[r] <= generation

EpisodeUnfinished == state = "HALF_OPEN" => success_count < HalfOpenRequests

IInv ==
  /\ TypeOK
  /\ GenerationBound
  /\ EpisodeUnfinished
  /\ ProbePermits
  /\ OpenIsSealed

-----------------------------------------------------------------------------
\* The probes are finitely many, so counting them is meaningful.
LEMMA ProbesFinite ==
  IsFiniteSet(Probes) /\ Cardinality(Probes) \in Nat
<1>1. Probes \in SUBSET Requests
  BY DEF Probes
<1>2. IsFiniteSet(Probes)
  BY <1>1, FS_Subset, BreakerAssumption
<1> QED
  BY <1>2, FS_CardinalityType

\* Admitting a call of generation g makes it the only change to the calls.
LEMMA BeginEffect ==
  ASSUME TypeOK, NEW r \in Requests, NEW g \in Nat, Begin(r, g)
  PROVE  /\ call' \in [Requests -> CallState]
         /\ call_generation' \in [Requests -> Nat]
         /\ call'[r] = "calling" /\ call_generation'[r] = g
         /\ \A s \in Requests \ {r} : /\ call'[s] = call[s]
                                      /\ call_generation'[s] = call_generation[s]
         /\ settled' \in BOOLEAN
  BY DEF TypeOK, Begin, CallState

\* A finished call is no longer a probe; the other calls are untouched.
LEMMA FinishEffect ==
  ASSUME TypeOK, NEW r \in Requests, NEW outcome \in {"succeeded", "failed"},
         Finish(r, outcome)
  PROVE  /\ call[r] = "calling"
         /\ call' \in [Requests -> CallState]
         /\ call_generation' = call_generation
         /\ call'[r] = outcome
         /\ \A s \in Requests \ {r} : call'[s] = call[s]
         /\ settled' \in BOOLEAN
  BY DEF TypeOK, Finish, CallState

\* While the generation stays, finishing r removes r from the probes.
LEMMA FinishProbes ==
  ASSUME TypeOK, NEW r \in Requests, NEW outcome \in {"succeeded", "failed"},
         Finish(r, outcome), generation' = generation
  PROVE  /\ Probes' = Probes \ {r}
         /\ r \in Probes <=> ~Stale(r)
         /\ Cardinality(Probes') = IF Stale(r) THEN Cardinality(Probes)
                                   ELSE Cardinality(Probes) - 1
<1>1. Probes' = Probes \ {r}
  BY FinishEffect DEF Probes, Stale
<1>2. r \in Probes <=> ~Stale(r)
  BY FinishEffect DEF Probes
<1>3. Cardinality(Probes \ {r}) = IF r \in Probes THEN Cardinality(Probes) - 1
                                  ELSE Cardinality(Probes)
  BY ProbesFinite, FS_RemoveElement
<1> QED
  BY <1>1, <1>2, <1>3

\* A fresh generation belongs to nobody.
LEMMA NewGenerationEmpty ==
  ASSUME TypeOK, GenerationBound, call_generation' = call_generation,
         generation' = generation + 1
  PROVE  Probes' = {}
<1>1. ASSUME NEW s \in Requests PROVE call_generation'[s] # generation'
  BY <1>1 DEF TypeOK, GenerationBound
<1> QED
  BY <1>1 DEF Probes, Stale

-----------------------------------------------------------------------------
\* The strengthened invariant holds when the client is built.
LEMMA InitInv == Init => IInv
<1> SUFFICES ASSUME Init PROVE IInv
  OBVIOUS
<1>1. TypeOK /\ GenerationBound
  <2>1. settled \in BOOLEAN
    BY DEF Init
  <2>2. ResetTimeout \in 0..ResetTimeout
    BY BreakerAssumption
  <2> QED
    BY <2>1, <2>2
    DEF Init, TypeOK, GenerationBound, CircuitState, CallState
<1>2. EpisodeUnfinished /\ ProbePermits /\ OpenIsSealed
  BY DEF Init, EpisodeUnfinished, ProbePermits, OpenIsSealed
<1> QED
  BY <1>1, <1>2 DEF IInv

\* Admission preserves it.
LEMMA ExecuteInv ==
  ASSUME IInv, NEW r \in Requests, Execute(r)
  PROVE  IInv'
<1> USE DEF IInv
<1>1. CASE ExecuteClosed(r)
  <2>1. Begin(r, generation) /\ UNCHANGED breaker /\ state = "CLOSED"
    BY <1>1 DEF ExecuteClosed
  <2>2. TypeOK' /\ GenerationBound'
    BY <2>1, BeginEffect DEF TypeOK, breaker, GenerationBound
  <2>3. EpisodeUnfinished' /\ ProbePermits' /\ OpenIsSealed'
    BY <2>1 DEF breaker, EpisodeUnfinished, ProbePermits, OpenIsSealed
  <2> QED
    BY <2>2, <2>3
<1>2. CASE ExecuteFirstProbe(r)
  <2>1. /\ Begin(r, generation + 1)
        /\ state' = "HALF_OPEN"
        /\ success_count' = 0
        /\ half_open_in_flight' = 1
        /\ generation' = generation + 1
        /\ UNCHANGED <<failure_count, last_failure_age>>
    BY <1>2 DEF ExecuteFirstProbe
  <2>2. TypeOK' /\ GenerationBound'
    BY <2>1, BeginEffect DEF TypeOK, CircuitState, GenerationBound
  <2>3. EpisodeUnfinished'
    BY <2>1, BreakerAssumption DEF EpisodeUnfinished
  <2>4. Probes' = {r}
    <3>1. r \in Probes'
      BY <2>1, BeginEffect DEF Probes, Stale, TypeOK
    <3>2. ASSUME NEW s \in Requests \ {r} PROVE s \notin Probes'
      <4>1. call_generation'[s] = call_generation[s]
        BY <2>1, BeginEffect DEF TypeOK
      <4>2. call_generation[s] <= generation
        BY DEF GenerationBound
      <4> QED
        BY <2>1, <4>1, <4>2 DEF Probes, Stale, TypeOK
    <3> QED
      BY <3>1, <3>2 DEF Probes
  <2>5. ProbePermits'
    BY <2>1, <2>4, FS_Singleton, BreakerAssumption DEF ProbePermits
  <2>6. OpenIsSealed'
    BY <2>1 DEF OpenIsSealed
  <2> QED
    BY <2>2, <2>3, <2>5, <2>6
<1>3. CASE ExecuteProbe(r)
  <2>1. /\ Begin(r, generation)
        /\ state = "HALF_OPEN" /\ call[r] # "calling"
        /\ half_open_in_flight < HalfOpenRequests
        /\ half_open_in_flight' = half_open_in_flight + 1
        /\ UNCHANGED <<state, failure_count, success_count, last_failure_age,
                       generation>>
    BY <1>3 DEF ExecuteProbe
  <2>2. TypeOK' /\ GenerationBound'
    BY <2>1, BeginEffect DEF TypeOK, GenerationBound
  <2>3. Probes' = Probes \cup {r} /\ r \notin Probes
    BY <2>1, BeginEffect DEF Probes, Stale, TypeOK
  <2>4. Cardinality(Probes') = Cardinality(Probes) + 1
    BY <2>3, ProbesFinite, FS_AddElement
  <2>5. ProbePermits'
    BY <2>1, <2>4, BreakerAssumption DEF ProbePermits, TypeOK
  <2>6. EpisodeUnfinished' /\ OpenIsSealed'
    BY <2>1 DEF EpisodeUnfinished, OpenIsSealed
  <2> QED
    BY <2>2, <2>5, <2>6
<1>4. CASE ExecuteRefused(r)
  <2>1. /\ call[r] # "calling" /\ call' = [call EXCEPT ![r] = "refused"]
        /\ UNCHANGED <<breaker, call_generation, settled>>
    BY <1>4 DEF ExecuteRefused
  <2>2. TypeOK' /\ GenerationBound'
    BY <2>1 DEF TypeOK, breaker, CallState, GenerationBound
  <2>3. Probes' = Probes
    BY <2>1 DEF Probes, Stale, breaker, TypeOK
  <2>4. EpisodeUnfinished' /\ ProbePermits' /\ OpenIsSealed'
    BY <2>1, <2>3 DEF breaker, EpisodeUnfinished, ProbePermits, OpenIsSealed
  <2> QED
    BY <2>2, <2>4
<1> QED
  BY <1>1, <1>2, <1>3, <1>4 DEF Execute

\* A successful answer preserves it.
LEMMA SucceedInv ==
  ASSUME IInv, NEW r \in Requests, Succeed(r)
  PROVE  IInv'
<1> USE DEF IInv
<1>1. Finish(r, "succeeded") /\ OnSuccess(r) /\ generation' = generation
  BY DEF Succeed, OnSuccess, breaker
<1>2. GenerationBound'
  BY <1>1, FinishEffect DEF GenerationBound
<1>3. CASE Stale(r) /\ UNCHANGED breaker
  <2>1. Probes' = Probes
    BY <1>1, <1>3, FinishProbes
  <2>2. TypeOK'
    BY <1>1, <1>3, FinishEffect DEF TypeOK, breaker
  <2>3. EpisodeUnfinished' /\ ProbePermits' /\ OpenIsSealed'
    BY <1>3, <2>1 DEF breaker, EpisodeUnfinished, ProbePermits, OpenIsSealed
  <2> QED
    BY <1>2, <2>2, <2>3
<1>4. CASE ~Stale(r) /\ state = "HALF_OPEN"
  <2>1. /\ half_open_in_flight' = half_open_in_flight - 1
        /\ success_count' = success_count + 1
        /\ \/ LastSuccess /\ state' = "CLOSED" /\ failure_count' = 0
           \/ ~LastSuccess /\ UNCHANGED <<state, failure_count>>
        /\ UNCHANGED <<last_failure_age, generation>>
    BY <1>1, <1>4 DEF OnSuccess
  <2>2. Cardinality(Probes') = Cardinality(Probes) - 1 /\ r \in Probes
    BY <1>1, <1>4, FinishProbes
  <2>3. Cardinality(Probes) # 0
    BY <2>2, ProbesFinite, FS_EmptySet
  <2>4. half_open_in_flight' \in Nat
    BY <1>4, <2>1, <2>3, ProbesFinite DEF ProbePermits, TypeOK
  <2>5. TypeOK'
    BY <1>1, <2>1, <2>4, FinishEffect DEF TypeOK, CircuitState
  <2>6. EpisodeUnfinished'
    BY <2>1, BreakerAssumption DEF EpisodeUnfinished, LastSuccess, TypeOK
  <2>7. ProbePermits' /\ OpenIsSealed'
    BY <1>4, <2>1, <2>2, ProbesFinite, BreakerAssumption
    DEF ProbePermits, OpenIsSealed, TypeOK
  <2> QED
    BY <1>2, <2>5, <2>6, <2>7
<1>5. CASE ~Stale(r) /\ state # "HALF_OPEN"
  <2>1. /\ failure_count' = 0
        /\ UNCHANGED <<state, success_count, last_failure_age, generation,
                       half_open_in_flight>>
    BY <1>1, <1>5 DEF OnSuccess
  <2>2. TypeOK'
    BY <1>1, <2>1, FinishEffect DEF TypeOK
  <2>3. Probes' \subseteq Probes
    BY <1>1, FinishProbes
  <2>4. EpisodeUnfinished' /\ ProbePermits' /\ OpenIsSealed'
    BY <1>5, <2>1, <2>3 DEF EpisodeUnfinished, ProbePermits, OpenIsSealed
  <2> QED
    BY <1>2, <2>2, <2>4
<1> QED
  BY <1>1, <1>3, <1>4, <1>5 DEF OnSuccess

\* A counted failure preserves it.
LEMMA FailCountedInv ==
  ASSUME IInv, NEW r \in Requests, FailCounted(r)
  PROVE  IInv'
<1> USE DEF IInv
<1>1. Finish(r, "failed") /\ OnFailure(r)
  BY DEF FailCounted
<1>2. CASE Stale(r) /\ UNCHANGED breaker
  <2>1. Probes' = Probes
    BY <1>1, <1>2, FinishProbes DEF breaker
  <2>2. TypeOK' /\ GenerationBound'
    BY <1>1, <1>2, FinishEffect DEF TypeOK, breaker, GenerationBound
  <2>3. EpisodeUnfinished' /\ ProbePermits' /\ OpenIsSealed'
    BY <1>2, <2>1 DEF breaker, EpisodeUnfinished, ProbePermits, OpenIsSealed
  <2> QED
    BY <2>2, <2>3
<1>3. CASE ~Stale(r)
  <2>1. /\ half_open_in_flight' = IF state = "HALF_OPEN"
                                  THEN half_open_in_flight - 1
                                  ELSE half_open_in_flight
        /\ failure_count' = failure_count + 1
        /\ last_failure_age' = 0
        /\ \/ state' = "OPEN" /\ generation' = generation + 1
           \/ state # "HALF_OPEN" /\ UNCHANGED <<state, generation>>
        /\ UNCHANGED success_count
    BY <1>1, <1>3 DEF OnFailure, Trips
  <2>2. r \in Probes
    BY <1>1, <1>3, FinishEffect DEF Probes
  <2>3. half_open_in_flight' \in Nat
    BY <2>1, <2>2, ProbesFinite, FS_EmptySet DEF ProbePermits, TypeOK
  <2>4. TypeOK' /\ GenerationBound'
    BY <1>1, <2>1, <2>3, FinishEffect, BreakerAssumption
    DEF TypeOK, CircuitState, GenerationBound
  <2>5. state' # "HALF_OPEN"
    BY <2>1
  <2>6. OpenIsSealed'
    <3>1. CASE state' = "OPEN" /\ generation' = generation + 1
      BY <1>1, <3>1, FinishEffect, NewGenerationEmpty DEF OpenIsSealed
    <3>2. CASE UNCHANGED <<state, generation>>
      BY <2>2, <3>2 DEF OpenIsSealed
    <3> QED
      BY <2>1, <3>1, <3>2
  <2> QED
    BY <2>4, <2>5, <2>6 DEF EpisodeUnfinished, ProbePermits
<1> QED
  BY <1>1, <1>2, <1>3 DEF OnFailure

\* A cancellation or an uncounted failure preserves it.
LEMMA FailUncountedInv ==
  ASSUME IInv, NEW r \in Requests, FailUncounted(r)
  PROVE  IInv'
<1> USE DEF IInv
<1>1. /\ Finish(r, "failed")
      /\ half_open_in_flight' = IF ~Stale(r) /\ state = "HALF_OPEN"
                                THEN half_open_in_flight - 1
                                ELSE half_open_in_flight
      /\ UNCHANGED <<state, failure_count, success_count, last_failure_age,
                     generation>>
  BY DEF FailUncounted, ReleaseProbe
<1>2. /\ Probes' = Probes \ {r}
      /\ r \in Probes <=> ~Stale(r)
      /\ Cardinality(Probes') = IF Stale(r) THEN Cardinality(Probes)
                                ELSE Cardinality(Probes) - 1
  BY <1>1, FinishProbes
<1>3. half_open_in_flight' \in Nat
  BY <1>1, <1>2, ProbesFinite, FS_EmptySet DEF ProbePermits, TypeOK
<1>4. TypeOK' /\ GenerationBound' /\ EpisodeUnfinished'
  BY <1>1, <1>3, FinishEffect DEF TypeOK, GenerationBound, EpisodeUnfinished
<1>5. ProbePermits'
  BY <1>1, <1>2, ProbesFinite, BreakerAssumption DEF ProbePermits, TypeOK
<1>6. OpenIsSealed'
  BY <1>1, <1>2 DEF OpenIsSealed
<1> QED
  BY <1>4, <1>5, <1>6

\* Every step preserves it.
LEMMA NextInv == IInv /\ [Next]_vars => IInv'
<1> SUFFICES ASSUME IInv, [Next]_vars PROVE IInv'
  OBVIOUS
<1>1. ASSUME NEW r \in Requests, Execute(r) PROVE IInv'
  BY <1>1, ExecuteInv
<1>2. ASSUME NEW r \in Requests, Succeed(r) PROVE IInv'
  BY <1>2, SucceedInv
<1>3. ASSUME NEW r \in Requests, FailCounted(r) PROVE IInv'
  BY <1>3, FailCountedInv
<1>4. ASSUME NEW r \in Requests, FailUncounted(r) PROVE IInv'
  BY <1>4, FailUncountedInv
<1>5. ASSUME \/ Tick \/ Settle \/ UNCHANGED vars
      PROVE  IInv'
  <2>1. /\ UNCHANGED <<state, success_count, generation, half_open_in_flight,
                       call, call_generation>>
    BY <1>5 DEF Tick, Settle, vars, breaker
  <2>2. TypeOK' /\ GenerationBound' /\ EpisodeUnfinished'
    <3>1. settled' \in BOOLEAN
      BY <1>5 DEF IInv, TypeOK, Tick, Settle, vars
    <3>2. last_failure_age' \in 0..ResetTimeout /\ failure_count' = failure_count
      BY <1>5, BreakerAssumption DEF IInv, TypeOK, Tick, Settle, vars, breaker
    <3> QED
      BY <2>1, <3>1, <3>2 DEF IInv, TypeOK, GenerationBound, EpisodeUnfinished
  <2>3. Probes' = Probes
    BY <2>1 DEF Probes, Stale
  <2> QED
    BY <2>1, <2>2, <2>3 DEF IInv, ProbePermits, OpenIsSealed
<1> QED
  BY <1>1, <1>2, <1>3, <1>4, <1>5 DEF Next

\* The strengthened invariant holds throughout.
LEMMA Invariance == Spec => []IInv
<1> QED
  BY InitInv, NextInv, PTL DEF Spec

-----------------------------------------------------------------------------
\* The breaker's counters stay natural numbers: in_flight never goes below
\* zero, whichever calls are cancelled, late or refused.
THEOREM TypeCorrect == Spec => []TypeOK
<1>1. IInv => TypeOK
  BY DEF IInv
<1> QED
  BY <1>1, Invariance, PTL

\* No half-open permit is ever lost or granted twice.
THEOREM PermitsExact == Spec => []ProbePermits
<1>1. IInv => ProbePermits
  BY DEF IInv
<1> QED
  BY <1>1, Invariance, PTL

\* No running call can touch an open circuit.
THEOREM OpenSealed == Spec => []OpenIsSealed
<1>1. IInv => OpenIsSealed
  BY DEF IInv
<1> QED
  BY <1>1, Invariance, PTL

\* A refusal while half-open means every permit is held by a running call.
THEOREM RefusalsJustified == Spec => RefusedOnlyForCause
<1> DEFINE Justified ==
      \A r \in Requests :
        call[r] # "refused" /\ call'[r] = "refused" =>
          \/ state = "OPEN" /\ last_failure_age < ResetTimeout
          \/ state = "HALF_OPEN" /\ Cardinality(Probes) = HalfOpenRequests
<1>1. IInv /\ [Next]_vars => [Justified]_vars
  <2> SUFFICES ASSUME IInv, Next, NEW r \in Requests,
                      call[r] # "refused", call'[r] = "refused"
               PROVE  \/ state = "OPEN" /\ last_failure_age < ResetTimeout
                      \/ state = "HALF_OPEN"
                         /\ Cardinality(Probes) = HalfOpenRequests
    BY DEF vars
  <2>1. ASSUME NEW s \in Requests, ExecuteRefused(s)
        PROVE  \/ state = "OPEN" /\ last_failure_age < ResetTimeout
               \/ state = "HALF_OPEN" /\ Cardinality(Probes) = HalfOpenRequests
    BY <2>1, BreakerAssumption
    DEF ExecuteRefused, ResetDue, IInv, ProbePermits, TypeOK
  <2>2. ASSUME NEW s \in Requests,
               ExecuteClosed(s) \/ ExecuteFirstProbe(s) \/ ExecuteProbe(s)
        PROVE  call'[r] # "refused"
    BY <2>2
    DEF ExecuteClosed, ExecuteFirstProbe, ExecuteProbe, Begin, IInv, TypeOK
  <2>3. ASSUME NEW s \in Requests,
               Succeed(s) \/ FailCounted(s) \/ FailUncounted(s)
        PROVE  call'[r] # "refused"
    BY <2>3
    DEF Succeed, FailCounted, FailUncounted, Finish, IInv, TypeOK
  <2>4. CASE Tick \/ Settle
    BY <2>4 DEF Tick, Settle
  <2> QED
    BY <2>1, <2>2, <2>3, <2>4 DEF Next, Execute
<1> QED
  BY <1>1, Invariance, PTL DEF Spec, RefusedOnlyForCause

\* Late failures never prolong an outage.
THEOREM OutageBounded == Spec => OutageNeverExtended
<1> DEFINE NotExtended == state = "OPEN" /\ state' = "OPEN" =>
                            last_failure_age' >= last_failure_age
<1>1. IInv /\ [Next]_vars => [NotExtended]_vars
  <2> SUFFICES ASSUME IInv, Next, state = "OPEN", state' = "OPEN"
               PROVE  last_failure_age' >= last_failure_age
    BY DEF vars
  <2>1. last_failure_age \in Int
    BY BreakerAssumption DEF IInv, TypeOK
  <2>2. ASSUME NEW r \in Requests, Execute(r)
        PROVE  last_failure_age' = last_failure_age
    BY <2>2 DEF Execute, ExecuteClosed, ExecuteFirstProbe, ExecuteProbe,
                ExecuteRefused, breaker
  <2>3. ASSUME NEW r \in Requests, Succeed(r) \/ FailUncounted(r)
        PROVE  last_failure_age' = last_failure_age
    BY <2>3 DEF Succeed, FailUncounted, OnSuccess, ReleaseProbe, breaker
  <2>4. ASSUME NEW r \in Requests, FailCounted(r)
        PROVE  last_failure_age' = last_failure_age
    <3>1. call[r] = "calling" /\ OnFailure(r)
      BY <2>4 DEF FailCounted, Finish
    <3>2. Stale(r)
      BY <3>1 DEF IInv, OpenIsSealed, Probes
    <3> QED
      BY <3>1, <3>2 DEF OnFailure, breaker
  <2>5. ASSUME Tick \/ Settle
        PROVE  last_failure_age' >= last_failure_age
    BY <2>1, <2>5 DEF Tick, Settle, breaker
  <2> QED
    BY <2>1, <2>2, <2>3, <2>4, <2>5 DEF Next
<1> QED
  BY <1>1, Invariance, PTL DEF Spec, OutageNeverExtended

-----------------------------------------------------------------------------
(***************************************************************************)
(* Refinement of BreakerPromise.                                           *)
(***************************************************************************)

\* The instance of BreakerPromise counts sets as this module does.
LEMMA SameCardinality ==
  ASSUME NEW S
  PROVE  Promise!Cardinality(S) = Cardinality(S)
<1> QED
  BY SMT DEF Cardinality, Promise!Cardinality

\* Admission is invisible, or starts a probe the promise allows.
LEMMA ExecuteRefines ==
  ASSUME IInv, NEW r \in Requests, Execute(r)
  PROVE  [Promise!Next]_(Promise!promise)
<1> USE DEF IInv, Promise!promise
<1>1. CASE ExecuteClosed(r)
  BY <1>1 DEF ExecuteClosed, breaker, ResetDue
<1>2. CASE ExecuteFirstProbe(r)
  <2>1. /\ Begin(r, generation + 1)
        /\ state = "OPEN" /\ ResetDue
        /\ state' = "HALF_OPEN"
        /\ success_count' = 0
        /\ generation' = generation + 1
    BY <1>2 DEF ExecuteFirstProbe, ResetDue
  <2>2. Probes' = {r}
    <3>1. r \in Probes'
      BY <2>1, BeginEffect DEF Probes, Stale, TypeOK
    <3>2. ASSUME NEW s \in Requests \ {r} PROVE s \notin Probes'
      <4>1. call_generation'[s] = call_generation[s]
        BY <2>1, BeginEffect DEF TypeOK
      <4>2. call_generation[s] <= generation
        BY DEF GenerationBound
      <4> QED
        BY <2>1, <4>1, <4>2 DEF Probes, Stale, TypeOK
    <3> QED
      BY <3>1, <3>2 DEF Probes
  <2>3. ResetDue' = FALSE
    BY <2>1 DEF ResetDue
  <2>4. Promise!FirstProbe(r)
    BY <2>1, <2>2, <2>3 DEF Promise!FirstProbe
  <2> QED
    BY <2>4 DEF Promise!Next
<1>3. CASE ExecuteProbe(r)
  <2>1. /\ Begin(r, generation)
        /\ state = "HALF_OPEN" /\ call[r] # "calling"
        /\ half_open_in_flight < HalfOpenRequests
        /\ UNCHANGED <<state, success_count, last_failure_age, generation>>
    BY <1>3 DEF ExecuteProbe
  <2>2. Probes' = Probes \cup {r} /\ r \notin Probes
    BY <2>1, BeginEffect DEF Probes, Stale, TypeOK
  <2>3. (IF state = "HALF_OPEN" THEN Probes ELSE {}) = Probes
    BY <2>1
  <2>4. Cardinality(Probes) < HalfOpenRequests
    BY <2>1 DEF ProbePermits
  <2>5. Promise!Probe(r)
    BY <2>1, <2>2, <2>3, <2>4, SameCardinality DEF Promise!Probe, ResetDue
  <2> QED
    BY <2>5 DEF Promise!Next
<1>4. CASE ExecuteRefused(r)
  <2>1. Probes' = Probes
    BY <1>4 DEF ExecuteRefused, Probes, Stale, breaker, TypeOK
  <2> QED
    BY <1>4, <2>1 DEF ExecuteRefused, breaker, ResetDue
<1> QED
  BY <1>1, <1>2, <1>3, <1>4 DEF Execute

\* An answer is a probe's outcome, a trip, or invisible.
LEMMA OutcomeRefines ==
  ASSUME IInv, NEW r \in Requests,
         Succeed(r) \/ FailCounted(r) \/ FailUncounted(r)
  PROVE  [Promise!Next]_(Promise!promise)
<1> USE DEF IInv, Promise!promise
<1> PICK outcome \in {"succeeded", "failed"} : Finish(r, outcome)
  BY DEF Succeed, FailCounted, FailUncounted
<1>1. CASE Stale(r)
  <2>1. UNCHANGED breaker
    BY <1>1 DEF Succeed, FailCounted, FailUncounted, OnSuccess, OnFailure,
                ReleaseProbe, breaker
  <2>2. Probes' = Probes
    BY <1>1, <2>1, FinishProbes DEF breaker
  <2> QED
    BY <2>1, <2>2 DEF breaker, ResetDue
<1>2. CASE ~Stale(r) /\ Succeed(r) /\ state = "HALF_OPEN"
  <2>1. /\ success_count' = success_count + 1
        /\ \/ LastSuccess /\ state' = "CLOSED"
           \/ ~LastSuccess /\ state' = "HALF_OPEN"
        /\ UNCHANGED <<last_failure_age, generation>>
    BY <1>2 DEF Succeed, OnSuccess
  <2>2. Probes' = Probes \ {r} /\ r \in Probes
    BY <1>2, <2>1, FinishProbes
  <2>3. LastSuccess <=> success_count + 1 = HalfOpenRequests
    BY <1>2, BreakerAssumption DEF LastSuccess, EpisodeUnfinished, TypeOK
  <2>4. Promise!Lucky(r)
    BY <1>2, <2>1, <2>2, <2>3 DEF Promise!Lucky, ResetDue
  <2> QED
    BY <2>4 DEF Promise!Next
<1>3. CASE ~Stale(r) /\ Succeed(r) /\ state # "HALF_OPEN"
  <2>1. UNCHANGED <<state, success_count, last_failure_age>>
    BY <1>3 DEF Succeed, OnSuccess
  <2> QED
    BY <1>3, <2>1 DEF ResetDue
<1>4. CASE ~Stale(r) /\ FailCounted(r)
  <2>1. OnFailure(r) /\ r \in Probes
    BY <1>4, FinishEffect DEF FailCounted, Probes
  <2>2. state \in {"CLOSED", "HALF_OPEN"}
    BY <2>1 DEF OpenIsSealed, TypeOK, CircuitState
  <2>3. CASE state' = "OPEN"
    <3>1. ResetDue' \in BOOLEAN
      BY DEF ResetDue
    <3>2. Promise!Trip
      BY <2>1, <2>2, <2>3, <3>1 DEF Promise!Trip
    <3> QED
      BY <3>2 DEF Promise!Next
  <2>4. CASE state' # "OPEN"
    <3>1. state = "CLOSED" /\ state' = "CLOSED"
      BY <1>4, <2>1, <2>2, <2>4 DEF OnFailure, Trips
    <3> QED
      BY <3>1 DEF ResetDue
  <2> QED
    BY <2>3, <2>4
<1>5. CASE ~Stale(r) /\ FailUncounted(r)
  <2>1. UNCHANGED <<state, success_count, last_failure_age, generation>>
    BY <1>5 DEF FailUncounted, ReleaseProbe
  <2>2. Probes' = Probes \ {r} /\ r \in Probes
    BY <1>5, <2>1, FinishProbes
  <2>3. CASE state = "HALF_OPEN"
    <3>1. Promise!GiveUp(r)
      BY <2>1, <2>2, <2>3 DEF Promise!GiveUp, ResetDue
    <3> QED
      BY <3>1 DEF Promise!Next
  <2>4. CASE state # "HALF_OPEN"
    BY <2>1, <2>4 DEF ResetDue
  <2> QED
    BY <2>3, <2>4
<1> QED
  BY <1>1, <1>2, <1>3, <1>4, <1>5

\* The passing of time cools the circuit down, or is invisible.
LEMMA EnvironmentRefines ==
  ASSUME IInv, Tick \/ Settle \/ UNCHANGED vars
  PROVE  [Promise!Next]_(Promise!promise)
<1> USE DEF IInv, Promise!promise
<1>1. UNCHANGED <<state, success_count, generation, call, call_generation>>
  BY DEF Tick, Settle, vars, breaker
<1>2. Probes' = Probes
  BY <1>1 DEF Probes, Stale
<1>3. CASE Tick
  <2>1. CASE ResetDue' = ResetDue
    BY <1>1, <1>2, <2>1
  <2>2. CASE ResetDue' # ResetDue
    <3>1. ResetDue' = TRUE /\ state = "OPEN"
      BY <1>1, <1>3, <2>2, BreakerAssumption DEF Tick, ResetDue, TypeOK
    <3>2. Promise!CoolDown
      BY <1>1, <1>2, <3>1 DEF Promise!CoolDown
    <3> QED
      BY <3>2 DEF Promise!Next
  <2> QED
    BY <2>1, <2>2
<1>4. CASE Settle \/ UNCHANGED vars
  <2>1. last_failure_age' = last_failure_age
    BY <1>4 DEF Settle, vars, breaker
  <2> QED
    BY <1>1, <1>2, <2>1 DEF ResetDue
<1> QED
  BY <1>3, <1>4

\* The breaker implements BreakerPromise, for every instance.
THEOREM Refinement == Spec => KeepsPromise
<1>1. Init => Promise!Init
  BY DEF Init, Promise!Init, ResetDue
<1>2. IInv /\ [Next]_vars => [Promise!Next]_(Promise!promise)
  <2> SUFFICES ASSUME IInv, [Next]_vars
               PROVE  [Promise!Next]_(Promise!promise)
    OBVIOUS
  <2>1. ASSUME NEW r \in Requests, Execute(r)
        PROVE  [Promise!Next]_(Promise!promise)
    BY <2>1, ExecuteRefines
  <2>2. ASSUME NEW r \in Requests,
               Succeed(r) \/ FailCounted(r) \/ FailUncounted(r)
        PROVE  [Promise!Next]_(Promise!promise)
    BY <2>2, OutcomeRefines
  <2>3. ASSUME Tick \/ Settle \/ UNCHANGED vars
        PROVE  [Promise!Next]_(Promise!promise)
    BY <2>3, EnvironmentRefines
  <2> QED
    BY <2>1, <2>2, <2>3 DEF Next
<1> QED
  BY <1>1, <1>2, Invariance, PTL DEF Spec, KeepsPromise, Promise!Spec

-----------------------------------------------------------------------------
(***************************************************************************)
(* The history: the counter of successes never runs ahead of the calls     *)
(* that began in the episode and have succeeded.                           *)
(***************************************************************************)

EpisodeRemembered ==
  /\ fresh_wins \in Nat
  /\ state = "HALF_OPEN" => success_count <= fresh_wins /\ Probes \subseteq fresh

HistoryInv == IInv /\ EpisodeRemembered

\* What a step does to the history that stays within the episode.
LEMMA WithinEpisode ==
  ASSUME Remember, ~Episode
  PROVE  /\ fresh' = (fresh \cup {r \in Requests : Starts(r)})
                     \ {r \in Requests : Finishes(r)}
         /\ fresh_wins \in Nat => fresh_wins' \in Nat /\ fresh_wins <= fresh_wins'
  BY DEF Remember

\* A call is admitted: in the episode it begins, or in the one it probes.
LEMMA ExecuteRemembered ==
  ASSUME HistoryInv, NEW r \in Requests, Execute(r), Remember
  PROVE  EpisodeRemembered'
<1> USE DEF HistoryInv
<1>1. CASE ExecuteFirstProbe(r)
  <2>1. /\ state = "OPEN" /\ state' = "HALF_OPEN" /\ success_count' = 0
        /\ generation' = generation + 1 /\ call[r] # "calling"
        /\ Begin(r, generation + 1)
    BY <1>1 DEF ExecuteFirstProbe, ResetDue
  <2>2. fresh_wins' = 0
    BY <2>1 DEF Remember, Episode
  <2>3. /\ call'[r] = "calling"
        /\ \A s \in Requests \ {r} : /\ call'[s] = call[s]
                                     /\ call_generation'[s] = call_generation[s]
    BY <2>1, BeginEffect DEF IInv, TypeOK
  <2>4. Probes' \subseteq {r}
    BY <2>1, <2>3 DEF Probes, Stale, IInv, TypeOK, GenerationBound
  <2>5. r \in fresh'
    BY <2>1, <2>3 DEF Remember, Starts, Finishes
  <2> QED
    BY <2>1, <2>2, <2>4, <2>5 DEF EpisodeRemembered
<1>2. CASE ExecuteProbe(r)
  <2>1. /\ state = "HALF_OPEN" /\ state' = state /\ call[r] # "calling"
        /\ UNCHANGED <<success_count, generation>> /\ Begin(r, generation)
    BY <1>2 DEF ExecuteProbe
  <2>2. /\ fresh' = (fresh \cup {s \in Requests : Starts(s)})
                    \ {s \in Requests : Finishes(s)}
        /\ fresh_wins' \in Nat /\ fresh_wins <= fresh_wins'
    BY <2>1, WithinEpisode DEF Episode, EpisodeRemembered
  <2>3. /\ call'[r] = "calling"
        /\ \A s \in Requests \ {r} : /\ call'[s] = call[s]
                                     /\ call_generation'[s] = call_generation[s]
    BY <2>1, BeginEffect DEF IInv, TypeOK
  <2>4. Probes' \subseteq fresh'
    <3>1. ASSUME NEW s \in Probes'  PROVE  s \in fresh'
      <4>1. s \in Requests /\ call'[s] = "calling"
        BY DEF Probes
      <4>2. CASE s = r
        BY <2>1, <2>2, <2>3, <4>1, <4>2 DEF Starts, Finishes
      <4>3. CASE s # r
        BY <2>1, <2>2, <2>3, <4>1, <4>3 DEF Probes, Stale, EpisodeRemembered, Finishes
      <4> QED
        BY <4>2, <4>3
    <3> QED
      BY <3>1
  <2>5. success_count' <= fresh_wins'
    BY <2>1, <2>2 DEF EpisodeRemembered, IInv, TypeOK
  <2> QED
    BY <2>2, <2>4, <2>5 DEF EpisodeRemembered
<1>3. CASE ExecuteClosed(r)
  <2>1. state = "CLOSED" /\ state' = "CLOSED"
    BY <1>3 DEF ExecuteClosed, breaker
  <2> QED
    BY <2>1, WithinEpisode DEF Episode, EpisodeRemembered
<1>4. CASE ExecuteRefused(r)
  <2>1. /\ call[r] # "calling" /\ call' = [call EXCEPT ![r] = "refused"]
        /\ UNCHANGED <<state, success_count, generation, call_generation>>
    BY <1>4 DEF ExecuteRefused, breaker
  <2>2. /\ fresh' = (fresh \cup {s \in Requests : Starts(s)})
                    \ {s \in Requests : Finishes(s)}
        /\ fresh_wins' \in Nat /\ fresh_wins <= fresh_wins'
    BY <2>1, WithinEpisode DEF Episode, EpisodeRemembered
  <2>3. \A s \in Requests : ~Finishes(s) /\ (call'[s] = "calling" => call[s] = "calling")
    BY <2>1 DEF Finishes, IInv, TypeOK
  <2>4. Probes' \subseteq Probes
    BY <2>1, <2>3 DEF Probes, Stale
  <2>5. state = "HALF_OPEN" => Probes' \subseteq fresh' /\ success_count' <= fresh_wins'
    <3>1. fresh \subseteq fresh' \cup (fresh \ Requests)
      BY <2>2, <2>3
    <3>2. Probes' \subseteq Requests
      BY DEF Probes
    <3>3. success_count <= fresh_wins => success_count <= fresh_wins'
      BY <2>2 DEF EpisodeRemembered, IInv, TypeOK
    <3> QED
      BY <2>1, <2>4, <3>1, <3>2, <3>3 DEF EpisodeRemembered
  <2> QED
    BY <2>1, <2>2, <2>5 DEF EpisodeRemembered
<1> QED
  BY <1>1, <1>2, <1>3, <1>4 DEF Execute

\* A call ends.  The success of a probe is one the history counts.
LEMMA OutcomeRemembered ==
  ASSUME HistoryInv, NEW r \in Requests,
         Succeed(r) \/ FailCounted(r) \/ FailUncounted(r), Remember
  PROVE  /\ EpisodeRemembered'
         /\ state # "CLOSED" /\ state' = "CLOSED" =>
              state = "HALF_OPEN" /\ fresh_wins' >= HalfOpenRequests
<1> USE DEF HistoryInv
<1>0. PICK outcome \in {"succeeded", "failed"} : Finish(r, outcome)
  BY DEF Succeed, FailCounted, FailUncounted
<1>1. /\ call[r] = "calling" /\ call_generation' = call_generation
      /\ call'[r] = outcome /\ \A s \in Requests \ {r} : call'[s] = call[s]
  BY <1>0, FinishEffect DEF IInv
<1>2. state \in CircuitState /\ success_count \in Nat /\ HalfOpenRequests \in Nat
  BY BreakerAssumption DEF IInv, TypeOK
<1>3. state' = "HALF_OPEN" => state = "HALF_OPEN" /\ generation' = generation
  BY <1>2 DEF Succeed, FailCounted, FailUncounted, OnSuccess, OnFailure, ReleaseProbe,
              breaker, CircuitState
<1>4. ~Episode
  BY <1>3 DEF Episode
<1>5. /\ fresh' = (fresh \cup {s \in Requests : Starts(s)})
                  \ {s \in Requests : Finishes(s)}
      /\ fresh_wins \in Nat /\ fresh_wins' \in Nat /\ fresh_wins <= fresh_wins'
  BY <1>4, WithinEpisode DEF EpisodeRemembered
<1>6. ASSUME state' = "HALF_OPEN"  PROVE  Probes' \subseteq fresh'
  <2>1. Probes' \subseteq Probes \ {r}
    BY <1>1, <1>3, <1>6 DEF Probes, Stale
  <2>2. \A s \in Probes \ {r} : ~Finishes(s)
    BY <1>1 DEF Probes, Finishes
  <2>3. Probes \subseteq fresh
    BY <1>3, <1>6 DEF EpisodeRemembered
  <2> QED
    BY <1>5, <2>1, <2>2, <2>3
<1>7. CASE success_count' = success_count
  <2>1. state' = "HALF_OPEN" => success_count' <= fresh_wins'
    BY <1>2, <1>3, <1>5, <1>7 DEF EpisodeRemembered
  <2>2. state' = "CLOSED" => state = "CLOSED"
    <3>1. CASE Succeed(r)
      BY <1>2, <1>7, <3>1 DEF Succeed, OnSuccess, breaker
    <3>2. CASE FailCounted(r)
      BY <3>2 DEF FailCounted, OnFailure, breaker
    <3>3. CASE FailUncounted(r)
      BY <3>3 DEF FailUncounted, ReleaseProbe
    <3> QED
      BY <3>1, <3>2, <3>3
  <2> QED
    BY <1>5, <1>6, <2>1, <2>2 DEF EpisodeRemembered
<1>8. CASE success_count' # success_count
  <2>1. /\ Succeed(r) /\ ~Stale(r) /\ state = "HALF_OPEN"
        /\ success_count' = success_count + 1
        /\ state' = "CLOSED" => LastSuccess
    BY <1>8 DEF Succeed, FailCounted, FailUncounted, OnSuccess, OnFailure, ReleaseProbe,
                breaker
  <2>2. r \in fresh /\ success_count <= fresh_wins
    BY <1>1, <2>1 DEF EpisodeRemembered, Probes
  <2>3. Finishes(r) /\ call'[r] = "succeeded"
    BY <1>1, <2>1 DEF Succeed, Finish, Finishes, IInv, TypeOK
  <2>4. fresh_wins' = fresh_wins + 1
    BY <1>4, <2>1, <2>2, <2>3 DEF Remember
  <2>5. success_count' <= fresh_wins'
    BY <1>2, <1>5, <2>1, <2>2, <2>4
  <2>6. state' = "CLOSED" => fresh_wins' >= HalfOpenRequests
    BY <1>2, <1>5, <2>1, <2>2, <2>4 DEF LastSuccess
  <2> QED
    BY <1>5, <1>6, <2>1, <2>5, <2>6 DEF EpisodeRemembered
<1> QED
  BY <1>7, <1>8

LEMMA EnvironmentRemembered ==
  ASSUME HistoryInv, Tick \/ Settle, Remember
  PROVE  EpisodeRemembered' /\ state' = state
<1>1. UNCHANGED <<state, success_count, generation, call, call_generation>>
  BY DEF Tick, Settle, breaker
<1>2. fresh' = fresh \/ fresh' = fresh \ {s \in Requests : FALSE}
  <2>1. \A s \in Requests : ~Starts(s) /\ ~Finishes(s)
    BY <1>1 DEF Starts, Finishes
  <2> QED
    BY <1>1, <2>1, WithinEpisode DEF Episode
<1>3. fresh_wins' \in Nat /\ fresh_wins \in Nat /\ fresh_wins <= fresh_wins'
  BY <1>1, WithinEpisode DEF Episode, HistoryInv, EpisodeRemembered
<1>4. Probes' = Probes
  BY <1>1 DEF Probes, Stale
<1>5. state = "HALF_OPEN" => success_count <= fresh_wins'
  BY <1>3 DEF HistoryInv, EpisodeRemembered, IInv, TypeOK
<1> QED
  BY <1>1, <1>2, <1>3, <1>4, <1>5 DEF HistoryInv, EpisodeRemembered

LEMMA HistoryInvAlways == HistorySpec => []HistoryInv
<1>1. Init /\ NoHistory => HistoryInv
  <2>1. NoHistory /\ Init => EpisodeRemembered
    BY DEF NoHistory, Init, EpisodeRemembered
  <2> QED
    BY <2>1, InitInv DEF HistoryInv
<1>2. HistoryInv /\ [Next /\ Remember]_<<vars, history>> => HistoryInv'
  <2> SUFFICES ASSUME HistoryInv, [Next /\ Remember]_<<vars, history>>
               PROVE  HistoryInv'
    OBVIOUS
  <2>1. [Next]_vars
    BY DEF vars, breaker
  <2>2. IInv'
    BY <2>1, NextInv DEF HistoryInv
  <2>3. CASE Next /\ Remember
    BY <2>2, <2>3, ExecuteRemembered, OutcomeRemembered, EnvironmentRemembered
    DEF Next, HistoryInv
  <2>4. CASE UNCHANGED <<vars, history>>
    <3>1. EpisodeRemembered'
      BY <2>4 DEF HistoryInv, EpisodeRemembered, vars, breaker, history, Probes, Stale
    <3> QED
      BY <2>2, <3>1 DEF HistoryInv
  <2> QED
    BY <2>3, <2>4
<1> QED
  BY <1>1, <1>2, PTL DEF HistorySpec

\* For any number of slots and any limits, a half-open circuit closes only on
\* successes of calls that began in its episode, as many as are asked for.
THEOREM ClosesOnFreshProbes == HistorySpec => ClosedByFreshProbes
<1> DEFINE Fresh == state # "CLOSED" /\ state' = "CLOSED" =>
                      state = "HALF_OPEN" /\ fresh_wins' >= HalfOpenRequests
<1>1. HistoryInv /\ [Next /\ Remember]_<<vars, history>> => [Fresh]_<<vars, history>>
  <2> SUFFICES ASSUME HistoryInv, Next, Remember  PROVE  Fresh
    OBVIOUS
  <2>1. ASSUME NEW r \in Requests, Execute(r)  PROVE  Fresh
    BY <2>1 DEF Execute, ExecuteClosed, ExecuteFirstProbe, ExecuteProbe, ExecuteRefused,
                breaker
  <2>2. ASSUME NEW r \in Requests, Succeed(r) \/ FailCounted(r) \/ FailUncounted(r)
        PROVE  Fresh
    BY <2>2, OutcomeRemembered
  <2>3. CASE Tick \/ Settle
    BY <2>3, EnvironmentRemembered
  <2> QED
    BY <2>1, <2>2, <2>3 DEF Next
<1> QED
  BY <1>1, HistoryInvAlways, PTL DEF HistorySpec, ClosedByFreshProbes

=============================================================================
