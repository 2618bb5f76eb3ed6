----------------------------- MODULE ProbeHistory -----------------------------
(***************************************************************************)
(* The circuit breaker with a history of its half-open episode, kept from  *)
(* what its callers see and not from the breaker's own counters: the       *)
(* running calls that began in the episode, and how many such calls have   *)
(* succeeded.                                                              *)
(***************************************************************************)
EXTENDS CircuitBreaker

VARIABLES
  fresh,      \* the running calls that began since the episode began
  fresh_wins  \* how many such calls have succeeded in this episode

history == <<fresh, fresh_wins>>

NoHistory == fresh = {} /\ fresh_wins = 0

Starts(r)   == call[r] # "calling" /\ call'[r] = "calling"
Finishes(r) == call[r] = "calling" /\ call'[r] # "calling"
Episode     == state = "OPEN" /\ state' = "HALF_OPEN"

Remember ==
  /\ fresh' = ((IF Episode THEN {} ELSE fresh) \cup {r \in Requests : Starts(r)})
              \ {r \in Requests : Finishes(r)}
  /\ fresh_wins' =
       IF Episode THEN 0
       ELSE IF \E r \in fresh : Finishes(r) /\ call'[r] = "succeeded"
              /\ state = "HALF_OPEN"
            THEN fresh_wins + 1
            ELSE fresh_wins

HistorySpec ==
  /\ Init /\ NoHistory
  /\ [][Next /\ Remember]_<<vars, history>>

\* A half-open circuit closes only after HalfOpenRequests calls that began
\* in this very episode succeeded; an open circuit never closes directly.
\* Successes of calls that began before the trip do not count, however late
\* they arrive.
ClosedByFreshProbes ==
  [][state # "CLOSED" /\ state' = "CLOSED" =>
       state = "HALF_OPEN" /\ fresh_wins' >= HalfOpenRequests]_<<vars, history>>

=============================================================================
