--------------------------- MODULE BreakerPromise ---------------------------
(***************************************************************************)
(* What a circuit breaker promises to the client that owns it, without     *)
(* generations, counters of failures or clocks:                            *)
(*                                                                         *)
(*   - a closed circuit may trip at any time;                              *)
(*   - a tripped circuit lets nothing through until it has cooled down;    *)
(*   - then at most Permits probes run at a time, one unlucky probe trips  *)
(*     the circuit again and Permits lucky ones close it;                  *)
(*   - nothing else ever changes it, whatever calls from before the trip   *)
(*     still have to report.                                               *)
(***************************************************************************)
EXTENDS Integers, FiniteSets

CONSTANTS
  Callers,   \* who may hold a probe permit
  Permits    \* lucky probes needed to close, and probes allowed at a time

VARIABLES
  mode,      \* "CLOSED", "OPEN" or "HALF_OPEN"
  cooled,    \* the open circuit may be probed
  probing,   \* the callers whose probe is running
  lucky      \* probes of this episode that succeeded

promise == <<mode, cooled, probing, lucky>>

Init ==
  /\ mode = "CLOSED"
  /\ cooled = FALSE
  /\ probing = {}
  /\ lucky = 0

Trip ==
  /\ mode \in {"CLOSED", "HALF_OPEN"}
  /\ mode = "HALF_OPEN" => probing # {}
  /\ mode' = "OPEN"
  /\ cooled' \in BOOLEAN
  /\ probing' = {}
  /\ lucky' = 0

CoolDown ==
  /\ mode = "OPEN"
  /\ cooled' = TRUE
  /\ UNCHANGED <<mode, probing, lucky>>

FirstProbe(c) ==
  /\ mode = "OPEN"
  /\ cooled
  /\ mode' = "HALF_OPEN"
  /\ cooled' = FALSE
  /\ probing' = {c}
  /\ lucky' = 0

Probe(c) ==
  /\ mode = "HALF_OPEN"
  /\ c \notin probing
  /\ Cardinality(probing) < Permits
  /\ probing' = probing \cup {c}
  /\ UNCHANGED <<mode, cooled, lucky>>

Lucky(c) ==
  /\ mode = "HALF_OPEN"
  /\ c \in probing
  /\ IF lucky + 1 = Permits
     THEN mode' = "CLOSED" /\ probing' = {} /\ lucky' = 0
     ELSE mode' = mode /\ probing' = probing \ {c} /\ lucky' = lucky + 1
  /\ UNCHANGED cooled

GiveUp(c) ==
  /\ mode = "HALF_OPEN"
  /\ c \in probing
  /\ probing' = probing \ {c}
  /\ UNCHANGED <<mode, cooled, lucky>>

Next ==
  \/ Trip
  \/ CoolDown
  \/ \E c \in Callers : FirstProbe(c) \/ Probe(c) \/ Lucky(c) \/ GiveUp(c)

Spec == Init /\ [][Next]_promise

=============================================================================
