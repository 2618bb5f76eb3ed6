---------------------------- MODULE LaneAdmission ----------------------------
(***************************************************************************)
(* The embedding scheduler, EmbeddingLaneAdmission and the embedding       *)
(* branch of WorkloadAdmission.acquire (common/workload_admission.py).     *)
(*                                                                         *)
(* enter and leave run under an asyncio.Condition.  Its lock is FIFO, so   *)
(* `turns` is the queue of requests that want the lock, and each turn is   *)
(* one action: nothing between taking the lock and releasing it (or        *)
(* falling asleep on the condition) can be interleaved with another turn.  *)
(* A sleeping waiter runs in a task of its own (asyncio.wait_for of        *)
(* Python 3.11, the version of the image), which must take the lock again  *)
(* after a notification, and also after a timeout or a cancellation.       *)
(*                                                                         *)
(* One cancellation is left out: of a request that waits for the lock in   *)
(* leave, where the code would never give its slot back.                   *)
(***************************************************************************)
EXTENDS Integers, SequencesExt

CONSTANTS
  Requests,  \* request slots of the /embed route (a slot is reused)
  Capacity,  \* capacity
  Asks       \* Asks[r]: the lanes the requests of slot r may ask for

Lanes == {"news", "pods", "legacy"}

ASSUME LaneAssumption ==
  /\ IsFiniteSet(Requests)
  /\ Capacity \in Nat \ {0}
  /\ Asks \in [Requests -> SUBSET Lanes]

VARIABLES
  active,    \* _active: admitted requests per lane
  waiting,   \* _waiting: requests inside enter per lane
  lane,      \* lane[r]: the lane request r asked for
  phase,     \* phase[r]: how far request r has come
  sleepers,  \* the condition's _waiters, in the order notify_all wakes them
  turns      \* the queue of the condition's lock

vars == <<active, waiting, lane, phase, sleepers, turns>>

\* outside: not (or no longer) in the gate; arriving: about to enter; asleep
\* and woken: inside wait_for; expired and abandoned: timed out or cancelled,
\* about to give up; holding: admitted; leaving: about to leave; rejected:
\* answered with WorkloadOverloadedError.
Phases == {"outside", "arriving", "asleep", "woken", "expired", "abandoned",
           "holding", "leaving", "rejected"}

TypeOK ==
  /\ active \in [Lanes -> Nat]
  /\ waiting \in [Lanes -> Nat]
  /\ lane \in [Requests -> Lanes]
  /\ phase \in [Requests -> Phases]
  /\ sleepers \in Seq(Requests)
  /\ turns \in Seq(Requests)

Init ==
  /\ active = [l \in Lanes |-> 0]
  /\ waiting = [l \in Lanes |-> 0]
  /\ lane = [r \in Requests |-> "legacy"]
  /\ phase = [r \in Requests |-> "outside"]
  /\ sleepers = <<>>
  /\ turns = <<>>

-----------------------------------------------------------------------------
TotalActive == active["news"] + active["pods"] + active["legacy"]

Other(l) == IF l = "news" THEN "pods" ELSE "news"

\* Mutant of CanEnter: a lane in use ignores the other lane's waiters.
CanEnterIgnoringOther(l) ==
  /\ TotalActive < Capacity
  /\ l = "legacy" => waiting["news"] = 0 /\ waiting["pods"] = 0

\* _can_enter: legacy yields to any waiter of the two lanes; a lane that
\* holds nothing may take any free slot; a lane that holds one yields to the
\* other lane's waiters.
CanEnter(l) ==
  /\ TotalActive < Capacity
  /\ IF l = "legacy"
     THEN waiting["news"] = 0 /\ waiting["pods"] = 0
     ELSE active[l] = 0 \/ waiting[Other(l)] = 0

\* A request calls acquire and queues for the lock.
Arrive(r, l) ==
  /\ phase[r] \in {"outside", "rejected"}
  /\ lane' = [lane EXCEPT ![r] = l]
  /\ phase' = [phase EXCEPT ![r] = "arriving"]
  /\ turns' = Append(turns, r)
  /\ UNCHANGED <<active, waiting, sleepers>>

MyTurn(r, ph) == turns # <<>> /\ Head(turns) = r /\ phase[r] = ph

\* The first evaluation of the predicate, with _waiting already counting r.
EnterAtOnce(r) ==
  /\ MyTurn(r, "arriving")
  /\ CanEnter(lane[r])
  /\ active' = [active EXCEPT ![lane[r]] = @ + 1]
  /\ phase' = [phase EXCEPT ![r] = "holding"]
  /\ turns' = Tail(turns)
  /\ UNCHANGED <<waiting, lane, sleepers>>

EnterAndSleep(r) ==
  /\ MyTurn(r, "arriving")
  /\ ~CanEnter(lane[r])
  /\ waiting' = [waiting EXCEPT ![lane[r]] = @ + 1]
  /\ phase' = [phase EXCEPT ![r] = "asleep"]
  /\ sleepers' = Append(sleepers, r)
  /\ turns' = Tail(turns)
  /\ UNCHANGED <<active, lane>>

\* The predicate is evaluated again after a notification.
WakeAndEnter(r) ==
  /\ MyTurn(r, "woken")
  /\ CanEnter(lane[r])
  /\ active' = [active EXCEPT ![lane[r]] = @ + 1]
  /\ waiting' = [waiting EXCEPT ![lane[r]] = @ - 1]
  /\ phase' = [phase EXCEPT ![r] = "holding"]
  /\ turns' = Tail(turns)
  /\ UNCHANGED <<lane, sleepers>>

WakeAndSleep(r) ==
  /\ MyTurn(r, "woken")
  /\ ~CanEnter(lane[r])
  /\ phase' = [phase EXCEPT ![r] = "asleep"]
  /\ sleepers' = Append(sleepers, r)
  /\ turns' = Tail(turns)
  /\ UNCHANGED <<active, waiting, lane>>

\* The sleeping task is cancelled, by the timeout or with the request.  It
\* stops being notifiable at once and queues for the lock.  If it had just
\* been notified it keeps its place or, when it was already waiting for the
\* lock, starts again at the end.
StopWaiting(r, ph) ==
  /\ phase' = [phase EXCEPT ![r] = ph]
  /\ \/ /\ phase[r] = "asleep"
        /\ \E i \in DOMAIN sleepers :
             sleepers[i] = r /\ sleepers' = RemoveAt(sleepers, i)
        /\ turns' = Append(turns, r)
     \/ /\ phase[r] = "woken"
        /\ \E i \in DOMAIN turns :
             /\ turns[i] = r
             /\ turns' \in {turns, Append(RemoveAt(turns, i), r)}
        /\ UNCHANGED sleepers
  /\ UNCHANGED <<active, waiting, lane>>

\* ADMISSION_WAIT_SEC passes.
Expire(r) == StopWaiting(r, "expired")

CancelWaiting(r) == StopWaiting(r, "abandoned")

\* Cancelled before it ever held the lock: enter has done nothing yet.
CancelArriving(r) ==
  /\ phase[r] = "arriving"
  /\ phase' = [phase EXCEPT ![r] = "outside"]
  /\ \E i \in DOMAIN turns : turns[i] = r /\ turns' = RemoveAt(turns, i)
  /\ UNCHANGED <<active, waiting, lane, sleepers>>

\* Mutant of GiveUp: the decrement is not in a `finally`.
GiveUpUncounted(r) ==
  /\ \/ MyTurn(r, "expired") /\ phase' = [phase EXCEPT ![r] = "rejected"]
     \/ MyTurn(r, "abandoned") /\ phase' = [phase EXCEPT ![r] = "outside"]
  /\ turns' = Tail(turns)
  /\ UNCHANGED <<active, waiting, lane, sleepers>>

\* The `finally` of enter; acquire turns the timeout into a rejection.
\* Nobody is notified.
GiveUp(r) ==
  /\ \/ MyTurn(r, "expired") /\ phase' = [phase EXCEPT ![r] = "rejected"]
     \/ MyTurn(r, "abandoned") /\ phase' = [phase EXCEPT ![r] = "outside"]
  /\ waiting' = [waiting EXCEPT ![lane[r]] = @ - 1]
  /\ turns' = Tail(turns)
  /\ UNCHANGED <<active, lane, sleepers>>

\* The body of `async with acquire` ends, normally or by an exception.
Finish(r) ==
  /\ phase[r] = "holding"
  /\ phase' = [phase EXCEPT ![r] = "leaving"]
  /\ turns' = Append(turns, r)
  /\ UNCHANGED <<active, waiting, lane, sleepers>>

\* Mutant of Leave: notify() in place of notify_all().
LeaveNotifyOne(r) ==
  /\ MyTurn(r, "leaving")
  /\ active' = [active EXCEPT ![lane[r]] = @ - 1]
  /\ IF sleepers = <<>>
     THEN /\ phase' = [phase EXCEPT ![r] = "outside"]
          /\ turns' = Tail(turns)
          /\ UNCHANGED sleepers
     ELSE /\ phase' = [phase EXCEPT ![r] = "outside",
                                    ![Head(sleepers)] = "woken"]
          /\ turns' = Append(Tail(turns), Head(sleepers))
          /\ sleepers' = Tail(sleepers)
  /\ UNCHANGED <<waiting, lane>>

\* leave: free the slot and notify_all.
Leave(r) ==
  /\ MyTurn(r, "leaving")
  /\ active' = [active EXCEPT ![lane[r]] = @ - 1]
  /\ phase' = [q \in Requests |-> IF q = r THEN "outside"
                                  ELSE IF phase[q] = "asleep" THEN "woken"
                                  ELSE phase[q]]
  /\ turns' = Tail(turns) \o sleepers
  /\ sleepers' = <<>>
  /\ UNCHANGED <<waiting, lane>>

Turn(r) == \/ EnterAtOnce(r)
           \/ EnterAndSleep(r)
           \/ WakeAndEnter(r)
           \/ WakeAndSleep(r)
           \/ GiveUp(r)
           \/ Leave(r)

Next ==
  \E r \in Requests :
    \/ \E l \in Asks[r] : Arrive(r, l)
    \/ Turn(r)
    \/ Expire(r)
    \/ CancelWaiting(r)
    \/ CancelArriving(r)
    \/ Finish(r)

Spec == Init /\ [][Next]_vars

\* The event loop runs every ready turn and admitted work ends (the route
\* bounds it by asyncio.timeout).  Timeouts and cancellations are not forced:
\* what is promised below does not rest on them.
Fairness ==
  /\ WF_vars(\E r \in Requests : Turn(r))
  /\ \A r \in Requests : WF_vars(Finish(r))

FairSpec == Spec /\ Fairness

-----------------------------------------------------------------------------
(***************************************************************************)
(* Properties.                                                             *)
(***************************************************************************)

Holding == {"holding", "leaving"}
Waiting == {"asleep", "woken", "expired", "abandoned"}

Holders(l) == {r \in Requests : lane[r] = l /\ phase[r] \in Holding}
Waiters(l) == {r \in Requests : lane[r] = l /\ phase[r] \in Waiting}

\* The two counters the scheduling rule reads are exact in every
\* interleaving of timeouts, cancellations and notifications: no slot and no
\* waiter is counted twice, forgotten, or left behind by a request that gave
\* up.
CountersExact ==
  \A l \in Lanes : /\ active[l] = Cardinality(Holders(l))
                   /\ waiting[l] = Cardinality(Waiters(l))

\* At most Capacity requests are admitted at any time, over all lanes.
CapacityKept == TotalActive <= Capacity

\* The reserved floor ("one non-preemptive reserved floor per lane"): a
\* request of a lane that holds nothing never sleeps beside a free slot.
\* Every wake-up it needs reaches it.
FloorNeverAsleep ==
  \A r \in Requests :
    phase[r] = "asleep" /\ lane[r] # "legacy" /\ active[lane[r]] = 0 =>
      TotalActive >= Capacity

\* The floor is served: a waiting request of an empty lane sees its lane
\* admitted (unless it gives up itself), even if the other lane and legacy
\* traffic keep arriving and take their turns first.
Starved(r) == /\ phase[r] \in {"asleep", "woken"}
              /\ lane[r] # "legacy"
              /\ active[lane[r]] = 0
FloorServed == \A r \in Requests : Starved(r) ~> ~Starved(r)

\* What the rejection tells its caller, "workload is at capacity": a request
\* that slept until its timeout had no room to enter by the scheduler's own
\* rule.
RejectedOnlyAtCapacity ==
  [][\A r \in Requests :
       phase[r] = "asleep" /\ phase'[r] = "expired" =>
         ~CanEnter(lane[r])]_vars

=============================================================================
