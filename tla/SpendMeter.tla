----------------------------- MODULE SpendMeter -----------------------------
(***************************************************************************)
(* SpendMeter (llm/clients/spend_meter.py): callers enqueue usage events,  *)
(* a worker task delivers them to the CMS in batches with a bounded number *)
(* of attempts, cumulative per-tenant counters are published as "health",  *)
(* and close drains within a deadline.  The CMS acknowledges each event    *)
(* by its id; it may store an event and still fail to say so.              *)
(*                                                                         *)
(* Data that no property tells apart is abstracted: the queue and a batch  *)
(* are sets, the two counters that no event feeds (unobservable,           *)
(* guard_unavailable) only matter through the tenant entry they create,    *)
(* and a health request reaches the CMS before the next one is sent, so    *)
(* its sequence number is left out.                                        *)
(***************************************************************************)
EXTENDS Integers, FiniteSets

CONSTANTS
  Events,         \* the events ever enqueued, each with its own event_id
  Tenants,
  tenant_id,      \* tenant_id[e]: the tenant an event is counted for
  QueueCapacity,  \* QUEUE_CAPACITY
  BatchSize,      \* BATCH_SIZE
  MaxAttempts,    \* MAX_DELIVERY_ATTEMPTS
  GetInTask       \* asyncio.wait_for runs queue.get in a task of its own
                  \* (Python 3.11, the image) or in place (from 3.12 on)

ASSUME MeterAssumption ==
  /\ IsFiniteSet(Events)
  /\ tenant_id \in [Events -> Tenants]
  /\ QueueCapacity \in Nat \ {0}
  /\ BatchSize \in Nat \ {0}
  /\ MaxAttempts \in Nat \ {0}
  /\ GetInTask \in BOOLEAN

VARIABLES
  accepting,  \* _accepting
  closed,     \* _closed
  known,      \* tenants with an entry in _counts
  emitted,    \* _counts[t]["emitted"]
  accepted,   \* _counts[t]["accepted"]
  dropped,    \* _counts[t]["dropped"]
  issued,     \* events enqueue was called with
  queue,      \* _queue
  got,        \* the result of a finished get task the worker has not seen
  inflight,   \* pending and _inflight, the unresolved part of the batch
  attempt,    \* attempts made for the batch
  worker,     \* where _run is
  closer,     \* where close is
  left,       \* tenants publish_health has still to report
  stored,     \* events the CMS has stored
  reported    \* reported[t]: the last health the CMS has of tenant t

counters == <<emitted, accepted, dropped>>
buffers == <<queue, got, inflight>>
vars == <<accepting, closed, known, counters, issued, buffers, attempt,
          worker, closer, left, stored, reported>>

WorkerStates == {"unstarted", "waiting", "got", "sending", "backoff",
                 "reporting", "idle_reporting", "stopped"}
CloserStates == {"open", "joining", "gathering", "publishing", "done"}

Health == [emitted : Nat, accepted : Nat, dropped : Nat, closed : BOOLEAN]
Unreported == [emitted |-> 0, accepted |-> 0, dropped |-> 0, closed |-> FALSE]

TypeOK ==
  /\ accepting \in BOOLEAN
  /\ closed \in BOOLEAN
  /\ known \subseteq Tenants
  /\ emitted \in [Tenants -> Nat]
  /\ accepted \in [Tenants -> Nat]
  /\ dropped \in [Tenants -> Nat]
  /\ issued \subseteq Events
  /\ queue \subseteq Events
  /\ got \subseteq Events
  /\ inflight \subseteq Events
  /\ attempt \in 0 .. MaxAttempts - 1
  /\ worker \in WorkerStates
  /\ closer \in CloserStates
  /\ left \subseteq Tenants
  /\ stored \subseteq Events
  /\ reported \in [Tenants -> Health]

Init ==
  /\ accepting = TRUE
  /\ closed = FALSE
  /\ known = {}
  /\ emitted = [t \in Tenants |-> 0]
  /\ accepted = [t \in Tenants |-> 0]
  /\ dropped = [t \in Tenants |-> 0]
  /\ issued = {}
  /\ queue = {}
  /\ got = {}
  /\ inflight = {}
  /\ attempt = 0
  /\ worker = "unstarted"
  /\ closer = "open"
  /\ left = {}
  /\ stored = {}
  /\ reported = [t \in Tenants |-> Unreported]

-----------------------------------------------------------------------------
Of(S, t) == {e \in S : tenant_id[e] = t}

\* The counters after the events of S are added to them.
Plus(counter, S) == [t \in Tenants |-> counter[t] + Cardinality(Of(S, t))]

\* The first steps of the process: start creates the worker task.
Start ==
  /\ worker = "unstarted"
  /\ closer = "open"
  /\ worker' = "waiting"
  /\ UNCHANGED <<accepting, closed, known, counters, issued, buffers,
                 attempt, closer, left, stored, reported>>

\* enqueue: the event is buffered ...
Buffer(e) ==
  /\ e \notin issued
  /\ accepting
  /\ Cardinality(queue) < QueueCapacity
  /\ issued' = issued \cup {e}
  /\ known' = known \cup {tenant_id[e]}
  /\ emitted' = Plus(emitted, {e})
  /\ queue' = queue \cup {e}
  /\ UNCHANGED <<accepting, closed, accepted, dropped, got, inflight, attempt,
                 worker, closer, left, stored, reported>>

\* ... or counted as lost, when the meter closes or the queue is full.
Refuse(e) ==
  /\ e \notin issued
  /\ ~accepting \/ Cardinality(queue) >= QueueCapacity
  /\ issued' = issued \cup {e}
  /\ known' = known \cup {tenant_id[e]}
  /\ emitted' = Plus(emitted, {e})
  /\ dropped' = Plus(dropped, {e})
  /\ UNCHANGED <<accepting, closed, accepted, buffers, attempt, worker,
                 closer, left, stored, reported>>

\* unobservable_attempt and guard_unavailable: the tenant gets an entry.
Observe(t) ==
  /\ t \notin known
  /\ known' = known \cup {t}
  /\ UNCHANGED <<accepting, closed, counters, issued, buffers, attempt,
                 worker, closer, left, stored, reported>>

-----------------------------------------------------------------------------
(***************************************************************************)
(* The worker.                                                             *)
(***************************************************************************)

\* Python 3.11: the get task finishes before the worker runs again.
Get(e) ==
  /\ GetInTask
  /\ worker = "waiting"
  /\ e \in queue
  /\ queue' = queue \ {e}
  /\ got' = {e}
  /\ worker' = "got"
  /\ UNCHANGED <<accepting, closed, known, counters, issued, inflight, attempt,
                 closer, left, stored, reported>>

\* The worker has a first event and takes what else the queue holds.
TakeBatch(rest) ==
  /\ IF GetInTask THEN worker = "got"
                  ELSE worker = "waiting" /\ rest # {}
  /\ LET room == BatchSize - Cardinality(got) IN
       IF Cardinality(queue) <= room THEN rest = queue
                                     ELSE Cardinality(rest) = room
  /\ inflight' = got \cup rest
  /\ queue' = queue \ rest
  /\ got' = {}
  /\ attempt' = 0
  /\ worker' = "sending"
  /\ UNCHANGED <<accepting, closed, known, counters, issued, closer, left,
                 stored, reported>>

\* The CMS stores an event of the request that is under way.
CmsStore(e) ==
  /\ worker = "sending"
  /\ e \in inflight \ stored
  /\ stored' = stored \cup {e}
  /\ UNCHANGED <<accepting, closed, known, counters, issued, buffers, attempt,
                 worker, closer, left, reported>>

\* The outcomes of a request: `acked` were inserted or are duplicates,
\* `invalid` were refused for good, the rest is not answered for.  A request
\* that fails answers for none.
Acked == SUBSET (inflight \cap stored)
Invalid == SUBSET (inflight \ stored)

\* Mutant of CountAnswers: an HTTP success stands for the acknowledgements.
CountAnswersOnSuccess(acked, invalid) ==
  /\ accepted' = Plus(accepted, inflight \ invalid)
  /\ UNCHANGED <<accepting, closed, known, emitted, issued, queue, got, closer,
                 stored, reported>>

CountAnswers(acked, invalid) ==
  /\ accepted' = Plus(accepted, acked)
  /\ UNCHANGED <<accepting, closed, known, emitted, issued, queue, got, closer,
                 stored, reported>>

\* Every event of the batch is resolved: publish_health follows.
Resolve(acked, invalid) ==
  /\ worker = "sending"
  /\ CountAnswers(acked, invalid)
  /\ inflight = acked \cup invalid
  /\ dropped' = Plus(dropped, invalid)
  /\ inflight' = {}
  /\ worker' = "reporting"
  /\ left' = known
  /\ UNCHANGED attempt

\* Mutant of Retry: the attempts are not counted.
RetryUncounted(acked, invalid) ==
  /\ worker = "sending"
  /\ CountAnswers(acked, invalid)
  /\ inflight # acked \cup invalid
  /\ attempt + 1 < MaxAttempts
  /\ dropped' = Plus(dropped, invalid)
  /\ inflight' = inflight \ (acked \cup invalid)
  /\ worker' = "backoff"
  /\ UNCHANGED <<attempt, left>>

Retry(acked, invalid) ==
  /\ worker = "sending"
  /\ CountAnswers(acked, invalid)
  /\ inflight # acked \cup invalid
  /\ attempt + 1 < MaxAttempts
  /\ dropped' = Plus(dropped, invalid)
  /\ inflight' = inflight \ (acked \cup invalid)
  /\ attempt' = attempt + 1
  /\ worker' = "backoff"
  /\ UNCHANGED left

\* The last attempt leaves events unresolved: they are dropped.
GiveUp(acked, invalid) ==
  /\ worker = "sending"
  /\ CountAnswers(acked, invalid)
  /\ inflight # acked \cup invalid
  /\ attempt + 1 = MaxAttempts
  /\ dropped' = Plus(dropped, inflight \ acked)
  /\ inflight' = {}
  /\ worker' = "reporting"
  /\ left' = known
  /\ UNCHANGED attempt

AttemptEnds(acked, invalid) == \/ Resolve(acked, invalid)
                               \/ Retry(acked, invalid)
                               \/ GiveUp(acked, invalid)

BackoffEnds ==
  /\ worker = "backoff"
  /\ worker' = "sending"
  /\ UNCHANGED <<accepting, closed, known, counters, issued, buffers, attempt,
                 closer, left, stored, reported>>

\* Thirty seconds without an event.
IdleHealth ==
  /\ worker = "waiting"
  /\ queue = {}
  /\ known # {}
  /\ worker' = "idle_reporting"
  /\ left' = known
  /\ UNCHANGED <<accepting, closed, known, counters, issued, buffers, attempt,
                 closer, stored, reported>>

-----------------------------------------------------------------------------
(***************************************************************************)
(* publish_health, run by the worker or, at the end, by close.             *)
(***************************************************************************)

HealthOf(t) == [emitted |-> emitted[t], accepted |-> accepted[t],
                dropped |-> dropped[t], closed |-> closed]

WorkerReports == worker \in {"reporting", "idle_reporting"}
Publishing == WorkerReports \/ closer = "publishing"

PublishEnds ==
  IF left' # {} THEN UNCHANGED <<worker, closer>>
  ELSE /\ worker' = IF WorkerReports THEN "waiting" ELSE worker
       /\ closer' = IF closer = "publishing" THEN "done" ELSE closer

\* The CMS takes one tenant's health and answers.
Publish(t) ==
  /\ Publishing
  /\ t \in left
  /\ reported' = [reported EXCEPT ![t] = HealthOf(t)]
  /\ left' = left \ {t}
  /\ PublishEnds
  /\ UNCHANGED <<accepting, closed, known, counters, issued, buffers, attempt,
                 stored>>

\* The request fails, stored or not: the exception (in close, also the one
\* second deadline) ends publish_health, and the other tenants are skipped.
PublishFails(t) ==
  /\ Publishing
  /\ t \in left
  /\ reported' \in {reported, [reported EXCEPT ![t] = HealthOf(t)]}
  /\ left' = {}
  /\ PublishEnds
  /\ UNCHANGED <<accepting, closed, known, counters, issued, buffers, attempt,
                 stored>>

-----------------------------------------------------------------------------
(***************************************************************************)
(* close.                                                                  *)
(***************************************************************************)

\* Mutant of Close: the meter says it is closed before it has drained.
CloseDeclaredFirst ==
  /\ closer = "open"
  /\ accepting' = FALSE
  /\ closed' = TRUE
  /\ closer' = IF worker = "unstarted" THEN "gathering" ELSE "joining"
  /\ UNCHANGED <<known, counters, issued, buffers, attempt, worker,
                 left, stored, reported>>

\* A worker that was never started is neither joined nor cancelled.
Close ==
  /\ closer = "open"
  /\ accepting' = FALSE
  /\ closer' = IF worker = "unstarted" THEN "gathering" ELSE "joining"
  /\ UNCHANGED <<closed, known, counters, issued, buffers, attempt, worker,
                 left, stored, reported>>

\* worker.cancel().  wait_for of Python 3.11 returns the result of a get task
\* that is already done and the cancellation is lost.
CancelWorker ==
  /\ closer' = "gathering"
  /\ IF worker = "got"
     THEN UNCHANGED <<worker, left>>
     ELSE worker' = "stopped" /\ left' = {}
  /\ UNCHANGED <<accepting, closed, known, counters, issued, buffers, attempt,
                 stored, reported>>

\* What queue.join() waits for: a batch is marked done after its health.
Unfinished ==
  queue # {} \/ worker \in {"got", "sending", "backoff", "reporting"}

Joined ==
  /\ closer = "joining"
  /\ ~Unfinished
  /\ CancelWorker

\* SHUTDOWN_DRAIN_SEC passes.
JoinTimesOut ==
  /\ closer = "joining"
  /\ Unfinished
  /\ CancelWorker

\* Mutant of Drain: _inflight is cleared before it is copied.
DrainForgettingInflight ==
  /\ closer = "gathering"
  /\ worker \in {"unstarted", "stopped"}
  /\ dropped' = Plus(dropped, queue)
  /\ queue' = {}
  /\ inflight' = {}
  /\ closed' = TRUE
  /\ left' = known
  /\ closer' = IF known = {} THEN "done" ELSE "publishing"
  /\ UNCHANGED <<accepting, known, emitted, accepted, issued, got, attempt,
                 worker, stored, reported>>

\* The worker has ended: what it left and what is queued is lost, and the
\* final health is published.
Drain ==
  /\ closer = "gathering"
  /\ worker \in {"unstarted", "stopped"}
  /\ dropped' = Plus(dropped, inflight \cup queue)
  /\ queue' = {}
  /\ inflight' = {}
  /\ closed' = TRUE
  /\ left' = known
  /\ closer' = IF known = {} THEN "done" ELSE "publishing"
  /\ UNCHANGED <<accepting, known, emitted, accepted, issued, got, attempt,
                 worker, stored, reported>>

-----------------------------------------------------------------------------
Callers == \/ \E e \in Events : Buffer(e) \/ Refuse(e)
           \/ \E t \in Tenants : Observe(t)

Worker == \/ \E e \in Events : Get(e)
          \/ \E rest \in SUBSET queue : TakeBatch(rest)
          \/ \E acked \in Acked, invalid \in Invalid :
               AttemptEnds(acked, invalid)
          \/ BackoffEnds

Closer == Joined \/ JoinTimesOut \/ Drain

PublishStep == \E t \in Tenants : Publish(t) \/ PublishFails(t)

Next == \/ Start
        \/ Callers
        \/ Worker
        \/ IdleHealth
        \/ \E e \in Events : CmsStore(e)
        \/ PublishStep
        \/ Close
        \/ Closer

Spec == Init /\ [][Next]_vars

\* The event loop runs ready tasks, every request to the CMS ends (the HTTP
\* client has a timeout), and timers fire.  Nothing is asked of the CMS.
Fairness == /\ WF_vars(Start)
            /\ WF_vars(Worker)
            /\ WF_vars(PublishStep)
            /\ WF_vars(Closer)

FairSpec == Spec /\ Fairness

-----------------------------------------------------------------------------
(***************************************************************************)
(* Properties.                                                             *)
(***************************************************************************)

Buffered == queue \cup got \cup inflight

\* The ledger balances for every tenant in every state: each emitted event
\* is accepted, dropped or still held, exactly once, whatever retries,
\* partial acknowledgements, a cancelled worker or the final drain do.
Conservation ==
  \A t \in Tenants :
    emitted[t] = accepted[t] + dropped[t] + Cardinality(Of(Buffered, t))

\* `accepted` never overstates: it counts events the CMS has durably stored,
\* never a request that merely succeeded ("durable per-UUID
\* acknowledgements").
AcceptedIsStored ==
  \A t \in Tenants : accepted[t] <= Cardinality(Of(stored, t))

\* A health the CMS holds as closed accounts for everything the tenant had
\* emitted: shutdown does not report closed before all buffered work is
\* accounted.
ClosedHealthComplete ==
  \A t \in Tenants :
    reported[t].closed =>
      reported[t].emitted = reported[t].accepted + reported[t].dropped

\* No event stays in the buffers: it is accepted or counted as lost, even if
\* the CMS never answers again.
EventsSettled == \A e \in Events : e \in Buffered ~> e \notin Buffered

\* close comes to its end, with or without the CMS.
CloseEnds == closer = "joining" ~> closer = "done"

=============================================================================
